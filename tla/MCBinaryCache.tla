--------------------------- MODULE MCBinaryCache ---------------------------
(* Instances of BinaryCache for TLC.  Pids are interchangeable. *)
EXTENDS BinaryCache, TLC

MCStem == [c \in CSources |-> c]
Pids   == Permutations(Builders)
=============================================================================
