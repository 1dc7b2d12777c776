--------------------------- MODULE MCScopeCleanup ---------------------------
(* Symmetry of ScopeCleanup for TLC. *)
EXTENDS ScopeCleanup

MCSymmetry == Permutations(Defers) \cup Permutations(Callbacks) \cup Permutations(Locals)
=============================================================================
