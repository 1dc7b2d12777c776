---------------------------- MODULE CleanupStack ----------------------------
(***************************************************************************)
(* What the language promises of cleanups (docs/language/error-handling.md, *)
(* "Deferred statements run in LIFO order ... and fire on normal scope exit, *)
(* early return, ? propagation, throw"): the cleanups an execution of a     *)
(* function has registered form a stack; leaving a block runs some of them  *)
(* from the top, and leaving the function runs all that are left.           *)
(***************************************************************************)
EXTENDS SequencesExt

CONSTANT Cleanups

VARIABLES pending,   \* cleanups registered and not yet run, oldest first
          ran,       \* cleanups the last step ran, in the order they ran
          place      \* "inside" the function, or it has been "left"

Init == pending = << >> /\ ran = << >> /\ place = "inside"

(* A defer, the callbacks of a #scope, or a step that registers nothing. *)
Register ==
    /\ pending' \in Seq(Cleanups) /\ IsPrefix(pending, pending')
    /\ ran' = << >>
    /\ UNCHANGED place

LeaveBlock ==
    /\ \E n \in 0 .. Len(pending) :
          /\ pending' = SubSeq(pending, 1, n)
          /\ ran' = Reverse(SubSeq(pending, n + 1, Len(pending)))
    /\ UNCHANGED place

LeaveFunction ==
    /\ ran' = Reverse(pending)
    /\ pending' = << >>
    /\ place' = "left"

Next == place = "inside" /\ (Register \/ LeaveBlock \/ LeaveFunction)

Spec == Init /\ [][Next]_<<pending, ran, place>>
=============================================================================
