----------------------------- MODULE TestReport -----------------------------
(***************************************************************************)
(* What `lucis test` promises its user (docs/stdlib/test.md, the comments   *)
(* of test_runner.h): each test gets one verdict, which nothing changes     *)
(* later; verdicts are reached in any order and printed in the order of the *)
(* tests; when all are printed the exit code tells whether one was FAIL.    *)
(***************************************************************************)
EXTENDS Integers, Sequences

CONSTANT Total

VARIABLES verdict,   \* of each test: "open", or "PASS", "FAIL" or "SKIP"
          printed,   \* the verdicts printed, in order
          code       \* the exit code; -1 while there is none

Tests == 0 .. (Total - 1)

Init ==
    /\ verdict = [i \in Tests |-> "open"]
    /\ printed = << >>
    /\ code = -1

Decide(i) ==
    /\ verdict[i] = "open"
    /\ \E v \in {"PASS", "FAIL", "SKIP"} : verdict' = [verdict EXCEPT ![i] = v]
    /\ UNCHANGED <<printed, code>>

PrintNext ==
    /\ Len(printed) \in Tests /\ verdict[Len(printed)] # "open"
    /\ printed' = Append(printed, verdict[Len(printed)])
    /\ UNCHANGED <<verdict, code>>

Finish ==
    /\ code = -1 /\ Len(printed) = Total
    /\ code' = IF \E k \in 1 .. Total : printed[k] = "FAIL" THEN 1 ELSE 0
    /\ UNCHANGED <<verdict, printed>>

Next == (\E i \in Tests : Decide(i)) \/ PrintNext \/ Finish

Spec == Init /\ [][Next]_<<verdict, printed, code>>
=============================================================================
