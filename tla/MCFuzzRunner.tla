---------------------------- MODULE MCFuzzRunner ----------------------------
(* Small targets and inputs for FuzzRunner. *)
EXTENDS FuzzRunner

(* One byte of 1011 can go only when another has gone. *)
Chained ==
    [x \in Inputs |->
        [end |-> IF x \in {<<1, 0, 1, 1>>, <<1, 0, 1>>, <<0, 1>>} THEN "segv"
                 ELSE IF x \in {<<1>>, <<1, 1>>} THEN "abort" ELSE "exit",
         cov |-> IF Len(x) >= 3 THEN {"e2"} ELSE IF Len(x) >= 1 THEN {"e1"} ELSE {}]]

(* Crashes on an even number of bytes, hangs on three. *)
Parity ==
    [x \in Inputs |->
        [end |-> IF Len(x) \in {2, 4} THEN "segv" ELSE IF Len(x) = 3 THEN "hang" ELSE "exit",
         cov |-> IF Len(x) = 1 THEN {IF x[1] = 1 THEN "e1" ELSE "e2"} ELSE {}]]

(* Never crashes: each length is new. *)
Clean ==
    [x \in Inputs |-> [end |-> "exit", cov |-> IF Len(x) = 1 THEN {"e1"} ELSE
                                               IF Len(x) = 2 THEN {"e2"} ELSE {}]]

MCTargets == {Chained, Parity, Clean}
MCCorpora == {<< >>, (SeedFile :> <<0>>), (SeedFile :> <<0>>) @@ (4 :> <<1>>)}
MCHavoc   == {<< >>, <<1>>, <<0, 1>>, <<1, 0, 1, 1>>}
=============================================================================
