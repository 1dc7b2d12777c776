---------------------------- MODULE MCTestRunner ----------------------------
(* Instances of TestRunner for TLC: the attribute and body sets the runs use. *)
EXTENDS TestRunner

Plain    == [skip |-> FALSE, expectFail |-> FALSE, timeout |-> FALSE]
Skipped  == [skip |-> TRUE,  expectFail |-> FALSE, timeout |-> FALSE]
Inverted == [skip |-> FALSE, expectFail |-> TRUE,  timeout |-> FALSE]
Timed    == [skip |-> FALSE, expectFail |-> FALSE, timeout |-> TRUE]

Behaves(n, f) == [out |-> n, fate |-> f]

(* Every kind of attribute; whatever is run has a timeout. *)
MixedAttrs  == {Timed, Skipped, [Inverted EXCEPT !.timeout = TRUE]}

(* Every ending a body can have, with less or more output than a pipe holds. *)
MixedBodies == {Behaves(0, "hang"), Behaves(6, "abort"), Behaves(3, "return"),
                Behaves(1, "exit1")}

PlainAttrs  == {Plain}
QuietBodies == {Behaves(0, "return")}
=============================================================================
