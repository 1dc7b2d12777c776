----------------------------- MODULE TestRunner -----------------------------
(***************************************************************************)
(* The test harness a `lucis test` binary runs: builtins/test/test_runner.c *)
(* driven by the main() that IRGen_test.cpp synthesizes.  The parent calls  *)
(* lucis_test_run once per test, in index order; each call forks a child    *)
(* whose stdout and stderr go to a capture pipe; children are reaped and    *)
(* reported in index order.                                                 *)
(*                                                                          *)
(* The parent is split into steps where it can be interleaved with the      *)
(* children: at every waitpid and at every iteration of its loops.  The     *)
(* kernel's part (processes, pipes, the interval timer) and the test body   *)
(* are external and modelled from how the runner uses them.                 *)
(***************************************************************************)
EXTENDS Integers, Sequences, FiniteSets

CONSTANTS Total,        \* number of collected tests (testCases_.size())
          JobsOption,   \* the -j value passed to lucis_test_begin
          Verbose,      \* the -v flag
          Attrs,        \* [skip, expectFail, timeout] triples a test may carry
          Bodies,       \* [out, fate] behaviours a test body may have
          BufCap,       \* stdio block of a child whose stdout is a pipe
          PipeCap,      \* capacity of the capture pipe
          MaxCaptured,  \* MAX_CAPTURED_OUTPUT
          ForkMayFail   \* whether pipe()/fork() may fail

Slots == 0 .. (Total - 1)

(* How a test body ends: it returns to its wrapper, calls exit(0) (std::test *)
(* skip) or exit(1), aborts (a failed assertion, a crash), or never ends.    *)
Fates == {"return", "exit0", "exit1", "abort", "hang"}

ASSUME RunnerAssumption ==
    /\ Total \in Nat
    /\ JobsOption \in Int
    /\ Verbose \in BOOLEAN
    /\ ForkMayFail \in BOOLEAN
    /\ Attrs \subseteq [skip : BOOLEAN, expectFail : BOOLEAN, timeout : BOOLEAN]
    /\ Bodies \subseteq [out : Nat, fate : Fates]
    /\ BufCap \in Nat \ {0}
    /\ PipeCap \in Nat
    /\ PipeCap % BufCap = 0
    /\ MaxCaptured \in Nat

VARIABLES
    pc,              \* where the parent is
    index,           \* next index lucis_test_run is called with
    attr,            \* slot->skip, expectFail and timeoutMs > 0
    running,         \* slots with slot->running set
    kind,            \* slot->result.kind
    captured,        \* slot->result.outputLen
    g_passed, g_failed, g_skipped,
    g_nextToReport, g_runningCount,
    sweepAt,         \* i of reapThrough's non-blocking sweep
    log,             \* status lines printed, in order, with the output echoed
    exitCode,        \* what lucis_test_end returned (-1: not yet)
    proc,            \* the kernel's view of each child
    body,            \* the behaviour of each child's test body
    todo,            \* output the body has still to print
    buf,             \* output in the child's stdio buffer
    pipe,            \* output in the capture pipe
    status           \* wait status of a dead child

slotVars   == <<attr, running, kind, captured>>
counters   == <<g_passed, g_failed, g_skipped, g_nextToReport, log>>
childVars  == <<proc, body, todo, buf, pipe, status>>
parentVars == <<pc, index, slotVars, counters, g_runningCount, sweepAt, exitCode>>
vars       == <<parentVars, childVars>>

Smaller(a, b) == IF a < b THEN a ELSE b

(* lucis_test_begin clamps the requested parallelism to 1 .. max(1, total). *)
g_jobs ==
    IF JobsOption < 1 \/ Total < 1 THEN 1 ELSE Smaller(JobsOption, Total)

PCs      == {"run", "reportThrough", "reap", "sweep", "oldest", "end", "done"}
Kinds    == {"PASS", "FAIL", "SKIP"}
Statuses == {"none", "exit0", "exit1", "signal", "alarm"}
Lines    == [slot : Slots, tag : Kinds, echoed : Nat]

(* calloc zeroes the slots: OUTCOME_PASS is 0. *)
NoAttr == [skip |-> FALSE, expectFail |-> FALSE, timeout |-> FALSE]
NoBody == [out |-> 0, fate |-> "return"]

Init ==
    /\ pc = "run"
    /\ index = 0
    /\ attr = [i \in Slots |-> NoAttr]
    /\ running = {}
    /\ kind = [i \in Slots |-> "PASS"]
    /\ captured = [i \in Slots |-> 0]
    /\ g_passed = 0 /\ g_failed = 0 /\ g_skipped = 0
    /\ g_nextToReport = 0
    /\ g_runningCount = 0
    /\ sweepAt = 0
    /\ log = << >>
    /\ exitCode = -1
    /\ proc = [i \in Slots |-> "none"]
    /\ body = [i \in Slots |-> NoBody]
    /\ todo = [i \in Slots |-> 0]
    /\ buf = [i \in Slots |-> 0]
    /\ pipe = [i \in Slots |-> 0]
    /\ status = [i \in Slots |-> "none"]

-----------------------------------------------------------------------------
(* Operations the parent's steps are made of. *)

(* Mutant: reapOne forgets the expected_fail inversion. *)
DecodeNoInversion(i) == IF status[i] = "exit0" THEN "PASS" ELSE "FAIL"

(* reapOne's decoding of the wait status, expected_fail inversion included. *)
Decode(i) ==
    IF (status[i] = "exit0") # attr[i].expectFail THEN "PASS" ELSE "FAIL"

(* reportOne: count slot i as tag and print its line.  Captured output is    *)
(* echoed for a passed test when verbose and for a failed one when not.      *)
ReportOne(i, tag, output) ==
    /\ g_passed'  = IF tag = "PASS" THEN g_passed + 1 ELSE g_passed
    /\ g_failed'  = IF tag = "FAIL" THEN g_failed + 1 ELSE g_failed
    /\ g_skipped' = IF tag = "SKIP" THEN g_skipped + 1 ELSE g_skipped
    /\ g_nextToReport' = i + 1
    /\ log' = Append(log,
                [slot   |-> i,
                 tag    |-> tag,
                 echoed |-> IF (tag = "PASS" /\ Verbose) \/ (tag = "FAIL" /\ ~Verbose)
                            THEN output ELSE 0])

(* reportOne of a slot that is not running, as its result stands. *)
ReportFinished(i) ==
    LET tag == IF attr[i].skip THEN "SKIP" ELSE kind[i]
    IN  /\ ReportOne(i, tag, captured[i])
        /\ kind' = [kind EXCEPT ![i] = tag]

(* Mutant: reapOne forgets g_runningCount -= 1. *)
ReapOneUncounted(i) ==
    /\ proc[i] = "zombie"
    /\ running' = running \ {i}
    /\ captured' = [captured EXCEPT ![i] = Smaller(pipe[i], MaxCaptured)]
    /\ kind' = [kind EXCEPT ![i] = Decode(i)]
    /\ proc' = [proc EXCEPT ![i] = "reaped"]
    /\ pipe' = [pipe EXCEPT ![i] = 0]
    /\ UNCHANGED <<g_runningCount, attr, body, todo, buf, status>>

(* The bookkeeping of reapOne once waitpid returned the child of slot i: the *)
(* pipe is drained (up to the capture cap) and the outcome decoded.          *)
ReapOne(i) ==
    /\ proc[i] = "zombie"
    /\ running' = running \ {i}
    /\ g_runningCount' = g_runningCount - 1
    /\ captured' = [captured EXCEPT ![i] = Smaller(pipe[i], MaxCaptured)]
    /\ kind' = [kind EXCEPT ![i] = Decode(i)]
    /\ proc' = [proc EXCEPT ![i] = "reaped"]
    /\ pipe' = [pipe EXCEPT ![i] = 0]
    /\ UNCHANGED <<attr, body, todo, buf, status>>

(* Reap the child of slot i and report the slot, in one blocking call. *)
ReapAndReport(i) ==
    /\ ReapOne(i)
    /\ ReportOne(i, Decode(i), Smaller(pipe[i], MaxCaptured))

-----------------------------------------------------------------------------
(* lucis_test_run, one action per way through it.                           *)

Register(a) == attr' = [attr EXCEPT ![index] = a]

(* A skipped test: nothing is forked; finished predecessors are reported. *)
RunSkipped ==
    /\ pc = "run" /\ index \in Slots
    /\ \E a \in Attrs : a.skip /\ Register(a)
    /\ pc' = "reportThrough"
    /\ index' = index + 1
    /\ UNCHANGED <<running, kind, captured, counters, g_runningCount, sweepAt,
                   exitCode, childVars>>

(* pipe() or fork() fails: a harness-level failure is recorded. *)
RunForkFails ==
    /\ ForkMayFail
    /\ pc = "run" /\ index \in Slots
    /\ \E a \in Attrs : ~a.skip /\ Register(a)
    /\ kind' = [kind EXCEPT ![index] = "FAIL"]
    /\ pc' = "reportThrough"
    /\ index' = index + 1
    /\ UNCHANGED <<running, captured, counters, g_runningCount, sweepAt,
                   exitCode, childVars>>

(* spawnJob succeeds; with the job limit reached the parent starts reaping. *)
RunSpawned ==
    /\ pc = "run" /\ index \in Slots
    /\ \E a \in Attrs : ~a.skip /\ Register(a)
    /\ \E b \in Bodies :
          /\ body' = [body EXCEPT ![index] = b]
          /\ todo' = [todo EXCEPT ![index] = b.out]
    /\ proc' = [proc EXCEPT ![index] = "alive"]
    /\ running' = running \cup {index}
    /\ g_runningCount' = g_runningCount + 1
    /\ pc' = IF g_jobs = 1 \/ g_runningCount + 1 >= g_jobs THEN "reap" ELSE "run"
    /\ index' = index + 1
    /\ UNCHANGED <<kind, captured, counters, sweepAt, exitCode, buf, pipe, status>>

(* The synthesized main has passed every test: it calls lucis_test_end. *)
RunsOver ==
    /\ pc = "run" /\ index = Total
    /\ pc' = "end"
    /\ UNCHANGED <<index, slotVars, counters, g_runningCount, sweepAt, exitCode,
                   childVars>>

-----------------------------------------------------------------------------
(* reportThrough(index - 1): report up to the first slot still running. *)

(* Mutant: reportThrough prints what it has of a test still running. *)
ReportThroughNeverStops == g_nextToReport >= index

ReportThroughStops ==
    g_nextToReport < index =>
        ~attr[g_nextToReport].skip /\ g_nextToReport \in running

ReportThroughStep ==
    /\ pc = "reportThrough" /\ ~ReportThroughStops
    /\ ReportFinished(g_nextToReport)
    /\ UNCHANGED <<pc, index, attr, running, captured, g_runningCount, sweepAt,
                   exitCode, childVars>>

ReportThroughReturns ==
    /\ pc = "reportThrough" /\ ReportThroughStops
    /\ pc' = "run"
    /\ UNCHANGED <<index, slotVars, counters, g_runningCount, sweepAt, exitCode,
                   childVars>>

-----------------------------------------------------------------------------
(* reapThrough(index - 1). *)

ReapSkipped ==
    /\ pc = "reap" /\ g_nextToReport < index /\ attr[g_nextToReport].skip
    /\ ReportFinished(g_nextToReport)
    /\ UNCHANGED <<pc, index, attr, running, captured, g_runningCount, sweepAt,
                   exitCode, childVars>>

(* The loop ends, or breaks at a slot that is not running. *)
ReapReturns ==
    /\ pc = "reap"
    /\ g_nextToReport < index =>
          ~attr[g_nextToReport].skip /\ g_nextToReport \notin running
    /\ pc' = "run"
    /\ UNCHANGED <<index, slotVars, counters, g_runningCount, sweepAt, exitCode,
                   childVars>>

(* Mutant: the sweep runs one slot past the table. *)
SweepOverLate == sweepAt > Total \/ g_runningCount <= 0

ReapStartsSweep ==
    /\ pc = "reap" /\ g_nextToReport < index
    /\ ~attr[g_nextToReport].skip /\ g_nextToReport \in running
    /\ pc' = "sweep"
    /\ sweepAt' = g_nextToReport
    /\ UNCHANGED <<index, slotVars, counters, g_runningCount, exitCode, childVars>>

SweepOver == sweepAt >= Total \/ g_runningCount <= 0

(* waitpid(WNOHANG) finds the child of the swept slot dead. *)
SweepReaps ==
    /\ pc = "sweep" /\ ~SweepOver /\ sweepAt \in running
    /\ ReapOne(sweepAt)
    /\ sweepAt' = sweepAt + 1
    /\ UNCHANGED <<pc, index, counters, exitCode>>

SweepPasses ==
    /\ pc = "sweep" /\ ~SweepOver
    /\ sweepAt \in running => proc[sweepAt] # "zombie"
    /\ sweepAt' = sweepAt + 1
    /\ UNCHANGED <<pc, index, slotVars, counters, g_runningCount, exitCode, childVars>>

SweepReturns ==
    /\ pc = "sweep" /\ SweepOver
    /\ pc' = "oldest"
    /\ UNCHANGED <<index, slotVars, counters, g_runningCount, sweepAt, exitCode,
                   childVars>>

(* The oldest child is still running: block in waitpid until it is dead. *)
OldestBlocks ==
    /\ pc = "oldest" /\ g_nextToReport \in running
    /\ ReapAndReport(g_nextToReport)
    /\ pc' = "reap"
    /\ UNCHANGED <<index, sweepAt, exitCode>>

(* The sweep has reaped the oldest child already. *)
OldestReaped ==
    /\ pc = "oldest" /\ g_nextToReport \notin running
    /\ ReportFinished(g_nextToReport)
    /\ pc' = "reap"
    /\ UNCHANGED <<index, attr, running, captured, g_runningCount, sweepAt,
                   exitCode, childVars>>

-----------------------------------------------------------------------------
(* lucis_test_end. *)

EndBlocks ==
    /\ pc = "end" /\ g_nextToReport < Total
    /\ ~attr[g_nextToReport].skip /\ g_nextToReport \in running
    /\ ReapAndReport(g_nextToReport)
    /\ UNCHANGED <<pc, index, sweepAt, exitCode>>

(* Mutant: the exit code tells only of several failures. *)
EndReturnsOffByOne ==
    /\ pc = "end" /\ g_nextToReport >= Total
    /\ exitCode' = IF g_failed > 1 THEN 1 ELSE 0
    /\ pc' = "done"
    /\ UNCHANGED <<index, slotVars, counters, g_runningCount, sweepAt, childVars>>

EndReports ==
    /\ pc = "end" /\ g_nextToReport < Total
    /\ attr[g_nextToReport].skip \/ g_nextToReport \notin running
    /\ ReportFinished(g_nextToReport)
    /\ UNCHANGED <<pc, index, attr, running, captured, g_runningCount, sweepAt,
                   exitCode, childVars>>

EndReturns ==
    /\ pc = "end" /\ g_nextToReport >= Total
    /\ exitCode' = IF g_failed > 0 THEN 1 ELSE 0
    /\ pc' = "done"
    /\ UNCHANGED <<index, slotVars, counters, g_runningCount, sweepAt, childVars>>

Terminated == pc = "done" /\ UNCHANGED vars

-----------------------------------------------------------------------------
(* The children.  The body prints `out` units through stdio; a full stdio    *)
(* block is written to the pipe, and the write blocks while it has no room.  *)

ChildBuffers(i) ==
    /\ proc[i] = "alive" /\ todo[i] > 0 /\ buf[i] + 1 < BufCap
    /\ todo' = [todo EXCEPT ![i] = @ - 1]
    /\ buf' = [buf EXCEPT ![i] = @ + 1]
    /\ UNCHANGED <<parentVars, proc, body, pipe, status>>

ChildWrites(i) ==
    /\ proc[i] = "alive" /\ todo[i] > 0 /\ buf[i] + 1 >= BufCap
    /\ pipe[i] + buf[i] + 1 <= PipeCap
    /\ todo' = [todo EXCEPT ![i] = @ - 1]
    /\ buf' = [buf EXCEPT ![i] = 0]
    /\ pipe' = [pipe EXCEPT ![i] = @ + buf[i] + 1]
    /\ UNCHANGED <<parentVars, proc, body, status>>

(* The body returns and its wrapper calls _exit(0), or it aborts: either way *)
(* the stdio buffer is lost.                                                 *)
ChildEndsUnflushed(i) ==
    /\ proc[i] = "alive" /\ todo[i] = 0 /\ body[i].fate \in {"return", "abort"}
    /\ proc' = [proc EXCEPT ![i] = "zombie"]
    /\ status' = [status EXCEPT ![i] =
                    IF body[i].fate = "return" THEN "exit0" ELSE "signal"]
    /\ buf' = [buf EXCEPT ![i] = 0]
    /\ UNCHANGED <<parentVars, body, todo, pipe>>

(* The body calls exit(): stdio is flushed first. *)
ChildExits(i) ==
    /\ proc[i] = "alive" /\ todo[i] = 0 /\ body[i].fate \in {"exit0", "exit1"}
    /\ pipe[i] + buf[i] <= PipeCap
    /\ proc' = [proc EXCEPT ![i] = "zombie"]
    /\ status' = [status EXCEPT ![i] = body[i].fate]
    /\ pipe' = [pipe EXCEPT ![i] = @ + buf[i]]
    /\ buf' = [buf EXCEPT ![i] = 0]
    /\ UNCHANGED <<parentVars, body, todo>>

(* Mutant: spawnJob arms the timer only of tests that must fail. *)
ChildTimesOutUnarmed(i) ==
    /\ proc[i] = "alive" /\ attr[i].timeout /\ attr[i].expectFail
    /\ proc' = [proc EXCEPT ![i] = "zombie"]
    /\ status' = [status EXCEPT ![i] = "alarm"]
    /\ buf' = [buf EXCEPT ![i] = 0]
    /\ UNCHANGED <<parentVars, body, todo, pipe>>

(* SIGALRM of the timer spawnJob armed. *)
ChildTimesOut(i) ==
    /\ proc[i] = "alive" /\ attr[i].timeout
    /\ proc' = [proc EXCEPT ![i] = "zombie"]
    /\ status' = [status EXCEPT ![i] = "alarm"]
    /\ buf' = [buf EXCEPT ![i] = 0]
    /\ UNCHANGED <<parentVars, body, todo, pipe>>

ChildStep(i) ==
    ChildBuffers(i) \/ ChildWrites(i) \/ ChildEndsUnflushed(i) \/ ChildExits(i)

ParentStep ==
    \/ RunSkipped \/ RunForkFails \/ RunSpawned \/ RunsOver
    \/ ReportThroughStep \/ ReportThroughReturns
    \/ ReapSkipped \/ ReapReturns \/ ReapStartsSweep
    \/ SweepReaps \/ SweepPasses \/ SweepReturns
    \/ OldestBlocks \/ OldestReaped
    \/ EndBlocks \/ EndReports \/ EndReturns

Next ==
    \/ ParentStep
    \/ Terminated
    \/ \E i \in Slots : ChildStep(i) \/ ChildTimesOut(i)

Spec == Init /\ [][Next]_vars

(* The kernel schedules the parent and every child, and delivers the timer. *)
FairSpec ==
    /\ Spec
    /\ WF_vars(ParentStep)
    /\ \A i \in Slots : WF_vars(ChildStep(i)) /\ WF_vars(ChildTimesOut(i))

-----------------------------------------------------------------------------
(* Properties. *)

(* Every variable has its type: the globals of test_runner.c, the slots and  *)
(* the kernel state stay in range.                                           *)
TypeOK ==
    /\ pc \in PCs
    /\ index \in 0 .. Total
    /\ attr \in [Slots -> [skip : BOOLEAN, expectFail : BOOLEAN, timeout : BOOLEAN]]
    /\ running \in SUBSET Slots
    /\ kind \in [Slots -> Kinds]
    /\ captured \in [Slots -> Nat]
    /\ g_passed \in Nat /\ g_failed \in Nat /\ g_skipped \in Nat
    /\ g_nextToReport \in 0 .. Total
    /\ g_runningCount \in Int
    /\ sweepAt \in 0 .. Total
    /\ log \in Seq(Lines)
    /\ exitCode \in -1 .. 1
    /\ proc \in [Slots -> {"none", "alive", "zombie", "reaped"}]
    /\ body \in [Slots -> [out : Nat, fate : Fates]]
    /\ todo \in [Slots -> Nat]
    /\ buf \in [Slots -> Nat]
    /\ pipe \in [Slots -> Nat]
    /\ status \in [Slots -> Statuses]

(* The verdict a test deserves, from its attributes and how its child really *)
(* ended: a test passes when its failing is what was expected of it.         *)
VerdictOf(a, p, s) ==
    IF a.skip THEN "SKIP"
    ELSE IF p # "none" /\ (s # "exit0") = a.expectFail THEN "PASS" ELSE "FAIL"

Verdict(i) == VerdictOf(attr[i], proc[i], status[i])

(* The k-th status line is about the k-th test, its child is gone, and it    *)
(* says what the child's wait status says: no line is lost, repeated or      *)
(* printed early, however the sweep, the blocking wait and the final reaping *)
(* in lucis_test_end interleave with the children.                           *)
ReportsAreTrue ==
    /\ Len(log) = g_nextToReport
    /\ \A k \in 1 .. Len(log) :
          /\ log[k].slot = k - 1
          /\ proc[k - 1] \in {"none", "reaped"}
          /\ log[k].tag = Verdict(k - 1)

(* g_runningCount counts exactly the children not yet reaped: those          *)
(* slot->running marks, dead or alive.                                       *)
RunningCountExact ==
    /\ running = {i \in Slots : proc[i] \in {"alive", "zombie"}}
    /\ g_runningCount = Cardinality(running)

(* The summary adds up, and the exit code of the binary says whether a       *)
(* printed line says FAIL; no child outlives the harness.                    *)
ExitCodeTruthful ==
    pc = "done" =>
        /\ running = {}
        /\ g_passed + g_failed + g_skipped = Total
        /\ (exitCode = 1) <=> (\E k \in 1 .. Len(log) : log[k].tag = "FAIL")

(* The verdict on test i is open until the test is registered and, if it has *)
(* a child, the child has ended.                                             *)
Decided(i) == IF i < index /\ proc[i] # "alive" THEN Verdict(i) ELSE "open"

Report ==
    INSTANCE TestReport WITH verdict <- [i \in Slots |-> Decided(i)],
                             printed <- [k \in 1 .. Len(log) |-> log[k].tag],
                             code    <- exitCode

(* "the runner always continues": the harness implements TestReport, however *)
(* forking, the sweep and the blocking waits interleave with the children:   *)
(* each test gets a verdict when its child ends, no later step of the parent *)
(* changes it, it is the one printed, once and in the order of the tests,    *)
(* and the exit code comes last and tells of every FAIL.                     *)
HarnessReports == Report!Spec

(* -j N: never more than N test children in flight. *)
JobLimit == Cardinality(running) <= g_jobs

(* With one job the tests are serial: a test starts only when every earlier  *)
(* one has been reported.                                                    *)
SerialWhenOneJob ==
    [][g_jobs = 1 => \A i \in Slots :
          proc[i] = "none" /\ proc'[i] = "alive" => g_nextToReport = i]_vars

(* A test body ends by itself and fits the pipe, or is cut off by a timeout. *)
ChildEnds(i) ==
    attr[i].timeout \/ (body[i].fate # "hang" /\ body[i].out <= PipeCap)

(* No child whose output fits its pipe ever blocks in a write: nobody reads  *)
(* the pipe before the child is dead, and the harness may be waiting for it. *)
FittingChildGoes ==
    \A i \in Slots : proc[i] = "alive" /\ body[i].fate # "hang" /\ body[i].out <= PipeCap =>
        \/ todo[i] > 0 /\ (buf[i] + 1 < BufCap \/ pipe[i] + buf[i] + 1 <= PipeCap)
        \/ todo[i] = 0 /\ (body[i].fate \in {"return", "abort"} \/ pipe[i] + buf[i] <= PipeCap)

(* A status line echoes no more than its own test has printed and the        *)
(* capture cap allows, and all of that when a test has failed by exit(1).    *)
EchoesFaithful ==
    \A k \in 1 .. Len(log) :
        LET whole == Smaller(body[k - 1].out, MaxCaptured) IN
        /\ log[k].echoed <= whole
        /\ log[k].tag = "FAIL" /\ status[k - 1] = "exit1" /\ ~Verbose => log[k].echoed = whole

(* The harness ends: whatever the interleaving, if every test fits its pipe  *)
(* or has a timeout, lucis_test_end returns.                                 *)
HarnessEnds == [](\A i \in Slots : ChildEnds(i)) => <>(pc = "done")
=============================================================================
