-------------------------- MODULE TestRunnerProofs --------------------------
(***************************************************************************)
(* Machine-checked facts about TestRunner, for every number of tests, job   *)
(* limit, set of attributes and set of bodies.                              *)
(***************************************************************************)
EXTENDS TestRunner, FiniteSetTheorems, TLAPS

USE DEF PCs, Kinds, Statuses, Lines, Fates, Slots

(* The harness's state stays in range, whatever the children do. *)
LEMMA InitTypeOK == Init => TypeOK
  BY RunnerAssumption DEF Init, TypeOK, NoAttr, NoBody

(* reportOne of slot g_nextToReport keeps the counters and the log typed. *)
LEMMA ReportOneType ==
  ASSUME TypeOK, NEW tag \in Kinds, NEW output \in Nat,
         g_nextToReport \in Slots, ReportOne(g_nextToReport, tag, output)
  PROVE  /\ g_passed' \in Nat /\ g_failed' \in Nat /\ g_skipped' \in Nat
         /\ g_nextToReport' \in 0 .. Total
         /\ log' \in Seq(Lines)
  <1>1. [slot |-> g_nextToReport, tag |-> tag,
         echoed |-> IF (tag = "PASS" /\ Verbose) \/ (tag = "FAIL" /\ ~Verbose)
                    THEN output ELSE 0] \in Lines
    OBVIOUS
  <1>2. log' \in Seq(Lines)
    BY <1>1 DEF ReportOne, TypeOK
  <1> QED
    BY <1>2, RunnerAssumption DEF ReportOne, TypeOK

(* reapOne keeps what it changes typed. *)
LEMMA ReapOneType ==
  ASSUME TypeOK, NEW i \in Slots, ReapOne(i)
  PROVE  /\ running' \in SUBSET Slots
         /\ g_runningCount' \in Int
         /\ captured' \in [Slots -> Nat]
         /\ kind' \in [Slots -> Kinds]
         /\ proc' \in [Slots -> {"none", "alive", "zombie", "reaped"}]
         /\ pipe' \in [Slots -> Nat]
         /\ UNCHANGED <<attr, body, todo, buf, status>>
         /\ Decode(i) \in Kinds
         /\ Smaller(pipe[i], MaxCaptured) \in Nat
  BY RunnerAssumption DEF ReapOne, TypeOK, Decode, Smaller

LEMMA ReportFinishedType ==
  ASSUME TypeOK, g_nextToReport \in Slots, ReportFinished(g_nextToReport)
  PROVE  /\ g_passed' \in Nat /\ g_failed' \in Nat /\ g_skipped' \in Nat
         /\ g_nextToReport' \in 0 .. Total
         /\ log' \in Seq(Lines)
         /\ kind' \in [Slots -> Kinds]
  <1> DEFINE tag == IF attr[g_nextToReport].skip THEN "SKIP" ELSE kind[g_nextToReport]
  <1>1. tag \in Kinds /\ captured[g_nextToReport] \in Nat
    BY DEF TypeOK
  <1>2. ReportOne(g_nextToReport, tag, captured[g_nextToReport])
    BY DEF ReportFinished
  <1>3. kind' \in [Slots -> Kinds]
    BY <1>1 DEF ReportFinished, TypeOK
  <1> HIDE DEF tag
  <1> QED
    BY <1>1, <1>2, <1>3, ReportOneType

LEMMA ReapAndReportType ==
  ASSUME TypeOK, g_nextToReport \in Slots, ReapAndReport(g_nextToReport)
  PROVE  /\ g_passed' \in Nat /\ g_failed' \in Nat /\ g_skipped' \in Nat
         /\ g_nextToReport' \in 0 .. Total
         /\ log' \in Seq(Lines)
  BY ReapOneType, ReportOneType DEF ReapAndReport

(* The parent reaps and reports only slots lucis_test_run has registered;   *)
(* lucis_test_end runs when all of them are.                                 *)
PcInv ==
    /\ g_nextToReport <= index
    /\ pc \in {"sweep", "oldest"} =>
          g_nextToReport < index /\ ~attr[g_nextToReport].skip
    /\ pc \in {"end", "done"} => index = Total

Attributes == [skip : BOOLEAN, expectFail : BOOLEAN, timeout : BOOLEAN]

LEMMA TotalType == Total \in Nat /\ Slots \subseteq Nat
  BY RunnerAssumption

LEMMA RegisterType ==
  ASSUME TypeOK, index \in Slots, NEW a \in Attrs, Register(a)
  PROVE  attr' \in [Slots -> Attributes]
  <1>1. a \in Attributes
    BY RunnerAssumption DEF Attributes
  <1> QED
    BY <1>1 DEF Register, TypeOK, Attributes

(* Every step keeps every variable in range. *)
LEMMA NextTypeOK == TypeOK /\ PcInv /\ [Next]_vars => TypeOK'
  <1> SUFFICES ASSUME TypeOK, PcInv, [Next]_vars PROVE TypeOK'
    OBVIOUS
  <1> USE TotalType
  <1>1. CASE RunSkipped
    <2>1. attr' \in [Slots -> Attributes]
      BY <1>1, RegisterType DEF RunSkipped
    <2>2. index' \in 0 .. Total
      BY <1>1 DEF RunSkipped, TypeOK
    <2> QED
      BY <1>1, <2>1, <2>2 DEF RunSkipped, TypeOK, counters, childVars, Attributes
  <1>2. CASE RunForkFails
    <2>1. attr' \in [Slots -> Attributes]
      BY <1>2, RegisterType DEF RunForkFails
    <2>2. index' \in 0 .. Total
      BY <1>2 DEF RunForkFails, TypeOK
    <2> QED
      BY <1>2, <2>1, <2>2 DEF RunForkFails, TypeOK, counters, childVars, Attributes
  <1>3. CASE RunSpawned
    <2>1. attr' \in [Slots -> Attributes]
      BY <1>3, RegisterType DEF RunSpawned
    <2>2. body' \in [Slots -> [out : Nat, fate : Fates]] /\ todo' \in [Slots -> Nat]
      BY <1>3, RunnerAssumption DEF RunSpawned, TypeOK
    <2>3. pc' \in PCs /\ index' \in 0 .. Total /\ g_runningCount' \in Int
      BY <1>3 DEF RunSpawned, TypeOK
    <2>4. proc' \in [Slots -> {"none", "alive", "zombie", "reaped"}]
          /\ running' \in SUBSET Slots
      BY <1>3 DEF RunSpawned, TypeOK
    <2> QED
      BY <1>3, <2>1, <2>2, <2>3, <2>4 DEF RunSpawned, TypeOK, counters, Attributes
  <1>4. CASE RunsOver
    BY <1>4 DEF RunsOver, TypeOK, slotVars, counters, childVars
  <1>5. CASE ReportThroughStep
    <2>1. g_nextToReport \in Slots
      BY <1>5 DEF ReportThroughStep, ReportThroughStops, TypeOK
    <2> QED
      BY <1>5, <2>1, ReportFinishedType DEF ReportThroughStep, TypeOK, childVars
  <1>6. CASE ReportThroughReturns
    BY <1>6 DEF ReportThroughReturns, TypeOK, slotVars, counters, childVars
  <1>7. CASE ReapSkipped
    <2>1. g_nextToReport \in Slots
      BY <1>7 DEF ReapSkipped, TypeOK
    <2> QED
      BY <1>7, <2>1, ReportFinishedType DEF ReapSkipped, TypeOK, childVars
  <1>8. CASE ReapReturns
    BY <1>8 DEF ReapReturns, TypeOK, slotVars, counters, childVars
  <1>9. CASE ReapStartsSweep
    BY <1>9 DEF ReapStartsSweep, TypeOK, slotVars, counters, childVars
  <1>10. CASE SweepReaps
    <2>1. sweepAt \in Slots /\ sweepAt' \in 0 .. Total
      BY <1>10 DEF SweepReaps, SweepOver, TypeOK
    <2> QED
      BY <1>10, <2>1, ReapOneType DEF SweepReaps, TypeOK, counters
  <1>11. CASE SweepPasses
    <2>1. sweepAt' \in 0 .. Total
      BY <1>11 DEF SweepPasses, SweepOver, TypeOK
    <2> QED
      BY <1>11, <2>1 DEF SweepPasses, TypeOK, slotVars, counters, childVars
  <1>12. CASE SweepReturns
    BY <1>12 DEF SweepReturns, TypeOK, slotVars, counters, childVars
  <1>13. CASE OldestBlocks
    <2>1. g_nextToReport \in Slots /\ ReapOne(g_nextToReport)
      BY <1>13 DEF OldestBlocks, ReapAndReport, TypeOK
    <2> QED
      BY <1>13, <2>1, ReapOneType, ReapAndReportType DEF OldestBlocks, TypeOK
  <1>14. CASE OldestReaped
    <2>1. g_nextToReport \in Slots
      BY <1>14 DEF OldestReaped, TypeOK, PcInv
    <2> QED
      BY <1>14, <2>1, ReportFinishedType DEF OldestReaped, TypeOK, childVars
  <1>15. CASE EndBlocks
    <2>1. g_nextToReport \in Slots /\ ReapOne(g_nextToReport)
      BY <1>15 DEF EndBlocks, ReapAndReport, TypeOK
    <2> QED
      BY <1>15, <2>1, ReapOneType, ReapAndReportType DEF EndBlocks, TypeOK
  <1>16. CASE EndReports
    <2>1. g_nextToReport \in Slots
      BY <1>16 DEF EndReports, TypeOK
    <2> QED
      BY <1>16, <2>1, ReportFinishedType DEF EndReports, TypeOK, childVars
  <1>17. CASE EndReturns
    <2>1. exitCode' \in -1 .. 1
      BY <1>17 DEF EndReturns
    <2> QED
      BY <1>17, <2>1 DEF EndReturns, TypeOK, slotVars, counters, childVars
  <1>18. ASSUME NEW i \in Slots, ChildBuffers(i) PROVE TypeOK'
    BY <1>18 DEF ChildBuffers, TypeOK, parentVars, slotVars, counters
  <1>19. ASSUME NEW i \in Slots, ChildWrites(i) PROVE TypeOK'
    <2>1. pipe[i] + buf[i] + 1 \in Nat /\ todo[i] - 1 \in Nat
      BY <1>19 DEF ChildWrites, TypeOK
    <2> QED
      BY <1>19, <2>1 DEF ChildWrites, TypeOK, parentVars, slotVars, counters
  <1>20. ASSUME NEW i \in Slots, ChildEndsUnflushed(i) PROVE TypeOK'
    BY <1>20 DEF ChildEndsUnflushed, TypeOK, parentVars, slotVars, counters
  <1>21. ASSUME NEW i \in Slots, ChildExits(i) PROVE TypeOK'
    <2>1. pipe[i] + buf[i] \in Nat
      BY <1>21 DEF TypeOK
    <2> QED
      BY <1>21, <2>1 DEF ChildExits, TypeOK, parentVars, slotVars, counters
  <1>22. ASSUME NEW i \in Slots, ChildTimesOut(i) PROVE TypeOK'
    BY <1>22 DEF ChildTimesOut, TypeOK, parentVars, slotVars, counters
  <1>23. CASE UNCHANGED vars
    BY <1>23 DEF vars, parentVars, childVars, slotVars, counters, TypeOK
  <1> QED
    BY <1>1, <1>2, <1>3, <1>4, <1>5, <1>6, <1>7, <1>8, <1>9, <1>10, <1>11, <1>12,
       <1>13, <1>14, <1>15, <1>16, <1>17, <1>18, <1>19, <1>20, <1>21, <1>22, <1>23
    DEF Next, ParentStep, ChildStep, Terminated

-----------------------------------------------------------------------------
(* The inductive invariant. *)

(* A slot's process exists only once the slot is registered and unless it is *)
(* skipped; reported slots have no process left; the result of a registered  *)
(* slot without a live process is already the verdict.                       *)
SlotInv ==
    /\ \A i \in Slots : i >= index => proc[i] = "none"
    /\ \A i \in Slots : attr[i].skip => proc[i] = "none"
    /\ \A i \in Slots : i < g_nextToReport => proc[i] \in {"none", "reaped"}
    /\ \A i \in Slots :
          i < index /\ proc[i] \in {"none", "reaped"} /\ ~attr[i].skip
              => kind[i] = Verdict(i)

(* The counters agree with the lines printed. *)
Tally ==
    /\ g_passed + g_failed + g_skipped = g_nextToReport
    /\ g_failed > 0 <=> \E k \in 1 .. Len(log) : log[k].tag = "FAIL"

DoneInv ==
    pc = "done" => /\ g_nextToReport = Total
                   /\ exitCode = IF g_failed > 0 THEN 1 ELSE 0

IInv ==
    /\ TypeOK /\ PcInv /\ SlotInv
    /\ RunningCountExact /\ ReportsAreTrue /\ Tally /\ DoneInv

LEMMA InitIInv == Init => IInv
  <1> SUFFICES ASSUME Init PROVE IInv
    OBVIOUS
  <1>1. TypeOK
    BY InitTypeOK
  <1>2. PcInv /\ SlotInv /\ Tally /\ DoneInv /\ ReportsAreTrue
    BY TotalType DEF Init, PcInv, SlotInv, Tally, DoneInv, ReportsAreTrue, NoAttr
  <1>3. RunningCountExact
    BY FS_EmptySet DEF Init, RunningCountExact
  <1> QED
    BY <1>1, <1>2, <1>3 DEF IInv

(* Only finitely many children exist, so counting them makes sense. *)
LEMMA RunningFinite == TypeOK => IsFiniteSet(running)
  <1>1. IsFiniteSet(0 .. (Total - 1))
    BY FS_Interval, TotalType
  <1> QED
    BY <1>1, FS_Subset DEF TypeOK

(* A step that prints nothing and disturbs no reported slot. *)
LEMMA SilentStep ==
  ASSUME IInv, UNCHANGED counters,
         \A k \in Slots : k < g_nextToReport =>
             /\ proc'[k] \in {"none", "reaped"}
             /\ VerdictOf(attr'[k], proc'[k], status'[k]) = Verdict(k)
  PROVE  ReportsAreTrue' /\ Tally'
  <1>1. ReportsAreTrue'
    <2>1. Len(log') = g_nextToReport' /\ log' = log /\ Len(log) \in Nat
      BY DEF counters, IInv, TypeOK, ReportsAreTrue
    <2>2. ASSUME NEW k \in 1 .. Len(log)
          PROVE  /\ log[k].slot = k - 1
                 /\ proc'[k - 1] \in {"none", "reaped"}
                 /\ log[k].tag = Verdict(k - 1)'
      <3>1. k - 1 \in Slots /\ k - 1 < g_nextToReport
        BY TotalType DEF IInv, TypeOK, ReportsAreTrue
      <3> QED
        BY <3>1 DEF IInv, ReportsAreTrue, Verdict
    <2> QED
      BY <2>1, <2>2 DEF ReportsAreTrue
  <1>2. Tally'
    BY DEF IInv, Tally, counters
  <1> QED
    BY <1>1, <1>2

(* A step that prints the line of slot g_nextToReport. *)
LEMMA ReportStep ==
  ASSUME IInv, g_nextToReport \in Slots, NEW tag \in Kinds, NEW output \in Nat,
         ReportOne(g_nextToReport, tag, output),
         \A k \in Slots : k <= g_nextToReport => proc'[k] \in {"none", "reaped"},
         \A k \in Slots : k < g_nextToReport =>
             VerdictOf(attr'[k], proc'[k], status'[k]) = Verdict(k),
         VerdictOf(attr'[g_nextToReport], proc'[g_nextToReport],
                   status'[g_nextToReport]) = tag
  PROVE  ReportsAreTrue' /\ Tally'
  <1> DEFINE n == g_nextToReport
             line == [slot |-> n, tag |-> tag,
                      echoed |-> IF (tag = "PASS" /\ Verbose) \/ (tag = "FAIL" /\ ~Verbose)
                                 THEN output ELSE 0]
  <1>1. /\ n \in Nat /\ n < Total
        /\ log \in Seq(Lines) /\ Len(log) = n
        /\ log' = Append(log, line) /\ line \in Lines
        /\ g_nextToReport' = n + 1
        /\ line.slot = n /\ line.tag = tag
    BY TotalType DEF ReportOne, IInv, TypeOK, ReportsAreTrue
  <1> HIDE DEF line, n
  <1>2. /\ Len(log') = n + 1
        /\ \A k \in 1 .. n : log'[k] = log[k]
        /\ log'[n + 1] = line
    BY <1>1
  <1>3. ReportsAreTrue'
    <2>1. ASSUME NEW k \in 1 .. (n + 1)
          PROVE  /\ log'[k].slot = k - 1
                 /\ proc'[k - 1] \in {"none", "reaped"}
                 /\ log'[k].tag = Verdict(k - 1)'
      <3>1. CASE k \in 1 .. n
        <4>1. k - 1 \in Slots /\ k - 1 < n
          BY <3>1, <1>1, TotalType
        <4>2. log'[k] = log[k] /\ log[k].slot = k - 1 /\ log[k].tag = Verdict(k - 1)
          <5>1. k \in 1 .. Len(log)
            BY <3>1, <1>1
          <5> QED
            BY <5>1, <3>1, <1>2 DEF IInv, ReportsAreTrue
        <4> QED
          BY <4>1, <4>2 DEF n, Verdict
      <3>2. CASE k = n + 1
        <4>1. k - 1 = n
          BY <3>2, <1>1
        <4> QED
          BY <4>1, <3>2, <1>1, <1>2 DEF n, Verdict
      <3> QED
        BY <3>1, <3>2, <1>1
    <2> QED
      BY <2>1, <1>1, <1>2 DEF ReportsAreTrue
  <1>4. Tally'
    <2>1. g_passed' + g_failed' + g_skipped' = n + 1
      <3>1. /\ g_passed \in Nat /\ g_failed \in Nat /\ g_skipped \in Nat
            /\ g_passed + g_failed + g_skipped = n
        BY DEF IInv, TypeOK, Tally, n
      <3>2. \/ g_passed' = g_passed + 1 /\ g_failed' = g_failed /\ g_skipped' = g_skipped
            \/ g_passed' = g_passed /\ g_failed' = g_failed + 1 /\ g_skipped' = g_skipped
            \/ g_passed' = g_passed /\ g_failed' = g_failed /\ g_skipped' = g_skipped + 1
        BY DEF ReportOne
      <3> QED
        BY <3>1, <3>2
    <2>2. CASE tag = "FAIL"
      <3>1. g_failed' > 0
        BY <2>2 DEF IInv, TypeOK, ReportOne
      <3>2. log'[n + 1].tag = "FAIL" /\ n + 1 \in 1 .. Len(log')
        BY <2>2, <1>1, <1>2
      <3> QED
        BY <2>1, <3>1, <3>2, <1>1 DEF Tally
    <2>3. CASE tag # "FAIL"
      <3>1. g_failed' = g_failed
        BY <2>3 DEF ReportOne
      <3>2. (\E k \in 1 .. Len(log') : log'[k].tag = "FAIL")
               <=> (\E k \in 1 .. Len(log) : log[k].tag = "FAIL")
        <4>1. log'[n + 1].tag # "FAIL"
          BY <2>3, <1>1, <1>2
        <4>2. 1 .. Len(log') = (1 .. Len(log)) \cup {n + 1}
          BY <1>1, <1>2
        <4>3. \A k \in 1 .. Len(log) : log'[k] = log[k]
          BY <1>1, <1>2
        <4> QED
          BY <4>1, <4>2, <4>3
      <3> QED
        BY <2>1, <3>1, <3>2, <1>1 DEF Tally, IInv
    <2> QED
      BY <2>2, <2>3
  <1> QED
    BY <1>3, <1>4

(* Steps of the parent that move only its control state. *)
LEMMA ControlStep ==
  ASSUME IInv, UNCHANGED <<index, slotVars, counters, g_runningCount, childVars>>
  PROVE  SlotInv' /\ RunningCountExact' /\ ReportsAreTrue' /\ Tally'
  <1>1. SlotInv' /\ RunningCountExact'
    BY DEF IInv, SlotInv, Verdict, RunningCountExact, slotVars, counters, childVars
  <1>2. ReportsAreTrue' /\ Tally'
    BY SilentStep DEF IInv, SlotInv, Verdict, slotVars, childVars
  <1> QED
    BY <1>1, <1>2

(* Reporting a registered slot whose child is gone, or that never had one. *)
LEMMA ReportFinishedStep ==
  ASSUME IInv, g_nextToReport < index, g_nextToReport \notin running,
         ReportFinished(g_nextToReport),
         UNCHANGED <<index, attr, running, captured, g_runningCount, childVars>>
  PROVE  SlotInv' /\ RunningCountExact' /\ ReportsAreTrue' /\ Tally'
  <1> DEFINE n == g_nextToReport
             tag == IF attr[n].skip THEN "SKIP" ELSE kind[n]
  <1>1. n \in Slots /\ tag \in Kinds /\ captured[n] \in Nat
    BY TotalType DEF IInv, TypeOK
  <1>2. ReportOne(n, tag, captured[n]) /\ kind' = [kind EXCEPT ![n] = tag]
    BY DEF ReportFinished
  <1>3. proc[n] \in {"none", "reaped"} /\ tag = Verdict(n)
    BY <1>1 DEF IInv, TypeOK, SlotInv, RunningCountExact, Verdict, VerdictOf
  <1>4. ReportsAreTrue' /\ Tally'
    <2>1. \A k \in Slots : k <= n => proc'[k] \in {"none", "reaped"}
      BY <1>1, <1>3, TotalType DEF IInv, SlotInv, TypeOK, childVars
    <2>2. \A k \in Slots : VerdictOf(attr'[k], proc'[k], status'[k]) = Verdict(k)
      BY DEF Verdict, childVars
    <2> HIDE DEF tag
    <2> QED
      BY <1>1, <1>2, <1>3, <2>1, <2>2, ReportStep
  <1>5. RunningCountExact'
    BY DEF IInv, RunningCountExact, childVars
  <1>6. SlotInv'
    <2>1. g_nextToReport' = n + 1
      BY <1>2 DEF ReportOne
    <2>2. \A k \in Slots : k < n + 1 => proc[k] \in {"none", "reaped"}
      <3>1. \A k \in Slots : k < n + 1 <=> k < n \/ k = n
        BY <1>1, TotalType
      <3> QED
        BY <3>1, <1>3 DEF IInv, SlotInv
    <2>3. \A k \in Slots : ~attr[k].skip => kind'[k] = kind[k]
      BY <1>1, <1>2 DEF IInv, TypeOK
    <2>4. UNCHANGED <<index, attr, proc, status>>
      BY DEF childVars
    <2> QED
      BY <2>1, <2>2, <2>3, <2>4 DEF IInv, SlotInv, Verdict
  <1> QED
    BY <1>4, <1>5, <1>6

(* reapOne: exactly one child leaves the running set, and its slot's result  *)
(* is the verdict.                                                           *)
LEMMA ReapEffect ==
  ASSUME IInv, NEW i \in Slots, i \in running, ReapOne(i)
  PROVE  /\ RunningCountExact'
         /\ i < index /\ ~attr[i].skip
         /\ proc' = [proc EXCEPT ![i] = "reaped"]
         /\ kind' = [kind EXCEPT ![i] = Decode(i)]
         /\ attr' = attr /\ status' = status
         /\ VerdictOf(attr[i], "reaped", status[i]) = Decode(i)
         /\ \A k \in Slots \ {i} :
               VerdictOf(attr'[k], proc'[k], status'[k]) = Verdict(k)
  <1>1. proc \in [Slots -> {"none", "alive", "zombie", "reaped"}] /\ TypeOK
    BY DEF IInv, TypeOK
  <1>2. proc[i] \in {"alive", "zombie"} /\ i < index /\ ~attr[i].skip
    BY TotalType DEF IInv, TypeOK, SlotInv, RunningCountExact
  <1>3. proc' = [proc EXCEPT ![i] = "reaped"] /\ attr' = attr /\ status' = status
        /\ kind' = [kind EXCEPT ![i] = Decode(i)]
    BY DEF ReapOne
  <1>4. VerdictOf(attr[i], "reaped", status[i]) = Decode(i)
    BY <1>1, <1>2 DEF VerdictOf, Decode, TypeOK
  <1>5. RunningCountExact'
    <2>1. running' = running \ {i} /\ g_runningCount' = g_runningCount - 1
      BY DEF ReapOne
    <2>2. Cardinality(running') = Cardinality(running) - 1
      BY <1>1, <2>1, RunningFinite, FS_RemoveElement
    <2>3. running' = {k \in Slots : proc'[k] \in {"alive", "zombie"}}
      BY <1>1, <1>3, <2>1 DEF IInv, RunningCountExact
    <2> QED
      BY <2>1, <2>2, <2>3 DEF IInv, RunningCountExact
  <1>6. \A k \in Slots \ {i} : VerdictOf(attr'[k], proc'[k], status'[k]) = Verdict(k)
    BY <1>1, <1>3 DEF Verdict
  <1> QED
    BY <1>2, <1>3, <1>4, <1>5, <1>6

LEMMA ReapSlotInv ==
  ASSUME IInv, NEW i \in Slots, i \in running, ReapOne(i), index' = index,
         g_nextToReport' = g_nextToReport
             \/ (i = g_nextToReport /\ g_nextToReport' = g_nextToReport + 1)
  PROVE  SlotInv'
  <1>1. /\ proc \in [Slots -> {"none", "alive", "zombie", "reaped"}]
        /\ kind \in [Slots -> Kinds]
        /\ g_nextToReport \in Nat
    <2>1. g_nextToReport \in 0 .. Total
      BY DEF IInv, TypeOK
    <2>2. g_nextToReport \in Nat
      BY <2>1, TotalType
    <2> QED
      BY <2>2 DEF IInv, TypeOK
  <1>0. /\ proc' = [proc EXCEPT ![i] = "reaped"]
        /\ kind' = [kind EXCEPT ![i] = Decode(i)]
        /\ attr' = attr /\ ~attr[i].skip /\ i < index
    BY ReapEffect
  <1>2. \A k \in Slots \ {i} : proc'[k] = proc[k] /\ kind'[k] = kind[k]
    BY <1>1, <1>0
  <1>3. proc'[i] = "reaped" /\ kind'[i] = Decode(i)
    BY <1>1, <1>0
  <1>4. \A k \in Slots : k < g_nextToReport' => k = i \/ k < g_nextToReport
    BY <1>1, TotalType
  <1>5. \A k \in Slots : k >= index' => proc'[k] = "none"
    <2>1. i \in Nat /\ index \in Nat
      BY TotalType DEF IInv, TypeOK
    <2> QED
      BY <1>0, <1>2, <2>1 DEF IInv, SlotInv
  <1>6. \A k \in Slots : attr'[k].skip => proc'[k] = "none"
    BY <1>0, <1>2 DEF IInv, SlotInv
  <1>7. \A k \in Slots : k < g_nextToReport' => proc'[k] \in {"none", "reaped"}
    BY <1>2, <1>3, <1>4 DEF IInv, SlotInv
  <1>8. ASSUME NEW k \in Slots, k < index', proc'[k] \in {"none", "reaped"}, ~attr'[k].skip
        PROVE  kind'[k] = Verdict(k)'
    <2>1. CASE k = i
      BY <2>1, <1>3, ReapEffect DEF Verdict
    <2>2. CASE k # i
      BY <2>2, <1>2, <1>8, ReapEffect DEF Verdict, IInv, SlotInv
    <2> QED
      BY <2>1, <2>2
  <1> QED
    BY <1>5, <1>6, <1>7, <1>8 DEF SlotInv

(* reapOne in the sweep: the slot is reported later. *)
LEMMA SweepStep ==
  ASSUME IInv, NEW i \in Slots, i \in running, ReapOne(i), UNCHANGED <<index, counters>>
  PROVE  SlotInv' /\ RunningCountExact' /\ ReportsAreTrue' /\ Tally'
  <1>1. g_nextToReport' = g_nextToReport
    BY DEF counters
  <1>2. ASSUME NEW k \in Slots, k < g_nextToReport
        PROVE  /\ proc'[k] \in {"none", "reaped"}
               /\ VerdictOf(attr'[k], proc'[k], status'[k]) = Verdict(k)
    <2>1. proc[k] \in {"none", "reaped"} /\ k # i
      BY <1>2 DEF IInv, SlotInv, RunningCountExact
    <2> QED
      BY <2>1, ReapEffect DEF IInv, TypeOK
  <1>3. ReportsAreTrue' /\ Tally'
    BY <1>2, SilentStep
  <1> QED
    BY <1>1, <1>3, ReapEffect, ReapSlotInv

(* The blocking wait: reap the oldest slot and report it. *)
LEMMA ReapAndReportStep ==
  ASSUME IInv, g_nextToReport \in running, ReapAndReport(g_nextToReport), index' = index
  PROVE  SlotInv' /\ RunningCountExact' /\ ReportsAreTrue' /\ Tally'
  <1> DEFINE n == g_nextToReport
  <1>1. n \in Slots /\ ReapOne(n) /\ ReportOne(n, Decode(n), Smaller(pipe[n], MaxCaptured))
    BY DEF IInv, TypeOK, ReapAndReport
  <1>2. g_nextToReport' = n + 1
    BY <1>1 DEF ReportOne
  <1>3. \A k \in Slots : k <= n => proc'[k] \in {"none", "reaped"}
    <2>1. \A k \in Slots : k <= n <=> k < n \/ k = n
      BY <1>1, TotalType
    <2>2. proc \in [Slots -> {"none", "alive", "zombie", "reaped"}]
          /\ proc' = [proc EXCEPT ![n] = "reaped"]
      BY <1>1, ReapEffect DEF IInv, TypeOK
    <2> QED
      BY <2>1, <2>2, <1>1 DEF IInv, SlotInv
  <1>4. \A k \in Slots : k < n => VerdictOf(attr'[k], proc'[k], status'[k]) = Verdict(k)
    BY <1>1, ReapEffect, TotalType
  <1>5. VerdictOf(attr'[n], proc'[n], status'[n]) = Decode(n)
    BY <1>1, ReapEffect DEF IInv, TypeOK
  <1>6. Decode(n) \in Kinds /\ Smaller(pipe[n], MaxCaptured) \in Nat
    BY <1>1, ReapOneType DEF IInv
  <1>7. ReportsAreTrue' /\ Tally'
    BY <1>1, <1>3, <1>4, <1>5, <1>6, ReportStep
  <1> QED
    BY <1>1, <1>2, <1>7, ReapEffect, ReapSlotInv

-----------------------------------------------------------------------------
(* lucis_test_run: the slot at index is registered, no other is touched. *)

LEMMA RegisterEffect ==
  ASSUME IInv, index \in Slots, NEW a \in Attrs, Register(a),
         \A k \in Slots \ {index} : proc'[k] = proc[k] /\ kind'[k] = kind[k],
         status' = status, index' = index + 1, UNCHANGED counters,
         attr'[index].skip => proc'[index] = "none",
         proc'[index] = "none" /\ ~attr'[index].skip => kind'[index] = "FAIL",
         proc'[index] # "reaped"
  PROVE  SlotInv' /\ ReportsAreTrue' /\ Tally' /\ g_nextToReport' <= index'
  <1>1. /\ attr \in [Slots -> Attributes]
        /\ index \in Nat /\ g_nextToReport \in Nat /\ g_nextToReport <= index
    <2>1. index \in 0 .. Total /\ g_nextToReport \in 0 .. Total
      BY DEF IInv, TypeOK
    <2> QED
      BY <2>1, TotalType DEF IInv, TypeOK, PcInv, Attributes
  <1>2. \A k \in Slots \ {index} : attr'[k] = attr[k]
    BY <1>1 DEF Register
  <1>3. \A k \in Slots \ {index} : Verdict(k) = VerdictOf(attr'[k], proc'[k], status'[k])
    BY <1>2 DEF Verdict
  <1>4. g_nextToReport' = g_nextToReport
    BY DEF counters
  <1>5. \A k \in Slots : k < g_nextToReport => k # index
    BY <1>1, TotalType
  <1>6. ReportsAreTrue' /\ Tally'
    <2>1. \A k \in Slots : k < g_nextToReport =>
             /\ proc'[k] \in {"none", "reaped"}
             /\ VerdictOf(attr'[k], proc'[k], status'[k]) = Verdict(k)
      BY <1>3, <1>5 DEF IInv, SlotInv
    <2> QED
      BY <2>1, SilentStep
  <1>7. SlotInv'
    <2>1. \A k \in Slots : k >= index' => proc'[k] = "none"
      <3>1. \A k \in Slots : k >= index + 1 => k # index /\ k >= index
        BY <1>1, TotalType
      <3> QED
        BY <3>1 DEF IInv, SlotInv
    <2>2. \A k \in Slots : attr'[k].skip => proc'[k] = "none"
      BY <1>2 DEF IInv, SlotInv
    <2>3. \A k \in Slots : k < g_nextToReport' => proc'[k] \in {"none", "reaped"}
      BY <1>4, <1>5 DEF IInv, SlotInv
    <2>4. ASSUME NEW k \in Slots, k < index', proc'[k] \in {"none", "reaped"}, ~attr'[k].skip
          PROVE  kind'[k] = VerdictOf(attr'[k], proc'[k], status'[k])
      <3>1. CASE k = index
        BY <3>1, <2>4 DEF VerdictOf
      <3>2. CASE k # index
        <4>1. k < index
          BY <3>2, <2>4, <1>1, TotalType
        <4> QED
          BY <4>1, <3>2, <2>4, <1>2, <1>3 DEF IInv, SlotInv
      <3> QED
        BY <3>1, <3>2
    <2> QED
      BY <2>1, <2>2, <2>3, <2>4 DEF SlotInv, Verdict
  <1> QED
    BY <1>1, <1>4, <1>6, <1>7

(* A child that prints, or that ends: alive becomes zombie, nothing else of  *)
(* what the parent keeps changes.                                            *)
LEMMA ChildEffect ==
  ASSUME IInv, NEW i \in Slots, UNCHANGED parentVars,
         proc[i] = "alive",
         \/ UNCHANGED <<proc, status>>
         \/ /\ proc' = [proc EXCEPT ![i] = "zombie"]
            /\ \E s \in Statuses : status' = [status EXCEPT ![i] = s]
  PROVE  SlotInv' /\ RunningCountExact' /\ ReportsAreTrue' /\ Tally'
  <1>1. /\ proc \in [Slots -> {"none", "alive", "zombie", "reaped"}]
        /\ status \in [Slots -> Statuses]
    BY DEF IInv, TypeOK
  <1>2. UNCHANGED <<index, attr, running, kind, g_runningCount, g_nextToReport, counters>>
    BY DEF parentVars, slotVars, counters
  <1>3. \A k \in Slots \ {i} : proc'[k] = proc[k] /\ status'[k] = status[k]
    BY <1>1
  <1>4. proc'[i] \in {"alive", "zombie"}
    BY <1>1
  <1>5. \A k \in Slots : proc'[k] \in {"alive", "zombie"} <=> proc[k] \in {"alive", "zombie"}
    BY <1>3, <1>4
  <1>6. RunningCountExact'
    BY <1>2, <1>5 DEF IInv, RunningCountExact
  <1>7. \A k \in Slots : proc[k] \in {"none", "reaped"} =>
             /\ k # i /\ proc'[k] = proc[k]
             /\ VerdictOf(attr'[k], proc'[k], status'[k]) = Verdict(k)
    BY <1>2, <1>3 DEF Verdict
  <1>8. ReportsAreTrue' /\ Tally'
    BY <1>2, <1>7, SilentStep DEF IInv, SlotInv
  <1>9. \A k \in Slots : proc'[k] \in {"none", "reaped"} => proc[k] = proc'[k]
    BY <1>3, <1>4
  <1>10. SlotInv'
    BY <1>2, <1>7, <1>9 DEF IInv, SlotInv, Verdict
  <1> QED
    BY <1>6, <1>8, <1>10

-----------------------------------------------------------------------------
(* Every step of the parent or of a child preserves the invariant. *)
LEMMA NextIInv == IInv /\ [Next]_vars => IInv'
  <1> SUFFICES ASSUME IInv, [Next]_vars PROVE IInv'
    OBVIOUS
  <1> DEFINE Core == SlotInv /\ RunningCountExact /\ ReportsAreTrue /\ Tally
  <1>0. TypeOK' /\ PcInv /\ TypeOK
    BY NextTypeOK DEF IInv
  <1>n. /\ index \in Nat /\ g_nextToReport \in Nat /\ Total \in Nat
        /\ index <= Total /\ g_nextToReport <= index
    <2>1. index \in 0 .. Total /\ g_nextToReport \in 0 .. Total
      BY <1>0 DEF TypeOK
    <2> QED
      BY <2>1, <1>0, TotalType DEF PcInv
  <1>1. CASE RunSkipped
    <2>1. PICK a \in Attrs : a.skip /\ Register(a)
      BY <1>1 DEF RunSkipped
    <2>2. attr'[index] = a /\ proc[index] = "none"
      BY <1>1, <2>1, <1>0, <1>n DEF RunSkipped, Register, TypeOK, IInv, SlotInv
    <2>3. Core' /\ g_nextToReport' <= index'
      <3>1. SlotInv' /\ ReportsAreTrue' /\ Tally' /\ g_nextToReport' <= index'
        BY <1>1, <2>1, <2>2, RegisterEffect DEF RunSkipped, childVars
      <3> QED
        BY <3>1, <1>1 DEF RunSkipped, IInv, RunningCountExact, childVars
    <2> QED
      BY <1>0, <1>n, <2>3, <1>1 DEF IInv, PcInv, DoneInv, RunSkipped
  <1>2. CASE RunForkFails
    <2>1. PICK a \in Attrs : ~a.skip /\ Register(a)
      BY <1>2 DEF RunForkFails
    <2>2. attr'[index] = a /\ proc[index] = "none" /\ kind'[index] = "FAIL"
      BY <1>2, <2>1, <1>0, <1>n DEF RunForkFails, Register, TypeOK, IInv, SlotInv
    <2>3. \A k \in Slots \ {index} : kind'[k] = kind[k]
      BY <1>2, <1>0 DEF RunForkFails, TypeOK
    <2>4. Core' /\ g_nextToReport' <= index'
      <3>1. SlotInv' /\ ReportsAreTrue' /\ Tally' /\ g_nextToReport' <= index'
        BY <1>2, <2>1, <2>2, <2>3, RegisterEffect DEF RunForkFails, childVars
      <3> QED
        BY <3>1, <1>2 DEF RunForkFails, IInv, RunningCountExact, childVars
    <2> QED
      BY <1>0, <1>n, <2>4, <1>2 DEF IInv, PcInv, DoneInv, RunForkFails
  <1>3. CASE RunSpawned
    <2>1. PICK a \in Attrs : ~a.skip /\ Register(a)
      BY <1>3 DEF RunSpawned
    <2>2. attr'[index] = a /\ proc[index] = "none" /\ proc'[index] = "alive"
      BY <1>3, <2>1, <1>0, <1>n DEF RunSpawned, Register, TypeOK, IInv, SlotInv
    <2>3. \A k \in Slots \ {index} : proc'[k] = proc[k]
      BY <1>3, <1>0 DEF RunSpawned, TypeOK
    <2>4. SlotInv' /\ ReportsAreTrue' /\ Tally' /\ g_nextToReport' <= index'
      BY <1>3, <2>1, <2>2, <2>3, RegisterEffect DEF RunSpawned
    <2>5. RunningCountExact'
      <3>1. index \notin running /\ index \in Slots
        BY <2>2, <1>3 DEF RunSpawned, IInv, RunningCountExact
      <3>2. Cardinality(running \cup {index}) = Cardinality(running) + 1
        BY <3>1, <1>0, RunningFinite, FS_AddElement
      <3>3. running' = {k \in Slots : proc'[k] \in {"alive", "zombie"}}
        BY <1>3, <2>2, <2>3, <3>1 DEF RunSpawned, IInv, RunningCountExact
      <3> QED
        BY <1>3, <3>2, <3>3 DEF RunSpawned, IInv, RunningCountExact
    <2>6. pc' \in {"run", "reap"}
      BY <1>3 DEF RunSpawned
    <2> QED
      BY <1>0, <1>n, <2>4, <2>5, <2>6 DEF IInv, PcInv, DoneInv
  <1>4. CASE RunsOver
    BY <1>4, <1>0, ControlStep DEF RunsOver, IInv, PcInv, DoneInv, slotVars, counters
  <1>5. CASE ReportThroughStep
    <2>1. g_nextToReport < index /\ g_nextToReport \notin running
      BY <1>5, <1>0, <1>n DEF ReportThroughStep, ReportThroughStops, IInv, SlotInv, RunningCountExact
    <2>2. Core'
      BY <1>5, <2>1, ReportFinishedStep DEF ReportThroughStep
    <2>3. g_nextToReport' = g_nextToReport + 1 /\ pc' = "reportThrough" /\ index' = index
      BY <1>5 DEF ReportThroughStep, ReportFinished, ReportOne
    <2> QED
      BY <1>0, <1>n, <2>1, <2>2, <2>3 DEF IInv, PcInv, DoneInv
  <1>6. CASE ReportThroughReturns
    BY <1>6, <1>0, ControlStep DEF ReportThroughReturns, IInv, PcInv, DoneInv, slotVars, counters
  <1>7. CASE ReapSkipped
    <2>1. g_nextToReport < index /\ g_nextToReport \notin running
      BY <1>7, <1>0, <1>n DEF ReapSkipped, IInv, SlotInv, RunningCountExact
    <2>2. Core'
      BY <1>7, <2>1, ReportFinishedStep DEF ReapSkipped
    <2>3. g_nextToReport' = g_nextToReport + 1 /\ pc' = "reap" /\ index' = index
      BY <1>7 DEF ReapSkipped, ReportFinished, ReportOne
    <2> QED
      BY <1>0, <1>n, <2>1, <2>2, <2>3 DEF IInv, PcInv, DoneInv
  <1>8. CASE ReapReturns
    BY <1>8, <1>0, ControlStep DEF ReapReturns, IInv, PcInv, DoneInv, slotVars, counters
  <1>9. CASE ReapStartsSweep
    BY <1>9, <1>0, ControlStep DEF ReapStartsSweep, IInv, PcInv, DoneInv, slotVars, counters
  <1>10. CASE SweepReaps
    <2>1. Core'
      BY <1>10, <1>0, SweepStep DEF SweepReaps, TypeOK
    <2>2. attr' = attr
      BY <1>10 DEF SweepReaps, ReapOne
    <2> QED
      BY <1>10, <1>0, <2>1, <2>2 DEF SweepReaps, IInv, PcInv, DoneInv, counters
  <1>11. CASE SweepPasses
    BY <1>11, <1>0, ControlStep DEF SweepPasses, IInv, PcInv, DoneInv, slotVars, counters
  <1>12. CASE SweepReturns
    BY <1>12, <1>0, ControlStep DEF SweepReturns, IInv, PcInv, DoneInv, slotVars, counters
  <1>13. CASE OldestBlocks
    <2>1. Core'
      BY <1>13, ReapAndReportStep DEF OldestBlocks
    <2>2. g_nextToReport' = g_nextToReport + 1 /\ pc' = "reap" /\ index' = index
          /\ g_nextToReport < index
      BY <1>13, <1>0 DEF OldestBlocks, ReapAndReport, ReportOne, PcInv
    <2> QED
      BY <1>0, <1>n, <2>1, <2>2 DEF IInv, PcInv, DoneInv
  <1>14. CASE OldestReaped
    <2>1. g_nextToReport < index /\ g_nextToReport \notin running
      BY <1>14, <1>0 DEF OldestReaped, PcInv
    <2>2. Core'
      BY <1>14, <2>1, ReportFinishedStep DEF OldestReaped
    <2>3. g_nextToReport' = g_nextToReport + 1 /\ pc' = "reap" /\ index' = index
      BY <1>14 DEF OldestReaped, ReportFinished, ReportOne
    <2> QED
      BY <1>0, <1>n, <2>1, <2>2, <2>3 DEF IInv, PcInv, DoneInv
  <1>15. CASE EndBlocks
    <2>1. Core'
      BY <1>15, ReapAndReportStep DEF EndBlocks
    <2>2. g_nextToReport' = g_nextToReport + 1 /\ pc' = "end" /\ index' = index
          /\ index = Total /\ g_nextToReport < Total
      BY <1>15, <1>0 DEF EndBlocks, ReapAndReport, ReportOne, PcInv
    <2> QED
      BY <1>0, <1>n, <2>1, <2>2 DEF IInv, PcInv, DoneInv
  <1>16. CASE EndReports
    <2>1. g_nextToReport < index /\ index = Total /\ g_nextToReport \in Slots
      BY <1>16, <1>0, <1>n DEF EndReports, PcInv
    <2>2. g_nextToReport \notin running
      BY <1>16, <2>1 DEF EndReports, IInv, SlotInv, RunningCountExact
    <2>3. Core'
      BY <1>16, <2>1, <2>2, ReportFinishedStep DEF EndReports
    <2>4. g_nextToReport' = g_nextToReport + 1 /\ pc' = "end" /\ index' = index
      BY <1>16 DEF EndReports, ReportFinished, ReportOne
    <2> QED
      BY <1>0, <1>n, <2>1, <2>3, <2>4 DEF IInv, PcInv, DoneInv
  <1>17. CASE EndReturns
    <2>1. Core'
      BY <1>17, ControlStep DEF EndReturns
    <2>2. DoneInv' /\ PcInv'
      BY <1>17, <1>0, <1>n DEF EndReturns, DoneInv, PcInv, counters, slotVars
    <2> QED
      BY <1>0, <2>1, <2>2 DEF IInv
  <1>18. ASSUME NEW i \in Slots, ChildStep(i) \/ ChildTimesOut(i) PROVE IInv'
    <2>1. UNCHANGED parentVars /\ proc[i] = "alive"
      BY <1>18 DEF ChildStep, ChildBuffers, ChildWrites, ChildEndsUnflushed, ChildExits,
                   ChildTimesOut
    <2>2. \/ UNCHANGED <<proc, status>>
          \/ /\ proc' = [proc EXCEPT ![i] = "zombie"]
             /\ \E s \in Statuses : status' = [status EXCEPT ![i] = s]
      BY <1>18 DEF ChildStep, ChildBuffers, ChildWrites, ChildEndsUnflushed, ChildExits,
                   ChildTimesOut
    <2>3. Core'
      BY <2>1, <2>2, ChildEffect
    <2>4. PcInv' /\ DoneInv'
      BY <2>1, <1>0 DEF IInv, PcInv, DoneInv, parentVars, slotVars, counters
    <2> QED
      BY <1>0, <2>3, <2>4 DEF IInv
  <1>19. CASE UNCHANGED vars
    <2>1. Core'
      BY <1>19, ControlStep DEF vars, parentVars
    <2>2. PcInv' /\ DoneInv'
      BY <1>19, <1>0 DEF IInv, PcInv, DoneInv, vars, parentVars, slotVars, counters
    <2> QED
      BY <1>0, <2>1, <2>2 DEF IInv
  <1> QED
    BY <1>1, <1>2, <1>3, <1>4, <1>5, <1>6, <1>7, <1>8, <1>9, <1>10, <1>11, <1>12,
       <1>13, <1>14, <1>15, <1>16, <1>17, <1>18, <1>19
    DEF Next, ParentStep, Terminated

LEMMA InvariantHolds == Spec => []IInv
  BY InitIInv, NextIInv, PTL DEF Spec

(* The harness's state stays in range, for any number of tests and jobs. *)
THEOREM TypeCorrect == Spec => []TypeOK
  BY InvariantHolds, PTL DEF IInv

(* lucis test reports every test once, in order, with the verdict its child's *)
(* wait status deserves.                                                      *)
THEOREM ReportsTrue == Spec => []ReportsAreTrue
  BY InvariantHolds, PTL DEF IInv

(* g_runningCount is the number of children forked and not yet reaped. *)
THEOREM RunningCounted == Spec => []RunningCountExact
  BY InvariantHolds, PTL DEF IInv

(* The exit status of a test binary is 1 exactly when a FAIL line was        *)
(* printed, and lucis_test_end leaves no child behind.                       *)
THEOREM ExitCodeRight == Spec => []ExitCodeTruthful
  <1>1. IInv => ExitCodeTruthful
    <2> SUFFICES ASSUME IInv, pc = "done"
                 PROVE  /\ running = {}
                        /\ g_passed + g_failed + g_skipped = Total
                        /\ (exitCode = 1) <=> (\E k \in 1 .. Len(log) : log[k].tag = "FAIL")
      BY DEF ExitCodeTruthful
    <2>1. g_nextToReport = Total /\ exitCode = IF g_failed > 0 THEN 1 ELSE 0
      BY DEF IInv, DoneInv
    <2>2. running = {}
      <3>1. \A i \in Slots : proc[i] \in {"none", "reaped"}
        BY <2>1, TotalType DEF IInv, SlotInv
      <3> QED
        BY <3>1 DEF IInv, RunningCountExact
    <2> QED
      BY <2>1, <2>2 DEF IInv, Tally
  <1> QED
    BY <1>1, InvariantHolds, PTL

-----------------------------------------------------------------------------
(* One job. *)

(* With g_jobs = 1 at most the slot just spawned is in flight, and the        *)
(* parent leaves reapThrough only when it is reported.                        *)
SerialInv ==
    g_jobs = 1 =>
        /\ pc = "run" => g_nextToReport = index /\ running = {}
        /\ pc = "reportThrough" =>
              running = {} /\ g_nextToReport \in {index - 1, index}
        /\ pc = "reap" => \/ g_nextToReport = index /\ running = {}
                          \/ g_nextToReport = index - 1 /\ running = {index - 1}
        /\ pc \in {"sweep", "oldest"} =>
              g_nextToReport = index - 1 /\ running \subseteq {index - 1}
        /\ pc = "end" => running = {}

LEMMA InitSerialInv == Init => SerialInv
  BY DEF Init, SerialInv

LEMMA NextSerialInv == IInv /\ SerialInv /\ [Next]_vars => SerialInv'
  <1> SUFFICES ASSUME IInv, SerialInv, [Next]_vars, g_jobs = 1 PROVE SerialInv'
    BY DEF SerialInv
  <1>n. index \in Nat /\ g_nextToReport \in Nat /\ Total \in Nat /\ index <= Total
    <2>1. index \in 0 .. Total /\ g_nextToReport \in 0 .. Total
      BY DEF IInv, TypeOK
    <2> QED
      BY <2>1, TotalType
  <1>s. \A i \in Slots : i \in running => ~attr[i].skip
    BY DEF IInv, SlotInv, RunningCountExact
  <1>1. CASE RunSkipped
    BY <1>1, <1>n DEF RunSkipped, SerialInv, counters
  <1>2. CASE RunForkFails
    BY <1>2, <1>n DEF RunForkFails, SerialInv, counters
  <1>3. CASE RunSpawned
    BY <1>3, <1>n DEF RunSpawned, SerialInv, counters
  <1>4. CASE RunsOver
    BY <1>4 DEF RunsOver, SerialInv, slotVars
  <1>5. CASE ReportThroughStep
    BY <1>5, <1>n DEF ReportThroughStep, ReportThroughStops, ReportFinished, ReportOne,
                      SerialInv
  <1>6. CASE ReportThroughReturns
    BY <1>6, <1>n DEF ReportThroughReturns, ReportThroughStops, SerialInv, slotVars, counters
  <1>7. CASE ReapSkipped
    <2>1. g_nextToReport \in Slots /\ g_nextToReport \notin running
      BY <1>7, <1>n, <1>s DEF ReapSkipped
    <2> QED
      BY <1>7, <1>n, <2>1 DEF ReapSkipped, SerialInv
  <1>8. CASE ReapReturns
    BY <1>8, <1>n DEF ReapReturns, SerialInv, slotVars, counters
  <1>9. CASE ReapStartsSweep
    BY <1>9, <1>n DEF ReapStartsSweep, SerialInv, slotVars, counters
  <1>10. CASE SweepReaps
    BY <1>10 DEF SweepReaps, ReapOne, SerialInv, counters
  <1>11. CASE SweepPasses
    BY <1>11 DEF SweepPasses, SerialInv, slotVars, counters
  <1>12. CASE SweepReturns
    BY <1>12 DEF SweepReturns, SerialInv, slotVars, counters
  <1>13. CASE OldestBlocks
    BY <1>13, <1>n DEF OldestBlocks, ReapAndReport, ReapOne, ReportOne, SerialInv
  <1>14. CASE OldestReaped
    BY <1>14, <1>n DEF OldestReaped, ReportFinished, ReportOne, SerialInv
  <1>15. CASE EndBlocks
    BY <1>15 DEF EndBlocks, SerialInv
  <1>16. CASE EndReports
    BY <1>16 DEF EndReports, SerialInv
  <1>17. CASE EndReturns
    BY <1>17 DEF EndReturns, SerialInv
  <1>18. ASSUME NEW i \in Slots, ChildStep(i) \/ ChildTimesOut(i) PROVE SerialInv'
    <2>1. UNCHANGED parentVars
      BY <1>18 DEF ChildStep, ChildBuffers, ChildWrites, ChildEndsUnflushed, ChildExits,
                   ChildTimesOut
    <2> QED
      BY <2>1 DEF SerialInv, parentVars, slotVars, counters
  <1>19. CASE UNCHANGED vars
    BY <1>19 DEF SerialInv, vars, parentVars, slotVars, counters
  <1> QED
    BY <1>1, <1>2, <1>3, <1>4, <1>5, <1>6, <1>7, <1>8, <1>9, <1>10, <1>11, <1>12,
       <1>13, <1>14, <1>15, <1>16, <1>17, <1>18, <1>19
    DEF Next, ParentStep, Terminated

(* Without -j (or with -j 1) tests run one after the other: a child is       *)
(* forked only when every earlier test has been reaped and reported.         *)
THEOREM SerialTests == Spec => SerialWhenOneJob
  <1>1. IInv /\ SerialInv /\ [Next]_vars =>
          [g_jobs = 1 => \A i \in Slots :
             proc[i] = "none" /\ proc'[i] = "alive" => g_nextToReport = i]_vars
    <2> SUFFICES ASSUME IInv, SerialInv, Next, g_jobs = 1, NEW i \in Slots,
                        proc[i] = "none", proc'[i] = "alive"
                 PROVE  g_nextToReport = i
      OBVIOUS
    <2>1. CASE RunSpawned
      <3>1. i = index
        BY <2>1 DEF RunSpawned, IInv, TypeOK
      <3> QED
        BY <2>1, <3>1 DEF RunSpawned, SerialInv
    <2>2. proc'[i] # "alive" \/ RunSpawned
      <3>1. ASSUME NEW j \in Slots, ReapOne(j) PROVE proc'[i] # "alive"
        BY <3>1 DEF ReapOne, IInv, TypeOK
      <3>2. ASSUME NEW j \in Slots, ChildStep(j) \/ ChildTimesOut(j)
            PROVE  proc'[i] # "alive"
        BY <3>2 DEF ChildStep, ChildBuffers, ChildWrites, ChildEndsUnflushed, ChildExits,
                    ChildTimesOut, IInv, TypeOK
      <3>3. CASE SweepReaps \/ OldestBlocks \/ EndBlocks
        BY <3>1, <3>3 DEF SweepReaps, OldestBlocks, EndBlocks, ReapAndReport, IInv, TypeOK
      <3> QED
        BY <3>2, <3>3 DEF Next, ParentStep, Terminated, RunSkipped, RunForkFails, RunsOver,
           ReportThroughStep, ReportThroughReturns, ReapSkipped, ReapReturns,
           ReapStartsSweep, SweepPasses, SweepReturns, OldestReaped, EndReports,
           EndReturns, childVars, vars
    <2> QED
      BY <2>1, <2>2
  <1>2. Spec => []SerialInv
    BY InvariantHolds, InitSerialInv, NextSerialInv, PTL DEF Spec
  <1> QED
    BY <1>1, <1>2, InvariantHolds, PTL DEF Spec, SerialWhenOneJob

-----------------------------------------------------------------------------
(* The refinement. *)

(* There is an exit code only once lucis_test_end has returned. *)
NoCodeYet == pc # "done" => exitCode = -1

LEMMA NextNoCodeYet == IInv /\ NoCodeYet /\ [Next]_vars => NoCodeYet'
  <1> SUFFICES ASSUME NoCodeYet, [Next]_vars PROVE NoCodeYet'
    OBVIOUS
  <1>1. CASE RunSkipped \/ RunForkFails \/ RunSpawned \/ RunsOver
    BY <1>1 DEF RunSkipped, RunForkFails, RunSpawned, RunsOver, NoCodeYet
  <1>2. CASE ReportThroughStep \/ ReportThroughReturns \/ ReapSkipped \/ ReapReturns
    BY <1>2 DEF ReportThroughStep, ReportThroughReturns, ReapSkipped, ReapReturns, NoCodeYet
  <1>3. CASE ReapStartsSweep \/ SweepReaps \/ SweepPasses \/ SweepReturns
    BY <1>3 DEF ReapStartsSweep, SweepReaps, SweepPasses, SweepReturns, NoCodeYet
  <1>4. CASE OldestBlocks \/ OldestReaped \/ EndBlocks \/ EndReports
    BY <1>4 DEF OldestBlocks, OldestReaped, EndBlocks, EndReports, NoCodeYet
  <1>5. CASE EndReturns
    BY <1>5 DEF EndReturns, NoCodeYet
  <1>6. ASSUME UNCHANGED parentVars PROVE NoCodeYet'
    BY <1>6 DEF parentVars, NoCodeYet
  <1>7. ASSUME NEW i \in Slots, ChildStep(i) \/ ChildTimesOut(i) PROVE NoCodeYet'
    BY <1>6, <1>7 DEF ChildStep, ChildBuffers, ChildWrites, ChildEndsUnflushed, ChildExits,
                      ChildTimesOut
  <1>8. CASE UNCHANGED vars
    BY <1>6, <1>8 DEF vars
  <1> QED
    BY <1>1, <1>2, <1>3, <1>4, <1>5, <1>7, <1>8 DEF Next, ParentStep, Terminated

(* Sequences. *)
LEMMA Elements ==
  ASSUME NEW S, NEW s \in Seq(S)
  PROVE  Len(s) \in Nat /\ \A k \in 1 .. Len(s) : s[k] \in S
  OBVIOUS

LEMMA Appended ==
  ASSUME NEW S, NEW s \in Seq(S), NEW x \in S, NEW n \in Nat, n = Len(s)
  PROVE  /\ Append(s, x) = [k \in 1 .. n + 1 |-> IF k = n + 1 THEN x ELSE s[k]]
         /\ Len(Append(s, x)) = n + 1 /\ Append(s, x)[n + 1] = x
         /\ \A k \in 1 .. n : Append(s, x)[k] = s[k]
  <1>1. /\ Append(s, x) \in Seq(S) /\ Len(Append(s, x)) = n + 1 /\ Append(s, x)[n + 1] = x
        /\ \A k \in 1 .. n : Append(s, x)[k] = s[k]
    OBVIOUS
  <1>2. Append(s, x) = [k \in 1 .. n + 1 |-> Append(s, x)[k]]
    <2>1. \A t \in Seq(S) : t = [k \in 1 .. Len(t) |-> t[k]]
      OBVIOUS
    <2> QED
      BY <1>1, <2>1
  <1>3. \A k \in 1 .. n + 1 : Append(s, x)[k] = IF k = n + 1 THEN x ELSE s[k]
    BY <1>1
  <1> QED
    BY <1>1, <1>2, <1>3

(* What TestReport sees of a state. *)
Verdicts == [i \in Slots |-> Decided(i)]
Printed  == [k \in 1 .. Len(log) |-> log[k].tag]

(* One step of the promise, or none. *)
ReportStays == [Report!Next]_<<Verdicts, Printed, exitCode>>

(* Nothing is decided, printed or returned. *)
LEMMA StutterStep ==
  ASSUME \A k \in Slots : Decided(k)' = Decided(k), UNCHANGED <<log, exitCode>>
  PROVE  ReportStays
  BY DEF ReportStays, Verdicts, Printed

(* The k-th printed verdict is the decided one. *)
LEMMA PrintedFacts ==
  ASSUME IInv
  PROVE  /\ Len(log) \in Nat /\ Len(log) = g_nextToReport /\ Len(Printed) = Len(log)
         /\ Printed \in Seq(Kinds)
  <1>1. log \in Seq(Lines) /\ Len(log) \in Nat /\ Len(log) = g_nextToReport
    BY DEF IInv, TypeOK, ReportsAreTrue
  <1>2. \A k \in 1 .. Len(log) : log[k] \in Lines
    BY <1>1, Elements, Zenon
  <1>3. \A k \in 1 .. Len(log) : log[k].tag \in Kinds
    BY <1>2
  <1> QED
    BY <1>1, <1>3 DEF Printed

(* A test is registered without a child, or its child ends. *)
LEMMA DecideStep ==
  ASSUME NEW i \in Slots, Decided(i) = "open", Decided(i)' \in Kinds,
         \A k \in Slots \ {i} : Decided(k)' = Decided(k), UNCHANGED <<log, exitCode>>
  PROVE  ReportStays
  <1>1. Verdicts' = [Verdicts EXCEPT ![i] = Decided(i)'] /\ Verdicts[i] = "open"
    BY DEF Verdicts
  <1>2. UNCHANGED <<Printed, exitCode>>
    BY DEF Printed
  <1>3. Report!Decide(i)
    BY <1>1, <1>2 DEF Report!Decide, Verdicts, Printed
  <1> QED
    BY <1>3 DEF ReportStays, Report!Next, Report!Tests

(* The line of the next test is printed. *)
LEMMA PrintStep ==
  ASSUME IInv, g_nextToReport \in Slots, NEW tag \in Kinds, NEW output \in Nat,
         ReportOne(g_nextToReport, tag, output), Decided(g_nextToReport) = tag,
         \A k \in Slots : Decided(k)' = Decided(k), exitCode' = exitCode
  PROVE  ReportStays
  <1>1. PICK n \in Nat : n = g_nextToReport /\ n \in Slots /\ n = Len(log) /\ n = Len(Printed)
    BY PrintedFacts
  <1>2. PICK line \in Lines : log' = Append(log, line) /\ line.tag = tag
    <2>1. [slot |-> n, tag |-> tag,
           echoed |-> IF (tag = "PASS" /\ Verbose) \/ (tag = "FAIL" /\ ~Verbose)
                      THEN output ELSE 0] \in Lines
      BY <1>1
    <2> QED
      BY <1>1, <2>1 DEF ReportOne
  <1>3. /\ Len(log') = n + 1 /\ log'[n + 1] = line
        /\ \A k \in 1 .. n : log'[k] = log[k]
    <2>1. log \in Seq(Lines)
      BY DEF IInv, TypeOK
    <2> HIDE DEF Lines
    <2>2. line \in Lines /\ n \in Nat /\ n = Len(log)
      BY <1>1
    <2>3. /\ Len(Append(log, line)) = n + 1 /\ Append(log, line)[n + 1] = line
          /\ \A k \in 1 .. n : Append(log, line)[k] = log[k]
      BY <2>1, <2>2, Appended
    <2> QED
      BY <1>2, <2>3, Zenon
  <1>4. Printed' = Append(Printed, tag)
    <2>1. Printed' = [k \in 1 .. n + 1 |-> IF k = n + 1 THEN tag ELSE log[k].tag]
      BY <1>2, <1>3 DEF Printed
    <2>2. Append(Printed, tag) = [k \in 1 .. n + 1 |-> IF k = n + 1 THEN tag ELSE Printed[k]]
      BY <1>1, PrintedFacts, Appended
    <2>3. \A k \in 1 .. n : Printed[k] = log[k].tag
      BY <1>1 DEF Printed
    <2> QED
      BY <2>1, <2>2, <2>3
  <1>5. Verdicts' = Verdicts /\ Verdicts[n] = tag /\ tag # "open"
    BY <1>1 DEF Verdicts
  <1>6. Report!PrintNext
    BY <1>1, <1>4, <1>5 DEF Report!PrintNext, Report!Tests, Verdicts, Printed
  <1> QED
    BY <1>6 DEF ReportStays, Report!Next

(* lucis_test_end returns. *)
LEMMA FinishStep ==
  ASSUME IInv, NoCodeYet, EndReturns
  PROVE  ReportStays
  <1>1. g_nextToReport = Total /\ Len(Printed) = Total /\ Len(log) = Total
    <2>1. g_nextToReport \in 0 .. Total /\ g_nextToReport >= Total
      BY DEF EndReturns, IInv, TypeOK
    <2>2. g_nextToReport = Total
      BY <2>1, TotalType
    <2> QED
      BY <2>2, PrintedFacts
  <1>2. exitCode = -1 /\ exitCode' = IF g_failed > 0 THEN 1 ELSE 0
    BY DEF EndReturns, NoCodeYet
  <1>3. g_failed > 0 <=> \E k \in 1 .. Total : Printed[k] = "FAIL"
    BY <1>1 DEF IInv, Tally, Printed
  <1>4. UNCHANGED <<Verdicts, Printed>>
    BY DEF EndReturns, Verdicts, Printed, Decided, Verdict, slotVars, counters, childVars
  <1>5. Report!Finish
    BY <1>1, <1>2, <1>3, <1>4 DEF Report!Finish, Verdicts, Printed
  <1> QED
    BY <1>5 DEF ReportStays, Report!Next

(* What a slot's decision depends on. *)
LEMMA SameDecision ==
  ASSUME NEW k \in Slots, UNCHANGED <<index, attr[k], proc[k], status[k]>>
  PROVE  Decided(k)' = Decided(k)
  BY DEF Decided, Verdict

LEMMA SameDecisions ==
  ASSUME UNCHANGED <<index, attr, proc, status>>
  PROVE  \A k \in Slots : Decided(k)' = Decided(k)
  BY DEF Decided, Verdict

(* Registering a slot leaves the others as they are. *)
LEMMA RegisterOthers ==
  ASSUME IInv, index \in Slots, index' = index + 1, NEW a, Register(a),
         \A k \in Slots \ {index} : proc'[k] = proc[k] /\ status'[k] = status[k]
  PROVE  \A k \in Slots \ {index} : Decided(k)' = Decided(k)
  <1>1. \A k \in Slots \ {index} : attr'[k] = attr[k] /\ (k < index' <=> k < index)
    BY TotalType DEF Register, IInv, TypeOK
  <1> QED
    BY <1>1 DEF Decided, Verdict

(* A verdict is one of the three. *)
LEMMA VerdictKind ==
  ASSUME NEW a, NEW p, NEW s
  PROVE  VerdictOf(a, p, s) \in Kinds /\ "open" \notin Kinds
  BY DEF VerdictOf

(* A reaped or childless slot that is due is printed as decided. *)
LEMMA FinishedPrint ==
  ASSUME IInv, g_nextToReport < index, g_nextToReport \notin running,
         ReportFinished(g_nextToReport), exitCode' = exitCode,
         UNCHANGED <<index, attr, childVars>>
  PROVE  ReportStays
  <1>1. PICK n \in Slots : n = g_nextToReport /\ captured[n] \in Nat
    BY TotalType DEF IInv, TypeOK
  <1>2. PICK tag \in Kinds : tag = IF attr[n].skip THEN "SKIP" ELSE kind[n]
    BY <1>1 DEF IInv, TypeOK
  <1>3. ReportOne(n, tag, captured[n])
    BY <1>1, <1>2 DEF ReportFinished
  <1>4. proc[n] \in {"none", "reaped"} /\ tag = Verdict(n)
    BY <1>1, <1>2 DEF IInv, TypeOK, SlotInv, RunningCountExact, Verdict, VerdictOf
  <1>5. Decided(n) = tag
    BY <1>1, <1>4 DEF Decided
  <1>6. \A k \in Slots : Decided(k)' = Decided(k)
    BY SameDecisions DEF childVars
  <1> QED
    BY <1>1, <1>3, <1>5, <1>6, PrintStep

(* Reaping a dead child changes no verdict. *)
LEMMA ReapKeeps ==
  ASSUME IInv, NEW i \in Slots, i \in running, ReapOne(i), index' = index
  PROVE  /\ \A k \in Slots : Decided(k)' = Decided(k)
         /\ Decided(i) = Decode(i)
  <1>1. /\ i < index /\ proc[i] = "zombie" /\ proc'[i] = "reaped"
        /\ VerdictOf(attr[i], "reaped", status[i]) = Decode(i)
        /\ UNCHANGED <<attr, status>>
        /\ \A k \in Slots \ {i} : proc'[k] = proc[k]
    BY ReapEffect DEF ReapOne, IInv, TypeOK
  <1>2. Decided(i)' = Decode(i)
    BY <1>1 DEF Decided, Verdict
  <1>3. Decided(i) = Decode(i)
    BY <1>1 DEF Decided, Verdict, VerdictOf
  <1>4. \A k \in Slots \ {i} : Decided(k)' = Decided(k)
    BY <1>1 DEF Decided, Verdict
  <1> QED
    BY <1>2, <1>3, <1>4

LEMMA ReapPrint ==
  ASSUME IInv, g_nextToReport \in running, ReapAndReport(g_nextToReport),
         UNCHANGED <<index, exitCode>>
  PROVE  ReportStays
  <1>1. PICK n \in Slots : n = g_nextToReport
    BY DEF IInv, TypeOK
  <1>2. ReapOne(n) /\ ReportOne(n, Decode(n), Smaller(pipe[n], MaxCaptured))
    BY <1>1 DEF ReapAndReport
  <1>3. Decode(n) \in Kinds /\ Smaller(pipe[n], MaxCaptured) \in Nat
    BY <1>1, <1>2, ReapOneType DEF IInv
  <1>4. Decided(n) = Decode(n) /\ \A k \in Slots : Decided(k)' = Decided(k)
    BY <1>1, <1>2, ReapKeeps
  <1> QED
    BY <1>1, <1>2, <1>3, <1>4, PrintStep

LEMMA NextReports == IInv /\ NoCodeYet /\ [Next]_vars => ReportStays
  <1> SUFFICES ASSUME IInv, NoCodeYet, [Next]_vars PROVE ReportStays
    OBVIOUS
  <1>0. TypeOK /\ PcInv
    BY DEF IInv
  <1>n. /\ index \in Nat /\ g_nextToReport \in Nat /\ Total \in Nat
        /\ index <= Total /\ g_nextToReport <= index
    <2>1. index \in 0 .. Total /\ g_nextToReport \in 0 .. Total
      BY <1>0 DEF TypeOK
    <2> QED
      BY <2>1, <1>0, TotalType DEF PcInv
  <1>1. CASE RunSkipped \/ RunForkFails
    <2>1. PICK i \in Slots : i = index
      BY <1>1 DEF RunSkipped, RunForkFails
    <2>2. index' = i + 1 /\ UNCHANGED <<log, exitCode, proc, status>>
      BY <1>1, <2>1 DEF RunSkipped, RunForkFails, counters, childVars
    <2>3. PICK a \in Attrs : Register(a)
      BY <1>1 DEF RunSkipped, RunForkFails
    <2>4. \A k \in Slots \ {i} : Decided(k)' = Decided(k)
      BY <2>1, <2>2, <2>3, RegisterOthers
    <2>5. Decided(i) = "open"
      BY <1>n, <2>1 DEF Decided
    <2>6. Decided(i)' \in Kinds
      <3>1. proc[i] = "none" /\ i < index'
        BY <1>n, <2>1, <2>2 DEF IInv, SlotInv
      <3>2. Decided(i)' = VerdictOf(attr'[i], proc'[i], status'[i])
        BY <2>2, <3>1 DEF Decided, Verdict
      <3> QED
        BY <3>2, VerdictKind
    <2> QED
      BY <2>2, <2>4, <2>5, <2>6, DecideStep
  <1>2. CASE RunSpawned
    <2>1. PICK i \in Slots : i = index
      BY <1>2 DEF RunSpawned
    <2>2. index' = i + 1 /\ UNCHANGED <<log, exitCode, status>> /\ proc' = [proc EXCEPT ![i] = "alive"]
      BY <1>2, <2>1 DEF RunSpawned, counters
    <2>3. PICK a \in Attrs : Register(a)
      BY <1>2 DEF RunSpawned
    <2>4. proc'[i] = "alive" /\ \A k \in Slots \ {i} : proc'[k] = proc[k]
      BY <1>0, <2>2 DEF TypeOK
    <2>5. \A k \in Slots \ {i} : Decided(k)' = Decided(k)
      BY <2>1, <2>2, <2>3, <2>4, RegisterOthers
    <2>6. Decided(i) = "open" /\ Decided(i)' = "open"
      BY <1>n, <2>1, <2>4 DEF Decided
    <2> QED
      BY <2>2, <2>5, <2>6, StutterStep
  <1>3. ASSUME UNCHANGED <<index, slotVars, counters, exitCode, childVars>> PROVE ReportStays
    BY <1>3, SameDecisions, StutterStep DEF slotVars, counters, childVars
  <1>4. CASE RunsOver \/ ReportThroughReturns \/ ReapReturns \/ ReapStartsSweep
             \/ SweepPasses \/ SweepReturns
    BY <1>3, <1>4 DEF RunsOver, ReportThroughReturns, ReapReturns, ReapStartsSweep,
                      SweepPasses, SweepReturns
  <1>5. CASE ReportThroughStep \/ ReapSkipped \/ OldestReaped \/ EndReports
    <2>1. g_nextToReport < index
      BY <1>5, <1>0, <1>n DEF ReportThroughStep, ReportThroughStops, ReapSkipped, OldestReaped,
                              EndReports, PcInv
    <2>2. PICK n \in Slots : n = g_nextToReport
      BY <1>n, <2>1
    <2>3. attr[n].skip \/ n \notin running
      BY <1>5, <2>1, <2>2 DEF ReportThroughStep, ReportThroughStops, ReapSkipped, OldestReaped,
                              EndReports
    <2>4. n \notin running
      BY <2>3 DEF IInv, SlotInv, RunningCountExact
    <2>5. /\ ReportFinished(g_nextToReport) /\ exitCode' = exitCode
          /\ UNCHANGED <<index, attr, childVars>>
      BY <1>5 DEF ReportThroughStep, ReapSkipped, OldestReaped, EndReports
    <2> QED
      BY <2>1, <2>2, <2>4, <2>5, FinishedPrint
  <1>6. CASE SweepReaps
    <2>1. PICK i \in Slots : i = sweepAt /\ i \in running
      BY <1>0, <1>6 DEF SweepReaps, TypeOK
    <2>2. ReapOne(i) /\ UNCHANGED <<index, log, exitCode>>
      BY <1>6, <2>1 DEF SweepReaps, counters
    <2> QED
      BY <2>1, <2>2, ReapKeeps, StutterStep
  <1>7. CASE OldestBlocks \/ EndBlocks
    BY <1>7, ReapPrint DEF OldestBlocks, EndBlocks
  <1>8. CASE EndReturns
    BY <1>8, FinishStep
  <1>9. ASSUME NEW i \in Slots, ChildStep(i) \/ ChildTimesOut(i) PROVE ReportStays
    <2>1. /\ UNCHANGED <<index, attr, log, exitCode>> /\ proc[i] = "alive"
      BY <1>9 DEF ChildStep, ChildBuffers, ChildWrites, ChildEndsUnflushed, ChildExits,
                  ChildTimesOut, parentVars, slotVars, counters
    <2>2. \/ UNCHANGED <<proc, status>>
          \/ /\ proc' = [proc EXCEPT ![i] = "zombie"]
             /\ \E s \in Statuses : status' = [status EXCEPT ![i] = s]
      BY <1>9 DEF ChildStep, ChildBuffers, ChildWrites, ChildEndsUnflushed, ChildExits,
                  ChildTimesOut
    <2>3. CASE UNCHANGED <<proc, status>>
      BY <2>1, <2>3, SameDecisions, StutterStep
    <2>4. CASE /\ proc' = [proc EXCEPT ![i] = "zombie"]
               /\ \E s \in Statuses : status' = [status EXCEPT ![i] = s]
      <3>1. /\ \A k \in Slots \ {i} : proc'[k] = proc[k] /\ status'[k] = status[k]
            /\ proc'[i] = "zombie"
        BY <1>0, <2>4 DEF TypeOK
      <3>2. \A k \in Slots \ {i} : Decided(k)' = Decided(k)
        BY <2>1, <3>1 DEF Decided, Verdict
      <3>3. i < index
        BY <1>n, <2>1, TotalType DEF IInv, SlotInv
      <3>4. Decided(i) = "open"
        BY <2>1 DEF Decided
      <3>5. Decided(i)' = VerdictOf(attr'[i], proc'[i], status'[i])
        BY <2>1, <3>1, <3>3 DEF Decided, Verdict
      <3> QED
        BY <2>1, <3>2, <3>4, <3>5, VerdictKind, DecideStep
    <2> QED
      BY <2>2, <2>3, <2>4
  <1>10. CASE UNCHANGED vars
    BY <1>3, <1>10 DEF vars, parentVars
  <1> QED
    BY <1>1, <1>2, <1>4, <1>5, <1>6, <1>7, <1>8, <1>9, <1>10 DEF Next, ParentStep, Terminated

(* The harness implements TestReport for every number of tests and jobs:     *)
(* each parent or child step decides one test's verdict, prints the next     *)
(* one, returns the exit code, or shows nothing.                             *)
THEOREM HarnessRefines == Spec => HarnessReports
  <1>1. Init => NoCodeYet
    BY DEF Init, NoCodeYet
  <1>2. Init => Report!Init
    <2> SUFFICES ASSUME Init PROVE Report!Init
      OBVIOUS
    <2>1. \A i \in Slots : Decided(i) = "open"
      BY TotalType DEF Init, Decided
    <2>2. log = << >> /\ exitCode = -1
      BY DEF Init
    <2> QED
      BY <2>1, <2>2 DEF Report!Init, Report!Tests
  <1>3. Spec => []NoCodeYet
    BY <1>1, NextNoCodeYet, InvariantHolds, PTL DEF Spec
  <1> QED
    BY <1>2, <1>3, NextReports, InvariantHolds, PTL
    DEF Spec, HarnessReports, Report!Spec, ReportStays, Verdicts, Printed

-----------------------------------------------------------------------------
(* Output. *)

Whole(out) == Smaller(out, MaxCaptured)

(* Where the output of a test is that prints `out`: with the child, in its   *)
(* buffer and its pipe; in the pipe of a dead child; captured.               *)
Flow(state, out, left, buffered, piped, kept, how) ==
    /\ state = "none" => buffered = 0 /\ piped = 0 /\ kept = 0 /\ how = "none"
    /\ state = "alive" => piped + buffered + left = out
    /\ state = "zombie" => piped <= out /\ (how = "exit1" => piped = out)
    /\ state = "reaped" => kept <= Whole(out) /\ (how = "exit1" => kept = Whole(out))

FlowOf(i) == Flow(proc[i], body[i].out, todo[i], buf[i], pipe[i], captured[i], status[i])

OutputInv == (\A i \in Slots : FlowOf(i)) /\ EchoesFaithful

LEMMA SlotTypes ==
  ASSUME IInv, NEW i \in Slots
  PROVE  /\ body[i].out \in Nat /\ todo[i] \in Nat /\ buf[i] \in Nat /\ pipe[i] \in Nat
         /\ captured[i] \in Nat /\ MaxCaptured \in Nat /\ Whole(body[i].out) \in Nat
         /\ i \in Nat /\ index \in Nat /\ g_nextToReport \in Nat /\ g_nextToReport <= index
         /\ proc[i] \in {"none", "alive", "zombie", "reaped"}
  <1>1. /\ body \in [Slots -> [out : Nat, fate : Fates]] /\ todo[i] \in Nat /\ buf[i] \in Nat
        /\ pipe[i] \in Nat /\ captured[i] \in Nat /\ index \in 0 .. Total
        /\ g_nextToReport \in 0 .. Total /\ g_nextToReport <= index
        /\ proc[i] \in {"none", "alive", "zombie", "reaped"}
    BY DEF IInv, TypeOK, PcInv
  <1>2. body[i] \in [out : Nat, fate : Fates]
    BY <1>1
  <1>3. body[i].out \in Nat /\ MaxCaptured \in Nat
    BY <1>2, RunnerAssumption
  <1> QED
    BY <1>1, <1>3, TotalType DEF Whole, Smaller

(* Nothing is printed, and no reported test runs. *)
LEMMA EchoKept ==
  ASSUME IInv, EchoesFaithful, log' = log,
         \A k \in Slots : k < g_nextToReport => body'[k] = body[k] /\ status'[k] = status[k]
  PROVE  EchoesFaithful'
  <1>1. Len(log) = g_nextToReport /\ g_nextToReport \in 0 .. Total
    BY DEF IInv, ReportsAreTrue, TypeOK
  <1>2. \A k \in 1 .. Len(log) : k - 1 \in Slots /\ k - 1 < g_nextToReport
    BY <1>1, TotalType
  <1> QED
    BY <1>2 DEF EchoesFaithful

(* The line of slot g_nextToReport is printed. *)
LEMMA EchoStep ==
  ASSUME IInv, EchoesFaithful, g_nextToReport \in Slots, NEW tag \in Kinds, NEW output \in Nat,
         ReportOne(g_nextToReport, tag, output), UNCHANGED <<body, status>>,
         output <= Whole(body[g_nextToReport].out),
         status[g_nextToReport] = "exit1" => output = Whole(body[g_nextToReport].out)
  PROVE  EchoesFaithful'
  <1>1. PICK n \in Nat : n = g_nextToReport /\ n \in Slots /\ n = Len(log)
    BY SlotTypes DEF IInv, ReportsAreTrue
  <1>2. PICK line : /\ log' = Append(log, line) /\ line \in Lines /\ line.tag = tag
                    /\ line.echoed = IF (tag = "PASS" /\ Verbose) \/ (tag = "FAIL" /\ ~Verbose)
                                     THEN output ELSE 0
    <2> DEFINE new == [slot |-> g_nextToReport, tag |-> tag,
                       echoed |-> IF (tag = "PASS" /\ Verbose) \/ (tag = "FAIL" /\ ~Verbose)
                                  THEN output ELSE 0]
    <2>1. log' = Append(log, new)
      BY DEF ReportOne
    <2>2. new \in Lines /\ new.tag = tag
          /\ new.echoed = IF (tag = "PASS" /\ Verbose) \/ (tag = "FAIL" /\ ~Verbose)
                          THEN output ELSE 0
      BY DEF Lines
    <2> QED
      BY <2>1, <2>2
  <1>3. log \in Seq(Lines)
    BY DEF IInv, TypeOK
  <1>4. /\ Len(log') = n + 1 /\ log'[n + 1] = line
        /\ \A k \in 1 .. n : log'[k] = log[k]
    <2> HIDE DEF Lines
    <2>1. line \in Lines /\ log' = Append(log, line) /\ n = Len(log)
      BY <1>1, <1>2
    <2>2. /\ Len(Append(log, line)) = n + 1 /\ Append(log, line)[n + 1] = line
          /\ \A k \in 1 .. n : Append(log, line)[k] = log[k]
      BY <1>3, <2>1, Appended
    <2> QED
      BY <2>1, <2>2, Zenon
  <1>5. Whole(body[n].out) \in Nat
    BY <1>1, SlotTypes
  <1>6. /\ line.echoed <= Whole(body[n].out)
        /\ line.tag = "FAIL" /\ status[n] = "exit1" /\ ~Verbose
              => line.echoed = Whole(body[n].out)
    BY <1>1, <1>2, <1>5
  <1>7. ASSUME NEW k \in 1 .. Len(log')
        PROVE  /\ log'[k].echoed <= Whole(body[k - 1].out)
               /\ log'[k].tag = "FAIL" /\ status[k - 1] = "exit1" /\ ~Verbose
                     => log'[k].echoed = Whole(body[k - 1].out)
    <2>1. CASE k = n + 1
      <3>1. k - 1 = n
        BY <1>1, <2>1
      <3> QED
        BY <1>4, <1>6, <2>1, <3>1
    <2>2. CASE k # n + 1
      <3>1. k \in 1 .. Len(log) /\ k \in 1 .. n
        BY <1>1, <1>4, <2>2
      <3> QED
        BY <1>4, <3>1 DEF EchoesFaithful, Whole
    <2> QED
      BY <2>1, <2>2
  <1> QED
    BY <1>7 DEF EchoesFaithful, Whole

(* A slot nothing happens to. *)
LEMMA FlowKept ==
  ASSUME NEW k, FlowOf(k), proc'[k] = proc[k], body'[k] = body[k], todo'[k] = todo[k],
         buf'[k] = buf[k], pipe'[k] = pipe[k], captured'[k] = captured[k], status'[k] = status[k]
  PROVE  FlowOf(k)'
  BY DEF FlowOf

(* reapOne captures what is in the pipe. *)
LEMMA ReapFlow ==
  ASSUME IInv, \A k \in Slots : FlowOf(k), NEW i \in Slots, ReapOne(i)
  PROVE  /\ \A k \in Slots : FlowOf(k)'
         /\ Smaller(pipe[i], MaxCaptured) \in Nat
         /\ Smaller(pipe[i], MaxCaptured) <= Whole(body[i].out)
         /\ status[i] = "exit1" => Smaller(pipe[i], MaxCaptured) = Whole(body[i].out)
  <1>1. /\ proc[i] = "zombie" /\ UNCHANGED <<body, todo, buf, status>>
        /\ proc' = [proc EXCEPT ![i] = "reaped"] /\ pipe' = [pipe EXCEPT ![i] = 0]
        /\ captured' = [captured EXCEPT ![i] = Smaller(pipe[i], MaxCaptured)]
    BY DEF ReapOne
  <1>2. pipe[i] <= body[i].out /\ (status[i] = "exit1" => pipe[i] = body[i].out)
    BY <1>1 DEF FlowOf, Flow
  <1>3. pipe[i] \in Nat /\ body[i].out \in Nat /\ MaxCaptured \in Nat
    BY SlotTypes
  <1>4. /\ Smaller(pipe[i], MaxCaptured) \in Nat
        /\ Smaller(pipe[i], MaxCaptured) <= Whole(body[i].out)
        /\ status[i] = "exit1" => Smaller(pipe[i], MaxCaptured) = Whole(body[i].out)
    BY <1>2, <1>3 DEF Whole, Smaller
  <1>5. proc'[i] = "reaped" /\ captured'[i] = Smaller(pipe[i], MaxCaptured)
    BY <1>1 DEF IInv, TypeOK
  <1>6. FlowOf(i)'
    BY <1>1, <1>4, <1>5 DEF FlowOf, Flow
  <1>7. ASSUME NEW k \in Slots, k # i PROVE FlowOf(k)'
    <2>1. proc'[k] = proc[k] /\ pipe'[k] = pipe[k] /\ captured'[k] = captured[k]
      BY <1>1, <1>7 DEF IInv, TypeOK
    <2> QED
      BY <1>1, <2>1, FlowKept
  <1> QED
    BY <1>4, <1>6, <1>7

(* A child's step moves its output on. *)
LEMMA ChildFlow ==
  ASSUME IInv, OutputInv, NEW i \in Slots, ChildStep(i) \/ ChildTimesOut(i)
  PROVE  OutputInv'
  <1>1. /\ proc[i] = "alive" /\ body' = body /\ log' = log /\ captured' = captured
        /\ \A k \in Slots \ {i} : /\ proc'[k] = proc[k] /\ todo'[k] = todo[k] /\ buf'[k] = buf[k]
                                   /\ pipe'[k] = pipe[k] /\ status'[k] = status[k]
    <2>0. /\ proc \in [Slots -> {"none", "alive", "zombie", "reaped"}]
          /\ todo \in [Slots -> Nat] /\ buf \in [Slots -> Nat] /\ pipe \in [Slots -> Nat]
          /\ status \in [Slots -> Statuses]
      BY DEF IInv, TypeOK
    <2>1. /\ proc[i] = "alive" /\ body' = body /\ UNCHANGED parentVars
      BY DEF ChildStep, ChildTimesOut, ChildBuffers, ChildWrites, ChildEndsUnflushed, ChildExits
    <2>2. log' = log /\ captured' = captured
      BY <2>1 DEF parentVars, counters, slotVars
    <2>3. CASE ChildBuffers(i)
      BY <2>0, <2>1, <2>2, <2>3 DEF ChildBuffers
    <2>4. CASE ChildWrites(i)
      BY <2>0, <2>1, <2>2, <2>4 DEF ChildWrites
    <2>5. CASE ChildEndsUnflushed(i)
      BY <2>0, <2>1, <2>2, <2>5 DEF ChildEndsUnflushed
    <2>6. CASE ChildExits(i)
      BY <2>0, <2>1, <2>2, <2>6 DEF ChildExits
    <2>7. CASE ChildTimesOut(i)
      BY <2>0, <2>1, <2>2, <2>7 DEF ChildTimesOut
    <2> QED
      BY <2>3, <2>4, <2>5, <2>6, <2>7 DEF ChildStep
  <1>2. \A k \in Slots : k < g_nextToReport => status'[k] = status[k]
    BY <1>1 DEF IInv, SlotInv
  <1>3. EchoesFaithful'
    BY <1>1, <1>2, EchoKept DEF OutputInv
  <1>4. \A k \in Slots \ {i} : FlowOf(k)'
    BY <1>1, FlowKept DEF OutputInv
  <1>5. pipe[i] + buf[i] + todo[i] = body[i].out
    BY <1>1 DEF OutputInv, FlowOf, Flow
  <1>6. /\ pipe[i] \in Nat /\ buf[i] \in Nat /\ todo[i] \in Nat /\ body[i].out \in Nat
    BY SlotTypes
  <1>t. /\ proc \in [Slots -> {"none", "alive", "zombie", "reaped"}]
        /\ todo \in [Slots -> Nat] /\ buf \in [Slots -> Nat] /\ pipe \in [Slots -> Nat]
        /\ status \in [Slots -> Statuses]
    BY DEF IInv, TypeOK
  <1>7. CASE ChildBuffers(i)
    <2>1. /\ proc'[i] = "alive" /\ todo'[i] = todo[i] - 1 /\ buf'[i] = buf[i] + 1
          /\ pipe'[i] = pipe[i]
      BY <1>7, <1>1, <1>t DEF ChildBuffers
    <2>2. pipe'[i] + buf'[i] + todo'[i] = body'[i].out
      BY <1>1, <1>5, <1>6, <2>1
    <2>3. FlowOf(i)'
      BY <2>1, <2>2 DEF FlowOf, Flow
    <2> QED
      BY <1>3, <1>4, <2>3 DEF OutputInv
  <1>8. CASE ChildWrites(i)
    <2>1. /\ proc'[i] = "alive" /\ todo'[i] = todo[i] - 1 /\ buf'[i] = 0
          /\ pipe'[i] = pipe[i] + buf[i] + 1
      BY <1>8, <1>1, <1>t DEF ChildWrites
    <2>2. pipe'[i] + buf'[i] + todo'[i] = body'[i].out
      BY <1>1, <1>5, <1>6, <2>1
    <2>3. FlowOf(i)'
      BY <2>1, <2>2 DEF FlowOf, Flow
    <2> QED
      BY <1>3, <1>4, <2>3 DEF OutputInv
  <1>9. CASE ChildEndsUnflushed(i) \/ ChildTimesOut(i)
    <2>1. proc'[i] = "zombie" /\ pipe'[i] = pipe[i] /\ status'[i] # "exit1"
      BY <1>9, <1>t DEF ChildEndsUnflushed, ChildTimesOut
    <2>2. pipe'[i] <= body'[i].out
      BY <1>1, <1>5, <1>6, <2>1
    <2>3. FlowOf(i)'
      BY <2>1, <2>2 DEF FlowOf, Flow
    <2> QED
      BY <1>3, <1>4, <2>3 DEF OutputInv
  <1>10. CASE ChildExits(i)
    <2>1. proc'[i] = "zombie" /\ pipe'[i] = pipe[i] + buf[i] /\ todo[i] = 0
      BY <1>10, <1>t DEF ChildExits
    <2>2. pipe'[i] <= body'[i].out /\ pipe'[i] = body'[i].out
      BY <1>1, <1>5, <1>6, <2>1
    <2>3. FlowOf(i)'
      BY <2>1, <2>2 DEF FlowOf, Flow
    <2> QED
      BY <1>3, <1>4, <2>3 DEF OutputInv
  <1> QED
    BY <1>7, <1>8, <1>9, <1>10 DEF ChildStep

(* A slot that is not running is reported as it stands. *)
LEMMA FinishedFlow ==
  ASSUME IInv, OutputInv, g_nextToReport \in Slots, g_nextToReport \notin running,
         ReportFinished(g_nextToReport), UNCHANGED <<captured, childVars>>
  PROVE  OutputInv'
  <1> DEFINE n == g_nextToReport
             tag == IF attr[n].skip THEN "SKIP" ELSE kind[n]
  <1>1. tag \in Kinds /\ captured[n] \in Nat /\ proc[n] \in {"none", "reaped"}
    <2>1. kind[n] \in Kinds /\ captured[n] \in Nat
      BY DEF IInv, TypeOK
    <2>2. proc[n] \in {"none", "reaped"}
      BY SlotTypes DEF IInv, RunningCountExact
    <2> QED
      BY <2>1, <2>2 DEF Kinds
  <1>2. ReportOne(n, tag, captured[n])
    BY DEF ReportFinished
  <1>3. captured[n] <= Whole(body[n].out) /\ (status[n] = "exit1" => captured[n] = Whole(body[n].out))
    <2>1. Whole(body[n].out) \in Nat
      BY SlotTypes
    <2>2. FlowOf(n)
      BY DEF OutputInv
    <2> QED
      BY <1>1, <2>1, <2>2 DEF FlowOf, Flow
  <1> HIDE DEF tag
  <1>4. EchoesFaithful'
    BY <1>1, <1>2, <1>3, EchoStep DEF OutputInv, childVars
  <1>5. \A k \in Slots : FlowOf(k)'
    BY FlowKept DEF OutputInv, childVars
  <1> QED
    BY <1>4, <1>5 DEF OutputInv

(* A child is reaped and its slot reported. *)
LEMMA ReapedFlow ==
  ASSUME IInv, OutputInv, g_nextToReport \in Slots, ReapAndReport(g_nextToReport)
  PROVE  OutputInv'
  <1> DEFINE n == g_nextToReport
  <1>1. ReapOne(n) /\ ReportOne(n, Decode(n), Smaller(pipe[n], MaxCaptured))
    BY DEF ReapAndReport
  <1>2. /\ \A k \in Slots : FlowOf(k)'
        /\ Smaller(pipe[n], MaxCaptured) \in Nat
        /\ Smaller(pipe[n], MaxCaptured) <= Whole(body[n].out)
        /\ status[n] = "exit1" => Smaller(pipe[n], MaxCaptured) = Whole(body[n].out)
    BY <1>1, ReapFlow DEF OutputInv
  <1>3. Decode(n) \in Kinds /\ UNCHANGED <<body, status>>
    BY <1>1 DEF Decode, Kinds, ReapOne
  <1>4. EchoesFaithful'
    BY <1>1, <1>2, <1>3, EchoStep DEF OutputInv
  <1> QED
    BY <1>2, <1>4 DEF OutputInv

LEMMA NextOutputInv == IInv /\ OutputInv /\ [Next]_vars => OutputInv'
  <1> SUFFICES ASSUME IInv, OutputInv, [Next]_vars PROVE OutputInv'
    OBVIOUS
  <1>0. ASSUME UNCHANGED <<captured, log, childVars>> PROVE OutputInv'
    <2>1. EchoesFaithful'
      BY <1>0, EchoKept DEF OutputInv, childVars
    <2>2. \A k \in Slots : FlowOf(k)'
      BY <1>0, FlowKept DEF OutputInv, childVars
    <2> QED
      BY <2>1, <2>2 DEF OutputInv
  <1>n. /\ index \in Nat /\ g_nextToReport \in Nat /\ Total \in Nat /\ index <= Total
        /\ g_nextToReport <= index
    <2>1. index \in 0 .. Total /\ g_nextToReport \in 0 .. Total /\ g_nextToReport <= index
      BY DEF IInv, TypeOK, PcInv
    <2> QED
      BY <2>1, TotalType
  <1>s. g_nextToReport < index => g_nextToReport \in Slots
    BY <1>n
  <1>1. CASE RunSkipped \/ RunForkFails \/ RunsOver \/ ReportThroughReturns \/ ReapReturns
              \/ ReapStartsSweep \/ SweepPasses \/ SweepReturns \/ EndReturns \/ UNCHANGED vars
    BY <1>0, <1>1 DEF RunSkipped, RunForkFails, RunsOver, ReportThroughReturns, ReapReturns,
       ReapStartsSweep, SweepPasses, SweepReturns, EndReturns, vars, parentVars, counters, slotVars
  <1>2. CASE RunSpawned
    <2>1. PICK b \in Bodies : /\ body' = [body EXCEPT ![index] = b]
                              /\ todo' = [todo EXCEPT ![index] = b.out]
      BY <1>2 DEF RunSpawned
    <2>2. /\ index \in Slots /\ proc' = [proc EXCEPT ![index] = "alive"]
          /\ UNCHANGED <<captured, buf, pipe, status, log>>
      BY <1>2 DEF RunSpawned, counters
    <2>3. PICK i \in Slots : i = index
      BY <2>2
    <2>4. proc[i] = "none" /\ FlowOf(i)
      BY <1>n, <2>3 DEF IInv, SlotInv, OutputInv
    <2>5. buf[i] = 0 /\ pipe[i] = 0
      BY <2>4 DEF FlowOf, Flow
    <2>6. proc'[i] = "alive" /\ todo'[i] = b.out /\ body'[i] = b
      BY <2>1, <2>2, <2>3 DEF IInv, TypeOK
    <2>7. b.out \in Nat
      BY <2>1, RunnerAssumption
    <2>8. pipe'[i] + buf'[i] + todo'[i] = body'[i].out
      BY <2>2, <2>5, <2>6, <2>7
    <2>9. FlowOf(i)'
      BY <2>6, <2>8 DEF FlowOf, Flow
    <2>10. \A k \in Slots \ {i} : /\ proc'[k] = proc[k] /\ body'[k] = body[k]
                                    /\ todo'[k] = todo[k]
      BY <2>1, <2>2, <2>3 DEF IInv, TypeOK
    <2>11. \A k \in Slots \ {i} : FlowOf(k)'
      BY <2>2, <2>10, FlowKept DEF OutputInv
    <2>12. \A k \in Slots : k < g_nextToReport => body'[k] = body[k] /\ status'[k] = status[k]
      BY <1>n, <2>2, <2>3, <2>10
    <2>13. EchoesFaithful'
      BY <2>2, <2>12, EchoKept DEF OutputInv
    <2> QED
      BY <2>9, <2>11, <2>13 DEF OutputInv
  <1>3. CASE ReportThroughStep \/ ReapSkipped \/ OldestReaped \/ EndReports
    <2>1. ReportFinished(g_nextToReport) /\ UNCHANGED <<captured, childVars>>
      BY <1>3 DEF ReportThroughStep, ReapSkipped, OldestReaped, EndReports
    <2>2. g_nextToReport < index
      BY <1>3, <1>n DEF ReportThroughStep, ReapSkipped, OldestReaped, EndReports,
         ReportThroughStops, IInv, PcInv
    <2>3. attr[g_nextToReport].skip \/ g_nextToReport \notin running
      BY <1>3 DEF ReportThroughStep, ReapSkipped, OldestReaped, EndReports, ReportThroughStops
    <2>4. g_nextToReport \notin running
      BY <1>s, <2>2, <2>3 DEF IInv, SlotInv, RunningCountExact
    <2> QED
      BY <1>s, <2>1, <2>2, <2>4, FinishedFlow
  <1>4. CASE SweepReaps
    <2>1. sweepAt \in Slots /\ ReapOne(sweepAt) /\ log' = log
      BY <1>4 DEF SweepReaps, IInv, TypeOK, counters
    <2>2. (\A k \in Slots : FlowOf(k)') /\ UNCHANGED <<body, status>>
      BY <2>1, ReapFlow DEF OutputInv, ReapOne
    <2>3. EchoesFaithful'
      BY <2>1, <2>2, EchoKept DEF OutputInv
    <2> QED
      BY <2>2, <2>3 DEF OutputInv
  <1>5. CASE OldestBlocks \/ EndBlocks
    <2>1. g_nextToReport \in Slots /\ ReapAndReport(g_nextToReport)
      BY <1>5 DEF OldestBlocks, EndBlocks, IInv, TypeOK
    <2> QED
      BY <2>1, ReapedFlow
  <1>6. CASE \E i \in Slots : ChildStep(i) \/ ChildTimesOut(i)
    BY <1>6, ChildFlow
  <1> QED
    BY <1>1, <1>2, <1>3, <1>4, <1>5, <1>6 DEF Next, ParentStep, Terminated

LEMMA InitOutputInv == Init => OutputInv
  BY TotalType DEF Init, OutputInv, FlowOf, Flow, EchoesFaithful

(* A status line echoes the output of its own test, never more than it       *)
(* printed, and all of it (up to the cap) when the test failed by exit(1).   *)
THEOREM EchoesSound == Spec => []EchoesFaithful
  <1>1. OutputInv => EchoesFaithful
    BY DEF OutputInv
  <1> QED
    BY <1>1, InitOutputInv, NextOutputInv, InvariantHolds, PTL DEF Spec

(* A test whose output fits the pipe never blocks, whatever the parent waits *)
(* for: reading the pipe only after waitpid is safe for it.                  *)
THEOREM FittingSound == Spec => []FittingChildGoes
  <1>1. IInv /\ OutputInv => FittingChildGoes
    <2> SUFFICES ASSUME IInv, OutputInv, NEW i \in Slots, proc[i] = "alive",
                        body[i].fate # "hang", body[i].out <= PipeCap
                 PROVE  \/ todo[i] > 0 /\ (buf[i] + 1 < BufCap \/ pipe[i] + buf[i] + 1 <= PipeCap)
                        \/ todo[i] = 0 /\ (body[i].fate \in {"return", "abort"}
                                           \/ pipe[i] + buf[i] <= PipeCap)
      BY DEF FittingChildGoes
    <2>1. pipe[i] + buf[i] + todo[i] = body[i].out
      BY DEF OutputInv, FlowOf, Flow
    <2>2. /\ pipe[i] \in Nat /\ buf[i] \in Nat /\ todo[i] \in Nat /\ body[i].out \in Nat
          /\ PipeCap \in Nat
      BY SlotTypes, RunnerAssumption
    <2>3. (todo[i] > 0 /\ pipe[i] + buf[i] + 1 <= PipeCap) \/ (todo[i] = 0 /\ pipe[i] + buf[i] <= PipeCap)
      BY <2>1, <2>2
    <2> QED
      BY <2>3
  <1> QED
    BY <1>1, InitOutputInv, NextOutputInv, InvariantHolds, PTL DEF Spec
=============================================================================
