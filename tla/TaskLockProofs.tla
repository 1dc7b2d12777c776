--------------------------- MODULE TaskLockProofs ---------------------------
(***************************************************************************)
(* Proofs about spawn, await and lock, for any number of tasks and any      *)
(* program.                                                                 *)
(***************************************************************************)
EXTENDS TaskLock, WellFoundedInduction, TLAPS

(* Handles are of tasks that were spawned. *)
HandlesSpawned ==
    /\ \A t \in Threads : reach[t] \subseteq 1 .. spawned
    /\ \A u \in Tasks : u > spawned => thread[u] = "unused" /\ pc[u] = "start"
    /\ awaited \subseteq 1 .. spawned /\ got \subseteq awaited /\ lost \subseteq awaited

(* A thread that is awaiting awaits a task. *)
TargetsAwaited ==
    \A t \in Threads : pc[t] \in {"join", "take"} => target[t] \in awaited

TypeInv == TypeOK /\ HandlesSpawned /\ TargetsAwaited

(* Constants used by every step. *)
LEMMA TaskFacts ==
    /\ NumTasks \in Nat /\ MaxOps \in Nat /\ Slips \subseteq AllSlips
    /\ Main \in Threads /\ Main \notin Tasks /\ None \notin Threads /\ None \notin Tasks
    /\ \A u \in Tasks : u \in Threads /\ u \in Nat /\ u # Main
    /\ \A t \in Threads : t \in Tasks \/ t = Main
BY TaskAssumption DEF Tasks, Threads, Main, None

(* The initial state. *)
LEMMA TypeInit == Init => TypeInv
<1> SUFFICES ASSUME Init PROVE TypeInv
  OBVIOUS
<1>1. TypeOK
  BY TaskFacts DEF Init, TypeOK, Memory, AllSlips
<1>2. HandlesSpawned
  BY TaskFacts DEF Init, HandlesSpawned
<1>3. TargetsAwaited
  BY TaskFacts DEF Init, TargetsAwaited
<1> QED BY <1>1, <1>2, <1>3 DEF TypeInv

(* A step of a thread. *)
LEMMA TypeThreadStep ==
    ASSUME TypeInv, NEW t \in Threads, Step(t)
    PROVE  TypeInv'
<1> USE TaskFacts DEF TypeInv
<1>1. CASE Spawn(t)
  <2>0. /\ spawned < NumTasks /\ pc[t] = "run" /\ ops[t] < MaxOps
        /\ spawned' = spawned + 1
        /\ ops' = [ops EXCEPT ![t] = @ + 1]
        /\ args' = [args EXCEPT ![spawned + 1] = "live"]
        /\ handle' = [handle EXCEPT ![spawned + 1] = "live"]
    BY <1>1 DEF Spawn, Begins, At
  <2>a. spawned \in Nat /\ spawned + 1 \in Tasks /\ MaxOps \in Nat
    <3>1. spawned \in 0 .. NumTasks
      BY DEF TypeOK
    <3> QED BY <2>0, <3>1 DEF Tasks
  <2>1. PICK u \in Tasks : u = spawned + 1
    BY <2>a
  <2>b. u \in Nat /\ u \in Threads /\ u \in 1 .. u /\ 1 .. spawned \subseteq 1 .. u /\ 1 .. u \subseteq Tasks
    BY <2>a, <2>1 DEF Tasks
  <2>2. PICK passed \in {{}, reach[t]} : reach' = [reach EXCEPT ![t] = @ \cup {u}, ![u] = passed]
    BY <1>1, <2>1 DEF Spawn
  <2>3. t # u /\ reach[t] \subseteq 1 .. spawned /\ passed \subseteq 1 .. spawned
    BY <2>0, <2>a, <2>1, <2>2 DEF HandlesSpawned
  <2>4. reach' \in [Threads -> SUBSET Tasks] /\ \A s \in Threads : reach'[s] \subseteq 1 .. u
    <3>1. reach \in [Threads -> SUBSET Tasks] /\ \A s \in Threads : reach[s] \subseteq 1 .. u
      BY <2>b DEF HandlesSpawned, TypeOK
    <3>2. passed \subseteq 1 .. u /\ reach[t] \cup {u} \subseteq 1 .. u
      BY <2>b, <2>3
    <3>3. passed \in SUBSET Tasks /\ reach[t] \cup {u} \in SUBSET Tasks
      BY <2>b, <3>2
    <3> QED BY <2>b, <2>2, <2>3, <3>1, <3>2, <3>3
  <2>5. /\ args' \in [Tasks -> Memory] /\ handle' \in [Tasks -> Memory]
        /\ ops' \in [Threads -> 0 .. MaxOps]
    <3>1. /\ args \in [Tasks -> Memory] /\ handle \in [Tasks -> Memory]
          /\ ops \in [Threads -> 0 .. MaxOps] /\ "live" \in Memory
      BY DEF TypeOK, Memory
    <3>2. ops[t] + 1 \in 0 .. MaxOps
      BY <2>0, <2>a, <3>1
    <3> QED BY <2>0, <3>1, <3>2
  <2>6. /\ thread' \in [Threads -> {"unused", "running", "ended", "joined", "absent", "killed"}]
        /\ slips' \in SUBSET AllSlips
        /\ \A s \in Tasks : s # u => thread'[s] = thread[s]
    <3>1. \/ thread' = [thread EXCEPT ![u] = "running"] /\ slips' = slips
          \/ thread' = [thread EXCEPT ![u] = "absent"] /\ slips' = slips \cup {"createFails"}
      BY <1>1, <2>1 DEF Spawn, Slip
    <3> QED BY <3>1 DEF TypeOK, AllSlips
  <2>7. UNCHANGED <<pc, target, completed, result, block, awaited, got, lost, inLock, holder, wild>>
    BY <1>1 DEF Spawn
  <2>8. TypeOK'
    <3>1. spawned' \in 0 .. NumTasks
      BY <2>0, <2>a DEF Tasks
    <3> QED BY <2>4, <2>5, <2>6, <2>7, <3>1 DEF TypeOK
  <2>9. HandlesSpawned'
    <3>1. \A s \in Tasks : s > spawned' => s > spawned /\ s # u
      BY <2>0, <2>a, <2>1
    <3> QED BY <2>0, <2>b, <2>1, <2>4, <2>6, <2>7, <3>1 DEF HandlesSpawned
  <2>10. TargetsAwaited'
    BY <2>7 DEF TargetsAwaited
  <2> QED BY <2>8, <2>9, <2>10
<1>2. CASE AwaitTests(t)
  <2>1. PICK u \in reach[t] :
          /\ AwaitSlips(t, u)
          /\ wild' = wild \cup Misused(u, handle[u] # "live")
          /\ awaited' = awaited \cup {u}
          /\ target' = [target EXCEPT ![t] = u]
          /\ Goto(t, IF u \in completed THEN "take" ELSE "join")
    BY <1>2 DEF AwaitTests
  <2>2. u \in Tasks /\ u \in 1 .. spawned
    BY DEF TypeOK, HandlesSpawned
  <2>3. t \in Tasks => t <= spawned
    BY <1>2 DEF AwaitTests, Begins, At, HandlesSpawned, TypeOK, Tasks
  <2>4. UNCHANGED <<thread, reach, inLock, holder, spawned, args, handle, completed,
                   result, block, got, lost>>
    BY <1>2 DEF AwaitTests
  <2>5. ops' \in [Threads -> 0 .. MaxOps]
    BY <1>2 DEF AwaitTests, Begins, TypeOK
  <2>6. slips' \in SUBSET AllSlips /\ pc' = [pc EXCEPT ![t] = IF u \in completed THEN "take" ELSE "join"]
    BY <2>1 DEF AwaitSlips, Slip, Goto, TypeOK
  <2>7. TypeOK'
    BY <2>1, <2>2, <2>4, <2>5, <2>6 DEF TypeOK, Misused
  <2>8. HandlesSpawned'
    BY <2>1, <2>2, <2>3, <2>4, <2>6 DEF HandlesSpawned, TypeOK
  <2>9. TargetsAwaited'
    BY <2>1, <2>2, <2>6 DEF TargetsAwaited, TypeOK
  <2> QED BY <2>7, <2>8, <2>9
<1>3. CASE AwaitJoins(t)
  <2>1. target[t] \in Tasks /\ target[t] \in awaited /\ thread[target[t]] \in {"ended", "joined", "absent"}
    BY <1>3 DEF AwaitJoins, At, TargetsAwaited, TypeOK
  <2>2. TypeOK'
    BY <1>3, <2>1 DEF AwaitJoins, TypeOK, Goto, Misused
  <2>3. HandlesSpawned'
    BY <1>3, <2>1 DEF AwaitJoins, At, Goto, HandlesSpawned, TypeOK
  <2>4. TargetsAwaited'
    BY <1>3 DEF AwaitJoins, At, Goto, TargetsAwaited, TypeOK
  <2> QED BY <2>2, <2>3, <2>4
<1>4. CASE AwaitTakes(t)
  <2>1. target[t] \in Tasks /\ target[t] \in awaited
    BY <1>4 DEF AwaitTakes, At, TargetsAwaited, TypeOK
  <2>2. TypeOK'
    BY <1>4, <2>1 DEF AwaitTakes, TypeOK, Goto, Memory, Misused
  <2>3. HandlesSpawned'
    BY <1>4, <2>1 DEF AwaitTakes, At, Goto, HandlesSpawned, TypeOK
  <2>4. TargetsAwaited'
    BY <1>4 DEF AwaitTakes, At, Goto, TargetsAwaited, TypeOK
  <2> QED BY <2>2, <2>3, <2>4
<1>9. CASE AwaitDiscards(t)
  <2>1. target[t] \in Tasks /\ target[t] \in awaited
    BY <1>9 DEF AwaitDiscards, At, TargetsAwaited, TypeOK
  <2>2. TypeOK'
    BY <1>9, <2>1 DEF AwaitDiscards, Slip, TypeOK, Goto, Memory, Misused
  <2>3. HandlesSpawned'
    BY <1>9, <2>1 DEF AwaitDiscards, At, Goto, HandlesSpawned, TypeOK
  <2>4. TargetsAwaited'
    BY <1>9 DEF AwaitDiscards, At, Goto, TargetsAwaited, TypeOK
  <2> QED BY <2>2, <2>3, <2>4
<1>5. CASE LockBegins(t)
  <2>1. TypeOK'
    BY <1>5 DEF LockBegins, Begins, Goto, Slip, TypeOK, taskVars
  <2>2. HandlesSpawned' /\ TargetsAwaited'
    BY <1>5 DEF LockBegins, Begins, At, Goto, HandlesSpawned, TargetsAwaited, TypeOK, taskVars
  <2> QED BY <2>1, <2>2
<1>6. CASE LockAcquires(t)
  <2>1. TypeOK'
    BY <1>6 DEF LockAcquires, Goto, TypeOK, taskVars
  <2>2. HandlesSpawned' /\ TargetsAwaited'
    BY <1>6 DEF LockAcquires, At, Goto, HandlesSpawned, TargetsAwaited, TypeOK, taskVars
  <2> QED BY <2>1, <2>2
<1>7. CASE LockEnds(t)
  BY <1>7 DEF LockEnds, HandlesSpawned, TargetsAwaited, TypeOK, taskVars
<1>8. CASE LeaveLockEarly(t)
  BY <1>8 DEF LeaveLockEarly, Slip, HandlesSpawned, TargetsAwaited, TypeOK, taskVars
<1> QED BY <1>1, <1>2, <1>3, <1>4, <1>5, <1>6, <1>7, <1>8, <1>9 DEF Step

(* The inductive step. *)
LEMMA TypeNext == TypeInv /\ [Next]_vars => TypeInv'
<1> SUFFICES ASSUME TypeInv, [Next]_vars PROVE TypeInv'
  OBVIOUS
<1> USE TaskFacts DEF TypeInv
<1>1. CASE MainReturns
  BY <1>1 DEF MainReturns, HandlesSpawned, TargetsAwaited, TypeOK, taskVars
<1>2. ASSUME NEW u \in Tasks, Start(u) PROVE TypeInv'
  <2>1. u \in Threads /\ thread[u] = "running"
    BY <1>2 DEF Start, At
  <2>2. TypeOK'
    BY <1>2, <2>1 DEF Start, Goto, TypeOK, Memory, Misused
  <2>3. HandlesSpawned' /\ TargetsAwaited'
    BY <1>2, <2>1 DEF Start, Goto, HandlesSpawned, TargetsAwaited, TypeOK
  <2> QED BY <2>2, <2>3
<1>3. ASSUME NEW u \in Tasks, Return(u) PROVE TypeInv'
  <2>1. u \in Threads /\ thread[u] = "running"
    BY <1>3 DEF Return, At
  <2>2. TypeOK'
    BY <1>3, <2>1 DEF Return, TypeOK, Memory
  <2>3. HandlesSpawned' /\ TargetsAwaited'
    BY <1>3, <2>1 DEF Return, HandlesSpawned, TargetsAwaited, TypeOK
  <2> QED BY <2>2, <2>3
<1>4. CASE UNCHANGED vars
  BY <1>4 DEF HandlesSpawned, TargetsAwaited, TypeOK, vars, taskVars
<1> QED BY <1>1, <1>2, <1>3, <1>4, TypeThreadStep
        DEF Next, MainStep, TaskStep, Finished

(* The threads, the handles they pass and the runtime's blocks keep their    *)
(* types, for any number of tasks.                                           *)
THEOREM TaskTypeCorrect == Spec => []TypeOK
<1>1. TypeInv => TypeOK
  BY DEF TypeInv
<1> QED BY <1>1, TypeInit, TypeNext, PTL DEF Spec

-----------------------------------------------------------------------------
(* Only LockAcquires, on a free mutex, lets a thread in.                     *)
LEMMA LockNext == TypeInv /\ LockExact /\ [Next]_vars => LockExact'
<1> SUFFICES ASSUME TypeInv, LockExact, [Next]_vars PROVE LockExact'
  OBVIOUS
<1> USE TaskFacts DEF TypeInv
<1>1. ASSUME NEW t \in Threads, Step(t) PROVE LockExact'
  <2>1. CASE Spawn(t)
    BY <2>1 DEF Spawn, Slip, LockExact
  <2>2. CASE AwaitTests(t)
    <3>1. "leavesLockEarly" \in slips' <=> "leavesLockEarly" \in slips
      BY <2>2 DEF AwaitTests, AwaitSlips, Slip, AllSlips
    <3> QED BY <2>2, <3>1 DEF AwaitTests, LockExact
  <2>3. CASE AwaitJoins(t) \/ AwaitTakes(t) \/ AwaitDiscards(t) \/ LockBegins(t)
    BY <2>3 DEF AwaitJoins, AwaitTakes, AwaitDiscards, LockBegins, Slip, LockExact
  <2>4. CASE LockAcquires(t)
    BY <2>4 DEF LockAcquires, LockExact, TypeOK
  <2>5. CASE LockEnds(t)
    BY <2>5 DEF LockEnds, LockExact, TypeOK
  <2>6. CASE LeaveLockEarly(t)
    BY <2>6 DEF LeaveLockEarly, Slip, LockExact, TypeOK
  <2> QED BY <1>1, <2>1, <2>2, <2>3, <2>4, <2>5, <2>6 DEF Step
<1>2. ASSUME NEW u \in Tasks, Start(u) \/ Return(u) PROVE LockExact'
  BY <1>2 DEF Start, Return, LockExact
<1>3. CASE MainReturns
  BY <1>3 DEF MainReturns, LockExact
<1>4. CASE UNCHANGED vars
  BY <1>4 DEF LockExact, vars
<1> QED BY <1>1, <1>2, <1>3, <1>4 DEF Next, MainStep, TaskStep, Finished

(* One thread at a time is inside a lock block, and the mutex is taken only  *)
(* then, until a block is left early; from then on it is taken for good.     *)
THEOREM LockSound == Spec => []LockExact
<1>1. Init => LockExact
  BY DEF Init, LockExact
<1> QED BY <1>1, TypeInit, TypeNext, LockNext, PTL DEF Spec

-----------------------------------------------------------------------------
(* Undefined behaviour aside: a task that has passed its trampoline has freed *)
(* its arguments, and what an await takes was joined.                        *)
Reclaimed ==
    /\ \A u \in Tasks :
          /\ thread[u] \in {"ended", "joined"} => args[u] = "freed"
          /\ thread[u] = "running" /\ pc[u] # "start" => args[u] = "freed"
          /\ u \in completed => thread[u] = "joined"
          /\ thread[u] \in {"ended", "joined"} /\ u \notin got => block[u] = "live"
    /\ \A t \in Threads : pc[t] = "take" => thread[target[t]] = "joined"
    /\ \A u \in got \cup lost : thread[u] = "joined" /\ args[u] = "freed" /\ handle[u] = "freed"
    /\ \A u \in got : block[u] = "freed"
    /\ \A u \in lost : block[u] = "live"

ReclaimInv == wild = {} => Reclaimed

(* The step of a thread. *)
LEMMA ReclaimThreadStep ==
    ASSUME TypeInv, ReclaimInv, NEW t \in Threads, Step(t), wild' = {}
    PROVE  Reclaimed'
<1> USE TaskFacts DEF TypeInv
<1>0. wild = {} /\ Reclaimed /\ thread[t] = "running"
  BY DEF Step, Spawn, AwaitTests, AwaitJoins, AwaitTakes, AwaitDiscards, LockBegins, LockAcquires, LockEnds,
         LeaveLockEarly, Begins, At, ReclaimInv
<1>1. CASE Spawn(t)
  <2>1. /\ spawned \in Nat /\ spawned + 1 \in Tasks
        /\ UNCHANGED <<pc, target, completed, block, got, lost>>
        /\ args' = [args EXCEPT ![spawned + 1] = "live"]
        /\ handle' = [handle EXCEPT ![spawned + 1] = "live"]
        /\ \/ thread' = [thread EXCEPT ![spawned + 1] = "running"]
           \/ thread' = [thread EXCEPT ![spawned + 1] = "absent"]
    <3>1. spawned \in 0 .. NumTasks /\ spawned < NumTasks
      BY <1>1 DEF TypeOK, Spawn
    <3>2. spawned \in Nat /\ spawned + 1 \in Tasks
      BY <3>1 DEF Tasks
    <3> QED BY <1>1, <3>2 DEF Spawn
  <2>2. PICK u \in Tasks : u = spawned + 1
    BY <2>1
  <2>3. thread[u] = "unused" /\ pc[u] = "start" /\ u \notin got \cup lost /\ u \in Threads
    BY <2>1, <2>2 DEF HandlesSpawned
  <2>4. \A s \in Threads : s # u => thread'[s] = thread[s]
    BY <2>1, <2>2 DEF TypeOK
  <2>5. \A s \in Tasks : s # u => args'[s] = args[s] /\ handle'[s] = handle[s]
    BY <2>1, <2>2 DEF TypeOK
  <2>6. thread'[u] \in {"running", "absent"}
    BY <2>1, <2>2, <2>3 DEF TypeOK
  <2>7. \A s \in Threads : pc[s] = "take" => target[s] \in Threads /\ target[s] # u
    BY <1>0, <2>3 DEF TargetsAwaited, TypeOK, Reclaimed
  <2> QED BY <1>0, <2>1, <2>3, <2>4, <2>5, <2>6, <2>7 DEF Reclaimed, TypeOK
<1>2. CASE AwaitTests(t)
  <2>1. PICK u \in Tasks : pc' = [pc EXCEPT ![t] = IF u \in completed THEN "take" ELSE "join"]
                          /\ target' = [target EXCEPT ![t] = u]
    BY <1>2 DEF AwaitTests, Goto, TypeOK
  <2>2. pc[t] = "run" /\ UNCHANGED <<thread, args, handle, completed, block, got, lost>>
    BY <1>2 DEF AwaitTests, Begins, At
  <2> QED BY <1>0, <2>1, <2>2 DEF Reclaimed, TypeOK
<1>3. CASE AwaitJoins(t)
  <2>1. PICK u \in Tasks : u = target[t]
    BY <1>3 DEF AwaitJoins, At, TargetsAwaited, TypeOK
  <2>2. /\ pc[t] = "join" /\ pc' = [pc EXCEPT ![t] = "take"]
        /\ thread' = [thread EXCEPT ![u] = "joined"]
        /\ completed' = completed \cup {u}
        /\ UNCHANGED <<target, args, handle, block, got, lost>>
    BY <1>3, <2>1 DEF AwaitJoins, At, Goto
  <2>3. thread[u] = "ended"
    BY <1>3, <2>1 DEF AwaitJoins, Misused
  <2> QED BY <1>0, <2>1, <2>2, <2>3 DEF Reclaimed, TypeOK
<1>4. CASE AwaitTakes(t)
  <2>1. PICK u \in Tasks : u = target[t]
    BY <1>4 DEF AwaitTakes, At, TargetsAwaited, TypeOK
  <2>2. /\ pc[t] = "take" /\ pc' = [pc EXCEPT ![t] = "run"]
        /\ got' = got \cup {u}
        /\ block' = [block EXCEPT ![u] = "freed"]
        /\ handle' = [handle EXCEPT ![u] = "freed"]
        /\ UNCHANGED <<thread, target, args, completed, lost>>
    BY <1>4, <2>1 DEF AwaitTakes, At, Goto
  <2>3. thread[u] = "joined"
    BY <1>0, <2>1, <2>2 DEF Reclaimed
  <2>4. u \notin lost
    BY <1>0, <1>4, <2>1 DEF AwaitTakes, Misused, Reclaimed
  <2> QED BY <1>0, <2>1, <2>2, <2>3, <2>4 DEF Reclaimed, TypeOK
<1>6. CASE AwaitDiscards(t)
  <2>1. PICK u \in Tasks : u = target[t]
    BY <1>6 DEF AwaitDiscards, At, TargetsAwaited, TypeOK
  <2>2. /\ pc[t] = "take" /\ pc' = [pc EXCEPT ![t] = "run"]
        /\ lost' = lost \cup {u}
        /\ handle' = [handle EXCEPT ![u] = "freed"]
        /\ UNCHANGED <<thread, target, args, completed, block, got>>
    BY <1>6, <2>1 DEF AwaitDiscards, At, Goto
  <2>3. thread[u] = "joined"
    BY <1>0, <2>1, <2>2 DEF Reclaimed
  <2>4. u \notin got
    BY <1>0, <1>6, <2>1 DEF AwaitDiscards, Misused, Reclaimed
  <2>5. block[u] = "live"
    BY <1>0, <2>3, <2>4 DEF Reclaimed
  <2> QED BY <1>0, <2>1, <2>2, <2>3, <2>5 DEF Reclaimed, TypeOK
<1>5. CASE LockBegins(t) \/ LockAcquires(t) \/ LockEnds(t) \/ LeaveLockEarly(t)
  <2>1. UNCHANGED <<thread, target, args, handle, completed, block, got, lost>>
    BY <1>5 DEF LockBegins, LockAcquires, LockEnds, LeaveLockEarly, taskVars
  <2>2. pc' = pc \/ pc' = [pc EXCEPT ![t] = "lock"] \/ pc' = [pc EXCEPT ![t] = "run"]
    BY <1>5 DEF LockBegins, LockAcquires, LockEnds, LeaveLockEarly, Goto
  <2>3. pc[t] # "start"
    BY <1>5 DEF LockBegins, LockAcquires, LockEnds, LeaveLockEarly, Begins, At
  <2> QED BY <1>0, <2>1, <2>2, <2>3 DEF Reclaimed, TypeOK
<1> QED BY <1>1, <1>2, <1>3, <1>4, <1>5, <1>6 DEF Step

(* The inductive step. *)
LEMMA ReclaimNext == TypeInv /\ ReclaimInv /\ [Next]_vars => ReclaimInv'
<1> SUFFICES ASSUME TypeInv, ReclaimInv, [Next]_vars, wild' = {} PROVE Reclaimed'
  BY DEF ReclaimInv
<1> USE TaskFacts DEF TypeInv
<1>1. CASE MainReturns
  <2>1. /\ wild = {} /\ Reclaimed
        /\ UNCHANGED <<pc, target, args, handle, completed, block, got, lost>>
        /\ thread' = [t \in Threads |->
                     IF t = Main THEN "ended"
                     ELSE IF thread[t] = "running" THEN "killed" ELSE thread[t]]
    BY <1>1 DEF MainReturns, At, ReclaimInv, taskVars
  <2>2. \A u \in Tasks : thread'[u] = IF thread[u] = "running" THEN "killed" ELSE thread[u]
    BY <2>1
  <2>3. \A t \in Threads : pc[t] = "take" => target[t] \in Tasks
    BY DEF TargetsAwaited, TypeOK
  <2> QED BY <2>1, <2>2, <2>3 DEF Reclaimed, TypeOK
<1>2. ASSUME NEW u \in Tasks, Start(u) PROVE Reclaimed'
  <2>1. /\ wild = {} /\ Reclaimed /\ pc[u] = "start" /\ thread[u] = "running"
        /\ UNCHANGED <<thread, target, handle, completed, block, got, lost>>
        /\ pc' = [pc EXCEPT ![u] = "run"] /\ args' = [args EXCEPT ![u] = "freed"]
    BY <1>2 DEF Start, At, Goto, ReclaimInv
  <2> QED BY <2>1 DEF Reclaimed, TypeOK
<1>3. ASSUME NEW u \in Tasks, Return(u) PROVE Reclaimed'
  <2>1. /\ wild = {} /\ Reclaimed /\ pc[u] = "run" /\ thread[u] = "running"
        /\ UNCHANGED <<pc, target, args, handle, completed, got, lost>>
        /\ thread' = [thread EXCEPT ![u] = "ended"] /\ block' = [block EXCEPT ![u] = "live"]
    BY <1>3 DEF Return, At, ReclaimInv
  <2>2. \A t \in Threads : pc[t] = "take" => target[t] \in Threads
    BY DEF TargetsAwaited, TypeOK
  <2> QED BY <2>1, <2>2 DEF Reclaimed, TypeOK
<1>4. CASE UNCHANGED vars
  BY <1>4 DEF Reclaimed, ReclaimInv, vars, taskVars
<1> QED BY <1>1, <1>2, <1>3, <1>4, ReclaimThreadStep DEF Next, MainStep, TaskStep, Finished

(* What an await takes had ended, and every block of it is freed, save the   *)
(* result an await throws away, by whichever thread and in whatever program. *)
THEOREM AwaitSound == Spec => []AwaitReclaims
<1>1. Init => ReclaimInv
  BY TaskFacts DEF Init, ReclaimInv, Reclaimed
<1>2. ReclaimInv => AwaitReclaims
  BY DEF ReclaimInv, Reclaimed, AwaitReclaims
<1> QED BY <1>1, <1>2, TypeInit, TypeNext, ReclaimNext, PTL DEF Spec

-----------------------------------------------------------------------------
(* When no task is awaited twice and every thread could be created, a task   *)
(* has one await at most, and until that takes the result all that it will   *)
(* read is there.                                                            *)
Orderly == slips \cap {"awaitsTwice", "createFails"} = {}

TaskStates ==
    \A u \in Tasks :
        /\ u <= spawned => thread[u] \notin {"unused", "absent"}
        /\ u <= spawned /\ u \notin got \cup lost => handle[u] = "live"
        /\ thread[u] \in {"ended", "joined"} /\ u \notin got => block[u] = "live"
        /\ u \notin awaited => thread[u] # "joined" /\ u \notin completed
        /\ thread[u] = "running" /\ pc[u] = "start" => args[u] = "live"

AwaitStates ==
    \A t \in Threads :
        /\ pc[t] = "join" => target[t] \notin got \cup lost /\ thread[target[t]] # "joined"
        /\ pc[t] = "take" => target[t] \notin got \cup lost /\ target[t] \in result
                             /\ thread[target[t]] = "joined"

OneAwait ==
    \A s, t \in Threads :
        pc[s] \in {"join", "take"} /\ pc[t] \in {"join", "take"} /\ target[s] = target[t] => s = t

Safe == wild = {} /\ TaskStates /\ AwaitStates /\ OneAwait

SafeInv == Orderly => Safe

(* The step of a thread. *)
LEMMA SafeThreadStep ==
    ASSUME TypeInv, SafeInv, NEW t \in Threads, Step(t), Orderly'
    PROVE  Safe'
<1> USE TaskFacts DEF TypeInv
<1>0. Orderly /\ Safe /\ thread[t] = "running"
  <2>1. slips \subseteq slips' /\ thread[t] = "running"
    BY DEF Step, Spawn, AwaitTests, AwaitJoins, AwaitTakes, AwaitDiscards, LockBegins, LockAcquires, LockEnds,
           LeaveLockEarly, Begins, At, AwaitSlips, Slip
  <2> QED BY <2>1 DEF Orderly, SafeInv
<1>a. \A s \in Threads : pc[s] \in {"join", "take"} =>
          target[s] \in Tasks /\ target[s] \in Threads /\ target[s] <= spawned /\ target[s] \in awaited
  <2> SUFFICES ASSUME NEW s \in Threads, pc[s] \in {"join", "take"}
               PROVE  target[s] \in Tasks /\ target[s] \in Threads
                      /\ target[s] <= spawned /\ target[s] \in awaited
    OBVIOUS
  <2>1. target[s] \in awaited
    BY DEF TargetsAwaited
  <2>2. target[s] \in Tasks
    BY <2>1 DEF TypeOK
  <2>3. target[s] <= spawned
    BY <2>1, <2>2 DEF HandlesSpawned
  <2> QED BY <2>1, <2>2, <2>3 DEF Threads
<1>1. CASE Spawn(t)
  <2>1. /\ spawned \in Nat /\ spawned + 1 \in Tasks /\ spawned' = spawned + 1
        /\ UNCHANGED <<pc, target, completed, result, block, awaited, got, lost, wild>>
        /\ args' = [args EXCEPT ![spawned + 1] = "live"]
        /\ handle' = [handle EXCEPT ![spawned + 1] = "live"]
        /\ thread' = [thread EXCEPT ![spawned + 1] = "running"]
    <3>1. spawned \in 0 .. NumTasks /\ spawned < NumTasks
      BY <1>1 DEF TypeOK, Spawn
    <3>2. spawned \in Nat /\ spawned + 1 \in Tasks
      BY <3>1 DEF Tasks
    <3> QED BY <1>1, <3>2 DEF Spawn, Slip, Orderly
  <2>2. PICK u \in Tasks : u = spawned + 1
    BY <2>1
  <2>3. thread[u] = "unused" /\ u \notin awaited /\ u \in Threads
    BY <2>1, <2>2 DEF HandlesSpawned
  <2>4. \A s \in Threads : thread'[s] = IF s = u THEN "running" ELSE thread[s]
    BY <2>1, <2>2, <2>3 DEF TypeOK
  <2>5. \A s \in Tasks : /\ args'[s] = IF s = u THEN "live" ELSE args[s]
                         /\ handle'[s] = IF s = u THEN "live" ELSE handle[s]
    BY <2>1, <2>2 DEF TypeOK
  <2>6. \A s \in Tasks : s <= spawned' => s <= spawned \/ s = u
    BY <2>1, <2>2
  <2>7. TaskStates'
    BY <1>0, <2>1, <2>3, <2>4, <2>5, <2>6 DEF Safe, TaskStates
  <2>8. AwaitStates'
    BY <1>0, <1>a, <2>1, <2>2, <2>4 DEF Safe, AwaitStates
  <2> QED BY <1>0, <2>1, <2>7, <2>8 DEF Safe, OneAwait
<1>2. CASE AwaitTests(t)
  <2>1. PICK u \in reach[t] :
          /\ AwaitSlips(t, u)
          /\ wild' = wild \cup Misused(u, handle[u] # "live")
          /\ awaited' = awaited \cup {u}
          /\ target' = [target EXCEPT ![t] = u]
          /\ pc' = [pc EXCEPT ![t] = IF u \in completed THEN "take" ELSE "join"]
    BY <1>2 DEF AwaitTests, Goto
  <2>2. pc[t] = "run" /\ UNCHANGED <<thread, spawned, args, handle, completed, result, block, got, lost>>
    BY <1>2 DEF AwaitTests, Begins, At
  <2>3. u \in Tasks /\ u <= spawned /\ u \in Threads
    BY DEF HandlesSpawned, TypeOK
  <2>4. u \notin awaited
    BY <2>1 DEF AwaitSlips, Slip, Orderly, AllSlips
  <2>5. u \notin completed /\ u \notin got \cup lost /\ thread[u] # "joined" /\ handle[u] = "live"
    BY <1>0, <2>3, <2>4 DEF Safe, TaskStates, HandlesSpawned
  <2>6. wild' = {} /\ pc' = [pc EXCEPT ![t] = "join"]
    BY <1>0, <2>1, <2>5 DEF Safe, Misused
  <2>7. TaskStates'
    BY <1>0, <2>1, <2>2, <2>6 DEF Safe, TaskStates, TypeOK
  <2>8. AwaitStates'
    BY <1>0, <2>1, <2>2, <2>5, <2>6 DEF Safe, AwaitStates, TypeOK
  <2>9. OneAwait'
    BY <1>0, <1>a, <2>1, <2>4, <2>6 DEF Safe, OneAwait, TypeOK
  <2> QED BY <2>6, <2>7, <2>8, <2>9 DEF Safe
<1>3. CASE AwaitJoins(t)
  <2>1. pc[t] = "join"
    BY <1>3 DEF AwaitJoins, At
  <2>2. PICK u \in Tasks : u = target[t]
    BY <1>a, <2>1
  <2>3. /\ pc' = [pc EXCEPT ![t] = "take"]
        /\ thread' = [thread EXCEPT ![u] = "joined"]
        /\ completed' = completed \cup {u} /\ result' = result \cup {u}
        /\ UNCHANGED <<spawned, target, args, handle, block, awaited, got, lost>>
        /\ thread[u] \in {"ended", "joined", "absent"}
        /\ wild' = wild \cup Misused(u, thread[u] # "ended" \/ handle[u] # "live")
    BY <1>3, <2>2 DEF AwaitJoins, Goto
  <2>4. u \in Threads /\ u <= spawned /\ u \in awaited /\ u \notin got \cup lost /\ thread[u] # "joined"
    BY <1>0, <1>a, <2>1, <2>2 DEF Safe, AwaitStates
  <2>5. thread[u] = "ended" /\ handle[u] = "live" /\ block[u] = "live"
    BY <1>0, <2>3, <2>4 DEF Safe, TaskStates
  <2>6. wild' = {}
    BY <1>0, <2>3, <2>5 DEF Safe, Misused
  <2>7. TaskStates'
    BY <1>0, <2>1, <2>3, <2>4, <2>5 DEF Safe, TaskStates, TypeOK
  <2>8. \A s \in Threads : s # t /\ pc[s] \in {"join", "take"} => target[s] # u
    BY <1>0, <2>1, <2>2 DEF Safe, OneAwait
  <2>9. AwaitStates'
    BY <1>0, <1>a, <2>2, <2>3, <2>4, <2>8 DEF Safe, AwaitStates, TypeOK
  <2>10. OneAwait'
    BY <1>0, <2>1, <2>3 DEF Safe, OneAwait, TypeOK
  <2> QED BY <2>6, <2>7, <2>9, <2>10 DEF Safe
<1>4. CASE AwaitTakes(t)
  <2>1. pc[t] = "take"
    BY <1>4 DEF AwaitTakes, At
  <2>2. PICK u \in Tasks : u = target[t]
    BY <1>a, <2>1
  <2>3. /\ pc' = [pc EXCEPT ![t] = "run"]
        /\ got' = got \cup {u}
        /\ block' = [block EXCEPT ![u] = "freed"]
        /\ handle' = [handle EXCEPT ![u] = "freed"]
        /\ UNCHANGED <<thread, spawned, target, args, completed, result, awaited, lost>>
        /\ wild' = wild \cup Misused(u, u \notin result \/ block[u] # "live" \/ handle[u] # "live")
    BY <1>4, <2>2 DEF AwaitTakes, Goto
  <2>4. u <= spawned /\ u \in awaited /\ u \notin got \cup lost /\ u \in result /\ thread[u] = "joined"
    BY <1>0, <1>a, <2>1, <2>2 DEF Safe, AwaitStates
  <2>5. handle[u] = "live" /\ block[u] = "live"
    BY <1>0, <2>4 DEF Safe, TaskStates
  <2>6. wild' = {}
    BY <1>0, <2>3, <2>4, <2>5 DEF Safe, Misused
  <2>7. TaskStates'
    BY <1>0, <2>1, <2>3, <2>4 DEF Safe, TaskStates, TypeOK
  <2>8. \A s \in Threads : s # t /\ pc[s] \in {"join", "take"} => target[s] # u
    BY <1>0, <2>1, <2>2 DEF Safe, OneAwait
  <2>9. AwaitStates'
    BY <1>0, <1>a, <2>3, <2>8 DEF Safe, AwaitStates, TypeOK
  <2>10. OneAwait'
    BY <1>0, <2>1, <2>3 DEF Safe, OneAwait, TypeOK
  <2> QED BY <2>6, <2>7, <2>9, <2>10 DEF Safe
<1>6. CASE AwaitDiscards(t)
  <2>1. pc[t] = "take"
    BY <1>6 DEF AwaitDiscards, At
  <2>2. PICK u \in Tasks : u = target[t]
    BY <1>a, <2>1
  <2>3. /\ pc' = [pc EXCEPT ![t] = "run"]
        /\ lost' = lost \cup {u}
        /\ handle' = [handle EXCEPT ![u] = "freed"]
        /\ UNCHANGED <<thread, spawned, target, args, completed, result, block, awaited, got>>
        /\ wild' = wild \cup Misused(u, handle[u] # "live")
    BY <1>6, <2>2 DEF AwaitDiscards, Goto
  <2>4. u <= spawned /\ u \in awaited /\ u \notin got \cup lost /\ u \in result /\ thread[u] = "joined"
    BY <1>0, <1>a, <2>1, <2>2 DEF Safe, AwaitStates
  <2>5. handle[u] = "live" /\ block[u] = "live"
    BY <1>0, <2>4 DEF Safe, TaskStates
  <2>6. wild' = {}
    BY <1>0, <2>3, <2>4, <2>5 DEF Safe, Misused
  <2>7. TaskStates'
    BY <1>0, <2>1, <2>3, <2>4 DEF Safe, TaskStates, TypeOK
  <2>8. \A s \in Threads : s # t /\ pc[s] \in {"join", "take"} => target[s] # u
    BY <1>0, <2>1, <2>2 DEF Safe, OneAwait
  <2>9. AwaitStates'
    BY <1>0, <1>a, <2>3, <2>8 DEF Safe, AwaitStates, TypeOK
  <2>10. OneAwait'
    BY <1>0, <2>1, <2>3 DEF Safe, OneAwait, TypeOK
  <2> QED BY <2>6, <2>7, <2>9, <2>10 DEF Safe
<1>5. CASE LockBegins(t) \/ LockAcquires(t) \/ LockEnds(t) \/ LeaveLockEarly(t)
  <2>1. UNCHANGED <<thread, spawned, target, args, handle, completed, result, block, awaited, got, lost, wild>>
    BY <1>5 DEF LockBegins, LockAcquires, LockEnds, LeaveLockEarly, taskVars
  <2>2. pc' = pc \/ pc' = [pc EXCEPT ![t] = "lock"] \/ pc' = [pc EXCEPT ![t] = "run"]
    BY <1>5 DEF LockBegins, LockAcquires, LockEnds, LeaveLockEarly, Goto
  <2>3. \A s \in Threads : /\ pc'[s] \in {"join", "take", "start"} => pc'[s] = pc[s]
                           /\ pc[s] = "start" => pc'[s] = "start" \/ s = t
    BY <2>2 DEF TypeOK
  <2>4. TaskStates' /\ AwaitStates'
    BY <1>0, <2>1, <2>3 DEF Safe, TaskStates, AwaitStates, TypeOK
  <2> QED BY <1>0, <2>1, <2>3, <2>4 DEF Safe, OneAwait
<1> QED BY <1>1, <1>2, <1>3, <1>4, <1>5, <1>6 DEF Step

(* The inductive step. *)
LEMMA SafeNext == TypeInv /\ SafeInv /\ [Next]_vars => SafeInv'
<1> SUFFICES ASSUME TypeInv, SafeInv, [Next]_vars, Orderly' PROVE Safe'
  BY DEF SafeInv
<1> USE TaskFacts DEF TypeInv
<1>a. \A s \in Threads : pc[s] \in {"join", "take"} => target[s] \in Tasks
  BY DEF TargetsAwaited, TypeOK
<1>1. CASE MainReturns
  <2>1. /\ Safe
        /\ UNCHANGED <<pc, target, spawned, args, handle, completed, result, block, awaited, got, lost, wild>>
        /\ thread' = [t \in Threads |->
                     IF t = Main THEN "ended"
                     ELSE IF thread[t] = "running" THEN "killed" ELSE thread[t]]
    BY <1>1 DEF MainReturns, SafeInv, Orderly, taskVars
  <2>2. \A u \in Tasks : thread'[u] = IF thread[u] = "running" THEN "killed" ELSE thread[u]
    BY <2>1
  <2>3. TaskStates'
    BY <2>1, <2>2 DEF Safe, TaskStates
  <2>4. AwaitStates'
    BY <1>a, <2>1, <2>2 DEF Safe, AwaitStates
  <2> QED BY <2>1, <2>3, <2>4 DEF Safe, OneAwait
<1>2. ASSUME NEW u \in Tasks, Start(u) PROVE Safe'
  <2>1. /\ Safe /\ pc[u] = "start" /\ thread[u] = "running"
        /\ UNCHANGED <<thread, target, spawned, handle, completed, result, block, awaited, got, lost>>
        /\ pc' = [pc EXCEPT ![u] = "run"] /\ args' = [args EXCEPT ![u] = "freed"]
        /\ wild' = wild \cup Misused(u, args[u] # "live")
    BY <1>2 DEF Start, At, Goto, SafeInv, Orderly
  <2>2. wild' = {}
    BY <2>1 DEF Safe, TaskStates, Misused
  <2>3. TaskStates' /\ AwaitStates'
    BY <2>1 DEF Safe, TaskStates, AwaitStates, TypeOK
  <2>4. OneAwait'
    BY <2>1 DEF Safe, OneAwait, TypeOK
  <2> QED BY <2>2, <2>3, <2>4 DEF Safe
<1>3. ASSUME NEW u \in Tasks, Return(u) PROVE Safe'
  <2>1. /\ Safe /\ pc[u] = "run" /\ thread[u] = "running"
        /\ UNCHANGED <<pc, target, spawned, args, handle, completed, result, awaited, got, lost, wild>>
        /\ thread' = [thread EXCEPT ![u] = "ended"] /\ block' = [block EXCEPT ![u] = "live"]
    BY <1>3 DEF Return, At, SafeInv, Orderly
  <2>2. TaskStates'
    BY <2>1 DEF Safe, TaskStates, TypeOK
  <2>3. AwaitStates'
    BY <1>a, <2>1 DEF Safe, AwaitStates, TypeOK
  <2> QED BY <2>1, <2>2, <2>3 DEF Safe, OneAwait
<1>4. CASE UNCHANGED vars
  BY <1>4 DEF Safe, SafeInv, Orderly, TaskStates, AwaitStates, OneAwait, vars, taskVars
<1> QED BY <1>1, <1>2, <1>3, <1>4, SafeThreadStep DEF Next, MainStep, TaskStep, Finished

(* No await reads a task, a result or a thread that is gone or never was, in *)
(* every program that awaits no task twice, if every thread could be created. *)
THEOREM TaskMemorySound == Spec => []TasksMemorySafe
<1>1. Init => SafeInv
  BY TaskFacts DEF Init, SafeInv, Safe, TaskStates, AwaitStates, OneAwait, Tasks
<1>2. SafeInv => TasksMemorySafe
  BY DEF SafeInv, Safe, Orderly, TasksMemorySafe
<1> QED BY <1>1, <1>2, TypeInit, TypeNext, SafeNext, PTL DEF Spec

-----------------------------------------------------------------------------
(* Deadlock. *)

(* f orders the threads: a thread only has handles of tasks below it.  A new *)
(* task comes just below its spawner, above every task the spawner knows.    *)
Orders(f) == \A t \in Threads : \A u \in reach[t] : f[u] < f[t]

Ordered == \E f \in [Threads -> Nat \ {0}] : Orders(f)

(* An awaited handle is one the thread has. *)
TargetsReached == \A t \in Threads : pc[t] = "join" => target[t] \in reach[t]

(* While main runs, a spawned task's thread is not gone unnoticed. *)
Present ==
    thread[Main] = "running" => \A u \in Tasks : /\ thread[u] # "killed"
                                                 /\ u <= spawned => thread[u] # "unused"

(* A thread in its lock block runs, unless it awaits or locks there. *)
Inside ==
    \A t \in inLock : /\ slips \cap {"awaitsInLock", "locksTwice"} = {} => pc[t] = "run"
                      /\ thread[Main] = "running" => thread[t] = "running"

GoInv == Ordered /\ TargetsReached /\ Present /\ Inside

LEMMA GoInit == Init => GoInv
<1> SUFFICES ASSUME Init PROVE GoInv
  OBVIOUS
<1>1. Ordered
  <2>1. [t \in Threads |-> 1] \in [Threads -> Nat \ {0}]
    OBVIOUS
  <2>2. Orders([t \in Threads |-> 1])
    BY DEF Init, Orders
  <2> QED BY <2>1, <2>2 DEF Ordered
<1>2. TargetsReached /\ Inside
  BY DEF Init, TargetsReached, Inside
<1>3. Present
  BY TaskFacts DEF Init, Present, Tasks
<1> QED BY <1>1, <1>2, <1>3 DEF GoInv

(* The order makes room for a new task. *)
LEMMA OrderGrows ==
    ASSUME TypeInv, Ordered, NEW t \in Threads, NEW u \in Tasks, u > spawned, t # u,
           NEW passed \in SUBSET reach[t],
           reach' = [reach EXCEPT ![t] = @ \cup {u}, ![u] = passed]
    PROVE  Ordered'
<1> USE TaskFacts
<1>1. PICK f \in [Threads -> Nat \ {0}] : Orders(f)
  BY DEF Ordered
<1>2. PICK g : g = [s \in Threads |-> IF s = u THEN 2 * f[t] - 1 ELSE 2 * f[s]]
  OBVIOUS
<1>3. \A s \in Threads : f[s] \in Nat \ {0}
  BY <1>1
<1>4. g \in [Threads -> Nat \ {0}]
  <2>1. \A s \in Threads : 2 * f[s] \in Nat \ {0} /\ 2 * f[s] - 1 \in Nat \ {0}
    BY <1>3
  <2> QED BY <1>2, <2>1
<1>5. g[u] = 2 * f[t] - 1 /\ \A s \in Threads \ {u} : g[s] = 2 * f[s]
  BY <1>2
<1>6. \A s \in Threads : reach[s] \subseteq Tasks /\ u \notin reach[s]
  <2>1. \A s \in Threads : reach[s] \subseteq 1 .. spawned /\ reach[s] \subseteq Tasks
    BY DEF TypeInv, HandlesSpawned, TypeOK
  <2>2. u \notin 1 .. spawned
    BY DEF TypeInv, TypeOK
  <2> QED BY <2>1, <2>2
<1>7. \A s \in Threads : reach'[s] = IF s = u THEN passed
                                     ELSE IF s = t THEN reach[t] \cup {u} ELSE reach[s]
  BY DEF TypeInv, TypeOK
<1>8. \A s \in Threads : \A v \in reach[s] : f[v] < f[s] /\ v \in Threads \ {u}
  BY <1>1, <1>6 DEF Orders
<1>9. ASSUME NEW s \in Threads, NEW v \in reach'[s]
      PROVE  g[v] < g[s]
  <2>1. CASE s = u
    <3>1. v \in reach[t]
      BY <1>7, <1>9, <2>1
    <3>2. v \in Threads \ {u} /\ f[v] < f[t]
      BY <1>8, <3>1
    <3>3. 2 * f[v] < 2 * f[t] - 1
      BY <1>3, <3>2
    <3> QED BY <1>5, <2>1, <3>2, <3>3
  <2>2. CASE s # u /\ v # u
    <3>0. v \in reach'[s]
      BY <1>9
    <3>1. v \in reach[s]
      <4>1. CASE s = t
        <5>1. reach'[s] = reach[s] \cup {u}
          BY <1>7, <2>2, <4>1
        <5> QED BY <2>2, <3>0, <5>1
      <4>2. CASE s # t
        <5>1. reach'[s] = reach[s]
          BY <1>7, <2>2, <4>2
        <5> QED BY <3>0, <5>1
      <4> QED BY <4>1, <4>2
    <3>2. v \in Threads \ {u} /\ f[v] < f[s]
      BY <1>8, <3>1
    <3>3. 2 * f[v] < 2 * f[s]
      BY <1>3, <3>2
    <3> QED BY <1>5, <2>2, <3>2, <3>3
  <2>3. CASE s # u /\ v = u
    <3>1. s = t
      BY <1>6, <1>7, <1>9, <2>3
    <3>2. 2 * f[t] - 1 < 2 * f[t]
      BY <1>3
    <3> QED BY <1>5, <2>3, <3>1, <3>2
  <2> QED BY <2>1, <2>2, <2>3
<1>10. Orders(g)'
  BY <1>9 DEF Orders
<1> QED BY <1>4, <1>10 DEF Ordered

LEMMA OrderStays == Ordered /\ reach' = reach => Ordered'
BY DEF Ordered, Orders

LEMMA GoThreadStep ==
    ASSUME TypeInv, LockExact, GoInv, NEW t \in Threads, Step(t)
    PROVE  GoInv'
<1> USE TaskFacts
<1>0. thread[t] = "running" /\ TypeOK
  BY DEF Step, Spawn, AwaitTests, AwaitJoins, AwaitTakes, AwaitDiscards, LockBegins, LockAcquires, LockEnds,
         LeaveLockEarly, Begins, At, TypeInv
<1>1. CASE Spawn(t)
  <2>1. /\ spawned \in Nat /\ spawned + 1 \in Tasks /\ spawned' = spawned + 1
        /\ UNCHANGED <<pc, target, inLock>>
        /\ slips \subseteq slips'
    <3>1. spawned \in 0 .. NumTasks /\ spawned < NumTasks
      BY <1>0, <1>1 DEF TypeOK, Spawn
    <3>2. spawned \in Nat /\ spawned + 1 \in Tasks
      BY <3>1 DEF Tasks
    <3> QED BY <1>1, <3>2 DEF Spawn, Slip
  <2>2. PICK u \in Tasks : u = spawned + 1
    BY <2>1
  <2>3. /\ u > spawned /\ thread[u] = "unused" /\ u # t /\ u \in Threads
        /\ \A s \in Tasks : s <= spawned' => s <= spawned \/ s = u
    <3>1. u > spawned /\ u \in Threads
      BY <2>1, <2>2
    <3>2. thread[u] = "unused"
      BY <3>1 DEF TypeInv, HandlesSpawned
    <3>3. u # t
      BY <1>0, <3>2
    <3>4. \A s \in Tasks : s <= spawned' => s <= spawned \/ s = u
      <4>1. \A s \in Nat : s <= spawned + 1 => s <= spawned \/ s = spawned + 1
        BY <2>1
      <4> QED BY <2>1, <2>2, <4>1
    <3> QED BY <3>1, <3>2, <3>3, <3>4
  <2>4. PICK passed \in {{}, reach[t]} : reach' = [reach EXCEPT ![t] = @ \cup {u}, ![u] = passed]
    BY <1>1, <2>2 DEF Spawn
  <2>5. Ordered'
    BY <2>3, <2>4, OrderGrows DEF GoInv
  <2>6. \A s \in Threads : s # u => reach[s] \subseteq reach'[s]
    BY <1>0, <2>3, <2>4 DEF TypeOK
  <2>7. pc[u] = "start"
    BY <2>3 DEF TypeInv, HandlesSpawned
  <2>8. TargetsReached'
    BY <2>1, <2>6, <2>7 DEF GoInv, TargetsReached
  <2>9. /\ \A s \in Threads : s # u => thread'[s] = thread[s]
        /\ thread'[u] \in {"running", "absent"}
    BY <1>0, <1>1, <2>2, <2>3 DEF Spawn, TypeOK
  <2>10. Present'
    BY <2>3, <2>9 DEF GoInv, Present
  <2>11. Inside'
    <3>1. \A s \in inLock : thread[Main] = "running" => s # u
      BY <2>3 DEF GoInv, Inside
    <3>2. thread'[Main] = thread[Main]
      BY <2>9
    <3>3. inLock \subseteq Threads
      BY <1>0 DEF TypeOK
    <3> QED BY <2>1, <2>9, <3>1, <3>2, <3>3 DEF GoInv, Inside
  <2> QED BY <2>5, <2>8, <2>10, <2>11 DEF GoInv
<1>2. CASE AwaitTests(t)
  <2>1. PICK u \in reach[t] :
          /\ AwaitSlips(t, u)
          /\ target' = [target EXCEPT ![t] = u]
          /\ pc' = [pc EXCEPT ![t] = IF u \in completed THEN "take" ELSE "join"]
    BY <1>2 DEF AwaitTests, Goto
  <2>2. UNCHANGED <<thread, reach, inLock, spawned>>
    BY <1>2 DEF AwaitTests
  <2>3. Ordered' /\ Present'
    BY <2>2, OrderStays DEF GoInv, Present
  <2>4. TargetsReached'
    BY <1>0, <2>1, <2>2 DEF GoInv, TargetsReached, TypeOK
  <2>5. Inside'
    <3>1. slips \subseteq slips' /\ (t \in inLock => "awaitsInLock" \in slips')
      BY <2>1 DEF AwaitSlips, Slip, AllSlips
    <3>2. \A s \in Threads : s # t => pc'[s] = pc[s]
      BY <1>0, <2>1 DEF TypeOK
    <3>3. inLock \subseteq Threads
      BY <1>0 DEF TypeOK
    <3> QED BY <2>2, <3>1, <3>2, <3>3 DEF GoInv, Inside
  <2> QED BY <2>3, <2>4, <2>5 DEF GoInv
<1>3. CASE AwaitJoins(t)
  <2>1. PICK u \in Tasks : /\ u = target[t] /\ thread[u] \in {"ended", "joined", "absent"}
                          /\ thread' = [thread EXCEPT ![u] = "joined"]
    BY <1>3 DEF AwaitJoins, At, TypeInv, TargetsAwaited, TypeOK
  <2>2. pc[t] = "join" /\ pc' = [pc EXCEPT ![t] = "take"]
    BY <1>3 DEF AwaitJoins, At, Goto
  <2>3. UNCHANGED <<reach, target, inLock, spawned, slips>>
    BY <1>3 DEF AwaitJoins
  <2>4. \A s \in Threads : thread'[s] = IF s = u THEN "joined" ELSE thread[s]
    BY <1>0, <2>1 DEF TypeOK
  <2>5. Ordered'
    BY <2>3, OrderStays DEF GoInv
  <2>6. TargetsReached'
    BY <1>0, <2>2, <2>3 DEF GoInv, TargetsReached, TypeOK
  <2>7. Present'
    BY <2>1, <2>3, <2>4 DEF GoInv, Present
  <2>8. Inside'
    <3>1. inLock \subseteq Threads
      BY <1>0 DEF TypeOK
    <3>2. \A s \in inLock : pc[s] = "run" => pc'[s] = "run"
      BY <1>0, <2>2, <3>1 DEF TypeOK
    <3>3. thread'[Main] = thread[Main]
      BY <2>1, <2>4
    <3>4. \A s \in inLock : thread[s] = "running" => thread'[s] = "running"
      BY <2>1, <2>4, <3>1
    <3> QED BY <2>3, <3>2, <3>3, <3>4 DEF GoInv, Inside
  <2> QED BY <2>5, <2>6, <2>7, <2>8 DEF GoInv
<1>4. CASE AwaitTakes(t) \/ AwaitDiscards(t) \/ LockEnds(t) \/ LeaveLockEarly(t)
  <2>1. /\ UNCHANGED <<thread, reach, target, spawned>>
        /\ inLock' \subseteq inLock /\ slips \subseteq slips'
        /\ pc' = pc \/ pc' = [pc EXCEPT ![t] = "run"]
    BY <1>4 DEF AwaitTakes, AwaitDiscards, LockEnds, LeaveLockEarly, Slip, Goto, taskVars
  <2>2. \A s \in Threads : pc'[s] = pc[s] \/ pc'[s] = "run"
    BY <1>0, <2>1 DEF TypeOK
  <2>3. inLock \subseteq Threads
    BY <1>0 DEF TypeOK
  <2>4. Ordered' /\ Present'
    BY <2>1, OrderStays DEF GoInv, Present
  <2>5. TargetsReached' /\ Inside'
    BY <2>1, <2>2, <2>3 DEF GoInv, TargetsReached, Inside
  <2> QED BY <2>4, <2>5 DEF GoInv
<1>5. CASE LockBegins(t)
  <2>1. /\ UNCHANGED <<thread, reach, target, spawned, inLock>>
        /\ slips \subseteq slips' /\ (t \in inLock => "locksTwice" \in slips')
        /\ pc' = [pc EXCEPT ![t] = "lock"]
    BY <1>5 DEF LockBegins, Slip, Goto, taskVars
  <2>2. pc'[t] = "lock" /\ \A s \in Threads : s # t => pc'[s] = pc[s]
    BY <1>0, <2>1 DEF TypeOK
  <2>3. inLock \subseteq Threads
    BY <1>0 DEF TypeOK
  <2>4. Ordered' /\ Present'
    BY <2>1, OrderStays DEF GoInv, Present
  <2>5. TargetsReached' /\ Inside'
    BY <2>1, <2>2, <2>3 DEF GoInv, TargetsReached, Inside
  <2> QED BY <2>4, <2>5 DEF GoInv
<1>6. CASE LockAcquires(t)
  <2>1. /\ UNCHANGED <<thread, reach, target, spawned, slips>>
        /\ inLock' = inLock \cup {t} /\ pc' = [pc EXCEPT ![t] = "run"]
    BY <1>6 DEF LockAcquires, Goto, taskVars
  <2>2. pc'[t] = "run" /\ \A s \in Threads : s # t => pc'[s] = pc[s]
    BY <1>0, <2>1 DEF TypeOK
  <2>3. inLock \subseteq Threads
    BY <1>0 DEF TypeOK
  <2>4. Ordered' /\ Present'
    BY <2>1, OrderStays DEF GoInv, Present
  <2>5. TargetsReached'
    BY <2>1, <2>2 DEF GoInv, TargetsReached
  <2>6. Inside'
    BY <1>0, <2>1, <2>2, <2>3 DEF GoInv, Inside
  <2> QED BY <2>4, <2>5, <2>6 DEF GoInv
<1> QED BY <1>1, <1>2, <1>3, <1>4, <1>5, <1>6 DEF Step

LEMMA GoNext == TypeInv /\ LockExact /\ GoInv /\ [Next]_vars => GoInv'
<1> SUFFICES ASSUME TypeInv, LockExact, GoInv, [Next]_vars PROVE GoInv'
  OBVIOUS
<1> USE TaskFacts
<1>0. TypeOK
  BY DEF TypeInv
<1>1. CASE MainReturns
  <2>1. /\ UNCHANGED <<slips, pc, target, reach, inLock, spawned>>
        /\ thread'[Main] = "ended"
    BY <1>1 DEF MainReturns, taskVars
  <2>2. Ordered'
    BY <2>1, OrderStays DEF GoInv
  <2> QED BY <2>1, <2>2 DEF GoInv, TargetsReached, Present, Inside
<1>2. ASSUME NEW u \in Tasks, Start(u) PROVE GoInv'
  <2>1. /\ UNCHANGED <<slips, thread, target, reach, inLock, spawned>>
        /\ pc' = [pc EXCEPT ![u] = "run"]
    BY <1>2 DEF Start, Goto
  <2>2. \A s \in Threads : pc'[s] = pc[s] \/ pc'[s] = "run"
    BY <1>0, <2>1 DEF TypeOK
  <2>3. inLock \subseteq Threads
    BY <1>0 DEF TypeOK
  <2>4. Ordered' /\ Present'
    BY <2>1, OrderStays DEF GoInv, Present
  <2>5. TargetsReached' /\ Inside'
    BY <2>1, <2>2, <2>3 DEF GoInv, TargetsReached, Inside
  <2> QED BY <2>4, <2>5 DEF GoInv
<1>3. ASSUME NEW u \in Tasks, Return(u) PROVE GoInv'
  <2>1. /\ UNCHANGED <<slips, pc, target, reach, inLock, spawned>>
        /\ thread' = [thread EXCEPT ![u] = "ended"] /\ u \notin inLock
    BY <1>3 DEF Return
  <2>2. \A s \in Threads : thread'[s] = IF s = u THEN "ended" ELSE thread[s]
    BY <1>0, <2>1 DEF TypeOK
  <2>3. inLock \subseteq Threads /\ thread'[Main] = thread[Main]
    BY <1>0, <2>2 DEF TypeOK
  <2>4. Ordered'
    BY <2>1, OrderStays DEF GoInv
  <2>5. Present'
    BY <2>1, <2>2, <2>3 DEF GoInv, Present
  <2>6. TargetsReached' /\ Inside'
    BY <2>1, <2>2, <2>3 DEF GoInv, TargetsReached, Inside
  <2> QED BY <2>4, <2>5, <2>6 DEF GoInv
<1>4. CASE UNCHANGED vars
  <2>1. UNCHANGED <<slips, pc, target, reach, inLock, spawned, thread>>
    BY <1>4 DEF vars, taskVars
  <2>2. Ordered'
    BY <2>1, OrderStays DEF GoInv
  <2> QED BY <2>1, <2>2 DEF GoInv, TargetsReached, Present, Inside
<1> QED BY <1>1, <1>2, <1>3, <1>4, GoThreadStep DEF Next, MainStep, TaskStep, Finished

(* Some running thread is lowest. *)
LEMMA LowestThread ==
    ASSUME NEW f \in [Threads -> Nat \ {0}], NEW R \in SUBSET Threads, R # {}
    PROVE  \E m \in R : \A s \in R : f[m] <= f[s]
<1>1. PICK T \in SUBSET Nat : T = {f[s] : s \in R}
  <2>1. \A s \in R : f[s] \in Nat
    OBVIOUS
  <2> QED BY <2>1
<1>2. T # {}
  BY <1>1
<1>3. IsWellFoundedOn({ss \in Nat \X Nat : ss[1] < ss[2]}, Nat)
  BY NatLessThanWellFounded, Zenon DEF OpToRel
<1>4. PICK x \in T : \A y \in T : ~ (<<y, x>> \in {ss \in Nat \X Nat : ss[1] < ss[2]})
  BY <1>2, <1>3, WFMin, Zenon
<1>5. \A y \in T : x <= y
  <2>1. SUFFICES ASSUME NEW y \in T, y < x PROVE FALSE
    OBVIOUS
  <2>2. <<y, x>> \in Nat \X Nat /\ <<y, x>>[1] < <<y, x>>[2]
    BY <2>1
  <2> QED BY <1>4, <2>2
<1> QED BY <1>1, <1>5

(* The threads of a program never all wait for each other, for any number of *)
(* tasks.  Whoever holds the mutex can go on; if nobody does, the lowest     *)
(* running thread can: a task it awaits is lower, so it no longer runs.      *)
THEOREM NeverDeadlocked == Spec => []NoDeadlock
<1>1. TypeInv /\ LockExact /\ GoInv => NoDeadlock
  <2> SUFFICES ASSUME TypeInv, LockExact, GoInv, thread[Main] = "running",
                      slips \cap Blocking = {}
               PROVE  \E t \in Threads : thread[t] = "running" /\ ~Waits(t)
    BY DEF NoDeadlock
  <2>0. TypeOK
    BY DEF TypeInv
  <2>1. CASE holder # None
    <3>1. inLock = {holder} /\ holder \in Threads
      BY <2>0, <2>1 DEF LockExact, Blocking, TypeOK
    <3>2. pc[holder] = "run" /\ thread[holder] = "running"
      BY <3>1 DEF GoInv, Inside, Blocking
    <3> QED BY <3>1, <3>2 DEF Waits
  <2>2. CASE holder = None
    <3>1. PICK f \in [Threads -> Nat \ {0}] : Orders(f)
      BY DEF GoInv, Ordered
    <3>2. PICK R \in SUBSET Threads : R = {s \in Threads : thread[s] = "running"}
      OBVIOUS
    <3>3. R # {}
      BY <3>2, TaskFacts
    <3>4. PICK m \in R : \A s \in R : f[m] <= f[s]
      BY <3>3, LowestThread
    <3>5. ASSUME pc[m] = "join" PROVE thread[target[m]] \in {"ended", "joined", "absent"}
      <4>1. PICK u : u = target[m] /\ u \in reach[m]
        BY <3>2, <3>5 DEF GoInv, TargetsReached
      <4>2. u \in Tasks /\ u <= spawned /\ u \in Threads
        BY <2>0, <3>2, <4>1, TaskFacts DEF TypeInv, HandlesSpawned, TypeOK
      <4>3. f[u] < f[m] /\ f[u] \in Nat /\ f[m] \in Nat
        BY <3>1, <3>2, <4>1, <4>2 DEF Orders
      <4>4. u \notin R
        BY <3>4, <4>3
      <4>5. thread[u] \notin {"running", "killed", "unused"}
        BY <3>2, <4>2, <4>4 DEF GoInv, Present
      <4>6. thread[u] \in {"unused", "running", "ended", "joined", "absent", "killed"}
        BY <2>0, <4>2 DEF TypeOK
      <4> QED BY <4>1, <4>5, <4>6
    <3>6. m \in Threads /\ thread[m] = "running" /\ ~Waits(m)
      BY <2>2, <3>2, <3>5 DEF Waits
    <3> QED BY <3>6
  <2> QED BY <2>1, <2>2
<1>2. Init => LockExact
  BY DEF Init, LockExact
<1> QED BY <1>1, <1>2, TypeInit, TypeNext, LockNext, GoInit, GoNext, PTL DEF Spec
=============================================================================
