------------------------------ MODULE TaskLock ------------------------------
(***************************************************************************)
(* spawn, await and lock: the code IRGen_flow.cpp emits over the thread     *)
(* runtime of builtins/thread/thread.c.  Every thread runs a program that   *)
(* spawns functions, awaits tasks it has a handle of (its own, or one it    *)
(* was passed as an argument) and enters lock blocks, in any order, up to   *)
(* MaxOps operations.  pthreads is external, modelled from its use here.    *)
(*                                                                          *)
(* A task is named by the thread that runs it, tasks by order of creation.  *)
(***************************************************************************)
EXTENDS Integers

CONSTANTS NumTasks,       \* bound: tasks spawned in one execution
          MaxOps,         \* bound: operations of one thread
          Slips           \* what may happen that the code does not provide for

Tasks   == 1 .. NumTasks
Main    == 0
Threads == {Main} \cup Tasks
None    == -1

(* pthread_create fails; a task is awaited a second time, or through an      *)
(* expression that is not a variable; a thread awaits or locks again inside  *)
(* its lock block; ret, break or throw leave a lock block.                   *)
AllSlips == {"createFails", "awaitsTwice", "awaitsExpression", "awaitsInLock",
             "locksTwice", "leavesLockEarly"}

(* Those after which a thread may wait for good: for a mutex nobody will     *)
(* unlock, for a task that waits for the mutex, for itself.                  *)
Blocking == {"leavesLockEarly", "awaitsInLock", "locksTwice"}

ASSUME TaskAssumption ==
    /\ NumTasks \in Nat
    /\ MaxOps \in Nat
    /\ Slips \subseteq AllSlips

VARIABLES
    spawned,     \* tasks created so far
    thread,      \* the kernel's view of each thread
    pc,          \* where each thread is in the emitted code
    target,      \* the task it is awaiting
    reach,       \* the tasks it holds a handle of
    ops,         \* operations it has begun
    args,        \* the heap block the spawner packs arguments in
    handle,      \* the lucis_Task
    completed,   \* tasks with task->completed set
    result,      \* tasks whose task->result points to the result block
    block,       \* the heap block the trampoline returns the result in
    awaited,     \* tasks whose await has begun
    got,         \* tasks whose result an await has read
    lost,        \* tasks whose result an await has thrown away
    inLock,      \* threads inside a lock block
    holder,      \* the thread that owns the mutex
    wild,        \* tasks whose memory or thread was used when it was not there
    slips        \* which of Slips have happened

taskVars == <<spawned, args, handle, completed, result, block, awaited, got, lost>>
vars     == <<thread, pc, target, reach, ops, inLock, holder, wild, slips, taskVars>>

Memory == {"none", "live", "freed"}

Init ==
    /\ spawned = 0
    /\ thread = [t \in Threads |-> IF t = Main THEN "running" ELSE "unused"]
    /\ pc = [t \in Threads |-> IF t = Main THEN "run" ELSE "start"]
    /\ target = [t \in Threads |-> None]
    /\ reach = [t \in Threads |-> {}]
    /\ ops = [t \in Threads |-> 0]
    /\ args = [u \in Tasks |-> "none"]
    /\ handle = [u \in Tasks |-> "none"]
    /\ completed = {} /\ result = {}
    /\ block = [u \in Tasks |-> "none"]
    /\ awaited = {} /\ got = {} /\ lost = {}
    /\ inLock = {} /\ holder = None
    /\ wild = {} /\ slips = {}

(* Undefined behaviour is where the model stops. *)
At(t, where) == wild = {} /\ thread[t] = "running" /\ pc[t] = where

Misused(u, cond) == {x \in {u} : cond}

Goto(t, where) == pc' = [pc EXCEPT ![t] = where]

(* The thread begins another operation of its program. *)
Begins(t) ==
    /\ At(t, "run") /\ ops[t] < MaxOps
    /\ ops' = [ops EXCEPT ![t] = @ + 1]

Slip(s) == s \subseteq Slips /\ slips' = slips \cup s

-----------------------------------------------------------------------------
(* visitSpawnExpr and lucis_taskCreate: arguments are packed, the handle is  *)
(* allocated, and whatever pthread_create returns is ignored.                *)
Spawn(t) ==
    /\ Begins(t) /\ spawned < NumTasks
    /\ LET u == spawned + 1 IN
       /\ spawned' = u
       /\ args' = [args EXCEPT ![u] = "live"]
       /\ handle' = [handle EXCEPT ![u] = "live"]
       /\ \/ thread' = [thread EXCEPT ![u] = "running"] /\ UNCHANGED slips
          \/ thread' = [thread EXCEPT ![u] = "absent"] /\ Slip({"createFails"})
       /\ \E passed \in {{}, reach[t]} :
             reach' = [reach EXCEPT ![t] = @ \cup {u}, ![u] = passed]
    /\ UNCHANGED <<pc, target, completed, result, block, awaited, got, lost,
                   inLock, holder, wild>>

(* The trampoline unpacks its arguments, frees the block and calls. *)
Start(u) ==
    /\ At(u, "start")
    /\ args' = [args EXCEPT ![u] = "freed"]
    /\ wild' = wild \cup Misused(u, args[u] # "live")
    /\ Goto(u, "run")
    /\ UNCHANGED <<slips, thread, target, reach, ops, inLock, holder, spawned, handle,
                   completed, result, block, awaited, got, lost>>

(* The function returns; the trampoline stores its value on the heap. *)
Return(u) ==
    /\ At(u, "run") /\ u \notin inLock
    /\ thread' = [thread EXCEPT ![u] = "ended"]
    /\ block' = [block EXCEPT ![u] = "live"]
    /\ UNCHANGED <<slips, pc, target, reach, ops, inLock, holder, wild, spawned, args, handle,
                   completed, result, awaited, got, lost>>

(* main returns: the process exits, whatever its threads are doing. *)
MainReturns ==
    /\ At(Main, "run") /\ Main \notin inLock
    /\ thread' = [t \in Threads |->
                     IF t = Main THEN "ended"
                     ELSE IF thread[t] = "running" THEN "killed" ELSE thread[t]]
    /\ UNCHANGED <<slips, pc, target, reach, ops, inLock, holder, wild, taskVars>>

-----------------------------------------------------------------------------
(* visitAwaitExpr. *)

AwaitSlips(t, u) ==
    Slip({x \in AllSlips : \/ x = "awaitsTwice" /\ u \in awaited
                           \/ x = "awaitsInLock" /\ t \in inLock})

(* Mutant: the awaiting thread is taken for the awaited one. *)
AwaitTestsSelf(t) ==
    /\ Begins(t)
    /\ \E u \in reach[t] :
          /\ AwaitSlips(t, u)
          /\ wild' = wild \cup Misused(u, handle[u] # "live")
          /\ awaited' = awaited \cup {u}
          /\ target' = [target EXCEPT ![t] = t]
          /\ Goto(t, IF u \in completed THEN "take" ELSE "join")
    /\ UNCHANGED <<thread, reach, inLock, holder, spawned, args, handle, completed,
                   result, block, got, lost>>

(* lucis_taskAwait reads task->completed. *)
AwaitTests(t) ==
    /\ Begins(t)
    /\ \E u \in reach[t] :
          /\ AwaitSlips(t, u)
          /\ wild' = wild \cup Misused(u, handle[u] # "live")
          /\ awaited' = awaited \cup {u}
          /\ target' = [target EXCEPT ![t] = u]
          /\ Goto(t, IF u \in completed THEN "take" ELSE "join")
    /\ UNCHANGED <<thread, reach, inLock, holder, spawned, args, handle, completed,
                   result, block, got, lost>>

(* Mutant: the value pthread_join returns is not stored in the task. *)
AwaitJoinsForgetting(t) ==
    /\ At(t, "join")
    /\ LET u == target[t] IN
       /\ thread[u] \in {"ended", "joined", "absent"}
       /\ wild' = wild \cup Misused(u, thread[u] # "ended" \/ handle[u] # "live")
       /\ thread' = [thread EXCEPT ![u] = "joined"]
       /\ completed' = completed \cup {u}
    /\ Goto(t, "take")
    /\ UNCHANGED <<slips, target, reach, ops, inLock, holder, spawned, args, handle, block,
                   awaited, got, lost, result>>

(* pthread_join returns when the thread has ended; a thread that another     *)
(* await has joined, or that never was, is undefined behaviour.              *)
AwaitJoins(t) ==
    /\ At(t, "join")
    /\ LET u == target[t] IN
       /\ thread[u] \in {"ended", "joined", "absent"}
       /\ wild' = wild \cup Misused(u, thread[u] # "ended" \/ handle[u] # "live")
       /\ thread' = [thread EXCEPT ![u] = "joined"]
       /\ result' = result \cup {u}
       /\ completed' = completed \cup {u}
    /\ Goto(t, "take")
    /\ UNCHANGED <<slips, target, reach, ops, inLock, holder, spawned, args, handle, block,
                   awaited, got, lost>>

(* Mutant: the task is freed, its result is not. *)
AwaitTakesLeaking(t) ==
    /\ At(t, "take")
    /\ LET u == target[t] IN
       /\ wild' = wild \cup
             Misused(u, u \notin result \/ block[u] # "live" \/ handle[u] # "live")
       /\ got' = got \cup {u}
       /\ handle' = [handle EXCEPT ![u] = "freed"]
    /\ Goto(t, "run")
    /\ UNCHANGED <<slips, thread, target, reach, ops, inLock, holder, spawned, args, block,
                   completed, result, awaited, lost>>

(* The operand is a variable of type Task<T>, T not void: the result is      *)
(* loaded; the result block and the task are freed.                          *)
AwaitTakes(t) ==
    /\ At(t, "take")
    /\ LET u == target[t] IN
       /\ wild' = wild \cup
             Misused(u, u \notin result \/ block[u] # "live" \/ handle[u] # "live")
       /\ got' = got \cup {u}
       /\ block' = [block EXCEPT ![u] = "freed"]
       /\ handle' = [handle EXCEPT ![u] = "freed"]
    /\ Goto(t, "run")
    /\ UNCHANGED <<slips, thread, target, reach, ops, inLock, holder, spawned, args, completed,
                   result, awaited, lost>>

(* The operand is another expression: visitAwaitExpr does not know T, takes  *)
(* the task for a void one, frees it and yields an undefined value.          *)
AwaitDiscards(t) ==
    /\ At(t, "take")
    /\ Slip({"awaitsExpression"})
    /\ LET u == target[t] IN
       /\ wild' = wild \cup Misused(u, handle[u] # "live")
       /\ lost' = lost \cup {u}
       /\ handle' = [handle EXCEPT ![u] = "freed"]
    /\ Goto(t, "run")
    /\ UNCHANGED <<thread, target, reach, ops, inLock, holder, spawned, args, block,
                   completed, result, awaited, got>>

-----------------------------------------------------------------------------
(* visitLockStmt on the program's one mutex, inside a lock block too. *)
LockBegins(t) ==
    /\ Begins(t)
    /\ Slip({x \in {"locksTwice"} : t \in inLock})
    /\ Goto(t, "lock")
    /\ UNCHANGED <<thread, target, reach, inLock, holder, wild, taskVars>>

(* Mutant: lucis_mutexLock does not wait. *)
LockAcquiresAtOnce(t) ==
    /\ At(t, "lock")
    /\ holder' = t
    /\ inLock' = inLock \cup {t}
    /\ Goto(t, "run")
    /\ UNCHANGED <<slips, thread, target, reach, ops, wild, taskVars>>

(* lucis_mutexLock: a plain mutex, which its holder waits for as well. *)
LockAcquires(t) ==
    /\ At(t, "lock") /\ holder = None
    /\ holder' = t
    /\ inLock' = inLock \cup {t}
    /\ Goto(t, "run")
    /\ UNCHANGED <<slips, thread, target, reach, ops, wild, taskVars>>

(* Mutant: the end of the block does not unlock. *)
LockEndsHolding(t) ==
    /\ At(t, "run") /\ t \in inLock
    /\ inLock' = inLock \ {t}
    /\ UNCHANGED <<slips, thread, pc, target, reach, ops, wild, taskVars, holder>>

(* The end of the block. *)
LockEnds(t) ==
    /\ At(t, "run") /\ t \in inLock
    /\ holder' = None
    /\ inLock' = inLock \ {t}
    /\ UNCHANGED <<slips, thread, pc, target, reach, ops, wild, taskVars>>

(* ret, break or throw out of the block branch past the unlock. *)
LeaveLockEarly(t) ==
    /\ At(t, "run") /\ t \in inLock
    /\ Slip({"leavesLockEarly"})
    /\ inLock' = inLock \ {t}
    /\ UNCHANGED <<thread, pc, target, reach, ops, holder, wild, taskVars>>

-----------------------------------------------------------------------------
Step(t) ==
    \/ Spawn(t)
    \/ AwaitTests(t) \/ AwaitJoins(t) \/ AwaitTakes(t) \/ AwaitDiscards(t)
    \/ LockBegins(t) \/ LockAcquires(t) \/ LockEnds(t) \/ LeaveLockEarly(t)

TaskStep(u) == Start(u) \/ Return(u) \/ Step(u)
MainStep    == MainReturns \/ Step(Main)

Finished == (wild # {} \/ thread[Main] = "ended") /\ UNCHANGED vars

Next == MainStep \/ (\E u \in Tasks : TaskStep(u)) \/ Finished

Spec == Init /\ [][Next]_vars

(* The kernel runs every thread that can run. *)
FairSpec == Spec /\ WF_vars(MainStep) /\ \A u \in Tasks : WF_vars(TaskStep(u))

-----------------------------------------------------------------------------
(* Properties. *)

(* The runtime's blocks and the threads have their types. *)
TypeOK ==
    /\ spawned \in 0 .. NumTasks
    /\ thread \in [Threads -> {"unused", "running", "ended", "joined", "absent", "killed"}]
    /\ pc \in [Threads -> {"start", "run", "join", "take", "lock"}]
    /\ target \in [Threads -> Tasks \cup {None}]
    /\ reach \in [Threads -> SUBSET Tasks]
    /\ ops \in [Threads -> 0 .. MaxOps]
    /\ args \in [Tasks -> Memory] /\ handle \in [Tasks -> Memory]
    /\ block \in [Tasks -> Memory]
    /\ completed \in SUBSET Tasks /\ result \in SUBSET Tasks
    /\ awaited \in SUBSET Tasks /\ got \in SUBSET Tasks /\ lost \in SUBSET Tasks
    /\ inLock \in SUBSET Threads /\ holder \in Threads \cup {None}
    /\ wild \in SUBSET Tasks /\ slips \in SUBSET AllSlips

(* No await reads a task, a result or a thread that is gone or never was,    *)
(* though handles travel between threads and each await frees what it has    *)
(* read, unless a task is awaited twice or its thread was never created.     *)
TasksMemorySafe == wild # {} => slips \cap {"awaitsTwice", "createFails"} # {}

(* What becomes of an awaited task, whichever thread awaits it.  It has      *)
(* ended, its arguments and its handle are freed, and its result block is    *)
(* freed once the result is read; an await that does not know the type of    *)
(* the result throws it away, and its block stays allocated for good.        *)
AwaitReclaims ==
    wild = {} =>
        /\ \A u \in got \cup lost : thread[u] = "joined" /\ args[u] = "freed" /\ handle[u] = "freed"
        /\ \A u \in got : block[u] = "freed"
        /\ \A u \in lost : block[u] = "live"

(* One thread at a time is inside a lock block, and the mutex is taken while *)
(* one is.  A block left by ret, break or throw is not unlocked ("even on    *)
(* early return" is not so): the mutex then stays taken and no thread enters *)
(* a lock block again.                                                       *)
LockExact ==
    /\ inLock \subseteq {holder}
    /\ IF "leavesLockEarly" \in slips
       THEN holder # None /\ inLock = {}
       ELSE inLock = {} => holder = None

(* Thread t waits, in pthread_join or pthread_mutex_lock. *)
Waits(t) ==
    \/ pc[t] = "join" /\ thread[target[t]] \notin {"ended", "joined", "absent"}
    \/ pc[t] = "lock" /\ holder # None

(* The threads never all wait for each other: while the program runs, some   *)
(* thread of it can go on, though any thread may await any task whose handle *)
(* has come to it, unless something happened that blocks for good.           *)
NoDeadlock ==
    wild = {} /\ thread[Main] = "running" /\ slips \cap Blocking = {}
        => \E t \in Threads : thread[t] = "running" /\ ~Waits(t)

(* main is never stuck in an await or at a lock: awaits cannot form a cycle, *)
(* since a handle exists only after its task was spawned and can be passed   *)
(* only to later ones.  Only a lock block left early, and an await or the    *)
(* same lock inside a lock block, can stop the program.                      *)
ProgramEnds == <>(wild # {} \/ thread[Main] = "ended" \/ slips \cap Blocking # {})
=============================================================================
