----------------------------- MODULE FuzzRunner -----------------------------
(***************************************************************************)
(* One worker of `lucis fuzz run`: lucis_fuzz_main of                       *)
(* builtins/fuzz/fuzz_runner.c.  It starts from the corpus directory of      *)
(* earlier sessions, and shares it with the other workers.                  *)
(*                                                                          *)
(* The target is a deterministic function of its input, chosen in Init.     *)
(* Every execution of it is one step; so is every pass of the minimizer.    *)
(***************************************************************************)
EXTENDS Integers, SequencesExt

CONSTANTS Bytes,        \* byte values
          Edges,        \* coverage bits
          Targets,      \* fuzz targets, each a function from inputs to outcomes
          Havoc,        \* inputs the mutations come up with
          MAX_INPUT,    \* FUZZ_MAX_INPUT
          MAX_QUEUE,
          MAX_MUT_PER_BASE,
          Variants,     \* deterministic perturbations of one byte
          Growth,       \* and of the base's length
          MAX_CRASHES,  \* the handful of crashes after which the worker stops
          MaxIters,     \* --iters, which is given (0 would be no limit)
          Corpora       \* what earlier sessions left in the corpus directory

Inputs  == BoundedSeq(Bytes, MAX_INPUT)
Signals == {"segv", "abort"}
Ends    == Signals \cup {"exit", "hang", "none"}
Outcome == [end : Ends, cov : SUBSET Edges]
Crashes == [input : Inputs, sig : Signals, minimal : Inputs, by : {"det", "grow", "havoc"}]
Passes  == [buf : Inputs, step : Nat, pos : Nat, changed : BOOLEAN]

ASSUME FuzzAssumption ==
    /\ 0 \in Bytes
    /\ {MAX_INPUT, MAX_QUEUE, MAX_MUT_PER_BASE, MAX_CRASHES, MaxIters} \subseteq Nat \ {0}
    /\ {Variants, Growth} \subseteq Nat
    /\ Havoc \subseteq Inputs
    /\ Targets \subseteq [Inputs -> Outcome]
    /\ \A c \in Corpora : /\ IsFiniteSet(DOMAIN c)
                          /\ c \in [DOMAIN c -> Inputs] /\ DOMAIN c \subseteq Nat

VARIABLES
    target,       \* the program under test
    corpus,       \* the corpus directory: a function from file names to inputs
    g_total, g_queue, g_detDone, g_input, g_inputLen, g_runs, g_crashes, g_stop,
    stage,        \* where lucis_fuzz_main is
    n,            \* executions of this stage that are done
    iter, base,   \* the loop's counter; the seed it is at
    min,          \* the minimizer's locals, or None
    crash,        \* the last crash directory written
    found,        \* seeds this session has found
    unlucky,      \* a fork or a pipe failed during the last minimization
    collided      \* another worker has written a seed

process == <<g_total, g_queue, g_detDone, g_input, g_inputLen, g_runs, g_crashes,
             g_stop, stage, n, iter, base, min>>
vars    == <<target, corpus, process, crash, found, unlucky, collided>>

None == [none |-> TRUE]

(* seed.bin; the others are named id_<g_runs>. *)
SeedFile == 0

Prefix(buffer, len) == SubSeq(buffer, 1, len)

(* The corpus with x written to a file of that name. *)
Saved(name, x) ==
    [k \in DOMAIN corpus \cup {name} |-> IF k = name THEN x ELSE corpus[k]]

(* memcpy(g_input, data, len). *)
Over(data, buffer) == data \o SubSeq(buffer, Len(data) + 1, MAX_INPUT)

-----------------------------------------------------------------------------
(* What a new process of the fuzz binary starts from. *)
Init ==
    /\ target \in Targets
    /\ corpus \in Corpora
    /\ g_total = {} /\ g_queue = << >> /\ g_detDone = {}
    /\ g_input = [i \in 1 .. MAX_INPUT |-> 0] /\ g_inputLen = 0
    /\ g_runs = 0 /\ g_crashes = 0 /\ g_stop = FALSE
    /\ stage = "start" /\ n = 0 /\ iter = 0 /\ base = 0 /\ min = None
    /\ crash = None /\ found = {} /\ unlucky = FALSE /\ collided = FALSE

(* The corpus becomes the queue, in the order of the names (seed.bin last,   *)
(* and the numbers as they come: id_10 is before id_9); with no corpus the   *)
(* queue is one single-byte seed.                                            *)
Load ==
    /\ stage = "start"
    /\ \E names \in [1 .. Cardinality(DOMAIN corpus) -> DOMAIN corpus] :
          /\ \A i, j \in DOMAIN names : i < j => names[i] \notin {names[j], SeedFile}
          /\ LET seeds == [i \in DOMAIN names |-> corpus[names[i]]] IN
             g_queue' = IF seeds = << >> THEN << <<0>> >>
                        ELSE SubSeq(seeds, 1, Min({Len(seeds), MAX_QUEUE}))
    /\ stage' = "loop"
    /\ UNCHANGED <<target, corpus, g_total, g_detDone, g_input, g_inputLen, g_runs,
                   g_crashes, g_stop, n, iter, base, min, crash, found, unlucky, collided>>

-----------------------------------------------------------------------------
(* runOne: the outcome of one execution, or nothing when pipe or fork fail.  *)
runOne(x) == {target[x], [end |-> "none", cov |-> {}]}

(* Mutant: the queue is not bounded. *)
queuePushUnbounded(y) == Append(g_queue, y)

queuePush(y) == IF Len(g_queue) < MAX_QUEUE THEN Append(g_queue, y) ELSE g_queue

(* Mutant: a seed is named after its place in the queue. *)
SeedNameByQueue == Len(g_queue)

(* id_<g_runs>, the run that found it counted. *)
SeedName == g_runs + 1

(* onExecDone for an execution whose outcome is o, told that the input was y. *)
onExecDone(y, o) ==
    LET new == o.end = "exit" /\ ~(o.cov \subseteq g_total) IN
    /\ g_queue' = IF new THEN queuePush(y) ELSE g_queue
    /\ corpus' = IF new THEN Saved(SeedName, y) ELSE corpus
    /\ found' = IF new THEN found \cup {y} ELSE found
    /\ IF o.end \in Signals
       THEN /\ crash' = [input |-> y, sig |-> o.end, minimal |-> << >>, by |-> stage]
            /\ min' = [buf |-> y, step |-> Len(y) \div 2, pos |-> 0, changed |-> FALSE]
            /\ unlucky' = FALSE
       ELSE UNCHANGED <<crash, min, unlucky>>

(* runOneAndHandle(Len(y)): the child is given g_inputLen bytes of g_input. *)
runOneAndHandle(y) ==
    \E o \in runOne(Prefix(g_input', g_inputLen')) :
        /\ g_runs' = g_runs + 1
        /\ g_total' = g_total \cup o.cov
        /\ onExecDone(y, o)

Working(where) == stage = where /\ min = None

Rest == <<target, g_crashes, g_stop, iter, base, g_detDone, collided>>

(* One perturbation of one byte of the base. *)
Deterministic ==
    /\ Working("det") /\ n < Variants * Len(g_queue[base])
    /\ \E b \in Bytes :
          LET y == [g_queue[base] EXCEPT ![n \div Variants + 1] = b] IN
          /\ g_input' = Over(y, g_input)
          /\ UNCHANGED g_inputLen
          /\ runOneAndHandle(y)
    /\ n' = n + 1
    /\ UNCHANGED <<Rest, stage>>

Grow ==
    /\ Working("grow") /\ n < Growth /\ Len(g_queue[base]) + 1 < MAX_INPUT
    /\ \E b \in Bytes :
          LET y == Append(g_queue[base], b) IN
          /\ g_input' = Over(y, g_input)
          /\ UNCHANGED g_inputLen
          /\ runOneAndHandle(y)
    /\ n' = n + 1
    /\ UNCHANGED <<Rest, stage>>

(* 1 to 16 mutations of a copy of the base; they leave what they like behind *)
(* the input.                                                                *)
Mutate ==
    /\ Working("havoc") /\ n < MAX_MUT_PER_BASE /\ ~g_stop
    /\ \E y \in Havoc, b \in Bytes :
          /\ g_input' = Over(y, [i \in 1 .. MAX_INPUT |-> b])
          /\ g_inputLen' = Len(y)
          /\ runOneAndHandle(y)
    /\ n' = n + 1
    /\ UNCHANGED <<Rest, stage>>

Locals == <<target, corpus, g_total, g_queue, g_input, g_inputLen, g_runs, g_crashes,
            g_stop, min, crash, found, unlucky, collided>>

(* Mutant: --iters is not tested here. *)
NextBaseUnlimited ==
    /\ Working("loop") /\ ~g_stop
    /\ base' = (iter % Len(g_queue)) + 1
    /\ iter' = iter + 1
    /\ stage' = IF base' \in g_detDone THEN "havoc" ELSE "det"
    /\ g_detDone' = g_detDone \cup {base'}
    /\ n' = 0
    /\ UNCHANGED Locals

(* The head of the loop: the next seed, and the deterministic stage once.    *)
NextBase ==
    /\ Working("loop") /\ ~g_stop /\ g_runs < MaxIters
    /\ base' = (iter % Len(g_queue)) + 1
    /\ iter' = iter + 1
    /\ stage' = IF base' \in g_detDone THEN "havoc" ELSE "det"
    /\ g_detDone' = g_detDone \cup {base'}
    /\ n' = 0
    /\ UNCHANGED Locals

(* A stage is over, and the next one begins. *)
StageEnds ==
    /\ \/ Working("det") /\ n = Variants * Len(g_queue[base]) /\ stage' = "grow"
       \/ Working("grow") /\ (n = Growth \/ Len(g_queue[base]) + 1 >= MAX_INPUT) /\ stage' = "havoc"
       \/ Working("havoc") /\ (n = MAX_MUT_PER_BASE \/ g_stop) /\ stage' = "loop"
    /\ n' = 0
    /\ UNCHANGED <<Locals, g_detDone, iter, base>>

Finish ==
    /\ Working("loop") /\ (g_stop \/ g_runs >= MaxIters)
    /\ stage' = "done"
    /\ UNCHANGED <<Locals, g_detDone, iter, base, n>>

-----------------------------------------------------------------------------
(* minimize. *)

MinimizerRest == <<target, corpus, g_queue, g_detDone, g_inputLen, g_runs, stage, n,
                   iter, base, found, collided>>

Chunk == Min({min.pos + min.step, Len(min.buf)})
Without == SubSeq(min.buf, 1, min.pos) \o SubSeq(min.buf, Chunk + 1, Len(min.buf))

(* Try the input without the next chunk, if anything is left of it. *)
Reduce ==
    /\ min # None /\ min.step >= 1 /\ min.pos < Len(min.buf)
    /\ IF Without = << >>
       THEN min' = [min EXCEPT !.pos = Chunk] /\ UNCHANGED <<g_input, g_total, unlucky>>
       ELSE \E o \in runOne(Without) :
               /\ g_input' = Over(Without, g_input)
               /\ g_total' = g_total \cup o.cov
               /\ unlucky' = (unlucky \/ o.end = "none")
               /\ min' = IF o.end = crash.sig
                         THEN [min EXCEPT !.buf = Without, !.changed = TRUE]
                         ELSE [min EXCEPT !.pos = Chunk]
    /\ UNCHANGED <<MinimizerRest, g_crashes, g_stop, crash>>

(* Mutant: one pass for each size of chunk. *)
NextStepOnePass == min.step \div 2

(* Mutant: sizes are rounded up. *)
NextStepRoundedUp == IF min.changed THEN min.step ELSE (min.step + 1) \div 2

NextStep == IF min.changed THEN min.step ELSE min.step \div 2

(* The end of a pass: another with the same chunks, or with smaller ones. *)
EndPass ==
    /\ min # None /\ min.step >= 1 /\ min.pos >= Len(min.buf)
    /\ min' = [min EXCEPT !.pos = 0, !.changed = FALSE, !.step = NextStep]
    /\ UNCHANGED <<MinimizerRest, g_input, g_total, g_crashes, g_stop, crash, unlucky>>

(* minimal.bin is written, and the crash counted. *)
Minimized ==
    /\ min # None /\ min.step = 0
    /\ crash' = [crash EXCEPT !.minimal = min.buf]
    /\ min' = None
    /\ g_crashes' = g_crashes + 1
    /\ g_stop' = (g_stop \/ g_crashes' >= MAX_CRASHES)
    /\ UNCHANGED <<MinimizerRest, g_input, g_total, unlucky>>

-----------------------------------------------------------------------------
(* SIGINT or SIGTERM. *)
handleStop ==
    /\ stage \in {"loop", "det", "grow", "havoc"} /\ ~g_stop
    /\ g_stop' = TRUE
    /\ UNCHANGED <<target, corpus, g_total, g_queue, g_detDone, g_input, g_inputLen,
                   g_runs, g_crashes, stage, n, iter, base, min, crash, found, unlucky, collided>>

(* Another worker saves a seed, under a count of its own. *)
OtherWorkerSaves ==
    /\ ~collided
    /\ \E k \in 1 .. MaxIters, x \in Havoc : corpus' = Saved(k, x)
    /\ collided' = TRUE
    /\ UNCHANGED <<target, process, crash, found, unlucky>>

Worker ==
    \/ Load \/ NextBase \/ StageEnds \/ Finish
    \/ Deterministic \/ Grow \/ Mutate
    \/ Reduce \/ EndPass \/ Minimized

Next ==
    \/ Worker \/ handleStop \/ OtherWorkerSaves
    \/ stage = "done" /\ UNCHANGED vars

Spec == Init /\ [][Next]_vars

(* The worker runs; the timer ends executions that would not. *)
FairSpec == Spec /\ WF_vars(Worker)

-----------------------------------------------------------------------------
(* Properties. *)

(* The worker's state has its types; the queue keeps to its array, and the   *)
(* minimizer to what it was given.                                           *)
TypeOK ==
    /\ target \in Targets
    /\ corpus \in [DOMAIN corpus -> Inputs] /\ DOMAIN corpus \subseteq Nat
    /\ g_total \subseteq Edges
    /\ g_queue \in Seq(Inputs) /\ Len(g_queue) <= MAX_QUEUE
    /\ g_detDone \subseteq 1 .. Len(g_queue)
    /\ g_input \in [1 .. MAX_INPUT -> Bytes] /\ g_inputLen \in 0 .. MAX_INPUT
    /\ {g_runs, g_crashes, n, iter} \subseteq Nat
    /\ base \in 0 .. Len(g_queue)
    /\ g_stop \in BOOLEAN /\ unlucky \in BOOLEAN /\ collided \in BOOLEAN
    /\ stage \in {"start", "loop", "det", "grow", "havoc", "done"}
    /\ crash \in Crashes \cup {None} /\ min \in Passes \cup {None}
    /\ min # None => /\ crash # None /\ Len(min.buf) <= Len(crash.input)
                     /\ min.pos <= Len(min.buf)
    /\ found \subseteq Inputs

(* A crash the mutation stage saves is a crash: running input.bin again ends *)
(* the same way, and so does the minimal reproducer, which the minimizer has *)
(* arrived at by overlapping passes over a shrinking buffer and from which   *)
(* no single byte can be removed.                                            *)
MutationCrashMinimal ==
    crash # None /\ min = None /\ crash.by = "havoc" =>
        /\ target[crash.input].end = crash.sig
        /\ target[crash.minimal].end = crash.sig
        /\ unlucky \/ \A i \in DOMAIN crash.minimal :
              \/ Len(crash.minimal) = 1
              \/ target[RemoveAt(crash.minimal, i)].end # crash.sig

(* "Persist new seeds into the corpus directory so later runs start from a   *)
(* richer base": every seed of this session is in the corpus, also when the  *)
(* queue is full, unless another worker writes there too.                    *)
SeedsPersist == collided \/ found \subseteq {corpus[k] : k \in DOMAIN corpus}

(* --iters is not the "max executions" it is said to be, as it is tested     *)
(* between seeds only: the worker can exceed it by what it does with one     *)
(* seed, and not by more.                                                    *)
OvershootBounded ==
    g_runs < MaxIters + Variants * MAX_INPUT + Growth + MAX_MUT_PER_BASE

(* The minimizer's locals p are nearer its end than m. *)
Nearer(p, m) ==
    \/ Len(p.buf) < Len(m.buf)
    \/ p.buf = m.buf /\ p.step < m.step
    \/ p.buf = m.buf /\ p.step = m.step /\ m.changed /\ ~p.changed
    \/ p = [m EXCEPT !.pos = p.pos] /\ m.pos < p.pos

(* The passes of the minimizer run out, whatever the target answers: each    *)
(* iteration shortens the input, halves the chunk, ends a pass that changed  *)
(* something or gets further along the input.                                *)
MinimizerAdvances == [][ min # None => \/ min' = min \/ min' = None
                                       \/ Nearer(min', min) ]_vars

(* The worker takes up at most --iters seeds: each costs it an execution,    *)
(* unless it is told to stop.                                                *)
SeedsBounded == iter <= MaxIters

(* A worker with a limit ends, whatever its target does. *)
WorkerEnds == <>(stage = "done")
=============================================================================
