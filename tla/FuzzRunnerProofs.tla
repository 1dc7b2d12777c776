-------------------------- MODULE FuzzRunnerProofs --------------------------
(* Proofs about FuzzRunner, for any target, corpus and limits. *)
EXTENDS FuzzRunner, FiniteSetTheorems, TLAPS

-----------------------------------------------------------------------------
(* Constants, sequences and records. *)

LEMMA ConstantFacts ==
    /\ 0 \in Bytes /\ Havoc \subseteq Inputs
    /\ MAX_INPUT \in Nat /\ MAX_INPUT >= 1 /\ MAX_QUEUE \in Nat /\ MAX_QUEUE >= 1
    /\ MAX_CRASHES \in Nat /\ MaxIters \in Nat /\ MaxIters >= 1
    /\ MAX_MUT_PER_BASE \in Nat /\ MAX_MUT_PER_BASE >= 1 /\ Variants \in Nat /\ Growth \in Nat
BY FuzzAssumption

LEMMA ConcatFacts ==
    ASSUME NEW S, NEW x \in Seq(S), NEW y \in Seq(S)
    PROVE  /\ x \o y \in Seq(S) /\ Len(x \o y) = Len(x) + Len(y)
           /\ SubSeq(x \o y, 1, Len(x)) = x
OBVIOUS

LEMMA PrefixFacts ==
    ASSUME NEW S, NEW s \in Seq(S), NEW m \in Nat, m <= Len(s)
    PROVE  SubSeq(s, 1, m) \in Seq(S) /\ Len(SubSeq(s, 1, m)) = m
OBVIOUS

LEMMA InputsAreSequences == Inputs = {s \in Seq(Bytes) : Len(s) <= MAX_INPUT}
<1>1. MAX_INPUT \in Nat
  BY ConstantFacts
<1>2. ASSUME NEW s \in Inputs PROVE s \in Seq(Bytes) /\ Len(s) <= MAX_INPUT
  <2>1. PICK m \in 0 .. MAX_INPUT : s \in [1 .. m -> Bytes]
    BY <1>2 DEF Inputs, BoundedSeq, SeqOf
  <2> QED BY <1>1, <2>1
<1>3. ASSUME NEW s \in Seq(Bytes), Len(s) <= MAX_INPUT PROVE s \in Inputs
  <2>1. s \in [1 .. Len(s) -> Bytes] /\ Len(s) \in 0 .. MAX_INPUT
    BY <1>1, <1>3
  <2> QED BY <2>1 DEF Inputs, BoundedSeq, SeqOf
<1> QED BY <1>2, <1>3

LEMMA MinOfTwo ==
    ASSUME NEW a \in Nat, NEW b \in Nat
    PROVE  Min({a, b}) \in {a, b} /\ Min({a, b}) <= a /\ Min({a, b}) <= b
<1>1. \E x \in {a, b} : \A y \in {a, b} : x <= y
  OBVIOUS
<1> QED BY <1>1 DEF Min

LEMMA OverFacts ==
    ASSUME NEW y \in Inputs, NEW buffer \in [1 .. MAX_INPUT -> Bytes]
    PROVE  /\ Over(y, buffer) \in [1 .. MAX_INPUT -> Bytes]
           /\ Prefix(Over(y, buffer), Len(y)) = y
<1>1. MAX_INPUT \in Nat /\ y \in Seq(Bytes) /\ Len(y) \in 0 .. MAX_INPUT
  BY InputsAreSequences, ConstantFacts
<1>2. buffer \in Seq(Bytes) /\ Len(buffer) = MAX_INPUT
  BY <1>1
<1>3. PICK rest \in Seq(Bytes) : /\ rest = SubSeq(buffer, Len(y) + 1, MAX_INPUT)
                                 /\ Len(rest) = MAX_INPUT - Len(y)
  <2>1. SubSeq(buffer, Len(y) + 1, MAX_INPUT) \in Seq(Bytes)
    BY <1>1, <1>2
  <2>2. Len(SubSeq(buffer, Len(y) + 1, MAX_INPUT)) = MAX_INPUT - Len(y)
    BY <1>1, <1>2
  <2> QED BY <2>1, <2>2
<1>4. Over(y, buffer) = y \o rest
  BY <1>3 DEF Over
<1>5. y \o rest \in Seq(Bytes) /\ Len(y \o rest) = MAX_INPUT
  BY <1>1, <1>3, ConcatFacts
<1>6. SubSeq(y \o rest, 1, Len(y)) = y
  BY <1>1, <1>3, ConcatFacts
<1>7. ASSUME NEW s \in Seq(Bytes), Len(s) = MAX_INPUT PROVE s \in [1 .. MAX_INPUT -> Bytes]
  BY <1>7
<1> QED BY <1>4, <1>5, <1>6, <1>7 DEF Prefix

LEMMA PrefixIsInput ==
    ASSUME NEW buffer \in [1 .. MAX_INPUT -> Bytes], NEW len \in 0 .. MAX_INPUT
    PROVE  Prefix(buffer, len) \in Inputs
<1>1. MAX_INPUT \in Nat /\ buffer \in Seq(Bytes) /\ Len(buffer) = MAX_INPUT
  BY ConstantFacts
<1>2. SubSeq(buffer, 1, len) \in Seq(Bytes) /\ Len(SubSeq(buffer, 1, len)) = len
  BY <1>1
<1> QED BY <1>2, InputsAreSequences DEF Prefix

LEMMA OutcomeFacts ==
    ASSUME target \in Targets, NEW x \in Inputs, NEW o \in runOne(x)
    PROVE  o \in Outcome /\ o.end \in Ends /\ o.cov \subseteq Edges
<1>1. target[x] \in Outcome
  BY FuzzAssumption
<1>2. [end |-> "none", cov |-> {}] \in Outcome
  BY DEF Outcome, Ends
<1> QED BY <1>1, <1>2 DEF runOne, Outcome

LEMMA NotNone ==
    /\ \A r \in Passes : r # None
    /\ \A r \in Crashes : r # None
<1>1. DOMAIN None = {"none"}
  BY DEF None
<1>2. \A r \in Passes : "buf" \in DOMAIN r
  BY DEF Passes
<1>3. \A r \in Crashes : "sig" \in DOMAIN r
  BY DEF Crashes
<1> QED BY <1>1, <1>2, <1>3

(* The base with one byte changed, or added to. *)
LEMMA PerturbedIsInput ==
    ASSUME NEW x \in Inputs, NEW b \in Bytes, NEW i
    PROVE  [x EXCEPT ![i] = b] \in Inputs
<1>1. x \in Seq(Bytes) /\ Len(x) \in Nat /\ Len(x) <= MAX_INPUT /\ x \in [1 .. Len(x) -> Bytes]
  BY InputsAreSequences
<1>2. [x EXCEPT ![i] = b] \in [1 .. Len(x) -> Bytes]
  BY <1>1
<1>3. [x EXCEPT ![i] = b] \in Seq(Bytes) /\ Len([x EXCEPT ![i] = b]) = Len(x)
  BY <1>1, <1>2
<1> QED BY <1>1, <1>3, InputsAreSequences

LEMMA GrownIsInput ==
    ASSUME NEW x \in Inputs, NEW b \in Bytes, Len(x) + 1 < MAX_INPUT
    PROVE  Append(x, b) \in Inputs
<1>1. x \in Seq(Bytes) /\ Len(x) \in Nat /\ MAX_INPUT \in Nat
  BY InputsAreSequences, ConstantFacts
<1>2. Append(x, b) \in Seq(Bytes) /\ Len(Append(x, b)) = Len(x) + 1
  BY <1>1
<1> QED BY <1>1, <1>2, InputsAreSequences

-----------------------------------------------------------------------------
(* Type correctness, with where each stage keeps its locals. *)

Stages == {"det", "grow", "havoc"}

TypeInv ==
    /\ TypeOK
    /\ IsFiniteSet(DOMAIN corpus)
    /\ stage = "start" => g_queue = << >> /\ g_detDone = {} /\ base = 0 /\ g_runs = 0 /\ min = None
    /\ stage # "start" => Len(g_queue) >= 1
    /\ stage \in Stages => base >= 1

LEMMA SavedFacts ==
    ASSUME corpus \in [DOMAIN corpus -> Inputs], DOMAIN corpus \subseteq Nat,
           IsFiniteSet(DOMAIN corpus), NEW k \in Nat, NEW x \in Inputs
    PROVE  /\ DOMAIN Saved(k, x) = DOMAIN corpus \cup {k}
           /\ Saved(k, x) \in [DOMAIN Saved(k, x) -> Inputs]
           /\ DOMAIN Saved(k, x) \subseteq Nat
           /\ IsFiniteSet(DOMAIN Saved(k, x))
           /\ Saved(k, x)[k] = x
           /\ \A j \in DOMAIN corpus \ {k} : Saved(k, x)[j] = corpus[j]
<1>1. DOMAIN Saved(k, x) = DOMAIN corpus \cup {k}
  BY DEF Saved
<1>2. Saved(k, x) \in [DOMAIN corpus \cup {k} -> Inputs]
  BY DEF Saved
<1>3. IsFiniteSet(DOMAIN corpus \cup {k})
  BY FS_AddElement
<1>4. Saved(k, x)[k] = x /\ \A j \in DOMAIN corpus \ {k} : Saved(k, x)[j] = corpus[j]
  BY DEF Saved
<1> QED BY <1>1, <1>2, <1>3, <1>4

LEMMA QueuePushFacts ==
    ASSUME g_queue \in Seq(Inputs), Len(g_queue) <= MAX_QUEUE, NEW y \in Inputs
    PROVE  /\ queuePush(y) \in Seq(Inputs)
           /\ Len(queuePush(y)) <= MAX_QUEUE
           /\ Len(g_queue) <= Len(queuePush(y))
<1>1. MAX_QUEUE \in Nat
  BY ConstantFacts
<1>2. Append(g_queue, y) \in Seq(Inputs) /\ Len(Append(g_queue, y)) = Len(g_queue) + 1
  OBVIOUS
<1> QED BY <1>1, <1>2 DEF queuePush

(* What an execution does to the state it may change. *)
LEMMA ExecutionTyped ==
    ASSUME TypeInv, stage \in Stages, NEW y \in Inputs,
           g_input' \in [1 .. MAX_INPUT -> Bytes], g_inputLen' \in 0 .. MAX_INPUT,
           runOneAndHandle(y), min = None
    PROVE  /\ g_total' \subseteq Edges /\ g_runs' \in Nat
           /\ g_queue' \in Seq(Inputs) /\ Len(g_queue') <= MAX_QUEUE
           /\ Len(g_queue) <= Len(g_queue')
           /\ corpus' \in [DOMAIN corpus' -> Inputs] /\ DOMAIN corpus' \subseteq Nat
           /\ IsFiniteSet(DOMAIN corpus')
           /\ found' \subseteq Inputs /\ unlucky' \in BOOLEAN
           /\ crash' \in Crashes \cup {None} /\ min' \in Passes \cup {None}
           /\ min' # None => /\ crash' # None /\ Len(min'.buf) <= Len(crash'.input)
                             /\ min'.pos <= Len(min'.buf)
<1>1. Prefix(g_input', g_inputLen') \in Inputs
  BY PrefixIsInput
<1>2. PICK o \in runOne(Prefix(g_input', g_inputLen')) :
        /\ g_runs' = g_runs + 1 /\ g_total' = g_total \cup o.cov /\ onExecDone(y, o)
  BY DEF runOneAndHandle
<1>3. o.end \in Ends /\ o.cov \subseteq Edges
  BY <1>1, <1>2, OutcomeFacts DEF TypeInv, TypeOK
<1>4. g_total' \subseteq Edges /\ g_runs' \in Nat
  BY <1>2, <1>3 DEF TypeInv, TypeOK
<1>5. /\ g_queue' \in Seq(Inputs) /\ Len(g_queue') <= MAX_QUEUE
      /\ Len(g_queue) <= Len(g_queue')
  <2>1. g_queue \in Seq(Inputs) /\ Len(g_queue) <= MAX_QUEUE /\ Len(g_queue) \in Nat
    BY DEF TypeInv, TypeOK
  <2>2. g_queue' = g_queue \/ g_queue' = queuePush(y)
    BY <1>2 DEF onExecDone
  <2> QED BY <2>1, <2>2, QueuePushFacts
<1>6. /\ corpus' \in [DOMAIN corpus' -> Inputs] /\ DOMAIN corpus' \subseteq Nat
      /\ IsFiniteSet(DOMAIN corpus')
  <2>1. /\ corpus \in [DOMAIN corpus -> Inputs] /\ DOMAIN corpus \subseteq Nat
        /\ IsFiniteSet(DOMAIN corpus) /\ SeedName \in Nat
    BY DEF TypeInv, TypeOK, SeedName
  <2>2. corpus' = corpus \/ corpus' = Saved(SeedName, y)
    BY <1>2 DEF onExecDone
  <2>3. /\ Saved(SeedName, y) \in [DOMAIN Saved(SeedName, y) -> Inputs]
        /\ DOMAIN Saved(SeedName, y) \subseteq Nat
        /\ IsFiniteSet(DOMAIN Saved(SeedName, y))
    BY <2>1, SavedFacts
  <2> QED BY <2>1, <2>2, <2>3, Zenon
<1>7. found' \subseteq Inputs
  BY <1>2 DEF onExecDone, TypeInv, TypeOK
<1>8. /\ unlucky' \in BOOLEAN
      /\ crash' \in Crashes \cup {None} /\ min' \in Passes \cup {None}
      /\ min' # None => /\ crash' # None /\ Len(min'.buf) <= Len(crash'.input)
                        /\ min'.pos <= Len(min'.buf)
  <2>1. CASE o.end \in Signals
    <3> DEFINE c == [input |-> y, sig |-> o.end, minimal |-> << >>, by |-> stage]
               m == [buf |-> y, step |-> Len(y) \div 2, pos |-> 0, changed |-> FALSE]
    <3>1. crash' = c /\ min' = m /\ unlucky' = FALSE
      BY <1>2, <2>1 DEF onExecDone
    <3>2. << >> \in Inputs /\ Len(y) \in Nat
      BY InputsAreSequences, ConstantFacts
    <3>3. c \in Crashes /\ c.input = y
      BY <2>1, <3>2 DEF Crashes, Stages
    <3>4. m \in Passes /\ m.buf = y /\ m.pos = 0
      BY <3>2 DEF Passes
    <3> HIDE DEF c, m
    <3>5. crash' \in Crashes /\ min' \in Passes /\ unlucky' = FALSE
      BY <3>1, <3>3, <3>4
    <3>6. crash'.input = y /\ min'.buf = y /\ min'.pos = 0
      BY <3>1, <3>3, <3>4
    <3>7. Len(min'.buf) <= Len(crash'.input) /\ min'.pos <= Len(min'.buf)
      BY <3>2, <3>6
    <3>8. crash' # None
      BY <3>5, NotNone
    <3> QED BY <3>5, <3>7, <3>8, Zenon
  <2>2. CASE o.end \notin Signals
    BY <1>2, <2>2 DEF onExecDone, TypeInv, TypeOK
  <2> QED BY <2>1, <2>2
<1> QED BY <1>4, <1>5, <1>6, <1>7, <1>8

(* The three stages that execute the target. *)
Execution == Deterministic \/ Grow \/ Mutate

StageBound ==
    [det   |-> Variants * MAX_INPUT, grow |-> Growth, havoc |-> MAX_MUT_PER_BASE]

LEMMA BaseIsInput ==
    ASSUME TypeInv, stage \in Stages
    PROVE  /\ g_queue[base] \in Inputs
           /\ Variants * Len(g_queue[base]) \in Nat
           /\ Variants * MAX_INPUT \in Nat
           /\ Variants * Len(g_queue[base]) <= Variants * MAX_INPUT
<1>1. g_queue \in Seq(Inputs) /\ base \in 1 .. Len(g_queue)
  BY DEF TypeInv, TypeOK
<1>2. g_queue[base] \in Inputs
  BY <1>1
<1>3. Len(g_queue[base]) \in Nat /\ Len(g_queue[base]) <= MAX_INPUT
  BY <1>2, InputsAreSequences
<1>4. \A a, b, c \in Nat : b <= c => a * b \in Nat /\ a * c \in Nat /\ a * b <= a * c
  OBVIOUS
<1> QED BY <1>2, <1>3, <1>4, ConstantFacts

LEMMA ExecutionFacts ==
    ASSUME TypeInv, Execution
    PROVE  /\ stage \in Stages /\ min = None /\ stage' = stage
           /\ n' = n + 1 /\ n < StageBound[stage]
           /\ UNCHANGED Rest
           /\ g_input' \in [1 .. MAX_INPUT -> Bytes] /\ g_inputLen' \in 0 .. MAX_INPUT
           /\ \E y \in Inputs :
                 /\ runOneAndHandle(y)
                 /\ stage = "havoc" => Prefix(g_input', g_inputLen') = y
<1>0. /\ g_input \in [1 .. MAX_INPUT -> Bytes] /\ g_inputLen \in 0 .. MAX_INPUT
      /\ n \in Nat /\ MAX_INPUT \in Nat
  BY ConstantFacts DEF TypeInv, TypeOK
<1>1. CASE Deterministic
  <2>1. /\ stage = "det" /\ stage \in Stages /\ min = None /\ stage' = stage
        /\ n' = n + 1 /\ UNCHANGED Rest /\ n < Variants * Len(g_queue[base])
        /\ g_inputLen' = g_inputLen
    BY <1>1 DEF Deterministic, Working, Stages
  <2>2. PICK b \in Bytes :
          LET y == [g_queue[base] EXCEPT ![n \div Variants + 1] = b] IN
          g_input' = Over(y, g_input) /\ runOneAndHandle(y)
    BY <1>1 DEF Deterministic
  <2> DEFINE y == [g_queue[base] EXCEPT ![n \div Variants + 1] = b]
  <2>3. y \in Inputs
    BY <2>1, <2>2, BaseIsInput, PerturbedIsInput
  <2>4. g_input' \in [1 .. MAX_INPUT -> Bytes]
    BY <1>0, <2>2, <2>3, OverFacts
  <2>5. n < StageBound[stage]
    BY <1>0, <2>1, BaseIsInput DEF StageBound
  <2> QED BY <1>0, <2>1, <2>2, <2>3, <2>4, <2>5
<1>2. CASE Grow
  <2>1. /\ stage = "grow" /\ stage \in Stages /\ min = None /\ stage' = stage
        /\ n' = n + 1 /\ UNCHANGED Rest /\ n < Growth
        /\ g_inputLen' = g_inputLen /\ Len(g_queue[base]) + 1 < MAX_INPUT
    BY <1>2 DEF Grow, Working, Stages
  <2>2. PICK b \in Bytes :
          LET y == Append(g_queue[base], b) IN
          g_input' = Over(y, g_input) /\ runOneAndHandle(y)
    BY <1>2 DEF Grow
  <2> DEFINE y == Append(g_queue[base], b)
  <2>3. y \in Inputs
    BY <2>1, <2>2, BaseIsInput, GrownIsInput
  <2>4. g_input' \in [1 .. MAX_INPUT -> Bytes]
    BY <1>0, <2>2, <2>3, OverFacts
  <2>5. n < StageBound[stage]
    BY <2>1 DEF StageBound
  <2> QED BY <1>0, <2>1, <2>2, <2>3, <2>4, <2>5
<1>3. CASE Mutate
  <2>1. /\ stage = "havoc" /\ stage \in Stages /\ min = None /\ stage' = stage
        /\ n' = n + 1 /\ UNCHANGED Rest /\ n < MAX_MUT_PER_BASE
    BY <1>3 DEF Mutate, Working, Stages
  <2>2. PICK y \in Havoc, b \in Bytes :
          /\ g_input' = Over(y, [i \in 1 .. MAX_INPUT |-> b])
          /\ g_inputLen' = Len(y) /\ runOneAndHandle(y)
    BY <1>3 DEF Mutate
  <2>3. y \in Inputs /\ Len(y) \in 0 .. MAX_INPUT
    BY <2>2, ConstantFacts, InputsAreSequences
  <2>4. [i \in 1 .. MAX_INPUT |-> b] \in [1 .. MAX_INPUT -> Bytes]
    OBVIOUS
  <2>5. g_input' \in [1 .. MAX_INPUT -> Bytes] /\ Prefix(g_input', g_inputLen') = y
    BY <2>2, <2>3, <2>4, OverFacts
  <2>6. n < StageBound[stage]
    BY <2>1 DEF StageBound
  <2> QED BY <2>1, <2>2, <2>3, <2>5, <2>6
<1> QED BY <1>1, <1>2, <1>3 DEF Execution

(* The minimizer's candidate: the buffer without the chunk at pos. *)
LEMMA ChunkFacts ==
    ASSUME NEW buf \in Seq(Bytes), NEW pos \in Nat, NEW step \in Nat, step >= 1, pos < Len(buf)
    PROVE  LET c == Min({pos + step, Len(buf)})
               w == SubSeq(buf, 1, pos) \o SubSeq(buf, c + 1, Len(buf))
           IN  /\ c \in Nat /\ pos < c /\ c <= Len(buf)
               /\ w \in Seq(Bytes) /\ Len(w) = pos + (Len(buf) - c)
               /\ step = 1 => c = pos + 1 /\ w = RemoveAt(buf, pos + 1)
<1> DEFINE c == Min({pos + step, Len(buf)})
<1>1. pos + step \in Nat /\ Len(buf) \in Nat
  OBVIOUS
<1>2. c \in {pos + step, Len(buf)} /\ c <= pos + step /\ c <= Len(buf)
  BY <1>1, MinOfTwo
<1> HIDE DEF c
<1>3. /\ c \in Nat /\ pos < c /\ c <= Len(buf)
      /\ step = 1 => c = pos + 1
  BY <1>1, <1>2
<1>4. PICK x \in Seq(Bytes) : x = SubSeq(buf, 1, pos) /\ Len(x) = pos
  <2>1. SubSeq(buf, 1, pos) \in Seq(Bytes) /\ Len(SubSeq(buf, 1, pos)) = pos
    OBVIOUS
  <2> QED BY <2>1
<1>5. PICK z \in Seq(Bytes) : z = SubSeq(buf, c + 1, Len(buf)) /\ Len(z) = Len(buf) - c
  <2>1. SubSeq(buf, c + 1, Len(buf)) \in Seq(Bytes)
    BY <1>3
  <2>2. Len(SubSeq(buf, c + 1, Len(buf))) = Len(buf) - c
    BY <1>3
  <2> QED BY <2>1, <2>2
<1> DEFINE w == SubSeq(buf, 1, pos) \o SubSeq(buf, c + 1, Len(buf))
<1>6. w = x \o z
  BY <1>4, <1>5
<1>7. w \in Seq(Bytes) /\ Len(w) = pos + (Len(buf) - c)
  <2>1. x \o z \in Seq(Bytes) /\ Len(x \o z) = Len(x) + Len(z)
    BY ConcatFacts
  <2> HIDE DEF w
  <2> QED BY <1>4, <1>5, <1>6, <2>1
<1>8. ASSUME step = 1 PROVE w = RemoveAt(buf, pos + 1)
  <2>1. (pos + 1) - 1 = pos
    OBVIOUS
  <2>2. c = pos + 1
    BY <1>3, <1>8
  <2> QED BY <2>1, <2>2, Zenon DEF RemoveAt
<1> QED BY <1>3, <1>7, <1>8 DEF c

LEMMA WithoutFacts ==
    ASSUME TypeInv, min # None, min.step >= 1, min.pos < Len(min.buf)
    PROVE  /\ Chunk \in Nat /\ min.pos < Chunk /\ Chunk <= Len(min.buf)
           /\ Without \in Inputs
           /\ min.pos <= Len(Without) /\ Len(Without) < Len(min.buf)
           /\ min.step = 1 => /\ Chunk = min.pos + 1
                              /\ Without = RemoveAt(min.buf, min.pos + 1)
                              /\ Len(Without) = Len(min.buf) - 1
<1>0. min \in Passes
  BY DEF TypeInv, TypeOK
<1>1. min.buf \in Inputs /\ min.step \in Nat /\ min.pos \in Nat
  BY <1>0 DEF Passes
<1>2. min.buf \in Seq(Bytes) /\ Len(min.buf) \in Nat /\ Len(min.buf) <= MAX_INPUT
  BY <1>1, InputsAreSequences
<1>3. /\ Chunk \in Nat /\ min.pos < Chunk /\ Chunk <= Len(min.buf)
      /\ Without \in Seq(Bytes) /\ Len(Without) = min.pos + (Len(min.buf) - Chunk)
      /\ min.step = 1 => Chunk = min.pos + 1 /\ Without = RemoveAt(min.buf, min.pos + 1)
  BY <1>1, <1>2, ChunkFacts, Zenon DEF Without, Chunk
<1>4. /\ min.pos <= Len(Without) /\ Len(Without) < Len(min.buf)
      /\ min.step = 1 => Len(Without) = Len(min.buf) - 1
  BY <1>1, <1>2, <1>3
<1>5. Without \in Inputs
  <2>1. Len(Without) <= MAX_INPUT
    BY <1>2, <1>3, <1>4, ConstantFacts
  <2> QED BY <1>3, <2>1, InputsAreSequences
<1> QED BY <1>3, <1>4, <1>5

LEMMA LoadedQueue ==
    ASSUME TypeInv, Load
    PROVE  g_queue' \in Seq(Inputs) /\ Len(g_queue') \in 1 .. MAX_QUEUE
<1>1. PICK names \in [1 .. Cardinality(DOMAIN corpus) -> DOMAIN corpus] :
        LET seeds == [i \in DOMAIN names |-> corpus[names[i]]] IN
        g_queue' = IF seeds = << >> THEN << <<0>> >>
                   ELSE SubSeq(seeds, 1, Min({Len(seeds), MAX_QUEUE}))
  BY DEF Load
<1> DEFINE seeds == [i \in DOMAIN names |-> corpus[names[i]]]
<1>2. Cardinality(DOMAIN corpus) \in Nat /\ corpus \in [DOMAIN corpus -> Inputs]
  BY FS_CardinalityType DEF TypeInv, TypeOK
<1>3. seeds \in [1 .. Cardinality(DOMAIN corpus) -> Inputs]
  BY <1>1, <1>2
<1>4. seeds \in Seq(Inputs) /\ Len(seeds) \in Nat
  BY <1>2, <1>3
<1>5. MAX_QUEUE \in Nat /\ MAX_QUEUE >= 1
  BY ConstantFacts
<1>0. g_queue' = IF seeds = << >> THEN << <<0>> >>
                 ELSE SubSeq(seeds, 1, Min({Len(seeds), MAX_QUEUE}))
  BY <1>1, Zenon
<1> HIDE DEF seeds
<1>6. CASE seeds = << >>
  <2>1. <<0>> \in Inputs
    BY ConstantFacts, InputsAreSequences
  <2>2. g_queue' = << <<0>> >>
    BY <1>0, <1>6
  <2>3. \A x \in Inputs : <<x>> \in Seq(Inputs) /\ Len(<<x>>) = 1
    OBVIOUS
  <2>4. g_queue' \in Seq(Inputs) /\ Len(g_queue') = 1
    BY <2>1, <2>2, <2>3, Zenon
  <2> QED BY <1>5, <2>4
<1>7. CASE seeds # << >>
  <2>1. Len(seeds) >= 1
    BY <1>4, <1>7
  <2>2. PICK m \in Nat : m = Min({Len(seeds), MAX_QUEUE}) /\ 1 <= m /\ m <= Len(seeds) /\ m <= MAX_QUEUE
    BY <1>4, <1>5, <2>1, MinOfTwo
  <2>3. g_queue' = SubSeq(seeds, 1, m)
    BY <1>0, <1>7, <2>2
  <2>4. SubSeq(seeds, 1, m) \in Seq(Inputs) /\ Len(SubSeq(seeds, 1, m)) = m
    BY <1>4, <2>2, PrefixFacts
  <2>5. m \in 1 .. MAX_QUEUE
    BY <1>5, <2>2
  <2> QED BY <2>3, <2>4, <2>5, Zenon
<1> QED BY <1>6, <1>7

(* A pass of the minimizer, or its end. *)
Minimizing == Reduce \/ EndPass \/ Minimized

LEMMA MinimizingTyped ==
    ASSUME TypeInv, Minimizing
    PROVE  /\ UNCHANGED MinimizerRest /\ min # None
           /\ g_input' \in [1 .. MAX_INPUT -> Bytes] /\ g_total' \subseteq Edges
           /\ g_crashes' \in Nat /\ g_stop' \in BOOLEAN /\ unlucky' \in BOOLEAN
           /\ crash' \in Crashes /\ min' \in Passes \cup {None}
           /\ min' # None => Len(min'.buf) <= Len(crash'.input) /\ min'.pos <= Len(min'.buf)
<1>1. /\ min # None /\ UNCHANGED MinimizerRest
  BY DEF Minimizing, Reduce, EndPass, Minimized
<1>2. min \in Passes /\ crash \in Crashes
  BY <1>1 DEF TypeInv, TypeOK
<1>3. /\ min.buf \in Inputs /\ min.step \in Nat /\ min.pos \in Nat /\ min.changed \in BOOLEAN
      /\ crash.input \in Inputs /\ crash.sig \in Signals
  BY <1>2 DEF Passes, Crashes
<1>4. /\ Len(min.buf) \in Nat /\ Len(crash.input) \in Nat
      /\ Len(min.buf) <= Len(crash.input) /\ min.pos <= Len(min.buf)
  <2>1. Len(min.buf) <= Len(crash.input) /\ min.pos <= Len(min.buf)
    BY <1>1 DEF TypeInv, TypeOK
  <2> QED BY <1>3, <2>1, InputsAreSequences
<1>5. /\ g_input \in [1 .. MAX_INPUT -> Bytes] /\ g_total \subseteq Edges
      /\ g_crashes \in Nat /\ g_stop \in BOOLEAN /\ unlucky \in BOOLEAN /\ target \in Targets
  BY DEF TypeInv, TypeOK
<1>6. CASE Reduce
  <2>1. /\ min.step >= 1 /\ min.pos < Len(min.buf)
        /\ g_crashes' = g_crashes /\ g_stop' = g_stop /\ crash' = crash
    BY <1>6 DEF Reduce
  <2>2. /\ Chunk \in Nat /\ Chunk <= Len(min.buf) /\ Without \in Inputs
        /\ min.pos <= Len(Without) /\ Len(Without) <= Len(min.buf) /\ Len(Without) \in Nat
    BY <1>1, <2>1, WithoutFacts, InputsAreSequences
  <2> DEFINE past == [min EXCEPT !.pos = Chunk]
             less == [min EXCEPT !.buf = Without, !.changed = TRUE]
  <2>3. past \in Passes /\ Len(past.buf) <= Len(crash.input) /\ past.pos <= Len(past.buf)
    <3>1. past \in Passes /\ past.buf = min.buf /\ past.pos = Chunk
      BY <1>2, <2>2 DEF Passes
    <3> QED BY <1>4, <2>2, <3>1
  <2>4. less \in Passes /\ Len(less.buf) <= Len(crash.input) /\ less.pos <= Len(less.buf)
    <3>1. less \in Passes /\ less.buf = Without /\ less.pos = min.pos
      BY <1>2, <2>2 DEF Passes
    <3> HIDE DEF less
    <3> QED BY <1>3, <1>4, <2>2, <3>1
  <2>5. min' = past \/ min' = less
    BY <1>6 DEF Reduce
  <2>6. /\ g_input' \in [1 .. MAX_INPUT -> Bytes] /\ g_total' \subseteq Edges
        /\ unlucky' \in BOOLEAN
    <3>1. CASE Without = << >>
      BY <1>5, <1>6, <3>1 DEF Reduce
    <3>2. CASE Without # << >>
      <4>1. PICK o \in runOne(Without) :
              /\ g_input' = Over(Without, g_input) /\ g_total' = g_total \cup o.cov
              /\ unlucky' = (unlucky \/ o.end = "none")
        BY <1>6, <3>2 DEF Reduce
      <4>2. o.cov \subseteq Edges
        BY <1>5, <2>2, OutcomeFacts
      <4>3. g_input' \in [1 .. MAX_INPUT -> Bytes]
        BY <1>5, <2>2, <4>1, OverFacts
      <4> QED BY <1>5, <4>1, <4>2, <4>3
    <3> QED BY <3>1, <3>2
  <2> HIDE DEF past, less
  <2>7. /\ min' \in Passes
        /\ Len(min'.buf) <= Len(crash'.input) /\ min'.pos <= Len(min'.buf)
    BY <2>1, <2>3, <2>4, <2>5
  <2> QED BY <1>1, <1>2, <1>5, <2>1, <2>6, <2>7
<1>7. CASE EndPass
  <2> DEFINE next == [min EXCEPT !.pos = 0, !.changed = FALSE, !.step = NextStep]
  <2>1. /\ min' = next
        /\ UNCHANGED <<g_input, g_total, g_crashes, g_stop, crash, unlucky>>
    BY <1>7 DEF EndPass
  <2>2. NextStep \in Nat
    BY <1>3 DEF NextStep
  <2>3. next \in Passes /\ next.buf = min.buf /\ next.pos = 0
    BY <1>2, <2>2 DEF Passes
  <2> HIDE DEF next
  <2>4. /\ min' \in Passes
        /\ Len(min'.buf) <= Len(crash'.input) /\ min'.pos <= Len(min'.buf)
    BY <1>4, <2>1, <2>3
  <2> QED BY <1>1, <1>2, <1>5, <2>1, <2>4
<1>8. CASE Minimized
  <2>1. /\ crash' = [crash EXCEPT !.minimal = min.buf] /\ min' = None
        /\ g_crashes' = g_crashes + 1 /\ UNCHANGED <<g_input, g_total, unlucky>>
        /\ g_stop' = (g_stop \/ g_crashes' >= MAX_CRASHES)
    BY <1>8 DEF Minimized
  <2>2. crash' \in Crashes
    BY <1>2, <1>3, <2>1 DEF Crashes
  <2>3. g_stop' \in BOOLEAN
    BY <2>1
  <2> QED BY <1>1, <1>5, <2>1, <2>2, <2>3
<1> QED BY <1>6, <1>7, <1>8 DEF Minimizing

LEMMA TypeInit == Init => TypeInv
<1> SUFFICES ASSUME Init PROVE TypeInv
  OBVIOUS
<1>1. corpus \in [DOMAIN corpus -> Inputs] /\ DOMAIN corpus \subseteq Nat /\ IsFiniteSet(DOMAIN corpus)
  BY FuzzAssumption DEF Init
<1>2. g_input \in [1 .. MAX_INPUT -> Bytes] /\ g_inputLen \in 0 .. MAX_INPUT
  BY ConstantFacts DEF Init
<1>3. g_queue \in Seq(Inputs) /\ Len(g_queue) <= MAX_QUEUE /\ Len(g_queue) = 0
  BY ConstantFacts DEF Init
<1>4. g_detDone \subseteq 1 .. Len(g_queue) /\ base \in 0 .. Len(g_queue)
  BY <1>3 DEF Init
<1>5. /\ target \in Targets /\ g_total \subseteq Edges /\ {g_runs, g_crashes, n, iter} \subseteq Nat
      /\ g_stop \in BOOLEAN /\ unlucky \in BOOLEAN /\ collided \in BOOLEAN
      /\ found \subseteq Inputs /\ stage = "start" /\ crash = None /\ min = None
  <2>1. /\ target \in Targets /\ g_total = {} /\ g_runs = 0 /\ g_crashes = 0 /\ n = 0 /\ iter = 0
        /\ g_stop = FALSE /\ unlucky = FALSE /\ collided = FALSE /\ found = {}
        /\ stage = "start" /\ crash = None /\ min = None
    BY Zenon DEF Init
  <2>2. {g_runs, g_crashes, n, iter} \subseteq Nat
    BY <2>1
  <2>3. g_stop \in BOOLEAN /\ unlucky \in BOOLEAN /\ collided \in BOOLEAN
    BY <2>1, Zenon
  <2>4. g_total \subseteq Edges /\ found \subseteq Inputs
    BY <2>1, Zenon
  <2> QED BY <2>1, <2>2, <2>3, <2>4, Zenon
<1>6. TypeOK
  BY <1>1, <1>2, <1>3, <1>4, <1>5 DEF TypeOK
<1> QED BY <1>1, <1>5, <1>6 DEF Init, TypeInv, Stages

(* The variables the loop's own steps do not touch. *)
LEMMA TypeUnchanged ==
    ASSUME TypeInv, UNCHANGED Locals, stage \notin {"start", "done"},
           n' \in Nat, iter' \in Nat, base' \in 1 .. Len(g_queue),
           g_detDone' \subseteq 1 .. Len(g_queue),
           stage' \in {"loop", "det", "grow", "havoc", "done"}
    PROVE  TypeInv'
<1>1. TypeOK'
  BY DEF TypeInv, TypeOK, Locals
<1> QED BY <1>1 DEF TypeInv, TypeOK, Locals, Stages

LEMMA TypeStep == TypeInv /\ [Next]_vars => TypeInv'
<1> SUFFICES ASSUME TypeInv, [Next]_vars PROVE TypeInv'
  OBVIOUS
<1>1. CASE Load
  <2>1. g_queue' \in Seq(Inputs) /\ Len(g_queue') \in 1 .. MAX_QUEUE
    BY <1>1, LoadedQueue
  <2>2. stage = "start" /\ stage' = "loop"
        /\ UNCHANGED <<target, corpus, g_total, g_detDone, g_input, g_inputLen, g_runs,
                       g_crashes, g_stop, n, iter, base, min, crash, found, unlucky, collided>>
    BY <1>1 DEF Load
  <2>3. g_detDone' \subseteq 1 .. Len(g_queue') /\ base' \in 0 .. Len(g_queue')
        /\ Len(g_queue') <= MAX_QUEUE
    BY <2>1, <2>2, ConstantFacts DEF TypeInv
  <2>4. TypeOK'
    BY <2>1, <2>2, <2>3 DEF TypeInv, TypeOK
  <2> QED BY <2>1, <2>2, <2>4, ConstantFacts DEF TypeInv, Stages
<1>2. CASE NextBase
  <2>1. /\ stage = "loop" /\ UNCHANGED Locals /\ n' = 0 /\ iter' = iter + 1
        /\ base' = (iter % Len(g_queue)) + 1 /\ g_detDone' = g_detDone \cup {base'}
        /\ stage' \in {"havoc", "det"}
    BY <1>2 DEF NextBase, Working
  <2>2. /\ iter \in Nat /\ Len(g_queue) \in Nat /\ Len(g_queue) >= 1
        /\ g_detDone \subseteq 1 .. Len(g_queue)
    BY <2>1 DEF TypeInv, TypeOK
  <2>3. base' \in 1 .. Len(g_queue)
    BY <2>1, <2>2
  <2>4. g_detDone' \subseteq 1 .. Len(g_queue)
    BY <2>1, <2>2, <2>3
  <2> QED BY <2>1, <2>2, <2>3, <2>4, TypeUnchanged
<1>3. CASE StageEnds
  <2>1. /\ stage \in Stages /\ UNCHANGED <<Locals, g_detDone, iter, base>> /\ n' = 0
        /\ stage' \in {"loop", "grow", "havoc"}
    BY <1>3 DEF StageEnds, Working, Stages
  <2>2. /\ iter \in Nat /\ base \in 1 .. Len(g_queue) /\ g_detDone \subseteq 1 .. Len(g_queue)
        /\ stage \notin {"start", "done"}
    BY <2>1 DEF TypeInv, TypeOK, Stages
  <2> QED BY <2>1, <2>2, TypeUnchanged
<1>4. CASE Finish
  <2>1. /\ stage = "loop" /\ stage' = "done" /\ UNCHANGED <<Locals, g_detDone, iter, base, n>>
    BY <1>4 DEF Finish, Working
  <2>2. TypeOK'
    BY <2>1 DEF TypeInv, TypeOK, Locals
  <2> QED BY <2>1, <2>2 DEF TypeInv, Locals, Stages
<1>5. CASE Execution
  <2>1. /\ stage \in Stages /\ min = None /\ stage' = stage /\ n' = n + 1
        /\ UNCHANGED Rest
        /\ g_input' \in [1 .. MAX_INPUT -> Bytes] /\ g_inputLen' \in 0 .. MAX_INPUT
    BY <1>5, ExecutionFacts
  <2>2. PICK y \in Inputs : runOneAndHandle(y)
    BY <1>5, ExecutionFacts
  <2>3. /\ g_total' \subseteq Edges /\ g_runs' \in Nat
        /\ g_queue' \in Seq(Inputs) /\ Len(g_queue') <= MAX_QUEUE
        /\ Len(g_queue) <= Len(g_queue')
        /\ corpus' \in [DOMAIN corpus' -> Inputs] /\ DOMAIN corpus' \subseteq Nat
        /\ IsFiniteSet(DOMAIN corpus')
        /\ found' \subseteq Inputs /\ unlucky' \in BOOLEAN
        /\ crash' \in Crashes \cup {None} /\ min' \in Passes \cup {None}
        /\ min' # None => /\ crash' # None /\ Len(min'.buf) <= Len(crash'.input)
                          /\ min'.pos <= Len(min'.buf)
    BY <2>1, <2>2, ExecutionTyped
  <2>4. /\ Len(g_queue) \in Nat /\ Len(g_queue) >= 1 /\ Len(g_queue') \in Nat
        /\ base \in 1 .. Len(g_queue) /\ g_detDone \subseteq 1 .. Len(g_queue)
    BY <2>1, <2>3 DEF TypeInv, TypeOK, Stages
  <2>5. /\ base' \in 1 .. Len(g_queue') /\ g_detDone' \subseteq 1 .. Len(g_queue')
        /\ base' \in 0 .. Len(g_queue') /\ Len(g_queue') >= 1 /\ base' >= 1
    BY <2>1, <2>3, <2>4 DEF Rest
  <2>6. /\ target' \in Targets /\ {g_runs', g_crashes', n', iter'} \subseteq Nat
        /\ g_stop' \in BOOLEAN /\ collided' \in BOOLEAN
    BY <2>1, <2>3 DEF TypeInv, TypeOK, Rest
  <2>7. stage' \in {"start", "loop", "det", "grow", "havoc", "done"} /\ stage' # "start"
    BY <2>1 DEF Stages
  <2>8. TypeOK'
    BY <2>1, <2>3, <2>5, <2>6, <2>7, Zenon DEF TypeOK
  <2> QED BY <2>3, <2>5, <2>7, <2>8, Zenon DEF TypeInv
<1>6. CASE Minimizing
  <2>1. /\ UNCHANGED MinimizerRest /\ min # None
        /\ g_input' \in [1 .. MAX_INPUT -> Bytes] /\ g_total' \subseteq Edges
        /\ g_crashes' \in Nat /\ g_stop' \in BOOLEAN /\ unlucky' \in BOOLEAN
        /\ crash' \in Crashes /\ min' \in Passes \cup {None}
        /\ min' # None => Len(min'.buf) <= Len(crash'.input) /\ min'.pos <= Len(min'.buf)
    BY <1>6, MinimizingTyped
  <2>2. /\ target' \in Targets /\ g_queue' \in Seq(Inputs) /\ Len(g_queue') <= MAX_QUEUE
        /\ corpus' \in [DOMAIN corpus' -> Inputs] /\ DOMAIN corpus' \subseteq Nat
        /\ g_detDone' \subseteq 1 .. Len(g_queue') /\ g_inputLen' \in 0 .. MAX_INPUT
        /\ {g_runs', n', iter'} \subseteq Nat /\ base' \in 0 .. Len(g_queue')
        /\ collided' \in BOOLEAN /\ found' \subseteq Inputs
        /\ stage' \in {"start", "loop", "det", "grow", "havoc", "done"}
    BY <2>1 DEF TypeInv, TypeOK, MinimizerRest
  <2>3. crash' # None
    BY <2>1, NotNone
  <2>4. {g_runs', g_crashes', n', iter'} \subseteq Nat
    BY <2>1, <2>2
  <2>5. TypeOK'
    BY <2>1, <2>2, <2>3, <2>4, Zenon DEF TypeOK
  <2>6. stage # "start"
    BY <2>1 DEF TypeInv
  <2> QED BY <2>1, <2>5, <2>6 DEF TypeInv, MinimizerRest
<1>7. CASE handleStop
  <2>1. TypeOK'
    BY <1>7 DEF TypeInv, TypeOK, handleStop
  <2> QED BY <1>7, <2>1 DEF TypeInv, handleStop
<1>8. CASE OtherWorkerSaves
  <2>1. PICK k \in 1 .. MaxIters, x \in Havoc : corpus' = Saved(k, x)
    BY <1>8 DEF OtherWorkerSaves
  <2>2. k \in Nat /\ x \in Inputs
    BY <2>1, ConstantFacts
  <2>3. /\ corpus' \in [DOMAIN corpus' -> Inputs] /\ DOMAIN corpus' \subseteq Nat
        /\ IsFiniteSet(DOMAIN corpus')
    <3>1. /\ corpus \in [DOMAIN corpus -> Inputs] /\ DOMAIN corpus \subseteq Nat
          /\ IsFiniteSet(DOMAIN corpus)
      BY DEF TypeInv, TypeOK
    <3>2. /\ Saved(k, x) \in [DOMAIN Saved(k, x) -> Inputs]
          /\ DOMAIN Saved(k, x) \subseteq Nat /\ IsFiniteSet(DOMAIN Saved(k, x))
      BY <2>2, <3>1, SavedFacts
    <3> QED BY <2>1, <3>2, Zenon
  <2>4. TypeOK'
    BY <1>8, <2>3 DEF TypeInv, TypeOK, OtherWorkerSaves, process
  <2> QED BY <1>8, <2>3, <2>4 DEF TypeInv, OtherWorkerSaves, process
<1>9. CASE UNCHANGED vars
  <2>1. TypeOK'
    BY <1>9 DEF TypeInv, TypeOK, vars, process
  <2> QED BY <1>9, <2>1 DEF TypeInv, vars, process
<1> QED
  BY <1>1, <1>2, <1>3, <1>4, <1>5, <1>6, <1>7, <1>8, <1>9
     DEF Next, Worker, Execution, Minimizing

LEMMA TypeAlways == Spec => []TypeInv
BY TypeInit, TypeStep, PTL DEF Spec

(* The worker keeps to its arrays and its minimizer to what it was given,    *)
(* for every target, every corpus and every limit: fuzz_runner.c.            *)
THEOREM FuzzTypeCorrect == Spec => []TypeOK
<1>1. TypeInv => TypeOK
  BY DEF TypeInv
<1> QED BY <1>1, TypeAlways, PTL

-----------------------------------------------------------------------------
(* Seeds: the file of a seed has a number this worker has used already.      *)

SeedInv ==
    collided \/ \A y \in found : \E k \in DOMAIN corpus : k <= g_runs /\ corpus[k] = y

LEMMA SeedStep == TypeInv /\ SeedInv /\ [Next]_vars => SeedInv'
<1> SUFFICES ASSUME TypeInv, SeedInv, [Next]_vars PROVE SeedInv'
  OBVIOUS
<1>1. CASE UNCHANGED <<corpus, found, g_runs, collided>>
  BY <1>1 DEF SeedInv
<1>2. CASE Execution
  <2>1. /\ stage \in Stages /\ min = None /\ collided' = collided
        /\ g_input' \in [1 .. MAX_INPUT -> Bytes] /\ g_inputLen' \in 0 .. MAX_INPUT
    BY <1>2, ExecutionFacts DEF Rest
  <2>2. PICK y \in Inputs : runOneAndHandle(y)
    BY <1>2, ExecutionFacts
  <2>3. PICK o : g_runs' = g_runs + 1 /\ onExecDone(y, o)
    BY <2>2 DEF runOneAndHandle
  <2>4. /\ corpus \in [DOMAIN corpus -> Inputs] /\ DOMAIN corpus \subseteq Nat
        /\ IsFiniteSet(DOMAIN corpus) /\ g_runs \in Nat
    BY DEF TypeInv, TypeOK
  <2> SUFFICES ASSUME ~collided, NEW z \in found'
               PROVE  \E k \in DOMAIN corpus' : k <= g_runs' /\ corpus'[k] = z
    BY <2>1 DEF SeedInv
  <2>5. CASE corpus' = corpus /\ found' = found
    BY <2>3, <2>4, <2>5 DEF SeedInv
  <2>6. CASE corpus' = Saved(SeedName, y) /\ found' = found \cup {y}
    <3>1. SeedName = g_runs + 1 /\ SeedName \in Nat
      BY <2>4 DEF SeedName
    <3>2. /\ DOMAIN corpus' = DOMAIN corpus \cup {SeedName}
          /\ corpus'[SeedName] = y
          /\ \A j \in DOMAIN corpus \ {SeedName} : corpus'[j] = corpus[j]
      <4>1. /\ DOMAIN Saved(SeedName, y) = DOMAIN corpus \cup {SeedName}
            /\ Saved(SeedName, y)[SeedName] = y
            /\ \A j \in DOMAIN corpus \ {SeedName} : Saved(SeedName, y)[j] = corpus[j]
        BY <2>4, <3>1, SavedFacts
      <4> QED BY <2>6, <4>1, Zenon
    <3>3. CASE z = y
      BY <2>3, <2>4, <3>1, <3>2, <3>3
    <3>4. CASE z \in found
      <4>1. PICK k \in DOMAIN corpus : k <= g_runs /\ corpus[k] = z
        BY <3>4 DEF SeedInv
      <4>2. k # SeedName /\ k <= g_runs'
        BY <2>3, <2>4, <3>1, <4>1
      <4> QED BY <3>2, <4>1, <4>2
    <3> QED BY <2>6, <3>3, <3>4
  <2> QED BY <2>3, <2>5, <2>6 DEF onExecDone
<1>3. CASE OtherWorkerSaves
  BY <1>3 DEF OtherWorkerSaves, SeedInv
<1>4. ASSUME Load \/ NextBase \/ StageEnds \/ Finish \/ Minimizing \/ handleStop \/ UNCHANGED vars
      PROVE  UNCHANGED <<corpus, found, g_runs, collided>>
  <2>1. Load \/ handleStop \/ UNCHANGED vars => UNCHANGED <<corpus, found, g_runs, collided>>
    BY DEF Load, handleStop, vars, process
  <2>2. NextBase \/ StageEnds \/ Finish => UNCHANGED <<corpus, found, g_runs, collided>>
    BY DEF NextBase, StageEnds, Finish, Locals
  <2>3. Minimizing => UNCHANGED <<corpus, found, g_runs, collided>>
    BY DEF Minimizing, Reduce, EndPass, Minimized, MinimizerRest
  <2> QED BY <1>4, <2>1, <2>2, <2>3
<1> QED BY <1>1, <1>2, <1>3, <1>4 DEF Next, Worker, Execution, Minimizing

(* No seed of this session is lost: the worker never writes over a seed it   *)
(* has saved itself, whatever names the corpus holds already and however     *)
(* full the queue is.                                                        *)
THEOREM SeedsSound == Spec => []SeedsPersist
<1>1. Init => SeedInv
  BY DEF Init, SeedInv
<1>2. SeedInv => SeedsPersist
  BY DEF SeedInv, SeedsPersist
<1> QED BY <1>1, <1>2, SeedStep, TypeAlways, PTL DEF Spec

-----------------------------------------------------------------------------
(* --iters: the runs of a base are what its stages have done so far.         *)

Spent == [det |-> 0, grow |-> Variants * MAX_INPUT, havoc |-> Variants * MAX_INPUT + Growth]

RunsInv ==
    /\ OvershootBounded
    /\ stage \in Stages => n <= StageBound[stage] /\ g_runs < MaxIters + Spent[stage] + n

LEMMA RunsArithmetic ==
    ASSUME NEW s \in Stages, NEW m \in Nat, NEW r \in Nat,
           m <= StageBound[s], r < MaxIters + Spent[s] + m
    PROVE  r < MaxIters + Variants * MAX_INPUT + Growth + MAX_MUT_PER_BASE
<1>1. PICK L \in Nat : L = Variants * MAX_INPUT
  BY ConstantFacts
<1>2. /\ MaxIters \in Nat /\ Growth \in Nat /\ MAX_MUT_PER_BASE \in Nat
  BY ConstantFacts
<1>3. CASE s = "det"
  <2>1. m <= L /\ r < MaxIters + 0 + m
    BY <1>1, <1>3 DEF StageBound, Spent
  <2> QED BY <1>1, <1>2, <2>1
<1>4. CASE s = "grow"
  <2>1. m <= Growth /\ r < MaxIters + L + m
    BY <1>1, <1>4 DEF StageBound, Spent
  <2> QED BY <1>1, <1>2, <2>1
<1>5. CASE s = "havoc"
  <2>1. m <= MAX_MUT_PER_BASE /\ r < MaxIters + (L + Growth) + m
    BY <1>1, <1>5 DEF StageBound, Spent
  <2> QED BY <1>1, <1>2, <2>1
<1> QED BY <1>3, <1>4, <1>5 DEF Stages

LEMMA RunsStep == TypeInv /\ RunsInv /\ [Next]_vars => RunsInv'
<1> SUFFICES ASSUME TypeInv, RunsInv, [Next]_vars PROVE RunsInv'
  OBVIOUS
<1>0. /\ n \in Nat /\ g_runs \in Nat /\ MaxIters \in Nat
      /\ Growth \in Nat /\ MAX_MUT_PER_BASE \in Nat /\ Variants * MAX_INPUT \in Nat
  BY ConstantFacts DEF TypeInv, TypeOK
<1>1. CASE UNCHANGED <<stage, n, g_runs>>
  BY <1>1 DEF RunsInv, OvershootBounded
<1>2. CASE Execution
  <2>1. stage \in Stages /\ stage' = stage /\ n' = n + 1 /\ n < StageBound[stage]
    BY <1>2, ExecutionFacts
  <2>2. g_runs' = g_runs + 1
    BY <1>2, ExecutionFacts DEF runOneAndHandle
  <2>3. StageBound[stage] \in Nat /\ Spent[stage] \in Nat
    BY <1>0, <2>1 DEF Stages, StageBound, Spent
  <2>4. n' \in Nat /\ g_runs' \in Nat /\ n' <= StageBound[stage] /\ g_runs' < MaxIters + Spent[stage] + n'
    BY <1>0, <2>1, <2>2, <2>3 DEF RunsInv
  <2>5. OvershootBounded'
    BY <2>1, <2>4, RunsArithmetic DEF OvershootBounded
  <2> QED BY <2>1, <2>4, <2>5 DEF RunsInv
<1>3. CASE NextBase
  <2>1. /\ stage' \in {"det", "havoc"} /\ n' = 0 /\ g_runs' = g_runs /\ g_runs < MaxIters
    BY <1>3 DEF NextBase, Locals
  <2>2. /\ StageBound[stage'] \in Nat /\ Spent[stage'] \in Nat /\ stage' \in Stages
    BY <1>0, <2>1 DEF Stages, StageBound, Spent
  <2>3. n' <= StageBound[stage'] /\ g_runs' < MaxIters + Spent[stage'] + n'
    BY <1>0, <2>1, <2>2
  <2> QED BY <2>1, <2>3 DEF RunsInv, OvershootBounded
<1>4. CASE StageEnds
  <2>1. n' = 0 /\ g_runs' = g_runs
    BY <1>4 DEF StageEnds, Locals
  <2>2. OvershootBounded'
    BY <2>1 DEF RunsInv, OvershootBounded
  <2>3. CASE stage = "det"
    <3>1. /\ stage' = "grow" /\ n <= Variants * MAX_INPUT /\ g_runs < MaxIters + 0 + n
      BY <1>4, <2>3 DEF StageEnds, Working, RunsInv, Stages, StageBound, Spent
    <3>2. 0 <= Growth /\ g_runs < MaxIters + Variants * MAX_INPUT + 0
      BY <1>0, <3>1
    <3> QED BY <2>1, <2>2, <3>1, <3>2 DEF RunsInv, StageBound, Spent
  <2>4. CASE stage = "grow"
    <3>1. /\ stage' = "havoc" /\ n <= Growth /\ g_runs < MaxIters + Variants * MAX_INPUT + n
      BY <1>4, <2>4 DEF StageEnds, Working, RunsInv, Stages, StageBound, Spent
    <3>2. 0 <= MAX_MUT_PER_BASE /\ g_runs < MaxIters + (Variants * MAX_INPUT + Growth) + 0
      BY <1>0, <3>1
    <3> QED BY <2>1, <2>2, <3>1, <3>2 DEF RunsInv, StageBound, Spent
  <2>5. CASE stage = "havoc"
    <3>1. stage' = "loop"
      BY <1>4, <2>5 DEF StageEnds, Working
    <3> QED BY <2>2, <3>1 DEF RunsInv, Stages
  <2> QED BY <1>4, <2>3, <2>4, <2>5 DEF StageEnds, Working
<1>5. CASE Load \/ Finish
  <2>1. stage' \notin Stages /\ g_runs' = g_runs
    BY <1>5 DEF Load, Finish, Locals, Stages
  <2> QED BY <2>1 DEF RunsInv, OvershootBounded
<1>6. ASSUME Minimizing \/ handleStop \/ OtherWorkerSaves \/ UNCHANGED vars
      PROVE  UNCHANGED <<stage, n, g_runs>>
  <2>1. Minimizing => UNCHANGED <<stage, n, g_runs>>
    BY DEF Minimizing, Reduce, EndPass, Minimized, MinimizerRest
  <2>2. handleStop \/ OtherWorkerSaves \/ UNCHANGED vars => UNCHANGED <<stage, n, g_runs>>
    BY DEF handleStop, OtherWorkerSaves, vars, process
  <2> QED BY <1>6, <2>1, <2>2
<1> QED BY <1>1, <1>2, <1>3, <1>4, <1>5, <1>6 DEF Next, Worker, Execution, Minimizing

(* The worker exceeds --iters by less than what it does with one seed, for   *)
(* every limit and every target: the test is at the head of the loop only.   *)
THEOREM OvershootSound == Spec => []OvershootBounded
<1>1. Init => RunsInv
  <2> SUFFICES ASSUME Init PROVE RunsInv
    OBVIOUS
  <2>1. Variants * MAX_INPUT \in Nat
    BY ConstantFacts
  <2>2. g_runs = 0 /\ stage \notin Stages
    BY DEF Init, Stages
  <2> QED BY <2>1, <2>2, ConstantFacts DEF RunsInv, OvershootBounded
<1>2. RunsInv => OvershootBounded
  BY DEF RunsInv
<1> QED BY <1>1, <1>2, RunsStep, TypeAlways, PTL DEF Spec

-----------------------------------------------------------------------------
(* The loop and the minimizer run out. *)

(* Each seed but the one at work has cost an execution. *)
LoopInv ==
    /\ SeedsBounded
    /\ stage = "start" => iter = 0
    /\ stage = "loop" /\ ~g_stop => iter <= g_runs
    /\ stage \in Stages /\ ~g_stop => iter <= g_runs + 1
    /\ stage = "havoc" /\ ~g_stop /\ n >= 1 => iter <= g_runs

LEMMA LoopStep == TypeInv /\ LoopInv /\ [Next]_vars => LoopInv'
<1> SUFFICES ASSUME TypeInv, LoopInv, [Next]_vars PROVE LoopInv'
  OBVIOUS
<1>0. /\ n \in Nat /\ g_runs \in Nat /\ iter \in Nat /\ MaxIters \in Nat
      /\ MAX_MUT_PER_BASE \in Nat /\ MAX_MUT_PER_BASE >= 1
  BY ConstantFacts DEF TypeInv, TypeOK
<1>1. CASE UNCHANGED <<stage, n, g_runs, iter>> /\ (g_stop => g_stop')
  BY <1>1 DEF LoopInv, SeedsBounded
<1>2. CASE Execution
  <2>1. /\ stage \in Stages /\ stage' = stage /\ n' = n + 1 /\ iter' = iter /\ g_stop' = g_stop
        /\ g_runs' = g_runs + 1
    BY <1>2, ExecutionFacts DEF runOneAndHandle, Rest
  <2>2. iter <= g_runs + 1 => iter' <= g_runs' /\ iter' <= g_runs' + 1
    BY <1>0, <2>1
  <2> QED BY <2>1, <2>2 DEF LoopInv, SeedsBounded, Stages
<1>3. CASE NextBase
  <2>1. /\ stage = "loop" /\ ~g_stop /\ g_runs < MaxIters /\ iter' = iter + 1
        /\ stage' \in {"det", "havoc"} /\ n' = 0 /\ g_runs' = g_runs
    BY <1>3 DEF NextBase, Working, Locals
  <2>2. iter <= g_runs
    BY <2>1 DEF LoopInv
  <2>3. iter' <= MaxIters /\ iter' <= g_runs' + 1 /\ ~(n' >= 1)
    BY <1>0, <2>1, <2>2
  <2> QED BY <2>1, <2>3 DEF LoopInv, SeedsBounded
<1>4. CASE StageEnds
  <2>1. n' = 0 /\ g_runs' = g_runs /\ iter' = iter /\ g_stop' = g_stop /\ ~(n' >= 1)
    BY <1>4 DEF StageEnds, Locals
  <2>2. CASE stage \in {"det", "grow"}
    <3>1. stage' \in {"grow", "havoc"}
      BY <1>4, <2>2 DEF StageEnds, Working
    <3> QED BY <2>1, <2>2, <3>1 DEF LoopInv, SeedsBounded, Stages
  <2>3. CASE stage = "havoc"
    <3>1. stage' = "loop" /\ (n = MAX_MUT_PER_BASE \/ g_stop)
      BY <1>4, <2>3 DEF StageEnds, Working
    <3>2. n >= 1 \/ g_stop
      BY <1>0, <3>1
    <3> QED BY <2>1, <2>3, <3>1, <3>2 DEF LoopInv, SeedsBounded, Stages
  <2> QED BY <1>4, <2>2, <2>3 DEF StageEnds, Working
<1>5. CASE Load
  <2>1. /\ stage = "start" /\ stage' = "loop" /\ g_runs' = g_runs /\ iter' = iter
    BY <1>5 DEF Load
  <2>2. iter' <= g_runs'
    BY <1>0, <2>1 DEF LoopInv
  <2> QED BY <2>1, <2>2 DEF LoopInv, SeedsBounded, Stages
<1>6. CASE Finish
  BY <1>6 DEF Finish, LoopInv, SeedsBounded, Stages
<1>7. ASSUME Minimizing \/ handleStop \/ OtherWorkerSaves \/ UNCHANGED vars
      PROVE  UNCHANGED <<stage, n, g_runs, iter>> /\ (g_stop => g_stop')
  <2>1. Minimizing => UNCHANGED <<stage, n, g_runs, iter>> /\ (g_stop => g_stop')
    <3>1. Minimizing => UNCHANGED <<stage, n, g_runs, iter>>
      BY DEF Minimizing, Reduce, EndPass, Minimized, MinimizerRest
    <3>2. Reduce \/ EndPass => g_stop' = g_stop
      BY DEF Reduce, EndPass
    <3>3. Minimized /\ g_stop => g_stop'
      BY Zenon DEF Minimized
    <3> QED BY <3>1, <3>2, <3>3 DEF Minimizing
  <2>2. handleStop \/ OtherWorkerSaves \/ UNCHANGED vars
           => UNCHANGED <<stage, n, g_runs, iter>> /\ (g_stop => g_stop')
    BY DEF handleStop, OtherWorkerSaves, vars, process
  <2> QED BY <1>7, <2>1, <2>2
<1> QED BY <1>1, <1>2, <1>3, <1>4, <1>5, <1>6, <1>7 DEF Next, Worker, Execution, Minimizing

(* The loop of lucis_fuzz_main takes up at most --iters seeds.               *)
THEOREM LoopSound == Spec => []SeedsBounded
<1>1. Init => LoopInv
  BY ConstantFacts DEF Init, LoopInv, SeedsBounded, Stages
<1>2. LoopInv => SeedsBounded
  BY DEF LoopInv
<1> QED BY <1>1, <1>2, LoopStep, TypeAlways, PTL DEF Spec

LEMMA MinimizingAdvances ==
    ASSUME TypeInv, Minimizing
    PROVE  min' = None \/ Nearer(min', min)
<1>1. min # None
  BY DEF Minimizing, Reduce, EndPass, Minimized
<1>2. min \in Passes
  BY <1>1 DEF TypeInv, TypeOK
<1>3. min.buf \in Inputs /\ min.step \in Nat /\ min.pos \in Nat /\ min.changed \in BOOLEAN
  BY <1>2 DEF Passes
<1>4. CASE Reduce
  <2>1. min.step >= 1 /\ min.pos < Len(min.buf)
    BY <1>4 DEF Reduce
  <2>2. /\ Chunk \in Nat /\ min.pos < Chunk /\ Without \in Inputs
        /\ Len(Without) < Len(min.buf)
    BY <1>1, <2>1, WithoutFacts
  <2>3. CASE min' = [min EXCEPT !.pos = Chunk]
    <3>1. min'.pos = Chunk
      BY <1>2, <2>3 DEF Passes
    <3> QED BY <2>2, <2>3, <3>1 DEF Nearer
  <2>4. CASE min' = [min EXCEPT !.buf = Without, !.changed = TRUE]
    <3>1. min'.buf = Without
      BY <1>2, <2>4 DEF Passes
    <3> QED BY <2>2, <3>1 DEF Nearer
  <2> QED BY <1>4, <2>3, <2>4 DEF Reduce
<1>5. CASE EndPass
  <2>1. min.step >= 1 /\ min' = [min EXCEPT !.pos = 0, !.changed = FALSE, !.step = NextStep]
    BY <1>5 DEF EndPass
  <2>2. min'.buf = min.buf /\ min'.step = NextStep /\ min'.changed = FALSE
    BY <1>2, <2>1 DEF Passes
  <2>3. CASE min.changed
    BY <2>2, <2>3 DEF Nearer, NextStep
  <2>4. CASE ~min.changed
    <3>1. NextStep = min.step \div 2
      BY <2>4 DEF NextStep
    <3>2. min.step \div 2 < min.step
      BY <1>3, <2>1
    <3> QED BY <2>2, <3>1, <3>2 DEF Nearer
  <2> QED BY <2>3, <2>4
<1>6. CASE Minimized
  BY <1>6 DEF Minimized
<1> QED BY <1>4, <1>5, <1>6 DEF Minimizing

(* Every step of the minimizer brings it nearer its end, in an order in      *)
(* which nothing descends forever, for every target and input.               *)
THEOREM MinimizerSound == Spec => MinimizerAdvances
<1>1. TypeInv /\ [Next]_vars => [ min # None => \/ min' = min \/ min' = None
                                               \/ Nearer(min', min) ]_vars
  <2> SUFFICES ASSUME TypeInv, Next, min # None
               PROVE  min' = min \/ min' = None \/ Nearer(min', min)
    OBVIOUS
  <2>1. CASE Minimizing
    BY <2>1, MinimizingAdvances
  <2>2. CASE Load
    BY <2>2 DEF Load
  <2>3. CASE NextBase \/ StageEnds \/ Finish \/ Execution
    BY <2>3 DEF NextBase, StageEnds, Finish, Execution, Deterministic, Grow, Mutate, Working
  <2>4. CASE handleStop \/ OtherWorkerSaves \/ UNCHANGED vars
    BY <2>4 DEF handleStop, OtherWorkerSaves, vars, process
  <2> QED BY <2>1, <2>2, <2>3, <2>4 DEF Next, Worker, Execution, Minimizing
<1> QED BY <1>1, TypeAlways, PTL DEF Spec, MinimizerAdvances

-----------------------------------------------------------------------------
(* Crashes of the mutation stage, where the input onExecDone is told of is   *)
(* the input that was run.                                                   *)

Dies(t, x, sig) == t[x].end = sig

(* No byte of 1 .. pos can be left out. *)
Tight(t, x, sig, pos) ==
    \A i \in 1 .. pos : Len(x) = 1 \/ ~Dies(t, RemoveAt(x, i), sig)

CrashInv ==
    crash # None /\ crash.by = "havoc" =>
        /\ Dies(target, crash.input, crash.sig)
        /\ min = None =>
              /\ Dies(target, crash.minimal, crash.sig)
              /\ unlucky \/ Tight(target, crash.minimal, crash.sig, Len(crash.minimal))
        /\ min # None =>
              /\ Dies(target, min.buf, crash.sig)
              /\ min.step = 1 /\ ~min.changed =>
                    unlucky \/ Tight(target, min.buf, crash.sig, min.pos)
              /\ min.step = 0 =>
                    unlucky \/ Tight(target, min.buf, crash.sig, Len(min.buf))

LEMMA TightFacts ==
    ASSUME NEW t, NEW x \in Inputs, NEW sig
    PROVE  /\ Tight(t, x, sig, 0)
           /\ Len(x) <= 1 => Tight(t, x, sig, Len(x))
           /\ \A p \in Nat : Tight(t, x, sig, p) /\ (Len(x) = 1 \/ ~Dies(t, RemoveAt(x, p + 1), sig))
                                => Tight(t, x, sig, p + 1)
<1>1. Len(x) \in Nat
  BY InputsAreSequences
<1>2. Tight(t, x, sig, 0)
  BY DEF Tight
<1>3. ASSUME Len(x) <= 1 PROVE Tight(t, x, sig, Len(x))
  <2>0. \A l \in Nat : l <= 1 => l = 0 \/ l = 1
    OBVIOUS
  <2>1. Len(x) = 0 \/ Len(x) = 1
    BY <1>1, <1>3, <2>0
  <2>2. CASE Len(x) = 0
    BY <1>2, <2>2, Zenon
  <2>3. CASE Len(x) = 1
    BY <2>3, Zenon DEF Tight
  <2> QED BY <2>1, <2>2, <2>3
<1>4. ASSUME NEW p \in Nat, Tight(t, x, sig, p), Len(x) = 1 \/ ~Dies(t, RemoveAt(x, p + 1), sig)
      PROVE  Tight(t, x, sig, p + 1)
  <2>1. \A i \in 1 .. p + 1 : i \in 1 .. p \/ i = p + 1
    OBVIOUS
  <2> QED BY <1>4, <2>1, Zenon DEF Tight
<1> QED BY <1>2, <1>3, <1>4

LEMMA CrashExecution ==
    ASSUME TypeInv, CrashInv, Execution
    PROVE  CrashInv'
<1>1. /\ stage \in Stages /\ min = None /\ target' = target
      /\ g_input' \in [1 .. MAX_INPUT -> Bytes] /\ g_inputLen' \in 0 .. MAX_INPUT
  BY ExecutionFacts DEF Rest
<1>2. PICK y \in Inputs : /\ runOneAndHandle(y)
                          /\ stage = "havoc" => Prefix(g_input', g_inputLen') = y
  BY ExecutionFacts
<1>3. PICK o \in runOne(Prefix(g_input', g_inputLen')) : onExecDone(y, o)
  BY <1>2 DEF runOneAndHandle
<1>4. CASE o.end \in Signals
  <2> DEFINE c == [input |-> y, sig |-> o.end, minimal |-> << >>, by |-> stage]
             m == [buf |-> y, step |-> Len(y) \div 2, pos |-> 0, changed |-> FALSE]
  <2>0. Len(y) \in Nat
    BY InputsAreSequences
  <2>1. crash' = c /\ min' = m
    BY <1>3, <1>4 DEF onExecDone
  <2>2. c.input = y /\ c.sig = o.end /\ c.by = stage
    OBVIOUS
  <2>3. m.buf = y /\ m.step = Len(y) \div 2 /\ m.pos = 0 /\ m \in Passes
    <3>1. Len(y) \div 2 \in Nat
      BY <2>0
    <3> QED BY <3>1 DEF Passes
  <2> HIDE DEF c, m
  <2>4. /\ crash'.input = y /\ crash'.sig = o.end /\ crash'.by = stage
        /\ min'.buf = y /\ min'.step = Len(y) \div 2 /\ min'.pos = 0 /\ min' # None
    BY <2>1, <2>2, <2>3, NotNone
  <2>5. ASSUME stage = "havoc" PROVE Dies(target', y, o.end)
    <3>1. o.end # "none"
      BY <1>4 DEF Signals
    <3>2. o = target[y]
      BY <1>2, <1>3, <2>5, <3>1 DEF runOne
    <3> QED BY <1>1, <3>2 DEF Dies
  <2>6. Tight(target', y, o.end, 0)
    BY TightFacts
  <2>7. Len(y) \div 2 = 0 => Tight(target', y, o.end, Len(y))
    <3>1. Len(y) \div 2 = 0 => Len(y) <= 1
      BY <2>0
    <3> QED BY <3>1, TightFacts
  <2> QED BY <2>4, <2>5, <2>6, <2>7 DEF CrashInv
<1>5. CASE o.end \notin Signals
  <2>1. UNCHANGED <<target, crash, min, unlucky>>
    BY <1>1, <1>3, <1>5 DEF onExecDone
  <2> QED BY <2>1 DEF CrashInv
<1> QED BY <1>4, <1>5

LEMMA CrashReduce ==
    ASSUME TypeInv, CrashInv, Reduce
    PROVE  CrashInv'
<1>1. /\ min # None /\ target' = target /\ crash' = crash
      /\ min.step >= 1 /\ min.pos < Len(min.buf)
  BY DEF Reduce, MinimizerRest
<1>2. min \in Passes /\ crash \in Crashes /\ crash # None
  BY <1>1 DEF TypeInv, TypeOK
<1>3. /\ min.buf \in Inputs /\ min.step \in Nat /\ min.pos \in Nat
      /\ crash.sig \in Signals /\ Len(min.buf) \in Nat
  <2>1. /\ min.buf \in Inputs /\ min.step \in Nat /\ min.pos \in Nat
        /\ crash.sig \in Signals
    BY <1>2 DEF Passes, Crashes
  <2> QED BY <2>1, InputsAreSequences
<1> SUFFICES ASSUME crash.by = "havoc" PROVE CrashInv'
  BY <1>1 DEF CrashInv
<1>4. /\ Dies(target, crash.input, crash.sig) /\ Dies(target, min.buf, crash.sig)
      /\ min.step = 1 /\ ~min.changed =>
            unlucky \/ Tight(target, min.buf, crash.sig, min.pos)
  BY <1>1, <1>2 DEF CrashInv
<1>5. /\ Chunk \in Nat /\ Without \in Inputs
      /\ min.step = 1 => /\ Chunk = min.pos + 1
                         /\ Without = RemoveAt(min.buf, min.pos + 1)
                         /\ Len(Without) = Len(min.buf) - 1
  BY <1>1, WithoutFacts
<1> DEFINE past == [min EXCEPT !.pos = Chunk]
           less == [min EXCEPT !.buf = Without, !.changed = TRUE]
<1>6. /\ past \in Passes /\ past.buf = min.buf /\ past.pos = Chunk /\ past.step = min.step
      /\ past.changed = min.changed
  BY <1>2, <1>5 DEF Passes
<1>7. /\ less \in Passes /\ less.buf = Without /\ less.step = min.step /\ less.changed = TRUE
  BY <1>2, <1>5 DEF Passes
<1>8. CASE Without = << >>
  <2>1. min' = past /\ unlucky' = unlucky
    BY <1>8 DEF Reduce
  <2> HIDE DEF past, less
  <2>2. ASSUME min.step = 1, ~min.changed
        PROVE  unlucky' \/ Tight(target, min.buf, crash.sig, Chunk)
    <3>1. Len(min.buf) = 1
      BY <1>3, <1>5, <1>8, <2>2
    <3>2. unlucky \/ Tight(target, min.buf, crash.sig, min.pos + 1)
      BY <1>3, <1>4, <2>2, <3>1, TightFacts
    <3> QED BY <1>5, <2>1, <2>2, <3>2
  <2>3. /\ min' # None /\ min'.buf = min.buf /\ min'.pos = Chunk /\ min'.step = min.step
        /\ min'.changed = min.changed /\ min'.step # 0
    BY <1>1, <1>3, <1>6, <2>1, NotNone
  <2> QED BY <1>1, <1>4, <2>2, <2>3 DEF CrashInv
<1>9. CASE Without # << >>
  <2>1. PICK o \in runOne(Without) :
          /\ unlucky' = (unlucky \/ o.end = "none")
          /\ min' = IF o.end = crash.sig THEN less ELSE past
    BY <1>9 DEF Reduce
  <2> HIDE DEF past, less
  <2>2. CASE o.end = crash.sig
    <3>1. o.end # "none"
      BY <1>3, <2>2 DEF Signals
    <3>2. Dies(target, Without, crash.sig)
      BY <2>1, <2>2, <3>1 DEF Dies, runOne
    <3>3. min' # None /\ min'.buf = Without /\ min'.changed = TRUE /\ min'.step # 0
      BY <1>1, <1>3, <1>7, <2>1, <2>2, NotNone
    <3> QED BY <1>1, <1>4, <3>2, <3>3 DEF CrashInv
  <2>3. CASE o.end # crash.sig
    <3>1. unlucky' \/ ~Dies(target, Without, crash.sig)
      <4>1. CASE o = target[Without]
        BY <2>3, <4>1 DEF Dies
      <4>2. CASE o = [end |-> "none", cov |-> {}]
        <5>1. o.end = "none"
          BY <4>2
        <5> QED BY <2>1, <5>1, Zenon
      <4> QED BY <2>1, <4>1, <4>2 DEF runOne
    <3>2. unlucky => unlucky'
      BY <2>1
    <3>3. ASSUME min.step = 1, ~min.changed
          PROVE  unlucky' \/ Tight(target, min.buf, crash.sig, Chunk)
      <4>1. ASSUME ~unlucky' PROVE Tight(target, min.buf, crash.sig, min.pos + 1)
        <5>1. Tight(target, min.buf, crash.sig, min.pos)
          BY <1>4, <3>2, <3>3, <4>1
        <5>2. ~Dies(target, RemoveAt(min.buf, min.pos + 1), crash.sig)
          BY <1>5, <3>1, <3>3, <4>1
        <5> QED BY <1>3, <5>1, <5>2, TightFacts
      <4> QED BY <1>5, <3>3, <4>1
    <3>4. /\ min' # None /\ min'.buf = min.buf /\ min'.pos = Chunk /\ min'.step = min.step
          /\ min'.changed = min.changed /\ min'.step # 0
      BY <1>1, <1>3, <1>6, <2>1, <2>3, NotNone
    <3> QED BY <1>1, <1>4, <3>3, <3>4 DEF CrashInv
  <2> QED BY <2>2, <2>3
<1> QED BY <1>8, <1>9

LEMMA CrashEndPass ==
    ASSUME TypeInv, CrashInv, EndPass
    PROVE  CrashInv'
<1>1. /\ min # None /\ target' = target /\ crash' = crash /\ unlucky' = unlucky
      /\ min.step >= 1 /\ min.pos >= Len(min.buf)
      /\ min' = [min EXCEPT !.pos = 0, !.changed = FALSE, !.step = NextStep]
  BY DEF EndPass, MinimizerRest
<1>2. min \in Passes /\ crash # None /\ min.pos <= Len(min.buf)
  BY <1>1 DEF TypeInv, TypeOK
<1>3. min.buf \in Inputs /\ min.step \in Nat /\ min.pos \in Nat /\ Len(min.buf) \in Nat
  <2>1. min.buf \in Inputs /\ min.step \in Nat /\ min.pos \in Nat
    BY <1>2 DEF Passes
  <2> QED BY <2>1, InputsAreSequences
<1>4. NextStep \in Nat
  BY <1>3 DEF NextStep
<1>5. min' \in Passes /\ min'.buf = min.buf /\ min'.pos = 0 /\ min'.step = NextStep
  BY <1>1, <1>2, <1>4 DEF Passes
<1> SUFFICES ASSUME crash.by = "havoc" PROVE CrashInv'
  BY <1>1 DEF CrashInv
<1>6. /\ Dies(target, crash.input, crash.sig) /\ Dies(target, min.buf, crash.sig)
      /\ min.step = 1 /\ ~min.changed =>
            unlucky \/ Tight(target, min.buf, crash.sig, min.pos)
  BY <1>1, <1>2 DEF CrashInv
<1>7. Tight(target, min.buf, crash.sig, 0)
  BY <1>3, TightFacts
<1>8. ASSUME NextStep = 0 PROVE unlucky \/ Tight(target, min.buf, crash.sig, Len(min.buf))
  <2>1. min.step = 1 /\ ~min.changed
    BY <1>1, <1>3, <1>8 DEF NextStep
  <2>2. min.pos = Len(min.buf)
    BY <1>1, <1>2, <1>3
  <2> QED BY <1>6, <2>1, <2>2
<1>9. min' # None
  BY <1>5, NotNone
<1> QED BY <1>1, <1>5, <1>6, <1>7, <1>8, <1>9, Zenon DEF CrashInv

LEMMA CrashMinimized ==
    ASSUME TypeInv, CrashInv, Minimized
    PROVE  CrashInv'
<1>1. /\ min # None /\ min' = None /\ target' = target /\ unlucky' = unlucky /\ min.step = 0
      /\ crash' = [crash EXCEPT !.minimal = min.buf]
  BY DEF Minimized, MinimizerRest
<1>2. crash \in Crashes /\ crash # None
  BY <1>1 DEF TypeInv, TypeOK
<1>3. /\ crash'.minimal = min.buf /\ crash'.sig = crash.sig
      /\ crash'.by = crash.by /\ crash'.input = crash.input
  BY <1>1, <1>2 DEF Crashes
<1> QED BY <1>1, <1>2, <1>3, Zenon DEF CrashInv

LEMMA CrashStep == TypeInv /\ CrashInv /\ [Next]_vars => CrashInv'
<1> SUFFICES ASSUME TypeInv, CrashInv, [Next]_vars PROVE CrashInv'
  OBVIOUS
<1>1. CASE UNCHANGED <<target, crash, min, unlucky>>
  BY <1>1 DEF CrashInv
<1>2. ASSUME \/ Load \/ NextBase \/ StageEnds \/ Finish
             \/ handleStop \/ OtherWorkerSaves \/ UNCHANGED vars
      PROVE  UNCHANGED <<target, crash, min, unlucky>>
  <2>1. Load \/ handleStop \/ OtherWorkerSaves \/ UNCHANGED vars => UNCHANGED <<target, crash, min, unlucky>>
    BY DEF Load, handleStop, OtherWorkerSaves, vars, process
  <2>2. NextBase \/ StageEnds \/ Finish => UNCHANGED <<target, crash, min, unlucky>>
    BY DEF NextBase, StageEnds, Finish, Locals
  <2> QED BY <1>2, <2>1, <2>2
<1> QED
  BY <1>1, <1>2, CrashExecution, CrashReduce, CrashEndPass, CrashMinimized
     DEF Next, Worker, Execution

(* Every crash of the mutation stage is reproduced by input.bin and by       *)
(* minimal.bin, and no byte of minimal.bin can be left out: minimize ends    *)
(* with a pass of one-byte chunks in which nothing was removed.              *)
THEOREM CrashesSound == Spec => []MutationCrashMinimal
<1>1. Init => CrashInv
  BY DEF Init, CrashInv
<1>2. TypeInv /\ CrashInv => MutationCrashMinimal
  <2> SUFFICES ASSUME TypeInv, CrashInv, crash # None, min = None, crash.by = "havoc"
               PROVE  /\ Dies(target, crash.input, crash.sig)
                      /\ Dies(target, crash.minimal, crash.sig)
                      /\ unlucky \/ \A i \in DOMAIN crash.minimal :
                            \/ Len(crash.minimal) = 1
                            \/ ~Dies(target, RemoveAt(crash.minimal, i), crash.sig)
    BY DEF MutationCrashMinimal, Dies
  <2>1. crash.minimal \in Seq(Bytes)
    <3>1. crash \in Crashes
      BY DEF TypeInv, TypeOK
    <3>2. crash.minimal \in Inputs
      BY <3>1 DEF Crashes
    <3> QED BY <3>2, InputsAreSequences
  <2>2. DOMAIN crash.minimal = 1 .. Len(crash.minimal)
    BY <2>1
  <2> QED BY <2>2, Zenon DEF CrashInv, Tight
<1> QED BY <1>1, <1>2, CrashStep, TypeAlways, PTL DEF Spec
=============================================================================
