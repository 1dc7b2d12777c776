----------------------- MODULE ExceptionHandlingProofs -----------------------
(***************************************************************************)
(* Proofs that the frame pool of error.c is sound under every nesting of     *)
(* try constructs and every way of leaving them, and that eh_stack mirrors    *)
(* the nesting until a construct is left by a jump.                          *)
(***************************************************************************)
EXTENDS ExceptionHandling, SequenceTheorems, TLAPS

(* The frames of the live constructs `a` are allocated, and pool frames grow *)
(* with the nesting: lucis_eh_free, which gives back the last pool slot      *)
(* whatever it is called with, then never gives back a live one.             *)
FramesLive(a, u, h) ==
    \A k \in 1 .. Len(a) :
        /\ a[k].frame \in PoolFrames => a[k].frame < u
        /\ a[k].frame \in HeapFrames => a[k].frame \in h

FramesOrdered(a) ==
    \A j, k \in 1 .. Len(a) :
        j < k => /\ a[j].frame # a[k].frame
                 /\ a[j].frame \in PoolFrames /\ a[k].frame \in PoolFrames
                        => a[j].frame < a[k].frame

(* The inductive invariant. *)
FrameInv ==
    /\ TypeOK
    /\ FramesLive(acts, used, heap)
    /\ FramesOrdered(acts)

-----------------------------------------------------------------------------
(* Every frame is a pool frame or a heap frame, and not both. *)
LEMMA FrameKinds ==
    ASSUME NEW f \in Frames
    PROVE  /\ f \in Int
           /\ f \in PoolFrames \/ f \in HeapFrames
           /\ ~(f \in PoolFrames /\ f \in HeapFrames)
           /\ f \in PoolFrames <=> f < PoolSize
           /\ f >= 0
BY EhAssumption DEF Frames, PoolFrames, HeapFrames

(* Constructs with the frames of a prefix keep the frame facts. *)
LEMMA PrefixFrames ==
    ASSUME NEW a \in Seq(Acts), NEW b \in Seq(Acts), NEW u, NEW h,
           Len(b) <= Len(a),
           \A i \in 1 .. Len(b) : b[i].frame = a[i].frame,
           FramesLive(a, u, h), FramesOrdered(a)
    PROVE  FramesLive(b, u, h) /\ FramesOrdered(b)
<1>1. Len(a) \in Nat /\ Len(b) \in Nat
  OBVIOUS
<1>2. \A i \in 1 .. Len(b) : i \in 1 .. Len(a)
  BY <1>1
<1>3. FramesLive(b, u, h)
  BY <1>2 DEF FramesLive
<1>4. FramesOrdered(b)
  BY <1>2 DEF FramesOrdered
<1> QED BY <1>3, <1>4

(* A prefix of the live constructs is a sequence of constructs. *)
LEMMA PrefixOfActs ==
    ASSUME NEW a \in Seq(Acts), NEW n \in 0 .. Len(a)
    PROVE  /\ SubSeq(a, 1, n) \in Seq(Acts)
           /\ Len(SubSeq(a, 1, n)) = n
           /\ \A i \in 1 .. n : SubSeq(a, 1, n)[i] = a[i]
<1>1. Len(a) \in Nat /\ n \in Nat /\ n <= Len(a)
  BY DEF Acts
<1>2. \A i \in 1 .. n : a[i] \in Acts
  BY <1>1, ElementOfSeq
<1> QED BY <1>1, <1>2, SubSeqProperties

(* Replacing a construct by one with the same frame keeps all frames. *)
LEMMA ReplaceKeepsFrames ==
    ASSUME NEW a \in Seq(Acts), NEW k \in 1 .. Len(a), NEW x \in Acts, x.frame = a[k].frame
    PROVE  /\ [a EXCEPT ![k] = x] \in Seq(Acts)
           /\ Len([a EXCEPT ![k] = x]) = Len(a)
           /\ \A i \in 1 .. Len(a) : [a EXCEPT ![k] = x][i].frame = a[i].frame
<1>1. /\ [a EXCEPT ![k] = x] \in Seq(Acts)
      /\ Len([a EXCEPT ![k] = x]) = Len(a)
      /\ \A i \in 1 .. Len(a) : [a EXCEPT ![k] = x][i] = IF i = k THEN x ELSE a[i]
  BY ExceptSeq
<1> QED BY <1>1

(* A change of phase keeps types and frames. *)
LEMMA PhaseKeepsFrames ==
    ASSUME NEW a \in Seq(Acts), NEW k \in 1 .. Len(a), NEW p \in Phases,
           NEW b, b = [a EXCEPT ![k].phase = p]
    PROVE  /\ b \in Seq(Acts) /\ Len(b) = Len(a)
           /\ \A i \in 1 .. Len(a) : b[i].frame = a[i].frame
<1> DEFINE x == [a[k] EXCEPT !.phase = p]
<1>1. a[k] \in Acts
  BY ElementOfSeq
<1>2. x \in Acts /\ x.frame = a[k].frame
  BY <1>1 DEF Acts
<1>3. b = [a EXCEPT ![k] = x]
  OBVIOUS
<1> HIDE DEF x
<1> QED BY <1>2, <1>3, ReplaceKeepsFrames

(* What longjmp leaves of the live constructs: those up to the k-th, landed. *)
Landed(a, k) == [SubSeq(a, 1, k) EXCEPT ![k].phase = "landed"]

(* Their frames are those of the constructs it came from. *)
LEMMA PrefixLands ==
    ASSUME NEW a \in Seq(Acts), NEW k \in 1 .. Len(a)
    PROVE  /\ Landed(a, k) \in Seq(Acts) /\ Len(Landed(a, k)) = k
           /\ \A i \in 1 .. k : Landed(a, k)[i].frame = a[i].frame
           /\ \A i \in 1 .. k - 1 : Landed(a, k)[i] = a[i]
           /\ Landed(a, k)[k] = [a[k] EXCEPT !.phase = "landed"]
<1> DEFINE c == SubSeq(a, 1, k)
           x == [a[k] EXCEPT !.phase = "landed"]
           b == Landed(a, k)
<1>1. k \in 0 .. Len(a) /\ k \in Nat /\ Len(a) \in Nat
  OBVIOUS
<1>2. c \in Seq(Acts) /\ Len(c) = k /\ \A i \in 1 .. k : c[i] = a[i]
  BY <1>1, PrefixOfActs
<1>3. k \in 1 .. Len(c) /\ c[k] = a[k]
  BY <1>1, <1>2
<1>4. a[k] \in Acts
  BY ElementOfSeq
<1>5. x \in Acts /\ x.frame = a[k].frame
  BY <1>4 DEF Acts, Phases
<1> HIDE DEF c
<1>6. b = [c EXCEPT ![k] = x]
  BY <1>3 DEF c, Landed
<1> HIDE DEF x, b
<1>7. /\ b \in Seq(Acts) /\ Len(b) = k
      /\ \A i \in 1 .. k : b[i] = IF i = k THEN x ELSE c[i]
  <2>1. \A e \in Acts : [c EXCEPT ![k] = e] \in Seq(Acts)
                         /\ Len([c EXCEPT ![k] = e]) = Len(c)
                         /\ \A i \in 1 .. Len(c) :
                                [c EXCEPT ![k] = e][i] = IF i = k THEN e ELSE c[i]
    BY <1>2, <1>3, ExceptSeq
  <2>2. /\ [c EXCEPT ![k] = x] \in Seq(Acts) /\ Len([c EXCEPT ![k] = x]) = Len(c)
        /\ \A i \in 1 .. Len(c) : [c EXCEPT ![k] = x][i] = IF i = k THEN x ELSE c[i]
    BY <1>5, <2>1
  <2> QED BY <1>2, <1>6, <2>2, Zenon
<1>8. \A i \in 1 .. k - 1 : b[i] = a[i]
  BY <1>1, <1>2, <1>7
<1>9. b[k] = x
  BY <1>1, <1>7
<1>10. \A i \in 1 .. k : b[i].frame = a[i].frame
  BY <1>2, <1>5, <1>7
<1> QED BY <1>7, <1>8, <1>9, <1>10 DEF x, b

-----------------------------------------------------------------------------
(* Leaving the innermost construct and freeing its frame keeps the rest's    *)
(* frames allocated.                                                         *)
LEMMA FreeInnermost ==
    ASSUME FrameInv, acts # << >>, Leave, Free(Innermost.frame)
    PROVE  /\ acts' \in Seq(Acts)
           /\ used' \in 0 .. PoolSize /\ heap' \in SUBSET HeapFrames
           /\ FramesLive(acts', used', heap') /\ FramesOrdered(acts')
<1> DEFINE n == Len(acts)
<1>1. /\ acts \in Seq(Acts) /\ n \in Nat /\ n >= 1 /\ acts[n] \in Acts
      /\ used \in 0 .. PoolSize /\ heap \in SUBSET HeapFrames
  <2>1. acts \in Seq(Acts) /\ used \in 0 .. PoolSize /\ heap \in SUBSET HeapFrames
    BY DEF FrameInv, TypeOK
  <2>2. n \in Nat /\ n >= 1
    BY <2>1, EmptySeq
  <2>3. acts[n] \in Acts
    BY <2>1, <2>2, ElementOfSeq
  <2> QED BY <2>1, <2>2, <2>3
<1>2. /\ acts' \in Seq(Acts) /\ Len(acts') = n - 1
      /\ \A i \in 1 .. n - 1 : acts'[i] = acts[i]
  <2>1. n - 1 \in 0 .. Len(acts) /\ acts' = SubSeq(acts, 1, n - 1)
    BY <1>1 DEF Leave
  <2> HIDE DEF n
  <2>2. \A m \in 0 .. Len(acts) :
            /\ SubSeq(acts, 1, m) \in Seq(Acts)
            /\ Len(SubSeq(acts, 1, m)) = m
            /\ \A i \in 1 .. m : SubSeq(acts, 1, m)[i] = acts[i]
    BY <1>1, PrefixOfActs
  <2> QED BY <2>1, <2>2, Zenon
<1>3. FramesLive(acts', used, heap) /\ FramesOrdered(acts')
  BY <1>1, <1>2, PrefixFrames DEF FrameInv
<1>4. \A i \in 1 .. n - 1 : acts[i].frame \in Frames
  <2> TAKE i \in 1 .. n - 1
  <2>1. acts[i] \in Acts
    BY <1>1, ElementOfSeq
  <2> QED BY <2>1 DEF Acts
<1>5. acts[n].frame \in Frames
  BY <1>1 DEF Acts
<1>6. \A i \in 1 .. n - 1 :
         /\ acts[i].frame # acts[n].frame
         /\ acts[i].frame \in PoolFrames /\ acts[n].frame \in PoolFrames
                => acts[i].frame < acts[n].frame
  BY <1>1 DEF FrameInv, FramesOrdered
<1>7. CASE acts[n].frame \in PoolFrames
  <2>1. used' = used - 1 /\ heap' = heap /\ acts[n].frame < used
    BY <1>1, <1>7 DEF Free, Innermost, FrameInv, FramesLive
  <2>2. acts[n].frame \in Int /\ acts[n].frame >= 0 /\ PoolSize \in Nat
    BY <1>5, FrameKinds, EhAssumption
  <2>3. used' \in 0 .. PoolSize
    BY <1>1, <2>1, <2>2
  <2>4. \A i \in 1 .. n - 1 : acts[i].frame \in PoolFrames => acts[i].frame < used'
    BY <1>1, <1>4, <1>6, <1>7, <2>1, <2>2, FrameKinds
  <2>5. FramesLive(acts', used', heap')
    BY <1>1, <1>2, <1>3, <2>1, <2>4 DEF FramesLive
  <2> QED BY <1>1, <1>2, <1>3, <2>1, <2>3, <2>5
<1>8. CASE acts[n].frame \notin PoolFrames
  <2>1. used' = used /\ heap' = heap \ {acts[n].frame}
    BY <1>8 DEF Free, Innermost
  <2>2. FramesLive(acts', used', heap')
    BY <1>1, <1>2, <1>3, <1>6, <2>1 DEF FramesLive
  <2> QED BY <1>1, <1>2, <1>3, <2>1, <2>2
<1> QED BY <1>7, <1>8

(* The initial state. *)
LEMMA FrameInit == Init => FrameInv
BY EhAssumption DEF Init, FrameInv, TypeOK, FramesLive, FramesOrdered, Frames, Errors, NULL

(* lucis_eh_alloc hands out a frame no live construct has. *)
LEMMA EnterKeeps ==
    ASSUME FrameInv, slips' \subseteq {"escape", "rethrow"}, NEW s \in BOOLEAN, NEW c \in SUBSET Types, NEW f \in Frames,
           EnterTry(s, c, f)
    PROVE  FrameInv'
<1> DEFINE new == [id |-> entered + 1, frame |-> f, isStmt |-> s,
                   clauses |-> c, phase |-> "try", err |-> NoType]
           n == Len(acts)
<1>1. /\ acts \in Seq(Acts) /\ n \in Nat
      /\ used \in 0 .. PoolSize /\ heap \in SUBSET HeapFrames
      /\ PoolSize \in Nat /\ MaxTries \in Nat /\ entered \in 0 .. MaxTries
  BY EhAssumption DEF FrameInv, TypeOK
<1>2. new \in Acts
  BY <1>1 DEF Acts, Phases, Errors
<1>3. /\ acts' \in Seq(Acts) /\ Len(acts') = n + 1
      /\ \A i \in 1 .. n : acts'[i] = acts[i]
      /\ acts'[n + 1] = new
  BY <1>1, <1>2, AppendProperties DEF EnterTry
<1>4. \A i \in 1 .. n : acts[i].frame \in Frames
  <2> TAKE i \in 1 .. n
  <2>1. acts[i] \in Acts
    BY <1>1, ElementOfSeq
  <2> QED BY <2>1 DEF Acts
<1>5. FramesLive(acts, used, heap) /\ FramesOrdered(acts)
  BY DEF FrameInv
<1>6. /\ IF used < PoolSize THEN f = used ELSE f \in HeapFrames \ heap
      /\ IF f \in PoolFrames THEN used' = used + 1 /\ heap' = heap
                             ELSE heap' = heap \cup {f} /\ used' = used
  BY DEF EnterTry, MayAlloc, Alloc
<1>7. /\ used' \in 0 .. PoolSize /\ heap' \in SUBSET HeapFrames
      /\ used <= used' /\ heap \subseteq heap'
      /\ f \in PoolFrames => f = used /\ f < used'
      /\ f \in HeapFrames => f \in heap' /\ f \notin heap
  BY <1>1, <1>6, FrameKinds
<1>8. FramesLive(acts', used', heap')
  <2> SUFFICES ASSUME NEW k \in 1 .. Len(acts')
               PROVE  /\ acts'[k].frame \in PoolFrames => acts'[k].frame < used'
                      /\ acts'[k].frame \in HeapFrames => acts'[k].frame \in heap'
    BY DEF FramesLive
  <2>1. CASE k = n + 1
    BY <1>3, <1>7, <2>1
  <2>2. CASE k \in 1 .. n
    <3>1. acts'[k] = acts[k] /\ acts[k].frame \in Int
      BY <1>3, <1>4, <2>2, FrameKinds
    <3>2. /\ acts[k].frame \in PoolFrames => acts[k].frame < used
          /\ acts[k].frame \in HeapFrames => acts[k].frame \in heap
      BY <1>5, <2>2 DEF FramesLive
    <3> QED BY <1>1, <1>7, <3>1, <3>2
  <2> QED BY <1>1, <1>3, <2>1, <2>2
<1>9. FramesOrdered(acts')
  <2> SUFFICES ASSUME NEW j \in 1 .. Len(acts'), NEW k \in 1 .. Len(acts'), j < k
               PROVE  /\ acts'[j].frame # acts'[k].frame
                      /\ acts'[j].frame \in PoolFrames /\ acts'[k].frame \in PoolFrames
                            => acts'[j].frame < acts'[k].frame
    BY DEF FramesOrdered
  <2>0. j \in 1 .. n /\ acts'[j] = acts[j] /\ acts[j].frame \in Frames
    BY <1>1, <1>3, <1>4
  <2>1. CASE k = n + 1
    <3>1. /\ acts[j].frame \in PoolFrames => acts[j].frame < used
          /\ acts[j].frame \in HeapFrames => acts[j].frame \in heap
      BY <1>5, <2>0 DEF FramesLive
    <3>2. acts'[k].frame = f
      BY <1>3, <2>1
    <3> QED BY <1>1, <1>7, <2>0, <3>1, <3>2, FrameKinds
  <2>2. CASE k \in 1 .. n
    BY <1>3, <1>5, <2>0, <2>2 DEF FramesOrdered
  <2> QED BY <1>1, <1>3, <2>1, <2>2
<1>10. TypeOK'
  <2>1. /\ entered' = entered + 1 /\ entered < MaxTries
        /\ top' = f
        /\ prev' = [prev EXCEPT ![f] = top]
        /\ error' = [error EXCEPT ![f] = NoType]
        /\ buf' = [buf EXCEPT ![f] = entered + 1]
        /\ outcome' = outcome
    BY DEF EnterTry
  <2> QED BY <1>1, <1>3, <1>7, <2>1 DEF FrameInv, TypeOK, Errors
<1> QED BY <1>8, <1>9, <1>10 DEF FrameInv

(* A step that keeps the pool and at most drops inner constructs or changes   *)
(* their phase keeps the frame facts.                                        *)
LEMMA SamePool ==
    ASSUME FrameInv, TypeOK', UNCHANGED pool, Len(acts') <= Len(acts),
           \A i \in 1 .. Len(acts') : acts'[i].frame = acts[i].frame
    PROVE  FrameInv'
<1>1. acts \in Seq(Acts) /\ acts' \in Seq(Acts)
  BY DEF FrameInv, TypeOK
<1>2. used' = used /\ heap' = heap
  BY DEF pool
<1>3. FramesLive(acts', used, heap) /\ FramesOrdered(acts')
  BY <1>1, PrefixFrames DEF FrameInv
<1> QED BY <1>2, <1>3 DEF FrameInv

(* A change of phase keeps types and frames. *)
LEMMA PhaseChange ==
    ASSUME FrameInv, acts # << >>, NEW p \in Phases, SetPhase(p)
    PROVE  /\ acts' \in Seq(Acts) /\ Len(acts') <= Len(acts)
           /\ \A i \in 1 .. Len(acts') : acts'[i].frame = acts[i].frame
<1>1. acts \in Seq(Acts) /\ Len(acts) \in 1 .. Len(acts)
  BY EmptySeq DEF FrameInv, TypeOK
<1>3. acts' = [acts EXCEPT ![Len(acts)].phase = p]
  BY DEF SetPhase
<1>4. /\ acts' \in Seq(Acts) /\ Len(acts') = Len(acts)
      /\ \A i \in 1 .. Len(acts) : acts'[i].frame = acts[i].frame
  BY <1>1, <1>3, PhaseKeepsFrames
<1> QED BY <1>1, <1>4

(* The frame of the innermost construct is one of the frames. *)
LEMMA InnermostFrame ==
    ASSUME TypeOK, acts # << >>
    PROVE  /\ Len(acts) \in 1 .. Len(acts)
           /\ Innermost \in Acts
           /\ Innermost.frame \in Frames /\ Innermost.err \in Errors
<1>1. acts \in Seq(Acts) /\ Len(acts) \in 1 .. Len(acts)
  BY EmptySeq DEF TypeOK
<1>2. Innermost \in Acts
  BY <1>1, ElementOfSeq DEF Innermost
<1> QED BY <1>1, <1>2 DEF Acts

(* lucis_eh_pop leaves a frame or nothing on top. *)
LEMMA PopType ==
    ASSUME TypeOK, Pop
    PROVE  top' \in Frames \cup {NULL}
BY DEF TypeOK, Pop

(* lucis_eh_throw: whatever it lands in, the frame facts hold. *)
LEMMA RaiseKeeps ==
    ASSUME FrameInv, slips' \subseteq {"escape", "rethrow"}, NEW e \in Errors, Raise(e)
    PROVE  FrameInv'
<1>1. CASE outcome' \in {"unhandled", "wild"} /\ UNCHANGED <<acts, entered, ehVars, pool>>
  <2>1. TypeOK'
    BY <1>1 DEF FrameInv, TypeOK, ehVars, pool
  <2> QED BY <1>1, <2>1, SamePool DEF FrameInv, TypeOK
<1>2. CASE \E k \in 1 .. Len(acts) :
              /\ top # NULL /\ acts[k].id = buf[top]
              /\ error' = [error EXCEPT ![top] = e]
              /\ acts' = [SubSeq(acts, 1, k) EXCEPT ![k].phase = "landed"]
              /\ UNCHANGED <<entered, top, prev, buf, pool, outcome>>
  <2>1. PICK k \in 1 .. Len(acts) :
              /\ error' = [error EXCEPT ![top] = e]
              /\ acts' = [SubSeq(acts, 1, k) EXCEPT ![k].phase = "landed"]
              /\ UNCHANGED <<entered, top, prev, buf, pool, outcome>>
    BY <1>2
  <2>2. acts \in Seq(Acts) /\ Len(acts) \in Nat
    BY DEF FrameInv, TypeOK
  <2>4. /\ acts' \in Seq(Acts) /\ Len(acts') = k
        /\ \A i \in 1 .. k : acts'[i].frame = acts[i].frame
    <3>1. acts' = Landed(acts, k)
      BY <2>1 DEF Landed
    <3>2. /\ Landed(acts, k) \in Seq(Acts) /\ Len(Landed(acts, k)) = k
          /\ \A i \in 1 .. k : Landed(acts, k)[i].frame = acts[i].frame
      BY <2>2, PrefixLands
    <3> QED BY <3>1, <3>2, Zenon
  <2>5. TypeOK'
    <3>1. error' \in [Frames -> Errors]
      BY <2>1 DEF FrameInv, TypeOK
    <3> QED BY <2>1, <2>4, <3>1 DEF FrameInv, TypeOK, pool
  <2>6. \A i \in 1 .. Len(acts') : acts'[i].frame = acts[i].frame
    BY <2>4
  <2> QED BY <2>1, <2>2, <2>4, <2>5, <2>6, SamePool
<1> QED BY <1>1, <1>2 DEF Raise

(* The actions that leave the innermost construct and free its frame. *)
LEMMA LeaveKeeps ==
    ASSUME FrameInv, slips' \subseteq {"escape", "rethrow"}, acts # << >>, Leave, Free(Innermost.frame),
           top' \in Frames \cup {NULL}, UNCHANGED <<entered, prev, buf, error, outcome>>
    PROVE  FrameInv'
<1>1. /\ acts' \in Seq(Acts)
      /\ used' \in 0 .. PoolSize /\ heap' \in SUBSET HeapFrames
      /\ FramesLive(acts', used', heap') /\ FramesOrdered(acts')
  BY FreeInnermost
<1>2. TypeOK'
  BY <1>1 DEF FrameInv, TypeOK
<1> QED BY <1>1, <1>2 DEF FrameInv

(* The actions that only move the innermost construct to another phase. *)
LEMMA PhaseKeeps ==
    ASSUME FrameInv, slips' \subseteq {"escape", "rethrow"}, acts # << >>, NEW p \in Phases, SetPhase(p),
           top' \in Frames \cup {NULL}, prev' \in [Frames -> Frames \cup {NULL}],
           error' \in [Frames -> Errors],
           UNCHANGED <<entered, buf, pool, outcome>>
    PROVE  FrameInv'
<1>1. /\ acts' \in Seq(Acts) /\ Len(acts') <= Len(acts)
      /\ \A i \in 1 .. Len(acts') : acts'[i].frame = acts[i].frame
  BY PhaseChange
<1>2. TypeOK'
  BY <1>1 DEF FrameInv, TypeOK, pool
<1> QED BY <1>1, <1>2, SamePool

-----------------------------------------------------------------------------
(* The inductive step: one case per action.  `slips` is only a history. *)
LEMMA FrameStep ==
    ASSUME FrameInv, slips' \subseteq {"escape", "rethrow"},
           Orderly \/ Escape \/ Rethrow \/ UNCHANGED <<acts, entered, ehVars, pool, outcome>>
    PROVE  FrameInv'
<1>0. TypeOK /\ \A p \in {"try", "landed", "dispatch", "catch", "finally"} : p \in Phases
  BY DEF FrameInv, Phases
<1>1. CASE Enter
  <2>1. PICK f \in Frames :
           (\E c \in Clauses : EnterTry(TRUE, c, f)) \/ EnterTry(FALSE, {}, f)
    BY <1>1 DEF Enter
  <2>2. CASE \E c \in Clauses : EnterTry(TRUE, c, f)
    <3>1. PICK c \in Clauses : EnterTry(TRUE, c, f)
      BY <2>2
    <3>2. c \in SUBSET Types
      BY EhAssumption
    <3> QED BY <3>1, <3>2, EnterKeeps
  <2>3. CASE EnterTry(FALSE, {}, f)
    BY <2>3, EnterKeeps
  <2> QED BY <2>1, <2>2, <2>3
<1>2. CASE TryCompletes
  <2>1. acts # << >> /\ Pop /\ SetPhase("finally")
        /\ UNCHANGED <<entered, prev, buf, error, pool, outcome>>
    BY <1>2 DEF TryCompletes, At
  <2> QED BY <1>0, <2>1, PopType, PhaseKeeps DEF TypeOK
<1>3. CASE TryExprCompletes
  <2>1. acts # << >> /\ Pop /\ Free(Innermost.frame) /\ Leave
        /\ UNCHANGED <<entered, prev, buf, error, outcome>>
    BY <1>3 DEF TryExprCompletes, At
  <2> QED BY <1>0, <2>1, PopType, LeaveKeeps
<1>4. CASE Throw
  BY <1>4, RaiseKeeps DEF Throw, Errors
<1>5. CASE DivideByZero
  BY <1>5, RaiseKeeps DEF DivideByZero, Errors
<1>6. CASE Land
  <2> DEFINE x == [Innermost EXCEPT !.phase = "dispatch", !.err = error[Innermost.frame]]
  <2>1. /\ acts # << >> /\ Pop
        /\ acts' = [acts EXCEPT ![Len(acts)] = x]
        /\ UNCHANGED <<entered, prev, buf, error, pool, outcome>>
    BY <1>6 DEF Land, At, Innermost
  <2>2. error[Innermost.frame] \in Errors
    BY <1>0, <2>1, InnermostFrame DEF TypeOK
  <2>3. acts \in Seq(Acts) /\ Len(acts) \in 1 .. Len(acts)
    BY <1>0, <2>1, InnermostFrame DEF TypeOK
  <2>4. x \in Acts /\ x.frame = acts[Len(acts)].frame
    <3>1. Innermost \in Acts /\ "dispatch" \in Phases
      BY <1>0, <2>1, InnermostFrame
    <3> QED BY <2>2, <3>1 DEF Acts, Innermost
  <2>5. /\ acts' \in Seq(Acts) /\ Len(acts') = Len(acts)
        /\ \A i \in 1 .. Len(acts) : acts'[i].frame = acts[i].frame
    <3> HIDE DEF x
    <3> QED BY <2>1, <2>3, <2>4, ReplaceKeepsFrames
  <2>6. TypeOK'
    BY <1>0, <2>1, <2>5, PopType DEF TypeOK, pool
  <2> QED BY <2>1, <2>3, <2>5, <2>6, SamePool
<1>7. CASE LandInExpr
  <2>1. acts # << >> /\ Pop /\ Free(Innermost.frame) /\ Leave
        /\ UNCHANGED <<entered, prev, buf, error, outcome>>
    BY <1>7 DEF LandInExpr, At
  <2> QED BY <1>0, <2>1, PopType, LeaveKeeps
<1>8. CASE CatchMatches
  <2>1. acts # << >> /\ SetPhase("catch") /\ UNCHANGED <<entered, ehVars, pool, outcome>>
    BY <1>8 DEF CatchMatches, At
  <2> QED BY <1>0, <2>1, PhaseKeeps DEF TypeOK, ehVars
<1>9. CASE Rethrow
  <2>1. /\ acts # << >> /\ SetPhase("landed")
        /\ top' = Innermost.frame
        /\ prev' = [prev EXCEPT ![Innermost.frame] = top]
        /\ error' = [error EXCEPT ![Innermost.frame] = Innermost.err]
        /\ UNCHANGED <<entered, buf, pool, outcome>>
    BY <1>9 DEF Rethrow, At
  <2>2. Innermost.frame \in Frames /\ Innermost.err \in Errors
    BY <1>0, <2>1, InnermostFrame
  <2>3. /\ top' \in Frames \cup {NULL}
        /\ prev' \in [Frames -> Frames \cup {NULL}]
        /\ error' \in [Frames -> Errors]
    BY <1>0, <2>1, <2>2 DEF TypeOK
  <2> QED BY <1>0, <2>1, <2>3, PhaseKeeps
<1>10. CASE CatchCompletes
  <2>1. acts # << >> /\ SetPhase("finally") /\ UNCHANGED <<entered, ehVars, pool, outcome>>
    BY <1>10 DEF CatchCompletes, At
  <2> QED BY <1>0, <2>1, PhaseKeeps DEF TypeOK, ehVars
<1>11. CASE FinallyCompletes
  <2>1. acts # << >> /\ Free(Innermost.frame) /\ Leave
        /\ UNCHANGED <<entered, ehVars, outcome>>
    BY <1>11 DEF FinallyCompletes, At
  <2> QED BY <1>0, <2>1, LeaveKeeps DEF TypeOK, ehVars
<1>12. CASE Escape
  <2>1. PICK n \in 1 .. Len(acts) : acts' = SubSeq(acts, 1, Len(acts) - n)
    BY <1>12 DEF Escape
  <2>2. UNCHANGED <<entered, ehVars, pool, outcome>>
    BY <1>12 DEF Escape
  <2>3. acts \in Seq(Acts) /\ Len(acts) - n \in 0 .. Len(acts)
    BY <1>0 DEF TypeOK
  <2>4. \A m \in 0 .. Len(acts) :
            /\ SubSeq(acts, 1, m) \in Seq(Acts)
            /\ Len(SubSeq(acts, 1, m)) = m
            /\ \A i \in 1 .. m : SubSeq(acts, 1, m)[i] = acts[i]
    BY <2>3, PrefixOfActs
  <2>5. /\ acts' \in Seq(Acts) /\ Len(acts') = Len(acts) - n
        /\ \A i \in 1 .. Len(acts) - n : acts'[i] = acts[i]
    BY <2>1, <2>3, <2>4, Zenon
  <2>6. TypeOK'
    BY <1>0, <2>2, <2>5 DEF TypeOK, ehVars, pool
  <2>7. Len(acts') <= Len(acts) /\ \A i \in 1 .. Len(acts') : acts'[i].frame = acts[i].frame
    BY <2>3, <2>5
  <2> QED BY <2>2, <2>6, <2>7, SamePool
<1>13. CASE ProgramEnds
  <2>1. TypeOK'
    BY <1>0, <1>13 DEF ProgramEnds, TypeOK, ehVars, pool
  <2> QED BY <1>0, <1>13, <2>1, SamePool DEF ProgramEnds, TypeOK
<1>14. CASE UNCHANGED <<acts, entered, ehVars, pool, outcome>>
  <2>1. TypeOK'
    BY <1>0, <1>14 DEF TypeOK, ehVars, pool
  <2> QED BY <1>0, <1>14, <2>1, SamePool DEF TypeOK
<1> QED BY <1>1, <1>2, <1>3, <1>4, <1>5, <1>6, <1>7, <1>8, <1>9, <1>10, <1>11,
           <1>12, <1>13, <1>14 DEF Orderly

(* Every step of the specification is one of those. *)
LEMMA FrameNext == FrameInv /\ [Next]_vars => FrameInv'
<1> SUFFICES ASSUME FrameInv, [Next]_vars PROVE FrameInv'
  OBVIOUS
<1>1. slips \subseteq {"escape", "rethrow"}
  BY DEF FrameInv, TypeOK
<1>2. /\ slips' \subseteq {"escape", "rethrow"}
      /\ Orderly \/ Escape \/ Rethrow \/ UNCHANGED <<acts, entered, ehVars, pool, outcome>>
  BY <1>1 DEF Next, Runs, Terminated, vars
<1> QED BY <1>2, FrameStep

(* The frame facts give the property: order gives distinct frames, and an     *)
(* allocated frame is not what lucis_eh_alloc returns.                       *)
LEMMA FrameInvDisjoint == FrameInv => FramesDisjoint
<1> SUFFICES ASSUME FrameInv PROVE FramesDisjoint
  OBVIOUS
<1>1. /\ acts \in Seq(Acts) /\ used \in 0 .. PoolSize /\ heap \in SUBSET HeapFrames
      /\ PoolSize \in Nat
  BY EhAssumption DEF FrameInv, TypeOK
<1>2. \A k \in 1 .. Len(acts) : acts[k].frame \in Frames
  <2> TAKE k \in 1 .. Len(acts)
  <2>1. acts[k] \in Acts
    BY <1>1, ElementOfSeq
  <2> QED BY <2>1 DEF Acts
<1>3. \A j, k \in 1 .. Len(acts) : acts[j].frame = acts[k].frame => j = k
  <2> TAKE j, k \in 1 .. Len(acts)
  <2>1. j < k \/ k < j \/ j = k
    OBVIOUS
  <2> QED BY <2>1 DEF FrameInv, FramesOrdered
<1>4. \A k \in 1 .. Len(acts) : ~MayAlloc(acts[k].frame)
  <2> TAKE k \in 1 .. Len(acts)
  <2>1. /\ acts[k].frame \in PoolFrames => acts[k].frame < used
        /\ acts[k].frame \in HeapFrames => acts[k].frame \in heap
    BY DEF FrameInv, FramesLive
  <2>2. CASE used < PoolSize
    BY <1>1, <1>2, <2>1, <2>2, FrameKinds DEF MayAlloc
  <2>3. CASE ~(used < PoolSize)
    BY <2>1, <2>3 DEF MayAlloc
  <2> QED BY <2>2, <2>3
<1> QED BY <1>3, <1>4 DEF FramesDisjoint

(* eh_pool_used stays within the pool and every structure keeps its type, for *)
(* every pool size, class hierarchy and program.                             *)
THEOREM EhTypeCorrect == Spec => []TypeOK
<1>1. Init => FrameInv
  BY FrameInit
<1>2. FrameInv /\ [Next]_vars => FrameInv'
  BY FrameNext
<1>3. FrameInv => TypeOK
  BY DEF FrameInv
<1> QED BY <1>1, <1>2, <1>3, PTL DEF Spec

(* lucis_eh_alloc never hands out the frame of a live try construct, and no   *)
(* two live constructs share one, however constructs are left.               *)
THEOREM PoolSound == Spec => []FramesDisjoint
<1>1. Init => FrameInv
  BY FrameInit
<1>2. FrameInv /\ [Next]_vars => FrameInv'
  BY FrameNext
<1>3. FrameInv => FramesDisjoint
  BY FrameInvDisjoint
<1> QED BY <1>1, <1>2, <1>3, PTL DEF Spec

-----------------------------------------------------------------------------
(* The handler stack mirrors the nesting.                                    *)

(* Every pushed construct among the first m of s has a frame that links to   *)
(* the handler below it and resumes the construct.                           *)
Linked(s, p, b, m) ==
    \A k \in 1 .. m : Pushed(s[k]) =>
        /\ HandlerBelow(s, p[s[k].frame], k)
        /\ b[s[k].frame] = s[k].id

(* setjmp's constructs are told apart by their number. *)
Numbered(s, n) ==
    /\ \A k \in 1 .. Len(s) : s[k].id \in 1 .. n
    /\ \A j, k \in 1 .. Len(s) : s[j].id = s[k].id => j = k

(* Only the innermost construct is landing or dispatching. *)
Settled(s) == \A k \in 1 .. Len(s) - 1 : s[k].phase \in {"try", "catch", "finally"}

(* Every live construct's frame resumes it, pushed or not. *)
Resumes(s, b) == \A k \in 1 .. Len(s) : b[s[k].frame] = s[k].id

(* The inductive invariant. *)
MirrorInv ==
    /\ FrameInv
    /\ Numbered(acts, entered) /\ Settled(acts) /\ Resumes(acts, buf)
    /\ StackMirrorsNesting

(* The first m constructs are the same in s and r. *)
Alike(s, r, m) == \A i \in 1 .. m : r[i] = s[i]

(* What is below the k-th construct depends on the first k - 1 only. *)
LEMMA BelowAlike ==
    ASSUME NEW s, NEW r, NEW m \in Nat, Alike(s, r, m), NEW k \in 1 .. m + 1, NEW f
    PROVE  HandlerBelow(s, f, k) <=> HandlerBelow(r, f, k)
<1>1. \A j \in 1 .. k - 1 : j \in 1 .. m /\ r[j] = s[j]
  BY DEF Alike
<1>2. \A j \in 1 .. k - 1 : \A i \in j + 1 .. k - 1 : i \in 1 .. k - 1
  OBVIOUS
<1> HIDE DEF Pushed
<1> QED BY <1>1, <1>2 DEF HandlerBelow

LEMMA LinkedAlike ==
    ASSUME NEW s, NEW r, NEW m \in Nat, NEW n \in Nat, m <= n, Alike(s, r, m),
           NEW p, NEW b, NEW p2, NEW b2, Linked(s, p, b, n),
           \A i \in 1 .. m : p2[s[i].frame] = p[s[i].frame] /\ b2[s[i].frame] = b[s[i].frame]
    PROVE  Linked(r, p2, b2, m)
<1> SUFFICES ASSUME NEW k \in 1 .. m, Pushed(r[k])
             PROVE  HandlerBelow(r, p2[r[k].frame], k) /\ b2[r[k].frame] = r[k].id
  BY DEF Linked
<1>1. r[k] = s[k] /\ k \in 1 .. n /\ k \in 1 .. m + 1
  BY DEF Alike
<1>2. HandlerBelow(s, p[s[k].frame], k) /\ b[s[k].frame] = s[k].id
  BY <1>1 DEF Linked
<1>3. HandlerBelow(r, p[s[k].frame], k)
  BY <1>1, <1>2, BelowAlike
<1> QED BY <1>1, <1>2, <1>3

(* The handler below a place just above a construct with, or without, one. *)
LEMMA AbovePushed ==
    ASSUME NEW s, NEW n \in Nat \ {0}, NEW f, Pushed(s[n])
    PROVE  HandlerBelow(s, f, n + 1) <=> f = s[n].frame
<1>1. n \in 1 .. (n + 1) - 1 /\ \A i \in n + 1 .. (n + 1) - 1 : FALSE
  OBVIOUS
<1>2. \A j \in 1 .. (n + 1) - 1 : j = n \/ n \in j + 1 .. (n + 1) - 1
  OBVIOUS
<1> QED BY <1>1, <1>2 DEF HandlerBelow

LEMMA AboveUnpushed ==
    ASSUME NEW s, NEW n \in Nat \ {0}, NEW f, ~Pushed(s[n])
    PROVE  HandlerBelow(s, f, n + 1) <=> HandlerBelow(s, f, n)
<1>1. 1 .. (n + 1) - 1 = (1 .. n - 1) \cup {n}
  OBVIOUS
<1>2. \A j \in 1 .. n - 1 : j + 1 .. (n + 1) - 1 = (j + 1 .. n - 1) \cup {n}
  OBVIOUS
<1> HIDE DEF Pushed
<1> QED BY <1>1, <1>2 DEF HandlerBelow

Mirrors(s, t, p, b) == HandlerBelow(s, t, Len(s) + 1) /\ Linked(s, p, b, Len(s))

LEMMA MirrorsIsNesting ==
    ASSUME MirrorInv, outcome = "running", "escape" \notin slips
    PROVE  Mirrors(acts, top, prev, buf)
BY DEF MirrorInv, StackMirrorsNesting, Mirrors, Linked

(* Constructs above the m-th are left, and the handler below them is on top. *)
LEMMA MirrorsShorter ==
    ASSUME NEW s \in Seq(Acts), NEW r \in Seq(Acts), NEW t, NEW p, NEW b,
           Len(r) <= Len(s), Alike(s, r, Len(r)),
           Linked(s, p, b, Len(s)), HandlerBelow(s, t, Len(r) + 1)
    PROVE  Mirrors(r, t, p, b)
<1>1. Len(r) \in Nat /\ Len(s) \in Nat /\ Len(r) + 1 \in 1 .. Len(r) + 1
  OBVIOUS
<1>2. Linked(r, p, b, Len(r))
  BY <1>1, LinkedAlike
<1>3. HandlerBelow(r, t, Len(r) + 1)
  BY <1>1, BelowAlike
<1> QED BY <1>2, <1>3 DEF Mirrors

(* The innermost construct is new or changed; the ones below stay. *)
LEMMA MirrorsLast ==
    ASSUME NEW s \in Seq(Acts), NEW r \in Seq(Acts), NEW m \in Nat, Len(r) = m + 1,
           m <= Len(s), Alike(s, r, m), NEW t, NEW p, NEW b, NEW p2, NEW b2,
           Linked(s, p, b, Len(s)),
           \A i \in 1 .. m : p2[s[i].frame] = p[s[i].frame] /\ b2[s[i].frame] = b[s[i].frame],
           \/ ~Pushed(r[m + 1]) /\ HandlerBelow(s, t, m + 1)
           \/ /\ Pushed(r[m + 1]) /\ t = r[m + 1].frame
              /\ HandlerBelow(s, p2[t], m + 1) /\ b2[t] = r[m + 1].id
    PROVE  Mirrors(r, t, p2, b2)
<1>1. Len(s) \in Nat /\ m + 1 \in 1 .. m + 1 /\ m + 1 \in Nat \ {0}
  OBVIOUS
<1>2. Linked(r, p2, b2, m)
  BY <1>1, LinkedAlike
<1>3. CASE ~Pushed(r[m + 1]) /\ HandlerBelow(s, t, m + 1)
  <2>1. HandlerBelow(r, t, m + 1)
    BY <1>1, <1>3, BelowAlike
  <2>2. HandlerBelow(r, t, (m + 1) + 1)
    BY <1>1, <1>3, <2>1, AboveUnpushed
  <2>3. Linked(r, p2, b2, m + 1)
    <3>1. \A k \in 1 .. m + 1 : k \in 1 .. m \/ k = m + 1
      OBVIOUS
    <3> QED BY <1>2, <1>3, <3>1 DEF Linked
  <2> QED BY <2>2, <2>3 DEF Mirrors
<1>4. CASE /\ Pushed(r[m + 1]) /\ t = r[m + 1].frame
           /\ HandlerBelow(s, p2[t], m + 1) /\ b2[t] = r[m + 1].id
  <2>1. HandlerBelow(r, p2[t], m + 1)
    BY <1>1, <1>4, BelowAlike
  <2>2. HandlerBelow(r, t, (m + 1) + 1)
    BY <1>1, <1>4, AbovePushed
  <2>3. Linked(r, p2, b2, m + 1)
    <3>1. \A k \in 1 .. m + 1 : k \in 1 .. m \/ k = m + 1
      OBVIOUS
    <3> QED BY <1>2, <1>4, <2>1, <3>1 DEF Linked
  <2> QED BY <2>2, <2>3 DEF Mirrors
<1> QED BY <1>3, <1>4

LEMMA NumberedShorter ==
    ASSUME NEW s \in Seq(Acts), NEW r \in Seq(Acts), NEW n, Len(r) <= Len(s),
           \A i \in 1 .. Len(r) : r[i].id = s[i].id, Numbered(s, n)
    PROVE  Numbered(r, n)
<1>1. \A i \in 1 .. Len(r) : i \in 1 .. Len(s)
  OBVIOUS
<1> QED BY <1>1 DEF Numbered

-----------------------------------------------------------------------------
(* What the actions do to the live constructs.                               *)

LEMMA PhaseShape ==
    ASSUME TypeOK, acts # << >>, NEW q \in Phases, SetPhase(q)
    PROVE  /\ acts' \in Seq(Acts) /\ Len(acts') = Len(acts)
           /\ Alike(acts, acts', Len(acts) - 1)
           /\ acts'[Len(acts)].frame = Innermost.frame
           /\ acts'[Len(acts)].id = Innermost.id
           /\ acts'[Len(acts)].phase = q
<1> DEFINE n == Len(acts)
           x == [acts[n] EXCEPT !.phase = q]
<1>1. acts \in Seq(Acts) /\ n \in 1 .. n /\ n \in Nat /\ acts[n] \in Acts
  BY InnermostFrame DEF TypeOK, Innermost
<1>2. x \in Acts /\ x.frame = acts[n].frame /\ x.id = acts[n].id /\ x.phase = q
  BY <1>1 DEF Acts
<1>3. acts' = [acts EXCEPT ![n] = x]
  BY DEF SetPhase
<1> HIDE DEF x
<1>4. /\ acts' \in Seq(Acts) /\ Len(acts') = n
      /\ \A i \in 1 .. n : acts'[i] = IF i = n THEN x ELSE acts[i]
  <2>1. \A e \in Acts : /\ [acts EXCEPT ![n] = e] \in Seq(Acts)
                         /\ Len([acts EXCEPT ![n] = e]) = n
                         /\ \A i \in 1 .. n : [acts EXCEPT ![n] = e][i] = IF i = n THEN e ELSE acts[i]
    BY <1>1, ExceptSeq
  <2> QED BY <1>2, <1>3, <2>1, Zenon
<1>5. Alike(acts, acts', n - 1)
  <2>1. \A i \in 1 .. n - 1 : i \in 1 .. n /\ i # n
    BY <1>1
  <2> QED BY <1>4, <2>1 DEF Alike
<1> QED BY <1>1, <1>2, <1>4, <1>5 DEF Innermost

LEMMA LandShape ==
    ASSUME TypeOK, Land
    PROVE  /\ acts' \in Seq(Acts) /\ Len(acts') = Len(acts)
           /\ Alike(acts, acts', Len(acts) - 1)
           /\ acts'[Len(acts)].frame = Innermost.frame
           /\ acts'[Len(acts)].id = Innermost.id
           /\ acts'[Len(acts)].phase = "dispatch"
<1> DEFINE n == Len(acts)
           x == [acts[n] EXCEPT !.phase = "dispatch", !.err = error[Innermost.frame]]
<1>0. acts # << >>
  BY DEF Land, At
<1>1. acts \in Seq(Acts) /\ n \in 1 .. n /\ n \in Nat /\ acts[n] \in Acts
  BY <1>0, InnermostFrame DEF TypeOK, Innermost
<1>2. error[Innermost.frame] \in Errors
  BY <1>0, InnermostFrame DEF TypeOK
<1>3. x \in Acts /\ x.frame = acts[n].frame /\ x.id = acts[n].id /\ x.phase = "dispatch"
  BY <1>1, <1>2 DEF Acts, Phases
<1>4. acts' = [acts EXCEPT ![n] = x]
  BY DEF Land
<1> HIDE DEF x
<1>5. /\ acts' \in Seq(Acts) /\ Len(acts') = n
      /\ \A i \in 1 .. n : acts'[i] = IF i = n THEN x ELSE acts[i]
  <2>1. \A e \in Acts : /\ [acts EXCEPT ![n] = e] \in Seq(Acts)
                         /\ Len([acts EXCEPT ![n] = e]) = n
                         /\ \A i \in 1 .. n : [acts EXCEPT ![n] = e][i] = IF i = n THEN e ELSE acts[i]
    BY <1>1, ExceptSeq
  <2> QED BY <1>3, <1>4, <2>1, Zenon
<1>6. Alike(acts, acts', n - 1)
  <2>1. \A i \in 1 .. n - 1 : i \in 1 .. n /\ i # n
    BY <1>1
  <2> QED BY <1>5, <2>1 DEF Alike
<1> QED BY <1>1, <1>3, <1>5, <1>6 DEF Innermost

LEMMA LeaveShape ==
    ASSUME TypeOK, acts # << >>, Leave
    PROVE  /\ acts' \in Seq(Acts) /\ Len(acts') = Len(acts) - 1
           /\ Alike(acts, acts', Len(acts'))
<1>1. acts \in Seq(Acts) /\ Len(acts) - 1 \in 0 .. Len(acts)
  BY InnermostFrame DEF TypeOK
<1>2. acts' = SubSeq(acts, 1, Len(acts) - 1)
  BY DEF Leave
<1>3. \A m \in 0 .. Len(acts) :
          /\ SubSeq(acts, 1, m) \in Seq(Acts) /\ Len(SubSeq(acts, 1, m)) = m
          /\ \A i \in 1 .. m : SubSeq(acts, 1, m)[i] = acts[i]
  BY <1>1, PrefixOfActs
<1> QED BY <1>1, <1>2, <1>3, Zenon DEF Alike

LEMMA EscapeShape ==
    ASSUME TypeOK, Escape
    PROVE  /\ acts' \in Seq(Acts) /\ Len(acts') < Len(acts)
           /\ Alike(acts, acts', Len(acts'))
<1>1. PICK n \in 1 .. Len(acts) : acts' = SubSeq(acts, 1, Len(acts) - n)
  BY DEF Escape
<1>2. acts \in Seq(Acts) /\ Len(acts) - n \in 0 .. Len(acts) /\ Len(acts) - n < Len(acts)
  BY DEF TypeOK
<1>3. \A m \in 0 .. Len(acts) :
          /\ SubSeq(acts, 1, m) \in Seq(Acts) /\ Len(SubSeq(acts, 1, m)) = m
          /\ \A i \in 1 .. m : SubSeq(acts, 1, m)[i] = acts[i]
  BY <1>2, PrefixOfActs
<1> QED BY <1>1, <1>2, <1>3, Zenon DEF Alike

-----------------------------------------------------------------------------
(* What a step has to keep, and whom it may make land. *)
Good ==
    /\ Numbered(acts', entered') /\ Settled(acts') /\ Resumes(acts', buf')
    /\ outcome' = "running" /\ "escape" \notin slips => Mirrors(acts', top', prev', buf')
    /\ "escape" \notin slips => LandsNearest

LEMMA MirrorTypes ==
    ASSUME MirrorInv
    PROVE  /\ TypeOK /\ FramesDisjoint /\ acts \in Seq(Acts) /\ Len(acts) \in Nat
           /\ Numbered(acts, entered) /\ Settled(acts) /\ Resumes(acts, buf)
           /\ \A k \in 1 .. Len(acts) : acts[k] \in Acts /\ acts[k].frame \in Frames
                                        /\ acts[k].frame # NULL
<1>1. TypeOK /\ FramesDisjoint /\ Numbered(acts, entered) /\ Settled(acts) /\ Resumes(acts, buf)
  BY FrameInvDisjoint DEF MirrorInv, FrameInv
<1>2. acts \in Seq(Acts) /\ Len(acts) \in Nat
  BY <1>1 DEF TypeOK
<1>3. ASSUME NEW k \in 1 .. Len(acts)
      PROVE  acts[k] \in Acts /\ acts[k].frame \in Frames /\ acts[k].frame # NULL
  <2>1. acts[k] \in Acts
    BY <1>2, ElementOfSeq
  <2>2. acts[k].frame \in Frames
    BY <2>1 DEF Acts
  <2>3. acts[k].frame >= 0 /\ acts[k].frame \in Int
    BY <2>2, FrameKinds
  <2> QED BY <2>1, <2>2, <2>3 DEF NULL
<1> QED BY <1>1, <1>2, <1>3

(* A step after which nothing has newly landed. *)
LEMMA NothingLands ==
    ASSUME acts \in Seq(Acts), Settled(acts),
           \A k \in 1 .. Len(acts') : acts'[k].phase = "landed" =>
               k \in 1 .. Len(acts) /\ acts[k].phase \in {"landed", "dispatch"},
           outcome = "running" => outcome' \notin {"unhandled", "wild"}
    PROVE  LandsNearest
<1>1. ASSUME NEW k \in 1 .. Len(acts'), acts'[k].phase = "landed",
             k > Len(acts) \/ acts[k].phase # "dispatch"
      PROVE  /\ InTry(k) \/ acts[k].phase = "landed"
             /\ \A j \in k + 1 .. Len(acts) : ~InTry(j)
  <2>1. k \in 1 .. Len(acts) /\ acts[k].phase = "landed" /\ Len(acts) \in Nat
    BY <1>1
  <2>2. k = Len(acts)
    BY <2>1 DEF Settled
  <2> QED BY <2>1, <2>2
<1> QED BY <1>1, Zenon DEF LandsNearest

(* The handler that Pop uncovers. *)
LEMMA PopBelow ==
    ASSUME MirrorInv, outcome = "running", "escape" \notin slips, acts # << >>,
           Pushed(Innermost), Pop
    PROVE  HandlerBelow(acts, top', Len(acts))
<1> DEFINE n == Len(acts)
<1>1. n \in Nat \ {0} /\ n \in 1 .. n
  BY MirrorTypes, InnermostFrame
<1>2. Mirrors(acts, top, prev, buf)
  BY MirrorsIsNesting
<1>3. top = acts[n].frame
  BY <1>1, <1>2, AbovePushed DEF Mirrors, Innermost
<1>4. top' = prev[acts[n].frame]
  BY <1>1, <1>3, MirrorTypes DEF Pop
<1> QED BY <1>1, <1>2, <1>4 DEF Mirrors, Linked, Innermost

(* The handler on top when the innermost construct has none. *)
LEMMA StayBelow ==
    ASSUME MirrorInv, outcome = "running", "escape" \notin slips, acts # << >>,
           ~Pushed(Innermost)
    PROVE  HandlerBelow(acts, top, Len(acts))
<1> DEFINE n == Len(acts)
<1>1. n \in Nat \ {0}
  BY MirrorTypes, InnermostFrame
<1>2. HandlerBelow(acts, top, n + 1)
  BY MirrorsIsNesting DEF Mirrors
<1> QED BY <1>1, <1>2, AboveUnpushed DEF Innermost

(* The innermost construct is left. *)
LEMMA LeaveGood ==
    ASSUME MirrorInv, outcome = "running", outcome' = "running", acts # << >>, Leave,
           UNCHANGED <<entered, prev, buf>>,
           \/ Pushed(Innermost) /\ Pop
           \/ ~Pushed(Innermost) /\ UNCHANGED top
    PROVE  Good
<1>1. /\ acts \in Seq(Acts) /\ acts' \in Seq(Acts) /\ Len(acts') = Len(acts) - 1
      /\ Len(acts) \in Nat \ {0} /\ Alike(acts, acts', Len(acts')) /\ Len(acts') \in Nat
  BY MirrorTypes, LeaveShape, InnermostFrame
<1>2. \A i \in 1 .. Len(acts') : i \in 1 .. Len(acts) - 1 /\ i \in 1 .. Len(acts) /\ acts'[i] = acts[i]
  BY <1>1 DEF Alike
<1>3. Numbered(acts', entered')
  BY <1>1, <1>2, NumberedShorter, MirrorTypes
<1>4. Settled(acts') /\ Resumes(acts', buf')
  BY <1>1, <1>2, MirrorTypes DEF Settled, Resumes
<1>5. ASSUME "escape" \notin slips
      PROVE  Mirrors(acts', top', prev', buf')
  <2>1. HandlerBelow(acts, top', Len(acts))
    BY <1>5, PopBelow, StayBelow
  <2>2. HandlerBelow(acts, top', Len(acts') + 1)
    BY <1>1, <2>1
  <2>3. Linked(acts, prev', buf', Len(acts))
    BY <1>5, MirrorsIsNesting DEF Mirrors
  <2> QED BY <1>1, <2>2, <2>3, MirrorsShorter
<1>6. LandsNearest
  BY <1>1, <1>2, NothingLands, MirrorTypes
<1> QED BY <1>3, <1>4, <1>5, <1>6 DEF Good

(* The innermost construct goes on to a phase without a handler. *)
LEMMA PhaseGood ==
    ASSUME MirrorInv, outcome = "running", outcome' = "running", acts # << >>,
           UNCHANGED <<entered, prev, buf>>,
           acts' \in Seq(Acts), Len(acts') = Len(acts), Alike(acts, acts', Len(acts) - 1),
           acts'[Len(acts)].id = Innermost.id, acts'[Len(acts)].frame = Innermost.frame,
           acts'[Len(acts)].phase \in {"dispatch", "catch", "finally"},
           \/ Pushed(Innermost) /\ Pop
           \/ ~Pushed(Innermost) /\ UNCHANGED top
    PROVE  Good
<1> DEFINE n == Len(acts)
<1>1. acts \in Seq(Acts) /\ n \in Nat \ {0} /\ n - 1 \in Nat /\ n - 1 <= n /\ (n - 1) + 1 = n
  BY MirrorTypes, InnermostFrame
<1>2. /\ \A i \in 1 .. n - 1 : i \in 1 .. n /\ acts'[i] = acts[i]
      /\ \A i \in 1 .. n : i = n \/ i \in 1 .. n - 1
  BY <1>1 DEF Alike
<1>3. \A i \in 1 .. n : acts'[i].id = acts[i].id /\ acts'[i].frame = acts[i].frame
  BY <1>1, <1>2 DEF Innermost
<1>4. Numbered(acts', entered')
  BY <1>1, <1>3, NumberedShorter, MirrorTypes
<1>5. Settled(acts') /\ Resumes(acts', buf')
  BY <1>1, <1>2, <1>3, MirrorTypes DEF Settled, Resumes
<1>6. ASSUME "escape" \notin slips
      PROVE  Mirrors(acts', top', prev', buf')
  <2>1. HandlerBelow(acts, top', (n - 1) + 1)
    BY <1>1, <1>6, PopBelow, StayBelow
  <2>2. Linked(acts, prev, buf, n) /\ prev' = prev /\ buf' = buf
    BY <1>6, MirrorsIsNesting DEF Mirrors
  <2>3. ~Pushed(acts'[(n - 1) + 1]) /\ Len(acts') = (n - 1) + 1
    BY <1>1 DEF Pushed
  <2>4. \A i \in 1 .. n - 1 : /\ prev'[acts[i].frame] = prev[acts[i].frame]
                              /\ buf'[acts[i].frame] = buf[acts[i].frame]
    BY <2>2
  <2> HIDE DEF n
  <2> QED BY <1>1, <2>1, <2>2, <2>3, <2>4, MirrorsLast DEF n
<1>7. LandsNearest
  <2>1. \A k \in 1 .. Len(acts') : acts'[k].phase = "landed" =>
            k \in 1 .. n /\ acts[k].phase \in {"landed", "dispatch"}
    BY <1>1, <1>2
  <2> QED BY <1>1, <2>1, NothingLands, MirrorTypes
<1> QED BY <1>4, <1>5, <1>6, <1>7 DEF Good

(* The construct pushes its own frame again, and lands. *)
LEMMA RethrowGood ==
    ASSUME MirrorInv, Rethrow
    PROVE  Good
<1> DEFINE n == Len(acts)
           fr == Innermost.frame
<1>0. /\ outcome = "running" /\ acts # << >> /\ Innermost.phase = "dispatch"
      /\ top' = fr /\ prev' = [prev EXCEPT ![fr] = top]
      /\ SetPhase("landed") /\ UNCHANGED <<entered, buf, outcome>>
  BY DEF Rethrow, At
<1>1. acts \in Seq(Acts) /\ n \in Nat \ {0} /\ n - 1 \in Nat /\ n - 1 <= n /\ (n - 1) + 1 = n
  BY <1>0, MirrorTypes, InnermostFrame
<1>2. /\ acts' \in Seq(Acts) /\ Len(acts') = n /\ Alike(acts, acts', n - 1)
      /\ acts'[n].frame = fr /\ acts'[n].id = Innermost.id /\ acts'[n].phase = "landed"
  BY <1>0, MirrorTypes, PhaseShape DEF Phases
<1>3. /\ \A i \in 1 .. n - 1 : i \in 1 .. n /\ i # n /\ acts'[i] = acts[i]
      /\ \A i \in 1 .. n : i = n \/ i \in 1 .. n - 1
  <2>1. n \in Nat \ {0}
    BY <1>1
  <2>2. /\ \A i \in 1 .. n - 1 : i \in 1 .. n /\ i # n
        /\ \A i \in 1 .. n : i = n \/ i \in 1 .. n - 1
    <3> HIDE DEF n, fr
    <3> QED BY <2>1
  <2>3. \A i \in 1 .. n - 1 : acts'[i] = acts[i]
    BY <1>2 DEF Alike
  <2> QED BY <2>2, <2>3
<1>4. \A i \in 1 .. n : acts'[i].id = acts[i].id /\ acts'[i].frame = acts[i].frame
  BY <1>1, <1>2, <1>3 DEF Innermost
<1>5. Numbered(acts', entered')
  BY <1>0, <1>1, <1>2, <1>4, NumberedShorter, MirrorTypes
<1>6. Settled(acts') /\ Resumes(acts', buf')
  BY <1>0, <1>1, <1>2, <1>3, <1>4, MirrorTypes DEF Settled, Resumes
<1>7. ASSUME "escape" \notin slips
      PROVE  Mirrors(acts', top', prev', buf')
  <2>1. HandlerBelow(acts, top, n)
    BY <1>0, <1>7, StayBelow DEF Pushed
  <2>2. Linked(acts, prev, buf, n) /\ buf' = buf
    BY <1>0, <1>7, MirrorsIsNesting DEF Mirrors
  <2>3. fr \in Frames /\ n \in 1 .. n /\ fr = acts[n].frame
    BY <1>1, MirrorTypes DEF Innermost
  <2>4. prev'[fr] = top
    BY <1>0, <2>3, MirrorTypes DEF TypeOK
  <2>5. buf'[fr] = acts'[n].id
    BY <1>2, <2>2, <2>3, MirrorTypes DEF Resumes, Innermost
  <2>6. \A i \in 1 .. n - 1 : /\ prev'[acts[i].frame] = prev[acts[i].frame]
                              /\ buf'[acts[i].frame] = buf[acts[i].frame]
    <3>1. \A i \in 1 .. n - 1 : acts[i].frame # fr /\ acts[i].frame \in Frames
      BY <1>3, <2>3, MirrorTypes DEF FramesDisjoint
    <3> QED BY <1>0, <2>2, <3>1, MirrorTypes DEF TypeOK
  <2>7. /\ Pushed(acts'[(n - 1) + 1]) /\ top' = acts'[(n - 1) + 1].frame
        /\ HandlerBelow(acts, prev'[top'], (n - 1) + 1)
        /\ buf'[top'] = acts'[(n - 1) + 1].id /\ Len(acts') = (n - 1) + 1
    BY <1>0, <1>1, <1>2, <2>1, <2>4, <2>5 DEF Pushed
  <2> HIDE DEF n, fr
  <2> QED BY <1>1, <1>2, <2>2, <2>6, <2>7, MirrorsLast DEF n
<1>8. LandsNearest
  <2>1. \A k \in 1 .. Len(acts') : acts'[k].phase = "landed" =>
            k \in 1 .. n /\ acts[k].phase \in {"landed", "dispatch"}
    BY <1>0, <1>1, <1>2, <1>3 DEF Innermost
  <2> QED BY <1>0, <1>1, <2>1, NothingLands, MirrorTypes
<1> QED BY <1>5, <1>6, <1>7, <1>8 DEF Good

(* A construct is entered: its frame is no live construct's. *)
LEMMA EnterGood ==
    ASSUME MirrorInv, NEW st \in BOOLEAN, NEW cl \in SUBSET Types, NEW f \in Frames,
           EnterTry(st, cl, f)
    PROVE  Good
<1> DEFINE n == Len(acts)
           x == [id |-> entered + 1, frame |-> f, isStmt |-> st,
                 clauses |-> cl, phase |-> "try", err |-> NoType]
<1>0. /\ outcome = "running" /\ outcome' = outcome /\ MayAlloc(f)
      /\ entered' = entered + 1 /\ top' = f
      /\ prev' = [prev EXCEPT ![f] = top] /\ buf' = [buf EXCEPT ![f] = entered + 1]
      /\ acts' = Append(acts, x)
      /\ acts # << >> => Innermost.phase \in {"try", "catch", "finally"}
  BY DEF EnterTry, InUserCode
<1>1. acts \in Seq(Acts) /\ n \in Nat /\ entered \in Nat
  BY EhAssumption, MirrorTypes DEF TypeOK
<1>2. x \in Acts /\ x.id = entered + 1 /\ x.frame = f /\ x.phase = "try"
  BY <1>1 DEF Acts, Phases, Errors
<1> HIDE DEF x
<1>3. /\ acts' \in Seq(Acts) /\ Len(acts') = n + 1
      /\ \A i \in 1 .. n : acts'[i] = acts[i]
      /\ acts'[n + 1] = x
  BY <1>0, <1>1, <1>2, AppendProperties
<1>4. \A i \in 1 .. n + 1 : i = n + 1 \/ i \in 1 .. n
  BY <1>1
<1>5. \A i \in 1 .. n : acts[i].frame # f /\ acts[i].frame \in Frames
  BY <1>0, MirrorTypes DEF FramesDisjoint
<1>6. \A i \in 1 .. n : acts[i].id \in 1 .. entered
  BY MirrorTypes DEF Numbered
<1>7. Numbered(acts', entered')
  <2>1. \A i \in 1 .. n + 1 : acts'[i].id \in 1 .. entered + 1
    BY <1>1, <1>2, <1>3, <1>4, <1>6
  <2>2. \A j, k \in 1 .. n + 1 : acts'[j].id = acts'[k].id => j = k
    <3> TAKE j, k \in 1 .. n + 1
    <3>1. CASE j \in 1 .. n /\ k \in 1 .. n
      BY <1>3, <3>1, MirrorTypes DEF Numbered
    <3>2. CASE j = n + 1 \/ k = n + 1
      BY <1>1, <1>2, <1>3, <1>4, <1>6, <3>2
    <3> QED BY <1>4, <3>1, <3>2
  <2> QED BY <1>0, <1>3, <2>1, <2>2 DEF Numbered
<1>8. \A i \in 1 .. n : /\ prev'[acts[i].frame] = prev[acts[i].frame]
                        /\ buf'[acts[i].frame] = buf[acts[i].frame]
  BY <1>0, <1>5, MirrorTypes DEF TypeOK
<1>9. prev'[f] = top /\ buf'[f] = entered + 1
  BY <1>0, MirrorTypes DEF TypeOK
<1>10. Settled(acts')
  <2>1. \A k \in 1 .. n : acts[k].phase \in {"try", "catch", "finally"}
    <3> TAKE k \in 1 .. n
    <3>1. CASE k \in 1 .. n - 1
      BY <3>1, MirrorTypes DEF Settled
    <3>2. CASE k = n
      <4>1. acts # << >>
        BY <1>1, <3>2
      <4> QED BY <1>0, <3>2, <4>1 DEF Innermost
    <3> QED BY <1>1, <3>1, <3>2
  <2> QED BY <1>1, <1>3, <2>1 DEF Settled
<1>11. Resumes(acts', buf')
  BY <1>2, <1>3, <1>4, <1>8, <1>9, MirrorTypes DEF Resumes
<1>12. ASSUME "escape" \notin slips
       PROVE  Mirrors(acts', top', prev', buf')
  <2>1. HandlerBelow(acts, top, n + 1) /\ Linked(acts, prev, buf, n)
    BY <1>0, <1>12, MirrorsIsNesting DEF Mirrors
  <2>2. /\ Pushed(acts'[n + 1]) /\ top' = acts'[n + 1].frame
        /\ HandlerBelow(acts, prev'[top'], n + 1) /\ buf'[top'] = acts'[n + 1].id
    BY <1>0, <1>2, <1>3, <1>9, <2>1 DEF Pushed
  <2>3. Alike(acts, acts', n)
    BY <1>3 DEF Alike
  <2> HIDE DEF n
  <2> QED BY <1>1, <1>3, <1>8, <2>1, <2>2, <2>3, MirrorsLast DEF n
<1>13. LandsNearest
  <2>1. \A k \in 1 .. Len(acts') : acts'[k].phase = "landed" =>
            k \in 1 .. n /\ acts[k].phase \in {"landed", "dispatch"}
    BY <1>2, <1>3, <1>4
  <2> QED BY <1>0, <1>1, <2>1, NothingLands, MirrorTypes
<1> QED BY <1>7, <1>10, <1>11, <1>12, <1>13 DEF Good

(* lucis_eh_throw: the top frame resumes the innermost pushed construct. *)
LEMMA RaiseGood ==
    ASSUME MirrorInv, outcome = "running", NEW e, Raise(e)
    PROVE  Good
<1> DEFINE n == Len(acts)
<1>0. acts \in Seq(Acts) /\ n \in Nat
  BY MirrorTypes
<1>1. ASSUME "escape" \notin slips
      PROVE  \/ top = NULL /\ \A j \in 1 .. n : ~Pushed(acts[j])
             \/ \E j \in 1 .. n : /\ Pushed(acts[j]) /\ top = acts[j].frame /\ top # NULL
                                  /\ buf[top] = acts[j].id
                                  /\ \A i \in j + 1 .. n : ~Pushed(acts[i])
  <2>1. HandlerBelow(acts, top, n + 1)
    BY <1>1, MirrorsIsNesting DEF Mirrors
  <2>2. (n + 1) - 1 = n
    BY <1>0
  <2>3. \/ top = NULL /\ \A j \in 1 .. n : ~Pushed(acts[j])
        \/ \E j \in 1 .. n : /\ Pushed(acts[j]) /\ top = acts[j].frame
                             /\ \A i \in j + 1 .. n : ~Pushed(acts[i])
    BY <2>1, <2>2 DEF HandlerBelow
  <2>4. \A j \in 1 .. n : acts[j].frame # NULL /\ buf[acts[j].frame] = acts[j].id
    BY MirrorTypes DEF Resumes
  <2> QED BY <2>3, <2>4
<1>2. ASSUME UNCHANGED <<acts, entered, ehVars, pool>>, outcome' # "running",
             "escape" \notin slips =>
                 outcome' = "unhandled" /\ \A k \in 1 .. n : ~InTry(k)
      PROVE  Good
  <2>1. Numbered(acts', entered') /\ Settled(acts') /\ Resumes(acts', buf')
    BY <1>2, MirrorTypes DEF ehVars
  <2>2. ASSUME "escape" \notin slips PROVE LandsNearest
    <3>1. ASSUME NEW k \in 1 .. n, acts[k].phase = "landed" PROVE k = n
      BY <1>0, <3>1, MirrorTypes DEF Settled
    <3>2. \A k \in 1 .. n : acts[k].phase = "landed" => \A j \in k + 1 .. n : ~InTry(j)
      BY <1>2, <2>2
    <3> QED BY <1>0, <1>2, <2>2, <3>2 DEF LandsNearest
  <2> QED BY <1>2, <2>1, <2>2 DEF Good
<1>3. CASE /\ top = NULL /\ outcome' = "unhandled"
           /\ UNCHANGED <<acts, entered, ehVars, pool>>
  <2>1. "escape" \notin slips => \A k \in 1 .. n : ~InTry(k)
    BY <1>1, <1>3 DEF InTry, Pushed
  <2> QED BY <1>2, <1>3, <2>1
<1>4. CASE /\ top # NULL /\ \A k \in 1 .. Len(acts) : acts[k].id # buf[top]
           /\ outcome' = "wild"
           /\ UNCHANGED <<acts, entered, ehVars, pool>>
  <2>1. "escape" \in slips
    BY <1>1, <1>4
  <2> QED BY <1>2, <1>4, <2>1
<1>5. ASSUME NEW k \in 1 .. n, top # NULL, acts[k].id = buf[top],
             acts' = [SubSeq(acts, 1, k) EXCEPT ![k].phase = "landed"],
             UNCHANGED <<entered, top, prev, buf, pool, outcome>>
      PROVE  Good
  <2>1. /\ acts' \in Seq(Acts) /\ Len(acts') = k /\ k \in Nat
        /\ \A i \in 1 .. k - 1 : acts'[i] = acts[i]
        /\ acts'[k] = [acts[k] EXCEPT !.phase = "landed"]
    <3>1. acts' = Landed(acts, k)
      BY <1>5 DEF Landed
    <3>2. /\ Landed(acts, k) \in Seq(Acts) /\ Len(Landed(acts, k)) = k
          /\ \A i \in 1 .. k - 1 : Landed(acts, k)[i] = acts[i]
          /\ Landed(acts, k)[k] = [acts[k] EXCEPT !.phase = "landed"]
      BY <1>0, PrefixLands
    <3>3. k \in Nat
      BY <1>0
    <3> QED BY <3>1, <3>2, <3>3, Zenon
  <2>2. acts'[k].id = acts[k].id /\ acts'[k].frame = acts[k].frame /\ acts'[k].phase = "landed"
    BY <2>1, MirrorTypes DEF Acts
  <2>3. /\ \A i \in 1 .. k : i = k \/ i \in 1 .. k - 1
        /\ \A i \in 1 .. k - 1 : i \in 1 .. n - 1 /\ i \in 1 .. n
        /\ k - 1 \in Nat /\ k - 1 <= n /\ (k - 1) + 1 = k /\ k <= n
    BY <1>0, <2>1
  <2>4. \A i \in 1 .. k : acts'[i].id = acts[i].id /\ acts'[i].frame = acts[i].frame
    BY <2>1, <2>2, <2>3
  <2>5. Numbered(acts', entered')
    <3>1. Numbered(acts, entered) /\ entered' = entered /\ Len(acts') <= Len(acts)
      BY <1>5, <2>1, <2>3, MirrorTypes
    <3>2. \A i \in 1 .. Len(acts') : acts'[i].id = acts[i].id
      BY <2>1, <2>4
    <3> QED BY <1>0, <2>1, <3>1, <3>2, NumberedShorter
  <2>6. Settled(acts') /\ Resumes(acts', buf')
    <3>1. \A i \in 1 .. k : i \in 1 .. n
      BY <1>0
    <3> QED BY <1>5, <2>1, <2>3, <2>4, <3>1, MirrorTypes DEF Settled, Resumes
  <2>7. ASSUME "escape" \notin slips
        PROVE  /\ Pushed(acts[k]) /\ top = acts[k].frame
               /\ \A i \in k + 1 .. n : ~Pushed(acts[i])
    <3>1. PICK j \in 1 .. n : /\ Pushed(acts[j]) /\ top = acts[j].frame
                              /\ buf[top] = acts[j].id
                              /\ \A i \in j + 1 .. n : ~Pushed(acts[i])
      BY <1>1, <1>5, <2>7
    <3>2. j = k
      BY <1>5, <3>1, MirrorTypes DEF Numbered
    <3> QED BY <3>1, <3>2
  <2>8. ASSUME "escape" \notin slips
        PROVE  Mirrors(acts', top', prev', buf')
    <3>1. Linked(acts, prev, buf, n)
      BY <2>8, MirrorsIsNesting DEF Mirrors
    <3>2. HandlerBelow(acts, prev[top], k)
      BY <2>7, <2>8, <3>1 DEF Linked
    <3>3. /\ Pushed(acts'[(k - 1) + 1]) /\ top' = acts'[(k - 1) + 1].frame
          /\ HandlerBelow(acts, prev'[top'], (k - 1) + 1)
          /\ buf'[top'] = acts'[(k - 1) + 1].id /\ Len(acts') = (k - 1) + 1
      BY <1>5, <2>1, <2>2, <2>3, <2>7, <2>8, <3>2 DEF Pushed
    <3>4. Alike(acts, acts', k - 1) /\ prev' = prev /\ buf' = buf
      BY <1>5, <2>1 DEF Alike
    <3> QED BY <1>0, <2>1, <2>3, <3>1, <3>3, <3>4, MirrorsLast
  <2>9. ASSUME "escape" \notin slips PROVE LandsNearest
    <3>1. \A i \in 1 .. k - 1 : acts'[i].phase # "landed"
      BY <2>1, <2>3, MirrorTypes DEF Settled
    <3>2. /\ InTry(k) \/ acts[k].phase = "landed"
          /\ \A j \in k + 1 .. n : ~InTry(j)
      BY <2>7, <2>9 DEF Pushed, InTry
    <3>3. outcome' = "running"
      BY <1>5
    <3>4. \A i \in 1 .. Len(acts') : acts'[i].phase = "landed" => i = k
      BY <2>1, <2>3, <3>1
    <3> QED BY <3>2, <3>3, <3>4 DEF LandsNearest
  <2> QED BY <2>5, <2>6, <2>8, <2>9 DEF Good
<1> QED BY <1>3, <1>4, <1>5 DEF Raise

-----------------------------------------------------------------------------
(* The inductive step, one case per action. *)
LEMMA MirrorGood ==
    ASSUME MirrorInv, Orderly \/ Rethrow
    PROVE  Good
<1>0. TypeOK /\ \A p \in {"try", "landed", "dispatch", "catch", "finally"} : p \in Phases
  BY MirrorTypes DEF Phases
<1>1. CASE Enter
  <2>1. PICK f \in Frames :
           (\E c \in Clauses : EnterTry(TRUE, c, f)) \/ EnterTry(FALSE, {}, f)
    BY <1>1 DEF Enter
  <2>2. CASE \E c \in Clauses : EnterTry(TRUE, c, f)
    <3>1. PICK c \in Clauses : EnterTry(TRUE, c, f)
      BY <2>2
    <3>2. c \in SUBSET Types
      BY EhAssumption
    <3> QED BY <3>1, <3>2, EnterGood
  <2>3. CASE EnterTry(FALSE, {}, f)
    BY <2>3, EnterGood
  <2> QED BY <2>1, <2>2, <2>3
<1>2. CASE TryCompletes
  <2>1. /\ outcome = "running" /\ outcome' = "running" /\ acts # << >> /\ Pushed(Innermost) /\ Pop
        /\ SetPhase("finally") /\ UNCHANGED <<entered, prev, buf>>
    BY <1>2 DEF TryCompletes, At, Pushed
  <2>2. /\ acts' \in Seq(Acts) /\ Len(acts') = Len(acts) /\ Alike(acts, acts', Len(acts) - 1)
        /\ acts'[Len(acts)].frame = Innermost.frame
        /\ acts'[Len(acts)].id = Innermost.id /\ acts'[Len(acts)].phase = "finally"
    BY <1>0, <2>1, PhaseShape
  <2> QED BY <2>1, <2>2, PhaseGood
<1>3. CASE Land
  <2>1. /\ outcome = "running" /\ outcome' = "running" /\ acts # << >> /\ Pushed(Innermost) /\ Pop
        /\ UNCHANGED <<entered, prev, buf>>
    BY <1>3 DEF Land, At, Pushed
  <2>2. /\ acts' \in Seq(Acts) /\ Len(acts') = Len(acts) /\ Alike(acts, acts', Len(acts) - 1)
        /\ acts'[Len(acts)].frame = Innermost.frame
        /\ acts'[Len(acts)].id = Innermost.id /\ acts'[Len(acts)].phase = "dispatch"
    BY <1>0, <1>3, LandShape
  <2> QED BY <2>1, <2>2, PhaseGood
<1>4. CASE CatchMatches \/ CatchCompletes
  <2>1. /\ outcome = "running" /\ outcome' = "running" /\ acts # << >> /\ ~Pushed(Innermost)
        /\ SetPhase("catch") \/ SetPhase("finally")
        /\ UNCHANGED <<entered, top, prev, buf>>
    BY <1>4 DEF CatchMatches, CatchCompletes, At, Pushed, ehVars
  <2>2. /\ acts' \in Seq(Acts) /\ Len(acts') = Len(acts) /\ Alike(acts, acts', Len(acts) - 1)
        /\ acts'[Len(acts)].frame = Innermost.frame
        /\ acts'[Len(acts)].id = Innermost.id /\ acts'[Len(acts)].phase \in {"catch", "finally"}
    BY <1>0, <2>1, PhaseShape
  <2> QED BY <2>1, <2>2, PhaseGood
<1>5. CASE TryExprCompletes \/ LandInExpr
  <2>1. /\ outcome = "running" /\ outcome' = "running" /\ acts # << >> /\ Pushed(Innermost) /\ Pop
        /\ Leave /\ UNCHANGED <<entered, prev, buf>>
    BY <1>5 DEF TryExprCompletes, LandInExpr, At, Pushed
  <2> QED BY <2>1, LeaveGood
<1>6. CASE FinallyCompletes
  <2>1. /\ outcome = "running" /\ outcome' = "running" /\ acts # << >> /\ ~Pushed(Innermost)
        /\ Leave /\ UNCHANGED <<entered, top, prev, buf>>
    BY <1>6 DEF FinallyCompletes, At, Pushed, ehVars
  <2> QED BY <2>1, LeaveGood
<1>7. CASE Throw \/ DivideByZero
  BY <1>7, RaiseGood DEF Throw, DivideByZero, InUserCode
<1>8. CASE Rethrow
  BY <1>8, RethrowGood
<1>9. CASE ProgramEnds
  <2>1. /\ UNCHANGED <<acts, entered, top, prev, buf>> /\ outcome' = "ended"
        /\ acts = << >>
    BY <1>9 DEF ProgramEnds, ehVars
  <2>2. LandsNearest
    BY <2>1, NothingLands, MirrorTypes
  <2> QED BY <2>1, <2>2, MirrorTypes DEF Good
<1> QED BY <1>1, <1>2, <1>3, <1>4, <1>5, <1>6, <1>7, <1>8, <1>9 DEF Orderly

LEMMA MirrorInit == Init => MirrorInv
<1> SUFFICES ASSUME Init PROVE MirrorInv
  OBVIOUS
<1>1. acts = << >> /\ Len(acts) = 0 /\ top = NULL
  BY DEF Init
<1>2. Numbered(acts, entered) /\ Settled(acts) /\ Resumes(acts, buf)
  BY <1>1 DEF Numbered, Settled, Resumes
<1>3. StackMirrorsNesting
  BY <1>1 DEF StackMirrorsNesting, HandlerBelow
<1> QED BY <1>2, <1>3, FrameInit DEF MirrorInv

LEMMA MirrorNext ==
    ASSUME MirrorInv, [Next]_vars
    PROVE  MirrorInv' /\ ("escape" \notin slips => LandsNearest)
<1>1. FrameInv'
  BY FrameNext DEF MirrorInv
<1>2. ASSUME Good, "escape" \notin slips' => "escape" \notin slips
      PROVE  MirrorInv' /\ ("escape" \notin slips => LandsNearest)
  <2>1. StackMirrorsNesting'
    BY <1>2 DEF Good, StackMirrorsNesting, Mirrors, Linked
  <2> QED BY <1>1, <1>2, <2>1 DEF Good, MirrorInv
<1>3. CASE Orderly /\ UNCHANGED slips
  BY <1>2, <1>3, MirrorGood
<1>4. CASE Rethrow /\ slips' = slips \cup {"rethrow"}
  BY <1>2, <1>4, MirrorGood
<1>5. CASE Escape /\ slips' = slips \cup {"escape"}
  <2>1. /\ acts \in Seq(Acts) /\ acts' \in Seq(Acts) /\ Len(acts') < Len(acts)
        /\ Alike(acts, acts', Len(acts'))
        /\ UNCHANGED <<entered, buf, outcome>> /\ outcome = "running"
    BY <1>5, EscapeShape, MirrorTypes DEF Escape, ehVars, InUserCode
  <2>2. \A i \in 1 .. Len(acts') : i \in 1 .. Len(acts) - 1 /\ i \in 1 .. Len(acts) /\ acts'[i] = acts[i]
    BY <2>1 DEF Alike
  <2>3. Numbered(acts', entered')
    <3>1. Len(acts') <= Len(acts) /\ \A i \in 1 .. Len(acts') : acts'[i].id = acts[i].id
      BY <2>1, <2>2
    <3> QED BY <2>1, <3>1, NumberedShorter, MirrorTypes
  <2>4. Settled(acts')
    <3>1. \A i \in 1 .. Len(acts') - 1 : i \in 1 .. Len(acts')
      BY <2>1
    <3> QED BY <2>2, <3>1, MirrorTypes DEF Settled
  <2>5. Resumes(acts', buf')
    BY <2>1, <2>2, MirrorTypes DEF Resumes
  <2>6. StackMirrorsNesting'
    BY <1>5 DEF StackMirrorsNesting
  <2>7. LandsNearest
    BY <2>1, <2>2, NothingLands, MirrorTypes
  <2> QED BY <1>1, <2>3, <2>4, <2>5, <2>6, <2>7 DEF MirrorInv
<1>6. CASE UNCHANGED vars
  <2>1. LandsNearest
    <3>1. acts' = acts /\ outcome' = outcome
      BY <1>6 DEF vars
    <3>2. \A k \in 1 .. Len(acts') : acts'[k].phase = "landed" =>
              k \in 1 .. Len(acts) /\ acts[k].phase \in {"landed", "dispatch"}
      BY <3>1
    <3>3. outcome = "running" => outcome' \notin {"unhandled", "wild"}
      BY <3>1
    <3> QED BY <3>2, <3>3, NothingLands, MirrorTypes
  <2> QED BY <1>1, <1>6, <2>1 DEF vars, ehVars, MirrorInv, StackMirrorsNesting
<1> QED BY <1>3, <1>4, <1>5, <1>6 DEF Next, Runs, Terminated

(* Until a construct is left by a jump, eh_stack links exactly the handlers   *)
(* of the live constructs whose body runs, for every program and pool.       *)
THEOREM StackSound == Spec => []StackMirrorsNesting
<1>1. MirrorInv /\ [Next]_vars => MirrorInv'
  BY MirrorNext
<1>2. MirrorInv => StackMirrorsNesting
  BY DEF MirrorInv
<1> QED BY <1>1, <1>2, MirrorInit, PTL DEF Spec

(* Until then a throw resumes the innermost try construct whose body is       *)
(* running, and ends the program only when there is none.                    *)
THEOREM ThrowSound == Spec => NearestUntilEscape
<1>1. MirrorInv /\ [Next]_vars => MirrorInv'
  BY MirrorNext
<1>2. MirrorInv /\ [Next]_vars => ["escape" \notin slips => LandsNearest]_vars
  BY MirrorNext
<1> QED BY <1>1, <1>2, MirrorInit, PTL DEF Spec, NearestUntilEscape

-----------------------------------------------------------------------------
(* Errors travel outwards. *)

(* The phases are in order. *)
LEMMA RankOrder ==
    /\ Rank("try") < Rank("landed") /\ Rank("landed") < Rank("dispatch")
    /\ Rank("dispatch") < Rank("catch") /\ Rank("catch") < Rank("finally")
    /\ Rank("try") < Rank("finally")
BY DEF Rank

(* The innermost construct goes to a later phase. *)
LEMMA InnermostMovesOn ==
    ASSUME TypeOK, acts # << >>, UNCHANGED entered, Len(acts') = Len(acts),
           Alike(acts, acts', Len(acts) - 1), acts'[Len(acts)].id = Innermost.id,
           Rank(Innermost.phase) < Rank(acts'[Len(acts)].phase)
    PROVE  MovesOn
<1>1. Len(acts) \in 1 .. Len(acts)
  BY InnermostFrame
<1> QED BY <1>1 DEF MovesOn, Alike, Kept, Innermost

(* A throw: longjmp resumes a construct whose body is running. *)
LEMMA RaiseMovesOn ==
    ASSUME MirrorInv, InUserCode, "escape" \notin slips, NEW e, Raise(e)
    PROVE  MovesOn
<1> DEFINE n == Len(acts)
<1>0. acts \in Seq(Acts) /\ n \in Nat /\ outcome = "running"
  BY MirrorTypes DEF InUserCode
<1>1. LandsNearest
  BY <1>0, RaiseGood DEF Good
<1>2. CASE outcome' # "running"
  BY <1>2 DEF MovesOn
<1>3. CASE outcome' = "running"
  <2>1. PICK k \in 1 .. n :
           /\ acts' = [SubSeq(acts, 1, k) EXCEPT ![k].phase = "landed"]
           /\ UNCHANGED entered
    BY <1>3 DEF Raise
  <2>2. /\ Len(acts') = k /\ k \in Nat
        /\ \A i \in 1 .. k - 1 : acts'[i] = acts[i]
        /\ acts'[k] = [acts[k] EXCEPT !.phase = "landed"]
    <3>1. acts' = Landed(acts, k)
      BY <2>1 DEF Landed
    <3>2. /\ Len(Landed(acts, k)) = k
          /\ \A i \in 1 .. k - 1 : Landed(acts, k)[i] = acts[i]
          /\ Landed(acts, k)[k] = [acts[k] EXCEPT !.phase = "landed"]
      BY <1>0, PrefixLands
    <3>3. k \in Nat
      BY <1>0
    <3> QED BY <3>1, <3>2, <3>3, Zenon
  <2>3. acts'[k].id = acts[k].id /\ acts'[k].phase = "landed"
    BY <2>2, MirrorTypes DEF Acts
  <2>4. acts[k].phase \in {"try", "catch", "finally"}
    <3>1. CASE k = n
      <4>1. acts # << >>
        BY <1>0, <3>1
      <4> QED BY <3>1, <4>1 DEF InUserCode, Innermost
    <3>2. CASE k # n
      <4>1. k \in 1 .. n - 1
        BY <1>0, <3>2
      <4> QED BY <4>1, MirrorTypes DEF Settled
    <3> QED BY <3>1, <3>2
  <2>5. acts[k].phase = "try"
    <3>1. k \in 1 .. Len(acts')
      BY <2>2
    <3> QED BY <1>1, <2>3, <2>4, <3>1 DEF LandsNearest, InTry
  <2> QED BY <2>1, <2>2, <2>3, <2>5, RankOrder DEF MovesOn, Kept
<1> QED BY <1>2, <1>3

LEMMA StepMovesOn ==
    ASSUME MirrorInv, outcome = "running", "escape" \notin slips, Orderly
    PROVE  MovesOn
<1>0. /\ TypeOK /\ acts \in Seq(Acts) /\ entered \in Nat
      /\ \A p \in {"try", "landed", "dispatch", "catch", "finally"} : p \in Phases
  BY MirrorTypes, EhAssumption DEF Phases, TypeOK
<1>1. CASE Enter
  <2>1. PICK a : acts' = Append(acts, a) /\ entered' = entered + 1
    BY <1>1 DEF Enter, EnterTry
  <2>2. Len(acts') = Len(acts) + 1 /\ \A i \in 1 .. Len(acts) : acts'[i] = acts[i]
    BY <1>0, <2>1
  <2> QED BY <2>1, <2>2 DEF MovesOn, Kept
<1>2. CASE TryCompletes
  <2>1. /\ acts # << >> /\ Innermost.phase = "try" /\ SetPhase("finally") /\ UNCHANGED entered
    BY <1>2 DEF TryCompletes, At
  <2> QED BY <1>0, <2>1, PhaseShape, InnermostMovesOn, RankOrder
<1>3. CASE Land
  <2>1. acts # << >> /\ Innermost.phase = "landed" /\ UNCHANGED entered
    BY <1>3 DEF Land, At
  <2> QED BY <1>0, <1>3, <2>1, LandShape, InnermostMovesOn, RankOrder
<1>4. CASE CatchMatches
  <2>1. acts # << >> /\ Innermost.phase = "dispatch" /\ SetPhase("catch") /\ UNCHANGED entered
    BY <1>4 DEF CatchMatches, At
  <2> QED BY <1>0, <2>1, PhaseShape, InnermostMovesOn, RankOrder
<1>5. CASE CatchCompletes
  <2>1. acts # << >> /\ Innermost.phase = "catch" /\ SetPhase("finally") /\ UNCHANGED entered
    BY <1>5 DEF CatchCompletes, At
  <2> QED BY <1>0, <2>1, PhaseShape, InnermostMovesOn, RankOrder
<1>6. CASE TryExprCompletes \/ LandInExpr \/ FinallyCompletes
  <2>1. acts # << >> /\ Leave /\ UNCHANGED entered
    BY <1>6 DEF TryExprCompletes, LandInExpr, FinallyCompletes, At
  <2>2. Len(acts') = Len(acts) - 1 /\ Alike(acts, acts', Len(acts'))
    BY <1>0, <2>1, LeaveShape
  <2> QED BY <2>1, <2>2 DEF MovesOn, Kept, Alike
<1>7. CASE Throw \/ DivideByZero
  BY <1>7, RaiseMovesOn DEF Throw, DivideByZero
<1>8. CASE ProgramEnds
  BY <1>8 DEF ProgramEnds, MovesOn
<1> QED BY <1>1, <1>2, <1>3, <1>4, <1>5, <1>6, <1>7, <1>8 DEF Orderly

(* Every step brings a program that slips in neither way nearer its end: no  *)
(* construct goes back to an earlier phase, so a catch or finally block that *)
(* has run is not run again by an error thrown inside it.                    *)
THEOREM OutwardSound == Spec => NeverBack
<1>1. MirrorInv /\ [Next]_vars => MirrorInv'
  BY MirrorNext
<1>2. MirrorInv /\ [Next]_vars => [slips' = {} /\ outcome = "running" => MovesOn]_vars
  <2> SUFFICES ASSUME MirrorInv, Next, slips' = {}, outcome = "running"
               PROVE  MovesOn
    OBVIOUS
  <2>1. Orderly /\ "escape" \notin slips
    BY DEF Next, Runs, Terminated
  <2> QED BY <2>1, StepMovesOn
<1> QED BY <1>1, <1>2, MirrorInit, PTL DEF Spec, NeverBack

-----------------------------------------------------------------------------
(* While a construct dispatches nothing else can happen. *)
LEMMA OnlyDispatch ==
    ASSUME At("dispatch"), Matches(Innermost.clauses, Innermost.err), Next
    PROVE  CatchMatches
<1>1. outcome = "running" /\ acts # << >> /\ Innermost.phase = "dispatch"
  BY DEF At
<1>2. ~InUserCode
  BY <1>1 DEF InUserCode
<1>3. ~Enter /\ ~Throw /\ ~DivideByZero /\ ~Escape
  BY <1>2 DEF Enter, EnterTry, Throw, DivideByZero, Escape
<1>4. /\ ~TryCompletes /\ ~TryExprCompletes /\ ~Land /\ ~LandInExpr
      /\ ~CatchCompletes /\ ~FinallyCompletes
  BY <1>1 DEF TryCompletes, TryExprCompletes, Land, LandInExpr, CatchCompletes,
              FinallyCompletes, At
<1>5. ~ProgramEnds /\ ~Rethrow /\ ~Terminated
  BY <1>1 DEF ProgramEnds, Rethrow, Terminated
<1> QED BY <1>3, <1>4, <1>5 DEF Next, Runs, Orderly

(* An error whose type is a root or a child of one goes, from a construct    *)
(* that catches the roots, straight into a catch block, in every program.    *)
THEOREM RootClauseSound == Spec => RootClauseNext
<1>1. MirrorInv /\ [Next]_vars => MirrorInv'
  BY MirrorNext
<1>2. ASSUME MirrorInv, Next, NEW k \in 1 .. Len(acts), acts[k].phase = "dispatch",
             CaughtByRoot(acts[k].clauses, acts[k].err), vars' # vars
      PROVE  /\ k = Len(acts) /\ Len(acts') = k /\ Kept(k - 1)
             /\ acts'[k].id = acts[k].id /\ acts'[k].phase = "catch"
  <2>1. TypeOK /\ Len(acts) \in Nat /\ Settled(acts)
    BY <1>2, MirrorTypes
  <2>2. k = Len(acts)
    <3>1. k # Len(acts) => k \in 1 .. Len(acts) - 1
      BY <2>1
    <3> QED BY <1>2, <2>1, <3>1 DEF Settled
  <2>3. acts # << >> /\ outcome = "running"
    <3>1. acts # << >>
      BY <2>1, <2>2
    <3>2. outcome # "running" => ~Runs
      BY DEF Runs, Orderly, Enter, EnterTry, InUserCode, TryCompletes, TryExprCompletes, At,
             Throw, DivideByZero, Land, LandInExpr, CatchMatches, CatchCompletes,
             FinallyCompletes, ProgramEnds, Escape, Rethrow
    <3> QED BY <1>2, <3>1, <3>2 DEF Next, Terminated
  <2>4. At("dispatch") /\ Matches(Innermost.clauses, Innermost.err)
    <3>1. Innermost = acts[k]
      BY <2>2 DEF Innermost
    <3>2. Matches(acts[k].clauses, acts[k].err)
      BY <1>2, Zenon DEF Matches, CaughtByRoot
    <3> QED BY <1>2, <2>3, <3>1, <3>2 DEF At
  <2>5. CatchMatches
    BY <1>2, <2>4, OnlyDispatch
  <2>6. SetPhase("catch") /\ "catch" \in Phases
    BY <2>5 DEF CatchMatches, Phases
  <2>7. /\ Len(acts') = Len(acts) /\ Alike(acts, acts', Len(acts) - 1)
        /\ acts'[Len(acts)].id = Innermost.id /\ acts'[Len(acts)].phase = "catch"
    BY <2>1, <2>3, <2>6, PhaseShape
  <2> QED BY <2>2, <2>7 DEF Alike, Kept, Innermost
<1>3. MirrorInv /\ [Next]_vars =>
        [ \A k \in 1 .. Len(acts) :
            acts[k].phase = "dispatch" /\ CaughtByRoot(acts[k].clauses, acts[k].err)
                => /\ k = Len(acts) /\ Len(acts') = k /\ Kept(k - 1)
                   /\ acts'[k].id = acts[k].id /\ acts'[k].phase = "catch" ]_vars
  BY <1>2
<1> QED BY <1>1, <1>3, MirrorInit, PTL DEF Spec, RootClauseNext
=============================================================================
