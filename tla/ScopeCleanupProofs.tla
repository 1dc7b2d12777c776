------------------------- MODULE ScopeCleanupProofs -------------------------
(* Proofs about ScopeCleanup, for programs of any length and nesting.        *)
EXTENDS ScopeCleanup, WellFoundedInduction, TLAPS

(* Sequences. *)
LEMMA PrefixFacts ==
    ASSUME NEW S, NEW s \in Seq(S), NEW n \in 0 .. Len(s)
    PROVE  /\ SubSeq(s, 1, n) \in Seq(S) /\ Len(SubSeq(s, 1, n)) = n
           /\ \A i \in 1 .. n : SubSeq(s, 1, n)[i] = s[i]
OBVIOUS

LEMMA PrefixOfPrefix ==
    ASSUME NEW S, NEW s \in Seq(S), NEW n \in 0 .. Len(s), NEW m \in 0 .. n
    PROVE  SubSeq(SubSeq(s, 1, n), 1, m) = SubSeq(s, 1, m)
OBVIOUS

LEMMA PrefixFull ==
    ASSUME NEW S, NEW s \in Seq(S)
    PROVE  SubSeq(s, 1, Len(s)) = s
OBVIOUS

LEMMA PrefixOfConcat ==
    ASSUME NEW S, NEW s \in Seq(S), NEW t \in Seq(S), NEW m \in 0 .. Len(s)
    PROVE  SubSeq(s \o t, 1, m) = SubSeq(s, 1, m)
OBVIOUS

LEMMA PrefixOfAppend ==
    ASSUME NEW S, NEW s \in Seq(S), NEW x \in S, NEW m \in 0 .. Len(s)
    PROVE  SubSeq(Append(s, x), 1, m) = SubSeq(s, 1, m)
OBVIOUS

LEMMA SuffixFacts ==
    ASSUME NEW S, NEW s \in Seq(S), NEW n \in 0 .. Len(s)
    PROVE  /\ SubSeq(s, n + 1, Len(s)) \in Seq(S)
           /\ Len(SubSeq(s, n + 1, Len(s))) = Len(s) - n
           /\ \A i \in 1 .. Len(s) - n : SubSeq(s, n + 1, Len(s))[i] = s[n + i]
OBVIOUS

LEMMA ReverseFacts ==
    ASSUME NEW S, NEW s \in Seq(S)
    PROVE  /\ Reverse(s) \in Seq(S) /\ Len(Reverse(s)) = Len(s)
           /\ \A i \in 1 .. Len(s) : Reverse(s)[i] = s[(Len(s) - i) + 1]
BY DEF Reverse

LEMMA AppendFacts ==
    ASSUME NEW S, NEW s \in Seq(S), NEW x \in S
    PROVE  /\ Append(s, x) \in Seq(S) /\ Len(Append(s, x)) = Len(s) + 1
           /\ Append(s, x)[Len(s) + 1] = x
           /\ \A i \in 1 .. Len(s) : Append(s, x)[i] = s[i]
OBVIOUS

LEMMA AppendIsConcat ==
    ASSUME NEW S, NEW s \in Seq(S), NEW x \in S
    PROVE  Append(s, x) = s \o <<x>>
OBVIOUS

LEMMA ConcatFacts ==
    ASSUME NEW S, NEW s \in Seq(S), NEW t \in Seq(S)
    PROVE  /\ s \o t \in Seq(S) /\ Len(s \o t) = Len(s) + Len(t)
           /\ \A i \in 1 .. Len(s) : (s \o t)[i] = s[i]
           /\ \A i \in 1 .. Len(t) : (s \o t)[Len(s) + i] = t[i]
OBVIOUS
-----------------------------------------------------------------------------

LEMMA SuffixType ==
    ASSUME NEW S, NEW s \in Seq(S), NEW m \in Nat
    PROVE  SubSeq(s, m + 1, Len(s)) \in Seq(S)
<1>1. CASE m <= Len(s)
  BY <1>1, SuffixFacts
<1>2. CASE m > Len(s)
  <2>1. SubSeq(s, m + 1, Len(s)) = << >>
    BY <1>2
  <2> QED BY <2>1
<1> QED BY <1>1, <1>2
-----------------------------------------------------------------------------
(* The invariants. *)

Entries == Cleanups \cup {Null}

LocalTypes ==
    /\ locals_ \in SUBSET Locals /\ consumed \in SUBSET Locals
    /\ terminated \in BOOLEAN /\ stmts \in 0 .. MaxStmts
    /\ val \in [Locals -> Values]
    /\ slips \in SUBSET Slips

StackTypes ==
    /\ deferStack_ \in Seq(Entries)
    /\ blocks \in Seq(Blocks)
    /\ skip \in 0 .. Len(blocks)
    /\ pending \in Seq(Entries) /\ ran \in Seq(Entries)
    /\ outcome \in {"running", "left", "spins", "crashed"}

(* The execution can pass by or break out of anything but these blocks. *)
SkipKind == skip # 0 => blocks[skip].kind \notin {"naked", "scope"}

(* The execution is not in dead code. *)
Alive == outcome = "running" /\ skip = 0 => terminated = FALSE

(* What holds of every program. *)
Core == StackTypes /\ SkipKind /\ Alive

(* Where the part of the k-th open block on deferStack_ ends. *)
End(k) == IF k = Len(blocks) THEN Len(deferStack_) ELSE blocks[k + 1].base

(* The blocks' parts of deferStack_ follow each other. *)
Nested ==
    /\ \A k \in 1 .. Len(blocks) : blocks[k].base <= Len(deferStack_)
    /\ \A j, k \in 1 .. Len(blocks) : j <= k => blocks[j].base <= blocks[k].base

(* A #scope's part has its callbacks only; loops, cases and try have none. *)
Parts ==
    \A k \in 1 .. Len(blocks) :
        /\ blocks[k].kind \notin {"if", "naked", "scope"} => End(k) = blocks[k].base
        /\ blocks[k].kind = "scope" =>
              \A i \in 1 .. Len(deferStack_) :
                  blocks[k].base < i /\ i <= End(k) => deferStack_[i] \in Callbacks

(* What holds of the compiler's stack while the text has not slipped: no     *)
(* resize() has made up an entry, and each block has its own part.           *)
TextInv == deferStack_ \in Seq(Cleanups) /\ Nested /\ Parts

(* What the execution has registered is what the compiler had on its stack   *)
(* where the two parted.                                                     *)
Met == IF skip = 0 THEN Len(deferStack_) ELSE blocks[skip].base

PendingExact == outcome = "running" => pending = SubSeq(deferStack_, 1, Met)

StackInv == Core /\ TextInv /\ PendingExact
-----------------------------------------------------------------------------
(* What holds of every program. *)

LEMMA BlockTypes ==
    ASSUME StackTypes
    PROVE  /\ Len(blocks) \in Nat
           /\ \A k \in 1 .. Len(blocks) : blocks[k].base \in Nat /\ blocks[k].kind \in Kinds
           /\ \A k \in 1 .. Len(blocks) : blocks[k].locals \in SUBSET Locals
                                        /\ blocks[k].consumed \in SUBSET Locals
<1>1. Len(blocks) \in Nat /\ \A k \in 1 .. Len(blocks) : blocks[k] \in Blocks
  BY DEF StackTypes
<1>2. \A b \in Blocks : /\ b.base \in Nat /\ b.kind \in Kinds
                        /\ b.locals \in SUBSET Locals /\ b.consumed \in SUBSET Locals
  BY DEF Blocks
<1> QED BY <1>1, <1>2

LEMMA EmitTypes ==
    ASSUME StackTypes, NEW es \in Seq(Entries), Emit(es)
    PROVE  pending' \in Seq(Entries) /\ ran' \in Seq(Entries)
<1>1. CASE skip = 0
  <2>1. ran' = es /\ pending' = Outstanding(es)
    BY <1>1 DEF Emit, Here
  <2>2. PICK n \in Int : n = Len(pending) - Len(es) /\ n <= Len(pending)
    <3>1. Len(pending) \in Nat /\ Len(es) \in Nat
      BY DEF StackTypes
    <3>2. Len(pending) - Len(es) \in Int /\ Len(pending) - Len(es) <= Len(pending)
      BY <3>1
    <3> QED BY <3>2
  <2>3. CASE n >= 0 /\ es = Reverse(SubSeq(pending, n + 1, Len(pending)))
    <3>1. pending' = SubSeq(pending, 1, n) /\ n \in 0 .. Len(pending)
      BY <2>1, <2>2, <2>3 DEF Outstanding
    <3> QED BY <2>1, <3>1, PrefixFacts DEF StackTypes
  <2>4. CASE ~(n >= 0 /\ es = Reverse(SubSeq(pending, n + 1, Len(pending))))
    <3>1. pending' = [i \in DOMAIN pending |-> IF pending[i] \in ToSet(es) THEN Null ELSE pending[i]]
      BY <2>1, <2>2, <2>4, Zenon DEF Outstanding
    <3>2. Null \in Entries /\ \A i \in DOMAIN pending : pending[i] \in Entries
      BY DEF StackTypes, Entries
    <3>3. DOMAIN pending = 1 .. Len(pending) /\ Len(pending) \in Nat
      BY DEF StackTypes
    <3> QED BY <2>1, <3>1, <3>2, <3>3
  <2> QED BY <2>3, <2>4
<1>2. CASE skip # 0
  <2>1. << >> \in Seq(Entries)
    OBVIOUS
  <2> QED BY <1>2, <2>1 DEF Emit, Here, StackTypes
<1> QED BY <1>1, <1>2

LEMMA EmittedTypes ==
    ASSUME StackTypes
    PROVE  /\ emitDeferredCleanups \in Seq(Entries)
           /\ \A n \in Nat : Above(n) \in Seq(Entries) /\ Resized(n) \in Seq(Entries)
<1>1. emitDeferredCleanups \in Seq(Entries)
  BY ReverseFacts DEF StackTypes, emitDeferredCleanups
<1>2. ASSUME NEW n \in Nat PROVE Above(n) \in Seq(Entries)
  <2>1. << >> \in Seq(Entries)
    OBVIOUS
  <2>2. PICK t \in Seq(Entries) : t = SubSeq(deferStack_, n + 1, Len(deferStack_))
    BY SuffixType DEF StackTypes
  <2>3. Reverse(t) \in Seq(Entries)
    BY ReverseFacts
  <2> QED BY <2>1, <2>2, <2>3 DEF Above
<1>3. ASSUME NEW n \in Nat PROVE Resized(n) \in Seq(Entries)
  <2>1. CASE n <= Len(deferStack_)
    <3>1. n \in 0 .. Len(deferStack_)
      BY <2>1 DEF StackTypes
    <3> QED BY <2>1, <3>1, PrefixFacts DEF Resized, StackTypes
  <2>2. CASE ~(n <= Len(deferStack_))
    <3>1. PICK m \in Nat : m = n - Len(deferStack_)
      BY <2>2 DEF StackTypes
    <3>2. PICK t \in Seq(Entries) : t = [i \in 1 .. m |-> Null]
      <4>1. [i \in 1 .. m |-> Null] \in Seq(Entries)
        BY DEF Entries
      <4> QED BY <4>1
    <3>3. Resized(n) = deferStack_ \o t
      BY <2>2, <3>1, <3>2 DEF Resized
    <3> QED BY <3>2, <3>3, ConcatFacts DEF StackTypes
  <2> QED BY <2>1, <2>2
<1> QED BY <1>1, <1>2, <1>3

(* Among open blocks there is an innermost one. *)
LEMMA InnermostFacts ==
    ASSUME StackTypes, NEW S \in SUBSET (1 .. Len(blocks)), S # {}
    PROVE  Innermost(S) \in S
<1>1. PICK n \in Nat : n = Len(blocks)
  BY DEF StackTypes
<1>2. IsWellFoundedOn({ss \in Nat \X Nat : ss[1] < ss[2]}, Nat)
  BY NatLessThanWellFounded, Zenon DEF OpToRel
<1>3. PICK T \in SUBSET Nat : T = {n - k : k \in S}
  <2>1. \A k \in S : n - k \in Nat
    BY <1>1
  <2>2. {n - k : k \in S} \subseteq Nat
    BY <2>1
  <2> QED BY <2>2
<1>4. T # {}
  BY <1>3
<1>5. PICK x \in T : \A y \in T : ~ (<<y, x>> \in {ss \in Nat \X Nat : ss[1] < ss[2]})
  BY <1>2, <1>4, WFMin, Zenon
<1>6. \A y \in T : x <= y
  <2>1. SUFFICES ASSUME NEW y \in T, y < x PROVE FALSE
    OBVIOUS
  <2>2. <<y, x>> \in Nat \X Nat /\ <<y, x>>[1] < <<y, x>>[2]
    BY <2>1
  <2> QED BY <1>5, <2>2
<1>7. PICK k \in S : x = n - k
  BY <1>3
<1>8. \A j \in S : j <= k
  <2>1. \A j \in S : n - j \in T
    BY <1>3
  <2> QED BY <1>1, <1>6, <1>7, <2>1
<1> QED BY <1>8 DEF Innermost

(* The block an error or a jump lands at. *)
LEMMA LandsAt ==
    ASSUME StackTypes
    PROVE  /\ TryBodies # {} => /\ Innermost(TryBodies) \in 1 .. Len(blocks)
                                /\ blocks[Innermost(TryBodies)].kind = "try"
           /\ LoopBlocks # {} => /\ Innermost(LoopBlocks) \in 1 .. Len(blocks)
                                 /\ blocks[Innermost(LoopBlocks)].kind \in Loops
<1>1. TryBodies \in SUBSET (1 .. Len(blocks)) /\ LoopBlocks \in SUBSET (1 .. Len(blocks))
  BY DEF TryBodies, LoopBlocks, Depth
<1>2. TryBodies # {} => Innermost(TryBodies) \in TryBodies
  BY <1>1, InnermostFacts
<1>3. LoopBlocks # {} => Innermost(LoopBlocks) \in LoopBlocks
  BY <1>1, InnermostFacts
<1> QED BY <1>1, <1>2, <1>3 DEF TryBodies, LoopBlocks, Depth

(* A statement: the open blocks stay; the execution goes on, leaves for the  *)
(* end of a block, or stops.                                                 *)
LEMMA CoreVisit ==
    ASSUME Core, outcome = "running", blocks' = blocks,
           deferStack_' \in Seq(Entries), pending' \in Seq(Entries), ran' \in Seq(Entries),
           outcome' \in {"running", "left", "spins"},
           \/ skip' = skip /\ (terminated' = terminated \/ skip # 0 \/ outcome' # "running")
           \/ skip' \in 1 .. Len(blocks) /\ blocks[skip'].kind \notin {"naked", "scope"}
    PROVE  Core'
<1>1. StackTypes'
  BY DEF Core, StackTypes
<1>2. SkipKind'
  BY DEF Core, SkipKind
<1>3. Alive'
  BY DEF Core, Alive
<1> QED BY <1>1, <1>2, <1>3 DEF Core

LEMMA CoreOpen ==
    ASSUME Core, LocalTypes, NEW kind \in Kinds, Opens(kind),
           deferStack_' \in Seq(Entries), pending' \in Seq(Entries), ran' \in Seq(Entries),
           Enters \/ (EntersOrNot /\ kind \notin {"naked", "scope"})
    PROVE  Core'
<1>1. PICK b \in Blocks : blocks' = Append(blocks, b) /\ b.kind = kind
  <2>1. Len(deferStack_) \in Nat
    BY DEF Core, StackTypes
  <2>2. [kind |-> kind, base |-> Len(deferStack_), locals |-> locals_, consumed |-> consumed] \in Blocks
    BY <2>1 DEF Blocks, LocalTypes
  <2> QED BY <2>2 DEF Opens
<1>2. /\ blocks' \in Seq(Blocks) /\ Len(blocks') = Len(blocks) + 1 /\ blocks'[Len(blocks')] = b
      /\ \A k \in 1 .. Len(blocks) : blocks'[k] = blocks[k]
      /\ Len(blocks) \in Nat
  BY <1>1, AppendFacts DEF Core, StackTypes
<1>3. outcome = "running" /\ outcome' = outcome /\ terminated' = terminated
  BY DEF Opens, CanVisit
<1>4. \/ skip' = skip
      \/ skip' = Len(blocks') /\ kind \notin {"naked", "scope"}
  BY <1>2 DEF Enters, EntersOrNot, Here, Depth
<1>5. skip' \in 0 .. Len(blocks')
  BY <1>2, <1>4 DEF Core, StackTypes
<1>6. StackTypes'
  BY <1>2, <1>3, <1>5 DEF Core, StackTypes
<1>7. SkipKind'
  BY <1>1, <1>2, <1>4 DEF Core, StackTypes, SkipKind
<1>8. Alive'
  <2>1. skip' = 0 => skip = 0
    BY <1>2, <1>4
  <2> QED BY <1>3, <2>1 DEF Core, Alive
<1> QED BY <1>6, <1>7, <1>8 DEF Core

(* Closing the innermost block. *)
LEMMA FrontFacts ==
    ASSUME StackTypes, blocks # << >>, blocks' = Front(blocks)
    PROVE  /\ Len(blocks) \in Nat \ {0} /\ blocks' \in Seq(Blocks) /\ Len(blocks') = Len(blocks) - 1
           /\ \A k \in 1 .. Len(blocks') : blocks'[k] = blocks[k]
<1>1. Len(blocks) \in Nat \ {0} /\ Len(blocks) - 1 \in 0 .. Len(blocks)
  BY DEF StackTypes
<1>2. blocks' = SubSeq(blocks, 1, Len(blocks) - 1)
  BY DEF Front
<1>3. blocks \in Seq(Blocks)
  BY DEF StackTypes
<1>4. /\ SubSeq(blocks, 1, Len(blocks) - 1) \in Seq(Blocks)
      /\ Len(SubSeq(blocks, 1, Len(blocks) - 1)) = Len(blocks) - 1
      /\ \A k \in 1 .. Len(blocks) - 1 : SubSeq(blocks, 1, Len(blocks) - 1)[k] = blocks[k]
  BY <1>1, <1>3, PrefixFacts, Zenon
<1> QED BY <1>1, <1>2, <1>4

LEMMA CoreClose ==
    ASSUME Core, outcome = "running", blocks # << >>, blocks' = Front(blocks), Resumes,
           deferStack_' \in Seq(Entries), pending' \in Seq(Entries), ran' \in Seq(Entries),
           outcome' \in {"running", "spins", "crashed"},
           \/ terminated' = FALSE
           \/ terminated' = terminated /\ Top.kind \in {"naked", "scope"}
    PROVE  Core'
<1>1. /\ Len(blocks) \in Nat \ {0} /\ blocks' \in Seq(Blocks) /\ Len(blocks') = Len(blocks) - 1
      /\ \A k \in 1 .. Len(blocks') : blocks'[k] = blocks[k]
  BY FrontFacts DEF Core
<1>2. Top = blocks[Len(blocks)] /\ skip' = IF skip = Len(blocks) THEN 0 ELSE skip
  BY DEF Top, Depth, Resumes
<1>3. skip' # 0 => skip' = skip /\ skip \in 1 .. Len(blocks')
  BY <1>1, <1>2 DEF Core, StackTypes
<1>4. skip' \in 0 .. Len(blocks')
  BY <1>1, <1>3
<1>5. StackTypes'
  BY <1>1, <1>4 DEF StackTypes
<1>6. SkipKind'
  BY <1>1, <1>3 DEF Core, SkipKind
<1>7. Alive'
  <2>1. skip' = 0 => skip = 0 \/ skip = Len(blocks)
    BY <1>2
  <2>2. skip = Len(blocks) => Top.kind \notin {"naked", "scope"}
    BY <1>1, <1>2 DEF Core, SkipKind
  <2> QED BY <2>1, <2>2 DEF Core, Alive
<1> QED BY <1>5, <1>6, <1>7 DEF Core

(* After a try body its catch clauses. *)
LEMMA CatchFacts ==
    ASSUME StackTypes, CloseTry
    PROVE  /\ outcome = "running" /\ Top = blocks[Len(blocks)] /\ Top.kind = "try"
           /\ Len(blocks) \in Nat \ {0} /\ Len(blocks) \in 1 .. Len(blocks)
           /\ skip' = IF skip = 0 THEN Len(blocks) ELSE IF skip = Len(blocks) THEN 0 ELSE skip
           /\ blocks' \in Seq(Blocks) /\ Len(blocks') = Len(blocks)
           /\ blocks'[Len(blocks)].kind = "catch"
           /\ \A k \in 1 .. Len(blocks) :
                 /\ blocks'[k].base = blocks[k].base
                 /\ blocks'[k].locals = blocks[k].locals /\ blocks'[k].consumed = blocks[k].consumed
                 /\ k # Len(blocks) => blocks'[k] = blocks[k]
<1>1. /\ outcome = "running" /\ blocks # << >> /\ Top = blocks[Len(blocks)] /\ Top.kind = "try"
      /\ blocks' = [blocks EXCEPT ![Len(blocks)].kind = "catch"]
      /\ skip' = (IF skip = 0 THEN Len(blocks) ELSE IF skip = Len(blocks) THEN 0 ELSE skip)
  BY DEF CloseTry, Closing, Top, Depth, Here
<1>2. Len(blocks) \in Nat \ {0} /\ Len(blocks) \in 1 .. Len(blocks)
  BY <1>1 DEF StackTypes
<1>3. Top \in Blocks
  BY <1>1, <1>2 DEF StackTypes
<1>4. PICK b \in Blocks : /\ b = [Top EXCEPT !.kind = "catch"] /\ b.base = Top.base
                         /\ b.kind = "catch"
                         /\ b.locals = Top.locals /\ b.consumed = Top.consumed
  <2>1. "catch" \in Kinds
    BY DEF Kinds
  <2>2. /\ [Top EXCEPT !.kind = "catch"] \in Blocks
        /\ [Top EXCEPT !.kind = "catch"].base = Top.base
        /\ [Top EXCEPT !.kind = "catch"].kind = "catch"
        /\ [Top EXCEPT !.kind = "catch"].locals = Top.locals
        /\ [Top EXCEPT !.kind = "catch"].consumed = Top.consumed
    BY <1>3, <2>1 DEF Blocks
  <2> QED BY <2>2
<1>5. blocks' = [blocks EXCEPT ![Len(blocks)] = b]
  BY <1>1, <1>4
<1>6. /\ blocks' \in Seq(Blocks) /\ Len(blocks') = Len(blocks) /\ blocks'[Len(blocks)] = b
      /\ \A k \in 1 .. Len(blocks) : k # Len(blocks) => blocks'[k] = blocks[k]
  BY <1>2, <1>5 DEF StackTypes
<1>7. \A k \in 1 .. Len(blocks) :
        /\ blocks'[k].base = blocks[k].base
        /\ blocks'[k].locals = blocks[k].locals /\ blocks'[k].consumed = blocks[k].consumed
  BY <1>1, <1>4, <1>6
<1> QED BY <1>1, <1>2, <1>4, <1>6, <1>7

LEMMA CoreCloseTry ==
    ASSUME Core, CloseTry
    PROVE  Core'
<1>1. /\ Len(blocks) \in Nat \ {0}
      /\ skip' = IF skip = 0 THEN Len(blocks) ELSE IF skip = Len(blocks) THEN 0 ELSE skip
      /\ blocks' \in Seq(Blocks) /\ Len(blocks') = Len(blocks)
      /\ blocks'[Len(blocks)].kind = "catch"
      /\ \A k \in 1 .. Len(blocks) : k # Len(blocks) => blocks'[k] = blocks[k]
  BY CatchFacts DEF Core
<1>2. terminated' = FALSE /\ Quiet /\ UNCHANGED <<deferStack_, outcome>>
  BY DEF CloseTry
<1>3. StackTypes'
  BY <1>1, <1>2 DEF Core, StackTypes, Quiet
<1>4. SkipKind'
  <2>1. CASE skip' = Len(blocks)
    BY <1>1, <2>1 DEF SkipKind
  <2>2. CASE skip' = skip /\ skip # 0 /\ skip # Len(blocks)
    BY <1>1, <2>2 DEF Core, StackTypes, SkipKind
  <2>3. CASE skip' = 0
    BY <2>3 DEF SkipKind
  <2> QED BY <1>1, <2>1, <2>2, <2>3
<1>5. Alive'
  BY <1>2 DEF Alive
<1> QED BY <1>3, <1>4, <1>5 DEF Core

LEMMA CoreStatement ==
    ASSUME Core, Defer \/ Declare \/ Consume \/ Return \/ Throw \/ CalleeThrows \/ Break \/ Continue
    PROVE  Core'
<1>e. << >> \in Seq(Entries)
  OBVIOUS
<1>q. Quiet => pending' \in Seq(Entries) /\ ran' \in Seq(Entries)
  BY <1>e DEF Quiet, Core, StackTypes
<1>r. Emit(emitDeferredCleanups) => pending' \in Seq(Entries) /\ ran' \in Seq(Entries)
  BY EmitTypes, EmittedTypes DEF Core
<1>s. deferStack_ \in Seq(Entries)
  BY DEF Core, StackTypes
<1>1. CASE Defer
  <2>1. PICK d \in Entries : /\ deferStack_' = Append(deferStack_, d)
                            /\ pending' = IF skip = 0 THEN Append(pending, d) ELSE pending
    BY <1>1 DEF Defer, Here, Entries, Cleanups
  <2>2. deferStack_' \in Seq(Entries) /\ pending' \in Seq(Entries)
    BY <2>1, AppendFacts DEF Core, StackTypes
  <2>3. /\ outcome = "running" /\ ran' = << >>
        /\ UNCHANGED <<blocks, skip, outcome, terminated>>
    BY <1>1 DEF Defer, CanVisit
  <2> QED BY <1>e, <2>2, <2>3, CoreVisit
<1>2. CASE Declare \/ Consume
  <2>1. /\ outcome = "running" /\ Quiet
        /\ UNCHANGED <<deferStack_, blocks, skip, outcome, terminated>>
    BY <1>2 DEF Declare, Consume, CanVisit
  <2> QED BY <1>q, <1>s, <2>1, CoreVisit
<1>3. CASE Return
  <2>1. /\ outcome = "running" /\ Emit(emitDeferredCleanups)
        /\ outcome' = (IF skip = 0 THEN "left" ELSE outcome)
        /\ UNCHANGED <<deferStack_, blocks, skip>>
    BY <1>3 DEF Return, CanVisit, Here
  <2> QED BY <1>r, <1>s, <2>1, CoreVisit
<1>4. CASE Throw \/ CalleeThrows
  <2>1. /\ outcome = "running" /\ UNCHANGED <<blocks, terminated>> /\ Unwinds
        /\ Quiet \/ Emit(emitDeferredCleanups)
        /\ deferStack_' = << >> \/ deferStack_' = deferStack_
    BY <1>4 DEF Throw, CalleeThrows, CanVisit
  <2>2. /\ outcome' \in {"running", "left"}
        /\ \/ skip' = skip
           \/ skip' \in 1 .. Len(blocks) /\ blocks[skip'].kind = "try"
    BY <2>1, LandsAt DEF Unwinds, Core
  <2> QED BY <1>e, <1>q, <1>r, <1>s, <2>1, <2>2, CoreVisit
<1>5. CASE Break \/ Continue
  <2>1. /\ outcome = "running" /\ Quiet /\ LoopBlocks # {} /\ UNCHANGED <<deferStack_, blocks>>
        /\ skip' = (IF skip = 0 THEN Innermost(LoopBlocks) ELSE skip)
        /\ outcome' \in {"running", "spins"}
    BY <1>5 DEF Break, Continue, Jumps, CanVisit, Here
  <2>2. \/ skip' = skip /\ skip # 0
        \/ skip' \in 1 .. Len(blocks) /\ blocks[skip'].kind \notin {"naked", "scope"}
    BY <2>1, LandsAt DEF Core, Loops
  <2> QED BY <1>q, <1>s, <2>1, <2>2, CoreVisit
<1> QED BY <1>1, <1>2, <1>3, <1>4, <1>5

LEMMA CoreOpens ==
    ASSUME Core, LocalTypes,
           OpenIf \/ OpenSwitch \/ OpenWhile \/ OpenDo \/ OpenLoop \/ OpenNaked \/ OpenTry \/ OpenScope
    PROVE  Core'
<1>1. ASSUME NEW kind \in Kinds, Opens(kind), Quiet, UNCHANGED deferStack_,
             Enters \/ (EntersOrNot /\ kind \notin {"naked", "scope"})
      PROVE  Core'
  <2>1. << >> \in Seq(Entries)
    OBVIOUS
  <2>2. deferStack_' \in Seq(Entries) /\ pending' \in Seq(Entries) /\ ran' \in Seq(Entries)
    BY <1>1, <2>1 DEF Quiet, Core, StackTypes
  <2> QED BY <1>1, <2>2, CoreOpen
<1>2. CASE OpenIf \/ OpenSwitch \/ OpenWhile
  BY <1>1, <1>2 DEF OpenIf, OpenSwitch, OpenWhile, Kinds
<1>3. CASE OpenDo \/ OpenLoop \/ OpenNaked \/ OpenTry
  BY <1>1, <1>3 DEF OpenDo, OpenLoop, OpenNaked, OpenTry, Kinds
<1>4. CASE OpenScope
  <2>1. Opens("scope") /\ Enters /\ ran' = << >> /\ "scope" \in Kinds
    BY <1>4 DEF OpenScope, Kinds
  <2>2. PICK c \in Callbacks : \E cbs \in {<<c>>} \cup {<<c, d>> : d \in Callbacks \ {c}} :
          /\ deferStack_' = deferStack_ \o cbs
          /\ pending' = IF skip = 0 THEN pending \o cbs ELSE pending
    BY <1>4 DEF OpenScope, Here
  <2>3. PICK cbs \in {<<c>>} \cup {<<c, d>> : d \in Callbacks \ {c}} :
          /\ deferStack_' = deferStack_ \o cbs
          /\ pending' = IF skip = 0 THEN pending \o cbs ELSE pending
    BY <2>2
  <2>4. cbs \in Seq(Entries) /\ << >> \in Seq(Entries)
    <3>1. CASE cbs = <<c>>
      BY <3>1 DEF Entries, Cleanups
    <3>2. CASE \E d \in Callbacks : cbs = <<c, d>>
      BY <3>2 DEF Entries, Cleanups
    <3> QED BY <3>1, <3>2
  <2>5. deferStack_' \in Seq(Entries) /\ pending' \in Seq(Entries) /\ ran' \in Seq(Entries)
    BY <2>1, <2>3, <2>4, ConcatFacts DEF Core, StackTypes
  <2> QED BY <2>1, <2>5, CoreOpen
<1> QED BY <1>2, <1>3, <1>4

LEMMA CoreCloses ==
    ASSUME Core, CloseIf \/ CloseNaked \/ CloseScope \/ CloseSwitch \/ CloseLoop \/ CloseCatch
    PROVE  Core'
<1>1. /\ outcome = "running" /\ blocks # << >> /\ blocks' = Front(blocks) /\ Resumes
      /\ outcome' \in {"running", "spins", "crashed"}
      /\ terminated' = FALSE \/ (terminated' = terminated /\ Top.kind \in {"naked", "scope"})
      /\ Quiet \/ Emit(Above(Top.base))
      /\ deferStack_' = deferStack_ \/ deferStack_' = Resized(Top.base)
  BY DEF CloseIf, CloseNaked, CloseScope, CloseSwitch, CloseLoop, CloseCatch, Closing, LeaveScope
<1>2. Top.base \in Nat
  <2>1. Top = blocks[Len(blocks)] /\ Len(blocks) \in 1 .. Len(blocks)
    BY <1>1 DEF Top, Depth, Core, StackTypes
  <2> QED BY <2>1, BlockTypes DEF Core
<1>3. deferStack_' \in Seq(Entries)
  BY <1>1, <1>2, EmittedTypes DEF Core, StackTypes
<1>4. pending' \in Seq(Entries) /\ ran' \in Seq(Entries)
  <2>1. << >> \in Seq(Entries)
    OBVIOUS
  <2>2. CASE Quiet
    BY <2>1, <2>2 DEF Quiet, Core, StackTypes
  <2>3. CASE Emit(Above(Top.base))
    BY <1>2, <2>3, EmitTypes, EmittedTypes DEF Core
  <2> QED BY <1>1, <2>2, <2>3
<1> QED BY <1>1, <1>3, <1>4, CoreClose

LEMMA CoreStep ==
    ASSUME Core, LocalTypes, [Next]_vars
    PROVE  Core'
<1>1. CASE Defer \/ Declare \/ Consume \/ Return \/ Throw \/ CalleeThrows \/ Break \/ Continue
  BY <1>1, CoreStatement
<1>2. CASE OpenIf \/ OpenSwitch \/ OpenWhile \/ OpenDo \/ OpenLoop \/ OpenNaked \/ OpenTry \/ OpenScope
  BY <1>2, CoreOpens
<1>3. CASE CloseIf \/ CloseNaked \/ CloseScope \/ CloseSwitch \/ CloseLoop \/ CloseCatch
  BY <1>3, CoreCloses
<1>4. CASE CloseTry
  BY <1>4, CoreCloseTry
<1>5. CASE EndFunction
  <2>1. /\ outcome = "running" /\ Emit(emitDeferredCleanups)
        /\ outcome' = "left" /\ UNCHANGED <<deferStack_, blocks, skip>>
    BY <1>5 DEF EndFunction, compiler
  <2>2. pending' \in Seq(Entries) /\ ran' \in Seq(Entries) /\ deferStack_' \in Seq(Entries)
    BY <2>1, EmitTypes, EmittedTypes DEF Core, StackTypes
  <2> QED BY <2>1, <2>2, CoreVisit
<1>6. CASE UNCHANGED vars
  BY <1>6 DEF vars, compiler, execution, Core, StackTypes, SkipKind, Alive
<1> QED BY <1>1, <1>2, <1>3, <1>4, <1>5, <1>6 DEF Next, Finished

-----------------------------------------------------------------------------
(* Types of the locals. *)

LEMMA FreedType == ASSUME NEW v \in Values PROVE Freed(v) \in Values
BY DEF Freed, Values

LEMMA DropType ==
    ASSUME LocalTypes, NEW ls, Drop(ls)
    PROVE  val' \in [Locals -> Values]
<1>1. \A l \in Locals : Freed(val[l]) \in Values /\ val[l] \in Values
  BY FreedType DEF LocalTypes
<1> QED BY <1>1 DEF Drop

LEMMA LeaveScopeTypes ==
    ASSUME LocalTypes, Core, blocks # << >>, LeaveScope
    PROVE  /\ val' \in [Locals -> Values]
           /\ locals_' \in SUBSET Locals /\ consumed' \in SUBSET Locals
<1>1. Drop(IF terminated THEN {} ELSE locals_ \ Top.locals)
  BY DEF LeaveScope
<1>2. Top.locals \in SUBSET Locals /\ Top.consumed \in SUBSET Locals
  <2>1. Top = blocks[Len(blocks)] /\ Len(blocks) \in 1 .. Len(blocks)
    BY DEF Top, Depth, Core, StackTypes
  <2> QED BY <2>1, BlockTypes DEF Core
<1> QED BY <1>1, <1>2, DropType DEF LeaveScope

(* Slips are remembered, and only statements slip. *)
LEMMA SlipStep ==
    ASSUME LocalTypes, [Next]_vars
    PROVE  slips \subseteq slips' /\ slips' \in SUBSET Slips
<1>1. CASE Defer
  BY <1>1 DEF Defer, LocalTypes, Slip, Slips
<1>2. CASE Consume
  BY <1>2 DEF Consume, LocalTypes, Slip, Slips
<1>3. CASE Throw
  BY <1>3 DEF Throw, LocalTypes, Slip, Slips
<1>4. CASE CalleeThrows
  BY <1>4 DEF CalleeThrows, LocalTypes, Slip, Slips
<1>5. CASE Break \/ Continue
  BY <1>5 DEF Break, Continue, Jumps, LocalTypes, Slip, Slips
<1>6. CASE Declare \/ Return
  BY <1>6 DEF Declare, Return, LocalTypes
<1>7. CASE OpenIf \/ OpenSwitch \/ OpenWhile \/ OpenDo \/ OpenLoop \/ OpenNaked \/ OpenTry
           \/ OpenScope
  BY <1>7 DEF OpenIf, OpenSwitch, OpenWhile, OpenDo, OpenLoop, OpenNaked, OpenTry, OpenScope,
              Opens, LocalTypes
<1>8. CASE CloseIf \/ CloseNaked \/ CloseScope \/ CloseSwitch \/ CloseLoop \/ CloseTry \/ CloseCatch
  BY <1>8 DEF CloseIf, CloseNaked, CloseScope, CloseSwitch, CloseLoop, CloseTry, CloseCatch, LocalTypes
<1>9. CASE EndFunction \/ UNCHANGED vars
  BY <1>9 DEF EndFunction, vars, LocalTypes
<1> QED
  BY <1>1, <1>2, <1>3, <1>4, <1>5, <1>6, <1>7, <1>8, <1>9 DEF Next, Finished

LEMMA LocalStep ==
    ASSUME Core, LocalTypes, [Next]_vars
    PROVE  LocalTypes'
<1>s. slips' \in SUBSET Slips
  BY SlipStep
<1>1. CASE Defer
  BY <1>1, <1>s, CleanupAssumption DEF Defer, CanVisit, Visit, LocalTypes
<1>2. CASE Declare
  <2>1. /\ stmts' \in 0 .. MaxStmts /\ terminated' = terminated
        /\ locals_' \in SUBSET Locals /\ consumed' \in SUBSET Locals
    BY <1>2, CleanupAssumption DEF Declare, CanVisit, Visit, LocalTypes
  <2>2. val' \in [Locals -> Values]
    BY <1>2 DEF Declare, LocalTypes, Values
  <2> QED BY <1>s, <2>1, <2>2 DEF LocalTypes
<1>3. CASE Consume
  <2>1. /\ stmts' \in 0 .. MaxStmts /\ terminated' = terminated
        /\ locals_' = locals_ /\ consumed' \in SUBSET Locals
    BY <1>3, CleanupAssumption DEF Consume, CanVisit, Visit, LocalTypes
  <2>2. val' \in [Locals -> Values]
    BY <1>3 DEF Consume, LocalTypes, Values
  <2> QED BY <1>s, <2>1, <2>2 DEF LocalTypes
<1>4. CASE Return
  <2>1. stmts' \in 0 .. MaxStmts /\ terminated' = TRUE /\ UNCHANGED <<locals_, consumed>>
    BY <1>4, CleanupAssumption DEF Return, CanVisit, Visit, LocalTypes
  <2>2. val' \in [Locals -> Values]
    <3>1. CASE Drop(locals_)
      BY <3>1, DropType
    <3>2. CASE \E l \in locals_ : val' = [m \in Locals |->
                          IF ~Here THEN val[m]
                          ELSE IF m = l THEN "moved"
                          ELSE IF m \in locals_ \ consumed THEN Freed(val[m]) ELSE val[m]]
      <4>1. \A l \in Locals : Freed(val[l]) \in Values /\ val[l] \in Values
        BY FreedType DEF LocalTypes
      <4> QED BY <3>2, <4>1 DEF Values
    <3> QED BY <1>4, <3>1, <3>2 DEF Return
  <2> QED BY <1>s, <2>1, <2>2 DEF LocalTypes
<1>5. CASE Throw
  <2>1. stmts' \in 0 .. MaxStmts /\ UNCHANGED <<locals_, consumed, terminated>> /\ Drop(locals_)
    BY <1>5, CleanupAssumption DEF Throw, CanVisit, Visit, LocalTypes
  <2> QED BY <1>s, <2>1, DropType DEF LocalTypes
<1>6. CASE CalleeThrows
  BY <1>6, <1>s, CleanupAssumption DEF CalleeThrows, CanVisit, Visit, LocalTypes
<1>7. CASE Break
  <2>1. /\ stmts' \in 0 .. MaxStmts /\ UNCHANGED <<locals_, consumed>> /\ terminated' = TRUE
        /\ Drop(locals_ \ blocks[Innermost(LoopBlocks)].locals)
    BY <1>7, CleanupAssumption DEF Break, CanVisit, Visit, LocalTypes
  <2> QED BY <1>s, <2>1, DropType DEF LocalTypes
<1>8. CASE Continue
  <2>1. /\ stmts' \in 0 .. MaxStmts /\ UNCHANGED <<locals_, consumed>> /\ terminated' = TRUE
        /\ Drop(locals_ \ blocks[Innermost(LoopBlocks)].locals)
    BY <1>8, CleanupAssumption DEF Continue, CanVisit, Visit, LocalTypes
  <2> QED BY <1>s, <2>1, DropType DEF LocalTypes
<1>9. ASSUME NEW kind, Opens(kind) PROVE LocalTypes'
  BY <1>9, <1>s, CleanupAssumption DEF Opens, CanVisit, Visit, LocalTypes
<1>10. CASE OpenIf \/ OpenSwitch \/ OpenWhile \/ OpenDo \/ OpenLoop \/ OpenNaked \/ OpenTry
            \/ OpenScope
  BY <1>9, <1>10
     DEF OpenIf, OpenSwitch, OpenWhile, OpenDo, OpenLoop, OpenNaked, OpenTry, OpenScope
<1>11. CASE CloseIf \/ CloseNaked \/ CloseScope \/ CloseSwitch \/ CloseLoop
  <2>1. /\ LeaveScope /\ blocks # << >> /\ stmts' = stmts
        /\ terminated' = FALSE \/ terminated' = terminated
    BY <1>11 DEF CloseIf, CloseNaked, CloseScope, CloseSwitch, CloseLoop, Closing
  <2>2. terminated' \in BOOLEAN
    BY <2>1 DEF LocalTypes
  <2> QED BY <1>s, <2>1, <2>2, LeaveScopeTypes DEF LocalTypes
<1>12. CASE CloseTry \/ CloseCatch
  BY <1>12, <1>s DEF CloseTry, CloseCatch, LocalTypes
<1>13. CASE EndFunction
  BY <1>13, <1>s, DropType DEF EndFunction, compiler, LocalTypes
<1>14. CASE UNCHANGED vars
  BY <1>14, <1>s DEF vars, compiler, execution, LocalTypes
<1> QED
  BY <1>1, <1>2, <1>3, <1>4, <1>5, <1>6, <1>7, <1>8, <1>10, <1>11, <1>12, <1>13, <1>14
     DEF Next, Finished

-----------------------------------------------------------------------------
(* The compiler's stack while the text has not slipped. *)

LEMMA TextStays ==
    ASSUME TextInv, UNCHANGED <<deferStack_, blocks>>
    PROVE  TextInv'
BY DEF TextInv, Nested, Parts, End

(* A defer is registered. *)
LEMMA TextGrows ==
    ASSUME StackTypes, TextInv, NEW t \in Seq(Cleanups),
           deferStack_' = deferStack_ \o t, blocks' = blocks,
           blocks # << >> => blocks[Len(blocks)].kind \in {"if", "naked"}
    PROVE  TextInv'
<1>1. /\ deferStack_' \in Seq(Cleanups)
      /\ Len(deferStack_) \in Nat /\ Len(t) \in Nat /\ Len(deferStack_') = Len(deferStack_) + Len(t)
      /\ \A i \in 1 .. Len(deferStack_) : deferStack_'[i] = deferStack_[i]
  BY ConcatFacts DEF TextInv
<1>2. Len(blocks) \in Nat /\ \A k \in 1 .. Len(blocks) : blocks[k].base \in Nat
  BY BlockTypes
<1>3. Nested'
  BY <1>1, <1>2 DEF TextInv, Nested
<1>4. Parts'
  <2>1. SUFFICES ASSUME NEW k \in 1 .. Len(blocks)
                 PROVE  /\ blocks[k].kind \notin {"if", "naked", "scope"} => End(k)' = blocks[k].base
                        /\ blocks[k].kind = "scope" =>
                              \A i \in 1 .. Len(deferStack_') :
                                  blocks[k].base < i /\ i <= End(k)' => deferStack_'[i] \in Callbacks
    BY DEF Parts
  <2>2. CASE k = Len(blocks)
    <3>1. blocks # << >>
      BY <1>2, <2>2 DEF StackTypes
    <3> QED BY <2>2, <3>1
  <2>3. CASE k # Len(blocks)
    <3>1. End(k) = blocks[k + 1].base /\ End(k)' = End(k) /\ k + 1 \in 1 .. Len(blocks)
      BY <1>2, <2>3 DEF End
    <3>2. End(k) <= Len(deferStack_) /\ End(k) \in Nat
      BY <1>2, <3>1 DEF TextInv, Nested
    <3>3. \A i \in 1 .. Len(deferStack_') : i <= End(k) => i \in 1 .. Len(deferStack_)
      BY <1>1, <3>2
    <3> QED BY <1>1, <3>1, <3>3 DEF TextInv, Parts
  <2> QED BY <2>2, <2>3
<1> QED BY <1>1, <1>3, <1>4 DEF TextInv

(* A block is opened; a #scope registers its callbacks. *)
LEMMA TextOpens ==
    ASSUME StackTypes, TextInv, NEW b \in Blocks, NEW t \in Seq(Cleanups),
           blocks' = Append(blocks, b), b.base = Len(deferStack_),
           deferStack_' = deferStack_ \o t,
           b.kind # "scope" => t = << >>,
           \A i \in 1 .. Len(t) : t[i] \in Callbacks
    PROVE  TextInv'
<1>1. /\ deferStack_' \in Seq(Cleanups)
      /\ Len(deferStack_) \in Nat /\ Len(t) \in Nat /\ Len(deferStack_') = Len(deferStack_) + Len(t)
      /\ \A i \in 1 .. Len(deferStack_) : deferStack_'[i] = deferStack_[i]
      /\ \A i \in 1 .. Len(t) : deferStack_'[Len(deferStack_) + i] = t[i]
  BY ConcatFacts DEF TextInv
<1>2. /\ Len(blocks') = Len(blocks) + 1 /\ blocks'[Len(blocks')] = b
      /\ \A k \in 1 .. Len(blocks) : blocks'[k] = blocks[k]
      /\ Len(blocks) \in Nat
  BY AppendFacts DEF StackTypes
<1>3. /\ \A k \in 1 .. Len(blocks) : blocks[k].base \in Nat /\ blocks[k].base <= Len(deferStack_)
      /\ \A k \in 1 .. Len(blocks') : k \in 1 .. Len(blocks) \/ k = Len(blocks')
  <2>1. \A k \in 1 .. Len(blocks') : k \in 1 .. Len(blocks) \/ k = Len(blocks')
    BY <1>2
  <2>2. \A k \in 1 .. Len(blocks) : blocks[k].base \in Nat
    BY BlockTypes
  <2> QED BY <2>1, <2>2 DEF TextInv, Nested
<1>5. Nested'
  <2>1. \A k \in 1 .. Len(blocks') : blocks'[k].base <= Len(deferStack_')
    BY <1>1, <1>2, <1>3
  <2>2. ASSUME NEW j \in 1 .. Len(blocks'), NEW k \in 1 .. Len(blocks'), j <= k
        PROVE  blocks'[j].base <= blocks'[k].base
    <3>1. CASE k \in 1 .. Len(blocks)
      <4>1. j \in 1 .. Len(blocks)
        BY <1>2, <2>2, <3>1
      <4> QED BY <1>2, <2>2, <3>1, <4>1 DEF TextInv, Nested
    <3>2. CASE k = Len(blocks')
      BY <1>1, <1>2, <1>3, <3>2
    <3> QED BY <1>3, <3>1, <3>2
  <2> QED BY <2>1, <2>2 DEF Nested
<1>6. Parts'
  <2>1. SUFFICES ASSUME NEW k \in 1 .. Len(blocks')
                 PROVE  /\ blocks'[k].kind \notin {"if", "naked", "scope"} => End(k)' = blocks'[k].base
                        /\ blocks'[k].kind = "scope" =>
                              \A i \in 1 .. Len(deferStack_') :
                                  blocks'[k].base < i /\ i <= End(k)' => deferStack_'[i] \in Callbacks
    BY DEF Parts
  <2>2. CASE k = Len(blocks')
    <3>1. End(k)' = Len(deferStack_') /\ blocks'[k] = b
      BY <1>2, <2>2 DEF End
    <3>2. b.kind # "scope" => Len(deferStack_') = Len(deferStack_)
      BY <1>1
    <3>3. ASSUME NEW i \in 1 .. Len(deferStack_'), b.base < i
          PROVE  deferStack_'[i] \in Callbacks
      <4>1. PICK j \in 1 .. Len(t) : i = Len(deferStack_) + j
        <5>1. i - Len(deferStack_) \in 1 .. Len(t) /\ i = Len(deferStack_) + (i - Len(deferStack_))
          BY <1>1, <3>3
        <5> QED BY <5>1
      <4> QED BY <1>1, <4>1
    <3> QED BY <3>1, <3>2, <3>3
  <2>3. CASE k \in 1 .. Len(blocks)
    <3>1. End(k)' = End(k) /\ blocks'[k] = blocks[k]
      <4>1. CASE k = Len(blocks)
        <5>1. End(k) = Len(deferStack_) /\ k + 1 = Len(blocks') /\ k # Len(blocks')
          BY <1>2, <4>1 DEF End
        <5>2. End(k)' = blocks'[k + 1].base
          BY <5>1 DEF End
        <5> QED BY <1>2, <2>3, <5>1, <5>2
      <4>2. CASE k # Len(blocks)
        <5>1. k + 1 \in 1 .. Len(blocks) /\ k # Len(blocks')
          BY <1>2, <2>3, <4>2
        <5>2. End(k) = blocks[k + 1].base /\ End(k)' = blocks'[k + 1].base
          BY <4>2, <5>1 DEF End
        <5> QED BY <1>2, <2>3, <5>1, <5>2
      <4> QED BY <4>1, <4>2
    <3>2. End(k) <= Len(deferStack_) /\ End(k) \in Nat
      <4>1. k # Len(blocks) => k + 1 \in 1 .. Len(blocks)
        BY <1>2, <2>3
      <4> QED BY <1>1, <1>3, <4>1 DEF End
    <3>3. \A i \in 1 .. Len(deferStack_') : i <= End(k) => i \in 1 .. Len(deferStack_)
      BY <1>1, <3>2
    <3> QED BY <1>1, <2>3, <3>1, <3>3 DEF TextInv, Parts
  <2> QED BY <1>3, <2>2, <2>3
<1> QED BY <1>1, <1>5, <1>6 DEF TextInv

(* The innermost block is closed and its part of deferStack_ dropped. *)
LEMMA TextCloses ==
    ASSUME StackTypes, TextInv, blocks # << >>, blocks' = Front(blocks),
           deferStack_' = SubSeq(deferStack_, 1, blocks[Len(blocks)].base)
    PROVE  TextInv'
<1>1. PICK n \in Nat : n = blocks[Len(blocks)].base /\ n <= Len(deferStack_)
  <2>1. Len(blocks) \in 1 .. Len(blocks)
    BY DEF StackTypes
  <2> QED BY <2>1, BlockTypes DEF TextInv, Nested
<1>2. /\ Len(blocks) \in Nat \ {0} /\ Len(blocks') = Len(blocks) - 1
      /\ \A k \in 1 .. Len(blocks') : blocks'[k] = blocks[k]
  BY FrontFacts
<1>3. /\ Len(deferStack_) \in Nat /\ n \in 0 .. Len(deferStack_)
      /\ deferStack_' = SubSeq(deferStack_, 1, n) /\ deferStack_' \in Seq(Cleanups)
      /\ Len(deferStack_') = n /\ \A i \in 1 .. n : deferStack_'[i] = deferStack_[i]
  <2>1. Len(deferStack_) \in Nat /\ n \in 0 .. Len(deferStack_)
    BY <1>1 DEF TextInv
  <2> QED BY <1>1, <2>1, PrefixFacts DEF TextInv
<1>4. \A k \in 1 .. Len(blocks') : k \in 1 .. Len(blocks) /\ k + 1 \in 1 .. Len(blocks) /\ k # Len(blocks)
  BY <1>2
<1>5. \A k \in 1 .. Len(blocks) : blocks[k].base \in Nat /\ blocks[k].base <= n
  <2>1. \A k \in 1 .. Len(blocks) : k <= Len(blocks) /\ Len(blocks) \in 1 .. Len(blocks)
    BY <1>2
  <2> QED BY <1>1, <2>1, BlockTypes DEF TextInv, Nested
<1>8. Nested'
  BY <1>2, <1>3, <1>4, <1>5 DEF TextInv, Nested
<1>9. Parts'
  <2>1. \A k \in 1 .. Len(blocks') : End(k)' = End(k)
    <3>1. SUFFICES ASSUME NEW k \in 1 .. Len(blocks') PROVE End(k)' = End(k)
      OBVIOUS
    <3>2. End(k) = blocks[k + 1].base
      BY <1>4 DEF End
    <3>3. CASE k = Len(blocks')
      <4>1. End(k)' = Len(deferStack_') /\ k + 1 = Len(blocks)
        BY <1>2, <3>3 DEF End
      <4> QED BY <1>1, <1>3, <3>2, <4>1
    <3>4. CASE k # Len(blocks')
      <4>1. End(k)' = blocks'[k + 1].base /\ k + 1 \in 1 .. Len(blocks')
        BY <1>2, <3>4 DEF End
      <4> QED BY <1>2, <3>2, <4>1
    <3> QED BY <3>3, <3>4
  <2>2. \A i \in 1 .. Len(deferStack_') : i \in 1 .. Len(deferStack_) /\ deferStack_'[i] = deferStack_[i]
    BY <1>3
  <2>3. SUFFICES ASSUME NEW k \in 1 .. Len(blocks')
                 PROVE  /\ blocks'[k].kind \notin {"if", "naked", "scope"} => End(k)' = blocks'[k].base
                        /\ blocks'[k].kind = "scope" =>
                              \A i \in 1 .. Len(deferStack_') :
                                  blocks'[k].base < i /\ i <= End(k)' => deferStack_'[i] \in Callbacks
    BY DEF Parts
  <2>4. blocks'[k] = blocks[k] /\ k \in 1 .. Len(blocks) /\ End(k)' = End(k)
    BY <1>2, <1>4, <2>1
  <2> QED BY <2>2, <2>4 DEF TextInv, Parts
<1> QED BY <1>3, <1>8, <1>9 DEF TextInv

(* A block that registers nothing of its own has no part to drop. *)
LEMMA OtherBase ==
    ASSUME StackTypes, TextInv, blocks # << >>, Top.kind \notin {"if", "naked", "scope"}
    PROVE  Top.base = Len(deferStack_) /\ SubSeq(deferStack_, 1, Top.base) = deferStack_
<1>1. Top = blocks[Len(blocks)] /\ Len(blocks) \in 1 .. Len(blocks)
  BY DEF Top, Depth, StackTypes
<1>2. Top.base = Len(deferStack_)
  BY <1>1 DEF TextInv, Parts, End
<1> QED BY <1>2, PrefixFull DEF TextInv

(* What a block that emits its part drops. *)
LEMMA OwnBase ==
    ASSUME StackTypes, TextInv, blocks # << >>
    PROVE  /\ Top.base \in 0 .. Len(deferStack_) /\ Top = blocks[Len(blocks)]
           /\ Resized(Top.base) = SubSeq(deferStack_, 1, Top.base)
<1>1. Top = blocks[Len(blocks)] /\ Len(blocks) \in 1 .. Len(blocks) /\ Len(deferStack_) \in Nat
  BY DEF Top, Depth, StackTypes
<1>2. Top.base \in Nat /\ Top.base <= Len(deferStack_)
  BY <1>1, BlockTypes DEF TextInv, Nested
<1> QED BY <1>1, <1>2 DEF Resized

(* Above a #scope's base there are callbacks only: the compiler can emit all *)
(* it finds.                                                                 *)
LEMMA ScopeAbove ==
    ASSUME StackTypes, TextInv, blocks # << >>, Top.kind = "scope"
    PROVE  \A i \in DOMAIN Above(Top.base) : Above(Top.base)[i] \in Callbacks
<1>1. CASE terminated
  BY <1>1 DEF Above
<1>2. CASE ~terminated
  <2>1. Top = blocks[Len(blocks)] /\ Len(blocks) \in 1 .. Len(blocks)
    BY DEF Top, Depth, StackTypes
  <2>2. Top.base \in 0 .. Len(deferStack_) /\ Len(deferStack_) \in Nat
    <3>1. Top.base \in Nat /\ Top.base <= Len(deferStack_) /\ Len(deferStack_) \in Nat
      BY <2>1, BlockTypes DEF TextInv, StackTypes, Nested
    <3> QED BY <3>1
  <2>3. PICK n \in 0 .. Len(deferStack_) : n = Top.base
    BY <2>2
  <2>4. PICK t \in Seq(Cleanups) :
          /\ t = SubSeq(deferStack_, n + 1, Len(deferStack_)) /\ Len(t) = Len(deferStack_) - n
          /\ \A i \in 1 .. Len(deferStack_) - n : t[i] = deferStack_[n + i]
    <3>1. deferStack_ \in Seq(Cleanups)
      BY DEF TextInv
    <3>2. /\ SubSeq(deferStack_, n + 1, Len(deferStack_)) \in Seq(Cleanups)
          /\ Len(SubSeq(deferStack_, n + 1, Len(deferStack_))) = Len(deferStack_) - n
          /\ \A i \in 1 .. Len(deferStack_) - n :
                SubSeq(deferStack_, n + 1, Len(deferStack_))[i] = deferStack_[n + i]
      BY <3>1, SuffixFacts, Zenon
    <3> QED BY <3>2, Zenon
  <2>5. \A i \in 1 .. Len(deferStack_) : n < i => deferStack_[i] \in Callbacks
    BY <2>1, <2>3 DEF TextInv, Parts, End
  <2>6. \A i \in 1 .. Len(t) : t[i] \in Callbacks
    <3>1. SUFFICES ASSUME NEW i \in 1 .. Len(t) PROVE t[i] \in Callbacks
      OBVIOUS
    <3>2. i \in 1 .. Len(deferStack_) - n /\ n + i \in 1 .. Len(deferStack_) /\ n < n + i
      BY <2>2, <2>4
    <3> QED BY <2>4, <2>5, <3>2
  <2>7. Above(Top.base) = Reverse(t)
    BY <1>2, <2>3, <2>4 DEF Above
  <2>8. DOMAIN Reverse(t) = 1 .. Len(t)
    BY DEF Reverse
  <2>9. \A i \in 1 .. Len(t) : Reverse(t)[i] = t[(Len(t) - i) + 1] /\ (Len(t) - i) + 1 \in 1 .. Len(t)
    BY ReverseFacts
  <2> QED BY <2>6, <2>7, <2>8, <2>9
<1> QED BY <1>1, <1>2

LEMMA TextCloseTry ==
    ASSUME StackTypes, TextInv, CloseTry
    PROVE  TextInv'
<1>1. /\ Top = blocks[Len(blocks)] /\ Top.kind = "try" /\ Len(blocks') = Len(blocks)
      /\ Len(blocks) \in Nat \ {0} /\ Len(blocks) \in 1 .. Len(blocks)
      /\ blocks'[Len(blocks)].kind = "catch"
      /\ \A k \in 1 .. Len(blocks) : /\ blocks'[k].base = blocks[k].base
                                     /\ k # Len(blocks) => blocks'[k] = blocks[k]
  BY CatchFacts
<1>2. deferStack_' = deferStack_
  BY DEF CloseTry
<1>3. Nested'
  BY <1>1, <1>2 DEF TextInv, Nested
<1>4. \A k \in 1 .. Len(blocks) : End(k)' = End(k)
  <2>1. \A k \in 1 .. Len(blocks) : k # Len(blocks) => k + 1 \in 1 .. Len(blocks)
    BY <1>1
  <2> QED BY <1>1, <1>2, <2>1 DEF End
<1>5. Parts'
  <2>1. SUFFICES ASSUME NEW k \in 1 .. Len(blocks)
                 PROVE  /\ blocks'[k].kind \notin {"if", "naked", "scope"} => End(k) = blocks[k].base
                        /\ blocks'[k].kind = "scope" =>
                              \A i \in 1 .. Len(deferStack_) :
                                  blocks[k].base < i /\ i <= End(k) => deferStack_[i] \in Callbacks
    BY <1>1, <1>2, <1>4 DEF Parts
  <2>2. CASE k = Len(blocks)
    BY <1>1, <2>2 DEF TextInv, Parts
  <2>3. CASE k # Len(blocks)
    BY <1>1, <2>3 DEF TextInv, Parts
  <2> QED BY <2>2, <2>3
<1> QED BY <1>2, <1>3, <1>5 DEF TextInv

(* The blocks that are opened. *)
LEMMA OpensFacts ==
    ASSUME StackTypes, LocalTypes, NEW kind \in Kinds, Opens(kind)
    PROVE  /\ outcome = "running" /\ UNCHANGED <<outcome, terminated>>
           /\ \E b \in Blocks : /\ blocks' = Append(blocks, b)
                               /\ b.base = Len(deferStack_) /\ b.kind = kind
                               /\ b.locals = locals_ /\ b.consumed = consumed
<1>1. Len(deferStack_) \in Nat
  BY DEF StackTypes
<1>2. [kind |-> kind, base |-> Len(deferStack_), locals |-> locals_, consumed |-> consumed] \in Blocks
  BY <1>1 DEF Blocks, LocalTypes
<1>3. PICK b \in Blocks :
        /\ b = [kind |-> kind, base |-> Len(deferStack_), locals |-> locals_, consumed |-> consumed]
        /\ b.base = Len(deferStack_) /\ b.kind = kind /\ b.locals = locals_ /\ b.consumed = consumed
  BY <1>2
<1> QED BY <1>3 DEF Opens, CanVisit

(* The callbacks a #scope registers. *)
LEMMA ScopeFacts ==
    ASSUME OpenScope
    PROVE  /\ Opens("scope") /\ skip' = skip /\ ran' = << >> /\ "scope" \in Kinds
           /\ \E t \in Seq(Cleanups) :
                 /\ deferStack_' = deferStack_ \o t
                 /\ pending' = IF skip = 0 THEN pending \o t ELSE pending
                 /\ \A i \in 1 .. Len(t) : t[i] \in Callbacks
<1>1. Opens("scope") /\ skip' = skip /\ ran' = << >> /\ "scope" \in Kinds
  BY DEF OpenScope, Enters, Kinds
<1>2. PICK c \in Callbacks : \E cbs \in {<<c>>} \cup {<<c, d>> : d \in Callbacks \ {c}} :
        /\ deferStack_' = deferStack_ \o cbs
        /\ pending' = IF skip = 0 THEN pending \o cbs ELSE pending
  BY DEF OpenScope, Here
<1>3. PICK cbs \in {<<c>>} \cup {<<c, d>> : d \in Callbacks \ {c}} :
        /\ deferStack_' = deferStack_ \o cbs
        /\ pending' = IF skip = 0 THEN pending \o cbs ELSE pending
  BY <1>2
<1>4. cbs \in Seq(Cleanups) /\ \A i \in 1 .. Len(cbs) : cbs[i] \in Callbacks
  <2>1. CASE cbs = <<c>>
    BY <2>1 DEF Cleanups
  <2>2. CASE \E d \in Callbacks : cbs = <<c, d>>
    BY <2>2 DEF Cleanups
  <2> QED BY <2>1, <2>2
<1> QED BY <1>1, <1>3, <1>4

(* What a defer that has not slipped registers, and where. *)
LEMMA DeferFacts ==
    ASSUME StackTypes, Defer, slips' \cap TextSlips = {}
    PROVE  /\ blocks # << >> => blocks[Len(blocks)].kind \in {"if", "naked"}
           /\ \E t \in Seq(Cleanups) :
                 /\ deferStack_ \in Seq(Cleanups) => deferStack_' = deferStack_ \o t
                 /\ pending \in Seq(Cleanups) =>
                       pending' = IF skip = 0 THEN pending \o t ELSE pending
<1>1. PICK d \in Cleanups :
        /\ deferStack_' = Append(deferStack_, d)
        /\ pending' = IF skip = 0 THEN Append(pending, d) ELSE pending
  BY DEF Defer, Here, Cleanups
<1>2. blocks # << >> => blocks[Len(blocks)].kind \in {"if", "naked"}
  BY DEF Defer, Slip, TextSlips, OwnsDefers, Top, Depth
<1>3. PICK t \in Seq(Cleanups) : \A s \in Seq(Cleanups) : Append(s, d) = s \o t
  <2>1. <<d>> \in Seq(Cleanups)
    OBVIOUS
  <2> QED BY <2>1, AppendIsConcat
<1> QED BY <1>1, <1>2, <1>3

LEMMA TextStep ==
    ASSUME Core, LocalTypes, TextInv, [Next]_vars, slips' \cap TextSlips = {}
    PROVE  TextInv'
<1>0. StackTypes
  BY DEF Core
<1>1. CASE Defer
  <2>1. blocks' = blocks
    BY <1>1 DEF Defer
  <2>2. PICK t \in Seq(Cleanups) : deferStack_' = deferStack_ \o t
    BY <1>0, <1>1, DeferFacts DEF TextInv
  <2> QED BY <1>0, <1>1, <2>1, <2>2, DeferFacts, TextGrows
<1>2. CASE Throw
  <2>1. deferStack_' = << >> /\ blocks' = blocks /\ (blocks = << >> \/ deferStack_ = << >>)
    BY <1>2 DEF Throw, Slip, TextSlips
  <2>2. CASE blocks = << >>
    <3>1. << >> \in Seq(Cleanups)
      OBVIOUS
    <3> QED BY <2>1, <2>2, <3>1 DEF TextInv, Nested, Parts
  <2>3. CASE deferStack_ = << >>
    BY <2>1, <2>3, TextStays
  <2> QED BY <2>1, <2>2, <2>3
<1>3. CASE Declare \/ Consume \/ Return \/ CalleeThrows \/ Break \/ Continue \/ EndFunction
           \/ UNCHANGED vars
  BY <1>3, TextStays
     DEF Declare, Consume, Return, CalleeThrows, Break, Continue, EndFunction, vars, compiler
<1>4. ASSUME NEW kind \in Kinds \ {"scope"}, Opens(kind), UNCHANGED deferStack_
      PROVE  TextInv'
  <2>1. PICK b \in Blocks : /\ blocks' = Append(blocks, b)
                           /\ b.base = Len(deferStack_) /\ b.kind = kind
    BY <1>0, <1>4, OpensFacts
  <2>2. PICK t \in Seq(Cleanups) : t = << >> /\ deferStack_' = deferStack_ \o t
    <3>1. << >> \in Seq(Cleanups) /\ deferStack_ \o << >> = deferStack_
      BY DEF TextInv
    <3> QED BY <1>4, <3>1
  <2>3. \A i \in 1 .. Len(t) : t[i] \in Callbacks
    BY <2>2
  <2> QED BY <1>0, <2>1, <2>2, <2>3, TextOpens
<1>5. CASE OpenIf \/ OpenSwitch \/ OpenWhile \/ OpenDo \/ OpenLoop \/ OpenNaked \/ OpenTry
  BY <1>4, <1>5 DEF OpenIf, OpenSwitch, OpenWhile, OpenDo, OpenLoop, OpenNaked, OpenTry, Kinds
<1>6. CASE OpenScope
  <2>1. PICK b \in Blocks : /\ blocks' = Append(blocks, b)
                           /\ b.base = Len(deferStack_) /\ b.kind = "scope"
    BY <1>0, <1>6, ScopeFacts, OpensFacts
  <2>2. PICK t \in Seq(Cleanups) : /\ deferStack_' = deferStack_ \o t
                                  /\ \A i \in 1 .. Len(t) : t[i] \in Callbacks
    BY <1>6, ScopeFacts
  <2> QED BY <1>0, <2>1, <2>2, TextOpens
<1>7. CASE CloseIf \/ CloseNaked \/ CloseScope
  <2>1. blocks # << >> /\ deferStack_' = Resized(Top.base) /\ blocks' = Front(blocks)
    BY <1>7 DEF CloseIf, CloseNaked, CloseScope, Closing, LeaveScope
  <2> QED BY <1>0, <2>1, OwnBase, TextCloses
<1>8. CASE CloseSwitch \/ CloseLoop \/ CloseCatch
  <2>1. /\ blocks # << >> /\ Top.kind \notin {"if", "naked", "scope"}
        /\ UNCHANGED deferStack_ /\ blocks' = Front(blocks)
    BY <1>8 DEF CloseSwitch, CloseLoop, CloseCatch, Closing, LeaveScope, Loops
  <2> QED BY <1>0, <2>1, OwnBase, OtherBase, TextCloses
<1>9. CASE CloseTry
  BY <1>0, <1>9, TextCloseTry
<1> QED BY <1>1, <1>2, <1>3, <1>5, <1>6, <1>7, <1>8, <1>9 DEF Next, Finished

-----------------------------------------------------------------------------
(* Steps of the abstract stack. *)

LEMMA PendingTypes ==
    ASSUME StackInv, outcome = "running"
    PROVE  Met \in 0 .. Len(deferStack_) /\ pending \in Seq(Cleanups)
<1>1. Met \in 0 .. Len(deferStack_)
  <2>1. StackTypes /\ deferStack_ \in Seq(Cleanups)
    BY DEF StackInv, Core, TextInv
  <2>2. \A k \in 1 .. Len(blocks) : blocks[k].base \in Nat
    BY <2>1, BlockTypes
  <2>3. skip # 0 => skip \in 1 .. Len(blocks)
    BY <2>1 DEF StackTypes
  <2> QED BY <2>1, <2>2, <2>3 DEF Met, StackInv, TextInv, Nested
<1>2. SubSeq(deferStack_, 1, Met) \in Seq(Cleanups)
  BY <1>1, PrefixFacts DEF StackInv, TextInv
<1> QED BY <1>1, <1>2 DEF StackInv, PendingExact

LEMMA PendingHere ==
    ASSUME StackInv, outcome = "running", skip = 0
    PROVE  pending = deferStack_
BY PrefixFull DEF StackInv, TextInv, PendingExact, Met

LEMMA Quietly ==
    ASSUME StackInv, outcome = "running", outcome' # "left", Quiet
    PROVE  Promise
<1>1. pending \in Seq(Cleanups)
  BY PendingTypes
<1> QED BY <1>1 DEF Quiet, Promise, Promised!Next, Promised!Register, Promised!IsPrefix

LEMMA Registers ==
    ASSUME StackInv, outcome = "running", outcome' # "left",
           NEW t \in Seq(Cleanups), pending' = pending \o t, ran' = << >>
    PROVE  Promise
<1>0. pending \in Seq(Cleanups)
  BY PendingTypes
<1>1. /\ pending' \in Seq(Cleanups) /\ Len(pending) <= Len(pending')
      /\ SubSeq(pending, 1, Len(pending)) = SubSeq(pending', 1, Len(pending))
  <2>1. /\ Len(pending) \in Nat /\ Len(t) \in Nat
        /\ pending \o t \in Seq(Cleanups) /\ Len(pending \o t) = Len(pending) + Len(t)
    BY <1>0, ConcatFacts
  <2>2. SubSeq(pending \o t, 1, Len(pending)) = SubSeq(pending, 1, Len(pending))
    BY <1>0, <2>1, PrefixOfConcat
  <2> QED BY <2>1, <2>2
<1> QED BY <1>1 DEF Promise, Promised!Next, Promised!Register, Promised!IsPrefix

LEMMA RunsSome ==
    ASSUME outcome = "running", outcome' # "left",
           NEW n \in 0 .. Len(pending), pending' = SubSeq(pending, 1, n),
           ran' = Reverse(SubSeq(pending, n + 1, Len(pending)))
    PROVE  Promise
BY DEF Promise, Promised!Next, Promised!LeaveBlock, Promised!Reverse, Reverse

LEMMA RunsAll ==
    ASSUME outcome = "running", outcome' = "left", pending' = << >>, ran' = Reverse(pending)
    PROVE  Promise
BY DEF Promise, Promised!Next, Promised!LeaveFunction, Promised!Reverse, Reverse

(* What is emitted above n runs, if the execution is there. *)
LEMMA EmitHere ==
    ASSUME StackInv, skip = 0, pending = deferStack_, NEW n \in 0 .. Len(deferStack_),
           Emit(Reverse(SubSeq(deferStack_, n + 1, Len(deferStack_))))
    PROVE  /\ pending' = SubSeq(deferStack_, 1, n)
           /\ ran' = Reverse(SubSeq(deferStack_, n + 1, Len(deferStack_)))
<1>0. deferStack_ \in Seq(Cleanups)
  BY DEF StackInv, TextInv
<1>1. PICK es : es = Reverse(SubSeq(deferStack_, n + 1, Len(deferStack_)))
  OBVIOUS
<1>2. Len(es) = Len(deferStack_) - n
  <2>1. PICK t \in Seq(Cleanups) : t = SubSeq(deferStack_, n + 1, Len(deferStack_))
                                 /\ Len(t) = Len(deferStack_) - n
    BY <1>0, SuffixFacts
  <2>2. Len(Reverse(t)) = Len(t)
    BY ReverseFacts
  <2>3. es = Reverse(t)
    BY <1>1, <2>1 DEF Reverse
  <2> QED BY <2>1, <2>2, <2>3
<1>4. Outstanding(es) = SubSeq(pending, 1, n)
  <2>1. Len(pending) - Len(es) = n
    BY <1>0, <1>2
  <2>2. Len(pending) - Len(es) >= 0
    BY <2>1
  <2>3. es = Reverse(SubSeq(pending, (Len(pending) - Len(es)) + 1, Len(pending)))
    BY <1>1, <2>1
  <2>4. Outstanding(es) = SubSeq(pending, 1, Len(pending) - Len(es))
    BY <2>2, <2>3, Zenon DEF Outstanding
  <2> QED BY <2>1, <2>4
<1> QED BY <1>1, <1>4 DEF Emit, Here

LEMMA EmitElsewhere ==
    ASSUME skip # 0, NEW es, Emit(es)
    PROVE  Quiet
BY DEF Emit, Here, Quiet

(* All of deferStack_. *)
LEMMA EmitAll ==
    ASSUME StackInv, skip = 0, pending = deferStack_, Emit(emitDeferredCleanups)
    PROVE  pending' = << >> /\ ran' = Reverse(pending)
<1>0. deferStack_ \in Seq(Cleanups)
  BY DEF StackInv, TextInv
<1>1. 0 \in 0 .. Len(deferStack_)
  BY <1>0
<1>2. SubSeq(deferStack_, 0 + 1, Len(deferStack_)) = deferStack_
  BY <1>0, PrefixFull
<1>3. SubSeq(deferStack_, 1, 0) = << >>
  BY <1>0
<1> QED BY <1>1, <1>2, <1>3, EmitHere DEF emitDeferredCleanups
-----------------------------------------------------------------------------
(* The execution while nothing has slipped. *)

(* The stacks stay; the execution may leave for the end of a block. *)
LEMMA PathStays ==
    ASSUME StackInv, outcome = "running", UNCHANGED <<deferStack_, blocks, pending>>,
           \/ skip' = skip
           \/ /\ skip = 0 /\ skip' \in 1 .. Len(blocks)
              /\ blocks[skip'].base = Len(deferStack_)
    PROVE  PendingExact'
<1>1. Met' = Met
  BY DEF Met
<1> QED BY <1>1 DEF StackInv, PendingExact

LEMMA PathDefer ==
    ASSUME StackInv, Defer, slips' \cap TextSlips = {}
    PROVE  PendingExact' /\ Promise
<1>0. StackTypes /\ deferStack_ \in Seq(Cleanups)
  BY DEF StackInv, Core, TextInv
<1>1. outcome = "running" /\ ran' = << >> /\ UNCHANGED <<blocks, skip, outcome>>
  BY DEF Defer, CanVisit
<1>2. PICK t \in Seq(Cleanups) : /\ deferStack_' = deferStack_ \o t
                                /\ pending' = IF skip = 0 THEN pending \o t ELSE pending
  BY <1>0, <1>1, DeferFacts, PendingTypes
<1>3. PendingExact'
  <2>1. CASE skip = 0
    <3>1. pending' = deferStack_' /\ Met' = Len(deferStack_')
      BY <1>1, <1>2, <2>1, PendingHere DEF Met
    <3>2. deferStack_' \in Seq(Cleanups)
      BY <1>0, <1>2, ConcatFacts
    <3> QED BY <3>1, <3>2, PrefixFull DEF PendingExact
  <2>2. CASE skip # 0
    <3>1. Met' = Met /\ Met \in 0 .. Len(deferStack_)
      BY <1>1, <2>2, PendingTypes DEF Met
    <3>2. SubSeq(deferStack_ \o t, 1, Met) = SubSeq(deferStack_, 1, Met)
      BY <1>0, <3>1, PrefixOfConcat
    <3> QED BY <1>1, <1>2, <2>2, <3>1, <3>2 DEF StackInv, PendingExact
  <2> QED BY <2>1, <2>2
<1>4. Promise
  <2>1. CASE skip = 0
    BY <1>1, <1>2, <2>1, Registers
  <2>2. CASE skip # 0
    BY <1>1, <1>2, <2>2, Quietly DEF Quiet
  <2> QED BY <2>1, <2>2
<1> QED BY <1>3, <1>4

LEMMA PathVisit ==
    ASSUME StackInv, Declare \/ Consume
    PROVE  PendingExact' /\ Promise
<1>1. /\ outcome = "running" /\ Quiet /\ UNCHANGED <<deferStack_, blocks, skip, outcome>>
  BY DEF Declare, Consume, CanVisit
<1>2. PendingExact'
  BY <1>1, PathStays DEF Quiet
<1>3. Promise
  BY <1>1, Quietly
<1> QED BY <1>2, <1>3

(* ret and the end of the function. *)
LEMMA PathReturn ==
    ASSUME StackInv, Return \/ EndFunction
    PROVE  PendingExact' /\ Promise
<1>1. /\ outcome = "running" /\ Emit(emitDeferredCleanups)
      /\ outcome' = (IF skip = 0 THEN "left" ELSE outcome)
      /\ UNCHANGED <<deferStack_, blocks, skip>>
  <2>1. CASE Return
    BY <2>1 DEF Return, CanVisit, Here
  <2>2. CASE EndFunction
    <3>1. blocks = << >> => skip = 0
      BY DEF StackInv, Core, StackTypes
    <3> QED BY <2>2, <3>1 DEF EndFunction, compiler
  <2> QED BY <2>1, <2>2
<1>2. CASE skip = 0
  <2>1. pending' = << >> /\ ran' = Reverse(pending)
    BY <1>1, <1>2, EmitAll, PendingHere
  <2> QED BY <1>1, <1>2, <2>1, RunsAll DEF PendingExact
<1>3. CASE skip # 0
  <2>1. Quiet
    BY <1>1, <1>3, EmitElsewhere
  <2>2. PendingExact'
    BY <1>1, <1>3, <2>1, PathStays DEF Quiet
  <2> QED BY <1>1, <1>3, <2>1, <2>2, Quietly
<1> QED BY <1>2, <1>3

LEMMA PathThrow ==
    ASSUME StackInv, Throw, slips' \cap TextSlips = {}
    PROVE  PendingExact' /\ Promise
<1>0. StackTypes /\ deferStack_ \in Seq(Cleanups)
  BY DEF StackInv, Core, TextInv
<1>1. /\ outcome = "running" /\ Emit(emitDeferredCleanups) /\ deferStack_' = << >>
      /\ blocks = << >> \/ deferStack_ = << >>
      /\ skip' = (IF skip = 0 /\ TryBodies # {} THEN Innermost(TryBodies) ELSE skip)
      /\ outcome' = (IF skip = 0 /\ TryBodies = {} THEN "left" ELSE outcome)
      /\ blocks' = blocks
  BY DEF Throw, CanVisit, Here, Unwinds, Slip, TextSlips
<1>2. CASE skip = 0 /\ TryBodies = {}
  <2>1. pending' = << >> /\ ran' = Reverse(pending)
    BY <1>1, <1>2, EmitAll, PendingHere
  <2> QED BY <1>1, <1>2, <2>1, RunsAll DEF PendingExact
<1>3. CASE skip = 0 /\ TryBodies # {}
  <2>1. PICK k \in 1 .. Len(blocks) : k = skip'
    BY <1>0, <1>1, <1>3, LandsAt
  <2>2. deferStack_ = << >> /\ deferStack_' = deferStack_
    BY <1>1, <2>1
  <2>3. pending' = pending /\ ran' = << >>
    <3>1. pending = << >> /\ pending' = << >> /\ ran' = Reverse(pending)
      BY <1>1, <1>3, <2>2, EmitAll, PendingHere
    <3>2. Reverse(<< >>) = << >>
      BY DEF Reverse
    <3> QED BY <3>1, <3>2
  <2>4. blocks[k].base = Len(deferStack_)
    <3>1. blocks[k].base \in Nat /\ blocks[k].base <= Len(deferStack_) /\ Len(deferStack_) = 0
      BY <1>0, <2>2, BlockTypes DEF StackInv, TextInv, Nested
    <3> QED BY <3>1
  <2>5. PendingExact'
    BY <1>1, <1>3, <2>1, <2>2, <2>3, <2>4, PathStays
  <2>6. Promise
    BY <1>1, <1>3, <2>3, Quietly DEF Quiet
  <2> QED BY <2>5, <2>6
<1>4. CASE skip # 0
  <2>1. Quiet
    BY <1>1, <1>4, EmitElsewhere
  <2>2. deferStack_' = deferStack_
    <3>1. blocks # << >>
      BY <1>0, <1>4 DEF StackTypes
    <3> QED BY <1>1, <3>1
  <2>3. PendingExact'
    BY <1>1, <1>4, <2>1, <2>2, PathStays DEF Quiet
  <2> QED BY <1>1, <1>4, <2>1, <2>3, Quietly
<1> QED BY <1>2, <1>3, <1>4

LEMMA PathCalleeThrows ==
    ASSUME StackInv, CalleeThrows, slips' \cap CleanupSlips = {}
    PROVE  PendingExact' /\ Promise
<1>0. StackTypes /\ deferStack_ \in Seq(Cleanups)
  BY DEF StackInv, Core, TextInv
<1>1. /\ outcome = "running" /\ skip = 0 /\ Quiet
      /\ skip' = (IF TryBodies # {} THEN Innermost(TryBodies) ELSE skip)
      /\ outcome' = (IF TryBodies = {} THEN "left" ELSE outcome)
      /\ UNCHANGED <<deferStack_, blocks>>
  BY DEF CalleeThrows, CanVisit, Here, Unwinds
<1>2. Len(deferStack_) = IF TryBodies = {} THEN 0 ELSE blocks[Innermost(TryBodies)].base
  BY DEF CalleeThrows, Slip, CleanupSlips
<1>3. CASE TryBodies = {}
  <2>1. deferStack_ = << >>
    BY <1>0, <1>2, <1>3
  <2>2. pending = << >> /\ pending' = << >> /\ ran' = << >>
    BY <1>1, <2>1, PendingHere DEF Quiet
  <2>3. Reverse(<< >>) = << >>
    BY DEF Reverse
  <2> QED BY <1>1, <1>3, <2>2, <2>3, RunsAll DEF PendingExact
<1>4. CASE TryBodies # {}
  <2>1. Innermost(TryBodies) \in 1 .. Len(blocks)
    BY <1>0, <1>4, LandsAt
  <2>2. PendingExact'
    BY <1>1, <1>2, <1>4, <2>1, PathStays DEF Quiet
  <2> QED BY <1>1, <1>4, <2>2, Quietly
<1> QED BY <1>3, <1>4

LEMMA PathBreak ==
    ASSUME StackInv, Break \/ Continue, slips' \cap CleanupSlips = {}
    PROVE  PendingExact' /\ Promise
<1>1. /\ outcome = "running" /\ Quiet /\ LoopBlocks # {}
      /\ skip' = (IF skip = 0 THEN Innermost(LoopBlocks) ELSE skip)
      /\ outcome' \in {"running", "spins"}
      /\ skip = 0 => Len(deferStack_) = blocks[Innermost(LoopBlocks)].base
      /\ UNCHANGED <<deferStack_, blocks>>
  BY DEF Break, Continue, Jumps, CanVisit, Here, Slip, CleanupSlips
<1>2. Innermost(LoopBlocks) \in 1 .. Len(blocks)
  BY <1>1, LandsAt DEF StackInv, Core
<1>3. PendingExact'
  BY <1>1, <1>2, PathStays DEF Quiet
<1> QED BY <1>1, <1>3, Quietly

LEMMA PathOpen ==
    ASSUME StackInv, LocalTypes, NEW kind \in Kinds, Opens(kind), ran' = << >>,
           NEW t \in Seq(Cleanups), deferStack_' = deferStack_ \o t,
           pending' = IF skip = 0 THEN pending \o t ELSE pending,
           skip' = skip \/ (skip = 0 /\ skip' = Len(blocks) + 1 /\ t = << >>)
    PROVE  PendingExact' /\ Promise
<1>0. StackTypes /\ deferStack_ \in Seq(Cleanups)
  BY DEF StackInv, Core, TextInv
<1>1. PICK b \in Blocks : blocks' = Append(blocks, b) /\ b.base = Len(deferStack_)
  BY <1>0, OpensFacts
<1>2. outcome = "running" /\ outcome' = outcome
  BY <1>0, OpensFacts
<1>3. /\ Len(blocks) \in Nat /\ blocks'[Len(blocks) + 1] = b
      /\ \A k \in 1 .. Len(blocks) : blocks'[k] = blocks[k]
  BY <1>0, <1>1, AppendFacts DEF StackTypes
<1>4. deferStack_' \in Seq(Cleanups)
  BY <1>0, ConcatFacts
<1>5. PendingExact'
  <2>1. CASE skip = 0 /\ skip' = 0
    <3>1. pending' = deferStack_' /\ Met' = Len(deferStack_')
      BY <1>2, <2>1, PendingHere DEF Met
    <3> QED BY <1>4, <3>1, PrefixFull DEF PendingExact
  <2>2. CASE skip = 0 /\ skip' # 0
    <3>1. t = << >> /\ skip' = Len(blocks) + 1
      BY <2>2
    <3>2. deferStack_' = deferStack_
      BY <1>0, <3>1
    <3>3. pending' = deferStack_' /\ Met' = Len(deferStack_')
      BY <1>1, <1>2, <1>3, <2>2, <3>1, <3>2, PendingHere DEF Met
    <3> QED BY <1>4, <3>3, PrefixFull DEF PendingExact
  <2>3. CASE skip # 0
    <3>1. skip' = skip /\ skip \in 1 .. Len(blocks)
      BY <1>0, <2>3 DEF StackTypes
    <3>2. Met' = Met /\ Met \in 0 .. Len(deferStack_)
      BY <1>2, <1>3, <2>3, <3>1, PendingTypes DEF Met
    <3>3. SubSeq(deferStack_ \o t, 1, Met) = SubSeq(deferStack_, 1, Met)
      BY <1>0, <3>2, PrefixOfConcat
    <3> QED BY <1>2, <2>3, <3>2, <3>3 DEF StackInv, PendingExact
  <2> QED BY <2>1, <2>2, <2>3
<1>6. Promise
  <2>1. CASE skip = 0
    BY <1>2, <2>1, Registers
  <2>2. CASE skip # 0
    BY <1>2, <2>2, Quietly DEF Quiet
  <2> QED BY <2>1, <2>2
<1> QED BY <1>5, <1>6

LEMMA PathOpens ==
    ASSUME StackInv, LocalTypes,
           OpenIf \/ OpenSwitch \/ OpenWhile \/ OpenDo \/ OpenLoop \/ OpenNaked \/ OpenTry \/ OpenScope
    PROVE  PendingExact' /\ Promise
<1>1. ASSUME NEW kind \in Kinds, Opens(kind), Quiet, UNCHANGED deferStack_, Enters \/ EntersOrNot
      PROVE  PendingExact' /\ Promise
  <2>1. outcome = "running" /\ ran' = << >> /\ pending' = pending
    BY <1>1 DEF Opens, CanVisit, Quiet
  <2>2. PICK t \in Seq(Cleanups) : t = << >> /\ \A s \in Seq(Cleanups) : s \o t = s
    <3>1. << >> \in Seq(Cleanups) /\ \A s \in Seq(Cleanups) : s \o << >> = s
      OBVIOUS
    <3> QED BY <3>1
  <2>3. pending \in Seq(Cleanups) /\ deferStack_ \in Seq(Cleanups)
    BY <2>1, PendingTypes DEF StackInv, TextInv
  <2>4. skip' = skip \/ (skip = 0 /\ skip' = Len(blocks) + 1)
    BY <1>1 DEF Enters, EntersOrNot, Here, Depth
  <2>5. /\ deferStack_' = deferStack_ \o t
        /\ pending' = IF skip = 0 THEN pending \o t ELSE pending
    BY <1>1, <2>1, <2>2, <2>3
  <2> QED BY <1>1, <2>1, <2>2, <2>4, <2>5, PathOpen
<1>2. CASE OpenIf \/ OpenSwitch \/ OpenWhile
  BY <1>1, <1>2 DEF OpenIf, OpenSwitch, OpenWhile, Kinds
<1>3. CASE OpenDo \/ OpenLoop \/ OpenNaked \/ OpenTry
  BY <1>1, <1>3 DEF OpenDo, OpenLoop, OpenNaked, OpenTry, Kinds
<1>4. CASE OpenScope
  BY <1>4, ScopeFacts, PathOpen
<1> QED BY <1>2, <1>3, <1>4

(* The innermost block is closed; its part has run if the execution is there. *)
LEMMA PathCloses ==
    ASSUME StackInv, outcome = "running", blocks # << >>, blocks' = Front(blocks), Resumes,
           deferStack_' = SubSeq(deferStack_, 1, Top.base),
           pending' = IF skip = 0 THEN SubSeq(pending, 1, Top.base) ELSE pending
    PROVE  PendingExact'
<1>0. StackTypes /\ TextInv /\ deferStack_ \in Seq(Cleanups)
  BY DEF StackInv, Core, TextInv
<1>1. PICK n \in 0 .. Len(deferStack_) : n = Top.base /\ Top = blocks[Len(blocks)]
  BY <1>0, OwnBase
<1>2. /\ Len(blocks) \in Nat \ {0} /\ Len(blocks') = Len(blocks) - 1
      /\ \A k \in 1 .. Len(blocks') : blocks'[k] = blocks[k]
  BY <1>0, FrontFacts
<1>3. deferStack_' = SubSeq(deferStack_, 1, n) /\ deferStack_' \in Seq(Cleanups) /\ Len(deferStack_') = n
  BY <1>0, <1>1, PrefixFacts
<1>4. skip' = IF skip = Len(blocks) THEN 0 ELSE skip
  BY DEF Resumes, Depth
<1>5. CASE skip = 0
  <2>1. pending' = deferStack_' /\ Met' = Len(deferStack_')
    BY <1>1, <1>2, <1>3, <1>4, <1>5, PendingHere DEF Met
  <2> QED BY <1>3, <2>1, PrefixFull DEF PendingExact
<1>6. CASE skip = Len(blocks)
  <2>1. pending' = deferStack_' /\ Met' = Len(deferStack_')
    BY <1>1, <1>2, <1>3, <1>4, <1>6 DEF Met, StackInv, PendingExact
  <2> QED BY <1>3, <2>1, PrefixFull DEF PendingExact
<1>7. CASE skip # 0 /\ skip # Len(blocks)
  <2>1. skip \in 1 .. Len(blocks') /\ skip' = skip /\ skip \in 1 .. Len(blocks)
    BY <1>0, <1>2, <1>4, <1>7 DEF StackTypes
  <2>2. Met' = Met /\ Met = blocks[skip].base
    BY <1>2, <1>7, <2>1 DEF Met
  <2>3. Met \in 0 .. n
    <3>1. blocks[skip].base \in Nat /\ blocks[skip].base <= n
      <4>1. Len(blocks) \in 1 .. Len(blocks) /\ skip <= Len(blocks)
        BY <1>2, <2>1
      <4> QED BY <1>0, <1>1, <2>1, <4>1, BlockTypes DEF TextInv, Nested
    <3> QED BY <2>2, <3>1
  <2>4. SubSeq(SubSeq(deferStack_, 1, n), 1, Met) = SubSeq(deferStack_, 1, Met)
    BY <1>0, <2>3, PrefixOfPrefix
  <2> QED BY <1>3, <1>7, <2>2, <2>4 DEF StackInv, PendingExact
<1> QED BY <1>5, <1>6, <1>7

(* The end of an if, naked or #scope block. *)
LEMMA PathCloseOwning ==
    ASSUME StackInv, outcome = "running", blocks # << >>,
           Emit(Above(Top.base)), deferStack_' = Resized(Top.base),
           blocks' = Front(blocks), Resumes, outcome' = outcome
    PROVE  PendingExact' /\ Promise
<1>0. StackTypes /\ TextInv
  BY DEF StackInv, Core
<1>1. PICK n \in 0 .. Len(deferStack_) : n = Top.base
  BY <1>0, OwnBase
<1>2. deferStack_' = SubSeq(deferStack_, 1, n)
  BY <1>0, <1>1, OwnBase
<1>3. CASE skip = 0
  <2>1. terminated = FALSE
    BY <1>3 DEF StackInv, Core, Alive
  <2>2. Emit(Reverse(SubSeq(deferStack_, n + 1, Len(deferStack_))))
    BY <1>1, <2>1 DEF Above
  <2>3. pending = deferStack_
    BY <1>3, PendingHere
  <2>4. /\ pending' = SubSeq(pending, 1, n)
        /\ ran' = Reverse(SubSeq(pending, n + 1, Len(pending)))
    BY <1>3, <2>2, <2>3, EmitHere
  <2>5. PendingExact'
    BY <1>1, <1>2, <1>3, <2>4, PathCloses
  <2>6. Promise
    BY <2>3, <2>4, RunsSome
  <2> QED BY <2>5, <2>6
<1>4. CASE skip # 0
  <2>1. Quiet
    BY <1>4, EmitElsewhere
  <2>2. PendingExact'
    BY <1>1, <1>2, <1>4, <2>1, PathCloses DEF Quiet
  <2> QED BY <2>1, <2>2, Quietly
<1> QED BY <1>3, <1>4

(* The end of a block that registers nothing of its own. *)
LEMMA PathCloseOther ==
    ASSUME StackInv, outcome = "running", blocks # << >>,
           Top.kind \notin {"if", "naked", "scope"}, Quiet, UNCHANGED deferStack_,
           blocks' = Front(blocks), Resumes, outcome' # "left"
    PROVE  PendingExact' /\ Promise
<1>1. StackTypes /\ TextInv
  BY DEF StackInv, Core
<1>2. deferStack_' = SubSeq(deferStack_, 1, Top.base)
  BY <1>1, OtherBase
<1>3. pending' = IF skip = 0 THEN SubSeq(pending, 1, Top.base) ELSE pending
  BY <1>1, OtherBase, PendingHere DEF Quiet
<1>4. PendingExact'
  BY <1>2, <1>3, PathCloses
<1> QED BY <1>4, Quietly

LEMMA PathCloseTry ==
    ASSUME StackInv, CloseTry
    PROVE  PendingExact' /\ Promise
<1>0. StackTypes /\ TextInv
  BY DEF StackInv, Core
<1>1. /\ outcome = "running" /\ Top = blocks[Len(blocks)] /\ Top.kind = "try"
      /\ Len(blocks) \in Nat \ {0} /\ Len(blocks) \in 1 .. Len(blocks)
      /\ skip' = IF skip = 0 THEN Len(blocks) ELSE IF skip = Len(blocks) THEN 0 ELSE skip
      /\ \A k \in 1 .. Len(blocks) : blocks'[k].base = blocks[k].base
  BY <1>0, CatchFacts
<1>2. Quiet /\ UNCHANGED <<deferStack_, outcome>> /\ blocks # << >>
  BY DEF CloseTry, Closing
<1>3. Top.base = Len(deferStack_)
  BY <1>0, <1>1, <1>2, OtherBase
<1>4. Met' = Met
  <2>1. CASE skip = 0
    BY <1>1, <1>2, <1>3, <2>1 DEF Met
  <2>2. CASE skip = Len(blocks)
    BY <1>1, <1>2, <1>3, <2>2 DEF Met
  <2>3. CASE skip # 0 /\ skip # Len(blocks)
    <3>1. skip' = skip /\ skip \in 1 .. Len(blocks)
      BY <1>0, <1>1, <2>3 DEF StackTypes
    <3> QED BY <1>1, <2>3, <3>1 DEF Met
  <2> QED BY <2>1, <2>2, <2>3
<1>5. PendingExact'
  BY <1>1, <1>2, <1>4 DEF StackInv, PendingExact, Quiet
<1> QED BY <1>1, <1>2, <1>5, Quietly

LEMMA PathStep ==
    ASSUME StackInv, LocalTypes, [Next]_vars, slips' \cap CleanupSlips = {}
    PROVE  PendingExact' /\ Promise
<1>0. slips' \cap TextSlips = {} /\ StackTypes /\ TextInv
  BY DEF CleanupSlips, StackInv, Core
<1>1. CASE Defer \/ Declare \/ Consume \/ Return \/ EndFunction \/ Throw
  BY <1>0, <1>1, PathDefer, PathVisit, PathReturn, PathThrow
<1>2. CASE CalleeThrows \/ Break \/ Continue
  BY <1>2, PathCalleeThrows, PathBreak
<1>3. CASE OpenIf \/ OpenSwitch \/ OpenWhile \/ OpenDo \/ OpenLoop \/ OpenNaked \/ OpenTry \/ OpenScope
  BY <1>3, PathOpens
<1>4. CASE CloseIf \/ CloseNaked
  <2>1. /\ outcome = "running" /\ blocks # << >> /\ Emit(Above(Top.base))
        /\ deferStack_' = Resized(Top.base) /\ blocks' = Front(blocks) /\ Resumes
        /\ outcome' = outcome
    BY <1>4 DEF CloseIf, CloseNaked, Closing, LeaveScope
  <2> QED BY <2>1, PathCloseOwning
<1>5. CASE CloseScope
  <2>1. /\ outcome = "running" /\ blocks # << >> /\ Top.kind = "scope"
        /\ deferStack_' = Resized(Top.base) /\ blocks' = Front(blocks) /\ Resumes
    BY <1>5 DEF CloseScope, Closing, LeaveScope
  <2>2. Emit(Above(Top.base)) /\ outcome' = outcome
    BY <1>0, <1>5, <2>1, ScopeAbove DEF CloseScope
  <2> QED BY <2>1, <2>2, PathCloseOwning
<1>6. CASE CloseSwitch \/ CloseLoop \/ CloseCatch
  <2>1. /\ outcome = "running" /\ blocks # << >> /\ Top.kind \notin {"if", "naked", "scope"}
        /\ Quiet /\ UNCHANGED deferStack_ /\ blocks' = Front(blocks) /\ Resumes
        /\ outcome' # "left"
    BY <1>6 DEF CloseSwitch, CloseLoop, CloseCatch, Closing, LeaveScope, Loops
  <2> QED BY <2>1, PathCloseOther
<1>7. CASE CloseTry
  BY <1>7, PathCloseTry
<1>8. CASE UNCHANGED vars
  <2>1. UNCHANGED <<deferStack_, blocks, skip, pending, ran, outcome>>
    BY <1>8 DEF vars, compiler, execution
  <2>2. PendingExact'
    BY <2>1 DEF StackInv, PendingExact, Met
  <2> QED BY <2>1, <2>2 DEF Promise
<1> QED BY <1>1, <1>2, <1>3, <1>4, <1>5, <1>6, <1>7, <1>8 DEF Next, Finished


-----------------------------------------------------------------------------
(* The owned locals. *)

(* Inner blocks know what the outer ones do, and more. *)
LocalsNest ==
    /\ consumed \subseteq locals_
    /\ \A k \in 1 .. Len(blocks) :
          /\ blocks[k].consumed \subseteq blocks[k].locals
          /\ blocks[k].locals \subseteq locals_ /\ blocks[k].consumed \subseteq consumed
    /\ \A j, k \in 1 .. Len(blocks) : j <= k => /\ blocks[j].locals \subseteq blocks[k].locals
                                                /\ blocks[j].consumed \subseteq blocks[k].consumed

(* Nothing is declared directly in a try statement, and nothing moved there  *)
(* that was declared outside.                                                *)
TryKeeps ==
    \A j \in 1 .. Len(blocks) : blocks[j].kind \in Tries =>
        /\ j = Len(blocks) => blocks[j].locals = locals_ /\ blocks[j].consumed = consumed
        /\ j # Len(blocks) => /\ blocks[j + 1].locals = blocks[j].locals
                              /\ blocks[j + 1].consumed = blocks[j].consumed

(* What the compiler knew of the locals where the execution left it, which   *)
(* is what it will know where it meets the execution again.                  *)
Known == IF skip = 0 THEN locals_ ELSE blocks[skip].locals
Moved == IF skip = 0 THEN consumed ELSE blocks[skip].consumed

(* The values v are what a compiler with locals K, of them M moved, expects. *)
(* A local it does not know to be moved may have been, in a closed branch.   *)
Agrees(v, K, M) ==
    \A l \in Locals : /\ l \in M => v[l] = "moved"
                      /\ l \in K \ M => v[l] \in {"owned", "moved"}
                      /\ l \notin K => v[l] \in {"none", "freed", "moved"}

ValuesKnown == outcome = "running" => Agrees(val, Known, Moved)

DropInv == LocalsNest /\ TryKeeps /\ ValuesKnown /\ FreedOnce

(* Values that agree with the compiler have not been freed wrongly. *)
LEMMA AgreedSound ==
    ASSUME Agrees(val, Known, Moved)', outcome' # "left"
    PROVE  ValuesKnown' /\ FreedOnce'
<1>1. \A l \in Locals : val'[l] \in {"none", "owned", "moved", "freed"}
  BY DEF Agrees
<1>2. ValuesKnown'
  BY Zenon DEF ValuesKnown
<1> QED BY <1>1, <1>2 DEF FreedOnce

(* Dropping what is known above K2 makes the values agree with K2. *)
LEMMA DropDown ==
    ASSUME NEW v, NEW w, NEW K, NEW M, NEW K2, NEW M2, Agrees(v, K, M),
           K2 \subseteq K, M2 \subseteq M,
           w = [l \in Locals |-> IF l \in (K \ K2) \ M THEN Freed(v[l]) ELSE v[l]]
    PROVE  Agrees(w, K2, M2)
<1>1. \A x \in {"owned", "moved"} : Freed(x) \in {"freed", "moved"}
  BY DEF Freed
<1> SUFFICES ASSUME NEW l \in Locals
             PROVE  /\ l \in M2 => w[l] = "moved"
                    /\ l \in K2 \ M2 => w[l] \in {"owned", "moved"}
                    /\ l \notin K2 => w[l] \in {"none", "freed", "moved"}
  BY DEF Agrees
<1>2. /\ l \in M => v[l] = "moved"
      /\ l \in K \ M => v[l] \in {"owned", "moved"}
      /\ l \notin K => v[l] \in {"none", "freed", "moved"}
  BY DEF Agrees
<1>3. CASE l \in (K \ K2) \ M
  <2>1. w[l] = Freed(v[l]) /\ v[l] \in {"owned", "moved"}
    BY <1>2, <1>3
  <2> QED BY <1>1, <1>3, <2>1
<1>4. CASE l \notin (K \ K2) \ M
  <2>1. w[l] = v[l]
    BY <1>4
  <2> QED BY <1>2, <1>4, <2>1
<1> QED BY <1>3, <1>4

(* The execution leaves the function with everything dropped. *)
LEMMA DroppedAll ==
    ASSUME ValuesKnown, outcome = "running", skip = 0, Drop(locals_), outcome' = "left"
    PROVE  ValuesKnown' /\ FreedOnce'
<1>1. Agrees(val, locals_, consumed)
  BY DEF ValuesKnown, Known, Moved
<1>2. val' = [l \in Locals |-> IF l \in (locals_ \ {}) \ consumed THEN Freed(val[l]) ELSE val[l]]
  BY DEF Drop, Here
<1>3. Agrees(val', {}, {})
  BY <1>1, <1>2, DropDown
<1>4. \A l \in Locals : val'[l] \in {"none", "freed", "moved"}
  BY <1>3 DEF Agrees
<1> QED BY <1>4 DEF ValuesKnown, FreedOnce

LEMMA DropElsewhere ==
    ASSUME LocalTypes, skip # 0, NEW ls, Drop(ls)
    PROVE  val' = val
BY DEF Drop, Here, LocalTypes

(* The compiler's knowledge stays; the execution may leave the function. *)
LEMMA KnowledgeStays ==
    ASSUME LocalsNest, TryKeeps, UNCHANGED <<locals_, consumed, blocks>>
    PROVE  LocalsNest' /\ TryKeeps'
BY DEF LocalsNest, TryKeeps

LEMMA AllStays ==
    ASSUME DropInv, outcome = "running",
           UNCHANGED <<locals_, consumed, blocks, skip, val>>, outcome' # "left"
    PROVE  DropInv'
<1>1. LocalsNest' /\ TryKeeps'
  BY KnowledgeStays DEF DropInv
<1>2. Agrees(val, Known, Moved)'
  BY DEF DropInv, ValuesKnown, Agrees, Known, Moved
<1> QED BY <1>1, <1>2, AgreedSound DEF DropInv

LEMMA DropDeclare ==
    ASSUME Core, LocalTypes, DropInv, Declare
    PROVE  DropInv'
<1>1. PICK l \in Locals \ locals_ :
        /\ locals_' = locals_ \cup {l}
        /\ consumed' = consumed \ {l}
        /\ val' = IF skip = 0 THEN [val EXCEPT ![l] = "owned"] ELSE val
  BY DEF Declare, Here
<1>2. /\ outcome = "running" /\ UNCHANGED <<blocks, skip, outcome>>
      /\ blocks # << >> => blocks[Len(blocks)].kind \notin Tries
  BY DEF Declare, CanVisit, Top, Depth
<1>3. consumed' = consumed /\ consumed \subseteq locals_
  BY <1>1 DEF DropInv, LocalsNest
<1>4. \A k \in 1 .. Len(blocks) : k = Len(blocks) => blocks[k].kind \notin Tries
  BY <1>2 DEF Core, StackTypes
<1>5. TryKeeps'
  BY <1>2, <1>4 DEF DropInv, TryKeeps
<1>6. LocalsNest'
  BY <1>1, <1>2, <1>3 DEF DropInv, LocalsNest
<1>7. Agrees(val, Known, Moved)
  BY <1>2 DEF DropInv, ValuesKnown
<1>8. Agrees(val, Known, Moved)'
  <2>1. CASE skip = 0
    <3>1. Known = locals_ /\ Moved = consumed /\ Known' = locals_' /\ Moved' = consumed
      BY <1>2, <1>3, <2>1 DEF Known, Moved
    <3>2. \A m \in Locals : val'[m] = IF m = l THEN "owned" ELSE val[m]
      BY <1>1, <2>1 DEF LocalTypes
    <3> QED BY <1>1, <1>3, <1>7, <3>1, <3>2 DEF Agrees
  <2>2. CASE skip # 0
    <3>1. Known' = Known /\ Moved' = Moved /\ val' = val
      BY <1>1, <1>2, <2>2 DEF Known, Moved
    <3> QED BY <1>7, <3>1 DEF Agrees
  <2> QED BY <2>1, <2>2
<1> QED BY <1>2, <1>5, <1>6, <1>8, AgreedSound DEF DropInv

LEMMA DropConsume ==
    ASSUME Core, LocalTypes, DropInv, Consume, slips' \cap DropSlips = {}
    PROVE  DropInv'
<1>1. PICK l \in locals_ \ consumed :
        /\ consumed' = consumed \cup {l}
        /\ val' = IF skip = 0 THEN [val EXCEPT ![l] = "moved"] ELSE val
        /\ \A k \in 1 .. Len(blocks) : blocks[k].kind \in Tries => l \notin blocks[k].locals
  BY DEF Consume, Here, Slip, DropSlips, Depth
<1>2. outcome = "running" /\ UNCHANGED <<locals_, blocks, skip, outcome>>
  BY DEF Consume, CanVisit
<1>3. \A k \in 1 .. Len(blocks) : k = Len(blocks) => blocks[k].kind \notin Tries
  BY <1>1 DEF DropInv, TryKeeps
<1>4. TryKeeps'
  BY <1>2, <1>3 DEF DropInv, TryKeeps
<1>5. LocalsNest'
  BY <1>1, <1>2 DEF DropInv, LocalsNest
<1>6. Agrees(val, Known, Moved)
  BY <1>2 DEF DropInv, ValuesKnown
<1>7. Agrees(val, Known, Moved)'
  <2>1. CASE skip = 0
    <3>1. Known = locals_ /\ Moved = consumed /\ Known' = locals_ /\ Moved' = consumed \cup {l}
      BY <1>1, <1>2, <2>1 DEF Known, Moved
    <3>2. \A m \in Locals : val'[m] = IF m = l THEN "moved" ELSE val[m]
      BY <1>1, <2>1 DEF LocalTypes
    <3> QED BY <1>1, <1>6, <3>1, <3>2 DEF Agrees
  <2>2. CASE skip # 0
    <3>1. Known' = Known /\ Moved' = Moved /\ val' = val
      BY <1>1, <1>2, <2>2 DEF Known, Moved
    <3> QED BY <1>6, <3>1 DEF Agrees
  <2> QED BY <2>1, <2>2
<1> QED BY <1>2, <1>4, <1>5, <1>7, AgreedSound DEF DropInv

LEMMA DropReturn ==
    ASSUME Core, LocalTypes, DropInv, Return
    PROVE  DropInv'
<1>1. /\ outcome = "running" /\ UNCHANGED <<locals_, consumed, blocks, skip>>
      /\ outcome' = (IF skip = 0 THEN "left" ELSE outcome)
      /\ \/ Drop(locals_)
         \/ \E l \in locals_ :
               val' = [m \in Locals |->
                          IF skip # 0 THEN val[m]
                          ELSE IF m = l THEN "moved"
                          ELSE IF m \in locals_ \ consumed THEN Freed(val[m]) ELSE val[m]]
  BY DEF Return, CanVisit, Here
<1>2. LocalsNest' /\ TryKeeps'
  BY <1>1, KnowledgeStays DEF DropInv
<1>3. CASE skip # 0
  <2>1. val' = val
    BY <1>1, <1>3, DropElsewhere DEF LocalTypes
  <2> QED BY <1>1, <1>3, <2>1, AllStays
<1>4. CASE skip = 0 /\ Drop(locals_)
  BY <1>1, <1>2, <1>4, DroppedAll DEF DropInv
<1>5. CASE skip = 0 /\ ~Drop(locals_)
  <2>1. PICK l \in locals_ :
          val' = [m \in Locals |-> IF m = l THEN "moved"
                                   ELSE IF m \in locals_ \ consumed THEN Freed(val[m]) ELSE val[m]]
    BY <1>1, <1>5
  <2>2. PICK w : w = [m \in Locals |-> IF m \in (locals_ \ {}) \ consumed THEN Freed(val[m]) ELSE val[m]]
    OBVIOUS
  <2>3. Agrees(val, locals_, consumed)
    BY <1>1, <1>5 DEF DropInv, ValuesKnown, Known, Moved
  <2>4. Agrees(w, {}, {})
    BY <2>2, <2>3, DropDown
  <2>5. \A m \in Locals : w[m] \in {"none", "freed", "moved"}
    BY <2>4 DEF Agrees
  <2>6. \A m \in Locals : val'[m] = "moved" \/ val'[m] = w[m]
    BY <2>1, <2>2
  <2>7. \A m \in Locals : val'[m] \in {"none", "freed", "moved"}
    BY <2>5, <2>6
  <2> QED BY <1>1, <1>2, <1>5, <2>7 DEF DropInv, ValuesKnown, FreedOnce
<1> QED BY <1>3, <1>4, <1>5

(* An error caught in the function, with nothing owned that the try body     *)
(* declared, moves the execution to a try statement.                         *)
LEMMA Caught ==
    ASSUME Core, LocalTypes, DropInv, outcome = "running", skip = 0, TryBodies # {},
           (locals_ \ blocks[Innermost(TryBodies)].locals) \ consumed = {},
           skip' = Innermost(TryBodies), UNCHANGED <<locals_, consumed, blocks, val, outcome>>
    PROVE  DropInv'
<1>1. PICK k \in 1 .. Len(blocks) : k = skip' /\ k # 0
  BY LandsAt DEF Core
<1>2. blocks[k].locals \subseteq locals_ /\ blocks[k].consumed \subseteq consumed
  BY DEF DropInv, LocalsNest
<1>3. Agrees(val, locals_, consumed)
  BY DEF DropInv, ValuesKnown, Known, Moved
<1>4. val = [l \in Locals |-> IF l \in (locals_ \ blocks[k].locals) \ consumed
                              THEN Freed(val[l]) ELSE val[l]]
  BY <1>1 DEF LocalTypes
<1>5. Agrees(val, blocks[k].locals, blocks[k].consumed)
  BY <1>2, <1>3, <1>4, DropDown
<1>6. Known' = blocks[k].locals /\ Moved' = blocks[k].consumed
  BY <1>1 DEF Known, Moved
<1>7. Agrees(val, Known, Moved)'
  BY <1>5, <1>6 DEF Agrees
<1>8. LocalsNest' /\ TryKeeps'
  BY KnowledgeStays DEF DropInv
<1> QED BY <1>7, <1>8, AgreedSound DEF DropInv

LEMMA DropThrow ==
    ASSUME Core, LocalTypes, DropInv, Throw, slips' \cap DropSlips = {}
    PROVE  DropInv'
<1>1. /\ outcome = "running" /\ Drop(locals_) /\ UNCHANGED <<locals_, consumed, blocks>>
      /\ skip = 0 /\ TryBodies # {} => locals_ \ consumed = {}
      /\ skip' = (IF skip = 0 /\ TryBodies # {} THEN Innermost(TryBodies) ELSE skip)
      /\ outcome' = (IF skip = 0 /\ TryBodies = {} THEN "left" ELSE outcome)
  BY DEF Throw, CanVisit, Here, Unwinds, Slip, DropSlips
<1>2. CASE skip # 0
  <2>1. val' = val
    BY <1>1, <1>2, DropElsewhere
  <2> QED BY <1>1, <1>2, <2>1, AllStays
<1>3. CASE skip = 0 /\ TryBodies = {}
  <2>1. LocalsNest' /\ TryKeeps'
    BY <1>1, KnowledgeStays DEF DropInv
  <2> QED BY <1>1, <1>3, <2>1, DroppedAll DEF DropInv
<1>4. CASE skip = 0 /\ TryBodies # {}
  <2>1. val' = val
    BY <1>1, <1>4 DEF Drop, Here, LocalTypes
  <2> QED BY <1>1, <1>4, <2>1, Caught
<1> QED BY <1>2, <1>3, <1>4

LEMMA DropCalleeThrows ==
    ASSUME Core, LocalTypes, DropInv, CalleeThrows, slips' \cap DropSlips = {}
    PROVE  DropInv'
<1>1. /\ outcome = "running" /\ skip = 0 /\ UNCHANGED <<locals_, consumed, blocks, val>>
      /\ skip' = (IF TryBodies # {} THEN Innermost(TryBodies) ELSE skip)
      /\ outcome' = (IF TryBodies = {} THEN "left" ELSE outcome)
  BY DEF CalleeThrows, CanVisit, Here, Unwinds
<1>s. (locals_ \ (IF TryBodies = {} THEN {} ELSE blocks[Innermost(TryBodies)].locals)) \ consumed = {}
  BY DEF CalleeThrows, Slip, DropSlips
<1>2. CASE TryBodies = {}
  <2>1. Drop(locals_)
    BY <1>1, <1>s, <1>2 DEF Drop, Here, LocalTypes
  <2>2. LocalsNest' /\ TryKeeps'
    BY <1>1, KnowledgeStays DEF DropInv
  <2> QED BY <1>1, <1>2, <2>1, <2>2, DroppedAll DEF DropInv
<1>3. CASE TryBodies # {}
  BY <1>1, <1>s, <1>3, Caught
<1> QED BY <1>2, <1>3

(* break and continue drop what the loop's body declared. *)
LEMMA DropBreak ==
    ASSUME Core, LocalTypes, DropInv, Break \/ Continue
    PROVE  DropInv'
<1>1. /\ outcome = "running" /\ LoopBlocks # {} /\ UNCHANGED <<locals_, consumed, blocks>>
      /\ Drop(locals_ \ blocks[Innermost(LoopBlocks)].locals)
      /\ skip' = (IF skip = 0 THEN Innermost(LoopBlocks) ELSE skip)
      /\ outcome' \in {"running", "spins"}
  BY DEF Break, Continue, Jumps, CanVisit, Here
<1>2. LocalsNest' /\ TryKeeps'
  BY <1>1, KnowledgeStays DEF DropInv
<1>3. CASE skip # 0
  <2>1. val' = val
    BY <1>1, <1>3, DropElsewhere
  <2> QED BY <1>1, <1>3, <2>1, AllStays
<1>4. CASE skip = 0
  <2>1. PICK k \in 1 .. Len(blocks) : k = Innermost(LoopBlocks) /\ k # 0
    BY <1>1, LandsAt DEF Core
  <2>2. blocks[k].locals \subseteq locals_ /\ blocks[k].consumed \subseteq consumed
    BY DEF DropInv, LocalsNest
  <2>3. Agrees(val, locals_, consumed)
    BY <1>1, <1>4 DEF DropInv, ValuesKnown, Known, Moved
  <2>4. val' = [l \in Locals |-> IF l \in (locals_ \ blocks[k].locals) \ consumed
                                 THEN Freed(val[l]) ELSE val[l]]
    BY <1>1, <1>4, <2>1 DEF Drop, Here
  <2>5. Agrees(val', blocks[k].locals, blocks[k].consumed)
    BY <2>2, <2>3, <2>4, DropDown
  <2>6. Known' = blocks[k].locals /\ Moved' = blocks[k].consumed
    BY <1>1, <1>4, <2>1 DEF Known, Moved
  <2>7. Agrees(val, Known, Moved)'
    BY <2>5, <2>6 DEF Agrees
  <2> QED BY <1>1, <1>2, <2>7, AgreedSound DEF DropInv
<1> QED BY <1>3, <1>4

(* An opened block saves what the compiler knows. *)
LEMMA DropOpen ==
    ASSUME Core, LocalTypes, DropInv, NEW kind \in Kinds, Opens(kind),
           skip' = skip \/ (skip = 0 /\ skip' = Len(blocks) + 1)
    PROVE  DropInv'
<1>1. /\ outcome = "running" /\ UNCHANGED <<locals_, consumed, val, outcome>>
      /\ blocks' = Append(blocks, [kind |-> kind, base |-> Len(deferStack_),
                                   locals |-> locals_, consumed |-> consumed])
  BY DEF Opens, CanVisit
<1>2. PICK b \in Blocks : /\ blocks' = Append(blocks, b)
                         /\ b.locals = locals_ /\ b.consumed = consumed
  BY OpensFacts DEF Core
<1>3. PICK n \in Nat : n = Len(blocks)
  BY DEF Core, StackTypes
<1>4. /\ Len(blocks') = n + 1 /\ blocks'[n + 1] = b
      /\ \A k \in 1 .. n : blocks'[k] = blocks[k]
      /\ \A k \in 1 .. n + 1 : k \in 1 .. n \/ k = n + 1
  BY <1>2, <1>3, AppendFacts DEF Core, StackTypes
<1>5. consumed \subseteq locals_
  BY DEF DropInv, LocalsNest
<1>6. \A k \in 1 .. n : /\ blocks[k].consumed \subseteq blocks[k].locals
                        /\ blocks[k].locals \subseteq locals_ /\ blocks[k].consumed \subseteq consumed
  BY <1>3 DEF DropInv, LocalsNest
<1>7. LocalsNest'
  <2>1. \A k \in 1 .. n + 1 :
          /\ blocks'[k].consumed \subseteq blocks'[k].locals
          /\ blocks'[k].locals \subseteq locals_ /\ blocks'[k].consumed \subseteq consumed
    BY <1>2, <1>4, <1>5, <1>6
  <2>2. ASSUME NEW j \in 1 .. n + 1, NEW k \in 1 .. n + 1, j <= k
        PROVE  /\ blocks'[j].locals \subseteq blocks'[k].locals
               /\ blocks'[j].consumed \subseteq blocks'[k].consumed
    <3>1. CASE k = n + 1
      BY <1>2, <1>4, <2>1, <3>1
    <3>2. CASE k \in 1 .. n
      <4>1. j \in 1 .. n
        BY <2>2, <3>2
      <4>2. /\ blocks[j].locals \subseteq blocks[k].locals
            /\ blocks[j].consumed \subseteq blocks[k].consumed
        BY <1>3, <2>2, <3>2, <4>1 DEF DropInv, LocalsNest
      <4> QED BY <1>4, <3>2, <4>1, <4>2
    <3> QED BY <1>4, <3>1, <3>2
  <2> QED BY <1>1, <1>4, <1>5, <2>1, <2>2 DEF LocalsNest
<1>8. TryKeeps'
  <2>1. SUFFICES ASSUME NEW j \in 1 .. n + 1, blocks'[j].kind \in Tries
                 PROVE  /\ j = n + 1 => blocks'[j].locals = locals_ /\ blocks'[j].consumed = consumed
                        /\ j # n + 1 => /\ blocks'[j + 1].locals = blocks'[j].locals
                                        /\ blocks'[j + 1].consumed = blocks'[j].consumed
    BY <1>1, <1>4 DEF TryKeeps
  <2>2. CASE j = n + 1
    BY <1>2, <1>4, <2>2
  <2>3. CASE j = n /\ j # n + 1
    <3>1. blocks[n].locals = locals_ /\ blocks[n].consumed = consumed
      BY <1>3, <1>4, <2>1, <2>3 DEF DropInv, TryKeeps
    <3> QED BY <1>2, <1>4, <2>3, <3>1
  <2>4. CASE j # n /\ j # n + 1
    <3>1. j \in 1 .. n /\ j + 1 \in 1 .. n
      BY <2>4
    <3> QED BY <1>3, <1>4, <2>1, <2>4, <3>1 DEF DropInv, TryKeeps
  <2> QED BY <2>2, <2>3, <2>4
<1>9. Known' = Known /\ Moved' = Moved
  <2>1. CASE skip' = skip /\ skip = 0
    BY <1>1, <2>1 DEF Known, Moved
  <2>2. CASE skip' = skip /\ skip # 0
    <3>1. skip \in 1 .. n
      BY <1>3, <2>2 DEF Core, StackTypes
    <3> QED BY <1>4, <2>2, <3>1 DEF Known, Moved
  <2>3. CASE skip = 0 /\ skip' = n + 1
    <3>1. skip' # 0
      BY <2>3
    <3> QED BY <1>2, <1>4, <2>3, <3>1 DEF Known, Moved
  <2> QED BY <1>3, <2>1, <2>2, <2>3
<1>10. Agrees(val, Known, Moved)'
  BY <1>1, <1>9 DEF DropInv, ValuesKnown, Agrees
<1> QED BY <1>1, <1>7, <1>8, <1>10, AgreedSound DEF DropInv

(* A closed block gives back what it saved, to the compiler and, if the      *)
(* execution is there or waits there, to the execution.                      *)
LEMMA DropClose ==
    ASSUME Core, LocalTypes, DropInv, outcome = "running", blocks # << >>,
           blocks' = Front(blocks), Resumes,
           locals_' = Top.locals, consumed' = Top.consumed, outcome' # "left",
           \/ skip = 0 /\ Drop(locals_ \ Top.locals)
           \/ skip # 0 /\ val' = val
    PROVE  DropInv'
<1>1. PICK n \in Nat \ {0} : n = Len(blocks)
  BY DEF Core, StackTypes
<1>2. Top = blocks[n] /\ skip' = IF skip = n THEN 0 ELSE skip
  BY <1>1 DEF Top, Depth, Resumes
<1>3. /\ Len(blocks') = n - 1
      /\ \A k \in 1 .. n - 1 : blocks'[k] = blocks[k]
  <2>1. n - 1 \in 0 .. Len(blocks) /\ blocks \in Seq(Blocks)
    BY <1>1 DEF Core, StackTypes
  <2>2. blocks' = SubSeq(blocks, 1, n - 1)
    BY <1>1 DEF Front
  <2>3. /\ Len(SubSeq(blocks, 1, n - 1)) = n - 1
        /\ \A k \in 1 .. n - 1 : SubSeq(blocks, 1, n - 1)[k] = blocks[k]
    BY <2>1, PrefixFacts, Zenon
  <2> QED BY <2>2, <2>3
<1>4. n \in 1 .. n /\ \A k \in 1 .. n - 1 : k \in 1 .. n /\ k <= n
  BY <1>1
<1>5. LocalsNest'
  <2>1. Top.consumed \subseteq Top.locals
    BY <1>1, <1>2, <1>4 DEF DropInv, LocalsNest
  <2>2. \A k \in 1 .. n - 1 :
          /\ blocks[k].consumed \subseteq blocks[k].locals
          /\ blocks[k].locals \subseteq Top.locals /\ blocks[k].consumed \subseteq Top.consumed
    BY <1>1, <1>2, <1>4 DEF DropInv, LocalsNest
  <2>3. \A j, k \in 1 .. n - 1 : j <= k => /\ blocks[j].locals \subseteq blocks[k].locals
                                           /\ blocks[j].consumed \subseteq blocks[k].consumed
    BY <1>1, <1>4 DEF DropInv, LocalsNest
  <2> QED BY <1>3, <2>1, <2>2, <2>3 DEF LocalsNest
<1>6. TryKeeps'
  <2>1. SUFFICES ASSUME NEW j \in 1 .. n - 1, blocks[j].kind \in Tries
                 PROVE  /\ j = n - 1 => blocks[j].locals = Top.locals /\ blocks[j].consumed = Top.consumed
                        /\ j # n - 1 => /\ blocks[j + 1].locals = blocks[j].locals
                                        /\ blocks[j + 1].consumed = blocks[j].consumed
    <3>1. \A j \in 1 .. n - 1 : j # n - 1 => j + 1 \in 1 .. n - 1
      OBVIOUS
    <3> QED BY <1>3, <2>1, <3>1 DEF TryKeeps
  <2>2. j \in 1 .. n /\ j # n /\ (j = n - 1 => j + 1 = n)
    OBVIOUS
  <2>3. blocks[j + 1].locals = blocks[j].locals /\ blocks[j + 1].consumed = blocks[j].consumed
    BY <1>1, <2>1, <2>2 DEF DropInv, TryKeeps
  <2> QED BY <1>2, <2>2, <2>3
<1>7. Agrees(val, Known, Moved)
  BY DEF DropInv, ValuesKnown
<1>8. Agrees(val, Known, Moved)'
  <2>1. CASE skip = 0
    <3>1. Known = locals_ /\ Moved = consumed
      BY <2>1 DEF Known, Moved
    <3>2. Top.locals \subseteq locals_ /\ Top.consumed \subseteq consumed
      BY <1>1, <1>2, <1>4 DEF DropInv, LocalsNest
    <3>3. val' = [l \in Locals |-> IF l \in (locals_ \ Top.locals) \ consumed
                                   THEN Freed(val[l]) ELSE val[l]]
      BY <2>1 DEF Drop, Here
    <3>4. Agrees(val', Top.locals, Top.consumed)
      BY <1>7, <3>1, <3>2, <3>3, DropDown
    <3>5. Known' = Top.locals /\ Moved' = Top.consumed
      <4>1. skip' = 0
        BY <1>1, <1>2, <2>1
      <4> QED BY <4>1 DEF Known, Moved
    <3> QED BY <3>4, <3>5 DEF Agrees
  <2>2. CASE skip # 0 /\ skip = n
    <3>1. Known' = Known /\ Moved' = Moved
      BY <1>2, <2>2 DEF Known, Moved
    <3> QED BY <1>7, <2>2, <3>1 DEF Agrees
  <2>3. CASE skip # 0 /\ skip # n
    <3>1. skip' = skip /\ skip \in 1 .. n - 1
      BY <1>1, <1>2, <2>3 DEF Core, StackTypes
    <3>2. Known' = Known /\ Moved' = Moved
      BY <1>3, <2>3, <3>1 DEF Known, Moved
    <3> QED BY <1>7, <2>3, <3>2 DEF Agrees
  <2> QED BY <2>1, <2>2, <2>3
<1> QED BY <1>5, <1>6, <1>8, AgreedSound DEF DropInv

LEMMA DropLeaveScope ==
    ASSUME Core, LocalTypes, DropInv, outcome = "running", blocks # << >>,
           LeaveScope, Resumes, outcome' # "left"
    PROVE  DropInv'
<1>1. /\ Drop(IF terminated THEN {} ELSE locals_ \ Top.locals)
      /\ locals_' = Top.locals /\ consumed' = Top.consumed /\ blocks' = Front(blocks)
  BY DEF LeaveScope
<1>2. skip = 0 => Drop(locals_ \ Top.locals)
  BY <1>1 DEF Core, Alive
<1>3. skip # 0 => val' = val
  BY <1>1, DropElsewhere
<1> QED BY <1>1, <1>2, <1>3, DropClose

(* The innermost block is a try statement: it saved what is known now. *)
LEMMA TryTop ==
    ASSUME Core, DropInv, blocks # << >>, Top.kind \in Tries
    PROVE  Top.locals = locals_ /\ Top.consumed = consumed
<1>1. Top = blocks[Len(blocks)] /\ Len(blocks) \in 1 .. Len(blocks)
  BY DEF Top, Depth, Core, StackTypes
<1> QED BY <1>1 DEF DropInv, TryKeeps

LEMMA DropCloseCatch ==
    ASSUME Core, LocalTypes, DropInv, CloseCatch
    PROVE  DropInv'
<1>1. /\ outcome = "running" /\ blocks # << >> /\ Top.kind = "catch"
      /\ blocks' = Front(blocks) /\ Resumes
      /\ UNCHANGED <<locals_, consumed, val, outcome>>
  BY DEF CloseCatch, Closing
<1>2. Top.locals = locals_ /\ Top.consumed = consumed
  BY <1>1, TryTop DEF Tries
<1>3. skip = 0 => Drop(locals_ \ Top.locals)
  BY <1>1, <1>2 DEF Drop, Here, LocalTypes
<1> QED BY <1>1, <1>2, <1>3, DropClose

LEMMA DropCloseTry ==
    ASSUME Core, LocalTypes, DropInv, CloseTry
    PROVE  DropInv'
<1>1. /\ outcome = "running" /\ blocks # << >> /\ UNCHANGED <<locals_, consumed, val, outcome>>
  BY DEF CloseTry, Closing
<1>2. PICK n \in Nat \ {0} : n = Len(blocks) /\ n \in 1 .. n
  BY CatchFacts DEF Core
<1>6. /\ Len(blocks') = n /\ Top = blocks[n] /\ Top.kind = "try"
      /\ skip' = (IF skip = 0 THEN n ELSE IF skip = n THEN 0 ELSE skip)
  BY <1>2, CatchFacts DEF Core
<1>7. \A k \in 1 .. n :
        /\ blocks'[k].locals = blocks[k].locals /\ blocks'[k].consumed = blocks[k].consumed
        /\ blocks'[k].kind \in Tries => blocks[k].kind \in Tries
  BY <1>2, CatchFacts DEF Core, Tries
<1>8. LocalsNest'
  <2>1. \A k \in 1 .. n :
          /\ blocks[k].consumed \subseteq blocks[k].locals
          /\ blocks[k].locals \subseteq locals_ /\ blocks[k].consumed \subseteq consumed
    BY <1>2 DEF DropInv, LocalsNest
  <2>2. \A j, k \in 1 .. n : j <= k => /\ blocks[j].locals \subseteq blocks[k].locals
                                       /\ blocks[j].consumed \subseteq blocks[k].consumed
    BY <1>2 DEF DropInv, LocalsNest
  <2>3. consumed \subseteq locals_
    BY DEF DropInv, LocalsNest
  <2> QED BY <1>1, <1>6, <1>7, <2>1, <2>2, <2>3 DEF LocalsNest
<1>9. TryKeeps'
  <2>1. \A j \in 1 .. n : j # n => j + 1 \in 1 .. n
    BY <1>2
  <2>2. \A j \in 1 .. n : blocks[j].kind \in Tries =>
          /\ j = n => blocks[j].locals = locals_ /\ blocks[j].consumed = consumed
          /\ j # n => /\ blocks[j + 1].locals = blocks[j].locals
                      /\ blocks[j + 1].consumed = blocks[j].consumed
    BY <1>2 DEF DropInv, TryKeeps
  <2> QED BY <1>1, <1>6, <1>7, <2>1, <2>2 DEF TryKeeps
<1>10. blocks[n].locals = locals_ /\ blocks[n].consumed = consumed
  BY <1>1, <1>6, TryTop DEF Tries
<1>11. Known' = Known /\ Moved' = Moved
  <2>1. CASE skip = 0
    <3>1. skip' = n /\ skip' # 0
      BY <1>2, <1>6, <2>1
    <3> QED BY <1>2, <1>7, <1>10, <2>1, <3>1 DEF Known, Moved
  <2>2. CASE skip = n
    <3>1. skip' = 0 /\ skip # 0
      BY <1>2, <1>6, <2>2
    <3> QED BY <1>1, <1>10, <2>2, <3>1 DEF Known, Moved
  <2>3. CASE skip # 0 /\ skip # n
    <3>1. skip' = skip /\ skip \in 1 .. n
      BY <1>2, <1>6, <2>3 DEF Core, StackTypes
    <3> QED BY <1>7, <2>3, <3>1 DEF Known, Moved
  <2> QED BY <2>1, <2>2, <2>3
<1>12. Agrees(val, Known, Moved)'
  BY <1>1, <1>11 DEF DropInv, ValuesKnown, Agrees
<1> QED BY <1>1, <1>8, <1>9, <1>12, AgreedSound DEF DropInv

LEMMA DropEnd ==
    ASSUME Core, LocalTypes, DropInv, EndFunction
    PROVE  DropInv'
<1>1. /\ outcome = "running" /\ blocks = << >> /\ Drop(locals_) /\ outcome' = "left"
      /\ UNCHANGED <<locals_, consumed, blocks>>
  BY DEF EndFunction, compiler
<1>2. skip = 0
  BY <1>1 DEF Core, StackTypes
<1>3. LocalsNest' /\ TryKeeps'
  BY <1>1, KnowledgeStays DEF DropInv
<1> QED BY <1>1, <1>2, <1>3, DroppedAll DEF DropInv

LEMMA DropStep ==
    ASSUME Core, LocalTypes, DropInv, [Next]_vars, slips' \cap DropSlips = {}
    PROVE  DropInv'
<1>1. CASE Defer
  BY <1>1, AllStays DEF Defer, CanVisit
<1>2. CASE Declare \/ Consume \/ Return \/ Throw \/ CalleeThrows \/ Break \/ Continue
  BY <1>2, DropDeclare, DropConsume, DropReturn, DropThrow, DropCalleeThrows, DropBreak
<1>3. ASSUME NEW kind \in Kinds, Opens(kind), Enters \/ EntersOrNot
      PROVE  DropInv'
  <2>1. skip' = skip \/ (skip = 0 /\ skip' = Len(blocks) + 1)
    BY <1>3 DEF Enters, EntersOrNot, Here, Depth
  <2> QED BY <1>3, <2>1, DropOpen
<1>4. CASE OpenIf \/ OpenSwitch \/ OpenWhile \/ OpenDo
  BY <1>3, <1>4 DEF OpenIf, OpenSwitch, OpenWhile, OpenDo, Kinds
<1>5. CASE OpenLoop \/ OpenNaked \/ OpenTry \/ OpenScope
  BY <1>3, <1>5 DEF OpenLoop, OpenNaked, OpenTry, OpenScope, Kinds
<1>6. CASE CloseIf \/ CloseNaked \/ CloseScope \/ CloseSwitch \/ CloseLoop
  <2>1. /\ outcome = "running" /\ blocks # << >> /\ LeaveScope /\ Resumes /\ outcome' # "left"
    BY <1>6 DEF CloseIf, CloseNaked, CloseScope, CloseSwitch, CloseLoop, Closing
  <2> QED BY <2>1, DropLeaveScope
<1>7. CASE CloseTry \/ CloseCatch \/ EndFunction
  BY <1>7, DropCloseTry, DropCloseCatch, DropEnd
<1>8. CASE UNCHANGED vars
  <2>1. UNCHANGED <<locals_, consumed, blocks, skip, val, outcome>>
    BY <1>8 DEF vars, compiler, execution
  <2>2. LocalsNest' /\ TryKeeps'
    BY <2>1, KnowledgeStays DEF DropInv
  <2> QED BY <2>1, <2>2 DEF DropInv, ValuesKnown, Agrees, Known, Moved, FreedOnce
<1> QED BY <1>1, <1>2, <1>4, <1>5, <1>6, <1>7, <1>8 DEF Next, Finished

LEMMA DropInit == Init => DropInv
<1> SUFFICES ASSUME Init PROVE DropInv
  OBVIOUS
<1>1. Len(blocks) = 0 /\ locals_ = {} /\ consumed = {} /\ outcome = "running" /\ skip = 0
  BY DEF Init
<1>2. \A l \in Locals : val[l] = "none"
  BY DEF Init
<1>3. LocalsNest /\ TryKeeps
  BY <1>1 DEF LocalsNest, TryKeeps
<1> QED BY <1>1, <1>2, <1>3 DEF DropInv, ValuesKnown, Agrees, Known, Moved, FreedOnce

-----------------------------------------------------------------------------
-----------------------------------------------------------------------------
(* The theorems. *)

LEMMA StackInit == Init => Core /\ LocalTypes /\ TextInv /\ PendingExact /\ Promised!Init
<1> SUFFICES ASSUME Init PROVE Core /\ LocalTypes /\ TextInv /\ PendingExact /\ Promised!Init
  OBVIOUS
<1>1. Core
  BY DEF Init, Core, StackTypes, SkipKind, Alive
<1>2. TextInv
  BY DEF Init, TextInv, Nested, Parts
<1>3. PendingExact
  BY DEF Init, PendingExact, Met
<1>4. LocalTypes
  <2>1. locals_ = {} /\ consumed = {} /\ terminated = FALSE /\ slips = {}
    BY DEF Init
  <2>2. stmts \in 0..MaxStmts
    BY CleanupAssumption DEF Init
  <2>3. val \in [Locals -> Values]
    BY DEF Init, Values
  <2> QED BY <2>1, <2>2, <2>3 DEF LocalTypes
<1>5. Promised!Init
  BY DEF Init, Promised!Init
<1> QED BY <1>1, <1>2, <1>3, <1>4, <1>5

LEMMA CoreSound == Spec => [](Core /\ LocalTypes)
<1>1. Core /\ LocalTypes /\ [Next]_vars => (Core /\ LocalTypes)'
  BY CoreStep, LocalStep
<1> QED BY <1>1, StackInit, PTL DEF Spec

(* The types hold of every program: the walk of the compiler and the         *)
(* execution never lose each other (skip is an open block).                  *)
THEOREM CleanupTypeCorrect == Spec => []TypeOK
<1>1. Core /\ LocalTypes => TypeOK
  BY DEF Core, StackTypes, Entries, LocalTypes, TypeOK, Depth
<1> QED BY <1>1, CoreSound, PTL

(* The compiler's stack is in order until the text slips. *)
TextSound == slips \cap TextSlips = {} => TextInv

LEMMA TextHolds == Spec => []TextSound
<1>1. Core /\ LocalTypes /\ TextSound /\ [Next]_vars => TextSound'
  <2>1. ASSUME LocalTypes, [Next]_vars, slips' \cap TextSlips = {}
        PROVE  slips \cap TextSlips = {}
    BY <2>1, SlipStep
  <2> QED BY <2>1, TextStep DEF TextSound
<1>2. Init => TextSound
  BY StackInit DEF TextSound
<1> QED BY <1>1, <1>2, CoreSound, PTL DEF Spec

(* The compiler finds only callbacks above the base of a #scope block, and   *)
(* so does not crash, unless a defer stands directly in the body of a loop,  *)
(* case, try, catch or #scope, or a throw in a block where cleanups are      *)
(* registered.                                                               *)
THEOREM CompilerSurvives == Spec => []CrashesExplained
<1>1. ASSUME Core, LocalTypes, TextSound, CrashesExplained, [Next]_vars
      PROVE  CrashesExplained'
  <2>1. slips \subseteq slips'
    BY <1>1, SlipStep
  <2>2. CASE CloseScope
    <3>1. outcome = "running" /\ blocks # << >> /\ Top.kind = "scope" /\ slips' = slips
      BY <2>2 DEF CloseScope, Closing
    <3>2. slips \cap TextSlips = {} => outcome' = outcome
      <4>1. ASSUME slips \cap TextSlips = {}
            PROVE  \A i \in DOMAIN Above(Top.base) : Above(Top.base)[i] \in Callbacks
        BY <1>1, <3>1, <4>1, ScopeAbove DEF TextSound, Core
      <4> QED BY <2>2, <4>1 DEF CloseScope
    <3> QED BY <3>1, <3>2 DEF CrashesExplained
  <2>3. CASE outcome' # "crashed"
    BY <2>3 DEF CrashesExplained
  <2>4. CASE UNCHANGED vars
    BY <1>1, <2>4 DEF vars, execution, CrashesExplained
  <2>5. CASE Defer \/ Declare \/ Consume \/ Return \/ Throw \/ CalleeThrows \/ Break \/ Continue
    <3>1. outcome' # "crashed"
      BY <2>5 DEF Defer, Declare, Consume, Return, Throw, CalleeThrows, Break, Continue, CanVisit, Unwinds
    <3> QED BY <3>1 DEF CrashesExplained
  <2>6. CASE OpenIf \/ OpenSwitch \/ OpenWhile \/ OpenDo \/ OpenLoop \/ OpenNaked \/ OpenTry
             \/ OpenScope
    <3>1. outcome' # "crashed"
      BY <2>6 DEF OpenIf, OpenSwitch, OpenWhile, OpenDo, OpenLoop, OpenNaked, OpenTry, OpenScope,
                  Opens, CanVisit
    <3> QED BY <3>1 DEF CrashesExplained
  <2>7. CASE CloseIf \/ CloseNaked \/ CloseSwitch \/ CloseLoop \/ CloseTry \/ CloseCatch \/ EndFunction
    <3>1. outcome' # "crashed"
      BY <2>7 DEF CloseIf, CloseNaked, CloseSwitch, CloseLoop, CloseTry, CloseCatch, EndFunction, Closing
    <3> QED BY <3>1 DEF CrashesExplained
  <2> QED BY <1>1, <2>2, <2>4, <2>5, <2>6, <2>7 DEF Next, Finished
<1>2. Init => CrashesExplained
  BY DEF Init, CrashesExplained
<1> QED BY <1>1, <1>2, CoreSound, TextHolds, PTL DEF Spec

(* The execution has registered what the compiler has on its stack until a   *)
(* cleanup slips.                                                            *)
PathSound == slips \cap CleanupSlips = {} => PendingExact

LEMMA PathHolds ==
    ASSUME Core, LocalTypes, TextSound, PathSound, [Next]_vars, slips' \cap CleanupSlips = {}
    PROVE  PendingExact' /\ Promise
<1>1. slips \cap CleanupSlips = {} /\ slips \cap TextSlips = {}
  BY SlipStep DEF CleanupSlips
<1>2. StackInv
  BY <1>1 DEF TextSound, PathSound, StackInv
<1> QED BY <1>2, PathStep

(* The emitted cleanups implement the language's stack of cleanups, in       *)
(* programs of any size, up to the first defer directly in a body that does  *)
(* not emit it, throw in a block with cleanups registered, jump past a       *)
(* cleanup or error of a callee past one.                                    *)
THEOREM CleanupsSound == Spec => CleanupsKeepPromise
<1>1. Core /\ LocalTypes /\ TextSound /\ PathSound /\ [Next]_vars => PathSound'
  BY PathHolds DEF PathSound
<1>2. Core /\ LocalTypes /\ TextSound /\ PathSound /\ [Next]_vars
        => (slips' \cap CleanupSlips = {} => Promise)
  BY PathHolds
<1>3. Init => PathSound
  BY StackInit DEF PathSound
<1>4. Spec => []PathSound
  BY <1>1, <1>3, CoreSound, TextHolds, PTL DEF Spec
<1>5. Spec => [][slips' \cap CleanupSlips = {} => Promise]_vars
  BY <1>2, <1>4, CoreSound, TextHolds, PTL DEF Spec
<1>6. Spec => Promised!Init
  BY StackInit, PTL DEF Spec
<1> QED BY <1>5, <1>6 DEF CleanupsKeepPromise

(* The values are what the compiler takes them for until a drop slips.      *)
DropSound == slips \cap DropSlips = {} => DropInv

(* Every owned local is freed exactly once on every path: none is freed      *)
(* twice or unset, and none is leaked when the function is left, unless an   *)
(* error is thrown past an owned local or one is moved in a try statement.   *)
(* (Each exit drops what the text before it declared and has not moved; what *)
(* the compiler saved at the start of a block is what it and any execution   *)
(* that comes to the block's end agree on.)                                  *)
THEOREM DropsSound == Spec => []DropsExact
<1>1. ASSUME Core, LocalTypes, DropSound, [Next]_vars PROVE DropSound'
  <2>1. slips' \cap DropSlips = {} => slips \cap DropSlips = {}
    BY <1>1, SlipStep
  <2> QED BY <1>1, <2>1, DropStep DEF DropSound
<1>2. DropSound => DropsExact
  BY DEF DropSound, DropInv, DropsExact
<1>3. Init => DropSound
  BY DropInit DEF DropSound
<1> QED BY <1>1, <1>2, <1>3, CoreSound, PTL DEF Spec
=============================================================================
