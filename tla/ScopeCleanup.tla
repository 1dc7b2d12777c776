---------------------------- MODULE ScopeCleanup ----------------------------
(***************************************************************************)
(* The cleanups IRGen_stmt.cpp and IRGen_flow.cpp emit for defer, #scope    *)
(* and owned locals.  The compiler visits a function's statements in the    *)
(* order of the text and decides at each exit, from deferStack_ and locals_, *)
(* which cleanups to emit there; an execution takes one path through that   *)
(* code.  The model walks the text and one execution of it together: `skip` *)
(* is 0 while the execution is where the compiler is, and otherwise the     *)
(* open block at whose end the execution will be met again.                 *)
(*                                                                          *)
(* The program is any nesting of blocks and statements; a loop body runs at *)
(* most once.  Owned locals are strings; one declared directly in the body   *)
(* of a try or catch would be freed after the statement, where LLVM rejects *)
(* the use of its alloca.                                                    *)
(*                                                                          *)
(* Nothing stops a program from the constructs whose cleanups the compiler  *)
(* gets wrong.  `slips` remembers which of them have happened; no guard     *)
(* reads it, and each property names the slips it is about.                  *)
(***************************************************************************)
EXTENDS Integers, SequencesExt

CONSTANTS Defers,       \* defer statements of the program
          Callbacks,    \* callbacks of its #scope blocks
          Locals,       \* its owned local variables
          Null,         \* a DeferredStmt with no statement in it
          MaxStmts,     \* bound: statements and blocks in the function
          MaxDepth      \* bound: nesting

Cleanups == Defers \cup Callbacks

ASSUME CleanupAssumption ==
    /\ Defers \cap Callbacks = {}
    /\ Null \notin Cleanups
    /\ MaxStmts \in Nat /\ MaxDepth \in Nat

VARIABLES
    deferStack_,   \* the compiler's stack of deferred statements
    locals_,       \* owned locals the compiler knows at this point
    consumed,      \* those of them it knows to have been moved from
    blocks,        \* open blocks, innermost last, with what each saved
    terminated,    \* the insert block has a terminator
    stmts,         \* statements visited
    skip,          \* where the execution is (see above)
    pending,       \* cleanups the execution registered and has not run
    ran,           \* entries the last step ran
    val,           \* what each local holds in the execution
    outcome,       \* "running", "left", "spins" or "crashed"
    slips          \* history: what the program has done (see above)

compiler  == <<deferStack_, locals_, consumed, blocks, terminated, stmts>>
execution == <<skip, pending, ran, val, outcome>>
vars      == <<compiler, execution, slips>>

Kinds  == {"if", "naked", "scope", "switch", "while", "do", "forever", "try", "catch"}
Loops  == {"while", "do", "forever"}
Values == {"none", "owned", "moved", "freed", "bad"}
Blocks == [kind : Kinds, base : Nat, locals : SUBSET Locals, consumed : SUBSET Locals]

Slips  == {"deferInBody",     \* a defer directly in a loop, case, try, catch or #scope
           "throwNested",     \* a throw in a block while cleanups are registered
           "jumpsPast",       \* a break or continue past a cleanup of the loop's body
           "unwindsDefers",   \* an error of a callee past registered cleanups
           "unwindsLocals",   \* an error of a callee past owned locals
           "throwDrops",      \* a throw to a catch of this function past owned locals
           "moveInTry"}       \* a move, in a try statement, of a local from outside it

Init ==
    /\ deferStack_ = << >> /\ locals_ = {} /\ consumed = {}
    /\ blocks = << >> /\ terminated = FALSE /\ stmts = 0
    /\ skip = 0
    /\ pending = << >> /\ ran = << >>
    /\ val = [l \in Locals |-> "none"]
    /\ outcome = "running"
    /\ slips = {}

-----------------------------------------------------------------------------
(* What emitted code does when the execution is there. *)

Here == skip = 0

(* The registered cleanups without those of es that have run; one that is    *)
(* not run from the top leaves a gap.                                        *)
Outstanding(es) ==
    LET n == Len(pending) - Len(es) IN
    IF n >= 0 /\ es = Reverse(SubSeq(pending, n + 1, Len(pending)))
    THEN SubSeq(pending, 1, n)
    ELSE [i \in DOMAIN pending |-> IF pending[i] \in ToSet(es) THEN Null ELSE pending[i]]

(* The entries es, emitted at this point, in this order.  An entry that      *)
(* resize() made up has no statement, and does nothing.                      *)
Emit(es) ==
    IF Here
    THEN ran' = es /\ pending' = Outstanding(es)
    ELSE ran' = << >> /\ UNCHANGED pending

Quiet == ran' = << >> /\ UNCHANGED pending

(* lucis_freeStr: null is ignored; a pointer is freed whatever it is. *)
Freed(v) == CASE v = "owned" -> "freed" [] v = "moved" -> "moved" [] OTHER -> "bad"

(* emitCleanupForLocal for each of ls that is not marked consumed. *)
Drop(ls) ==
    val' = [l \in Locals |-> IF Here /\ l \in ls \ consumed THEN Freed(val[l]) ELSE val[l]]

-----------------------------------------------------------------------------
(* Statements. *)

CanVisit == outcome = "running" /\ ~terminated /\ stmts < MaxStmts

Depth == Len(blocks)
Top   == blocks[Depth]

(* The blocks whose end emits the plain defers registered in it. *)
OwnsDefers == blocks # << >> => Top.kind \in {"if", "naked"}

Tries == {"try", "catch"}

Visit == stmts' = stmts + 1

Slip(name, happens) == IF happens THEN {name} ELSE {}

(* visitDeferStmt. *)
Defer ==
    /\ CanVisit /\ Visit
    /\ \E d \in Defers :
          /\ d \notin ToSet(deferStack_) \cup ToSet(pending)
          /\ deferStack_' = Append(deferStack_, d)
          /\ pending' = IF Here THEN Append(pending, d) ELSE pending
    /\ ran' = << >>
    /\ slips' = slips \cup Slip("deferInBody", ~OwnsDefers)
    /\ UNCHANGED <<locals_, consumed, blocks, terminated, skip, val, outcome>>

(* The declaration of an owned local. *)
Declare ==
    /\ CanVisit /\ Visit
    /\ blocks # << >> => Top.kind \notin Tries
    /\ \E l \in Locals \ locals_ :
          /\ locals_' = locals_ \cup {l}
          /\ consumed' = consumed \ {l}
          /\ val' = IF Here THEN [val EXCEPT ![l] = "owned"] ELSE val
    /\ Quiet
    /\ UNCHANGED <<deferStack_, blocks, terminated, skip, outcome, slips>>

(* consumeLocalByName: the value is moved and null stored in its place. *)
Consume ==
    /\ CanVisit /\ Visit
    /\ \E l \in locals_ \ consumed :
          /\ Here => val[l] = "owned"
          /\ consumed' = consumed \cup {l}
          /\ val' = IF Here THEN [val EXCEPT ![l] = "moved"] ELSE val
          /\ slips' = slips \cup Slip("moveInTry",
                         \E k \in 1 .. Depth : blocks[k].kind \in Tries /\ l \in blocks[k].locals)
    /\ Quiet
    /\ UNCHANGED <<deferStack_, locals_, blocks, terminated, skip, outcome>>

(* Mutant: ret emits the deferred statements in the order they were pushed. *)
emitDeferredCleanupsForward == deferStack_

(* emitDeferredCleanups. *)
emitDeferredCleanups == Reverse(deferStack_)

(* visitReturnStmt, and bail, ? and guard returns: every cleanup, then ret.  *)
(* A returned local is not dropped: the caller has it.                       *)
Return ==
    /\ CanVisit /\ Visit
    /\ Emit(emitDeferredCleanups)
    /\ \/ Drop(locals_)
       \/ \E l \in locals_ :
             /\ Here => val[l] = "owned"
             /\ val' = [m \in Locals |->
                          IF ~Here THEN val[m]
                          ELSE IF m = l THEN "moved"
                          ELSE IF m \in locals_ \ consumed THEN Freed(val[m]) ELSE val[m]]
    /\ terminated' = TRUE
    /\ outcome' = IF Here THEN "left" ELSE outcome
    /\ UNCHANGED <<deferStack_, locals_, consumed, blocks, skip, slips>>

(* The try body an error thrown here lands in the catch clauses of. *)
TryBodies == {k \in 1 .. Depth : blocks[k].kind = "try"}
Innermost(S) == CHOOSE k \in S : \A j \in S : j <= k

(* longjmp, as far as this function is concerned. *)
Unwinds ==
    /\ skip' = IF Here /\ TryBodies # {} THEN Innermost(TryBodies) ELSE skip
    /\ outcome' = IF Here /\ TryBodies = {} THEN "left" ELSE outcome

(* visitThrowStmt: every cleanup, and deferStack_ is cleared for the code    *)
(* that follows in the text too.  A dead block takes what follows.           *)
Throw ==
    /\ CanVisit /\ Visit
    /\ Emit(emitDeferredCleanups) /\ Drop(locals_)
    /\ deferStack_' = << >>
    /\ Unwinds
    /\ slips' = slips \cup Slip("throwNested", blocks # << >> /\ deferStack_ # << >>)
                     \cup Slip("throwDrops", Here /\ TryBodies # {} /\ locals_ \ consumed # {})
    /\ UNCHANGED <<locals_, consumed, blocks, terminated>>

(* A function called here throws: longjmp runs none of this one's cleanups.  *)
CalleeThrows ==
    /\ CanVisit /\ Visit /\ Here
    /\ Quiet /\ Unwinds
    /\ LET n  == IF TryBodies = {} THEN 0 ELSE blocks[Innermost(TryBodies)].base
           ls == IF TryBodies = {} THEN {} ELSE blocks[Innermost(TryBodies)].locals IN
       slips' = slips \cup Slip("unwindsDefers", Len(deferStack_) # n)
                      \cup Slip("unwindsLocals", (locals_ \ ls) \ consumed # {})
    /\ UNCHANGED <<deferStack_, locals_, consumed, blocks, terminated, val>>

LoopBlocks == {k \in 1 .. Depth : blocks[k].kind \in Loops}

Jumps ==
    /\ skip' = IF Here THEN Innermost(LoopBlocks) ELSE skip
    /\ slips' = slips \cup Slip("jumpsPast",
                   Here /\ Len(deferStack_) # blocks[Innermost(LoopBlocks)].base)

(* Mutant: break forgets the locals declared since the loop began. *)
BreakUndropped ==
    /\ CanVisit /\ Visit /\ LoopBlocks # {}
    /\ Quiet /\ Jumps
    /\ terminated' = TRUE
    /\ UNCHANGED <<deferStack_, locals_, consumed, blocks, val, outcome>>

(* visitBreakStmt: the locals declared since the loop began are dropped; the *)
(* deferred statements are not looked at.                                    *)
Break ==
    /\ CanVisit /\ Visit /\ LoopBlocks # {}
    /\ Drop(locals_ \ blocks[Innermost(LoopBlocks)].locals)
    /\ Quiet /\ Jumps
    /\ terminated' = TRUE
    /\ UNCHANGED <<deferStack_, locals_, consumed, blocks, outcome>>

(* visitContinueStmt: the same, to the loop's condition, which may end it. *)
Continue ==
    /\ CanVisit /\ Visit /\ LoopBlocks # {}
    /\ LET k == Innermost(LoopBlocks) IN
       /\ Drop(locals_ \ blocks[k].locals)
       /\ outcome' = IF Here /\ blocks[k].kind = "forever" THEN "spins" ELSE outcome
    /\ Quiet /\ Jumps
    /\ terminated' = TRUE
    /\ UNCHANGED <<deferStack_, locals_, consumed, blocks>>

-----------------------------------------------------------------------------
(* Blocks. *)

Opens(kind) ==
    /\ CanVisit /\ Visit /\ Depth < MaxDepth
    /\ blocks' = Append(blocks, [kind |-> kind, base |-> Len(deferStack_),
                                 locals |-> locals_, consumed |-> consumed])
    /\ UNCHANGED <<locals_, consumed, terminated, val, outcome, slips>>

(* The execution enters the block, or may pass it by. *)
Enters == UNCHANGED skip
EntersOrNot == skip' \in IF Here THEN {0, Depth + 1} ELSE {skip}

(* The body of an if, elif or else; of a case of a switch. *)
OpenIf     == Opens("if") /\ EntersOrNot /\ Quiet /\ UNCHANGED deferStack_
OpenSwitch == Opens("switch") /\ EntersOrNot /\ Quiet /\ UNCHANGED deferStack_
(* while and for; do; loop. *)
OpenWhile  == Opens("while") /\ EntersOrNot /\ Quiet /\ UNCHANGED deferStack_
OpenDo     == Opens("do") /\ Enters /\ Quiet /\ UNCHANGED deferStack_
OpenLoop   == Opens("forever") /\ Enters /\ Quiet /\ UNCHANGED deferStack_
OpenNaked  == Opens("naked") /\ Enters /\ Quiet /\ UNCHANGED deferStack_
OpenTry    == Opens("try") /\ Enters /\ Quiet /\ UNCHANGED deferStack_

(* visitScopeBlockStmt registers the callbacks on entry. *)
OpenScope ==
    /\ Opens("scope") /\ Enters
    /\ \E c \in Callbacks :
          /\ c \notin ToSet(deferStack_) \cup ToSet(pending)
          /\ \E cbs \in {<<c>>} \cup {<<c, d>> : d \in Callbacks \ {c}} :
                /\ ToSet(cbs) \cap (ToSet(deferStack_) \cup ToSet(pending)) = {}
                /\ deferStack_' = deferStack_ \o cbs
                /\ pending' = IF Here THEN pending \o cbs ELSE pending
    /\ ran' = << >>

(* deferStack_.resize(n). *)
Resized(n) ==
    IF n <= Len(deferStack_) THEN SubSeq(deferStack_, 1, n)
    ELSE deferStack_ \o [i \in 1 .. (n - Len(deferStack_)) |-> Null]

(* The deferred statements above the block's base, last first, unless the    *)
(* block has been left already.                                              *)
Above(n) ==
    IF terminated THEN << >>
    ELSE Reverse(SubSeq(deferStack_, n + 1, Len(deferStack_)))

(* emitBlockExitCleanups: the locals the block declared; then locals_ is     *)
(* restored.                                                                 *)
LeaveScope ==
    /\ Drop(IF terminated THEN {} ELSE locals_ \ Top.locals)
    /\ locals_' = Top.locals /\ consumed' = Top.consumed
    /\ blocks' = Front(blocks)

(* Mutant: the execution is met again one block too late. *)
ResumesLate == skip' = IF skip = Depth + 1 THEN 0 ELSE skip

Resumes == skip' = IF skip = Depth THEN 0 ELSE skip

Closing(kinds) == outcome = "running" /\ blocks # << >> /\ Top.kind \in kinds

(* Mutant: the branch's deferred statements stay on the stack. *)
CloseIfKeeping ==
    /\ Closing({"if"})
    /\ Emit(Above(Top.base))
    /\ UNCHANGED deferStack_
    /\ LeaveScope /\ Resumes
    /\ terminated' = FALSE
    /\ UNCHANGED <<stmts, outcome, slips>>

(* emitIfBody; the branches meet in a merge block. *)
CloseIf ==
    /\ Closing({"if"})
    /\ Emit(Above(Top.base))
    /\ deferStack_' = Resized(Top.base)
    /\ LeaveScope /\ Resumes
    /\ terminated' = FALSE
    /\ UNCHANGED <<stmts, outcome, slips>>

(* visitNakedBlockStmt: the same, in the same basic block. *)
CloseNaked ==
    /\ Closing({"naked"})
    /\ Emit(Above(Top.base))
    /\ deferStack_' = Resized(Top.base)
    /\ LeaveScope /\ Resumes
    /\ UNCHANGED <<terminated, stmts, outcome, slips>>

(* visitScopeBlockStmt treats all it finds above its base as callbacks: the  *)
(* compiler dereferences null at a plain defer or an empty entry.            *)
CloseScope ==
    /\ Closing({"scope"})
    /\ IF \A i \in DOMAIN Above(Top.base) : Above(Top.base)[i] \in Callbacks
       THEN Emit(Above(Top.base)) /\ UNCHANGED outcome
       ELSE Quiet /\ outcome' = "crashed"
    /\ deferStack_' = Resized(Top.base)
    /\ LeaveScope /\ Resumes
    /\ UNCHANGED <<terminated, stmts, slips>>

(* A case of a switch: locals, but no deferred statements. *)
CloseSwitch ==
    /\ Closing({"switch"})
    /\ LeaveScope /\ Resumes /\ Quiet
    /\ terminated' = FALSE
    /\ UNCHANGED <<deferStack_, stmts, outcome, slips>>

(* The end of a loop body; `loop` goes round until something leaves it. *)
CloseLoop ==
    /\ Closing(Loops)
    /\ LeaveScope /\ Resumes /\ Quiet
    /\ terminated' = FALSE
    /\ outcome' = IF Here /\ ~terminated /\ Top.kind = "forever" THEN "spins" ELSE outcome
    /\ UNCHANGED <<deferStack_, stmts, slips>>

(* visitTryCatchStmt: after the body the catch clauses, entered by an error. *)
CloseTry ==
    /\ Closing({"try"})
    /\ blocks' = [blocks EXCEPT ![Depth].kind = "catch"]
    /\ skip' = IF Here THEN Depth ELSE IF skip = Depth THEN 0 ELSE skip
    /\ terminated' = FALSE /\ Quiet
    /\ UNCHANGED <<deferStack_, locals_, consumed, stmts, val, outcome, slips>>

CloseCatch ==
    /\ Closing({"catch"})
    /\ blocks' = Front(blocks)
    /\ Resumes /\ Quiet
    /\ terminated' = FALSE
    /\ UNCHANGED <<deferStack_, locals_, consumed, stmts, val, outcome, slips>>

(* The end of the function's block. *)
EndFunction ==
    /\ outcome = "running" /\ blocks = << >> /\ ~terminated
    /\ Emit(emitDeferredCleanups) /\ Drop(locals_)
    /\ outcome' = "left"
    /\ UNCHANGED <<compiler, skip, slips>>

Finished == (outcome # "running" \/ (terminated /\ blocks = << >>)) /\ UNCHANGED vars

Next ==
    \/ Defer \/ Declare \/ Consume \/ Return \/ Throw \/ CalleeThrows
    \/ Break \/ Continue
    \/ OpenIf \/ OpenSwitch \/ OpenWhile \/ OpenDo \/ OpenLoop
    \/ OpenNaked \/ OpenTry \/ OpenScope
    \/ CloseIf \/ CloseNaked \/ CloseScope \/ CloseSwitch \/ CloseLoop
    \/ CloseTry \/ CloseCatch
    \/ EndFunction \/ Finished

Spec == Init /\ [][Next]_vars

-----------------------------------------------------------------------------
(* Properties. *)

(* The compiler's stacks and the execution's state have their types; the     *)
(* walk and the execution never lose each other (skip is an open block).     *)
TypeOK ==
    /\ deferStack_ \in Seq(Cleanups \cup {Null})
    /\ locals_ \in SUBSET Locals /\ consumed \in SUBSET Locals
    /\ blocks \in Seq(Blocks)
    /\ terminated \in BOOLEAN /\ stmts \in 0 .. MaxStmts
    /\ skip \in 0 .. Depth
    /\ pending \in Seq(Cleanups \cup {Null}) /\ ran \in Seq(Cleanups \cup {Null})
    /\ val \in [Locals -> Values]
    /\ outcome \in {"running", "left", "spins", "crashed"}
    /\ slips \in SUBSET Slips

(* The compiler meets an entry it cannot emit only in a function whose text  *)
(* has a defer directly in the body of a loop, case, try, catch or #scope,   *)
(* or a throw in a block while cleanups are registered.                      *)
TextSlips == {"deferInBody", "throwNested"}

CrashesExplained == outcome = "crashed" => slips \cap TextSlips # {}

(* The execution's cleanups behave as a stack: *)
Promised ==
    INSTANCE CleanupStack WITH place <- IF outcome = "left" THEN "left" ELSE "inside"

Promise == [Promised!Next]_<<pending, ran, IF outcome = "left" THEN "left" ELSE "inside">>

(* "Deferred statements run in LIFO order and fire on normal scope exit,     *)
(* early return, ? propagation, throw": whatever cleanups the execution      *)
(* registers run once, the last registered first, and all have run when the  *)
(* function is left, however branches, loops, #scope blocks and try          *)
(* statements are nested and left, although each exit was emitted from a     *)
(* stack that the text before it, executed or not, had pushed and popped.    *)
(* The promise is kept up to the first of: a defer directly in a body that   *)
(* does not emit its defers, a throw in a block while cleanups are           *)
(* registered, a break or continue past a cleanup, a callee's error past     *)
(* one.  The documents make no such exception (README).                      *)
CleanupSlips == TextSlips \cup {"jumpsPast", "unwindsDefers"}

CleanupsKeepPromise ==
    Promised!Init /\ [][slips' \cap CleanupSlips = {} => Promise]_vars

(* Owned locals are freed once on every path: none is freed twice or before  *)
(* it holds a value, and none is still owned when the function is left,      *)
(* though moves are tracked by the text and not by the path.  What excuses   *)
(* it is a throw, or a callee's error, past an owned local, and a move in a  *)
(* try statement of a local from outside it; deferred statements, break and  *)
(* continue never do.                                                        *)
DropSlips == {"throwDrops", "unwindsLocals", "moveInTry"}

FreedOnce ==
    /\ \A l \in Locals : val[l] # "bad"
    /\ outcome = "left" => \A l \in Locals : val[l] # "owned"

DropsExact == slips \cap DropSlips = {} => FreedOnce
=============================================================================
