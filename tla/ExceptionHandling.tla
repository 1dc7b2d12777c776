-------------------------- MODULE ExceptionHandling --------------------------
(***************************************************************************)
(* try / catch / finally, try-expressions and throw, as IRGen_flow.cpp      *)
(* lowers them onto the setjmp/longjmp runtime of builtins/error/error.c:   *)
(* a linked stack of handler frames per thread, taken from a pool of        *)
(* EH_POOL_SIZE frames and then from the heap.                              *)
(*                                                                          *)
(* One thread runs a program that enters try constructs, throws, and leaves *)
(* them in any order its control flow allows.  `acts` is the program's own  *)
(* nesting of live try constructs; everything else is the runtime's state.  *)
(***************************************************************************)
EXTENDS Integers, Sequences, FiniteSets

CONSTANTS PoolSize,    \* EH_POOL_SIZE
          HeapSize,    \* bound: heap frames that can be live at once
          MaxTries,    \* bound: try constructs entered in one execution
          Types,       \* error types a program throws and catches
          Parent,      \* direct parent of a type, NoType if it has none
          NoType,      \* type_id 0: an error never given a type
          Clauses,     \* the sets of types a try statement may catch
          Divides,     \* whether the program may divide by zero
          Escapes      \* whether it leaves try constructs by ret/break/continue

ASSUME EhAssumption ==
    /\ PoolSize \in Nat
    /\ HeapSize \in Nat
    /\ MaxTries \in Nat
    /\ NoType \notin Types
    /\ Parent \in [Types -> Types \cup {NoType}]
    /\ Clauses \subseteq SUBSET Types
    /\ Divides \in BOOLEAN
    /\ Escapes \in BOOLEAN

PoolFrames == 0 .. (PoolSize - 1)
HeapFrames == PoolSize .. (PoolSize + HeapSize - 1)
Frames     == PoolFrames \cup HeapFrames
NULL       == -1
Errors     == Types \cup {NoType}

VARIABLES
    acts,       \* live try constructs, innermost last
    entered,    \* try constructs entered so far
    top,        \* eh_stack
    prev,       \* frame->prev
    buf,        \* frame->buf: the construct whose setjmp filled it (0: none)
    error,      \* frame->error.type_id
    used,       \* eh_pool_used
    heap,       \* frames allocated with calloc and not freed
    outcome,    \* "running", or how the program ended
    slips       \* history: which of Escape and Rethrow has happened

ehVars == <<top, prev, buf, error>>
pool   == <<used, heap>>
vars   == <<acts, entered, ehVars, pool, outcome, slips>>

Phases == {"try", "landed", "dispatch", "catch", "finally"}
Acts   == [id : Nat, frame : Frames, isStmt : BOOLEAN, clauses : SUBSET Types,
           phase : Phases, err : Errors]

Init ==
    /\ acts = << >>
    /\ entered = 0
    /\ top = NULL
    /\ prev = [f \in Frames |-> NULL]
    /\ buf = [f \in Frames |-> 0]
    /\ error = [f \in Frames |-> NoType]
    /\ used = 0
    /\ heap = {}
    /\ outcome = "running"
    /\ slips = {}

-----------------------------------------------------------------------------
(* The runtime, error.c. *)

(* lucis_eh_alloc may return frame f. *)
MayAlloc(f) ==
    IF used < PoolSize THEN f = used ELSE f \in HeapFrames \ heap

Alloc(f) ==
    IF f \in PoolFrames
    THEN used' = used + 1 /\ UNCHANGED heap
    ELSE heap' = heap \cup {f} /\ UNCHANGED used

(* Mutant: freeing a pool frame also drops the one below it. *)
FreeTwice(f) ==
    IF f \in PoolFrames
    THEN used' = used - 2 /\ UNCHANGED heap
    ELSE heap' = heap \ {f} /\ UNCHANGED used

(* lucis_eh_free: a pool frame gives back the last slot, whichever it is. *)
Free(f) ==
    IF f \in PoolFrames
    THEN used' = used - 1 /\ UNCHANGED heap
    ELSE heap' = heap \ {f} /\ UNCHANGED used

Pop == top' = IF top = NULL THEN NULL ELSE prev[top]

Innermost == acts[Len(acts)]

(* Control leaves the innermost construct. *)
Leave == acts' = SubSeq(acts, 1, Len(acts) - 1)

(* The program's own code is running: not the runtime, not a dispatch. *)
InUserCode ==
    /\ outcome = "running"
    /\ acts # << >> => Innermost.phase \in {"try", "catch", "finally"}

At(phase) ==
    /\ outcome = "running"
    /\ acts # << >> /\ Innermost.phase = phase

SetPhase(phase) == acts' = [acts EXCEPT ![Len(acts)].phase = phase]

-----------------------------------------------------------------------------
(* visitTryCatchStmt and visitTryExpr: alloc, push, setjmp. *)

EnterTry(isStmt, clauses, f) ==
    /\ InUserCode /\ entered < MaxTries
    /\ MayAlloc(f) /\ Alloc(f)
    /\ entered' = entered + 1
    /\ top' = f
    /\ prev' = [prev EXCEPT ![f] = top]
    /\ error' = [error EXCEPT ![f] = NoType]
    /\ buf' = [buf EXCEPT ![f] = entered + 1]
    /\ acts' = Append(acts, [id |-> entered + 1, frame |-> f, isStmt |-> isStmt,
                             clauses |-> clauses, phase |-> "try", err |-> NoType])
    /\ UNCHANGED outcome

(* Mutant: the body's normal end leaves the handler pushed. *)
TryCompletesUnpopped ==
    /\ At("try") /\ Innermost.isStmt
    /\ SetPhase("finally")
    /\ UNCHANGED <<entered, ehVars, pool, outcome>>

(* The body of a try statement ends normally: pop, then run finally. *)
TryCompletes ==
    /\ At("try") /\ Innermost.isStmt
    /\ Pop
    /\ SetPhase("finally")
    /\ UNCHANGED <<entered, prev, buf, error, pool, outcome>>

(* The operand of a try-expression ends normally: pop and free. *)
TryExprCompletes ==
    /\ At("try") /\ ~Innermost.isStmt
    /\ Pop /\ Free(Innermost.frame)
    /\ Leave
    /\ UNCHANGED <<entered, prev, buf, error, outcome>>

-----------------------------------------------------------------------------
(* lucis_eh_throw: with no handler the program exits; otherwise the error is *)
(* stored in the top frame and longjmp resumes the construct that filled its *)
(* jmp_buf, dropping what is nested in it.  If that construct is no longer   *)
(* live the jump has no defined target.                                      *)
Raise(e) ==
    \/ /\ top = NULL
       /\ outcome' = "unhandled"
       /\ UNCHANGED <<acts, entered, ehVars, pool>>
    \/ \E k \in 1 .. Len(acts) :
          /\ top # NULL /\ acts[k].id = buf[top]
          /\ error' = [error EXCEPT ![top] = e]
          /\ acts' = [SubSeq(acts, 1, k) EXCEPT ![k].phase = "landed"]
          /\ UNCHANGED <<entered, top, prev, buf, pool, outcome>>
    \/ /\ top # NULL
       /\ \A k \in 1 .. Len(acts) : acts[k].id # buf[top]
       /\ outcome' = "wild"
       /\ UNCHANGED <<acts, entered, ehVars, pool>>

(* visitThrowStmt stamps the error with the hash of its type. *)
Throw == InUserCode /\ \E t \in Types : Raise(t)

(* emitDivByZeroGuard builds its error from zeros: type_id stays 0. *)
DivideByZero == Divides /\ InUserCode /\ Raise(NoType)

-----------------------------------------------------------------------------
(* The code at the setjmp that longjmp comes back to. *)

(* Mutant: the catch block runs with its own handler still pushed. *)
LandUnpopped ==
    /\ At("landed") /\ Innermost.isStmt
    /\ acts' = [acts EXCEPT ![Len(acts)] =
                    [@ EXCEPT !.phase = "dispatch", !.err = error[Innermost.frame]]]
    /\ UNCHANGED <<entered, ehVars, pool, outcome>>

(* A try statement pops its handler and loads the error. *)
Land ==
    /\ At("landed") /\ Innermost.isStmt
    /\ Pop
    /\ acts' = [acts EXCEPT ![Len(acts)] =
                    [@ EXCEPT !.phase = "dispatch", !.err = error[Innermost.frame]]]
    /\ UNCHANGED <<entered, prev, buf, error, pool, outcome>>

(* A try-expression pops, frees and goes on with the fallback value. *)
LandInExpr ==
    /\ At("landed") /\ ~Innermost.isStmt
    /\ Pop /\ Free(Innermost.frame)
    /\ Leave
    /\ UNCHANGED <<entered, prev, buf, error, outcome>>

(* Mutant: the parent's id is not compared. *)
MatchesExact(clauses, e) == e \in clauses

(* A clause matches a type that is the thrown one or its direct parent. *)
Matches(clauses, e) == e \in Types /\ (e \in clauses \/ Parent[e] \in clauses)

CatchMatches ==
    /\ At("dispatch") /\ Matches(Innermost.clauses, Innermost.err)
    /\ SetPhase("catch")
    /\ UNCHANGED <<entered, ehVars, pool, outcome>>

(* No clause matches: the construct's own frame is pushed again and the      *)
(* error is thrown to it.                                                    *)
Rethrow ==
    /\ At("dispatch") /\ ~Matches(Innermost.clauses, Innermost.err)
    /\ top' = Innermost.frame
    /\ prev' = [prev EXCEPT ![Innermost.frame] = top]
    /\ error' = [error EXCEPT ![Innermost.frame] = Innermost.err]
    /\ SetPhase("landed")
    /\ UNCHANGED <<entered, buf, pool, outcome>>

(* Mutant: the frame is freed when the catch body ends, and again at the end. *)
CatchCompletesFreeing ==
    /\ At("catch")
    /\ Free(Innermost.frame)
    /\ SetPhase("finally")
    /\ UNCHANGED <<entered, ehVars, outcome>>

CatchCompletes ==
    /\ At("catch")
    /\ SetPhase("finally")
    /\ UNCHANGED <<entered, ehVars, pool, outcome>>

(* The end of finally frees the frame. *)
FinallyCompletes ==
    /\ At("finally")
    /\ Free(Innermost.frame)
    /\ Leave
    /\ UNCHANGED <<entered, ehVars, outcome>>

-----------------------------------------------------------------------------
(* ret, bail, `?`, break and continue branch out of the n innermost          *)
(* constructs: no handler is popped, no frame freed, no finally run.         *)
Escape ==
    /\ Escapes /\ InUserCode
    /\ \E n \in 1 .. Len(acts) : acts' = SubSeq(acts, 1, Len(acts) - n)
    /\ UNCHANGED <<entered, ehVars, pool, outcome>>

ProgramEnds ==
    /\ outcome = "running" /\ acts = << >>
    /\ outcome' = "ended"
    /\ UNCHANGED <<acts, entered, ehVars, pool>>

Terminated == outcome # "running" /\ UNCHANGED vars

Enter ==
    \E f \in Frames :
        \/ \E c \in Clauses : EnterTry(TRUE, c, f)
        \/ EnterTry(FALSE, {}, f)

(* The steps that keep handlers and constructs in step, and the two that slip. *)
Orderly ==
    \/ Enter \/ TryCompletes \/ TryExprCompletes
    \/ Throw \/ DivideByZero
    \/ Land \/ LandInExpr \/ CatchMatches
    \/ CatchCompletes \/ FinallyCompletes
    \/ ProgramEnds

Runs ==
    \/ Orderly /\ UNCHANGED slips
    \/ Escape /\ slips' = slips \cup {"escape"}
    \/ Rethrow /\ slips' = slips \cup {"rethrow"}

Next == Runs \/ Terminated

Spec == Init /\ [][Next]_vars

(* A thread that can take a step takes one. *)
FairSpec == Spec /\ WF_vars(Runs)

-----------------------------------------------------------------------------
(* Properties. *)

(* The pool counter stays within the pool and frames are what error.c knows. *)
TypeOK ==
    /\ acts \in Seq(Acts)
    /\ entered \in 0 .. MaxTries
    /\ top \in Frames \cup {NULL}
    /\ prev \in [Frames -> Frames \cup {NULL}]
    /\ buf \in [Frames -> Nat]
    /\ error \in [Frames -> Errors]
    /\ used \in 0 .. PoolSize
    /\ heap \in SUBSET HeapFrames
    /\ outcome \in {"running", "ended", "unhandled", "wild"}
    /\ slips \subseteq {"escape", "rethrow"}

(* No two live try constructs share a frame, and lucis_eh_alloc cannot hand  *)
(* out the frame of a live one: the "simple LIFO" pool is sound even when    *)
(* constructs are left by longjmp or by a jump, which frees nothing.         *)
FramesDisjoint ==
    /\ \A j, k \in 1 .. Len(acts) : acts[j].frame = acts[k].frame => j = k
    /\ \A k \in 1 .. Len(acts) : ~MayAlloc(acts[k].frame)

(* Construct c still has its handler pushed. *)
Pushed(c) == c.phase \in {"try", "landed"}

(* f is the handler of the innermost of the first k - 1 constructs of s that  *)
(* have theirs pushed, NULL if none has.                                     *)
HandlerBelow(s, f, k) ==
    \/ f = NULL /\ \A j \in 1 .. k - 1 : ~Pushed(s[j])
    \/ \E j \in 1 .. k - 1 :
          /\ Pushed(s[j]) /\ f = s[j].frame
          /\ \A i \in j + 1 .. k - 1 : ~Pushed(s[i])

(* Until a construct is left by a jump, eh_stack links exactly the handlers   *)
(* of the live constructs whose body is running, innermost first, and each   *)
(* frame resumes its own construct.                                          *)
StackMirrorsNesting ==
    outcome = "running" /\ "escape" \notin slips =>
        /\ HandlerBelow(acts, top, Len(acts) + 1)
        /\ \A k \in 1 .. Len(acts) : Pushed(acts[k]) =>
              /\ HandlerBelow(acts, prev[acts[k].frame], k)
              /\ buf[acts[k].frame] = acts[k].id

InTry(k) == acts[k].phase = "try"

(* Whatever a step makes land is the innermost live construct whose try body *)
(* is running (or one that rethrows to itself), and the program dies of an   *)
(* error only when there is none.                                            *)
LandsNearest ==
    /\ \A k \in 1 .. Len(acts') :
          acts'[k].phase = "landed" /\ (k > Len(acts) \/ acts[k].phase # "dispatch")
              => /\ InTry(k) \/ acts[k].phase = "landed"
                 /\ \A j \in (k + 1) .. Len(acts) : ~InTry(j)
    /\ outcome' \in {"unhandled", "wild"} /\ outcome = "running"
          => outcome' = "unhandled" /\ \A k \in 1 .. Len(acts) : ~InTry(k)

(* "Throw an error - longjmps to the nearest handler": lucis_eh_throw, in    *)
(* every program.                                                            *)
NearestHandler == [][LandsNearest]_vars

(* The same of a program that leaves no try construct by ret, break or       *)
(* continue.                                                                 *)
NearestUntilEscape == [][ "escape" \notin slips => LandsNearest ]_vars

(* Every execution that slips in neither way ends: errors travel outwards,   *)
(* never back to a construct that has already handled one.                   *)
ProgramTerminates == <>(outcome # "running" \/ slips # {})

(* The order in which a construct goes through its phases. *)
Rank(p) ==
    CASE p = "try" -> 0 [] p = "landed" -> 1 [] p = "dispatch" -> 2
      [] p = "catch" -> 3 [] p = "finally" -> 4

(* The m outermost constructs are as they were. *)
Kept(m) == \A i \in 1 .. m : acts'[i] = acts[i]

(* A step enters a construct, leaves the innermost, or takes one construct   *)
(* to a later phase and drops what is nested in it; or the program ends.     *)
MovesOn ==
    \/ entered' = entered + 1 /\ Len(acts') = Len(acts) + 1 /\ Kept(Len(acts))
    \/ entered' = entered /\ Len(acts') = Len(acts) - 1 /\ Kept(Len(acts'))
    \/ \E k \in 1 .. Len(acts) :
          /\ entered' = entered /\ Len(acts') = k /\ Kept(k - 1)
          /\ acts'[k].id = acts[k].id /\ Rank(acts[k].phase) < Rank(acts'[k].phase)
    \/ outcome' # "running"

(* Every step of a program that has slipped in neither way brings it nearer  *)
(* its end: no construct goes back to an earlier phase, so each catch block  *)
(* and each finally block runs at most once, whatever is thrown inside it,   *)
(* and with finitely many constructs the steps run out.                      *)
NeverBack == [][ slips' = {} /\ outcome = "running" => MovesOn ]_vars

Roots == {t \in Types : Parent[t] = NoType}

(* What a construct that dispatches error e, with these clauses, is sure to  *)
(* catch: e is a root type or a child of one, and every root is caught.      *)
CaughtByRoot(clauses, e) ==
    e \in Types /\ (e \in Roots \/ Parent[e] \in Roots) /\ Roots \subseteq clauses

(* "Types that inherit from `Error` are recognized by their parent type", to *)
(* one level.  A root type, or a child of one, thrown in a try statement     *)
(* that catches the roots reaches one of its catch blocks; an error further  *)
(* below, or the untyped one of a division, enters no catch block of a       *)
(* statement that catches roots only.                                        *)
RootClauseHandles ==
    /\ \A i \in 1 .. MaxTries :
          (\E k \in 1 .. Len(acts) :
              acts[k].id = i /\ acts[k].phase = "dispatch" /\ CaughtByRoot(acts[k].clauses, acts[k].err))
          ~> (\E k \in 1 .. Len(acts) : acts[k].id = i /\ acts[k].phase = "catch")
    /\ [](\A k \in 1 .. Len(acts) :
             acts[k].phase = "catch" /\ acts[k].clauses = Roots
                => CaughtByRoot(acts[k].clauses, acts[k].err))

(* Such a construct is the innermost, and the program's next step takes it   *)
(* into a catch block: it is neither dropped, nor passed over, nor rethrown  *)
(* from, whatever slips have happened before.                                *)
RootClauseNext ==
    [][ \A k \in 1 .. Len(acts) :
          acts[k].phase = "dispatch" /\ CaughtByRoot(acts[k].clauses, acts[k].err)
              => /\ k = Len(acts) /\ Len(acts') = k /\ Kept(k - 1)
                 /\ acts'[k].id = acts[k].id /\ acts'[k].phase = "catch" ]_vars

(* "If no clause matches, the error is re-thrown to the next handler up the  *)
(* call stack": a construct with no matching clause is left.                 *)
UnmatchedPropagates ==
    \A i \in 1 .. MaxTries :
        (\E k \in 1 .. Len(acts) :
            /\ acts[k].id = i /\ acts[k].phase = "dispatch"
            /\ ~Matches(acts[k].clauses, acts[k].err))
        ~> (\A k \in 1 .. Len(acts) : acts[k].id # i)
=============================================================================
