# Lucis: specifications and proofs

Lucis is a compiled language: a C++ compiler over LLVM with an ANTLR front end,
a C runtime, a command line with build, run, test and fuzz commands, and a
language server.  This directory models the parts of it that tests hardly
reach: what several processes, documents, messages or nested handlers do in
orders nobody wrote a test for.  Each part has a module, runs that model-check
it with TLC on a small instance, and theorems proved with TLAPS for every value
of the module's constants.

Paths below are relative to the repository's own `src/` directory.
`PROJECT.json` lists, for every definition that models code, the lines it
stands for, and every hazard with the properties that cover it.

## Inventory

Components that keep state and interact:

| Component | State | Operations | Hard behaviour | What makes it correct |
|---|---|---|---|---|
| Test runner (`builtins/test/test_runner.c`, `IRBuilder/IRGen_test.cpp`) | slot table, `g_nextToReport`, `g_runningCount`, tallies; a child, a pipe and a timer per test | `lucis_test_begin`, `lucis_test_run`, `lucis_test_end` | children finish in any order, block on pipes, are killed by timers | every test reported once, in order, truthfully; the job limit; the harness ends |
| Exception handling (`builtins/error/error.c`, `IRBuilder/IRGen_flow.cpp`) | a thread's handler stack and frame pool | `lucis_eh_alloc/push/pop/throw/free` and the code emitted around them | constructs left by `longjmp`, by `ret`, out of catch and finally | a throw reaches the nearest running handler; no live frame is handed out twice; errors travel outwards |
| Language server, document synchronisation (`lsp/LspServer.cpp`, `ParseCache`, `DocumentStore`) | open documents, four caches per document, one pending check, project context | the `textDocument/*` messages, the debounced flush | deferred work applied at a later message, caches that refer to each other | diagnostics settle on the current text; a save checks afresh; providers see the current text through live objects |
| Cleanup code (`IRBuilder/IRGen_stmt.cpp`, `IRGen_flow.cpp`) | `deferStack_`, `locals_` and what each has been consumed | defer, `#scope`, drops, and the exits that emit them | emission order is not execution order | each cleanup runs once on every path, last registered first; no local is freed twice or leaked |
| Tasks and locks (`builtins/thread/thread.c`, `IRGen_flow.cpp`) | task handle, thread, argument and result blocks, mutex | spawn, await, `lock` | handles travel between threads, awaiting twice, early exit from a lock | no use of what an await has freed; every lock released; the program ends |
| Fuzz runner (`builtins/fuzz/fuzz_runner.c`, `cli/FuzzCommand.cpp`) | queue, coverage, `g_input`, corpus and crash directories | seeding, deterministic stage, havoc, minimising | failing forks, signals, workers share directories; lengths are global state | reproducers reproduce and are minimal; seeds are not lost; the limit is kept; the worker ends |
| Import resolution (`cli/LucisPipeline.cpp`, `imports/`, `namespace/`) | visited set, queue of import chains, registry | breadth-first walk, registration, validation | cycles, aliases and broken files on a graph walked once | the units are the reachable files; no false cycle; no false duplicate |
| Binary cache (`cli/BinaryBuilder.cpp`) | `.lucis/cache`, `.lucis/build` | key, build, rename, `--clean` | concurrent builds, kills, edits, clearing | a cached binary is whole and what its name says; a successful build has a binary |
| Header cache (`lsp/CompletionProvider.cpp`) | static vectors and a flag | warm in a thread, read in requests | an unsynchronised check, then fill | a request sees a complete list |
| Collections (`builtins/collections`) | open-addressed tables, vectors | insert, remove, grow, clone | tombstones, growth, capacity limits | they implement maps, sets and sequences |
| Compile-time interpreter (`comptime/`) | environment, registry | evaluate | recursion, limits | agrees with run-time evaluation |

The components interact in few places.  The command line runs the import
resolver, the checker and IR generation, then the binary builder; `lucis test`
runs the resulting binary, whose `main` drives the test runner.  The generated
code calls the exception and thread runtimes.  A failed assertion or an
unhandled error ends a test's child, which is all the test runner sees of it:
that is why TestRunner takes a body's ending as an input.  The language server
shares the parser, the checker and the import walk with the compiler and keeps
its own caches over them.

The remaining components (string, codec and system builtins, the checker, the
semantic database, the bulk of IR generation, the providers, types, C
interoperation, configuration, generated code, LLVM wrappers) are pure
functions of their input, tables filled once, or wrappers of external
libraries.  `PROJECT.json` lists each with the reason it has no module.

## Modules

| Module | Models | Extends or instantiates |
|---|---|---|
| `TestRunner` | the parent of the test binary, its children and their pipes | instantiates `TestReport` |
| `TestReport` | what the harness promises of its reports | |
| `ExceptionHandling` | `error.c` under the emitted try, catch, finally and throw | |
| `LspDocSync` | the server's documents, caches and deferred check | |
| `ScopeCleanup` | the cleanups the compiler emits, and one execution of them | instantiates `CleanupStack` |
| `CleanupStack` | what the language promises of cleanups | |
| `TaskLock` | spawn, await and lock over the thread runtime | |
| `FuzzRunner` | one fuzzing worker, its corpus and its minimizer | |
| `ImportGraph` | the walk over `use` declarations and the module registry | |
| `BinaryCache` | concurrent builds over one cache | |
| `MC*` | values of the constants, and symmetry, for TLC | the module they are named after |
| `*Proofs` | theorems | the module they are named after |

Each component module also holds a few operators marked *Mutant*: a variant of
the definition below it with a plausible mistake, which the property it was
written for must detect.  They are not part of the specification.

Where the code does not provide for something a program or a client may do, the
models let it happen and record it in a history variable that no guard reads:
`slips` in `TaskLock`, `ExceptionHandling` and `ScopeCleanup`, `missed` in
`LspDocSync`.  The properties name the records that excuse them, so they say
both what still holds afterwards and that nothing goes wrong without one.  For
each excuse a run without it fails: none is idle.  Several of these cases
are promised by the documents; they are listed under *Where the code and its
documents part* below and as findings in `PROJECT.json`.

### TestRunner

The parent is sequential, so its state is `pc`, the globals of `test_runner.c`
under their own names and the slot table as functions of the slot (`attr`,
`running`, `kind`, `captured`).  It is cut into steps at each `waitpid` and at
each iteration of a loop, since a child can move in between: `RunSkipped`,
`RunForkFails` and `RunSpawned` are the three ways through `lucis_test_run`;
`ReportThrough*`, `Reap*`, `Sweep*` and `Oldest*` are `reportThrough` and
`reapThrough`; `End*` is `lucis_test_end`.  `ReapOne` is the whole of
`reapOne`: wait, drain, decode, invert for `expected_fail`.

Children are the kernel's and the test body's part, modelled from how the
runner uses them: a body prints through a stdio block of `BufCap` into a pipe
of `PipeCap`, blocks when it is full, and ends by returning to its wrapper
(which calls `_exit`, so buffered output is lost), by `exit`, by a signal or
never.  The timer can fire at any moment of a child whose test has a timeout.
`log` records the status lines printed.  Output is counted, not spelt out.

`TestReport` is the promise: each test gets one verdict, verdicts are reached in
any order and printed in the order of the tests, and the exit code comes last.
`HarnessReports` is `Report!Spec` under this mapping: a verdict is open until
the test is registered and its child, if any, has ended, and from then on is the
one its attributes and the child's end give (`Decided`); `printed` is the tags
of `log`, and `code` is `exitCode`.

### ExceptionHandling

`acts` is the program's own nesting of live try constructs, with the phase each
is in; `top`, `prev`, `buf`, `error`, `used` and `heap` are the runtime's
memory.  The two are separate on purpose: the code keeps no record of the first
and the properties compare them.  `EnterTry` is alloc, push and setjmp; `Raise`
is `lucis_eh_throw`, which resumes whichever construct filled the top frame's
jump buffer, and has no defined target (`"wild"`) when that construct is gone;
`Land`, `CatchMatches`, `Rethrow`, `CatchCompletes` and `FinallyCompletes` are
the blocks `visitTryCatchStmt` emits; the `Expr` variants those of
`visitTryExpr`; `Escape` is every jump out (`ret`, `break`, `continue`, `bail`,
`?`), which emits neither pop nor free nor the finally block.  `Free` gives
back the last pool slot whatever frame it is passed, as `lucis_eh_free` does.

### LspDocSync

The caches are functions of the document that keep the source text they are
keyed by; a parse has an identity so that an index can be seen to refer to one
that is gone; a check records the text it was made for, whether the project
context has been rebuilt since (`cur`) and whether there was one (`sem`).  A
message is one action, except `didOpen` and `didSave`: `publishDiagnostics`
reads the clock again, so a check may be flushed inside it (`InnerFlush`)
before it publishes (`Publish`).  `DispatchFlushes` is the flush at the head of
`dispatch`.  The debounce clock is one bit, `due`, set by `WindowElapses`.
The client is any that sends messages of
open documents.  `missed` holds the documents whose pending check was
overwritten by the change of another, and those that were closed while theirs
was pending.  The text of a
`didSave` is the document's, as the protocol requires.

### ScopeCleanup and CleanupStack

The compiler visits a function's statements in the order of the text and
decides at each exit, from `deferStack_` and `locals_`, which cleanups to emit
there.  An execution takes one path.  The model walks both at once: `skip` is 0
while the execution is where the compiler is, and otherwise the open block at
whose end the two meet again (a branch not taken, a loop left, a try body
thrown out of).  `Emit` and `Drop` are what emitted code does if the execution
is there.  The program is any nesting of blocks and statements up to the
bounds; there is one action per statement visitor, and an opening and a closing
action per block.  `Resized` keeps the behaviour of `vector::resize`, which
makes up empty entries when the stack has shrunk below a block's base.

`CleanupStack` is the promise of `docs/language/error-handling.md`: cleanups
form a stack, leaving a block runs some from the top, leaving the function runs
all.  `CleanupsKeepPromise` is `Promised!Spec` with `pending` and `ran` mapped
to themselves and `place` to whether the function has been left.

`slips` records a plain defer directly in a loop, switch, `#scope`, try or catch
body (`deferInBody`), a throw inside a nested block while cleanups are
registered (`throwNested`), a `break` or `continue` past a cleanup
(`jumpsPast`), a callee's error past cleanups or owned locals (`unwindsDefers`,
`unwindsLocals`), a throw to a catch of the same function past owned locals
(`throwDrops`) and a move, inside a try statement, of a local from outside it
(`moveInTry`).  After the first four, what runs need not be what was
registered: an entry that is made up, or run out of turn, leaves a `Null` in its
place.  An owned local is not declared directly in the body of a try or catch:
it stays in `locals_` after the statement, the free emitted at the function's
exits uses an `alloca` that does not dominate it, and LLVM's verifier, which
`IRGen_driver.cpp:265` calls, rejects the function.

### TaskLock

Every thread runs a program of up to `MaxOps` operations: spawning a function,
which may be passed the handles the spawner has; awaiting any task it has a
handle of; entering, ending and leaving lock blocks, also one inside another.  The memory of a task is its
argument block (freed by the trampoline), its handle and its result block
(freed by `await`).  `await` is three steps, since another thread may run
between the test of `completed`, the join and the use of the result.  The use is
`AwaitTakes` when the operand is a variable, whose type tells how to load and
free the result, and `AwaitDiscards` when it is any other expression: the task is
then taken for a void one, its result is lost and its block leaks.  There are
six slips: a failed `pthread_create`, a second await of a task, an await of an
expression, an await or the same lock inside a lock block, and an early exit from
one.  `wild`
records undefined behaviour, and the model stops there.

### FuzzRunner

The target is a function from inputs to outcomes.  `g_input` is a buffer of
`MAX_INPUT` bytes of which a child is given the first `g_inputLen`; the input
that `onExecDone` saves is told to it separately, as in the code, because the
two differ in the deterministic stage.  Every execution is a step; the
minimizer's passes are `Reduce` and `EndPass`.  A pipe or fork may fail at any
execution.  The corpus directory outlives the session: `Init` takes it from an
earlier one, and `OtherWorkerSaves` writes to it.

### ImportGraph

A module path is a name; several may resolve to one file, or to none.  `Init`
chooses the `use` declarations of each file and which files do not parse, so one
run covers every graph over the files.  A declaration `use a::b` names two paths,
`a` and `a/b` (`Candidates`), since the walk cannot tell a symbol of a module from
a submodule; both are followed.  `ParseNext` takes a file from the queue, `Follow`
one of the candidates of its declarations, in any order.  What a declaration means
to the checker, which runs after the walk, is `Meant`: the properties compare the
two.  `Duplicate` is what
`ModuleRegistry::validate` reports after every unit has been registered under
its path.

### BinaryCache

Processes go through `build` step by step: clear, create the directory, look
up, compile each C source (read, then write), link into `.tmp-<pid>`, rename,
execute.  Any of them may be killed at any step, tools may fail, and sources
are edited meanwhile.  The digest is taken to be injective, so a key is the IR
and the flags.  `since`, `lone` and `wiped` are history, read by no action's
guard.

## Runs

Passing runs:

| Run | Instance | States | Shows |
|---|---|---|---|
| `test` | 3 tests, 2 jobs, every attribute, hanging and overfull bodies, failing forks | 856k | `TypeOK`, `ReportsAreTrue`, `RunningCountExact`, `ExitCodeTruthful`, `HarnessReports`, `HarnessEnds` |
| `eh` | 3 constructs, pool of 1, heap of 2, all ways of leaving, three levels of error types and zero division | 146k | `TypeOK`, `FramesDisjoint`, `StackMirrorsNesting`, `NearestUntilEscape`, `ProgramTerminates`, `RootClauseHandles` |
| `lsp_sync` | 2 documents, 2 texts, any number of messages in any order | 2,457k | `TypeOK`, `DiagnosticsCurrent`, `SaveChecksAfresh`, `AnswersCurrent` |
| `cleanup` | any 6 statements, 3 blocks deep, 2 defers, 2 callbacks, 1 owned local | 1,233k | `TypeOK`, `DropsExact`, `CrashesExplained`, `CleanupsKeepPromise` |
| `tasks` | main and 3 tasks, 2 operations each, every slip | 75k | `TypeOK`, `TasksMemorySafe`, `AwaitReclaims`, `LockExact`, `ProgramEnds` |
| `fuzz` | 3 targets, 3 corpora, inputs of up to 4 bits, queue of 2, 4 iterations | 658k | `TypeOK`, `MutationCrashMinimal`, `SeedsPersist`, `OvershootBounded`, `WorkerEnds` |
| `imports` | 3 files, 6 paths, any of 4 declarations in each file | 263k | `TypeOK`, `UnitsExact`, `CyclesReal`, `EntryCycleReported`, `DuplicatesLocal`, `WalkEnds` |
| `cache` | 2 processes, 2 programs, 1 C source, 1 edit of it, 1 kill | 554k | `TypeOK`, `CacheExact`, `BuiltMeansThere`, `LinksFreshObjects` |

Runs that find the code at odds with what the repository says of it:

| Run | Property | What happens |
|---|---|---|
| `test_joblimit` | `JobLimit` | the sweep reaps a later child; `reapThrough` then stops at that slot as if it had not been spawned, reaps nothing more, and more than `-j N` children run |
| `eh_escape` | `NearestHandler` | `ret` out of a try leaves its handler pushed; a later throw jumps into a construct that is gone |
| `eh_rethrow` | `UnmatchedPropagates` | an unmatched error is thrown back to the same construct for ever; the untyped error of a division by zero is matched by no clause at all, nor is a grandchild of the type caught |
| `lsp_index` | `IndexBorrowsLiveParse` | an edit and its undo: the index cached for the first text refers to a parse that has been freed |

### Where the code and its documents part

The runs above each show one case.  Others were met while modelling.  Those that
happen in the passing runs are named by the property concerned, as its excuse
or as what it states, and listed as findings.

* *Test pipe.*  A capture pipe is drained only after its child was reaped
  (`test_runner.c:161`), so a child that prints more than the pipe holds and has
  no timeout hangs the harness; the comment at 250-252 says "no pipe deadlock".
  `HarnessEnds` asks for the timeout.
* *Exceptions.*  A clause is compared with the thrown type and its direct parent
  (`IRGen_flow.cpp:376-380`); `docs/language/error-handling.md:133` knows no such
  limit.  `RootClauseHandles` says that a statement that catches the roots gets
  every error up to one level below them, and none further below.
* *Pending check.*  There is one pending slot for all documents, and `didClose`
  does not clear it (`LspServer.cpp:520`; `LspServer.h:75` promises a flush):
  closing or switching documents within the debounce window loses a check or
  publishes one for a closed document.  `DiagnosticsCurrent` excuses these two
  orders of messages, until the document is next published, and no other.
* *Cleanups.*  `docs/language/error-handling.md:681-699` and
  `docs/advanced/memory-model.md:186`, `354` and `414` say that defers run on
  every exit.  `break` and `continue` skip them (`IRGen_stmt.cpp:5966`), a
  callee's throw skips them, a defer in a loop, switch or try body is emitted at
  the end of an enclosing block whether or not it was reached, and emitting a
  throw clears `deferStack_` for the text that follows (`IRGen_flow.cpp:545`), so
  the example at `error-handling.md:684-693` does not close its file when it does
  not throw.  `CleanupsKeepPromise` holds up to the first of these.  A plain defer
  in a `#scope` block makes the compiler dereference null
  (`IRGen_stmt.cpp:6543`); `CrashesExplained` says what leads there.
* *Drops.*  A throw whose catch is in the same function frees the owned locals
  declared before the try (`IRGen_flow.cpp:544`), which the code after the catch
  uses and frees again; a callee's error leaks those of the frames it passes;
  after a move in a try statement the mark stays set on the path that did not
  move.  `DropsExact` excuses these three.
* *Locks.*  The comment at `IRGen_flow.cpp:252` says "unlock (even on early
  return)"; the unlock is emitted only at the end of the block.  `LockExact`
  states what happens: after such an exit the mutex stays taken and no thread
  enters a lock block again.  A `lock` inside a `lock` waits for itself, the
  mutex being a plain one (`thread.c:48`); `ProgramEnds` names both.
* *Tasks.*  `await` frees what the handle points to, and nothing keeps a
  program from awaiting again; the result of `pthread_create` is ignored.  An
  `await` of an expression loses the result and its block
  (`IRGen_flow.cpp:216-248`); `AwaitReclaims` states both cases.
* *Fuzzing.*  The deterministic stage never sets `g_inputLen`
  (`fuzz_runner.c:497`), so a crash it finds may be saved with a length other
  than the one that crashed.  Seeds are named by a run counter that starts at
  zero in every session and every worker, so they overwrite older ones.
  Coverage first seen in a reproduction, a crash or a timeout is absorbed
  without a seed.  `--iters`, "Max executions", is looked at once per seed
  (`fuzz_runner.c:648`) and is exceeded by up to the executions of one;
  `OvershootBounded` says by how many.
* *Imports.*  A cycle between two modules that the entry reaches in one
  breadth-first level is on no chain and is not reported
  (`LucisPipeline.cpp:253`, and the same walk in `lsp/ProjectContext.cpp:179`);
  an import of the entry under an alias is not either.  A module `a` that uses
  its own submodule, `use a::b`, is reported as a cycle `a → a`
  (`LucisPipeline.cpp:153-158`); `CyclesReal` says that a report is false only on
  account of such a declaration, both of whose paths are files.  `anyParseError`
  is set and never read.
* *Cache.*  The key has nothing of the C sources (`BinaryBuilder.cpp:223`), so
  after an edit of one the old binary is reused; objects of two C sources of
  one stem, or of two builds at once, share a file (`BinaryBuilder.cpp:272`).

### Bounds

*Test runner.*  Two jobs and three tests are the least with an oldest child, a
sibling the sweep can reap early and a test still to be forked; five tests let
the job limit be exceeded.  `BufCap` 2, `PipeCap` 4 and `MaxCaptured` 3 put a
block boundary, a full pipe and a truncated capture within six units of output.

*Exceptions.*  `PoolSize` 1 with `HeapSize` 2 (the code has 16 and the heap)
lets three constructs straddle the border between pool and heap in both
directions.  `MaxTries` bounds the constructs entered in an execution, and so
the model's depth; the theorems do not depend on it.  Three types in a line are
the least with one that the comparison with the direct parent misses.

*Language server.*  Two documents compete for the one pending slot; two texts
allow a change and its undo.  Nothing bounds the number of messages.  Three
parse identities are enough, since a parse must differ only from the one it
replaces and from the one the index was built from.

*Cleanups.*  Six statements at depth three hold a cleanup outside, a block in
a block each with its own, and an exit between; two callbacks give a `#scope`
of two.  A loop body runs at most once: each exit of it is emitted once, and a
second round starts from the stack the first one did.

*Tasks.*  Three tasks are the least in which one of them holds a handle of a
second while the third awaits the same; two operations allow lock then await
and await then await.

*Fuzzing.*  Inputs of four bytes let the minimizer halve twice; one target's
crash can be reduced only out of order.  A queue of two is full after one find.
`MAX_QUEUE` 8192, 256 mutations and the deterministic variants become 2, 1 and
1, and the ten crashes two.

*Imports.*  Three files and two names of the entry are the least with a cycle
that avoids the entry, an alias and two paths to one file.  Of the four
declarations one names the entry by its own path and one by its alias, one is
of a symbol and one may mean either of two files; larger projects are covered by
the theorems.

*Cache.*  Two processes meet at every step.  Two C sources are beyond TLC's
reach here; `LinksSound` covers any number.

### Fairness

`TestRunner!FairSpec` asks weak fairness of the parent, of each child and of
each armed timer: the kernel schedules runnable processes and delivers
`SIGALRM`.  A child blocked on a full pipe is not enabled and gets no help.
`ExceptionHandling!FairSpec`, `ImportGraph!FairSpec` and `FuzzRunner!FairSpec`
ask that a sequential program that can take a step takes one; in the last, that
an execution ends is the timer's doing.  `TaskLock!FairSpec` asks weak fairness
of each thread, and no fairness of the mutex: with finitely many operations
nobody can be overtaken for ever.  `LspDocSync` has no liveness property: the
pending check is flushed only when the client sends another message, which
nothing guarantees.  `ScopeCleanup` and `BinaryCache` promise nothing of
programs or users that stop.

Deadlock is checked except in `test` and `tasks`, in which a system may really
stop: a pipe nobody drains, a mutex left locked.

## Proofs

All theorems are proved to the last leaf.  Their assumptions are the named
`ASSUME`s of the component modules (types of the constants, that stdio blocks
divide the pipe's capacity, that the entry's path resolves to the entry, that a
seed is mutated at least once), which TLC evaluates on every run; none of them
is about what a program or a client does.

**TestRunnerProofs**: `TypeCorrect`, `ReportsTrue`, `RunningCounted`,
`ExitCodeRight`, `SerialTests`, for any number of tests, jobs, attributes and
bodies.  `ReportsAreTrue` is not inductive: a line is printed from `kind`, so
one must know that `kind` of a reaped slot already is its verdict (`SlotInv`),
that a slot not yet passed to `lucis_test_run` has no child, what each `pc`
implies about `g_nextToReport` and `index` (`PcInv`), and that the tallies
count the lines (`Tally`).  `IInv` is their conjunction.  `RunningCountExact`
rests on the cardinality theorems.  `SerialTests` (with one job a test starts
only after all earlier ones are reported) adds `SerialInv` to it.

`HarnessRefines` is the refinement, `Spec => HarnessReports`.  Each step of the
parent or of a child either leaves the mapped state alone, or is one step of
`TestReport`: a child's end and the registration of a test without a child
decide a verdict, `ReportThrough`'s line prints the next one, and the end of
`lucis_test_end` finishes.  The point is that no step does two of these at once
and that reaping, which only reads the status, decides nothing.

`EchoesSound` and `FittingSound` follow the output.  `OutputInv` says, of every
slot, where what its body has to print is: still to be printed, in the stdio
block, in the pipe, captured, or lost with the block when the child did not
leave through `exit`.  From it, a status line echoes no other test's output and
no more than the cap, and a child whose output fits its pipe is never blocked,
though nobody reads the pipe before it is dead.  This is the safety half of
`HarnessEnds`.

**ExceptionHandlingProofs**: `EhTypeCorrect`, `PoolSound`, `StackSound` and
`ThrowSound`, for any pool size, hierarchy and program.  The counter could go
negative and a live frame be handed out, because `lucis_eh_free` ignores its
argument.  The invariant `FrameInv` says why not: the pool frames of live
constructs grow with the nesting and all lie below `used`, so a free by the
innermost construct leaves the others below the counter.  `MirrorInv` adds, for
executions without a jump out, that `eh_stack` followed through `prev` visits
the frames of the running try bodies and nothing else, that constructs are
numbered outwards in, and that each such frame's jump buffer belongs to its
construct; a throw then has one possible target.  The work is in the lemmas on
prefixes of `acts`: every action keeps a prefix, changes a phase or appends.

`OutwardSound` (`NeverBack`) and `RootClauseSound` (`RootClauseNext`) are action
properties from the same invariants.  The first says that each step of an
execution without slips enters a construct, leaves the innermost or takes one to
a later phase, so that with finitely many constructs it ends: the safety half of
`ProgramTerminates`.  It needs that a throw lands in a construct that is still in
its try body (the mirror), and that all constructs but the innermost are in a
block (`Settled`).  The second is that of `RootClauseHandles`, for any pool and
hierarchy, after any slips: an error one level below a caught root at most is
caught in the next step.

**LspDocSyncProofs**: `LspTypeCorrect`, `DiagnosticsStayCurrent`,
`SavesCheckAfresh` and `AnswersStayCurrent`, for any documents, texts and
client.  `CurrentInv` says that the publish under way is of the current text and,
of each document (`DocInv`), that a check pending for it carries its text or has
outlived it, and that with none pending it shows what it should, unless it has
missed its check.  That a check which has outlived its document does no harm
until it is flushed is what makes `missed` exact.  `AfreshInv` says that between the rebuild
and the publish only the inner flush can fill the document's cache entry, and
with a fresh check.

**ScopeCleanupProofs**: `CleanupTypeCorrect`, `CompilerSurvives`,
`CleanupsSound`, the refinement, and `DropsSound`, for every program of any size.
The invariants come in layers, each of which lasts until the slips it is
excused by.  `Core` always holds: types, and which blocks an execution can be
waiting at the end of (`SkipKind`, `Alive`).  `TextInv` holds until a
`deferInBody` or `throwNested`, and gives `CompilerSurvives`: `Nested` and `Parts`
say that the bases of open blocks divide the stack and what each part may hold, so
that a `#scope` finds only its callbacks and `resize` makes nothing up.
`PendingExact` holds until any of the cleanup slips: what the execution has
registered is the prefix of `deferStack_` up to the place where the two are
together, which is the whole of it or the base of the block they will meet at.
Each action is then a step of `CleanupStack` or leaves its variables alone.

`DropInv` holds until a drop slips, whatever becomes of cleanups.  `LocalsNest`
says that the locals each open block saved are among those of the blocks inside
it, and `TryKeeps` that a try statement itself declares none and moves none from
outside.  `ValuesKnown` then relates the values of the execution to the locals
and moves the compiler knew where the two were last together: what it knows as
moved is moved, what it knows otherwise is owned or was moved in a branch that is
closed, and what it does not know is not owned.

**TaskLockProofs**: `TaskTypeCorrect`, `LockSound`, `AwaitSound` and
`TaskMemorySound`, for any number of tasks and operations.  `TypeInv` adds that
handles are of spawned tasks only.  `ReclaimInv` says what each `pc` of an
awaiting thread implies of its target, also of one whose result is lost.  `SafeInv` says, of executions without a
second await and without a failed `pthread_create`, that a task being awaited
has one awaiter, whose `pc` tells exactly which of its blocks are live.

`NeverDeadlocked` (`NoDeadlock`) is the safety half of `ProgramEnds`.  `GoInv`
says that there is an order of the threads in which a thread has handles of
lower ones only (`Ordered`); a new task is put just below its spawner, which is
the step that has to be shown to keep it.  The thread that holds the mutex is
inside its block and does not wait (`Inside`), unless it awaits or locks there.  So if the mutex is taken its
holder can go on, and otherwise the lowest running thread can: what it joins
would be lower and running.

**ImportGraphProofs**: `ImportTypeCorrect`, `UnitsSound`, `CyclesSound`,
`EntryCycleSound` and `DuplicatesSound`, for any set of files, paths and
declarations.  `WalkInv` says that a visited file is a unit, queued or broken,
and only one of them, once; that the imports of a unit are visited unless they
are still to be followed; that visited files are reachable (`Inside`, against
any closed set that holds the entry); and that each file of a chain reaches the
chain's last (`Chained`), by the paths its declarations name.  So a report means
that some file names its way back to itself (`NamesBack`).  That it then imports
its way back, or that a file on the way has a declaration with two files, is
`CycleImported`: without such a declaration the paths that resolve are the paths
meant (`NamesAreImports`).

**BinaryCacheProofs**: `CacheTypeCorrect`, `CacheSound`, `BuiltSound` and
`LinksSound`, for any number of processes, programs, flags and C sources.
`CacheInv` adds to `CacheExact` that a process's temporary file, once linked,
is of its own key.  `FreshInv` says, of a process that compiles C alone, that
the objects of what it has compiled are no older than its start.

**FuzzRunnerProofs**: `FuzzTypeCorrect`, `SeedsSound`, `OvershootSound` and
`CrashesSound`, for any target, corpus and limits.  `SeedInv` says that the
file of a seed has a number the worker has used already, so that the next one
is another.  `RunsInv` counts the executions of a base by stage (`Spent`, and
`n` of the current one).  `CrashInv` says that the minimizer's buffer always
dies of the signal, and that in a pass of one-byte chunks in which nothing was
removed every byte before `pos` has been tried on the buffer as it is; the last
pass is one of these.  It holds of the mutation stage, where the input that ran
is the input that is saved (`OverFacts`).  `LoopSound` (`SeedsBounded`) and
`MinimizerSound` (`MinimizerAdvances`) are the safety halves of `WorkerEnds`.
`LoopInv` says that every seed taken up costs at least one execution unless the
worker was told to stop, so `--iters` bounds the seeds too.  The minimizer goes
down a lexicographic order: the length of the input, the chunk, whether the pass
has changed anything, and what is left of the pass.

Only model-checked: the liveness properties `HarnessEnds`, `ProgramTerminates`,
`RootClauseHandles`, `ProgramEnds`, `WorkerEnds` and `WalkEnds`, since fairness
is out of the prover's reach, and the properties that fail.  What stands in for
them above says that a step can be taken, or that every step makes progress; that
the steps then run out is an induction, which the prover cannot do.  These
stand-ins (`FittingChildGoes`, `NeverBack`, `RootClauseNext`, `NoDeadlock`,
`SeedsBounded`, `MinimizerAdvances`), `EchoesFaithful` and `SerialWhenOneJob` are
theorems only: no run lists them, as the runs check the liveness properties
themselves.

## Not modelled

Small error paths: a `waitpid` in `reapOne` that fails otherwise than by `EINTR`,
which the code takes for a child that exited with 0; the permission test of a cached binary
(`BinaryBuilder.cpp:250-254`), a child compiler or linker that outlives a killed
build and goes on writing its temporary file, and the order in which
`remove_all` (`BinaryBuilder.cpp:211-216`) deletes the files of the cache are left
out: a binary there is executable, a kill takes the children along, and
clearing is one step.

In the modelled components: wording, colours and locations in messages;
allocation failure; the value an error carries; try constructs in several
threads (the runtime's state is thread-local); `initialize`, `shutdown` and the
choice of the project's main file; the registration of modules named by `use`
declarations on `didOpen` and `didChange`; what providers answer; empty
documents; owned locals other than strings, and their reassignment; void tasks,
more than one mutex, and explicit calls of the mutex functions; the repro mode
of the fuzz runner, and how `lucis fuzz` waits for its workers; where in the
file system a path is looked up; the language server's own copy of the import
walk.

Components without a module are listed in `PROJECT.json` with the reason.  Most
of the repository is of three kinds that a model would only repeat: generated
parser code, a structural translation of the syntax tree (the type checker and
IR generation), and answers computed from a parse (the providers).

## Plan

1. `HeaderCache`: the thread that warms the completion provider's static cache,
   and the requests that read it.
2. `LucisMap`: open addressing as a refinement of an abstract map.
3. The compile-time interpreter's limits and the registry's scoping.
4. A two-worker `FuzzRunner` with both workers in full.
5. The walk of `ImportGraph` as a refinement of the set of files reachable
   from the entry.
