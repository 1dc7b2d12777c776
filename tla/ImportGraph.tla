---------------------------- MODULE ImportGraph ----------------------------
(***************************************************************************)
(* How a compilation finds its source files: the breadth-first walk over   *)
(* `use` declarations in LucisPipeline::run, its detection of circular      *)
(* imports, and the module registry that the files found are put into.      *)
(*                                                                          *)
(* A module path ("lib/math") is a name; several may resolve to one file:   *)
(* the entry file is src/main to the walk and may be main to those who use  *)
(* it, when src is one of the project's source paths.  The declaration      *)
(* `use a::b` names two paths, a and a/b, and the walk goes to both.        *)
(***************************************************************************)
EXTENDS Integers, Sequences

CONSTANTS Files,     \* the .lc files of the project and its libraries
          Entry,     \* the input file
          Paths,     \* module paths
          EntryPath, \* filePathToModulePath of the input file
          NoFile,    \* a path that resolves to nothing
          resolveUseToFile, \* the file a path resolves to
          UseDecls,  \* use declarations
          Symbols,   \* names of declarations
          decls      \* the declarations of a file, in order, with their kind

Decls == [name : Symbols, kind : {"symbol", "block"}]

(* UseBinding: `use m` is of a module; `use m::x` is a symbol's, and may be   *)
(* of the module m::x as well.                                                *)
UseBindings == [kind : {"module", "symbol"}, modulePath : Paths, fullPath : Paths]

ASSUME ImportAssumption ==
    /\ Entry \in Files
    /\ NoFile \notin Files
    /\ EntryPath \in Paths
    /\ resolveUseToFile \in [Paths -> Files \cup {NoFile}]
    /\ resolveUseToFile[EntryPath] = Entry
    /\ UseDecls \subseteq UseBindings
    /\ decls \in [Files -> Seq(Decls)]

VARIABLES
    uses,      \* the use declarations of a parsed file
    broken,    \* the files with parse errors
    queue,     \* files to parse, each with its path and import chain
    visited,   \* files that have been queued
    unit,      \* the file whose use declarations are being followed
    todo,      \* those of them still to be followed
    units,     \* the files found, with the path each was found under
    anyCircularImport,
    outcome    \* "running", or how the walk ended

program == <<uses, broken>>
vars    == <<program, queue, visited, unit, todo, units, anyCircularImport, outcome>>

Units == [file : Files, modulePath : Paths, importChain : Seq(Paths)]

EntryUnit == [file |-> Entry, modulePath |-> EntryPath, importChain |-> <<EntryPath>>]

Init ==
    /\ broken \in SUBSET Files
    /\ uses \in {u \in [Files -> SUBSET UseDecls] : \A f \in broken : u[f] = {}}
    /\ queue = <<EntryUnit>>
    /\ visited = {Entry}
    /\ unit = EntryUnit
    /\ todo = {}
    /\ units = << >>
    /\ anyCircularImport = FALSE
    /\ outcome = "running"

-----------------------------------------------------------------------------
(* The paths a use declaration may mean.  Nothing tells a module from a       *)
(* symbol yet, so both candidates of `use m::x` are followed.                 *)
Candidates(d) ==
    IF d.kind = "symbol" THEN {d.modulePath, d.fullPath} ELSE {d.modulePath}

extractUseModulePaths(f) == UNION {Candidates(d) : d \in uses[f]}

(* Mutant: the file leaves the queue only once it has been parsed. *)
ParseNextLate ==
    /\ outcome = "running" /\ todo = {} /\ queue # << >>
    /\ IF Head(queue).file \in broken
       THEN UNCHANGED <<queue, unit, todo, units>>
       ELSE /\ queue' = Tail(queue)
            /\ unit' = Head(queue)
            /\ todo' = extractUseModulePaths(Head(queue).file)
            /\ units' = Append(units, Head(queue))
    /\ UNCHANGED <<program, visited, anyCircularImport, outcome>>

(* The next file is parsed.  One with parse errors is dropped and nothing    *)
(* else is made of it: anyParseError is set and never read.                  *)
ParseNext ==
    /\ outcome = "running" /\ todo = {} /\ queue # << >>
    /\ queue' = Tail(queue)
    /\ IF Head(queue).file \in broken
       THEN UNCHANGED <<unit, todo, units>>
       ELSE /\ unit' = Head(queue)
            /\ todo' = extractUseModulePaths(Head(queue).file)
            /\ units' = Append(units, Head(queue))
    /\ UNCHANGED <<program, visited, anyCircularImport, outcome>>

OnChain(path) == \E i \in 1 .. Len(unit.importChain) : unit.importChain[i] = path

(* Mutant: the queued file starts a chain of its own. *)
ChildUnchained(path) ==
    [file |-> resolveUseToFile[path], modulePath |-> path, importChain |-> <<path>>]

(* Mutant: the queued file keeps the path of the file that uses it. *)
ChildUnnamed(path) ==
    [file |-> resolveUseToFile[path], modulePath |-> unit.modulePath,
     importChain |-> Append(unit.importChain, path)]

(* What is queued for a file reached from the current one. *)
Child(path) ==
    [file |-> resolveUseToFile[path], modulePath |-> path,
     importChain |-> Append(unit.importChain, path)]

(* Mutant: a file that is already visited counts as a cycle. *)
FollowUseEager(path) ==
    LET file == resolveUseToFile[path] IN
    \/ /\ file = NoFile
       /\ UNCHANGED <<queue, visited, anyCircularImport>>
    \/ /\ file \in visited
       /\ anyCircularImport' = TRUE
       /\ UNCHANGED <<queue, visited>>
    \/ /\ file \notin visited \cup {NoFile}
       /\ visited' = visited \cup {file}
       /\ queue' = Append(queue, Child(path))
       /\ UNCHANGED anyCircularImport

(* Mutant: a file is queued again each time it is used. *)
FollowUseForgetful(path) ==
    LET file == resolveUseToFile[path] IN
    \/ /\ file = NoFile
       /\ UNCHANGED <<queue, visited, anyCircularImport>>
    \/ /\ file # NoFile /\ OnChain(path)
       /\ anyCircularImport' = TRUE
       /\ UNCHANGED <<queue, visited>>
    \/ /\ file # NoFile /\ ~OnChain(path)
       /\ visited' = visited \cup {file}
       /\ queue' = Append(queue, Child(path))
       /\ UNCHANGED anyCircularImport

(* Mutant: a path that resolves to nothing is queued as well. *)
FollowUseUnresolved(path) ==
    LET file == resolveUseToFile[path] IN
    \/ /\ OnChain(path)
       /\ anyCircularImport' = TRUE
       /\ UNCHANGED <<queue, visited>>
    \/ /\ ~OnChain(path) /\ file \in visited
       /\ UNCHANGED <<queue, visited, anyCircularImport>>
    \/ /\ ~OnChain(path) /\ file \notin visited
       /\ visited' = visited \cup {file}
       /\ queue' = Append(queue, Child(path))
       /\ UNCHANGED anyCircularImport

(* A use declaration that resolves closes a cycle if its path is on the      *)
(* chain, and otherwise queues its file unless it has been queued before.    *)
FollowUse(path) ==
    LET file == resolveUseToFile[path] IN
    \/ /\ file = NoFile
       /\ UNCHANGED <<queue, visited, anyCircularImport>>
    \/ /\ file # NoFile /\ OnChain(path)
       /\ anyCircularImport' = TRUE
       /\ UNCHANGED <<queue, visited>>
    \/ /\ file # NoFile /\ ~OnChain(path) /\ file \in visited
       /\ UNCHANGED <<queue, visited, anyCircularImport>>
    \/ /\ file # NoFile /\ ~OnChain(path) /\ file \notin visited
       /\ visited' = visited \cup {file}
       /\ queue' = Append(queue, Child(path))
       /\ UNCHANGED anyCircularImport

(* The candidates come in some order of the text. *)
Follow ==
    /\ outcome = "running"
    /\ \E path \in todo : FollowUse(path) /\ todo' = todo \ {path}
    /\ UNCHANGED <<program, unit, units, outcome>>

-----------------------------------------------------------------------------
(* ModuleRegistry: registerFile appends a file's declarations to those of    *)
(* its module path; validate looks for a name that comes twice in one module *)
(* (extend and impl blocks may).  The k-th declaration of the i-th unit and   *)
(* the l-th of the j-th are such a pair.                                     *)
SameSymbol(i, k, j, l) ==
    LET x == decls[units[i].file][k]
        y == decls[units[j].file][l]
    IN  x.kind = "symbol" /\ y.kind = "symbol" /\ x.name = y.name

Duplicate ==
    \E i, j \in 1 .. Len(units) :
        /\ units[i].modulePath = units[j].modulePath
        /\ \E k \in 1 .. Len(decls[units[i].file]), l \in 1 .. Len(decls[units[j].file]) :
              (i # j \/ k # l) /\ SameSymbol(i, k, j, l)

(* The walk is over: errors first, then the registry is filled and checked.  *)
Finish ==
    /\ outcome = "running" /\ todo = {} /\ queue = << >>
    /\ outcome' = IF anyCircularImport THEN "circular"
                  ELSE IF units = << >> THEN "empty"
                  ELSE IF Duplicate THEN "duplicate" ELSE "ok"
    /\ UNCHANGED <<program, queue, visited, unit, todo, units, anyCircularImport>>

Finished == outcome # "running" /\ UNCHANGED vars

Walk == ParseNext \/ Follow \/ Finish

Next == Walk \/ Finished

Spec == Init /\ [][Next]_vars

(* The compiler is one thread that runs until it is done. *)
FairSpec == Spec /\ WF_vars(Walk)

-----------------------------------------------------------------------------
(* Properties. *)

(* The types of the walk's state. *)
TypeOK ==
    /\ uses \in [Files -> SUBSET UseDecls]
    /\ broken \in SUBSET Files
    /\ queue \in Seq(Units)
    /\ visited \in SUBSET Files
    /\ unit \in Units
    /\ todo \in SUBSET Paths
    /\ units \in Seq(Units)
    /\ anyCircularImport \in BOOLEAN
    /\ outcome \in {"running", "circular", "empty", "duplicate", "ok"}

(* The files that a file with no parse errors names. *)
Imports(f) == {resolveUseToFile[p] : p \in extractUseModulePaths(f)} \ {NoFile}

(* S holds what the files of S import. *)
Closed(S) == \A f \in S \ broken : Imports(f) \subseteq S

(* The files reachable from those of R. *)
ReachableFrom(R) == {f \in Files : \A S \in SUBSET Files : R \subseteq S /\ Closed(S) => f \in S}

(* When the walk ends, its units are exactly the files without parse errors  *)
(* that the entry reaches, each of them once, whatever cycles, aliases and   *)
(* broken files the imports have.                                            *)
UnitsExact ==
    outcome # "running" =>
        /\ {units[i].file : i \in 1 .. Len(units)} = ReachableFrom({Entry}) \ broken
        /\ \A i, j \in 1 .. Len(units) : units[i].file = units[j].file => i = j

(* What a declaration means to the checker that runs after the walk:         *)
(* `use m::x` is of the module m::x if there is one, else of x in m.         *)
Meant(d) ==
    IF d.kind = "symbol" /\ resolveUseToFile[d.fullPath] # NoFile
    THEN d.fullPath ELSE d.modulePath

MeantImports(f) == {resolveUseToFile[Meant(d)] : d \in uses[f]} \ {NoFile}

(* f imports its way back to itself. *)
OnCycle(f) ==
    \A S \in SUBSET Files :
        MeantImports(f) \subseteq S /\ (\A g \in S \ broken : MeantImports(g) \subseteq S)
            => f \in S

(* Both paths of `use m::x` are files, of which the checker takes one. *)
Ambiguous(d) ==
    /\ d.kind = "symbol"
    /\ resolveUseToFile[d.modulePath] # NoFile /\ resolveUseToFile[d.fullPath] # NoFile

(* "circular import detected" means that a parsed file names its way back to *)
(* itself, and so imports its way back unless a file on the way has a        *)
(* `use m::x` for which m and m::x are both files.  There alone it is a      *)
(* false alarm: a module that uses a submodule of its own is reported.       *)
CyclesReal ==
    anyCircularImport => \E f \in visited \ broken :
        /\ f \in ReachableFrom(Imports(f))
        /\ \/ OnCycle(f)
           \/ \E g \in ReachableFrom({f}) \ broken :
                 f \in ReachableFrom({g}) /\ \E d \in uses[g] : Ambiguous(d)

(* A declaration that may mean the entry by its own module path, however     *)
(* deep, is reported: the chain of every file begins with the entry.         *)
EntryCycleReported ==
    outcome # "running" /\ (\E f \in ReachableFrom({Entry}) \ broken : EntryPath \in extractUseModulePaths(f))
        => outcome = "circular"

(* A file that declares a symbol twice. *)
Repeats(f) ==
    \E k, l \in 1 .. Len(decls[f]) :
        /\ k # l /\ decls[f][k].kind = "symbol" /\ decls[f][l].kind = "symbol"
        /\ decls[f][k].name = decls[f][l].name

(* "duplicate symbol in module" is reported exactly of files that declare a  *)
(* symbol twice: no two files are registered as one module.                  *)
DuplicatesLocal ==
    outcome \in {"duplicate", "ok"} =>
        (outcome = "duplicate" <=> \E f \in ReachableFrom({Entry}) \ broken : Repeats(f))

(* The walk ends, even when the imports are circular. *)
WalkEnds == <>(outcome # "running")
=============================================================================
