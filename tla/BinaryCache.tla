---------------------------- MODULE BinaryCache ----------------------------
(***************************************************************************)
(* The native binaries that `lucis run`, `lucis test` and `lucis fuzz`      *)
(* share under <project>/.lucis: BinaryBuilder::build in several processes  *)
(* at once, any of which may be killed, while the sources are being edited. *)
(*                                                                          *)
(* A cached binary is named by a digest of the program's IR and the build   *)
(* flags, linked under a name of its own and renamed into place.  Objects   *)
(* of C sources go to one file per stem in the shared build directory.      *)
(***************************************************************************)
EXTENDS Integers

CONSTANTS Builders,   \* processes, by pid
          IRs,        \* what a program compiles to
          Flags,      \* optimisation level, LTO, linker flags, runtime library
          CSources,   \* C sources that the program's includes bring in
          Stems, stem, \* the name of a source's object file
          MaxEdits,   \* bound: versions of a C source
          MaxKills,   \* bound: processes killed
          None        \* no file

Keys     == [ir : IRs, flags : Flags]
Versions == 0 .. MaxEdits
Objects  == [source : CSources, version : Versions]
Binaries == [ir : IRs, flags : Flags, extent : {"part", "all"},
             objects : [CSources -> Objects \cup {None}]]

ASSUME CacheAssumption ==
    /\ stem \in [CSources -> Stems]
    /\ MaxEdits \in Nat /\ MaxKills \in Nat
    /\ None \notin Binaries /\ None \notin Objects /\ None \notin Keys

VARIABLES
    program,   \* the IR the project's sources compile to now
    text,      \* the version of each C source now
    cacheDir,  \* whether the cache directory exists
    bins,      \* its binaries, by key
    temps,     \* its ".tmp-<pid>" files
    objects,   \* the build directory's objects, by stem
    pc,        \* where a process is in build
    key,       \* the cacheKeyData it has computed
    left,      \* the C sources it has not compiled yet
    reading,   \* what its C compiler has read
    kills,     \* processes killed so far
    since,     \* history: the C sources as they were when it started
    lone,      \* history: those who compile C with nobody else doing so
    wiped      \* history: those who returned before the cache was cleared

sources == <<program, text>>
files   == <<cacheDir, bins, temps, objects>>
local   == <<pc, key, left, reading>>
history == <<kills, since, lone, wiped>>
vars    == <<sources, files, local, history>>

Unedited == [c \in CSources |-> 0]

Init ==
    /\ program \in IRs
    /\ text = Unedited
    /\ cacheDir = "absent"
    /\ bins = [k \in Keys |-> None]
    /\ temps = [p \in Builders |-> None]
    /\ objects = [s \in Stems |-> None]
    /\ pc = [p \in Builders |-> "idle"]
    /\ key = [p \in Builders |-> None]
    /\ left = [p \in Builders |-> {}]
    /\ reading = [p \in Builders |-> None]
    /\ kills = 0
    /\ since = [p \in Builders |-> Unedited]
    /\ lone = {}
    /\ wiped = {}

Goto(p, where) == pc' = [pc EXCEPT ![p] = where]

(* The process is gone, with all it held. *)
Exit(p) ==
    /\ Goto(p, "idle")
    /\ key' = [key EXCEPT ![p] = None]
    /\ left' = [left EXCEPT ![p] = {}]
    /\ reading' = [reading EXCEPT ![p] = None]
    /\ since' = [since EXCEPT ![p] = Unedited]
    /\ lone' = lone \ {p}
    /\ wiped' = wiped \ {p}

-----------------------------------------------------------------------------
(* The pipeline has run and the IR of the sources, as they are now, is       *)
(* known; the options are given.                                             *)
Start(p) ==
    /\ pc[p] = "idle"
    /\ \E f \in Flags : key' = [key EXCEPT ![p] = [ir |-> program, flags |-> f]]
    /\ Goto(p, "clean") \/ Goto(p, "mkdir")
    /\ since' = [since EXCEPT ![p] = text]
    /\ UNCHANGED <<sources, files, left, reading, kills, lone, wiped>>

(* Mutant: only the binaries are removed before the directory. *)
CleanBinaries(p) ==
    /\ pc[p] = "clean"
    /\ cacheDir' = "absent"
    /\ bins' = [k \in Keys |-> None]
    /\ wiped' = {q \in Builders : pc[q] = "built"}
    /\ Goto(p, "mkdir")
    /\ UNCHANGED <<sources, temps, objects, key, left, reading, kills, since, lone>>

(* --clean removes the cache directory, with the temporary files in it. *)
Clean(p) ==
    /\ pc[p] = "clean"
    /\ cacheDir' = "absent"
    /\ bins' = [k \in Keys |-> None]
    /\ temps' = [q \in Builders |-> None]
    /\ wiped' = {q \in Builders : pc[q] = "built"}
    /\ Goto(p, "mkdir")
    /\ UNCHANGED <<sources, objects, key, left, reading, kills, since, lone>>

MakeDir(p) ==
    /\ pc[p] = "mkdir"
    /\ cacheDir' = "there"
    /\ Goto(p, "lookup")
    /\ UNCHANGED <<sources, bins, temps, objects, key, left, reading, history>>

(* The name of the binary: a digest of the IR and the flags, and of nothing  *)
(* about the C sources.                                                      *)
binPath(p) == key[p]

CompilingC(p) == pc[p] \in {"compile", "compiling"}

(* A binary of that name is taken as it is. *)
Lookup(p) ==
    /\ pc[p] = "lookup"
    /\ IF bins[binPath(p)] # None
       THEN Goto(p, "built") /\ UNCHANGED <<left, lone>>
       ELSE /\ Goto(p, "compile")
            /\ left' = [left EXCEPT ![p] = CSources]
            /\ lone' = {q \in lone : ~CompilingC(q)}
                         \cup {q \in {p} : \A r \in Builders : ~CompilingC(r)}
    /\ UNCHANGED <<sources, files, key, reading, kills, since, wiped>>

(* Mutant: an object that is there is not compiled again. *)
CompileReadsIfMissing(p) ==
    /\ pc[p] = "compile"
    /\ \E c \in left[p] :
          IF objects[stem[c]] # None
          THEN /\ left' = [left EXCEPT ![p] = @ \ {c}]
               /\ UNCHANGED <<pc, reading>>
          ELSE /\ reading' = [reading EXCEPT ![p] = [source |-> c, version |-> text[c]]]
               /\ Goto(p, "compiling") /\ UNCHANGED left
    /\ UNCHANGED <<sources, files, key, history>>

(* The C compiler reads a source ... *)
CompileReads(p) ==
    /\ pc[p] = "compile"
    /\ \E c \in left[p] :
          reading' = [reading EXCEPT ![p] = [source |-> c, version |-> text[c]]]
    /\ Goto(p, "compiling")
    /\ UNCHANGED <<sources, files, key, left, history>>

(* ... and writes the object of its stem, or fails. *)
CompileWrites(p) ==
    /\ pc[p] = "compiling"
    /\ objects' = [objects EXCEPT ![stem[reading[p].source]] = reading[p]]
    /\ left' = [left EXCEPT ![p] = @ \ {reading[p].source}]
    /\ Goto(p, "compile")
    /\ UNCHANGED <<sources, cacheDir, bins, temps, key, reading, history>>

(* Mutant: the linker writes to the binary's final name. *)
LinkStartsInPlace(p) ==
    /\ pc[p] = "compile" /\ left[p] = {}
    /\ cacheDir = "there"
    /\ bins' = [bins EXCEPT ![binPath(p)] =
                  [ir |-> key[p].ir, flags |-> key[p].flags, extent |-> "part",
                   objects |-> [c \in CSources |-> objects[stem[c]]]]]
    /\ Goto(p, "linking")
    /\ UNCHANGED <<sources, cacheDir, temps, objects, key, left, reading, history>>

(* With the program's own object in a fresh file, the linker reads the C     *)
(* objects and opens its output, which needs the directory.                  *)
LinkStarts(p) ==
    /\ pc[p] = "compile" /\ left[p] = {}
    /\ cacheDir = "there"
    /\ temps' = [temps EXCEPT ![p] =
                  [ir |-> key[p].ir, flags |-> key[p].flags, extent |-> "part",
                   objects |-> [c \in CSources |-> objects[stem[c]]]]]
    /\ Goto(p, "linking")
    /\ UNCHANGED <<sources, cacheDir, bins, objects, key, left, reading, history>>

(* The linker is done; its output may have been removed under it. *)
LinkEnds(p) ==
    /\ pc[p] = "linking"
    /\ temps' = [temps EXCEPT ![p] = IF @ = None THEN None ELSE [@ EXCEPT !.extent = "all"]]
    /\ Goto(p, "rename")
    /\ UNCHANGED <<sources, cacheDir, bins, objects, key, left, reading, history>>

(* A compiler or linker error: build returns false, and files stay. *)
Fails(p) ==
    /\ \/ pc[p] \in {"compiling", "linking"}
       \/ pc[p] = "compile" /\ left[p] = {}
    /\ Exit(p)
    /\ UNCHANGED <<sources, files, kills>>

(* Mutant: a failed rename is not looked into. *)
RenameUnchecked(p) ==
    /\ pc[p] = "rename"
    /\ bins' = IF temps[p] # None THEN [bins EXCEPT ![binPath(p)] = temps[p]] ELSE bins
    /\ temps' = [temps EXCEPT ![p] = None]
    /\ Goto(p, "built")
    /\ UNCHANGED <<sources, cacheDir, objects, key, left, reading, history>>

(* The output is renamed; if that fails the build still succeeds when        *)
(* somebody else has put a binary of that name there.                        *)
Rename(p) ==
    /\ pc[p] = "rename"
    /\ bins' = IF temps[p] # None THEN [bins EXCEPT ![binPath(p)] = temps[p]] ELSE bins
    /\ temps' = [temps EXCEPT ![p] = None]
    /\ IF bins'[binPath(p)] # None
       THEN Goto(p, "built") /\ UNCHANGED <<key, left, reading, since, lone, wiped>>
       ELSE Exit(p)
    /\ UNCHANGED <<sources, cacheDir, objects, kills>>

(* The command executes the binary by its name. *)
Execute(p) ==
    /\ pc[p] = "built"
    /\ Exit(p)
    /\ UNCHANGED <<sources, files, kills>>

(* A process is killed; its pid may come again. *)
Kill(p) ==
    /\ pc[p] # "idle" /\ kills < MaxKills
    /\ kills' = kills + 1
    /\ Exit(p)
    /\ UNCHANGED <<sources, files>>

Edit ==
    /\ \/ program' \in IRs \ {program} /\ UNCHANGED text
       \/ /\ \E c \in CSources : text[c] < MaxEdits /\ text' = [text EXCEPT ![c] = @ + 1]
          /\ UNCHANGED program
    /\ UNCHANGED <<files, local, history>>

Step(p) ==
    \/ Start(p) \/ Clean(p) \/ MakeDir(p) \/ Lookup(p)
    \/ CompileReads(p) \/ CompileWrites(p)
    \/ LinkStarts(p) \/ LinkEnds(p) \/ Fails(p) \/ Rename(p) \/ Execute(p)
    \/ Kill(p)

Next == Edit \/ \E p \in Builders : Step(p)

Spec == Init /\ [][Next]_vars

-----------------------------------------------------------------------------
(* Properties. *)

(* The types of the state.  The cache's files need its directory, and a      *)
(* running process has its key and, while a compiler runs, that one's input. *)
TypeOK ==
    /\ program \in IRs /\ text \in [CSources -> Versions]
    /\ cacheDir \in {"absent", "there"}
    /\ bins \in [Keys -> Binaries \cup {None}]
    /\ temps \in [Builders -> Binaries \cup {None}]
    /\ objects \in [Stems -> Objects \cup {None}]
    /\ pc \in [Builders -> {"idle", "clean", "mkdir", "lookup", "compile", "compiling",
                            "linking", "rename", "built"}]
    /\ key \in [Builders -> Keys \cup {None}]
    /\ \A p \in Builders : pc[p] # "idle" => key[p] # None
    /\ left \in [Builders -> SUBSET CSources]
    /\ reading \in [Builders -> Objects \cup {None}]
    /\ \A p \in Builders : pc[p] = "compiling" => reading[p] # None
    /\ cacheDir = "absent" =>
                    /\ \A k \in Keys : bins[k] = None
                    /\ \A p \in Builders : temps[p] = None
    /\ kills \in 0 .. MaxKills
    /\ since \in [Builders -> [CSources -> Versions]]
    /\ lone \subseteq Builders /\ wiped \subseteq Builders

(* A binary under its final name is complete and was linked from the IR and  *)
(* with the flags its name stands for, whoever was killed and whatever was   *)
(* cleared meanwhile: a cache hit never runs another program or half of one. *)
CacheExact ==
    \A k \in Keys : bins[k] # None =>
        bins[k].extent = "all" /\ bins[k].ir = k.ir /\ bins[k].flags = k.flags

(* A build that returned true has a binary to execute, unless the cache was  *)
(* cleared since it returned.                                                *)
BuiltMeansThere ==
    \A p \in Builders : pc[p] = "built" /\ p \notin wiped => bins[key[p]] # None

OwnStem(c) == \A d \in CSources : stem[d] = stem[c] => d = c

(* What a build links, when nobody else was compiling C meanwhile, has each  *)
(* C source whose stem no other one shares as it was when the build started, *)
(* or later.                                                                 *)
LinksFreshObjects ==
    \A p \in Builders : pc[p] \in {"linking", "rename"} /\ p \in lone /\ temps[p] # None =>
        \A c \in CSources : OwnStem(c) =>
            /\ temps[p].objects[c] # None
            /\ temps[p].objects[c].source = c
            /\ temps[p].objects[c].version >= since[p][c]
=============================================================================
