------------------------- MODULE BinaryCacheProofs -------------------------
(* Proofs about BinaryCache, for any processes, sources, flags and bounds. *)
EXTENDS BinaryCache, TLAPS

(* What Exit leaves. *)
LEMMA ExitTypes ==
    ASSUME TypeOK, NEW p \in Builders, Exit(p)
    PROVE  /\ pc' \in [Builders -> {"idle", "clean", "mkdir", "lookup", "compile", "compiling",
                                    "linking", "rename", "built"}]
           /\ key' \in [Builders -> Keys \cup {None}]
           /\ \A q \in Builders : pc'[q] # "idle" => key'[q] # None
           /\ left' \in [Builders -> SUBSET CSources]
           /\ reading' \in [Builders -> Objects \cup {None}]
           /\ \A q \in Builders : pc'[q] = "compiling" => reading'[q] # None
           /\ since' \in [Builders -> [CSources -> Versions]]
           /\ lone' \subseteq Builders /\ wiped' \subseteq Builders
<1>1. Unedited \in [CSources -> Versions]
  BY CacheAssumption DEF Unedited, Versions
<1>2. since' \in [Builders -> [CSources -> Versions]]
  BY <1>1 DEF Exit, TypeOK
<1>3. \A q \in Builders : /\ pc'[q] = IF q = p THEN "idle" ELSE pc[q]
                          /\ key'[q] = IF q = p THEN None ELSE key[q]
                          /\ reading'[q] = IF q = p THEN None ELSE reading[q]
  BY DEF Exit, Goto, TypeOK
<1>4. lone' \subseteq Builders /\ wiped' \subseteq Builders
  BY DEF Exit, TypeOK
<1>5. /\ pc' \in [Builders -> {"idle", "clean", "mkdir", "lookup", "compile", "compiling",
                               "linking", "rename", "built"}]
      /\ key' \in [Builders -> Keys \cup {None}]
      /\ left' \in [Builders -> SUBSET CSources]
      /\ reading' \in [Builders -> Objects \cup {None}]
  BY DEF Exit, Goto, TypeOK
<1> QED BY <1>2, <1>3, <1>4, <1>5 DEF TypeOK

LEMMA TypeInit == Init => TypeOK
<1> SUFFICES ASSUME Init PROVE TypeOK
  OBVIOUS
<1>1. Unedited \in [CSources -> Versions] /\ kills \in 0 .. MaxKills
  BY CacheAssumption DEF Init, Unedited, Versions
<1> QED BY <1>1 DEF Init, TypeOK

(* A process is somewhere else in build. *)
LEMMA GotoTypes ==
    ASSUME TypeOK, NEW p \in Builders,
           NEW where \in {"clean", "mkdir", "lookup", "compile", "compiling",
                          "linking", "rename", "built"}, Goto(p, where)
    PROVE  /\ pc' \in [Builders -> {"idle", "clean", "mkdir", "lookup", "compile", "compiling",
                                    "linking", "rename", "built"}]
           /\ \A q \in Builders : pc'[q] = IF q = p THEN where ELSE pc[q]
BY DEF Goto, TypeOK

LEMMA TypeStep ==
    ASSUME TypeOK, [Next]_vars
    PROVE  TypeOK'
<1> USE CacheAssumption
<1>1. CASE Edit
  <2>1. program' \in IRs /\ text' \in [CSources -> Versions]
    BY <1>1 DEF Edit, TypeOK, Versions
  <2> QED BY <1>1, <2>1 DEF Edit, TypeOK, files, local, history
<1>2. ASSUME NEW p \in Builders, Start(p) PROVE TypeOK'
  <2>1. PICK f \in Flags : key' = [key EXCEPT ![p] = [ir |-> program, flags |-> f]]
    BY <1>2 DEF Start
  <2>2. [ir |-> program, flags |-> f] \in Keys
    BY DEF Keys, TypeOK
  <2>3. key' \in [Builders -> Keys \cup {None}]
    BY <2>1, <2>2 DEF TypeOK
  <2>4. \A q \in Builders : key'[q] # None \/ (q # p /\ key'[q] = key[q])
    BY <2>1, <2>2 DEF TypeOK
  <2>5. since' \in [Builders -> [CSources -> Versions]]
    BY <1>2 DEF Start, TypeOK
  <2>6. PICK where \in {"clean", "mkdir"} : Goto(p, where)
    BY <1>2 DEF Start
  <2>7. /\ pc' \in [Builders -> {"idle", "clean", "mkdir", "lookup", "compile", "compiling",
                                 "linking", "rename", "built"}]
        /\ \A q \in Builders : pc'[q] = IF q = p THEN where ELSE pc[q]
    BY <2>6, GotoTypes
  <2> QED BY <1>2, <2>3, <2>4, <2>5, <2>6, <2>7 DEF Start, TypeOK, sources, files
<1>3. ASSUME NEW p \in Builders, Clean(p) PROVE TypeOK'
  <2>1. Goto(p, "mkdir")
    BY <1>3 DEF Clean
  <2>2. /\ bins' \in [Keys -> Binaries \cup {None}] /\ \A k \in Keys : bins'[k] = None
        /\ temps' \in [Builders -> Binaries \cup {None}] /\ \A q \in Builders : temps'[q] = None
        /\ wiped' \subseteq Builders
    BY <1>3 DEF Clean
  <2> QED BY <1>3, <2>1, <2>2, GotoTypes DEF Clean, TypeOK, sources
<1>4. ASSUME NEW p \in Builders, MakeDir(p) PROVE TypeOK'
  <2>1. Goto(p, "lookup")
    BY <1>4 DEF MakeDir
  <2> QED BY <1>4, <2>1, GotoTypes DEF MakeDir, TypeOK, sources, history
<1>5. ASSUME NEW p \in Builders, Lookup(p) PROVE TypeOK'
  <2>1. CASE bins[binPath(p)] # None
    <3>1. Goto(p, "built") /\ UNCHANGED <<left, lone>>
      BY <1>5, <2>1 DEF Lookup
    <3> QED BY <1>5, <3>1, GotoTypes DEF Lookup, TypeOK, sources, files
  <2>2. CASE bins[binPath(p)] = None
    <3>1. Goto(p, "compile") /\ left' = [left EXCEPT ![p] = CSources]
          /\ lone' \subseteq Builders
      BY <1>5, <2>2 DEF Lookup, TypeOK
    <3>2. left' \in [Builders -> SUBSET CSources]
      BY <3>1 DEF TypeOK
    <3> QED BY <1>5, <3>1, <3>2, GotoTypes DEF Lookup, TypeOK, sources, files
  <2> QED BY <2>1, <2>2
<1>6. ASSUME NEW p \in Builders, CompileReads(p) PROVE TypeOK'
  <2>1. Goto(p, "compiling")
    BY <1>6 DEF CompileReads
  <2>2. PICK c \in CSources :
            reading' = [reading EXCEPT ![p] = [source |-> c, version |-> text[c]]]
    BY <1>6 DEF CompileReads, TypeOK
  <2>3. [source |-> c, version |-> text[c]] \in Objects
    BY DEF TypeOK, Objects
  <2>4. /\ reading' \in [Builders -> Objects \cup {None}] /\ reading'[p] # None
        /\ \A q \in Builders : q # p => reading'[q] = reading[q]
    BY <2>2, <2>3 DEF TypeOK
  <2> QED BY <1>6, <2>1, <2>4, GotoTypes DEF CompileReads, TypeOK, sources, files, history
<1>7. ASSUME NEW p \in Builders, CompileWrites(p) PROVE TypeOK'
  <2>1. Goto(p, "compile")
    BY <1>7 DEF CompileWrites
  <2>2. reading[p] \in Objects
    BY <1>7 DEF CompileWrites, TypeOK
  <2>3. objects' \in [Stems -> Objects \cup {None}]
    BY <1>7, <2>2 DEF CompileWrites, TypeOK
  <2>4. left' \in [Builders -> SUBSET CSources]
    BY <1>7 DEF CompileWrites, TypeOK
  <2> QED BY <1>7, <2>1, <2>3, <2>4, GotoTypes DEF CompileWrites, TypeOK, sources, history
<1>8. ASSUME NEW p \in Builders, LinkStarts(p) PROVE TypeOK'
  <2>1. Goto(p, "linking") /\ cacheDir = "there" /\ cacheDir' = cacheDir
    BY <1>8 DEF LinkStarts
  <2>2. key[p] \in Keys
    BY <1>8 DEF LinkStarts, TypeOK
  <2>3. [c \in CSources |-> objects[stem[c]]] \in [CSources -> Objects \cup {None}]
    BY DEF TypeOK
  <2>4. [ir |-> key[p].ir, flags |-> key[p].flags, extent |-> "part",
         objects |-> [c \in CSources |-> objects[stem[c]]]] \in Binaries
    BY <2>2, <2>3 DEF Keys, Binaries
  <2>5. temps' \in [Builders -> Binaries \cup {None}]
    BY <1>8, <2>4 DEF LinkStarts, TypeOK
  <2> QED BY <1>8, <2>1, <2>5, GotoTypes DEF LinkStarts, TypeOK, sources, history
<1>9. ASSUME NEW p \in Builders, LinkEnds(p) PROVE TypeOK'
  <2>1. Goto(p, "rename")
    BY <1>9 DEF LinkEnds
  <2>2. temps[p] # None => [temps[p] EXCEPT !.extent = "all"] \in Binaries
    <3>1. SUFFICES ASSUME temps[p] # None PROVE [temps[p] EXCEPT !.extent = "all"] \in Binaries
      OBVIOUS
    <3>2. temps[p] \in Binaries
      BY <3>1 DEF TypeOK
    <3> QED BY <3>2 DEF Binaries
  <2>3. /\ temps' \in [Builders -> Binaries \cup {None}]
        /\ \A q \in Builders : temps[q] = None => temps'[q] = None
    BY <1>9, <2>2 DEF LinkEnds, TypeOK
  <2> QED BY <1>9, <2>1, <2>3, GotoTypes DEF LinkEnds, TypeOK, sources, history
<1>10. ASSUME NEW p \in Builders, Fails(p) PROVE TypeOK'
  BY <1>10, ExitTypes DEF Fails, TypeOK, sources, files
<1>11. ASSUME NEW p \in Builders, Rename(p) PROVE TypeOK'
  <2>1. key[p] \in Keys
    BY <1>11 DEF Rename, TypeOK
  <2>2. /\ bins' \in [Keys -> Binaries \cup {None}]
        /\ temps' \in [Builders -> Binaries \cup {None}]
        /\ temps[p] = None => bins' = bins
        /\ \A q \in Builders : temps[q] = None => temps'[q] = None
    BY <1>11, <2>1 DEF Rename, TypeOK, binPath
  <2>3. cacheDir = "absent" => /\ \A k \in Keys : bins'[k] = None
                               /\ \A q \in Builders : temps'[q] = None
    BY <2>2 DEF TypeOK
  <2>4. CASE Goto(p, "built") /\ UNCHANGED <<key, left, reading, since, lone, wiped>>
    BY <1>11, <2>2, <2>3, <2>4, GotoTypes DEF Rename, TypeOK, sources
  <2>5. CASE Exit(p)
    BY <1>11, <2>2, <2>3, <2>5, ExitTypes DEF Rename, TypeOK, sources
  <2> QED BY <1>11, <2>4, <2>5 DEF Rename
<1>12. ASSUME NEW p \in Builders, Execute(p) PROVE TypeOK'
  BY <1>12, ExitTypes DEF Execute, TypeOK, sources, files
<1>13. ASSUME NEW p \in Builders, Kill(p) PROVE TypeOK'
  <2>1. kills' \in 0 .. MaxKills
    BY <1>13 DEF Kill, TypeOK
  <2> QED BY <1>13, <2>1, ExitTypes DEF Kill, TypeOK, sources, files
<1>14. CASE UNCHANGED vars
  BY <1>14 DEF vars, sources, files, local, history, TypeOK
<1> QED
  BY <1>1, <1>2, <1>3, <1>4, <1>5, <1>6, <1>7, <1>8, <1>9, <1>10, <1>11, <1>12, <1>13, <1>14
     DEF Next, Step

(* The types of the cache's state hold at all times; in particular no file   *)
(* is in a directory that is not there, and no build works without its key.  *)
THEOREM CacheTypeCorrect == Spec => []TypeOK
BY TypeInit, TypeStep, PTL DEF Spec

-----------------------------------------------------------------------------
(* What is being linked is the program of the process's key, and it is       *)
(* complete once the linker is done; what an earlier process of the same pid *)
(* left behind is overwritten before it can be renamed.                      *)
TempsOfKey ==
    \A p \in Builders : pc[p] \in {"linking", "rename"} /\ temps[p] # None =>
        /\ temps[p].ir = key[p].ir /\ temps[p].flags = key[p].flags
        /\ pc[p] = "rename" => temps[p].extent = "all"

CacheInv == CacheExact /\ TempsOfKey

LEMMA CacheStep ==
    ASSUME TypeOK, CacheInv, [Next]_vars
    PROVE  CacheInv'
<1>1. CASE Edit \/ UNCHANGED vars
  BY <1>1 DEF Edit, vars, files, local, CacheInv, CacheExact, TempsOfKey
<1>2. ASSUME NEW p \in Builders, NEW where \in {"clean", "mkdir", "lookup", "compile",
                                                "compiling", "built", "idle"},
             Goto(p, where), UNCHANGED <<bins, temps>>,
             \A q \in Builders : q # p => key'[q] = key[q]
      PROVE  CacheInv'
  <2>1. \A q \in Builders : pc'[q] = IF q = p THEN where ELSE pc[q]
    BY <1>2 DEF Goto, TypeOK
  <2> QED BY <1>2, <2>1 DEF CacheInv, CacheExact, TempsOfKey
<1>3. ASSUME NEW p \in Builders, Exit(p), UNCHANGED <<bins, temps>> PROVE CacheInv'
  <2>1. Goto(p, "idle") /\ \A q \in Builders : q # p => key'[q] = key[q]
    BY <1>3 DEF Exit, TypeOK
  <2> QED BY <1>2, <1>3, <2>1
<1>4. ASSUME NEW p \in Builders, Start(p) PROVE CacheInv'
  <2>1. \A q \in Builders : q # p => key'[q] = key[q]
    BY <1>4 DEF Start, TypeOK
  <2>2. PICK where \in {"clean", "mkdir"} : Goto(p, where)
    BY <1>4 DEF Start
  <2> QED BY <1>2, <1>4, <2>1, <2>2 DEF Start, files
<1>5. ASSUME NEW p \in Builders, Clean(p) PROVE CacheInv'
  <2>1. (\A k \in Keys : bins'[k] = None) /\ (\A q \in Builders : temps'[q] = None)
    BY <1>5 DEF Clean
  <2> QED BY <2>1 DEF CacheInv, CacheExact, TempsOfKey
<1>6. ASSUME NEW p \in Builders, MakeDir(p) \/ CompileReads(p) \/ CompileWrites(p) PROVE CacheInv'
  <2>1. PICK where \in {"lookup", "compile", "compiling"} : Goto(p, where)
    BY <1>6 DEF MakeDir, CompileReads, CompileWrites
  <2>2. UNCHANGED <<bins, temps, key>>
    BY <1>6 DEF MakeDir, CompileReads, CompileWrites, files
  <2> QED BY <1>2, <2>1, <2>2
<1>7. ASSUME NEW p \in Builders, Lookup(p) PROVE CacheInv'
  <2>1. PICK where \in {"compile", "built"} : Goto(p, where)
    BY <1>7 DEF Lookup
  <2> QED BY <1>2, <1>7, <2>1 DEF Lookup, files
<1>8. ASSUME NEW p \in Builders, LinkStarts(p) PROVE CacheInv'
  <2>1. \A q \in Builders : pc'[q] = IF q = p THEN "linking" ELSE pc[q]
    BY <1>8 DEF LinkStarts, Goto, TypeOK
  <2>2. /\ \A q \in Builders : q # p => temps'[q] = temps[q]
        /\ temps'[p].ir = key[p].ir /\ temps'[p].flags = key[p].flags
        /\ bins' = bins /\ key' = key
    BY <1>8 DEF LinkStarts, TypeOK
  <2> QED BY <2>1, <2>2 DEF CacheInv, CacheExact, TempsOfKey
<1>9. ASSUME NEW p \in Builders, LinkEnds(p) PROVE CacheInv'
  <2>1. \A q \in Builders : pc'[q] = IF q = p THEN "rename" ELSE pc[q]
    BY <1>9 DEF LinkEnds, Goto, TypeOK
  <2>2. /\ \A q \in Builders : q # p => temps'[q] = temps[q]
        /\ bins' = bins /\ key' = key /\ pc[p] = "linking"
        /\ temps'[p] = IF temps[p] = None THEN None ELSE [temps[p] EXCEPT !.extent = "all"]
    BY <1>9 DEF LinkEnds, TypeOK
  <2>3. temps[p] # None =>
            /\ temps'[p].ir = temps[p].ir /\ temps'[p].flags = temps[p].flags
            /\ temps'[p].extent = "all"
    <3>1. SUFFICES ASSUME temps[p] # None
                   PROVE  /\ temps'[p].ir = temps[p].ir /\ temps'[p].flags = temps[p].flags
                          /\ temps'[p].extent = "all"
      OBVIOUS
    <3>2. temps[p] \in Binaries
      BY <3>1 DEF TypeOK
    <3> QED BY <2>2, <3>1, <3>2 DEF Binaries
  <2>4. temps'[p] # None => temps[p] # None
    BY <2>2
  <2>5. TempsOfKey'
    <3>1. SUFFICES ASSUME NEW q \in Builders, pc'[q] \in {"linking", "rename"}, temps'[q] # None
                   PROVE  /\ temps'[q].ir = key'[q].ir /\ temps'[q].flags = key'[q].flags
                          /\ pc'[q] = "rename" => temps'[q].extent = "all"
      BY DEF TempsOfKey
    <3>2. key' = key
      BY <2>2
    <3>3. CASE q = p
      <4>1. temps[p].ir = key[p].ir /\ temps[p].flags = key[p].flags
        BY <2>2, <2>4, <3>1, <3>3 DEF CacheInv, TempsOfKey
      <4> QED BY <2>3, <2>4, <3>1, <3>2, <3>3, <4>1
    <3>4. CASE q # p
      <4>1. temps'[q] = temps[q] /\ pc'[q] = pc[q]
        BY <2>1, <2>2, <3>4
      <4> QED BY <3>1, <3>2, <4>1 DEF CacheInv, TempsOfKey
    <3> QED BY <3>3, <3>4
  <2>6. CacheExact'
    BY <2>2 DEF CacheInv, CacheExact
  <2> QED BY <2>5, <2>6 DEF CacheInv
<1>10. ASSUME NEW p \in Builders, Fails(p) \/ Execute(p) \/ Kill(p) PROVE CacheInv'
  BY <1>3, <1>10 DEF Fails, Execute, Kill, files
<1>11. ASSUME NEW p \in Builders, Rename(p) PROVE CacheInv'
  <2>1. key[p] \in Keys /\ pc[p] = "rename"
    BY <1>11 DEF Rename, TypeOK
  <2>2. /\ \A k \in Keys : bins'[k] # None =>
              bins'[k] = bins[k] \/ (k = key[p] /\ bins'[k] = temps[p] /\ temps[p] # None)
        /\ \A q \in Builders : q # p => temps'[q] = temps[q] /\ key'[q] = key[q]
    BY <1>11, <2>1 DEF Rename, TypeOK, binPath, Exit
  <2>3. PICK where \in {"built", "idle"} : Goto(p, where)
    BY <1>11 DEF Rename, Exit
  <2>4. \A q \in Builders : pc'[q] = IF q = p THEN where ELSE pc[q]
    BY <2>3 DEF Goto, TypeOK
  <2>5. CacheExact'
    BY <2>1, <2>2 DEF CacheInv, CacheExact, TempsOfKey
  <2>6. TempsOfKey'
    BY <2>2, <2>4 DEF CacheInv, TempsOfKey
  <2> QED BY <2>5, <2>6 DEF CacheInv
<1> QED
  BY <1>1, <1>4, <1>5, <1>6, <1>7, <1>8, <1>9, <1>10, <1>11 DEF Next, Step

(* A cached binary is complete and is the program of its name, however       *)
(* builds interleave, whoever is killed and whenever the cache is cleared:   *)
(* the temporary name and the rename make a cache hit safe.                  *)
THEOREM CacheSound == Spec => []CacheExact
<1>1. Init => CacheInv
  BY DEF Init, CacheInv, CacheExact, TempsOfKey
<1>2. CacheInv => CacheExact
  BY DEF CacheInv
<1> QED BY <1>1, <1>2, CacheStep, CacheTypeCorrect, PTL DEF Spec

-----------------------------------------------------------------------------
LEMMA BuiltStep ==
    ASSUME TypeOK, BuiltMeansThere, [Next]_vars
    PROVE  BuiltMeansThere'
<1>1. CASE Edit \/ UNCHANGED vars
  BY <1>1 DEF Edit, vars, files, local, history, BuiltMeansThere
<1>2. ASSUME NEW p \in Builders, NEW where \in {"clean", "mkdir", "lookup", "compile",
                                                "compiling", "linking", "rename"},
             Goto(p, where), UNCHANGED <<bins, wiped>>,
             \A q \in Builders : q # p => key'[q] = key[q]
      PROVE  BuiltMeansThere'
  <2>1. \A q \in Builders : pc'[q] = IF q = p THEN where ELSE pc[q]
    BY <1>2 DEF Goto, TypeOK
  <2> QED BY <1>2, <2>1 DEF BuiltMeansThere
<1>3. ASSUME NEW p \in Builders, Exit(p), UNCHANGED bins PROVE BuiltMeansThere'
  <2>1. \A q \in Builders : pc'[q] = IF q = p THEN "idle" ELSE pc[q]
    BY <1>3 DEF Exit, Goto, TypeOK
  <2>2. wiped' = wiped \ {p} /\ \A q \in Builders : q # p => key'[q] = key[q]
    BY <1>3 DEF Exit, TypeOK
  <2> QED BY <1>3, <2>1, <2>2 DEF BuiltMeansThere
<1>4. ASSUME NEW p \in Builders, Start(p) PROVE BuiltMeansThere'
  <2>1. \A q \in Builders : q # p => key'[q] = key[q]
    BY <1>4 DEF Start, TypeOK
  <2>2. PICK where \in {"clean", "mkdir"} : Goto(p, where)
    BY <1>4 DEF Start
  <2> QED BY <1>2, <1>4, <2>1, <2>2 DEF Start, files
<1>5. ASSUME NEW p \in Builders, Clean(p) PROVE BuiltMeansThere'
  <2>1. \A q \in Builders : pc'[q] = IF q = p THEN "mkdir" ELSE pc[q]
    BY <1>5 DEF Clean, Goto, TypeOK
  <2> QED BY <1>5, <2>1 DEF Clean, BuiltMeansThere
<1>6. ASSUME NEW p \in Builders,
             MakeDir(p) \/ CompileReads(p) \/ CompileWrites(p) \/ LinkStarts(p) \/ LinkEnds(p)
      PROVE  BuiltMeansThere'
  <2>1. PICK where \in {"lookup", "compile", "compiling", "linking", "rename"} : Goto(p, where)
    BY <1>6 DEF MakeDir, CompileReads, CompileWrites, LinkStarts, LinkEnds
  <2>2. UNCHANGED <<bins, wiped, key>>
    BY <1>6 DEF MakeDir, CompileReads, CompileWrites, LinkStarts, LinkEnds, files, history
  <2> QED BY <1>2, <2>1, <2>2
<1>7. ASSUME NEW p \in Builders, Lookup(p) PROVE BuiltMeansThere'
  <2>1. CASE bins[binPath(p)] # None
    <3>1. \A q \in Builders : pc'[q] = IF q = p THEN "built" ELSE pc[q]
      BY <1>7, <2>1 DEF Lookup, Goto, TypeOK
    <3> QED BY <1>7, <2>1, <3>1 DEF Lookup, files, binPath, BuiltMeansThere
  <2>2. CASE bins[binPath(p)] = None
    <3>1. Goto(p, "compile")
      BY <1>7, <2>2 DEF Lookup
    <3> QED BY <1>2, <1>7, <3>1 DEF Lookup, files
  <2> QED BY <2>1, <2>2
<1>8. ASSUME NEW p \in Builders, Fails(p) \/ Execute(p) \/ Kill(p) PROVE BuiltMeansThere'
  BY <1>3, <1>8 DEF Fails, Execute, Kill, files
<1>9. ASSUME NEW p \in Builders, Rename(p) PROVE BuiltMeansThere'
  <2>1. key[p] \in Keys /\ pc[p] = "rename" /\ \A q \in Builders : pc[q] # "idle" => key[q] \in Keys
    BY <1>9 DEF Rename, TypeOK
  <2>2. \A k \in Keys : bins[k] # None => bins'[k] # None
    BY <1>9, <2>1 DEF Rename, TypeOK, binPath
  <2>3. CASE bins'[binPath(p)] # None
    <3>1. \A q \in Builders : pc'[q] = IF q = p THEN "built" ELSE pc[q]
      BY <1>9, <2>3 DEF Rename, Goto, TypeOK
    <3>2. UNCHANGED <<key, wiped>>
      BY <1>9, <2>3 DEF Rename
    <3> QED BY <2>1, <2>2, <2>3, <3>1, <3>2 DEF binPath, BuiltMeansThere
  <2>4. CASE bins'[binPath(p)] = None
    <3>1. Exit(p)
      BY <1>9, <2>4 DEF Rename
    <3>2. \A q \in Builders : pc'[q] = IF q = p THEN "idle" ELSE pc[q]
      BY <3>1 DEF Exit, Goto, TypeOK
    <3>3. wiped' = wiped \ {p} /\ \A q \in Builders : q # p => key'[q] = key[q]
      BY <3>1 DEF Exit, TypeOK
    <3> QED BY <2>1, <2>2, <3>2, <3>3 DEF BuiltMeansThere
  <2> QED BY <2>3, <2>4
<1> QED
  BY <1>1, <1>4, <1>5, <1>6, <1>7, <1>8, <1>9 DEF Next, Step

(* A build that succeeded, by a hit, by its rename or by somebody else's,    *)
(* has a binary to run until the cache is cleared.                           *)
THEOREM BuiltSound == Spec => []BuiltMeansThere
<1>1. Init => BuiltMeansThere
  BY DEF Init, BuiltMeansThere
<1> QED BY <1>1, BuiltStep, CacheTypeCorrect, PTL DEF Spec

-----------------------------------------------------------------------------
Fresh(o, c, p) == o # None /\ o.source = c /\ o.version >= since[p][c]

(* No source goes back behind what a process saw at its start. *)
SinceOld == \A p \in Builders, c \in CSources : since[p][c] <= text[c]

ReadingFresh ==
    \A p \in Builders : pc[p] = "compiling" => Fresh(reading[p], reading[p].source, p)

(* Whoever compiles alone is in or past the compilation, and alone in it. *)
LoneAlone ==
    /\ \A p \in lone : pc[p] \in {"compile", "compiling", "linking", "rename", "built"}
    /\ \A p \in lone, q \in Builders : CompilingC(p) /\ CompilingC(q) => p = q

(* Then the objects it has written are still there. *)
ObjectsFresh ==
    \A p \in lone : CompilingC(p) =>
        \A c \in CSources \ left[p] : OwnStem(c) => Fresh(objects[stem[c]], c, p)

FreshInv == SinceOld /\ ReadingFresh /\ LoneAlone /\ ObjectsFresh /\ LinksFreshObjects

(* What a process does outside the compilation, the linking and Exit. *)
LEMMA FreshElsewhere ==
    ASSUME TypeOK, FreshInv, NEW p \in Builders,
           NEW where \in {"idle", "clean", "mkdir", "lookup", "built"}, Goto(p, where),
           UNCHANGED <<text, objects>>,
           \A q \in Builders : q # p => /\ left'[q] = left[q] /\ reading'[q] = reading[q]
                                        /\ since'[q] = since[q]
                                        /\ temps'[q] # None => temps'[q] = temps[q],
           \A c \in CSources : since'[p][c] <= text[c],
           lone' = lone \ {p} \/ (lone' = lone /\ (where = "built" \/ p \notin lone))
    PROVE  FreshInv'
<1>1. \A q \in Builders : pc'[q] = IF q = p THEN where ELSE pc[q]
  BY DEF Goto, TypeOK
<1>2. \A q \in Builders : CompilingC(q)' => q # p /\ CompilingC(q)
  BY <1>1 DEF CompilingC
<1>3. lone' \subseteq lone /\ lone \subseteq Builders
  BY DEF TypeOK
<1>5. SinceOld'
  BY DEF FreshInv, SinceOld
<1>6. ReadingFresh'
  BY <1>1 DEF FreshInv, ReadingFresh, Fresh
<1>7. LoneAlone'
  BY <1>1, <1>2, <1>3 DEF FreshInv, LoneAlone
<1>8. ObjectsFresh'
  <2>1. SUFFICES ASSUME NEW q \in lone', CompilingC(q)', NEW c \in CSources \ left'[q],
                        OwnStem(c)
                 PROVE  Fresh(objects[stem[c]], c, q)'
    BY DEF ObjectsFresh, OwnStem
  <2>2. q \in lone /\ q \in Builders /\ CompilingC(q) /\ q # p /\ left'[q] = left[q]
    BY <1>2, <1>3, <2>1
  <2>3. Fresh(objects[stem[c]], c, q)
    BY <2>1, <2>2 DEF FreshInv, ObjectsFresh
  <2> QED BY <2>2, <2>3 DEF Fresh
<1>9. LinksFreshObjects'
  BY <1>1, <1>3 DEF FreshInv, LinksFreshObjects, OwnStem
<1> QED BY <1>5, <1>6, <1>7, <1>8, <1>9 DEF FreshInv
LEMMA FreshStep ==
    ASSUME TypeOK, FreshInv, [Next]_vars
    PROVE  FreshInv'
<1> USE CacheAssumption
<1>1. CASE UNCHANGED vars
  BY <1>1 DEF vars, sources, files, local, history, FreshInv, SinceOld, ReadingFresh, LoneAlone,
              ObjectsFresh, LinksFreshObjects, Fresh, CompilingC, OwnStem
<1>2. CASE Edit
  <2>1. \A c \in CSources : text'[c] >= text[c] /\ text[c] \in Nat /\ text'[c] \in Nat
    BY <1>2 DEF Edit, TypeOK, Versions
  <2>2. \A p \in Builders, c \in CSources : since[p][c] \in Nat
    BY DEF TypeOK, Versions
  <2>3. UNCHANGED <<files, local, history>>
    BY <1>2 DEF Edit
  <2>4. SinceOld'
    BY <2>1, <2>2, <2>3 DEF FreshInv, SinceOld, history
  <2>5. ReadingFresh' /\ LoneAlone' /\ ObjectsFresh' /\ LinksFreshObjects'
    BY <2>3 DEF files, local, history, FreshInv, ReadingFresh, LoneAlone, ObjectsFresh,
                LinksFreshObjects, Fresh, CompilingC, OwnStem
  <2> QED BY <2>4, <2>5 DEF FreshInv
<1>3. ASSUME NEW p \in Builders, Exit(p), UNCHANGED <<sources, objects>>,
             \A q \in Builders : q # p => temps'[q] = temps[q]
      PROVE  FreshInv'
  <2>1. \A c \in CSources : since'[p][c] <= text[c]
    <3>1. \A c \in CSources : since'[p][c] = 0 /\ text[c] \in Nat
      BY <1>3 DEF Exit, Unedited, TypeOK, Versions
    <3> QED BY <3>1
  <2>2. /\ Goto(p, "idle") /\ lone' = lone \ {p}
        /\ \A q \in Builders : q # p => /\ left'[q] = left[q] /\ reading'[q] = reading[q]
                                        /\ since'[q] = since[q]
    BY <1>3 DEF Exit, TypeOK
  <2> QED BY <1>3, <2>1, <2>2, FreshElsewhere DEF sources
<1>4. ASSUME NEW p \in Builders, Start(p) PROVE FreshInv'
  <2>1. PICK where \in {"clean", "mkdir"} : Goto(p, where)
    BY <1>4 DEF Start
  <2>2. \A c \in CSources : since'[p][c] <= text[c]
    <3>1. \A c \in CSources : since'[p][c] = text[c] /\ text[c] \in Nat
      BY <1>4 DEF Start, TypeOK, Versions
    <3> QED BY <3>1
  <2>3. p \notin lone
    BY <1>4 DEF Start, FreshInv, LoneAlone
  <2>4. \A q \in Builders : q # p => since'[q] = since[q]
    BY <1>4 DEF Start, TypeOK
  <2> QED BY <1>4, <2>1, <2>2, <2>3, <2>4, FreshElsewhere DEF Start, sources, files
<1>5. ASSUME NEW p \in Builders, Clean(p) PROVE FreshInv'
  <2>1. p \notin lone /\ Goto(p, "mkdir") /\ \A q \in Builders : temps'[q] = None
    BY <1>5 DEF Clean, FreshInv, LoneAlone
  <2>2. \A c \in CSources : since'[p][c] <= text[c]
    BY <1>5 DEF Clean, FreshInv, SinceOld
  <2> QED BY <1>5, <2>1, <2>2, FreshElsewhere DEF Clean, sources
<1>6. ASSUME NEW p \in Builders, MakeDir(p) PROVE FreshInv'
  <2>1. p \notin lone /\ Goto(p, "lookup")
    BY <1>6 DEF MakeDir, FreshInv, LoneAlone
  <2>2. \A c \in CSources : since'[p][c] <= text[c]
    BY <1>6 DEF MakeDir, history, FreshInv, SinceOld
  <2> QED BY <1>6, <2>1, <2>2, FreshElsewhere DEF MakeDir, sources, history
<1>7. ASSUME NEW p \in Builders, Lookup(p) PROVE FreshInv'
  <2>1. CASE bins[binPath(p)] # None
    <3>1. Goto(p, "built") /\ UNCHANGED <<left, lone>>
      BY <1>7, <2>1 DEF Lookup
    <3>2. \A c \in CSources : since'[p][c] <= text[c]
      BY <1>7 DEF Lookup, FreshInv, SinceOld
    <3> QED BY <1>7, <3>1, <3>2, FreshElsewhere DEF Lookup, sources, files
  <2>2. CASE bins[binPath(p)] = None
    <3>1. /\ left' = [left EXCEPT ![p] = CSources]
          /\ lone' = {q \in lone : ~CompilingC(q)}
                       \cup {q \in {p} : \A r \in Builders : ~CompilingC(r)}
          /\ UNCHANGED <<text, objects, temps, reading, since>>
          /\ pc[p] = "lookup"
      BY <1>7, <2>2 DEF Lookup, sources, files
    <3>2. \A q \in Builders : pc'[q] = IF q = p THEN "compile" ELSE pc[q]
      BY <1>7, <2>2 DEF Lookup, Goto, TypeOK
    <3>3. left'[p] = CSources /\ lone \subseteq Builders
      BY <3>1 DEF TypeOK
    <3>4. \A q \in lone' : CompilingC(q)' => q = p /\ \A r \in Builders : ~CompilingC(r)
      <4>1. p \notin lone
        BY <3>1 DEF FreshInv, LoneAlone
      <4> QED BY <3>1, <3>2, <3>3, <4>1 DEF CompilingC
    <3>5. SinceOld' /\ ReadingFresh'
      BY <3>1, <3>2 DEF FreshInv, SinceOld, ReadingFresh, Fresh
    <3>6. LoneAlone'
      <4>1. \A q \in lone' : q \in lone \/ q = p
        BY <3>1
      <4>2. \A q \in lone' : pc'[q] \in {"compile", "compiling", "linking", "rename", "built"}
        BY <3>2, <3>3, <4>1 DEF FreshInv, LoneAlone
      <4>3. ASSUME NEW q \in lone', NEW r \in Builders, CompilingC(q)', CompilingC(r)'
            PROVE  q = r
        BY <3>2, <3>4, <4>3 DEF CompilingC
      <4> QED BY <4>2, <4>3 DEF LoneAlone
    <3>7. ObjectsFresh'
      BY <3>3, <3>4 DEF ObjectsFresh
    <3>8. LinksFreshObjects'
      BY <3>1, <3>2, <3>3 DEF FreshInv, LinksFreshObjects, OwnStem
    <3> QED BY <3>5, <3>6, <3>7, <3>8 DEF FreshInv
  <2> QED BY <2>1, <2>2
<1>8. ASSUME NEW p \in Builders, CompileReads(p) PROVE FreshInv'
  <2>1. PICK c \in CSources :
            reading' = [reading EXCEPT ![p] = [source |-> c, version |-> text[c]]]
    BY <1>8 DEF CompileReads, TypeOK
  <2>2. [source |-> c, version |-> text[c]] \in Objects
    BY DEF TypeOK, Objects
  <2>3. /\ UNCHANGED <<text, objects, temps, since, left, lone>>
        /\ pc[p] = "compile"
        /\ \A q \in Builders : pc'[q] = IF q = p THEN "compiling" ELSE pc[q]
    BY <1>8 DEF CompileReads, sources, files, history, Goto, TypeOK
  <2>4. reading'[p] # None /\ reading'[p].source = c /\ reading'[p].version = text[c]
    BY <2>1, <2>2 DEF TypeOK
  <2>5. \A q \in Builders : q # p => reading'[q] = reading[q]
    BY <2>1 DEF TypeOK
  <2>6. text[c] >= since[p][c]
    <3>1. text[c] \in Nat /\ since[p][c] \in Nat /\ since[p][c] <= text[c]
      BY DEF TypeOK, Versions, FreshInv, SinceOld
    <3> QED BY <3>1
  <2>7. Fresh(reading[p], reading[p].source, p)'
    BY <2>3, <2>4, <2>6 DEF Fresh
  <2>8. ReadingFresh'
    BY <2>3, <2>5, <2>7 DEF FreshInv, ReadingFresh, Fresh
  <2>9. \A q \in Builders : CompilingC(q)' <=> CompilingC(q)
    BY <2>3 DEF CompilingC
  <2>10. SinceOld' /\ LoneAlone' /\ ObjectsFresh' /\ LinksFreshObjects'
    <3>1. lone \subseteq Builders
      BY DEF TypeOK
    <3>2. SinceOld' /\ LoneAlone'
      BY <2>3, <2>9, <3>1 DEF FreshInv, SinceOld, LoneAlone
    <3>3. ObjectsFresh'
      BY <2>3, <2>9, <3>1 DEF FreshInv, ObjectsFresh, Fresh, OwnStem
    <3>4. LinksFreshObjects'
      BY <2>3, <3>1 DEF FreshInv, LinksFreshObjects, OwnStem
    <3> QED BY <3>2, <3>3, <3>4
  <2> QED BY <2>8, <2>10 DEF FreshInv
<1>9. ASSUME NEW p \in Builders, CompileWrites(p) PROVE FreshInv'
  <2>1. PICK c \in CSources : c = reading[p].source
    BY <1>9 DEF CompileWrites, TypeOK, Objects
  <2>2. /\ UNCHANGED <<text, temps, since, lone, reading>>
        /\ pc[p] = "compiling"
        /\ \A q \in Builders : pc'[q] = IF q = p THEN "compile" ELSE pc[q]
    BY <1>9 DEF CompileWrites, sources, history, Goto, TypeOK
  <2>3. /\ objects' = [objects EXCEPT ![stem[c]] = reading[p]]
        /\ left' = [left EXCEPT ![p] = @ \ {c}]
    BY <1>9, <2>1 DEF CompileWrites
  <2>4. left'[p] = left[p] \ {c}
    BY <2>3 DEF TypeOK
  <2>5. \A s \in Stems : objects'[s] = IF s = stem[c] THEN reading[p] ELSE objects[s]
    BY <2>3 DEF TypeOK
  <2>6. Fresh(reading[p], c, p)
    BY <2>1, <2>2 DEF FreshInv, ReadingFresh
  <2>7. \A q \in Builders : CompilingC(q)' <=> CompilingC(q)
    BY <2>2 DEF CompilingC
  <2>8. lone \subseteq Builders
    BY DEF TypeOK
  <2>9. SinceOld' /\ ReadingFresh' /\ LoneAlone'
    BY <2>2, <2>7, <2>8 DEF FreshInv, SinceOld, ReadingFresh, LoneAlone, Fresh
  <2>10. ObjectsFresh'
    <3>1. SUFFICES ASSUME NEW q \in lone', CompilingC(q)', NEW d \in CSources \ left'[q],
                          OwnStem(d)
                   PROVE  Fresh(objects[stem[d]], d, q)'
      BY DEF ObjectsFresh, OwnStem
    <3>2. q = p
      <4>1. CompilingC(p) /\ q \in lone /\ CompilingC(q)
        BY <2>2, <2>7, <2>8, <3>1 DEF CompilingC
      <4> QED BY <4>1 DEF FreshInv, LoneAlone
    <3>3. stem[d] \in Stems
      OBVIOUS
    <3>4. CASE d = c
      BY <2>2, <2>5, <2>6, <3>2, <3>3, <3>4 DEF Fresh
    <3>5. CASE d # c
      <4>1. stem[d] # stem[c] /\ d \in CSources \ left[q]
        BY <2>4, <3>1, <3>2, <3>5 DEF OwnStem
      <4>2. objects'[stem[d]] = objects[stem[d]]
        BY <2>5, <3>3, <4>1
      <4>3. Fresh(objects[stem[d]], d, q)
        BY <2>2, <2>7, <2>8, <3>1, <4>1 DEF FreshInv, ObjectsFresh
      <4> QED BY <2>2, <4>2, <4>3 DEF Fresh
    <3> QED BY <3>4, <3>5
  <2>11. LinksFreshObjects'
    BY <2>2, <2>8 DEF FreshInv, LinksFreshObjects, OwnStem
  <2> QED BY <2>9, <2>10, <2>11 DEF FreshInv
<1>10. ASSUME NEW p \in Builders, LinkStarts(p) PROVE FreshInv'
  <2>1. /\ UNCHANGED <<text, objects, since, lone, reading, left>>
        /\ pc[p] = "compile" /\ left[p] = {}
        /\ \A q \in Builders : pc'[q] = IF q = p THEN "linking" ELSE pc[q]
        /\ \A q \in Builders : q # p => temps'[q] = temps[q]
        /\ temps'[p].objects = [c \in CSources |-> objects[stem[c]]]
    BY <1>10 DEF LinkStarts, sources, history, Goto, TypeOK
  <2>2. lone \subseteq Builders
    BY DEF TypeOK
  <2>3. SinceOld' /\ ReadingFresh' /\ LoneAlone'
    BY <2>1, <2>2 DEF FreshInv, SinceOld, ReadingFresh, LoneAlone, Fresh, CompilingC
  <2>4. ObjectsFresh'
    <3>1. \A q \in Builders : CompilingC(q)' => CompilingC(q)
      BY <2>1 DEF CompilingC
    <3> QED BY <2>1, <2>2, <3>1 DEF FreshInv, ObjectsFresh, Fresh, OwnStem
  <2>5. LinksFreshObjects'
    <3>1. SUFFICES ASSUME NEW q \in Builders, pc'[q] \in {"linking", "rename"}, q \in lone',
                          temps'[q] # None, NEW c \in CSources, OwnStem(c)
                   PROVE  /\ temps'[q].objects[c] # None
                          /\ temps'[q].objects[c].source = c
                          /\ temps'[q].objects[c].version >= since'[q][c]
      BY DEF LinksFreshObjects, OwnStem
    <3>2. CASE q = p
      <4>1. Fresh(objects[stem[c]], c, p)
        BY <2>1, <3>1, <3>2 DEF FreshInv, ObjectsFresh, CompilingC
      <4>2. temps'[q].objects[c] = objects[stem[c]]
        BY <2>1, <3>2
      <4> QED BY <2>1, <3>2, <4>1, <4>2 DEF Fresh
    <3>3. CASE q # p
      BY <2>1, <3>1, <3>3 DEF FreshInv, LinksFreshObjects
    <3> QED BY <3>2, <3>3
  <2> QED BY <2>3, <2>4, <2>5 DEF FreshInv
<1>11. ASSUME NEW p \in Builders, LinkEnds(p) PROVE FreshInv'
  <2>1. /\ UNCHANGED <<text, objects, since, lone, reading, left>>
        /\ pc[p] = "linking"
        /\ \A q \in Builders : pc'[q] = IF q = p THEN "rename" ELSE pc[q]
        /\ \A q \in Builders : q # p => temps'[q] = temps[q]
        /\ temps'[p] = IF temps[p] = None THEN None ELSE [temps[p] EXCEPT !.extent = "all"]
    BY <1>11 DEF LinkEnds, sources, history, Goto, TypeOK
  <2>2. lone \subseteq Builders
    BY DEF TypeOK
  <2>3. SinceOld' /\ ReadingFresh' /\ LoneAlone'
    BY <2>1, <2>2 DEF FreshInv, SinceOld, ReadingFresh, LoneAlone, Fresh, CompilingC
  <2>4. ObjectsFresh'
    <3>1. \A q \in Builders : CompilingC(q)' => CompilingC(q)
      BY <2>1 DEF CompilingC
    <3> QED BY <2>1, <2>2, <3>1 DEF FreshInv, ObjectsFresh, Fresh, OwnStem
  <2>5. temps'[p] # None => temps[p] # None /\ temps'[p].objects = temps[p].objects
    <3>1. SUFFICES ASSUME temps[p] # None PROVE temps'[p].objects = temps[p].objects
      BY <2>1
    <3>2. temps[p] \in Binaries
      BY <3>1 DEF TypeOK
    <3> QED BY <2>1, <3>1, <3>2 DEF Binaries
  <2>6. \A q \in Builders :
            /\ pc'[q] \in {"linking", "rename"} => pc[q] \in {"linking", "rename"}
            /\ temps'[q] # None => temps[q] # None /\ temps'[q].objects = temps[q].objects
    BY <2>1, <2>5
  <2>7. LinksFreshObjects'
    <3>1. SUFFICES ASSUME NEW q \in Builders, pc'[q] \in {"linking", "rename"}, q \in lone',
                          temps'[q] # None, NEW c \in CSources, OwnStem(c)
                   PROVE  /\ temps'[q].objects[c] # None
                          /\ temps'[q].objects[c].source = c
                          /\ temps'[q].objects[c].version >= since'[q][c]
      BY DEF LinksFreshObjects, OwnStem
    <3>2. lone' = lone /\ since' = since
      BY <2>1
    <3> QED BY <2>6, <3>1, <3>2 DEF FreshInv, LinksFreshObjects
  <2> QED BY <2>3, <2>4, <2>7 DEF FreshInv
<1>12. ASSUME NEW p \in Builders, Fails(p) \/ Execute(p) \/ Kill(p) PROVE FreshInv'
  BY <1>3, <1>12 DEF Fails, Execute, Kill, files
<1>13. ASSUME NEW p \in Builders, Rename(p) PROVE FreshInv'
  <2>1. UNCHANGED <<sources, objects>> /\ \A q \in Builders : q # p => temps'[q] = temps[q]
    BY <1>13 DEF Rename, TypeOK
  <2>2. CASE Exit(p)
    BY <1>3, <2>1, <2>2
  <2>3. CASE Goto(p, "built") /\ UNCHANGED <<key, left, reading, since, lone, wiped>>
    <3>1. \A c \in CSources : since'[p][c] <= text[c]
      BY <2>3 DEF FreshInv, SinceOld
    <3> QED BY <2>1, <2>3, <3>1, FreshElsewhere DEF sources
  <2> QED BY <1>13, <2>2, <2>3 DEF Rename
<1> QED
  BY <1>1, <1>2, <1>4, <1>5, <1>6, <1>7, <1>8, <1>9, <1>10, <1>11, <1>12, <1>13 DEF Next, Step

(* A build that was alone in compiling C links objects of the C sources as   *)
(* they were when it started or later, whatever was edited and whatever      *)
(* earlier builds, killed or not, had left in the build directory.           *)
THEOREM LinksSound == Spec => []LinksFreshObjects
<1>1. Init => FreshInv
  <2>1. SUFFICES ASSUME Init PROVE FreshInv
    OBVIOUS
  <2>2. SinceOld
    <3>1. \A p \in Builders, c \in CSources : since[p][c] = 0 /\ text[c] = 0
      BY <2>1 DEF Init, Unedited
    <3> QED BY <3>1 DEF SinceOld
  <2>3. /\ lone = {} /\ \A p \in Builders : pc[p] = "idle"
    BY <2>1 DEF Init
  <2>4. ReadingFresh
    BY <2>3 DEF ReadingFresh
  <2>5. LoneAlone /\ ObjectsFresh /\ LinksFreshObjects
    BY <2>3 DEF LoneAlone, ObjectsFresh, LinksFreshObjects
  <2> QED BY <2>2, <2>4, <2>5 DEF FreshInv
<1>2. FreshInv => LinksFreshObjects
  BY DEF FreshInv
<1> QED BY <1>1, <1>2, FreshStep, CacheTypeCorrect, PTL DEF Spec
=============================================================================
