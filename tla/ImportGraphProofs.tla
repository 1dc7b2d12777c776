------------------------- MODULE ImportGraphProofs -------------------------
(* Proofs about ImportGraph, for any project. *)
EXTENDS ImportGraph, TLAPS

LEMMA TailFacts ==
    ASSUME NEW S, NEW s \in Seq(S), s # << >>
    PROVE  /\ Len(s) \in Nat \ {0} /\ Head(s) = s[1] /\ Head(s) \in S
           /\ Tail(s) \in Seq(S) /\ Len(Tail(s)) = Len(s) - 1
           /\ \A i \in 1 .. Len(Tail(s)) : i + 1 \in 1 .. Len(s) /\ Tail(s)[i] = s[i + 1]
OBVIOUS

LEMMA AppendFacts ==
    ASSUME NEW S, NEW s \in Seq(S), NEW x \in S
    PROVE  /\ Append(s, x) \in Seq(S) /\ Len(s) \in Nat /\ Len(Append(s, x)) = Len(s) + 1
           /\ Append(s, x)[Len(s) + 1] = x
           /\ \A i \in 1 .. Len(s) : Append(s, x)[i] = s[i]
OBVIOUS

(* What a step of FollowUse on a path of todo queues is a unit. *)
LEMMA ChildUnit ==
    ASSUME TypeOK, NEW path \in Paths, resolveUseToFile[path] # NoFile
    PROVE  Child(path) \in Units
<1>1. resolveUseToFile[path] \in Files
  BY ImportAssumption
<1>2. Append(unit.importChain, path) \in Seq(Paths)
  BY DEF TypeOK, Units
<1> QED BY <1>1, <1>2 DEF Child, Units

(* The walk follows paths. *)
LEMMA CandidatePaths ==
    ASSUME TypeOK, NEW f \in Files
    PROVE  extractUseModulePaths(f) \in SUBSET Paths
<1>1. \A d \in UseDecls : Candidates(d) \subseteq Paths
  BY ImportAssumption DEF Candidates, UseBindings
<1>2. uses[f] \subseteq UseDecls
  BY DEF TypeOK
<1> QED BY <1>1, <1>2 DEF extractUseModulePaths

LEMMA PathsStay ==
    ASSUME UNCHANGED uses
    PROVE  \A f : extractUseModulePaths(f)' = extractUseModulePaths(f)
BY DEF extractUseModulePaths

LEMMA TypeInit == Init => TypeOK
<1>1. EntryUnit \in Units
  <2>1. <<EntryPath>> \in Seq(Paths)
    BY ImportAssumption
  <2> QED BY <2>1, ImportAssumption DEF EntryUnit, Units
<1>2. Init => queue \in Seq(Units) /\ units \in Seq(Units)
  BY <1>1 DEF Init
<1> QED BY <1>1, <1>2, ImportAssumption DEF Init, TypeOK

LEMMA TypeStep ==
    ASSUME TypeOK, [Next]_vars
    PROVE  TypeOK'
<1>1. CASE ParseNext
  <2>1. /\ queue' = Tail(queue) /\ queue # << >>
        /\ UNCHANGED <<program, visited, anyCircularImport, outcome>>
    BY <1>1 DEF ParseNext
  <2>2. queue' \in Seq(Units) /\ Head(queue) \in Units
    BY <2>1, TailFacts DEF TypeOK
  <2>3. CASE Head(queue).file \in broken
    <3>1. UNCHANGED <<unit, todo, units>>
      BY <1>1, <2>3 DEF ParseNext
    <3> QED BY <2>1, <2>2, <3>1 DEF TypeOK, program
  <2>4. CASE Head(queue).file \notin broken
    <3>1. /\ unit' = Head(queue) /\ todo' = extractUseModulePaths(Head(queue).file)
          /\ units' = Append(units, Head(queue))
      BY <1>1, <2>4 DEF ParseNext
    <3>2. units' \in Seq(Units)
      BY <2>2, <3>1, AppendFacts DEF TypeOK
    <3>3. todo' \in SUBSET Paths
      BY <2>2, <3>1, CandidatePaths DEF Units
    <3> QED BY <2>1, <2>2, <3>1, <3>2, <3>3 DEF TypeOK, program
  <2> QED BY <2>3, <2>4
<1>2. CASE Follow
  <2>1. PICK path \in todo : FollowUse(path) /\ todo' = todo \ {path}
    BY <1>2 DEF Follow
  <2>2. UNCHANGED <<program, unit, units, outcome>>
    BY <1>2 DEF Follow
  <2>3. path \in Paths
    BY DEF TypeOK
  <2>4. queue' \in Seq(Units) /\ visited' \in SUBSET Files /\ anyCircularImport' \in BOOLEAN
    <3>1. CASE UNCHANGED <<queue, visited, anyCircularImport>>
      BY <3>1 DEF TypeOK
    <3>2. CASE anyCircularImport' = TRUE /\ UNCHANGED <<queue, visited>>
      BY <3>2 DEF TypeOK
    <3>3. CASE /\ resolveUseToFile[path] # NoFile
               /\ visited' = visited \cup {resolveUseToFile[path]}
               /\ queue' = Append(queue, Child(path)) /\ UNCHANGED anyCircularImport
      <4>1. Child(path) \in Units /\ resolveUseToFile[path] \in Files
        BY <2>3, <3>3, ChildUnit, ImportAssumption
      <4>2. queue' \in Seq(Units)
        BY <3>3, <4>1, AppendFacts DEF TypeOK
      <4> QED BY <3>3, <4>1, <4>2 DEF TypeOK
    <3> QED BY <2>1, <3>1, <3>2, <3>3 DEF FollowUse
  <2> QED BY <2>1, <2>2, <2>4 DEF TypeOK, program
<1>3. CASE Finish
  <2>1. outcome' \in {"circular", "empty", "duplicate", "ok"}
    BY <1>3 DEF Finish
  <2> QED BY <1>3, <2>1 DEF Finish, TypeOK, program
<1>4. CASE UNCHANGED vars
  BY <1>4 DEF vars, program, TypeOK
<1> QED BY <1>1, <1>2, <1>3, <1>4 DEF Next, Walk, Finished

(* The types of the walk's state hold throughout; what is queued is a file. *)
THEOREM ImportTypeCorrect == Spec => []TypeOK
BY TypeInit, TypeStep, PTL DEF Spec
-----------------------------------------------------------------------------
(* The files queued, and the files found, are all different; together they   *)
(* are the visited files, up to the broken ones that have been dropped.      *)
FilesOnce ==
    /\ \A i, j \in 1 .. Len(queue) : queue[i].file = queue[j].file => i = j
    /\ \A i, j \in 1 .. Len(units) : units[i].file = units[j].file => i = j
    /\ \A i \in 1 .. Len(queue), j \in 1 .. Len(units) : queue[i].file # units[j].file

FilesVisited ==
    /\ \A i \in 1 .. Len(queue) : queue[i].file \in visited
    /\ \A i \in 1 .. Len(units) : units[i].file \in visited \ broken
    /\ \A f \in visited \ broken : \/ \E i \in 1 .. Len(queue) : queue[i].file = f
                                  \/ \E i \in 1 .. Len(units) : units[i].file = f

(* While declarations are being followed they are those of a file found. *)
TodoOfUnit ==
    todo # {} => /\ todo \subseteq extractUseModulePaths(unit.file)
                 /\ \E i \in 1 .. Len(units) : units[i].file = unit.file

(* Whatever a file found imports has been visited or is still to be followed. *)
UsesFollowed ==
    \A i \in 1 .. Len(units) : \A path \in extractUseModulePaths(units[i].file) :
        \/ resolveUseToFile[path] \in visited \cup {NoFile}
        \/ units[i].file = unit.file /\ path \in todo

(* The walk does not leave what the entry reaches. *)
Inside ==
    \A S \in SUBSET Files : Entry \in S /\ Closed(S) => visited \subseteq S

(* A unit is found under a path of its own file; its chain begins with the   *)
(* entry and leads, through visited files, to its file.                      *)
Chained ==
    {u \in Units :
        /\ u.file = resolveUseToFile[u.modulePath]
        /\ \E k \in 1 .. Len(u.importChain) : u.importChain[k] = EntryPath
        /\ \A k \in 1 .. Len(u.importChain) :
              /\ resolveUseToFile[u.importChain[k]] \in visited
              /\ u.file \in ReachableFrom({resolveUseToFile[u.importChain[k]]})}

Chains ==
    /\ unit \in Chained
    /\ \A i \in 1 .. Len(queue) : queue[i] \in Chained
    /\ \A i \in 1 .. Len(units) : units[i] \in Chained

Ended == outcome # "running" => queue = << >> /\ todo = {}

WalkInv ==
    /\ Entry \in visited /\ FilesOnce /\ FilesVisited
    /\ TodoOfUnit /\ UsesFollowed /\ Inside /\ Chains /\ Ended

(* Visiting more files takes nothing from a chain. *)
LEMMA ChainsStay ==
    ASSUME UNCHANGED <<uses, broken>>, visited \subseteq visited'
    PROVE  Chained \subseteq Chained'
<1>1. \A R : ReachableFrom(R)' = ReachableFrom(R)
  BY DEF ReachableFrom, Closed, Imports, extractUseModulePaths
<1> QED BY <1>1 DEF Chained

LEMMA WalkInit == Init => WalkInv
<1> SUFFICES ASSUME Init PROVE WalkInv
  OBVIOUS
<1>1. /\ Len(queue) = 1 /\ queue[1].file = Entry /\ Len(units) = 0
      /\ visited = {Entry} /\ todo = {} /\ outcome = "running"
  BY DEF Init, EntryUnit
<1>2. FilesOnce /\ FilesVisited
  BY <1>1 DEF FilesOnce, FilesVisited
<1>3. TodoOfUnit /\ UsesFollowed /\ Inside /\ Ended
  BY <1>1 DEF TodoOfUnit, UsesFollowed, Inside, Ended
<1>4. Chains
  <2>1. EntryUnit.file = Entry /\ EntryUnit.modulePath = EntryPath
        /\ EntryUnit.importChain = <<EntryPath>>
    BY DEF EntryUnit
  <2>2. Entry \in ReachableFrom({Entry})
    BY ImportAssumption DEF ReachableFrom
  <2>3. \A k \in 1 .. Len(<<EntryPath>>) : <<EntryPath>>[k] = EntryPath
    OBVIOUS
  <2>4. \E k \in 1 .. Len(<<EntryPath>>) : <<EntryPath>>[k] = EntryPath
    OBVIOUS
  <2>5. EntryUnit \in Chained
    <3>1. EntryUnit \in Units
      <4>1. <<EntryPath>> \in Seq(Paths)
        BY ImportAssumption
      <4> QED BY <4>1, ImportAssumption DEF EntryUnit, Units
    <3>2. resolveUseToFile[EntryPath] = Entry
      BY ImportAssumption
    <3> QED BY <1>1, <2>1, <2>2, <2>3, <2>4, <3>1, <3>2 DEF Chained
  <2>6. /\ unit = EntryUnit
        /\ \A i \in 1 .. Len(queue) : queue[i] = EntryUnit
    BY DEF Init
  <2> QED BY <1>1, <2>5, <2>6 DEF Chains
<1> QED BY <1>1, <1>2, <1>3, <1>4 DEF WalkInv

LEMMA WalkParse ==
    ASSUME TypeOK, WalkInv, ParseNext
    PROVE  WalkInv'
<1>1. /\ queue' = Tail(queue) /\ queue # << >> /\ todo = {} /\ outcome = "running"
      /\ UNCHANGED <<uses, broken, visited, outcome>>
  BY DEF ParseNext, program
<1>2. /\ Len(queue) \in Nat \ {0} /\ Head(queue) = queue[1] /\ Head(queue) \in Units
      /\ Len(queue') = Len(queue) - 1
      /\ \A i \in 1 .. Len(queue') : i + 1 \in 1 .. Len(queue) /\ queue'[i] = queue[i + 1]
  BY <1>1, TailFacts DEF TypeOK
<1>3. Inside'
  BY <1>1 DEF WalkInv, Inside, Closed, Imports, extractUseModulePaths
<1>4. Ended'
  BY <1>1 DEF WalkInv, Ended
<1>5. /\ \A i, j \in 1 .. Len(queue') : queue'[i].file = queue'[j].file => i = j
      /\ \A i \in 1 .. Len(queue') : queue'[i].file # queue[1].file
      /\ \A i \in 1 .. Len(queue') : queue'[i].file \in visited
      /\ \A i \in 1 .. Len(queue'), j \in 1 .. Len(units) : queue'[i].file # units[j].file
  <2>1. 1 \in 1 .. Len(queue)
    BY <1>2
  <2>2. \A i, j \in 1 .. Len(queue) : queue[i].file = queue[j].file => i = j
    BY DEF WalkInv, FilesOnce
  <2>3. \A i, j \in 1 .. Len(queue') : i + 1 = j + 1 => i = j
    OBVIOUS
  <2>4. \A i \in 1 .. Len(queue') : i + 1 # 1
    OBVIOUS
  <2>5. \A i, j \in 1 .. Len(queue') : queue'[i].file = queue'[j].file => i = j
    BY <1>2, <2>2, <2>3
  <2>6. \A i \in 1 .. Len(queue') : queue'[i].file # queue[1].file
    BY <1>2, <2>1, <2>2, <2>4
  <2>7. \A i \in 1 .. Len(queue') : queue'[i].file \in visited
    BY <1>2 DEF WalkInv, FilesVisited
  <2>8. \A i \in 1 .. Len(queue'), j \in 1 .. Len(units) : queue'[i].file # units[j].file
    BY <1>2 DEF WalkInv, FilesOnce
  <2> QED BY <2>5, <2>6, <2>7, <2>8
<1>6. \A f : (\E i \in 1 .. Len(queue) : queue[i].file = f) =>
           f = queue[1].file \/ \E i \in 1 .. Len(queue') : queue'[i].file = f
  <2> SUFFICES ASSUME NEW i \in 1 .. Len(queue), i # 1
               PROVE  \E j \in 1 .. Len(queue') : queue'[j].file = queue[i].file
    OBVIOUS
  <2>1. i - 1 \in 1 .. Len(queue') /\ (i - 1) + 1 = i
    BY <1>2
  <2> QED BY <1>2, <2>1
<1>9. /\ Chained \subseteq Chained'
      /\ \A i \in 1 .. Len(queue') : queue'[i] \in Chained
      /\ queue[1] \in Chained
  <2>1. 1 \in 1 .. Len(queue)
    BY <1>2
  <2> QED BY <1>1, <1>2, <2>1, ChainsStay DEF WalkInv, Chains
<1>7. CASE Head(queue).file \in broken
  <2>1. UNCHANGED <<unit, todo, units>>
    BY <1>7 DEF ParseNext
  <2>2. FilesOnce'
    BY <1>5, <2>1 DEF WalkInv, FilesOnce
  <2>3. FilesVisited'
    <3>1. queue[1].file \in broken
      BY <1>2, <1>7
    <3>2. \A f \in visited \ broken : \/ \E i \in 1 .. Len(queue') : queue'[i].file = f
                                    \/ \E i \in 1 .. Len(units) : units[i].file = f
      BY <1>6, <3>1 DEF WalkInv, FilesVisited
    <3> QED BY <1>1, <1>5, <2>1, <3>2 DEF WalkInv, FilesVisited
  <2>4. TodoOfUnit' /\ UsesFollowed'
    BY <1>1, <2>1, PathsStay DEF WalkInv, TodoOfUnit, UsesFollowed
  <2>5. Chains'
    BY <1>9, <2>1 DEF WalkInv, Chains
  <2> QED BY <1>1, <1>3, <1>4, <2>2, <2>3, <2>4, <2>5 DEF WalkInv
<1>8. CASE Head(queue).file \notin broken
  <2>1. PICK u \in Units : u = queue[1]
    BY <1>2
  <2>2. unit' = u /\ todo' = extractUseModulePaths(u.file) /\ units' = Append(units, u)
    BY <1>2, <1>8, <2>1 DEF ParseNext
  <2>3. /\ Len(units) \in Nat /\ Len(units') = Len(units) + 1 /\ units'[Len(units) + 1] = u
        /\ \A i \in 1 .. Len(units) : units'[i] = units[i]
    BY <2>2, AppendFacts DEF TypeOK
  <2>4. \A i \in 1 .. Len(units') : i \in 1 .. Len(units) \/ i = Len(units')
    BY <2>3
  <2>5. /\ units'[Len(units')] = u /\ Len(units') \in 1 .. Len(units')
        /\ \A i \in 1 .. Len(units) : i \in 1 .. Len(units')
    BY <2>3
  <2>6. 1 \in 1 .. Len(queue)
    BY <1>2
  <2>7. /\ u.file \in visited \ broken
        /\ \A j \in 1 .. Len(units) : units[j].file # u.file
    BY <1>2, <1>8, <2>1, <2>6 DEF WalkInv, FilesVisited, FilesOnce
  <2>8. FilesOnce'
    <3>1. \A i, j \in 1 .. Len(units') : units'[i].file = units'[j].file => i = j
      BY <2>3, <2>4, <2>5, <2>7 DEF WalkInv, FilesOnce
    <3>2. \A i \in 1 .. Len(queue'), j \in 1 .. Len(units') : queue'[i].file # units'[j].file
      BY <1>5, <2>1, <2>3, <2>4, <2>5
    <3> QED BY <1>5, <3>1, <3>2 DEF FilesOnce
  <2>9. FilesVisited'
    <3>1. \A i \in 1 .. Len(units') : units'[i].file \in visited \ broken
      BY <2>3, <2>4, <2>5, <2>7 DEF WalkInv, FilesVisited
    <3>2. \A f \in visited \ broken : \/ \E i \in 1 .. Len(queue') : queue'[i].file = f
                                    \/ \E i \in 1 .. Len(units') : units'[i].file = f
      <4> SUFFICES ASSUME NEW f \in visited \ broken,
                          ~ \E i \in 1 .. Len(queue') : queue'[i].file = f
                   PROVE  \E i \in 1 .. Len(units') : units'[i].file = f
        OBVIOUS
      <4>1. CASE \E i \in 1 .. Len(queue) : queue[i].file = f
        <5>1. u.file = f
          BY <1>6, <2>1, <4>1
        <5> QED BY <2>5, <5>1
      <4>2. CASE \E i \in 1 .. Len(units) : units[i].file = f
        <5>1. PICK i \in 1 .. Len(units) : units[i].file = f
          BY <4>2
        <5>2. i \in 1 .. Len(units') /\ units'[i].file = f
          BY <2>3, <2>5, <5>1
        <5> QED BY <5>2
      <4> QED BY <4>1, <4>2 DEF WalkInv, FilesVisited
    <3> QED BY <1>1, <1>5, <3>1, <3>2 DEF FilesVisited
  <2>10. TodoOfUnit'
    BY <1>1, <2>2, <2>5, PathsStay DEF TodoOfUnit
  <2>11. UsesFollowed'
    BY <1>1, <2>2, <2>3, <2>4, <2>5, PathsStay DEF WalkInv, UsesFollowed
  <2>12. Chains'
    BY <1>9, <2>1, <2>2, <2>3, <2>4, <2>5 DEF WalkInv, Chains
  <2> QED BY <1>1, <1>3, <1>4, <2>8, <2>9, <2>10, <2>11, <2>12 DEF WalkInv
<1> QED BY <1>7, <1>8

LEMMA WalkFollow ==
    ASSUME TypeOK, WalkInv, Follow
    PROVE  WalkInv'
<1>1. PICK path \in todo : FollowUse(path) /\ todo' = todo \ {path}
  BY DEF Follow
<1>2. UNCHANGED <<uses, broken, unit, units, outcome>> /\ outcome = "running"
  BY DEF Follow, program
<1>3. path \in Paths /\ path \in extractUseModulePaths(unit.file) /\ unit.file \in visited \ broken
  BY <1>1 DEF TypeOK, WalkInv, TodoOfUnit, FilesVisited
<1>4. PICK file \in Files \cup {NoFile} : file = resolveUseToFile[path]
  BY <1>3, ImportAssumption
<1>5. Ended'
  BY <1>2 DEF Ended
<1>6. TodoOfUnit'
  BY <1>1, <1>2, PathsStay DEF WalkInv, TodoOfUnit
<1>7. ASSUME visited \subseteq visited', resolveUseToFile[path] \in visited' \cup {NoFile}
      PROVE  UsesFollowed'
  BY <1>1, <1>2, <1>7, PathsStay DEF WalkInv, UsesFollowed
<1>8. OnChain(path) => file \in visited
  BY <1>3, <1>4 DEF OnChain, WalkInv, Chains, Chained
<1>9. CASE UNCHANGED <<queue, visited>>
  <2>1. file \in visited \cup {NoFile}
    <3>1. SUFFICES ASSUME file # NoFile, file \notin visited PROVE FALSE
      OBVIOUS
    <3>2. ~OnChain(path)
      BY <1>8, <3>1
    <3>3. visited' = visited \cup {file}
      BY <1>1, <1>4, <3>1, <3>2 DEF FollowUse
    <3> QED BY <1>9, <3>1, <3>3
  <2>2. UsesFollowed'
    BY <1>4, <1>7, <1>9, <2>1
  <2>3. FilesOnce' /\ FilesVisited'
    BY <1>2, <1>9 DEF WalkInv, FilesOnce, FilesVisited
  <2>4. Inside'
    BY <1>2, <1>9 DEF WalkInv, Inside, Closed, Imports, extractUseModulePaths
  <2>5. Chains'
    <3>1. Chained \subseteq Chained'
      BY <1>2, <1>9, ChainsStay
    <3> QED BY <1>2, <1>9, <3>1 DEF WalkInv, Chains
  <2> QED BY <1>5, <1>6, <1>9, <2>2, <2>3, <2>4, <2>5 DEF WalkInv
<1>10. CASE /\ file # NoFile /\ file \notin visited
            /\ visited' = visited \cup {file} /\ queue' = Append(queue, Child(path))
  <2>1. file \in Files /\ unit \in Units /\ file \in Imports(unit.file)
    BY <1>3, <1>4, <1>10 DEF TypeOK, Imports
  <2>2. PICK u \in Units : u = Child(path)
    BY <1>3, <1>4, <1>10, ChildUnit
  <2>3. /\ u.file = file /\ u.modulePath = path
        /\ u.importChain = Append(unit.importChain, path)
    BY <1>4, <2>2 DEF Child
  <2>4. /\ Len(queue) \in Nat /\ Len(queue') = Len(queue) + 1 /\ queue'[Len(queue) + 1] = u
        /\ \A i \in 1 .. Len(queue) : queue'[i] = queue[i]
    BY <1>10, <2>2, AppendFacts DEF TypeOK
  <2>5. /\ \A i \in 1 .. Len(queue') : i \in 1 .. Len(queue) \/ i = Len(queue')
        /\ queue'[Len(queue')] = u /\ Len(queue') \in 1 .. Len(queue')
        /\ \A i \in 1 .. Len(queue) : i \in 1 .. Len(queue')
    BY <2>4
  <2>6. /\ \A i \in 1 .. Len(queue) : queue[i].file \in visited
        /\ \A i \in 1 .. Len(units) : units[i].file \in visited \ broken
    BY DEF WalkInv, FilesVisited
  <2>7. FilesOnce'
    <3>1. \A i, j \in 1 .. Len(queue') : queue'[i].file = queue'[j].file => i = j
      BY <1>10, <2>3, <2>4, <2>5, <2>6 DEF WalkInv, FilesOnce
    <3>2. \A i \in 1 .. Len(queue'), j \in 1 .. Len(units) : queue'[i].file # units[j].file
      BY <1>10, <2>3, <2>4, <2>5, <2>6 DEF WalkInv, FilesOnce
    <3> QED BY <1>2, <3>1, <3>2 DEF WalkInv, FilesOnce
  <2>8. FilesVisited'
    <3>1. \A i \in 1 .. Len(queue') : queue'[i].file \in visited'
      BY <1>10, <2>3, <2>4, <2>5, <2>6
    <3>2. \A f \in visited' \ broken : \/ \E i \in 1 .. Len(queue') : queue'[i].file = f
                                     \/ \E i \in 1 .. Len(units) : units[i].file = f
      <4> SUFFICES ASSUME NEW f \in visited' \ broken,
                          ~ \E i \in 1 .. Len(units) : units[i].file = f
                   PROVE  \E i \in 1 .. Len(queue') : queue'[i].file = f
        OBVIOUS
      <4>1. CASE f = file
        BY <2>3, <2>5, <4>1
      <4>2. CASE f \in visited
        <5>1. PICK i \in 1 .. Len(queue) : queue[i].file = f
          BY <4>2 DEF WalkInv, FilesVisited
        <5> QED BY <2>4, <2>5, <5>1
      <4> QED BY <1>10, <4>1, <4>2
    <3> QED BY <1>2, <1>10, <2>6, <3>1, <3>2 DEF FilesVisited
  <2>9. UsesFollowed'
    BY <1>4, <1>7, <1>10
  <2>10. Inside'
    <3>1. SUFFICES ASSUME NEW S \in SUBSET Files, Entry \in S, Closed(S) PROVE file \in S
      BY <1>2, <1>10 DEF WalkInv, Inside, Closed, Imports, extractUseModulePaths
    <3>2. unit.file \in S
      BY <1>3, <3>1 DEF WalkInv, Inside
    <3> QED BY <1>3, <2>1, <3>1, <3>2 DEF Closed
  <2>11. u \in Chained'
    <3>1. \A R : ReachableFrom(R)' = ReachableFrom(R)
      BY <1>2 DEF ReachableFrom, Closed, Imports, extractUseModulePaths
    <3>2. /\ unit.importChain \in Seq(Paths)
          /\ \E k \in 1 .. Len(unit.importChain) : unit.importChain[k] = EntryPath
          /\ \A k \in 1 .. Len(unit.importChain) :
                /\ resolveUseToFile[unit.importChain[k]] \in visited
                /\ unit.file \in ReachableFrom({resolveUseToFile[unit.importChain[k]]})
      BY <2>1 DEF WalkInv, Chains, Chained, Units
    <3>3. /\ Len(unit.importChain) \in Nat
          /\ Len(u.importChain) = Len(unit.importChain) + 1
          /\ u.importChain[Len(unit.importChain) + 1] = path
          /\ \A k \in 1 .. Len(unit.importChain) : u.importChain[k] = unit.importChain[k]
      BY <1>3, <2>3, <3>2, AppendFacts
    <3>4. \A f \in Files : unit.file \in ReachableFrom({f}) => file \in ReachableFrom({f})
      BY <1>3, <2>1 DEF ReachableFrom, Closed
    <3>5. file \in ReachableFrom({file})
      BY <2>1 DEF ReachableFrom
    <3>6. \E k \in 1 .. Len(u.importChain) : u.importChain[k] = EntryPath
      <4>1. PICK k \in 1 .. Len(unit.importChain) : unit.importChain[k] = EntryPath
        BY <3>2
      <4>2. k \in 1 .. Len(u.importChain) /\ u.importChain[k] = EntryPath
        BY <3>3, <4>1
      <4> QED BY <4>2
    <3>7. ASSUME NEW k \in 1 .. Len(u.importChain)
          PROVE  /\ resolveUseToFile[u.importChain[k]] \in visited'
                 /\ file \in ReachableFrom({resolveUseToFile[u.importChain[k]]})
      <4>1. CASE k \in 1 .. Len(unit.importChain)
        <5>1. PICK f \in visited : f = resolveUseToFile[u.importChain[k]]
          BY <3>2, <3>3, <4>1
        <5>2. f \in Files /\ unit.file \in ReachableFrom({f})
          BY <3>2, <3>3, <4>1, <5>1 DEF TypeOK
        <5> QED BY <1>10, <3>4, <5>1, <5>2
      <4>2. CASE k = Len(unit.importChain) + 1
        BY <1>4, <1>10, <3>3, <3>5, <4>2
      <4> QED BY <3>3, <4>1, <4>2
    <3> QED BY <1>4, <2>3, <3>1, <3>6, <3>7 DEF Chained
  <2>12. Chains'
    <3>1. Chained \subseteq Chained'
      BY <1>2, <1>10, ChainsStay
    <3> QED BY <1>2, <2>4, <2>5, <2>11, <3>1 DEF WalkInv, Chains
  <2> QED BY <1>5, <1>6, <1>10, <2>7, <2>8, <2>9, <2>10, <2>12 DEF WalkInv
<1> QED BY <1>1, <1>4, <1>9, <1>10 DEF FollowUse

LEMMA WalkStep ==
    ASSUME TypeOK, WalkInv, [Next]_vars
    PROVE  WalkInv'
<1>1. CASE Finish
  <2>1. UNCHANGED <<uses, broken, queue, visited, unit, todo, units>> /\ todo = {} /\ queue = << >>
    BY <1>1 DEF Finish, program
  <2>2. Chained' = Chained /\ Inside'
    BY <2>1 DEF WalkInv, Inside, Chained, ReachableFrom, Closed, Imports, extractUseModulePaths
  <2> QED
    BY <2>1, <2>2, PathsStay DEF WalkInv, FilesOnce, FilesVisited, TodoOfUnit, UsesFollowed, Chains, Ended
<1>2. CASE UNCHANGED vars
  <2>1. UNCHANGED <<uses, broken, queue, visited, unit, todo, units, outcome>>
    BY <1>2 DEF vars, program
  <2>2. Chained' = Chained /\ Inside'
    BY <2>1 DEF WalkInv, Inside, Chained, ReachableFrom, Closed, Imports, extractUseModulePaths
  <2> QED
    BY <2>1, <2>2, PathsStay DEF WalkInv, FilesOnce, FilesVisited, TodoOfUnit, UsesFollowed, Chains, Ended
<1> QED BY <1>1, <1>2, WalkParse, WalkFollow DEF Next, Walk, Finished

LEMMA WalkSound == Spec => []WalkInv
BY WalkInit, WalkStep, ImportTypeCorrect, PTL DEF Spec

(* At the end the visited files are those the entry reaches, and the units   *)
(* those of them that parse.                                                 *)
LEMMA VisitedAll ==
    ASSUME TypeOK, WalkInv, outcome # "running"
    PROVE  /\ visited = ReachableFrom({Entry})
           /\ {units[i].file : i \in 1 .. Len(units)} = ReachableFrom({Entry}) \ broken
<1>1. queue = << >> /\ todo = {} /\ Len(queue) = 0
  BY DEF WalkInv, Ended
<1>2. {units[i].file : i \in 1 .. Len(units)} = visited \ broken
  BY <1>1 DEF WalkInv, FilesVisited
<1>3. Closed(visited)
  <2> SUFFICES ASSUME NEW f \in visited \ broken, NEW path \in extractUseModulePaths(f),
                      resolveUseToFile[path] # NoFile
               PROVE  resolveUseToFile[path] \in visited
    BY DEF Closed, Imports, extractUseModulePaths
  <2>1. PICK i \in 1 .. Len(units) : units[i].file = f
    BY <1>2
  <2> QED BY <1>1, <2>1 DEF WalkInv, UsesFollowed
<1>4. visited = ReachableFrom({Entry})
  <2>1. ReachableFrom({Entry}) \subseteq visited
    BY <1>3 DEF ReachableFrom, WalkInv, TypeOK
  <2>2. visited \subseteq ReachableFrom({Entry})
    BY DEF ReachableFrom, WalkInv, Inside, TypeOK
  <2> QED BY <2>1, <2>2
<1> QED BY <1>2, <1>4

(* The walk finds exactly the files that are reachable and parse, each once, *)
(* in every project: with import cycles, with several paths to one file,     *)
(* with broken files.                                                        *)
THEOREM UnitsSound == Spec => []UnitsExact
<1>1. TypeOK /\ WalkInv => UnitsExact
  BY VisitedAll DEF UnitsExact, WalkInv, FilesOnce
<1> QED BY <1>1, ImportTypeCorrect, WalkSound, PTL
-----------------------------------------------------------------------------
(* A cycle has been reported if a file found names the entry's path and that *)
(* declaration has been followed; at the end the report is the outcome.      *)
EntryInv ==
    /\ \A i \in 1 .. Len(units) : EntryPath \in extractUseModulePaths(units[i].file) =>
          anyCircularImport = TRUE \/ (units[i].file = unit.file /\ EntryPath \in todo)
    /\ outcome # "running" => (anyCircularImport = TRUE <=> outcome = "circular")

LEMMA EntryStep ==
    ASSUME TypeOK, WalkInv, EntryInv, [Next]_vars
    PROVE  EntryInv'
<1>1. CASE ParseNext
  <2>1. /\ queue # << >> /\ todo = {} /\ outcome = "running"
        /\ UNCHANGED <<uses, outcome, anyCircularImport>>
    BY <1>1 DEF ParseNext, program
  <2>2. CASE UNCHANGED <<unit, todo, units>>
    BY <2>1, <2>2, PathsStay DEF EntryInv
  <2>3. CASE /\ unit' = Head(queue) /\ todo' = extractUseModulePaths(Head(queue).file)
             /\ units' = Append(units, Head(queue))
    <3>1. PICK u \in Units : u = Head(queue)
      BY <2>1, TailFacts DEF TypeOK
    <3>2. /\ Len(units) \in Nat /\ Len(units') = Len(units) + 1 /\ units'[Len(units) + 1] = u
          /\ \A i \in 1 .. Len(units) : units'[i] = units[i]
      BY <2>3, <3>1, AppendFacts DEF TypeOK
    <3>3. \A i \in 1 .. Len(units') : i \in 1 .. Len(units) \/ i = Len(units) + 1
      BY <3>2
    <3> QED BY <2>1, <2>3, <3>1, <3>2, <3>3, PathsStay DEF EntryInv
  <2> QED BY <1>1, <2>2, <2>3 DEF ParseNext
<1>2. CASE Follow
  <2>1. PICK path \in todo : FollowUse(path) /\ todo' = todo \ {path}
    BY <1>2 DEF Follow
  <2>2. UNCHANGED <<uses, unit, units, outcome>> /\ outcome = "running"
    BY <1>2 DEF Follow, program
  <2>3. anyCircularImport = TRUE => anyCircularImport' = TRUE
    BY <2>1 DEF FollowUse
  <2>4. path = EntryPath => anyCircularImport' = TRUE
    <3>1. OnChain(EntryPath)
      BY DEF WalkInv, Chains, Chained, OnChain
    <3>2. resolveUseToFile[EntryPath] # NoFile
      BY ImportAssumption
    <3> QED BY <2>1, <3>1, <3>2 DEF FollowUse
  <2> QED BY <2>1, <2>2, <2>3, <2>4, PathsStay DEF EntryInv
<1>3. CASE Finish
  <2>1. outcome' = "circular" <=> anyCircularImport = TRUE
    BY <1>3 DEF Finish, TypeOK
  <2> QED BY <1>3, <2>1, PathsStay DEF Finish, program, EntryInv
<1>4. CASE UNCHANGED vars
  BY <1>4, PathsStay DEF vars, program, EntryInv
<1> QED BY <1>1, <1>2, <1>3, <1>4 DEF Next, Walk, Finished

(* A file that the entry reaches and that uses the entry by its module path  *)
(* makes the compilation fail with a circular import.                        *)
THEOREM EntryCycleSound == Spec => []EntryCycleReported
<1>1. Init => EntryInv
  BY DEF Init, EntryInv
<1>2. TypeOK /\ WalkInv /\ EntryInv => EntryCycleReported
  <2> SUFFICES ASSUME TypeOK, WalkInv, EntryInv, outcome # "running",
                      NEW f \in ReachableFrom({Entry}) \ broken, EntryPath \in extractUseModulePaths(f)
               PROVE  outcome = "circular"
    BY DEF EntryCycleReported
  <2>1. PICK i \in 1 .. Len(units) : units[i].file = f
    BY VisitedAll
  <2>2. todo = {}
    BY DEF WalkInv, Ended
  <2> QED BY <2>1, <2>2 DEF EntryInv
<1> QED BY <1>1, <1>2, EntryStep, ImportTypeCorrect, WalkSound, PTL DEF Spec

-----------------------------------------------------------------------------
(* A cycle is reported only where a file names its way back to itself. *)
NamesBack ==
    anyCircularImport => \E f \in visited \ broken : f \in ReachableFrom(Imports(f))

LEMMA CycleStep ==
    ASSUME TypeOK, WalkInv, NamesBack, [Next]_vars
    PROVE  NamesBack'
<1>1. ASSUME UNCHANGED <<uses, broken>>, visited \subseteq visited',
             anyCircularImport' = anyCircularImport
      PROVE  NamesBack'
  <2>1. \A R : ReachableFrom(R)' = ReachableFrom(R)
    BY <1>1 DEF ReachableFrom, Closed, Imports, extractUseModulePaths
  <2>2. \A f : Imports(f)' = Imports(f)
    BY <1>1 DEF Imports, extractUseModulePaths
  <2> QED BY <1>1, <2>1, <2>2 DEF NamesBack
<1>2. CASE Follow
  <2>1. PICK path \in todo : FollowUse(path) /\ todo' = todo \ {path}
    BY <1>2 DEF Follow
  <2>2. UNCHANGED <<uses, broken>>
    BY <1>2 DEF Follow, program
  <2>3. CASE anyCircularImport' = anyCircularImport
    <3>1. visited \subseteq visited'
      BY <2>1 DEF FollowUse
    <3> QED BY <1>1, <2>2, <2>3, <3>1
  <2>4. CASE resolveUseToFile[path] # NoFile /\ OnChain(path) /\ UNCHANGED visited
    <3>1. unit.file \in visited \ broken /\ path \in extractUseModulePaths(unit.file)
      BY <2>1 DEF WalkInv, TodoOfUnit, FilesVisited
    <3>2. resolveUseToFile[path] \in Imports(unit.file)
      BY <2>4, <3>1 DEF Imports
    <3>3. unit.file \in ReachableFrom({resolveUseToFile[path]})
      BY <2>4 DEF OnChain, WalkInv, Chains, Chained
    <3>4. unit.file \in ReachableFrom(Imports(unit.file))
      BY <3>2, <3>3 DEF ReachableFrom
    <3>5. PICK f \in visited \ broken : f = unit.file /\ f \in ReachableFrom(Imports(f))
      BY <3>1, <3>4
    <3>6. \A R : ReachableFrom(R)' = ReachableFrom(R)
      BY <2>2 DEF ReachableFrom, Closed, Imports, extractUseModulePaths
    <3>7. Imports(f)' = Imports(f)
      BY <2>2 DEF Imports, extractUseModulePaths
    <3> QED BY <2>2, <2>4, <3>5, <3>6, <3>7 DEF NamesBack
  <2> QED BY <2>1, <2>3, <2>4 DEF FollowUse
<1>3. CASE ParseNext \/ Finish \/ UNCHANGED vars
  BY <1>1, <1>3 DEF ParseNext, Finish, vars, program
<1> QED BY <1>2, <1>3 DEF Next, Walk, Finished

(* Where no declaration is ambiguous, what a file names is what it imports. *)
LEMMA NamesAreImports ==
    ASSUME TypeOK, NEW g \in Files, \A d \in uses[g] : ~Ambiguous(d)
    PROVE  Imports(g) \subseteq MeantImports(g)
<1> SUFFICES ASSUME NEW d \in uses[g], NEW p \in Candidates(d), resolveUseToFile[p] # NoFile
             PROVE  resolveUseToFile[p] = resolveUseToFile[Meant(d)]
  BY DEF Imports, MeantImports, extractUseModulePaths
<1>1. d \in UseBindings
  BY ImportAssumption DEF TypeOK
<1> QED BY <1>1 DEF Candidates, Meant, Ambiguous, UseBindings

(* A file that names its way back to itself imports its way back, if none of *)
(* the files on the way has an ambiguous declaration: of a set that holds    *)
(* what f imports, the files from which f can be reached are closed under    *)
(* naming too.                                                               *)
LEMMA CycleImported ==
    ASSUME TypeOK, NEW f \in Files \ broken, f \in ReachableFrom(Imports(f)),
           \A g \in ReachableFrom({f}) \ broken :
              f \in ReachableFrom({g}) => \A d \in uses[g] : ~Ambiguous(d)
    PROVE  OnCycle(f)
<1> SUFFICES ASSUME NEW S \in SUBSET Files, MeantImports(f) \subseteq S,
                    \A g \in S \ broken : MeantImports(g) \subseteq S
             PROVE  f \in S
  BY DEF OnCycle
<1>1. \A g \in Files : Imports(g) \subseteq Files
  <2> SUFFICES ASSUME NEW g \in Files, NEW p \in extractUseModulePaths(g),
                      resolveUseToFile[p] # NoFile
               PROVE  resolveUseToFile[p] \in Files
    BY DEF Imports
  <2> QED BY CandidatePaths, ImportAssumption
<1>2. \A R \in SUBSET Files : R \subseteq ReachableFrom(R)
  BY DEF ReachableFrom
<1>3. \A R \in SUBSET Files : Closed(ReachableFrom(R))
  BY <1>1 DEF ReachableFrom, Closed
<1>4. \A g, h \in Files : g \notin broken /\ h \in Imports(g) /\ f \in ReachableFrom({h})
                          => f \in ReachableFrom({g})
  BY DEF ReachableFrom, Closed
<1>5. f \in ReachableFrom({f})
  BY <1>2
<1>6. Imports(f) \subseteq ReachableFrom({f})
  BY <1>3, <1>5 DEF Closed
<1> DEFINE T == {h \in ReachableFrom({f}) : f \in ReachableFrom({h}) => h \in S}
<1>7. Imports(f) \subseteq T
  BY <1>5, <1>6, NamesAreImports
<1>8. Closed(T)
  <2> SUFFICES ASSUME NEW g \in T \ broken, NEW h \in Imports(g), f \in ReachableFrom({h})
               PROVE  h \in ReachableFrom({f}) /\ h \in S
    <3>1. \A g \in T \ broken : \A h \in Imports(g) : h \in ReachableFrom({f})
      BY <1>3 DEF Closed
    <3> QED BY <3>1 DEF Closed
  <2>1. g \in Files /\ h \in Files
    BY <1>1 DEF ReachableFrom
  <2>2. f \in ReachableFrom({g})
    BY <1>4, <2>1
  <2>3. g \in S /\ h \in MeantImports(g)
    BY <2>1, <2>2, NamesAreImports
  <2>4. h \in ReachableFrom({f})
    BY <1>3 DEF Closed
  <2> QED BY <2>3, <2>4
<1>9. T \in SUBSET Files
  BY DEF ReachableFrom
<1>10. f \in T
  BY <1>7, <1>8, <1>9 DEF ReachableFrom
<1> QED BY <1>5, <1>10

(* A circular import is reported only where there is one, or where a file    *)
(* on the way has a `use m::x` with both m and m::x files.                   *)
THEOREM CyclesSound == Spec => []CyclesReal
<1>1. Init => NamesBack
  BY DEF Init, NamesBack
<1>2. TypeOK /\ NamesBack => CyclesReal
  <2> SUFFICES ASSUME TypeOK, NEW f \in visited \ broken, f \in ReachableFrom(Imports(f))
               PROVE  \/ OnCycle(f)
                      \/ \E g \in ReachableFrom({f}) \ broken :
                            f \in ReachableFrom({g}) /\ \E d \in uses[g] : Ambiguous(d)
    BY DEF NamesBack, CyclesReal
  <2>1. f \in Files \ broken
    BY DEF TypeOK
  <2> QED BY <2>1, CycleImported
<1> QED BY <1>1, <1>2, CycleStep, ImportTypeCorrect, WalkSound, PTL DEF Spec

-----------------------------------------------------------------------------
(* Two declarations meet in one module only if they are of one file. *)
LEMMA DuplicateIsLocal ==
    ASSUME TypeOK, WalkInv
    PROVE  Duplicate <=> \E i \in 1 .. Len(units) : Repeats(units[i].file)
<1>1. \A i, j \in 1 .. Len(units) : units[i].modulePath = units[j].modulePath => i = j
  BY DEF WalkInv, FilesOnce, Chains, Chained
<1>2. ASSUME Duplicate PROVE \E i \in 1 .. Len(units) : Repeats(units[i].file)
  <2>1. PICK i, j \in 1 .. Len(units) :
          /\ units[i].modulePath = units[j].modulePath
          /\ \E k \in 1 .. Len(decls[units[i].file]), l \in 1 .. Len(decls[units[j].file]) :
                (i # j \/ k # l) /\ SameSymbol(i, k, j, l)
    BY <1>2 DEF Duplicate
  <2>2. i = j
    BY <1>1, <2>1
  <2> QED BY <2>1, <2>2 DEF SameSymbol, Repeats
<1>3. ASSUME NEW i \in 1 .. Len(units), Repeats(units[i].file) PROVE Duplicate
  BY <1>3 DEF SameSymbol, Repeats, Duplicate
<1> QED BY <1>2, <1>3

DuplicateInv ==
    outcome \in {"duplicate", "ok"} =>
        (outcome = "duplicate" <=> \E i \in 1 .. Len(units) : Repeats(units[i].file))

LEMMA RepeatsStay ==
    ASSUME UNCHANGED units
    PROVE  (\E i \in 1 .. Len(units) : Repeats(units[i].file))'
              <=> \E i \in 1 .. Len(units) : Repeats(units[i].file)
<1>1. \A f : Repeats(f)' <=> Repeats(f)
  BY Zenon DEF Repeats
<1> QED BY <1>1

(* A duplicate symbol is reported exactly when a reachable file declares it  *)
(* twice: the registry never takes two files for one module.                 *)
THEOREM DuplicatesSound == Spec => []DuplicatesLocal
<1>1. Init => DuplicateInv
  BY DEF Init, DuplicateInv
<1>2. TypeOK /\ WalkInv /\ DuplicateInv /\ [Next]_vars => DuplicateInv'
  <2> SUFFICES ASSUME TypeOK, WalkInv, DuplicateInv, [Next]_vars PROVE DuplicateInv'
    OBVIOUS
  <2>1. CASE ParseNext \/ Follow
    BY <2>1 DEF ParseNext, Follow, DuplicateInv
  <2>2. CASE Finish
    <3>1. units' = units /\ (outcome' = "duplicate" => Duplicate) /\ (outcome' = "ok" => ~Duplicate)
      BY <2>2 DEF Finish
    <3> QED BY <3>1, DuplicateIsLocal, RepeatsStay DEF DuplicateInv
  <2>3. CASE UNCHANGED vars
    BY <2>3, RepeatsStay DEF vars, DuplicateInv
  <2> QED BY <2>1, <2>2, <2>3 DEF Next, Walk, Finished
<1>3. TypeOK /\ WalkInv /\ DuplicateInv => DuplicatesLocal
  <2> SUFFICES ASSUME TypeOK, WalkInv, DuplicateInv, outcome \in {"duplicate", "ok"}
               PROVE  outcome = "duplicate" <=> \E f \in ReachableFrom({Entry}) \ broken : Repeats(f)
    BY DEF DuplicatesLocal
  <2>1. {units[i].file : i \in 1 .. Len(units)} = ReachableFrom({Entry}) \ broken
    BY VisitedAll
  <2> QED BY <2>1 DEF DuplicateInv
<1> QED BY <1>1, <1>2, <1>3, ImportTypeCorrect, WalkSound, PTL DEF Spec
=============================================================================
