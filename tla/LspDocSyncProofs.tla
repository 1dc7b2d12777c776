--------------------------- MODULE LspDocSyncProofs ---------------------------
(***************************************************************************)
(* Proofs about document synchronisation, for any documents and texts.       *)
(***************************************************************************)
EXTENDS LspDocSync, TLAPS

(* A parse to install always exists: at most two identities are taken. *)
LEMMA NewParseType ==
    ASSUME TypeOK, NEW u \in Uris
    PROVE  NewParse(u) \in ParseIds
<1>1. \E i \in ParseIds : /\ parse[u] # None => i # parse[u].id
                          /\ index[u] # None => i # index[u].of
  <2>1. 1 \in ParseIds /\ 2 \in ParseIds /\ 3 \in ParseIds /\ 1 # 2 /\ 2 # 3 /\ 1 # 3
    BY DEF ParseIds
  <2> DEFINE a == parse[u].id
             b == index[u].of
  <2>2. \E i \in ParseIds : i # a /\ i # b
    <3> HIDE DEF a, b
    <3>1. CASE a # 1 /\ b # 1
      BY <2>1, <3>1
    <3>2. CASE a # 2 /\ b # 2
      BY <2>1, <3>2
    <3>3. CASE a # 3 /\ b # 3
      BY <2>1, <3>3
    <3> QED BY <2>1, <3>1, <3>2, <3>3
  <2> QED BY <2>2
<1> QED BY <1>1 DEF NewParse

(* getOrParse returns a parse of the text it is given. *)
LEMMA ParsedType ==
    ASSUME TypeOK, NEW u \in Uris, NEW t \in Texts
    PROVE  /\ Parsed(u, t) \in [src : Texts, id : ParseIds]
           /\ Parsed(u, t).src = t
<1>1. NewParse(u) \in ParseIds
  BY NewParseType
<1>2. parse[u] \in OrNone([src : Texts, id : ParseIds])
  BY DEF TypeOK
<1> QED BY <1>1, <1>2 DEF Parsed, HasParse, OrNone

(* Erasing an entry keeps a cache's type. *)
LEMMA WithoutType ==
    ASSUME NEW S, NEW f \in [Uris -> OrNone(S)], NEW u \in Uris
    PROVE  Without(f, u) \in [Uris -> OrNone(S)]
BY DEF Without, OrNone

(* The parse cache keeps its type. *)
LEMMA GetOrParseType ==
    ASSUME TypeOK, NEW u \in Uris, NEW t \in Texts, GetOrParse(u, t)
    PROVE  parse' \in [Uris -> OrNone([src : Texts, id : ParseIds])]
<1>1. Parsed(u, t) \in [src : Texts, id : ParseIds]
  BY ParsedType
<1> QED BY <1>1 DEF GetOrParse, TypeOK, OrNone

(* publishDiagnostics shows a check of the text it is given, and the only    *)
(* diagnostics it may cache are checks made now.                             *)
LEMMA CheckType ==
    ASSUME TypeOK, NEW u \in Uris, NEW t \in Texts, CheckAndPublish(u, t)
    PROVE  /\ parse' \in [Uris -> OrNone([src : Texts, id : ParseIds])]
           /\ diags' \in [Uris -> OrNone(Checks)]
           /\ pub' \in [Uris -> OrNone(Checks)]
           /\ pub'[u] \in Checks /\ pub'[u].src = t
           /\ \A v \in Uris \ {u} : pub'[v] = pub[v] /\ diags'[v] = diags[v]
           /\ \/ diags'[u] = diags[u]
              \/ diags'[u] # None /\ diags'[u].cur /\ diags'[u].sem = valid
           /\ \/ CachedCheck(u, t) /\ pub'[u] = diags[u]
              \/ pub'[u].cur /\ (pub'[u].sem => valid)
<1>0. /\ parse \in [Uris -> OrNone([src : Texts, id : ParseIds])]
      /\ diags \in [Uris -> OrNone(Checks)] /\ pub \in [Uris -> OrNone(Checks)]
      /\ valid \in BOOLEAN /\ diags[u] \in OrNone(Checks)
  BY DEF TypeOK
<1> DEFINE found == [src |-> t, cur |-> TRUE, sem |-> valid]
           empty == [src |-> t, cur |-> TRUE, sem |-> FALSE]
<1>1. /\ found \in Checks /\ found.src = t /\ found.cur /\ found.sem = valid
      /\ empty \in Checks /\ empty.src = t /\ empty.cur /\ ~empty.sem
  BY <1>0 DEF Checks
<1>n. found # None /\ empty # None
  BY LspAssumption, <1>1
<1>2. CASE CachedCheck(u, t) /\ pub' = [pub EXCEPT ![u] = diags[u]] /\ UNCHANGED <<parse, diags>>
  <2>1. diags[u] \in Checks /\ diags[u].src = t
    BY <1>0, <1>2 DEF CachedCheck, OrNone
  <2> QED BY <1>0, <1>2, <2>1 DEF OrNone
<1>3. CASE /\ GetOrParse(u, t)
           /\ diags' = [diags EXCEPT ![u] = found]
           /\ pub' = [pub EXCEPT ![u] = found]
  <2> HIDE DEF found
  <2> QED BY <1>0, <1>1, <1>n, <1>3, GetOrParseType DEF OrNone
<1>4. CASE /\ GetOrParse(u, t)
           /\ pub' = [pub EXCEPT ![u] = empty]
           /\ UNCHANGED diags
  <2> HIDE DEF empty
  <2> QED BY <1>0, <1>1, <1>4, GetOrParseType DEF OrNone
<1> QED BY <1>2, <1>3, <1>4 DEF CheckAndPublish

-----------------------------------------------------------------------------
(* Type correctness, one case per action. *)
LEMMA TypeStep == TypeOK /\ [Next]_vars => TypeOK'
<1> SUFFICES ASSUME TypeOK, [Next]_vars PROVE TypeOK'
  OBVIOUS
<1>0. /\ docs \in [Uris -> OrNone(Texts)]
      /\ parse \in [Uris -> OrNone([src : Texts, id : ParseIds])]
      /\ index \in [Uris -> OrNone([src : Texts, of : ParseIds])]
      /\ tokens \in [Uris -> OrNone(Texts)]
      /\ diags \in [Uris -> OrNone(Checks)]
      /\ pub \in [Uris -> OrNone(Checks)]
      /\ pending \in OrNone(DocTexts) /\ work \in OrNone(Works)
      /\ (due => pending # None) /\ (work # None <=> pc = "publish")
  BY DEF TypeOK
<1>a. \A u \in Uris : docs[u] # None => docs[u] \in Texts
  BY <1>0 DEF OrNone
<1>p. /\ pending # None => pending.uri \in Uris /\ pending.src \in Texts
      /\ work # None => work.uri \in Uris /\ work.src \in Texts
  BY <1>0 DEF OrNone, DocTexts, Works
<1>w. \A u \in Uris :
         /\ Without(docs, u) \in [Uris -> OrNone(Texts)]
         /\ Without(parse, u) \in [Uris -> OrNone([src : Texts, id : ParseIds])]
         /\ Without(index, u) \in [Uris -> OrNone([src : Texts, of : ParseIds])]
         /\ Without(tokens, u) \in [Uris -> OrNone(Texts)]
         /\ Without(diags, u) \in [Uris -> OrNone(Checks)]
         /\ Without(pub, u) \in [Uris -> OrNone(Checks)]
  BY <1>0, WithoutType
<1>c. \A c \in OrNone(Checks) : Older(c) \in OrNone(Checks)
  BY DEF Older, OrNone, Checks
<1>m. missed' \in SUBSET Uris
  <2>1. missed \in SUBSET Uris
    BY DEF TypeOK
  <2>2. \A u \in Uris : MissedByChange(u) \in SUBSET Uris
    BY DEF MissedByChange
  <2> QED BY <2>1, <2>2
         DEF Next, Message, vars, WindowElapses, DispatchFlushes, InnerFlush, Publish, Ignored,
             DidOpen, DidChange, DidSave, DidClose, Navigate, SignatureHelp, SemanticTokens
<1>1. CASE WindowElapses
  BY <1>0, <1>1, <1>m DEF WindowElapses, TypeOK, OrNone, caches
<1>2. CASE DispatchFlushes
  <2>1. CheckAndPublish(pending.uri, pending.src) /\ pending # None
    BY <1>2 DEF DispatchFlushes, FlushPending
  <2>2. /\ parse' \in [Uris -> OrNone([src : Texts, id : ParseIds])]
        /\ diags' \in [Uris -> OrNone(Checks)]
        /\ pub' \in [Uris -> OrNone(Checks)]
    BY <1>p, <2>1, CheckType
  <2> QED BY <1>0, <1>m, <1>2, <2>2 DEF DispatchFlushes, FlushPending, TypeOK, OrNone
<1>3. CASE InnerFlush
  <2>1. CheckAndPublish(pending.uri, pending.src) /\ pending # None
    BY <1>3 DEF InnerFlush, FlushPending
  <2>2. /\ parse' \in [Uris -> OrNone([src : Texts, id : ParseIds])]
        /\ diags' \in [Uris -> OrNone(Checks)]
        /\ pub' \in [Uris -> OrNone(Checks)]
    BY <1>p, <2>1, CheckType
  <2> QED BY <1>0, <1>m, <1>3, <2>2 DEF InnerFlush, FlushPending, TypeOK, OrNone
<1>4. CASE Publish
  <2>1. CheckAndPublish(work.uri, work.src) /\ work # None
    BY <1>0, <1>4 DEF Publish
  <2>2. /\ parse' \in [Uris -> OrNone([src : Texts, id : ParseIds])]
        /\ diags' \in [Uris -> OrNone(Checks)]
        /\ pub' \in [Uris -> OrNone(Checks)]
    BY <1>p, <2>1, CheckType
  <2> QED BY <1>0, <1>m, <1>4, <2>2 DEF Publish, TypeOK, OrNone, timer
<1>5. ASSUME NEW u \in Uris, NEW t \in Texts, DidOpen(u, t) PROVE TypeOK'
  <2>1. ForgetDoc(u) /\ RebuildContext(Without(diags, u))
    BY <1>5 DEF DidOpen
  <2>2. /\ parse' \in [Uris -> OrNone([src : Texts, id : ParseIds])]
        /\ index' \in [Uris -> OrNone([src : Texts, of : ParseIds])]
        /\ tokens' \in [Uris -> OrNone(Texts)]
    BY <1>0, <1>w, <2>1 DEF ForgetDoc
  <2>3. Without(diags, u) \in [Uris -> OrNone(Checks)]
    BY <1>0, <1>w
  <2>4. /\ valid' \in BOOLEAN
        /\ diags' \in [Uris -> OrNone(Checks)]
        /\ pub' \in [Uris -> OrNone(Checks)]
    <3> DEFINE cached == Without(diags, u)
    <3>1. cached \in [Uris -> OrNone(Checks)] /\ RebuildContext(cached)
      BY <2>1, <2>3
    <3> HIDE DEF cached
    <3>2. CASE diags' = cached /\ UNCHANGED <<valid, pub>>
      <4>1. diags' = cached /\ pub' = pub /\ valid' = valid
        BY <3>2
      <4>2. valid' \in BOOLEAN
        BY <4>1, Zenon DEF TypeOK
      <4>3. pub' \in [Uris -> OrNone(Checks)]
        BY <1>0, <4>1, Zenon
      <4>4. diags' \in [Uris -> OrNone(Checks)]
        BY <3>1, <4>1, Zenon
      <4> QED BY <4>2, <4>3, <4>4
    <3>3. CASE ~(diags' = cached /\ UNCHANGED <<valid, pub>>)
      BY <1>0, <1>c, <3>1, <3>3 DEF RebuildContext
    <3> QED BY <3>2, <3>3
  <2>5. /\ work' \in Works /\ work' # None /\ pc' = "publish"
        /\ docs' \in [Uris -> OrNone(Texts)]
        /\ UNCHANGED timer /\ reply' = None
    <3>1. work' \in Works /\ pc' = "publish" /\ UNCHANGED timer /\ reply' = None
      BY <1>5 DEF DidOpen, Works
    <3>2. work' # None
      BY <3>1, LspAssumption
    <3>3. docs' \in [Uris -> OrNone(Texts)]
      BY <1>0, <1>5 DEF DidOpen, OrNone
    <3> QED BY <3>1, <3>2, <3>3
  <2> QED BY <1>0, <1>m, <2>2, <2>4, <2>5 DEF TypeOK, OrNone, timer
<1>6. ASSUME NEW u \in Uris, NEW given \in BOOLEAN, DidSave(u, given) PROVE TypeOK'
  <2> DEFINE cached == IF given THEN Without(diags, u) ELSE diags
  <2>1. RebuildContext(cached)
    BY <1>6 DEF DidSave
  <2>2. /\ parse' \in [Uris -> OrNone([src : Texts, id : ParseIds])]
        /\ index' \in [Uris -> OrNone([src : Texts, of : ParseIds])]
        /\ tokens' \in [Uris -> OrNone(Texts)]
    BY <1>0, <1>w, <1>6 DEF ForgetDoc, DidSave
  <2>3. cached \in [Uris -> OrNone(Checks)]
    BY <1>0, <1>w
  <2>4. /\ valid' \in BOOLEAN
        /\ diags' \in [Uris -> OrNone(Checks)]
        /\ pub' \in [Uris -> OrNone(Checks)]
    <3> HIDE DEF cached
    <3>1. CASE diags' = cached /\ UNCHANGED <<valid, pub>>
      <4>1. diags' = cached /\ pub' = pub /\ valid' = valid
        BY <3>1
      <4>2. valid' \in BOOLEAN
        BY <4>1, Zenon DEF TypeOK
      <4>3. pub' \in [Uris -> OrNone(Checks)]
        BY <1>0, <4>1, Zenon
      <4>4. diags' \in [Uris -> OrNone(Checks)]
        BY <2>3, <4>1, Zenon
      <4> QED BY <4>2, <4>3, <4>4
    <3>2. CASE ~(diags' = cached /\ UNCHANGED <<valid, pub>>)
      BY <1>0, <1>c, <2>1, <2>3, <3>2 DEF RebuildContext
    <3> QED BY <3>1, <3>2
  <2>5. /\ work' \in Works /\ work' # None /\ pc' = "publish"
        /\ UNCHANGED <<docs, timer>> /\ reply' = None
    <3>1. work' \in Works /\ pc' = "publish" /\ UNCHANGED <<docs, timer>> /\ reply' = None
      BY <1>a, <1>6 DEF DidSave, Works
    <3>2. work' # None
      BY <3>1, LspAssumption
    <3> QED BY <3>1, <3>2
  <2> QED BY <1>0, <1>m, <2>2, <2>4, <2>5 DEF TypeOK, OrNone, timer
<1>7. ASSUME NEW u \in Uris, NEW t \in Texts, DidChange(u, t) PROVE TypeOK'
  <2>1. /\ tokens' \in [Uris -> OrNone(Texts)]
        /\ diags' \in [Uris -> OrNone(Checks)]
        /\ docs' \in [Uris -> OrNone(Texts)]
    BY <1>0, <1>w, <1>7 DEF DidChange, OrNone
  <2>2. parse' \in [Uris -> OrNone([src : Texts, id : ParseIds])]
    BY <1>7, GetOrParseType DEF DidChange
  <2>3. /\ pending' \in OrNone(DocTexts) /\ due' = FALSE /\ pc' = "idle"
        /\ UNCHANGED <<index, valid, pub, work>> /\ reply' = None /\ pc # "publish"
    BY <1>7 DEF DidChange, OrNone, DocTexts, AtMessage
  <2> QED BY <1>0, <1>m, <2>1, <2>2, <2>3 DEF TypeOK, OrNone
<1>8. ASSUME NEW u \in Uris, DidClose(u) PROVE TypeOK'
  <2>1. /\ parse' \in [Uris -> OrNone([src : Texts, id : ParseIds])]
        /\ index' \in [Uris -> OrNone([src : Texts, of : ParseIds])]
        /\ tokens' \in [Uris -> OrNone(Texts)]
        /\ docs' \in [Uris -> OrNone(Texts)]
        /\ diags' \in [Uris -> OrNone(Checks)]
        /\ pub' \in [Uris -> OrNone(Checks)]
    BY <1>0, <1>w, <1>8 DEF DidClose, ForgetDoc
  <2>2. pc' = "idle" /\ pc # "publish" /\ UNCHANGED <<valid, timer, work>> /\ reply' = None
    BY <1>8 DEF DidClose, AtMessage
  <2> QED BY <1>0, <1>m, <2>1, <2>2 DEF TypeOK, OrNone, timer
<1>9. ASSUME NEW u \in Uris, Navigate(u) PROVE TypeOK'
  <2>0. docs[u] \in Texts /\ GetOrParse(u, docs[u])
    BY <1>a, <1>9 DEF Navigate
  <2>1. parse' \in [Uris -> OrNone([src : Texts, id : ParseIds])]
    BY <2>0, GetOrParseType
  <2>2. Parsed(u, docs[u]) \in [src : Texts, id : ParseIds]
    BY <2>0, ParsedType
  <2>3. Indexed(u) \in [src : Texts, of : ParseIds]
    BY <1>0, <2>0, <2>2 DEF Indexed, OrNone
  <2>4. index' \in [Uris -> OrNone([src : Texts, of : ParseIds])]
    BY <1>0, <1>9, <2>3 DEF Navigate, OrNone
  <2>5. reply' \in OrNone([uri : Uris, parse : [src : Texts, id : ParseIds],
                           index : [src : Texts, of : ParseIds]])
    BY <1>9, <2>2, <2>3 DEF Navigate, OrNone
  <2>6. /\ pc' = "idle" /\ pc # "publish"
        /\ UNCHANGED <<docs, tokens, diags, valid, timer, pub, work>>
    BY <1>9 DEF Navigate, AtMessage
  <2> QED BY <1>0, <1>m, <2>1, <2>4, <2>5, <2>6 DEF TypeOK, timer
<1>10. ASSUME NEW u \in Uris, SignatureHelp(u) PROVE TypeOK'
  <2>1. parse' \in [Uris -> OrNone([src : Texts, id : ParseIds])]
    BY <1>a, <1>10, GetOrParseType DEF SignatureHelp
  <2>2. /\ pc' = "idle" /\ pc # "publish"
        /\ UNCHANGED <<docs, index, tokens, diags, valid, timer, pub, work>> /\ reply' = None
    BY <1>10 DEF SignatureHelp, AtMessage
  <2> QED BY <1>0, <1>m, <2>1, <2>2 DEF TypeOK, OrNone, timer
<1>11. ASSUME NEW u \in Uris, SemanticTokens(u) PROVE TypeOK'
  <2>1. /\ parse' \in [Uris -> OrNone([src : Texts, id : ParseIds])]
        /\ tokens' \in [Uris -> OrNone(Texts)]
    BY <1>0, <1>a, <1>11, GetOrParseType DEF SemanticTokens, OrNone
  <2>2. /\ pc' = "idle" /\ pc # "publish"
        /\ UNCHANGED <<docs, index, diags, valid, timer, pub, work>> /\ reply' = None
    BY <1>11 DEF SemanticTokens, AtMessage
  <2> QED BY <1>0, <1>m, <2>1, <2>2 DEF TypeOK, OrNone, timer
<1>12. CASE Ignored
  BY <1>0, <1>12, <1>m DEF Ignored, TypeOK, OrNone, caches, timer
<1>13. CASE UNCHANGED vars
  BY <1>0, <1>13, <1>m DEF vars, TypeOK, caches, timer
<1> QED BY <1>1, <1>2, <1>3, <1>4, <1>5, <1>6, <1>7, <1>8, <1>9, <1>10, <1>11,
           <1>12, <1>13 DEF Next, Message

(* The server's fields keep their types, and a work item exists exactly while *)
(* a publish is under way.                                                   *)
THEOREM LspTypeCorrect == Spec => []TypeOK
<1>1. Init => TypeOK
  BY DEF Init, TypeOK, OrNone
<1> QED BY <1>1, TypeStep, PTL DEF Spec

-----------------------------------------------------------------------------
(* The strengthening of DiagnosticsCurrent.  What is shown for a document is  *)
(* right, or is about to be by the publish under way.                        *)
Right(u) ==
    IF docs[u] = None THEN pub[u] = None
    ELSE \/ pub[u] # None /\ pub[u].src = docs[u]
         \/ work # None /\ work.uri = u

(* A check pending for a document carries its text or has outlived it, and   *)
(* is then still harmless; with none pending what is shown is right, unless  *)
(* the document has missed its check.                                        *)
DocInv(u) ==
    IF PendingFor(u) THEN IF u \in missed THEN Right(u) ELSE docs[u] = pending.src
    ELSE u \in missed \/ Right(u)

CurrentInv ==
    /\ work # None => docs[work.uri] = work.src
    /\ \A u \in Uris : DocInv(u)

(* It is inductive. *)
LEMMA CurrentStep == TypeOK /\ CurrentInv /\ [Next]_vars => CurrentInv'
<1> SUFFICES ASSUME TypeOK, CurrentInv, [Next]_vars PROVE CurrentInv'
  OBVIOUS
<1>0. /\ docs \in [Uris -> OrNone(Texts)]
      /\ pub \in [Uris -> OrNone(Checks)]
      /\ pending \in OrNone(DocTexts) /\ work \in OrNone(Works)
      /\ (due => pending # None) /\ (work # None <=> pc = "publish")
      /\ missed \in SUBSET Uris
  BY DEF TypeOK
<1>n. None \notin Texts /\ None \notin Checks /\ None \notin DocTexts /\ None \notin Works
  BY LspAssumption
<1>a. \A u \in Uris : docs[u] # None => docs[u] \in Texts
  BY <1>0 DEF OrNone
<1>p. /\ pending # None => pending.uri \in Uris /\ pending.src \in Texts
      /\ work # None => work.uri \in Uris /\ work.src \in Texts
  BY <1>0 DEF OrNone, DocTexts, Works
<1>i. /\ work # None => docs[work.uri] = work.src
      /\ \A u \in Uris : DocInv(u)
  BY DEF CurrentInv
<1>1. CASE UNCHANGED <<docs, pub, pending, work, missed>>
  BY <1>1, <1>i DEF CurrentInv, DocInv, Right, PendingFor
<1>2. CASE pending # None /\ CheckAndPublish(pending.uri, pending.src)
           /\ pending' = None /\ UNCHANGED <<docs, work, missed>>
  <2>1. /\ pub'[pending.uri] # None /\ pub'[pending.uri].src = pending.src
        /\ \A v \in Uris \ {pending.uri} : pub'[v] = pub[v]
        /\ pending.src # None
    BY <1>2, <1>p, <1>n, CheckType
  <2>2. ASSUME NEW v \in Uris PROVE DocInv(v)'
    <3>1. CASE v = pending.uri
      BY <1>2, <1>i, <2>1, <3>1 DEF DocInv, Right, PendingFor
    <3>2. CASE v # pending.uri
      BY <1>2, <1>i, <2>1, <3>2 DEF DocInv, Right, PendingFor
    <3> QED BY <3>1, <3>2
  <2> QED BY <1>2, <1>i, <2>2 DEF CurrentInv
<1>3. CASE Publish
  <2>0. work # None /\ CheckAndPublish(work.uri, work.src) /\ work' = None
        /\ UNCHANGED <<docs, pending>>
        /\ missed' = {u \in missed : u # work.uri \/ PendingFor(u)}
    BY <1>0, <1>3 DEF Publish, timer
  <2>1. /\ pub'[work.uri] # None /\ pub'[work.uri].src = docs[work.uri]
        /\ \A v \in Uris \ {work.uri} : pub'[v] = pub[v]
        /\ docs[work.uri] # None
    BY <1>p, <1>n, <1>i, <2>0, CheckType
  <2>2. ASSUME NEW v \in Uris PROVE DocInv(v)'
    <3>0. PendingFor(v)' <=> PendingFor(v)
      BY <2>0 DEF PendingFor
    <3>1. CASE v = work.uri
      <4>1. Right(v)'
        BY <2>0, <2>1, <3>1 DEF Right
      <4>2. PendingFor(v) /\ v \notin missed' => docs'[v] = pending'.src
        BY <1>i, <2>0, <3>1 DEF DocInv
      <4> QED BY <3>0, <4>1, <4>2 DEF DocInv
    <3>2. CASE v # work.uri
      <4>1. (v \in missed' <=> v \in missed) /\ (Right(v) => Right(v)')
        BY <2>0, <2>1, <3>2 DEF Right
      <4> QED BY <1>i, <2>0, <3>0, <4>1 DEF DocInv
    <3> QED BY <3>1, <3>2
  <2> QED BY <2>0, <2>2 DEF CurrentInv
<1>r. ASSUME NEW cached, RebuildContext(cached), NEW v \in Uris
      PROVE  /\ pub'[v] = None <=> pub[v] = None
             /\ pub[v] # None => pub'[v].src = pub[v].src
  <2>1. pub' = pub \/ pub'[v] = Older(pub[v])
    BY <1>r DEF RebuildContext
  <2>2. CASE pub' = pub \/ pub[v] = None
    BY <2>1, <2>2 DEF Older
  <2>3. CASE pub' # pub /\ pub[v] # None
    <3>0. pub[v] \in OrNone(Checks)
      BY <1>0
    <3>1. pub[v] \in Checks /\ pub'[v] = [pub[v] EXCEPT !.cur = FALSE]
      BY <2>1, <2>3, <3>0 DEF Older, OrNone
    <3>2. pub'[v] \in Checks /\ pub'[v].src = pub[v].src
      BY <3>1 DEF Checks
    <3> QED BY <1>n, <2>3, <3>2
  <2> QED BY <2>2, <2>3
<1>4. ASSUME NEW u \in Uris, NEW t \in Texts, DidOpen(u, t) PROVE CurrentInv'
  <2>1. /\ docs[u] = None
        /\ docs' = [docs EXCEPT ![u] = t] /\ RebuildContext(Without(diags, u))
        /\ work' = [uri |-> u, src |-> t, given |-> TRUE] /\ pending' = pending
        /\ work = None /\ missed' = missed
    BY <1>0, <1>4 DEF DidOpen, timer, AtMessage
  <2>2. work'.uri = u /\ work'.src = t /\ work' # None
    <3>1. work' \in Works
      BY <2>1 DEF Works
    <3> QED BY <1>n, <2>1, <3>1
  <2>3. /\ docs'[u] = t /\ t # None
        /\ \A v \in Uris \ {u} : docs'[v] = docs[v]
    BY <1>0, <1>n, <2>1
  <2>5. \A v \in Uris : /\ pub'[v] = None <=> pub[v] = None
                        /\ pub[v] # None => pub'[v].src = pub[v].src
    BY <1>r, <2>1
  <2>6. ASSUME NEW v \in Uris PROVE DocInv(v)'
    <3>0. PendingFor(v)' <=> PendingFor(v)
      BY <2>1 DEF PendingFor
    <3>1. CASE v = u
      <4>1. Right(v)'
        BY <2>2, <2>3, <3>1 DEF Right
      <4>2. PendingFor(v) => v \in missed
        BY <1>i, <1>n, <1>p, <2>1, <3>1 DEF DocInv, PendingFor
      <4> QED BY <2>1, <3>0, <4>1, <4>2 DEF DocInv
    <3>2. CASE v # u
      <4>1. Right(v) => Right(v)'
        BY <2>1, <2>3, <2>5, <3>2 DEF Right
      <4> QED BY <1>i, <2>1, <2>3, <3>0, <3>2, <4>1 DEF DocInv
    <3> QED BY <3>1, <3>2
  <2> QED BY <2>2, <2>3, <2>6 DEF CurrentInv
<1>5. ASSUME NEW u \in Uris, NEW given \in BOOLEAN, DidSave(u, given) PROVE CurrentInv'
  <2>1. /\ docs[u] # None /\ docs' = docs /\ pending' = pending /\ work = None
        /\ work' = [uri |-> u, src |-> docs[u], given |-> given]
        /\ RebuildContext(IF given THEN Without(diags, u) ELSE diags)
        /\ missed' = missed
    BY <1>0, <1>5 DEF DidSave, timer, AtMessage
  <2>2. work'.uri = u /\ work'.src = docs[u] /\ work' # None
    <3>1. work' \in Works
      BY <1>a, <2>1 DEF Works
    <3> QED BY <1>n, <2>1, <3>1
  <2>5. \A v \in Uris : /\ pub'[v] = None <=> pub[v] = None
                        /\ pub[v] # None => pub'[v].src = pub[v].src
    BY <1>r, <2>1
  <2>6. ASSUME NEW v \in Uris PROVE DocInv(v)'
    <3>0. PendingFor(v)' <=> PendingFor(v)
      BY <2>1 DEF PendingFor
    <3>1. Right(v) => Right(v)'
      BY <2>1, <2>2, <2>5 DEF Right
    <3> QED BY <1>i, <2>1, <3>0, <3>1 DEF DocInv
  <2> QED BY <2>1, <2>2, <2>6 DEF CurrentInv
<1>6. ASSUME NEW u \in Uris, NEW t \in Texts, DidChange(u, t) PROVE CurrentInv'
  <2>1. /\ docs[u] # None /\ docs' = [docs EXCEPT ![u] = t]
        /\ pending' = [uri |-> u, src |-> t] /\ work' = work /\ work = None
        /\ pub' = pub /\ missed' = MissedByChange(u)
    BY <1>0, <1>6 DEF DidChange, AtMessage
  <2>2. pending'.uri = u /\ pending'.src = t /\ pending' # None
    <3>1. pending' \in DocTexts
      BY <2>1 DEF DocTexts
    <3> QED BY <1>n, <2>1, <3>1
  <2>3. /\ docs'[u] = t /\ t # None
        /\ \A v \in Uris \ {u} : docs'[v] = docs[v]
    BY <1>0, <1>n, <2>1
  <2>4. ASSUME NEW v \in Uris PROVE DocInv(v)'
    <3>1. CASE v = u
      <4>1. v \notin missed' /\ PendingFor(v)'
        BY <2>1, <2>2, <3>1 DEF MissedByChange, PendingFor
      <4> QED BY <2>2, <2>3, <3>1, <4>1 DEF DocInv
    <3>2. CASE v # u
      <4>1. ~PendingFor(v)'
        BY <2>2, <3>2 DEF PendingFor
      <4>2. v \notin missed' => Right(v)
        BY <1>i, <2>1, <3>2 DEF MissedByChange, DocInv
      <4>3. Right(v) => Right(v)'
        BY <2>1, <2>3, <3>2 DEF Right
      <4> QED BY <4>1, <4>2, <4>3 DEF DocInv
    <3> QED BY <3>1, <3>2
  <2> QED BY <2>1, <2>4 DEF CurrentInv
<1>7. ASSUME NEW u \in Uris, DidClose(u) PROVE CurrentInv'
  <2>1. /\ docs[u] # None /\ docs' = [docs EXCEPT ![u] = None]
        /\ pub' = [pub EXCEPT ![u] = None] /\ pending' = pending
        /\ work' = work /\ work = None
        /\ missed' = IF PendingFor(u) THEN missed \cup {u} ELSE missed \ {u}
    BY <1>0, <1>7 DEF DidClose, AtMessage, Without, timer
  <2>2. /\ docs'[u] = None /\ pub'[u] = None
        /\ \A v \in Uris \ {u} : docs'[v] = docs[v] /\ pub'[v] = pub[v]
    BY <1>0, <2>1
  <2>3. ASSUME NEW v \in Uris PROVE DocInv(v)'
    <3>0. PendingFor(v)' <=> PendingFor(v)
      BY <2>1 DEF PendingFor
    <3>1. CASE v = u
      BY <2>1, <2>2, <3>0, <3>1 DEF DocInv, Right
    <3>2. CASE v # u
      <4>1. (v \in missed' <=> v \in missed) /\ (Right(v) => Right(v)')
        BY <2>1, <2>2, <3>2 DEF Right
      <4> QED BY <1>i, <2>1, <2>2, <3>0, <3>2, <4>1 DEF DocInv
    <3> QED BY <3>1, <3>2
  <2> QED BY <2>1, <2>3 DEF CurrentInv
<1>8. CASE DispatchFlushes \/ InnerFlush
  BY <1>2, <1>8 DEF DispatchFlushes, InnerFlush, FlushPending
<1>9. CASE WindowElapses \/ Ignored \/ UNCHANGED vars
  BY <1>1, <1>9 DEF WindowElapses, Ignored, vars, timer
<1>10. CASE \E u \in Uris : Navigate(u) \/ SignatureHelp(u) \/ SemanticTokens(u)
  BY <1>1, <1>10 DEF Navigate, SignatureHelp, SemanticTokens, timer
<1> QED BY <1>3, <1>4, <1>5, <1>6, <1>7, <1>8, <1>9, <1>10 DEF Next, Message

(* Whatever the client sends, a document with no check pending shows the     *)
(* diagnostics of its own text, or none when it is closed, unless its check  *)
(* was overwritten by another document's or had outlived its closing.        *)
THEOREM DiagnosticsStayCurrent == Spec => []DiagnosticsCurrent
<1>1. Init => TypeOK /\ CurrentInv
  BY DEF Init, TypeOK, OrNone, CurrentInv, DocInv, Right, PendingFor
<1>2. TypeOK /\ CurrentInv /\ [Next]_vars => (TypeOK /\ CurrentInv)'
  BY TypeStep, CurrentStep
<1>3. TypeOK /\ CurrentInv => DiagnosticsCurrent
  BY DEF TypeOK, CurrentInv, DiagnosticsCurrent, DocInv, Right
<1> QED BY <1>1, <1>2, <1>3, PTL DEF Spec

-----------------------------------------------------------------------------
(* While a publish whose message carried the text is under way, what is      *)
(* cached for its document was checked with the rebuilt context.             *)
AfreshInv ==
    work # None /\ work.given /\ diags[work.uri] # None =>
        diags[work.uri].cur /\ (diags[work.uri].sem => valid)

(* Every step keeps it; only InnerFlush can write that cache entry meanwhile. *)
LEMMA AfreshStep == TypeOK /\ AfreshInv /\ [Next]_vars => AfreshInv'
<1> SUFFICES ASSUME TypeOK, AfreshInv, [Next]_vars PROVE AfreshInv'
  OBVIOUS
<1>0. /\ diags \in [Uris -> OrNone(Checks)] /\ valid \in BOOLEAN
      /\ pending \in OrNone(DocTexts) /\ work \in OrNone(Works)
      /\ (work # None <=> pc = "publish")
  BY DEF TypeOK
<1>1. CASE work' = None
  BY <1>1 DEF AfreshInv
<1>2. CASE InnerFlush
  <2>1. /\ pending # None /\ CheckAndPublish(pending.uri, pending.src)
        /\ UNCHANGED <<work, valid>> /\ work # None
    BY <1>0, <1>2 DEF InnerFlush, FlushPending
  <2>2. pending.uri \in Uris /\ pending.src \in Texts /\ work.uri \in Uris
    BY <1>0, <2>1 DEF OrNone, DocTexts, Works
  <2>3. /\ \A v \in Uris \ {pending.uri} : diags'[v] = diags[v]
        /\ \/ diags'[pending.uri] = diags[pending.uri]
           \/ diags'[pending.uri].cur /\ diags'[pending.uri].sem = valid
    BY <2>1, <2>2, CheckType
  <2> QED BY <2>1, <2>2, <2>3 DEF AfreshInv
<1>3. ASSUME NEW u \in Uris, NEW given \in BOOLEAN, NEW t,
             work' = [uri |-> u, src |-> t, given |-> given],
             given => RebuildContext(Without(diags, u))
      PROVE  AfreshInv'
  <2>1. CASE given
    <3>1. diags'[u] = Older(Without(diags, u)[u]) \/ diags' = Without(diags, u)
      BY <1>3, <2>1 DEF RebuildContext
    <3>2. Without(diags, u)[u] = None
      BY <1>0 DEF Without
    <3> QED BY <1>3, <3>1, <3>2 DEF Older, AfreshInv
  <2>2. CASE ~given
    BY <1>3, <2>2 DEF AfreshInv
  <2> QED BY <2>1, <2>2
<1>4. CASE \E u \in Uris : \E t \in Texts : DidOpen(u, t)
  BY <1>3, <1>4 DEF DidOpen
<1>5. CASE \E u \in Uris : \E given \in BOOLEAN : DidSave(u, given)
  <2>1. PICK u \in Uris, given \in BOOLEAN : DidSave(u, given)
    BY <1>5
  <2>2. /\ work' = [uri |-> u, src |-> docs[u], given |-> given]
        /\ given => RebuildContext(Without(diags, u))
    BY <2>1 DEF DidSave
  <2> QED BY <1>3, <2>2
<1>6. CASE UNCHANGED vars
  BY <1>6 DEF vars, caches, AfreshInv
<1>7. CASE Publish
  BY <1>1, <1>7 DEF Publish
<1>8. CASE \/ WindowElapses \/ DispatchFlushes \/ Ignored
           \/ \E u \in Uris : \/ \E t \in Texts : DidChange(u, t)
                              \/ DidClose(u) \/ Navigate(u)
                              \/ SignatureHelp(u) \/ SemanticTokens(u)
  <2>1. work' = work /\ pc # "publish"
    BY <1>8 DEF WindowElapses, DispatchFlushes, Ignored, DidChange, DidClose, Navigate,
                SignatureHelp, SemanticTokens, AtMessage
  <2> QED BY <1>0, <1>1, <2>1
<1> QED BY <1>2, <1>4, <1>5, <1>6, <1>7, <1>8 DEF Next, Message

(* What didOpen, and didSave with its text, publish was checked with the      *)
(* project context they have just rebuilt, for any client.                   *)
THEOREM SavesCheckAfresh == Spec => SaveChecksAfresh
<1>1. Init => TypeOK /\ AfreshInv
  BY DEF Init, TypeOK, OrNone, AfreshInv
<1>2. TypeOK /\ AfreshInv /\ [Next]_vars => (TypeOK /\ AfreshInv)'
  BY TypeStep, AfreshStep
<1>3. TypeOK /\ AfreshInv /\ [Next]_vars =>
        [pc = "publish" /\ pc' = "idle" /\ work.given =>
            /\ pub'[work.uri].cur
            /\ pub'[work.uri].sem => valid]_vars
  <2> SUFFICES ASSUME TypeOK, AfreshInv, [Next]_vars,
                      pc = "publish", pc' = "idle", work.given
               PROVE  pub'[work.uri].cur /\ (pub'[work.uri].sem => valid)
    OBVIOUS
  <2>1. Publish
    BY DEF Next, Message, vars, WindowElapses, DispatchFlushes, InnerFlush, Ignored, DidOpen,
           DidChange, DidSave, DidClose, Navigate, SignatureHelp, SemanticTokens, AtMessage
  <2>2. work # None /\ work \in OrNone(Works) /\ CheckAndPublish(work.uri, work.src)
    BY <2>1 DEF TypeOK, Publish
  <2>3. work.uri \in Uris /\ work.src \in Texts
    BY <2>2 DEF OrNone, Works
  <2>4. \/ CachedCheck(work.uri, work.src) /\ pub'[work.uri] = diags[work.uri]
        \/ pub'[work.uri].cur /\ (pub'[work.uri].sem => valid)
    BY <2>2, <2>3, CheckType
  <2> QED BY <2>2, <2>4 DEF CachedCheck, AfreshInv
<1> QED BY <1>1, <1>2, <1>3, PTL DEF Spec, SaveChecksAfresh

-----------------------------------------------------------------------------
(* hover, definition and completion are given the parse and the index of the  *)
(* document's current text, for any client.                                  *)
THEOREM AnswersStayCurrent == Spec => AnswersCurrent
<1>1. Init => TypeOK
  BY DEF Init, TypeOK, OrNone
<1>2. TypeOK /\ [Next]_vars => TypeOK'
  BY TypeStep
<1>3. TypeOK /\ [Next]_vars =>
        [reply' # reply /\ reply' # None =>
                           /\ reply'.parse.src = docs[reply'.uri]
                           /\ reply'.index.src = docs[reply'.uri]]_vars
  <2> SUFFICES ASSUME TypeOK, [Next]_vars, reply' # reply, reply' # None
               PROVE  /\ reply'.parse.src = docs[reply'.uri]
                      /\ reply'.index.src = docs[reply'.uri]
    OBVIOUS
  <2>1. PICK u \in Uris : Navigate(u)
    BY DEF Next, Message, vars, WindowElapses, DispatchFlushes, InnerFlush, Publish, Ignored,
           DidOpen, DidChange, DidSave, DidClose, SignatureHelp, SemanticTokens
  <2>2. docs[u] \in Texts
    BY <2>1 DEF Navigate, TypeOK, OrNone
  <2>3. Parsed(u, docs[u]).src = docs[u]
    BY <2>2, ParsedType
  <2>4. Indexed(u).src = docs[u]
    BY DEF Indexed
  <2>5. reply' = [uri |-> u, parse |-> Parsed(u, docs[u]), index |-> Indexed(u)]
    BY <2>1 DEF Navigate
  <2> QED BY <2>3, <2>4, <2>5
<1> QED BY <1>1, <1>2, <1>3, PTL DEF Spec, AnswersCurrent
=============================================================================
