------------------------------ MODULE LspDocSync ------------------------------
(***************************************************************************)
(* Document synchronisation of the language server (lsp/LspServer.cpp):      *)
(* the open documents, the caches keyed by document and source text, the     *)
(* debounced check a didChange leaves behind, and the diagnostics the client *)
(* shows.  The server is one thread that handles a message at a time; before *)
(* each message, and inside each publish, it flushes the deferred check if   *)
(* the debounce window has elapsed.                                          *)
(*                                                                          *)
(* Texts are not empty.  What a provider answers, and which files the        *)
(* project context reads, are left out: a context is known by when it was    *)
(* built.                                                                    *)
(***************************************************************************)
EXTENDS Integers, FiniteSets

CONSTANTS Uris,      \* documents
          Texts,     \* what a document may contain
          None       \* no document, cache entry, diagnostics or pending check

VARIABLES
    docs,       \* documents_: the text of each open document
    parse,      \* parseCache_: source and identity of the cached parse
    index,      \* docIndexCache_: source, and the parse it borrows from
    tokens,     \* cachedTokens_: the source of the cached tokens
    diags,      \* cachedDiags_
    valid,      \* projectContext_.isValid()
    pending,    \* pendingUri_, pendingSource_
    due,        \* the debounce window of the pending check has elapsed
    pub,        \* the diagnostics the client shows for each document
    pc,         \* "idle", "flushed" or "publish"
    work,       \* the document and text being published; given: with the message
    reply,      \* what the request just handled gave its provider
    missed      \* history: documents whose check was overwritten or outlived them

caches == <<parse, index, tokens, diags>>
timer  == <<pending, due>>
vars   == <<docs, caches, valid, timer, pub, pc, work, reply, missed>>

(* The identity of a parse: a new one is neither the one it replaces nor the *)
(* one an index was built from, even where its address is reused.            *)
ParseIds == 1 .. 3

(* What a check of text src found: with the context of the last rebuild or   *)
(* an older one, and with semantic checks or syntax errors only.             *)
Checks   == [src : Texts, cur : BOOLEAN, sem : BOOLEAN]
DocTexts == [uri : Uris, src : Texts]
Works    == [uri : Uris, src : Texts, given : BOOLEAN]

ASSUME LspAssumption == None \notin Texts \cup Checks \cup DocTexts \cup Works

Init ==
    /\ docs = [u \in Uris |-> None]
    /\ parse = [u \in Uris |-> None]
    /\ index = [u \in Uris |-> None]
    /\ tokens = [u \in Uris |-> None]
    /\ diags = [u \in Uris |-> None]
    /\ valid = FALSE
    /\ pending = None /\ due = FALSE
    /\ pub = [u \in Uris |-> None]
    /\ pc = "idle" /\ work = None /\ reply = None /\ missed = {}

Without(cache, u) == [cache EXCEPT ![u] = None]

-----------------------------------------------------------------------------
(* ParseCache. *)

HasParse(u, t) == parse[u] # None /\ parse[u].src = t

NewParse(u) ==
    CHOOSE i \in ParseIds : /\ parse[u] # None => i # parse[u].id
                            /\ index[u] # None => i # index[u].of

(* Mutant: the cached parse is returned whatever its source. *)
ParsedAnySource(u, t) ==
    IF parse[u] # None THEN parse[u] ELSE [src |-> t, id |-> NewParse(u)]

(* The entry getOrParse leaves and returns. *)
Parsed(u, t) ==
    IF HasParse(u, t) THEN parse[u] ELSE [src |-> t, id |-> NewParse(u)]

GetOrParse(u, t) == parse' = [parse EXCEPT ![u] = Parsed(u, t)]

-----------------------------------------------------------------------------
(* publishDiagnostics: cached for this source, or checked now.  A check that *)
(* throws publishes an empty list and caches nothing.                        *)
CachedCheck(u, t) == diags[u] # None /\ diags[u].src = t

CheckAndPublish(u, t) ==
    \/ /\ CachedCheck(u, t)
       /\ pub' = [pub EXCEPT ![u] = diags[u]]
       /\ UNCHANGED <<parse, diags>>
    \/ /\ ~CachedCheck(u, t)
       /\ GetOrParse(u, t)
       /\ LET found == [src |-> t, cur |-> TRUE, sem |-> valid] IN
              /\ diags' = [diags EXCEPT ![u] = found]
              /\ pub' = [pub EXCEPT ![u] = found]
    \/ /\ ~CachedCheck(u, t)
       /\ GetOrParse(u, t)
       /\ pub' = [pub EXCEPT ![u] = [src |-> t, cur |-> TRUE, sem |-> FALSE]]
       /\ UNCHANGED diags

(* Mutant: the window of the flushed check stays elapsed. *)
FlushPendingStaysDue ==
    /\ pending # None
    /\ CheckAndPublish(pending.uri, pending.src)
    /\ pending' = None /\ UNCHANGED due

FlushPending ==
    /\ pending # None
    /\ CheckAndPublish(pending.uri, pending.src)
    /\ pending' = None /\ due' = FALSE

(* The debounce window elapses. *)
WindowElapses ==
    /\ pc = "idle" /\ pending # None /\ ~due
    /\ due' = TRUE
    /\ UNCHANGED <<docs, caches, valid, pending, pub, pc, work, missed>> /\ reply' = None

(* A message arrives: dispatch flushes first. *)
DispatchFlushes ==
    /\ pc = "idle" /\ due
    /\ FlushPending
    /\ pc' = "flushed"
    /\ UNCHANGED <<docs, index, tokens, valid, work, missed>> /\ reply' = None

(* dispatch has come to the message itself. *)
AtMessage == pc = "flushed" \/ (pc = "idle" /\ ~due)

-----------------------------------------------------------------------------
(* Document synchronisation. *)

PendingFor(u) == pending # None /\ pending.uri = u

(* rebuildContext with force: outside a project nothing is rebuilt.  In one, *)
(* every earlier check was made with an older context.  The build may fail.  *)
Older(c) == IF c = None THEN None ELSE [c EXCEPT !.cur = FALSE]

RebuildContext(cached) ==
    \/ diags' = cached /\ UNCHANGED <<valid, pub>>
    \/ /\ valid' \in BOOLEAN
       /\ diags' = [u \in Uris |-> Older(cached[u])]
       /\ pub' = [u \in Uris |-> Older(pub[u])]

ForgetDoc(u) ==
    /\ parse' = Without(parse, u)
    /\ index' = Without(index, u)
    /\ tokens' = Without(tokens, u)

DidOpen(u, t) ==
    /\ AtMessage /\ docs[u] = None
    /\ docs' = [docs EXCEPT ![u] = t]
    /\ ForgetDoc(u)
    /\ RebuildContext(Without(diags, u))
    /\ pc' = "publish"
    /\ work' = [uri |-> u, src |-> t, given |-> TRUE]
    /\ UNCHANGED <<timer, missed>> /\ reply' = None

(* Mutant: the text of a save is stored and only the parse forgotten. *)
DidSaveKeepsDiags(u, given) ==
    /\ AtMessage /\ docs[u] # None
    /\ IF given THEN ForgetDoc(u) ELSE UNCHANGED <<parse, index, tokens>>
    /\ RebuildContext(diags)
    /\ pc' = "publish"
    /\ work' = [uri |-> u, src |-> docs[u], given |-> given]
    /\ UNCHANGED <<docs, timer, missed>> /\ reply' = None

(* didSave, with the text the server asks for or without.  With it the       *)
(* caches of the document are erased.                                        *)
DidSave(u, given) ==
    /\ AtMessage /\ docs[u] # None
    /\ IF given THEN ForgetDoc(u) ELSE UNCHANGED <<parse, index, tokens>>
    /\ RebuildContext(IF given THEN Without(diags, u) ELSE diags)
    /\ pc' = "publish"
    /\ work' = [uri |-> u, src |-> docs[u], given |-> given]
    /\ UNCHANGED <<docs, timer, missed>> /\ reply' = None

(* publishDiagnostics flushes a check whose window has elapsed meanwhile, ... *)
InnerFlush ==
    /\ pc = "publish"
    /\ FlushPending
    /\ UNCHANGED <<docs, index, tokens, valid, pc, work, missed>> /\ reply' = None

(* ... then publishes what it was called with. *)
Publish ==
    /\ pc = "publish"
    /\ CheckAndPublish(work.uri, work.src)
    /\ missed' = {u \in missed : u # work.uri \/ PendingFor(u)}
    /\ pc' = "idle" /\ work' = None
    /\ UNCHANGED <<docs, index, tokens, valid, timer>> /\ reply' = None

(* There is one slot for the pending check: a change of u overwrites that of *)
(* another document, which is lost, or was a check that had outlived it.     *)
MissedByChange(u) ==
    {v \in Uris \ {u} : IF PendingFor(v) THEN v \notin missed ELSE v \in missed}

(* Mutant: the window of an earlier change goes on, with its text. *)
DidChangeKeepsPending(u, t) ==
    /\ AtMessage /\ docs[u] # None
    /\ docs' = [docs EXCEPT ![u] = t]
    /\ tokens' = Without(tokens, u)
    /\ diags' = Without(diags, u)
    /\ GetOrParse(u, t)
    /\ pending' = IF pending = None THEN [uri |-> u, src |-> t] ELSE pending
    /\ due' = FALSE
    /\ missed' = MissedByChange(u)
    /\ pc' = "idle"
    /\ UNCHANGED <<index, valid, pub, work>> /\ reply' = None

(* didChange parses at once and schedules the check. *)
DidChange(u, t) ==
    /\ AtMessage /\ docs[u] # None
    /\ docs' = [docs EXCEPT ![u] = t]
    /\ tokens' = Without(tokens, u)
    /\ diags' = Without(diags, u)
    /\ GetOrParse(u, t)
    /\ pending' = [uri |-> u, src |-> t]
    /\ due' = FALSE
    /\ missed' = MissedByChange(u)
    /\ pc' = "idle"
    /\ UNCHANGED <<index, valid, pub, work>> /\ reply' = None

(* didClose leaves the pending check of the document where it is. *)
DidClose(u) ==
    /\ AtMessage /\ docs[u] # None
    /\ docs' = Without(docs, u)
    /\ ForgetDoc(u)
    /\ diags' = Without(diags, u)
    /\ pub' = Without(pub, u)
    /\ missed' = IF PendingFor(u) THEN missed \cup {u} ELSE missed \ {u}
    /\ pc' = "idle"
    /\ UNCHANGED <<valid, timer, work>> /\ reply' = None

-----------------------------------------------------------------------------
(* Requests. *)

(* getDocumentIndex: cached for this source, or built from the parse. *)
Indexed(u) ==
    IF index[u] # None /\ index[u].src = docs[u]
    THEN index[u]
    ELSE [src |-> docs[u], of |-> Parsed(u, docs[u]).id]

(* hover, definition and completion. *)
Navigate(u) ==
    /\ AtMessage /\ docs[u] # None
    /\ GetOrParse(u, docs[u])
    /\ index' = [index EXCEPT ![u] = Indexed(u)]
    /\ reply' = [uri |-> u, parse |-> Parsed(u, docs[u]), index |-> Indexed(u)]
    /\ pc' = "idle"
    /\ UNCHANGED <<docs, tokens, diags, valid, timer, pub, work, missed>>

SignatureHelp(u) ==
    /\ AtMessage /\ docs[u] # None
    /\ GetOrParse(u, docs[u])
    /\ pc' = "idle"
    /\ UNCHANGED <<docs, index, tokens, diags, valid, timer, pub, work, missed>> /\ reply' = None

SemanticTokens(u) ==
    /\ AtMessage /\ docs[u] # None
    /\ \/ tokens[u] = docs[u] /\ UNCHANGED <<parse, tokens>>
       \/ /\ tokens[u] # docs[u]
          /\ GetOrParse(u, docs[u])
          /\ tokens' = [tokens EXCEPT ![u] = docs[u]]
    /\ pc' = "idle"
    /\ UNCHANGED <<docs, index, diags, valid, timer, pub, work, missed>> /\ reply' = None

(* A message that changes nothing: an unknown method, a request for a        *)
(* document that is not open, a didChange without changes.                   *)
Ignored ==
    /\ pc = "flushed"
    /\ pc' = "idle"
    /\ UNCHANGED <<docs, caches, valid, timer, pub, work, missed>> /\ reply' = None

-----------------------------------------------------------------------------
Message ==
    \/ \E u \in Uris :
          \/ \E t \in Texts : DidOpen(u, t) \/ DidChange(u, t)
          \/ (\E given \in BOOLEAN : DidSave(u, given)) \/ DidClose(u)
          \/ Navigate(u) \/ SignatureHelp(u) \/ SemanticTokens(u)
    \/ Ignored

Next == WindowElapses \/ DispatchFlushes \/ Message \/ InnerFlush \/ Publish

Spec == Init /\ [][Next]_vars

-----------------------------------------------------------------------------
(* Properties. *)

OrNone(S) == S \cup {None}

(* The server's fields hold documents, cache entries and one pending check. *)
TypeOK ==
    /\ docs \in [Uris -> OrNone(Texts)]
    /\ parse \in [Uris -> OrNone([src : Texts, id : ParseIds])]
    /\ index \in [Uris -> OrNone([src : Texts, of : ParseIds])]
    /\ tokens \in [Uris -> OrNone(Texts)]
    /\ diags \in [Uris -> OrNone(Checks)]
    /\ valid \in BOOLEAN
    /\ pending \in OrNone(DocTexts)
    /\ due \in BOOLEAN /\ (due => pending # None)
    /\ pub \in [Uris -> OrNone(Checks)]
    /\ pc \in {"idle", "flushed", "publish"}
    /\ work \in OrNone(Works) /\ (work # None <=> pc = "publish")
    /\ reply \in OrNone([uri : Uris, parse : [src : Texts, id : ParseIds],
                         index : [src : Texts, of : ParseIds]])
    /\ missed \in SUBSET Uris

(* "didChange schedules a check; the server flushes it at the next dispatch  *)
(* once the debounce window elapsed": an open document with no check pending *)
(* shows the diagnostics of its own text, and a closed one none.  Two orders *)
(* of messages alone break it.  The change of another document overwrites    *)
(* the pending check of this one, which shows the diagnostics of an older    *)
(* text until it is next changed, saved or closed; or the document is closed *)
(* while its check is pending, which then shows diagnostics of a closed      *)
(* document, or of the former text of a reopened one.                        *)
DiagnosticsCurrent ==
    pc = "idle" =>
        \A u \in Uris \ missed :
            \/ PendingFor(u)
            \/ IF docs[u] = None THEN pub[u] = None
               ELSE pub[u] # None /\ pub[u].src = docs[u]

(* "Rebuild project context on save (files may have changed)": what didOpen, *)
(* and didSave with its text, publish was checked with the context they have *)
(* just rebuilt, whatever was cached before or flushed in between.           *)
SaveChecksAfresh ==
    [][pc = "publish" /\ pc' = "idle" /\ work.given =>
          /\ pub'[work.uri].cur
          /\ pub'[work.uri].sem => valid]_vars

(* hover, definition and completion are given the parse and the index of the *)
(* document's current text, whatever a late flush has left in the caches.    *)
AnswersCurrent ==
    [][reply' # reply /\ reply' # None =>
          /\ reply'.parse.src = docs[reply'.uri]
          /\ reply'.index.src = docs[reply'.uri]]_vars

(* "it must not outlive the parse it was built from. The server keeps both   *)
(* alive for the same document": the index a provider is given borrows from  *)
(* the parse that is cached, not from one that has been freed.               *)
IndexBorrowsLiveParse ==
    reply # None => reply.index.of = reply.parse.id
=============================================================================
