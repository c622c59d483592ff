----------------------------- MODULE AnswerCache -----------------------------
(***************************************************************************)
(* POST /query with the answer cache on, beside the writers of Documents.  *)
(* The question, the settings and the other parts of the cache key that do *)
(* not change are left out: an answer is what it shows of the corpus, and  *)
(* every arm of the search finds all it may see, so that nothing is right  *)
(* only because a limit cut it off. A query that fails or is given up is   *)
(* one that takes no further step.                                         *)
(***************************************************************************)
EXTENDS Documents

CONSTANT Query      \* the queries, each asked once

VARIABLES
    qpc,        \* the next step of a query
    scope,      \* the access groups it was asked with, None for no scope
    qversion,   \* the corpus version it read first, part of its cache key
    answer,     \* what it has found so far, and in the end shows
    deleted,    \* the DELETEs all done with when it was asked
    cache       \* the answers in Redis: [version, scope, answer], one per key

queryVars == <<qpc, scope, qversion, answer, deleted, cache>>
cacheVars == <<vars, queryVars>>

Scopes == {None} \cup AccessLists
Found == [row : Req, title : Titles, text : Texts, groups : AccessLists]

CacheInit ==
    /\ Init
    /\ qpc = [q \in Query |-> "idle"]
    /\ scope = [q \in Query |-> None]
    /\ qversion = [q \in Query |-> 0]
    /\ answer = [q \in Query |-> {}]
    /\ deleted = [q \in Query |-> {}]
    /\ cache = {}

QueryGoto(q, step) == qpc' = [qpc EXCEPT ![q] = step]

Deletes == {r \in Req : call[r] # None /\ call[r].kind \in {"delete", "delete_external"}}

\* Answered DELETEs of rows that no other DELETE has still to count the version up for.
DeletesDone ==
    {r \in Deletes : /\ pc[r] = "ok"
                    /\ \A other \in Deletes : target[other] = target[r] => pc[other] # "bump"}

\* The request arrives, and reads corpus_version before anything else.
Ask(q) ==
    /\ qpc[q] = "idle"
    /\ \E s \in Scopes : scope' = [scope EXCEPT ![q] = s]
    /\ qversion' = [qversion EXCEPT ![q] = version]
    /\ deleted' = [deleted EXCEPT ![q] = DeletesDone]
    /\ QueryGoto(q, "lookup")
    /\ UNCHANGED <<vars, answer, cache>>

\* Mutants of Entry: the key leaves out the scope, or the version.
EntryOfVersion(q) == {e \in cache : e.version = qversion[q]}
EntryOfScope(q) == {e \in cache : e.scope = scope[q]}

\* The key holds the version and the scope of the query (_scope_key).
Entry(q) == {e \in cache : e.version = qversion[q] /\ e.scope = scope[q]}

LookUp(q) ==
    /\ qpc[q] = "lookup"
    /\ \/ \E e \in Entry(q) : answer' = [answer EXCEPT ![q] = e.answer] /\ QueryGoto(q, "answered")
       \/ Entry(q) = {} /\ QueryGoto(q, "vector") /\ UNCHANGED answer
    /\ UNCHANGED <<vars, scope, qversion, deleted, cache>>

\* retrieval._in_groups: no scope sees everything, an empty one nothing.
InGroups(chunk, s) == s = None \/ chunk.groups \cap s # {}

\* What one SELECT finds now. A row or chunk the session has loaded before is not loaded
\* again: it keeps the title and the groups of the first time.
Title(q, u) == IF \E i \in answer[q] : i.row = u
                  THEN (CHOOSE i \in answer[q] : i.row = u).title
                  ELSE doc[u].filename
NewChunks(q, u) ==
    {k \in doc[u].chunks : /\ InGroups(k, scope[q])
                           /\ ~\E i \in answer[q] : i.row = u /\ i.text = k.text}
Finds(q, rows) ==
    UNION {{[row |-> u, title |-> Title(q, u), text |-> chunk.text, groups |-> chunk.groups] :
                chunk \in NewChunks(q, u)} : u \in rows}

\* The arms of hybrid_search_with_provenance, then fetch_neighbours: three statements, each
\* with a snapshot of its own.
VectorSearch(q) ==
    /\ qpc[q] = "vector"
    /\ answer' = [answer EXCEPT ![q] = @ \cup Finds(q, Live)]
    /\ QueryGoto(q, "keyword")
    /\ UNCHANGED <<vars, scope, qversion, deleted, cache>>

KeywordSearch(q) ==
    /\ qpc[q] = "keyword"
    /\ answer' = [answer EXCEPT ![q] = @ \cup Finds(q, Live)]
    /\ QueryGoto(q, "neighbours")
    /\ UNCHANGED <<vars, scope, qversion, deleted, cache>>

FetchNeighbours(q) ==
    /\ qpc[q] = "neighbours"
    /\ answer' = [answer EXCEPT ![q] = @ \cup Finds(q, {u \in Live : \E i \in @ : i.row = u})]
    /\ QueryGoto(q, "store")
    /\ UNCHANGED <<vars, scope, qversion, deleted, cache>>

\* cache.set, under the version read at the start.
Remember(q) ==
    /\ qpc[q] = "store"
    /\ cache' = (cache \ Entry(q))
                   \cup {[version |-> qversion[q], scope |-> scope[q], answer |-> answer[q]]}
    /\ QueryGoto(q, "answered")
    /\ UNCHANGED <<vars, scope, qversion, answer, deleted>>

QueryStep(q) ==
    \/ Ask(q) \/ LookUp(q) \/ VectorSearch(q) \/ KeywordSearch(q) \/ FetchNeighbours(q) \/ Remember(q)

CacheNext == \/ Next /\ UNCHANGED queryVars
             \/ \E q \in Query : QueryStep(q)

CacheSpec == CacheInit /\ [][CacheNext]_cacheVars

-----------------------------------------------------------------------------
(* Properties. *)

\* "An answer built from one group's documents could be served to a caller in another"
\* (query.py:94): whatever a query shows was within its own scope when it was found, be it by
\* the query or by the one that filled the cache.
AnswersWithinScope ==
    \A q \in Query : \A i \in answer[q] : scope[q] = None \/ i.groups \cap scope[q] # {}

\* Entries a query asked now would be served.
CurrentEntries == {e \in cache : e.version = version}

\* "No cached answer built under the old groups is served again" (ingestion.py:118): once every
\* change of groups and every DELETE has counted the version up, what an entry of the current
\* version shows is still there and still within the entry's scope.
AccessChangesInvalidate ==
    (\A r \in Req : pc[r] # "bump") =>
        \A e \in CurrentEntries : \A i \in e.answer :
            /\ doc[i.row] # None
            /\ e.scope = None \/ doc[i.row].access_groups \cap e.scope # {}

\* A query asked after a DELETE was answered does not show its row, from the cache or not. The
\* second DELETE of a row answers without counting the version up (documents.py:465), so this is
\* claimed once the first one has done that.
DeletedIsNotServed ==
    \A q \in Query : \A i \in answer[q] : \A r \in deleted[q] : i.row # target[r]

\* Counting up "is the right place to invalidate the tenant's answer cache" (ingestion.py:150):
\* once nothing is under way any more, an entry of the current version shows the current
\* titles and texts.
CurrentEntriesAreFresh ==
    (\A r \in Req : pc[r] \in Answers \cup {"idle"} /\ jpc[r] \in {"none", "done"}) =>
        \A e \in CurrentEntries : \A i \in e.answer :
            doc[i.row] # None /\ i.text = doc[i.row].content /\ i.title = doc[i.row].filename

\* "A search sees the old version or the new one, never a mixture" (sync.py:182).
NeverAMixture ==
    \A q \in Query : \A i, j \in answer[q] : i.row = j.row => i.text = j.text
==============================================================================
