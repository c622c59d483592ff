------------------------- MODULE AnswerCache_proofs -------------------------
(***************************************************************************)
(* What queries and the answer cache show, whatever the writers of         *)
(* Documents do meanwhile. That an answer keeps to its scope needs nothing *)
(* of the rows: each statement of the search filters by the query's scope, *)
(* and what the cache holds under a scope was found under it. That changes *)
(* of groups and DELETEs reach the cache needs an account of who has the   *)
(* version still to count up.                                              *)
(***************************************************************************)
EXTENDS AnswerCache, Documents_proofs

USE NoneIsNoRow DEF TypeInv, Goto, Answer, JobGoto, Answers, Open, BeforeRow

Shows(s, found) == \A i \in found : s = None \/ i.groups \cap s # {}

\* AnswersWithinScope holds of every step because a query that has not arrived shows nothing,
\* so that taking on a scope cannot be too late, and because an entry's key names its scope.
WithinInv ==
    /\ qpc \in [Query -> {"idle", "lookup", "vector", "keyword", "neighbours", "store", "answered"}]
    /\ DOMAIN scope = Query
    /\ DOMAIN answer = Query
    /\ \A q \in Query : qpc[q] = "idle" => answer[q] = {}
    /\ \A q \in Query : Shows(scope[q], answer[q])
    /\ \A e \in cache : Shows(e.scope, e.answer)

LEMMA WithinInit == CacheInit => WithinInv
BY DEF CacheInit, WithinInv, Shows

\* What one SELECT finds is within the scope of the query (retrieval.py:31, _in_groups).
LEMMA FindsWithinScope ==
    ASSUME NEW q \in Query, NEW rows
    PROVE  Shows(scope[q], Finds(q, rows))
<1> SUFFICES ASSUME NEW i \in Finds(q, rows)
             PROVE  scope[q] = None \/ i.groups \cap scope[q] # {}
  BY DEF Shows
<1>1. PICK u \in rows : \E chunk \in NewChunks(q, u) : i.groups = chunk.groups
  BY DEF Finds
<1>2. PICK chunk \in NewChunks(q, u) : i.groups = chunk.groups
  BY <1>1
<1> QED
  BY <1>2 DEF NewChunks, InGroups

\* A statement of the search adds what it finds now to what was found before.
LEMMA SearchKeeps ==
    ASSUME WithinInv, NEW q \in Query, NEW rows, NEW step \in {"keyword", "neighbours", "store"},
           qpc[q] # "idle", QueryGoto(q, step), UNCHANGED <<scope, cache>>,
           answer' = [answer EXCEPT ![q] = @ \cup Finds(q, rows)]
    PROVE  WithinInv'
<1>1. Shows(scope[q], answer[q] \cup Finds(q, rows))
  BY FindsWithinScope DEF WithinInv, Shows
<1>2. answer'[q] = answer[q] \cup Finds(q, rows) /\ DOMAIN answer' = Query
  BY DEF WithinInv
<1>3. \A p \in Query \ {q} : answer'[p] = answer[p] /\ qpc'[p] = qpc[p]
  BY DEF WithinInv, QueryGoto
<1>4. qpc'[q] = step
  BY DEF WithinInv, QueryGoto
<1>5. \A p \in Query : Shows(scope'[p], answer'[p])
  BY <1>1, <1>2, <1>3 DEF WithinInv
<1>6. \A p \in Query : qpc'[p] = "idle" => answer'[p] = {}
  BY <1>3, <1>4 DEF WithinInv
<1>7. qpc' \in [Query -> {"idle", "lookup", "vector", "keyword", "neighbours", "store", "answered"}]
  BY DEF WithinInv, QueryGoto
<1> QED
  BY <1>2, <1>5, <1>6, <1>7 DEF WithinInv, Shows

LEMMA WithinAsk ==
    ASSUME WithinInv, NEW q \in Query, Ask(q)
    PROVE  WithinInv'
<1>1. answer[q] = {} /\ UNCHANGED <<answer, cache>> /\ qpc' = [qpc EXCEPT ![q] = "lookup"]
  BY DEF WithinInv, Ask, QueryGoto
<1>2. PICK s \in Scopes : scope' = [scope EXCEPT ![q] = s]
  BY DEF Ask
<1>3. DOMAIN scope' = Query /\ \A p \in Query \ {q} : scope'[p] = scope[p]
  BY <1>2 DEF WithinInv
<1>4. \A p \in Query : Shows(scope'[p], answer'[p])
  BY <1>1, <1>3 DEF WithinInv, Shows
<1> QED
  BY <1>1, <1>3, <1>4 DEF WithinInv, Shows

\* An entry found is one of the query's own scope.
LEMMA WithinLookUp ==
    ASSUME WithinInv, NEW q \in Query, LookUp(q)
    PROVE  WithinInv'
<1>1. qpc[q] = "lookup" /\ UNCHANGED <<scope, cache>>
  BY DEF LookUp
<1>2. CASE \E e \in Entry(q) : answer' = [answer EXCEPT ![q] = e.answer] /\ QueryGoto(q, "answered")
  <2>1. PICK e \in Entry(q) : answer' = [answer EXCEPT ![q] = e.answer] /\ QueryGoto(q, "answered")
    BY <1>2
  <2>2. Shows(scope[q], e.answer)
    BY <2>1 DEF Entry, WithinInv
  <2>3. qpc'[q] = "answered" /\ answer'[q] = e.answer /\ DOMAIN answer' = Query
    BY <2>1 DEF QueryGoto, WithinInv
  <2>4. \A p \in Query \ {q} : answer'[p] = answer[p] /\ qpc'[p] = qpc[p]
    BY <2>1 DEF QueryGoto, WithinInv
  <2>5. \A p \in Query : Shows(scope'[p], answer'[p])
    BY <1>1, <2>2, <2>3, <2>4 DEF WithinInv
  <2>6. qpc' \in [Query -> {"idle", "lookup", "vector", "keyword", "neighbours", "store", "answered"}]
    BY <2>1 DEF QueryGoto, WithinInv
  <2> QED
    BY <1>1, <2>3, <2>4, <2>5, <2>6 DEF WithinInv, Shows
<1>3. CASE QueryGoto(q, "vector") /\ UNCHANGED answer
  BY <1>1, <1>3 DEF WithinInv, QueryGoto, Shows
<1> QED
  BY <1>2, <1>3 DEF LookUp

\* What is stored under a scope was found under it.
LEMMA WithinRemember ==
    ASSUME WithinInv, NEW q \in Query, Remember(q)
    PROVE  WithinInv'
<1>1. UNCHANGED <<scope, answer>> /\ qpc' = [qpc EXCEPT ![q] = "answered"]
  BY DEF Remember, QueryGoto
<1>2. \A e \in cache' : Shows(e.scope, e.answer)
  <2> SUFFICES ASSUME NEW e \in cache'  PROVE Shows(e.scope, e.answer)
    OBVIOUS
  <2>1. e \in cache \/ e = [version |-> qversion[q], scope |-> scope[q], answer |-> answer[q]]
    BY DEF Remember
  <2> QED
    BY <2>1 DEF WithinInv
<1> QED
  BY <1>1, <1>2 DEF WithinInv, Shows

LEMMA WithinStep == WithinInv /\ [CacheNext]_cacheVars => WithinInv'
<1> SUFFICES ASSUME WithinInv, [CacheNext]_cacheVars  PROVE WithinInv'
  OBVIOUS
<1>1. CASE UNCHANGED queryVars
  BY <1>1 DEF WithinInv, queryVars, Shows
<1>2. ASSUME NEW q \in Query, QueryStep(q)  PROVE WithinInv'
  <2>1. CASE VectorSearch(q)
    BY <2>1, SearchKeeps DEF VectorSearch
  <2>2. CASE KeywordSearch(q)
    BY <2>2, SearchKeeps DEF KeywordSearch
  <2>3. CASE FetchNeighbours(q)
    <3> DEFINE rows == {u \in Live : \E i \in answer[q] : i.row = u}
    <3>1. answer' = [answer EXCEPT ![q] = @ \cup Finds(q, rows)]
      BY <2>3 DEF FetchNeighbours
    <3>2. qpc[q] # "idle" /\ QueryGoto(q, "store") /\ UNCHANGED <<scope, cache>>
      BY <2>3 DEF FetchNeighbours
    <3> HIDE DEF rows
    <3> QED
      BY <3>1, <3>2, SearchKeeps
  <2> QED
    BY <1>2, <2>1, <2>2, <2>3, WithinAsk, WithinLookUp, WithinRemember DEF QueryStep
<1> QED
  BY <1>1, <1>2 DEF CacheNext, cacheVars, queryVars

\* No answer, from the cache or not, shows a chunk outside the scope it was asked with, for any
\* number of queries and writers, any groups and any failures.
THEOREM AnswersKeepScope == CacheSpec => []AnswersWithinScope
<1>1. WithinInv => AnswersWithinScope
  BY DEF WithinInv, AnswersWithinScope, Shows
<1> QED
  BY <1>1, WithinInit, WithinStep, PTL DEF CacheSpec

-----------------------------------------------------------------------------
(* What the cache may still serve. A change of groups or a DELETE is        *)
(* followed by a count of the version, in the request that made it; until   *)
(* then the change is owed, and entries of the current version may show     *)
(* what it took away. This holds as long as no such request loses its count *)
(* to a failing Redis or a crash.                                           *)

CountsAreKept == Faults \cap {"cache", "crash"} = {}

\* A transaction that changes the groups of its row will count the version up; a job changes none.
OwedInv ==
    \A q \in Req : doc[target[q]] # None =>
        /\ draft[q] # None /\ draft[q].access_groups # doc[target[q]].access_groups =>
              "bump" \in after[q]
        /\ jdraft[q] # None => jdraft[q].access_groups = doc[target[q]].access_groups

LEMMA OwedStep ==
    ASSUME LockInv, OwedInv, NEW r \in Req, Keeps(r), ShapeOf(r)
    PROVE  OwedInv'
<1>. USE DEF LockInv
<1>. SUFFICES ASSUME NEW q \in Req, doc'[target'[q]] # None, Holds(q)'
              PROVE  /\ draft'[q] # None
                        /\ draft'[q].access_groups # doc'[target'[q]].access_groups =>
                           "bump" \in after'[q]
                     /\ jdraft'[q] # None =>
                           jdraft'[q].access_groups = doc'[target'[q]].access_groups
  BY DEF OwedInv, Holds
<1>1. CASE Holds(q)
  <2>1. target'[q] = target[q] /\ doc'[target[q]] = doc[target[q]]
    <3>. HIDE DEF TypeInv
    <3>. QED BY <1>1, HeldRow
  <2>2. draft[q] # None => after'[q] = after[q]
    BY DEF Keeps, DraftOK
  <2>3. CASE draft'[q] = draft[q] /\ jdraft'[q] = jdraft[q]
    BY <2>1, <2>2, <2>3 DEF OwedInv
  <2>4. CASE q = r /\ Embeds(r)
    <3>1. draft[r] # None /\ draft'[r].access_groups = draft[r].access_groups /\ jdraft' = jdraft
      BY <2>4 DEF Embeds, DraftOK, TypeOK
    <3>. QED BY <2>1, <2>2, <2>4, <3>1 DEF OwedInv
  <2>5. CASE q = r /\ (Closes(r) \/ ClosesJob(r))
    BY <2>1, <2>2, <2>5 DEF Closes, ClosesJob, TypeOK, OwedInv
  <2>6. ~(q = r /\ (Inserts(r) \/ Locks(r) \/ Swaps(r)))
    BY <1>1 DEF Inserts, Locks, Swaps, Locked, Holds, DraftOK, JobOK
  <2>7. \/ draft'[q] = draft[q] /\ jdraft'[q] = jdraft[q]
        \/ q = r /\ (Embeds(r) \/ Inserts(r) \/ Locks(r) \/ Swaps(r) \/ Closes(r) \/ ClosesJob(r))
    BY DEF ShapeOf, Quiet, Touches, Removes, Embeds, Inserts, Locks, Swaps, Closes, ClosesJob,
           TypeOK
  <2>. QED BY <2>3, <2>4, <2>5, <2>6, <2>7
<1>2. CASE ~Holds(q)
  <2>1. q = r /\ (Inserts(r) \/ Locks(r) \/ Swaps(r))
    BY <1>2 DEF ShapeOf, Quiet, Touches, Removes, Embeds, Inserts, Locks, Swaps, Closes, ClosesJob,
                TypeOK, Holds, DraftOK
  <2>2. ~Inserts(r)
    BY <2>1 DEF Inserts, FreshInv, Unborn, TypeOK
  <2>. QED BY <1>2, <2>1, <2>2 DEF Locks, Swaps, TypeOK, Holds
<1>. QED BY <1>1, <1>2

Bumps(u) == \E r \in Req : pc[r] = "bump" /\ target[r] = u
Deleting(u) ==
    \E r \in Req : pc[r] = "bump" /\ target[r] = u /\ call[r] # None /\ call[r].kind \in DeleteKinds

\* A count that is owed stays owed until the version is counted up.
LEMMA CountsStayOwed ==
    ASSUME TypeInv, CountsAreKept, Next, version' = version,
           NEW q \in Req, pc[q] = "bump"
    PROVE  pc'[q] = "bump" /\ target'[q] = target[q] /\ call'[q] = call[q]
<1>1. CASE UNCHANGED vars
  BY <1>1 DEF vars, webVars
<1>2. ASSUME NEW r \in Req, Keeps(r), ShapeOf(r)
      PROVE  pc'[q] = "bump" /\ target'[q] = target[q] /\ call'[q] = call[q]
  <2>1. pc'[q] = "bump"
    <3>1. version \in Nat
      BY DEF TypeOK
    <3>. QED BY <1>2, <3>1 DEF Keeps, CountsAreKept, Fault
  <2>2. call'[q] = call[q]
    BY <1>2 DEF Keeps
  <2>3. target'[q] = target[q]
    <3>1. pc[q] \notin BeforeRow
      OBVIOUS
    <3>. HIDE DEF TypeInv, ShapeOf, BeforeRow
    <3>. QED BY <1>2, <3>1, TargetStep
  <2>. QED BY <2>1, <2>2, <2>3
<1>. QED BY <1>1, <1>2, Shapes DEF ShapeOf

\* Whoever commits other groups has the count to do next.
LEMMA RegroupOwes ==
    ASSUME LockInv, OwedInv, Next, NEW u \in Req, doc[u] # None, doc'[u] # None,
           doc'[u].access_groups # doc[u].access_groups
    PROVE  Bumps(u)'
<1>. USE DEF LockInv
<1>1. PICK r \in Req : ShapeOf(r)
  BY Shapes DEF ShapeOf, vars
<1>2. CASE Closes(r)
  <2>1. u = target[r] /\ doc'[u] = draft[r] /\ draft[r] # None /\ target' = target
    BY <1>2 DEF Closes, TypeOK, DraftOK
  <2>2. "bump" \in after[r]
    BY <2>1 DEF OwedInv
  <2>3. pc'[r] = "bump"
    BY <1>2, <2>2 DEF Closes
  <2>. QED BY <2>1, <2>3 DEF Bumps
<1>3. CASE ClosesJob(r)
  BY <1>3 DEF ClosesJob, TypeOK, JobOK, OwedInv
<1>4. CASE Touches(r)
  BY <1>4 DEF Touches, TypeOK, Live, SameForSearch
<1>5. CASE Removes(r)
  BY <1>5 DEF Removes, TypeOK
<1>6. Touches(r) \/ Closes(r) \/ ClosesJob(r) \/ Removes(r)
  BY <1>1 DEF ShapeOf, Quiet, Inserts, Locks, Embeds, Swaps
<1>. QED BY <1>2, <1>3, <1>4, <1>5, <1>6

\* Whoever deletes a row has the count to do next.
LEMMA DeleteOwes ==
    ASSUME LockInv, Next, NEW u \in Req, doc[u] # None, doc'[u] = None
    PROVE  Deleting(u)'
<1>. USE DEF LockInv
<1>1. PICK r \in Req : Keeps(r) /\ ShapeOf(r)
  BY Shapes DEF ShapeOf, vars
<1>2. CASE Removes(r)
  <2>1. u = target[r] /\ target' = target /\ pc'[r] = "bump"
    BY <1>2 DEF Removes, TypeOK
  <2>2. call'[r] = call[r] /\ call[r] \in Call /\ call[r].kind \in DeleteKinds
    BY <1>1, <1>2, CallFields DEF Removes, Keeps
  <2>. QED BY <2>1, <2>2, NoneIsNoCall DEF Deleting
<1>3. CASE ~Removes(r)
  <2>1. CASE Closes(r) \/ ClosesJob(r)
    BY <2>1 DEF Closes, ClosesJob, TypeOK, DraftOK, JobOK
  <2>2. CASE Touches(r)
    BY <2>2 DEF Touches, TypeOK, Live, SameForSearch
  <2>3. Touches(r) \/ Closes(r) \/ ClosesJob(r)
    BY <1>1, <1>3 DEF ShapeOf, Quiet, Inserts, Locks, Embeds, Swaps
  <2>. QED BY <2>1, <2>2, <2>3
<1>. QED BY <1>2, <1>3

-----------------------------------------------------------------------------
(* What was found can still be seen, or the entry it is in is out of date,  *)
(* or a count is owed.                                                      *)

Within(groups, s) == s = None \/ groups \cap s # {}

Accounted(i, s, v) ==
    /\ doc[i.row] = None => v < version \/ Deleting(i.row)
    /\ doc[i.row] # None /\ ~Within(doc[i.row].access_groups, s) => v < version \/ Bumps(i.row)

AccountInv ==
    /\ DOMAIN qversion = Query
    /\ \A q \in Query : qversion[q] \in Nat /\ qversion[q] <= version
    /\ \A q \in Query : \A i \in answer[q] : i.row \in Req /\ Accounted(i, scope[q], qversion[q])
    /\ \A e \in cache : e.version \in Nat /\ e.version <= version
    /\ \A e \in cache : \A i \in e.answer : i.row \in Req /\ Accounted(i, e.scope, e.version)

\* What is known of the writers.
WriterInv == LockInv /\ OwedInv /\ OneVersion /\ DeletedStaysDeleted

LEMMA AccountedStep ==
    ASSUME WriterInv, DeletedStaysDeleted', CountsAreKept, Next,
           NEW i, i.row \in Req, NEW s, NEW v \in Nat, v <= version, Accounted(i, s, v)
    PROVE  Accounted(i, s, v)'
<1>. DEFINE u == i.row
<1>1. version \in Nat /\ version' \in {version, version + 1}
  <2>1. version \in Nat
    BY DEF WriterInv, LockInv, TypeOK
  <2>2. UNCHANGED vars \/ \E r \in Req : Keeps(r)
    BY Shapes DEF WriterInv, LockInv
  <2>. QED BY <2>1, <2>2 DEF Keeps, vars
<1>2. CASE v < version'
  BY <1>2 DEF Accounted
<1>3. CASE v = version /\ version' = version
  <2>1. ASSUME NEW q \in Req, pc[q] = "bump"
        PROVE  pc'[q] = "bump" /\ target'[q] = target[q] /\ call'[q] = call[q]
    BY <1>3, <2>1, CountsStayOwed DEF WriterInv, LockInv
  <2>2. (Bumps(u) => Bumps(u)') /\ (Deleting(u) => Deleting(u)')
    BY <2>1 DEF Bumps, Deleting
  <2>3. CASE doc[u] = None
    <3>1. Deleting(u)
      BY <1>1, <1>3, <2>3 DEF Accounted
    <3>2. Deleting(u)'
      BY <2>2, <3>1
    <3>3. doc'[u] = None
      BY <3>2 DEF Deleting, DeletedStaysDeleted, DeleteKinds
    <3>. QED BY <3>2, <3>3 DEF Accounted
  <2>4. CASE doc[u] # None /\ doc'[u] = None
    <3>1. Deleting(u)'
      BY <2>4, DeleteOwes DEF WriterInv
    <3>. QED BY <2>4, <3>1 DEF Accounted
  <2>5. CASE doc[u] # None /\ doc'[u] # None
    <3>1. CASE doc'[u].access_groups = doc[u].access_groups
      BY <1>1, <1>3, <2>2, <2>5, <3>1 DEF Accounted
    <3>2. CASE doc'[u].access_groups # doc[u].access_groups
      <4>1. Bumps(u)'
        BY <2>5, <3>2, RegroupOwes DEF WriterInv
      <4>. QED BY <2>5, <4>1 DEF Accounted
    <3>. QED BY <3>1, <3>2
  <2>. QED BY <2>3, <2>4, <2>5
<1>. QED BY <1>1, <1>2, <1>3

\* What one SELECT finds is there, under groups of the scope.
LEMMA FindsAreThere ==
    ASSUME OneVersion, NEW q \in Query, NEW rows \in SUBSET Live, NEW i \in Finds(q, rows)
    PROVE  i.row \in Live /\ Within(doc[i.row].access_groups, scope[q])
<1>1. PICK u \in rows : \E chunk \in NewChunks(q, u) : i.row = u /\ i.groups = chunk.groups
  BY DEF Finds
<1>2. PICK chunk \in NewChunks(q, u) : i.row = u /\ i.groups = chunk.groups
  BY <1>1
<1>3. chunk \in doc[u].chunks /\ InGroups(chunk, scope[q])
  BY <1>2 DEF NewChunks
<1>4. chunk.groups = doc[u].access_groups
  <2>1. chunk \in IF doc[u].content = None THEN {}
                  ELSE {[text |-> doc[u].content, groups |-> doc[u].access_groups]}
    BY <1>1, <1>3 DEF OneVersion
  <2>2. chunk = [text |-> doc[u].content, groups |-> doc[u].access_groups]
    BY <2>1
  <2>. QED BY <2>2
<1>. QED BY <1>1, <1>2, <1>3, <1>4 DEF InGroups, Within, Live

\* The rows are as they were, so what was accounted for still is.
LEMMA AccountedStays ==
    ASSUME UNCHANGED vars, NEW i, NEW s, NEW v
    PROVE  Accounted(i, s, v)' <=> Accounted(i, s, v)
BY DEF vars, webVars, Accounted, Bumps, Deleting

LEMMA AccountQuery ==
    ASSUME WithinInv, AccountInv, WriterInv, NEW q \in Query, QueryStep(q)
    PROVE  AccountInv'
<1>1. UNCHANGED vars
  BY DEF QueryStep, Ask, LookUp, VectorSearch, KeywordSearch, FetchNeighbours, Remember
<1>2. version' = version /\ version \in Nat
  BY <1>1 DEF vars, WriterInv, LockInv, TypeOK
<1>3. CASE Ask(q)
  <2>1. answer[q] = {} /\ UNCHANGED <<answer, cache>> /\ qversion' = [qversion EXCEPT ![q] = version]
    BY <1>3 DEF Ask, WithinInv
  <2>2. \A p \in Query \ {q} : scope'[p] = scope[p] /\ qversion'[p] = qversion[p]
    BY <1>3 DEF Ask, WithinInv, AccountInv
  <2>3. \A p \in Query : \A i \in answer'[p] : p # q
    BY <2>1
  <2>. QED BY <1>1, <1>2, <2>1, <2>2, <2>3, AccountedStays DEF AccountInv
<1>4. CASE LookUp(q)
  <2>1. UNCHANGED <<scope, qversion, cache>>
    BY <1>4 DEF LookUp
  <2>2. \A i \in answer'[q] : i.row \in Req /\ Accounted(i, scope[q], qversion[q])
    BY <1>4 DEF LookUp, Entry, WithinInv, AccountInv
  <2>3. \A p \in Query \ {q} : answer'[p] = answer[p]
    BY <1>4 DEF LookUp, WithinInv
  <2>. QED BY <1>1, <1>2, <2>1, <2>2, <2>3, AccountedStays DEF AccountInv
<1>5. CASE VectorSearch(q) \/ KeywordSearch(q) \/ FetchNeighbours(q)
  <2>1. PICK rows \in SUBSET Live : answer' = [answer EXCEPT ![q] = @ \cup Finds(q, rows)]
    <3>1. CASE VectorSearch(q) \/ KeywordSearch(q)
      BY <3>1 DEF VectorSearch, KeywordSearch
    <3>2. CASE FetchNeighbours(q)
      <4>. DEFINE rows == {u \in Live : \E i \in answer[q] : i.row = u}
      <4>1. answer' = [answer EXCEPT ![q] = @ \cup Finds(q, rows)] /\ rows \in SUBSET Live
        BY <3>2 DEF FetchNeighbours
      <4>. QED BY <4>1
    <3>. QED BY <1>5, <3>1, <3>2
  <2>2. UNCHANGED <<scope, qversion, cache>>
    BY <1>5 DEF VectorSearch, KeywordSearch, FetchNeighbours
  <2>3. ASSUME NEW i \in Finds(q, rows)
        PROVE  i.row \in Req /\ Accounted(i, scope[q], qversion[q])
    BY <2>3, FindsAreThere DEF WriterInv, Accounted, Live
  <2>4. \A i \in answer'[q] : i.row \in Req /\ Accounted(i, scope[q], qversion[q])
    BY <2>1, <2>3 DEF AccountInv, WithinInv
  <2>5. \A p \in Query \ {q} : answer'[p] = answer[p]
    BY <2>1 DEF WithinInv
  <2>. QED BY <1>1, <1>2, <2>2, <2>4, <2>5, AccountedStays DEF AccountInv
<1>6. CASE Remember(q)
  <2>1. UNCHANGED <<scope, qversion, answer>>
    BY <1>6 DEF Remember
  <2>2. \A e \in cache' : \/ e \in cache
                         \/ e = [version |-> qversion[q], scope |-> scope[q], answer |-> answer[q]]
    BY <1>6 DEF Remember
  <2>3. \A e \in cache' : /\ e.version \in Nat /\ e.version <= version
                         /\ \A i \in e.answer : i.row \in Req /\ Accounted(i, e.scope, e.version)
    BY <2>2 DEF AccountInv
  <2>. QED BY <1>1, <1>2, <2>1, <2>3, AccountedStays DEF AccountInv
<1>. QED BY <1>3, <1>4, <1>5, <1>6 DEF QueryStep

LEMMA AccountWriters ==
    ASSUME AccountInv, WriterInv, WriterInv', CountsAreKept, Next, UNCHANGED queryVars
    PROVE  AccountInv'
<1>1. version \in Nat /\ version' \in Nat /\ version <= version'
  <2>1. version \in Nat
    BY DEF WriterInv, LockInv, TypeOK
  <2>2. UNCHANGED vars \/ \E r \in Req : Keeps(r)
    BY Shapes DEF WriterInv, LockInv
  <2>. QED BY <2>1, <2>2 DEF Keeps, vars
<1>2. UNCHANGED <<scope, qversion, answer, cache>>
  BY DEF queryVars
<1>3. ASSUME NEW q \in Query, NEW i \in answer[q]
      PROVE  i.row \in Req /\ Accounted(i, scope[q], qversion[q])'
  <2>1. /\ i.row \in Req /\ Accounted(i, scope[q], qversion[q])
        /\ qversion[q] \in Nat /\ qversion[q] <= version
    BY <1>3 DEF AccountInv
  <2>2. scope'[q] = scope[q] /\ qversion'[q] = qversion[q]
    BY <1>2
  <2>. QED BY <2>1, <2>2, AccountedStep DEF WriterInv, Accounted
<1>4. ASSUME NEW e \in cache, NEW i \in e.answer
      PROVE  i.row \in Req /\ Accounted(i, e.scope, e.version)'
  <2>1. /\ i.row \in Req /\ Accounted(i, e.scope, e.version)
        /\ e.version \in Nat /\ e.version <= version
    BY <1>4 DEF AccountInv
  <2>. QED BY <2>1, AccountedStep DEF WriterInv
<1>. QED BY <1>1, <1>2, <1>3, <1>4 DEF AccountInv

\* The writers do not know of the queries.
LEMMA WritersAsBefore == CacheSpec => Spec
<1>1. CacheInit => Init
  BY DEF CacheInit
<1>2. [CacheNext]_cacheVars => [Next]_vars
  BY DEF CacheNext, cacheVars, QueryStep, Ask, LookUp, VectorSearch, KeywordSearch,
         FetchNeighbours, Remember
<1>. QED BY <1>1, <1>2, PTL DEF CacheSpec, Spec

LEMMA WriterInvariant == Spec => []WriterInv
<1>1. Init => OwedInv
  BY DEF Init, OwedInv
<1>2. LockInv /\ OwedInv /\ [Next]_vars => OwedInv'
  <2>. SUFFICES ASSUME LockInv, OwedInv, [Next]_vars PROVE OwedInv'
    OBVIOUS
  <2>1. CASE UNCHANGED vars
    BY <2>1 DEF vars, webVars, jobVars, OwedInv
  <2>2. CASE \E r \in Req : Keeps(r) /\ ShapeOf(r)
    <3>. HIDE DEF LockInv
    <3>. QED BY <2>2, OwedStep
  <2>. QED BY <2>1, <2>2, Shapes DEF ShapeOf, LockInv
<1>. HIDE DEF LockInv, OwedInv
<1>. QED BY <1>1, <1>2, Locking, RowsHaveOneVersion, DeletedForGood, PTL DEF Spec, WriterInv

LEMMA AccountInvariant ==
    ASSUME CountsAreKept
    PROVE  CacheSpec => [](WithinInv /\ WriterInv /\ AccountInv)
<1>1. CacheInit => AccountInv
  BY DEF CacheInit, Init, AccountInv
<1>2. /\ WithinInv /\ AccountInv /\ WriterInv /\ WriterInv'
      /\ [CacheNext]_cacheVars
      => AccountInv'
  <2>. SUFFICES ASSUME WithinInv, AccountInv, WriterInv, WriterInv', [CacheNext]_cacheVars
                PROVE  AccountInv'
    OBVIOUS
  <2>. HIDE DEF WithinInv, AccountInv, WriterInv
  <2>1. CASE Next /\ UNCHANGED queryVars
    BY <2>1, AccountWriters
  <2>2. CASE \E q \in Query : QueryStep(q)
    BY <2>2, AccountQuery
  <2>3. CASE UNCHANGED cacheVars
    <3>1. UNCHANGED vars /\ UNCHANGED queryVars
      BY <2>3 DEF cacheVars
    <3>. QED BY <3>1, AccountedStays DEF AccountInv, queryVars, vars
  <2>. QED BY <2>1, <2>2, <2>3 DEF CacheNext
<1>. HIDE DEF WithinInv, AccountInv, WriterInv
<1>. QED BY <1>1, <1>2, WithinInit, WithinStep, WritersAsBefore, WriterInvariant, PTL DEF CacheSpec

\* Once nobody owes a count, no entry of the current version shows a row that was deleted, or
\* taken out of the entry's scope, for any queries and writers in any order: the reads before a
\* commit are cached under a version that is no longer current.
THEOREM AccessIsInvalidated ==
    ASSUME CountsAreKept
    PROVE  CacheSpec => []AccessChangesInvalidate
<1>1. AccountInv /\ WriterInv => AccessChangesInvalidate
  <2>. SUFFICES ASSUME AccountInv, WriterInv, \A r \in Req : pc[r] # "bump",
                       NEW e \in cache, e.version = version, NEW i \in e.answer
                PROVE  /\ doc[i.row] # None
                       /\ e.scope = None \/ doc[i.row].access_groups \cap e.scope # {}
    BY DEF AccessChangesInvalidate, CurrentEntries
  <2>1. ~Bumps(i.row) /\ ~Deleting(i.row)
    BY DEF Bumps, Deleting
  <2>2. version \in Nat
    BY DEF WriterInv, LockInv, TypeOK
  <2>. QED BY <2>1, <2>2 DEF AccountInv, Accounted, Within
<1>. QED BY <1>1, AccountInvariant, PTL

-----------------------------------------------------------------------------
(* DELETE and the queries asked after it. *)

\* A DELETE that was done with when query q was asked: its row is gone, and whatever still shows
\* it was found for an earlier version than q's.
Outlived(u, q) ==
    /\ \A p \in Query : \A i \in answer[p] : i.row = u => qversion[p] < qversion[q]
    /\ \A e \in cache : \A i \in e.answer : i.row = u => e.version < qversion[q]

DoneInv ==
    /\ DOMAIN deleted = Query
    /\ \A q \in Query : \A r \in deleted[q] :
          /\ r \in Req /\ pc[r] = "ok" /\ call[r] # None /\ call[r].kind \in DeleteKinds
          /\ qpc[q] # "idle"
          /\ Outlived(target[r], q)

CacheInv == WithinInv /\ WriterInv /\ AccountInv

LEMMA DoneWriters ==
    ASSUME CacheInv, DoneInv, Next, UNCHANGED queryVars
    PROVE  DoneInv'
<1>. SUFFICES ASSUME NEW q \in Query, NEW r \in deleted[q]
              PROVE  pc'[r] = pc[r] /\ call'[r] = call[r] /\ target'[r] = target[r]
  BY DEF DoneInv, Outlived, queryVars
<1>1. r \in Req /\ pc[r] = "ok"
  BY DEF DoneInv
<1>2. CASE UNCHANGED vars
  BY <1>2 DEF vars, webVars
<1>3. ASSUME NEW s \in Req, Keeps(s), ShapeOf(s)
      PROVE  pc'[r] = pc[r] /\ call'[r] = call[r] /\ target'[r] = target[r]
  <2>1. pc'[r] = pc[r] /\ call'[r] = call[r]
    BY <1>1, <1>3 DEF Keeps
  <2>2. pc[r] \notin BeforeRow /\ TypeInv
    BY <1>1 DEF CacheInv, WriterInv, LockInv
  <2>3. target'[r] = target[r]
    <3>. HIDE DEF TypeInv, ShapeOf, BeforeRow
    <3>. QED BY <1>1, <1>3, <2>2, TargetStep
  <2>. QED BY <2>1, <2>3
<1>. QED BY <1>2, <1>3, Shapes DEF ShapeOf, CacheInv, WriterInv, LockInv

LEMMA DoneAsk ==
    ASSUME CacheInv, DoneInv, NEW q \in Query, Ask(q)
    PROVE  DoneInv'
<1>. USE DEF CacheInv
<1>1. /\ UNCHANGED <<vars, answer, cache>> /\ answer[q] = {} /\ qpc'[q] = "lookup"
      /\ qversion'[q] = version /\ deleted' = [deleted EXCEPT ![q] = DeletesDone]
      /\ \A p \in Query \ {q} : qversion'[p] = qversion[p] /\ qpc'[p] = qpc[p]
  BY DEF Ask, QueryGoto, WithinInv, AccountInv
<1>2. UNCHANGED <<pc, call, target>>
  BY <1>1 DEF vars, webVars
<1>3. ASSUME NEW p \in Query \ {q}, NEW r \in deleted[p] PROVE Outlived(target[r], p)'
  <2>1. Outlived(target[r], p)
    BY <1>3 DEF DoneInv
  <2>. QED BY <1>1, <1>2, <2>1 DEF Outlived
<1>4. ASSUME NEW r \in DeletesDone
      PROVE  /\ r \in Req /\ pc[r] = "ok" /\ call[r] # None /\ call[r].kind \in DeleteKinds
             /\ Outlived(target[r], q)'
  <2>. DEFINE u == target[r]
  <2>1. r \in Req /\ pc[r] = "ok" /\ call[r] # None /\ call[r].kind \in DeleteKinds
    BY <1>4 DEF DeletesDone, Deletes, DeleteKinds
  <2>2. doc[u] = None
    BY <2>1 DEF WriterInv, DeletedStaysDeleted, DeleteKinds
  <2>3. ~Deleting(u)
    BY <1>4 DEF Deleting, DeletesDone, Deletes, DeleteKinds
  <2>4. ASSUME NEW p \in Query \ {q}, NEW i \in answer[p], i.row = u PROVE qversion[p] < version
    BY <2>2, <2>3, <2>4 DEF AccountInv, Accounted
  <2>5. ASSUME NEW e \in cache, NEW i \in e.answer, i.row = u PROVE e.version < version
    BY <2>2, <2>3, <2>5 DEF AccountInv, Accounted
  <2>6. Outlived(u, q)'
    BY <1>1, <1>2, <2>4, <2>5 DEF Outlived
  <2>. QED BY <2>1, <2>6
<1>. QED BY <1>1, <1>2, <1>3, <1>4 DEF DoneInv

\* Once it was asked, a query finds only rows that are there, and takes only entries of its version.
LEMMA DoneQuery ==
    ASSUME CacheInv, DoneInv, NEW p \in Query, QueryStep(p), ~Ask(p)
    PROVE  DoneInv'
<1>. USE DEF CacheInv
<1>1. UNCHANGED <<vars, qversion, deleted>>
  BY DEF QueryStep, LookUp, VectorSearch, KeywordSearch, FetchNeighbours, Remember
<1>2. UNCHANGED <<pc, call, target, doc>>
  BY <1>1 DEF vars, webVars
<1>3. \A q \in Query : qpc[q] # "idle" => qpc'[q] # "idle"
  BY DEF QueryStep, LookUp, VectorSearch, KeywordSearch, FetchNeighbours, Remember, QueryGoto,
         WithinInv
<1>. SUFFICES ASSUME NEW q \in Query, NEW r \in deleted[q] PROVE Outlived(target[r], q)'
  BY <1>1, <1>2, <1>3 DEF DoneInv
<1>. DEFINE u == target[r]
<1>4. Outlived(u, q) /\ doc[u] = None
  BY DEF DoneInv, WriterInv, DeletedStaysDeleted, DeleteKinds
<1>5. CASE LookUp(p)
  <2>1. \A i \in answer'[p] : i.row = u => qversion[p] < qversion[q]
    BY <1>4, <1>5 DEF LookUp, Entry, Outlived, WithinInv
  <2>2. cache' = cache /\ \A k \in Query \ {p} : answer'[k] = answer[k]
    BY <1>5 DEF LookUp, WithinInv
  <2>. QED BY <1>1, <1>2, <1>4, <2>1, <2>2 DEF Outlived
<1>6. CASE VectorSearch(p) \/ KeywordSearch(p) \/ FetchNeighbours(p)
  <2>1. PICK rows \in SUBSET Live : answer' = [answer EXCEPT ![p] = @ \cup Finds(p, rows)]
    <3>1. CASE VectorSearch(p) \/ KeywordSearch(p)
      BY <3>1 DEF VectorSearch, KeywordSearch
    <3>2. CASE FetchNeighbours(p)
      <4>. DEFINE rows == {w \in Live : \E i \in answer[p] : i.row = w}
      <4>1. answer' = [answer EXCEPT ![p] = @ \cup Finds(p, rows)] /\ rows \in SUBSET Live
        BY <3>2 DEF FetchNeighbours
      <4>. QED BY <4>1
    <3>. QED BY <1>6, <3>1, <3>2
  <2>2. \A i \in Finds(p, rows) : i.row # u
    BY <1>4, FindsAreThere DEF WriterInv, Live
  <2>3. \A i \in answer'[p] : i.row = u => i \in answer[p]
    BY <2>1, <2>2 DEF WithinInv
  <2>4. cache' = cache /\ \A k \in Query \ {p} : answer'[k] = answer[k]
    BY <1>6, <2>1 DEF VectorSearch, KeywordSearch, FetchNeighbours, WithinInv
  <2>. QED BY <1>1, <1>2, <1>4, <2>3, <2>4 DEF Outlived
<1>7. CASE Remember(p)
  <2>1. \A e \in cache' : \/ e \in cache
                         \/ e = [version |-> qversion[p], scope |-> scope[p], answer |-> answer[p]]
    BY <1>7 DEF Remember
  <2>2. answer' = answer
    BY <1>7 DEF Remember
  <2>. QED BY <1>1, <1>2, <1>4, <2>1, <2>2 DEF Outlived
<1>. QED BY <1>5, <1>6, <1>7 DEF QueryStep

\* A query asked after a DELETE was done with never shows its row, from the cache or not.
THEOREM DeletedIsGoneFromAnswers ==
    ASSUME CountsAreKept
    PROVE  CacheSpec => []DeletedIsNotServed
<1>1. CacheInit => DoneInv
  BY DEF CacheInit, DoneInv
<1>2. CacheInv /\ DoneInv /\ [CacheNext]_cacheVars => DoneInv'
  <2>. SUFFICES ASSUME CacheInv, DoneInv, [CacheNext]_cacheVars PROVE DoneInv'
    OBVIOUS
  <2>1. CASE UNCHANGED cacheVars
    BY <2>1 DEF cacheVars, vars, webVars, queryVars, DoneInv, Outlived
  <2>2. CASE CacheNext
    <3>. HIDE DEF CacheInv, DoneInv
    <3>. QED BY <2>2, DoneWriters, DoneAsk, DoneQuery DEF CacheNext
  <2>. QED BY <2>1, <2>2
<1>3. CacheInv /\ DoneInv => DeletedIsNotServed
  <2>. SUFFICES ASSUME CacheInv, DoneInv, NEW q \in Query, NEW i \in answer[q], NEW r \in deleted[q],
                       i.row = target[r]
                PROVE  FALSE
    BY DEF DeletedIsNotServed
  <2>1. qversion[q] < qversion[q] /\ qversion[q] \in Nat
    BY DEF DoneInv, Outlived, CacheInv, AccountInv
  <2>. QED BY <2>1
<1>. HIDE DEF DoneInv
<1>. QED BY <1>1, <1>2, <1>3, AccountInvariant, PTL DEF CacheSpec, CacheInv
=============================================================================
