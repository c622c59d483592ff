------------------------------ MODULE Documents ------------------------------
(***************************************************************************)
(* The documents of one tenant: the requests that write them and the       *)
(* background jobs, interleaved over one database and one corpus version,  *)
(* and what must be true of the rows whatever the order.                   *)
(***************************************************************************)
EXTENDS Requests, Worker

Init ==
    /\ doc = [u \in Req |-> None]
    /\ version = 0
    /\ pc = [r \in Req |-> "idle"]
    /\ call = [r \in Req |-> None]
    /\ target = [r \in Req |-> r]
    /\ attempt = [r \in Req |-> 0]
    /\ after = [r \in Req |-> {}]
    /\ draft = [r \in Req |-> None]
    /\ seen = [r \in Req |-> None]
    /\ jpc = [r \in Req |-> "none"]
    /\ jhash = [r \in Req |-> None]
    /\ jseen = [r \in Req |-> None]
    /\ jdraft = [r \in Req |-> None]
    /\ tries = [r \in Req |-> 0]

\* Every request is answered and every job over: the one state in which nothing need happen.
Finished ==
    /\ \A r \in Req : pc[r] \in Answers /\ jpc[r] \in {"none", "done"}
    /\ UNCHANGED vars

Next ==
    \/ \E r \in Req : \/ Arrive(r) \/ RequestStep(r) \/ Crash(r)
                      \/ JobStep(r) \/ Redeliver(r) \/ TimeOut(r)
    \/ Finished

Spec == Init /\ [][Next]_vars

\* A handler that began runs on, and arq keeps polling its queue; neither is owed a failure.
FairSpec == Spec /\ \A r \in Req : WF_vars(RequestStep(r)) /\ WF_vars(JobStep(r))

-----------------------------------------------------------------------------
(* What a search can see of it. A row is nobody's business before its       *)
(* INSERT is committed; an id whose request inserts nothing is never used.  *)

BeforeRow == {"idle", "check", "insert", "find", "select", "lock"}
Unborn(u) == pc[u] \in BeforeRow \/ (target[u] = u /\ draft[u] # None)
MayInsert(u) == pc[u] = "idle" \/ call[u].kind \in {"put", "upload"}

View(u) == [stage |-> "live", found |-> doc[u].chunks, groups |-> doc[u].access_groups,
            time |-> doc[u].source_updated_at]

Hidden(u) == [stage |-> IF Unborn(u) /\ MayInsert(u) THEN "new" ELSE "gone",
              found |-> {}, groups |-> {}, time |-> None]
Shown == [u \in Req |-> IF doc[u] # None THEN View(u) ELSE Hidden(u)]

Corpus == INSTANCE Corpus WITH Rows <- Req, shown <- Shown

-----------------------------------------------------------------------------
(* Properties. *)

\* Every variable has the values the code can give it: a job embeds only bytes it has, and a
\* transaction only ever commits a complete row.
TypeOK ==
    /\ doc \in [Req -> Row \cup {None}]
    /\ version \in Nat
    /\ pc \in [Req -> Steps]
    /\ call \in [Req -> Call \cup {None}]
    /\ target \in [Req -> Req]
    /\ attempt \in [Req -> 0..MaxAttempts]
    /\ after \in [Req -> SUBSET {"bump", "enqueue"}]
    /\ draft \in [Req -> Row \cup {None}]
    /\ seen \in [Req -> Row \cup {None}]
    /\ jpc \in [Req -> JobSteps]
    /\ jhash \in [Req -> Texts \cup {None}]
    /\ jseen \in [Req -> Row \cup {None}]
    /\ jdraft \in [Req -> Row \cup {None}]
    /\ tries \in [Req -> Nat]

\* "A search sees the old version or the new one, never a mixture" (sync.py:182), and a chunk
\* has its document's groups (models.py:192): the chunks of a row are those of the one text in
\* its content, all under the groups the row has now, whoever wrote them last.
OneVersion ==
    \A u \in Live :
        doc[u].chunks = IF doc[u].content = None THEN {}
                        ELSE {[text |-> doc[u].content, groups |-> doc[u].access_groups]}

\* Writers of one row are serialised by its lock (sync.py:8, worker.py:78): two transactions,
\* of requests or of jobs, never have changes of the same row open at once.
OneWriter ==
    \A q, r \in Req :
        /\ q # r /\ draft[q] # None /\ draft[r] # None => target[q] # target[r]
        /\ q # r /\ jdraft[q] # None /\ jdraft[r] # None => target[q] # target[r]
        /\ draft[q] # None /\ jdraft[r] # None => target[q] # target[r]

\* "Make sure it is gone" (documents.py:453): once a DELETE has committed, no request and no
\* job that was under way brings its row back.
DeletedStaysDeleted ==
    \A r \in Req :
        call[r] # None /\ call[r].kind \in {"delete", "delete_external"} /\ pc[r] \in {"bump", "ok"}
            => doc[target[r]] = None

\* "The old chunks stay searchable until the swap, and a failure leaves them in place"
\* (worker.py:53): while a row lives, a step that changes what a search finds of it puts new
\* text there and leaves the row ready; no step leaves nothing.
SearchableUntilSwapped ==
    [][\A u \in Req :
          doc[u] # None /\ doc'[u] # None /\ doc[u].content # None =>
             /\ doc'[u].chunks # {}
             /\ doc'[u].content # doc[u].content => doc'[u].status = "ready"]_vars

\* "Two writes cannot both pass" the staleness check "against the same stored value"
\* (sync.py:231): the source time of a row never goes back, nor is it forgotten.
SourceTimeNeverGoesBack ==
    [][\A u \in Req :
          doc[u] # None /\ doc'[u] # None /\ doc[u].source_updated_at # None =>
             /\ doc'[u].source_updated_at # None
             /\ doc'[u].source_updated_at >= doc[u].source_updated_at]_vars

\* The requests and jobs together keep the promises of module Corpus: "a search sees the old
\* version or the new one" (sync.py:182), "the old chunks stay searchable until the swap"
\* (worker.py:53), a deleted id is "gone" (documents.py:453), whatever fails in between.
ImplementsCorpus == Corpus!Spec

\* Sync queues deliver out of order (documents.py:404): as long as nobody deletes the record,
\* an answered PUT is never undone by one the client sent before it.
AnsweredWritesSurvive ==
    \A r \in Req :
        /\ pc[r] \in {"ok", "queued"} /\ call[r].kind = "put" /\ call[r].source_updated_at # None
        /\ \A q \in Req : call[q] # None => call[q].kind \notin {"delete", "delete_external"}
        => \E u \in Live : /\ doc[u].external_id = call[r].external_id
                           /\ doc[u].source_updated_at # None
                           /\ doc[u].source_updated_at >= call[r].source_updated_at

\* "Only the newest version is ever stored" (worker.py:51): a row that is ready holds the text
\* its hash names.
ReadyMeansStored ==
    \A u \in Live : doc[u].status = "ready" => doc[u].content = doc[u].sha256

\* "Left pending, it would stay that way" (sync.py:140): a row that is pending or processing is
\* left to a request that will still queue its job, or to a job that will still work on it.
PendingIsOwned ==
    \A u \in Live :
        doc[u].status \in {"pending", "processing"} =>
            \E r \in Req :
                /\ target[r] = u
                /\ \/ pc[r] \in {"bump", "refresh", "enqueue", "unqueued"} /\ "enqueue" \in after[r]
                   \/ jpc[r] \notin {"none", "ack", "done"} /\ jhash[r] \in {None, doc[u].sha256}

\* "Poll until status is ready (or failed)" (docs/api.md:298): the poll ends.
Settles ==
    \A u \in Req :
        doc[u] # None /\ doc[u].status \in {"pending", "processing"}
            ~> doc[u] = None \/ doc[u].status \in {"ready", "failed"}
=============================================================================
