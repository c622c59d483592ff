------------------------------ MODULE Requests ------------------------------
(***************************************************************************)
(* The handlers that write documents: PUT and DELETE by external id, POST, *)
(* PATCH and DELETE by id. One action per stretch of a handler between two *)
(* awaits that other processes can tell apart; the row lock of a           *)
(* transaction is held from the action that sets draft[r] to the one that  *)
(* clears it.                                                              *)
(***************************************************************************)
EXTENDS Store

Answers == {"ok", "queued", "conflict", "missing", "rejected", "unavailable", "error", "crashed"}
Steps == {"idle", "check", "insert", "find", "select", "lock", "ingest", "retitle", "commit",
          "bump", "refresh", "enqueue", "unqueued"} \cup Answers

Goto(r, step) == pc' = [pc EXCEPT ![r] = step]
Answer(r, how) == how \in Answers /\ Goto(r, how)

FirstStep(c) == CASE c.kind = "put" -> "insert"
                  [] c.kind = "upload" -> "check"
                  [] OTHER -> "find"

\* A client's call reaches the server.
Arrive(r) ==
    /\ pc[r] = "idle"
    /\ \E c \in Calls[r] : call' = [call EXCEPT ![r] = c] /\ Goto(r, FirstStep(c))
    /\ UNCHANGED <<doc, version, target, attempt, after, draft, seen, jobVars>>

\* POST: the select that looks for the same file, and the refusal of one that cannot be parsed.
CheckUpload(r) ==
    /\ pc[r] = "check"
    /\ \/ /\ Holders(r) = {}
          /\ IF call[r].text \in Unparsable \ Large THEN Answer(r, "rejected")
                                                    ELSE Goto(r, "insert")
       \/ \E u \in Holders(r) :
             IF call[r].access_groups \notin {None, doc[u].access_groups}
                THEN Answer(r, "conflict")
                ELSE Answer(r, "ok")
    /\ UNCHANGED <<doc, version, call, target, attempt, after, draft, seen, jobVars>>

\* _insert_if_absent, or the INSERT of an upload, which has no ON CONFLICT.
Insert(r) ==
    /\ pc[r] = "insert"
    /\ ~InsertMustWait(r)
    /\ LET inBackground == call[r].text \in Large IN
       \/ /\ Holders(r) = {}
          /\ target' = [target EXCEPT ![r] = r]
          /\ draft' = [draft EXCEPT ![r] = NewRow(call[r])]
          /\ after' = [after EXCEPT ![r] = IF inBackground THEN {"enqueue"} ELSE {}]
          /\ Goto(r, IF inBackground THEN "commit" ELSE "ingest")
       \/ /\ Holders(r) # {}
          /\ IF call[r].kind = "put" THEN Goto(r, "select") ELSE Answer(r, "error")
          /\ UNCHANGED <<target, draft, after>>
    /\ UNCHANGED <<doc, version, call, attempt, seen, jobVars>>

\* The loop of put_external_document comes round: the row went away before it could be locked.
NextAttempt(r) ==
    /\ attempt' = [attempt EXCEPT ![r] = @ + 1]
    /\ IF attempt[r] + 1 < MaxAttempts THEN Goto(r, "insert") ELSE Answer(r, "conflict")

\* The rows a statement with this call's WHERE clause sees when it starts.
Matching(c) ==
    {u \in Live : c.external_id = None \/ doc[u].external_id = c.external_id}

\* _lock_existing begins: SELECT ... FOR UPDATE finds the row in its snapshot ...
Select(r) ==
    /\ pc[r] = "select"
    /\ \/ \E u \in Matching(call[r]) : target' = [target EXCEPT ![r] = u]
                                       /\ Goto(r, "lock") /\ UNCHANGED attempt
       \/ Matching(call[r]) = {} /\ NextAttempt(r) /\ UNCHANGED target
    /\ UNCHANGED <<doc, version, call, after, draft, seen, jobVars>>

\* ... and waits for its lock; a row deleted meanwhile is not returned.
Vanished(r) ==
    /\ pc[r] = "lock" /\ call[r].kind = "put"
    /\ doc[target[r]] = None
    /\ NextAttempt(r)
    /\ UNCHANGED <<doc, version, call, target, after, draft, seen, jobVars>>

-----------------------------------------------------------------------------
(* _apply_to_existing, on the row as it stands once it is locked. *)

\* Mutant of LocksRow: a plain SELECT, without FOR UPDATE.
ReadsRow(r) == pc[r] = "lock" /\ call[r].kind = "put" /\ doc[target[r]] # None

LocksRow(r) == pc[r] = "lock" /\ call[r].kind = "put"
               /\ doc[target[r]] # None /\ ~Locked(target[r])

GroupsChange(row, c) == c.access_groups \notin {None, row.access_groups}
Regrouped(row, c) ==
    IF GroupsChange(row, c) THEN SetAccessGroups(row, c.access_groups) ELSE row
\* Mutant of BumpOwed: the answer cache is forgotten.
NothingOwed(row, c) == {}

BumpOwed(row, c) == IF GroupsChange(row, c) THEN {"bump"} ELSE {}

\* A row with the text of the call, that need not be processed again.
Unchanged(row, c) == row.sha256 = c.text /\ row.status # "failed"

IgnoreStale(r) ==
    /\ LocksRow(r)
    /\ IsOlderThanStored(doc[target[r]], call[r])
    /\ draft' = [draft EXCEPT ![r] = doc[target[r]]]
    /\ after' = [after EXCEPT ![r] = {}]
    /\ Goto(r, "commit")
    /\ UNCHANGED <<doc, version, call, target, attempt, seen, jobVars>>

UpdateTitleAndMetadata(r) ==
    /\ LocksRow(r)
    /\ LET c == call[r]
           row == doc[target[r]]
       IN  /\ ~IsOlderThanStored(row, c)
           /\ Unchanged(row, c)
           /\ draft' = [draft EXCEPT ![r] =
                           RememberSourceTime([Regrouped(row, c) EXCEPT !.filename = c.title], c)]
           /\ after' = [after EXCEPT ![r] = BumpOwed(row, c)]
           /\ Goto(r, IF row.filename # c.title THEN "retitle" ELSE "commit")
    /\ UNCHANGED <<doc, version, call, target, attempt, seen, jobVars>>

\* New text, or the same text after a failed attempt.
Rewritten(row, c) ==
    RememberSourceTime([Regrouped(row, c) EXCEPT !.filename = c.title,
                                                 !.sha256 = c.text,
                                                 !.error = FALSE], c)

ReplaceInBackground(r) ==
    /\ LocksRow(r)
    /\ LET c == call[r]
           row == doc[target[r]]
       IN  /\ ~IsOlderThanStored(row, c) /\ ~Unchanged(row, c)
           /\ c.text \in Large
           /\ draft' = [draft EXCEPT ![r] =
                           [Rewritten(row, c) EXCEPT !.raw_content = c.text,
                                                     !.status = "pending"]]
           /\ after' = [after EXCEPT ![r] = BumpOwed(row, c) \cup {"enqueue"}]
           /\ Goto(r, IF row.filename # c.title THEN "retitle" ELSE "commit")
    /\ UNCHANGED <<doc, version, call, target, attempt, seen, jobVars>>

ReplaceAtOnce(r) ==
    /\ LocksRow(r)
    /\ LET c == call[r]
           row == doc[target[r]]
       IN  /\ ~IsOlderThanStored(row, c) /\ ~Unchanged(row, c)
           /\ c.text \notin Large
           /\ draft' = [draft EXCEPT ![r] = WithoutChunks(Rewritten(row, c))]
           /\ after' = [after EXCEPT ![r] = BumpOwed(row, c)]
           /\ Goto(r, "ingest")
    /\ UNCHANGED <<doc, version, call, target, attempt, seen, jobVars>>

\* ingest_document: embed, store the chunks, and count the corpus version up, all before
\* the commit.
Ingest(r) ==
    /\ pc[r] = "ingest"
    /\ draft' = [draft EXCEPT ![r] = StoreChunks(@, call[r].text)]
    /\ version' = version + 1
    /\ Goto(r, "commit")
    /\ UNCHANGED <<doc, call, target, attempt, after, seen, jobVars>>

\* A new title shows in sources: the version is counted up, again before the commit.
Retitle(r) ==
    /\ pc[r] = "retitle"
    /\ version' = version + 1
    /\ Goto(r, "commit")
    /\ UNCHANGED <<doc, call, target, attempt, after, draft, seen, jobVars>>

\* The embedder or Redis fails in an open transaction: it rolls back, and the answer is a 500.
Rollback(r) ==
    /\ \/ pc[r] = "ingest" /\ (Fault("embed") \/ Fault("cache"))
       \/ pc[r] = "retitle" /\ Fault("cache")
    /\ draft' = [draft EXCEPT ![r] = None]
    /\ Answer(r, "error")
    /\ UNCHANGED <<doc, version, call, target, attempt, after, seen, jobVars>>

-----------------------------------------------------------------------------
(* _finish and _enqueue; PATCH and both DELETEs end the same way. *)

Commit(r) ==
    /\ pc[r] = "commit"
    /\ doc' = [doc EXCEPT ![target[r]] = draft[r]]
    /\ draft' = [draft EXCEPT ![r] = None]
    /\ IF "bump" \in after[r] THEN Goto(r, "bump")
       ELSE Goto(r, IF call[r].kind = "upload" /\ "enqueue" \in after[r] THEN "enqueue"
                                                                        ELSE "refresh")
    /\ UNCHANGED <<version, call, target, attempt, after, seen, jobVars>>

BumpCorpusVersion(r) ==
    /\ pc[r] = "bump"
    /\ version' = version + 1
    /\ Goto(r, IF call[r].kind \in {"delete", "delete_external"} THEN "ok" ELSE "refresh")
    /\ UNCHANGED <<doc, call, target, attempt, after, draft, seen, jobVars>>

BumpFails(r) ==
    /\ pc[r] = "bump" /\ Fault("cache")
    /\ Answer(r, "error")
    /\ UNCHANGED <<doc, version, call, target, attempt, after, draft, seen, jobVars>>

\* session.refresh: a row deleted since the commit makes it raise.
Refresh(r) ==
    /\ pc[r] = "refresh"
    /\ seen' = [seen EXCEPT ![r] = doc[target[r]]]
    /\ IF doc[target[r]] = None THEN Answer(r, "error")
       ELSE IF "enqueue" \in after[r] THEN Goto(r, "enqueue") ELSE Answer(r, "ok")
    /\ UNCHANGED <<doc, version, call, target, attempt, after, draft, jobVars>>

\* The job names the hash session.refresh read, which another writer may have put there.
QueueJob(r) ==
    /\ jpc' = [jpc EXCEPT ![r] = "queued"]
    /\ jhash' = [jhash EXCEPT ![r] = IF call[r].kind = "put" THEN seen[r].sha256 ELSE None]
    /\ UNCHANGED <<jseen, jdraft, tries>>

Enqueue(r) ==
    /\ pc[r] = "enqueue"
    /\ QueueJob(r)
    /\ Answer(r, "queued")
    /\ UNCHANGED <<doc, version, call, target, attempt, after, draft, seen>>

\* The call to Redis raises; the job may have arrived all the same. An upload lets it raise.
EnqueueFails(r) ==
    /\ pc[r] = "enqueue" /\ Fault("queue")
    /\ QueueJob(r) \/ UNCHANGED jobVars
    /\ IF call[r].kind = "put" THEN Goto(r, "unqueued") ELSE Answer(r, "error")
    /\ UNCHANGED <<doc, version, call, target, attempt, after, draft, seen>>

\* _enqueue marks the row, without a lock or a second look; only changed columns are written.
MarkUnqueued(r) ==
    /\ pc[r] = "unqueued"
    /\ LET u == target[r] IN
       \/ /\ doc[u] = None
          /\ Answer(r, "error") /\ UNCHANGED doc
       \/ /\ doc[u] # None /\ ~Locked(u)
          /\ doc' = [doc EXCEPT ![u] =
                       [@ EXCEPT !.error = TRUE,
                                 !.status = IF seen[r].status = "failed" THEN doc[u].status
                                                                         ELSE "failed"]]
          /\ Answer(r, "unavailable")
    /\ UNCHANGED <<version, call, target, attempt, after, draft, seen, jobVars>>

-----------------------------------------------------------------------------
(* PATCH and DELETE: a statement finds the row, then waits for its lock. *)

Find(r) ==
    /\ pc[r] = "find"
    /\ \/ \E u \in Matching(call[r]) : target' = [target EXCEPT ![r] = u] /\ Goto(r, "lock")
       \/ /\ Matching(call[r]) = {}
          /\ Answer(r, IF call[r].kind = "delete_external" THEN "ok" ELSE "missing")
          /\ UNCHANGED target
    /\ UNCHANGED <<doc, version, call, attempt, after, draft, seen, jobVars>>

PatchGroups(r) ==
    /\ pc[r] = "lock" /\ call[r].kind = "patch"
    /\ LET row == doc[target[r]] IN
       \/ /\ row = None
          /\ Answer(r, "missing") /\ UNCHANGED <<draft, after>>
       \/ /\ row # None /\ ~Locked(target[r])
          /\ draft' = [draft EXCEPT ![r] = Regrouped(row, call[r])]
          /\ after' = [after EXCEPT ![r] = BumpOwed(row, call[r])]
          /\ Goto(r, "commit")
    /\ UNCHANGED <<doc, version, call, target, attempt, seen, jobVars>>

\* The DELETE and its commit. By id the version is counted up even if the row was gone already.
Remove(r) ==
    /\ pc[r] = "lock" /\ call[r].kind \in {"delete", "delete_external"}
    /\ ~Locked(target[r])
    /\ doc' = [doc EXCEPT ![target[r]] = None]
    /\ IF call[r].kind = "delete" \/ doc[target[r]] # None THEN Goto(r, "bump") ELSE Answer(r, "ok")
    /\ UNCHANGED <<version, call, target, attempt, after, draft, seen, jobVars>>

\* The web process dies: the open transaction is rolled back, nothing resumes.
Crash(r) ==
    /\ Fault("crash")
    /\ pc[r] \notin Answers \cup {"idle"}
    /\ draft' = [draft EXCEPT ![r] = None]
    /\ Answer(r, "crashed")
    /\ UNCHANGED <<doc, version, call, target, attempt, after, seen, jobVars>>

RequestStep(r) ==
    \/ CheckUpload(r) \/ Insert(r) \/ Select(r) \/ Vanished(r)
    \/ IgnoreStale(r) \/ UpdateTitleAndMetadata(r) \/ ReplaceInBackground(r) \/ ReplaceAtOnce(r)
    \/ Ingest(r) \/ Retitle(r) \/ Rollback(r) \/ Commit(r)
    \/ BumpCorpusVersion(r) \/ BumpFails(r) \/ Refresh(r)
    \/ Enqueue(r) \/ EnqueueFails(r) \/ MarkUnqueued(r)
    \/ Find(r) \/ PatchGroups(r) \/ Remove(r)
=============================================================================
