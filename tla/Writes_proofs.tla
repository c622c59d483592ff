---------------------------- MODULE Writes_proofs ----------------------------
(***************************************************************************)
(* What the writes to a row leave behind, in three parts. An answered PUT: *)
(* as long as nobody deletes, a row of its record stays, with the state it *)
(* brought or with a later one, for the lock makes the comparison of       *)
(* source times and the write one step. A ready row: it holds the text its *)
(* hash names. A waiting row: a request or a job is still there to end it. *)
(***************************************************************************)
EXTENDS Documents_proofs

USE NoneIsNoRow DEF TypeInv, Goto, Answer, JobGoto, Answers, Open, BeforeRow

\* The steps of a request that has committed, and goes on to say so.
Committed == {"bump", "refresh", "enqueue", "unqueued", "ok", "queued"}

\* Nobody who has arrived deletes.
NobodyDeletes == \A q \in Req : pc[q] # "idle" => call[q].kind \notin DeleteKinds

\* The row is of the record of the call, and no older than the call.
Records(row, c) == row.external_id = c.external_id /\ Reaches(row, c)

\* From the lock to the answer: a PUT locks a row of its record, its draft records the call, and
\* once that is committed some row does.
SurviveInv ==
    \A q \in Req : pc[q] # "idle" /\ call[q].kind = "put" =>
        /\ pc[q] = "lock" /\ doc[target[q]] # None =>
              doc[target[q]].external_id = call[q].external_id
        /\ draft[q] # None => Records(draft[q], call[q])
        /\ NobodyDeletes /\ pc[q] \in Committed => \E u \in Live : Records(doc[u], call[q])

\* A row that records a call still does so in a later state.
LEMMA StillRecords ==
    ASSUME NEW old \in Row, NEW new \in Row, NEW c \in Call, NotBefore(new, old), Records(old, c)
    PROVE  Records(new, c)
<1>1. /\ old.source_updated_at \in Nat \cup {None} /\ new.source_updated_at \in Nat \cup {None}
      /\ c.source_updated_at \in Nat \cup {None}
  BY DEF Row, Call
<1>. QED BY <1>1, ConstantsAssumption DEF NotBefore, Records, Reaches

\* A row changes into a later state of its record, or is deleted.
LEMMA RowStays ==
    ASSUME LockInv, NEW r \in Req, ShapeOf(r), NEW u \in Req, doc[u] # None
    PROVE  Removes(r) \/ (doc'[u] # None /\ NotBefore(doc'[u], doc[u]))
<1>. USE DEF LockInv
<1>1. CASE doc'[u] = doc[u]
  <2>1. doc[u].source_updated_at \in Nat \cup {None}
    BY DEF TypeOK, Row
  <2>. QED BY <1>1, <2>1, ConstantsAssumption DEF NotBefore
<1>2. CASE Touches(r) /\ doc'[u] # doc[u]
  <2>1. SameForSearch(doc'[u], doc[u])
    BY <1>2 DEF Touches, TypeOK, Live
  <2>2. doc[u].source_updated_at \in Nat \cup {None}
    BY DEF TypeOK, Row
  <2>. QED BY <2>1, <2>2, ConstantsAssumption DEF SameForSearch, NotBefore
<1>3. CASE Closes(r) /\ doc'[u] # doc[u]
  <2>1. u = target[r] /\ doc'[u] = draft[r] /\ draft[r] # None
    BY <1>3 DEF Closes, TypeOK, DraftOK
  <2>. QED BY <2>1 DEF TimeInv
<1>4. CASE ClosesJob(r) /\ doc'[u] # doc[u]
  <2>1. u = target[r] /\ doc'[u] = jdraft[r] /\ jdraft[r] # None
    BY <1>4 DEF ClosesJob, TypeOK, JobOK
  <2>. QED BY <2>1 DEF TimeInv
<1>5. doc' = doc \/ Touches(r) \/ Closes(r) \/ ClosesJob(r) \/ Removes(r)
  BY DEF ShapeOf, Quiet, Inserts, Locks, Embeds, Swaps
<1>. QED BY <1>1, <1>2, <1>3, <1>4, <1>5

-----------------------------------------------------------------------------
(* How a PUT comes to hold a lock, and to have committed. *)

PutLocks(q) ==
    pc'[q] = "lock" =>
        \/ pc[q] = "lock" /\ target'[q] = target[q]
        \/ /\ doc' = doc /\ doc[target'[q]].external_id = call[q].external_id
           /\ pc[q] # "idle"
PutCommits(q) ==
    pc'[q] \in Committed =>
        \/ pc[q] \in Committed
        \/ pc[q] = "commit" /\ doc' = [doc EXCEPT ![target[q]] = draft[q]]

LEMMA PutStep ==
    ASSUME TypeInv, NEW q \in Req, call'[q].kind = "put", Arrive(q) \/ RequestStep(q) \/ Crash(q)
    PROVE  PutLocks(q) /\ PutCommits(q)
<1>. USE DEF PutLocks, PutCommits, Committed
<1>1. CASE Arrive(q)
  BY <1>1 DEF Arrive, FirstStep, TypeOK
<1>2. ASSUME RequestStep(q) \/ Crash(q)
      PROVE  pc[q] # "idle" /\ call'[q] = call[q]
  <2>1. pc[q] # "idle"
    BY <1>2 DEF RequestStep, CheckUpload, Insert, Select, Vanished, IgnoreStale,
         UpdateTitleAndMetadata, ReplaceInBackground, ReplaceAtOnce, LocksRow, Ingest, Retitle,
         Rollback, Commit, BumpCorpusVersion, BumpFails, Refresh, Enqueue, EnqueueFails,
         MarkUnqueued, Find, PatchGroups, Remove, Crash
  <2>. QED BY <1>2, <2>1, StepKeeps DEF Keeps
<1>3. CASE CheckUpload(q)
  BY <1>2, <1>3 DEF CheckUpload, CallOK, TypeOK, RequestStep
<1>4. CASE Insert(q) \/ Vanished(q)
  BY <1>4 DEF Insert, Vanished, NextAttempt, TypeOK
<1>5. CASE Select(q) \/ Find(q)
  <2>1. call[q].kind = "put" /\ call[q] \in Calls[q] /\ pc[q] # "idle"
    BY <1>2, <1>5 DEF RequestStep, CallOK
  <2>2. call[q].external_id # None
    BY <2>1, ConstantsAssumption
  <2>3. ASSUME NEW u \in Matching(call[q]), target' = [target EXCEPT ![q] = u], doc' = doc
        PROVE  PutLocks(q)
    BY <2>1, <2>2, <2>3 DEF Matching, TypeOK, Live
  <2>4. CASE Select(q)
    <3>1. CASE \E u \in Matching(call[q]) : target' = [target EXCEPT ![q] = u] /\ Goto(q, "lock")
      BY <2>3, <2>4, <3>1 DEF Select, TypeOK
    <3>2. CASE NextAttempt(q)
      BY <3>2 DEF NextAttempt, TypeOK
    <3>. QED BY <2>4, <3>1, <3>2 DEF Select
  <2>5. CASE Find(q)
    <3>1. CASE \E u \in Matching(call[q]) : target' = [target EXCEPT ![q] = u] /\ Goto(q, "lock")
      BY <2>3, <2>5, <3>1 DEF Find, TypeOK
    <3>2. CASE Answer(q, IF call[q].kind = "delete_external" THEN "ok" ELSE "missing")
      BY <2>1, <3>2 DEF TypeOK
    <3>. QED BY <2>5, <3>1, <3>2 DEF Find
  <2>. QED BY <1>5, <2>4, <2>5
<1>6. CASE \/ IgnoreStale(q) \/ UpdateTitleAndMetadata(q)
           \/ ReplaceInBackground(q) \/ ReplaceAtOnce(q)
  BY <1>6 DEF IgnoreStale, UpdateTitleAndMetadata, ReplaceInBackground, ReplaceAtOnce, TypeOK
<1>7. CASE Ingest(q) \/ Retitle(q) \/ Rollback(q) \/ Crash(q)
  BY <1>7 DEF Ingest, Retitle, Rollback, Crash, TypeOK
<1>8. CASE Commit(q)
  BY <1>8 DEF Commit, TypeOK
<1>9. CASE \/ BumpCorpusVersion(q) \/ BumpFails(q) \/ Refresh(q)
           \/ Enqueue(q) \/ EnqueueFails(q) \/ MarkUnqueued(q)
  BY <1>9 DEF BumpCorpusVersion, BumpFails, Refresh, Enqueue, EnqueueFails, MarkUnqueued, TypeOK
<1>10. CASE PatchGroups(q) \/ Remove(q)
  BY <1>2, <1>10 DEF PatchGroups, Remove, RequestStep
<1>. QED BY <1>1, <1>3, <1>4, <1>5, <1>6, <1>7, <1>8, <1>9, <1>10 DEF RequestStep

\* A step of another request, or of a job, moves no PUT.
LEMMA PutProgress ==
    ASSUME TypeInv, Next, NEW q \in Req, call'[q].kind = "put"
    PROVE  PutLocks(q) /\ PutCommits(q)
<1>1. CASE UNCHANGED <<pc, target>>
  BY <1>1 DEF PutLocks, PutCommits
<1>2. ASSUME NEW r \in Req, r # q, Arrive(r) \/ RequestStep(r) \/ Crash(r)
      PROVE  pc'[q] = pc[q] /\ target'[q] = target[q]
  <2>1. pc'[q] = pc[q]
    BY <1>2, StepKeeps DEF Keeps
  <2>2. ShapeOf(r)
    BY <1>2, QuietSteps, WritingSteps, InsertSteps, LockingSteps, TouchingSteps
       DEF RequestStep, ShapeOf
  <2>3. target'[q] = target[q]
    <3>. HIDE DEF TypeInv, ShapeOf
    <3>. QED BY <1>2, <2>2, TargetStep
  <2>. QED BY <2>1, <2>3
<1>3. ASSUME NEW r \in Req, JobStep(r) \/ Redeliver(r) \/ TimeOut(r)
      PROVE  UNCHANGED <<pc, target>>
  BY <1>3 DEF JobStep, StartJob, MarkProcessing, Embed, Swap, SwapFails, CommitSwap, RecordFailure,
              Acknowledge, Redeliver, TimeOut, webVars
<1>4. CASE Arrive(q) \/ RequestStep(q) \/ Crash(q)
  BY <1>4, PutStep
<1>. QED BY <1>1, <1>2, <1>3, <1>4 DEF Next, Finished, vars, webVars, PutLocks, PutCommits

-----------------------------------------------------------------------------
(* The invariant. *)

\* What a PUT locks is of its record.
LEMMA LockedRecord ==
    ASSUME LockInv, SurviveInv, Next, NEW r \in Req, ShapeOf(r),
           NEW q \in Req, pc'[q] = "lock", pc[q] # "idle" => call'[q] = call[q],
           call'[q].kind = "put", doc'[target'[q]] # None
    PROVE  doc'[target'[q]].external_id = call'[q].external_id
<1>1. PutLocks(q)
  BY PutProgress DEF LockInv
<1>2. CASE pc[q] = "lock" /\ target'[q] = target[q]
  <2>. DEFINE u == target[q]
  <2>1. u \in Req /\ call'[q] = call[q]
    BY <1>2 DEF LockInv, TypeOK
  <2>2. CASE doc[u] # None
    <3>1. doc[u].external_id = call[q].external_id
      BY <1>2, <2>1, <2>2 DEF SurviveInv
    <3>2. Removes(r) \/ NotBefore(doc'[u], doc[u])
      <4>. HIDE DEF LockInv, ShapeOf
      <4>. QED BY <2>1, <2>2, RowStays
    <3>3. CASE Removes(r)
      <4>1. doc'[u] = doc[u]
        BY <1>2, <3>3 DEF Removes, LockInv, TypeOK
      <4>. QED BY <1>2, <2>1, <3>1, <4>1
    <3>. QED BY <1>2, <2>1, <3>1, <3>2, <3>3 DEF NotBefore
  <2>3. CASE doc[u] = None
    <3>1. Unborn(u)
      <4>. HIDE DEF LockInv
      <4>. QED BY <1>2, <2>1, <2>3, DeletedRow
    <3>2. q = u
      BY <3>1, <2>1 DEF LockInv, FreshInv
    <3>3. doc'[u] = None
      BY <1>2, <2>3, <3>2 DEF ShapeOf, Quiet, Touches, Inserts, Locks, Embeds, Closes, Swaps,
                              ClosesJob, Removes, LockInv, TypeOK, Live, FreshInv, Unborn, HeldInv,
                              DraftOK, JobOK
    <3>. QED BY <1>2, <3>3
  <2>. QED BY <2>2, <2>3
<1>3. CASE doc' = doc /\ doc[target'[q]].external_id = call[q].external_id /\ pc[q] # "idle"
  BY <1>3
<1>. QED BY <1>1, <1>2, <1>3 DEF PutLocks

\* What a PUT is about to commit records its call.
LEMMA DraftRecords ==
    ASSUME LockInv, SurviveInv, NEW r \in Req, ShapeOf(r),
           NEW q \in Req, call'[q] = call[q], call[q].kind = "put", pc[q] # "idle",
           draft'[q] # None
    PROVE  Records(draft'[q], call[q])
<1>. USE DEF LockInv
<1>1. CASE draft'[q] = draft[q]
  BY <1>1 DEF SurviveInv
<1>2. CASE q = r /\ Inserts(r)
  <2>1. /\ draft'[q].external_id = call[q].external_id
        /\ draft'[q].source_updated_at = call[q].source_updated_at
    BY <1>2 DEF Inserts, TypeOK
  <2>2. call[q].source_updated_at \in Nat \cup {None}
    BY CallFields DEF Call
  <2>. QED BY <2>1, <2>2, ConstantsAssumption DEF Records, Reaches
<1>3. CASE q = r /\ Locks(r)
  <2>1. Reaches(draft'[q], call[q]) /\ draft'[q].external_id = doc[target[q]].external_id
    BY <1>3 DEF Locks, TypeOK, NotBefore
  <2>2. doc[target[q]].external_id = call[q].external_id
    BY <1>3 DEF Locks, SurviveInv
  <2>. QED BY <2>1, <2>2 DEF Records
<1>4. CASE q = r /\ Embeds(r)
  <2>1. draft[q] # None
    BY <1>4 DEF Embeds, DraftOK
  <2>2. /\ draft'[q].external_id = draft[q].external_id
        /\ draft'[q].source_updated_at = draft[q].source_updated_at
    BY <1>4 DEF Embeds, TypeOK
  <2>3. Records(draft[q], call[q])
    BY <2>1 DEF SurviveInv
  <2>. QED BY <2>2, <2>3 DEF Records, Reaches
<1>5. CASE q = r /\ Closes(r)
  BY <1>5 DEF Closes, TypeOK
<1>6. draft'[q] = draft[q] \/ (q = r /\ (Inserts(r) \/ Locks(r) \/ Embeds(r) \/ Closes(r)))
  BY DEF ShapeOf, Quiet, Touches, Removes, Inserts, Locks, Embeds, Closes, Swaps, ClosesJob, TypeOK
<1>. QED BY <1>1, <1>2, <1>3, <1>4, <1>5, <1>6

\* Once that is committed, a row records it as long as nobody deletes.
LEMMA RowRecords ==
    ASSUME LockInv, LockInv', SurviveInv, Next, NEW r \in Req, Keeps(r), ShapeOf(r), NobodyDeletes',
           NEW q \in Req, call'[q] = call[q], call[q].kind = "put", pc[q] # "idle",
           pc'[q] \in Committed
    PROVE  \E u \in Live' : Records(doc'[u], call[q])
<1>1. PutCommits(q)
  BY PutProgress DEF LockInv
<1>2. CASE pc[q] \in Committed
  <2>1. NobodyDeletes
    BY DEF Keeps, NobodyDeletes
  <2>2. PICK u \in Live : Records(doc[u], call[q])
    BY <1>2, <2>1 DEF SurviveInv
  <2>3. ~Removes(r)
    BY <2>1 DEF Removes, NobodyDeletes
  <2>4. doc'[u] # None /\ NotBefore(doc'[u], doc[u])
    <3>. HIDE DEF LockInv, ShapeOf
    <3>. QED BY <2>2, <2>3, RowStays DEF Live
  <2>5. doc[u] \in Row /\ doc'[u] \in Row /\ call[q] \in Call
    BY <2>2, <2>4, CallFields DEF LockInv, TypeOK, Live
  <2>. QED BY <2>2, <2>4, <2>5, StillRecords DEF Live
<1>3. CASE pc[q] = "commit" /\ doc' = [doc EXCEPT ![target[q]] = draft[q]]
  <2>1. draft[q] # None
    BY <1>3 DEF LockInv, DraftOK
  <2>2. target[q] \in Req /\ doc'[target[q]] = draft[q]
    BY <1>3 DEF LockInv, TypeOK
  <2>3. Records(draft[q], call[q])
    BY <2>1 DEF SurviveInv
  <2>. QED BY <2>1, <2>2, <2>3 DEF Live
<1>. QED BY <1>1, <1>2, <1>3 DEF PutCommits

LEMMA SurviveStep ==
    ASSUME LockInv, LockInv', SurviveInv, Next, NEW r \in Req, Keeps(r), ShapeOf(r)
    PROVE  SurviveInv'
<1>. SUFFICES ASSUME NEW q \in Req, pc'[q] # "idle", call'[q].kind = "put"
              PROVE  /\ pc'[q] = "lock" /\ doc'[target'[q]] # None =>
                           doc'[target'[q]].external_id = call'[q].external_id
                     /\ draft'[q] # None => Records(draft'[q], call'[q])
                     /\ NobodyDeletes' /\ pc'[q] \in Committed =>
                           \E u \in Live' : Records(doc'[u], call'[q])
  BY DEF SurviveInv
<1>1. pc[q] # "idle" => call'[q] = call[q]
  BY DEF Keeps
<1>2. CASE pc[q] # "idle"
  <2>. HIDE DEF LockInv, ShapeOf, Keeps, SurviveInv, TypeInv
  <2>. QED BY <1>1, <1>2, LockedRecord, DraftRecords, RowRecords
<1>3. CASE pc[q] = "idle"
  <2>1. PutLocks(q) /\ PutCommits(q)
    BY PutProgress DEF LockInv
  <2>2. pc'[q] # "lock" /\ pc'[q] \notin Committed
    BY <1>3, <2>1 DEF PutLocks, PutCommits, Committed
  <2>3. draft'[q] = None
    BY <1>3, SMTT(30) DEF ShapeOf, Quiet, Touches, Removes, Inserts, Locks, Embeds, Closes, Swaps, ClosesJob,
                LockInv, TypeOK, DraftOK
  <2>. QED BY <2>2, <2>3
<1>. QED BY <1>2, <1>3

LEMMA Surviving == Spec => []SurviveInv
<1>1. Init => SurviveInv
  BY DEF Init, SurviveInv
<1>2. LockInv /\ LockInv' /\ SurviveInv /\ [Next]_vars => SurviveInv'
  <2>. SUFFICES ASSUME LockInv, LockInv', SurviveInv, [Next]_vars PROVE SurviveInv'
    OBVIOUS
  <2>1. CASE UNCHANGED vars
    BY <2>1 DEF vars, webVars, jobVars, SurviveInv, NobodyDeletes, Live
  <2>2. CASE Next /\ \E r \in Req : Keeps(r) /\ ShapeOf(r)
    <3>. HIDE DEF LockInv
    <3>. QED BY <2>2, SurviveStep
  <2>. QED BY <2>1, <2>2, Shapes DEF ShapeOf, LockInv
<1>. HIDE DEF LockInv, SurviveInv
<1>. QED BY <1>1, <1>2, Locking, PTL DEF Spec

\* As long as nobody deletes, what an answered PUT brought is never undone by a state the source
\* had before it, for any number of PUTs, PATCHes, jobs and failures in any order.
THEOREM WritesSurvive == Spec => []AnsweredWritesSurvive
<1>1. LockInv /\ SurviveInv => AnsweredWritesSurvive
  <2>. SUFFICES ASSUME LockInv, SurviveInv, NEW r \in Req,
                       pc[r] \in {"ok", "queued"}, call[r].kind = "put",
                       call[r].source_updated_at # None,
                       \A q \in Req : call[q] # None => call[q].kind \notin {"delete", "delete_external"}
                PROVE  \E u \in Live : /\ doc[u].external_id = call[r].external_id
                                       /\ doc[u].source_updated_at # None
                                       /\ doc[u].source_updated_at >= call[r].source_updated_at
    BY DEF AnsweredWritesSurvive
  <2>1. \A q \in Req : pc[q] # "idle" => call[q] # None
    BY CallFields, NoneIsNoCall DEF LockInv
  <2>2. NobodyDeletes
    BY <2>1 DEF NobodyDeletes, DeleteKinds
  <2>. QED BY <2>2 DEF SurviveInv, Committed, Records, Reaches
<1>. HIDE DEF LockInv, SurviveInv
<1>. QED BY <1>1, Locking, Surviving, PTL
-----------------------------------------------------------------------------
(* What a ready row holds. A job parses the bytes it read before it had any *)
(* lock, so they must be those of the hash the row has when it swaps: they  *)
(* are, unless a record goes from texts that are parsed at once to texts    *)
(* that go to the worker or back (the run newest_version shows how).        *)

Uploads == {"put", "upload"}

\* What a client keeps under one external id is always long, or always short.
OneSize ==
    \A q, r \in Req : \A c \in Calls[q], d \in Calls[r] :
        c.kind = "put" /\ d.kind = "put" /\ c.external_id = d.external_id
            => (c.text \in Large <=> d.text \in Large)

\* It is always the same text.
OneText ==
    \A q, r \in Req : \A c \in Calls[q], d \in Calls[r] :
        c.kind = "put" /\ d.kind = "put" /\ c.external_id = d.external_id => c.text = d.text

\* The row is one that call c inserted: its text, and the bytes the worker is to parse.
RowOf(row, c) ==
    /\ c.kind \in Uploads
    /\ row.external_id = c.external_id
    /\ row.sha256 \in Large <=> c.text \in Large
    /\ c.kind = "upload" \/ OneText => row.sha256 = c.text
    /\ row.raw_content \in {None, row.sha256}
    /\ row.sha256 \notin Large => row.raw_content = None

HoldsItsText(row) == row.status = "ready" => row.content = row.sha256

\* Who asks for a job, and which row an upload works on.
KindInv ==
    \A q \in Req :
        /\ pc[q] = "idle" => target[q] = q
        /\ pc[q] = "find" => call[q].kind \notin Uploads
        /\ pc[q] # "idle" /\ call[q].kind = "upload" => target[q] = q
        /\ "enqueue" \in after[q] => pc[q] # "idle" /\ call[q].kind \in Uploads
        /\ pc[q] \in {"enqueue", "unqueued"} => "enqueue" \in after[q]
        /\ jpc[q] # "none" /\ jhash[q] = None => call[q].kind = "upload"

\* Every version of a row, committed or not, is of the call that inserted it; what is ready
\* holds its text, and the bytes a job has read are those of the hash it was queued with.
StoredInv ==
    \A q \in Req :
        /\ doc[q] # None => RowOf(doc[q], call[q]) /\ HoldsItsText(doc[q])
        /\ draft[q] # None =>
              /\ RowOf(draft[q], call[target[q]])
              /\ IF pc[q] = "ingest" THEN draft[q].sha256 = call[q].text ELSE HoldsItsText(draft[q])
        /\ jdraft[q] # None => RowOf(jdraft[q], call[target[q]]) /\ HoldsItsText(jdraft[q])
        /\ jpc[q] \in {"mark", "embed", "swap"} =>
              /\ RowOf(jseen[q], call[target[q]])
              /\ jhash[q] # None => jseen[q].sha256 = jhash[q]

\* The row has the same text, and is not more ready.
SameText(new, old) ==
    /\ new.external_id = old.external_id /\ new.sha256 = old.sha256
    /\ new.raw_content = old.raw_content /\ new.content = old.content
    /\ new.status = "ready" => old.status = "ready"

LEMMA KindStep == TypeInv /\ KindInv /\ [Next]_vars => KindInv'
<1>. SUFFICES ASSUME TypeInv, KindInv, [Next]_vars PROVE KindInv'
  OBVIOUS
<1>. USE DEF Uploads
<1>1. CASE UNCHANGED vars
  BY <1>1 DEF vars, webVars, jobVars, KindInv
<1>2. ASSUME NEW r \in Req, Arrive(r) \/ RequestStep(r) \/ Crash(r) PROVE KindInv'
  <2>1. CASE Arrive(r)
    BY <2>1 DEF Arrive, FirstStep, KindInv, TypeOK, JobOK, jobVars
  <2>2. CASE CheckUpload(r) \/ Insert(r) \/ Select(r) \/ Vanished(r) \/ Find(r)
    BY <2>2 DEF CheckUpload, Insert, Select, Vanished, NextAttempt, Find, KindInv, CallOK, TypeOK,
                jobVars
  <2>3. CASE \/ IgnoreStale(r) \/ UpdateTitleAndMetadata(r) \/ ReplaceInBackground(r)
             \/ ReplaceAtOnce(r) \/ PatchGroups(r)
    BY <2>3 DEF IgnoreStale, UpdateTitleAndMetadata, ReplaceInBackground, ReplaceAtOnce, LocksRow,
                PatchGroups, BumpOwed, KindInv, TypeOK, jobVars
  <2>4. CASE \/ Ingest(r) \/ Retitle(r) \/ Rollback(r) \/ Commit(r)
             \/ BumpCorpusVersion(r) \/ BumpFails(r) \/ Refresh(r)
    BY <2>4 DEF Ingest, Retitle, Rollback, Commit, BumpCorpusVersion, BumpFails, Refresh,
                KindInv, TypeOK, jobVars
  <2>5. CASE Enqueue(r) \/ EnqueueFails(r)
    <3>1. call[r].kind = "put" => seen[r] \in Row /\ seen[r].sha256 # None
      BY <2>5, ConstantsAssumption DEF Enqueue, EnqueueFails, SeenOK, TypeOK, Row
    <3>. QED BY <2>5, <3>1 DEF Enqueue, EnqueueFails, QueueJob, KindInv, TypeOK, jobVars
  <2>6. CASE MarkUnqueued(r) \/ Remove(r) \/ Crash(r)
    BY <2>6 DEF MarkUnqueued, Remove, Crash, KindInv, TypeOK, jobVars
  <2>. QED BY <1>2, <2>1, <2>2, <2>3, <2>4, <2>5, <2>6 DEF RequestStep
<1>3. ASSUME NEW r \in Req, JobStep(r) \/ Redeliver(r) \/ TimeOut(r) PROVE KindInv'
  BY <1>3 DEF JobStep, StartJob, MarkProcessing, Embed, Swap, SwapFails, CommitSwap, RecordFailure,
              Acknowledge, Redeliver, TimeOut, Running, webVars, KindInv, TypeOK
<1>. QED BY <1>1, <1>2, <1>3 DEF Next, Finished

LEMMA KindInvariant == Spec => []KindInv
<1>1. Init => KindInv
  BY DEF Init, KindInv
<1>. HIDE DEF TypeInv
<1>. QED BY <1>1, KindStep, TypeInvariant, PTL DEF Spec

\* The row of a request that has arrived is that of a request that has arrived.
LEMMA RowHasCall ==
    ASSUME LockInv, NEW q \in Req, pc[q] # "idle"
    PROVE  target[q] \in Req /\ pc[target[q]] # "idle"
<1>1. target[q] \in Req
  BY DEF LockInv, TypeOK
<1>2. CASE target[q] = q
  BY <1>1, <1>2
<1>3. CASE target[q] # q
  <2>1. ~Unborn(target[q])
    BY <1>1, <1>3 DEF LockInv, FreshInv
  <2>. QED BY <1>1, <2>1 DEF Unborn
<1>. QED BY <1>2, <1>3

LEMMA LiveHasCall ==
    ASSUME LockInv, NEW u \in Req, doc[u] # None
    PROVE  pc[u] # "idle"
BY DEF LockInv, FreshInv, Unborn

\* What the helpers make of a row's text.
LEMMA TextColumns ==
    ASSUME NEW row \in Row, NEW c \in Call
    PROVE  /\ Regrouped(row, c) \in Row /\ SameText(Regrouped(row, c), row)
           /\ Regrouped(row, c).status = row.status
           /\ SameText(RememberSourceTime(row, c), row)
           /\ RememberSourceTime(row, c).status = row.status
<1>1. Regrouped(row, c) \in Row
  BY RegroupedByCall
<1>2. SameText(Regrouped(row, c), row) /\ Regrouped(row, c).status = row.status
  BY DEF Regrouped, SetAccessGroups, SameText, Row
<1>3. /\ SameText(RememberSourceTime(row, c), row)
      /\ RememberSourceTime(row, c).status = row.status
  BY DEF RememberSourceTime, SameText, Row
<1>. QED BY <1>1, <1>2, <1>3

\* The two shapes _apply_to_existing gives a row, again: the text of the row, and of the call.
LEMMA AppliedText ==
    ASSUME NEW row \in Row, NEW c \in Call, c.title \in Titles, c.text \in Texts
    PROVE  LET retitled == RememberSourceTime([Regrouped(row, c) EXCEPT !.filename = c.title], c)
               rewritten == Rewritten(row, c)
           IN  /\ SameText(retitled, row) /\ retitled.status = row.status
               /\ rewritten \in [external_id : {row.external_id}, sha256 : {c.text},
                                 raw_content : {row.raw_content}, content : {row.content},
                                 filename : Titles, status : Status, error : BOOLEAN,
                                 source_updated_at : Nat \cup {None},
                                 access_groups : AccessLists, chunks : SUBSET Chunk]
<1>. DEFINE regrouped == Regrouped(row, c)
            named == [regrouped EXCEPT !.filename = c.title]
            hashed == [regrouped EXCEPT !.filename = c.title, !.sha256 = c.text, !.error = FALSE]
<1>1. regrouped \in Row /\ SameText(regrouped, row) /\ regrouped.status = row.status
  BY TextColumns
<1>. HIDE DEF regrouped
<1>2. named \in Row /\ SameText(named, row) /\ named.status = row.status
  BY <1>1 DEF SameText, Row
<1>3. /\ hashed \in Row /\ hashed.sha256 = c.text
      /\ hashed.external_id = row.external_id /\ hashed.raw_content = row.raw_content
      /\ hashed.content = row.content
  BY <1>1 DEF SameText, Row
<1>. HIDE DEF named, hashed
<1>4. /\ SameText(RememberSourceTime(named, c), named)
      /\ RememberSourceTime(named, c).status = named.status
  BY <1>2, TextColumns
<1>5. RememberSourceTime(hashed, c) \in
         [external_id : {row.external_id}, sha256 : {c.text},
          raw_content : {row.raw_content}, content : {row.content},
          filename : Titles, status : Status, error : BOOLEAN,
          source_updated_at : Nat \cup {None},
          access_groups : AccessLists, chunks : SUBSET Chunk]
  BY <1>3 DEF RememberSourceTime, Row, Call
<1>6. SameText(RememberSourceTime(named, c), row) /\ RememberSourceTime(named, c).status = row.status
  BY <1>2, <1>4 DEF SameText
<1>. QED BY <1>5, <1>6 DEF Rewritten, regrouped, named, hashed

\* Only the columns of the text count.
LEMMA SameRowOf ==
    ASSUME NEW new, NEW old, NEW c, SameText(new, old), RowOf(old, c)
    PROVE  RowOf(new, c) /\ (HoldsItsText(old) => HoldsItsText(new))
BY DEF SameText, RowOf, HoldsItsText

\* A row that is inserted.
LEMMA InsertedText ==
    ASSUME NEW c \in Call, c.kind \in Uploads, c.text \in Texts
    PROVE  /\ RowOf(NewRow(c), c) /\ HoldsItsText(NewRow(c))
           /\ NewRow(c).sha256 = c.text
BY DEF RowOf, HoldsItsText, NewRow

-----------------------------------------------------------------------------
(* What a step does to committed rows, to drafts and to jobs. *)

\* Only these steps write the table.
LEMMA DocSteps ==
    ASSUME TypeInv, Next
    PROVE  \/ doc' = doc
           \/ \E r \in Req : \/ MarkUnqueued(r) \/ MarkProcessing(r) \/ RecordFailure(r)
                             \/ Commit(r) \/ CommitSwap(r) \/ Remove(r)
<1>1. ASSUME NEW r \in Req, \/ Arrive(r) \/ Crash(r) \/ CheckUpload(r) \/ Insert(r) \/ Select(r)
                            \/ Vanished(r) \/ IgnoreStale(r) \/ UpdateTitleAndMetadata(r)
                            \/ ReplaceInBackground(r) \/ ReplaceAtOnce(r)
      PROVE  doc' = doc
  BY <1>1 DEF Arrive, Crash, CheckUpload, Insert, Select, Vanished, IgnoreStale,
              UpdateTitleAndMetadata, ReplaceInBackground, ReplaceAtOnce
<1>2. ASSUME NEW r \in Req, \/ Ingest(r) \/ Retitle(r) \/ Rollback(r) \/ BumpCorpusVersion(r)
                            \/ BumpFails(r) \/ Refresh(r) \/ Enqueue(r) \/ EnqueueFails(r)
                            \/ Find(r) \/ PatchGroups(r)
      PROVE  doc' = doc
  BY <1>2 DEF Ingest, Retitle, Rollback, BumpCorpusVersion, BumpFails, Refresh, Enqueue,
              EnqueueFails, Find, PatchGroups
<1>3. ASSUME NEW r \in Req, \/ StartJob(r) \/ Embed(r) \/ Swap(r) \/ SwapFails(r)
                            \/ Acknowledge(r) \/ Redeliver(r) \/ TimeOut(r)
      PROVE  doc' = doc
  BY <1>3 DEF StartJob, Embed, Swap, SwapFails, Acknowledge, Redeliver, TimeOut
<1>. QED BY <1>1, <1>2, <1>3 DEF Next, Finished, vars, RequestStep, JobStep

\* The marks a request or a job leaves on a row.
LEMMA MarkedText ==
    ASSUME TypeInv, NEW r \in Req, MarkUnqueued(r) \/ MarkProcessing(r) \/ RecordFailure(r),
           NEW u \in Req, doc'[u] # None
    PROVE  doc[u] # None /\ SameText(doc'[u], doc[u])
<1>1. doc[u] \in Row \cup {None} /\ doc[target[r]] \in Row \cup {None}
  BY DEF TypeOK
<1>2. CASE doc'[u] = doc[u]
  BY <1>2 DEF SameText
<1>3. CASE doc'[u] # doc[u]
  <2>1. u = target[r] /\ doc[u] # None
    BY <1>3 DEF MarkUnqueued, MarkProcessing, RecordFailure, Current, TypeOK
  <2>2. doc[u] \in Row
    BY <1>1, <2>1
  <2>3. CASE MarkUnqueued(r)
    <3>1. PICK status : /\ doc' = [doc EXCEPT ![u] = [doc[u] EXCEPT !.error = TRUE, !.status = status]]
                        /\ status \in {"failed", doc[u].status}
      BY <2>1, <2>3 DEF MarkUnqueued
    <3>2. doc'[u] = [doc[u] EXCEPT !.error = TRUE, !.status = status]
      BY <3>1 DEF TypeOK
    <3>. QED BY <2>2, <3>1, <3>2 DEF SameText, Row
  <2>4. CASE MarkProcessing(r)
    <3>1. doc'[u] = [doc[u] EXCEPT !.status = "processing"]
      BY <1>3, <2>1, <2>4 DEF MarkProcessing, TypeOK
    <3>. QED BY <2>2, <3>1 DEF SameText, Row
  <2>5. CASE RecordFailure(r)
    <3>1. doc'[u] = [doc[u] EXCEPT !.status = "failed", !.error = TRUE]
      BY <1>3, <2>1, <2>5 DEF RecordFailure, TypeOK
    <3>. QED BY <2>2, <3>1 DEF SameText, Row
  <2>. QED BY <2>1, <2>3, <2>4, <2>5
<1>. QED BY <1>2, <1>3

\* Only these steps open a transaction, or write in one.
LEMMA DraftSteps ==
    ASSUME TypeInv, Next, NEW q \in Req, draft'[q] # None, draft'[q] # draft[q] \/ pc[q] = "ingest"
    PROVE  \/ Insert(q) \/ Ingest(q) \/ IgnoreStale(q) \/ UpdateTitleAndMetadata(q)
           \/ ReplaceInBackground(q) \/ ReplaceAtOnce(q) \/ PatchGroups(q)
           \/ UNCHANGED <<draft[q], pc[q]>>
<1>1. ASSUME NEW r \in Req, \/ Arrive(r) \/ Crash(r) \/ CheckUpload(r) \/ Select(r) \/ Vanished(r)
                            \/ Retitle(r) \/ Rollback(r) \/ Commit(r) \/ BumpCorpusVersion(r)
      PROVE  UNCHANGED <<draft[q], pc[q]>>
  BY <1>1 DEF Arrive, Crash, CheckUpload, Select, Vanished, NextAttempt, Retitle, Rollback, Commit,
              BumpCorpusVersion, TypeOK, DraftOK
<1>2. ASSUME NEW r \in Req, \/ BumpFails(r) \/ Refresh(r) \/ Enqueue(r) \/ EnqueueFails(r)
                            \/ MarkUnqueued(r) \/ Find(r) \/ Remove(r)
      PROVE  UNCHANGED <<draft[q], pc[q]>>
  BY <1>2 DEF BumpFails, Refresh, Enqueue, EnqueueFails, MarkUnqueued, Find, Remove, TypeOK, DraftOK
<1>3. ASSUME NEW r \in Req, JobStep(r) \/ Redeliver(r) \/ TimeOut(r)
      PROVE  UNCHANGED <<draft[q], pc[q]>>
  BY <1>3 DEF JobStep, StartJob, MarkProcessing, Embed, Swap, SwapFails, CommitSwap, RecordFailure,
              Acknowledge, Redeliver, TimeOut, webVars
<1>4. ASSUME NEW r \in Req, r # q,
             \/ Insert(r) \/ Ingest(r) \/ IgnoreStale(r) \/ UpdateTitleAndMetadata(r)
             \/ ReplaceInBackground(r) \/ ReplaceAtOnce(r) \/ PatchGroups(r)
      PROVE  UNCHANGED <<draft[q], pc[q]>>
  BY <1>4 DEF Insert, Ingest, IgnoreStale, UpdateTitleAndMetadata, ReplaceInBackground,
              ReplaceAtOnce, PatchGroups, TypeOK
<1>. QED BY <1>1, <1>2, <1>3, <1>4 DEF Next, Finished, vars, webVars, RequestStep

\* What a transaction writes first, once it has its row's lock.
LEMMA LockedText ==
    ASSUME LockInv, SurviveInv, StoredInv, OneSize, NEW q \in Req,
           \/ IgnoreStale(q) \/ UpdateTitleAndMetadata(q)
           \/ ReplaceInBackground(q) \/ ReplaceAtOnce(q) \/ PatchGroups(q),
           draft'[q] # None
    PROVE  /\ target'[q] = target[q] /\ RowOf(draft'[q], call[target[q]])
           /\ IF pc'[q] = "ingest" THEN draft'[q].sha256 = call[q].text ELSE HoldsItsText(draft'[q])
           /\ pc'[q] # "ingest" /\ draft'[q].status # doc[target[q]].status
                 => draft'[q].status = "pending" /\ "enqueue" \in after'[q]
<1>. USE DEF LockInv
<1>. DEFINE c == call[q]
            row == doc[target[q]]
            by == call[target[q]]
            retitled == RememberSourceTime([Regrouped(row, c) EXCEPT !.filename = c.title], c)
            rewritten == Rewritten(row, c)
<1>1. c \in Call /\ c \in Calls[q] /\ (c.kind = "put" => c.title \in Titles /\ c.text \in Texts)
  BY CallFields DEF IgnoreStale, UpdateTitleAndMetadata, ReplaceInBackground, ReplaceAtOnce,
                    PatchGroups, LocksRow, CallOK
<1>2. target[q] \in Req /\ row \in Row \cup {None} /\ pc[q] = "lock"
  BY DEF TypeOK, IgnoreStale, UpdateTitleAndMetadata, ReplaceInBackground, ReplaceAtOnce,
         PatchGroups, LocksRow
<1>3. row # None
  BY <1>2 DEF IgnoreStale, UpdateTitleAndMetadata, ReplaceInBackground, ReplaceAtOnce, LocksRow,
              PatchGroups, DraftOK
<1>4. row \in Row /\ RowOf(row, by) /\ HoldsItsText(row)
  BY <1>2, <1>3 DEF StoredInv
<1>5. target'[q] = target[q]
  BY DEF IgnoreStale, UpdateTitleAndMetadata, ReplaceInBackground, ReplaceAtOnce, PatchGroups
<1>6. ASSUME c.kind = "put"
      PROVE  /\ SameText(retitled, row) /\ retitled.status = row.status
             /\ rewritten.sha256 = c.text /\ rewritten.external_id = row.external_id
             /\ rewritten.raw_content = row.raw_content
             /\ rewritten \in Row
  BY <1>1, <1>4, <1>6, AppliedText DEF Row
<1>7. ASSUME c.kind = "put"
      PROVE  /\ by.kind = "put" /\ (by.text \in Large <=> c.text \in Large)
             /\ OneText => by.text = c.text
  <2>1. row.external_id = c.external_id /\ c.external_id # None
    BY <1>1, <1>2, <1>3, <1>7, ConstantsAssumption DEF SurviveInv
  <2>2. by.external_id = c.external_id /\ by.kind \in Uploads
    BY <1>4, <2>1 DEF RowOf
  <2>3. pc[target[q]] # "idle"
    BY <1>2, RowHasCall
  <2>4. by \in Calls[target[q]]
    BY <1>2, <2>3 DEF CallOK
  <2>5. by.kind = "put"
    BY <1>2, <2>1, <2>2, <2>4, ConstantsAssumption DEF Uploads
  <2>. QED BY <1>1, <1>2, <1>7, <2>2, <2>4, <2>5 DEF OneSize, OneText
<1>. HIDE DEF retitled, rewritten
<1>8. CASE IgnoreStale(q)
  <2>1. draft'[q] = row /\ pc'[q] = "commit"
    BY <1>8 DEF IgnoreStale, TypeOK
  <2>. QED BY <1>4, <1>5, <2>1
<1>9. CASE UpdateTitleAndMetadata(q)
  <2>1. draft'[q] = retitled /\ pc'[q] \in {"retitle", "commit"} /\ c.kind = "put"
    BY <1>9 DEF UpdateTitleAndMetadata, LocksRow, TypeOK, retitled
  <2>. QED BY <1>4, <1>5, <1>6, <2>1, SameRowOf
<1>10. CASE ReplaceInBackground(q)
  <2>. DEFINE new == [rewritten EXCEPT !.raw_content = c.text, !.status = "pending"]
  <2>1. draft'[q] = new /\ pc'[q] \in {"retitle", "commit"} /\ c.kind = "put" /\ c.text \in Large
    BY <1>10 DEF ReplaceInBackground, LocksRow, TypeOK, rewritten
  <2>2. "enqueue" \in after'[q]
    BY <1>10 DEF ReplaceInBackground, TypeOK
  <2>3. /\ new.sha256 = c.text /\ new.external_id = row.external_id
        /\ new.raw_content = c.text /\ new.status = "pending"
    BY <1>6, <2>1 DEF Row
  <2>. HIDE DEF new
  <2>4. RowOf(new, by) /\ HoldsItsText(new)
    BY <1>4, <1>7, <2>1, <2>3 DEF RowOf, HoldsItsText
  <2>. QED BY <1>5, <2>1, <2>2, <2>3, <2>4
<1>11. CASE ReplaceAtOnce(q)
  <2>. DEFINE new == WithoutChunks(rewritten)
  <2>1. draft'[q] = new /\ pc'[q] = "ingest" /\ c.kind = "put" /\ c.text \notin Large
    BY <1>11 DEF ReplaceAtOnce, LocksRow, TypeOK, rewritten
  <2>2. /\ new.sha256 = c.text /\ new.external_id = row.external_id
        /\ new.raw_content = row.raw_content
    BY <1>6, <2>1 DEF WithoutChunks, Row
  <2>. HIDE DEF new
  <2>3. RowOf(new, by)
    BY <1>4, <1>7, <2>1, <2>2 DEF RowOf
  <2>. QED BY <1>5, <2>1, <2>2, <2>3
<1>12. CASE PatchGroups(q)
  <2>1. draft'[q] = Regrouped(row, c) /\ pc'[q] = "commit"
    BY <1>3, <1>12 DEF PatchGroups, TypeOK
  <2>. QED BY <1>1, <1>4, <1>5, <2>1, TextColumns, SameRowOf
<1>. QED BY <1>8, <1>9, <1>10, <1>11, <1>12

\* What it has written by the time it commits.
LEMMA EmbeddedText ==
    ASSUME LockInv, StoredInv, NEW q \in Req, Ingest(q)
    PROVE  /\ target'[q] = target[q] /\ pc'[q] = "commit"
           /\ RowOf(draft'[q], call[target[q]]) /\ HoldsItsText(draft'[q])
           /\ draft'[q].status = "ready"
<1>. USE DEF LockInv
<1>1. draft[q] \in Row /\ draft[q] # None /\ pc[q] = "ingest"
  BY DEF Ingest, DraftOK, TypeOK
<1>2. draft'[q] = StoreChunks(draft[q], call[q].text) /\ target'[q] = target[q] /\ pc'[q] = "commit"
  BY DEF Ingest, TypeOK
<1>3. RowOf(draft[q], call[target[q]]) /\ draft[q].sha256 = call[q].text
  BY <1>1 DEF StoredInv
<1>4. /\ draft'[q].external_id = draft[q].external_id /\ draft'[q].sha256 = draft[q].sha256
      /\ draft'[q].raw_content = draft[q].raw_content /\ draft'[q].content = call[q].text
      /\ draft'[q].status = "ready"
  BY <1>1, <1>2 DEF StoreChunks, Row
<1>. QED BY <1>2, <1>3, <1>4 DEF RowOf, HoldsItsText

\* What a job puts in its row's place: the text of the hash that is there.
LEMMA SwappedText ==
    ASSUME LockInv, KindInv, StoredInv, NEW q \in Req, Swap(q), jdraft'[q] # None
    PROVE  /\ jdraft'[q].status = "ready"
           /\ RowOf(jdraft'[q], call[target[q]]) /\ HoldsItsText(jdraft'[q])
<1>. USE DEF LockInv
<1>. DEFINE row == doc[target[q]]
            by == call[target[q]]
<1>1. jpc[q] = "swap" /\ Current(q) /\ jdraft'[q] = SwappedRow(q)
  BY DEF Swap, SwappedRow, TypeOK, JobOK
<1>2. target[q] \in Req /\ row \in Row /\ row # None /\ jseen[q] # None
  BY <1>1 DEF TypeOK, Current, JobOK
<1>3. RowOf(row, by) /\ RowOf(jseen[q], by) /\ jseen[q].raw_content \in Texts
  BY <1>1, <1>2 DEF StoredInv, JobOK
<1>4. jseen[q].raw_content = jseen[q].sha256
  BY <1>3, ConstantsAssumption DEF RowOf
<1>5. jseen[q].sha256 = row.sha256
  <2>1. CASE jhash[q] = None
    <3>1. call[q].kind = "upload" /\ target[q] = q
      BY <1>1, <2>1 DEF KindInv, JobOK
    <3>. QED BY <1>3, <3>1 DEF RowOf
  <2>2. CASE jhash[q] # None
    BY <1>1, <2>2 DEF StoredInv, Current, Obsolete
  <2>. QED BY <2>1, <2>2
<1>6. /\ SwappedRow(q).external_id = row.external_id /\ SwappedRow(q).sha256 = row.sha256
      /\ SwappedRow(q).raw_content = None /\ SwappedRow(q).content = jseen[q].raw_content
      /\ SwappedRow(q).status = "ready"
  BY <1>2 DEF SwappedRow, StoreChunks, WithoutChunks, Row
<1>. QED BY <1>1, <1>3, <1>4, <1>5, <1>6 DEF RowOf, HoldsItsText

-----------------------------------------------------------------------------
(* The rows hold their texts. *)

\* The calls that made the rows are what they were.
LEMMA RowCallStays ==
    ASSUME LockInv, NEW r \in Req, Keeps(r), ShapeOf(r), NEW q \in Req, pc[q] # "idle",
           pc[q] \notin BeforeRow
    PROVE  target'[q] = target[q] /\ target[q] \in Req /\ call'[target[q]] = call[target[q]]
<1>1. target[q] \in Req /\ pc[target[q]] # "idle"
  BY RowHasCall
<1>2. call'[target[q]] = call[target[q]]
  BY <1>1 DEF Keeps
<1>3. target'[q] = target[q]
  <2>1. TypeInv
    BY DEF LockInv
  <2>. HIDE DEF TypeInv, ShapeOf
  <2>. QED BY <2>1, TargetStep
<1>. QED BY <1>1, <1>2, <1>3

LEMMA DocStored ==
    ASSUME LockInv, StoredInv, Next, NEW u \in Req, doc'[u] # None,
           NEW r \in Req, Keeps(r), ShapeOf(r)
    PROVE  RowOf(doc'[u], call'[u]) /\ HoldsItsText(doc'[u])
<1>. USE DEF LockInv
<1>1. ASSUME doc[u] # None PROVE RowOf(doc[u], call'[u]) /\ HoldsItsText(doc[u])
  <2>1. pc[u] # "idle"
    BY <1>1, LiveHasCall
  <2>. QED BY <1>1, <2>1 DEF Keeps, StoredInv
<1>2. CASE doc' = doc
  BY <1>1, <1>2
<1>3. ASSUME NEW q \in Req, MarkUnqueued(q) \/ MarkProcessing(q) \/ RecordFailure(q)
      PROVE  RowOf(doc'[u], call'[u]) /\ HoldsItsText(doc'[u])
  <2>1. doc[u] # None /\ SameText(doc'[u], doc[u])
    BY <1>3, MarkedText
  <2>. QED BY <1>1, <2>1, SameRowOf
<1>4. ASSUME NEW q \in Req, Commit(q)
      PROVE  RowOf(doc'[u], call'[u]) /\ HoldsItsText(doc'[u])
  <2>1. CASE u = target[q]
    <3>1. doc'[u] = draft[q] /\ draft[q] # None /\ pc[q] = "commit"
      BY <1>4, <2>1 DEF Commit, TypeOK, DraftOK
    <3>2. call'[u] = call[u]
      BY <1>4 DEF Commit
    <3>. QED BY <2>1, <3>1, <3>2 DEF StoredInv
  <2>2. CASE u # target[q]
    <3>1. doc'[u] = doc[u]
      BY <1>4, <2>2 DEF Commit, TypeOK
    <3>. QED BY <1>1, <3>1
  <2>. QED BY <2>1, <2>2
<1>5. ASSUME NEW q \in Req, CommitSwap(q)
      PROVE  RowOf(doc'[u], call'[u]) /\ HoldsItsText(doc'[u])
  <2>1. CASE u = target[q]
    <3>1. doc'[u] = jdraft[q] /\ jdraft[q] # None
      BY <1>5, <2>1 DEF CommitSwap, TypeOK, JobOK
    <3>2. call'[u] = call[u]
      BY <1>5 DEF CommitSwap, webVars
    <3>. QED BY <2>1, <3>1, <3>2 DEF StoredInv
  <2>2. CASE u # target[q]
    <3>1. doc'[u] = doc[u]
      BY <1>5, <2>2 DEF CommitSwap, TypeOK
    <3>. QED BY <1>1, <3>1
  <2>. QED BY <2>1, <2>2
<1>6. ASSUME NEW q \in Req, Remove(q)
      PROVE  RowOf(doc'[u], call'[u]) /\ HoldsItsText(doc'[u])
  <2>1. doc'[u] = doc[u]
    BY <1>6 DEF Remove, TypeOK
  <2>. QED BY <1>1, <2>1
<1>. HIDE DEF LockInv
<1>. QED BY <1>2, <1>3, <1>4, <1>5, <1>6, DocSteps DEF LockInv

LEMMA DraftStored ==
    ASSUME LockInv, SurviveInv, StoredInv, OneSize, Next, NEW q \in Req, draft'[q] # None,
           NEW r \in Req, Keeps(r), ShapeOf(r)
    PROVE  /\ RowOf(draft'[q], call'[target'[q]])
           /\ IF pc'[q] = "ingest" THEN draft'[q].sha256 = call'[q].text
                                   ELSE HoldsItsText(draft'[q])
<1>. USE DEF LockInv
<1>1. CASE Insert(q)
  <2>1. call[q] \in Call /\ call[q].kind \in Uploads /\ call[q].text \in Texts
    BY <1>1, CallFields DEF Insert, CallOK, Uploads
  <2>2. draft[q] = None
    BY <1>1 DEF Insert, DraftOK
  <2>3. draft'[q] = NewRow(call[q]) /\ target'[q] = q /\ call' = call
    BY <1>1, <2>2 DEF Insert, TypeOK
  <2>. QED BY <2>1, <2>3, InsertedText
<1>2. CASE Ingest(q)
  <2>1. call' = call
    BY <1>2 DEF Ingest
  <2>. HIDE DEF LockInv
  <2>. QED BY <1>2, <2>1, EmbeddedText
<1>3. CASE \/ IgnoreStale(q) \/ UpdateTitleAndMetadata(q)
           \/ ReplaceInBackground(q) \/ ReplaceAtOnce(q) \/ PatchGroups(q)
  <2>1. call' = call
    BY <1>3 DEF IgnoreStale, UpdateTitleAndMetadata, ReplaceInBackground, ReplaceAtOnce, PatchGroups
  <2>. HIDE DEF LockInv
  <2>. QED BY <1>3, <2>1, LockedText
<1>4. CASE draft'[q] = draft[q]
  <2>1. pc[q] \in Open /\ pc[q] # "idle" /\ pc[q] \notin BeforeRow
    BY <1>4 DEF DraftOK
  <2>2. call'[q] = call[q]
    BY <2>1 DEF Keeps
  <2>3. target'[q] = target[q] /\ call'[target[q]] = call[target[q]]
    <3>. HIDE DEF LockInv, Keeps, ShapeOf
    <3>. QED BY <2>1, RowCallStays
  <2>4. /\ RowOf(draft[q], call[target[q]])
        /\ IF pc[q] = "ingest" THEN draft[q].sha256 = call[q].text ELSE HoldsItsText(draft[q])
    BY <1>4 DEF StoredInv
  <2>5. CASE pc[q] = "ingest" /\ pc'[q] # "ingest"
    <3>1. ~UNCHANGED <<draft[q], pc[q]>>
      BY <2>5
    <3>. QED BY <1>1, <1>2, <1>3, <2>5, <3>1, DraftSteps
  <2>6. CASE pc[q] # "ingest" /\ pc'[q] = "ingest"
    <3>1. \/ Quiet(r) \/ Touches(r) \/ Embeds(r) \/ Closes(r) \/ Swaps(r) \/ ClosesJob(r)
          \/ Removes(r)
          => FALSE
      BY <1>4, <2>1, <2>6
         DEF Quiet, Touches, Embeds, Closes, Swaps, ClosesJob, Removes, Keeps, TypeOK
    <3>2. Inserts(r) \/ Locks(r) => r # q
      BY <2>1 DEF Inserts, Locks
    <3>. QED BY <2>6, <3>1, <3>2 DEF Keeps, ShapeOf
  <2>. QED BY <1>4, <2>2, <2>3, <2>4, <2>5, <2>6
<1>. QED BY <1>1, <1>2, <1>3, <1>4, DraftSteps

\* Only these steps give a job something to work with.
LEMMA JobKeeps ==
    ASSUME TypeInv, Next, NEW q \in Req
    PROVE  /\ jdraft'[q] # None => jdraft'[q] = jdraft[q] \/ Swap(q)
           /\ jpc'[q] \in {"mark", "embed", "swap"} =>
                 \/ StartJob(q)
                 \/ /\ jpc[q] \in {"mark", "embed", "swap"}
                    /\ UNCHANGED <<jseen[q], jhash[q]>>
<1>. DEFINE Kept == /\ jdraft'[q] # None => jdraft'[q] = jdraft[q]
                    /\ jpc'[q] \in {"mark", "embed", "swap"} =>
                          /\ jpc[q] \in {"mark", "embed", "swap"}
                          /\ UNCHANGED <<jseen[q], jhash[q]>>
<1>1. ASSUME NEW r \in Req, Arrive(r) \/ RequestStep(r) \/ Crash(r) PROVE Kept
  <2>1. CASE Enqueue(r) \/ EnqueueFails(r)
    BY <2>1 DEF Enqueue, EnqueueFails, QueueJob, jobVars, TypeOK
  <2>2. CASE UNCHANGED jobVars
    BY <2>2 DEF jobVars
  <2>. QED BY <1>1, <2>1, <2>2
     DEF RequestStep, Arrive, CheckUpload, Insert, Select, Vanished, IgnoreStale,
         UpdateTitleAndMetadata, ReplaceInBackground, ReplaceAtOnce, Ingest, Retitle,
         Rollback, Commit, BumpCorpusVersion, BumpFails, Refresh,
         MarkUnqueued, Find, PatchGroups, Remove, Crash
<1>2. ASSUME NEW r \in Req, \/ MarkProcessing(r) \/ Embed(r) \/ SwapFails(r) \/ CommitSwap(r)
                            \/ RecordFailure(r) \/ Acknowledge(r) \/ Redeliver(r) \/ TimeOut(r)
      PROVE  Kept
  BY <1>2 DEF MarkProcessing, Embed, SwapFails, CommitSwap, RecordFailure, Acknowledge, Redeliver,
              TimeOut, TypeOK
<1>3. ASSUME NEW r \in Req, r # q, StartJob(r) \/ Swap(r) PROVE Kept
  BY <1>3 DEF StartJob, Swap, TypeOK
<1>4. CASE StartJob(q)
  BY <1>4 DEF StartJob
<1>5. CASE Swap(q)
  BY <1>5 DEF Swap, TypeOK
<1>. QED BY <1>1, <1>2, <1>3, <1>4, <1>5 DEF Next, Finished, vars, jobVars, JobStep

LEMMA JobStored ==
    ASSUME LockInv, KindInv, StoredInv, Next, NEW q \in Req, NEW r \in Req, Keeps(r), ShapeOf(r)
    PROVE  /\ jdraft'[q] # None => RowOf(jdraft'[q], call'[target'[q]]) /\ HoldsItsText(jdraft'[q])
           /\ jpc'[q] \in {"mark", "embed", "swap"} =>
                 /\ RowOf(jseen'[q], call'[target'[q]])
                 /\ jhash'[q] # None => jseen'[q].sha256 = jhash'[q]
<1>. USE DEF LockInv
<1>1. ASSUME jpc[q] # "none"
      PROVE  target'[q] = target[q] /\ target[q] \in Req /\ call'[target[q]] = call[target[q]]
  <2>1. pc[q] # "idle" /\ pc[q] \notin BeforeRow
    BY <1>1 DEF JobOK
  <2>. HIDE DEF LockInv, Keeps, ShapeOf
  <2>. QED BY <2>1, RowCallStays
<1>2. ASSUME jdraft'[q] # None
      PROVE  RowOf(jdraft'[q], call'[target'[q]]) /\ HoldsItsText(jdraft'[q])
  <2>1. CASE jdraft'[q] = jdraft[q]
    BY <1>1, <1>2, <2>1 DEF StoredInv, JobOK
  <2>2. CASE Swap(q)
    <3>1. jpc[q] # "none"
      BY <2>2 DEF Swap
    <3>2. RowOf(jdraft'[q], call[target[q]]) /\ HoldsItsText(jdraft'[q])
      <4>. HIDE DEF LockInv
      <4>. QED BY <1>2, <2>2, SwappedText
    <3>. QED BY <1>1, <3>1, <3>2
  <2>. QED BY <1>2, <2>1, <2>2, JobKeeps
<1>3. ASSUME jpc'[q] \in {"mark", "embed", "swap"}
      PROVE  /\ RowOf(jseen'[q], call'[target'[q]])
             /\ jhash'[q] # None => jseen'[q].sha256 = jhash'[q]
  <2>1. CASE StartJob(q)
    <3>1. Current(q) /\ jseen'[q] = doc[target[q]] /\ jpc[q] = "queued" /\ jhash'[q] = jhash[q]
      BY <1>3, <2>1 DEF StartJob, TypeOK
    <3>2. RowOf(doc[target[q]], call[target[q]])
      BY <1>1, <3>1 DEF StoredInv, Current
    <3>. QED BY <1>1, <3>1, <3>2 DEF Current, Obsolete
  <2>2. CASE jpc[q] \in {"mark", "embed", "swap"} /\ UNCHANGED <<jseen[q], jhash[q]>>
    BY <1>1, <2>2 DEF StoredInv
  <2>. QED BY <1>3, <2>1, <2>2, JobKeeps
<1>. QED BY <1>2, <1>3

\* Under OneSize, every reachable state satisfies the invariants above ...
WritesInv == OneSize /\ LockInv /\ SurviveInv /\ KindInv /\ StoredInv

LEMMA WritesInvariant == Spec /\ OneSize => []WritesInv
<1>1. Init => StoredInv
  BY DEF Init, StoredInv
<1>2. LockInv /\ LockInv' /\ WritesInv /\ [Next]_vars => StoredInv'
  <2>. SUFFICES ASSUME LockInv, LockInv', WritesInv, [Next]_vars PROVE StoredInv'
    OBVIOUS
  <2>1. CASE UNCHANGED vars
    BY <2>1 DEF vars, webVars, jobVars, WritesInv, StoredInv
  <2>2. CASE Next /\ \E r \in Req : Keeps(r) /\ ShapeOf(r)
    <3>1. PICK r \in Req : Keeps(r) /\ ShapeOf(r)
      BY <2>2
    <3>. HIDE DEF LockInv, Keeps, ShapeOf, RowOf, HoldsItsText
    <3>. QED BY <2>2, <3>1, DocStored, DraftStored, JobStored DEF WritesInv, StoredInv
  <2>. QED BY <2>1, <2>2, Shapes DEF ShapeOf, LockInv
<1>3. OneSize /\ [Next]_vars => OneSize'
  BY DEF OneSize
<1>. HIDE DEF LockInv, SurviveInv, KindInv, StoredInv, OneSize
<1>. QED BY <1>1, <1>2, <1>3, Locking, Surviving, KindInvariant, PTL DEF Spec, WritesInv

\* ... and so a row is never called ready with another text than the newest it was given, for
\* any requests, jobs and failures, as long as no record goes from short texts to long ones or
\* back. The run newest_version shows what happens to one that does.
THEOREM ReadyRowsHoldTheirText == Spec /\ OneSize => []ReadyMeansStored
<1>1. WritesInv => ReadyMeansStored
  BY DEF WritesInv, StoredInv, HoldsItsText, ReadyMeansStored, Live
<1>. QED BY <1>1, WritesInvariant, PTL

-----------------------------------------------------------------------------
(* Who a waiting row is left to. Where nothing fails but the embedder and a *)
(* record has one text, the row's hash never changes: no job is obsolete    *)
(* before the row is ready or failed, and a status that a request or a job  *)
(* writes late is written by somebody who still has the row's job to do.    *)
(* The runs unqueued and newest_version show why neither can be left out.   *)

Waiting == {"pending", "processing"}

Steady == OneText /\ Faults \subseteq {"embed"}

\* The request or the job that a row is left to.
Owns(q, u) ==
    /\ target[q] = u
    /\ \/ pc[q] \in {"bump", "refresh", "enqueue", "unqueued"} /\ "enqueue" \in after[q]
       \/ jpc[q] \notin {"none", "ack", "done"} /\ jhash[q] \in {None, doc[u].sha256}

\* A transaction leaves a waiting row waiting only if it owes a job, or found it so; a swap
\* leaves it ready; and a job is for the text that its row was inserted with.
OwnedInv ==
    /\ \A u \in Live : doc[u].status \in Waiting => \E q \in Req : Owns(q, u)
    /\ \A q \in Req :
          /\ pc[q] # "unqueued"
          /\ pc[q] \in {"retitle", "commit"} /\ draft[q].status \in Waiting =>
                \/ "enqueue" \in after[q]
                \/ doc[target[q]] # None /\ doc[target[q]].status = draft[q].status
          /\ jdraft[q] # None => jdraft[q].status = "ready"
          /\ pc[q] = "enqueue" /\ call[q].kind = "put" => seen[q].sha256 = call[target[q]].text
          /\ jpc[q] # "none" => jhash[q] \in {None, call[target[q]].text}

LEMMA OneTextIsOneSize == OneText => OneSize
BY DEF OneText, OneSize

\* Every row has the text it was inserted with.
LEMMA FixedText ==
    ASSUME WritesInv, OneText, NEW u \in Req, doc[u] # None
    PROVE  doc[u].sha256 = call[u].text
BY DEF WritesInv, StoredInv, RowOf

\* Without the failures, these steps are never taken.
LEMMA NoFailures ==
    ASSUME Steady, NEW r \in Req
    PROVE  /\ ~BumpFails(r) /\ ~EnqueueFails(r) /\ ~Crash(r)
           /\ ~SwapFails(r) /\ ~Redeliver(r) /\ ~TimeOut(r)
BY DEF Steady, Fault, BumpFails, EnqueueFails, Crash, SwapFails, Redeliver, TimeOut

\* Whoever a waiting row is left to keeps it, until it waits no more.
LEMMA OwnerStays ==
    ASSUME WritesInv, Steady, OwnedInv, Next, NEW q \in Req, NEW u \in Req, Owns(q, u),
           doc[u] # None, doc[u].status \in Waiting, doc'[u] # None, doc'[u].status \in Waiting,
           doc'[u].sha256 = doc[u].sha256, target'[q] = target[q]
    PROVE  Owns(q, u)'
<1>. USE DEF WritesInv, LockInv
<1>1. doc[u] \in Row /\ doc[u].sha256 = call[u].text
  BY FixedText DEF TypeOK, Steady
<1>2. CASE pc[q] \in {"bump", "refresh", "enqueue", "unqueued"} /\ "enqueue" \in after[q]
  <2>1. call[q].kind \in Uploads /\ pc[q] # "unqueued"
    BY <1>2 DEF KindInv, OwnedInv
  <2>2. CASE BumpCorpusVersion(q)
    BY <1>2, <2>1, <2>2 DEF BumpCorpusVersion, Owns, TypeOK, Uploads
  <2>3. CASE Refresh(q)
    BY <1>2, <2>3 DEF Refresh, Owns, TypeOK
  <2>4. CASE Enqueue(q)
    <3>1. jpc'[q] = "queued" /\ jhash'[q] \in {None, seen[q].sha256}
          /\ (jhash'[q] = None \/ call[q].kind = "put")
      BY <2>4 DEF Enqueue, QueueJob, TypeOK
    <3>2. jhash'[q] \in {None, doc'[u].sha256}
      BY <1>1, <2>4, <3>1 DEF Enqueue, OwnedInv, Owns
    <3>. QED BY <3>1, <3>2 DEF Owns
  <2>5. CASE pc'[q] = pc[q] /\ after'[q] = after[q]
    BY <1>2, <2>5 DEF Owns
  <2>6. ASSUME NEW r \in Req, r # q, Arrive(r) \/ RequestStep(r)
        PROVE  pc'[q] = pc[q] /\ after'[q] = after[q]
    BY <2>6, StepKeeps DEF Keeps
  <2>7. ASSUME NEW r \in Req, JobStep(r) PROVE pc'[q] = pc[q] /\ after'[q] = after[q]
    BY <2>7 DEF JobStep, StartJob, MarkProcessing, Embed, Swap, SwapFails, CommitSwap,
                RecordFailure, Acknowledge, webVars
  <2>8. Arrive(q) \/ RequestStep(q) => BumpCorpusVersion(q) \/ Refresh(q) \/ Enqueue(q)
    BY <1>2, <2>1, NoFailures
       DEF RequestStep, Arrive, CheckUpload, Insert, Select, Vanished, IgnoreStale,
           UpdateTitleAndMetadata, ReplaceInBackground, ReplaceAtOnce, LocksRow, Ingest, Retitle,
           Rollback, Commit, MarkUnqueued, Find, PatchGroups, Remove
  <2>9. Next => \/ pc'[q] = pc[q] /\ after'[q] = after[q]
                \/ Arrive(q) \/ RequestStep(q)
    BY <2>6, <2>7, NoFailures DEF Next, Finished, vars, webVars
  <2>. QED BY <2>2, <2>3, <2>4, <2>5, <2>8, <2>9
<1>3. CASE jpc[q] \notin {"none", "ack", "done"} /\ jhash[q] \in {None, doc[u].sha256}
  <2>1. Current(q) /\ target[q] = u
    BY <1>3 DEF Current, Obsolete, Owns, Waiting
  <2>2. CASE StartJob(q) \/ MarkProcessing(q) \/ Embed(q) \/ Swap(q)
    BY <1>3, <2>1, <2>2 DEF StartJob, MarkProcessing, Embed, Swap, Owns, TypeOK
  <2>3. ~CommitSwap(q)
    <3>1. CommitSwap(q) => doc'[u].status = "ready"
      BY <2>1 DEF CommitSwap, OwnedInv, TypeOK, JobOK
    <3>. QED BY <3>1 DEF Waiting
  <2>4. ~RecordFailure(q)
    <3>1. RecordFailure(q) => doc'[u] = [doc[u] EXCEPT !.status = "failed", !.error = TRUE]
      BY <2>1 DEF RecordFailure, TypeOK
    <3>2. [doc[u] EXCEPT !.status = "failed", !.error = TRUE].status = "failed"
      BY <1>1 DEF Row
    <3>. QED BY <3>1, <3>2 DEF Waiting
  <2>5. ~Acknowledge(q)
    BY <1>3 DEF Acknowledge
  <2>6. CASE jpc'[q] = jpc[q] /\ jhash'[q] = jhash[q]
    BY <1>3, <2>1, <2>6 DEF Owns
  <2>7. ASSUME NEW r \in Req, r # q, JobStep(r)
        PROVE  jpc'[q] = jpc[q] /\ jhash'[q] = jhash[q]
    BY <2>7 DEF JobStep, StartJob, MarkProcessing, Embed, Swap, SwapFails, CommitSwap,
                RecordFailure, Acknowledge, TypeOK
  <2>8. ASSUME NEW r \in Req, Arrive(r) \/ RequestStep(r)
        PROVE  jpc'[q] = jpc[q] /\ jhash'[q] = jhash[q]
    <3>1. CASE Enqueue(r)
      <4>1. r # q
        BY <1>3, <3>1 DEF Enqueue, JobOK
      <4>. QED BY <3>1, <4>1 DEF Enqueue, QueueJob, TypeOK
    <3>2. CASE UNCHANGED jobVars
      BY <3>2 DEF jobVars
    <3>. QED BY <2>8, <3>1, <3>2, NoFailures
       DEF RequestStep, Arrive, CheckUpload, Insert, Select, Vanished, IgnoreStale,
           UpdateTitleAndMetadata, ReplaceInBackground, ReplaceAtOnce, Ingest, Retitle,
           Rollback, Commit, BumpCorpusVersion, Refresh, MarkUnqueued, Find, PatchGroups, Remove
  <2>9. \/ jpc'[q] = jpc[q] /\ jhash'[q] = jhash[q]
        \/ JobStep(q)
    BY <2>7, <2>8, NoFailures DEF Next, Finished, vars, jobVars
  <2>10. JobStep(q) => StartJob(q) \/ MarkProcessing(q) \/ Embed(q) \/ Swap(q)
    BY <2>3, <2>4, <2>5, NoFailures DEF JobStep
  <2>. QED BY <2>2, <2>6, <2>9, <2>10
<1>. QED BY <1>2, <1>3 DEF Owns

\* Whoever makes a row wait owes it a job, or is the job.
LEMMA NewOwner ==
    ASSUME WritesInv, Steady, OwnedInv, Next, NEW u \in Req, doc'[u] # None,
           doc'[u].status \in Waiting, doc'[u].sha256 = call[u].text,
           doc[u] = None \/ doc[u].status \notin Waiting
    PROVE  \E q \in Req : Owns(q, u)'
<1>. USE DEF WritesInv, LockInv
<1>0. doc'[u] # doc[u]
  OBVIOUS
<1>1. ASSUME NEW r \in Req, MarkProcessing(r) PROVE \E q \in Req : Owns(q, u)'
  <2>1. target'[r] = u /\ jpc'[r] = "embed" /\ jhash'[r] = jhash[r] /\ jpc[r] # "none"
    BY <1>0, <1>1 DEF MarkProcessing, TypeOK, webVars
  <2>2. target[r] = u
    BY <1>1, <2>1 DEF MarkProcessing, webVars
  <2>3. jhash[r] \in {None, call[u].text}
    BY <2>1, <2>2 DEF OwnedInv
  <2>. QED BY <2>1, <2>3 DEF Owns
<1>2. ASSUME NEW r \in Req, Commit(r) PROVE \E q \in Req : Owns(q, u)'
  <2>1. u = target[r] /\ doc'[u] = draft[r] /\ pc[r] = "commit"
    BY <1>0, <1>2 DEF Commit, TypeOK
  <2>2. "enqueue" \in after[r]
    BY <2>1 DEF OwnedInv
  <2>3. pc'[r] \in {"bump", "enqueue", "refresh"} /\ target'[r] = u /\ after'[r] = after[r]
    BY <1>2, <2>1 DEF Commit, TypeOK
  <2>. QED BY <2>2, <2>3 DEF Owns
<1>3. ASSUME NEW r \in Req, MarkUnqueued(r) \/ RecordFailure(r) PROVE FALSE
  <2>1. ~MarkUnqueued(r)
    BY DEF MarkUnqueued, OwnedInv
  <2>5. /\ RecordFailure(r) /\ Current(r)
        /\ doc' = [doc EXCEPT ![target[r]] = [@ EXCEPT !.status = "failed", !.error = TRUE]]
    BY <1>0, <1>3, <2>1 DEF RecordFailure
  <2>6. u = target[r]
    BY <1>0, <2>5 DEF TypeOK
  <2>2. Current(r) /\ doc'[u] = [doc[u] EXCEPT !.status = "failed", !.error = TRUE]
    BY <2>5, <2>6 DEF TypeOK
  <2>3. doc[u] \in Row
    BY <2>2, <2>6 DEF Current, TypeOK
  <2>4. doc'[u].status = "failed"
    BY <2>2, <2>3 DEF Row
  <2>. QED BY <2>4 DEF Waiting
<1>4. ASSUME NEW r \in Req, CommitSwap(r) PROVE FALSE
  <2>1. u = target[r] /\ doc'[u] = jdraft[r] /\ jdraft[r] # None
    BY <1>0, <1>4 DEF CommitSwap, TypeOK, JobOK
  <2>. QED BY <2>1 DEF OwnedInv, Waiting
<1>5. ASSUME NEW r \in Req, Remove(r) PROVE FALSE
  BY <1>0, <1>5 DEF Remove, TypeOK
<1>. HIDE DEF WritesInv
<1>. QED BY <1>0, <1>1, <1>2, <1>3, <1>4, <1>5, DocSteps DEF WritesInv, LockInv

\* What the requests and the jobs keep to themselves.
LEMMA OwnersStep ==
    ASSUME WritesInv, Steady, OwnedInv, Next, NEW q \in Req, NEW r \in Req, Keeps(r), ShapeOf(r)
    PROVE  /\ pc'[q] # "unqueued"
           /\ pc'[q] \in {"retitle", "commit"} /\ draft'[q].status \in Waiting =>
                 \/ "enqueue" \in after'[q]
                 \/ doc'[target'[q]] # None /\ doc'[target'[q]].status = draft'[q].status
           /\ jdraft'[q] # None => jdraft'[q].status = "ready"
           /\ pc'[q] = "enqueue" /\ call'[q].kind = "put" => seen'[q].sha256 = call'[target'[q]].text
           /\ jpc'[q] # "none" => jhash'[q] \in {None, call'[target'[q]].text}
<1>. USE DEF WritesInv, LockInv
<1>1. ASSUME pc[q] # "idle", pc[q] \notin BeforeRow
      PROVE  /\ target'[q] = target[q] /\ target[q] \in Req /\ call'[target[q]] = call[target[q]]
             /\ call'[q] = call[q]
  <2>1. call'[q] = call[q]
    BY <1>1 DEF Keeps
  <2>. HIDE DEF WritesInv, Keeps, ShapeOf
  <2>. QED BY <1>1, <2>1, RowCallStays DEF WritesInv
<1>2. Next => UNCHANGED <<pc[q], after[q], seen[q]>> \/ Arrive(q) \/ RequestStep(q)
  <2>1. ASSUME NEW p \in Req, p # q, Arrive(p) \/ RequestStep(p)
        PROVE  UNCHANGED <<pc[q], after[q]>>
    BY <2>1, StepKeeps DEF Keeps
  <2>2. ASSUME NEW p \in Req, p # q, Arrive(p) \/ RequestStep(p)
        PROVE  seen'[q] = seen[q]
    <3>1. CASE Refresh(p)
      BY <2>2, <3>1 DEF Refresh, TypeOK
    <3>. QED BY <2>2, <3>1
       DEF RequestStep, Arrive, CheckUpload, Insert, Select, Vanished, IgnoreStale,
           UpdateTitleAndMetadata, ReplaceInBackground, ReplaceAtOnce, Ingest, Retitle,
           Rollback, Commit, BumpCorpusVersion, BumpFails, Enqueue, EnqueueFails, MarkUnqueued,
           Find, PatchGroups, Remove
  <2>3. ASSUME NEW p \in Req, JobStep(p) PROVE UNCHANGED <<pc[q], after[q], seen[q]>>
    BY <2>3 DEF JobStep, StartJob, MarkProcessing, Embed, Swap, SwapFails, CommitSwap,
                RecordFailure, Acknowledge, webVars
  <2>. QED BY <2>1, <2>2, <2>3, NoFailures DEF Next, Finished, vars, webVars
<1>3. pc'[q] # "unqueued"
  <2>1. pc[q] # "unqueued"
    BY DEF OwnedInv
  <2>2. CASE Arrive(q) \/ RequestStep(q)
    <3>1. CASE Arrive(q)
      BY <3>1 DEF Arrive, FirstStep, TypeOK
    <3>2. CASE CheckUpload(q) \/ Insert(q) \/ Select(q) \/ Vanished(q) \/ Find(q) \/ PatchGroups(q)
      BY <3>2 DEF CheckUpload, Insert, Select, Vanished, NextAttempt, Find, PatchGroups, TypeOK
    <3>3. CASE \/ IgnoreStale(q) \/ UpdateTitleAndMetadata(q)
               \/ ReplaceInBackground(q) \/ ReplaceAtOnce(q)
      BY <3>3 DEF IgnoreStale, UpdateTitleAndMetadata, ReplaceInBackground, ReplaceAtOnce, TypeOK
    <3>4. CASE \/ Ingest(q) \/ Retitle(q) \/ Rollback(q) \/ Commit(q) \/ BumpCorpusVersion(q)
               \/ Refresh(q) \/ Enqueue(q) \/ MarkUnqueued(q) \/ Remove(q)
      BY <3>4 DEF Ingest, Retitle, Rollback, Commit, BumpCorpusVersion, Refresh, Enqueue,
                  MarkUnqueued, Remove, TypeOK
    <3>. QED BY <2>2, <3>1, <3>2, <3>3, <3>4, NoFailures DEF RequestStep
  <2>. QED BY <1>2, <2>1, <2>2
<1>5. ASSUME jdraft'[q] # None PROVE jdraft'[q].status = "ready"
  <2>1. CASE jdraft'[q] = jdraft[q]
    BY <1>5, <2>1 DEF OwnedInv
  <2>2. CASE Swap(q)
    <3>. HIDE DEF LockInv
    <3>. QED BY <1>5, <2>2, SwappedText
  <2>. QED BY <1>5, <2>1, <2>2, JobKeeps
<1>6. ASSUME pc'[q] = "enqueue", call'[q].kind = "put"
      PROVE  seen'[q].sha256 = call'[target'[q]].text
  <2>1. CASE pc[q] = "enqueue" /\ seen'[q] = seen[q]
    BY <1>1, <1>6, <2>1 DEF OwnedInv
  <2>2. CASE Refresh(q)
    <3>1. /\ pc[q] = "refresh" /\ seen'[q] = doc[target[q]] /\ doc[target[q]] # None
          /\ target[q] \in Req /\ target' = target /\ call' = call
      BY <1>6, <2>2 DEF Refresh, TypeOK
    <3>2. doc[target[q]].sha256 = call[target[q]].text
      <4>. HIDE DEF WritesInv
      <4>. QED BY <3>1, FixedText DEF Steady
    <3>. QED BY <3>1, <3>2
  <2>3. CASE Arrive(q) \/ (RequestStep(q) /\ ~Refresh(q))
    <3>1. CASE Arrive(q)
      BY <1>6, <3>1 DEF Arrive, FirstStep, TypeOK
    <3>2. CASE CheckUpload(q) \/ Insert(q) \/ Select(q) \/ Vanished(q) \/ Find(q) \/ PatchGroups(q)
      BY <1>6, <3>2
         DEF CheckUpload, Insert, Select, Vanished, NextAttempt, Find, PatchGroups, TypeOK
    <3>3. CASE \/ IgnoreStale(q) \/ UpdateTitleAndMetadata(q)
               \/ ReplaceInBackground(q) \/ ReplaceAtOnce(q)
      BY <1>6, <3>3
         DEF IgnoreStale, UpdateTitleAndMetadata, ReplaceInBackground, ReplaceAtOnce, TypeOK
    <3>4. CASE \/ Ingest(q) \/ Retitle(q) \/ Rollback(q) \/ Commit(q) \/ BumpCorpusVersion(q)
               \/ Enqueue(q) \/ MarkUnqueued(q) \/ Remove(q)
      BY <1>6, <3>4 DEF Ingest, Retitle, Rollback, Commit, BumpCorpusVersion, Enqueue,
                        MarkUnqueued, Remove, TypeOK
    <3>. QED BY <2>3, <3>1, <3>2, <3>3, <3>4, NoFailures DEF RequestStep
  <2>. QED BY <1>2, <1>6, <2>1, <2>2, <2>3
<1>7. ASSUME jpc'[q] # "none" PROVE jhash'[q] \in {None, call'[target'[q]].text}
  <2>1. CASE Enqueue(q)
    <3>1. /\ jhash'[q] \in {None, seen[q].sha256} /\ (jhash'[q] = None \/ call[q].kind = "put")
          /\ target' = target /\ call' = call /\ pc[q] = "enqueue"
      BY <2>1 DEF Enqueue, QueueJob, TypeOK
    <3>. QED BY <3>1 DEF OwnedInv
  <2>2. CASE jpc[q] # "none" /\ jhash'[q] = jhash[q]
    <3>1. pc[q] # "idle" /\ pc[q] \notin BeforeRow
      BY <2>2 DEF JobOK
    <3>. QED BY <1>1, <2>2, <3>1 DEF OwnedInv
  <2>3. ASSUME NEW p \in Req, Arrive(p) \/ RequestStep(p), p # q \/ ~Enqueue(q)
        PROVE  jpc'[q] = jpc[q] /\ jhash'[q] = jhash[q]
    <3>1. CASE Enqueue(p)
      BY <2>3, <3>1 DEF Enqueue, QueueJob, TypeOK
    <3>2. CASE UNCHANGED jobVars
      BY <3>2 DEF jobVars
    <3>. QED BY <2>3, <3>1, <3>2, NoFailures
       DEF RequestStep, Arrive, CheckUpload, Insert, Select, Vanished, IgnoreStale,
           UpdateTitleAndMetadata, ReplaceInBackground, ReplaceAtOnce, Ingest, Retitle,
           Rollback, Commit, BumpCorpusVersion, Refresh, MarkUnqueued, Find, PatchGroups, Remove
  <2>4. ASSUME NEW p \in Req, JobStep(p)
        PROVE  jpc[q] # "none" /\ jhash'[q] = jhash[q]
    BY <1>7, <2>4 DEF JobStep, StartJob, MarkProcessing, Embed, Swap, SwapFails, CommitSwap,
                      RecordFailure, Acknowledge, TypeOK
  <2>. QED BY <1>7, <2>1, <2>2, <2>3, <2>4, NoFailures DEF Next, Finished, vars, jobVars
<1>8. ASSUME pc'[q] \in {"retitle", "commit"}, draft'[q].status \in Waiting
      PROVE  \/ "enqueue" \in after'[q]
             \/ doc'[target'[q]] # None /\ doc'[target'[q]].status = draft'[q].status
  <2>1. draft'[q] # None
    <3>1. TypeInv'
      BY TypeStep
    <3>. QED BY <1>8, <3>1 DEF DraftOK
  <2>2. CASE Insert(q)
    <3>1. pc'[q] = "commit" /\ "enqueue" \in after'[q]
      BY <1>8, <2>2 DEF Insert, TypeOK, DraftOK
    <3>. QED BY <3>1
  <2>3. CASE Ingest(q)
    <3>1. draft'[q].status = "ready"
      <4>. HIDE DEF LockInv
      <4>. QED BY <2>3, EmbeddedText
    <3>. QED BY <1>8, <3>1 DEF Waiting
  <2>4. CASE \/ IgnoreStale(q) \/ UpdateTitleAndMetadata(q)
             \/ ReplaceInBackground(q) \/ ReplaceAtOnce(q) \/ PatchGroups(q)
    <3>1. /\ target'[q] = target[q]
          /\ draft'[q].status # doc[target[q]].status => "enqueue" \in after'[q]
      <4>. HIDE DEF LockInv
      <4>. QED BY <1>8, <2>1, <2>4, LockedText
    <3>2. doc' = doc
      BY <2>4 DEF IgnoreStale, UpdateTitleAndMetadata, ReplaceInBackground, ReplaceAtOnce, PatchGroups
    <3>3. doc[target[q]] # None
      BY <1>8, <2>4 DEF IgnoreStale, UpdateTitleAndMetadata, ReplaceInBackground, ReplaceAtOnce,
                        LocksRow, PatchGroups, TypeOK, Answer, Goto
    <3>. QED BY <3>1, <3>2, <3>3
  <2>5. CASE draft'[q] = draft[q] /\ ~Ingest(q) /\ ~Insert(q)
    <3>1. pc[q] \in Open
      BY <2>1, <2>5 DEF DraftOK
    <3>2. after'[q] = after[q]
      BY <3>1 DEF Keeps
    <3>3. target'[q] = target[q] /\ doc'[target[q]] = doc[target[q]]
      <4>1. Holds(q) /\ Holds(q)'
        BY <2>1, <2>5 DEF Holds
      <4>. HIDE DEF Keeps, ShapeOf, TypeInv
      <4>. QED BY <4>1, HeldRow
    <3>4. CASE pc[q] = "ingest"
      <4>1. ~UNCHANGED <<draft[q], pc[q]>>
        BY <1>8, <3>4
      <4>. QED BY <2>1, <2>4, <2>5, <3>4, <4>1, DraftSteps
    <3>. QED BY <1>8, <2>5, <3>1, <3>2, <3>3, <3>4 DEF OwnedInv
  <2>. QED BY <2>1, <2>2, <2>3, <2>4, <2>5, DraftSteps
<1>. QED BY <1>3, <1>5, <1>6, <1>7, <1>8

LEMMA OwnedStep ==
    ASSUME WritesInv, WritesInv', Steady, OwnedInv, Next, NEW r \in Req, Keeps(r), ShapeOf(r)
    PROVE  OwnedInv'
<1>1. ASSUME NEW u \in Req, doc'[u] # None, doc'[u].status \in Waiting
      PROVE  \E q \in Req : Owns(q, u)'
  <2>1. doc'[u].sha256 = call'[u].text /\ (doc[u] # None => doc[u].sha256 = call[u].text)
    BY <1>1 DEF WritesInv, StoredInv, RowOf, Steady, OneText
  <2>2. CASE doc[u] = None \/ doc[u].status \notin Waiting
    <3>1. pc[u] # "idle"
      <4>1. TypeInv
        BY DEF WritesInv, LockInv
      <4>2. CASE doc'[u] = doc[u]
        BY <1>1, <2>2, <4>2
      <4>3. CASE doc[u] # None
        BY <4>3, LiveHasCall DEF WritesInv
      <4>4. CASE doc[u] = None
        <5>1. doc' # doc
          BY <1>1, <4>4
        <5>2. PICK p \in Req : Commit(p) \/ CommitSwap(p)
          <6>1. \A p \in Req : ~MarkUnqueued(p) /\ ~MarkProcessing(p) /\ ~RecordFailure(p)
            BY <1>1, <4>1, <4>4, MarkedText
          <6>2. \A p \in Req : ~Remove(p)
            BY <1>1, <4>1, <4>4 DEF Remove, TypeOK
          <6>. QED BY <4>1, <5>1, <6>1, <6>2, DocSteps
        <5>3. u = target[p] /\ pc[p] # "idle"
          BY <1>1, <4>1, <4>4, <5>2 DEF Commit, CommitSwap, TypeOK, JobOK
        <5>. QED BY <5>3, RowHasCall DEF WritesInv
      <4>. QED BY <4>2, <4>3, <4>4
    <3>2. call'[u] = call[u]
      BY <3>1 DEF Keeps
    <3>. HIDE DEF WritesInv, OwnedInv, Keeps, ShapeOf
    <3>. QED BY <1>1, <2>1, <2>2, <3>2, NewOwner
  <2>3. CASE doc[u] # None /\ doc[u].status \in Waiting
    <3>1. pc[u] # "idle" /\ call'[u] = call[u]
      BY <2>3, LiveHasCall DEF WritesInv, Keeps
    <3>2. PICK q \in Req : Owns(q, u)
      BY <2>3 DEF OwnedInv, Live
    <3>3. target'[q] = target[q]
      <4>1. pc[q] # "idle" /\ pc[q] \notin BeforeRow
        BY <3>2 DEF Owns, WritesInv, LockInv, JobOK
      <4>. HIDE DEF Keeps, ShapeOf
      <4>. QED BY <4>1, RowCallStays DEF WritesInv
    <3>. HIDE DEF WritesInv, OwnedInv, Keeps, ShapeOf, Owns
    <3>. QED BY <1>1, <2>1, <2>3, <3>1, <3>2, <3>3, OwnerStays
  <2>. QED BY <2>2, <2>3
<1>2. \A u \in Live' : doc'[u].status \in Waiting => \E q \in Req : Owns(q, u)'
  BY <1>1 DEF Live
<1>. DEFINE Own(q) ==
        /\ pc[q] # "unqueued"
        /\ pc[q] \in {"retitle", "commit"} /\ draft[q].status \in Waiting =>
              \/ "enqueue" \in after[q]
              \/ doc[target[q]] # None /\ doc[target[q]].status = draft[q].status
        /\ jdraft[q] # None => jdraft[q].status = "ready"
        /\ pc[q] = "enqueue" /\ call[q].kind = "put" => seen[q].sha256 = call[target[q]].text
        /\ jpc[q] # "none" => jhash[q] \in {None, call[target[q]].text}
<1>3. \A q \in Req : Own(q)'
  <2>. HIDE DEF WritesInv, OwnedInv, Keeps, ShapeOf
  <2>. QED BY OwnersStep
<1>. QED BY <1>2, <1>3 DEF OwnedInv

LEMMA OwnedInvariant == Spec /\ Steady => []OwnedInv
<1>1. Init => OwnedInv
  BY DEF Init, OwnedInv, Live
<1>2. WritesInv /\ WritesInv' /\ Steady /\ OwnedInv /\ [Next]_vars => OwnedInv'
  <2>. SUFFICES ASSUME WritesInv, WritesInv', Steady, OwnedInv, [Next]_vars PROVE OwnedInv'
    OBVIOUS
  <2>1. CASE UNCHANGED vars
    BY <2>1 DEF vars, webVars, jobVars, OwnedInv, Owns, Live
  <2>2. CASE Next /\ \E r \in Req : Keeps(r) /\ ShapeOf(r)
    <3>1. PICK r \in Req : Keeps(r) /\ ShapeOf(r)
      BY <2>2
    <3>. HIDE DEF WritesInv, OwnedInv, Keeps, ShapeOf
    <3>. QED BY <2>2, <3>1, OwnedStep
  <2>. QED BY <2>1, <2>2, Shapes DEF ShapeOf, WritesInv, LockInv
<1>3. Steady => OneSize
  BY OneTextIsOneSize DEF Steady
<1>4. Steady /\ [Next]_vars => Steady'
  BY DEF Steady, OneText
<1>. HIDE DEF WritesInv, OwnedInv, Steady, OneSize
<1>. QED BY <1>1, <1>2, <1>3, <1>4, WritesInvariant, PTL DEF Spec

\* Where nothing fails but the embedder, and every record keeps its text, no row is left pending
\* or processing with nobody to end it: for any requests, any number of deliveries of the same
\* text, of regroupings and of DELETEs, and any failures of the embedder.
THEOREM PendingRowsAreOwned == Spec /\ Steady => []PendingIsOwned
<1>1. OwnedInv => PendingIsOwned
  BY DEF OwnedInv, Owns, PendingIsOwned, Waiting
<1>. QED BY <1>1, OwnedInvariant, PTL
==============================================================================
