------------------------------- MODULE Worker -------------------------------
(***************************************************************************)
(* The background worker: worker.process_document, run by arq, which       *)
(* delivers a job at least once. Job r is the one request r queued; it     *)
(* works on the row target[r].                                             *)
(***************************************************************************)
EXTENDS Store

JobSteps == {"none", "queued", "mark", "embed", "swap", "commit", "fail", "ack", "done"}

JobGoto(r, step) == jpc' = [jpc EXCEPT ![r] = step]

\* The row is still there, and still waits for this job's content.
Current(r) == LET row == doc[target[r]] IN row # None /\ ~Obsolete(row, jhash[r])

\* The unlocked read: a job whose content the row no longer holds ends here.
StartJob(r) ==
    /\ jpc[r] = "queued"
    /\ tries' = [tries EXCEPT ![r] = @ + 1]
    /\ \/ /\ ~Current(r)
          /\ JobGoto(r, "ack") /\ UNCHANGED jseen
       \/ /\ Current(r)
          /\ jseen' = [jseen EXCEPT ![r] = doc[target[r]]]
          /\ JobGoto(r, "mark")
    /\ UNCHANGED <<doc, version, webVars, jhash, jdraft>>

\* UPDATE ... SET status = 'processing' and its commit. The row is not looked at again; the
\* statement is not even sent where the read found that status. A row that is gone makes it
\* raise, outside the try, and arq does not repeat the job.
MarkProcessing(r) ==
    /\ jpc[r] = "mark"
    /\ LET u == target[r] IN
       \/ /\ jseen[r].status = "processing"
          /\ JobGoto(r, "embed") /\ UNCHANGED doc
       \/ /\ jseen[r].status # "processing"
          /\ doc[u] = None
          /\ JobGoto(r, "ack") /\ UNCHANGED doc
       \/ /\ jseen[r].status # "processing"
          /\ doc[u] # None /\ ~Locked(u)
          /\ doc' = [doc EXCEPT ![u].status = "processing"]
          /\ JobGoto(r, "embed")
    /\ UNCHANGED <<version, webVars, jhash, jseen, jdraft, tries>>

\* Mutant of Embed: bytes that are not there are taken for a file that can be parsed.
EmbedUnchecked(r) ==
    /\ jpc[r] = "embed"
    /\ \/ jseen[r].raw_content \notin Unparsable /\ JobGoto(r, "swap")
       \/ jseen[r].raw_content \in Unparsable /\ JobGoto(r, "fail")
       \/ Fault("embed") /\ JobGoto(r, "fail")
    /\ UNCHANGED <<doc, version, webVars, jhash, jseen, jdraft, tries>>

\* parse_pages and build_chunks, on the bytes read at the start.
Embed(r) ==
    /\ jpc[r] = "embed"
    /\ \/ jseen[r].raw_content \notin {None} \cup Unparsable /\ JobGoto(r, "swap")
       \/ jseen[r].raw_content \in {None} \cup Unparsable /\ JobGoto(r, "fail")
       \/ Fault("embed") /\ JobGoto(r, "fail")
    /\ UNCHANGED <<doc, version, webVars, jhash, jseen, jdraft, tries>>

\* _lock_current, then store_chunks(replace=True) up to its bump, before the commit.
Swap(r) ==
    /\ jpc[r] = "swap" /\ ~Locked(target[r])
    /\ \/ /\ ~Current(r)
          /\ JobGoto(r, "ack") /\ UNCHANGED <<version, jdraft>>
       \/ /\ Current(r)
          /\ jdraft' = [jdraft EXCEPT ![r] =
                           [StoreChunks(WithoutChunks(doc[target[r]]), jseen[r].raw_content)
                              EXCEPT !.raw_content = None]]
          /\ version' = version + 1
          /\ JobGoto(r, "commit")
    /\ UNCHANGED <<doc, webVars, jhash, jseen, tries>>

\* Redis refuses the bump: the swap is rolled back and becomes a failure.
SwapFails(r) ==
    /\ jpc[r] = "swap" /\ Fault("cache")
    /\ ~Locked(target[r]) /\ Current(r)
    /\ JobGoto(r, "fail")
    /\ UNCHANGED <<doc, version, webVars, jhash, jseen, jdraft, tries>>

CommitSwap(r) ==
    /\ jpc[r] = "commit"
    /\ doc' = [doc EXCEPT ![target[r]] = jdraft[r]]
    /\ jdraft' = [jdraft EXCEPT ![r] = None]
    /\ JobGoto(r, "ack")
    /\ UNCHANGED <<version, webVars, jhash, jseen, tries>>

\* Mutants of RecordFailure: the old chunks go with the failure, or nothing is recorded.
RecordFailureAndClear(r) ==
    /\ jpc[r] = "fail" /\ ~Locked(target[r])
    /\ \/ ~Current(r) /\ UNCHANGED doc
       \/ /\ Current(r)
          /\ doc' = [doc EXCEPT ![target[r]] =
                        [WithoutChunks(@) EXCEPT !.status = "failed", !.error = TRUE]]
    /\ JobGoto(r, "ack")
    /\ UNCHANGED <<version, webVars, jhash, jseen, jdraft, tries>>
RecordNothing(r) ==
    /\ jpc[r] = "fail"
    /\ JobGoto(r, "ack")
    /\ UNCHANGED <<doc, version, webVars, jhash, jseen, jdraft, tries>>

\* The except branch: lock again, look again, record the failure, commit.
RecordFailure(r) ==
    /\ jpc[r] = "fail" /\ ~Locked(target[r])
    /\ \/ ~Current(r) /\ UNCHANGED doc
       \/ /\ Current(r)
          /\ doc' = [doc EXCEPT ![target[r]] = [@ EXCEPT !.status = "failed", !.error = TRUE]]
    /\ JobGoto(r, "ack")
    /\ UNCHANGED <<version, webVars, jhash, jseen, jdraft, tries>>

\* arq takes the job off its queue, after the coroutine returned.
Acknowledge(r) ==
    /\ jpc[r] = "ack"
    /\ JobGoto(r, "done")
    /\ UNCHANGED <<doc, version, webVars, jhash, jseen, jdraft, tries>>

Running == {"mark", "embed", "swap", "commit", "fail", "ack"}

\* The worker dies or is shut down before that: the job is delivered again, up to max_tries.
Redeliver(r) ==
    /\ Fault("redeliver") /\ jpc[r] \in Running
    /\ JobGoto(r, IF tries[r] < MaxTries THEN "queued" ELSE "done")
    /\ jdraft' = [jdraft EXCEPT ![r] = None]
    /\ UNCHANGED <<doc, version, webVars, jhash, jseen, tries>>

\* arq's job_timeout cancels the coroutine: CancelledError is no Exception, so nothing is
\* recorded, and the job is not repeated.
TimeOut(r) ==
    /\ Fault("timeout") /\ jpc[r] \in Running \ {"ack"}
    /\ JobGoto(r, "done")
    /\ jdraft' = [jdraft EXCEPT ![r] = None]
    /\ UNCHANGED <<doc, version, webVars, jhash, jseen, tries>>

JobStep(r) ==
    \/ StartJob(r) \/ MarkProcessing(r) \/ Embed(r) \/ Swap(r) \/ SwapFails(r)
    \/ CommitSwap(r) \/ RecordFailure(r) \/ Acknowledge(r)
=============================================================================
