-------------------------------- MODULE Store --------------------------------
(***************************************************************************)
(* The database half of ragbridge: the documents and chunks tables of one  *)
(* tenant, the tenant's corpus version in Redis, the web requests and the  *)
(* background jobs that write them, and the row locks they hold.           *)
(*                                                                         *)
(* A text stands for its SHA-256, its bytes and its chunks: the hash is    *)
(* taken as injective, and a text cut in pieces is still one text. What a  *)
(* row carries besides (content type, metadata, created_at, updated_at)    *)
(* decides nothing about the state kept here, and is left out.             *)
(*                                                                         *)
(* Every request is a process of its own that runs one call, once. A row   *)
(* is named by the request that inserted it, so ids are never used twice.  *)
(* A job is named by the request that queued it.                           *)
(***************************************************************************)
EXTENDS Naturals

CONSTANTS
    None,           \* Python's None / SQL's NULL: no row, no text, no hash, no time
    Req,            \* web requests, and so also row ids and jobs
    ExternalIds,    \* the ids client applications give to their records
    Texts,          \* contents a record or a file can have
    Large,          \* the texts over ASYNC_PROCESSING_THRESHOLD
    Unparsable,     \* the texts parse_pages refuses (a corrupt PDF, not UTF-8)
    Titles,         \* titles of records, names of uploaded files
    Groups,         \* names of access groups
    Calls,          \* Calls[r]: the calls request r may turn out to make
    MaxAttempts,    \* sync.MAX_ATTEMPTS
    MaxTries,       \* arq's max_tries: how often one job is started at most
    Faults          \* which failures may happen, a subset of FaultKinds

FaultKinds == {"embed", "cache", "queue", "crash", "redeliver", "timeout"}
Kinds == {"put", "upload", "patch", "delete", "delete_external"}

\* access.normalise_groups sorts and removes doubles, so a list of groups is a set.
AccessLists == SUBSET Groups

\* One shape for the five calls that write; a field a call does not have is None.
Call == [kind : Kinds,
         external_id : ExternalIds \cup {None},
         title : Titles \cup {None},
         text : Texts \cup {None},
         source_updated_at : Nat \cup {None},
         access_groups : {None} \cup AccessLists]

ASSUME ConstantsAssumption ==
    /\ None \notin ExternalIds /\ None \notin Texts
    /\ ExternalIds \cap Texts = {}
    /\ Large \subseteq Texts
    /\ Unparsable \subseteq Texts
    /\ None \notin Nat
    /\ MaxAttempts \in Nat \ {0}
    /\ MaxTries \in Nat \ {0}
    /\ Faults \subseteq FaultKinds
    /\ Calls \in [Req -> SUBSET Call]
    /\ \A r \in Req : \A c \in Calls[r] :
          /\ c.kind \in {"put", "delete_external"} <=> c.external_id # None
          /\ c.kind \in {"put", "upload"} => c.title \in Titles /\ c.text \in Texts
          /\ c.kind = "put" => c.text \notin Unparsable
          /\ c.kind = "patch" => c.access_groups # None

Status == {"pending", "processing", "ready", "failed"}
Chunk == [text : Texts, groups : AccessLists]
Row == [external_id : ExternalIds \cup {None},
        filename : Titles,
        sha256 : Texts,
        content : Texts \cup {None},
        status : Status,
        error : BOOLEAN,
        raw_content : Texts \cup {None},
        source_updated_at : Nat \cup {None},
        access_groups : AccessLists,
        chunks : SUBSET Chunk]

ASSUME NoneIsNoRow == None \notin Row
ASSUME NoneIsNoCall == None \notin Call

-----------------------------------------------------------------------------
(* What the code does to one row. *)

\* The INSERT of sync._insert_if_absent and of upload_document.
NewRow(c) ==
    [external_id |-> c.external_id,
     filename |-> c.title,
     sha256 |-> c.text,
     content |-> None,
     status |-> "pending",
     error |-> FALSE,
     raw_content |-> IF c.text \in Large THEN c.text ELSE None,
     source_updated_at |-> c.source_updated_at,
     access_groups |-> IF c.access_groups = None THEN {} ELSE c.access_groups,
     chunks |-> {}]

\* The chunks take the groups the row has now, not those it had when embedding began.
StoreChunks(row, text) ==
    [row EXCEPT !.chunks = @ \cup {[text |-> text, groups |-> row.access_groups]},
                !.content = text,
                !.status = "ready"]

\* Mutant of WithoutChunks: the DELETE is forgotten.
KeepChunks(row) == row

WithoutChunks(row) == [row EXCEPT !.chunks = {}]

\* Mutant of SetAccessGroups: the UPDATE of the chunks is forgotten.
SetGroupsOfRowOnly(row, groups) == [row EXCEPT !.access_groups = groups]

SetAccessGroups(row, groups) ==
    [row EXCEPT !.access_groups = groups,
                !.chunks = {[chunk EXCEPT !.groups = groups] : chunk \in row.chunks}]

\* Mutant of IsOlderThanStored: only a row that has been processed is compared.
IsOlderThanProcessed(row, c) ==
    /\ row.status = "ready"
    /\ c.source_updated_at # None
    /\ row.source_updated_at # None
    /\ c.source_updated_at < row.source_updated_at

IsOlderThanStored(row, c) ==
    /\ c.source_updated_at # None
    /\ row.source_updated_at # None
    /\ c.source_updated_at < row.source_updated_at

\* Mutant of RememberSourceTime: a call without a time clears the one stored.
OverwriteSourceTime(row, c) == [row EXCEPT !.source_updated_at = c.source_updated_at]

RememberSourceTime(row, c) ==
    IF c.source_updated_at = None THEN row
    ELSE [row EXCEPT !.source_updated_at = c.source_updated_at]

\* Mutants of Obsolete: the hash is not compared, or a job already begun is not begun again.
ObsoleteOnceReady(row, sha256) == sha256 # None /\ row.status = "ready"
ObsoleteUnlessPending(row, sha256) ==
    sha256 # None /\ (row.sha256 # sha256 \/ row.status # "pending")

\* A job queued for content the row no longer holds, or already processed.
Obsolete(row, sha256) ==
    sha256 # None /\ (row.sha256 # sha256 \/ row.status = "ready")

\* The values the two unique constraints compare: an upload by its hash, a record by its id.
UniqueKey(row) == IF row.external_id = None THEN row.sha256 ELSE row.external_id

-----------------------------------------------------------------------------
VARIABLES
    doc,        \* doc[u]: the committed row u with its chunks, or None
    version,    \* corpus_version of the tenant, in Redis
    \* one web request each
    pc,         \* its next step, or how it was answered
    call,       \* the call it makes, None before it arrives
    target,     \* the row it works on
    attempt,    \* failed tries at insert-or-lock
    after,      \* what _finish still owes after the commit: "bump", "enqueue"
    draft,      \* the row as its open transaction has it: it holds that row's lock
    seen,       \* the row as session.refresh read it
    \* one job each
    jpc,        \* its next step
    jhash,      \* the hash it was queued with, None for an upload
    jseen,      \* the row as the unlocked read at its start found it
    jdraft,     \* as draft
    tries       \* times it was started

webVars == <<pc, call, target, attempt, after, draft, seen>>
jobVars == <<jpc, jhash, jseen, jdraft, tries>>
vars == <<doc, version, webVars, jobVars>>

Live == {u \in Req : doc[u] # None}

\* Mutant of Locked: the swap of a job is not a transaction of its own.
LockedByRequest(u) == \E r \in Req : target[r] = u /\ draft[r] # None

\* A transaction that has written or locked a row keeps others off it until it ends.
Locked(u) == \E r \in Req : target[r] = u /\ (draft[r] # None \/ jdraft[r] # None)

\* Live rows the INSERT of request r would collide with, and uncommitted ones it waits for.
Holders(r) == {u \in Live : UniqueKey(doc[u]) = UniqueKey(NewRow(call[r]))}
InsertMustWait(r) ==
    \E q \in Req : /\ q # r
                   /\ draft[q] # None
                   /\ target[q] = q /\ doc[q] = None
                   /\ UniqueKey(draft[q]) = UniqueKey(NewRow(call[r]))

Fault(kind) == kind \in Faults
=============================================================================
