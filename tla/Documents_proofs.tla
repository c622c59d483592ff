-------------------------- MODULE Documents_proofs --------------------------
(***************************************************************************)
(* Proofs about Documents, for every set of requests, of texts, of groups  *)
(* and of failures, and any calls that satisfy ConstantsAssumption.        *)
(***************************************************************************)
EXTENDS Documents, TLAPS

\* The chunks of a row are those of its content, under its groups.
Consistent(row) ==
    row.chunks = IF row.content = None THEN {}
                 ELSE {[text |-> row.content, groups |-> row.access_groups]}

\* The new row can be searched as the old one; it is a later state of the same record.
SameForSearch(new, old) ==
    /\ new \in Row
    /\ new.external_id = old.external_id
    /\ new.content = old.content
    /\ new.chunks = old.chunks
    /\ new.access_groups = old.access_groups
    /\ new.source_updated_at = old.source_updated_at
NotBefore(new, old) ==
    /\ new.external_id = old.external_id
    /\ old.source_updated_at # None => /\ new.source_updated_at # None
                                       /\ new.source_updated_at >= old.source_updated_at

\* The row has the state of the call, or one the source has from later.
Reaches(row, c) ==
    c.source_updated_at # None => /\ row.source_updated_at # None
                                  /\ row.source_updated_at >= c.source_updated_at

-----------------------------------------------------------------------------
(* What the helpers of Store and Requests make of a row. *)

LEMMA EmptyRow ==
    ASSUME NEW c \in Call, c.title \in Titles, c.text \in Texts
    PROVE  NewRow(c) \in Row /\ NewRow(c).chunks = {} /\ NewRow(c).external_id = c.external_id
BY DEF NewRow, Row, Status, Call, AccessLists, Chunk

LEMMA StoredRow ==
    ASSUME NEW row \in Row, NEW text \in Texts
    PROVE  /\ StoreChunks(row, text) \in Row
           /\ row.chunks = {} => Consistent(StoreChunks(row, text))
           /\ StoreChunks(row, text).external_id = row.external_id
           /\ StoreChunks(row, text).access_groups = row.access_groups
<1>. DEFINE chunk == [text |-> text, groups |-> row.access_groups]
           stored == [row EXCEPT !.chunks = @ \cup {chunk}, !.content = text, !.status = "ready"]
<1>1. chunk \in Chunk
  BY DEF Chunk, Row
<1>2. stored \in Row
  BY <1>1 DEF Row, Status
<1>3. /\ row.chunks = {} => stored.chunks = {chunk}
      /\ stored.content = text /\ stored.access_groups = row.access_groups
      /\ stored.external_id = row.external_id
  BY DEF Row
<1>4. text # None
  BY ConstantsAssumption
<1>. QED BY <1>2, <1>3, <1>4 DEF StoreChunks, Consistent

LEMMA ClearedRow ==
    ASSUME NEW row \in Row
    PROVE  WithoutChunks(row) \in Row /\ WithoutChunks(row).chunks = {}
BY DEF WithoutChunks, Row

LEMMA RegroupedRow ==
    ASSUME NEW row \in Row, NEW groups \in AccessLists
    PROVE  /\ SetAccessGroups(row, groups) \in Row
           /\ Consistent(row) => Consistent(SetAccessGroups(row, groups))
<1>. DEFINE moved == {[chunk EXCEPT !.groups = groups] : chunk \in row.chunks}
           regrouped == [row EXCEPT !.access_groups = groups, !.chunks = moved]
<1>1. \A chunk \in row.chunks : [chunk EXCEPT !.groups = groups] \in Chunk
  BY DEF Row, Chunk
<1>2. moved \in SUBSET Chunk
  BY <1>1
<1>3. regrouped \in Row
  <2>. HIDE DEF moved
  <2>. QED BY <1>2 DEF Row
<1>4. /\ regrouped.chunks = moved
      /\ regrouped.content = row.content
      /\ regrouped.access_groups = groups
  <2>. HIDE DEF moved
  <2>. QED BY DEF Row
<1>5. ASSUME Consistent(row) PROVE Consistent(regrouped)
  <2>1. CASE row.content = None
    BY <1>4, <1>5, <2>1 DEF Consistent
  <2>2. CASE row.content # None
    <3>1. row.chunks = {[text |-> row.content, groups |-> row.access_groups]}
      BY <1>5, <2>2 DEF Consistent
    <3>2. moved = {[text |-> row.content, groups |-> groups]}
      BY <3>1
    <3>. QED BY <1>4, <2>2, <3>2 DEF Consistent
  <2>. QED BY <2>1, <2>2
<1>. QED BY <1>3, <1>5 DEF SetAccessGroups

\* Only columns that a search does not read are different.
LEMMA RowColumns ==
    ASSUME NEW row \in Row, NEW title \in Titles, NEW text \in Texts, NEW status \in Status,
           NEW error \in BOOLEAN, NEW raw \in Texts \cup {None}
    PROVE  /\ SameForSearch([row EXCEPT !.filename = title], row)
           /\ SameForSearch([row EXCEPT !.status = status], row)
           /\ SameForSearch([row EXCEPT !.error = error, !.status = status], row)
           /\ SameForSearch([row EXCEPT !.raw_content = raw], row)
           /\ SameForSearch([row EXCEPT !.raw_content = raw, !.status = status], row)
           /\ SameForSearch([row EXCEPT !.filename = title, !.sha256 = text, !.error = error], row)
BY DEF SameForSearch, Row

LEMMA RememberedTime ==
    ASSUME NEW row \in Row, NEW c \in Call, ~IsOlderThanStored(row, c)
    PROVE  /\ RememberSourceTime(row, c) \in Row
           /\ Consistent(row) => Consistent(RememberSourceTime(row, c))
           /\ NotBefore(RememberSourceTime(row, c), row)
           /\ RememberSourceTime(row, c).content = row.content
           /\ RememberSourceTime(row, c).access_groups = row.access_groups
           /\ Reaches(RememberSourceTime(row, c), c)
<1>1. row.source_updated_at \in Nat \cup {None} /\ c.source_updated_at \in Nat \cup {None}
  BY DEF Row, Call
<1>2. CASE c.source_updated_at = None
  BY <1>1, <1>2, ConstantsAssumption DEF RememberSourceTime, NotBefore, Reaches
<1>3. CASE c.source_updated_at # None
  <2>. DEFINE later == [row EXCEPT !.source_updated_at = c.source_updated_at]
  <2>1. /\ later \in Row
        /\ later.chunks = row.chunks /\ later.content = row.content
        /\ later.access_groups = row.access_groups
        /\ later.source_updated_at = c.source_updated_at
        /\ later.external_id = row.external_id
    BY <1>1 DEF Row
  <2>2. NotBefore(later, row)
    BY <1>1, <1>3, <2>1 DEF NotBefore, IsOlderThanStored
  <2>4. Reaches(later, c)
    BY <1>1, <1>3, <2>1, ConstantsAssumption DEF Reaches
  <2>3. Consistent(row) => Consistent(later)
    BY <2>1 DEF Consistent
  <2>. QED BY <1>3, <2>1, <2>2, <2>3, <2>4 DEF RememberSourceTime
<1>. QED BY <1>2, <1>3

LEMMA RegroupedByCall ==
    ASSUME NEW row \in Row, NEW c \in Call
    PROVE  /\ Regrouped(row, c) \in Row
           /\ Consistent(row) => Consistent(Regrouped(row, c))
           /\ Regrouped(row, c).source_updated_at = row.source_updated_at
           /\ Regrouped(row, c).content = row.content
           /\ Regrouped(row, c).external_id = row.external_id
           /\ Regrouped(row, c).access_groups # row.access_groups => GroupsChange(row, c)
<1>1. CASE GroupsChange(row, c)
  <2>1. c.access_groups \in AccessLists
    BY <1>1 DEF GroupsChange, Call
  <2>2. /\ SetAccessGroups(row, c.access_groups).source_updated_at = row.source_updated_at
        /\ SetAccessGroups(row, c.access_groups).content = row.content
        /\ SetAccessGroups(row, c.access_groups).external_id = row.external_id
    BY DEF SetAccessGroups, Row
  <2>. QED BY <1>1, <2>1, <2>2, RegroupedRow DEF Regrouped
<1>2. CASE ~GroupsChange(row, c)
  BY <1>2 DEF Regrouped
<1>. QED BY <1>1, <1>2

\* The two shapes _apply_to_existing gives a row before anything is embedded.
LEMMA AppliedRow ==
    ASSUME NEW row \in Row, NEW c \in Call, c.title \in Titles, c.text \in Texts,
           ~IsOlderThanStored(row, c)
    PROVE  LET retitled == RememberSourceTime([Regrouped(row, c) EXCEPT !.filename = c.title], c)
               rewritten == Rewritten(row, c)
           IN  /\ retitled \in Row /\ rewritten \in Row
               /\ Consistent(row) => Consistent(retitled) /\ Consistent(rewritten)
               /\ NotBefore(retitled, row) /\ NotBefore(rewritten, row)
               /\ retitled.content = row.content /\ rewritten.content = row.content
               /\ Reaches(retitled, c) /\ Reaches(rewritten, c)
               /\ \/ retitled.access_groups # row.access_groups
                  \/ rewritten.access_groups # row.access_groups
                  => GroupsChange(row, c)
<1>. DEFINE regrouped == Regrouped(row, c)
            named == [regrouped EXCEPT !.filename = c.title]
            hashed == [regrouped EXCEPT !.filename = c.title, !.sha256 = c.text, !.error = FALSE]
<1>1. /\ regrouped \in Row
      /\ Consistent(row) => Consistent(regrouped)
      /\ regrouped.source_updated_at = row.source_updated_at
      /\ regrouped.content = row.content
      /\ regrouped.external_id = row.external_id
      /\ regrouped.access_groups # row.access_groups => GroupsChange(row, c)
  BY RegroupedByCall
<1>. HIDE DEF regrouped
<1>2. SameForSearch(named, regrouped) /\ SameForSearch(hashed, regrouped)
  BY <1>1, RowColumns DEF Status
<1>. HIDE DEF named, hashed
<1>3. /\ named \in Row /\ hashed \in Row
      /\ Consistent(row) => Consistent(named) /\ Consistent(hashed)
      /\ named.source_updated_at = row.source_updated_at
      /\ hashed.source_updated_at = row.source_updated_at
      /\ named.content = row.content /\ hashed.content = row.content
      /\ named.external_id = row.external_id /\ hashed.external_id = row.external_id
      /\ named.access_groups = regrouped.access_groups
      /\ hashed.access_groups = regrouped.access_groups
  BY <1>1, <1>2 DEF SameForSearch, Consistent
<1>4. ~IsOlderThanStored(named, c) /\ ~IsOlderThanStored(hashed, c)
  BY <1>3 DEF IsOlderThanStored
<1>5. /\ RememberSourceTime(named, c) \in Row /\ RememberSourceTime(hashed, c) \in Row
      /\ Consistent(row) => /\ Consistent(RememberSourceTime(named, c))
                            /\ Consistent(RememberSourceTime(hashed, c))
      /\ NotBefore(RememberSourceTime(named, c), row)
      /\ NotBefore(RememberSourceTime(hashed, c), row)
      /\ RememberSourceTime(named, c).content = row.content
      /\ RememberSourceTime(hashed, c).content = row.content
      /\ Reaches(RememberSourceTime(named, c), c) /\ Reaches(RememberSourceTime(hashed, c), c)
      /\ RememberSourceTime(named, c).access_groups = regrouped.access_groups
      /\ RememberSourceTime(hashed, c).access_groups = regrouped.access_groups
  BY <1>3, <1>4, RememberedTime DEF NotBefore
<1>. QED BY <1>1, <1>5 DEF Rewritten, regrouped, named, hashed

-----------------------------------------------------------------------------
(* Type correctness. TypeOK is not inductive: what a step does with a field *)
(* is right only because the steps before it saw to it that the field is    *)
(* there. TypeInv says, for every step of a request and of a job, what the  *)
(* earlier ones have left.                                                  *)

Open == {"ingest", "retitle", "commit"}

\* The call a request makes is one of its calls, and of the kind its step belongs to.
CallOK ==
    \A r \in Req :
        /\ pc[r] # "idle" => call[r] \in Calls[r]
        /\ pc[r] = "check" => call[r].kind = "upload"
        /\ pc[r] \in {"insert", "ingest"} => call[r].kind \in {"put", "upload"}
        /\ pc[r] = "select" => call[r].kind = "put"

\* A request that has no row yet has tries left.
AttemptOK == \A r \in Req : pc[r] \in BeforeRow => attempt[r] < MaxAttempts

\* A draft is there as long as the transaction is open, and no longer.
DraftOK == \A r \in Req : draft[r] # None <=> pc[r] \in Open

\* A PUT queues a job only for a row it has read.
SeenOK == \A r \in Req : pc[r] = "enqueue" /\ call[r].kind = "put" => seen[r] # None

\* A job exists once its request has queued it; it works with the row it read, and swaps in
\* only bytes it has.
JobOK ==
    \A r \in Req :
        /\ pc[r] \notin Answers \cup {"unqueued"} => jpc[r] = "none"
        /\ jdraft[r] # None <=> jpc[r] = "commit"
        /\ jpc[r] \in {"mark", "embed", "swap"} => jseen[r] # None
        /\ jpc[r] = "swap" => jseen[r].raw_content \in Texts

TypeInv == TypeOK /\ CallOK /\ AttemptOK /\ DraftOK /\ SeenOK /\ JobOK

LEMMA TypeInit == Init => TypeInv
BY ConstantsAssumption, NoneIsNoRow
   DEF Init, TypeInv, TypeOK, CallOK, AttemptOK, DraftOK, SeenOK, JobOK, Steps, JobSteps,
       BeforeRow, Open, Answers

\* A call that has arrived is a call.
LEMMA CallFields ==
    ASSUME TypeInv, NEW r \in Req, pc[r] # "idle"
    PROVE  /\ call[r] \in Call
           /\ call[r].kind \in {"put", "upload"} => call[r].title \in Titles /\ call[r].text \in Texts
BY ConstantsAssumption DEF TypeInv, CallOK

USE NoneIsNoRow DEF TypeInv, Goto, Answer, JobGoto, Answers, Open, BeforeRow

LEMMA TypeArrive == ASSUME TypeInv, NEW r \in Req, Arrive(r) PROVE TypeInv'
<1>1. PICK c \in Calls[r] : call' = [call EXCEPT ![r] = c] /\ Goto(r, FirstStep(c))
  BY DEF Arrive
<1>2. c \in Call
  BY ConstantsAssumption
<1>3. FirstStep(c) \in {"insert", "check", "find"}
  BY DEF FirstStep
<1>4. TypeOK'
  BY <1>1, <1>2, <1>3 DEF Arrive, TypeOK, Steps, jobVars
<1>5. CallOK'
  BY <1>1, <1>2, <1>3 DEF Arrive, TypeOK, CallOK, FirstStep
<1>6. (AttemptOK /\ DraftOK /\ SeenOK /\ JobOK)'
  BY <1>1, <1>3 DEF Arrive, TypeOK, AttemptOK, DraftOK, SeenOK, JobOK, jobVars
<1>. QED BY <1>4, <1>5, <1>6

LEMMA TypeInsert == ASSUME TypeInv, NEW r \in Req, Insert(r) PROVE TypeInv'
<1>1. NewRow(call[r]) \in Row
  BY CallFields, EmptyRow DEF Insert, CallOK
<1>2. TypeOK'
  BY <1>1 DEF Insert, TypeOK, Steps, jobVars
<1>3. CallOK'
  BY DEF Insert, TypeOK, CallOK
<1>4. (AttemptOK /\ DraftOK /\ SeenOK /\ JobOK)'
  BY <1>1, SMTT(30) DEF Insert, TypeOK, AttemptOK, DraftOK, SeenOK, JobOK, jobVars
<1>. QED BY <1>2, <1>3, <1>4

LEMMA TypeCommit == ASSUME TypeInv, NEW r \in Req, Commit(r) PROVE TypeInv'
<1>1. draft[r] \in Row
  BY DEF Commit, DraftOK, TypeOK
<1>2. TypeOK'
  BY <1>1 DEF Commit, TypeOK, Steps, jobVars
<1>3. CallOK'
  BY DEF Commit, TypeOK, CallOK
<1>4. (AttemptOK /\ DraftOK /\ SeenOK /\ JobOK)'
  BY <1>1 DEF Commit, TypeOK, AttemptOK, DraftOK, SeenOK, JobOK, jobVars
<1>. QED BY <1>2, <1>3, <1>4

\* Steps before a row is found or inserted.
LEMMA TypeLooking ==
    ASSUME TypeInv, NEW r \in Req, CheckUpload(r) \/ Select(r) \/ Vanished(r) \/ Find(r)
    PROVE  TypeInv'
<1>1. CASE CheckUpload(r)
  <2>1. TypeOK'
    BY <1>1 DEF CheckUpload, TypeOK, Steps, jobVars
  <2>2. (CallOK /\ AttemptOK /\ DraftOK /\ SeenOK /\ JobOK)'
    BY <1>1, SMTT(30) DEF CheckUpload, TypeOK, CallOK, AttemptOK, DraftOK, SeenOK, JobOK, jobVars
  <2>. QED BY <2>1, <2>2
<1>2. ASSUME NextAttempt(r), pc[r] \in {"select", "lock"}, call[r].kind = "put",
             target' \in [Req -> Req],
             UNCHANGED <<doc, version, call, after, draft, seen, jobVars>>
      PROVE  TypeInv'
  <2>1. attempt[r] \in 0..MaxAttempts /\ attempt[r] < MaxAttempts /\ MaxAttempts \in Nat
    BY <1>2, ConstantsAssumption DEF AttemptOK, TypeOK
  <2>2. TypeOK'
    BY <1>2, <2>1 DEF NextAttempt, TypeOK, Steps, jobVars
  <2>3. (CallOK /\ AttemptOK /\ DraftOK /\ SeenOK /\ JobOK)'
    BY <1>2, <2>1, SMTT(30) DEF NextAttempt, TypeOK, CallOK, AttemptOK, DraftOK, SeenOK, JobOK, jobVars
  <2>. QED BY <2>2, <2>3
<1>3. CASE Select(r)
  <2>1. CASE Matching(call[r]) = {}
    BY <1>2, <1>3, <2>1 DEF Select, CallOK, TypeOK
  <2>2. CASE Matching(call[r]) # {}
    <3>1. PICK u \in Req : target' = [target EXCEPT ![r] = u] /\ Goto(r, "lock")
      BY <1>3, <2>2 DEF Select, Matching, Live
    <3>2. UNCHANGED attempt
      BY <1>3, <2>2 DEF Select
    <3>3. TypeOK'
      BY <1>3, <3>1, <3>2 DEF Select, TypeOK, Steps, jobVars
    <3>4. (CallOK /\ AttemptOK /\ DraftOK /\ SeenOK /\ JobOK)'
      BY <1>3, <3>1, <3>2 DEF Select, TypeOK, CallOK, AttemptOK, DraftOK, SeenOK, JobOK, jobVars
    <3>. QED BY <3>3, <3>4
  <2>. QED BY <2>1, <2>2
<1>4. CASE Vanished(r)
  BY <1>2, <1>4 DEF Vanished, TypeOK
<1>5. CASE Find(r)
  <2>1. target' \in [Req -> Req]
    BY <1>5 DEF Find, Matching, Live, TypeOK
  <2>2. \E step \in {"lock", "ok", "missing"} : Goto(r, step)
    BY <1>5 DEF Find
  <2>3. TypeOK'
    BY <1>5, <2>1, <2>2 DEF Find, TypeOK, Steps, jobVars
  <2>4. (CallOK /\ AttemptOK /\ DraftOK /\ SeenOK /\ JobOK)'
    BY <1>5, <2>2 DEF Find, TypeOK, CallOK, AttemptOK, DraftOK, SeenOK, JobOK, jobVars
  <2>. QED BY <2>3, <2>4
<1>. QED BY <1>1, <1>3, <1>4, <1>5

\* Steps that open a transaction on a row that is there.
LEMMA TypeLocking ==
    ASSUME TypeInv, NEW r \in Req,
           \/ IgnoreStale(r) \/ UpdateTitleAndMetadata(r)
           \/ ReplaceInBackground(r) \/ ReplaceAtOnce(r) \/ PatchGroups(r)
    PROVE  TypeInv'
<1>. DEFINE c == call[r]
            row == doc[target[r]]
<1>1. ASSUME NEW new \in Row, draft' = [draft EXCEPT ![r] = new],
             pc[r] = "lock", call[r].kind \in {"put", "patch"},
             NEW owed \in SUBSET {"bump", "enqueue"}, after' = [after EXCEPT ![r] = owed],
             NEW step \in Open, Goto(r, step), step = "ingest" => call[r].kind = "put",
             UNCHANGED <<doc, version, call, target, attempt, seen, jobVars>>
      PROVE  TypeInv'
  <2>1. TypeOK'
    BY <1>1 DEF TypeOK, Steps, jobVars
  <2>2. (CallOK /\ AttemptOK /\ DraftOK /\ SeenOK /\ JobOK)'
    BY <1>1 DEF TypeOK, CallOK, AttemptOK, DraftOK, SeenOK, JobOK, jobVars
  <2>. QED BY <2>1, <2>2
<1>2. c \in Call /\ (c.kind = "put" => c.title \in Titles /\ c.text \in Texts)
  BY CallFields DEF IgnoreStale, UpdateTitleAndMetadata, ReplaceInBackground, ReplaceAtOnce,
                    PatchGroups, LocksRow
<1>3. row \in Row \cup {None}
  BY DEF TypeOK
<1>4. BumpOwed(row, c) \in SUBSET {"bump", "enqueue"}
  BY DEF BumpOwed
<1>5. CASE IgnoreStale(r)
  BY <1>1, <1>3, <1>5 DEF IgnoreStale, LocksRow
<1>6. CASE UpdateTitleAndMetadata(r)
  <2>1. RememberSourceTime([Regrouped(row, c) EXCEPT !.filename = c.title], c) \in Row
    BY <1>2, <1>3, <1>6, AppliedRow DEF UpdateTitleAndMetadata, LocksRow
  <2>. QED BY <1>1, <1>4, <1>6, <2>1 DEF UpdateTitleAndMetadata, LocksRow
<1>7. CASE ReplaceInBackground(r)
  <2>1. Rewritten(row, c) \in Row
    BY <1>2, <1>3, <1>7, AppliedRow DEF ReplaceInBackground, LocksRow
  <2>2. [Rewritten(row, c) EXCEPT !.raw_content = c.text, !.status = "pending"] \in Row
    BY <1>2, <1>7, <2>1, RowColumns DEF ReplaceInBackground, LocksRow, SameForSearch, Status
  <2>3. BumpOwed(row, c) \cup {"enqueue"} \in SUBSET {"bump", "enqueue"}
    BY <1>4
  <2>. QED BY <1>1, <1>7, <2>2, <2>3 DEF ReplaceInBackground, LocksRow
<1>8. CASE ReplaceAtOnce(r)
  <2>1. WithoutChunks(Rewritten(row, c)) \in Row
    BY <1>2, <1>3, <1>8, AppliedRow, ClearedRow DEF ReplaceAtOnce, LocksRow
  <2>. QED BY <1>1, <1>4, <1>8, <2>1 DEF ReplaceAtOnce, LocksRow
<1>9. CASE PatchGroups(r)
  <2>1. CASE row = None
    <3>1. TypeOK'
      BY <1>9, <2>1 DEF PatchGroups, TypeOK, Steps, jobVars
    <3>2. (CallOK /\ AttemptOK /\ DraftOK /\ SeenOK /\ JobOK)'
      BY <1>9, <2>1 DEF PatchGroups, TypeOK, CallOK, AttemptOK, DraftOK, SeenOK, JobOK, jobVars
    <3>. QED BY <3>1, <3>2
  <2>2. CASE row # None
    BY <1>1, <1>2, <1>3, <1>4, <1>9, <2>2, RegroupedByCall DEF PatchGroups
  <2>. QED BY <2>1, <2>2
<1>. QED BY <1>5, <1>6, <1>7, <1>8, <1>9

\* Steps inside a transaction, and those after it.
LEMMA TypeWriting ==
    ASSUME TypeInv, NEW r \in Req, Ingest(r) \/ Retitle(r) \/ Rollback(r)
    PROVE  TypeInv'
<1>1. CASE Ingest(r)
  <2>1. draft[r] \in Row /\ call[r].text \in Texts
    BY <1>1, CallFields DEF Ingest, DraftOK, CallOK, TypeOK
  <2>2. StoreChunks(draft[r], call[r].text) \in Row
    BY <2>1, StoredRow
  <2>3. TypeOK'
    BY <1>1, <2>2 DEF Ingest, TypeOK, Steps, jobVars
  <2>4. (CallOK /\ AttemptOK /\ DraftOK /\ SeenOK /\ JobOK)'
    BY <1>1, <2>2 DEF Ingest, TypeOK, CallOK, AttemptOK, DraftOK, SeenOK, JobOK, jobVars
  <2>. QED BY <2>3, <2>4
<1>2. CASE Retitle(r)
  <2>1. TypeOK'
    BY <1>2 DEF Retitle, TypeOK, Steps, jobVars
  <2>2. (CallOK /\ AttemptOK /\ DraftOK /\ SeenOK /\ JobOK)'
    BY <1>2 DEF Retitle, TypeOK, CallOK, AttemptOK, DraftOK, SeenOK, JobOK, jobVars
  <2>. QED BY <2>1, <2>2
<1>3. CASE Rollback(r)
  <2>1. TypeOK'
    BY <1>3 DEF Rollback, TypeOK, Steps, jobVars
  <2>2. (CallOK /\ AttemptOK /\ DraftOK /\ SeenOK /\ JobOK)'
    BY <1>3 DEF Rollback, TypeOK, CallOK, AttemptOK, DraftOK, SeenOK, JobOK, jobVars
  <2>. QED BY <2>1, <2>2
<1>. QED BY <1>1, <1>2, <1>3

LEMMA TypeFinishing ==
    ASSUME TypeInv, NEW r \in Req, BumpCorpusVersion(r) \/ BumpFails(r) \/ Refresh(r)
    PROVE  TypeInv'
<1>1. CASE BumpCorpusVersion(r)
  <2>1. TypeOK'
    BY <1>1 DEF BumpCorpusVersion, TypeOK, Steps, jobVars
  <2>2. (CallOK /\ AttemptOK /\ DraftOK /\ SeenOK /\ JobOK)'
    BY <1>1 DEF BumpCorpusVersion, TypeOK, CallOK, AttemptOK, DraftOK, SeenOK, JobOK, jobVars
  <2>. QED BY <2>1, <2>2
<1>2. CASE BumpFails(r)
  <2>1. TypeOK'
    BY <1>2 DEF BumpFails, TypeOK, Steps, jobVars
  <2>2. (CallOK /\ AttemptOK /\ DraftOK /\ SeenOK /\ JobOK)'
    BY <1>2 DEF BumpFails, TypeOK, CallOK, AttemptOK, DraftOK, SeenOK, JobOK, jobVars
  <2>. QED BY <2>1, <2>2
<1>3. CASE Refresh(r)
  <2>1. TypeOK'
    BY <1>3 DEF Refresh, TypeOK, Steps, jobVars
  <2>2. PICK step \in {"error", "enqueue", "ok"} : Goto(r, step)
    BY <1>3 DEF Refresh
  <2>3. (CallOK /\ AttemptOK /\ DraftOK /\ JobOK)'
    BY <1>3, <2>2 DEF Refresh, TypeOK, CallOK, AttemptOK, DraftOK, JobOK, jobVars
  <2>4. SeenOK'
    BY <1>3 DEF Refresh, TypeOK, SeenOK
  <2>. QED BY <2>1, <2>3, <2>4
<1>. QED BY <1>1, <1>2, <1>3

\* A request that queues its job: there was none before.
LEMMA TypeQueueing ==
    ASSUME TypeInv, NEW r \in Req, Enqueue(r) \/ EnqueueFails(r) \/ MarkUnqueued(r)
    PROVE  TypeInv'
<1>1. ASSUME pc[r] = "enqueue", QueueJob(r),
             NEW step \in {"queued", "unqueued", "error"}, Goto(r, step),
             UNCHANGED <<doc, version, call, target, attempt, after, draft, seen>>
      PROVE  TypeInv'
  <2>1. jpc[r] = "none"
    BY <1>1 DEF JobOK
  <2>2. jhash' \in [Req -> Texts \cup {None}]
    <3>1. CASE call[r].kind = "put"
      <4>1. seen[r] \in Row
        BY <1>1, <3>1 DEF SeenOK, TypeOK
      <4>2. seen[r].sha256 \in Texts
        BY <4>1 DEF Row
      <4>. QED BY <1>1, <3>1, <4>2 DEF QueueJob, TypeOK
    <3>2. CASE call[r].kind # "put"
      BY <1>1, <3>2 DEF QueueJob, TypeOK
    <3>. QED BY <3>1, <3>2
  <2>3. TypeOK'
    BY <1>1, <2>2 DEF QueueJob, TypeOK, Steps, JobSteps
  <2>4. (CallOK /\ AttemptOK /\ DraftOK /\ SeenOK /\ JobOK)'
    BY <1>1, <2>1 DEF QueueJob, TypeOK, CallOK, AttemptOK, DraftOK, SeenOK, JobOK
  <2>. QED BY <2>3, <2>4
<1>2. CASE Enqueue(r)
  BY <1>1, <1>2 DEF Enqueue
<1>3. CASE EnqueueFails(r)
  <2>1. CASE QueueJob(r)
    BY <1>1, <1>3, <2>1 DEF EnqueueFails
  <2>2. CASE UNCHANGED jobVars
    <3>1. TypeOK'
      BY <1>3, <2>2 DEF EnqueueFails, TypeOK, Steps, jobVars
    <3>2. (CallOK /\ AttemptOK /\ DraftOK /\ SeenOK /\ JobOK)'
      BY <1>3, <2>2, SMTT(30) DEF EnqueueFails, TypeOK, CallOK, AttemptOK, DraftOK, SeenOK, JobOK, jobVars
    <3>. QED BY <3>1, <3>2
  <2>. QED BY <1>3, <2>1, <2>2 DEF EnqueueFails
<1>4. CASE MarkUnqueued(r)
  <2>. DEFINE u == target[r]
  <2>1. doc' \in [Req -> Row \cup {None}]
    <3>1. CASE doc[u] = None
      BY <1>4, <3>1 DEF MarkUnqueued, TypeOK
    <3>2. CASE doc[u] # None
      <4>1. u \in Req /\ doc[u] \in Row
        BY <3>2 DEF TypeOK
      <4>2. doc[u].status \in Status /\ "failed" \in Status
        BY <4>1 DEF Row, Status
      <4>3. PICK status \in Status :
               doc' = [doc EXCEPT ![u] = [doc[u] EXCEPT !.error = TRUE, !.status = status]]
        BY <1>4, <3>2, <4>2 DEF MarkUnqueued
      <4>4. [doc[u] EXCEPT !.error = TRUE, !.status = status] \in Row
        BY <4>1 DEF Row
      <4>. QED BY <4>1, <4>3, <4>4 DEF TypeOK
    <3>. QED BY <3>1, <3>2
  <2>2. TypeOK'
    BY <1>4, <2>1 DEF MarkUnqueued, TypeOK, Steps, jobVars
  <2>3. (CallOK /\ AttemptOK /\ DraftOK /\ SeenOK /\ JobOK)'
    BY <1>4, SMTT(30) DEF MarkUnqueued, TypeOK, CallOK, AttemptOK, DraftOK, SeenOK, JobOK, jobVars
  <2>. QED BY <2>2, <2>3
<1>. QED BY <1>2, <1>3, <1>4

LEMMA TypeEnding ==
    ASSUME TypeInv, NEW r \in Req, Remove(r) \/ Crash(r)
    PROVE  TypeInv'
<1>1. CASE Remove(r)
  <2>1. TypeOK'
    BY <1>1 DEF Remove, TypeOK, Steps, jobVars
  <2>2. (CallOK /\ AttemptOK /\ DraftOK /\ SeenOK /\ JobOK)'
    BY <1>1, SMTT(30) DEF Remove, TypeOK, CallOK, AttemptOK, DraftOK, SeenOK, JobOK, jobVars
  <2>. QED BY <2>1, <2>2
<1>2. CASE Crash(r)
  <2>1. TypeOK'
    BY <1>2 DEF Crash, TypeOK, Steps, jobVars
  <2>2. (CallOK /\ AttemptOK /\ DraftOK /\ SeenOK /\ JobOK)'
    BY <1>2 DEF Crash, TypeOK, CallOK, AttemptOK, DraftOK, SeenOK, JobOK, jobVars
  <2>. QED BY <2>1, <2>2
<1>. QED BY <1>1, <1>2

LEMMA TypeRequest == ASSUME TypeInv, NEW r \in Req, RequestStep(r) PROVE TypeInv'
BY TypeInsert, TypeLooking, TypeLocking, TypeWriting, TypeCommit, TypeFinishing, TypeQueueing,
   TypeEnding DEF RequestStep

\* A job that begins, and marks the row.
LEMMA TypeStarting ==
    ASSUME TypeInv, NEW r \in Req, StartJob(r) \/ MarkProcessing(r) \/ Embed(r)
    PROVE  TypeInv'
<1>1. CASE StartJob(r)
  <2>1. doc[target[r]] \in Row \cup {None} /\ (Current(r) => doc[target[r]] # None)
    BY DEF TypeOK, Current
  <2>2. TypeOK'
    BY <1>1, <2>1 DEF StartJob, TypeOK, JobSteps, webVars
  <2>3. (CallOK /\ AttemptOK /\ DraftOK /\ SeenOK /\ JobOK)'
    BY <1>1, <2>1 DEF StartJob, TypeOK, CallOK, AttemptOK, DraftOK, SeenOK, JobOK, webVars
  <2>. QED BY <2>2, <2>3
<1>2. CASE MarkProcessing(r)
  <2>1. doc' \in [Req -> Row \cup {None}]
    <3>1. ASSUME doc[target[r]] # None
          PROVE  [doc[target[r]] EXCEPT !.status = "processing"] \in Row
      <4>1. doc[target[r]] \in Row
        BY <3>1 DEF TypeOK
      <4>. QED BY <4>1, SMTT(30) DEF Row, Status
    <3>. QED BY <1>2, <3>1, ZenonT(30) DEF MarkProcessing, TypeOK
  <2>2. TypeOK'
    BY <1>2, <2>1 DEF MarkProcessing, TypeOK, JobSteps, webVars
  <2>3. (CallOK /\ AttemptOK /\ DraftOK /\ SeenOK /\ JobOK)'
    BY <1>2 DEF MarkProcessing, TypeOK, CallOK, AttemptOK, DraftOK, SeenOK, JobOK, webVars
  <2>. QED BY <2>2, <2>3
<1>3. CASE Embed(r)
  <2>1. jseen[r].raw_content \in Texts \cup {None}
    BY <1>3 DEF Embed, JobOK, TypeOK, Row
  <2>2. TypeOK'
    BY <1>3 DEF Embed, TypeOK, JobSteps, webVars
  <2>3. (CallOK /\ AttemptOK /\ DraftOK /\ SeenOK /\ JobOK)'
    BY <1>3, <2>1 DEF Embed, TypeOK, CallOK, AttemptOK, DraftOK, SeenOK, JobOK, webVars
  <2>. QED BY <2>2, <2>3
<1>. QED BY <1>1, <1>2, <1>3

\* The row a swap commits.
SwappedRow(r) ==
    [StoreChunks(WithoutChunks(doc[target[r]]), jseen[r].raw_content) EXCEPT !.raw_content = None]

LEMMA SwappedRowOK ==
    ASSUME TypeInv, NEW r \in Req, jpc[r] = "swap", doc[target[r]] # None
    PROVE  /\ SwappedRow(r) \in Row /\ Consistent(SwappedRow(r))
           /\ SwappedRow(r).source_updated_at = doc[target[r]].source_updated_at
           /\ SwappedRow(r).external_id = doc[target[r]].external_id
           /\ SwappedRow(r).access_groups = doc[target[r]].access_groups
           /\ SwappedRow(r).content # None /\ SwappedRow(r).status = "ready"
<1>. DEFINE row == doc[target[r]]
            text == jseen[r].raw_content
            cleared == WithoutChunks(row)
            stored == StoreChunks(cleared, text)
            swapped == [stored EXCEPT !.raw_content = None]
<1>1. row \in Row /\ text \in Texts
  BY DEF TypeOK, JobOK
<1>2. /\ cleared \in Row /\ cleared.chunks = {}
      /\ cleared.source_updated_at = row.source_updated_at
      /\ cleared.external_id = row.external_id /\ cleared.access_groups = row.access_groups
  BY <1>1, ClearedRow DEF WithoutChunks, Row
<1>3. stored \in Row /\ Consistent(stored)
  BY <1>1, <1>2, StoredRow
<1>4. /\ stored.source_updated_at = row.source_updated_at
      /\ stored.external_id = row.external_id /\ stored.access_groups = row.access_groups
      /\ stored.content # None /\ stored.status = "ready"
  BY <1>1, <1>2, ConstantsAssumption DEF StoreChunks, Row
<1>. HIDE DEF stored
<1>5. /\ swapped \in Row
      /\ swapped.content = stored.content /\ swapped.chunks = stored.chunks
      /\ swapped.access_groups = stored.access_groups /\ swapped.status = stored.status
      /\ swapped.source_updated_at = stored.source_updated_at
      /\ swapped.external_id = stored.external_id
  BY <1>3 DEF Row
<1>6. Consistent(swapped)
  BY <1>3, <1>5 DEF Consistent
<1>. QED BY <1>4, <1>5, <1>6 DEF SwappedRow, stored

\* A job that swaps the chunks in.
LEMMA TypeSwapping ==
    ASSUME TypeInv, NEW r \in Req, Swap(r) \/ SwapFails(r) \/ CommitSwap(r)
    PROVE  TypeInv'
<1>1. CASE Swap(r)
  <2>1. CASE Current(r)
    <3>1. SwappedRow(r) \in Row
      BY <1>1, <2>1, SwappedRowOK DEF Swap, Current
    <3>2. jpc[r] = "swap" /\ jdraft' = [jdraft EXCEPT ![r] = SwappedRow(r)] /\ JobGoto(r, "commit")
      BY <1>1, <2>1 DEF Swap, SwappedRow
    <3>3. version' = version + 1
      BY <1>1, <2>1 DEF Swap
    <3>4. UNCHANGED <<doc, webVars, jhash, jseen, tries>>
      BY <1>1 DEF Swap
    <3>5. TypeOK'
      BY <3>1, <3>2, <3>3, <3>4 DEF TypeOK, JobSteps, webVars
    <3>6. (CallOK /\ AttemptOK /\ DraftOK /\ SeenOK /\ JobOK)'
      BY <3>1, <3>2, <3>4 DEF TypeOK, CallOK, AttemptOK, DraftOK, SeenOK, JobOK, webVars
    <3>. QED BY <3>5, <3>6
  <2>2. CASE ~Current(r)
    <3>1. TypeOK'
      BY <1>1, <2>2 DEF Swap, TypeOK, JobSteps, webVars
    <3>2. (CallOK /\ AttemptOK /\ DraftOK /\ SeenOK /\ JobOK)'
      BY <1>1, <2>2 DEF Swap, TypeOK, CallOK, AttemptOK, DraftOK, SeenOK, JobOK, webVars
    <3>. QED BY <3>1, <3>2
  <2>. QED BY <2>1, <2>2
<1>2. CASE SwapFails(r)
  <2>1. TypeOK'
    BY <1>2 DEF SwapFails, TypeOK, JobSteps, webVars
  <2>2. (CallOK /\ AttemptOK /\ DraftOK /\ SeenOK /\ JobOK)'
    BY <1>2 DEF SwapFails, TypeOK, CallOK, AttemptOK, DraftOK, SeenOK, JobOK, webVars
  <2>. QED BY <2>1, <2>2
<1>3. CASE CommitSwap(r)
  <2>1. TypeOK'
    BY <1>3 DEF CommitSwap, TypeOK, JobSteps, webVars
  <2>2. (CallOK /\ AttemptOK /\ DraftOK /\ SeenOK /\ JobOK)'
    BY <1>3 DEF CommitSwap, TypeOK, CallOK, AttemptOK, DraftOK, SeenOK, JobOK, webVars
  <2>. QED BY <2>1, <2>2
<1>. QED BY <1>1, <1>2, <1>3

\* A job that fails, ends, or is begun again.
LEMMA TypeStopping ==
    ASSUME TypeInv, NEW r \in Req,
           RecordFailure(r) \/ Acknowledge(r) \/ Redeliver(r) \/ TimeOut(r)
    PROVE  TypeInv'
<1>1. CASE RecordFailure(r)
  <2>1. doc' \in [Req -> Row \cup {None}]
    <3>1. ASSUME doc[target[r]] # None
          PROVE  [doc[target[r]] EXCEPT !.status = "failed", !.error = TRUE] \in Row
      <4>1. doc[target[r]] \in Row
        BY <3>1 DEF TypeOK
      <4>. QED BY <4>1 DEF Row, Status
    <3>. QED BY <1>1, <3>1 DEF RecordFailure, Current, TypeOK
  <2>2. TypeOK'
    BY <1>1, <2>1 DEF RecordFailure, TypeOK, JobSteps, webVars
  <2>3. (CallOK /\ AttemptOK /\ DraftOK /\ SeenOK /\ JobOK)'
    BY <1>1 DEF RecordFailure, TypeOK, CallOK, AttemptOK, DraftOK, SeenOK, JobOK, webVars
  <2>. QED BY <2>2, <2>3
<1>2. CASE Acknowledge(r)
  <2>1. TypeOK'
    BY <1>2 DEF Acknowledge, TypeOK, JobSteps, webVars
  <2>2. (CallOK /\ AttemptOK /\ DraftOK /\ SeenOK /\ JobOK)'
    BY <1>2 DEF Acknowledge, TypeOK, CallOK, AttemptOK, DraftOK, SeenOK, JobOK, webVars
  <2>. QED BY <2>1, <2>2
<1>3. CASE Redeliver(r)
  <2>1. TypeOK'
    BY <1>3 DEF Redeliver, TypeOK, JobSteps, webVars
  <2>2. (CallOK /\ AttemptOK /\ DraftOK /\ SeenOK /\ JobOK)'
    BY <1>3 DEF Redeliver, Running, TypeOK, CallOK, AttemptOK, DraftOK, SeenOK, JobOK, webVars
  <2>. QED BY <2>1, <2>2
<1>4. CASE TimeOut(r)
  <2>1. TypeOK'
    BY <1>4 DEF TimeOut, TypeOK, JobSteps, webVars
  <2>2. (CallOK /\ AttemptOK /\ DraftOK /\ SeenOK /\ JobOK)'
    BY <1>4 DEF TimeOut, Running, TypeOK, CallOK, AttemptOK, DraftOK, SeenOK, JobOK, webVars
  <2>. QED BY <2>1, <2>2
<1>. QED BY <1>1, <1>2, <1>3, <1>4

LEMMA TypeJob ==
    ASSUME TypeInv, NEW r \in Req, JobStep(r) \/ Redeliver(r) \/ TimeOut(r)
    PROVE  TypeInv'
BY TypeStarting, TypeSwapping, TypeStopping DEF JobStep

LEMMA TypeStep == TypeInv /\ [Next]_vars => TypeInv'
<1>. SUFFICES ASSUME TypeInv, [Next]_vars PROVE TypeInv'
  OBVIOUS
<1>1. CASE UNCHANGED vars
  BY <1>1 DEF vars, webVars, jobVars, TypeOK, CallOK, AttemptOK, DraftOK, SeenOK, JobOK
<1>2. CASE \E r \in Req : \/ Arrive(r) \/ RequestStep(r) \/ Crash(r)
                          \/ JobStep(r) \/ Redeliver(r) \/ TimeOut(r)
  BY <1>2, TypeArrive, TypeRequest, TypeEnding, TypeJob
<1>. QED BY <1>1, <1>2 DEF Next, Finished

\* Every reachable state satisfies TypeInv ...
THEOREM TypeInvariant == Spec => []TypeInv
BY TypeInit, TypeStep, PTL DEF Spec

\* ... and so every variable of the handlers and of the worker always has a value the code can
\* give it, whatever fails and however often a job is delivered.
THEOREM TypeCorrect == Spec => []TypeOK
<1>1. TypeInv => TypeOK
  BY DEF TypeInv
<1>. QED BY <1>1, TypeInvariant, PTL

-----------------------------------------------------------------------------
(* The safety of the rows: one version, one writer, no way back in time, no way back from a  *)
(* DELETE. Every step is reduced to what it does to rows, drafts and targets; each property  *)
(* is then proved over those few shapes.                                                     *)

\* Nobody else has to do with a row before it is committed.
FreshInv == \A u \in Req : Unborn(u) => /\ doc[u] = None
                                        /\ \A q \in Req \ {u} : target[q] # u

\* An open transaction holds a row that is there, or its own new one.
HeldInv ==
    \A q \in Req : /\ draft[q] # None => target[q] = q \/ doc[target[q]] # None
                   /\ jdraft[q] # None => doc[target[q]] # None

\* What it will commit is one version of the row, and no older than the row is.
VersionInv ==
    /\ \A u \in Req : doc[u] # None => Consistent(doc[u])
    /\ \A q \in Req : draft[q] # None => IF pc[q] = "ingest" THEN draft[q].chunks = {}
                                                             ELSE Consistent(draft[q])
    /\ \A q \in Req : jdraft[q] # None => Consistent(jdraft[q])
TimeInv ==
    \A q \in Req :
        doc[target[q]] # None => /\ draft[q] # None => NotBefore(draft[q], doc[target[q]])
                                 /\ jdraft[q] # None => NotBefore(jdraft[q], doc[target[q]])

\* Which requests can be on the way to a DELETE's answer.
DeleteKinds == {"delete", "delete_external"}
DeleteInv ==
    \A r \in Req :
        /\ pc[r] \in {"idle", "find"} => target[r] = r
        /\ pc[r] \in Open \cup {"refresh"} => call[r].kind \notin DeleteKinds

-----------------------------------------------------------------------------
(* What a step of request r, or of its job, can do to rows and drafts. *)

\* Nothing: at most the request has chosen a row that is there.
Quiet(r) ==
    /\ UNCHANGED <<doc, draft, jdraft>>
    /\ pc'[r] = "ingest" <=> pc[r] = "ingest"
    /\ \/ target' = target
       \/ \E u \in Live : pc[r] \in BeforeRow /\ target' = [target EXCEPT ![r] = u]

\* It writes columns no search reads, of a row nobody holds.
Touches(r) ==
    /\ \E u \in Live : \E new \in Row : /\ ~Locked(u)
                                       /\ SameForSearch(new, doc[u])
                                       /\ doc' = [doc EXCEPT ![u] = new]
    /\ pc'[r] = "ingest" <=> pc[r] = "ingest"
    /\ UNCHANGED <<target, draft, jdraft>>

\* It inserts its row.
Inserts(r) ==
    /\ pc[r] = "insert" /\ pc'[r] \in Open
    /\ target' = [target EXCEPT ![r] = r]
    /\ \E new \in Row :
          /\ new.chunks = {} /\ new.content = None
          /\ new.external_id = call[r].external_id
          /\ new.source_updated_at = call[r].source_updated_at
          /\ draft' = [draft EXCEPT ![r] = new]
    /\ UNCHANGED <<doc, jdraft>>

\* It locks a row that is there and changes it.
Locks(r) ==
    /\ pc[r] = "lock" /\ pc'[r] \in Open
    /\ doc[target[r]] # None /\ ~Locked(target[r])
    /\ \E new \in Row :
          /\ Consistent(doc[target[r]]) => IF pc'[r] = "ingest" THEN new.chunks = {}
                                                               ELSE Consistent(new)
          /\ NotBefore(new, doc[target[r]])
          /\ new.content = doc[target[r]].content
          /\ call[r].kind = "put" => Reaches(new, call[r])
          /\ new.access_groups # doc[target[r]].access_groups => "bump" \in after'[r]
          /\ draft' = [draft EXCEPT ![r] = new]
    /\ UNCHANGED <<doc, target, jdraft>>

\* It embeds the new text in its open transaction.
Embeds(r) ==
    /\ pc[r] = "ingest" /\ pc'[r] = "commit"
    /\ \E new \in Row :
          /\ draft[r].chunks = {} => Consistent(new)
          /\ new.source_updated_at = draft[r].source_updated_at
          /\ new.external_id = draft[r].external_id
          /\ new.access_groups = draft[r].access_groups
          /\ new.content # None /\ new.status = "ready"
          /\ draft' = [draft EXCEPT ![r] = new]
    /\ UNCHANGED <<doc, target, jdraft>>

\* Its transaction is committed, or rolled back.
Closes(r) ==
    /\ draft' = [draft EXCEPT ![r] = None]
    /\ pc'[r] \notin Open
    /\ \/ doc' = doc
       \/ /\ pc[r] = "commit" /\ doc' = [doc EXCEPT ![target[r]] = draft[r]]
          /\ "bump" \in after[r] => pc'[r] = "bump"
    /\ UNCHANGED <<target, jdraft>>

\* Its job begins to swap the chunks of a row.
Swaps(r) ==
    /\ jpc[r] = "swap"
    /\ doc[target[r]] # None /\ ~Locked(target[r])
    /\ \E new \in Row :
          /\ Consistent(new)
          /\ new.source_updated_at = doc[target[r]].source_updated_at
          /\ new.external_id = doc[target[r]].external_id
          /\ new.access_groups = doc[target[r]].access_groups
          /\ new.content # None /\ new.status = "ready"
          /\ jdraft' = [jdraft EXCEPT ![r] = new]
    /\ UNCHANGED <<doc, target, draft, pc>>

\* The swap of its job is committed, or rolled back.
ClosesJob(r) ==
    /\ jdraft' = [jdraft EXCEPT ![r] = None]
    /\ \/ doc' = doc
       \/ jpc[r] = "commit" /\ doc' = [doc EXCEPT ![target[r]] = jdraft[r]]
    /\ UNCHANGED <<target, draft, pc>>

\* It deletes a row nobody holds.
Removes(r) ==
    /\ pc[r] = "lock" /\ call[r].kind \in DeleteKinds /\ pc'[r] \in {"bump", "ok"}
    /\ ~Locked(target[r])
    /\ doc[target[r]] # None => pc'[r] = "bump"
    /\ doc' = [doc EXCEPT ![target[r]] = None]
    /\ UNCHANGED <<target, draft, jdraft>>

LEMMA QuietSteps ==
    ASSUME TypeInv, NEW r \in Req,
           \/ Arrive(r) \/ CheckUpload(r) \/ Select(r) \/ Vanished(r) \/ Retitle(r)
           \/ BumpCorpusVersion(r) \/ BumpFails(r) \/ Refresh(r) \/ Enqueue(r) \/ EnqueueFails(r)
           \/ Find(r) \/ StartJob(r) \/ Embed(r) \/ SwapFails(r) \/ Acknowledge(r)
    PROVE  Quiet(r)
<1>1. CASE Arrive(r)
  BY <1>1 DEF Arrive, FirstStep, Quiet, TypeOK, jobVars
<1>2. CASE CheckUpload(r)
  BY <1>2 DEF CheckUpload, Quiet, TypeOK, jobVars
<1>3. CASE Select(r) \/ Vanished(r)
  BY <1>3 DEF Select, Vanished, NextAttempt, Matching, Quiet, TypeOK, jobVars
<1>4. CASE Find(r)
  BY <1>4 DEF Find, Matching, Quiet, TypeOK, jobVars
<1>5. CASE Retitle(r) \/ BumpCorpusVersion(r) \/ BumpFails(r) \/ Refresh(r)
  BY <1>5 DEF Retitle, BumpCorpusVersion, BumpFails, Refresh, Quiet, TypeOK, jobVars
<1>6. CASE Enqueue(r) \/ EnqueueFails(r)
  BY <1>6 DEF Enqueue, EnqueueFails, QueueJob, Quiet, TypeOK, jobVars
<1>7. CASE StartJob(r) \/ Embed(r) \/ SwapFails(r) \/ Acknowledge(r)
  BY <1>7 DEF StartJob, Embed, SwapFails, Acknowledge, Quiet, TypeOK, webVars
<1>. QED BY <1>1, <1>2, <1>3, <1>4, <1>5, <1>6, <1>7

LEMMA WritingSteps ==
    ASSUME TypeInv, NEW r \in Req
    PROVE  /\ Ingest(r) => Embeds(r)
           /\ Rollback(r) \/ Commit(r) \/ Crash(r) => Closes(r)
           /\ Remove(r) => Removes(r)
<1>1. ASSUME Ingest(r) PROVE Embeds(r)
  <2>. DEFINE new == StoreChunks(draft[r], call[r].text)
  <2>1. draft[r] \in Row /\ call[r].text \in Texts
    BY <1>1, CallFields DEF Ingest, DraftOK, CallOK, TypeOK
  <2>2. /\ new \in Row /\ (draft[r].chunks = {} => Consistent(new))
        /\ new.external_id = draft[r].external_id /\ new.access_groups = draft[r].access_groups
    BY <2>1, StoredRow
  <2>3. /\ new.source_updated_at = draft[r].source_updated_at
        /\ new.content # None /\ new.status = "ready"
    BY <2>1, ConstantsAssumption DEF StoreChunks, Row
  <2>. HIDE DEF new
  <2>4. draft' = [draft EXCEPT ![r] = new] /\ pc[r] = "ingest" /\ pc'[r] = "commit"
    BY <1>1 DEF Ingest, TypeOK, new
  <2>5. UNCHANGED <<doc, target, jdraft>>
    BY <1>1 DEF Ingest, jobVars
  <2>. QED BY <2>2, <2>3, <2>4, <2>5 DEF Embeds
<1>2. ASSUME Rollback(r) \/ Commit(r) \/ Crash(r) PROVE Closes(r)
  <2>1. CASE Rollback(r) \/ Crash(r)
    BY <2>1 DEF Rollback, Crash, Closes, TypeOK, jobVars
  <2>2. CASE Commit(r)
    <3>1. pc'[r] \in {"bump", "enqueue", "refresh"} /\ ("bump" \in after[r] => pc'[r] = "bump")
      BY <2>2 DEF Commit, TypeOK
    <3>. QED BY <2>2, <3>1 DEF Commit, Closes, TypeOK, jobVars
  <2>. QED BY <1>2, <2>1, <2>2
<1>3. ASSUME Remove(r) PROVE Removes(r)
  BY <1>3 DEF Remove, Removes, DeleteKinds, TypeOK, jobVars
<1>. QED BY <1>1, <1>2, <1>3

LEMMA InsertSteps ==
    ASSUME TypeInv, NEW r \in Req, Insert(r)
    PROVE  Quiet(r) \/ Inserts(r)
<1>1. CASE Holders(r) = {}
  <2>. DEFINE new == NewRow(call[r])
  <2>1. new \in Row /\ new.chunks = {} /\ new.external_id = call[r].external_id
    BY CallFields, EmptyRow DEF Insert, CallOK
  <2>2. new.content = None /\ new.source_updated_at = call[r].source_updated_at
    BY DEF NewRow
  <2>. HIDE DEF new
  <2>3. /\ draft' = [draft EXCEPT ![r] = new] /\ target' = [target EXCEPT ![r] = r]
        /\ pc[r] = "insert" /\ pc'[r] \in Open
    BY <1>1 DEF Insert, TypeOK, new
  <2>4. UNCHANGED <<doc, jdraft>>
    BY DEF Insert, jobVars
  <2>. QED BY <2>1, <2>2, <2>3, <2>4 DEF Inserts
<1>2. CASE Holders(r) # {}
  BY <1>2 DEF Insert, Quiet, TypeOK, jobVars
<1>. QED BY <1>1, <1>2

LEMMA LockingSteps ==
    ASSUME TypeInv, NEW r \in Req,
           \/ IgnoreStale(r) \/ UpdateTitleAndMetadata(r)
           \/ ReplaceInBackground(r) \/ ReplaceAtOnce(r) \/ PatchGroups(r)
    PROVE  Quiet(r) \/ Locks(r)
<1>. DEFINE c == call[r]
            row == doc[target[r]]
            retitled == RememberSourceTime([Regrouped(row, c) EXCEPT !.filename = c.title], c)
            rewritten == Rewritten(row, c)
<1>1. c \in Call /\ (c.kind = "put" => c.title \in Titles /\ c.text \in Texts)
  BY CallFields DEF IgnoreStale, UpdateTitleAndMetadata, ReplaceInBackground, ReplaceAtOnce,
                    PatchGroups, LocksRow
<1>2. row \in Row \cup {None} /\ pc[r] = "lock"
  BY DEF TypeOK, IgnoreStale, UpdateTitleAndMetadata, ReplaceInBackground, ReplaceAtOnce,
         PatchGroups, LocksRow
<1>3. ASSUME row # None, c.kind = "put", ~IsOlderThanStored(row, c)
      PROVE  /\ retitled \in Row /\ rewritten \in Row
             /\ Consistent(row) => Consistent(retitled) /\ Consistent(rewritten)
             /\ NotBefore(retitled, row) /\ NotBefore(rewritten, row)
             /\ retitled.content = row.content /\ rewritten.content = row.content
             /\ Reaches(retitled, c) /\ Reaches(rewritten, c)
             /\ \/ retitled.access_groups # row.access_groups
                \/ rewritten.access_groups # row.access_groups
                => GroupsChange(row, c)
  BY <1>1, <1>2, <1>3, AppliedRow
<1>4. row # None => NotBefore(row, row) /\ (IsOlderThanStored(row, c) => Reaches(row, c))
  BY <1>1, <1>2, ConstantsAssumption DEF NotBefore, IsOlderThanStored, Reaches, Row, Call
<1>. HIDE DEF retitled, rewritten
<1>10. after' = [after EXCEPT ![r] = BumpOwed(row, c)] /\ GroupsChange(row, c) => "bump" \in after'[r]
  BY DEF BumpOwed, TypeOK
<1>5. CASE IgnoreStale(r)
  BY <1>2, <1>4, <1>5 DEF IgnoreStale, LocksRow, Locks, TypeOK, jobVars
<1>6. CASE UpdateTitleAndMetadata(r)
  BY <1>2, <1>3, <1>6, <1>10 DEF UpdateTitleAndMetadata, LocksRow, Locks, TypeOK, jobVars, retitled
<1>7. CASE ReplaceInBackground(r)
  <2>. DEFINE new == [rewritten EXCEPT !.raw_content = c.text, !.status = "pending"]
  <2>1. rewritten \in Row /\ c.text \in Texts
    BY <1>1, <1>3, <1>7 DEF ReplaceInBackground, LocksRow
  <2>2. SameForSearch(new, rewritten)
    BY <2>1 DEF SameForSearch, Row, Status
  <2>. HIDE DEF new
  <2>3. /\ new \in Row /\ NotBefore(new, row)
        /\ Consistent(row) => Consistent(new)
        /\ new.content = row.content /\ Reaches(new, c)
        /\ new.access_groups # row.access_groups => GroupsChange(row, c)
    BY <1>3, <1>7, <2>2
       DEF ReplaceInBackground, LocksRow, SameForSearch, Consistent, NotBefore, Reaches
  <2>4. draft' = [draft EXCEPT ![r] = new] /\ pc'[r] \in {"retitle", "commit"}
    BY <1>7 DEF ReplaceInBackground, TypeOK, new, rewritten
  <2>5. GroupsChange(row, c) => "bump" \in after'[r]
    BY <1>7 DEF ReplaceInBackground, BumpOwed, TypeOK
  <2>. QED BY <1>2, <1>7, <2>3, <2>4, <2>5 DEF ReplaceInBackground, LocksRow, Locks, TypeOK, jobVars
<1>8. CASE ReplaceAtOnce(r)
  <2>. DEFINE new == WithoutChunks(rewritten)
  <2>1. /\ rewritten \in Row /\ NotBefore(rewritten, row) /\ rewritten.content = row.content
        /\ Reaches(rewritten, c)
        /\ rewritten.access_groups # row.access_groups => GroupsChange(row, c)
    BY <1>3, <1>8 DEF ReplaceAtOnce, LocksRow
  <2>2. /\ new \in Row /\ new.chunks = {}
        /\ new.source_updated_at = rewritten.source_updated_at
        /\ new.external_id = rewritten.external_id
        /\ new.access_groups = rewritten.access_groups
        /\ new.content = row.content
    BY <2>1, ClearedRow DEF WithoutChunks, Row
  <2>. HIDE DEF new
  <2>3. NotBefore(new, row) /\ Reaches(new, c)
    BY <2>1, <2>2 DEF NotBefore, Reaches
  <2>4. draft' = [draft EXCEPT ![r] = new] /\ pc'[r] = "ingest"
    BY <1>8 DEF ReplaceAtOnce, TypeOK, new, rewritten
  <2>5. GroupsChange(row, c) => "bump" \in after'[r]
    BY <1>8, <1>10 DEF ReplaceAtOnce
  <2>. QED BY <1>2, <1>8, <2>1, <2>2, <2>3, <2>4, <2>5 DEF ReplaceAtOnce, LocksRow, Locks, TypeOK, jobVars
<1>9. CASE PatchGroups(r)
  <2>. DEFINE new == Regrouped(row, c)
  <2>1. CASE row = None
    BY <1>9, <2>1 DEF PatchGroups, Quiet, TypeOK, jobVars
  <2>2. CASE row # None
    <3>1. /\ new \in Row
          /\ Consistent(row) => Consistent(new)
          /\ new.source_updated_at = row.source_updated_at
          /\ new.content = row.content
          /\ new.external_id = row.external_id
          /\ new.access_groups # row.access_groups => GroupsChange(row, c)
      BY <1>1, <1>2, <2>2, RegroupedByCall
    <3>. HIDE DEF new
    <3>2. NotBefore(new, row)
      BY <1>4, <2>2, <3>1 DEF NotBefore
    <3>3. draft' = [draft EXCEPT ![r] = new] /\ pc'[r] = "commit" /\ ~Locked(target[r])
      BY <1>9, <2>2 DEF PatchGroups, TypeOK, new
    <3>4. GroupsChange(row, c) => "bump" \in after'[r]
      BY <1>9, <1>10, <2>2 DEF PatchGroups
    <3>. QED BY <1>2, <1>9, <2>2, <3>1, <3>2, <3>3, <3>4 DEF PatchGroups, Locks, jobVars
  <2>. QED BY <2>1, <2>2
<1>. QED BY <1>5, <1>6, <1>7, <1>8, <1>9

LEMMA TouchingSteps ==
    ASSUME TypeInv, NEW r \in Req, MarkUnqueued(r) \/ MarkProcessing(r) \/ RecordFailure(r)
    PROVE  Quiet(r) \/ Touches(r)
<1>. DEFINE u == target[r]
            row == doc[u]
<1>1. u \in Req /\ row \in Row \cup {None}
  BY DEF TypeOK
<1>2. ASSUME row # None, ~Locked(u),
             NEW new, SameForSearch(new, row), doc' = [doc EXCEPT ![u] = new],
             pc'[r] = "ingest" <=> pc[r] = "ingest", UNCHANGED <<target, draft, jdraft>>
      PROVE  Touches(r)
  BY <1>1, <1>2 DEF Touches, Live, SameForSearch
<1>3. CASE MarkUnqueued(r)
  <2>1. CASE row = None
    BY <1>3, <2>1 DEF MarkUnqueued, Quiet, TypeOK, jobVars
  <2>2. CASE row # None
    <3>. DEFINE status == IF seen[r].status = "failed" THEN row.status ELSE "failed"
                new == [row EXCEPT !.error = TRUE, !.status = status]
    <3>1. row \in Row
      BY <1>1, <2>2
    <3>2. status \in Status
      BY <3>1 DEF Row, Status
    <3>3. SameForSearch(new, row)
      <4>. HIDE DEF status
      <4>. QED BY <3>1, <3>2 DEF SameForSearch, Row
    <3>4. doc' = [doc EXCEPT ![u] = new] /\ ~Locked(u)
      BY <1>3, <2>2 DEF MarkUnqueued
    <3>5. /\ pc'[r] = "ingest" <=> pc[r] = "ingest"
          /\ UNCHANGED <<target, draft, jdraft>>
      BY <1>3 DEF MarkUnqueued, TypeOK, jobVars
    <3>. HIDE DEF new
    <3>. QED BY <1>2, <2>2, <3>3, <3>4, <3>5
  <2>. QED BY <2>1, <2>2
<1>4. CASE MarkProcessing(r)
  <2>. DEFINE new == [row EXCEPT !.status = "processing"]
  <2>1. row # None => SameForSearch(new, row)
    BY <1>1 DEF SameForSearch, Row, Status
  <2>2. \/ doc' = doc
        \/ row # None /\ ~Locked(u) /\ doc' = [doc EXCEPT ![u] = new]
    BY <1>4 DEF MarkProcessing
  <2>3. UNCHANGED <<pc, target, draft, jdraft>>
    BY <1>4 DEF MarkProcessing, webVars
  <2>. HIDE DEF new
  <2>. QED BY <1>2, <2>1, <2>2, <2>3 DEF Quiet
<1>5. CASE RecordFailure(r)
  <2>. DEFINE new == [row EXCEPT !.status = "failed", !.error = TRUE]
  <2>1. row # None => SameForSearch(new, row)
    BY <1>1 DEF SameForSearch, Row, Status
  <2>2. \/ doc' = doc
        \/ row # None /\ ~Locked(u) /\ doc' = [doc EXCEPT ![u] = new]
    BY <1>5 DEF RecordFailure, Current
  <2>3. UNCHANGED <<pc, target, draft, jdraft>>
    BY <1>5 DEF RecordFailure, webVars
  <2>. HIDE DEF new
  <2>. QED BY <1>2, <2>1, <2>2, <2>3 DEF Quiet
<1>. QED BY <1>3, <1>4, <1>5

LEMMA SwappingSteps ==
    ASSUME TypeInv, NEW r \in Req
    PROVE  /\ Swap(r) => Quiet(r) \/ Swaps(r)
           /\ CommitSwap(r) \/ Redeliver(r) \/ TimeOut(r) => ClosesJob(r)
<1>1. ASSUME Swap(r), Current(r) PROVE Swaps(r)
  <2>1. jpc[r] = "swap" /\ doc[target[r]] # None /\ ~Locked(target[r])
    BY <1>1 DEF Swap, Current
  <2>2. jdraft' = [jdraft EXCEPT ![r] = SwappedRow(r)]
    BY <1>1 DEF Swap, SwappedRow
  <2>3. UNCHANGED <<doc, target, draft, pc>>
    BY <1>1 DEF Swap, webVars
  <2>. QED BY <2>1, <2>2, <2>3, SwappedRowOK DEF Swaps
<1>2. ASSUME Swap(r), ~Current(r) PROVE Quiet(r)
  BY <1>2 DEF Swap, Quiet, webVars
<1>3. ASSUME CommitSwap(r) \/ Redeliver(r) \/ TimeOut(r) PROVE ClosesJob(r)
  BY <1>3 DEF CommitSwap, Redeliver, TimeOut, ClosesJob, webVars
<1>. QED BY <1>1, <1>2, <1>3

\* What a step of r leaves alone.
Keeps(r) ==
    /\ \A q \in Req \ {r} : pc'[q] = pc[q] /\ call'[q] = call[q] /\ after'[q] = after[q]
    /\ pc[r] \in Open => after'[r] = after[r]
    /\ pc[r] # "idle" => call'[r] = call[r]
    /\ pc'[r] \in BeforeRow => pc[r] \in BeforeRow
    /\ pc'[r] = "idle" => pc[r] = "idle"
    /\ pc[r] \in Answers => pc'[r] = pc[r]
    /\ version' \in {version, version + 1}
    /\ pc[r] = "bump" /\ pc'[r] # "bump" => version' = version + 1 \/ Fault("cache") \/ Fault("crash")

LEMMA StepKeeps ==
    ASSUME TypeInv, NEW r \in Req, Arrive(r) \/ RequestStep(r) \/ Crash(r)
    PROVE  Keeps(r)
<1>1. CASE Arrive(r)
  BY <1>1 DEF Arrive, FirstStep, Keeps, TypeOK
<1>2. CASE CheckUpload(r) \/ Insert(r) \/ Select(r) \/ Vanished(r) \/ Find(r) \/ PatchGroups(r)
  BY <1>2 DEF CheckUpload, Insert, Select, Vanished, NextAttempt, Find, PatchGroups, Keeps, TypeOK
<1>3. CASE \/ IgnoreStale(r) \/ UpdateTitleAndMetadata(r)
           \/ ReplaceInBackground(r) \/ ReplaceAtOnce(r)
  BY <1>3 DEF IgnoreStale, UpdateTitleAndMetadata, ReplaceInBackground, ReplaceAtOnce,
              LocksRow, Keeps, TypeOK
<1>4. CASE \/ Ingest(r) \/ Retitle(r) \/ Rollback(r) \/ Commit(r)
           \/ BumpCorpusVersion(r) \/ BumpFails(r) \/ Refresh(r)
  BY <1>4 DEF Ingest, Retitle, Rollback, Commit, BumpCorpusVersion, BumpFails, Refresh, Keeps,
              TypeOK
<1>5. CASE Enqueue(r) \/ EnqueueFails(r) \/ MarkUnqueued(r) \/ Remove(r) \/ Crash(r)
  BY <1>5 DEF Enqueue, EnqueueFails, MarkUnqueued, Remove, Crash, Keeps, TypeOK
<1>. QED BY <1>1, <1>2, <1>3, <1>4, <1>5 DEF RequestStep

\* Every step of the system has one of those shapes.
LEMMA Shapes ==
    ASSUME TypeInv, Next
    PROVE  \/ UNCHANGED vars
           \/ \E r \in Req : /\ Keeps(r)
                             /\ \/ Quiet(r) \/ Touches(r) \/ Inserts(r) \/ Locks(r) \/ Embeds(r)
                                \/ Closes(r) \/ Swaps(r) \/ ClosesJob(r) \/ Removes(r)
<1>1. ASSUME NEW r \in Req, Arrive(r) \/ RequestStep(r) \/ Crash(r) PROVE Keeps(r)
  BY <1>1, StepKeeps
<1>2. ASSUME NEW r \in Req, JobStep(r) \/ Redeliver(r) \/ TimeOut(r) PROVE Keeps(r)
  BY <1>2 DEF JobStep, StartJob, MarkProcessing, Embed, Swap, SwapFails, CommitSwap, RecordFailure,
              Acknowledge, Redeliver, TimeOut, webVars, Keeps
<1>3. ASSUME NEW r \in Req, \/ Arrive(r) \/ RequestStep(r) \/ Crash(r)
                            \/ JobStep(r) \/ Redeliver(r) \/ TimeOut(r)
      PROVE  \/ Quiet(r) \/ Touches(r) \/ Inserts(r) \/ Locks(r) \/ Embeds(r)
             \/ Closes(r) \/ Swaps(r) \/ ClosesJob(r) \/ Removes(r)
  BY <1>3, QuietSteps, WritingSteps, InsertSteps, LockingSteps, TouchingSteps, SwappingSteps
     DEF RequestStep, JobStep
<1>. QED BY <1>1, <1>2, <1>3 DEF Next, Finished

-----------------------------------------------------------------------------
(* One writer. A new transaction asks for ~Locked, and a new row is nobody  *)
(* else's target: OneWriter needs FreshInv to be inductive.                 *)

ShapeOf(r) ==
    \/ Quiet(r) \/ Touches(r) \/ Inserts(r) \/ Locks(r) \/ Embeds(r)
    \/ Closes(r) \/ Swaps(r) \/ ClosesJob(r) \/ Removes(r)

\* A request whose row is not committed has no job.
LEMMA UnbornHasNoJob ==
    ASSUME TypeInv, NEW u \in Req, Unborn(u)
    PROVE  jpc[u] = "none" /\ jdraft[u] = None /\ pc[u] \in BeforeRow \cup Open
BY DEF Unborn, JobOK, DraftOK

\* A request chooses its row before it has a transaction.
LEMMA TargetStep ==
    ASSUME TypeInv, NEW r \in Req, ShapeOf(r), NEW q \in Req, target'[q] # target[q]
    PROVE  q = r /\ pc[r] \in BeforeRow /\ (target'[r] = r \/ target'[r] \in Live)
BY DEF ShapeOf, Quiet, Touches, Inserts, Locks, Embeds, Closes, Swaps, ClosesJob, Removes,
       TypeOK, Live

\* A row that came to be, or never will, is not born again.
LEMMA UnbornBefore ==
    ASSUME TypeInv, NEW r \in Req, Keeps(r), ShapeOf(r), NEW u \in Req, Unborn(u)'
    PROVE  Unborn(u)
<1>1. CASE pc'[u] \in BeforeRow
  BY <1>1 DEF Keeps, Unborn
<1>2. CASE target'[u] = u /\ draft'[u] # None
  <2>1. CASE Inserts(r) /\ u = r
    BY <2>1 DEF Inserts, Unborn
  <2>2. CASE Locks(r) /\ u = r
    BY <1>2, <2>2 DEF Locks, Unborn
  <2>3. CASE draft[u] # None
    <3>1. pc[u] \notin BeforeRow
      BY <2>3 DEF DraftOK
    <3>2. target'[u] = target[u]
      <4>. HIDE DEF TypeInv, ShapeOf
      <4>. QED BY <3>1, TargetStep
    <3>. QED BY <1>2, <2>3, <3>2 DEF Unborn
  <2>4. draft[u] # None \/ (u = r /\ (Inserts(r) \/ Locks(r)))
    BY <1>2 DEF ShapeOf, Quiet, Touches, Inserts, Locks, Embeds, Closes, Swaps, ClosesJob,
                Removes, TypeOK, DraftOK
  <2>. QED BY <2>1, <2>2, <2>3, <2>4
<1>. QED BY <1>1, <1>2 DEF Unborn

LEMMA FreshStep ==
    ASSUME TypeInv, FreshInv, NEW r \in Req, Keeps(r), ShapeOf(r)
    PROVE  FreshInv'
<1>. SUFFICES ASSUME NEW u \in Req, Unborn(u)'
              PROVE  doc'[u] = None /\ \A q \in Req \ {u} : target'[q] # u
  BY DEF FreshInv
<1>1. ASSUME NEW q \in Req, target'[q] # target[q]
      PROVE  q = r /\ pc[r] \in BeforeRow /\ (target'[r] = r \/ target'[r] \in Live)
  <2>. HIDE DEF TypeInv, ShapeOf
  <2>. QED BY <1>1, TargetStep
<1>2. Unborn(u)
  <2>. HIDE DEF TypeInv, ShapeOf, Keeps
  <2>. QED BY UnbornBefore
<1>3. doc[u] = None /\ (\A q \in Req \ {u} : target[q] # u)
  BY <1>2 DEF FreshInv
<1>4. \A q \in Req \ {u} : target'[q] # u
  BY <1>1, <1>3 DEF Live
<1>5. doc'[u] = None
  <2>1. CASE Touches(r)
    BY <1>3, <2>1 DEF Touches, Live, TypeOK
  <2>2. CASE Closes(r) /\ doc' # doc
    <3>1. target[r] # u
      <4>1. CASE r = u
        <5>1. pc[u] = "commit" /\ pc'[u] \notin Open /\ draft'[u] = None
          BY <2>2, <4>1 DEF Closes, TypeOK
        <5>. QED BY <4>1, <5>1 DEF Unborn, Keeps
      <4>2. CASE r # u
        BY <1>3, <4>2
      <4>. QED BY <4>1, <4>2
    <3>. QED BY <1>3, <2>2, <3>1 DEF Closes, TypeOK
  <2>3. CASE ClosesJob(r) /\ doc' # doc
    <3>1. r # u
      BY <1>2, <2>3, UnbornHasNoJob DEF ClosesJob
    <3>. QED BY <1>3, <2>3, <3>1 DEF ClosesJob, TypeOK
  <2>4. CASE Removes(r)
    BY <1>3, <2>4 DEF Removes, TypeOK
  <2>5. doc' = doc \/ Touches(r) \/ Closes(r) \/ ClosesJob(r) \/ Removes(r)
    BY DEF ShapeOf, Quiet, Inserts, Locks, Embeds, Swaps
  <2>. QED BY <1>3, <2>1, <2>2, <2>3, <2>4, <2>5
<1>. QED BY <1>4, <1>5

\* Who holds a row: a request or a job with a draft.
Holds(q) == draft[q] # None \/ jdraft[q] # None

\* Whoever has no draft and gets one takes a row that nobody else holds.
LEMMA NewHolder ==
    ASSUME TypeInv, FreshInv, NEW r \in Req, Keeps(r), ShapeOf(r)
    PROVE  \/ \A q \in Req :
                 /\ draft'[q] # None => draft[q] # None /\ target'[q] = target[q]
                 /\ jdraft'[q] # None => jdraft[q] # None /\ target'[q] = target[q]
           \/ /\ \A q \in Req : Holds(q) => q # r /\ target[q] # target'[r] /\ target'[q] = target[q]
              /\ \A q \in Req \ {r} : draft'[q] = draft[q] /\ jdraft'[q] = jdraft[q]
              /\ draft'[r] = None \/ jdraft'[r] = None
<1>1. CASE Inserts(r)
  <2>1. Unborn(r) /\ draft[r] = None /\ jdraft[r] = None
    BY <1>1 DEF Inserts, Unborn, DraftOK, JobOK
  <2>2. \A q \in Req \ {r} : target[q] # r
    BY <2>1 DEF FreshInv
  <2>3. target'[r] = r /\ \A q \in Req \ {r} : target'[q] = target[q]
    BY <1>1 DEF Inserts, TypeOK
  <2>4. \A q \in Req \ {r} : draft'[q] = draft[q] /\ jdraft'[q] = jdraft[q]
    BY <1>1 DEF Inserts, TypeOK
  <2>5. jdraft'[r] = None
    BY <1>1, <2>1 DEF Inserts
  <2>. QED BY <2>1, <2>2, <2>3, <2>4, <2>5 DEF Holds
<1>2. CASE Locks(r) \/ Swaps(r)
  <2>1. \A q \in Req : Holds(q) => target[q] # target[r]
    BY <1>2 DEF Locks, Swaps, Locked, Holds
  <2>2. target' = target /\ ~Holds(r)
    BY <1>2, <2>1 DEF Locks, Swaps
  <2>3. \A q \in Req \ {r} : draft'[q] = draft[q] /\ jdraft'[q] = jdraft[q]
    BY <1>2 DEF Locks, Swaps, TypeOK
  <2>4. draft'[r] = None \/ jdraft'[r] = None
    BY <1>2, <2>2 DEF Locks, Swaps, Holds
  <2>. QED BY <2>1, <2>2, <2>3, <2>4
<1>3. CASE Quiet(r)
  <2>1. \A q \in Req : Holds(q) => target'[q] = target[q]
    <3>. SUFFICES ASSUME NEW q \in Req, Holds(q), target'[q] # target[q] PROVE FALSE
      OBVIOUS
    <3>1. q = r /\ pc[r] \in BeforeRow
      BY <1>3 DEF Quiet, TypeOK
    <3>. QED BY <3>1 DEF Holds, DraftOK, JobOK
  <2>. QED BY <1>3, <2>1 DEF Quiet, Holds
<1>4. CASE Touches(r) \/ Removes(r) \/ Embeds(r) \/ Closes(r) \/ ClosesJob(r)
  <2>1. target' = target
    BY <1>4 DEF Touches, Removes, Embeds, Closes, ClosesJob
  <2>2. ASSUME NEW q \in Req
        PROVE  /\ draft'[q] # None => draft[q] # None
               /\ jdraft'[q] # None => jdraft[q] # None
    BY <1>4 DEF Touches, Removes, Embeds, Closes, ClosesJob, TypeOK, DraftOK
  <2>. HIDE DEF TypeInv
  <2>. QED BY <2>1, <2>2
<1>. QED BY <1>1, <1>2, <1>3, <1>4 DEF ShapeOf

LEMMA OneWriterStep ==
    ASSUME TypeInv, FreshInv, OneWriter, NEW r \in Req, Keeps(r), ShapeOf(r)
    PROVE  OneWriter'
<1>. DEFINE noneNew == \A q \in Req :
                           /\ draft'[q] # None => draft[q] # None /\ target'[q] = target[q]
                           /\ jdraft'[q] # None => jdraft[q] # None /\ target'[q] = target[q]
            oneNew == /\ \A q \in Req : Holds(q) => /\ q # r /\ target[q] # target'[r]
                                                   /\ target'[q] = target[q]
                      /\ \A q \in Req \ {r} : draft'[q] = draft[q] /\ jdraft'[q] = jdraft[q]
                      /\ draft'[r] = None \/ jdraft'[r] = None
<1>1. noneNew \/ oneNew
  <2>. HIDE DEF TypeInv, Keeps, ShapeOf, FreshInv
  <2>. QED BY NewHolder
<1>2. CASE noneNew
  BY <1>2 DEF OneWriter
<1>3. CASE oneNew
  BY <1>3 DEF OneWriter, Holds
<1>. QED BY <1>1, <1>2, <1>3

LEMMA FreshInit == Init => FreshInv /\ OneWriter
BY DEF Init, FreshInv, OneWriter

LEMMA FreshOrWriterNext ==
    TypeInv /\ FreshInv /\ OneWriter /\ [Next]_vars => (FreshInv /\ OneWriter)'
<1>. SUFFICES ASSUME TypeInv, FreshInv, OneWriter, [Next]_vars PROVE (FreshInv /\ OneWriter)'
  OBVIOUS
<1>1. CASE UNCHANGED vars
  BY <1>1 DEF vars, webVars, jobVars, FreshInv, Unborn, OneWriter
<1>2. CASE \E r \in Req : Keeps(r) /\ ShapeOf(r)
  <2>. HIDE DEF TypeInv
  <2>. QED BY <1>2, FreshStep, OneWriterStep
<1>. QED BY <1>1, <1>2, Shapes DEF ShapeOf

\* Nobody names a row before it is committed, except the request that inserts it.
THEOREM Fresh == Spec => []FreshInv
<1>. HIDE DEF TypeInv
<1>. QED BY FreshInit, FreshOrWriterNext, TypeInvariant, PTL DEF Spec

\* Two transactions, of requests or of jobs, never have changes of one row open at once.
THEOREM WritersAreSerialised == Spec => []OneWriter
<1>. HIDE DEF TypeInv
<1>. QED BY FreshInit, FreshOrWriterNext, TypeInvariant, PTL DEF Spec

-----------------------------------------------------------------------------
(* One version. *)

LEMMA VersionStep ==
    ASSUME TypeInv, VersionInv, NEW r \in Req, Keeps(r), ShapeOf(r)
    PROVE  VersionInv'
<1>1. CASE Quiet(r)
  BY <1>1 DEF Quiet, Keeps, VersionInv
<1>2. CASE Touches(r)
  <2>1. PICK u \in Live, new \in Row : /\ SameForSearch(new, doc[u])
                                    /\ doc' = [doc EXCEPT ![u] = new]
    BY <1>2 DEF Touches
  <2>2. Consistent(new)
    BY <2>1 DEF VersionInv, Live, SameForSearch, Consistent
  <2>. QED BY <1>2, <2>1, <2>2 DEF Touches, Keeps, VersionInv, TypeOK, Live
<1>3. CASE Inserts(r)
  <2>1. PICK new \in Row : /\ new.chunks = {} /\ new.content = None
                          /\ draft' = [draft EXCEPT ![r] = new]
    BY <1>3 DEF Inserts
  <2>2. Consistent(new)
    BY <2>1 DEF Consistent
  <2>. QED BY <1>3, <2>1, <2>2 DEF Inserts, Keeps, VersionInv, TypeOK
<1>4. CASE Locks(r)
  BY <1>4 DEF Locks, Keeps, VersionInv, TypeOK
<1>5. CASE Embeds(r)
  BY <1>5 DEF Embeds, Keeps, VersionInv, TypeOK, DraftOK
<1>6. CASE Closes(r)
  BY <1>6 DEF Closes, Keeps, VersionInv, TypeOK, DraftOK
<1>7. CASE Swaps(r)
  BY <1>7 DEF Swaps, Keeps, VersionInv, TypeOK
<1>8. CASE ClosesJob(r)
  BY <1>8 DEF ClosesJob, Keeps, VersionInv, TypeOK, JobOK
<1>9. CASE Removes(r)
  BY <1>9 DEF Removes, Keeps, VersionInv, TypeOK, DraftOK
<1>. QED BY <1>1, <1>2, <1>3, <1>4, <1>5, <1>6, <1>7, <1>8, <1>9 DEF ShapeOf

LEMMA VersionInvariant == Spec => []VersionInv
<1>1. Init => VersionInv
  BY DEF Init, VersionInv
<1>2. TypeInv /\ VersionInv /\ [Next]_vars => VersionInv'
  <2>. SUFFICES ASSUME TypeInv, VersionInv, [Next]_vars PROVE VersionInv'
    OBVIOUS
  <2>1. CASE UNCHANGED vars
    BY <2>1 DEF vars, webVars, jobVars, VersionInv
  <2>2. CASE \E r \in Req : Keeps(r) /\ ShapeOf(r)
    <3>. HIDE DEF TypeInv
    <3>. QED BY <2>2, VersionStep
  <2>. QED BY <2>1, <2>2, Shapes DEF ShapeOf
<1>. HIDE DEF TypeInv
<1>. QED BY <1>1, <1>2, TypeInvariant, PTL DEF Spec

\* A search never finds chunks of two versions of a row, nor chunks under groups the row does
\* not have, however the requests and the jobs are interleaved.
THEOREM RowsHaveOneVersion == Spec => []OneVersion
<1>1. VersionInv => OneVersion
  BY DEF VersionInv, OneVersion, Consistent, Live
<1>. QED BY <1>1, VersionInvariant, PTL

-----------------------------------------------------------------------------
(* The source time. A transaction compares the times once, when it has the  *)
(* lock; OneWriter keeps the row it compared with as it is until it commits. *)

\* The row of an open transaction changes only by its own commit.
LEMMA HeldRow ==
    ASSUME TypeInv, FreshInv, OneWriter, NEW r \in Req, Keeps(r), ShapeOf(r),
           NEW q \in Req, Holds(q), Holds(q)'
    PROVE  /\ target'[q] = target[q]
           /\ doc'[target[q]] = doc[target[q]]
<1>1. target'[q] = target[q]
  <2>1. CASE Inserts(r)
    BY <2>1 DEF Inserts, TypeOK, Holds, DraftOK, JobOK
  <2>2. CASE Quiet(r)
    BY <2>2 DEF Quiet, TypeOK, Holds, DraftOK, JobOK
  <2>3. CASE ~Inserts(r) /\ ~Quiet(r)
    BY <2>3 DEF ShapeOf, Touches, Locks, Embeds, Closes, Swaps, ClosesJob, Removes
  <2>. QED BY <2>1, <2>2, <2>3
<1>2. doc'[target[q]] = doc[target[q]]
  <2>1. CASE Touches(r)
    <3>1. PICK u \in Live, new \in Row : ~Locked(u) /\ doc' = [doc EXCEPT ![u] = new]
      BY <2>1 DEF Touches
    <3>2. target[q] # u
      BY <3>1 DEF Locked, Holds
    <3>. QED BY <3>1, <3>2 DEF TypeOK
  <2>2. CASE Removes(r)
    <3>1. target[q] # target[r]
      BY <2>2 DEF Removes, Locked, Holds
    <3>. QED BY <2>2, <3>1 DEF Removes, TypeOK
  <2>3. CASE Closes(r) /\ doc' # doc
    <3>1. draft[r] # None /\ draft'[r] = None /\ jdraft[r] = None /\ jdraft' = jdraft
      BY <2>3 DEF Closes, DraftOK, JobOK, TypeOK
    <3>2. q # r
      BY <3>1 DEF Holds
    <3>3. target[q] # target[r]
      BY <3>1, <3>2 DEF OneWriter, Holds
    <3>. QED BY <2>3, <3>3 DEF Closes, TypeOK
  <2>4. CASE ClosesJob(r) /\ doc' # doc
    <3>1. jdraft[r] # None /\ jdraft'[r] = None /\ draft' = draft
      BY <2>4 DEF ClosesJob, JobOK, TypeOK
    <3>2. draft[r] = None
      BY <3>1 DEF JobOK, DraftOK
    <3>3. q # r
      BY <3>1, <3>2 DEF Holds
    <3>4. target[q] # target[r]
      BY <3>1, <3>3 DEF OneWriter, Holds
    <3>. QED BY <2>4, <3>4 DEF ClosesJob, TypeOK
  <2>5. doc' = doc \/ Touches(r) \/ Removes(r) \/ Closes(r) \/ ClosesJob(r)
    BY DEF ShapeOf, Quiet, Inserts, Locks, Embeds, Swaps
  <2>. QED BY <2>1, <2>2, <2>3, <2>4, <2>5
<1>. QED BY <1>1, <1>2

LEMMA HeldAndTimeStep ==
    ASSUME TypeInv, FreshInv, OneWriter, HeldInv, TimeInv, NEW r \in Req, Keeps(r), ShapeOf(r)
    PROVE  (HeldInv /\ TimeInv)'
<1>. DEFINE Good(q) ==
        /\ draft[q] # None => /\ target[q] = q \/ doc[target[q]] # None
                              /\ doc[target[q]] # None => NotBefore(draft[q], doc[target[q]])
        /\ jdraft[q] # None => /\ doc[target[q]] # None
                               /\ NotBefore(jdraft[q], doc[target[q]])
<1>1. ASSUME NEW q \in Req PROVE Good(q)'
  <2>1. Good(q)
    BY DEF HeldInv, TimeInv
  <2>2. CASE Holds(q) /\ Holds(q)'
    <3>1. target'[q] = target[q] /\ doc'[target[q]] = doc[target[q]]
      <4>. HIDE DEF TypeInv
      <4>. QED BY <2>2, HeldRow
    <3>2. CASE draft'[q] = draft[q] /\ jdraft'[q] = jdraft[q]
      BY <2>1, <3>1, <3>2
    <3>3. CASE q = r /\ Embeds(r)
      <4>1. jdraft'[r] = jdraft[r] /\ draft[r] # None
        BY <3>3 DEF Embeds, DraftOK
      <4>2. /\ draft'[r].source_updated_at = draft[r].source_updated_at
            /\ draft'[r].external_id = draft[r].external_id
        BY <3>3 DEF Embeds, TypeOK
      <4>. QED BY <2>1, <3>1, <3>3, <4>1, <4>2 DEF NotBefore
    <3>4. CASE q = r /\ (Inserts(r) \/ Locks(r) \/ Swaps(r))
      <4>1. ~(Locks(r) \/ Swaps(r))
        BY <2>2, <3>4 DEF Locks, Swaps, Locked, Holds
      <4>2. ~Inserts(r)
        BY <2>2, <3>4 DEF Inserts, DraftOK, JobOK, Holds
      <4>. QED BY <3>4, <4>1, <4>2
    <3>5. CASE q = r /\ (Closes(r) \/ ClosesJob(r))
      BY <2>1, <3>1, <3>5 DEF Closes, ClosesJob, TypeOK
    <3>6. \/ draft'[q] = draft[q] /\ jdraft'[q] = jdraft[q]
          \/ q = r /\ (Embeds(r) \/ Inserts(r) \/ Locks(r) \/ Swaps(r) \/ Closes(r) \/ ClosesJob(r))
      BY DEF ShapeOf, Quiet, Touches, Removes, Embeds, Inserts, Locks, Swaps, Closes, ClosesJob,
             TypeOK
    <3>. QED BY <3>2, <3>3, <3>4, <3>5, <3>6
  <2>3. CASE ~Holds(q) /\ Holds(q)'
    <3>1. q = r /\ (Inserts(r) \/ Locks(r) \/ Swaps(r))
      BY <2>3 DEF ShapeOf, Quiet, Touches, Removes, Embeds, Inserts, Locks, Swaps, Closes, ClosesJob,
                  TypeOK, Holds, DraftOK
    <3>2. CASE Inserts(r)
      <4>1. doc[r] = None
        BY <3>2 DEF Inserts, FreshInv, Unborn
      <4>. QED BY <2>3, <3>1, <3>2, <4>1 DEF Inserts, TypeOK, Holds
    <3>3. CASE Locks(r)
      BY <2>3, <3>1, <3>3 DEF Locks, TypeOK, Holds
    <3>4. CASE Swaps(r)
      <4>1. doc[target[r]].source_updated_at \in Nat \cup {None}
        BY <3>4 DEF Swaps, TypeOK, Row
      <4>. QED BY <2>3, <3>1, <3>4, <4>1, ConstantsAssumption DEF Swaps, TypeOK, Holds, NotBefore
    <3>. QED BY <3>1, <3>2, <3>3, <3>4
  <2>4. CASE ~Holds(q)'
    BY <2>4 DEF Holds
  <2>. QED BY <2>2, <2>3, <2>4
<1>. QED BY <1>1 DEF HeldInv, TimeInv

\* All of it together, for every reachable state.
LockInv == TypeInv /\ FreshInv /\ OneWriter /\ HeldInv /\ TimeInv

LEMMA Locking == Spec => []LockInv
<1>1. Init => HeldInv /\ TimeInv
  BY DEF Init, HeldInv, TimeInv
<1>2. /\ TypeInv /\ FreshInv /\ OneWriter /\ HeldInv /\ TimeInv
      /\ [Next]_vars
      => (HeldInv /\ TimeInv)'
  <2>. SUFFICES ASSUME TypeInv, FreshInv, OneWriter, HeldInv, TimeInv, [Next]_vars
                PROVE  (HeldInv /\ TimeInv)'
    OBVIOUS
  <2>1. CASE UNCHANGED vars
    BY <2>1 DEF vars, webVars, jobVars, HeldInv, TimeInv
  <2>2. CASE \E r \in Req : Keeps(r) /\ ShapeOf(r)
    <3>. HIDE DEF TypeInv
    <3>. QED BY <2>2, HeldAndTimeStep
  <2>. QED BY <2>1, <2>2, Shapes DEF ShapeOf
<1>. HIDE DEF TypeInv
<1>. QED BY <1>1, <1>2, Fresh, WritersAreSerialised, TypeInvariant, PTL DEF Spec, LockInv

\* No step takes the source time of a row back, or forgets it.
THEOREM TimeNeverGoesBack == Spec => SourceTimeNeverGoesBack
<1>. DEFINE Forward(u) ==
        doc[u] # None /\ doc'[u] # None /\ doc[u].source_updated_at # None =>
           /\ doc'[u].source_updated_at # None
           /\ doc'[u].source_updated_at >= doc[u].source_updated_at
<1>1. LockInv /\ [Next]_vars => [\A u \in Req : Forward(u)]_vars
  <2>. SUFFICES ASSUME LockInv, Next, NEW u \in Req, doc'[u] # None, doc'[u] # doc[u]
                PROVE  Forward(u)
    <3>1. ASSUME LockInv, NEW v \in Req, doc'[v] = doc[v] PROVE Forward(v)
      BY <3>1 DEF LockInv, TypeOK, Row
    <3>. QED BY <3>1
  <2>1. PICK r \in Req : ShapeOf(r)
    BY Shapes DEF LockInv, ShapeOf, vars
  <2>2. CASE Touches(r)
    BY <2>2 DEF Touches, LockInv, TypeOK, SameForSearch, Live, Row
  <2>3. CASE Closes(r)
    <3>1. u = target[r] /\ doc'[u] = draft[r] /\ draft[r] # None
      BY <2>3 DEF Closes, LockInv, TypeOK, DraftOK
    <3>. QED BY <3>1 DEF LockInv, TimeInv, NotBefore
  <2>4. CASE ClosesJob(r)
    <3>1. u = target[r] /\ doc'[u] = jdraft[r] /\ jdraft[r] # None
      BY <2>4 DEF ClosesJob, LockInv, TypeOK, JobOK
    <3>. QED BY <3>1 DEF LockInv, TimeInv, NotBefore
  <2>5. CASE Removes(r)
    BY <2>5 DEF Removes, LockInv, TypeOK
  <2>6. Touches(r) \/ Closes(r) \/ ClosesJob(r) \/ Removes(r)
    BY <2>1 DEF ShapeOf, Quiet, Inserts, Locks, Embeds, Swaps
  <2>. QED BY <2>2, <2>3, <2>4, <2>5, <2>6
<1>. HIDE DEF LockInv
<1>. QED BY <1>1, Locking, PTL DEF Spec, SourceTimeNeverGoesBack

-----------------------------------------------------------------------------
(* DELETE. *)

LEMMA DeleteStep == TypeInv /\ DeleteInv /\ [Next]_vars => DeleteInv'
<1>. SUFFICES ASSUME TypeInv, DeleteInv, [Next]_vars PROVE DeleteInv'
  OBVIOUS
<1>1. CASE UNCHANGED vars
  BY <1>1 DEF vars, webVars, DeleteInv
<1>2. ASSUME NEW r \in Req, Arrive(r) \/ RequestStep(r) \/ Crash(r) PROVE DeleteInv'
  <2>1. CASE Arrive(r)
    BY <2>1 DEF Arrive, FirstStep, DeleteInv, TypeOK
  <2>2. CASE CheckUpload(r) \/ Insert(r) \/ Select(r) \/ Vanished(r) \/ Find(r)
    BY <2>2 DEF CheckUpload, Insert, Select, Vanished, NextAttempt, Find, DeleteInv, DeleteKinds,
                CallOK, TypeOK
  <2>3. CASE \/ IgnoreStale(r) \/ UpdateTitleAndMetadata(r) \/ ReplaceInBackground(r)
             \/ ReplaceAtOnce(r) \/ PatchGroups(r)
    BY <2>3 DEF IgnoreStale, UpdateTitleAndMetadata, ReplaceInBackground, ReplaceAtOnce, LocksRow,
                PatchGroups, DeleteInv, DeleteKinds, TypeOK
  <2>4. CASE \/ Ingest(r) \/ Retitle(r) \/ Rollback(r) \/ Commit(r)
             \/ BumpCorpusVersion(r) \/ BumpFails(r) \/ Refresh(r)
    BY <2>4 DEF Ingest, Retitle, Rollback, Commit, BumpCorpusVersion, BumpFails, Refresh,
                DeleteInv, DeleteKinds, TypeOK
  <2>5. CASE Enqueue(r) \/ EnqueueFails(r) \/ MarkUnqueued(r) \/ Remove(r) \/ Crash(r)
    BY <2>5 DEF Enqueue, EnqueueFails, MarkUnqueued, Remove, Crash, DeleteInv, TypeOK
  <2>. QED BY <1>2, <2>1, <2>2, <2>3, <2>4, <2>5 DEF RequestStep
<1>3. ASSUME NEW r \in Req, JobStep(r) \/ Redeliver(r) \/ TimeOut(r) PROVE DeleteInv'
  BY <1>3 DEF JobStep, StartJob, MarkProcessing, Embed, Swap, SwapFails, CommitSwap, RecordFailure,
              Acknowledge, Redeliver, TimeOut, webVars, DeleteInv
<1>. QED BY <1>1, <1>2, <1>3 DEF Next, Finished

\* A deleted row is out of reach: nothing is going to commit it.
LEMMA DeletedRow ==
    ASSUME LockInv, Next, NEW u \in Req, doc[u] = None, ~Unborn(u)
    PROVE  doc'[u] = None
<1>1. PICK r \in Req : UNCHANGED vars \/ ShapeOf(r)
  BY Shapes DEF LockInv, ShapeOf
<1>2. CASE UNCHANGED vars
  BY <1>2 DEF vars
<1>3. CASE Touches(r)
  BY <1>3 DEF Touches, Live, LockInv, TypeOK
<1>4. CASE Closes(r) /\ doc' # doc
  <2>1. target[r] # u
    <3>1. draft[r] # None
      BY <1>4 DEF Closes, LockInv, DraftOK
    <3>2. target[r] = r \/ doc[target[r]] # None
      BY <3>1 DEF LockInv, HeldInv
    <3>. QED BY <3>1, <3>2 DEF Unborn
  <2>. QED BY <1>4, <2>1 DEF Closes, LockInv, TypeOK
<1>5. CASE ClosesJob(r) /\ doc' # doc
  <2>1. target[r] # u
    BY <1>5 DEF ClosesJob, LockInv, HeldInv, JobOK
  <2>. QED BY <1>5, <2>1 DEF ClosesJob, LockInv, TypeOK
<1>6. CASE Removes(r)
  BY <1>6 DEF Removes, LockInv, TypeOK
<1>7. UNCHANGED vars \/ doc' = doc \/ Touches(r) \/ Closes(r) \/ ClosesJob(r) \/ Removes(r)
  BY <1>1 DEF ShapeOf, Quiet, Inserts, Locks, Embeds, Swaps
<1>. QED BY <1>2, <1>3, <1>4, <1>5, <1>6, <1>7

\* A DELETE comes to its answer by removing its row, or by finding none.
LEMMA DeleteAnswer ==
    ASSUME LockInv, DeleteInv, Next, NEW r \in Req, call'[r].kind \in DeleteKinds,
           pc[r] \notin {"bump", "ok"}, pc'[r] \in {"bump", "ok"}
    PROVE  doc'[target'[r]] = None
<1>1. Arrive(r) \/ RequestStep(r) \/ Crash(r)
  <2>1. ASSUME NEW q \in Req, q # r, Arrive(q) \/ RequestStep(q) \/ Crash(q) PROVE pc'[r] = pc[r]
    BY <2>1, StepKeeps DEF LockInv, Keeps
  <2>2. ASSUME NEW q \in Req, JobStep(q) \/ Redeliver(q) \/ TimeOut(q) PROVE pc' = pc
    BY <2>2 DEF JobStep, StartJob, MarkProcessing, Embed, Swap, SwapFails, CommitSwap,
                RecordFailure, Acknowledge, Redeliver, TimeOut, webVars
  <2>. QED BY <2>1, <2>2 DEF Next, Finished, vars, webVars
<1>2. CASE Remove(r)
  BY <1>2 DEF Remove, LockInv, TypeOK
<1>3. CASE Find(r)
  <2>1. pc[r] = "find" /\ target' = target /\ doc' = doc
    BY <1>3 DEF Find, LockInv, TypeOK
  <2>2. target[r] = r /\ doc[r] = None
    BY <2>1 DEF DeleteInv, LockInv, FreshInv, Unborn
  <2>. QED BY <2>1, <2>2
<1>4. ASSUME ~Remove(r), ~Find(r) PROVE FALSE
  <2>1. pc[r] # "idle" /\ call'[r] = call[r]
    <3>1. ~Arrive(r)
      BY DEF Arrive, FirstStep, LockInv, TypeOK
    <3>2. RequestStep(r) \/ Crash(r) => pc[r] # "idle"
      BY DEF RequestStep, CheckUpload, Insert, Select, Vanished, IgnoreStale,
             UpdateTitleAndMetadata, ReplaceInBackground, ReplaceAtOnce, LocksRow, Ingest, Retitle,
             Rollback, Commit, BumpCorpusVersion, BumpFails, Refresh, Enqueue, EnqueueFails,
             MarkUnqueued, Find, PatchGroups, Remove, Crash
    <3>. QED BY <1>1, <3>1, <3>2, StepKeeps DEF LockInv, Keeps
  <2>2. CASE CheckUpload(r)
    BY <2>1, <2>2 DEF CheckUpload, LockInv, CallOK, DeleteKinds
  <2>3. CASE Commit(r) \/ Refresh(r)
    BY <2>1, <2>3 DEF Commit, Refresh, DeleteInv
  <2>4. CASE Insert(r) \/ Select(r) \/ Vanished(r) \/ PatchGroups(r)
    BY <2>4 DEF Insert, Select, Vanished, NextAttempt, PatchGroups, LockInv, TypeOK
  <2>5. CASE \/ IgnoreStale(r) \/ UpdateTitleAndMetadata(r)
             \/ ReplaceInBackground(r) \/ ReplaceAtOnce(r)
    BY <2>5 DEF IgnoreStale, UpdateTitleAndMetadata, ReplaceInBackground, ReplaceAtOnce, LockInv,
                TypeOK
  <2>6. CASE \/ Ingest(r) \/ Retitle(r) \/ Rollback(r) \/ BumpCorpusVersion(r) \/ BumpFails(r)
             \/ Enqueue(r) \/ EnqueueFails(r) \/ MarkUnqueued(r) \/ Crash(r)
    BY <2>6 DEF Ingest, Retitle, Rollback, BumpCorpusVersion, BumpFails, Enqueue, EnqueueFails,
                MarkUnqueued, Crash, LockInv, TypeOK
  <2>. QED BY <1>1, <1>4, <2>1, <2>2, <2>3, <2>4, <2>5, <2>6 DEF RequestStep, Arrive
<1>. QED BY <1>2, <1>3, <1>4

LEMMA DeletedStep ==
    ASSUME LockInv, DeleteInv, DeletedStaysDeleted, Next
    PROVE  DeletedStaysDeleted'
<1>. SUFFICES ASSUME NEW r \in Req, call'[r] # None, call'[r].kind \in DeleteKinds,
                     pc'[r] \in {"bump", "ok"}
              PROVE  doc'[target'[r]] = None
  BY DEF DeletedStaysDeleted, DeleteKinds
<1>1. CASE pc[r] \in {"bump", "ok"}
  <2>. DEFINE u == target[r]
  <2>1. call'[r] = call[r] /\ target'[r] = u
    <3>1. PICK q \in Req : UNCHANGED vars \/ (Keeps(q) /\ ShapeOf(q))
      BY Shapes DEF LockInv, ShapeOf
    <3>2. CASE UNCHANGED vars
      BY <3>2 DEF vars, webVars
    <3>3. CASE Keeps(q) /\ ShapeOf(q)
      BY <1>1, <3>3 DEF Keeps, ShapeOf, Quiet, Touches, Inserts, Locks, Embeds, Closes, Swaps,
                        ClosesJob, Removes, LockInv, TypeOK
    <3>. QED BY <3>1, <3>2, <3>3
  <2>2. u \in Req /\ doc[u] = None
    BY <1>1, <2>1 DEF DeletedStaysDeleted, DeleteKinds, LockInv, TypeOK
  <2>3. ~Unborn(u)
    <3>1. CASE u = r
      BY <1>1, <3>1 DEF Unborn, LockInv, DraftOK
    <3>2. CASE u # r
      BY <2>2, <3>2 DEF LockInv, FreshInv
    <3>. QED BY <3>1, <3>2
  <2>. HIDE DEF u, LockInv
  <2>. QED BY <2>1, <2>2, <2>3, DeletedRow
<1>2. CASE pc[r] \notin {"bump", "ok"}
  <2>. HIDE DEF LockInv
  <2>. QED BY <1>2, DeleteAnswer
<1>. QED BY <1>1, <1>2

\* Nothing brings a deleted row back, whatever was under way when it was deleted.
THEOREM DeletedForGood == Spec => []DeletedStaysDeleted
<1>1. Init => DeleteInv /\ DeletedStaysDeleted
  BY DEF Init, DeleteInv, DeletedStaysDeleted
<1>2. LockInv /\ DeleteInv /\ [Next]_vars => DeleteInv'
  BY DeleteStep DEF LockInv
<1>3. LockInv /\ DeleteInv /\ DeletedStaysDeleted /\ [Next]_vars => DeletedStaysDeleted'
  <2>1. ASSUME UNCHANGED vars, DeletedStaysDeleted PROVE DeletedStaysDeleted'
    BY <2>1 DEF vars, webVars, DeletedStaysDeleted
  <2>. HIDE DEF LockInv
  <2>. QED BY <2>1, DeletedStep
<1>. HIDE DEF LockInv
<1>. QED BY <1>1, <1>2, <1>3, Locking, PTL DEF Spec
==============================================================================
