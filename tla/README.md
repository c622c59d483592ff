# Verification of ragbridge

ragbridge stores a tenant's documents, cuts and embeds them, and answers questions from them.
This directory models what it does between a request and its answer: the documents API, the sync
by external id and the background worker over one database, the answer cache beside them, the way
from a page's text to the context of an answer, API keys, and the agent with the rerankers. TLC
checks the models on small instances; TLAPS proves all of their safety properties but one, for
every number of requests, documents, texts, groups, questions and searches, and for every choice
of the settings.

Paths such as `sync.py:128` are relative to `src/ragbridge/` of the repository.

## The system

Two kinds of process share one PostgreSQL database and one Redis: web processes, in which every
request is a coroutine with a database session of its own, and workers, in which arq runs jobs.
PostgreSQL runs at READ COMMITTED: each statement sees what was committed when it began, and
writers of one row wait for each other.

| Component | State | Operations | What is hard about it |
|---|---|---|---|
| sync (`sync.py`) | the row of an external id | PUT: insert, or lock and apply; commit, bump, refresh, enqueue | concurrent writers, late writes, a failure between commit and enqueue |
| API (`api/documents.py`) | rows by id | POST, PATCH, DELETE | identical uploads at once, rows that vanish under a lock, a row queued but not processed |
| ingestion (`ingestion.py`) | chunks, groups of chunks, corpus version | `store_chunks`, `set_access_groups`, `bump_corpus_version` | groups that change while a text is embedded; the bump before or after the commit |
| worker (`worker.py`) | status, raw bytes, chunks | `process_document` | an unlocked read, jobs for texts that were replaced, at-least-once delivery, timeouts |
| queue (`jobs.py`) | jobs in Redis | enqueue | it may fail with the job sent or not |
| cache (`cache.py`) | corpus version, answers, vectors | get, set, incr | stale entries under a current key |
| query (`api/query.py`) | the answer being built | version, lookup, search, neighbours, store | writers between its reads; scopes in the key |
| retrieval (`retrieval.py`) | none (reads) | two arms, fusion, neighbours | a snapshot for each statement; ties, limits, statistics over hidden chunks |
| access (`access.py`) | none | normalise groups and scopes | no scope is not an empty scope |
| chunking (`chunking.py`) | none | cut, pack, carry headings, merge | sizes at their boundary, headings that move, overlaps |
| embeddings (`embeddings.py`) | cached vectors | embed a list of texts | hits, misses and failures within one list; another model over the same cache |
| context (`context.py`) | none | neighbours, excerpts, stitching | the budget, reading order, what chunks share |
| auth, admin (`auth.py`, `admin.py`) | keys | authenticate, create, revoke | `last_used_at` against a revocation |
| rerank (`rerank.py`) | slots of an event loop | judge calls, ordering | failed calls, slots given back, chunks without a rating |
| agent (`agent/`, `api/agent.py`) | best rows so far | search, plan, up to `max_steps` | budget, unparsable plans, chunks found twice |
| chat, pdf, tracing, config, main, health, MCP server, playground | none of their own | calls to others, formatting | nothing this project checks |

What must be true of them, in short: a row always holds one version under one set of groups;
writers of a row are serialised; a deleted row stays deleted; an older write never undoes a
newer one; the old version stays searchable until the new one replaces it; a row that says ready
holds its newest text; a row that says pending is being worked on; no answer leaves the scope it
was asked with, or outlives a change of access; no character of a text is lost between upload
and answer, and none is shown twice; what a caller may not see has no say in what it finds; a
revoked key stays revoked; the agent stops in time with the best it found, and no judge's slot
is ever lost.

## Modules

```
Store    <- Requests, Worker <- Documents <- AnswerCache
Sorting  <- Chunking <- Retrieval <- Context; Chunking <- Embeddings; both <- Answers
            Keys, Judge      <- Agent
```

An arrow reads "is extended by"; `Judge` extends `Sorting` too. `Documents` also implements the
abstract specification `Corpus`.

### Documents, jobs and the answer cache

`Store` is the database: `doc[u]`, the committed row `u` with its chunks, the constants and
their assumptions, and what the code does to one row (`NewRow`, `StoreChunks`,
`SetAccessGroups`, `IsOlderThanStored`, `RememberSourceTime`, `Obsolete`). Rows are named by the
request that inserts them, so ids are never reused. A transaction is `draft[r]` (or `jdraft[r]`
for a job): the row as it will be committed. While it is not `None` the row is locked, which is
what `FOR UPDATE`, an `UPDATE` or an `INSERT` do. PostgreSQL itself is not under `src/`: locks,
unique indexes and snapshots are taken as the code relies on them.

`Requests` is the web side. Every request runs one call, step by step; `pc[r]` is where it
stands. An action is the code between two awaits that others can tell apart:

| Code | Actions |
|---|---|
| `upload_document` | `CheckUpload`, `Insert`, `Ingest`, `Commit`, `Enqueue` or `EnqueueFails` |
| `put_external_document` | `Insert`, `Select`, `Vanished`, then one of the next |
| `_apply_to_existing` | `IgnoreStale`, `UpdateTitleAndMetadata` (`Retitle`), `ReplaceInBackground`, `ReplaceAtOnce` (`Ingest`) |
| `_finish`, `_enqueue` | `Commit`, `BumpCorpusVersion`, `Refresh`, `Enqueue`, `EnqueueFails`, `MarkUnqueued` |
| PATCH, DELETE by id, DELETE by external id | `Find`, `PatchGroups`, `Remove`, `Commit`, `BumpCorpusVersion`, `Refresh` |
| failures | `Rollback`, `BumpFails`, `EnqueueFails`, `Crash` |

`Worker` is `process_document`: `StartJob` (the unlocked read), `MarkProcessing`, `Embed`,
`Swap` or `SwapFails`, `CommitSwap`, `RecordFailure`, `Acknowledge`. `Redeliver` and `TimeOut`
are what arq may do with a job.

`Documents` composes the two over one database, with the properties of the rows. It INSTANCEs
`Corpus`, which knows no request, job, lock or transaction: a document appears once, is replaced
or regrouped as a whole, never goes back in source time, and is gone for good when it is
removed. The refinement maps each row to what a search finds of it, its groups and its source
time; an id with no committed row is `New` as long as its request may still insert it, and
`Gone` otherwise.

`AnswerCache` extends `Documents` with queries: the version is read, the cache asked, then the
two arms of the search and the neighbours each see the rows as they are at that moment, and the
answer is stored under the version read first. A query fails by taking no further step. Here
every arm finds all it may see, so that no property holds because a limit cut something off.

The data are reduced: a text stands for its hash, its bytes and its chunks (the hash is taken as
injective, a text cut in pieces is still one text); a list of groups is a set; a time is a
number; metadata, content types and messages are left out, and `error` is a flag. One tenant is
modelled: every statement of the modelled code filters by tenant.

### From a text to an answer

| Module | Code | Definitions |
|---|---|---|
| `Chunking` | `chunking.py` | `Pieces`, `Pack`, `OverlapTail`, `SplitByCharacters`; `CarryHeadings`; `MergeSmall`; all of it in `ChunkText` |
| `Embeddings` | `embeddings.py` | `Get`, `EmbedMisses`, `Set` with the cache, `EmbedAll` without it, `EmbedFails`; `Expire`, `Restart` |
| `Retrieval` | `retrieval.py` | `VectorSearch`, `KeywordSearch` with `TermStats`, `WithoutCommonWords`, the OR fallback and `Rarity`; `ReciprocalRankFusion`, `Provenance` |
| `Context` | `context.py` | `FetchNeighbours`, `AddNeighbours`, `ReadingOrder`, `Stitch`, `BuildContext` |
| `Answers` | `ingestion.py`, `api/search.py`, `api/query.py`, `api/explain.py` | `CutUpload` and `StoreUpload` (`build_chunks`, `store_chunks`), `Ask`, `Search`, `Answer` |

A text is a sequence of paragraphs, a paragraph a sequence of words, each with its length and the
separator that follows it; two words with the same name have the same text. Which other words that
text begins, ends or stands in is given with the words: `Begins`, `Ends` and `Inside`. What
`chunking.py` and `context.py` decide, they decide from lengths, separators, heading markers,
equality of text and, for headings, from whether their text stands in the next chunk, at any
character of it (`Repeats`); the words are kept for that and their characters are not, but for
`Characters`, where stitching compares texts character by character. Where PostgreSQL decides
(equal scores, the approximate index) an arm is the set of results it may give, and TLC tries
each. Scores are integers that order chunks as the code's floats do: `Share` scales 1 / (60 +
rank) by a common multiple, `Rarity` is the exponential of the sum of logarithms.

`Sorting` has what the code does with `sorted()` and with comprehensions that filter: `Sorted`,
`Ascending`, `Chosen`. The community modules have operators for both, but the prover knows no
definition of theirs, and sorting is what half of this code is about; so an order is described
here, as a set of pairs, and a sorted sequence by how many come before each member.

### Keys, judge and agent

`Keys` is `auth.py` and `admin.py`: `CreateTenant`, `CreateKey` and `RevokeKey` at the command
line, `TimePasses`, and the two transactions of a request, `Authenticate` (which reads the key)
and `Refresh` (which writes `last_used_at` later). `Flush` is what SQLAlchemy writes: the
columns that changed since they were read, and no others.

`Judge` is `rerank.py`: `StartCalls` (`asyncio.gather` over the candidates), the semaphore as
`free`, `inFlight` and `waiting`, `Release`, `Reply`, and `Reranked`, the order made of the
ratings. `Agent` is the agent's endpoint and loop with either of them: `Search`, `ApiReranks` or
`ChatReranks`, `Merge` (the best row of each chunk), `Plan` (every kind of reply of a planner),
`Answer`, and `Fail`. What a search retrieves is any of a set of lists, being the subject of
`Retrieval`. Requests of one event loop interleave wherever the code awaits.

`MCDocuments`, `MCAnswerCache`, `MCAnswers` and `MCAgent` give the instances: which calls,
sessions, questions and scenarios there are.

## Runs

| Run | Instance | What it shows |
|---|---|---|
| `documents` | 3 requests, any of 11 calls each (four revisions of a record, uploads, PATCH, DELETE), no failures | `OneVersion`, `OneWriter`, `DeletedStaysDeleted`, `AnsweredWritesSurvive`, `SourceTimeNeverGoesBack` |
| `faults` | 2 requests, the same calls, all six kinds of failure | `TypeOK`, `SearchableUntilSwapped`, `ImplementsCorpus` |
| `long_texts` | 3 requests on a record whose texts all go to the worker, a failing embedder | `ReadyMeansStored` |
| `settles` | 3 requests on documents that keep their text, a failing embedder, fairness | `PendingIsOwned`, `Settles` |
| `answer_cache` | a PUT, then PATCH, PUT or DELETE beside a DELETE by external id; 2 queries with any scope | `AnswersWithinScope`, `AccessChangesInvalidate`, `DeletedIsNotServed` |
| `answers` | every page of up to three of thirteen paragraphs; a PDF uploaded twice with a cache, failures and restarts; questions of two scopes in all modes | `TextKept`, `NoChunkEndsOnAHeading`, `NoShortChunk`, `FitsUnlessJoined`; `VectorsOfTheirTexts`; `HiddenChunksDoNotMatter`, `KeywordArmFinds`, `FusedByPosition`; `NeighboursFit`, `ReadInOrder`, `WrittenOnce` |
| `agents` | keys with commands at any time; the loop with each backend; two requests that share one slot | `RevocationIsFinal`; `WithinBudget`, `BestKept`; `SlotsConserved`, `JudgedOrder`; `EveryRequestEnds` |
| `newest_version`, `unqueued`, `stale_answer`, `mixture`, `joined_chunks` | see "Where code and documents disagree" | one counterexample each |

**Bounds of the rows.** Three requests are the fewest in which a job of one of them runs beside
two further writers (text, other text, first text again: the hardest order for `Obsolete`); with
failures two requests already give a job, its redelivery and a second writer. Two long texts, a
short one and one that cannot be parsed reach every branch of the code that looks at a text;
source times 1 to 3 and none reach every branch of the staleness check; one group and no group
are two different access lists, which is all `set_access_groups` can tell apart. `MaxAttempts`
is 3 in the code; 2 in run `documents` (both rounds of the loop happen) and 1 where the retry is
not the question. `MaxTries` (arq's default is 5) is 2, so a job is repeated once, and is also
given up. Every request makes one call, so all counters are bounded by the instance; `version`
needs no bound of its own. Requests are interchangeable where they have the same calls, hence
the symmetry; runs with temporal liveness use none. Two queries are the fewest in which one is
served what the other stored.

**Bounds of the answers.** `ChunkSize` 8, `ChunkOverlap` 4 and `ChunkMinSize` 4 are the shipped
1000, 200 and 100 on the scale of words of one to six characters. The thirteen paragraphs have
what each branch looks at: texts that just fit, cuts at lines, sentences and words, a word that
fills two windows, headings alone, doubled, at the end of a paragraph and before a long text; all
combinations of three put every pair of them next to each other. Because the code compares text
and not words, two of the headings begin alike (`MCBegins`), and there are headings of one marker
and of two (`MCEnds`), so that `# API` is found inside `## API keys`. `Candidates` is 2, so an arm
is full, short or empty; the pages, questions and scopes leave words that are common, rare, stop
words or absent. `MaxContextChars` is 28, so that some neighbours fit and some do not.

**Bounds of the agent.** One slot and two candidates a search are the fewest that make a call
wait, for one of its own request and for one of the other's. `TopKPerStep` 2 cuts lists of three;
`max_steps` is 2 with requests for none, 1 and 3, and 0 in the settings once; the lists of
results have a chunk in common, with scores either way round.

**Fairness.** `FairSpec` of `Documents` asks weak fairness of `RequestStep(r)` and of
`JobStep(r)`: a handler that was called runs on (its coroutine is scheduled, locks are released
by transactions that end), and arq keeps polling its queue. Nothing is asked of `Arrive`,
`Crash`, `Redeliver` and `TimeOut`. `RequestStep` and `JobStep` include the failing branch of a
call to the embedder, so `Settles` does not assume that embedding ever succeeds. `FairSpec` of
`Agent` asks weak fairness of `Step(r)` (every await of a request ends, in a result or an
exception) and of `JudgeReplies(call)` for each call (`JUDGE_TIMEOUT_SECONDS` ends it); nothing
makes an operator act. That a waiting call gets its turn is not assumed: it follows from the
order of `waiting`.

**Deadlock** is checked wherever documents are: `Finished`, every request answered and every job
over, is the only state that system may rest in (in `AnswerCache` too, where it stutters). The
runs of `Answers` and `Agent` end when all their requests are answered, which is no deadlock, so
it is not checked there; `EveryRequestEnds` says that no request is stuck.

**Where properties are claimed with less.**

- `ReadyMeansStored` is false when short and long texts of one record mix. `PendingIsOwned` and
  `Settles` are false when a record's text changes under a running job (a ready row put back to
  processing can stay there), and when Redis fails or a process dies at the wrong moment. Runs
  `newest_version` and `unqueued` show one of each. Run `long_texts` therefore has no short
  texts, and run `settles` has one text per document and no failure but the embedder's; within
  those instances nothing breaks the properties.
- `AccessChangesInvalidate` and `DeletedIsNotServed` are checked, and proved, without failures of
  Redis and crashes: when the bump after a change of groups fails (`sync.py:130`), a retry finds
  the groups already equal and does not bump, so nothing ever makes up for it.
- `DeletedIsNotServed` counts a DELETE as done when no other DELETE of the row has its bump still
  ahead (`DeletesDone`). Of two DELETEs by external id, the second finds nothing and answers 204
  (`api/documents.py:465`), possibly before the first has counted the version up; a query asked
  in between is served the deleted text.
- `TextKept` says of every character that it is in a chunk, but not always in the word it was
  written in: of a heading dropped because its text stands in the next chunk by chance, the words
  are found in the longer words there (`Inside`). And words that begin or end others of the page
  are left out of the order (`Mistakable`), since such a heading is lost from its place.
- `KeywordArmFinds` leaves out questions with stop words; what becomes of them is described below.
- `KeywordArmFinds` asks for a chunk that matches the question and holds all its words. "Matches"
  alone would be too much, as the attempt to prove it showed: of the question "common OR absent"
  the common word goes (`retrieval.py:205`), what stays is "OR absent", and the keyword arm finds
  nothing, although every chunk with the common word matches the question as it was typed.

## What is proved

| Module | Theorem | Statement |
|---|---|---|
| `Documents_proofs` | `TypeInvariant`, `TypeCorrect` | `Spec => []TypeOK` |
| | `Fresh`, `WritersAreSerialised`, `RowsHaveOneVersion`, `TimeNeverGoesBack`, `DeletedForGood` | `OneWriter`, `OneVersion`, `SourceTimeNeverGoesBack`, `DeletedStaysDeleted` |
| `Writes_proofs` | `WritesSurvive` | `Spec => []AnsweredWritesSurvive` |
| | `ReadyRowsHoldTheirText` | `Spec /\ OneSize => []ReadyMeansStored` |
| | `PendingRowsAreOwned` | `Spec /\ Steady => []PendingIsOwned` |
| `Corpus_proofs` | `SearchableAllAlong`, `DocumentsImplementCorpus` | `SearchableUntilSwapped`, `Spec => Corpus!Spec` |
| `AnswerCache_proofs` | `AnswersKeepScope`, `AccessIsInvalidated`, `DeletedIsGoneFromAnswers` | the three properties of run `answer_cache` |
| `Answers_proofs` | `NothingIsLost` | `Spec => []TextKept` |
| | `ChunksFit`, `HeadingsStayWithTheirText`, `ShortChunksAreAlone` | `FitsUnlessJoined`, `NoChunkEndsOnAHeading`, `NoShortChunk` |
| | `VectorsAreTheirTexts` | `Spec => []VectorsOfTheirTexts` |
| | `FusionGoesByPosition`, `KeywordsAreFound`, `NothingHiddenMatters` | `FusedByPosition`, `KeywordArmFinds`, `HiddenChunksDoNotMatter` |
| | `NeighboursComeWhileTheyFit`, `ExcerptsAreReadInOrder` | `NeighboursFit`, `ReadInOrder` |
| `Agent_proofs` | `RevokedForGood`, `BudgetIsKept`, `SlotsNeverLost` | `RevocationIsFinal`, `WithinBudget`, `SlotsConserved` |
| | `AnswersKeepTheBest` | `Spec => []BestKept` |
| | `JudgeOrdersWhatItKeeps` | `Spec => []JudgedOrder`, with `NeutralRating = 1` |

`Sequences_proofs` holds what all proofs about sequences rest on, `Chunking_proofs` what is true
of the chunks of any text; they have no theorems of their own. Everything is proved in less than
half an hour, two thirds of it in `Chunking_proofs` and `Answers_proofs`.

**Types.** `TypeOK` alone is not inductive: that `Ingest` stores a text needs that its call has
one, that `Swap` stores a text needs that the job read bytes, that `QueueJob` names a hash needs
that `Refresh` saw a row. `TypeInv` adds this: `CallOK` (a request past its arrival has a call
fit for its step), `DraftOK` (between insert or lock and commit there is a draft, and nowhere
else), `SeenOK`, `AttemptOK` and `JobOK` (a job past embedding has bytes, and a draft exactly
before its commit). The proof has one lemma per action, and one lemma per row operation saying
that it maps rows to rows and what it keeps of them (`Consistent`, `SameForSearch`, `NotBefore`).

**Rows.** Lemma `Shapes` first says that whatever a step is, it does one of nine things to rows
and drafts (`Quiet`, `Touches`, `Inserts`, `Locks`, `Embeds`, `Closes`, `Swaps`, `ClosesJob`,
`Removes`); everything after it is proved about those, not about thirty actions again.

- `Fresh`: a row whose insert is not committed is nobody else's target. This is why an inserted
  row needs no lock from anyone, and it is what makes the next one inductive.
- `WritersAreSerialised`: a draft is opened on a row nobody has locked, or on a fresh one.
- `RowsHaveOneVersion`, with `VersionInv`: every draft is consistent too, but for one whose
  chunks were just deleted and are not yet written again.
- `TimeNeverGoesBack`, with `HeldInv` and `TimeInv`: an open draft is of a row that is still
  there, and not older than it. That needs `OneWriter`, since a second writer's commit would
  overtake the draft.
- `DeletedForGood`, with `DeleteInv`: a committed row that is gone has no draft left that could
  be committed over it.
- `WritesSurvive`, with `SurviveInv`: a PUT locks a row of its own record, its draft carries the
  source time of its call or a later one, and once it is committed some row does.
  `SourceTimeNeverGoesBack` is about one row; this is about the record, across the row a PUT
  inserts and those it finds.
- `ReadyRowsHoldTheirText`, with `StoredInv`: every version of a row, committed or not, is of the
  call that inserted it, holds its text if it says ready, and the bytes a job has read are those
  of the hash it was queued with. The condition `OneSize` is that all texts of one record go to
  the worker or none does, which is exactly what run `newest_version` violates; failures,
  requests and texts are arbitrary.
- `PendingRowsAreOwned`, with `OwnedInv`: whenever a committed row waits, a request has its
  enqueue still ahead or a job of its hash is still to run. `Steady` is that a record keeps its
  text (it may be sent any number of times) and that only the embedder fails: without the first
  there is run `newest_version`, without the second run `unqueued`.

**Refinement.** `CorpusInv` adds to the above that a row which has a text keeps one (`TextInv`)
and that a request only inserts the row named after it (`OwnRowInv`). Each shape is then one
step of `Corpus` or none: `Closes` is `Add`, `Replace` or `Regroup`, `ClosesJob` is `Replace` or
nothing a search could see, `Removes` is `Remove`, and a request that ends without its row is
`Discard`.

**Answer cache.** `WritersAsBefore` shows `CacheSpec => Spec`, so everything proved of the rows
holds beside queries too. `WithinInv` says of answers and of entries that they show nothing
outside their scope. The other two rest on who owes a count: `OwedInv` says that a committed
change of groups, or a committed DELETE, still has its request at the bump until the version has
moved on; `AccountInv` that what an entry or an answer under way shows is still there and in
scope, or its version is no longer the current one, or a count is owed; `DoneInv` that the rows
of DELETEs done before a query was asked are gone from anything of its version. Both theorems
have the assumption `CountsAreKept`, that failures of Redis and crashes are not among `Faults`:
with one of them the properties are false, as said above.

**Sequences.** The chunker, the arms, the fusion and the excerpts are folds over sequences. The
prover has no induction over them, as the library's theorems for it take an operator as a
parameter; but its least-element principle for well-founded relations takes a set, and from
it `Sequences_proofs` has `InductionUpTo` (a set that has 0, and k + 1 with every k below n, has
0..n). With that, `StepsOfFolding` says of any `FoldLeft` that there is a function of its
intermediate values, each made from the one before (every fold of the model has a lemma of its
own, named `...Steps`, that instantiates it); `Flattened`, `FlattenedPlaces` and `PlaceInPart`
say what stands where in `FlattenSeq`; `SumsGrow`, `SumsAgree` and `SumsContinue` are about
lengths; `SortedIsInOrder` and `ChosenIsInOrder` say what `Sorting` defines.

**From a text to an answer.** `AnswersInv` is what a state knows of its past: the chunks stored
are chunks their documents were cut into, under one place each (`StoredInv`); what is embedded
is what will be stored (`UploadInv`); the vectors so far are those of the texts so far, and cached
ones are of the model in their key (`EmbeddingInv`); and what was found and answered is what the
arms may give of the chunks stored *now* (`FoundInv`), which holds because nothing is uploaded
any more once questions are asked. The properties then follow from what the operators compute.

- Chunks: `PiecesAre`, `PackIs` and `PackedChunksAre` (every chunk of `Pack` fits, and has no
  blank line), `CarriedAre` (no chunk but the last ends on a heading; nothing is added to one
  without a blank line), `JoinedIsKept`, `MergeForwardIs` and `MergeSmallIs` (joining keeps the
  one and leaves at most the first chunk short, which the second pass then joins),
  `ChunkTextIs`, and `OfOnePage`, which relates the chunks of the table to those of a page.
- The text in the chunks (`NothingIsLost`): two things are followed from paragraphs to chunks,
  which characters of which words there are, in the word itself or in one that holds it (`Parts`,
  `Covered`, `Longer`, `Carries`), and what is said for the first time where (`Introduced`,
  `InTurn`: before a word stands for the first time, everything that is to come before it has
  stood). Pieces retell their paragraph (`Retells`, `PiecesTold`), and the windows of a long word
  together have all its characters. An overlap only repeats what was said in the same order
  (`TailTells`, `PackTells`). Moving headings is what is delicate (`MovedTells`, `CarriedTell`): a
  heading leaves its chunk only if the next one has it, be it put there or because its words, or
  longer ones that end or begin with them, stand there already (`RepeatsTells`), and what is said
  after it comes later still. The order is followed for the words that cannot be taken for others
  (`Unmistaken`). Joining changes no word (`MergeSmallTells`). `ChunkTextTells` puts these
  together for a page, `PagesLaidOut` says which chunks of a document are those of a page, and
  `Whole`, an invariant beside `AnswersInv`, that a document with one chunk in the table has all
  of them there.
- Search: `BestOfIs` and `ArmsAre` (an arm gives each chunk once and no more than `Candidates`),
  `UnityIsWhole` and `SharesFall` (`Share` is a whole number and falls with the rank, so the
  scaled scores compare as the code's fractions do), `AheadScoresHigher`, `FusionIs`. For the
  keyword arm `StillMatches`: a chunk that matches a question and holds its words still does when
  the common ones are gone.
- Neighbours: `CharsIs` and `AddOne`, an induction over the places tried, that each is shown or
  did not fit, which stays true while more is added.
- Excerpts: `ReadingOrderIs` (the order is one, keeps documents together and starts with the
  best), `RunsAre` (the runs are the order, cut where a chunk does not follow the one before),
  `RunIsAStretch`, and for the text `OverlapIs`, `StitchOnIs` and `StitchHolds`: whatever the next
  chunk shares with the text so far, it stands in the text afterwards, whole.

**Agent.** `RevokedForGood` needs no more than types, and that `Flush` writes one column.
`BudgetInv` ties the number of searches to where a request stands (`Fits`). `JudgeInv` says that
calls in flight and calls waiting are different calls, that each of them is a place of its
request that has no reply yet, and that nothing waits while a slot is free. The reply's place is
needed because requests rerank more than once: it is why no call is started that still runs.
`RankInv` adds what a request has kept: `best` has one row for each chunk of all the searches so
far, with the best of its scores (`KeptOf`), and the last search of a request the judge has
answered is the top of `Reranked` (`Judged`). `JudgeOrdersWhatItKeeps` is proved for the code's
neutral rating of 1 (`rerank.py:96`): with another one, a chunk that got no rating would move.

**Assumptions.** The proofs about rows assume `ConstantsAssumption`, `NoneIsNoRow` and
`NoneIsNoCall`: `None` is no value of the other sets, the calls are well formed for their kinds (a
record's text can always be decoded, an upload has a text and a name), and the bounds are
positive. `Faults` is arbitrary, so these theorems hold with every failure in the model, unless
they name a condition. Those about answers assume `ChunkSettings` (the rules `chunk_text` itself
insists on), `RetrievalSettings`, `ContextSettings`, `NoneIsNoRank` and `SessionsAssumption`:
uploads are pages of paragraphs of words, only a PDF has several pages, questions ask for at least
one row. `NothingIsLost` also assumes `WordsAreTexts`, by which a word is the same text wherever
it stands, and so as long: that is what makes a unit with the same word the same characters, and
`WordsInWords`, by which what begins or ends a word stands in it, and what stands in a word stands
in all that hold that word. Those about the agent assume `NoneAssumption`, `JudgeSettings`,
`TopKAssumption` and `ScenarioAssumption`: at least one slot and one candidate, scenarios of the
right types, and that what a search retrieves has no chunk twice, which `FusedInOrder` says of
`Retrieval`. TLC evaluates all of them in the runs.

**Only model-checked:**

- `WrittenOnce`. An overlap shorter than `MIN_OVERLAP` is left to stand twice, and the separators
  around it may be the same both times: an overlap of one character less is then `MIN_OVERLAP`
  characters that stand twice. So the property is false for some settings and texts, and what
  `MIN_OVERLAP` has to be depends on the texts; the run has overlaps of exactly its length.
- `Settles` and `EveryRequestEnds`, which are liveness under fairness, out of the prover's reach.

## Where code and documents disagree

- **`newest_version`.** `worker.py:47` promises that a job whose text was replaced does nothing,
  and that only the newest version is ever stored. `worker.py:64-71` reads the row without a
  lock and then writes `processing`, whatever the row has become. In the counterexample a first
  long text is queued and its job has read the row; a second long text and then a short one are
  committed, and the row is ready; the job puts it back to processing. The request of the second
  text now refreshes the row (`sync.py:131`, after its commit and without the lock), queues its
  job with the short text's hash, and that job stores the long bytes still in `raw_content`
  (`sync.py:200` does not clear them) under the hash of the short text.
- **`unqueued`.** `sync.py:140` explains why a row must not be left pending when the queue is
  down. `sync.py:130` talks to the same Redis before `_enqueue`'s handler: if that raises, the
  row is left pending.
- **`stale_answer`.** `ingestion.py:118` explains why the version must be counted up after the
  commit. New text (`ingestion.py:105`) and new titles (`sync.py:197`, `222`) count it up
  before, and a query in between caches the old text under the new version.
- **`mixture`.** `sync.py:182` and `ingestion.py:95` promise that a search sees the old version
  or the new one. The two arms and the neighbours (`retrieval.py:404`, `407`, `487`) are three
  statements with three snapshots.
- **`joined_chunks`.** `chunking.py:193-194` and `config.py:98-100` promise that a merged chunk is
  longer than `chunk_size` by less than `min_size`. A short chunk before a heading is joined to
  the chunk above it however long that has become (`chunking.py:201`), so short sections in a row
  all end up in one chunk: with the shipped settings, 200 sections of a heading and one short
  line become a single chunk of 5,100 characters.

Met while modelling, without a run:

- a redelivered job of an upload that was already processed finds no bytes and marks the ready
  row failed (`worker.py:74-75`);
- `error` is not cleared by a success (`worker.py:83`, against `db/models.py:122`);
- an upload whose enqueue fails stays pending, and sending it again answers 200
  (`api/documents.py:205`);
- a second DELETE by external id answers before the deleted text is out of the answer cache
  (`api/documents.py:465`);
- a heading is dropped when its text happens to stand near the start of the next chunk, where it
  is looked for as a substring (`chunking.py:166-167`): `# API` is found at the second character
  of `## API keys` and lost as a heading, although `chunking.py:156-157` speaks only of one "the
  next chunk already starts with because the overlap repeated it";
- a query of a stop word and common words loses the common ones, and the keyword arm searches
  for a stop word, which finds nothing (`retrieval.py:205-206`);
- a query of a common word OR one that is nowhere loses the common one, and finds nothing either
  (`retrieval.py:205-206`);
- a hybrid search gives up to twice `candidates` rows where its docstring says "up to"
  (`retrieval.py:356`);
- the chat reranker "never makes a request fail" (`rerank.py:134`), but a completion without
  choices raises outside the `try` (`rerank.py:196`), and the request fails with it.

## Not modelled

Sizes and types refused before any state is touched; the GET endpoints and the list of tenants;
other tenants, but for their keys; hashes of keys and of settings; prompts, labels and the wording
of answers, `FINDINGS_LIMIT` with them; in a query, quoted phrases, and excluded words beside an
"or" or with nothing to find (`websearch_to_tsquery` takes `-c` to be part of its own alternative;
`Queries` says which questions are asked); runs of whitespace other than single separators;
cancellation of a request by its client, but for what a crash or an exception does; expiry of
cached answers (it only removes entries). Health check, configuration, tracing, PDF parsing, chat
providers, MCP server, playground, migrations and evaluation scripts hold no state the properties
are about.

## Plan

The models planned in the first version (abstract corpus, agent, judge, retrieval, context,
chunking, keys) are there, and so are the proofs of all safety properties but one. What is left:

1. Cancellation: a client that disconnects while its judge calls wait or run (`rerank.py:109`),
   with the slot it may hold.
2. `AnswerCache` with the limits of the arms and the chunks of `Chunking`, so that a replaced
   document can change what its neighbours show.
3. A second tenant beside the first in `Documents`, to state isolation as a property and not as
   an abstraction.
