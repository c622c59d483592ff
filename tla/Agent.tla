------------------------------- MODULE Agent -------------------------------
(***************************************************************************)
(* POST /agent (api/agent.py, agent/loop.py, agent/planner.py): search,    *)
(* ask the planner, maybe search again, answer; and the reranker of each   *)
(* search. The requests of one event loop interleave wherever one of them  *)
(* awaits something. What a search retrieves is taken from a set, being    *)
(* the subject of Retrieval; a chunk is a name, a row a chunk and a score. *)
(***************************************************************************)
EXTENDS Keys, Judge

CONSTANTS
    Scenarios,  \* what comes from outside: [asked, keys, admin, lists: what searches may
                \* retrieve], and the settings backend ("off", "api", "chat") and max_steps
    Chunks,
    TopKPerStep,
    Replies,    \* what the planner may reply: [object, action, query], object FALSE for what is
                \* no JSON object, query None for one that is missing, no string or blank
    Malformed   \* a completion without choices

ASSUME TopKAssumption == TopKPerStep \in Nat \ {0}

\* What is retrieved has no chunk twice: the arms are fused by chunk (see FusedByPosition).
ASSUME ScenarioAssumption ==
    \A s \in Scenarios :
        /\ s.keys \in [KeyIds -> Rows]
        /\ \A r \in Requests : /\ s.asked[r].key \in KeyIds
                              /\ s.asked[r].max_steps \in (Nat \ {0}) \cup {None}
        /\ s.lists \subseteq Seq([chunk : Chunks, score : Nat])
        /\ \A rows \in s.lists : \A i, j \in 1..Len(rows) : rows[i].chunk = rows[j].chunk => i = j
        /\ s.backend \in {"off", "api", "chat"}
        /\ s.max_steps \in Int

VARIABLES
    query,      \* what a request searches for next
    searches,   \* the searches so far: [query, rows]
    best,       \* the best row of each chunk, in the order the chunks were first found in
    answered    \* what the answer is made from: [rows, steps]

agentVars == <<scenario, keysVars, judgeVars, query, searches, best, answered>>

Question == "the question"

Init ==
    /\ scenario \in Scenarios
    /\ KeysInit
    /\ free = MaxParallelJudgements /\ inFlight = {} /\ waiting = <<>>
    /\ candidates = [r \in Requests |-> <<>>]
    /\ answers = [r \in Requests |-> <<>>]
    /\ query = [r \in Requests |-> Question]
    /\ searches = [r \in Requests |-> <<>>]
    /\ best = [r \in Requests |-> <<>>]
    /\ answered = [r \in Requests |-> None]

\* "A request may ask for fewer steps, never more."
MaxSteps(r) ==
    LET asked == scenario.asked[r].max_steps
    IN IF asked = None THEN scenario.max_steps ELSE Min({asked, scenario.max_steps})

-----------------------------------------------------------------------------
(* The loop. *)

\* Mutant of Keep: the first row of a chunk is kept.
KeepFirst(rows, row) ==
    IF \E i \in DOMAIN rows : rows[i].chunk = row.chunk THEN rows ELSE Append(rows, row)

\* A better row takes the place of the one there is.
Keep(rows, row) ==
    IF \E i \in DOMAIN rows : rows[i].chunk = row.chunk
       THEN [i \in DOMAIN rows |->
                IF rows[i].chunk = row.chunk /\ row.score > rows[i].score THEN row ELSE rows[i]]
       ELSE Append(rows, row)

ByScore(rows) ==
    LET before == {p \in (1..Len(rows)) \X (1..Len(rows)) :
                      \/ rows[p[1]].score > rows[p[2]].score
                      \/ rows[p[1]].score = rows[p[2]].score /\ p[1] < p[2]}
        order == Sorted(1..Len(rows), before)
    IN [k \in 1..Len(rows) |-> rows[order[k]]]

\* Mutant of Spent: one search more.
SpentAfterOneMore(steps, max) == steps > max

Spent(steps, max) == steps >= max

\* search(query) returns: its rows are merged, and the planner is asked or not.
Merge(r, reranked) ==
    LET rows == SubSeq(reranked, 1, Min({TopKPerStep, Len(reranked)}))
    IN /\ searches' = [searches EXCEPT ![r] = Append(@, [query |-> query[r], rows |-> rows])]
       /\ best' = [best EXCEPT ![r] = FoldLeft(Keep, @, rows)]
       /\ pc' = [pc EXCEPT ![r] = IF Spent(Len(searches'[r]), MaxSteps(r)) THEN "answer" ELSE "plan"]

\* The query is embedded and the chunks retrieved: get_reranker says what comes next.
Search(r) ==
    /\ pc[r] = "search"
    /\ \E rows \in scenario.lists :
          \/ /\ scenario.backend = "off" \/ rows = <<>>
             /\ Merge(r, rows)
             /\ UNCHANGED judgeVars
          \/ /\ scenario.backend = "api" /\ rows # <<>>
             /\ pc' = [pc EXCEPT ![r] = "rerank"]
             /\ candidates' = [candidates EXCEPT ![r] = rows]
             /\ UNCHANGED <<free, inFlight, waiting, answers, searches, best>>
          \/ /\ scenario.backend = "chat" /\ rows # <<>>
             /\ pc' = [pc EXCEPT ![r] = "rerank"]
             /\ StartCalls(r, rows)
             /\ UNCHANGED <<searches, best>>
    /\ UNCHANGED <<scenario, keys, loaded, query, answered>>

\* The rerank provider returns at most top_k of the documents, with scores of its own.
ApiReranks(r) ==
    /\ pc[r] = "rerank" /\ scenario.backend = "api"
    /\ \E rows \in {s \in UNION {SetToSeqs(some) : some \in SUBSET DOMAIN candidates[r]} :
                       Len(s) <= TopKPerStep} :
          Merge(r, [k \in DOMAIN rows |-> [chunk |-> candidates[r][rows[k]].chunk,
                                           score |-> (1 + Len(rows) - k) * Third]])
    /\ UNCHANGED <<scenario, keys, loaded, judgeVars, query, answered>>

\* A judge's call ends. A completion without choices is not caught: the request fails, and its
\* other calls go on without it.
JudgeReplies(call) ==
    /\ \E reply \in 0..2 \cup {Unrated, Malformed} :
          /\ Reply(call, reply)
          /\ pc' = IF reply = Malformed /\ pc[call[1]] = "rerank"
                      THEN [pc EXCEPT ![call[1]] = "failed"] ELSE pc
    /\ UNCHANGED <<scenario, keys, loaded, query, searches, best, answered>>

ChatReranks(r) ==
    /\ pc[r] = "rerank" /\ scenario.backend = "chat" /\ AllAnswered(r)
    /\ Merge(r, Reranked(candidates[r], answers[r]))
    /\ UNCHANGED <<scenario, keys, loaded, judgeVars, query, answered>>

\* parse_decision: what is not a query to search for means to answer now.
SearchesFor(reply) ==
    IF reply.object /\ reply.action = "search" THEN reply.query ELSE None

Plan(r) ==
    /\ pc[r] = "plan"
    /\ \E reply \in Replies :
          LET new == SearchesFor(reply)
          IN /\ pc' = [pc EXCEPT ![r] = IF new = None THEN "answer" ELSE "search"]
             /\ query' = IF new = None THEN query ELSE [query EXCEPT ![r] = new]
    /\ UNCHANGED <<scenario, keys, loaded, judgeVars, searches, best, answered>>

Answer(r) ==
    /\ pc[r] = "answer"
    /\ answered' = [answered EXCEPT ![r] = [rows |-> ByScore(best[r]), steps |-> Len(searches[r])]]
    /\ pc' = [pc EXCEPT ![r] = "done"]
    /\ UNCHANGED <<scenario, keys, loaded, judgeVars, query, searches, best>>

\* A provider or the database raises, and with it the request.
Fail(r) ==
    /\ \/ pc[r] \in {"sent", "refresh", "search", "plan", "answer"}
       \/ pc[r] = "rerank" /\ scenario.backend = "api"
    /\ pc' = [pc EXCEPT ![r] = "failed"]
    /\ UNCHANGED <<scenario, keys, loaded, judgeVars, query, searches, best, answered>>

-----------------------------------------------------------------------------

LoopUnchanged == UNCHANGED <<scenario, judgeVars, query, searches, best, answered>>

KeyStep(r) == (Authenticate(r) \/ Refresh(r)) /\ LoopUnchanged
Command == (CreateTenant \/ CreateKey \/ RevokeKey \/ TimePasses) /\ LoopUnchanged

\* A request's own steps: each follows what it awaited, and every await of a request ends, in a
\* result or an exception.
Step(r) == KeyStep(r) \/ Search(r) \/ ApiReranks(r) \/ ChatReranks(r) \/ Plan(r) \/ Answer(r) \/ Fail(r)

Calls == Requests \X (1..RerankCandidates)

Next == \/ \E r \in Requests : Step(r)
        \/ \E call \in Calls : JudgeReplies(call)
        \/ Command

\* The event loop runs every task that can go on, and a judge's call ends in time
\* (JUDGE_TIMEOUT_SECONDS). Nothing makes an operator act.
Fairness == /\ \A r \in Requests : WF_agentVars(Step(r))
            /\ \A call \in Calls : WF_agentVars(JudgeReplies(call))

Spec == Init /\ [][Next]_agentVars
FairSpec == Spec /\ Fairness

-----------------------------------------------------------------------------

\* "max_steps is a hard ceiling ...: the planner is not even asked once the budget is spent. At
\* least one search always runs" (loop.py:46): whatever the planner replies, and whatever a
\* request asks for.
WithinBudget ==
    \A r \in Requests :
        /\ Len(searches[r]) <= Max({1, scenario.max_steps})
        /\ pc[r] = "plan" => Len(searches[r]) < MaxSteps(r)
        /\ pc[r] = "answer" => Len(searches[r]) >= 1

AllRows(r) == UNION {Range(searches[r][i].rows) : i \in DOMAIN searches[r]}

\* "Chunks found more than once are kept once, with their best score", "best score first"
\* (loop.py:52, 36): an answer has one row for each chunk that some search of the run found,
\* with the best score any of them gave it.
BestKept ==
    \A r \in Requests : answered[r] # None =>
        LET rows == answered[r].rows
        IN /\ Range(rows) = {row \in AllRows(r) : \A other \in AllRows(r) :
                                other.chunk = row.chunk => other.score <= row.score}
           /\ Len(rows) = Cardinality({row.chunk : row \in AllRows(r)})
           /\ \A i \in 2..Len(rows) : rows[i].score <= rows[i - 1].score

\* A call that fails "counts as neutral for that chunk only; when no chunk could be rated the fused
\* order is returned untouched", and chunks after the rated ones "keep their order and come last"
\* (rerank.py:117-131): what a search kept is in the order of the ratings that came, and the others
\* are neither pushed up nor down.
JudgedOrder ==
    \A r \in Requests :
        pc[r] \in {"plan", "answer"} /\ scenario.backend = "chat" /\ candidates[r] # <<>> =>
            LET rows == Last(searches[r]).rows
                at(i) == CHOOSE j \in DOMAIN candidates[r] : candidates[r][j].chunk = rows[i].chunk
                worth(j) == IF j > Len(answers[r]) THEN -1
                            ELSE IF answers[r][j] = Unrated THEN 1 ELSE answers[r][j]
            IN IF Range(answers[r]) = {Unrated}
                  THEN IsPrefix(rows, candidates[r])
                  ELSE \A i \in 2..Len(rows) :
                          /\ rows[i].score <= rows[i - 1].score
                          /\ \/ worth(at(i)) < worth(at(i - 1))
                             \/ worth(at(i)) = worth(at(i - 1)) /\ at(i - 1) < at(i)

Ended == {"done", "refused", "failed"}

\* Every request ends, whatever the calls of the others do: a slow or failed judge delays it "by a
\* bounded time" (rerank.py:90).
EveryRequestEnds == \A r \in Requests : <>(pc[r] \in Ended)
=============================================================================
