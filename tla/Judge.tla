------------------------------- MODULE Judge -------------------------------
(***************************************************************************)
(* Reranking by a chat model (rerank.py): one call per candidate, with a   *)
(* number of calls in flight that all requests of an event loop share. A   *)
(* candidate is a row [chunk, score], best first.                          *)
(***************************************************************************)
EXTENDS SequencesExt, Sorting

CONSTANTS
    MaxParallelJudgements,
    RerankCandidates,   \* Settings.rerank_candidates
    NeutralRating,
    Unrated,            \* no rating: the call failed, timed out or had no usable reply
    Pending,            \* not answered yet
    Third               \* the score of a rating of 0, in the units of all scores

ASSUME JudgeSettings ==
    /\ MaxParallelJudgements \in Nat \ {0}
    /\ RerankCandidates \in Nat \ {0}
    /\ NeutralRating \in 0..2
    /\ Unrated \notin 0..2 /\ Pending \notin 0..2 /\ Pending # Unrated
    /\ Third \in Nat \ {0}

VARIABLES
    free,       \* the value of the semaphore
    inFlight,   \* calls that hold a slot: <<request, position of the candidate>>
    waiting,    \* calls that wait for one, in the order they asked
    candidates, \* what a request reranks
    answers     \* its ratings so far, by position: Pending, Unrated or a rating

judgeVars == <<free, inFlight, waiting, candidates, answers>>

Rated(rows) == SubSeq(rows, 1, Min({RerankCandidates, Len(rows)}))

\* asyncio.gather: the calls ask for slots one after the other, and wait behind those that do.
StartCalls(r, rows) ==
    LET n == Len(Rated(rows))
        now == IF waiting = <<>> THEN Min({free, n}) ELSE 0
    IN /\ free' = free - now
       /\ inFlight' = inFlight \cup {<<r, i>> : i \in 1..now}
       /\ waiting' = waiting \o [k \in 1..(n - now) |-> <<r, now + k>>]
       /\ candidates' = [candidates EXCEPT ![r] = rows]
       /\ answers' = [answers EXCEPT ![r] = [i \in 1..n |-> Pending]]

\* Mutant of Release: the slot is not given back.
Leak(call) ==
    /\ inFlight' = inFlight \ {call}
    /\ UNCHANGED <<free, waiting>>

\* The end of "async with _judge_slots()": the slot goes to the call that waits longest.
Release(call) ==
    IF waiting = <<>>
       THEN /\ free' = free + 1
            /\ inFlight' = inFlight \ {call}
            /\ UNCHANGED waiting
       ELSE /\ inFlight' = (inFlight \ {call}) \cup {Head(waiting)}
            /\ waiting' = Tail(waiting)
            /\ UNCHANGED free

\* A call ends, in time or not, with a rating or without.
Reply(call, reply) ==
    /\ call \in inFlight
    /\ Release(call)
    /\ answers' = [answers EXCEPT ![call[1]][call[2]] = reply]
    /\ UNCHANGED candidates

AllAnswered(r) == Pending \notin Range(answers[r])

\* Mutant of Rating: a call that failed counts as "no".
RatingOrNo(reply) == IF reply = Unrated THEN 0 ELSE reply

Rating(reply) == IF reply = Unrated THEN NeutralRating ELSE reply

\* What a request's candidates become once all calls are answered.
Reranked(rows, replies) ==
    LET n == Len(replies)
        before == {p \in (1..n) \X (1..n) :
                      \/ Rating(replies[p[1]]) > Rating(replies[p[2]])
                      \/ Rating(replies[p[1]]) = Rating(replies[p[2]]) /\ p[1] < p[2]}
        order == Sorted(1..n, before)
        bestFirst == [k \in 1..n |-> [chunk |-> rows[order[k]].chunk,
                                      score |-> (Rating(replies[order[k]]) + 1) * Third]]
        rest == [k \in 1..(Len(rows) - n) |-> [chunk |-> rows[n + k].chunk, score |-> 0]]
    IN IF n > 0 /\ Range(replies) = {Unrated} THEN rows ELSE bestFirst \o rest

-----------------------------------------------------------------------------

\* "Judge calls in flight at once, across every request of the process" (rerank.py:87) are at
\* most MaxParallelJudgements, and no slot is lost: calls that failed, and calls of a request
\* that failed meanwhile, give theirs back, and nothing waits while a slot is free.
SlotsConserved ==
    /\ free \in Nat
    /\ free + Cardinality(inFlight) = MaxParallelJudgements
    /\ waiting # <<>> => free = 0
=============================================================================
