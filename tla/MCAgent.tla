------------------------------ MODULE MCAgent ------------------------------
(***************************************************************************)
(* Scenarios for TLC: keys and commands with no search; the loop of one    *)
(* request with each backend; two requests that share the judge's slots.   *)
(***************************************************************************)
EXTENDS Agent

CONSTANTS r1, r2, k1, k2

Row(chunk, score) == [chunk |-> chunk, score |-> score]
AB == <<Row("a", 3), Row("b", 2)>>
BC == <<Row("b", 3), Row("c", 3)>>
CAB == <<Row("c", 3), Row("a", 2), Row("b", 1)>>

Asks(key, kind, groups, max_steps) ==
    [key |-> key, kind |-> kind, groups |-> groups, max_steps |-> max_steps]

NoKeys == [k \in KeyIds |-> NoKey]
OneKey == [NoKeys EXCEPT ![k1] = Key("t1", TRUE)]

Scenario(asked, rows, admin, lists, backend, max_steps) ==
    [asked |-> asked, keys |-> rows, admin |-> admin, lists |-> lists, backend |-> backend,
     max_steps |-> max_steps]

KeyScenarios ==
    {Scenario((r1 :> Asks(k1, "documents", None, None)) @@ (r2 :> Asks(key, "agent", groups, None)),
              NoKeys, TRUE, {<<>>}, "off", 1) : key \in {k1, k2}, groups \in {None, {}, {"staff"}}}

\* The second request has no valid key.
LoopScenarios ==
    {Scenario((r1 :> Asks(k1, "agent", {"staff"}, max_steps)) @@ (r2 :> Asks(k2, "documents", None, None)),
              OneKey, FALSE, {<<>>, AB, BC}, backend, 2) :
        max_steps \in {None, 1, 3}, backend \in {"off", "api", "chat"}}

\* Settings.agent_max_steps is 0 here: one search runs all the same.
ShareScenarios ==
    {Scenario([r \in {r1, r2} |-> Asks(k1, "agent", {"staff"}, None)],
              OneKey, FALSE, {AB, CAB}, "chat", 0)}

MCScenarios == KeyScenarios \cup LoopScenarios \cup ShareScenarios

Text(object, action, words) == [object |-> object, action |-> action, query |-> words]
MCReplies == {Text(TRUE, "search", "more"), Text(TRUE, "search", None),
              Text(TRUE, "answer", "more"), Text(TRUE, None, "more"), Text(FALSE, None, None)}
=============================================================================
