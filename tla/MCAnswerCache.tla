---------------------------- MODULE MCAnswerCache ----------------------------
(***************************************************************************)
(* Calls for TLC: a record is created, and two more calls replace, regroup *)
(* or delete it while queries run.                                         *)
(***************************************************************************)
EXTENDS AnswerCache, TLC

MCSymmetry == Permutations(Query)

CONSTANTS r1, r2, r3

Put(title, text, groups) ==
    [kind |-> "put", external_id |-> "a", title |-> title, text |-> text,
     source_updated_at |-> None, access_groups |-> groups]
Other(kind, id, groups) ==
    [kind |-> kind, external_id |-> id, title |-> None, text |-> None,
     source_updated_at |-> None, access_groups |-> groups]

CacheCalls == [r \in Req |->
    CASE r = r1 -> {Put("first", "short", {"staff"})}
      [] r = r2 -> {Other("patch", None, {}), Put("first", "short", {}),
                    Other("delete", None, None), Other("delete_external", "a", None)}
      [] r = r3 -> {Other("delete_external", "a", None)}]

\* The record is created and then changed once.
ReplaceCalls == [r \in Req |->
    IF r = r1 THEN {Put("first", "short", {"staff"})} ELSE {Put("second", "shorter", None)}]
==============================================================================
