----------------------------- MODULE MCDocuments -----------------------------
(***************************************************************************)
(* Calls for TLC: small clients of the documents API. One record "a" is    *)
(* kept in sync; "long" texts go to the worker, "short" ones do not, and   *)
(* "broken" is a file that cannot be parsed.                               *)
(***************************************************************************)
EXTENDS Documents, TLC

MCSymmetry == Permutations(Req)

Put(title, text, time, groups) ==
    [kind |-> "put", external_id |-> "a", title |-> title, text |-> text,
     source_updated_at |-> time, access_groups |-> groups]
Other(kind, id, title, text, groups) ==
    [kind |-> kind, external_id |-> id, title |-> title, text |-> text,
     source_updated_at |-> None, access_groups |-> groups]
Upload(text, groups) == Other("upload", None, "file", text, groups)
Patch(groups) == Other("patch", None, None, None, groups)
Delete == Other("delete", None, None, None, None)
DeleteExternal == Other("delete_external", "a", None, None, None)

\* Three states a client's record goes through, the second again without a time.
Revisions == {Put("first", "long", 1, None), Put("second", "short", 2, {"staff"}),
              Put("second", "longer", 3, None), Put("second", "short", None, {})}
Others == {Upload("long", None), Upload("short", {"staff"}), Upload("broken", None),
           Patch({"staff"}), Patch({}), Delete, DeleteExternal}

\* Any three calls at once, or any two with every failure.
AllCalls == [r \in Req |-> Revisions \cup Others]

\* A record whose texts all go to the worker.
LongCalls == [r \in Req |-> {Put("first", "long", 1, None), Put("second", "longer", 2, {"staff"}),
                             Put("second", "long", None, None), Delete}]

\* Every document has one text only, which is sent, sent again, regrouped and deleted: each
\* request has its own share of those calls.
CONSTANTS r1, r2, r3
SteadyCalls == [r \in Req |->
    CASE r = r1 -> {Put("first", "long", 1, None), Upload("long", None), Upload("broken", None)}
      [] r = r2 -> {Put("second", "long", 2, {"staff"}), Patch({"staff"}), Delete}
      [] r = r3 -> {Put("second", "long", None, None), Upload("long", None), DeleteExternal}]

\* A short text that a long one replaces, with the groups changed by the same call.
RegroupingCalls == [r \in Req |-> {Put("first", "short", 1, None),
                                   Put("first", "long", 2, {"staff"})}]
==============================================================================
