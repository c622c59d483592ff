------------------------------- MODULE Corpus -------------------------------
(***************************************************************************)
(* What the service promises about a tenant's documents, with no request,  *)
(* job, lock or transaction in sight: a document appears once, is replaced *)
(* and regrouped as a whole, never goes back in source time, never loses   *)
(* its text to a failure, and is gone for good when it is deleted.         *)
(***************************************************************************)
EXTENDS Naturals

CONSTANTS
    Rows,      \* ids a document can get, each at most once
    Texts,     \* contents a document can have
    Groups,    \* names of access groups
    None       \* no text yet, no source time

VARIABLE
    shown      \* shown[u]: what a search finds of document u, under which groups, as of when

\* The chunks of one text, under one list of groups: what a search may find of a document.
Found(text, groups) == IF text = None THEN {} ELSE {[text |-> text, groups |-> groups]}

Blank(stage) == [stage |-> stage, found |-> {}, groups |-> {}, time |-> None]
New == Blank("new")
Gone == Blank("gone")

Holds(v, text) == /\ v.stage = "live"
                  /\ v.groups \in SUBSET Groups
                  /\ v.time \in Nat \cup {None}
                  /\ v.found = Found(text, v.groups)
IsVersion(v) == \E text \in Texts \cup {None} : Holds(v, text)

NotBefore(v, w) == w.time # None => v.time # None /\ v.time >= w.time

Only(u) == shown' = [shown EXCEPT ![u] = shown'[u]]

-----------------------------------------------------------------------------
Init == shown = [u \in Rows |-> New]

\* The document is there, with its text or still waiting for it.
Add(u) == shown[u] = New /\ IsVersion(shown'[u]) /\ Only(u)

\* Text, groups and source time change in one step; there is a text from now on.
Replace(u) ==
    /\ IsVersion(shown[u])
    /\ \E text \in Texts : Holds(shown'[u], text)
    /\ NotBefore(shown'[u], shown[u])
    /\ Only(u)

\* Groups or source time change, of the document and of all its chunks.
Regroup(u) ==
    /\ \E text \in Texts \cup {None} : Holds(shown[u], text) /\ Holds(shown'[u], text)
    /\ NotBefore(shown'[u], shown[u])
    /\ Only(u)

Remove(u) == IsVersion(shown[u]) /\ shown'[u] = Gone /\ Only(u)

\* An id that no document will get: its request failed, or found another document.
Discard(u) == shown[u] = New /\ shown'[u] = Gone /\ Only(u)

Next ==
    \E u \in Rows : /\ shown'[u] # shown[u]
                    /\ Add(u) \/ Replace(u) \/ Regroup(u) \/ Remove(u) \/ Discard(u)

Spec == Init /\ [][Next]_shown
=============================================================================
