---------------------------- MODULE Corpus_proofs ----------------------------
(***************************************************************************)
(* The requests and the jobs implement Corpus: every step of the system is *)
(* one step of one document, as a search sees it, or none at all.          *)
(***************************************************************************)
EXTENDS Documents_proofs

\* A text is not lost, and another one comes with the status that says so.
KeepsText(new, old) ==
    old.content # None => /\ new.content # None
                          /\ new.content # old.content => new.status = "ready"

\* An open transaction will not take its row's text away.
TextInv ==
    \A q \in Req :
        doc[target[q]] # None => /\ draft[q] # None => KeepsText(draft[q], doc[target[q]])
                                 /\ jdraft[q] # None => KeepsText(jdraft[q], doc[target[q]])

\* Only a PUT or an upload is on the way to a row of its own.
OwnRowInv ==
    \A q \in Req : pc[q] \in Open /\ target[q] = q => call[q].kind \in {"put", "upload"}

USE NoneIsNoRow DEF TypeInv, Answers, Open, BeforeRow

-----------------------------------------------------------------------------
(* The text of a row. *)

LEMMA TextStep ==
    ASSUME LockInv, TextInv, NEW r \in Req, Keeps(r), ShapeOf(r)
    PROVE  TextInv'
<1>. USE DEF LockInv
<1>. SUFFICES ASSUME NEW q \in Req, doc'[target'[q]] # None, Holds(q)'
              PROVE  /\ draft'[q] # None => KeepsText(draft'[q], doc'[target'[q]])
                     /\ jdraft'[q] # None => KeepsText(jdraft'[q], doc'[target'[q]])
  BY DEF TextInv, Holds
<1>1. CASE Holds(q)
  <2>1. target'[q] = target[q] /\ doc'[target[q]] = doc[target[q]]
    <3>. HIDE DEF TypeInv
    <3>. QED BY <1>1, HeldRow
  <2>2. CASE draft'[q] = draft[q] /\ jdraft'[q] = jdraft[q]
    BY <2>1, <2>2 DEF TextInv
  <2>3. CASE q = r /\ Embeds(r)
    BY <2>1, <2>3 DEF Embeds, TypeOK, TextInv, KeepsText
  <2>4. CASE q = r /\ (Closes(r) \/ ClosesJob(r))
    BY <2>1, <2>4 DEF Closes, ClosesJob, TypeOK, TextInv
  <2>5. ~(q = r /\ (Inserts(r) \/ Locks(r) \/ Swaps(r)))
    BY <1>1 DEF Inserts, Locks, Swaps, Locked, Holds, DraftOK, JobOK
  <2>6. \/ draft'[q] = draft[q] /\ jdraft'[q] = jdraft[q]
        \/ q = r /\ (Embeds(r) \/ Inserts(r) \/ Locks(r) \/ Swaps(r) \/ Closes(r) \/ ClosesJob(r))
    BY DEF ShapeOf, Quiet, Touches, Removes, Embeds, Inserts, Locks, Swaps, Closes, ClosesJob,
           TypeOK
  <2>. QED BY <2>2, <2>3, <2>4, <2>5, <2>6
<1>2. CASE ~Holds(q)
  <2>1. q = r /\ (Inserts(r) \/ Locks(r) \/ Swaps(r))
    BY <1>2 DEF ShapeOf, Quiet, Touches, Removes, Embeds, Inserts, Locks, Swaps, Closes, ClosesJob,
                TypeOK, Holds, DraftOK
  <2>2. CASE Inserts(r)
    <3>1. doc[r] = None
      BY <2>2 DEF Inserts, FreshInv, Unborn
    <3>. QED BY <2>1, <2>2, <3>1 DEF Inserts, TypeOK
  <2>3. CASE Locks(r)
    BY <1>2, <2>1, <2>3 DEF Locks, TypeOK, Holds, KeepsText
  <2>4. CASE Swaps(r)
    BY <1>2, <2>1, <2>4 DEF Swaps, TypeOK, Holds, KeepsText
  <2>. QED BY <2>1, <2>2, <2>3, <2>4
<1>. QED BY <1>1, <1>2

LEMMA OwnRowStep ==
    ASSUME TypeInv, TypeInv', FreshInv, OwnRowInv, NEW r \in Req, Keeps(r), ShapeOf(r)
    PROVE  OwnRowInv'
<1>. SUFFICES ASSUME NEW q \in Req, pc'[q] \in Open, target'[q] = q
              PROVE  call'[q].kind \in {"put", "upload"}
  BY DEF OwnRowInv
<1>1. CASE pc[q] \in Open /\ target[q] = q
  BY <1>1 DEF Keeps, OwnRowInv
<1>2. CASE q = r /\ Inserts(r)
  BY <1>2 DEF Inserts, Keeps, CallOK
<1>3. CASE q = r /\ Locks(r)
  BY <1>3 DEF Locks, FreshInv, Unborn
<1>4. (pc[q] \in Open /\ target[q] = q) \/ (q = r /\ (Inserts(r) \/ Locks(r)))
  <2>1. draft'[q] # None
    BY DEF DraftOK
  <2>2. draft[q] # None \/ (q = r /\ (Inserts(r) \/ Locks(r)))
    BY <2>1 DEF ShapeOf, Quiet, Touches, Removes, Embeds, Inserts, Locks, Swaps, Closes,
                ClosesJob, TypeOK, DraftOK
  <2>3. ASSUME draft[q] # None, target[q] # q PROVE q = r /\ Inserts(r)
    BY <2>3 DEF ShapeOf, Quiet, Touches, Removes, Embeds, Inserts, Locks, Swaps, Closes,
                      ClosesJob, TypeOK, DraftOK
  <2>. QED BY <2>2, <2>3 DEF DraftOK
<1>. QED BY <1>1, <1>2, <1>3, <1>4

\* All that is known of a reachable state.
CorpusInv == LockInv /\ VersionInv /\ TextInv /\ OwnRowInv

LEMMA CorpusInvariant == Spec => []CorpusInv
<1>1. Init => TextInv /\ OwnRowInv
  BY DEF Init, TextInv, OwnRowInv
<1>2. LockInv /\ LockInv' /\ TextInv /\ OwnRowInv /\ [Next]_vars => (TextInv /\ OwnRowInv)'
  <2>. SUFFICES ASSUME LockInv, LockInv', TextInv, OwnRowInv, [Next]_vars
                PROVE  (TextInv /\ OwnRowInv)'
    OBVIOUS
  <2>1. CASE UNCHANGED vars
    BY <2>1 DEF vars, webVars, jobVars, TextInv, OwnRowInv
  <2>2. CASE \E r \in Req : Keeps(r) /\ ShapeOf(r)
    <3>1. TypeInv /\ TypeInv' /\ FreshInv
      BY DEF LockInv
    <3>. HIDE DEF TypeInv
    <3>. QED BY <2>2, <3>1, TextStep, OwnRowStep
  <2>3. TypeInv
    BY DEF LockInv
  <2>. HIDE DEF TypeInv
  <2>. QED BY <2>1, <2>2, <2>3, Shapes DEF ShapeOf
<1>3. Spec => []VersionInv
  BY VersionInvariant
<1>. HIDE DEF LockInv
<1>. QED BY <1>1, <1>2, <1>3, Locking, PTL DEF Spec, CorpusInv

\* The old chunks stay until the new ones are there, whatever fails: a step leaves no document
\* that had a text without chunks, and another text only on a ready row.
THEOREM SearchableAllAlong == Spec => SearchableUntilSwapped
<1>. DEFINE Kept(u) ==
        doc[u] # None /\ doc'[u] # None /\ doc[u].content # None =>
           /\ doc'[u].chunks # {}
           /\ doc'[u].content # doc[u].content => doc'[u].status = "ready"
<1>1. CorpusInv /\ CorpusInv' /\ [Next]_vars => [\A u \in Req : Kept(u)]_vars
  <2>. SUFFICES ASSUME CorpusInv, CorpusInv', Next, NEW u \in Req,
                       doc[u] # None, doc'[u] # None, doc[u].content # None
                PROVE  /\ doc'[u].content # None
                       /\ doc'[u].content # doc[u].content => doc'[u].status = "ready"
    BY DEF CorpusInv, VersionInv, Consistent
  <2>. USE DEF CorpusInv, LockInv
  <2>1. PICK r \in Req : UNCHANGED vars \/ ShapeOf(r)
    BY Shapes DEF ShapeOf
  <2>2. CASE doc'[u] = doc[u]
    BY <2>2
  <2>3. CASE Touches(r)
    BY <2>3 DEF Touches, TypeOK, SameForSearch, Live
  <2>4. CASE Closes(r) /\ doc'[u] # doc[u]
    <3>1. u = target[r] /\ doc'[u] = draft[r] /\ draft[r] # None
      BY <2>4 DEF Closes, TypeOK, DraftOK
    <3>. QED BY <3>1 DEF TextInv, KeepsText
  <2>5. CASE ClosesJob(r) /\ doc'[u] # doc[u]
    <3>1. u = target[r] /\ doc'[u] = jdraft[r] /\ jdraft[r] # None
      BY <2>5 DEF ClosesJob, TypeOK, JobOK
    <3>. QED BY <3>1 DEF TextInv, KeepsText
  <2>6. CASE Removes(r)
    BY <2>6 DEF Removes, TypeOK
  <2>7. \/ doc'[u] = doc[u] \/ Touches(r) \/ Closes(r) \/ ClosesJob(r) \/ Removes(r)
    BY <2>1 DEF ShapeOf, Quiet, Inserts, Locks, Embeds, Swaps, vars
  <2>. QED BY <2>2, <2>3, <2>4, <2>5, <2>6, <2>7
<1>. HIDE DEF CorpusInv
<1>. QED BY <1>1, CorpusInvariant, PTL DEF Spec, SearchableUntilSwapped

-----------------------------------------------------------------------------
(* The refinement. A step may change what a search finds of one document,   *)
(* and every change is one that Corpus allows.                              *)

Sees(row) == [stage |-> "live", found |-> row.chunks, groups |-> row.access_groups,
              time |-> row.source_updated_at]

\* What Corpus lets happen to one document.
Change(new, old) ==
    \/ old = Corpus!New /\ Corpus!IsVersion(new)
    \/ /\ Corpus!IsVersion(old)
       /\ \E text \in Texts : Corpus!Holds(new, text)
       /\ Corpus!NotBefore(new, old)
    \/ /\ \E text \in Texts \cup {None} : Corpus!Holds(old, text) /\ Corpus!Holds(new, text)
       /\ Corpus!NotBefore(new, old)
    \/ Corpus!IsVersion(old) /\ new = Corpus!Gone
    \/ old = Corpus!New /\ new = Corpus!Gone

LEMMA OneChange ==
    ASSUME NEW u \in Req, \A v \in Req \ {u} : Shown'[v] = Shown[v],
           Shown'[u] = Shown[u] \/ Change(Shown'[u], Shown[u])
    PROVE  Corpus!Next \/ Shown' = Shown
<1>1. Shown = [v \in Req |-> Shown[v]] /\ Shown' = [v \in Req |-> Shown'[v]]
  BY DEF Shown
<1>. HIDE DEF Shown
<1>2. CASE Shown'[u] = Shown[u]
  BY <1>1, <1>2
<1>3. CASE Shown'[u] # Shown[u] /\ Change(Shown'[u], Shown[u])
  <2>1. Shown' = [Shown EXCEPT ![u] = Shown'[u]]
    BY <1>1
  <2>2. Corpus!Only(u)
    BY <2>1 DEF Corpus!Only
  <2>3. \/ Corpus!Add(u) \/ Corpus!Replace(u) \/ Corpus!Regroup(u)
        \/ Corpus!Remove(u) \/ Corpus!Discard(u)
    BY <1>3, <2>2 DEF Change, Corpus!Add, Corpus!Replace, Corpus!Regroup, Corpus!Remove,
                      Corpus!Discard
  <2>. QED BY <1>3, <2>3 DEF Corpus!Next
<1>. QED BY <1>2, <1>3

LEMMA ShownFields ==
    ASSUME NEW u \in Req
    PROVE  /\ Shown[u] = IF doc[u] # None THEN Sees(doc[u]) ELSE Hidden(u)
           /\ Hidden(u) = IF Unborn(u) /\ MayInsert(u) THEN Corpus!New ELSE Corpus!Gone
           /\ Shown'[u] = IF doc'[u] # None THEN Sees(doc'[u]) ELSE Hidden(u)'
           /\ Hidden(u)' = IF Unborn(u)' /\ MayInsert(u)' THEN Corpus!New ELSE Corpus!Gone
BY DEF Shown, View, Sees, Hidden, Corpus!New, Corpus!Gone, Corpus!Blank

\* A consistent row is a version of a document.
LEMMA RowIsVersion ==
    ASSUME NEW row \in Row, Consistent(row)
    PROVE  /\ row.content \in Texts \cup {None}
           /\ Corpus!Holds(Sees(row), row.content)
           /\ Corpus!IsVersion(Sees(row))
<1>1. /\ row.content \in Texts \cup {None} /\ row.access_groups \in SUBSET Groups
      /\ row.source_updated_at \in Nat \cup {None}
  BY DEF Row, AccessLists
<1>2. Corpus!Holds(Sees(row), row.content)
  BY <1>1 DEF Consistent, Sees, Corpus!Holds, Corpus!Found
<1>. QED BY <1>1, <1>2 DEF Corpus!IsVersion

\* A commit over a row that is there.
LEMMA RowReplaced ==
    ASSUME NEW old \in Row, NEW new \in Row, Consistent(old), Consistent(new),
           NotBefore(new, old), KeepsText(new, old)
    PROVE  Change(Sees(new), Sees(old))
<1>1. Corpus!NotBefore(Sees(new), Sees(old))
  BY DEF NotBefore, Sees, Corpus!NotBefore
<1>2. CASE new.content \in Texts
  BY <1>1, <1>2, RowIsVersion DEF Change
<1>3. CASE new.content \notin Texts
  <2>1. new.content = None /\ old.content = None
    BY <1>3, RowIsVersion DEF KeepsText
  <2>2. Corpus!Holds(Sees(new), None) /\ Corpus!Holds(Sees(old), None)
    BY <2>1, RowIsVersion
  <2>. QED BY <1>1, <2>2 DEF Change
<1>. QED BY <1>2, <1>3

\* An id without a row: nothing is found of it, and at most it stops being one a row may get.
LEMMA HiddenStep ==
    ASSUME TypeInv, NEW r \in Req, Keeps(r), ShapeOf(r), NEW u \in Req
    PROVE  /\ u # r => (Unborn(u)' <=> Unborn(u)) /\ Hidden(u)' = Hidden(u)
           /\ Hidden(u)' = Hidden(u) \/ (Hidden(u) = Corpus!New /\ Hidden(u)' = Corpus!Gone)
<1>1. ASSUME u # r PROVE (Unborn(u)' <=> Unborn(u)) /\ (MayInsert(u)' <=> MayInsert(u))
  <2>1. pc'[u] = pc[u] /\ call'[u] = call[u]
    BY <1>1 DEF Keeps
  <2>2. target'[u] = target[u]
    <3>. HIDE DEF TypeInv, ShapeOf
    <3>. QED BY <1>1, TargetStep
  <2>3. draft'[u] = draft[u]
    BY <1>1 DEF ShapeOf, Quiet, Touches, Inserts, Locks, Embeds, Closes, Swaps, ClosesJob, Removes,
                TypeOK
  <2>. QED BY <2>1, <2>2, <2>3 DEF Unborn, MayInsert
<1>2. Unborn(u)' => Unborn(u)
  <2>. HIDE DEF TypeInv, ShapeOf, Keeps
  <2>. QED BY UnbornBefore
<1>3. MayInsert(u)' => MayInsert(u)
  BY DEF Keeps, MayInsert
<1>. HIDE DEF Unborn, MayInsert
<1>. QED BY <1>1, <1>2, <1>3, ShownFields

\* No committed row looks different.
LEMMA SameViews ==
    ASSUME TypeInv, NEW r \in Req, Keeps(r), ShapeOf(r),
           \A u \in Req : \/ doc'[u] = doc[u]
                          \/ doc[u] # None /\ doc'[u] # None /\ Sees(doc'[u]) = Sees(doc[u])
    PROVE  Corpus!Next \/ Shown' = Shown
<1>. HIDE DEF TypeInv
<1>1. \A u \in Req \ {r} : Shown'[u] = Shown[u]
  BY HiddenStep, ShownFields
<1>2. Shown'[r] = Shown[r] \/ Change(Shown'[r], Shown[r])
  BY HiddenStep, ShownFields DEF Change
<1>. QED BY <1>1, <1>2, OneChange

\* A transaction that commits changes the one row it holds.
LEMMA CommitStep ==
    ASSUME CorpusInv, NEW r \in Req, Keeps(r), Closes(r), doc' # doc
    PROVE  Corpus!Next \/ Shown' = Shown
<1>. USE DEF CorpusInv, LockInv
<1>. DEFINE u == target[r]
            new == draft[r]
<1>1. /\ u \in Req /\ pc[r] = "commit" /\ pc'[r] \notin Open \cup BeforeRow
      /\ new \in Row /\ doc' = [doc EXCEPT ![u] = new]
  BY DEF Closes, Keeps, TypeOK, DraftOK
<1>2. Consistent(new)
  BY <1>1 DEF VersionInv
<1>3. \A v \in Req \ {u} : doc'[v] = doc[v]
  BY <1>1 DEF TypeOK
<1>4. doc'[u] = new /\ doc'[u] # None
  BY <1>1 DEF TypeOK
<1>5. ShapeOf(r)
  BY DEF ShapeOf
<1>6. ASSUME NEW v \in Req \ {u} PROVE Shown'[v] = Shown[v]
  <2>1. CASE v # r
    <3>. HIDE DEF TypeInv, u
    <3>. QED BY <1>3, <1>5, <2>1, HiddenStep, ShownFields
  <2>2. CASE v = r
    <3>1. ~Unborn(r)
      BY <1>1, <2>2 DEF Unborn
    <3>2. ~Unborn(r)'
      <4>. HIDE DEF TypeInv, ShapeOf, Keeps, Unborn
      <4>. QED BY <1>5, <3>1, UnbornBefore
    <3>. HIDE DEF Unborn, u
    <3>. QED BY <1>3, <2>2, <3>1, <3>2, ShownFields
  <2>. QED BY <2>1, <2>2
<1>7. Change(Shown'[u], Shown[u])
  <2>1. Shown'[u] = Sees(new)
    BY <1>1, <1>4, ShownFields
  <2>2. CASE doc[u] = None
    <3>1. u = r
      BY <1>1, <2>2 DEF HeldInv
    <3>2. Unborn(u) /\ MayInsert(u)
      BY <1>1, <3>1 DEF Unborn, MayInsert, OwnRowInv
    <3>3. Shown[u] = Corpus!New
      BY <1>1, <2>2, <3>2, ShownFields
    <3>4. Corpus!IsVersion(Sees(new))
      BY <1>1, <1>2, RowIsVersion
    <3>. QED BY <2>1, <3>3, <3>4 DEF Change
  <2>3. CASE doc[u] # None
    <3>1. Shown[u] = Sees(doc[u])
      BY <1>1, <2>3, ShownFields
    <3>2. doc[u] \in Row /\ Consistent(doc[u])
      BY <1>1, <2>3 DEF TypeOK, VersionInv
    <3>3. NotBefore(new, doc[u]) /\ KeepsText(new, doc[u])
      BY <1>1, <2>3 DEF TimeInv, TextInv
    <3>. QED BY <1>1, <1>2, <2>1, <3>1, <3>2, <3>3, RowReplaced
  <2>. QED BY <2>2, <2>3
<1>. HIDE DEF u
<1>. QED BY <1>1, <1>6, <1>7, OneChange

LEMMA CommitJobStep ==
    ASSUME CorpusInv, NEW r \in Req, Keeps(r), ClosesJob(r), doc' # doc
    PROVE  Corpus!Next \/ Shown' = Shown
<1>. USE DEF CorpusInv, LockInv
<1>. DEFINE u == target[r]
            new == jdraft[r]
<1>1. u \in Req /\ new \in Row /\ doc' = [doc EXCEPT ![u] = new]
  BY DEF ClosesJob, TypeOK, JobOK
<1>2. /\ doc[u] \in Row /\ Consistent(doc[u]) /\ Consistent(new)
      /\ NotBefore(new, doc[u]) /\ KeepsText(new, doc[u])
  BY <1>1 DEF VersionInv, HeldInv, TimeInv, TextInv, TypeOK
<1>3. ShapeOf(r)
  BY DEF ShapeOf
<1>4. ASSUME NEW v \in Req \ {u} PROVE Shown'[v] = Shown[v]
  <2>1. doc'[v] = doc[v]
    BY <1>1 DEF TypeOK
  <2>2. CASE v # r
    <3>. HIDE DEF TypeInv, u
    <3>. QED BY <1>3, <2>1, <2>2, HiddenStep, ShownFields
  <2>3. CASE v = r
    <3>1. ~Unborn(r)
      BY UnbornHasNoJob DEF ClosesJob, JobOK
    <3>2. ~Unborn(r)'
      <4>. HIDE DEF TypeInv, ShapeOf, Keeps, Unborn
      <4>. QED BY <1>3, <3>1, UnbornBefore
    <3>. HIDE DEF Unborn, u
    <3>. QED BY <2>1, <2>3, <3>1, <3>2, ShownFields
  <2>. QED BY <2>2, <2>3
<1>5. Shown[u] = Sees(doc[u]) /\ Shown'[u] = Sees(new)
  BY <1>1, <1>2, ShownFields DEF TypeOK
<1>6. Change(Shown'[u], Shown[u])
  BY <1>1, <1>2, <1>5, RowReplaced
<1>. HIDE DEF u
<1>. QED BY <1>1, <1>4, <1>6, OneChange

LEMMA RemoveStep ==
    ASSUME CorpusInv, NEW r \in Req, Keeps(r), Removes(r), doc' # doc
    PROVE  Corpus!Next \/ Shown' = Shown
<1>. USE DEF CorpusInv, LockInv
<1>. PICK u \in Req : u = target[r]
  BY DEF TypeOK
<1>1. /\ u \in Req /\ doc' = [doc EXCEPT ![u] = None]
      /\ doc[u] \in Row /\ Consistent(doc[u])
  BY DEF Removes, TypeOK, VersionInv
<1>2. Unborn(r) /\ doc[r] = None /\ u # r
  BY <1>1 DEF Removes, FreshInv, Unborn
<1>3. ShapeOf(r)
  BY DEF ShapeOf
<1>4. ASSUME NEW v \in Req \ {u} PROVE Shown'[v] = Shown[v]
  <2>1. doc'[v] = doc[v]
    BY <1>1 DEF TypeOK
  <2>2. CASE v # r
    <3>. HIDE DEF TypeInv
    <3>. QED BY <1>3, <2>1, <2>2, HiddenStep, ShownFields
  <2>3. CASE v = r
    <3>1. ~MayInsert(r) /\ ~MayInsert(r)'
      BY DEF Removes, MayInsert, DeleteKinds, Keeps, CallOK
    <3>. HIDE DEF MayInsert
    <3>. QED BY <2>1, <2>3, <3>1, ShownFields
  <2>. QED BY <2>2, <2>3
<1>5. Shown[u] = Sees(doc[u]) /\ Shown'[u] = Corpus!Gone
  <2>1. ~Unborn(u)
    BY <1>1 DEF FreshInv
  <2>2. ~Unborn(u)'
    <3>. HIDE DEF TypeInv, ShapeOf, Keeps, Unborn
    <3>. QED BY <1>1, <1>3, <2>1, UnbornBefore
  <2>3. doc'[u] = None
    BY <1>1 DEF TypeOK
  <2>. HIDE DEF Unborn
  <2>. QED BY <1>1, <2>2, <2>3, ShownFields
<1>6. Change(Shown'[u], Shown[u])
  BY <1>1, <1>5, RowIsVersion DEF Change
<1>. QED BY <1>4, <1>6, OneChange

LEMMA CorpusStep ==
    ASSUME CorpusInv, [Next]_vars
    PROVE  [Corpus!Next]_Shown
<1>. USE DEF CorpusInv, LockInv
<1>1. CASE UNCHANGED vars
  BY <1>1 DEF vars, webVars, Shown, View, Hidden, Unborn, MayInsert
<1>2. CASE \E r \in Req : Keeps(r) /\ ShapeOf(r)
  <2>1. PICK r \in Req : Keeps(r) /\ ShapeOf(r)
    BY <1>2
  <2>2. CASE doc' = doc
    <3>. HIDE DEF TypeInv
    <3>. QED BY <2>1, <2>2, SameViews
  <2>3. CASE Touches(r)
    <3>1. ASSUME NEW u \in Req
          PROVE  \/ doc'[u] = doc[u]
                 \/ doc[u] # None /\ doc'[u] # None /\ Sees(doc'[u]) = Sees(doc[u])
      BY <2>3 DEF Touches, Live, SameForSearch, TypeOK, Sees
    <3>. HIDE DEF TypeInv
    <3>. QED BY <2>1, <3>1, SameViews
  <2>4. doc' = doc \/ Touches(r) \/ Closes(r) \/ ClosesJob(r) \/ Removes(r)
    BY <2>1 DEF ShapeOf, Quiet, Inserts, Locks, Embeds, Swaps
  <2>. HIDE DEF CorpusInv, Keeps, Closes, ClosesJob, Removes
  <2>. QED BY <2>1, <2>2, <2>3, <2>4, CommitStep, CommitJobStep, RemoveStep
<1>. HIDE DEF Keeps, ShapeOf
<1>. QED BY <1>1, <1>2, Shapes DEF ShapeOf

\* Requests and jobs, with all their locks, drafts and failures, are to a search what Corpus
\* describes: documents that appear, are replaced, are regrouped and are removed in one step each.
THEOREM DocumentsImplementCorpus == Spec => ImplementsCorpus
<1>1. Init => Corpus!Init
  BY DEF Init, Corpus!Init, Corpus!New, Corpus!Blank, Shown, Hidden, Unborn, MayInsert
<1>2. CorpusInv /\ [Next]_vars => [Corpus!Next]_Shown
  BY CorpusStep
<1>. HIDE DEF CorpusInv
<1>. QED BY <1>1, <1>2, CorpusInvariant, PTL DEF Spec, ImplementsCorpus, Corpus!Spec
=============================================================================
