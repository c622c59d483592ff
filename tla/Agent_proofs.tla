---------------------------- MODULE Agent_proofs ----------------------------
(***************************************************************************)
(* Proofs about Agent, for every set of requests, keys and chunks, every   *)
(* number of slots and steps, and whatever searches, judges and planner    *)
(* give, within ScenarioAssumption and JudgeSettings.                      *)
(***************************************************************************)
EXTENDS Agent, Sequences_proofs

-----------------------------------------------------------------------------
(* Keys. *)

Places == {"sent", "refresh", "refused", "failed", "done", "search", "rerank", "plan", "answer"}

\* What authentication keeps: rows are rows, and a request that will refresh last_used_at has
\* read one.
KeysInv ==
    /\ scenario \in Scenarios
    /\ keys \in [KeyIds -> Rows]
    /\ loaded \in [Requests -> Rows \cup {None}]
    /\ \A r \in Requests : pc[r] = "refresh" => loaded[r] \in Rows
    /\ pc \in [Requests -> Places]

LEMMA FlushKeepsType ==
    ASSUME NEW row \in Rows, NEW read \in Rows
    PROVE  LET flushed == Flush(row, read, [read EXCEPT !.used = "recently"])
           IN /\ flushed \in Rows
              /\ flushed.revoked = row.revoked
              /\ flushed.tenant = row.tenant
              /\ flushed.scoped = row.scoped
BY DEF Flush, Rows

LEMMA KeysInvInitially == Init => KeysInv
<1>. SUFFICES ASSUME Init PROVE KeysInv
  OBVIOUS
<1>1. scenario \in Scenarios /\ keys = scenario.keys
  BY DEF Init, KeysInit
<1>2. keys \in [KeyIds -> Rows]
  BY <1>1, ScenarioAssumption
<1>3. /\ pc = [r \in Requests |-> "sent"]
      /\ loaded = [r \in Requests |-> None]
  BY DEF Init, KeysInit
<1>. QED BY <1>1, <1>2, <1>3 DEF KeysInv, Places

\* Merge moves its own request on, and no other.
LEMMA MergeMoves ==
    ASSUME NEW r \in Requests, NEW rows, pc \in [Requests -> Places], Merge(r, rows)
    PROVE  /\ pc' \in [Requests -> Places]
           /\ pc'[r] \in {"answer", "plan"}
           /\ \A q \in Requests \ {r} : pc'[q] = pc[q]
BY DEF Merge, Places

\* A step that leaves the keys alone, and takes no request to where it refreshes one.
Quiet == /\ UNCHANGED <<scenario, keys, loaded>>
         /\ pc' \in [Requests -> Places]
         /\ \A r \in Requests : pc'[r] = "refresh" => pc[r] = "refresh"

LEMMA QuietKeepsInv == KeysInv /\ Quiet => KeysInv'
BY DEF KeysInv, Quiet

LEMMA LoopIsQuiet ==
    ASSUME KeysInv,
           \/ \E r \in Requests : \/ Search(r) \/ ApiReranks(r) \/ ChatReranks(r)
                                 \/ Plan(r) \/ Answer(r) \/ Fail(r)
           \/ \E call \in Calls : JudgeReplies(call)
    PROVE  Quiet
<1>. pc \in [Requests -> Places]
  BY DEF KeysInv
<1>1. ASSUME NEW r \in Requests, Search(r) PROVE Quiet
  <2>. UNCHANGED <<scenario, keys, loaded>>
    BY <1>1 DEF Search
  <2>1. (\E rows \in scenario.lists : Merge(r, rows)) \/ pc' = [pc EXCEPT ![r] = "rerank"]
    BY <1>1 DEF Search
  <2>2. CASE \E rows \in scenario.lists : Merge(r, rows)
    BY <2>2, MergeMoves DEF Quiet
  <2>3. CASE pc' = [pc EXCEPT ![r] = "rerank"]
    BY <2>3 DEF Quiet, Places
  <2>. QED BY <2>1, <2>2, <2>3
<1>2. ASSUME NEW r \in Requests, ApiReranks(r) PROVE Quiet
  <2>. UNCHANGED <<scenario, keys, loaded>> /\ (\E rows : Merge(r, rows))
    BY <1>2 DEF ApiReranks
  <2>. QED BY MergeMoves DEF Quiet
<1>3. ASSUME NEW r \in Requests, ChatReranks(r) PROVE Quiet
  <2>. UNCHANGED <<scenario, keys, loaded>> /\ (\E rows : Merge(r, rows))
    BY <1>3 DEF ChatReranks
  <2>. QED BY MergeMoves DEF Quiet
<1>4. ASSUME NEW r \in Requests, Plan(r) PROVE Quiet
  BY <1>4 DEF Plan, Quiet, Places
<1>5. ASSUME NEW r \in Requests, Answer(r) PROVE Quiet
  BY <1>5 DEF Answer, Quiet, Places
<1>6. ASSUME NEW r \in Requests, Fail(r) PROVE Quiet
  BY <1>6 DEF Fail, Quiet, Places
<1>7. ASSUME NEW call \in Calls, JudgeReplies(call) PROVE Quiet
  <2>. UNCHANGED <<scenario, keys, loaded>>
    BY <1>7 DEF JudgeReplies
  <2>1. pc' = pc \/ pc' = [pc EXCEPT ![call[1]] = "failed"]
    BY <1>7 DEF JudgeReplies
  <2>2. call[1] \in Requests
    BY DEF Calls
  <2>. QED BY <2>1, <2>2 DEF Quiet, Places
<1>. QED BY <1>1, <1>2, <1>3, <1>4, <1>5, <1>6, <1>7

\* What a step may do to the keys.
KeepsKeys ==
    \A k \in KeyIds : keys[k].tenant # None =>
        /\ keys[k].revoked => keys'[k].revoked
        /\ keys'[k].tenant = keys[k].tenant
        /\ keys'[k].scoped = keys[k].scoped

LEMMA CommandKeeps ==
    ASSUME KeysInv, Command
    PROVE  KeysInv' /\ KeepsKeys
<1>. UNCHANGED <<scenario, pc, loaded>> /\ keys \in [KeyIds -> Rows]
  BY DEF Command, LoopUnchanged, CreateTenant, CreateKey, RevokeKey, TimePasses, KeysInv
<1>. SUFFICES keys' \in [KeyIds -> Rows] /\ KeepsKeys
  BY DEF KeysInv
<1>0. ASSUME NEW t \in Tenants, NEW scoped \in BOOLEAN PROVE Key(t, scoped) \in Rows
  BY DEF Key, NoKey, Rows
<1>1. CASE CreateTenant
  <2>1. PICK k \in KeyIds, t \in Tenants :
            keys[k].tenant = None /\ keys' = [keys EXCEPT ![k] = Key(t, FALSE)]
    BY <1>1 DEF CreateTenant
  <2>2. Key(t, FALSE) \in Rows
    BY <1>0
  <2>. QED BY <2>1, <2>2 DEF KeepsKeys
<1>2. CASE CreateKey
  <2>1. PICK k \in KeyIds, j \in KeyIds, scoped \in BOOLEAN :
            /\ keys[k].tenant = None /\ keys[j].tenant # None
            /\ keys' = [keys EXCEPT ![k] = Key(keys[j].tenant, scoped)]
    BY <1>2 DEF CreateKey
  <2>2. keys[j].tenant \in Tenants
    BY <2>1 DEF Rows
  <2>3. Key(keys[j].tenant, scoped) \in Rows
    BY <1>0, <2>2
  <2>. QED BY <2>1, <2>3 DEF KeepsKeys
<1>3. CASE RevokeKey
  <2>1. PICK k \in KeyIds : keys' = [keys EXCEPT ![k].revoked = TRUE]
    BY <1>3 DEF RevokeKey
  <2>. DEFINE row == [keys[k] EXCEPT !.revoked = TRUE]
  <2>2. /\ row \in Rows /\ row.revoked = TRUE
        /\ row.tenant = keys[k].tenant /\ row.scoped = keys[k].scoped
    BY DEF Rows
  <2>3. keys' = [keys EXCEPT ![k] = row]
    BY <2>1
  <2>. HIDE DEF row
  <2>. QED BY <2>2, <2>3 DEF KeepsKeys
<1>4. CASE TimePasses
  BY <1>4, ZenonT(30) DEF TimePasses, KeepsKeys, Rows
<1>. QED BY <1>1, <1>2, <1>3, <1>4 DEF Command

LEMMA AuthenticateKeeps ==
    ASSUME KeysInv, NEW r \in Requests, KeyStep(r)
    PROVE  KeysInv' /\ KeepsKeys
<1>. DEFINE asked == scenario.asked[r]
<1>1. /\ keys \in [KeyIds -> Rows] /\ loaded \in [Requests -> Rows \cup {None}]
      /\ pc \in [Requests -> Places]
      /\ scenario' = scenario /\ asked.key \in KeyIds
  BY ScenarioAssumption DEF KeysInv, KeyStep, LoopUnchanged
<1>2. \A row : Admitted(row, asked) \in {"refused", "done", "search"}
  BY DEF Admitted
<1>3. CASE Authenticate(r)
  <2>1. /\ keys' = keys
        /\ loaded' = [loaded EXCEPT ![r] = keys[asked.key]]
    BY <1>3 DEF Authenticate
  <2>2. \E place \in {"refused", "refresh", "done", "search"} : pc' = [pc EXCEPT ![r] = place]
    BY <1>2, <1>3 DEF Authenticate
  <2>. HIDE DEF asked
  <2>3. /\ pc' \in [Requests -> Places]
        /\ loaded' \in [Requests -> Rows \cup {None}]
        /\ loaded'[r] \in Rows
        /\ \A q \in Requests \ {r} : pc'[q] = pc[q] /\ loaded'[q] = loaded[q]
    BY <1>1, <2>1, <2>2 DEF Places
  <2>. QED BY <1>1, <2>1, <2>3 DEF KeysInv, KeepsKeys
<1>4. CASE Refresh(r)
  <2>. DEFINE flushed == Flush(keys[asked.key], loaded[r], [loaded[r] EXCEPT !.used = "recently"])
  <2>1. /\ keys' = [keys EXCEPT ![asked.key] = flushed]
        /\ loaded' = loaded
        /\ loaded[r] \in Rows
    BY <1>1, <1>4 DEF Refresh, KeysInv
  <2>2. \E place \in {"refused", "done", "search"} : pc' = [pc EXCEPT ![r] = place]
    BY <1>2, <1>4 DEF Refresh
  <2>3. keys[asked.key] \in Rows
    BY <1>1
  <2>4. /\ flushed \in Rows
        /\ flushed.revoked = keys[asked.key].revoked
        /\ flushed.tenant = keys[asked.key].tenant
        /\ flushed.scoped = keys[asked.key].scoped
    BY <2>1, <2>3, FlushKeepsType
  <2>. HIDE DEF asked, flushed
  <2>5. keys' \in [KeyIds -> Rows] /\ KeepsKeys
    BY <1>1, <2>1, <2>4 DEF KeepsKeys
  <2>6. pc' \in [Requests -> Places] /\ \A q \in Requests : pc'[q] = "refresh" => pc[q] = "refresh"
    BY <1>1, <2>2 DEF Places
  <2>. QED BY <1>1, <2>1, <2>5, <2>6 DEF KeysInv
<1>. QED BY <1>3, <1>4 DEF KeyStep

LEMMA KeysInductive == KeysInv /\ [Next]_agentVars => KeysInv' /\ (KeepsKeys \/ keys' = keys)
<1>. SUFFICES ASSUME KeysInv, [Next]_agentVars PROVE KeysInv' /\ (KeepsKeys \/ keys' = keys)
  OBVIOUS
<1>1. CASE UNCHANGED agentVars
  BY <1>1 DEF agentVars, keysVars, KeysInv
<1>2. ASSUME NEW r \in Requests, Step(r) PROVE KeysInv' /\ (KeepsKeys \/ keys' = keys)
  <2>1. CASE KeyStep(r)
    BY <2>1, AuthenticateKeeps
  <2>2. CASE ~KeyStep(r)
    <3>1. Quiet
      BY <1>2, <2>2, LoopIsQuiet DEF Step
    <3>. QED BY <3>1, QuietKeepsInv DEF Quiet
  <2>. QED BY <2>1, <2>2
<1>3. ASSUME NEW call \in Calls, JudgeReplies(call) PROVE KeysInv' /\ (KeepsKeys \/ keys' = keys)
  BY <1>3, LoopIsQuiet, QuietKeepsInv DEF Quiet
<1>4. CASE Command
  BY <1>4, CommandKeeps
<1>. QED BY <1>1, <1>2, <1>3, <1>4 DEF Next

\* A revoked key stays revoked, and keeps its tenant and its restriction, whatever requests
\* read of it before and write after.
THEOREM RevokedForGood == Spec => RevocationIsFinal
<1>1. Init => KeysInv
  BY KeysInvInitially
<1>2. KeysInv /\ [Next]_agentVars => KeysInv'
  BY KeysInductive
<1>3. KeysInv /\ [Next]_agentVars =>
          [\A k \in KeyIds : keys[k].tenant # None =>
              /\ keys[k].revoked => keys'[k].revoked
              /\ keys'[k].tenant = keys[k].tenant
              /\ keys'[k].scoped = keys[k].scoped]_keys
  BY KeysInductive DEF KeepsKeys
<1>. QED BY <1>1, <1>2, <1>3, PTL DEF Spec, RevocationIsFinal

-----------------------------------------------------------------------------
(* The budget. *)

LEMMA MinOfTwo ==
    ASSUME NEW a \in Int, NEW b \in Int
    PROVE  /\ Min({a, b}) \in {a, b}
           /\ Min({a, b}) <= a /\ Min({a, b}) <= b
<1>1. \E x \in {a, b} : \A y \in {a, b} : x <= y
  <2>1. CASE a <= b
    BY <2>1
  <2>2. CASE ~(a <= b)
    BY <2>2
  <2>. QED BY <2>1, <2>2
<1>. QED BY <1>1 DEF Min

LEMMA MaxOfTwo ==
    ASSUME NEW a \in Int, NEW b \in Int
    PROVE  /\ Max({a, b}) \in {a, b}
           /\ Max({a, b}) >= a /\ Max({a, b}) >= b
<1>1. \E x \in {a, b} : \A y \in {a, b} : x >= y
  <2>1. CASE a >= b
    BY <2>1
  <2>2. CASE ~(a >= b)
    BY <2>2
  <2>. QED BY <2>1, <2>2
<1>. QED BY <1>1 DEF Max

LEMMA NeverMoreSteps ==
    ASSUME scenario \in Scenarios, NEW r \in Requests
    PROVE  /\ MaxSteps(r) \in Int
           /\ MaxSteps(r) <= scenario.max_steps
           /\ scenario.max_steps <= Max({1, scenario.max_steps})
           /\ Max({1, scenario.max_steps}) \in Int
           /\ 1 <= Max({1, scenario.max_steps})
<1>. DEFINE asked == scenario.asked[r].max_steps
           max == scenario.max_steps
<1>1. max \in Int /\ asked \in (Nat \ {0}) \cup {None}
  BY ScenarioAssumption
<1>2. MaxSteps(r) = IF asked = None THEN max ELSE Min({asked, max})
  BY DEF MaxSteps
<1>. HIDE DEF asked, max
<1>3. Max({1, max}) \in {1, max} /\ Max({1, max}) >= 1 /\ Max({1, max}) >= max
  <2>1. 1 \in Int
    OBVIOUS
  <2>. QED BY <1>1, <2>1, MaxOfTwo
<1>4. Max({1, max}) \in Int
  BY <1>1, <1>3
<1>6. max <= Max({1, max}) /\ 1 <= Max({1, max})
  BY <1>1, <1>3, <1>4
<1>5. MaxSteps(r) \in Int /\ MaxSteps(r) <= max
  <2>1. CASE asked = None
    BY <1>1, <1>2, <2>1
  <2>2. CASE asked # None
    <3>1. asked \in Int
      BY <1>1, <2>2
    <3>2. Min({asked, max}) \in {asked, max} /\ Min({asked, max}) <= max
      BY <1>1, <3>1, MinOfTwo
    <3>. QED BY <1>1, <1>2, <2>2, <3>1, <3>2
  <2>. QED BY <2>1, <2>2
<1>. QED BY <1>4, <1>5, <1>6 DEF max

\* What a request may have searched by the time it is at a place.
Fits(r, place, n) ==
    /\ place \in {"sent", "refresh"} => n = 0
    /\ place \in {"search", "rerank"} => n = 0 \/ n < MaxSteps(r)
    /\ place = "plan" => n >= 1 /\ n < MaxSteps(r)
    /\ place = "answer" => n >= 1
    /\ n <= Max({1, scenario.max_steps})

BudgetInv ==
    /\ KeysInv
    /\ searches = [r \in Requests |-> searches[r]]
    /\ \A r \in Requests : \E S : searches[r] \in Seq(S)
    /\ \A r \in Requests : Fits(r, pc[r], Len(searches[r]))

LEMMA Lengths == BudgetInv => \A r \in Requests : Len(searches[r]) \in Nat
<1>. SUFFICES ASSUME BudgetInv, NEW r \in Requests PROVE Len(searches[r]) \in Nat
  OBVIOUS
<1>1. PICK S : searches[r] \in Seq(S)
  BY DEF BudgetInv
<1>. QED BY <1>1, LenProperties

LEMMA BudgetInvImplies == BudgetInv => WithinBudget
BY DEF BudgetInv, Fits, WithinBudget

LEMMA BudgetInitially == Init => BudgetInv
<1>. SUFFICES ASSUME Init PROVE BudgetInv
  OBVIOUS
<1>1. /\ KeysInv
      /\ pc = [r \in Requests |-> "sent"]
      /\ searches = [r \in Requests |-> <<>>]
  BY KeysInvInitially DEF Init, KeysInit
<1>2. ASSUME NEW r \in Requests PROVE Fits(r, "sent", 0)
  <2>1. scenario \in Scenarios
    BY <1>1 DEF KeysInv
  <2>2. 0 <= Max({1, scenario.max_steps})
    BY <2>1, NeverMoreSteps
  <2>. QED BY <2>2 DEF Fits
<1>3. /\ Len(<< >>) = 0
      /\ << >> \in Seq({})
  OBVIOUS
<1>. QED BY <1>1, <1>2, <1>3 DEF BudgetInv

\* One request moves to where it may be with the searches it has.
LEMMA MovingKeepsBudget ==
    ASSUME BudgetInv, KeysInv', scenario' = scenario, searches' = searches,
           NEW r \in Requests, NEW place, pc' = [pc EXCEPT ![r] = place],
           Fits(r, place, Len(searches[r]))
    PROVE  BudgetInv'
<1>1. pc \in [Requests -> Places]
  BY DEF BudgetInv, KeysInv
<1>2. \A q \in Requests : \A at, n : Fits(q, at, n)' <=> Fits(q, at, n)
  BY DEF Fits, MaxSteps
<1>3. \A q \in Requests : pc'[q] = IF q = r THEN place ELSE pc[q]
  BY <1>1
<1>4. \A q \in Requests : Fits(q, pc'[q], Len(searches'[q]))
  BY <1>3 DEF BudgetInv
<1>. QED BY <1>2, <1>4 DEF BudgetInv

LEMMA MergingKeepsBudget ==
    ASSUME BudgetInv, KeysInv', scenario' = scenario,
           NEW r \in Requests, pc[r] \in {"search", "rerank"}, NEW rows, Merge(r, rows)
    PROVE  BudgetInv'
<1>. DEFINE kept == SubSeq(rows, 1, Min({TopKPerStep, Len(rows)}))
            new == [query |-> query[r], rows |-> kept]
<1>1. pc \in [Requests -> Places] /\ scenario \in Scenarios
  BY DEF BudgetInv, KeysInv
<1>2. PICK S : searches[r] \in Seq(S)
  BY DEF BudgetInv
<1>3. searches' = [searches EXCEPT ![r] = Append(@, new)]
  BY DEF Merge
<1>. HIDE DEF new
<1>4. searches[r] \in Seq(S \cup {new})
  BY <1>2, SeqMonotonic
<1>5. /\ Append(searches[r], new) \in Seq(S \cup {new})
      /\ Len(Append(searches[r], new)) = Len(searches[r]) + 1
  BY <1>4, AppendProperties
<1>6. \A q \in Requests : searches'[q] = IF q = r THEN Append(searches[r], new) ELSE searches[q]
  BY <1>3 DEF BudgetInv
<1>. DEFINE n == Len(searches[r])
<1>7. /\ pc' = [pc EXCEPT ![r] = IF Spent(n + 1, MaxSteps(r)) THEN "answer" ELSE "plan"]
      /\ n \in Nat
  BY <1>5, <1>6, Lengths DEF Merge
<1>8. /\ MaxSteps(r) \in Int
      /\ n + 1 <= Max({1, scenario.max_steps})
  <2>1. n = 0 \/ n < MaxSteps(r)
    BY DEF BudgetInv, Fits
  <2>. DEFINE most == Max({1, scenario.max_steps})
  <2>2. /\ MaxSteps(r) \in Int /\ most \in Int /\ scenario.max_steps \in Int
        /\ MaxSteps(r) <= scenario.max_steps
        /\ scenario.max_steps <= most
        /\ 1 <= most
    BY <1>1, NeverMoreSteps, ScenarioAssumption
  <2>. HIDE DEF n, most
  <2>3. n + 1 <= most
    BY <1>7, <2>1, <2>2
  <2>. QED BY <2>2, <2>3 DEF most
<1>9. Fits(r, pc'[r], Len(searches'[r]))
  <2>1. Len(searches'[r]) = n + 1
    BY <1>5, <1>6
  <2>2. pc'[r] = IF Spent(n + 1, MaxSteps(r)) THEN "answer" ELSE "plan"
    BY <1>1, <1>7
  <2>. HIDE DEF n
  <2>. QED BY <1>7, <1>8, <2>1, <2>2 DEF Fits, Spent
<1>10. \A q \in Requests \ {r} : Fits(q, pc'[q], Len(searches'[q]))
  BY <1>1, <1>6, <1>7 DEF BudgetInv
<1>11. \A q \in Requests : \A at, m : Fits(q, at, m)' <=> Fits(q, at, m)
  BY DEF Fits, MaxSteps
<1>12. \A q \in Requests : \E T : searches'[q] \in Seq(T)
  BY <1>5, <1>6 DEF BudgetInv
<1>13. searches' = [q \in Requests |-> searches'[q]]
  BY <1>3 DEF BudgetInv
<1>. QED BY <1>9, <1>10, <1>11, <1>12, <1>13 DEF BudgetInv

LEMMA BudgetInductive == BudgetInv /\ [Next]_agentVars => BudgetInv'
<1>. SUFFICES ASSUME BudgetInv, [Next]_agentVars PROVE BudgetInv'
  OBVIOUS
<1>1. KeysInv' /\ KeysInv
  BY KeysInductive DEF BudgetInv
<1>2. pc \in [Requests -> Places]
  BY <1>1 DEF KeysInv
<1>3. CASE UNCHANGED <<scenario, pc, searches>>
  <2>1. \A q \in Requests : \A at, n : Fits(q, at, n)' <=> Fits(q, at, n)
    BY <1>3 DEF Fits, MaxSteps
  <2>. QED BY <1>1, <1>3, <2>1 DEF BudgetInv
<1>4. ASSUME NEW r \in Requests, NEW place \in {"refused", "failed", "done", "rerank"},
             pc' = [pc EXCEPT ![r] = place], UNCHANGED <<scenario, searches>>,
             place = "rerank" => pc[r] = "search"
      PROVE  BudgetInv'
  <2>1. Fits(r, place, Len(searches[r]))
    BY <1>4 DEF BudgetInv, Fits
  <2>. QED BY <1>1, <1>4, <2>1, MovingKeepsBudget
<1>5. ASSUME NEW r \in Requests, NEW place \in {"refresh", "search"},
             pc' = [pc EXCEPT ![r] = place], UNCHANGED <<scenario, searches>>,
             pc[r] \in {"sent", "refresh"}
      PROVE  BudgetInv'
  <2>1. Fits(r, place, Len(searches[r]))
    BY <1>5 DEF BudgetInv, Fits
  <2>. QED BY <1>1, <1>5, <2>1, MovingKeepsBudget
<1>6. ASSUME NEW r \in Requests, KeyStep(r) PROVE BudgetInv'
  <2>1. /\ UNCHANGED <<scenario, searches>>
        /\ pc[r] \in {"sent", "refresh"}
    BY <1>6 DEF KeyStep, LoopUnchanged, Authenticate, Refresh
  <2>2. \A row, a : Admitted(row, a) \in {"refused", "done", "search"}
    BY DEF Admitted
  <2>3. \E place \in {"refused", "refresh", "done", "search"} : pc' = [pc EXCEPT ![r] = place]
    BY <1>6, <2>2 DEF KeyStep, Authenticate, Refresh
  <2>. QED BY <1>4, <1>5, <2>1, <2>3
<1>7. ASSUME NEW r \in Requests, Search(r) PROVE BudgetInv'
  <2>1. pc[r] = "search" /\ scenario' = scenario
    BY <1>7 DEF Search
  <2>2. \/ \E rows \in scenario.lists : Merge(r, rows)
        \/ pc' = [pc EXCEPT ![r] = "rerank"] /\ searches' = searches
    BY <1>7 DEF Search
  <2>. QED BY <1>1, <1>4, <2>1, <2>2, MergingKeepsBudget
<1>8. ASSUME NEW r \in Requests, ApiReranks(r) \/ ChatReranks(r) PROVE BudgetInv'
  <2>1. /\ pc[r] = "rerank" /\ scenario' = scenario
        /\ \E rows : Merge(r, rows)
    BY <1>8 DEF ApiReranks, ChatReranks
  <2>. QED BY <1>1, <2>1, MergingKeepsBudget
<1>9. ASSUME NEW r \in Requests, Plan(r) PROVE BudgetInv'
  <2>1. /\ pc[r] = "plan" /\ UNCHANGED <<scenario, searches>>
        /\ \E place \in {"answer", "search"} : pc' = [pc EXCEPT ![r] = place]
    BY <1>9 DEF Plan
  <2>2. Len(searches[r]) < MaxSteps(r) /\ Len(searches[r]) <= Max({1, scenario.max_steps})
    BY <2>1 DEF BudgetInv, Fits
  <2>3. Len(searches[r]) >= 1
    BY <2>1 DEF BudgetInv, Fits
  <2>4. \A place \in {"answer", "search"} : Fits(r, place, Len(searches[r]))
    BY <2>2, <2>3 DEF Fits
  <2>. QED BY <1>1, <2>1, <2>4, MovingKeepsBudget
<1>10. ASSUME NEW r \in Requests, Answer(r) \/ Fail(r) PROVE BudgetInv'
  <2>1. /\ UNCHANGED <<scenario, searches>>
        /\ \E place \in {"done", "failed"} : pc' = [pc EXCEPT ![r] = place]
    BY <1>10 DEF Answer, Fail
  <2>. QED BY <1>4, <2>1
<1>11. ASSUME NEW call \in Calls, JudgeReplies(call) PROVE BudgetInv'
  <2>1. /\ UNCHANGED <<scenario, searches>>
        /\ pc' = pc \/ pc' = [pc EXCEPT ![call[1]] = "failed"]
        /\ call[1] \in Requests
    BY <1>11 DEF JudgeReplies, Calls
  <2>. QED BY <1>3, <1>4, <2>1
<1>12. CASE Command
  BY <1>3, <1>12 DEF Command, LoopUnchanged, CreateTenant, CreateKey, RevokeKey, TimePasses
<1>13. CASE UNCHANGED agentVars
  BY <1>3, <1>13 DEF agentVars, keysVars
<1>. QED BY <1>6, <1>7, <1>8, <1>9, <1>10, <1>11, <1>12, <1>13 DEF Next, Step

\* No run of the loop searches more often than settings and request allow, but once at least,
\* and the planner is never asked when it may not search again.
THEOREM BudgetIsKept == Spec => []WithinBudget
<1>1. BudgetInv /\ [Next]_agentVars => BudgetInv'
  BY BudgetInductive
<1>. QED BY <1>1, BudgetInitially, BudgetInvImplies, PTL DEF Spec

-----------------------------------------------------------------------------
(* The judge's slots. *)

CallIds == Requests \X (Nat \ {0})

Working == inFlight \cup {waiting[k] : k \in 1..Len(waiting)}

\* SlotsConserved, and what keeps it: no call is twice among those in flight and those waiting.
SlotsInv ==
    /\ free \in Nat
    /\ inFlight \subseteq CallIds /\ IsFiniteSet(inFlight)
    /\ waiting \in Seq(CallIds)
    /\ free + Cardinality(inFlight) = MaxParallelJudgements
    /\ waiting # <<>> => free = 0
    /\ \A k \in 1..Len(waiting) : waiting[k] \notin inFlight
    /\ \A j, k \in 1..Len(waiting) : waiting[j] = waiting[k] => j = k

LEMMA ReleaseKeepsSlots ==
    ASSUME SlotsInv, NEW call \in inFlight, Release(call)
    PROVE  SlotsInv' /\ Working' \subseteq Working \ {call}
<1>. USE DEF SlotsInv
<1>1. /\ Cardinality(inFlight) \in Nat
      /\ IsFiniteSet(inFlight \ {call})
      /\ Cardinality(inFlight \ {call}) = Cardinality(inFlight) - 1
  BY FS_CardinalityType, FS_RemoveElement
<1>2. CASE waiting = <<>>
  <2>1. /\ free' = free + 1 /\ inFlight' = inFlight \ {call} /\ waiting' = waiting
    BY <1>2 DEF Release
  <2>. QED BY <1>1, <1>2, <2>1 DEF Working
<1>3. CASE waiting # <<>>
  <2>. DEFINE first == waiting[1]
  <2>1. /\ inFlight' = (inFlight \ {call}) \cup {first}
        /\ waiting' = Tail(waiting) /\ free' = free
    BY <1>3 DEF Release
  <2>2. /\ Len(waiting) \in Nat \ {0}
        /\ first \in CallIds /\ first \notin inFlight
    BY <1>3, EmptySeq, ElementOfSeq
  <2>3. /\ waiting' \in Seq(CallIds)
        /\ Len(waiting') = Len(waiting) - 1
        /\ \A k \in 1..Len(waiting') : waiting'[k] = waiting[k + 1]
    BY <1>3, <2>1, HeadTailProperties
  <2>4. /\ IsFiniteSet(inFlight')
        /\ Cardinality(inFlight') = Cardinality(inFlight)
    <3>1. /\ IsFiniteSet(inFlight')
          /\ Cardinality(inFlight') = Cardinality(inFlight \ {call}) + 1
      BY <1>1, <2>1, <2>2, FS_AddElement
    <3>. QED BY <1>1, <3>1
  <2>5. free' = 0
    BY <1>3, <2>1
  <2>6. \A k \in 1..Len(waiting') : /\ k + 1 \in 1..Len(waiting)
                                    /\ waiting'[k] # first /\ waiting'[k] \notin inFlight
    <3>. SUFFICES ASSUME NEW k \in 1..Len(waiting')
                  PROVE  /\ k + 1 \in 1..Len(waiting)
                         /\ waiting'[k] # first /\ waiting'[k] \notin inFlight
      OBVIOUS
    <3>1. k + 1 \in 1..Len(waiting) /\ 1 \in 1..Len(waiting) /\ k + 1 # 1
      BY <2>2, <2>3
    <3>2. waiting'[k] = waiting[k + 1]
      BY <2>3
    <3>. QED BY <3>1, <3>2
  <2>7. \A k \in 1..Len(waiting') : waiting'[k] \notin inFlight'
    BY <2>1, <2>6
  <2>8. \A j, k \in 1..Len(waiting') : waiting'[j] = waiting'[k] => j = k
    <3>. SUFFICES ASSUME NEW j \in 1..Len(waiting'), NEW k \in 1..Len(waiting'),
                         waiting'[j] = waiting'[k]
                  PROVE  j = k
      OBVIOUS
    <3>1. j + 1 = k + 1
      BY <2>3, <2>6
    <3>. QED BY <3>1
  <2>9. Working' \subseteq Working \ {call}
    <3>1. \A k \in 1..Len(waiting') : waiting'[k] \in Working \ {call}
      BY <2>3, <2>6 DEF Working
    <3>2. inFlight' \subseteq Working \ {call}
      BY <2>1, <2>2 DEF Working
    <3>. QED BY <3>1, <3>2 DEF Working
  <2>. QED BY <1>1, <2>1, <2>2, <2>3, <2>4, <2>5, <2>7, <2>8, <2>9
<1>. QED BY <1>2, <1>3

LEMMA FirstRows ==
    ASSUME NEW S, NEW rows \in Seq(S), NEW most \in Nat, NEW n, n = Min({most, Len(rows)})
    PROVE  /\ n \in Nat /\ n <= Len(rows) /\ n <= most /\ n \in {most, Len(rows)}
           /\ SubSeq(rows, 1, n) \in Seq(S)
           /\ Len(SubSeq(rows, 1, n)) = n
           /\ \A i \in 1..n : SubSeq(rows, 1, n)[i] = rows[i]
<1>1. Len(rows) \in Nat
  BY LenProperties
<1>2. n \in Nat /\ n <= Len(rows) /\ n <= most /\ n \in {most, Len(rows)}
  <2>1. most \in Int /\ Len(rows) \in Int
    BY <1>1
  <2>2. n \in {most, Len(rows)} /\ n <= Len(rows) /\ n <= most
    BY <2>1, MinOfTwo
  <2>. QED BY <1>1, <2>2
<1>. QED BY <1>2, Beginning

LEMMA RatedLength ==
    ASSUME NEW S, NEW rows \in Seq(S)
    PROVE  Len(Rated(rows)) \in Nat
BY FirstRows, JudgeSettings DEF Rated

\* The calls of one request, up to the nth: as many as that.
CallsUpTo(r, n) == {<<r, i>> : i \in 1..n}

LEMMA CallsOfOne ==
    ASSUME NEW r, NEW n \in Nat
    PROVE  /\ IsFiniteSet(CallsUpTo(r, n))
           /\ Cardinality(CallsUpTo(r, n)) = n
<1>. DEFINE calls == CallsUpTo(r, n)
           f == [i \in 1..n |-> <<r, i>>]
<1>1. IsFiniteSet(1..n) /\ Cardinality(1..n) = n
  BY FS_Interval
<1>2. f \in Bijection(1..n, calls)
  BY DEF Bijection, Injection, Surjection, IsInjective, CallsUpTo
<1>3. ExistsBijection(1..n, calls)
  BY <1>2 DEF ExistsBijection
<1>. QED BY <1>1, <1>3, FS_Bijection

LEMMA StartKeepsSlots ==
    ASSUME SlotsInv, NEW r \in Requests, NEW S, NEW rows \in Seq(S), StartCalls(r, rows),
           \A call \in Working : call[1] # r
    PROVE  /\ SlotsInv'
           /\ Len(Rated(rows)) \in Nat
           /\ Working' \subseteq Working \cup CallsUpTo(r, Len(Rated(rows)))
<1>. USE DEF SlotsInv
<1>. DEFINE n == Len(Rated(rows))
           now == IF waiting = <<>> THEN Min({free, n}) ELSE 0
           started == CallsUpTo(r, now)
           more == [k \in 1..(n - now) |-> <<r, now + k>>]
<1>1. n \in Nat
  BY RatedLength
<1>2. /\ free' = free - now
      /\ inFlight' = inFlight \cup started
      /\ waiting' = waiting \o more
  BY DEF StartCalls, CallsUpTo
<1>3. /\ now \in Nat /\ now <= n /\ now <= free
      /\ now < n => free - now = 0
      /\ waiting # <<>> => now = 0 /\ free = 0
  <2>. HIDE DEF n
  <2>1. CASE waiting = <<>>
    <3>0. free \in Int /\ n \in Int
      BY <1>1
    <3>1. Min({free, n}) \in {free, n} /\ Min({free, n}) <= free /\ Min({free, n}) <= n
      BY <3>0, MinOfTwo
    <3>. QED BY <1>1, <2>1, <3>1
  <2>2. CASE waiting # <<>>
    BY <1>1, <2>2
  <2>. QED BY <2>1, <2>2
<1>. HIDE DEF n, now
<1>4. IsFiniteSet(started) /\ Cardinality(started) = now
  BY <1>3, CallsOfOne
<1>5. inFlight \cap started = {}
  BY DEF Working, CallsUpTo
<1>6. /\ IsFiniteSet(inFlight')
      /\ Cardinality(inFlight') = Cardinality(inFlight) + now
  <2>1. Cardinality(inFlight) \in Nat
    BY FS_CardinalityType
  <2>2. Cardinality(inFlight \cap started) = 0
    BY <1>5, FS_EmptySet
  <2>3. /\ IsFiniteSet(inFlight \cup started)
        /\ Cardinality(inFlight \cup started)
              = Cardinality(inFlight) + Cardinality(started) - Cardinality(inFlight \cap started)
    BY <1>4, FS_Union
  <2>. QED BY <1>2, <1>3, <1>4, <2>1, <2>2, <2>3
<1>7. /\ more \in Seq(CallIds) /\ Len(more) = n - now
      /\ \A k \in 1..Len(more) : more[k] = <<r, now + k>>
  <2>1. n - now \in Nat
    BY <1>1, <1>3
  <2>2. \A k \in 1..(n - now) : <<r, now + k>> \in CallIds
    BY <1>3, <2>1 DEF CallIds
  <2>. QED BY <2>1, <2>2
<1>. HIDE DEF more
<1>8. /\ waiting' \in Seq(CallIds)
      /\ Len(waiting') = Len(waiting) + Len(more)
      /\ \A k \in 1..Len(waiting') :
            waiting'[k] = IF k <= Len(waiting) THEN waiting[k] ELSE more[k - Len(waiting)]
  <2>1. waiting \in Seq(CallIds)
    OBVIOUS
  <2>2. /\ waiting \o more \in Seq(CallIds)
        /\ Len(waiting \o more) = Len(waiting) + Len(more)
        /\ \A k \in 1..(Len(waiting) + Len(more)) :
              (waiting \o more)[k] = IF k <= Len(waiting) THEN waiting[k] ELSE more[k - Len(waiting)]
    BY <1>7, <2>1, ConcatProperties, ZenonT(30)
  <2>. QED BY <1>2, <2>2
<1>9. Len(waiting) \in Nat
  BY LenProperties
<1>10. \A k \in 1..Len(waiting') :
          \/ k \in 1..Len(waiting) /\ waiting'[k] = waiting[k]
          \/ /\ k - Len(waiting) \in 1..(n - now)
             /\ waiting'[k] = <<r, now + (k - Len(waiting))>>
  <2>. SUFFICES ASSUME NEW k \in 1..Len(waiting')
                PROVE  \/ k \in 1..Len(waiting) /\ waiting'[k] = waiting[k]
                       \/ /\ k - Len(waiting) \in 1..(n - now)
                          /\ waiting'[k] = <<r, now + (k - Len(waiting))>>
    OBVIOUS
  <2>1. CASE k <= Len(waiting)
    BY <1>8, <1>9, <2>1
  <2>2. CASE ~(k <= Len(waiting))
    <3>1. waiting'[k] = more[k - Len(waiting)]
      BY <1>8, <2>2
    <3>2. k - Len(waiting) \in 1..(n - now)
      BY <1>1, <1>3, <1>7, <1>8, <1>9, <2>2
    <3>. QED BY <1>7, <3>1, <3>2
  <2>. QED BY <2>1, <2>2
<1>11. \A k \in 1..Len(waiting) : waiting[k][1] # r
  BY DEF Working
<1>12. \A k \in 1..Len(waiting') : waiting'[k] \notin inFlight'
  <2>. SUFFICES ASSUME NEW k \in 1..Len(waiting') PROVE waiting'[k] \notin inFlight \cup started
    BY <1>2
  <2>1. CASE k \in 1..Len(waiting) /\ waiting'[k] = waiting[k]
    BY <1>11, <2>1 DEF CallsUpTo
  <2>2. CASE /\ k - Len(waiting) \in 1..(n - now)
             /\ waiting'[k] = <<r, now + (k - Len(waiting))>>
    <3>1. now + (k - Len(waiting)) > now
      BY <1>1, <1>3, <1>9, <2>2
    <3>2. waiting'[k] \notin started
      BY <1>3, <2>2, <3>1 DEF CallsUpTo
    <3>3. waiting'[k] \notin inFlight
      BY <2>2 DEF Working
    <3>. QED BY <3>2, <3>3
  <2>. QED BY <1>10, <2>1, <2>2
<1>13. \A j, k \in 1..Len(waiting') : waiting'[j] = waiting'[k] => j = k
  <2>. SUFFICES ASSUME NEW j \in 1..Len(waiting'), NEW k \in 1..Len(waiting'),
                       waiting'[j] = waiting'[k]
                PROVE  j = k
    OBVIOUS
  <2>. DEFINE Old(i) == i \in 1..Len(waiting) /\ waiting'[i] = waiting[i]
             New(i) == /\ i - Len(waiting) \in 1..(n - now)
                       /\ waiting'[i] = <<r, now + (i - Len(waiting))>>
  <2>1. (Old(j) \/ New(j)) /\ (Old(k) \/ New(k))
    BY <1>10
  <2>2. CASE Old(j) /\ Old(k)
    BY <2>2
  <2>3. CASE (Old(j) /\ New(k)) \/ (New(j) /\ Old(k))
    BY <1>11, <2>3
  <2>4. CASE New(j) /\ New(k)
    <3>. DEFINE a == now + (j - Len(waiting))
                b == now + (k - Len(waiting))
    <3>1. <<r, a>> = <<r, b>>
      BY <2>4
    <3>2. a = b
      <4>. HIDE DEF a, b
      <4>. QED BY <3>1
    <3>. QED BY <1>3, <1>9, <3>2
  <2>. QED BY <2>1, <2>2, <2>3, <2>4
<1>14. started \subseteq CallIds /\ inFlight' \subseteq CallIds
  BY <1>2, <1>3 DEF CallIds, CallsUpTo
<1>15. waiting' # <<>> => free' = 0
  <2>. SUFFICES ASSUME free' # 0 PROVE waiting' = <<>>
    OBVIOUS
  <2>1. waiting = <<>> /\ n - now = 0
    BY <1>1, <1>2, <1>3
  <2>2. Len(waiting') = 0
    BY <1>7, <1>8, <2>1
  <2>. QED BY <1>8, <2>2, EmptySeq
<1>16. free' \in Nat /\ free' + Cardinality(inFlight') = MaxParallelJudgements
  <2>1. Cardinality(inFlight) \in Nat
    BY FS_CardinalityType
  <2>. QED BY <1>2, <1>3, <1>6, <2>1
<1>17. Working' \subseteq Working \cup CallsUpTo(r, n)
  <2>1. \A k \in 1..Len(waiting') : waiting'[k] \in Working \cup CallsUpTo(r, n)
    <3>. SUFFICES ASSUME NEW k \in 1..Len(waiting')
                  PROVE  waiting'[k] \in Working \cup CallsUpTo(r, n)
      OBVIOUS
    <3>1. CASE k \in 1..Len(waiting) /\ waiting'[k] = waiting[k]
      BY <3>1 DEF Working
    <3>2. CASE /\ k - Len(waiting) \in 1..(n - now)
               /\ waiting'[k] = <<r, now + (k - Len(waiting))>>
      <4>1. now + (k - Len(waiting)) \in 1..n
        BY <1>1, <1>3, <1>9, <3>2
      <4>. QED BY <3>2, <4>1 DEF CallsUpTo
    <3>. QED BY <1>10, <3>1, <3>2
  <2>2. inFlight' \subseteq Working \cup CallsUpTo(r, n)
    BY <1>1, <1>2, <1>3 DEF Working, CallsUpTo
  <2>. QED BY <2>1, <2>2 DEF Working
<1>. QED BY <1>1, <1>6, <1>8, <1>12, <1>13, <1>14, <1>15, <1>16, <1>17 DEF n

Given == 0..2 \cup {Unrated, Malformed, Pending}

\* Why a slot is asked for once: a call at work is a place its request has no reply at, and a
\* request whose calls are at work reranks, or has failed.
Owed(call) ==
    /\ scenario.backend = "chat"
    /\ pc[call[1]] \in {"rerank", "failed"}
    /\ call[2] \in 1..Len(answers[call[1]])
    /\ answers[call[1]][call[2]] = Pending

JudgeInv ==
    /\ KeysInv
    /\ SlotsInv
    /\ answers \in [Requests -> Seq(Given)]
    /\ \A call \in Working : Owed(call)

LEMMA JudgeInitially == Init => JudgeInv
<1>. SUFFICES ASSUME Init PROVE JudgeInv
  OBVIOUS
<1>1. /\ free = MaxParallelJudgements /\ inFlight = {} /\ waiting = <<>>
      /\ answers = [r \in Requests |-> <<>>]
  BY DEF Init
<1>2. <<>> \in Seq(CallIds) /\ <<>> \in Seq(Given) /\ Len(<<>>) = 0
  BY EmptySeq
<1>3. Cardinality({}) = 0 /\ IsFiniteSet({})
  BY FS_EmptySet
<1>4. free \in Nat /\ free + Cardinality(inFlight) = MaxParallelJudgements
  BY <1>1, <1>3, JudgeSettings
<1>5. SlotsInv
  BY <1>1, <1>2, <1>3, <1>4 DEF SlotsInv
<1>6. answers \in [Requests -> Seq(Given)]
  BY <1>1, <1>2
<1>7. Working = {}
  BY <1>1, <1>2 DEF Working
<1>. QED BY <1>5, <1>6, <1>7, KeysInvInitially DEF JudgeInv

LEMMA WorkingCalls == SlotsInv => Working \subseteq CallIds
<1>. SUFFICES ASSUME SlotsInv PROVE Working \subseteq CallIds
  OBVIOUS
<1>1. \A k \in 1..Len(waiting) : waiting[k] \in CallIds
  BY ElementOfSeq DEF SlotsInv
<1>. QED BY <1>1 DEF SlotsInv, Working

\* A request that does not rerank, or has all its replies, has no call at work.
LEMMA NoneAtWork ==
    ASSUME JudgeInv, NEW r \in Requests,
           \/ pc[r] \notin {"rerank", "failed"}
           \/ scenario.backend # "chat"
           \/ AllAnswered(r)
    PROVE  \A call \in Working : call[1] # r
<1>. SUFFICES ASSUME NEW call \in Working, call[1] = r PROVE FALSE
  OBVIOUS
<1>1. /\ pc[r] \in {"rerank", "failed"} /\ scenario.backend = "chat"
      /\ call[2] \in 1..Len(answers[r]) /\ answers[r][call[2]] = Pending
  BY DEF JudgeInv, Owed
<1>2. answers[r] \in Seq(Given)
  BY DEF JudgeInv
<1>3. DOMAIN answers[r] = 1..Len(answers[r])
  BY <1>2, LenProperties
<1>4. Pending \in Range(answers[r])
  BY <1>1, <1>3 DEF Range
<1>. QED BY <1>1, <1>4 DEF AllAnswered

\* A step of a request without calls at work, that starts none.
LEMMA OthersKeepJudge ==
    ASSUME JudgeInv, KeysInv', NEW r \in Requests,
           UNCHANGED <<scenario, free, inFlight, waiting, answers>>,
           \A q \in Requests \ {r} : pc'[q] = pc[q],
           \A call \in Working : call[1] # r
    PROVE  JudgeInv'
<1>1. SlotsInv' /\ Working' = Working /\ Working \subseteq CallIds
  BY WorkingCalls DEF JudgeInv, SlotsInv, Working
<1>2. ASSUME NEW call \in Working PROVE Owed(call)'
  <2>1. call[1] \in Requests \ {r}
    BY <1>1 DEF CallIds
  <2>. QED BY <2>1 DEF JudgeInv, Owed
<1>3. (answers \in [Requests -> Seq(Given)])'
  BY DEF JudgeInv
<1>. QED BY <1>1, <1>2, <1>3 DEF JudgeInv

LEMMA StartKeepsJudge ==
    ASSUME JudgeInv, KeysInv', NEW r \in Requests, NEW rows \in scenario.lists,
           pc[r] = "search", pc' = [pc EXCEPT ![r] = "rerank"], scenario' = scenario,
           scenario.backend = "chat", StartCalls(r, rows)
    PROVE  JudgeInv'
<1>. DEFINE n == Len(Rated(rows))
            S == [chunk : Chunks, score : Nat]
<1>1. rows \in Seq(S)
  BY ScenarioAssumption DEF JudgeInv, KeysInv
<1>2. \A call \in Working : call[1] # r
  BY NoneAtWork
<1>3. SlotsInv
  BY DEF JudgeInv
<1>4. SlotsInv' /\ n \in Nat /\ Working' \subseteq Working \cup CallsUpTo(r, n)
  <2>. HIDE DEF S
  <2>. QED BY <1>1, <1>2, <1>3, StartKeepsSlots
<1>5. answers' = [answers EXCEPT ![r] = [i \in 1..n |-> Pending]]
  BY DEF StartCalls
<1>. HIDE DEF n
<1>6. /\ [i \in 1..n |-> Pending] \in Seq(Given)
      /\ Len([i \in 1..n |-> Pending]) = n
  BY <1>4 DEF Given
<1>7. (answers \in [Requests -> Seq(Given)])'
  BY <1>5, <1>6 DEF JudgeInv
<1>8. ASSUME NEW call \in Working' PROVE Owed(call)'
  <2>1. CASE call \in Working
    <3>1. call[1] \in Requests \ {r}
      BY <1>2, <1>3, <2>1, WorkingCalls DEF CallIds
    <3>2. Owed(call)
      BY <2>1 DEF JudgeInv
    <3>3. pc'[call[1]] = pc[call[1]] /\ answers'[call[1]] = answers[call[1]]
      BY <1>5, <3>1 DEF JudgeInv, KeysInv
    <3>. QED BY <3>2, <3>3 DEF Owed
  <2>2. CASE call \in CallsUpTo(r, n)
    <3>1. PICK i \in 1..n : call = <<r, i>>
      BY <2>2 DEF CallsUpTo
    <3>2. pc'[r] = "rerank" /\ answers'[r] = [j \in 1..n |-> Pending]
      BY <1>5 DEF JudgeInv, KeysInv
    <3>3. call[1] = r /\ call[2] = i
      BY <3>1
    <3>4. answers'[r][i] = Pending /\ i \in 1..Len(answers'[r])
      BY <1>6, <3>2
    <3>. QED BY <3>2, <3>3, <3>4 DEF Owed
  <2>. QED BY <1>4, <2>1, <2>2
<1>. QED BY <1>4, <1>7, <1>8 DEF JudgeInv

LEMMA RepliesKeepJudge ==
    ASSUME JudgeInv, KeysInv', NEW call \in Calls, JudgeReplies(call)
    PROVE  JudgeInv'
<1>1. PICK reply \in Given :
          /\ Reply(call, reply)
          /\ pc' = IF reply = Malformed /\ pc[call[1]] = "rerank"
                      THEN [pc EXCEPT ![call[1]] = "failed"] ELSE pc
  BY DEF JudgeReplies, Given
<1>. DEFINE p == call[1]
            i == call[2]
<1>2. call \in inFlight /\ Release(call) /\ scenario' = scenario
  BY <1>1 DEF Reply, JudgeReplies
<1>3. SlotsInv' /\ Working' \subseteq Working \ {call}
  BY <1>2, ReleaseKeepsSlots DEF JudgeInv
<1>4. p \in Requests /\ call = <<p, i>>
  BY DEF Calls
<1>5. answers' = [answers EXCEPT ![p] = [answers[p] EXCEPT ![i] = reply]]
  BY <1>1 DEF Reply
<1>6. Owed(call)
  BY <1>2 DEF JudgeInv, Working
<1>7. answers[p] \in Seq(Given) /\ i \in 1..Len(answers[p])
  BY <1>4, <1>6 DEF JudgeInv, Owed
<1>. HIDE DEF p, i
<1>8. /\ [answers[p] EXCEPT ![i] = reply] \in Seq(Given)
      /\ Len([answers[p] EXCEPT ![i] = reply]) = Len(answers[p])
      /\ \A j \in 1..Len(answers[p]) :
            [answers[p] EXCEPT ![i] = reply][j] = IF j = i THEN reply ELSE answers[p][j]
  BY <1>7, ExceptSeq
<1>9. (answers \in [Requests -> Seq(Given)])'
  BY <1>5, <1>8 DEF JudgeInv
<1>10. ASSUME NEW other \in Working' PROVE Owed(other)'
  <2>1. other \in Working /\ other # call /\ Owed(other)
    BY <1>3 DEF JudgeInv
  <2>2. other[1] \in Requests /\ other = <<other[1], other[2]>>
    BY <2>1, WorkingCalls DEF JudgeInv, CallIds
  <2>3. pc'[other[1]] \in {"rerank", "failed"}
    <3>1. pc[other[1]] \in {"rerank", "failed"}
      BY <2>1 DEF Owed
    <3>2. pc' = pc \/ pc' = [pc EXCEPT ![p] = "failed"]
      BY <1>1 DEF p
    <3>. QED BY <1>4, <2>2, <3>1, <3>2 DEF JudgeInv, KeysInv
  <2>4. CASE other[1] # p
    <3>1. answers'[other[1]] = answers[other[1]]
      BY <1>5, <2>2, <2>4 DEF JudgeInv
    <3>. QED BY <1>2, <2>1, <2>3, <3>1 DEF Owed
  <2>5. CASE other[1] = p
    <3>1. other[2] # i
      BY <1>4, <2>1, <2>2, <2>5
    <3>2. other[2] \in 1..Len(answers[p]) /\ answers[p][other[2]] = Pending
      BY <2>1, <2>5 DEF Owed
    <3>3. answers'[p] = [answers[p] EXCEPT ![i] = reply]
      BY <1>4, <1>5 DEF JudgeInv
    <3>4. other[2] \in 1..Len(answers'[p]) /\ answers'[p][other[2]] = Pending
      BY <1>8, <3>1, <3>2, <3>3
    <3>. QED BY <1>2, <2>1, <2>3, <2>5, <3>4 DEF Owed
  <2>. QED BY <2>4, <2>5
<1>. QED BY <1>3, <1>9, <1>10 DEF JudgeInv

LEMMA JudgeInductive == JudgeInv /\ [Next]_agentVars => JudgeInv'
<1>. SUFFICES ASSUME JudgeInv, [Next]_agentVars PROVE JudgeInv'
  OBVIOUS
<1>1. KeysInv' /\ KeysInv
  BY KeysInductive DEF JudgeInv
<1>2. pc \in [Requests -> Places]
  BY <1>1 DEF KeysInv
<1>3. CASE UNCHANGED <<scenario, pc, judgeVars>>
  BY <1>1, <1>3 DEF JudgeInv, SlotsInv, Working, Owed, judgeVars
<1>4. ASSUME NEW r \in Requests, NEW place, pc' = [pc EXCEPT ![r] = place],
             UNCHANGED <<scenario, free, inFlight, waiting, answers>>,
             \/ pc[r] \notin {"rerank", "failed"}
             \/ scenario.backend # "chat"
             \/ AllAnswered(r)
      PROVE  JudgeInv'
  <2>1. \A call \in Working : call[1] # r
    BY <1>4, NoneAtWork
  <2>2. \A q \in Requests \ {r} : pc'[q] = pc[q]
    BY <1>2, <1>4
  <2>. QED BY <1>1, <1>4, <2>1, <2>2, OthersKeepJudge
<1>5. ASSUME NEW r \in Requests, KeyStep(r) PROVE JudgeInv'
  <2>1. /\ UNCHANGED <<scenario, free, inFlight, waiting, answers>>
        /\ pc[r] \in {"sent", "refresh"}
        /\ \E place : pc' = [pc EXCEPT ![r] = place]
    BY <1>5 DEF KeyStep, LoopUnchanged, Authenticate, Refresh, judgeVars
  <2>. QED BY <1>4, <2>1
<1>6. ASSUME NEW r \in Requests, NEW rows, Merge(r, rows) PROVE \E place : pc' = [pc EXCEPT ![r] = place]
  BY <1>6 DEF Merge
<1>7. ASSUME NEW r \in Requests, Search(r) PROVE JudgeInv'
  <2>1. PICK rows \in scenario.lists :
          \/ Merge(r, rows) /\ UNCHANGED judgeVars
          \/ /\ pc' = [pc EXCEPT ![r] = "rerank"]
             /\ UNCHANGED <<free, inFlight, waiting, answers>>
          \/ /\ scenario.backend = "chat"
             /\ pc' = [pc EXCEPT ![r] = "rerank"]
             /\ StartCalls(r, rows)
    BY <1>7 DEF Search
  <2>2. pc[r] = "search" /\ scenario' = scenario
    BY <1>7 DEF Search
  <2>3. CASE Merge(r, rows) /\ UNCHANGED judgeVars
    BY <1>4, <1>6, <2>2, <2>3 DEF judgeVars
  <2>4. CASE /\ pc' = [pc EXCEPT ![r] = "rerank"]
             /\ UNCHANGED <<free, inFlight, waiting, answers>>
    BY <1>4, <2>2, <2>4
  <2>5. CASE /\ scenario.backend = "chat"
             /\ pc' = [pc EXCEPT ![r] = "rerank"]
             /\ StartCalls(r, rows)
    BY <1>1, <2>2, <2>5, StartKeepsJudge
  <2>. QED BY <2>1, <2>3, <2>4, <2>5
<1>8. ASSUME NEW r \in Requests, ApiReranks(r) \/ ChatReranks(r) PROVE JudgeInv'
  <2>1. /\ UNCHANGED <<scenario, judgeVars>>
        /\ scenario.backend # "chat" \/ AllAnswered(r)
        /\ \E rows : Merge(r, rows)
    BY <1>8 DEF ApiReranks, ChatReranks
  <2>. QED BY <1>4, <1>6, <2>1 DEF judgeVars
<1>9. ASSUME NEW r \in Requests, Plan(r) \/ Answer(r) \/ Fail(r) PROVE JudgeInv'
  <2>1. /\ UNCHANGED <<scenario, judgeVars>>
        /\ \/ pc[r] \notin {"rerank", "failed"}
           \/ scenario.backend # "chat"
        /\ \E place : pc' = [pc EXCEPT ![r] = place]
    BY <1>9 DEF Plan, Answer, Fail
  <2>. QED BY <1>4, <2>1 DEF judgeVars
<1>10. ASSUME NEW call \in Calls, JudgeReplies(call) PROVE JudgeInv'
  BY <1>1, <1>10, RepliesKeepJudge
<1>11. CASE Command
  BY <1>3, <1>11 DEF Command, LoopUnchanged, CreateTenant, CreateKey, RevokeKey, TimePasses
<1>12. CASE UNCHANGED agentVars
  BY <1>3, <1>12 DEF agentVars, keysVars
<1>. QED BY <1>5, <1>7, <1>8, <1>9, <1>10, <1>11, <1>12 DEF Next, Step

\* No slot of the judge is lost or given twice, however many requests share them, whichever
\* calls fail, and whichever requests fail before their calls end.
THEOREM SlotsNeverLost == Spec => []SlotsConserved
<1>1. JudgeInv /\ [Next]_agentVars => JudgeInv'
  BY JudgeInductive
<1>2. JudgeInv => SlotsConserved
  BY DEF JudgeInv, SlotsInv, SlotsConserved
<1>. QED BY <1>1, <1>2, JudgeInitially, PTL DEF Spec

-----------------------------------------------------------------------------
(* The best row of each chunk. *)

RankedRows == [chunk : Chunks, score : Nat]

\* Of some rows found, one for each chunk, the best.
KeptOf(rows, S) ==
    /\ rows \in Seq(RankedRows)
    /\ S \subseteq RankedRows
    /\ \A i, j \in 1..Len(rows) : rows[i].chunk = rows[j].chunk => i = j
    /\ \A i \in 1..Len(rows) :
          /\ rows[i] \in S
          /\ \A other \in S : other.chunk = rows[i].chunk => other.score <= rows[i].score
    /\ \A row \in S : \E i \in 1..Len(rows) : rows[i].chunk = row.chunk

LEMMA KeepIsASequence ==
    ASSUME NEW rows \in Seq(RankedRows), NEW row \in RankedRows
    PROVE  Keep(rows, row) \in Seq(RankedRows)
<1>1. rows \in [1..Len(rows) -> RankedRows] /\ DOMAIN rows = 1..Len(rows) /\ Len(rows) \in Nat
  BY LenProperties
<1>2. CASE \E i \in DOMAIN rows : rows[i].chunk = row.chunk
  <2>1. Keep(rows, row) \in [1..Len(rows) -> RankedRows]
    BY <1>1, <1>2 DEF Keep
  <2>. QED BY <1>1, <2>1, SeqDef
<1>3. CASE ~\E i \in DOMAIN rows : rows[i].chunk = row.chunk
  BY <1>3, AppendProperties DEF Keep
<1>. QED BY <1>2, <1>3

LEMMA KeepKeeps ==
    ASSUME NEW rows, NEW S, KeptOf(rows, S), NEW row \in RankedRows
    PROVE  KeptOf(Keep(rows, row), S \cup {row})
<1>. DEFINE new == Keep(rows, row)
            n == Len(rows)
<1>1. rows \in [1..n -> RankedRows] /\ DOMAIN rows = 1..n /\ n \in Nat
  BY LenProperties DEF KeptOf
<1>2. new \in Seq(RankedRows)
  BY KeepIsASequence DEF KeptOf
<1>3. CASE \E i \in 1..n : rows[i].chunk = row.chunk
  <2>1. new = [i \in 1..n |-> IF rows[i].chunk = row.chunk /\ row.score > rows[i].score THEN row ELSE rows[i]]
    BY <1>1, <1>3 DEF Keep
  <2>2. Len(new) = n
    BY <1>1, <2>1
  <2>. HIDE DEF new, n
  <2>3. \A i \in 1..n : new[i].chunk = rows[i].chunk
    BY <2>1
  <2>4. ASSUME NEW i \in 1..n
        PROVE  /\ new[i] \in S \cup {row}
               /\ \A other \in S \cup {row} : other.chunk = new[i].chunk => other.score <= new[i].score
    <3>1. rows[i] \in RankedRows /\ rows[i].score \in Nat /\ row.score \in Nat
      BY <1>1 DEF RankedRows
    <3>2. /\ rows[i] \in S
          /\ \A other \in S : other.chunk = rows[i].chunk => other.score <= rows[i].score
      BY DEF KeptOf, n
    <3>3. \A other \in S : other.score \in Nat
      BY DEF KeptOf, RankedRows
    <3>4. CASE rows[i].chunk = row.chunk /\ row.score > rows[i].score
      <4>1. new[i] = row
        BY <2>1, <3>4
      <4>2. \A other \in S : other.chunk = row.chunk => other.score <= row.score
        BY <3>1, <3>2, <3>3, <3>4
      <4>. QED BY <3>1, <4>1, <4>2
    <3>5. CASE ~(rows[i].chunk = row.chunk /\ row.score > rows[i].score)
      <4>1. new[i] = rows[i]
        BY <2>1, <3>5
      <4>2. row.chunk = rows[i].chunk => row.score <= rows[i].score
        BY <3>1, <3>5
      <4>. QED BY <3>2, <4>1, <4>2
    <3>. QED BY <3>4, <3>5
  <2>5. \A i, j \in 1..n : new[i].chunk = new[j].chunk => i = j
    BY <2>3 DEF KeptOf, n
  <2>6. \A r \in S \cup {row} : \E i \in 1..n : new[i].chunk = r.chunk
    BY <1>3, <2>3 DEF KeptOf, n
  <2>7. S \cup {row} \subseteq RankedRows
    BY DEF KeptOf
  <2>. QED BY <1>2, <2>2, <2>4, <2>5, <2>6, <2>7 DEF KeptOf, new
<1>4. CASE ~\E i \in 1..n : rows[i].chunk = row.chunk
  <2>1. new = Append(rows, row)
    BY <1>1, <1>4 DEF Keep
  <2>2. /\ Len(new) = n + 1
        /\ \A i \in 1..n : new[i] = rows[i]
        /\ new[n + 1] = row
    BY <2>1, AppendProperties DEF KeptOf
  <2>. HIDE DEF new, n
  <2>3. \A i \in 1..(n + 1) : i \in 1..n \/ i = n + 1
    BY <1>1
  <2>4. ASSUME NEW i \in 1..(n + 1), NEW j \in 1..(n + 1), new[i].chunk = new[j].chunk PROVE i = j
    <3>1. CASE i \in 1..n /\ j \in 1..n
      BY <2>2, <2>4, <3>1 DEF KeptOf, n
    <3>2. CASE i = n + 1 /\ j \in 1..n
      BY <1>4, <2>2, <2>4, <3>2
    <3>3. CASE i \in 1..n /\ j = n + 1
      BY <1>4, <2>2, <2>4, <3>3
    <3>. QED BY <2>3, <3>1, <3>2, <3>3
  <2>5. ASSUME NEW i \in 1..(n + 1)
        PROVE  /\ new[i] \in S \cup {row}
               /\ \A other \in S \cup {row} : other.chunk = new[i].chunk => other.score <= new[i].score
    <3>1. CASE i \in 1..n
      <4>1. new[i] = rows[i] /\ rows[i].chunk # row.chunk
        BY <1>4, <2>2, <3>1
      <4>. QED BY <4>1, <3>1 DEF KeptOf, n
    <3>2. CASE i = n + 1
      <4>1. new[i] = row
        BY <2>2, <3>2
      <4>2. \A other \in S : other.chunk # row.chunk
        BY <1>4 DEF KeptOf, n
      <4>3. row.score <= row.score
        BY DEF RankedRows
      <4>. QED BY <4>1, <4>2, <4>3
    <3>. QED BY <2>3, <3>1, <3>2
  <2>6. \A r \in S \cup {row} : \E i \in 1..(n + 1) : new[i].chunk = r.chunk
    <3>1. \A r \in S : \E i \in 1..n : rows[i].chunk = r.chunk
      BY DEF KeptOf, n
    <3>2. \A i \in 1..n : i \in 1..(n + 1)
      BY <1>1
    <3>3. n + 1 \in 1..(n + 1)
      BY <1>1
    <3>. QED BY <2>2, <3>1, <3>2, <3>3
  <2>7. S \cup {row} \subseteq RankedRows
    BY DEF KeptOf
  <2>. QED BY <1>2, <2>2, <2>4, <2>5, <2>6, <2>7 DEF KeptOf, new
<1>. QED BY <1>3, <1>4

\* FoldLeft(Keep, ...), a row at a time.
LEMMA KeepSteps ==
    ASSUME NEW first \in Seq(RankedRows), NEW rows \in Seq(RankedRows)
    PROVE  \E h : /\ h \in [0..Len(rows) -> Seq(RankedRows)]
                  /\ h[0] = first
                  /\ \A k \in 1..Len(rows) : h[k] = Keep(h[k - 1], rows[k])
                  /\ h[Len(rows)] = FoldLeft(Keep, first, rows)
<1>. DEFINE n == Len(rows)
            B == Seq(RankedRows)
            g == [p \in B \X (1..n) |-> Keep(p[1], rows[p[2]])]
            Is(it) == it = [s \in SUBSET DOMAIN rows |->
                               IF s = {} THEN first ELSE Keep(it[s \ {Max(s)}], rows[Max(s)])]
            f == CHOOSE it : Is(it)
<1>1. n \in Nat /\ DOMAIN rows = 1..n /\ \A k \in 1..n : rows[k] \in RankedRows
  BY LenProperties
<1>2. g \in [B \X (1..n) -> B]
  BY <1>1, KeepIsASequence
<1>3. PICK it \in [SUBSET (1..n) -> B] : Folding(it, 1..n, first, g)
  BY <1>1, <1>2, FoldingExists
<1>4. \A s \in SUBSET (1..n) : s # {} =>
         Max(s) \in 1..n /\ s \ {Max(s)} \in SUBSET (1..n)
  BY <1>1, GreatestPlace
<1>5. \A s \in SUBSET (1..n) : s # {} =>
         g[<<it[s \ {Max(s)}], Max(s)>>] = Keep(it[s \ {Max(s)}], rows[Max(s)])
  BY <1>4
<1>6. Is(it)
  BY <1>1, <1>3, <1>5 DEF Folding
<1>7. Is(f)
  BY <1>6
<1>8. FoldLeft(Keep, first, rows) = f[1..n]
  BY <1>1 DEF FoldLeft, MapThenFoldSet
<1>. HIDE DEF f
<1>9. f[{}] = first
  BY <1>7
<1>10. \A k \in 1..n : f[1..k] = Keep(f[1..(k - 1)], rows[k])
  <2>. TAKE k \in 1..n
  <2>1. k \in Nat \ {0} /\ 1..k \in SUBSET (1..n)
    BY <1>1
  <2>2. 1..k # {} /\ Max(1..k) = k /\ (1..k) \ {k} = 1..(k - 1)
    BY <2>1, Spans
  <2>. QED BY <1>1, <1>7, <2>1, <2>2
<1>11. \A k \in 1..n : f[1..(k - 1)] \in B => f[1..k] = g[<<f[1..(k - 1)], k>>]
  BY <1>10
<1>12. first \in B
  OBVIOUS
<1>13. \A k \in 1..n, b \in B : g[<<b, k>>] = Keep(b, rows[k])
  OBVIOUS
<1>. HIDE DEF g, B, n
<1>14. PICK h : Steps(h, n, B, first, g) /\ h[n] = f[1..n]
  <2>1. FoldsTo(f, n, B, first, g)
    BY <1>1, <1>2, <1>9, <1>11, <1>12 DEF FoldsTo
  <2>. QED BY <2>1, StepsOfFolding
<1>15. h \in [0..n -> B] /\ h[0] = first /\ \A k \in 1..n : h[k] = g[<<h[k - 1], k>>]
  BY <1>14 DEF Steps
<1>16. \A k \in 1..n : h[k - 1] \in B
  BY <1>1, <1>15
<1>17. \A k \in 1..n : h[k] = Keep(h[k - 1], rows[k])
  BY <1>13, <1>15, <1>16
<1>. QED BY <1>8, <1>14, <1>15, <1>17 DEF B, n

LEMMA KeepAll ==
    ASSUME NEW first, NEW S, KeptOf(first, S), NEW rows \in Seq(RankedRows)
    PROVE  KeptOf(FoldLeft(Keep, first, rows), S \cup Range(rows))
<1>. DEFINE n == Len(rows)
            Part(k) == {rows[i] : i \in 1..k}
<1>1. n \in Nat /\ DOMAIN rows = 1..n /\ \A k \in 1..n : rows[k] \in RankedRows
  BY LenProperties
<1>2. PICK h : /\ h \in [0..n -> Seq(RankedRows)]
               /\ h[0] = first
               /\ \A k \in 1..n : h[k] = Keep(h[k - 1], rows[k])
               /\ h[n] = FoldLeft(Keep, first, rows)
  <2>1. first \in Seq(RankedRows)
    BY DEF KeptOf
  <2>. QED BY <2>1, KeepSteps
<1>. DEFINE T == {k \in 0..n : KeptOf(h[k], S \cup Part(k))}
<1>3. 0 \in T
  <2>1. S \cup Part(0) = S
    OBVIOUS
  <2>2. 0 \in 0..n
    BY <1>1
  <2>. HIDE DEF Part, n
  <2>3. KeptOf(h[0], S \cup Part(0))
    BY <1>2, <2>1
  <2>. QED BY <2>2, <2>3
<1>4. \A k \in 0..(n - 1) : k \in T => k + 1 \in T
  <2>. SUFFICES ASSUME NEW k \in 0..(n - 1), KeptOf(h[k], S \cup Part(k))
                PROVE  KeptOf(h[k + 1], S \cup Part(k + 1)) /\ k + 1 \in 0..n
    OBVIOUS
  <2>1. k + 1 \in 1..n /\ (k + 1) - 1 = k /\ 1..(k + 1) = (1..k) \cup {k + 1} /\ k + 1 \in 0..n
    BY <1>1
  <2>2. h[k + 1] = Keep(h[k], rows[k + 1]) /\ rows[k + 1] \in RankedRows
    BY <1>1, <1>2, <2>1
  <2>3. S \cup Part(k + 1) = (S \cup Part(k)) \cup {rows[k + 1]}
    BY <2>1
  <2>. DEFINE S1 == S \cup Part(k)
  <2>4. KeptOf(h[k], S1) /\ S \cup Part(k + 1) = S1 \cup {rows[k + 1]}
    BY <2>3
  <2>. HIDE DEF Part, S1
  <2>5. KeptOf(Keep(h[k], rows[k + 1]), S1 \cup {rows[k + 1]})
    BY <2>2, <2>4, KeepKeeps
  <2>. QED BY <2>1, <2>2, <2>4, <2>5
<1>. HIDE DEF T, n
<1>5. 0..n \subseteq T
  BY <1>1, <1>3, <1>4, InductionUpTo
<1>6. n \in 0..n
  BY <1>1
<1>. HIDE DEF Part
<1>7. KeptOf(h[n], S \cup Part(n))
  BY <1>5, <1>6 DEF T
<1>8. Part(n) = Range(rows)
  BY <1>1 DEF Range, Part, n
<1>. QED BY <1>2, <1>7, <1>8 DEF n

-----------------------------------------------------------------------------
(* Best score first. *)

\* Places of a list by the worth of what is there; of two equal ones, the first.
WorthFirst(worth, n) ==
    {p \in (1..n) \X (1..n) :
        \/ worth[p[1]] > worth[p[2]]
        \/ worth[p[1]] = worth[p[2]] /\ p[1] < p[2]}

LEMMA WorthFirstIsInOrder ==
    ASSUME NEW n \in Nat, NEW worth \in [1..n -> Nat]
    PROVE  LET before == WorthFirst(worth, n)
               order == Sorted(1..n, before)
           IN /\ order \in [1..n -> 1..n]
              /\ \A x \in 1..n : \E k \in 1..n : order[k] = x
              /\ \A i, j \in 1..n : i < j =>
                    \/ worth[order[i]] > worth[order[j]]
                    \/ worth[order[i]] = worth[order[j]] /\ order[i] < order[j]
<1>. DEFINE before == WorthFirst(worth, n)
            order == Sorted(1..n, before)
<1>1. IsFiniteSet(1..n) /\ Cardinality(1..n) = n
  BY FS_Interval
<1>2. \A x, y \in 1..n : <<x, y>> \in before <=>
         \/ worth[x] > worth[y]
         \/ worth[x] = worth[y] /\ x < y
  BY DEF WorthFirst
<1>3. \A x \in 1..n : worth[x] \in Nat
  OBVIOUS
<1>. HIDE DEF before
<1>4. StrictOrder(before, 1..n)
  <2>1. \A x \in 1..n : <<x, x>> \notin before
    BY <1>2, <1>3
  <2>2. \A x, y, z \in 1..n : <<x, y>> \in before /\ <<y, z>> \in before => <<x, z>> \in before
    BY <1>2, <1>3
  <2>3. \A x, y \in 1..n : x # y => <<x, y>> \in before \/ <<y, x>> \in before
    BY <1>2, <1>3
  <2>. QED BY <2>1, <2>2, <2>3 DEF StrictOrder
<1>5. InOrder(order, 1..n, before)
  BY <1>1, <1>4, SortedIsInOrder
<1>. HIDE DEF order
<1>6. /\ order \in [1..n -> 1..n]
      /\ \A x \in 1..n : \E k \in 1..n : order[k] = x
      /\ \A i, j \in 1..n : i < j => <<order[i], order[j]>> \in before
  BY <1>1, <1>5 DEF InOrder
<1>7. \A i, j \in 1..n : i < j =>
         \/ worth[order[i]] > worth[order[j]]
         \/ worth[order[i]] = worth[order[j]] /\ order[i] < order[j]
  BY <1>2, <1>6
<1>. QED BY <1>6, <1>7 DEF order, before

LEMMA ByScoreSorts ==
    ASSUME NEW rows \in Seq(RankedRows)
    PROVE  /\ ByScore(rows) \in [1..Len(rows) -> RankedRows]
           /\ Len(ByScore(rows)) = Len(rows)
           /\ Range(ByScore(rows)) = Range(rows)
           /\ \A i \in 2..Len(rows) : ByScore(rows)[i].score <= ByScore(rows)[i - 1].score
<1>. DEFINE n == Len(rows)
            worth == [i \in 1..n |-> rows[i].score]
            before == WorthFirst(worth, n)
            order == Sorted(1..n, before)
            out == ByScore(rows)
<1>1. n \in Nat /\ DOMAIN rows = 1..n /\ \A i \in 1..n : rows[i] \in RankedRows
  BY LenProperties
<1>2. worth \in [1..n -> Nat]
  BY <1>1 DEF RankedRows
<1>3. before = {p \in (1..n) \X (1..n) :
                   \/ rows[p[1]].score > rows[p[2]].score
                   \/ rows[p[1]].score = rows[p[2]].score /\ p[1] < p[2]}
  BY DEF WorthFirst
<1>4. out = [k \in 1..n |-> rows[order[k]]]
  BY <1>3 DEF ByScore
<1>5. \A i \in 1..n : worth[i] = rows[i].score
  OBVIOUS
<1>. HIDE DEF n, worth, before
<1>6. /\ order \in [1..n -> 1..n]
      /\ \A x \in 1..n : \E k \in 1..n : order[k] = x
      /\ \A i, j \in 1..n : i < j =>
            \/ worth[order[i]] > worth[order[j]]
            \/ worth[order[i]] = worth[order[j]] /\ order[i] < order[j]
  BY <1>1, <1>2, WorthFirstIsInOrder DEF before
<1>. HIDE DEF order, out
<1>7. out \in [1..n -> RankedRows] /\ Len(out) = n
  BY <1>1, <1>4, <1>6
<1>8. Range(out) = Range(rows)
  <2>1. DOMAIN out = 1..n /\ DOMAIN rows = 1..n
    BY <1>1, <1>4
  <2>2. \A k \in 1..n : out[k] = rows[order[k]] /\ order[k] \in 1..n
    BY <1>4, <1>6
  <2>3. ASSUME NEW x \in 1..n PROVE \E k \in 1..n : out[k] = rows[x]
    <3>1. PICK k \in 1..n : order[k] = x
      BY <1>6
    <3>. QED BY <2>2, <3>1
  <2>4. Range(out) = {out[k] : k \in 1..n} /\ Range(rows) = {rows[k] : k \in 1..n}
    BY <2>1 DEF Range
  <2>5. \A k \in 1..n : \E x \in 1..n : rows[x] = out[k]
    BY <2>2
  <2>. QED BY <2>3, <2>4, <2>5, ZenonT(60)
<1>9. ASSUME NEW i \in 2..n PROVE out[i].score <= out[i - 1].score
  <2>1. i \in 1..n /\ i - 1 \in 1..n /\ i - 1 < i
    BY <1>1
  <2>2. order[i] \in 1..n /\ order[i - 1] \in 1..n
    BY <1>6, <2>1
  <2>3. worth[order[i - 1]] >= worth[order[i]]
    <3>1. worth[order[i - 1]] \in Nat /\ worth[order[i]] \in Nat
      BY <1>2, <2>2
    <3>2. \/ worth[order[i - 1]] > worth[order[i]]
          \/ worth[order[i - 1]] = worth[order[i]]
      BY <1>6, <2>1
    <3>. QED BY <3>1, <3>2
  <2>. QED BY <1>4, <1>5, <2>1, <2>2, <2>3
<1>. QED BY <1>7, <1>8, <1>9 DEF n, out

\* What an answer's rows are, given the best row of each chunk.
LEMMA KeptAreBest ==
    ASSUME NEW rows, NEW S, KeptOf(rows, S)
    PROVE  /\ Range(rows) = {row \in S : \A other \in S : other.chunk = row.chunk => other.score <= row.score}
           /\ Cardinality({row.chunk : row \in S}) = Len(rows)
<1>. DEFINE n == Len(rows)
            top == {row \in S : \A other \in S : other.chunk = row.chunk => other.score <= row.score}
            f == [i \in 1..n |-> rows[i].chunk]
            chunks == {row.chunk : row \in S}
<1>1. n \in Nat /\ DOMAIN rows = 1..n
  BY LenProperties DEF KeptOf
<1>2. \A i \in 1..n : rows[i] \in top
  BY DEF KeptOf
<1>3. ASSUME NEW row \in top PROVE \E i \in 1..n : rows[i] = row
  <2>1. PICK i \in 1..n : rows[i].chunk = row.chunk
    BY DEF KeptOf
  <2>2. rows[i].score <= row.score /\ row.score <= rows[i].score
    BY <1>2, <2>1
  <2>3. rows[i] \in RankedRows /\ row \in RankedRows
    BY <1>2 DEF KeptOf
  <2>4. rows[i].score = row.score
    BY <2>2, <2>3 DEF RankedRows
  <2>5. rows[i] = row
    BY <2>1, <2>3, <2>4 DEF RankedRows
  <2>. QED BY <2>5
<1>4. Range(rows) = top
  BY <1>1, <1>2, <1>3 DEF Range
<1>5. f \in Bijection(1..n, chunks)
  <2>1. \A i \in 1..n : f[i] \in chunks
    <3>1. \A i \in 1..n : rows[i] \in S /\ f[i] = rows[i].chunk
      BY DEF KeptOf
    <3>. QED BY <3>1
  <2>2. \A i, j \in 1..n : f[i] = f[j] => i = j
    BY DEF KeptOf
  <2>3. \A c \in chunks : \E i \in 1..n : f[i] = c
    <3>1. \A row \in S : \E i \in 1..n : f[i] = row.chunk
      BY DEF KeptOf
    <3>. QED BY <3>1
  <2>. QED BY <2>1, <2>2, <2>3 DEF Bijection, Injection, Surjection, IsInjective
<1>6. IsFiniteSet(1..n) /\ Cardinality(1..n) = n
  <2>1. n \in Nat
    BY <1>1
  <2>. HIDE DEF n
  <2>. QED BY <2>1, FS_Interval
<1>7. ExistsBijection(1..n, chunks)
  BY <1>5 DEF ExistsBijection
<1>8. Cardinality(chunks) = n
  <2>. HIDE DEF n, chunks
  <2>. QED BY <1>1, <1>6, <1>7, FS_Bijection
<1>. QED BY <1>4, <1>8

-----------------------------------------------------------------------------
(* What a run of the loop has found. *)

Queries == {Question} \cup {reply.query : reply \in Replies}
Found == [query : Queries, rows : Seq(RankedRows)]
Ratings == 0..2 \cup {Unrated}
Top(rows) == SubSeq(rows, 1, Min({TopKPerStep, Len(rows)}))

\* The judge's calls for a search are on their way, or answered.
Judging(r) ==
    /\ candidates[r] \in scenario.lists
    /\ answers[r] \in Seq(Ratings \cup {Pending})
    /\ Len(answers[r]) = Min({RerankCandidates, Len(candidates[r])})

\* The last search found nothing, or what it kept is what the answers make of it.
Judged(r) ==
    \/ Last(searches[r]).rows = <<>>
    \/ /\ Judging(r) /\ AllAnswered(r)
       /\ Last(searches[r]).rows = Top(Reranked(candidates[r], answers[r]))

RankOf(r) ==
    /\ candidates[r] \in Seq(RankedRows)
    /\ query[r] \in Queries
    /\ searches[r] \in Seq(Found)
    /\ KeptOf(best[r], AllRows(r))
    /\ pc[r] = "rerank" /\ scenario.backend = "chat" => candidates[r] # <<>> /\ Judging(r)
    /\ pc[r] \in {"plan", "answer"} /\ scenario.backend = "chat" /\ candidates[r] # <<>> => Judged(r)
    /\ answered[r] # None => pc[r] = "done" /\ answered[r].rows = ByScore(best[r])

RankInv ==
    /\ JudgeInv
    /\ candidates = [r \in Requests |-> candidates[r]]
    /\ query = [r \in Requests |-> query[r]]
    /\ searches = [r \in Requests |-> searches[r]]
    /\ best = [r \in Requests |-> best[r]]
    /\ answered = [r \in Requests |-> answered[r]]
    /\ \A r \in Requests : RankOf(r)

\* The judge's order: the rated candidates by their ratings, then the others.
RerankedAs(rows, replies, order, out) ==
    LET n == Len(replies)
    IN /\ order \in [1..n -> 1..n]
       /\ \A i, j \in 1..n : i < j =>
             \/ Rating(replies[order[i]]) > Rating(replies[order[j]])
             \/ Rating(replies[order[i]]) = Rating(replies[order[j]]) /\ order[i] < order[j]
       /\ \A k \in 1..n : /\ out[k].chunk = rows[order[k]].chunk
                          /\ out[k].score = (Rating(replies[order[k]]) + 1) * Third
       /\ \A k \in (n + 1)..Len(rows) : out[k].chunk = rows[k].chunk /\ out[k].score = 0

LEMMA RerankedIs ==
    ASSUME NEW rows \in Seq(RankedRows), NEW replies \in Seq(Ratings), Len(replies) <= Len(rows)
    PROVE  /\ Reranked(rows, replies) \in Seq(RankedRows)
           /\ Len(Reranked(rows, replies)) = Len(rows)
           /\ IF Len(replies) > 0 /\ Range(replies) = {Unrated}
                 THEN Reranked(rows, replies) = rows
                 ELSE \E order : RerankedAs(rows, replies, order, Reranked(rows, replies))
<1>. DEFINE n == Len(replies)
            m == Len(rows)
            worth == [i \in 1..n |-> Rating(replies[i])]
            before == WorthFirst(worth, n)
            order == Sorted(1..n, before)
            bestFirst == [k \in 1..n |-> [chunk |-> rows[order[k]].chunk,
                                          score |-> (Rating(replies[order[k]]) + 1) * Third]]
            rest == [k \in 1..(m - n) |-> [chunk |-> rows[n + k].chunk, score |-> 0]]
            out == Reranked(rows, replies)
<1>1. n \in Nat /\ m \in Nat /\ n <= m /\ (\A i \in 1..n : replies[i] \in Ratings)
      /\ \A i \in 1..m : rows[i] \in RankedRows
  BY LenProperties
<1>2. \A i \in 1..n : Rating(replies[i]) \in 0..2
  BY <1>1, JudgeSettings DEF Rating, Ratings
<1>3. worth \in [1..n -> Nat] /\ \A i \in 1..n : worth[i] = Rating(replies[i])
  BY <1>2
<1>4. before = {p \in (1..n) \X (1..n) :
                   \/ Rating(replies[p[1]]) > Rating(replies[p[2]])
                   \/ Rating(replies[p[1]]) = Rating(replies[p[2]]) /\ p[1] < p[2]}
  BY DEF WorthFirst
<1>5. out = IF n > 0 /\ Range(replies) = {Unrated} THEN rows ELSE bestFirst \o rest
  BY <1>4 DEF Reranked
<1>. HIDE DEF n, worth, before
<1>6. /\ order \in [1..n -> 1..n]
      /\ \A i, j \in 1..n : i < j =>
            \/ worth[order[i]] > worth[order[j]]
            \/ worth[order[i]] = worth[order[j]] /\ order[i] < order[j]
  BY <1>1, <1>3, WorthFirstIsInOrder DEF before
<1>. HIDE DEF order
<1>7. \A x \in 0..2 : (x + 1) * Third \in Nat
  BY JudgeSettings
<1>8. \A k \in 1..n : bestFirst[k] \in RankedRows
  <2>. TAKE k \in 1..n
  <2>1. order[k] \in 1..n /\ order[k] \in 1..m
    BY <1>1, <1>6
  <2>2. rows[order[k]].chunk \in Chunks /\ (Rating(replies[order[k]]) + 1) * Third \in Nat
    BY <1>1, <1>2, <1>7, <2>1 DEF RankedRows
  <2>. QED BY <2>2 DEF RankedRows
<1>9. \A k \in 1..(m - n) : rest[k] \in RankedRows
  <2>. TAKE k \in 1..(m - n)
  <2>1. n + k \in 1..m
    BY <1>1
  <2>. QED BY <1>1, <2>1 DEF RankedRows
<1>10. bestFirst \in Seq(RankedRows) /\ Len(bestFirst) = n
  BY <1>1, <1>8
<1>11. rest \in Seq(RankedRows) /\ Len(rest) = m - n
  BY <1>1, <1>9
<1>12. \A k \in 1..n : bestFirst[k] = [chunk |-> rows[order[k]].chunk,
                                      score |-> (Rating(replies[order[k]]) + 1) * Third]
  OBVIOUS
<1>13. \A k \in 1..(m - n) : rest[k] = [chunk |-> rows[n + k].chunk, score |-> 0]
  OBVIOUS
<1>. HIDE DEF bestFirst, rest, out
<1>14. /\ bestFirst \o rest \in Seq(RankedRows)
       /\ Len(bestFirst \o rest) = n + (m - n)
       /\ \A k \in 1..(n + (m - n)) : (bestFirst \o rest)[k] = IF k <= n THEN bestFirst[k] ELSE rest[k - n]
  <2>1. /\ bestFirst \o rest \in Seq(RankedRows)
        /\ Len(bestFirst \o rest) = Len(bestFirst) + Len(rest)
        /\ \A k \in 1..(Len(bestFirst) + Len(rest)) : (bestFirst \o rest)[k] =
              IF k <= Len(bestFirst) THEN bestFirst[k] ELSE rest[k - Len(bestFirst)]
    BY <1>10, <1>11, ConcatProperties
  <2>. QED BY <1>10, <1>11, <2>1
<1>15. n + (m - n) = m
  BY <1>1
<1>16. CASE n > 0 /\ Range(replies) = {Unrated}
  BY <1>5, <1>16 DEF n, out
<1>17. CASE ~(n > 0 /\ Range(replies) = {Unrated})
  <2>1. out = bestFirst \o rest
    BY <1>5, <1>17
  <2>2. \A k \in 1..n : /\ out[k].chunk = rows[order[k]].chunk
                         /\ out[k].score = (Rating(replies[order[k]]) + 1) * Third
    <3>. TAKE k \in 1..n
    <3>1. k \in 1..(n + (m - n)) /\ k <= n
      BY <1>1
    <3>2. out[k] = [chunk |-> rows[order[k]].chunk,
                    score |-> (Rating(replies[order[k]]) + 1) * Third]
      BY <1>12, <1>14, <2>1, <3>1
    <3>. QED BY <3>2
  <2>3. \A k \in (n + 1)..m : out[k].chunk = rows[k].chunk /\ out[k].score = 0
    <3>. TAKE k \in (n + 1)..m
    <3>1. k \in 1..(n + (m - n)) /\ ~(k <= n) /\ k - n \in 1..(m - n) /\ n + (k - n) = k
      BY <1>1
    <3>2. out[k] = rest[k - n]
      BY <1>14, <2>1, <3>1
    <3>3. out[k] = [chunk |-> rows[k].chunk, score |-> 0]
      BY <1>13, <3>1, <3>2
    <3>. QED BY <3>3
  <2>4. \A i, j \in 1..n : i < j =>
           \/ Rating(replies[order[i]]) > Rating(replies[order[j]])
           \/ Rating(replies[order[i]]) = Rating(replies[order[j]]) /\ order[i] < order[j]
    BY <1>3, <1>6, SMTT(30)
  <2>5. RerankedAs(rows, replies, order, out)
    BY <1>6, <2>2, <2>3, <2>4 DEF RerankedAs, n
  <2>. QED BY <1>14, <1>15, <1>17, <2>1, <2>5 DEF n, out
<1>. QED BY <1>16, <1>17

LEMMA RankInitially == Init => RankInv
<1>. SUFFICES ASSUME Init PROVE RankInv
  OBVIOUS
<1>1. /\ candidates = [r \in Requests |-> <<>>]
      /\ query = [r \in Requests |-> Question]
      /\ searches = [r \in Requests |-> <<>>]
      /\ best = [r \in Requests |-> <<>>]
      /\ answered = [r \in Requests |-> None]
      /\ pc = [r \in Requests |-> "sent"]
  BY DEF Init, KeysInit
<1>2. /\ <<>> \in Seq(RankedRows) /\ <<>> \in Seq(Found) /\ Len(<<>>) = 0 /\ DOMAIN <<>> = {}
  OBVIOUS
<1>3. KeptOf(<<>>, {})
  BY <1>2 DEF KeptOf
<1>4. ASSUME NEW r \in Requests PROVE RankOf(r)
  <2>1. searches[r] = <<>> /\ best[r] = <<>>
    BY <1>1
  <2>2. AllRows(r) = {}
    BY <1>2, <2>1 DEF AllRows
  <2>. QED BY <1>1, <1>2, <1>3, <2>1, <2>2 DEF RankOf, Queries
<1>. QED BY <1>1, <1>4, JudgeInitially DEF RankInv

\* What a step that leaves a request alone means for it.
LEMMA OthersKeepRank ==
    ASSUME NEW r \in Requests, RankOf(r), scenario' = scenario, pc'[r] = pc[r],
           candidates'[r] = candidates[r], answers'[r] = answers[r], query'[r] = query[r],
           searches'[r] = searches[r], best'[r] = best[r], answered'[r] = answered[r]
    PROVE  RankOf(r)'
BY DEF RankOf, AllRows, Judging, Judged, AllAnswered

LEMMA MergeKeepsRank ==
    ASSUME RankInv, JudgeInv', NEW r \in Requests, NEW rows \in Seq(RankedRows), Merge(r, rows),
           UNCHANGED <<scenario, judgeVars, query, answered>>, answered[r] = None,
           scenario.backend = "chat" =>
              \/ rows = <<>>
              \/ /\ Judging(r) /\ AllAnswered(r)
                 /\ rows = Reranked(candidates[r], answers[r])
    PROVE  RankInv'
<1>. DEFINE kept == Top(rows)
            new == [query |-> query[r], rows |-> kept]
            n == Len(searches[r])
<1>1. /\ searches' = [searches EXCEPT ![r] = Append(@, new)]
      /\ best' = [best EXCEPT ![r] = FoldLeft(Keep, @, kept)]
      /\ pc' = [pc EXCEPT ![r] = IF Spent(Len(searches'[r]), MaxSteps(r)) THEN "answer" ELSE "plan"]
  BY DEF Merge, Top
<1>2. RankOf(r) /\ pc \in [Requests -> Places]
  BY DEF RankInv, JudgeInv, KeysInv
<1>3. kept \in Seq(RankedRows)
  BY FirstRows, TopKAssumption DEF Top
<1>4. rows = <<>> => kept = <<>>
  <2>. HIDE DEF kept
  <2>1. Len(kept) = Min({TopKPerStep, Len(rows)}) /\ Min({TopKPerStep, Len(rows)}) <= Len(rows)
    BY FirstRows, TopKAssumption DEF kept, Top
  <2>2. Len(kept) \in Nat
    BY <1>3, LenProperties
  <2>3. rows = <<>> => Len(kept) = 0
    BY <2>1, <2>2
  <2>. QED BY <1>3, <2>3, EmptySeq
<1>. HIDE DEF kept
<1>5. new \in Found
  BY <1>2, <1>3 DEF RankOf, Found
<1>6. new.rows = kept
  OBVIOUS
<1>. HIDE DEF new
<1>7. searches[r] \in Seq(Found) /\ n \in Nat
  BY <1>2 DEF RankOf
<1>8. /\ Append(searches[r], new) \in Seq(Found)
      /\ Len(Append(searches[r], new)) = n + 1
      /\ \A i \in 1..n : Append(searches[r], new)[i] = searches[r][i]
      /\ Append(searches[r], new)[n + 1] = new
  BY <1>5, <1>7, AppendProperties
<1>9. /\ searches'[r] = Append(searches[r], new)
      /\ best'[r] = FoldLeft(Keep, best[r], kept)
      /\ pc'[r] \in {"answer", "plan"}
  BY <1>1, <1>2 DEF RankInv
<1>10. AllRows(r)' = AllRows(r) \cup Range(kept)
  <2>1. DOMAIN searches[r] = 1..n /\ DOMAIN searches'[r] = 1..(n + 1)
    BY <1>7, <1>8, <1>9, LenProperties
  <2>2. 1..(n + 1) = (1..n) \cup {n + 1}
    BY <1>7
  <2>3. \A i \in 1..n : Range(searches'[r][i].rows) = Range(searches[r][i].rows)
    BY <1>8, <1>9
  <2>4. Range(searches'[r][n + 1].rows) = Range(kept)
    BY <1>6, <1>8, <1>9
  <2>. HIDE DEF n
  <2>5. AllRows(r) = UNION {Range(searches[r][i].rows) : i \in 1..n}
    BY <2>1 DEF AllRows
  <2>6. AllRows(r)' = UNION {Range(searches'[r][i].rows) : i \in 1..(n + 1)}
    BY <2>1 DEF AllRows
  <2>. QED BY <2>2, <2>3, <2>4, <2>5, <2>6
<1>11. KeptOf(best'[r], AllRows(r)')
  <2>1. KeptOf(best[r], AllRows(r))
    BY <1>2 DEF RankOf
  <2>2. KeptOf(FoldLeft(Keep, best[r], kept), AllRows(r) \cup Range(kept))
    BY <1>3, <2>1, KeepAll
  <2>. QED BY <1>9, <1>10, <2>2
<1>12. Last(searches'[r]).rows = kept
  BY <1>6, <1>8, <1>9 DEF Last
<1>13. scenario.backend = "chat" => Judged(r)'
  <2>1. scenario.backend = "chat" =>
           \/ kept = <<>>
           \/ /\ Judging(r) /\ AllAnswered(r)
              /\ kept = Top(Reranked(candidates[r], answers[r]))
    BY <1>4 DEF kept
  <2>. QED BY <1>12, <2>1 DEF Judged, Judging, AllAnswered, judgeVars
<1>14. RankOf(r)'
  BY <1>2, <1>8, <1>9, <1>11, <1>13 DEF RankOf, judgeVars
<1>15. ASSUME NEW q \in Requests \ {r} PROVE RankOf(q)'
  <2>1. /\ RankOf(q) /\ pc'[q] = pc[q] /\ searches'[q] = searches[q] /\ best'[q] = best[q]
        /\ UNCHANGED <<candidates, answers, query, answered, scenario>>
    BY <1>1, <1>2 DEF RankInv, judgeVars
  <2>. QED BY <2>1, OthersKeepRank
<1>16. /\ searches' = [q \in Requests |-> searches'[q]]
       /\ best' = [q \in Requests |-> best'[q]]
  BY <1>1 DEF RankInv
<1>17. UNCHANGED <<candidates, query, answered>>
  BY DEF judgeVars
<1>. QED BY <1>14, <1>15, <1>16, <1>17 DEF RankInv

\* What the judge's calls have answered when all have.
LEMMA JudgedReplies ==
    ASSUME NEW r, Judging(r), AllAnswered(r), candidates[r] \in Seq(RankedRows)
    PROVE  /\ answers[r] \in Seq(Ratings)
           /\ Len(answers[r]) <= Len(candidates[r])
<1>1. answers[r] \in Seq(Ratings \cup {Pending})
  BY DEF Judging
<1>2. /\ Len(answers[r]) \in Nat /\ DOMAIN answers[r] = 1..Len(answers[r])
      /\ \A i \in 1..Len(answers[r]) : answers[r][i] \in Ratings \cup {Pending}
      /\ answers[r] \in [1..Len(answers[r]) -> Ratings \cup {Pending}]
  BY <1>1, LenProperties
<1>3. \A i \in 1..Len(answers[r]) : answers[r][i] # Pending
  BY <1>2 DEF AllAnswered, Range
<1>4. answers[r] \in [1..Len(answers[r]) -> Ratings]
  BY <1>2, <1>3
<1>5. answers[r] \in Seq(Ratings)
  BY <1>2, <1>4, SeqDef
<1>6. Len(candidates[r]) \in Int /\ RerankCandidates \in Int
  BY LenProperties, JudgeSettings
<1>7. Min({RerankCandidates, Len(candidates[r])}) <= Len(candidates[r])
  BY <1>6, MinOfTwo
<1>. QED BY <1>5, <1>7 DEF Judging

LEMMA RepliesKeepRank ==
    ASSUME RankInv, JudgeInv', NEW call \in Calls, JudgeReplies(call)
    PROVE  RankInv'
<1>1. PICK reply \in Ratings \cup {Malformed} :
          /\ Reply(call, reply)
          /\ pc' = IF reply = Malformed /\ pc[call[1]] = "rerank"
                      THEN [pc EXCEPT ![call[1]] = "failed"] ELSE pc
  BY DEF JudgeReplies, Ratings
<1>2. UNCHANGED <<scenario, candidates, query, searches, best, answered>>
  BY <1>1 DEF JudgeReplies, Reply
<1>. DEFINE p == call[1]
            i == call[2]
<1>3. p \in Requests /\ call \in Working
  BY <1>1 DEF Calls, Reply, Working
<1>4. answers' = [answers EXCEPT ![p] = [answers[p] EXCEPT ![i] = reply]]
  BY <1>1 DEF Reply
<1>5. Owed(call) /\ answers \in [Requests -> Seq(Given)] /\ pc \in [Requests -> Places]
  BY <1>3 DEF RankInv, JudgeInv, KeysInv
<1>. HIDE DEF p, i
<1>6. answers[p] \in Seq(Given) /\ i \in 1..Len(answers[p])
  BY <1>3, <1>5 DEF Owed, p, i
<1>7. ASSUME NEW q \in Requests \ {p} PROVE RankOf(q)'
  <2>1. RankOf(q) /\ answers'[q] = answers[q] /\ pc'[q] = pc[q]
    BY <1>1, <1>3, <1>4, <1>5 DEF RankInv, p
  <2>. QED BY <1>2, <2>1, OthersKeepRank
<1>8. RankOf(p) /\ pc[p] \in {"rerank", "failed"}
  BY <1>3, <1>5 DEF RankInv, Owed, p
<1>9. pc'[p] \in {"rerank", "failed"}
  BY <1>1, <1>3, <1>5, <1>8 DEF p
<1>10. pc'[p] = "rerank" => pc[p] = "rerank" /\ reply \in Ratings
  BY <1>1, <1>3, <1>5, <1>8 DEF p
<1>11. pc'[p] = "rerank" /\ scenario.backend = "chat" => Judging(p)'
  <2>. SUFFICES ASSUME pc'[p] = "rerank", scenario.backend = "chat" PROVE Judging(p)'
    OBVIOUS
  <2>1. answers[p] \in Seq(Ratings \cup {Pending}) /\ reply \in Ratings \cup {Pending}
    BY <1>8, <1>10 DEF RankOf, Judging
  <2>2. answers'[p] = [answers[p] EXCEPT ![i] = reply]
    BY <1>3, <1>4, <1>5
  <2>3. /\ answers'[p] \in Seq(Ratings \cup {Pending})
        /\ Len(answers'[p]) = Len(answers[p])
    BY <1>6, <2>1, <2>2, ExceptSeq
  <2>. QED BY <1>2, <1>8, <1>10, <2>3 DEF RankOf, Judging
<1>12. answered[p] = None
  BY <1>8 DEF RankOf
<1>13. KeptOf(best[p], AllRows(p))' /\ AllRows(p)' = AllRows(p)
  BY <1>2, <1>8 DEF RankOf, AllRows
<1>14. RankOf(p)'
  BY <1>2, <1>8, <1>9, <1>10, <1>11, <1>12, <1>13 DEF RankOf
<1>. QED BY <1>2, <1>7, <1>14 DEF RankInv

LEMMA RankInductive == RankInv /\ [Next]_agentVars => RankInv'
<1>. SUFFICES ASSUME RankInv, [Next]_agentVars PROVE RankInv'
  OBVIOUS
<1>1. JudgeInv' /\ JudgeInv
  BY JudgeInductive DEF RankInv
<1>2. /\ pc \in [Requests -> Places] /\ scenario \in Scenarios
      /\ answers \in [Requests -> Seq(Given)]
  BY <1>1 DEF JudgeInv, KeysInv
<1>3. CASE UNCHANGED <<scenario, pc, judgeVars, query, searches, best, answered>>
  <2>1. ASSUME NEW q \in Requests PROVE RankOf(q)'
    BY <1>3, OthersKeepRank DEF RankInv, judgeVars
  <2>. QED BY <1>1, <1>3, <2>1 DEF RankInv, judgeVars
<1>4. ASSUME NEW r \in Requests, NEW place, pc' = [pc EXCEPT ![r] = place],
             UNCHANGED <<scenario, judgeVars, query, searches, best, answered>>,
             place \in {"refused", "failed", "done", "search", "refresh"}, pc[r] # "done"
      PROVE  RankInv'
  <2>1. RankOf(r) /\ pc'[r] = place
    BY <1>2, <1>4 DEF RankInv
  <2>2. AllRows(r)' = AllRows(r)
    BY <1>4 DEF AllRows
  <2>3. RankOf(r)'
    BY <1>4, <2>1, <2>2 DEF RankOf, judgeVars
  <2>4. ASSUME NEW q \in Requests \ {r} PROVE RankOf(q)'
    <3>1. RankOf(q) /\ pc'[q] = pc[q]
      BY <1>2, <1>4 DEF RankInv
    <3>. QED BY <1>4, <3>1, OthersKeepRank DEF judgeVars
  <2>. QED BY <1>1, <1>4, <2>3, <2>4 DEF RankInv, judgeVars
<1>5. ASSUME NEW r \in Requests, KeyStep(r) PROVE RankInv'
  <2>1. /\ UNCHANGED <<scenario, judgeVars, query, searches, best, answered>>
        /\ pc[r] \in {"sent", "refresh"}
    BY <1>5 DEF KeyStep, LoopUnchanged, Authenticate, Refresh
  <2>2. \A row, a : Admitted(row, a) \in {"refused", "done", "search"}
    BY DEF Admitted
  <2>3. \E place \in {"refused", "refresh", "done", "search"} : pc' = [pc EXCEPT ![r] = place]
    BY <1>5, <2>2 DEF KeyStep, Authenticate, Refresh
  <2>. QED BY <1>4, <2>1, <2>3
<1>6. ASSUME NEW r \in Requests, pc[r] # "done" PROVE answered[r] = None
  BY <1>6 DEF RankInv, RankOf
<1>7. \A rows \in scenario.lists : rows \in Seq(RankedRows)
  BY <1>2, ScenarioAssumption DEF RankedRows
<1>8. ASSUME NEW r \in Requests, Search(r) PROVE RankInv'
  <2>1. pc[r] = "search" /\ UNCHANGED <<scenario, query, answered>> /\ answered[r] = None
    BY <1>6, <1>8 DEF Search
  <2>2. PICK rows \in scenario.lists :
          \/ /\ scenario.backend = "off" \/ rows = <<>>
             /\ Merge(r, rows)
             /\ UNCHANGED judgeVars
          \/ /\ scenario.backend = "api" /\ rows # <<>>
             /\ pc' = [pc EXCEPT ![r] = "rerank"]
             /\ candidates' = [candidates EXCEPT ![r] = rows]
             /\ UNCHANGED <<answers, searches, best>>
          \/ /\ scenario.backend = "chat" /\ rows # <<>>
             /\ pc' = [pc EXCEPT ![r] = "rerank"]
             /\ StartCalls(r, rows)
             /\ UNCHANGED <<searches, best>>
    BY <1>8 DEF Search
  <2>3. CASE (scenario.backend = "off" \/ rows = <<>>) /\ Merge(r, rows) /\ UNCHANGED judgeVars
    BY <1>1, <1>7, <2>1, <2>3, MergeKeepsRank
  <2>4. ASSUME rows # <<>>, pc' = [pc EXCEPT ![r] = "rerank"], UNCHANGED <<searches, best>>,
               candidates' = [candidates EXCEPT ![r] = rows],
               \A q \in Requests \ {r} : answers'[q] = answers[q],
               scenario.backend = "chat" => /\ answers'[r] \in Seq(Ratings \cup {Pending})
                                            /\ Len(answers'[r]) = Min({RerankCandidates, Len(rows)})
        PROVE  RankInv'
    <3>1. RankOf(r) /\ pc'[r] = "rerank" /\ candidates'[r] = rows
      BY <1>2, <2>4 DEF RankInv
    <3>2. AllRows(r)' = AllRows(r)
      BY <2>4 DEF AllRows
    <3>3. scenario.backend = "chat" => Judging(r)'
      BY <2>1, <2>4, <3>1 DEF Judging
    <3>4. RankOf(r)'
      BY <1>7, <2>1, <2>4, <3>1, <3>2, <3>3 DEF RankOf
    <3>5. ASSUME NEW q \in Requests \ {r} PROVE RankOf(q)'
      <4>1. RankOf(q) /\ pc'[q] = pc[q] /\ candidates'[q] = candidates[q]
        BY <1>2, <2>4 DEF RankInv
      <4>. QED BY <2>1, <2>4, <4>1, OthersKeepRank
    <3>6. candidates' = [q \in Requests |-> candidates'[q]]
      BY <2>4 DEF RankInv
    <3>. QED BY <1>1, <2>1, <2>4, <3>4, <3>5, <3>6 DEF RankInv
  <2>5. CASE /\ scenario.backend = "api" /\ rows # <<>>
             /\ pc' = [pc EXCEPT ![r] = "rerank"]
             /\ candidates' = [candidates EXCEPT ![r] = rows]
             /\ UNCHANGED <<answers, searches, best>>
    BY <2>4, <2>5
  <2>6. CASE /\ scenario.backend = "chat" /\ rows # <<>>
             /\ pc' = [pc EXCEPT ![r] = "rerank"]
             /\ StartCalls(r, rows)
             /\ UNCHANGED <<searches, best>>
    <3>. DEFINE n == Len(Rated(rows))
                asked == [i \in 1..n |-> Pending]
    <3>1. rows \in Seq(RankedRows) /\ RerankCandidates \in Nat
      BY <1>7, JudgeSettings
    <3>2. n = Min({RerankCandidates, Len(rows)}) /\ n \in Nat
      BY <3>1, FirstRows DEF Rated
    <3>3. /\ candidates' = [candidates EXCEPT ![r] = rows]
          /\ answers' = [answers EXCEPT ![r] = asked]
      BY <2>6 DEF StartCalls
    <3>. HIDE DEF n
    <3>4. asked \in Seq(Ratings \cup {Pending}) /\ Len(asked) = n
      <4>1. n \in Nat
        BY <3>2
      <4>2. Pending \in Ratings \cup {Pending}
        OBVIOUS
      <4>. HIDE DEF Ratings
      <4>. QED BY <4>1, <4>2
    <3>. HIDE DEF asked
    <3>5. answers'[r] = asked /\ \A q \in Requests \ {r} : answers'[q] = answers[q]
      BY <1>2, <3>3
    <3>. QED BY <2>4, <2>6, <3>2, <3>3, <3>4, <3>5
  <2>. QED BY <2>2, <2>3, <2>5, <2>6
<1>9. ASSUME NEW r \in Requests, ApiReranks(r) PROVE RankInv'
  <2>1. /\ pc[r] = "rerank" /\ scenario.backend = "api" /\ answered[r] = None
        /\ UNCHANGED <<scenario, judgeVars, query, answered>>
    BY <1>6, <1>9 DEF ApiReranks
  <2>2. PICK places :
          /\ \E some \in SUBSET DOMAIN candidates[r] : places \in SetToSeqs(some)
          /\ Merge(r, [k \in DOMAIN places |-> [chunk |-> candidates[r][places[k]].chunk,
                                                 score |-> (1 + Len(places) - k) * Third]])
    BY <1>9 DEF ApiReranks
  <2>. PICK some \in SUBSET DOMAIN candidates[r] : places \in SetToSeqs(some)
    BY <2>2
  <2>. DEFINE rows == [k \in DOMAIN places |-> [chunk |-> candidates[r][places[k]].chunk,
                                                score |-> (1 + Len(places) - k) * Third]]
              n == Cardinality(some)
              m == Len(candidates[r])
  <2>3. candidates[r] \in Seq(RankedRows) /\ m \in Nat /\ DOMAIN candidates[r] = 1..m
        /\ \A i \in 1..m : candidates[r][i] \in RankedRows
    <3>1. candidates[r] \in Seq(RankedRows)
      BY DEF RankInv, RankOf
    <3>. QED BY <3>1, LenProperties
  <2>4. n \in Nat
    <3>1. IsFiniteSet(1..m)
      BY <2>3, FS_Interval
    <3>2. IsFiniteSet(some)
      BY <2>3, <3>1, FS_Subset
    <3>. QED BY <3>2, FS_CardinalityType
  <2>5. places \in [1..n -> some]
    BY DEF SetToSeqs
  <2>. HIDE DEF n, m
  <2>6. DOMAIN places = 1..n /\ Len(places) = n /\ \A k \in 1..n : places[k] \in 1..m
    BY <2>3, <2>4, <2>5
  <2>7. \A k \in 1..n : (1 + n - k) * Third \in Nat
    <3>1. \A x \in Nat : x * Third \in Nat
      BY JudgeSettings
    <3>2. \A k \in 1..n : 1 + n - k \in Nat
      BY <2>4
    <3>. QED BY <3>1, <3>2
  <2>8. rows = [k \in 1..n |-> [chunk |-> candidates[r][places[k]].chunk,
                                score |-> (1 + n - k) * Third]]
    BY <2>6
  <2>9. ASSUME NEW k \in 1..n
        PROVE  [chunk |-> candidates[r][places[k]].chunk, score |-> (1 + n - k) * Third] \in RankedRows
    BY <2>3, <2>6, <2>7 DEF RankedRows
  <2>10. rows \in Seq(RankedRows)
    <3>1. rows \in [1..n -> RankedRows]
      BY <2>8, <2>9
    <3>. HIDE DEF rows
    <3>. QED BY <2>4, <3>1
  <2>11. Merge(r, rows)
    BY <2>2
  <2>. HIDE DEF rows
  <2>. QED BY <1>1, <2>1, <2>10, <2>11, MergeKeepsRank
<1>10. ASSUME NEW r \in Requests, ChatReranks(r) PROVE RankInv'
  <2>1. /\ pc[r] = "rerank" /\ scenario.backend = "chat" /\ AllAnswered(r) /\ answered[r] = None
        /\ UNCHANGED <<scenario, judgeVars, query, answered>>
        /\ Merge(r, Reranked(candidates[r], answers[r]))
    BY <1>6, <1>10 DEF ChatReranks
  <2>2. Judging(r) /\ candidates[r] \in Seq(RankedRows)
    BY <2>1 DEF RankInv, RankOf
  <2>3. answers[r] \in Seq(Ratings) /\ Len(answers[r]) <= Len(candidates[r])
    BY <2>1, <2>2, JudgedReplies
  <2>4. Reranked(candidates[r], answers[r]) \in Seq(RankedRows)
    BY <2>2, <2>3, RerankedIs
  <2>. QED BY <1>1, <2>1, <2>2, <2>4, MergeKeepsRank
<1>11. ASSUME NEW r \in Requests, Plan(r) PROVE RankInv'
  <2>1. /\ pc[r] = "plan"
        /\ UNCHANGED <<scenario, judgeVars, searches, best, answered>>
    BY <1>11 DEF Plan
  <2>2. PICK reply \in Replies :
          LET new == SearchesFor(reply)
          IN /\ pc' = [pc EXCEPT ![r] = IF new = None THEN "answer" ELSE "search"]
             /\ query' = IF new = None THEN query ELSE [query EXCEPT ![r] = new]
    BY <1>11 DEF Plan
  <2>3. SearchesFor(reply) = None \/ SearchesFor(reply) \in Queries
    BY DEF SearchesFor, Queries
  <2>4. RankOf(r) /\ pc'[r] \in {"answer", "search"}
    BY <1>2, <2>2 DEF RankInv
  <2>5. query'[r] \in Queries /\ query' = [q \in Requests |-> query'[q]]
    BY <2>2, <2>3, <2>4 DEF RankInv, RankOf
  <2>6. AllRows(r)' = AllRows(r) /\ (Judged(r)' <=> Judged(r))
    BY <2>1 DEF AllRows, Judged, Judging, AllAnswered, judgeVars
  <2>7. RankOf(r)'
    BY <2>1, <2>4, <2>5, <2>6 DEF RankOf, judgeVars
  <2>8. ASSUME NEW q \in Requests \ {r} PROVE RankOf(q)'
    <3>1. RankOf(q) /\ pc'[q] = pc[q] /\ query'[q] = query[q]
      BY <1>2, <2>2 DEF RankInv
    <3>. QED BY <2>1, <3>1, OthersKeepRank DEF judgeVars
  <2>. QED BY <1>1, <2>1, <2>5, <2>7, <2>8 DEF RankInv, judgeVars
<1>12. ASSUME NEW r \in Requests, Answer(r) PROVE RankInv'
  <2>1. /\ UNCHANGED <<scenario, judgeVars, query, searches, best>>
        /\ answered' = [answered EXCEPT ![r] = [rows |-> ByScore(best[r]), steps |-> Len(searches[r])]]
        /\ pc' = [pc EXCEPT ![r] = "done"]
    BY <1>12 DEF Answer
  <2>2. RankOf(r) /\ pc'[r] = "done"
        /\ answered'[r] = [rows |-> ByScore(best[r]), steps |-> Len(searches[r])]
    BY <1>2, <2>1 DEF RankInv
  <2>3. answered'[r].rows = ByScore(best[r])
    BY <2>2
  <2>4. AllRows(r)' = AllRows(r)
    BY <2>1 DEF AllRows
  <2>5. RankOf(r)'
    BY <2>1, <2>2, <2>3, <2>4 DEF RankOf, judgeVars
  <2>6. ASSUME NEW q \in Requests \ {r} PROVE RankOf(q)'
    <3>1. RankOf(q) /\ pc'[q] = pc[q] /\ answered'[q] = answered[q]
      BY <1>2, <2>1 DEF RankInv
    <3>. QED BY <2>1, <3>1, OthersKeepRank DEF judgeVars
  <2>7. answered' = [q \in Requests |-> answered'[q]]
    BY <2>1 DEF RankInv
  <2>. QED BY <1>1, <2>1, <2>5, <2>6, <2>7 DEF RankInv, judgeVars
<1>13. ASSUME NEW r \in Requests, Fail(r) PROVE RankInv'
  <2>1. /\ UNCHANGED <<scenario, judgeVars, query, searches, best, answered>>
        /\ pc' = [pc EXCEPT ![r] = "failed"] /\ pc[r] # "done"
    BY <1>13 DEF Fail
  <2>. QED BY <1>4, <2>1
<1>14. ASSUME NEW call \in Calls, JudgeReplies(call) PROVE RankInv'
  BY <1>1, <1>14, RepliesKeepRank
<1>15. CASE Command
  BY <1>3, <1>15 DEF Command, LoopUnchanged, CreateTenant, CreateKey, RevokeKey, TimePasses
<1>16. CASE UNCHANGED agentVars
  BY <1>3, <1>16 DEF agentVars, keysVars
<1>. QED BY <1>5, <1>8, <1>9, <1>10, <1>11, <1>12, <1>13, <1>14, <1>15, <1>16 DEF Next, Step

LEMMA RankInvMeansBest == RankInv => BestKept
<1>. SUFFICES ASSUME RankInv, NEW r \in Requests, answered[r] # None
              PROVE  LET rows == answered[r].rows
                     IN /\ Range(rows) = {row \in AllRows(r) : \A other \in AllRows(r) :
                                             other.chunk = row.chunk => other.score <= row.score}
                        /\ Len(rows) = Cardinality({row.chunk : row \in AllRows(r)})
                        /\ \A i \in 2..Len(rows) : rows[i].score <= rows[i - 1].score
  BY DEF BestKept
<1>1. KeptOf(best[r], AllRows(r)) /\ answered[r].rows = ByScore(best[r])
  BY DEF RankInv, RankOf
<1>2. best[r] \in Seq(RankedRows)
  BY <1>1 DEF KeptOf
<1>3. /\ Range(best[r]) = {row \in AllRows(r) : \A other \in AllRows(r) :
                              other.chunk = row.chunk => other.score <= row.score}
      /\ Cardinality({row.chunk : row \in AllRows(r)}) = Len(best[r])
  BY <1>1, KeptAreBest
<1>4. /\ Len(ByScore(best[r])) = Len(best[r])
      /\ Range(ByScore(best[r])) = Range(best[r])
      /\ \A i \in 2..Len(best[r]) : ByScore(best[r])[i].score <= ByScore(best[r])[i - 1].score
  BY <1>2, ByScoreSorts
<1>. QED BY <1>1, <1>3, <1>4

\* An answer of the agent has one row for each chunk that some search of its run found, with the
\* best score any of them gave it, best first: for any number of searches, each giving what it
\* may, reranked or not.
THEOREM AnswersKeepTheBest == Spec => []BestKept
<1>1. RankInv /\ [Next]_agentVars => RankInv'
  BY RankInductive
<1>. QED BY <1>1, RankInitially, RankInvMeansBest, PTL DEF Spec

\* Where the reranked rows were before, when no chunk is there twice: the rated ones where the
\* order says, the others where they are.
LEMMA WhereItWas ==
    ASSUME NEW rows \in Seq(RankedRows), NEW replies \in Seq(Ratings), NEW order, NEW out,
           Len(replies) <= Len(rows), RerankedAs(rows, replies, order, out),
           \A i, j \in 1..Len(rows) : rows[i].chunk = rows[j].chunk => i = j,
           NEW i \in 1..Len(rows)
    PROVE  LET from == IF i <= Len(replies) THEN order[i] ELSE i
           IN /\ from \in 1..Len(rows)
              /\ from <= Len(replies) <=> i <= Len(replies)
              /\ (CHOOSE j \in DOMAIN rows : rows[j].chunk = out[i].chunk) = from
<1>. DEFINE from == IF i <= Len(replies) THEN order[i] ELSE i
            n == Len(replies)
            m == Len(rows)
<1>1. n \in Nat /\ m \in Nat /\ n <= m /\ DOMAIN rows = 1..m
  BY LenProperties
<1>2. /\ order \in [1..n -> 1..n]
      /\ \A k \in 1..n : out[k].chunk = rows[order[k]].chunk
      /\ \A k \in (n + 1)..m : out[k].chunk = rows[k].chunk
  <2>1. order \in [1..n -> 1..n]
    BY DEF RerankedAs
  <2>2. \A k \in 1..n : out[k].chunk = rows[order[k]].chunk
    BY DEF RerankedAs
  <2>3. \A k \in (n + 1)..m : out[k].chunk = rows[k].chunk
    BY DEF RerankedAs
  <2>. QED BY <2>1, <2>2, <2>3
<1>3. CASE i <= n
  <2>1. i \in 1..n
    BY <1>1, <1>3
  <2>2. order[i] \in 1..n /\ order[i] \in 1..m /\ out[i].chunk = rows[order[i]].chunk
    BY <1>1, <1>2, <2>1, SMTT(30)
  <2>3. \A j \in DOMAIN rows : rows[j].chunk = out[i].chunk <=> j = order[i]
    BY <1>1, <2>2
  <2>4. from = order[i]
    BY <1>3
  <2>. QED BY <1>1, <1>3, <2>2, <2>3, <2>4
<1>4. CASE ~(i <= n)
  <2>1. i \in (n + 1)..m
    BY <1>1, <1>4
  <2>2. \A j \in DOMAIN rows : rows[j].chunk = out[i].chunk <=> j = i
    BY <1>1, <1>2, <2>1
  <2>3. from = i
    BY <1>4
  <2>. QED BY <1>1, <1>4, <2>1, <2>2, <2>3
<1>. QED BY <1>3, <1>4

\* What JudgedOrder says of a row and the one before it.
PlaceOf(rows, row) == CHOOSE j \in DOMAIN rows : rows[j].chunk = row.chunk
Worth(replies, j) == IF j > Len(replies) THEN -1
                     ELSE IF replies[j] = Unrated THEN 1 ELSE replies[j]
Follows(rows, replies, out, i) ==
    LET here == PlaceOf(rows, out[i])
        before == PlaceOf(rows, out[i - 1])
    IN /\ out[i].score <= out[i - 1].score
       /\ \/ Worth(replies, here) < Worth(replies, before)
          \/ Worth(replies, here) = Worth(replies, before) /\ before < here

LEMMA RerankedInOrder ==
    ASSUME NeutralRating = 1,
           NEW rows \in Seq(RankedRows), NEW replies \in Seq(Ratings), Len(replies) <= Len(rows),
           \A i, j \in 1..Len(rows) : rows[i].chunk = rows[j].chunk => i = j,
           Len(replies) > 0, Range(replies) # {Unrated}, NEW out, out = Reranked(rows, replies)
    PROVE  \A i \in 2..Len(rows) : Follows(rows, replies, out, i)
<1>. DEFINE at(i) == PlaceOf(rows, out[i])
            worth(j) == Worth(replies, j)
            n == Len(replies)
            m == Len(rows)
<1>1. PICK order : RerankedAs(rows, replies, order, out)
  BY RerankedIs
<1>2. n \in Nat /\ m \in Nat /\ n <= m /\ (\A j \in 1..n : replies[j] \in Ratings)
  BY LenProperties
<1>3. /\ order \in [1..n -> 1..n]
      /\ \A i, j \in 1..n : i < j =>
            \/ Rating(replies[order[i]]) > Rating(replies[order[j]])
            \/ Rating(replies[order[i]]) = Rating(replies[order[j]]) /\ order[i] < order[j]
      /\ \A k \in 1..n : out[k].score = (Rating(replies[order[k]]) + 1) * Third
      /\ \A k \in (n + 1)..m : out[k].score = 0
  BY <1>1 DEF RerankedAs
<1>4. \A j \in 1..n : worth(j) = Rating(replies[j]) /\ worth(j) \in 0..2
  <2>. TAKE j \in 1..n
  <2>1. replies[j] \in Ratings /\ ~(j > n)
    BY <1>2
  <2>. QED BY <2>1, JudgeSettings DEF Rating, Ratings, Worth
<1>5. \A j \in (n + 1)..m : worth(j) = -1
  BY <1>2 DEF Worth
<1>6. \A k \in 1..n : at(k) = order[k]
  <2>. TAKE k \in 1..n
  <2>1. k \in 1..m /\ k <= n
    BY <1>2
  <2>. QED BY <1>1, <2>1, WhereItWas, SMTT(30) DEF PlaceOf
<1>7. \A k \in (n + 1)..m : at(k) = k
  <2>. TAKE k \in (n + 1)..m
  <2>1. k \in 1..m /\ ~(k <= n)
    BY <1>2
  <2>. QED BY <1>1, <2>1, WhereItWas, SMTT(30) DEF PlaceOf
<1>. HIDE DEF at, worth, n, m
<1>8. \A x, y \in 0..2 : x <= y => (x + 1) * Third <= (y + 1) * Third /\ 0 <= (x + 1) * Third
  <2>. TAKE x, y \in 0..2
  <2>1. /\ (0 + 1) * Third = Third /\ (1 + 1) * Third = Third + Third
        /\ (2 + 1) * Third = Third + Third + Third /\ Third \in Nat
    BY JudgeSettings
  <2>2. (x = 0 \/ x = 1 \/ x = 2) /\ (y = 0 \/ y = 1 \/ y = 2)
    OBVIOUS
  <2>. QED BY <2>1, <2>2
<1>9. \A k \in 1..n : order[k] \in 1..n
  BY <1>3
<1>10. ASSUME NEW i \in 2..m
       PROVE  /\ out[i].score <= out[i - 1].score
              /\ \/ worth(at(i)) < worth(at(i - 1))
                 \/ worth(at(i)) = worth(at(i - 1)) /\ at(i - 1) < at(i)
  <2>1. CASE i <= n
    <3>1. i \in 1..n /\ i - 1 \in 1..n /\ i - 1 < i
      BY <1>2, <2>1
    <3>. DEFINE a == order[i - 1]
                b == order[i]
    <3>2. a \in 1..n /\ b \in 1..n /\ at(i - 1) = a /\ at(i) = b
      BY <1>6, <1>9, <3>1
    <3>3. \/ Rating(replies[a]) > Rating(replies[b])
          \/ Rating(replies[a]) = Rating(replies[b]) /\ a < b
      BY <1>3, <3>1
    <3>4. /\ out[i].score = (Rating(replies[b]) + 1) * Third
          /\ out[i - 1].score = (Rating(replies[a]) + 1) * Third
      BY <1>3, <3>1
    <3>. HIDE DEF a, b
    <3>5. /\ Rating(replies[a]) \in 0..2 /\ Rating(replies[b]) \in 0..2
          /\ worth(a) = Rating(replies[a]) /\ worth(b) = Rating(replies[b])
      BY <1>4, <3>2
    <3>6. Rating(replies[b]) <= Rating(replies[a])
      BY <3>3, <3>5
    <3>7. out[i].score <= out[i - 1].score
      BY <1>8, <3>4, <3>5, <3>6
    <3>8. worth(b) < worth(a) \/ (worth(b) = worth(a) /\ a < b)
      BY <3>3, <3>5
    <3>. QED BY <3>2, <3>7, <3>8
  <2>2. CASE i = n + 1
    <3>1. i \in (n + 1)..m /\ i - 1 \in 1..n
      BY <1>2, <2>2
    <3>2. at(i) = i /\ worth(i) = -1 /\ out[i].score = 0
      BY <1>3, <1>5, <1>7, <3>1
    <3>3. at(i - 1) = order[i - 1] /\ order[i - 1] \in 1..n
      BY <1>6, <1>9, <3>1
    <3>4. worth(order[i - 1]) = Rating(replies[order[i - 1]]) /\ Rating(replies[order[i - 1]]) \in 0..2
      BY <1>4, <3>3
    <3>5. out[i - 1].score = (Rating(replies[order[i - 1]]) + 1) * Third
      BY <1>3, <3>1
    <3>6. 0 <= out[i - 1].score
      BY <1>8, <3>4, <3>5
    <3>. QED BY <3>2, <3>3, <3>4, <3>6
  <2>3. CASE i > n + 1
    <3>1. i \in (n + 1)..m /\ i - 1 \in (n + 1)..m /\ i - 1 < i
      BY <1>2, <2>3
    <3>2. at(i) = i /\ at(i - 1) = i - 1 /\ worth(i) = -1 /\ worth(i - 1) = -1
      BY <1>5, <1>7, <3>1
    <3>3. out[i].score = 0 /\ out[i - 1].score = 0
      BY <1>3, <3>1
    <3>. QED BY <3>1, <3>2, <3>3
  <2>. QED BY <1>2, <2>1, <2>2, <2>3
<1>. QED BY <1>10 DEF at, worth, n, m, Follows

LEMMA RankInvMeansOrder == NeutralRating = 1 /\ RankInv => JudgedOrder
<1>. SUFFICES ASSUME NeutralRating = 1, RankInv, NEW r \in Requests, pc[r] \in {"plan", "answer"},
                     scenario.backend = "chat", candidates[r] # <<>>
              PROVE  LET rows == Last(searches[r]).rows
                         at(i) == CHOOSE j \in DOMAIN candidates[r] : candidates[r][j].chunk = rows[i].chunk
                         worth(j) == IF j > Len(answers[r]) THEN -1
                                     ELSE IF answers[r][j] = Unrated THEN 1 ELSE answers[r][j]
                     IN IF Range(answers[r]) = {Unrated}
                           THEN IsPrefix(rows, candidates[r])
                           ELSE \A i \in 2..Len(rows) :
                                   /\ rows[i].score <= rows[i - 1].score
                                   /\ \/ worth(at(i)) < worth(at(i - 1))
                                      \/ worth(at(i)) = worth(at(i - 1)) /\ at(i - 1) < at(i)
  BY DEF JudgedOrder
<1>. DEFINE rows == Last(searches[r]).rows
            from == candidates[r]
            given == answers[r]
            all == Reranked(from, given)
            n == Len(given)
            m == Len(from)
            k == Min({TopKPerStep, Len(all)})
<1>1. RankOf(r) /\ scenario \in Scenarios
  BY DEF RankInv, JudgeInv, KeysInv
<1>2. from \in Seq(RankedRows) /\ Judged(r) /\ m \in Nat \ {0}
  <2>1. from \in Seq(RankedRows) /\ Judged(r)
    BY <1>1 DEF RankOf
  <2>. QED BY <2>1, EmptySeq
<1>3. CASE rows = <<>>
  <2>1. Len(rows) = 0 /\ SubSeq(rows, 1, 0) = <<>> /\ SubSeq(from, 1, 0) = <<>>
    BY <1>3, SubSeqEmpty
  <2>2. IsPrefix(rows, from)
    BY <1>2, <2>1 DEF IsPrefix
  <2>3. 2..Len(rows) = {}
    BY <2>1
  <2>. QED BY <2>2, <2>3
<1>4. CASE Judging(r) /\ AllAnswered(r) /\ rows = Top(all)
  <2>1. given \in Seq(Ratings) /\ n <= m
    BY <1>2, <1>4, JudgedReplies
  <2>2. n \in Nat /\ n > 0
    <3>1. n = Min({RerankCandidates, m}) /\ RerankCandidates \in Nat \ {0}
      BY <1>4, JudgeSettings DEF Judging
    <3>2. n \in {RerankCandidates, m}
      <4>. HIDE DEF n, m
      <4>1. RerankCandidates \in Int /\ m \in Int
        BY <1>2, <3>1
      <4>. QED BY <3>1, <4>1, MinOfTwo
    <3>. QED BY <1>2, <3>1, <3>2
  <2>3. all \in Seq(RankedRows) /\ Len(all) = m
    BY <1>2, <2>1, RerankedIs
  <2>. HIDE DEF all, given, from, n
  <2>4. /\ k \in Nat /\ k <= Len(all) /\ Len(rows) = k
        /\ \A i \in 1..k : rows[i] = all[i]
        /\ rows = SubSeq(all, 1, k) /\ rows \in Seq(RankedRows)
    <3>1. TopKPerStep \in Nat /\ rows = SubSeq(all, 1, k)
      BY <1>4, TopKAssumption DEF Top
    <3>. HIDE DEF rows
    <3>2. k = Min({TopKPerStep, Len(all)}) /\ all \in Seq(RankedRows)
      BY <2>3
    <3>. HIDE DEF k
    <3>3. k \in Nat /\ k <= Len(all)
      <4>1. Len(all) \in Nat
        BY <3>2, LenProperties
      <4>2. TopKPerStep \in Int /\ Len(all) \in Int
        BY <3>1, <4>1
      <4>3. k \in {TopKPerStep, Len(all)} /\ k <= Len(all)
        BY <3>2, <4>2, MinOfTwo
      <4>. QED BY <3>1, <4>1, <4>3
    <3>4. /\ SubSeq(all, 1, k) \in Seq(RankedRows)
          /\ Len(SubSeq(all, 1, k)) = k
      BY <3>2, <3>3, Beginning
    <3>5. \A i \in 1..k : SubSeq(all, 1, k)[i] = all[i]
      BY <3>2, <3>3, Beginning
    <3>. QED BY <3>1, <3>3, <3>4, <3>5
  <2>5. CASE Range(given) = {Unrated}
    <3>1. all = from
      BY <1>2, <2>1, <2>2, <2>5, RerankedIs DEF all, n
    <3>2. SubSeq(rows, 1, k) = rows
      BY <2>4, SubSeqFull
    <3>3. IsPrefix(rows, from)
      BY <2>4, <3>1, <3>2 DEF IsPrefix
    <3>. QED BY <2>5, <3>3 DEF given, from
  <2>6. CASE Range(given) # {Unrated}
    <3>1. \A i, j \in 1..m : from[i].chunk = from[j].chunk => i = j
      BY <1>1, <1>4, ScenarioAssumption DEF Judging, from
    <3>2. \A i \in 2..m : Follows(from, given, all, i)
      BY <1>2, <2>1, <2>2, <2>6, <3>1, RerankedInOrder DEF all, n
    <3>. HIDE DEF rows, k, m
    <3>3. ASSUME NEW i \in 2..k PROVE Follows(from, given, rows, i)
      <4>1. i \in 2..m /\ i \in 1..k /\ i - 1 \in 1..k
        BY <2>3, <2>4
      <4>2. rows[i] = all[i] /\ rows[i - 1] = all[i - 1]
        BY <2>4, <4>1
      <4>. QED BY <3>2, <4>1, <4>2 DEF Follows
    <3>. QED BY <2>4, <2>6, <3>3 DEF Follows, PlaceOf, Worth, rows, given, from
  <2>. QED BY <2>5, <2>6
<1>. QED BY <1>2, <1>3, <1>4 DEF Judged

\* With the code's NEUTRAL_RATING of 1: what a search kept is in the order of the judge's ratings,
\* a call that failed pushing its chunk neither up nor down, and in the order it was retrieved in
\* when no call gave a rating.
THEOREM JudgeOrdersWhatItKeeps ==
    ASSUME NeutralRating = 1
    PROVE  Spec => []JudgedOrder
<1>1. RankInv /\ [Next]_agentVars => RankInv'
  BY RankInductive
<1>2. RankInv => JudgedOrder
  BY RankInvMeansOrder
<1>. QED BY <1>1, <1>2, RankInitially, PTL DEF Spec
=============================================================================
