-------------------------------- MODULE Keys --------------------------------
(***************************************************************************)
(* API keys (auth.py, admin.py): an operator creates tenants and keys and  *)
(* revokes keys at the command line, while requests with those keys are    *)
(* authenticated. A request that finds last_used_at old reads the key in   *)
(* one transaction and writes it at the end of it, so that the operator's  *)
(* commands come in between.                                               *)
(***************************************************************************)
EXTENDS Integers, FiniteSets

CONSTANTS
    Requests,   \* requests of one event loop
    KeyIds,     \* keys there can be
    Tenants,
    None        \* no tenant, no groups, no value

ASSUME NoneAssumption == None \notin Tenants

VARIABLES
    scenario,   \* what comes from outside (module Agent says more): the field admin is TRUE when
                \* there are commands and time passes, keys are the rows at first, and asked is
                \* the request of each r: [key, kind, groups, max_steps]
    keys,       \* the rows of api_keys: [tenant, scoped, used, revoked], tenant None before
    pc,         \* where a request is
    loaded      \* the row a request has read, or None

keysVars == <<keys, pc, loaded>>

\* used is last_used_at: never, within LAST_USED_REFRESH_INTERVAL, or longer ago.
NoKey == [tenant |-> None, scoped |-> FALSE, used |-> "never", revoked |-> FALSE]
Key(tenant, scoped) == [NoKey EXCEPT !.tenant = tenant, !.scoped = scoped]

Rows == [tenant : Tenants \cup {None}, scoped : BOOLEAN, used : {"never", "recently", "long ago"},
         revoked : BOOLEAN]

KeysInit ==
    /\ keys = scenario.keys
    /\ pc = [r \in Requests |-> "sent"]
    /\ loaded = [r \in Requests |-> None]

-----------------------------------------------------------------------------
(* The command line. *)

\* create_tenant: a tenant comes with a key of its own, for everything.
CreateTenant ==
    /\ scenario.admin
    /\ \E k \in KeyIds, t \in Tenants :
          /\ keys[k].tenant = None
          /\ \A j \in KeyIds : keys[j].tenant # t
          /\ keys' = [keys EXCEPT ![k] = Key(t, FALSE)]
    /\ UNCHANGED <<pc, loaded>>

\* create_key, for a tenant there is.
CreateKey ==
    /\ scenario.admin
    /\ \E k, j \in KeyIds, scoped \in BOOLEAN :
          /\ keys[k].tenant = None /\ keys[j].tenant # None
          /\ keys' = [keys EXCEPT ![k] = Key(keys[j].tenant, scoped)]
    /\ UNCHANGED <<pc, loaded>>

\* revoke_key: its prefix tells a key from the others.
RevokeKey ==
    /\ scenario.admin
    /\ \E k \in KeyIds : keys[k].tenant # None /\ keys' = [keys EXCEPT ![k].revoked = TRUE]
    /\ UNCHANGED <<pc, loaded>>

\* LAST_USED_REFRESH_INTERVAL passes.
TimePasses ==
    /\ scenario.admin
    /\ keys' = [k \in KeyIds |-> IF keys[k].used = "recently" THEN [keys[k] EXCEPT !.used = "long ago"]
                                                              ELSE keys[k]]
    /\ UNCHANGED <<pc, loaded>>

-----------------------------------------------------------------------------
(* Authentication. *)

Valid(row) == row.tenant # None /\ ~row.revoked
Refreshes(row) == row.used # "recently"

\* get_tenant for the endpoints that manage documents, check_access_scope for those that search:
\* groups is None for a request that names none.
Forbidden(row, asked) ==
    row.scoped /\ (asked.kind = "documents" \/ asked.groups \in {None, {}})

\* Where a request goes when it has its caller.
Admitted(row, asked) ==
    IF Forbidden(row, asked) THEN "refused"
    ELSE IF asked.kind = "documents" THEN "done"
    ELSE "search"

\* get_caller, up to the commit if it needs one.
Authenticate(r) ==
    /\ pc[r] = "sent"
    /\ LET asked == scenario.asked[r]
           row == keys[asked.key]
       IN /\ pc' = [pc EXCEPT ![r] = IF ~Valid(row) THEN "refused"
                                     ELSE IF Refreshes(row) THEN "refresh"
                                     ELSE Admitted(row, asked)]
          /\ loaded' = [loaded EXCEPT ![r] = row]
    /\ UNCHANGED keys

\* Mutant of Flush: every column is written, with the value it was read with.
FlushAll(row, read, object) == object

\* What a session writes: the columns that changed since the row was read, no others.
Flush(row, read, object) ==
    [tenant |-> IF object.tenant # read.tenant THEN object.tenant ELSE row.tenant,
     scoped |-> IF object.scoped # read.scoped THEN object.scoped ELSE row.scoped,
     used |-> IF object.used # read.used THEN object.used ELSE row.used,
     revoked |-> IF object.revoked # read.revoked THEN object.revoked ELSE row.revoked]

\* The commit of the new last_used_at, and on with the caller that was read before.
Refresh(r) ==
    /\ pc[r] = "refresh"
    /\ LET asked == scenario.asked[r]
           object == [loaded[r] EXCEPT !.used = "recently"]
       IN /\ keys' = [keys EXCEPT ![asked.key] = Flush(@, loaded[r], object)]
          /\ pc' = [pc EXCEPT ![r] = Admitted(loaded[r], asked)]
    /\ UNCHANGED loaded

-----------------------------------------------------------------------------

\* "revoked_at marks a key as no longer valid" (models.py:46) for good: no request that read the
\* key before it was revoked, and refreshes its last_used_at after, makes it valid again, and
\* its tenant and its restriction to a scope never change ("It cannot be changed later",
\* admin.py:78).
RevocationIsFinal ==
    [][\A k \in KeyIds : keys[k].tenant # None =>
          /\ keys[k].revoked => keys'[k].revoked
          /\ keys'[k].tenant = keys[k].tenant
          /\ keys'[k].scoped = keys[k].scoped]_keys
=============================================================================
