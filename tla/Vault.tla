------------------------------- MODULE Vault --------------------------------
(***************************************************************************)
(* The secrets of one tenant (internal/vault) and the quota that bounds    *)
(* them (internal/quota).  PUT checks the quota and stores the secret in   *)
(* several database statements; requests overlap, any statement may fail   *)
(* and the process may die between two of them.                            *)
(*                                                                         *)
(* A DELETE sets deleted_at and the row keeps its place in the unique      *)
(* index on (tenant_id, name), so a name has at most one row for ever.     *)
(* A Save of a row deleted meanwhile stores it again.                      *)
(***************************************************************************)
EXTENDS Integers, FiniteSets

CONSTANTS
    Request,        \* concurrent requests
    Name, NoName,   \* secret names; no secret
    DefaultLimit,   \* MaxSecrets of the smb tier
    TopLimit,       \* bound: largest MaxSecrets an admin sets
    MaxVersion      \* bound: versions of a secret

ASSUME VaultAssumption ==
    /\ NoName \notin Name
    /\ IsFiniteSet(Name) /\ IsFiniteSet(Request) /\ Request # {}
    /\ DefaultLimit \in Nat /\ TopLimit \in Nat /\ MaxVersion \in Nat

NoQuota == -1

VARIABLES
    quota,      \* max_secrets of the tenant's row, or NoQuota
    state,      \* the row of each name: "none", "live" or "deleted"
    version,    \* its version
    pc,         \* where each request is
    want,       \* the name a request puts
    number,     \* the limit or the version a request holds
    puts,       \* history: successful PUTs of each name
    high,       \* history: the largest limit that was ever in force
    overlapped  \* history: two requests have been under way at once

vars == <<quota, state, version, pc, want, number, puts, high, overlapped>>

Live == {n \in Name : state[n] = "live"}
Larger(a, b) == IF a < b THEN b ELSE a

Init ==
    /\ quota = NoQuota
    /\ state = [n \in Name |-> "none"]
    /\ version = [n \in Name |-> 0]
    /\ pc = [r \in Request |-> "idle"]
    /\ want = [r \in Request |-> NoName]
    /\ number = [r \in Request |-> 0]
    /\ puts = [n \in Name |-> 0]
    /\ high = DefaultLimit
    /\ overlapped = FALSE

\* Every step keeps the history of overlapping requests.
Overlap == \E r, q \in Request : r # q /\ pc[r] # "idle" /\ pc[q] # "idle"
Watch == overlapped' = IF Overlap' THEN TRUE ELSE overlapped

Goto(r, label, n, k) ==
    /\ pc' = [pc EXCEPT ![r] = label]
    /\ want' = [want EXCEPT ![r] = n]
    /\ number' = [number EXCEPT ![r] = k]
Return(r) == Goto(r, "idle", NoName, 0)
secretVars == <<state, version, puts>>
quotaVars == <<quota, high>>

-----------------------------------------------------------------------------
\* Slip: a PUT of a new name does not ask for the quota.
PutGetUnchecked(r, n) ==
    /\ pc[r] = "idle"
    /\ Goto(r, "lookup", n, 0)
    /\ UNCHANGED <<secretVars, quotaVars>>
    /\ Watch

\* PutHandler: only a name without a secret has to pass the quota.
PutGet(r, n) ==
    /\ pc[r] = "idle"
    /\ Goto(r, IF state[n] = "live" THEN "lookup" ELSE "quota", n, 0)
    /\ UNCHANGED <<secretVars, quotaVars>>
    /\ Watch

\* PutHandler drops the error of its lookup and takes the name for a new one.
PutGetFails(r, n) ==
    /\ pc[r] = "idle"
    /\ Goto(r, "quota", n, 0)
    /\ UNCHANGED <<secretVars, quotaVars>>
    /\ Watch

\* The quota handlers read the row on their own, for no secret.
ShowQuota(r) ==
    /\ pc[r] = "idle"
    /\ Goto(r, "quota", NoName, 0)
    /\ UNCHANGED <<secretVars, quotaVars>>
    /\ Watch

\* Check goes on to count with the limit; the quota handlers are done.
GotLimit(r, limit) ==
    IF want[r] = NoName THEN Return(r) ELSE Goto(r, "count", want[r], limit)

\* quota.Get: the tenant's row, if there is one.
QuotaGet(r) ==
    /\ pc[r] = "quota"
    /\ IF quota # NoQuota THEN GotLimit(r, quota) ELSE Goto(r, "quota_create", want[r], 0)
    /\ UNCHANGED <<secretVars, quotaVars>>
    /\ Watch

\* quota.Get creates the row; a second one violates the unique index.
QuotaCreate(r) ==
    /\ pc[r] = "quota_create"
    /\ IF quota = NoQuota
       THEN quota' = DefaultLimit /\ GotLimit(r, DefaultLimit)
       ELSE quota' = quota /\ Return(r)
    /\ UNCHANGED <<secretVars, high>>
    /\ Watch

\* Slip: the limit is taken as the last count that is still allowed.
QuotaCountOffByOne(r) ==
    /\ pc[r] = "count"
    /\ IF Cardinality(Live) > number[r] THEN Return(r) ELSE Goto(r, "lookup", want[r], 0)
    /\ UNCHANGED <<secretVars, quotaVars>>
    /\ Watch

\* quota.Check counts the secrets against the limit it read.
QuotaCount(r) ==
    /\ pc[r] = "count"
    /\ IF Cardinality(Live) >= number[r] THEN Return(r) ELSE Goto(r, "lookup", want[r], 0)
    /\ UNCHANGED <<secretVars, quotaVars>>
    /\ Watch

\* Vault.Put looks the name up again: rotate it, or create it.
PutLookup(r) ==
    /\ pc[r] = "lookup"
    /\ IF state[want[r]] = "live"
       THEN version[want[r]] < MaxVersion /\ Goto(r, "save", want[r], version[want[r]] + 1)
       ELSE Goto(r, "create", want[r], 1)
    /\ UNCHANGED <<secretVars, quotaVars>>
    /\ Watch

\* Rotation saves the whole row that was loaded, with its new version.
PutSave(r) ==
    /\ pc[r] = "save"
    /\ state' = [state EXCEPT ![want[r]] = "live"]
    /\ version' = [version EXCEPT ![want[r]] = number[r]]
    /\ puts' = [puts EXCEPT ![want[r]] = puts[want[r]] + 1]
    /\ Return(r)
    /\ UNCHANGED quotaVars
    /\ Watch

\* Slip: the INSERT leaves the version to the caller.
PutCreateUnset(r) ==
    /\ pc[r] = "create"
    /\ state[want[r]] = "none"
    /\ state' = [state EXCEPT ![want[r]] = "live"]
    /\ version' = [version EXCEPT ![want[r]] = NoQuota]
    /\ puts' = [puts EXCEPT ![want[r]] = puts[want[r]] + 1]
    /\ Return(r)
    /\ UNCHANGED quotaVars
    /\ Watch

\* Slip: a deleted row of that name is taken over.
PutCreateRevives(r) ==
    /\ pc[r] = "create"
    /\ state[want[r]] # "live"
    /\ state' = [state EXCEPT ![want[r]] = "live"]
    /\ version' = [version EXCEPT ![want[r]] = 1]
    /\ puts' = [puts EXCEPT ![want[r]] = puts[want[r]] + 1]
    /\ Return(r)
    /\ UNCHANGED quotaVars
    /\ Watch

\* The INSERT of version 1; a row of that name, deleted or not, refuses it.
PutCreate(r) ==
    /\ pc[r] = "create"
    /\ state[want[r]] = "none"
    /\ state' = [state EXCEPT ![want[r]] = "live"]
    /\ version' = [version EXCEPT ![want[r]] = 1]
    /\ puts' = [puts EXCEPT ![want[r]] = puts[want[r]] + 1]
    /\ Return(r)
    /\ UNCHANGED quotaVars
    /\ Watch

\* Vault.Delete: one statement; it finds no row when the name has no secret.
\* It is a request of its own, so it overlaps with any that is under way.
Delete(n) ==
    /\ state[n] = "live"
    /\ state' = [state EXCEPT ![n] = "deleted"]
    /\ overlapped' = IF \E r \in Request : pc[r] # "idle" THEN TRUE ELSE overlapped
    /\ UNCHANGED <<version, pc, want, number, puts, quotaVars>>

\* quota.Put of an administrator: load the row, then save or create it.
QuotaPutLoad(r) ==
    /\ pc[r] = "idle"
    /\ \E limit \in 0..TopLimit :
         Goto(r, IF quota = NoQuota THEN "quota_insert" ELSE "quota_save", NoName, limit)
    /\ UNCHANGED <<secretVars, quotaVars>>
    /\ Watch

QuotaPut(r) ==
    /\ \/ pc[r] = "quota_save"
       \/ pc[r] = "quota_insert" /\ quota = NoQuota
    /\ quota' = number[r]
    /\ high' = Larger(high, number[r])
    /\ Return(r)
    /\ UNCHANGED secretVars
    /\ Watch

\* A statement fails, or an index refuses it: the request ends.
StatementFails(r) ==
    /\ pc[r] # "idle"
    /\ Return(r)
    /\ UNCHANGED <<secretVars, quotaVars>>
    /\ Watch

Crash ==
    /\ pc' = [r \in Request |-> "idle"]
    /\ want' = [r \in Request |-> NoName]
    /\ number' = [r \in Request |-> 0]
    /\ UNCHANGED <<secretVars, quotaVars>>
    /\ Watch

Next ==
    \/ \E r \in Request :
         \/ ShowQuota(r) \/ QuotaGet(r) \/ QuotaCreate(r) \/ QuotaCount(r)
         \/ PutLookup(r) \/ PutSave(r) \/ PutCreate(r)
         \/ QuotaPutLoad(r) \/ QuotaPut(r) \/ StatementFails(r)
         \/ \E n \in Name : PutGet(r, n) \/ PutGetFails(r, n)
    \/ \E n \in Name : Delete(n)
    \/ Crash

Spec == Init /\ [][Next]_vars

-----------------------------------------------------------------------------
\* Every variable has its type.
TypeOK ==
    /\ quota \in Nat \cup {NoQuota}
    /\ state \in [Name -> {"none", "live", "deleted"}]
    /\ version \in [Name -> Nat]
    /\ pc \in [Request -> {"idle", "quota", "quota_create", "count", "lookup",
                           "save", "create", "quota_insert", "quota_save"}]
    /\ want \in [Request -> Name \cup {NoName}]
    /\ \A r \in Request : pc[r] \in {"count", "lookup", "save", "create"} => want[r] \in Name
    /\ number \in [Request -> Nat]
    /\ puts \in [Name -> Nat]
    /\ high \in Nat
    /\ overlapped \in BOOLEAN

(***************************************************************************)
(* However PUTs, deletions and quota changes overlap, a tenant never has   *)
(* more secrets than the largest limit ever in force plus the requests     *)
(* under way less one.  PutHandler counts and stores in different          *)
(* statements, so this and not the limit itself is what it guarantees.     *)
(***************************************************************************)
OverrunBounded == Cardinality(Live) <= high + Cardinality(Request) - 1

(***************************************************************************)
(* As long as requests have not overlapped, a secret is only added within  *)
(* the limit in force at that moment, also after an administrator lowered  *)
(* it below the number of secrets ("On every PUT we check MaxSecrets via   *)
(* the quota service", handlers.go).                                       *)
(***************************************************************************)
AddedWithinQuota ==
    [][~overlapped' /\ Cardinality(Live') > Cardinality(Live)
         => Cardinality(Live') <= quota]_vars

(***************************************************************************)
(* As long as requests have not overlapped, the version of a secret is the *)
(* number of PUTs of its name that ever succeeded, through failed writes,  *)
(* crashes and deletions ("version=1 ... version++", handlers.go).  So a   *)
(* deleted name, which keeps its place in the unique index, never starts   *)
(* again at version 1.                                                     *)
(***************************************************************************)
VersionCountsPuts == ~overlapped => \A n \in Name : version[n] = puts[n]
=============================================================================
