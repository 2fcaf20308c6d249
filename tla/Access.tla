------------------------------ MODULE Access --------------------------------
(***************************************************************************)
(* The way of a request to an /api/v1/admin handler: rate limiter, license *)
(* mode, API key, session and permission, each reading a state of its own, *)
(* and the handlers that change the custom roles and the API keys that     *)
(* other requests are being checked against.                               *)
(*                                                                         *)
(* Each database statement is one step and may fail.  The license mode is  *)
(* computed when the process starts and the buckets live in memory; roles, *)
(* keys and sessions are rows.  The custom role has one row for ever: a    *)
(* deleted row keeps its place in the unique index on its name.            *)
(***************************************************************************)
EXTENDS RateLimit

CONSTANTS
    Request,        \* concurrent requests
    Key, NoKey,     \* API keys; no key was sent
    ExpiresAt,      \* when the license expires
    GraceEndsAt     \* when its grace period ends

ASSUME AccessAssumption ==
    /\ NoKey \notin Key
    /\ ExpiresAt \in Nat /\ GraceEndsAt \in Nat /\ ExpiresAt <= GraceEndsAt

\* The session of a root_admin, and one whose role is the custom role.
Caller == {"root_admin", "custom"}
Op == {"list", "license", "create_role", "update_role", "delete_role",
       "create_key", "revoke_key"}

VARIABLES
    mode,       \* license.globalMode
    live,       \* the callers whose session is active
    role,       \* the row of the custom role: "none", "live" or "deleted"
    grant,      \* what it permits: "admin" or "other" resources only
    key,        \* the row of each key: "none", "active", "expired" or "revoked"
    pc,         \* where each request is
    req,        \* what it asks for and what it carries
    barred,     \* history: requests whose session or key was dead on arrival
    revivers    \* history: updates that had read the role when it was deleted

rowVars == <<live, role, grant, key>>
vars == <<limiterVars, mode, rowVars, pc, req, barred, revivers>>

NoRequest == [op |-> "list", caller |-> "custom", key |-> NoKey]

\* ModeAt: active until the expiry, read only after the grace period.
ModeAt(now) ==
    IF now < ExpiresAt THEN "active" ELSE IF now < GraceEndsAt THEN "grace" ELSE "locked"

Init ==
    /\ LimiterInit
    /\ mode = ModeAt(clock)
    /\ live = Caller
    /\ role = "none" /\ grant = "other"
    /\ key = [k \in Key |-> "none"]
    /\ pc = [r \in Request |-> "idle"]
    /\ req = [r \in Request |-> NoRequest]
    /\ barred = {} /\ revivers = {}

Goto(r, label) == pc' = [pc EXCEPT ![r] = label] /\ UNCHANGED <<req, barred>>
\* A request that has passed its checks needs nothing but the operation.
Enter(r, label) ==
    /\ pc' = [pc EXCEPT ![r] = label]
    /\ req' = [req EXCEPT ![r] = [op |-> req[r].op, caller |-> NoRequest.caller, key |-> NoKey]]
    /\ UNCHANGED barred
Return(r) ==
    /\ pc' = [pc EXCEPT ![r] = "idle"]
    /\ req' = [req EXCEPT ![r] = NoRequest]
    /\ barred' = barred \ {r}

-----------------------------------------------------------------------------
\* Slip: DELETE is forgotten among the write methods.
WriteOpsWithoutDelete == {"license", "create_role", "update_role", "create_key"}

\* writeMethods: what comes as POST, PUT or DELETE.
WriteOps == {"license", "create_role", "update_role", "delete_role",
             "create_key", "revoke_key"}

\* ReadOnlyEnforcer: a locked panel refuses writes, save to the exempt paths.
Blocked(op) == mode = "locked" /\ op \in WriteOps \ {"license"}

\* RateLimiter.Middleware: 429.
Limited(ip) ==
    /\ Refuse(ip)
    /\ UNCHANGED <<mode, rowVars, pc, req, barred, revivers>>

\* Slip: a request that a locked panel refuses gives its token back.
LockedRefunds(ip, op) ==
    /\ Blocked(op)
    /\ Refilled(ip) >= Cost
    /\ Store(ip, Refilled(ip))
    /\ UNCHANGED <<spent, mode, rowVars, pc, req, barred, revivers>>

\* ReadOnlyEnforcer: 423, after the limiter has taken its token.
Locked(ip, op) ==
    /\ Allow(ip)
    /\ Blocked(op)
    /\ UNCHANGED <<mode, rowVars, pc, req, barred, revivers>>

\* A request passes the limiter and the license mode, which is fixed while the
\* process runs, and meets the API-key middleware or the session check.  A key
\* is random: nobody sends one before it was created.
Arrive(r, ip, q) ==
    /\ pc[r] = "idle"
    /\ q.key # NoKey => key[q.key] # "none"
    /\ Allow(ip)
    /\ ~Blocked(q.op)
    /\ pc' = [pc EXCEPT ![r] = IF q.key = NoKey THEN "auth" ELSE "key"]
    /\ req' = [req EXCEPT ![r] = q]
    /\ barred' = IF q.caller \in live /\ (q.key # NoKey => key[q.key] = "active")
                 THEN barred ELSE barred \cup {r}
    /\ UNCHANGED <<mode, rowVars, revivers>>

\* KeyService.Verify reads the row; revoked or expired (IsActive): 401.
VerifyKey(r) ==
    /\ pc[r] = "key"
    /\ IF key[req[r].key] = "active" THEN Goto(r, "bump") ELSE Return(r)
    /\ UNCHANGED <<limiterVars, mode, rowVars, revivers>>

\* The claims of the key are dropped: AuthMiddleware runs on every request and
\* sets those of its token.
Verified(r) ==
    /\ pc' = [pc EXCEPT ![r] = "auth"]
    /\ req' = [req EXCEPT ![r] = [op |-> @.op, caller |-> @.caller, key |-> NoKey]]
    /\ UNCHANGED barred

\* Slip: the usage is stored by saving the whole row that was read.
BumpKeySaves(r) ==
    /\ pc[r] = "bump"
    /\ key' = [key EXCEPT ![req[r].key] = IF @ = "revoked" THEN "active" ELSE @]
    /\ Verified(r)
    /\ UNCHANGED <<limiterVars, mode, live, role, grant, revivers>>

\* Verify then writes the two usage columns, which nothing here reads, and
\* leaves the others alone; that this fails does not fail the request.
BumpKey(r) ==
    /\ pc[r] = "bump"
    /\ Verified(r)
    /\ UNCHANGED <<limiterVars, mode, rowVars, revivers>>

\* Slip: the token alone decides, its session is not looked up.
CheckSessionSkipped(r) ==
    /\ pc[r] = "auth"
    /\ Goto(r, "permission")
    /\ UNCHANGED <<limiterVars, mode, rowVars, revivers>>

\* VerifyAndCheckSession: the session of the token is active; otherwise 403.
CheckSession(r) ==
    /\ pc[r] = "auth"
    /\ IF req[r].caller \in live THEN Goto(r, "permission") ELSE Return(r)
    /\ UNCHANGED <<limiterVars, mode, rowVars, revivers>>

\* HasPermission and HasPermissionFor of (admin, read), on the row as it is now.
HasPermission(caller) ==
    caller = "root_admin" \/ (role = "live" /\ grant = "admin")

FirstStep(op) ==
    IF op \in {"update_role", "delete_role"} THEN "get_role" ELSE op

\* RequirePermission: on to the handler, or 403.
RequirePermission(r) ==
    /\ pc[r] = "permission"
    /\ IF HasPermission(req[r].caller) THEN Enter(r, FirstStep(req[r].op)) ELSE Return(r)
    /\ UNCHANGED <<limiterVars, mode, rowVars, revivers>>

-----------------------------------------------------------------------------
\* The lists change nothing, and an uploaded license is refused (400): no
\* public key is configured and license.Parse does not accept a key without.
Answer(r) ==
    /\ pc[r] \in {"list", "license"}
    /\ Return(r)
    /\ UNCHANGED <<limiterVars, mode, rowVars, revivers>>

\* Service.Create: the name's place in the unique index is free only once.
CreateRole(r, g) ==
    /\ pc[r] = "create_role"
    /\ IF role = "none" THEN role' = "live" /\ grant' = g ELSE UNCHANGED <<role, grant>>
    /\ Return(r)
    /\ UNCHANGED <<limiterVars, mode, live, key, revivers>>

\* Slip: the lookup also finds a deleted row.
GetRoleUnscoped(r) ==
    /\ pc[r] = "get_role"
    /\ IF role # "none" THEN Goto(r, req[r].op) ELSE Return(r)
    /\ UNCHANGED <<limiterVars, mode, rowVars, revivers>>

\* Update and Delete first read the row; 404 if there is none.
GetRole(r) ==
    /\ pc[r] = "get_role"
    /\ IF role = "live" THEN Goto(r, req[r].op) ELSE Return(r)
    /\ UNCHANGED <<limiterVars, mode, rowVars, revivers>>

\* Update saves the row it has read: stored again if it was deleted meanwhile.
SaveRole(r, g) ==
    /\ pc[r] = "update_role"
    /\ role' = "live" /\ grant' = g
    /\ Return(r)
    /\ revivers' = revivers \ {r}
    /\ UNCHANGED <<limiterVars, mode, live, key>>

\* Delete sets deleted_at, unless it is set; nobody reads what the row grants.
DeleteRole(r) ==
    /\ pc[r] = "delete_role"
    /\ role' = "deleted" /\ grant' = "other"
    /\ revivers' = IF role = "live" THEN {q \in Request : pc[q] = "update_role"} ELSE revivers
    /\ Return(r)
    /\ UNCHANGED <<limiterVars, mode, live, key>>

\* KeyService.Create stores a new key.
CreateKey(r, k) ==
    /\ pc[r] = "create_key"
    /\ key[k] = "none"
    /\ key' = [key EXCEPT ![k] = "active"]
    /\ Return(r)
    /\ UNCHANGED <<limiterVars, mode, live, role, grant, revivers>>

\* Revoke: one UPDATE of the columns it is about; 404 if there is no row.
RevokeKey(r, k) ==
    /\ pc[r] = "revoke_key"
    /\ key' = [key EXCEPT ![k] = IF @ = "none" THEN @ ELSE "revoked"]
    /\ Return(r)
    /\ UNCHANGED <<limiterVars, mode, live, role, grant, revivers>>

\* A statement fails, the key is not known, or the token is missing, malformed
\* or expired.  The request is answered with an error and has changed nothing.
Fail(r) ==
    /\ pc[r] \notin {"idle", "bump", "list", "license"}
    /\ Return(r)
    /\ revivers' = revivers \ {r}
    /\ UNCHANGED <<limiterVars, mode, rowVars>>

-----------------------------------------------------------------------------
\* A user logs out and the session is revoked for ever.
Logout(u) ==
    /\ live' = live \ {u}
    /\ UNCHANGED <<limiterVars, mode, role, grant, key, pc, req, barred, revivers>>

\* The expires_at of a key passes.
Expire(k) ==
    /\ key[k] = "active"
    /\ key' = [key EXCEPT ![k] = "expired"]
    /\ UNCHANGED <<limiterVars, mode, live, role, grant, pc, req, barred, revivers>>

\* The process dies and starts again: SetGlobal computes the mode anew.
Restart ==
    /\ NewRateLimiter
    /\ mode' = ModeAt(clock)
    /\ pc' = [r \in Request |-> "idle"]
    /\ req' = [r \in Request |-> NoRequest]
    /\ barred' = {} /\ revivers' = {}
    /\ UNCHANGED rowVars

\* Time passes, or the observer opens a window: the limiter's own steps.
TimeStep == (Tick \/ OpenWindow) /\ UNCHANGED <<mode, rowVars, pc, req, barred, revivers>>

Carried == [op : Op, caller : Caller, key : Key \cup {NoKey}]
Gate(r) ==
    \/ \E ip \in IPs, q \in Carried : Arrive(r, ip, q)
    \/ VerifyKey(r) \/ BumpKey(r) \/ CheckSession(r) \/ RequirePermission(r) \/ Fail(r)
Handler(r) ==
    \/ Answer(r) \/ GetRole(r) \/ DeleteRole(r)
    \/ \E g \in {"admin", "other"} : CreateRole(r, g) \/ SaveRole(r, g)
    \/ \E k \in Key : RevokeKey(r, k) \/ CreateKey(r, k)
Next ==
    \/ \E r \in Request : Gate(r) \/ Handler(r)
    \/ \E ip \in IPs : Limited(ip) \/ \E op \in Op : Locked(ip, op)
    \/ \E u \in Caller : Logout(u)
    \/ \E k \in Key : Expire(k)
    \/ Restart \/ TimeStep

Spec == Init /\ [][Next]_vars

-----------------------------------------------------------------------------
Label == {"idle", "key", "bump", "auth", "permission", "get_role"} \cup Op

TypeOK ==
    /\ LimiterTypeOK
    /\ mode \in {"active", "grace", "locked"}
    /\ live \subseteq Caller
    /\ role \in {"none", "live", "deleted"} /\ grant \in {"admin", "other"}
    /\ key \in [Key -> {"none", "active", "expired", "revoked"}]
    /\ pc \in [Request -> Label] /\ req \in [Request -> Carried]
    /\ barred \subseteq Request /\ revivers \subseteq Request

\* A request that arrives with the token of a revoked session, or with a key
\* that is revoked or expired, reaches no handler and not even the
\* permission check, whatever else runs meanwhile.
RevocationBars ==
    \A r \in barred : pc[r] \in {"key", "bump", "auth"}

\* A revoked key stays revoked: the bump of its usage, which a request that had
\* verified it before may still write, does not bring it back.
RevokedKeyForever ==
    [][\A k \in Key : key[k] = "revoked" => key'[k] = "revoked"]_vars

\* A step that changes the status of no key; time may still end one.
NoKeyWritten == \A k \in Key : key'[k] = key[k] \/ (key[k] = "active" /\ key'[k] = "expired")

\* A locked panel is read only: no request, not even one that was under way,
\* creates, changes or removes a role, or creates or revokes a key.  Verify goes
\* on writing the usage columns of a key, which are not kept here.
LockedPanelIsReadOnly ==
    [][mode = "locked" => UNCHANGED <<role, grant>> /\ NoKeyWritten]_vars

\* A deleted role comes back only through an update that had read it before the
\* deletion: creating or updating it afterwards does not revive what it grants.
DeletedRoleStaysDeleted ==
    [][role = "deleted" /\ revivers = {} => role' = "deleted"]_vars
=============================================================================
