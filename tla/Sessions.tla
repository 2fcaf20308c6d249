------------------------------ MODULE Sessions ------------------------------
(***************************************************************************)
(* The refresh-token sessions of one user (internal/auth/jwt.go): login    *)
(* stores a session, Refresh revokes one and stores its successor, Logout  *)
(* revokes one.  Every database call is a step of its own, any of them may *)
(* fail, requests overlap, and the process may die between two steps.      *)
(*                                                                         *)
(* The status of the user is not kept: a login or a refresh that is turned *)
(* down for it, or whose reads fail, changes nothing and is no step.       *)
(*                                                                         *)
(* A session, its refresh token and the access token signed with it share  *)
(* one number, given out in order; ids and tokens are random, never repeat. *)
(***************************************************************************)
EXTENDS Integers, FiniteSets

CONSTANTS
    Request,        \* concurrent requests
    MaxSessions,    \* bound on the sessions ever stored
    MaxExpired      \* bound on the sessions that expire

ASSUME SessionsAssumption == IsFiniteSet(Request) /\ MaxSessions \in Nat /\ MaxExpired \in Nat

SessionId == 1..MaxSessions
NoSession == 0

VARIABLES
    stored,     \* rows of user_sessions
    revoked,    \* the rows whose revoked_at is set
    expired,    \* the rows whose expires_at has passed
    parent,     \* the session a session was rotated from, or NoSession
    root,       \* the login session a session descends from
    pc,         \* where each request is
    tok,        \* the session each request works on
    overlapped  \* history: two requests have been under way at once

vars == <<stored, revoked, expired, parent, root, pc, tok, overlapped>>

\* UserSession.IsActive, on the row as it is read.
IsActive(s) == s \in stored /\ s \notin revoked /\ s \notin expired

Init ==
    /\ stored = {} /\ revoked = {} /\ expired = {}
    /\ parent = [s \in SessionId |-> NoSession]
    /\ root = [s \in SessionId |-> NoSession]
    /\ pc = [r \in Request |-> "idle"]
    /\ tok = [r \in Request |-> NoSession]
    /\ overlapped = FALSE

\* Every step keeps the history of overlapping requests.
Overlap == \E r, q \in Request : r # q /\ pc[r] # "idle" /\ pc[q] # "idle"
Watch == overlapped' = IF Overlap' THEN TRUE ELSE overlapped

Goto(r, label, s) ==
    /\ pc' = [pc EXCEPT ![r] = label]
    /\ tok' = [tok EXCEPT ![r] = s]
Return(r) == Goto(r, "idle", NoSession)

sessionVars == <<stored, revoked, expired, parent, root>>

-----------------------------------------------------------------------------
\* Login has checked the user and the password and goes on to issueTokens.
LoginAccepted(r) ==
    /\ pc[r] = "idle"
    /\ Goto(r, "issue", NoSession)
    /\ UNCHANGED sessionVars
    /\ Watch

\* Slip: refresh does not look at revoked_at.
RefreshLoadUnchecked(r, s) ==
    /\ pc[r] = "idle"
    /\ s \in stored \ expired
    /\ Goto(r, "revoke", s)
    /\ UNCHANGED sessionVars
    /\ Watch

\* Refresh finds the session of the token and sees it, and then its user, active.
RefreshLoad(r, s) ==
    /\ pc[r] = "idle"
    /\ IsActive(s)
    /\ Goto(r, "revoke", s)
    /\ UNCHANGED sessionVars
    /\ Watch

\* Slip: an error of the revoking Save is ignored, as it is elsewhere in Login.
RefreshRevokeIgnoresError(r) ==
    /\ pc[r] = "revoke"
    /\ revoked' = revoked \cup {tok[r]} \/ revoked' = revoked
    /\ Goto(r, "issue", tok[r])
    /\ UNCHANGED <<stored, expired, parent, root>>
    /\ Watch

\* Slip: the whole row is saved back as it was loaded, revoked_at still NULL.
RefreshRevokeStale(r) ==
    /\ pc[r] = "revoke"
    /\ revoked' = revoked \ {tok[r]}
    /\ Goto(r, "issue", tok[r])
    /\ UNCHANGED <<stored, expired, parent, root>>
    /\ Watch

\* Refresh saves the loaded session with revoked_at set; an error ends it.
RefreshRevoke(r) ==
    /\ pc[r] = "revoke"
    /\ \/ revoked' = revoked \cup {tok[r]} /\ Goto(r, "issue", tok[r])
       \/ revoked' = revoked /\ Return(r)
    /\ UNCHANGED <<stored, expired, parent, root>>
    /\ Watch

(***************************************************************************)
(* issueTokens stores a fresh session and signs an access token for it, or *)
(* the INSERT fails and the request ends without tokens.                   *)
(***************************************************************************)
IssueTokens(r) ==
    /\ pc[r] = "issue"
    /\ \/ \E n \in SessionId \ stored :
            /\ \A m \in SessionId \ stored : n <= m
            /\ stored' = stored \cup {n}
            /\ parent' = [parent EXCEPT ![n] = tok[r]]
            /\ root' = [root EXCEPT ![n] = IF tok[r] = NoSession THEN n ELSE root[tok[r]]]
       \/ UNCHANGED <<stored, parent, root>>
    /\ Return(r)
    /\ UNCHANGED <<revoked, expired>>
    /\ Watch

\* AuthMiddleware lets the logout request in: VerifyAndCheckSession.  The access
\* token's own expiry is not modelled: it only keeps requests out.
LogoutAdmitted(r, s) ==
    /\ pc[r] = "idle"
    /\ IsActive(s)
    /\ Goto(r, "logout", s)
    /\ UNCHANGED sessionVars
    /\ Watch

\* Logout updates revoked_at by session id, or the UPDATE fails.
LogoutRevoke(r) ==
    /\ pc[r] = "logout"
    /\ \/ revoked' = revoked \cup {tok[r]}
       \/ revoked' = revoked
    /\ Return(r)
    /\ UNCHANGED <<stored, expired, parent, root>>
    /\ Watch

\* The session passes its expires_at; that of a revoked one makes no difference.
Expire(s) ==
    /\ IsActive(s) /\ Cardinality(expired) < MaxExpired
    /\ expired' = expired \cup {s}
    /\ UNCHANGED <<stored, revoked, parent, root, pc, tok>>
    /\ Watch

\* The process dies and restarts: requests are gone, the tables stay.
Crash ==
    /\ pc' = [r \in Request |-> "idle"]
    /\ tok' = [r \in Request |-> NoSession]
    /\ UNCHANGED sessionVars
    /\ Watch

Next ==
    \/ \E r \in Request :
         \/ LoginAccepted(r) \/ RefreshRevoke(r) \/ IssueTokens(r) \/ LogoutRevoke(r)
         \/ \E s \in SessionId : RefreshLoad(r, s) \/ LogoutAdmitted(r, s)
    \/ \E s \in SessionId : Expire(s)
    \/ Crash

Spec == Init /\ [][Next]_vars

Promise == INSTANCE SessionLife WITH
    Id <- SessionId, None <- NoSession, born <- stored, ended <- revoked \cup expired, from <- parent

(***************************************************************************)
(* Sessions implements SessionLife: however requests overlap, fail or die, *)
(* a session is usable once, and ends before one it is exchanged for is    *)
(* there.  In particular no Save of a session that was loaded before it    *)
(* was revoked makes it usable again.                                      *)
(***************************************************************************)
LifeSpec == Promise!SpecLife

-----------------------------------------------------------------------------
\* Every variable has its type.
TypeOK ==
    /\ stored \subseteq SessionId
    /\ revoked \subseteq stored /\ expired \subseteq stored
    /\ parent \in [SessionId -> SessionId \cup {NoSession}]
    /\ root \in [SessionId -> SessionId \cup {NoSession}]
    /\ pc \in [Request -> {"idle", "revoke", "issue", "logout"}]
    /\ tok \in [Request -> stored \cup {NoSession}]
    /\ \A r \in Request : pc[r] \in {"revoke", "logout"} => tok[r] \in stored
    /\ overlapped \in BOOLEAN

Children(s) == {n \in stored : parent[n] = s}

(***************************************************************************)
(* The session a token pair was exchanged for is revoked before the new    *)
(* pair exists, so a failure or a crash inside Refresh can lose a session  *)
(* but never leave the old one usable beside the new one.                  *)
(***************************************************************************)
ParentRevoked == \A n \in stored : parent[n] # NoSession => parent[n] \in revoked

\* Requests that have loaded session s and may still exchange it.
Pending(s) == {r \in Request : tok[r] = s /\ pc[r] \in {"revoke", "issue"}}

(***************************************************************************)
(* From the moment it is revoked a refresh token gains nothing: the pairs  *)
(* it has been exchanged for and the requests that may still exchange it   *)
(* never become more, so only those past the IsActive check ever finish.   *)
(***************************************************************************)
RevokedGainsNothing ==
    [][\A s \in revoked :
        Cardinality(Children(s)') + Cardinality(Pending(s)')
            <= Cardinality(Children(s)) + Cardinality(Pending(s))]_vars

(***************************************************************************)
(* As long as requests have not overlapped, one login has one usable       *)
(* session at a time, however often it is refreshed, fails or crashes half *)
(* way.                                                                    *)
(***************************************************************************)
OneActivePerLogin ==
    ~overlapped => \A s, t \in stored \ revoked : root[s] = root[t] => s = t

(***************************************************************************)
(* "Refresh token: ... single-use rotation" (jwt.go): a refresh token is   *)
(* exchanged for at most one new pair.                                     *)
(***************************************************************************)
SingleUse == \A m, n \in stored : parent[m] = parent[n] /\ parent[m] # NoSession => m = n
=============================================================================
