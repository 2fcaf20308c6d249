----------------------------- MODULE UserLogin ------------------------------
(***************************************************************************)
(* auth.Service.Login against one row of the users table: the status and   *)
(* lock checks, the failed-login counter, the lock, and the whole-row Save *)
(* of a copy that was loaded before the password was compared.  Other      *)
(* writers of the row are rbac.AssignRole and an operator's status change. *)
(*                                                                         *)
(* LockedUntil is kept as the minutes that are left: NoLock is the NULL    *)
(* column, 0 a lock that has expired.  Time passing therefore lowers it in *)
(* the row and in every copy alike.  FailedLogins is only ever compared    *)
(* with the threshold, so the counters stop there.                         *)
(***************************************************************************)
EXTENDS Integers

CONSTANTS
    Request,    \* concurrent POST /auth/login requests for this user
    Role,       \* role names
    MaxFailed,  \* failures that lock the user: 5 in the code
    LockFor     \* how long a lock lasts: 15 minutes in the code

ASSUME LoginAssumption ==
    /\ Role # {}
    /\ MaxFailed \in Nat \ {0}
    /\ LockFor \in Nat \ {0}

VARIABLES
    user,       \* the users row
    pc,         \* where each request is inside Login
    copy,       \* the user value each request has loaded and changed
    wrong,      \* wrong passwords compared so far (counted up to MaxFailed)
    assigned,   \* the role the last AssignRole stored
    raced       \* history: a role was assigned while a login held a copy

vars == <<user, pc, copy, wrong, assigned, raced>>

NoLock == -1
MakeUser(status, failed, locked, role) ==
    [status |-> status, failed |-> failed, locked |-> locked, role |-> role]
User == [status : {"active", "suspended"}, failed : 0..MaxFailed,
         locked : {NoLock} \cup Nat, role : Role]

\* user.LockedUntil.After(time.Now())
LockInForce(u) == u.locked > 0

\* One minute less to go on a lock that has not run out.
Age(u) == MakeUser(u.status, u.failed,
                   IF u.locked > 0 THEN u.locked - 1 ELSE u.locked, u.role)

\* A counter that stops at the threshold.
Count(n) == IF n < MaxFailed THEN n + 1 ELSE MaxFailed

\* The user value after a wrong password.
AfterWrong(u) ==
    MakeUser(u.status, Count(u.failed),
             IF Count(u.failed) >= MaxFailed THEN LockFor ELSE u.locked, u.role)

\* Slip: a success clears the lock and forgets the counter.
AfterRightKeepsCount(u) == MakeUser(u.status, u.failed, NoLock, u.role)

\* The user value after the right password.
AfterRight(u) == MakeUser(u.status, 0, NoLock, u.role)

\* The row createAdminUser stores: active, no failures, no lock.
Fresh(role) == MakeUser("active", 0, NoLock, role)

\* What stands for the copy of a request that has none.
Blank == Fresh(CHOOSE role \in Role : TRUE)

-----------------------------------------------------------------------------
Init ==
    /\ \E role \in Role : user = Fresh(role) /\ assigned = role
    /\ pc = [r \in Request |-> "idle"]
    /\ copy = [r \in Request |-> Blank]
    /\ wrong = 0
    /\ raced = FALSE

Tick ==
    /\ user' = Age(user)
    /\ copy' = [r \in Request |-> Age(copy[r])]
    /\ UNCHANGED <<pc, wrong, assigned, raced>>

\* Slip: the status and lock checks are skipped.
LoadUserUnchecked(r) ==
    /\ pc[r] = "idle"
    /\ copy' = [copy EXCEPT ![r] = user]
    /\ pc' = [pc EXCEPT ![r] = "compare"]
    /\ UNCHANGED <<user, wrong, assigned, raced>>

\* Slip: a copy that was loaded before is used again.
LoadUserCached(r) ==
    /\ pc[r] = "idle"
    /\ user.status = "active"
    /\ ~LockInForce(user)
    /\ pc' = [pc EXCEPT ![r] = "compare"]
    /\ UNCHANGED <<user, copy, wrong, assigned, raced>>

\* Load the row; a user that is not active or is locked is refused here.
LoadUser(r) ==
    /\ pc[r] = "idle"
    /\ user.status = "active"
    /\ ~LockInForce(user)
    /\ copy' = [copy EXCEPT ![r] = user]
    /\ pc' = [pc EXCEPT ![r] = "compare"]
    /\ UNCHANGED <<user, wrong, assigned, raced>>

\* VerifyPassword says no: count the failure, lock at the threshold.
WrongPassword(r) ==
    /\ pc[r] = "compare"
    /\ copy' = [copy EXCEPT ![r] = AfterWrong(copy[r])]
    /\ wrong' = Count(wrong)
    /\ pc' = [pc EXCEPT ![r] = "save_failure"]
    /\ UNCHANGED <<user, assigned, raced>>

\* VerifyPassword says yes: reset the counter and the lock.
RightPassword(r) ==
    /\ pc[r] = "compare"
    /\ copy' = [copy EXCEPT ![r] = AfterRight(copy[r])]
    /\ pc' = [pc EXCEPT ![r] = "save_success"]
    /\ UNCHANGED <<user, wrong, assigned, raced>>

\* db.Save writes every column of the copy; its error is ignored.
SaveUser(r) ==
    /\ pc[r] \in {"save_failure", "save_success"}
    /\ \/ user' = copy[r]
       \/ user' = user
    /\ copy' = [copy EXCEPT ![r] = Blank]
    /\ pc' = [pc EXCEPT ![r] = IF pc[r] = "save_failure" THEN "idle" ELSE "issue"]
    /\ UNCHANGED <<wrong, assigned, raced>>

\* issueTokens after a successful login; what it stores is in module Sessions.
IssueTokens(r) ==
    /\ pc[r] = "issue"
    /\ pc' = [pc EXCEPT ![r] = "idle"]
    /\ UNCHANGED <<user, copy, wrong, assigned, raced>>

\* Request r has loaded the user and has not saved it yet.
Holds(r) == pc[r] \in {"compare", "save_failure", "save_success"}

\* rbac.AssignRole: UPDATE users SET role, one column.
AssignRole(role) ==
    /\ user' = MakeUser(user.status, user.failed, user.locked, role)
    /\ assigned' = role
    /\ raced' = IF \E r \in Request : Holds(r) THEN TRUE ELSE raced
    /\ UNCHANGED <<pc, copy, wrong>>

\* An operator changes the status column; no handler of the server does.
SetStatus ==
    /\ \E status \in {"active", "suspended"} :
         user' = MakeUser(status, user.failed, user.locked, user.role)
    /\ UNCHANGED <<pc, copy, wrong, assigned, raced>>

\* The process stops: requests are gone, the row stays as it is.
Crash ==
    /\ pc' = [r \in Request |-> "idle"]
    /\ copy' = [r \in Request |-> Blank]
    /\ UNCHANGED <<user, wrong, assigned, raced>>

Next ==
    \/ Tick
    \/ \E r \in Request :
         LoadUser(r) \/ WrongPassword(r) \/ RightPassword(r) \/ SaveUser(r) \/ IssueTokens(r)
    \/ \E role \in Role : AssignRole(role)
    \/ SetStatus
    \/ Crash

Spec == Init /\ [][Next]_vars

-----------------------------------------------------------------------------
\* Every variable has its type.
TypeOK ==
    /\ user \in User
    /\ pc \in [Request -> {"idle", "compare", "save_failure", "save_success", "issue"}]
    /\ copy \in [Request -> User]
    /\ wrong \in 0..MaxFailed
    /\ assigned \in Role
    /\ raced \in BOOLEAN

(***************************************************************************)
(* A user is never locked before MaxFailed wrong passwords were sent for   *)
(* it, and a counter at the threshold always comes with a lock, however    *)
(* the requests overlap and whichever stale copies are saved over the row  *)
(* (Login, jwt.go).                                                        *)
(***************************************************************************)
LockMatchesFailures ==
    /\ user.locked # NoLock => wrong >= MaxFailed
    /\ user.failed >= MaxFailed => user.locked # NoLock

(***************************************************************************)
(* A lock in force runs out as time passes, whatever the requests that     *)
(* loaded the user before it was locked still save: no new request gets    *)
(* past the lock check, so only finitely many of them can renew it.        *)
(***************************************************************************)
LockRunsOut == LockInForce(user) ~> ~LockInForce(user)

(***************************************************************************)
(* "AssignRole sets a user's role" (custom.go): the user has the role that *)
(* was assigned last, whatever logins save, unless a role was assigned     *)
(* between a login's load of the row and its save.  That login writes the  *)
(* old role back, so the condition cannot be dropped.                      *)
(***************************************************************************)
AssignedRoleSticks == ~raced => user.role = assigned
=============================================================================
