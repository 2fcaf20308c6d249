---------------------------- MODULE AccessProofs ----------------------------
(***************************************************************************)
(* Proofs about Access and the rate limiter it contains, for any number of *)
(* callers, requests and keys, every rate, burst and license: the limit    *)
(* holds in every window, the request path keeps the limiter's promise, a  *)
(* revoked credential reaches no handler and is not revived, a locked      *)
(* panel is read only, and a deleted role stays deleted.                   *)
(***************************************************************************)
EXTENDS Access, TLAPS

USE RateLimitAssumption, AccessAssumption DEF MinF

\* A bucket never holds more than the burst, nor more than it had and earned.
LEMMA RefilledBounds ==
    ASSUME WindowInv, NEW ip \in IPs
    PROVE  /\ Refilled(ip) \in Nat
           /\ Refilled(ip) <= Burst
           /\ ip \in made => Refilled(ip) <= tokens[ip] + (clock - last[ip])
BY DEF WindowInv, LimiterTypeOK, Refilled

\* A call of allow keeps the invariant when what it leaves in the bucket and
\* what it adds to the account come from what was there.
LEMMA StoreKeeps ==
    ASSUME WindowInv, NEW ip \in IPs, NEW c \in Nat,
           c <= Refilled(ip),
           Store(ip, Refilled(ip) - c),
           spent' = [spent EXCEPT ![ip] = spent[ip] + c]
    PROVE  WindowInv'
<1>1. /\ Refilled(ip) \in Nat
      /\ Refilled(ip) <= Burst
      /\ ip \in made => Refilled(ip) <= tokens[ip] + (clock - last[ip])
  BY RefilledBounds
<1>2. LimiterTypeOK' /\ (since <= clock)'
  BY <1>1 DEF WindowInv, LimiterTypeOK, Store
<1>3. ASSUME NEW j \in IPs, j # ip
      PROVE  /\ tokens'[j] = tokens[j] /\ last'[j] = last[j] /\ spent'[j] = spent[j]
             /\ clock' = clock /\ since' = since
             /\ j \in made' <=> j \in made
  BY <1>3 DEF WindowInv, LimiterTypeOK, Store
<1>4. /\ tokens'[ip] = Refilled(ip) - c /\ last'[ip] = clock
      /\ spent'[ip] = spent[ip] + c
      /\ clock' = clock /\ since' = since /\ ip \in made'
  BY DEF WindowInv, LimiterTypeOK, Store
<1>5. spent'[ip] + tokens'[ip] <= Burst + (clock - since)
  <2>1. spent[ip] \in Nat /\ clock \in Nat /\ since \in Nat /\ since <= clock
        /\ tokens[ip] \in Nat /\ last[ip] \in Nat /\ last[ip] <= clock
    BY DEF WindowInv, LimiterTypeOK
  <2>2. CASE ip \notin made \/ last[ip] < since
    <3>1. spent[ip] = 0
      BY <2>2 DEF WindowInv
    <3>2. QED
      BY <1>1, <1>4, <2>1, <3>1
  <2>3. CASE ip \in made /\ last[ip] >= since
    <3>1. spent[ip] + tokens[ip] <= Burst + (last[ip] - since)
      BY <2>3 DEF WindowInv
    <3>2. QED
      BY <1>1, <1>4, <2>1, <2>3, <3>1
  <2>4. QED
    BY <2>1, <2>2, <2>3
<1>6. ASSUME NEW j \in IPs
      PROVE  /\ last'[j] <= clock'
             /\ tokens'[j] <= Burst
             /\ j \notin made' => spent'[j] = 0
             /\ last'[j] < since' => spent'[j] = 0
             /\ (j \in made' /\ last'[j] >= since') =>
                   spent'[j] + tokens'[j] <= Burst + (last'[j] - since')
  <2>1. CASE j = ip
    BY <1>1, <1>4, <1>5, <2>1 DEF WindowInv, LimiterTypeOK
  <2>2. CASE j # ip
    BY <1>3, <2>2 DEF WindowInv
  <2>3. QED
    BY <2>1, <2>2
<1>7. QED
  BY <1>2, <1>6 DEF WindowInv

\* Every step of the limiter keeps the account.
LEMMA InvStep ==
    ASSUME WindowInv, [LimiterNext]_limiterVars
    PROVE  WindowInv'
<1>1. ASSUME NEW ip \in IPs, Allow(ip)
      PROVE  WindowInv'
  <2>1. spent' = [spent EXCEPT ![ip] = spent[ip] + Cost]
    BY <1>1 DEF Allow
  <2>2. Cost <= Refilled(ip) /\ Store(ip, Refilled(ip) - Cost)
    BY <1>1, RefilledBounds DEF Allow
  <2>3. QED
    BY <2>1, <2>2, StoreKeeps
<1>2. ASSUME NEW ip \in IPs, Refuse(ip)
      PROVE  WindowInv'
  <2>1. spent' = [spent EXCEPT ![ip] = spent[ip] + 0]
    BY <1>2 DEF Refuse, WindowInv, LimiterTypeOK
  <2>2. Refilled(ip) \in Nat
    BY RefilledBounds
  <2>3. 0 <= Refilled(ip) /\ Refilled(ip) - 0 = Refilled(ip)
    BY <2>2
  <2>4. Store(ip, Refilled(ip) - 0)
    BY <1>2, <2>3 DEF Refuse
  <2>5. QED
    BY <2>1, <2>3, <2>4, StoreKeeps
<1>3. CASE Tick
  BY <1>3 DEF Tick, bucketVars, WindowInv, LimiterTypeOK
<1>4. CASE NewRateLimiter
  BY <1>4 DEF NewRateLimiter, WindowInv, LimiterTypeOK
<1>5. CASE OpenWindow
  BY <1>5 DEF OpenWindow, bucketVars, WindowInv, LimiterTypeOK
<1>6. CASE UNCHANGED limiterVars
  BY <1>6 DEF limiterVars, WindowInv, LimiterTypeOK
<1>7. QED
  BY <1>1, <1>2, <1>3, <1>4, <1>5, <1>6 DEF LimiterNext

\* The limiter's account of tokens is right in every reachable state.
THEOREM LimiterInvariant == LimiterSpec => []WindowInv
<1>1. LimiterInit => WindowInv
  BY DEF LimiterInit, WindowInv, LimiterTypeOK
<1>2. WindowInv /\ [LimiterNext]_limiterVars => WindowInv'
  BY InvStep
<1>3. QED
  BY <1>1, <1>2, PTL DEF LimiterSpec

\* In every window a caller is admitted at most for the burst and the time
\* that the window lasts (allow, ratelimit.go).
THEOREM WindowTheorem == LimiterSpec => []WindowBound
<1>1. WindowInv => WindowBound
  <2>1. SUFFICES ASSUME WindowInv, NEW ip \in IPs
                 PROVE  spent[ip] <= Burst + (clock - since)
    BY DEF WindowBound
  <2>2. spent[ip] \in Nat /\ tokens[ip] \in Nat /\ last[ip] \in Nat
        /\ clock \in Nat /\ since \in Nat /\ since <= clock /\ last[ip] <= clock
    BY <2>1 DEF WindowInv, LimiterTypeOK
  <2>3. CASE ip \in made /\ last[ip] >= since
    BY <2>1, <2>2, <2>3 DEF WindowInv
  <2>4. CASE ip \notin made \/ last[ip] < since
    <3>1. spent[ip] = 0
      BY <2>1, <2>4 DEF WindowInv
    <3>2. QED
      BY <2>2, <3>1
  <2>5. QED
    BY <2>2, <2>3, <2>4
<1>2. QED
  BY <1>1, LimiterInvariant, PTL
-----------------------------------------------------------------------------
(***************************************************************************)
(* The request path keeps the limiter's promise: each request takes one    *)
(* step of the limiter, before the license mode is asked, and none of the  *)
(* others touches it.                                                      *)
(***************************************************************************)
THEOREM LimiterTheorem == Spec => LimiterSpec
<1>1. Init => LimiterInit
  BY DEF Init
<1>2. [Next]_vars => [LimiterNext]_limiterVars
  <2> SUFFICES ASSUME [Next]_vars PROVE LimiterNext \/ UNCHANGED limiterVars
    OBVIOUS
  <2>1. ASSUME NEW ip \in IPs, Allow(ip) \/ Refuse(ip) PROVE LimiterNext
    BY <2>1 DEF LimiterNext
  <2>2. ASSUME NEW r \in Request, Gate(r) PROVE LimiterNext \/ UNCHANGED limiterVars
    BY <2>1, <2>2 DEF Gate, Arrive, VerifyKey, BumpKey, CheckSession, RequirePermission, Fail
  <2>3. ASSUME NEW r \in Request, Handler(r) PROVE UNCHANGED limiterVars
    BY <2>3 DEF Handler, Answer, GetRole, DeleteRole, CreateRole, SaveRole, RevokeKey, CreateKey
  <2>4. ASSUME NEW ip \in IPs, Limited(ip) \/ \E op \in Op : Locked(ip, op) PROVE LimiterNext
    BY <2>1, <2>4 DEF Limited, Locked
  <2>5. ASSUME NEW u \in Caller, Logout(u) PROVE UNCHANGED limiterVars
    BY <2>5 DEF Logout
  <2>6. ASSUME NEW k \in Key, Expire(k) PROVE UNCHANGED limiterVars
    BY <2>6 DEF Expire
  <2>7. CASE Restart \/ TimeStep
    BY <2>7 DEF Restart, TimeStep, LimiterNext
  <2>8. CASE UNCHANGED vars
    BY <2>8 DEF vars
  <2> QED
    BY <2>2, <2>3, <2>4, <2>5, <2>6, <2>7, <2>8 DEF Next
<1> QED
  BY <1>1, <1>2, PTL DEF Spec, LimiterSpec

\* On the whole request path a caller gets no more than burst and rate allow.
THEOREM AccessWindowTheorem == Spec => []WindowBound
  BY LimiterTheorem, WindowTheorem, PTL

-----------------------------------------------------------------------------
\* The types of all that is not the limiter's.
RowTypeOK ==
    /\ mode \in {"active", "grace", "locked"}
    /\ live \subseteq Caller
    /\ role \in {"none", "live", "deleted"} /\ grant \in {"admin", "other"}
    /\ key \in [Key -> {"none", "active", "expired", "revoked"}]
    /\ pc \in [Request -> Label] /\ req \in [Request -> Carried]
    /\ barred \subseteq Request /\ revivers \subseteq Request
    /\ \A r \in Request : pc[r] \in {"key", "bump"} => req[r].key \in Key

\* Every step keeps them.
LEMMA RowTypeStep == ASSUME RowTypeOK, [Next]_vars PROVE RowTypeOK'
<1>1. RowTypeOK
  OBVIOUS
<1> USE DEF RowTypeOK, Label, Op, Carried, Caller, NoRequest, rowVars
<1>2. ASSUME NEW r \in Request, NEW ip \in IPs, NEW q \in Carried, Arrive(r, ip, q)
      PROVE  RowTypeOK'
  BY <1>1, <1>2 DEF Arrive, Carried
<1>3. ASSUME NEW r \in Request, VerifyKey(r) PROVE RowTypeOK'
  BY <1>1, <1>3 DEF VerifyKey, Goto, Return
<1>4. ASSUME NEW r \in Request, BumpKey(r) PROVE RowTypeOK'
  BY <1>1, <1>4 DEF BumpKey, Verified
<1>5. ASSUME NEW r \in Request, CheckSession(r) PROVE RowTypeOK'
  BY <1>1, <1>5 DEF CheckSession, Goto, Return
<1>6. ASSUME NEW r \in Request, RequirePermission(r) PROVE RowTypeOK'
  BY <1>1, <1>6 DEF RequirePermission, Enter, Return, FirstStep
<1>7. ASSUME NEW r \in Request, Fail(r) PROVE RowTypeOK'
  BY <1>1, <1>7 DEF Fail, Return
<1>8. ASSUME NEW r \in Request, Answer(r) PROVE RowTypeOK'
  BY <1>1, <1>8 DEF Answer, Return
<1>9. ASSUME NEW r \in Request, GetRole(r) PROVE RowTypeOK'
  BY <1>1, <1>9 DEF GetRole, Goto, Return
<1>10. ASSUME NEW r \in Request, DeleteRole(r) PROVE RowTypeOK'
  BY <1>1, <1>10 DEF DeleteRole, Return
<1>11. ASSUME NEW r \in Request, NEW g \in {"admin", "other"}, CreateRole(r, g) PROVE RowTypeOK'
  BY <1>1, <1>11 DEF CreateRole, Return
<1>12. ASSUME NEW r \in Request, NEW g \in {"admin", "other"}, SaveRole(r, g) PROVE RowTypeOK'
  BY <1>1, <1>12 DEF SaveRole, Return
<1>13. ASSUME NEW r \in Request, NEW k \in Key, RevokeKey(r, k) PROVE RowTypeOK'
  BY <1>1, <1>13 DEF RevokeKey, Return
<1>14. ASSUME NEW r \in Request, NEW k \in Key, CreateKey(r, k) PROVE RowTypeOK'
  BY <1>1, <1>14 DEF CreateKey, Return
<1>15. ASSUME NEW ip \in IPs, Limited(ip) \/ \E op \in Op : Locked(ip, op) PROVE RowTypeOK'
  BY <1>1, <1>15 DEF Limited, Locked
<1>16. ASSUME NEW u \in Caller, Logout(u) PROVE RowTypeOK'
  BY <1>1, <1>16 DEF Logout
<1>17. ASSUME NEW k \in Key, Expire(k) PROVE RowTypeOK'
  BY <1>1, <1>17 DEF Expire
<1>18. CASE Restart
  BY <1>1, <1>18 DEF Restart, ModeAt
<1>19. CASE TimeStep
  BY <1>1, <1>19 DEF TimeStep
<1>20. CASE UNCHANGED vars
  BY <1>1, <1>20 DEF vars
<1> HIDE DEF RowTypeOK, Op, Carried, Caller
<1> QED
  BY <1>2, <1>3, <1>4, <1>5, <1>6, <1>7, <1>8, <1>9, <1>10, <1>11, <1>12, <1>13, <1>14,
     <1>15, <1>16, <1>17, <1>18, <1>19, <1>20
     DEF Next, Gate, Handler

\* Type correctness of the request path.
THEOREM TypeCorrect == Spec => [](TypeOK /\ RowTypeOK)
<1>1. Init => RowTypeOK
  BY DEF Init, LimiterInit, ModeAt, RowTypeOK, Label, Op, Carried, Caller, NoRequest
<1>2. RowTypeOK /\ [Next]_vars => RowTypeOK'
  BY RowTypeStep
<1>3. WindowInv /\ RowTypeOK => TypeOK
  BY DEF WindowInv, RowTypeOK, TypeOK
<1> QED
  BY <1>1, <1>2, <1>3, LimiterTheorem, LimiterInvariant, PTL DEF Spec

-----------------------------------------------------------------------------
(***************************************************************************)
(* A barred request has not passed the check that its dead credential will *)
(* fail: sessions never come back, nor does a key that was sent.           *)
(***************************************************************************)
BarredInv ==
    \A r \in barred :
      /\ pc[r] \in {"key", "bump", "auth"}
      /\ \/ req[r].caller \notin live
         \/ pc[r] = "key" /\ key[req[r].key] \in {"expired", "revoked"}

\* Every step keeps the barred requests out.
LEMMA BarredStep == ASSUME RowTypeOK, BarredInv, [Next]_vars PROVE BarredInv'
<1>1. RowTypeOK /\ BarredInv
  OBVIOUS
<1> USE DEF RowTypeOK, BarredInv, Label, Op, NoRequest, rowVars
<1>2. ASSUME NEW r \in Request, NEW ip \in IPs, NEW q \in Carried, Arrive(r, ip, q)
      PROVE  BarredInv'
  BY <1>1, <1>2 DEF Arrive, Carried
<1>3. ASSUME NEW r \in Request, VerifyKey(r) PROVE BarredInv'
  BY <1>1, <1>3 DEF VerifyKey, Goto, Return
<1>4. ASSUME NEW r \in Request, BumpKey(r) PROVE BarredInv'
  BY <1>1, <1>4 DEF BumpKey, Verified
<1>5. ASSUME NEW r \in Request, CheckSession(r) PROVE BarredInv'
  BY <1>1, <1>5 DEF CheckSession, Goto, Return
<1>6. ASSUME NEW r \in Request, RequirePermission(r) PROVE BarredInv'
  BY <1>1, <1>6 DEF RequirePermission, Enter, Return, FirstStep
<1>7. ASSUME NEW r \in Request, Fail(r) PROVE BarredInv'
  BY <1>1, <1>7 DEF Fail, Return
<1>8. ASSUME NEW r \in Request, Answer(r) PROVE BarredInv'
  BY <1>1, <1>8 DEF Answer, Return
<1>9. ASSUME NEW r \in Request, GetRole(r) PROVE BarredInv'
  BY <1>1, <1>9 DEF GetRole, Goto, Return
<1>10. ASSUME NEW r \in Request, DeleteRole(r) PROVE BarredInv'
  BY <1>1, <1>10 DEF DeleteRole, Return
<1>11. ASSUME NEW r \in Request, NEW g \in {"admin", "other"}, CreateRole(r, g) PROVE BarredInv'
  BY <1>1, <1>11 DEF CreateRole, Return
<1>12. ASSUME NEW r \in Request, NEW g \in {"admin", "other"}, SaveRole(r, g) PROVE BarredInv'
  BY <1>1, <1>12 DEF SaveRole, Return
<1>13. ASSUME NEW r \in Request, NEW k \in Key, RevokeKey(r, k) PROVE BarredInv'
  BY <1>1, <1>13 DEF RevokeKey, Return
<1>14. ASSUME NEW r \in Request, NEW k \in Key, CreateKey(r, k) PROVE BarredInv'
  BY <1>1, <1>14 DEF CreateKey, Return
<1>15. ASSUME NEW ip \in IPs, Limited(ip) \/ \E op \in Op : Locked(ip, op) PROVE BarredInv'
  BY <1>1, <1>15 DEF Limited, Locked
<1>16. ASSUME NEW u \in Caller, Logout(u) PROVE BarredInv'
  BY <1>1, <1>16 DEF Logout
<1>17. ASSUME NEW k \in Key, Expire(k) PROVE BarredInv'
  BY <1>1, <1>17 DEF Expire
<1>18. CASE Restart
  BY <1>1, <1>18 DEF Restart
<1>19. CASE TimeStep
  BY <1>1, <1>19 DEF TimeStep
<1>20. CASE UNCHANGED vars
  BY <1>1, <1>20 DEF vars
<1> HIDE DEF RowTypeOK, BarredInv, Op
<1> QED
  BY <1>2, <1>3, <1>4, <1>5, <1>6, <1>7, <1>8, <1>9, <1>10, <1>11, <1>12, <1>13, <1>14,
     <1>15, <1>16, <1>17, <1>18, <1>19, <1>20
     DEF Next, Gate, Handler

(***************************************************************************)
(* A request that arrives with a revoked session, or with a revoked or     *)
(* expired key, reaches no handler and no permission check, for any number *)
(* of requests and keys and whatever else runs meanwhile.                  *)
(***************************************************************************)
THEOREM BarredTheorem == Spec => []RevocationBars
<1>1. Init => BarredInv
  BY DEF Init, BarredInv
<1>2. RowTypeOK /\ BarredInv /\ [Next]_vars => BarredInv'
  BY BarredStep
<1>3. BarredInv => RevocationBars
  BY DEF BarredInv, RevocationBars
<1> QED
  BY <1>1, <1>2, <1>3, TypeCorrect, PTL DEF Spec

-----------------------------------------------------------------------------
\* The steps that write a row of the keys.
LEMMA KeyWriters ==
    ASSUME RowTypeOK, Next
    PROVE  \/ key' = key
           \/ \E k \in Key : Expire(k)
           \/ \E r \in Request, k \in Key : RevokeKey(r, k) \/ CreateKey(r, k)
<1> USE DEF rowVars
<1>1. ASSUME NEW r \in Request, Gate(r) PROVE key' = key
  BY <1>1 DEF Gate, Arrive, VerifyKey, BumpKey, CheckSession, RequirePermission, Fail
<1>2. ASSUME NEW r \in Request, Handler(r)
      PROVE  key' = key \/ \E k \in Key : RevokeKey(r, k) \/ CreateKey(r, k)
  BY <1>2 DEF Handler, Answer, GetRole, DeleteRole, CreateRole, SaveRole
<1>3. ASSUME NEW ip \in IPs, Limited(ip) \/ \E op \in Op : Locked(ip, op) PROVE key' = key
  BY <1>3 DEF Limited, Locked
<1>4. ASSUME NEW u \in Caller, Logout(u) PROVE key' = key
  BY <1>4 DEF Logout
<1>5. CASE Restart \/ TimeStep
  BY <1>5 DEF Restart, TimeStep
<1> QED
  BY <1>1, <1>2, <1>3, <1>4, <1>5 DEF Next

(***************************************************************************)
(* A revoked key stays revoked, also when a request that had verified it   *)
(* writes its usage afterwards.                                            *)
(***************************************************************************)
THEOREM KeyTheorem == Spec => RevokedKeyForever
<1>1. RowTypeOK /\ [Next]_vars =>
        [\A k \in Key : key[k] = "revoked" => key'[k] = "revoked"]_vars
  <2> SUFFICES ASSUME RowTypeOK, Next, NEW k \in Key, key[k] = "revoked"
               PROVE  key'[k] = "revoked"
    BY DEF vars
  <2>1. ASSUME NEW j \in Key, Expire(j) PROVE key'[k] = "revoked"
    BY <2>1 DEF RowTypeOK, Expire
  <2>2. ASSUME NEW r \in Request, NEW j \in Key, RevokeKey(r, j) \/ CreateKey(r, j)
        PROVE  key'[k] = "revoked"
    BY <2>2 DEF RowTypeOK, RevokeKey, CreateKey
  <2> QED
    BY <2>1, <2>2, KeyWriters
<1> QED
  BY <1>1, TypeCorrect, PTL DEF Spec, RevokedKeyForever

-----------------------------------------------------------------------------
(***************************************************************************)
(* What a request asks for is what was asked when the license mode let it  *)
(* in, and the mode changes only with the process.                         *)
(***************************************************************************)
OpInv ==
    \A r \in Request :
      /\ pc[r] # "idle" => ~Blocked(req[r].op)
      /\ pc[r] \in Op => pc[r] = req[r].op
      /\ pc[r] = "get_role" => req[r].op \in {"update_role", "delete_role"}

\* Every step keeps what was asked.
LEMMA OpStep == ASSUME RowTypeOK, OpInv, [Next]_vars PROVE OpInv'
<1>1. RowTypeOK /\ OpInv
  OBVIOUS
<1> USE DEF RowTypeOK, OpInv, Blocked, Label, Op, WriteOps, NoRequest, rowVars
<1>2. ASSUME NEW r \in Request, NEW ip \in IPs, NEW q \in Carried, Arrive(r, ip, q)
      PROVE  OpInv'
  BY <1>1, <1>2 DEF Arrive, Carried
<1>3. ASSUME NEW r \in Request, VerifyKey(r) PROVE OpInv'
  BY <1>1, <1>3 DEF VerifyKey, Goto, Return
<1>4. ASSUME NEW r \in Request, BumpKey(r) PROVE OpInv'
  BY <1>1, <1>4 DEF BumpKey, Verified
<1>5. ASSUME NEW r \in Request, CheckSession(r) PROVE OpInv'
  BY <1>1, <1>5 DEF CheckSession, Goto, Return
<1>6. ASSUME NEW r \in Request, RequirePermission(r) PROVE OpInv'
  <2>1. mode' = mode /\ \A q \in Request \ {r} : pc'[q] = pc[q] /\ req'[q] = req[q]
    BY <1>1, <1>6 DEF RequirePermission, Enter, Return
  <2>2. \/ pc'[r] = "idle"
        \/ pc'[r] = FirstStep(req[r].op) /\ req'[r].op = req[r].op
    BY <1>1, <1>6 DEF RequirePermission, Enter, Return
  <2>3. ~Blocked(req[r].op)
    BY <1>1, <1>6 DEF RequirePermission
  <2>4. pc'[r] = "idle" \/ ~Blocked(req[r].op)'
    BY <2>1, <2>2, <2>3
  <2>5. req[r].op \in Op
    BY <1>1 DEF Carried
  <2>6. /\ pc'[r] \in Op => pc'[r] = req'[r].op
        /\ pc'[r] = "get_role" => req'[r].op \in {"update_role", "delete_role"}
    BY <2>2, <2>5 DEF FirstStep
  <2> QED
    BY <1>1, <2>1, <2>4, <2>6
<1>7. ASSUME NEW r \in Request, Fail(r) PROVE OpInv'
  BY <1>1, <1>7 DEF Fail, Return
<1>8. ASSUME NEW r \in Request, Answer(r) PROVE OpInv'
  BY <1>1, <1>8 DEF Answer, Return
<1>9. ASSUME NEW r \in Request, GetRole(r) PROVE OpInv'
  BY <1>1, <1>9 DEF GetRole, Goto, Return
<1>10. ASSUME NEW r \in Request, DeleteRole(r) PROVE OpInv'
  BY <1>1, <1>10 DEF DeleteRole, Return
<1>11. ASSUME NEW r \in Request, NEW g \in {"admin", "other"}, CreateRole(r, g) PROVE OpInv'
  BY <1>1, <1>11 DEF CreateRole, Return
<1>12. ASSUME NEW r \in Request, NEW g \in {"admin", "other"}, SaveRole(r, g) PROVE OpInv'
  BY <1>1, <1>12 DEF SaveRole, Return
<1>13. ASSUME NEW r \in Request, NEW k \in Key, RevokeKey(r, k) PROVE OpInv'
  BY <1>1, <1>13 DEF RevokeKey, Return
<1>14. ASSUME NEW r \in Request, NEW k \in Key, CreateKey(r, k) PROVE OpInv'
  BY <1>1, <1>14 DEF CreateKey, Return
<1>15. ASSUME NEW ip \in IPs, Limited(ip) \/ \E op \in Op : Locked(ip, op) PROVE OpInv'
  BY <1>1, <1>15 DEF Limited, Locked
<1>16. ASSUME NEW u \in Caller, Logout(u) PROVE OpInv'
  BY <1>1, <1>16 DEF Logout
<1>17. ASSUME NEW k \in Key, Expire(k) PROVE OpInv'
  BY <1>1, <1>17 DEF Expire
<1>18. CASE Restart
  BY <1>1, <1>18 DEF Restart
<1>19. CASE TimeStep
  BY <1>1, <1>19 DEF TimeStep
<1>20. CASE UNCHANGED vars
  BY <1>1, <1>20 DEF vars
<1> HIDE DEF RowTypeOK, OpInv, Op, Blocked
<1> QED
  BY <1>2, <1>3, <1>4, <1>5, <1>6, <1>7, <1>8, <1>9, <1>10, <1>11, <1>12, <1>13, <1>14,
     <1>15, <1>16, <1>17, <1>18, <1>19, <1>20
     DEF Next, Gate, Handler

\* The steps that write the row of the role.
LEMMA RoleWriters ==
    ASSUME RowTypeOK, Next
    PROVE  \/ UNCHANGED <<role, grant>>
           \/ \E r \in Request : DeleteRole(r)
           \/ \E r \in Request, g \in {"admin", "other"} : CreateRole(r, g) \/ SaveRole(r, g)
<1> USE DEF rowVars
<1>1. ASSUME NEW r \in Request, Gate(r) PROVE UNCHANGED <<role, grant>>
  BY <1>1 DEF Gate, Arrive, VerifyKey, BumpKey, CheckSession, RequirePermission, Fail
<1>2. ASSUME NEW r \in Request, Handler(r)
      PROVE  \/ UNCHANGED <<role, grant>> \/ DeleteRole(r)
             \/ \E g \in {"admin", "other"} : CreateRole(r, g) \/ SaveRole(r, g)
  BY <1>2 DEF Handler, Answer, GetRole, RevokeKey, CreateKey
<1>3. ASSUME NEW ip \in IPs, Limited(ip) \/ \E op \in Op : Locked(ip, op)
      PROVE  UNCHANGED <<role, grant>>
  BY <1>3 DEF Limited, Locked
<1>4. ASSUME NEW u \in Caller, Logout(u) PROVE UNCHANGED <<role, grant>>
  BY <1>4 DEF Logout
<1>5. ASSUME NEW k \in Key, Expire(k) PROVE UNCHANGED <<role, grant>>
  BY <1>5 DEF Expire
<1>6. CASE Restart \/ TimeStep
  BY <1>6 DEF Restart, TimeStep
<1> QED
  BY <1>1, <1>2, <1>3, <1>4, <1>5, <1>6 DEF Next

(***************************************************************************)
(* A locked panel is read only: no request, not even one under way,        *)
(* creates, changes or removes a role, or creates or revokes a key.        *)
(***************************************************************************)
THEOREM LockedTheorem == Spec => LockedPanelIsReadOnly
<1>1. Init => OpInv
  BY DEF Init, OpInv, Op
<1>2. RowTypeOK /\ OpInv /\ [Next]_vars => OpInv'
  BY OpStep
<1>3. RowTypeOK /\ OpInv /\ [Next]_vars =>
        [mode = "locked" => UNCHANGED <<role, grant>> /\ NoKeyWritten]_vars
  <2> SUFFICES ASSUME RowTypeOK, OpInv, Next, mode = "locked"
               PROVE  UNCHANGED <<role, grant>> /\ NoKeyWritten
    BY DEF vars
  <2>1. \A r \in Request : pc[r] \notin {"create_role", "update_role", "delete_role",
                                        "create_key", "revoke_key"}
    BY DEF OpInv, Blocked, Op, WriteOps
  <2>2. UNCHANGED <<role, grant>>
    BY <2>1, RoleWriters DEF DeleteRole, CreateRole, SaveRole
  <2>3. key' = key \/ \E k \in Key : Expire(k)
    BY <2>1, KeyWriters DEF RevokeKey, CreateKey
  <2>4. NoKeyWritten
    BY <2>3 DEF NoKeyWritten, Expire, RowTypeOK
  <2> QED
    BY <2>2, <2>4
<1> QED
  BY <1>1, <1>2, <1>3, TypeCorrect, PTL DEF Spec, LockedPanelIsReadOnly

-----------------------------------------------------------------------------
(***************************************************************************)
(* Who changes or deletes the role has read its row; and once it is        *)
(* deleted, the updates that had read it before are the revivers.          *)
(***************************************************************************)
RoleInv ==
    /\ \A r \in Request : pc[r] \in {"update_role", "delete_role"} => role # "none"
    /\ role = "deleted" => \A r \in Request : pc[r] = "update_role" => r \in revivers

\* Every step keeps it.
LEMMA RoleStep == ASSUME RowTypeOK, OpInv, RoleInv, [Next]_vars PROVE RoleInv'
<1>1. RowTypeOK /\ OpInv /\ RoleInv
  OBVIOUS
<1> USE DEF RowTypeOK, RoleInv, Label, Op, NoRequest, rowVars
<1>2. ASSUME NEW r \in Request, NEW ip \in IPs, NEW q \in Carried, Arrive(r, ip, q)
      PROVE  RoleInv'
  BY <1>1, <1>2 DEF Arrive, Carried
<1>3. ASSUME NEW r \in Request, VerifyKey(r) PROVE RoleInv'
  BY <1>1, <1>3 DEF VerifyKey, Goto, Return
<1>4. ASSUME NEW r \in Request, BumpKey(r) PROVE RoleInv'
  BY <1>1, <1>4 DEF BumpKey, Verified
<1>5. ASSUME NEW r \in Request, CheckSession(r) PROVE RoleInv'
  BY <1>1, <1>5 DEF CheckSession, Goto, Return
<1>6. ASSUME NEW r \in Request, RequirePermission(r) PROVE RoleInv'
  BY <1>1, <1>6 DEF RequirePermission, Enter, Return, FirstStep
<1>7. ASSUME NEW r \in Request, Fail(r) PROVE RoleInv'
  BY <1>1, <1>7 DEF Fail, Return
<1>8. ASSUME NEW r \in Request, Answer(r) PROVE RoleInv'
  BY <1>1, <1>8 DEF Answer, Return
<1>9. ASSUME NEW r \in Request, GetRole(r) PROVE RoleInv'
  BY <1>1, <1>9 DEF GetRole, Goto, Return
<1>10. ASSUME NEW r \in Request, DeleteRole(r) PROVE RoleInv'
  BY <1>1, <1>10 DEF DeleteRole, Return
<1>11. ASSUME NEW r \in Request, NEW g \in {"admin", "other"}, CreateRole(r, g) PROVE RoleInv'
  BY <1>1, <1>11 DEF CreateRole, Return
<1>12. ASSUME NEW r \in Request, NEW g \in {"admin", "other"}, SaveRole(r, g) PROVE RoleInv'
  BY <1>1, <1>12 DEF SaveRole, Return
<1>13. ASSUME NEW r \in Request, NEW k \in Key, RevokeKey(r, k) PROVE RoleInv'
  BY <1>1, <1>13 DEF RevokeKey, Return
<1>14. ASSUME NEW r \in Request, NEW k \in Key, CreateKey(r, k) PROVE RoleInv'
  BY <1>1, <1>14 DEF CreateKey, Return
<1>15. ASSUME NEW ip \in IPs, Limited(ip) \/ \E op \in Op : Locked(ip, op) PROVE RoleInv'
  BY <1>1, <1>15 DEF Limited, Locked
<1>16. ASSUME NEW u \in Caller, Logout(u) PROVE RoleInv'
  BY <1>1, <1>16 DEF Logout
<1>17. ASSUME NEW k \in Key, Expire(k) PROVE RoleInv'
  BY <1>1, <1>17 DEF Expire
<1>18. CASE Restart
  BY <1>1, <1>18 DEF Restart
<1>19. CASE TimeStep
  BY <1>1, <1>19 DEF TimeStep
<1>20. CASE UNCHANGED vars
  BY <1>1, <1>20 DEF vars
<1> HIDE DEF RowTypeOK, RoleInv, Op
<1> QED
  BY <1>2, <1>3, <1>4, <1>5, <1>6, <1>7, <1>8, <1>9, <1>10, <1>11, <1>12, <1>13, <1>14,
     <1>15, <1>16, <1>17, <1>18, <1>19, <1>20
     DEF Next, Gate, Handler

(***************************************************************************)
(* A deleted role comes back only through an update that had read it       *)
(* before the deletion.                                                    *)
(***************************************************************************)
THEOREM RoleTheorem == Spec => DeletedRoleStaysDeleted
<1>1. Init => OpInv /\ RoleInv
  BY DEF Init, OpInv, RoleInv, Op
<1>2. RowTypeOK /\ OpInv /\ RoleInv /\ [Next]_vars => OpInv' /\ RoleInv'
  BY OpStep, RoleStep
<1>3. RowTypeOK /\ RoleInv /\ [Next]_vars =>
        [role = "deleted" /\ revivers = {} => role' = "deleted"]_vars
  <2> SUFFICES ASSUME RowTypeOK, RoleInv, Next, role = "deleted", revivers = {}
               PROVE  role' = "deleted"
    BY DEF vars
  <2>1. \A r \in Request : pc[r] # "update_role"
    BY DEF RoleInv
  <2> QED
    BY <2>1, RoleWriters DEF DeleteRole, CreateRole, SaveRole
<1> QED
  BY <1>1, <1>2, <1>3, TypeCorrect, PTL DEF Spec, DeletedRoleStaysDeleted
=============================================================================
