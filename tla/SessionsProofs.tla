--------------------------- MODULE SessionsProofs ---------------------------
(***************************************************************************)
(* Sessions and the console tab that uses them, for any number of          *)
(* sessions, requests and calls: rotation of refresh tokens with any       *)
(* number of overlapping requests (RotationTheorem, RevokedTheorem), as    *)
(* long as requests have not overlapped (SerialTheorem), and what the tab  *)
(* makes of it (ServerTheorem, StoreTheorem, SignOutTheorem,               *)
(* StuckTheorem).                                                          *)
(***************************************************************************)
EXTENDS Console, TLAPS, FiniteSetTheorems

USE SessionsAssumption

\* Every step keeps the history of overlapping requests.
LEMMA Watched == ASSUME Next PROVE Watch
  BY DEF Next, LoginAccepted, RefreshRevoke, IssueTokens, LogoutRevoke,
         RefreshLoad, LogoutAdmitted, Expire, Crash

\* Every step of a request keeps every variable in its type.
LEMMA TypeStep == ASSUME TypeOK, [Next]_vars PROVE TypeOK'
<1>0. overlapped' \in BOOLEAN
  <2>1. CASE Next
    BY <2>1, Watched, Zenon DEF Watch, TypeOK
  <2>2. CASE UNCHANGED vars
    BY <2>2, Zenon DEF vars, TypeOK
  <2> QED
    BY <2>1, <2>2
<1> USE <1>0
<1> USE DEF TypeOK, Goto, Return, sessionVars
<1>1. ASSUME NEW r \in Request, LoginAccepted(r) PROVE TypeOK'
  BY <1>1 DEF LoginAccepted
<1>3. ASSUME NEW r \in Request, RefreshRevoke(r) PROVE TypeOK'
  BY <1>3 DEF RefreshRevoke
<1>4. ASSUME NEW r \in Request, IssueTokens(r) PROVE TypeOK'
  <2>1. /\ pc' = [pc EXCEPT ![r] = "idle"] /\ tok' = [tok EXCEPT ![r] = NoSession]
        /\ UNCHANGED <<revoked, expired>>
        /\ tok[r] \in SessionId \cup {NoSession}
    BY <1>4 DEF IssueTokens
  <2>2. ASSUME NEW n \in SessionId \ stored,
               stored' = stored \cup {n},
               parent' = [parent EXCEPT ![n] = tok[r]],
               root' = [root EXCEPT ![n] = IF tok[r] = NoSession THEN n ELSE root[tok[r]]]
        PROVE  TypeOK'
    <3>1. /\ parent' \in [SessionId -> SessionId \cup {NoSession}]
          /\ root' \in [SessionId -> SessionId \cup {NoSession}]
      BY <2>1, <2>2
    <3> QED
      BY <2>1, <2>2, <3>1
  <2>3. CASE UNCHANGED <<stored, parent, root>>
    BY <2>1, <2>3
  <2> QED
    BY <1>4, <2>2, <2>3 DEF IssueTokens
<1>5. ASSUME NEW r \in Request, LogoutRevoke(r) PROVE TypeOK'
  BY <1>5 DEF LogoutRevoke
<1>6. ASSUME NEW r \in Request, NEW s \in SessionId, RefreshLoad(r, s) PROVE TypeOK'
  BY <1>6 DEF RefreshLoad, IsActive
<1>7. ASSUME NEW r \in Request, NEW s \in SessionId, LogoutAdmitted(r, s) PROVE TypeOK'
  BY <1>7 DEF LogoutAdmitted, IsActive
<1>8. ASSUME NEW s \in SessionId, Expire(s) PROVE TypeOK'
  BY <1>8 DEF Expire, IsActive
<1>9. CASE Crash
  BY <1>9 DEF Crash
<1>10. CASE UNCHANGED vars
  BY <1>10 DEF vars
<1> QED
  BY <1>1, <1>3, <1>4, <1>5, <1>6, <1>7, <1>8, <1>9, <1>10 DEF Next

\* Type correctness of the session table and of the requests working on it.
THEOREM TypeCorrect == Spec => []TypeOK
<1>1. Init => TypeOK
  <2> SUFFICES ASSUME Init PROVE TypeOK
    OBVIOUS
  <2>1. overlapped \in BOOLEAN
    BY Zenon DEF Init
  <2> QED
    BY <2>1 DEF Init, TypeOK
<1> QED
  BY <1>1, TypeStep, PTL DEF Spec

-----------------------------------------------------------------------------
(***************************************************************************)
(* A request that is about to issue tokens for a session has revoked it.   *)
(***************************************************************************)
RotationInv ==
    /\ ParentRevoked
    /\ \A r \in Request : pc[r] = "issue" /\ tok[r] # NoSession => tok[r] \in revoked

\* Every step keeps RotationInv.
LEMMA RotationStep ==
    ASSUME TypeOK, RotationInv, [Next]_vars
    PROVE  RotationInv'
<1> USE DEF RotationInv, ParentRevoked, TypeOK, Goto, Return, sessionVars
<1>1. ASSUME NEW r \in Request, LoginAccepted(r) PROVE RotationInv'
  BY <1>1 DEF LoginAccepted
<1>3. ASSUME NEW r \in Request, RefreshRevoke(r) PROVE RotationInv'
  BY <1>3 DEF RefreshRevoke
<1>4. ASSUME NEW r \in Request, IssueTokens(r) PROVE RotationInv'
  <2>1. /\ pc' = [pc EXCEPT ![r] = "idle"] /\ tok' = [tok EXCEPT ![r] = NoSession]
        /\ revoked' = revoked /\ pc[r] = "issue"
    BY <1>4 DEF IssueTokens
  <2>2. ASSUME NEW n \in SessionId \ stored,
               stored' = stored \cup {n}, parent' = [parent EXCEPT ![n] = tok[r]]
        PROVE  RotationInv'
    BY <2>1, <2>2
  <2>3. CASE UNCHANGED <<stored, parent, root>>
    BY <2>1, <2>3
  <2> QED
    BY <1>4, <2>2, <2>3 DEF IssueTokens
<1>5. ASSUME NEW r \in Request, LogoutRevoke(r) PROVE RotationInv'
  BY <1>5 DEF LogoutRevoke
<1>6. ASSUME NEW r \in Request, NEW s \in SessionId, RefreshLoad(r, s) PROVE RotationInv'
  BY <1>6 DEF RefreshLoad
<1>7. ASSUME NEW r \in Request, NEW s \in SessionId, LogoutAdmitted(r, s) PROVE RotationInv'
  BY <1>7 DEF LogoutAdmitted
<1>8. ASSUME NEW s \in SessionId, Expire(s) PROVE RotationInv'
  BY <1>8 DEF Expire
<1>9. CASE Crash
  BY <1>9 DEF Crash
<1>10. CASE UNCHANGED vars
  BY <1>10 DEF vars
<1> QED
  BY <1>1, <1>3, <1>4, <1>5, <1>6, <1>7, <1>8, <1>9, <1>10 DEF Next

(***************************************************************************)
(* For any number of overlapping requests, failures and crashes, a session *)
(* that was exchanged is revoked.                                          *)
(***************************************************************************)
THEOREM RotationTheorem == Spec => [](ParentRevoked /\ RotationInv)
<1>1. Init => RotationInv
  BY DEF Init, RotationInv, ParentRevoked
<1>2. TypeOK /\ RotationInv /\ [Next]_vars => RotationInv'
  BY RotationStep
<1>3. RotationInv => ParentRevoked
  BY DEF RotationInv
<1> QED
  BY <1>1, <1>2, <1>3, TypeCorrect, PTL DEF Spec

(***************************************************************************)
(* Sessions implements SessionLife, for any number of sessions and         *)
(* requests: nothing that Refresh, Logout, a failure or a crash does makes *)
(* a session usable twice or an exchanged one outlive its successor's      *)
(* birth.                                                                  *)
(***************************************************************************)
THEOREM LifeTheorem == Spec => LifeSpec
<1>1. Init => Promise!InitLife
  BY DEF Init, Promise!InitLife
<1>2. TypeOK /\ RotationInv /\ [Next]_vars => [Promise!NextLife]_(Promise!lifeVars)
  <2> SUFFICES ASSUME TypeOK, RotationInv, [Next]_vars
               PROVE  Promise!NextLife \/ UNCHANGED Promise!lifeVars
    OBVIOUS
  <2> USE DEF Promise!lifeVars, sessionVars
  <2>1. ASSUME NEW s \in stored,
               stored' = stored /\ parent' = parent,
               revoked' \cup expired' = (revoked \cup expired) \cup {s}
        PROVE  Promise!NextLife \/ UNCHANGED Promise!lifeVars
    <3>1. CASE s \in revoked \cup expired
      BY <2>1, <3>1
    <3>2. CASE s \notin revoked \cup expired
      <4>1. Promise!End(s) /\ s \in SessionId
        BY <2>1, <3>2 DEF Promise!End, TypeOK
      <4> QED
        BY <4>1 DEF Promise!NextLife
    <3> QED
      BY <3>1, <3>2
  <2>2. ASSUME NEW r \in Request, RefreshRevoke(r) PROVE Promise!NextLife \/ UNCHANGED Promise!lifeVars
    <3>1. tok[r] \in stored /\ stored' = stored /\ parent' = parent /\ expired' = expired
      BY <2>2 DEF RefreshRevoke, TypeOK
    <3>2. CASE revoked' = revoked \cup {tok[r]}
      <4>1. revoked' \cup expired' = (revoked \cup expired) \cup {tok[r]}
        BY <3>1, <3>2
      <4> QED
        BY <2>1, <3>1, <4>1
    <3>3. CASE revoked' = revoked
      BY <3>1, <3>3
    <3> QED
      BY <2>2, <3>2, <3>3 DEF RefreshRevoke
  <2>3. ASSUME NEW r \in Request, LogoutRevoke(r) PROVE Promise!NextLife \/ UNCHANGED Promise!lifeVars
    <3>1. tok[r] \in stored /\ stored' = stored /\ parent' = parent /\ expired' = expired
      BY <2>3 DEF LogoutRevoke, TypeOK
    <3>2. CASE revoked' = revoked \cup {tok[r]}
      <4>1. revoked' \cup expired' = (revoked \cup expired) \cup {tok[r]}
        BY <3>1, <3>2
      <4> QED
        BY <2>1, <3>1, <4>1
    <3>3. CASE revoked' = revoked
      BY <3>1, <3>3
    <3> QED
      BY <2>3, <3>2, <3>3 DEF LogoutRevoke
  <2>4. ASSUME NEW s \in SessionId, Expire(s) PROVE Promise!NextLife \/ UNCHANGED Promise!lifeVars
    <3>1. s \in stored /\ revoked' \cup expired' = (revoked \cup expired) \cup {s}
      BY <2>4 DEF Expire, IsActive
    <3>2. stored' = stored /\ parent' = parent
      BY <2>4 DEF Expire
    <3> QED
      BY <2>1, <3>1, <3>2
  <2>5. ASSUME NEW r \in Request, IssueTokens(r) PROVE Promise!NextLife \/ UNCHANGED Promise!lifeVars
    <3>1. revoked' = revoked /\ expired' = expired /\ pc[r] = "issue"
      BY <2>5 DEF IssueTokens
    <3>2. ASSUME NEW n \in SessionId \ stored,
                 stored' = stored \cup {n}, parent' = [parent EXCEPT ![n] = tok[r]]
          PROVE  Promise!NextLife
      <4>1. tok[r] # NoSession => tok[r] \in revoked
        BY <3>1 DEF RotationInv
      <4>2. Promise!Birth(n)
        BY <3>1, <3>2, <4>1 DEF Promise!Birth
      <4> QED
        BY <3>2, <4>2 DEF Promise!NextLife
    <3>3. CASE UNCHANGED <<stored, parent, root>>
      BY <3>1, <3>3
    <3> QED
      BY <2>5, <3>2, <3>3 DEF IssueTokens
  <2>6. ASSUME NEW r \in Request, LoginAccepted(r) PROVE UNCHANGED Promise!lifeVars
    BY <2>6 DEF LoginAccepted
  <2>7. ASSUME NEW r \in Request, NEW s \in SessionId, RefreshLoad(r, s) \/ LogoutAdmitted(r, s)
        PROVE  UNCHANGED Promise!lifeVars
    BY <2>7 DEF RefreshLoad, LogoutAdmitted
  <2>8. CASE Crash
    BY <2>8 DEF Crash
  <2>9. CASE UNCHANGED vars
    BY <2>9 DEF vars
  <2> QED
    BY <2>2, <2>3, <2>4, <2>5, <2>6, <2>7, <2>8, <2>9 DEF Next
<1> QED
  BY <1>1, <1>2, TypeCorrect, RotationTheorem, PTL DEF Spec, LifeSpec, Promise!SpecLife

-----------------------------------------------------------------------------
(***************************************************************************)
(* No overlap so far.  Between its check and its Save the session of a     *)
(* request is still active, and once it is revoked no session of the same  *)
(* login is left active until the next one is stored.                      *)
(***************************************************************************)
LineageInv ==
    /\ \A s, t \in stored \ revoked : root[s] = root[t] => s = t
    /\ \A r, q \in Request : pc[r] # "idle" /\ pc[q] # "idle" => r = q
    /\ \A s \in stored : root[s] \in stored
    /\ \A r \in Request :
         /\ pc[r] = "revoke" => tok[r] \in stored \ revoked
         /\ pc[r] = "issue" /\ tok[r] # NoSession =>
              /\ tok[r] \in stored
              /\ \A t \in stored \ revoked : root[t] # root[tok[r]]

\* A step after which no two requests are under way keeps LineageInv.
LEMMA LineageStep ==
    ASSUME ~Overlap', TypeOK, LineageInv, [Next]_vars
    PROVE  LineageInv'
<1> USE DEF LineageInv, Overlap, TypeOK, Goto, Return, sessionVars
<1>1. ASSUME NEW r \in Request, LoginAccepted(r) PROVE LineageInv'
  BY <1>1 DEF LoginAccepted
<1>3. ASSUME NEW r \in Request, RefreshRevoke(r) PROVE LineageInv'
  <2>1. /\ pc[r] = "revoke" /\ UNCHANGED <<stored, root>>
        /\ tok[r] \in stored \ revoked /\ tok[r] # NoSession
    BY <1>3 DEF RefreshRevoke, SessionId, NoSession
  <2>2. CASE revoked' = revoked \cup {tok[r]} /\ Goto(r, "issue", tok[r])
    BY <2>1, <2>2
  <2>3. CASE revoked' = revoked /\ Return(r)
    BY <2>1, <2>3
  <2> QED
    BY <1>3, <2>2, <2>3 DEF RefreshRevoke
<1>4. ASSUME NEW r \in Request, IssueTokens(r) PROVE LineageInv'
  <2>1. /\ pc' = [pc EXCEPT ![r] = "idle"] /\ revoked' = revoked /\ pc[r] = "issue"
    BY <1>4 DEF IssueTokens
  <2>2. ASSUME NEW n \in SessionId \ stored,
               stored' = stored \cup {n},
               root' = [root EXCEPT ![n] = IF tok[r] = NoSession THEN n ELSE root[tok[r]]]
        PROVE  LineageInv'
    <3>1. \A s \in stored : root'[s] = root[s]
      BY <2>2
    <3>2. root'[n] \in stored' /\ \A t \in stored \ revoked : root[t] # root'[n]
      <4>1. CASE tok[r] = NoSession
        BY <2>2, <4>1
      <4>2. CASE tok[r] # NoSession
        BY <2>1, <2>2, <4>2
      <4> QED
        BY <4>1, <4>2
    <3>3. \A s, t \in stored' \ revoked' : root'[s] = root'[t] => s = t
      BY <2>1, <2>2, <3>1, <3>2
    <3>4. \A s \in stored' : root'[s] \in stored'
      BY <2>2, <3>1, <3>2
    <3> QED
      BY <2>1, <3>3, <3>4
  <2>3. CASE UNCHANGED <<stored, parent, root>>
    BY <2>1, <2>3
  <2> QED
    BY <1>4, <2>2, <2>3 DEF IssueTokens
<1>5. ASSUME NEW r \in Request, LogoutRevoke(r) PROVE LineageInv'
  BY <1>5 DEF LogoutRevoke
<1>6. ASSUME NEW r \in Request, NEW s \in SessionId, RefreshLoad(r, s) PROVE LineageInv'
  BY <1>6 DEF RefreshLoad, IsActive
<1>7. ASSUME NEW r \in Request, NEW s \in SessionId, LogoutAdmitted(r, s) PROVE LineageInv'
  BY <1>7 DEF LogoutAdmitted
<1>8. ASSUME NEW s \in SessionId, Expire(s) PROVE LineageInv'
  BY <1>8 DEF Expire
<1>9. CASE Crash
  BY <1>9 DEF Crash
<1>10. CASE UNCHANGED vars
  BY <1>10 DEF vars
<1> QED
  BY <1>1, <1>3, <1>4, <1>5, <1>6, <1>7, <1>8, <1>9, <1>10 DEF Next

(***************************************************************************)
(* As long as requests have not overlapped, a login never has two usable   *)
(* sessions.                                                               *)
(***************************************************************************)
THEOREM SerialTheorem == Spec => []OneActivePerLogin
<1> DEFINE SerialInv == ~overlapped => LineageInv
<1>1. Init => SerialInv
  BY DEF Init, LineageInv
<1>2. TypeOK /\ SerialInv /\ [Next]_vars => SerialInv'
  <2> SUFFICES ASSUME TypeOK, SerialInv, [Next]_vars, ~overlapped'
               PROVE  LineageInv'
    OBVIOUS
  <2>1. CASE Next
    <3>1. ~overlapped /\ ~Overlap'
      BY <2>1, Watched, Zenon DEF Watch
    <3> QED
      BY <3>1, LineageStep
  <2>2. CASE UNCHANGED vars
    BY <2>2 DEF vars, LineageInv
  <2> QED
    BY <2>1, <2>2
<1>3. SerialInv => OneActivePerLogin
  BY DEF LineageInv, OneActivePerLogin
<1> QED
  BY <1>1, <1>2, <1>3, TypeCorrect, PTL DEF Spec

-----------------------------------------------------------------------------
\* The sets that RevokedGainsNothing counts are finite.
LEMMA CountedSessions ==
    ASSUME TypeOK, NEW s
    PROVE  /\ IsFiniteSet(Children(s)) /\ Cardinality(Children(s)) \in Nat
           /\ IsFiniteSet(Pending(s)) /\ Cardinality(Pending(s)) \in Nat
<1>1. IsFiniteSet(SessionId)
  BY FS_Interval DEF SessionId
<1>2. Children(s) \subseteq SessionId
  BY DEF Children, TypeOK
<1>3. Pending(s) \subseteq Request
  BY DEF Pending
<1>4. IsFiniteSet(Children(s)) /\ IsFiniteSet(Pending(s))
  BY <1>1, <1>2, <1>3, FS_Subset
<1> QED
  BY <1>4, FS_CardinalityType

(***************************************************************************)
(* A step either adds neither pairs nor exchanges under way for a revoked  *)
(* session, or it turns one exchange under way into one pair.              *)
(***************************************************************************)
LEMMA RevokedStep ==
    ASSUME TypeOK, Next, NEW s \in revoked
    PROVE  \/ Children(s)' \subseteq Children(s) /\ Pending(s)' \subseteq Pending(s)
           \/ \E n, r : /\ Children(s)' \subseteq Children(s) \cup {n}
                        /\ r \in Pending(s) /\ Pending(s)' \subseteq Pending(s) \ {r}
<1>1. s \in SessionId /\ s \in stored /\ s # NoSession
  BY DEF TypeOK, SessionId, NoSession
<1> USE DEF Goto, Return, sessionVars, Children, Pending
<1>2. ASSUME NEW r \in Request, LoginAccepted(r)
      PROVE  Children(s)' \subseteq Children(s) /\ Pending(s)' \subseteq Pending(s)
  BY <1>1, <1>2 DEF LoginAccepted, TypeOK
<1>3. ASSUME NEW r \in Request, RefreshRevoke(r) \/ LogoutRevoke(r)
      PROVE  Children(s)' \subseteq Children(s) /\ Pending(s)' \subseteq Pending(s)
  BY <1>1, <1>3 DEF RefreshRevoke, LogoutRevoke, TypeOK
<1>4. ASSUME NEW r \in Request, NEW t \in SessionId, RefreshLoad(r, t) \/ LogoutAdmitted(r, t)
      PROVE  Children(s)' \subseteq Children(s) /\ Pending(s)' \subseteq Pending(s)
  BY <1>1, <1>4 DEF RefreshLoad, LogoutAdmitted, IsActive, TypeOK
<1>5. ASSUME NEW t \in SessionId, Expire(t)
      PROVE  Children(s)' \subseteq Children(s) /\ Pending(s)' \subseteq Pending(s)
  BY <1>5 DEF Expire
<1>6. CASE Crash
  BY <1>1, <1>6 DEF Crash, TypeOK
<1>7. ASSUME NEW r \in Request, IssueTokens(r)
      PROVE  \/ Children(s)' \subseteq Children(s) /\ Pending(s)' \subseteq Pending(s)
             \/ \E n : /\ Children(s)' \subseteq Children(s) \cup {n}
                       /\ r \in Pending(s) /\ Pending(s)' \subseteq Pending(s) \ {r}
  <2>1. pc[r] = "issue" /\ Pending(s)' \subseteq Pending(s) \ {r}
    BY <1>1, <1>7 DEF IssueTokens, TypeOK
  <2>2. ASSUME NEW n \in SessionId \ stored,
               stored' = stored \cup {n}, parent' = [parent EXCEPT ![n] = tok[r]]
        PROVE  \/ Children(s)' \subseteq Children(s) /\ Pending(s)' \subseteq Pending(s)
               \/ \E m : /\ Children(s)' \subseteq Children(s) \cup {m}
                         /\ r \in Pending(s) /\ Pending(s)' \subseteq Pending(s) \ {r}
    <3>1. Children(s)' \subseteq Children(s) \cup {n}
      BY <2>2 DEF TypeOK
    <3>2. CASE tok[r] = s
      BY <2>1, <3>1, <3>2
    <3>3. CASE tok[r] # s
      <4>1. Children(s)' \subseteq Children(s)
        BY <2>2, <3>3 DEF TypeOK
      <4> QED
        BY <2>1, <4>1
    <3> QED
      BY <3>2, <3>3
  <2>3. CASE UNCHANGED <<stored, parent, root>>
    BY <2>1, <2>3
  <2> QED
    BY <1>7, <2>2, <2>3 DEF IssueTokens
<1> HIDE DEF Children, Pending
<1> QED
  BY <1>2, <1>3, <1>4, <1>5, <1>6, <1>7 DEF Next

(***************************************************************************)
(* From the moment it is revoked a refresh token gains nothing, for any    *)
(* number of sessions and overlapping requests.                            *)
(***************************************************************************)
THEOREM RevokedTheorem == Spec => RevokedGainsNothing
<1>1. TypeOK /\ TypeOK' /\ [Next]_vars =>
        [\A s \in revoked :
           Cardinality(Children(s)') + Cardinality(Pending(s)')
             <= Cardinality(Children(s)) + Cardinality(Pending(s))]_vars
  <2> SUFFICES ASSUME TypeOK, TypeOK', Next, NEW s \in revoked
               PROVE  Cardinality(Children(s)') + Cardinality(Pending(s)')
                        <= Cardinality(Children(s)) + Cardinality(Pending(s))
    OBVIOUS
  <2> DEFINE C == Children(s)
             D == Pending(s)
             E == Children(s)'
             F == Pending(s)'
  <2>1. IsFiniteSet(C) /\ Cardinality(C) \in Nat /\ IsFiniteSet(D) /\ Cardinality(D) \in Nat
    BY CountedSessions
  <2>2. \/ E \subseteq C /\ F \subseteq D
        \/ \E n, r : E \subseteq C \cup {n} /\ r \in D /\ F \subseteq D \ {r}
    BY RevokedStep
  <2> HIDE DEF C, D, E, F
  <2>3. CASE E \subseteq C /\ F \subseteq D
    <3>1. /\ IsFiniteSet(E) /\ Cardinality(E) <= Cardinality(C)
          /\ IsFiniteSet(F) /\ Cardinality(F) <= Cardinality(D)
      BY <2>1, <2>3, FS_Subset
    <3>2. Cardinality(E) \in Nat /\ Cardinality(F) \in Nat
      BY <3>1, FS_CardinalityType
    <3>3. Cardinality(E) + Cardinality(F) <= Cardinality(C) + Cardinality(D)
      BY <2>1, <3>1, <3>2
    <3> QED
      BY <3>3 DEF C, D, E, F
  <2>4. ASSUME NEW n, NEW r, E \subseteq C \cup {n}, r \in D, F \subseteq D \ {r}
        PROVE  Cardinality(E) + Cardinality(F) <= Cardinality(C) + Cardinality(D)
    <3>1. /\ IsFiniteSet(C \cup {n}) /\ Cardinality(C \cup {n}) <= Cardinality(C) + 1
          /\ IsFiniteSet(D \ {r}) /\ Cardinality(D \ {r}) = Cardinality(D) - 1
      <4>1. /\ IsFiniteSet(C \cup {n})
            /\ Cardinality(C \cup {n}) = Cardinality(C) \/ Cardinality(C \cup {n}) = Cardinality(C) + 1
        BY <2>1, FS_AddElement
      <4>2. IsFiniteSet(D \ {r}) /\ Cardinality(D \ {r}) = Cardinality(D) - 1
        BY <2>1, <2>4, FS_RemoveElement
      <4> QED
        BY <2>1, <4>1, <4>2
    <3>2. /\ IsFiniteSet(E) /\ Cardinality(E) <= Cardinality(C \cup {n})
          /\ IsFiniteSet(F) /\ Cardinality(F) <= Cardinality(D \ {r})
      BY <2>4, <3>1, FS_Subset
    <3>3. /\ Cardinality(E) \in Nat /\ Cardinality(F) \in Nat
          /\ Cardinality(C \cup {n}) \in Nat /\ Cardinality(D \ {r}) \in Nat
      BY <3>1, <3>2, FS_CardinalityType
    <3> QED
      BY <2>1, <3>1, <3>2, <3>3
  <2> QED
    BY <2>2, <2>3, <2>4 DEF C, D, E, F
<1> QED
  BY <1>1, TypeCorrect, PTL DEF Spec, RevokedGainsNothing

-----------------------------------------------------------------------------
(***************************************************************************)
(* The tab.  Its part of the type invariant, and what makes its three      *)
(* properties inductive: at most one request of the server answers the     *)
(* shared refresh, a sign-out crosses a refresh exactly as long as that is *)
(* running, what another tab wrote are tokens, and a call that is out      *)
(* without tokens has seen them cleared.                                   *)
(***************************************************************************)
consoleVars == <<vars, tabVars>>

TabTypeOK ==
    /\ store \in stored \cup {NoSession}
    /\ disk \in stored \cup {NoSession}
    /\ signedOut \in {"no", "crossing", "yes"}
    /\ inflight \in {"none", "running", "stuck"}
    /\ rtok \in stored \cup {NoSession}
    /\ asks \in [Request -> {"other", "refresh", "login"}]
    /\ call \in [Call -> {"idle", "sent", "waiting", "leave", "leave_waiting"}]

TabInv ==
    /\ StoreIsFresh
    /\ LogoutSticks
    /\ RefreshNotStuck
    /\ inflight = "running" => signedOut # "yes"
    /\ signedOut = "crossing" => inflight = "running"
    /\ foreign => disk # NoSession
    /\ \A r \in Request : asks[r] = "refresh" => inflight = "running"
    /\ \A r, q \in Request : asks[r] = "refresh" /\ asks[q] = "refresh" => r = q
    /\ store = NoSession /\ Out # {} => crossed

\* To the server the tab is one of its clients: it takes only steps of Sessions.
LEMMA ServerStepOnly ==
    ASSUME TypeOK, [ConsoleNext]_consoleVars
    PROVE  [Next]_vars
<1>1. ASSUME NEW c \in Call, Send(c) \/ Leave(c) \/ Answered(c) \/ Unauthorized(c)
      PROVE  UNCHANGED vars
  BY <1>1 DEF Send, Leave, Answered, Unauthorized
<1>2. ASSUME NEW r \in Request, RefreshArrives(r) PROVE Next
  <2>1. RefreshLoad(r, rtok) /\ rtok \in SessionId
    BY <1>2 DEF RefreshArrives, RefreshLoad, IsActive, TypeOK
  <2> QED
    BY <2>1 DEF Next
<1>3. ASSUME NEW r \in Request, TabLogin(r) \/ LoginTimesOut(r) \/ ServerStep(r)
      PROVE  Next \/ UNCHANGED vars
  BY <1>3 DEF TabLogin, LoginTimesOut, ServerStep, Next
<1>4. CASE RefreshFails \/ Reload \/ CheckSession
  BY <1>4 DEF RefreshFails, Reload, CheckSession
<1>5. CASE Elsewhere
  BY <1>5 DEF Elsewhere, Next
<1>6. CASE ServerCrash
  BY <1>6 DEF ServerCrash, Next
<1>7. CASE UNCHANGED consoleVars
  BY <1>7 DEF consoleVars
<1> QED
  BY <1>1, <1>2, <1>3, <1>4, <1>5, <1>6, <1>7 DEF ConsoleNext

(***************************************************************************)
(* The console implements Sessions: whatever the tab does, the server sees *)
(* one more client, so all that is proved of Spec holds with it.           *)
(***************************************************************************)
THEOREM ServerTheorem == ConsoleSpec => Spec
<1>1. ConsoleInit => Init /\ TypeOK
  <2> SUFFICES ASSUME ConsoleInit PROVE Init /\ TypeOK
    OBVIOUS
  <2>1. overlapped \in BOOLEAN
    BY Zenon DEF ConsoleInit, Init
  <2> QED
    BY <2>1 DEF ConsoleInit, Init, TypeOK
<1>2. TypeOK /\ [ConsoleNext]_<<vars, tabVars>> => TypeOK' /\ [Next]_vars
  BY ServerStepOnly, TypeStep DEF consoleVars
<1> QED
  BY <1>1, <1>2, PTL DEF ConsoleSpec, Spec

\* Rows of sessions stay.
LEMMA StoredGrows == ASSUME [Next]_vars PROVE stored \subseteq stored'
  BY DEF Next, vars, LoginAccepted, RefreshRevoke, IssueTokens, LogoutRevoke, RefreshLoad,
         LogoutAdmitted, Expire, Crash, sessionVars

(***************************************************************************)
(* What the end of a refresh does to the tab: the new session is stored,   *)
(* or the tokens are dropped and no further call is out.                   *)
(***************************************************************************)
LEMMA SettleStep ==
    ASSUME TabTypeOK, NEW new, Settle(new)
    PROVE  /\ inflight' = "none" /\ rtok' = rtok
           /\ call' \in [Call -> {"idle", "sent", "waiting", "leave", "leave_waiting"}]
           /\ \/ /\ \E n \in new : Persist(n)
                 /\ signedOut' = IF signedOut = "crossing" THEN "no" ELSE signedOut
                 /\ crossed' = crossed
              \/ /\ Persist(NoSession) /\ signedOut' = "yes"
                 /\ Out' = Out
                 /\ crossed' = IF Out # {} THEN TRUE ELSE crossed
<1>1. CASE new # {}
  BY <1>1 DEF Settle, Waiting, TabTypeOK
<1>2. CASE new = {}
  <2>1. call' = [c \in Call |-> IF c \in Waiting THEN "idle" ELSE call[c]]
    BY <1>2 DEF Settle
  <2>2. \A c \in Call : call'[c] \in {"sent", "leave"} <=> call[c] \in {"sent", "leave"}
    BY <2>1 DEF Waiting, TabTypeOK
  <2>3. Out' = Out
    BY <2>2 DEF Out
  <2>4. call' \in [Call -> {"idle", "sent", "waiting", "leave", "leave_waiting"}]
    BY <2>1 DEF TabTypeOK
  <2>5. /\ Persist(NoSession) /\ signedOut' = "yes"
        /\ crossed' = IF Out # {} THEN TRUE ELSE crossed
        /\ inflight' = "none" /\ rtok' = rtok
    BY <1>2 DEF Settle, Clear
  <2> QED
    BY <2>3, <2>4, <2>5
<1> QED
  BY <1>1, <1>2

\* What the end of a call does that clears the tokens: it is not out any more.
LEMMA OutStep ==
    ASSUME TabTypeOK, NEW c \in Call
    PROVE  /\ call' = [call EXCEPT ![c] = "idle"] => Out' = Out \ {c}
           /\ Wait(c) => Out' = Out \ {c}
           /\ call' = [call EXCEPT ![c] = "idle"] \/ Wait(c) =>
                call' \in [Call -> {"idle", "sent", "waiting", "leave", "leave_waiting"}]
  BY DEF TabTypeOK, Out, Wait

\* An answer of the server leaves the tab in order.
LEMMA ReplyStep ==
    ASSUME TypeOK, TypeOK', stored \subseteq stored', TabTypeOK, TabInv,
           NEW r \in Request, Reply(r, stored' \ stored)
    PROVE  TabTypeOK' /\ TabInv'
<1>1. /\ asks' = [asks EXCEPT ![r] = "other"]
      /\ asks' \in [Request -> {"other", "refresh", "login"}]
      /\ asks'[r] = "other" /\ \A q \in Request : q # r => asks'[q] = asks[q]
  BY DEF Reply, TabTypeOK
<1>2. \A s \in stored' \ stored : s \in stored' /\ s # NoSession /\ s # rtok
  BY DEF TypeOK, TabTypeOK, SessionId, NoSession
<1> USE DEF TabInv, TabTypeOK, StoreIsFresh, LogoutSticks, RefreshNotStuck
<1>3. CASE asks[r] = "refresh" /\ Settle(stored' \ stored)
  <2>1. \A q \in Request : asks'[q] # "refresh"
    BY <1>1, <1>3
  <2>2. signedOut # "yes"
    BY <1>3
  <2>3. /\ inflight' = "none" /\ rtok' = rtok
        /\ call' \in [Call -> {"idle", "sent", "waiting", "leave", "leave_waiting"}]
        /\ \/ /\ \E n \in stored' \ stored : Persist(n)
              /\ signedOut' = IF signedOut = "crossing" THEN "no" ELSE signedOut
              /\ crossed' = crossed
           \/ /\ Persist(NoSession) /\ signedOut' = "yes"
              /\ Out' = Out
              /\ crossed' = IF Out # {} THEN TRUE ELSE crossed
    BY <1>3, SettleStep
  <2>4. CASE /\ \E n \in stored' \ stored : Persist(n)
             /\ signedOut' = IF signedOut = "crossing" THEN "no" ELSE signedOut
             /\ crossed' = crossed
    <3>1. /\ store' \in stored' /\ store' # NoSession /\ store' # rtok
          /\ disk' = store' /\ foreign' = FALSE /\ signedOut' = "no"
      BY <1>2, <2>2, <2>4 DEF Persist
    <3> QED
      BY <1>1, <2>1, <2>3, <2>4, <3>1
  <2>5. CASE /\ Persist(NoSession) /\ signedOut' = "yes"
             /\ Out' = Out
             /\ crossed' = IF Out # {} THEN TRUE ELSE crossed
    BY <1>1, <2>1, <2>3, <2>5 DEF Persist
  <2> QED
    BY <2>3, <2>4, <2>5
<1>4. CASE asks[r] = "login" /\ LoginReply(stored' \ stored)
  <2>1. UNCHANGED <<inflight, rtok, call, crossed>>
    BY <1>4 DEF LoginReply
  <2>2. Out' = Out
    BY <2>1 DEF Out
  <2>3. CASE (\E n \in stored' \ stored : Persist(n)) /\ signedOut' = "no"
    <3>1. /\ store' \in stored' /\ store' # NoSession /\ store' # rtok
          /\ disk' = store' /\ foreign' = FALSE
      BY <1>2, <2>3 DEF Persist
    <3> QED
      BY <1>1, <2>1, <2>2, <2>3, <3>1
  <2>4. CASE UNCHANGED authVars
    BY <1>1, <2>1, <2>2, <2>4 DEF authVars
  <2> QED
    BY <1>4, <2>3, <2>4 DEF LoginReply
<1>5. CASE /\ asks[r] = "other" /\ \E n \in stored' \ stored : OtherTab(n)
           /\ UNCHANGED <<inflight, rtok, call, crossed>>
  <2>1. Out' = Out
    BY <1>5 DEF Out
  <2>2. /\ disk' \in stored' /\ disk' # NoSession /\ foreign'
        /\ UNCHANGED <<store, signedOut>>
    BY <1>2, <1>5 DEF OtherTab
  <2> QED
    BY <1>1, <1>5, <2>1, <2>2
<1>6. CASE asks[r] = "other" /\ UNCHANGED <<authVars, inflight, rtok, call, crossed>>
  <2>1. Out' = Out
    BY <1>6 DEF Out
  <2> QED
    BY <1>1, <1>6, <2>1 DEF authVars
<1> QED
  BY <1>3, <1>4, <1>5, <1>6 DEF Reply

\* Every step of the tab, of the server and of other clients keeps the tab in order.
LEMMA ConsoleStep ==
    ASSUME TypeOK, TypeOK', stored \subseteq stored', TabTypeOK, TabInv,
           [ConsoleNext]_consoleVars
    PROVE  TabTypeOK' /\ TabInv'
<1>1. TypeOK /\ TypeOK' /\ stored \subseteq stored' /\ TabTypeOK /\ TabInv
  OBVIOUS
<1> USE DEF TabInv, TabTypeOK, StoreIsFresh, LogoutSticks, RefreshNotStuck
<1>2. ASSUME NEW c \in Call, Send(c) \/ Leave(c) PROVE TabTypeOK' /\ TabInv'
  <2>1. /\ store # NoSession /\ UNCHANGED <<stored, authVars, inflight, rtok, asks, crossed>>
        /\ call' \in [Call -> {"idle", "sent", "waiting", "leave", "leave_waiting"}]
    BY <1>1, <1>2 DEF Send, Leave, vars
  <2> QED
    BY <1>1, <2>1 DEF authVars
<1>3. ASSUME NEW c \in Call, Answered(c) PROVE TabTypeOK' /\ TabInv'
  <2>1. /\ UNCHANGED <<stored, inflight, rtok, asks>>
        /\ call' = [call EXCEPT ![c] = "idle"]
    BY <1>3 DEF Answered, vars
  <2>2. Out' = Out \ {c} /\ call' \in [Call -> {"idle", "sent", "waiting", "leave", "leave_waiting"}]
    BY <1>1, <2>1, OutStep
  <2>3. CASE UNCHANGED <<authVars, crossed>>
    BY <1>1, <2>1, <2>2, <2>3 DEF authVars
  <2>4. CASE Clear(Out \ {c}, inflight = "running")
    BY <1>1, <2>1, <2>2, <2>4 DEF Clear, Persist
  <2> QED
    BY <1>3, <2>3, <2>4 DEF Answered
<1>4. ASSUME NEW c \in Call, Unauthorized(c) PROVE TabTypeOK' /\ TabInv'
  <2>1. c \in Out /\ UNCHANGED <<stored, asks>>
    BY <1>4 DEF Unauthorized, vars
  <2>2. CASE inflight = "running" /\ Wait(c) /\ UNCHANGED <<inflight, rtok>>
    <3>1. Out' = Out \ {c} /\ call' \in [Call -> {"idle", "sent", "waiting", "leave", "leave_waiting"}]
      BY <1>1, <2>2, OutStep
    <3>2. UNCHANGED <<authVars, crossed>>
      BY <2>2 DEF Wait
    <3> QED
      BY <1>1, <2>1, <2>2, <3>1, <3>2 DEF authVars
  <2>3. CASE /\ inflight = "stuck" \/ (inflight = "none" /\ store = NoSession)
             /\ inflight' = "stuck" /\ GiveUp(c) /\ UNCHANGED rtok
    <3>1. Out' = Out \ {c} /\ call' \in [Call -> {"idle", "sent", "waiting", "leave", "leave_waiting"}]
      BY <1>1, <2>3, OutStep DEF GiveUp
    <3>2. /\ Persist(NoSession) /\ signedOut' = "yes"
          /\ crossed' = IF Out \ {c} # {} THEN TRUE ELSE crossed
      BY <2>3 DEF GiveUp, Clear
    <3>3. crossed /\ crossed'
      BY <1>1, <2>1, <2>3, <3>2
    <3> QED
      BY <1>1, <2>1, <2>3, <3>1, <3>2, <3>3 DEF Persist
  <2>4. CASE /\ inflight = "none" /\ store # NoSession
             /\ inflight' = "running" /\ rtok' = store /\ Wait(c)
    <3>1. Out' = Out \ {c} /\ call' \in [Call -> {"idle", "sent", "waiting", "leave", "leave_waiting"}]
      BY <1>1, <2>4, OutStep
    <3>2. UNCHANGED <<authVars, crossed>>
      BY <2>4 DEF Wait
    <3> QED
      BY <1>1, <2>1, <2>4, <3>1, <3>2 DEF authVars
  <2> QED
    BY <1>4, <2>2, <2>3, <2>4 DEF Unauthorized
<1>5. ASSUME NEW r \in Request, RefreshArrives(r) \/ TabLogin(r) \/ LoginTimesOut(r)
      PROVE  TabTypeOK' /\ TabInv'
  <2>1. UNCHANGED <<authVars, inflight, rtok, call, crossed>>
    BY <1>5 DEF RefreshArrives, TabLogin, LoginTimesOut
  <2>2. Out' = Out
    BY <2>1 DEF Out
  <2>3. CASE asks' = [asks EXCEPT ![r] = "refresh"] /\ RefreshArrives(r)
    BY <1>1, <2>1, <2>2, <2>3 DEF RefreshArrives, authVars
  <2>4. CASE \E a \in {"login", "other"} : asks' = [asks EXCEPT ![r] = a]
    BY <1>1, <2>1, <2>2, <2>4 DEF authVars
  <2> QED
    BY <1>5, <2>3, <2>4 DEF RefreshArrives, TabLogin, LoginTimesOut
<1>6. ASSUME NEW r \in Request, ServerStep(r) PROVE TabTypeOK' /\ TabInv'
  <2>1. CASE UNCHANGED tabVars
    <3>1. Out' = Out
      BY <2>1 DEF Out, tabVars
    <3> QED
      BY <1>1, <2>1, <3>1 DEF tabVars, authVars
  <2> QED
    BY <1>1, <1>6, <2>1, ReplyStep DEF ServerStep
<1>7. ASSUME Settle({}),
             \A r \in Request : asks'[r] # "refresh",
             asks' \in [Request -> {"other", "refresh", "login"}]
      PROVE  TabTypeOK' /\ TabInv'
  <2>1. /\ inflight' = "none" /\ rtok' = rtok
        /\ call' \in [Call -> {"idle", "sent", "waiting", "leave", "leave_waiting"}]
        /\ Persist(NoSession) /\ signedOut' = "yes"
        /\ Out' = Out
        /\ crossed' = IF Out # {} THEN TRUE ELSE crossed
    <3>1. \A new : Settle(new) =>
             /\ inflight' = "none" /\ rtok' = rtok
             /\ call' \in [Call -> {"idle", "sent", "waiting", "leave", "leave_waiting"}]
             /\ \/ new # {}
                \/ /\ Persist(NoSession) /\ signedOut' = "yes"
                   /\ Out' = Out
                   /\ crossed' = IF Out # {} THEN TRUE ELSE crossed
      BY <1>1, SettleStep
    <3> HIDE DEF TabInv, TabTypeOK
    <3> QED
      BY <1>7, <3>1
  <2> QED
    BY <1>1, <1>7, <2>1 DEF Persist
<1>8. CASE RefreshFails
  <2>1. Settle({}) /\ asks' = [r \in Request |-> IF asks[r] = "refresh" THEN "other" ELSE asks[r]]
    BY <1>8 DEF RefreshFails
  <2>2. /\ \A r \in Request : asks'[r] # "refresh"
        /\ asks' \in [Request -> {"other", "refresh", "login"}]
    BY <1>1, <2>1
  <2> QED
    BY <1>7, <2>1, <2>2
<1>9. CASE Reload
  <2>1. Out' = {}
    BY <1>9 DEF Reload, Out
  <2> QED
    BY <1>1, <1>9, <2>1 DEF Reload, vars
<1>10. CASE CheckSession
  <2>1. Out' = Out
    BY <1>10 DEF CheckSession, Out
  <2> QED
    BY <1>1, <1>10, <2>1 DEF CheckSession, Clear, Persist, vars
<1>11. CASE UNCHANGED tabVars
  <2>1. Out' = Out
    BY <1>11 DEF Out, tabVars
  <2> QED
    BY <1>1, <1>11, <2>1 DEF tabVars, authVars
<1>12. CASE OtherTab(NoSession) /\ UNCHANGED <<vars, inflight, rtok, asks, call, crossed>>
  <2>1. Out' = Out
    BY <1>12 DEF Out
  <2> QED
    BY <1>1, <1>12, <2>1 DEF OtherTab, vars
<1>13. CASE ServerCrash
  <2>1. asks' = [r \in Request |-> "other"]
    BY <1>13 DEF ServerCrash
  <2>2. /\ \A r \in Request : asks'[r] # "refresh"
        /\ asks' \in [Request -> {"other", "refresh", "login"}]
    BY <2>1
  <2>3. CASE UNCHANGED <<authVars, inflight, rtok, call, crossed>>
    <3>1. Out' = Out
      BY <2>3 DEF Out
    <3> QED
      BY <1>1, <2>2, <2>3, <3>1 DEF authVars
  <2> QED
    BY <1>7, <1>13, <2>2, <2>3 DEF ServerCrash
<1> HIDE DEF TabInv, TabTypeOK
<1>14. CASE Elsewhere \/ UNCHANGED consoleVars
  BY <1>11, <1>12, <1>14 DEF Elsewhere, consoleVars
<1> QED
  BY <1>2, <1>3, <1>4, <1>5, <1>6, <1>8, <1>9, <1>10, <1>13, <1>14 DEF ConsoleNext

\* The two Boolean history variables of the tab stay Boolean.
LEMMA TabHistory ==
    ASSUME [ConsoleNext]_consoleVars, foreign \in BOOLEAN, crossed \in BOOLEAN
    PROVE  foreign' \in BOOLEAN /\ crossed' \in BOOLEAN
<1> DEFINE Noted == /\ \/ foreign' = foreign
                       \/ foreign' = FALSE
                       \/ foreign' = TRUE
                    /\ \/ crossed' = crossed
                       \/ crossed' = FALSE
                       \/ crossed' = TRUE
<1>1. Noted => foreign' \in BOOLEAN /\ crossed' \in BOOLEAN
  BY Zenon
<1>2. ASSUME NEW out, NEW running, Clear(out, running) PROVE Noted
  BY <1>2, Zenon DEF Clear, Persist
<1>3. ASSUME NEW s, OtherTab(s), crossed' = crossed PROVE Noted
  BY <1>3, Zenon DEF OtherTab
<1>4. ASSUME NEW c \in Call, Send(c) \/ Leave(c) \/ Answered(c) \/ Unauthorized(c) PROVE Noted
  <2>1. UNCHANGED <<authVars, crossed>> \/ \E out, running : Clear(out, running)
    BY <1>4 DEF Send, Leave, Answered, Unauthorized, Wait, GiveUp
  <2> QED
    BY <1>2, <2>1, Zenon DEF authVars
<1>5. ASSUME NEW new, Settle(new) \/ LoginReply(new) PROVE Noted
  <2>1. \/ (\E n \in new : Persist(n)) /\ crossed' = crossed
        \/ UNCHANGED <<authVars, crossed>>
        \/ \E out, running : Clear(out, running)
    BY <1>5 DEF Settle, LoginReply
  <2> QED
    BY <1>2, <2>1, Zenon DEF authVars, Persist
<1>6. ASSUME NEW r \in Request, RefreshArrives(r) \/ TabLogin(r) \/ LoginTimesOut(r) PROVE Noted
  BY <1>6, Zenon DEF RefreshArrives, TabLogin, LoginTimesOut, authVars
<1>7. ASSUME NEW r \in Request, ServerStep(r) PROVE Noted
  BY <1>3, <1>5, <1>7, Zenon DEF ServerStep, Reply, tabVars, authVars
<1>8. ASSUME RefreshFails \/ ServerCrash PROVE Noted
  <2>1. Settle({}) \/ UNCHANGED <<authVars, crossed>>
    BY <1>8 DEF RefreshFails, ServerCrash
  <2> QED
    BY <1>5, <2>1, Zenon DEF authVars
<1>9. ASSUME Reload \/ CheckSession PROVE Noted
  <2>1. (foreign' = FALSE /\ crossed' = FALSE) \/ Clear(Out, inflight = "running")
    BY <1>9 DEF Reload, CheckSession
  <2> QED
    BY <1>2, <2>1, Zenon
<1>10. ASSUME Elsewhere \/ UNCHANGED consoleVars PROVE Noted
  BY <1>3, <1>10, Zenon DEF Elsewhere, tabVars, authVars, consoleVars
<1> HIDE DEF Noted
<1> QED
  BY <1>1, <1>4, <1>6, <1>7, <1>8, <1>9, <1>10, Zenon DEF ConsoleNext

(***************************************************************************)
(* Type correctness of the tab and of the server behind it, with the       *)
(* invariant that the tab's properties follow from.                        *)
(***************************************************************************)
THEOREM ConsoleTypeCorrect == ConsoleSpec => [](ConsoleTypeOK /\ TabInv)
<1> DEFINE Inv == /\ TypeOK /\ TabTypeOK /\ TabInv
                  /\ foreign \in BOOLEAN /\ crossed \in BOOLEAN
<1>1. ConsoleInit => Inv
  <2> SUFFICES ASSUME ConsoleInit PROVE Inv
    OBVIOUS
  <2>1. overlapped \in BOOLEAN /\ foreign \in BOOLEAN /\ crossed \in BOOLEAN
    BY Zenon DEF ConsoleInit, Init
  <2>2. TypeOK
    BY <2>1 DEF ConsoleInit, Init, TypeOK
  <2>3. TabTypeOK
    BY DEF ConsoleInit, Init, TabTypeOK
  <2>4. TabInv
    BY DEF ConsoleInit, TabInv, Out, StoreIsFresh, LogoutSticks, RefreshNotStuck
  <2> QED
    BY <2>1, <2>2, <2>3, <2>4
<1>2. Inv /\ [ConsoleNext]_<<vars, tabVars>> => Inv'
  <2> SUFFICES ASSUME Inv, [ConsoleNext]_consoleVars PROVE Inv'
    BY DEF consoleVars
  <2>1. TypeOK' /\ stored \subseteq stored'
    BY ServerStepOnly, TypeStep, StoredGrows
  <2>2. TabTypeOK' /\ TabInv'
    BY <2>1, ConsoleStep
  <2>3. foreign' \in BOOLEAN /\ crossed' \in BOOLEAN
    BY TabHistory
  <2> QED
    BY <2>1, <2>2, <2>3
<1>3. Inv => ConsoleTypeOK /\ TabInv
  BY DEF TabTypeOK, ConsoleTypeOK
<1> QED
  BY <1>1, <1>2, <1>3, PTL DEF ConsoleSpec

(***************************************************************************)
(* The tab presents a refresh token once: when no refresh is running, the  *)
(* store does not hold the token presented last, whatever answers were     *)
(* lost and whatever other tabs and the server did.                        *)
(***************************************************************************)
THEOREM StoreTheorem == ConsoleSpec => []StoreIsFresh
<1>1. TabInv => StoreIsFresh
  BY DEF TabInv
<1> QED
  BY <1>1, ConsoleTypeCorrect, PTL

(***************************************************************************)
(* Tokens that were cleared stay away from the tab and from localStorage   *)
(* until the next login, through late answers and reloads, unless the      *)
(* refresh that was running when they were cleared stores its pair or      *)
(* another tab stores one of its own, which this tab takes up by a reload  *)
(* only.                                                                   *)
(***************************************************************************)
THEOREM SignOutTheorem == ConsoleSpec => []LogoutSticks
<1>1. TabInv => LogoutSticks
  BY DEF TabInv
<1> QED
  BY <1>1, ConsoleTypeCorrect, PTL

(***************************************************************************)
(* Refreshing is disabled for good only after tokens were cleared while a  *)
(* call was out.                                                           *)
(***************************************************************************)
THEOREM StuckTheorem == ConsoleSpec => []RefreshNotStuck
<1>1. TabInv => RefreshNotStuck
  BY DEF TabInv
<1> QED
  BY <1>1, ConsoleTypeCorrect, PTL

(***************************************************************************)
(* What was proved of the server alone, for a server one of whose clients  *)
(* is the tab: through ServerTheorem.                                      *)
(***************************************************************************)
THEOREM SessionsWithTab ==
    ConsoleSpec => []OneActivePerLogin /\ LifeSpec /\ RevokedGainsNothing
  BY ServerTheorem, SerialTheorem, LifeTheorem, RevokedTheorem, PTL
=============================================================================
