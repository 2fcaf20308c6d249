---------------------------- MODULE VaultProofs -----------------------------
(***************************************************************************)
(* The bound on a tenant's secrets, proved for any number of requests,     *)
(* names and limits.                                                       *)
(*                                                                         *)
(* The bound alone is not inductive: a request that has passed the quota   *)
(* still adds a secret later.  What every step preserves counts those      *)
(* secrets too (Claimed), and knows that no limit in use is above high.    *)
(***************************************************************************)
EXTENDS Vault, TLAPS, FiniteSetTheorems

USE VaultAssumption DEF NoQuota

\* A request past the quota, with the name it may still add.
Past(r) == pc[r] \in {"lookup", "save", "create"}
Pending == {want[r] : r \in {q \in Request : Past(q)}}
Claimed == Live \cup Pending

\* The limits that are in use, or wait to be stored or compared.
LimitsInv ==
    /\ DefaultLimit <= high
    /\ quota <= high
    /\ \A r \in Request : pc[r] = "count" => number[r] <= high

ClaimedInv == Cardinality(Claimed) <= high + Cardinality(Request) - 1

-----------------------------------------------------------------------------
(***************************************************************************)
(* Every variable of the vault keeps its type.                             *)
(***************************************************************************)
THEOREM TypeCorrect == Spec => []TypeOK
<1>1. Init => TypeOK
  <2> SUFFICES ASSUME Init PROVE TypeOK  OBVIOUS
  <2>1. overlapped \in BOOLEAN  BY Zenon DEF Init
  <2> QED  BY <2>1 DEF Init, TypeOK
<1>2. TypeOK /\ [Next]_vars => TypeOK'
  <2> SUFFICES ASSUME TypeOK, [Next]_vars PROVE TypeOK'  OBVIOUS
  <2> USE DEF secretVars, quotaVars
  <2>1. overlapped' \in BOOLEAN
    <3>1. overlapped \in BOOLEAN  BY Zenon DEF TypeOK
    <3>2. overlapped' = overlapped \/ overlapped' = TRUE
      BY DEF Next, vars, ShowQuota, QuotaGet, QuotaCreate, QuotaCount, PutLookup, PutSave,
             PutCreate, QuotaPutLoad, QuotaPut, StatementFails, PutGet, PutGetFails, Delete,
             Crash, Watch
    <3> QED  BY <3>1, <3>2, Zenon
  <2>2. ASSUME NEW r \in Request, NEW n \in Name, PutGet(r, n) \/ PutGetFails(r, n) PROVE TypeOK'
    BY <2>1, <2>2 DEF TypeOK, PutGet, PutGetFails, Goto
  <2>3. ASSUME NEW r \in Request, ShowQuota(r) PROVE TypeOK'
    BY <2>1, <2>3 DEF TypeOK, ShowQuota, Goto
  <2>4. ASSUME NEW r \in Request, QuotaGet(r) PROVE TypeOK'
    BY <2>1, <2>4 DEF TypeOK, QuotaGet, GotLimit, Return, Goto
  <2>5. ASSUME NEW r \in Request, QuotaCreate(r) PROVE TypeOK'
    BY <2>1, <2>5 DEF TypeOK, QuotaCreate, GotLimit, Return, Goto
  <2>6. ASSUME NEW r \in Request, QuotaCount(r) PROVE TypeOK'
    BY <2>1, <2>6 DEF TypeOK, QuotaCount, Return, Goto
  <2>7. ASSUME NEW r \in Request, PutLookup(r) PROVE TypeOK'
    BY <2>1, <2>7 DEF TypeOK, PutLookup, Goto
  <2>8. ASSUME NEW r \in Request, PutSave(r) PROVE TypeOK'
    BY <2>1, <2>8 DEF TypeOK, PutSave, Return, Goto
  <2>9. ASSUME NEW r \in Request, PutCreate(r) PROVE TypeOK'
    BY <2>1, <2>9 DEF TypeOK, PutCreate, Return, Goto
  <2>10. ASSUME NEW r \in Request, QuotaPutLoad(r) PROVE TypeOK'
    BY <2>1, <2>10 DEF TypeOK, QuotaPutLoad, Goto
  <2>11. ASSUME NEW r \in Request, QuotaPut(r) PROVE TypeOK'
    BY <2>1, <2>11 DEF TypeOK, QuotaPut, Larger, Return, Goto
  <2>12. ASSUME NEW r \in Request, StatementFails(r) PROVE TypeOK'
    BY <2>1, <2>12 DEF TypeOK, StatementFails, Return, Goto
  <2>13. ASSUME NEW n \in Name, Delete(n) PROVE TypeOK'
    BY <2>1, <2>13 DEF TypeOK, Delete
  <2>14. CASE Crash  BY <2>1, <2>14 DEF TypeOK, Crash
  <2>15. CASE UNCHANGED vars  BY <2>1, <2>15 DEF TypeOK, vars
  <2> QED
    BY <2>2, <2>3, <2>4, <2>5, <2>6, <2>7, <2>8, <2>9, <2>10, <2>11, <2>12, <2>13, <2>14,
       <2>15 DEF Next
<1> QED  BY <1>1, <1>2, PTL DEF Spec

-----------------------------------------------------------------------------
\* The sets that are counted are finite, and there is a request to count.
LEMMA Counted ==
    ASSUME TypeOK
    PROVE  /\ IsFiniteSet(Claimed) /\ Cardinality(Claimed) \in Nat
           /\ IsFiniteSet(Live) /\ Cardinality(Live) \in Nat
           /\ IsFiniteSet(Pending)
           /\ Cardinality(Pending) \in Nat /\ Cardinality(Pending) <= Cardinality(Request)
           /\ Cardinality(Request) \in Nat \ {0}
<1>1. Live \subseteq Name  BY DEF Live
<1>2. IsFiniteSet(Live) /\ Cardinality(Live) \in Nat
  BY <1>1, FS_Subset, FS_CardinalityType
<1> DEFINE B == {q \in Request : Past(q)}
<1>3. IsFiniteSet(B) /\ Cardinality(B) <= Cardinality(Request)
  <2>1. B \subseteq Request  OBVIOUS
  <2> QED  BY <2>1, FS_Subset
<1>4. IsFiniteSet(Pending) /\ Cardinality(Pending) <= Cardinality(B)
  <2>1. Pending = {want[r] : r \in B}  BY DEF Pending
  <2> HIDE DEF B
  <2> DEFINE f == [r \in B |-> want[r]]
  <2>2. f \in Surjection(B, Pending)
    BY <2>1 DEF Surjection
  <2> QED  BY <1>3, <2>2, FS_Surjection
<1>5. Cardinality(Pending) \in Nat /\ Cardinality(B) \in Nat /\ Cardinality(Request) \in Nat
  BY <1>3, <1>4, FS_CardinalityType
<1>6. IsFiniteSet(Claimed)  BY <1>2, <1>4, FS_Union DEF Claimed
<1>7. Cardinality(Claimed) \in Nat  BY <1>6, FS_CardinalityType
<1>8. Cardinality(Request) # 0  BY FS_EmptySet
<1> QED  BY <1>2, <1>3, <1>4, <1>5, <1>6, <1>7, <1>8

\* A step that claims no further secret and lowers no limit keeps the count.
LEMMA NoMoreClaimed ==
    ASSUME TypeOK, TypeOK', ClaimedInv, Claimed' \subseteq Claimed, high <= high'
    PROVE  ClaimedInv'
<1>1. Cardinality(Claimed') <= Cardinality(Claimed) /\ Cardinality(Claimed') \in Nat
  BY Counted, FS_Subset, FS_CardinalityType
<1> QED  BY <1>1, Counted DEF ClaimedInv, TypeOK

-----------------------------------------------------------------------------
(***************************************************************************)
(* However PUTs, deletions, quota changes, failures and crashes overlap, a *)
(* tenant has at most the largest limit ever in force plus the number of   *)
(* concurrent requests less one, for any number of each.                   *)
(***************************************************************************)
THEOREM OverrunTheorem == Spec => []OverrunBounded
<1> DEFINE IInv == LimitsInv /\ ClaimedInv
<1>1. Init => IInv
  <2> SUFFICES ASSUME Init PROVE IInv  OBVIOUS
  <2>1. LimitsInv  BY DEF Init, LimitsInv
  <2>2. Claimed = {}  BY DEF Init, Claimed, Live, Pending, Past
  <2>3. Cardinality(Claimed) = 0  BY <2>2, FS_EmptySet
  <2>4. Cardinality(Request) \in Nat \ {0}
    BY FS_EmptySet, FS_CardinalityType
  <2> QED  BY <2>1, <2>3, <2>4 DEF Init, ClaimedInv
<1>2. TypeOK /\ TypeOK' /\ IInv /\ [Next]_vars => IInv'
  <2> SUFFICES ASSUME TypeOK, TypeOK', LimitsInv, ClaimedInv, [Next]_vars
               PROVE  LimitsInv' /\ ClaimedInv'
    OBVIOUS
  <2> USE DEF secretVars, quotaVars
  <2>1. ASSUME NEW r \in Request, NEW n \in Name, PutGet(r, n) \/ PutGetFails(r, n)
        PROVE  LimitsInv' /\ ClaimedInv'
    <3>1. LimitsInv'  BY <2>1 DEF TypeOK, LimitsInv, PutGet, PutGetFails, Goto
    <3>2. Claimed' \subseteq Claimed
      BY <2>1 DEF TypeOK, PutGet, PutGetFails, Goto, Claimed, Live, Pending, Past
    <3>3. high <= high'  BY <2>1 DEF TypeOK, PutGet, PutGetFails
    <3> QED  BY <3>1, <3>2, <3>3, NoMoreClaimed
  <2>2. ASSUME NEW r \in Request, ShowQuota(r) \/ QuotaGet(r) \/ QuotaCreate(r)
        PROVE  LimitsInv' /\ ClaimedInv'
    <3>1. LimitsInv'
      BY <2>2 DEF TypeOK, LimitsInv, ShowQuota, QuotaGet, QuotaCreate, GotLimit, Return, Goto
    <3>2. Claimed' \subseteq Claimed
      BY <2>2 DEF TypeOK, ShowQuota, QuotaGet, QuotaCreate, GotLimit, Return, Goto, Claimed,
                  Live, Pending, Past
    <3>3. high <= high'  BY <2>2 DEF TypeOK, ShowQuota, QuotaGet, QuotaCreate
    <3> QED  BY <3>1, <3>2, <3>3, NoMoreClaimed
  <2>3. ASSUME NEW r \in Request, QuotaCount(r) PROVE LimitsInv' /\ ClaimedInv'
    <3>1. LimitsInv'  BY <2>3 DEF TypeOK, LimitsInv, QuotaCount, Return, Goto
    <3>2. CASE Cardinality(Live) >= number[r]
      <4>1. Claimed' \subseteq Claimed
        BY <2>3, <3>2 DEF TypeOK, QuotaCount, Return, Goto, Claimed, Live, Pending, Past
      <4>2. high <= high'  BY <2>3 DEF TypeOK, QuotaCount
      <4> QED  BY <3>1, <4>1, <4>2, NoMoreClaimed
    <3>3. CASE ~(Cardinality(Live) >= number[r])
      \* The limit was not reached: even with every request pending it is kept.
      <4>1. Cardinality(Live) < high
        BY <2>3, <3>3, Counted DEF TypeOK, LimitsInv, QuotaCount
      <4>2. Live' = Live /\ high' = high  BY <2>3 DEF QuotaCount, Live
      <4> DEFINE D == {q \in Request : pc'[q] \in {"lookup", "save", "create"}}
      <4>3. IsFiniteSet(D) /\ Cardinality(D) <= Cardinality(Request)
        <5>1. D \subseteq Request  OBVIOUS
        <5> QED  BY <5>1, FS_Subset
      <4>4. IsFiniteSet(Pending') /\ Cardinality(Pending') <= Cardinality(D)
        <5>1. Pending' = {want'[q] : q \in D}  BY DEF Pending, Past
        <5> HIDE DEF D
        <5> DEFINE f == [q \in D |-> want'[q]]
        <5>2. f \in Surjection(D, Pending')  BY <5>1 DEF Surjection
        <5> QED  BY <4>3, <5>2, FS_Surjection
      <4>5. Cardinality(Live \cup Pending') <= Cardinality(Live) + Cardinality(Pending')
        <5>1. Cardinality(Live \cup Pending')
                = Cardinality(Live) + Cardinality(Pending') - Cardinality(Live \cap Pending')
          BY <4>4, Counted, FS_Union
        <5>2. IsFiniteSet(Live \cap Pending')  BY <4>4, Counted, FS_Intersection
        <5>3. Cardinality(Live \cap Pending') \in Nat  BY <5>2, FS_CardinalityType
        <5> QED  BY <4>4, <5>1, <5>3, Counted, FS_CardinalityType
      <4>6. IsFiniteSet(Live \cup Pending')  BY <4>4, Counted, FS_Union
      <4>7. /\ Cardinality(Live \cup Pending') \in Nat
            /\ Cardinality(Pending') \in Nat /\ Cardinality(D) \in Nat
        BY <4>3, <4>4, <4>6, FS_CardinalityType
      <4>8. Claimed' = Live \cup Pending'  BY <4>2 DEF Claimed
      <4> HIDE DEF D
      <4> QED
        BY <3>1, <4>1, <4>2, <4>3, <4>4, <4>5, <4>7, <4>8, Counted DEF ClaimedInv, TypeOK
    <3> QED  BY <3>2, <3>3
  <2>4. ASSUME NEW r \in Request, PutLookup(r) \/ StatementFails(r) \/ QuotaPutLoad(r)
        PROVE  LimitsInv' /\ ClaimedInv'
    <3>1. LimitsInv'
      BY <2>4 DEF TypeOK, LimitsInv, PutLookup, StatementFails, QuotaPutLoad, Return, Goto
    <3>2. Claimed' \subseteq Claimed
      BY <2>4 DEF TypeOK, PutLookup, StatementFails, QuotaPutLoad, Return, Goto, Claimed, Live,
                  Pending, Past
    <3>3. high <= high'  BY <2>4 DEF TypeOK, PutLookup, StatementFails, QuotaPutLoad
    <3> QED  BY <3>1, <3>2, <3>3, NoMoreClaimed
  <2>5. ASSUME NEW r \in Request, PutSave(r) \/ PutCreate(r) PROVE LimitsInv' /\ ClaimedInv'
    <3>1. LimitsInv'  BY <2>5 DEF TypeOK, LimitsInv, PutSave, PutCreate, Return, Goto
    <3>2. Claimed' \subseteq Claimed
      BY <2>5 DEF TypeOK, PutSave, PutCreate, Return, Goto, Claimed, Live, Pending, Past
    <3>3. high <= high'  BY <2>5 DEF TypeOK, PutSave, PutCreate
    <3> QED  BY <3>1, <3>2, <3>3, NoMoreClaimed
  <2>6. ASSUME NEW r \in Request, QuotaPut(r) PROVE LimitsInv' /\ ClaimedInv'
    <3>1. LimitsInv'  BY <2>6 DEF TypeOK, LimitsInv, QuotaPut, Larger, Return, Goto
    <3>2. Claimed' \subseteq Claimed
      BY <2>6 DEF TypeOK, QuotaPut, Return, Goto, Claimed, Live, Pending, Past
    <3>3. high <= high'  BY <2>6 DEF TypeOK, QuotaPut, Larger
    <3> QED  BY <3>1, <3>2, <3>3, NoMoreClaimed
  <2>7. ASSUME NEW n \in Name, Delete(n) PROVE LimitsInv' /\ ClaimedInv'
    <3>1. LimitsInv'  BY <2>7 DEF TypeOK, LimitsInv, Delete
    <3>2. Claimed' \subseteq Claimed
      BY <2>7 DEF TypeOK, Delete, Claimed, Live, Pending, Past
    <3>3. high <= high'  BY <2>7 DEF TypeOK, Delete
    <3> QED  BY <3>1, <3>2, <3>3, NoMoreClaimed
  <2>8. CASE Crash \/ UNCHANGED vars
    <3>1. LimitsInv'  BY <2>8 DEF TypeOK, LimitsInv, Crash, vars
    <3>2. Claimed' \subseteq Claimed
      BY <2>8 DEF TypeOK, Crash, vars, Claimed, Live, Pending, Past
    <3>3. high <= high'  BY <2>8 DEF TypeOK, Crash, vars
    <3> QED  BY <3>1, <3>2, <3>3, NoMoreClaimed
  <2> QED  BY <2>1, <2>2, <2>3, <2>4, <2>5, <2>6, <2>7, <2>8 DEF Next
<1>3. TypeOK /\ IInv => OverrunBounded
  <2> SUFFICES ASSUME TypeOK, ClaimedInv PROVE OverrunBounded  OBVIOUS
  <2>1. Live \subseteq Claimed  BY DEF Claimed
  <2>2. Cardinality(Live) <= Cardinality(Claimed)  BY <2>1, Counted, FS_Subset
  <2> QED  BY <2>2, Counted DEF ClaimedInv, OverrunBounded, TypeOK
<1> QED  BY <1>1, <1>2, <1>3, TypeCorrect, PTL DEF Spec

-----------------------------------------------------------------------------
(***************************************************************************)
(* Requests that have not overlapped: at most one is under way, so what it *)
(* read is still so when it writes.                                        *)
(***************************************************************************)
Alone == \A r, q \in Request : pc[r] # "idle" /\ pc[q] # "idle" => r = q

\* A rotation holds the version that follows the row's.
VersionInv ==
    /\ \A n \in Name : version[n] = puts[n]
    /\ \A n \in Name : state[n] = "none" => puts[n] = 0
    /\ \A r \in Request :
         pc[r] = "save" => state[want[r]] = "live" /\ number[r] = puts[want[r]] + 1

\* A request that may add a secret has found room for it under the limit in force.
QuotaInv ==
    \A r \in Request :
      /\ pc[r] = "count" => number[r] = quota
      /\ pc[r] = "lookup" => state[want[r]] = "live" \/ Cardinality(Live) < quota
      /\ pc[r] = "create" => Cardinality(Live) < quota

\* Every step keeps the history: an overlap stays noted.
LEMMA HistoryStep ==
    ASSUME [Next]_vars, ~overlapped' PROVE ~overlapped
<1>1. overlapped' = overlapped \/ overlapped' = TRUE
  BY DEF Next, vars, ShowQuota, QuotaGet, QuotaCreate, QuotaCount, PutLookup, PutSave,
         PutCreate, QuotaPutLoad, QuotaPut, StatementFails, PutGet, PutGetFails, Delete,
         Crash, Watch
<1> QED
  BY <1>1, Zenon

\* As long as no overlap was noted no two requests are under way, and a deletion
\* meets none.
LEMMA AloneStep ==
    ASSUME Alone, [Next]_vars, ~overlapped'
    PROVE  /\ Alone' /\ ~overlapped
           /\ \A n \in Name : Delete(n) => \A r \in Request : pc[r] = "idle"
<1>1. ASSUME NEW n \in Name, Delete(n)
      PROVE  Alone' /\ ~overlapped /\ \A r \in Request : pc[r] = "idle"
  BY <1>1 DEF Delete, Alone
<1>2. CASE Watch
  <2>1. ~Overlap' /\ ~overlapped
    BY <1>2, Zenon DEF Watch
  <2> QED
    BY <1>1, <2>1 DEF Overlap, Alone
<1>3. CASE UNCHANGED vars
  <2>1. ~overlapped
    BY <1>3 DEF vars
  <2> QED
    BY <1>1, <1>3, <2>1 DEF Alone, vars
<1>4. Watch \/ UNCHANGED vars \/ \E n \in Name : Delete(n)
  BY DEF Next, ShowQuota, QuotaGet, QuotaCreate, QuotaCount, PutLookup, PutSave, PutCreate,
         QuotaPutLoad, QuotaPut, StatementFails, PutGet, PutGetFails, Crash
<1> QED
  BY <1>1, <1>2, <1>3, <1>4

\* A request on its own keeps versions and successful PUTs in step.
LEMMA VersionStep ==
    ASSUME TypeOK, Alone, VersionInv, [Next]_vars, ~overlapped'
    PROVE  VersionInv'
<1>1. TypeOK /\ Alone /\ VersionInv
  OBVIOUS
<1> USE DEF TypeOK, Alone, VersionInv, secretVars, quotaVars
<1>2. ASSUME NEW r \in Request,
             \/ ShowQuota(r) \/ QuotaGet(r) \/ QuotaCreate(r) \/ QuotaCount(r)
             \/ PutLookup(r) \/ PutSave(r) \/ PutCreate(r)
             \/ QuotaPutLoad(r) \/ QuotaPut(r) \/ StatementFails(r)
      PROVE  VersionInv'
  <2>1. CASE ShowQuota(r)
    BY <1>1, <2>1 DEF ShowQuota, Return, Goto
  <2>2. CASE QuotaGet(r)
    BY <1>1, <2>2 DEF QuotaGet, GotLimit, Return, Goto
  <2>3. CASE QuotaCreate(r)
    BY <1>1, <2>3 DEF QuotaCreate, GotLimit, Return, Goto
  <2>4. CASE PutLookup(r)
    BY <1>1, <2>4 DEF PutLookup, Return, Goto
  <2>5. CASE PutSave(r)
    BY <1>1, <2>5 DEF PutSave, Return, Goto
  <2>6. CASE PutCreate(r)
    BY <1>1, <2>6 DEF PutCreate, Return, Goto
  <2>7. CASE QuotaPutLoad(r)
    BY <1>1, <2>7 DEF QuotaPutLoad, Return, Goto
  <2>8. CASE QuotaPut(r)
    BY <1>1, <2>8 DEF QuotaPut, Return, Goto
  <2>9. CASE StatementFails(r)
    BY <1>1, <2>9 DEF StatementFails, Return, Goto
  <2>10. CASE QuotaCount(r)
    BY <1>1, <2>10 DEF QuotaCount, Return, Goto
  <2> QED
    BY <1>2, <2>1, <2>2, <2>3, <2>4, <2>5, <2>6, <2>7, <2>8, <2>9, <2>10
<1>3. ASSUME NEW r \in Request, NEW n \in Name, PutGet(r, n) \/ PutGetFails(r, n)
      PROVE  VersionInv'
  BY <1>1, <1>3 DEF PutGet, PutGetFails, Goto
<1>4. ASSUME NEW n \in Name, Delete(n) PROVE VersionInv'
  <2>1. \A r \in Request : pc[r] = "idle"
    BY <1>4, AloneStep
  <2> QED
    BY <1>1, <1>4, <2>1 DEF Delete
<1>5. CASE Crash \/ UNCHANGED vars
  BY <1>1, <1>5 DEF Crash, vars
<1> HIDE DEF TypeOK, Alone, VersionInv
<1> QED
  BY <1>2, <1>3, <1>4, <1>5 DEF Next

(***************************************************************************)
(* As long as requests have not overlapped, the version of a secret is the *)
(* number of PUTs of its name that ever succeeded, for any number of names *)
(* and through failures, crashes and deletions.                            *)
(***************************************************************************)
THEOREM VersionTheorem == Spec => []VersionCountsPuts
<1> DEFINE Inv == ~overlapped => Alone /\ VersionInv
<1>1. Init => Inv
  BY DEF Init, Alone, VersionInv
<1>2. TypeOK /\ Inv /\ [Next]_vars => Inv'
  <2> SUFFICES ASSUME TypeOK, Inv, [Next]_vars, ~overlapped' PROVE Alone' /\ VersionInv'
    OBVIOUS
  <2>1. ~overlapped
    BY HistoryStep
  <2> QED
    BY <2>1, AloneStep, VersionStep
<1>3. Inv => VersionCountsPuts
  BY DEF VersionInv, VersionCountsPuts
<1> QED
  BY <1>1, <1>2, <1>3, TypeCorrect, PTL DEF Spec

-----------------------------------------------------------------------------
\* A request on its own stores a new name only where the quota has room for it.
LEMMA QuotaStep ==
    ASSUME TypeOK, Alone, VersionInv, QuotaInv, [Next]_vars, ~overlapped'
    PROVE  QuotaInv'
<1>1. TypeOK /\ Alone /\ QuotaInv
  OBVIOUS
<1> USE DEF TypeOK, QuotaInv, secretVars, quotaVars
<1>2. ASSUME NEW r \in Request,
             \/ ShowQuota(r) \/ QuotaGet(r) \/ QuotaCreate(r) \/ QuotaCount(r)
             \/ PutLookup(r) \/ PutSave(r) \/ PutCreate(r)
             \/ QuotaPutLoad(r) \/ QuotaPut(r) \/ StatementFails(r)
      PROVE  QuotaInv'
  <2>1. CASE ShowQuota(r)
    <3>1. Live' = Live
      BY <2>1 DEF ShowQuota, Live
    <3> QED
      BY <1>1, <2>1, <3>1, Counted DEF ShowQuota, Return, Goto
  <2>2. CASE QuotaGet(r)
    <3>1. Live' = Live
      BY <2>2 DEF QuotaGet, Live
    <3> QED
      BY <1>1, <2>2, <3>1, Counted DEF QuotaGet, GotLimit, Return, Goto
  <2>3. CASE QuotaCreate(r)
    <3>1. Live' = Live
      BY <2>3 DEF QuotaCreate, Live
    <3> QED
      BY <1>1, <2>3, <3>1, Counted DEF QuotaCreate, GotLimit, Return, Goto
  <2>4. CASE PutLookup(r)
    <3>1. Live' = Live
      BY <2>4 DEF PutLookup, Live
    <3> QED
      BY <1>1, <2>4, <3>1, Counted DEF PutLookup, Return, Goto
  <2>5. CASE PutSave(r)
    <3>1. \A q \in Request : pc'[q] = "idle"
      BY <1>1, <2>5 DEF PutSave, Return, Goto, Alone
    <3> QED
      BY <3>1
  <2>6. CASE PutCreate(r)
    <3>1. \A q \in Request : pc'[q] = "idle"
      BY <1>1, <2>6 DEF PutCreate, Return, Goto, Alone
    <3> QED
      BY <3>1
  <2>7. CASE QuotaPutLoad(r)
    <3>1. Live' = Live
      BY <2>7 DEF QuotaPutLoad, Live
    <3> QED
      BY <1>1, <2>7, <3>1, Counted DEF QuotaPutLoad, Return, Goto
  <2>8. CASE QuotaPut(r)
    <3>1. \A q \in Request : pc'[q] = "idle"
      BY <1>1, <2>8 DEF QuotaPut, Return, Goto, Alone
    <3> QED
      BY <3>1
  <2>9. CASE StatementFails(r)
    <3>1. Live' = Live
      BY <2>9 DEF StatementFails, Live
    <3> QED
      BY <1>1, <2>9, <3>1, Counted DEF StatementFails, Return, Goto
  <2>10. CASE QuotaCount(r)
    <3>1. Live' = Live
      BY <2>10 DEF QuotaCount, Live
    <3> QED
      BY <1>1, <2>10, <3>1, Counted DEF QuotaCount, Return, Goto
  <2> QED
    BY <1>2, <2>1, <2>2, <2>3, <2>4, <2>5, <2>6, <2>7, <2>8, <2>9, <2>10
<1>3. ASSUME NEW r \in Request, NEW n \in Name, PutGet(r, n) \/ PutGetFails(r, n)
      PROVE  QuotaInv'
  <2>1. Live' = Live
    BY <1>3 DEF PutGet, PutGetFails, Live
  <2> QED
    BY <1>1, <1>3, <2>1, Counted DEF PutGet, PutGetFails, Goto
<1>4. ASSUME NEW n \in Name, Delete(n) PROVE QuotaInv'
  <2>1. \A r \in Request : pc'[r] = "idle"
    BY <1>4, AloneStep DEF Delete
  <2> QED
    BY <2>1
<1>5. CASE Crash
  BY <1>5 DEF Crash
<1>6. CASE UNCHANGED vars
  <2>1. Live' = Live
    BY <1>6 DEF vars, Live
  <2> QED
    BY <1>1, <1>6, <2>1 DEF vars
<1> HIDE DEF TypeOK, QuotaInv
<1> QED
  BY <1>2, <1>3, <1>4, <1>5, <1>6 DEF Next

\* Only the INSERT of a new name adds a secret, and it adds one.
LEMMA OnlyCreateAdds ==
    ASSUME TypeOK, Alone, VersionInv, Next, ~overlapped',
           Cardinality(Live') > Cardinality(Live)
    PROVE  \E r \in Request : PutCreate(r) /\ Cardinality(Live') = Cardinality(Live) + 1
<1>1. ASSUME Live' \subseteq Live PROVE FALSE
  <2>1. Cardinality(Live') <= Cardinality(Live) /\ Cardinality(Live') \in Nat
    BY <1>1, Counted, FS_Subset, FS_CardinalityType
  <2> QED
    BY <2>1, Counted
<1>2. ASSUME NEW r \in Request, PutSave(r) PROVE FALSE
  BY <1>1, <1>2 DEF PutSave, Live, VersionInv, TypeOK
<1>3. ASSUME NEW n \in Name, Delete(n) PROVE FALSE
  BY <1>1, <1>3 DEF Delete, Live, TypeOK
<1>4. ASSUME UNCHANGED state PROVE FALSE
  BY <1>1, <1>4 DEF Live
<1>5. ASSUME NEW r \in Request, PutCreate(r)
      PROVE  Cardinality(Live') = Cardinality(Live) + 1
  <2>1. Live' = Live \cup {want[r]} /\ want[r] \notin Live
    BY <1>5 DEF PutCreate, Live, TypeOK
  <2> QED
    BY <2>1, Counted, FS_AddElement
<1> QED
  BY <1>2, <1>3, <1>4, <1>5
     DEF Next, ShowQuota, QuotaGet, QuotaCreate, QuotaCount, PutLookup, QuotaPutLoad, QuotaPut,
         StatementFails, PutGet, PutGetFails, Crash, secretVars

(***************************************************************************)
(* As long as requests have not overlapped, a secret is added only within  *)
(* the limit in force at that moment, for any limits, names and failures,  *)
(* also after an administrator lowered the limit.                          *)
(***************************************************************************)
THEOREM QuotaTheorem == Spec => AddedWithinQuota
<1> DEFINE Inv == ~overlapped => Alone /\ VersionInv /\ QuotaInv
<1>1. Init => Inv
  BY DEF Init, Alone, VersionInv, QuotaInv
<1>2. TypeOK /\ Inv /\ [Next]_vars => Inv'
  <2> SUFFICES ASSUME TypeOK, Inv, [Next]_vars, ~overlapped'
               PROVE  Alone' /\ VersionInv' /\ QuotaInv'
    OBVIOUS
  <2>1. ~overlapped
    BY HistoryStep
  <2> QED
    BY <2>1, AloneStep, VersionStep, QuotaStep
<1>3. TypeOK /\ Inv /\ [Next]_vars =>
        [~overlapped' /\ Cardinality(Live') > Cardinality(Live)
           => Cardinality(Live') <= quota]_vars
  <2> SUFFICES ASSUME TypeOK, Inv, Next, ~overlapped', Cardinality(Live') > Cardinality(Live)
               PROVE  Cardinality(Live') <= quota
    OBVIOUS
  <2>1. ~overlapped
    BY HistoryStep
  <2>2. PICK r \in Request : PutCreate(r) /\ Cardinality(Live') = Cardinality(Live) + 1
    BY <2>1, OnlyCreateAdds
  <2>3. Cardinality(Live) < quota
    BY <2>1, <2>2 DEF QuotaInv, PutCreate
  <2> QED
    BY <2>2, <2>3, Counted DEF TypeOK
<1> QED
  BY <1>1, <1>2, <1>3, TypeCorrect, PTL DEF Spec, AddedWithinQuota
=============================================================================
