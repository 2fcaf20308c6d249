--------------------------- MODULE DNSZoneProofs ----------------------------
(***************************************************************************)
(* Proofs about DNSZone, for any number of requests, types, contents and   *)
(* records, with failures and crashes: its type invariant, that a deleted  *)
(* zone is not served, that a zone appears only when it is served, that a  *)
(* live zone is unserved only for a cause, that no record outlives its     *)
(* zone, and that what is served of a type is what the table holds.        *)
(***************************************************************************)
EXTENDS DNSZone, TLAPS

USE DNSAssumption

\* A request about to insert a record has one to insert.
TodoInv == \A r \in Request : pc[r] = "rec_create" => todo[r] > 0

\* Labels of requests that have seen the zone's row.
AfterGetZone == {"admitted", "zone_save", "pdns_delete", "tx_delete", "del_records", "del_zone"}

(***************************************************************************)
(* What makes the two PowerDNS properties inductive: who holds the write   *)
(* lock, what a request knows of the row and of PowerDNS at each label,    *)
(* and that a pending clean-up excludes every other creation under way.    *)
(***************************************************************************)
ZoneInv ==
    /\ \A r \in Request : pc[r] \in {"pdns_create", "commit"} => writer = r
    /\ writer # NoRequest => zone = "none"
    /\ \A r \in Request : pc[r] = "commit" => served
    /\ \A r \in Request : pc[r] = "cleanup" =>
         /\ served /\ zone = "none"
         /\ \A s \in Request : pc[s] # "commit" /\ (pc[s] = "cleanup" => s = r)
    /\ \A r \in Request : pc[r] \in AfterGetZone => zone # "none"
    /\ \A r \in Request : pc[r] = "tx_delete" => ~served
    /\ \A r \in Request : pc[r] \in {"create", "del_records", "del_zone"} => ~powerDNS
    /\ \A r \in Request : pc[r] \in {"tx_create", "pdns_create", "commit", "cleanup"} => powerDNS
    /\ DeletedZoneNotServed

-----------------------------------------------------------------------------
\* Every step keeps the history, or notes an overlap or a failure.
LEMMA KeptStep ==
    ASSUME [Next]_vars
    PROVE  /\ overlapped' = overlapped \/ overlapped' = TRUE
           /\ failed' = failed \/ failed' = TRUE
<1> DEFINE Kept == /\ overlapped' = overlapped \/ overlapped' = TRUE
                   /\ failed' = failed \/ failed' = TRUE
<1>2. ASSUME NEW r \in Request, ZoneStep(r) PROVE Kept
  BY <1>2 DEF ZoneStep, Watch, WatchOverlap, Works, Fails, CreateZoneCheck, CreateZoneTx,
      PdnsCreateZone, CreateZoneCommit, CreateZoneCleanup,
      CreateZoneLocal, CreateZoneTaken, GetZone, LoadMissed, UpdateZoneLoad, UpdateZoneSave,
      DeleteZoneLoad, PdnsDeleteZone, DeleteZoneTx, DeleteRecordsLocal, DeleteZoneLocal
<1>3. ASSUME NEW r \in Request, RecordStep(r) PROVE Kept
  BY <1>3 DEF RecordStep, Watch, WatchOverlap, Works, Fails, CreateRecords, CreateRecord, RecordInvalid,
      UpdateRecordLoad, UpdateRecordSave,
      DeleteRecordLoad, DeleteRecord, SyncZoneLoad, SyncList, Push, PushDone
<1>4. ASSUME NEW r \in Request, WriteFails(r) PROVE Kept
  BY <1>4 DEF WriteFails, WatchOverlap, Fails
<1>5. CASE Crash
  BY <1>5 DEF Crash, WatchOverlap, Fails
<1>6. CASE UNCHANGED vars
  BY <1>6 DEF vars
<1> QED BY <1>2, <1>3, <1>4, <1>5, <1>6 DEF Next

\* Every step keeps the two history variables Boolean.
LEMMA HistoryStep ==
    ASSUME TypeOK, [Next]_vars
    PROVE  overlapped' \in BOOLEAN /\ failed' \in BOOLEAN
  BY KeptStep, Zenon DEF TypeOK

(***************************************************************************)
(* One step of any request, or a crash, keeps every variable in its type.  *)
(***************************************************************************)
LEMMA TypeStep == ASSUME TypeOK, TodoInv, [Next]_vars PROVE (TypeOK /\ TodoInv)'
<1>0. overlapped' \in BOOLEAN /\ failed' \in BOOLEAN
  BY HistoryStep
<1>1. TypeOK /\ TodoInv
  OBVIOUS
<1> USE DEF TypeOK, TodoInv, vars, dbVars, pdnsVars, RowState, Value
<1>2. ASSUME NEW r \in Request, ZoneStep(r) PROVE (TypeOK /\ TodoInv)'
  <2>1. CASE CreateZoneCheck(r)
    BY <2>1, <1>0, <1>1 DEF CreateZoneCheck, Goto
  <2>2. CASE CreateZoneTx(r)
    BY <2>2, <1>0, <1>1 DEF CreateZoneTx, Goto, Unlocked
  <2>3. CASE PdnsCreateZone(r)
    BY <2>3, <1>0, <1>1 DEF PdnsCreateZone, Goto, NoSets
  <2>4. CASE CreateZoneCommit(r)
    BY <2>4, <1>0, <1>1 DEF CreateZoneCommit, Goto
  <2>5. CASE CreateZoneCleanup(r)
    BY <2>5, <1>0, <1>1 DEF CreateZoneCleanup, Goto, NoSets
  <2>6. CASE CreateZoneLocal(r)
    BY <2>6, <1>0, <1>1 DEF CreateZoneLocal, Goto, Unlocked
  <2>7. CASE CreateZoneTaken(r)
    BY <2>7, <1>0, <1>1 DEF CreateZoneTaken, Goto
  <2>8. CASE GetZone(r)
    BY <2>8, <1>0, <1>1 DEF GetZone, Goto
  <2>9. CASE LoadMissed(r)
    BY <2>9, <1>0, <1>1 DEF LoadMissed, Goto
  <2>10. CASE UpdateZoneLoad(r)
    BY <2>10, <1>0, <1>1 DEF UpdateZoneLoad, Goto
  <2>11. CASE UpdateZoneSave(r)
    BY <2>11, <1>0, <1>1 DEF UpdateZoneSave, Goto, Unlocked
  <2>12. CASE DeleteZoneLoad(r)
    BY <2>12, <1>0, <1>1 DEF DeleteZoneLoad, Goto
  <2>13. CASE PdnsDeleteZone(r)
    BY <2>13, <1>0, <1>1 DEF PdnsDeleteZone, Goto, NoSets
  <2>14. CASE DeleteZoneTx(r)
    BY <2>14, <1>0, <1>1 DEF DeleteZoneTx, Goto, Unlocked, RecordsDeleted
  <2>15. CASE DeleteRecordsLocal(r)
    BY <2>15, <1>0, <1>1 DEF DeleteRecordsLocal, Goto, Unlocked, RecordsDeleted
  <2>16. CASE DeleteZoneLocal(r)
    BY <2>16, <1>0, <1>1 DEF DeleteZoneLocal, Goto, Unlocked
  <2> QED BY <1>2, <2>1, <2>2, <2>3, <2>4, <2>5, <2>6, <2>7, <2>8, <2>9, <2>10, <2>11, <2>12, <2>13, <2>14, <2>15, <2>16 DEF ZoneStep
<1>3. ASSUME NEW r \in Request, RecordStep(r) PROVE (TypeOK /\ TodoInv)'
  <2>1. CASE CreateRecords(r)
    BY <2>1, <1>0, <1>1 DEF CreateRecords, Goto
  <2>2. CASE CreateRecord(r)
    BY <2>2, <1>0, <1>1 DEF CreateRecord, Goto, Unlocked
  <2>3. CASE RecordInvalid(r)
    BY <2>3, <1>0, <1>1 DEF RecordInvalid, Goto
  <2>4. CASE UpdateRecordLoad(r)
    BY <2>4, <1>0, <1>1 DEF UpdateRecordLoad, Goto
  <2>5. CASE UpdateRecordSave(r)
    BY <2>5, <1>0, <1>1 DEF UpdateRecordSave, Goto, Unlocked, Forget
  <2>6. CASE DeleteRecordLoad(r)
    BY <2>6, <1>0, <1>1 DEF DeleteRecordLoad, Goto
  <2>7. CASE DeleteRecord(r)
    BY <2>7, <1>0, <1>1 DEF DeleteRecord, Goto, Unlocked, Forget
  <2>8. CASE SyncZoneLoad(r)
    BY <2>8, <1>0, <1>1 DEF SyncZoneLoad, Goto, AfterSync
  <2>9. CASE SyncList(r)
    BY <2>9, <1>0, <1>1 DEF SyncList, Goto, LiveOf, NoSets
  <2>10. CASE Push(r)
    <3>1. rrset' \in [Type -> SUBSET Content]
      <4>1. PICK t \in Type : rrset' = rrset \/ rrset' = [rrset EXCEPT ![t] = list[r][t]]
        BY <2>10, Zenon DEF Push
      <4>2. rrset \in [Type -> SUBSET Content] /\ list \in [Request -> [Type -> SUBSET Content]]
        BY <1>1 DEF TypeOK
      <4> HIDE DEF TypeOK, TodoInv
      <4>3. list[r][t] \in SUBSET Content
        BY <4>2
      <4> QED BY <4>1, <4>2, <4>3
    <3>2. list' \in [Request -> [Type -> SUBSET Content]]
      <4>1. NoSets \in [Type -> SUBSET Content]
        BY DEF NoSets
      <4>2. \A t \in Type : [list[r] EXCEPT ![t] = {}] \in [Type -> SUBSET Content]
        BY <1>1
      <4>3. PICK t \in Type : \/ list' = [list EXCEPT ![r] = [list[r] EXCEPT ![t] = {}]]
                             \/ list' = [list EXCEPT ![r] = NoSets]
        BY <2>10, Zenon DEF Push
      <4>4. PICK sets \in [Type -> SUBSET Content] : list' = [list EXCEPT ![r] = sets]
        BY <4>1, <4>2, <4>3, Zenon
      <4> HIDE DEF TypeOK, TodoInv
      <4>5. list \in [Request -> [Type -> SUBSET Content]]
        BY <1>1 DEF TypeOK
      <4> QED BY <4>4, <4>5
    <3> QED BY <2>10, <1>0, <1>1, <3>1, <3>2 DEF Push, Goto, AfterSync
  <2>11. CASE PushDone(r)
    BY <2>11, <1>0, <1>1 DEF PushDone, Goto, AfterSync
  <2> QED BY <1>3, <2>1, <2>2, <2>3, <2>4, <2>5, <2>6, <2>7, <2>8, <2>9, <2>10, <2>11 DEF RecordStep
<1>4. ASSUME NEW r \in Request, WriteFails(r) PROVE (TypeOK /\ TodoInv)'
  BY <1>0, <1>1, <1>4 DEF WriteFails, Goto, Forget
<1>5. CASE Crash
  BY <1>0, <1>1, <1>5 DEF Crash, NoSets
<1>6. CASE UNCHANGED vars
  BY <1>0, <1>1, <1>6
<1> QED BY <1>2, <1>3, <1>4, <1>5, <1>6 DEF Next

(***************************************************************************)
(* Type correctness of the DNS engine.                                     *)
(***************************************************************************)
THEOREM TypeCorrect == Spec => [](TypeOK /\ TodoInv)
<1>1. Init => TypeOK /\ TodoInv
  <2> SUFFICES ASSUME Init PROVE TypeOK /\ TodoInv
    OBVIOUS
  <2>1. rrset \in [Type -> SUBSET Content] /\ list \in [Request -> [Type -> SUBSET Content]]
    BY DEF Init, NoSets
  <2>2. served \in BOOLEAN
    BY Zenon DEF Init
  <2>3. todo \in [Request -> 0..TemplateSize]
    BY DEF Init
  <2>4. overlapped \in BOOLEAN /\ failed \in BOOLEAN
    BY Zenon DEF Init
  <2> QED BY <2>1, <2>2, <2>3, <2>4 DEF Init, TypeOK, TodoInv, RowState
<1>2. QED BY <1>1, TypeStep, PTL DEF Spec

-----------------------------------------------------------------------------
(***************************************************************************)
(* Every step keeps the lock, the row and PowerDNS in agreement.           *)
(***************************************************************************)
LEMMA ZoneStepInv == ASSUME TypeOK, ZoneInv, [Next]_vars PROVE ZoneInv'
<1>1. TypeOK /\ ZoneInv
  OBVIOUS
<1> USE DEF TypeOK, ZoneInv, AfterGetZone, DeletedZoneNotServed, vars, dbVars, pdnsVars
<1>2. ASSUME NEW r \in Request, ZoneStep(r) PROVE ZoneInv'
  <2>1. CASE CreateZoneCheck(r)
    BY <2>1, <1>1 DEF CreateZoneCheck, Goto
  <2>2. CASE CreateZoneTx(r)
    BY <2>2, <1>1 DEF CreateZoneTx, Goto, Unlocked
  <2>3. CASE PdnsCreateZone(r)
    BY <2>3, <1>1 DEF PdnsCreateZone, Goto
  <2>4. CASE CreateZoneCommit(r)
    <3>1. /\ writer = r /\ zone = "none" /\ served
          /\ \A s \in Request : pc[s] \in {"pdns_create", "commit"} => s = r
          /\ \A s \in Request : pc[s] # "cleanup" /\ pc[s] \notin AfterGetZone
      BY <2>4, <1>1 DEF CreateZoneCommit
    <3>2. /\ writer' = NoRequest
          /\ UNCHANGED <<powerDNS, served>>
          /\ \/ zone' = "live" /\ pc' = [pc EXCEPT ![r] = "idle"]
             \/ zone' = "none" /\ pc' = [pc EXCEPT ![r] = "cleanup"]
      BY <2>4, <3>1 DEF CreateZoneCommit, Goto
    <3>3. CASE zone' = "live" /\ pc' = [pc EXCEPT ![r] = "idle"]
      BY <3>1, <3>2, <3>3, <1>1
    <3>4. CASE zone' = "none" /\ pc' = [pc EXCEPT ![r] = "cleanup"]
      BY <2>4, <3>1, <3>2, <3>4, <1>1 DEF CreateZoneCommit
    <3> QED BY <3>2, <3>3, <3>4
  <2>5. CASE CreateZoneCleanup(r)
    BY <2>5, <1>1 DEF CreateZoneCleanup, Goto
  <2>6. CASE CreateZoneLocal(r)
    BY <2>6, <1>1 DEF CreateZoneLocal, Goto, Unlocked
  <2>7. CASE CreateZoneTaken(r)
    BY <2>7, <1>1 DEF CreateZoneTaken, Goto
  <2>8. CASE GetZone(r)
    BY <2>8, <1>1 DEF GetZone, Goto
  <2>9. CASE LoadMissed(r)
    BY <2>9, <1>1 DEF LoadMissed, Goto
  <2>10. CASE UpdateZoneLoad(r)
    BY <2>10, <1>1 DEF UpdateZoneLoad, Goto
  <2>11. CASE UpdateZoneSave(r)
    BY <2>11, <1>1 DEF UpdateZoneSave, Goto, Unlocked
  <2>12. CASE DeleteZoneLoad(r)
    BY <2>12, <1>1 DEF DeleteZoneLoad, Goto
  <2>13. CASE PdnsDeleteZone(r)
    BY <2>13, <1>1 DEF PdnsDeleteZone, Goto
  <2>14. CASE DeleteZoneTx(r)
    BY <2>14, <1>1 DEF DeleteZoneTx, Goto, Unlocked
  <2>15. CASE DeleteRecordsLocal(r)
    BY <2>15, <1>1 DEF DeleteRecordsLocal, Goto, Unlocked
  <2>16. CASE DeleteZoneLocal(r)
    BY <2>16, <1>1 DEF DeleteZoneLocal, Goto, Unlocked
  <2> QED BY <1>2, <2>1, <2>2, <2>3, <2>4, <2>5, <2>6, <2>7, <2>8, <2>9, <2>10, <2>11, <2>12, <2>13, <2>14, <2>15, <2>16 DEF ZoneStep
<1>3. ASSUME NEW r \in Request, RecordStep(r) PROVE ZoneInv'
  <2>1. CASE CreateRecords(r)
    BY <2>1, <1>1 DEF CreateRecords, Goto
  <2>2. CASE CreateRecord(r)
    BY <2>2, <1>1 DEF CreateRecord, Goto, Unlocked
  <2>3. CASE RecordInvalid(r)
    BY <2>3, <1>1 DEF RecordInvalid, Goto
  <2>4. CASE UpdateRecordLoad(r)
    BY <2>4, <1>1 DEF UpdateRecordLoad, Goto
  <2>5. CASE UpdateRecordSave(r)
    BY <2>5, <1>1 DEF UpdateRecordSave, Goto, Unlocked
  <2>6. CASE DeleteRecordLoad(r)
    BY <2>6, <1>1 DEF DeleteRecordLoad, Goto
  <2>7. CASE DeleteRecord(r)
    BY <2>7, <1>1 DEF DeleteRecord, Goto, Unlocked
  <2>8. CASE SyncZoneLoad(r)
    BY <2>8, <1>1 DEF SyncZoneLoad, Goto, AfterSync
  <2>9. CASE SyncList(r)
    BY <2>9, <1>1 DEF SyncList, Goto
  <2>10. CASE Push(r)
    BY <2>10, <1>1 DEF Push, Goto, AfterSync
  <2>11. CASE PushDone(r)
    BY <2>11, <1>1 DEF PushDone, Goto, AfterSync
  <2> QED BY <1>3, <2>1, <2>2, <2>3, <2>4, <2>5, <2>6, <2>7, <2>8, <2>9, <2>10, <2>11 DEF RecordStep
<1>4. ASSUME NEW r \in Request, WriteFails(r) PROVE ZoneInv'
  BY <1>1, <1>4 DEF WriteFails, Goto
<1>5. CASE Crash
  BY <1>1, <1>5 DEF Crash
<1>6. CASE UNCHANGED vars
  BY <1>1, <1>6
<1> QED BY <1>2, <1>3, <1>4, <1>5, <1>6 DEF Next

(***************************************************************************)
(* Only three steps make the row live; the one that makes it appear is     *)
(* the commit, which PowerDNS has preceded.                                *)
(***************************************************************************)
LEMMA AppearsServed ==
    ASSUME TypeOK, ZoneInv, [Next]_vars, powerDNS, zone = "none", zone' = "live"
    PROVE  served'
<1> USE DEF TypeOK, ZoneInv, AfterGetZone, vars, dbVars, pdnsVars
<1>1. zone # "live"
  OBVIOUS
<1>2. ~UNCHANGED zone
  BY <1>1
<1>3. PICK r \in Request : \/ CreateZoneCommit(r) \/ CreateZoneLocal(r) \/ UpdateZoneSave(r)
                           \/ DeleteZoneTx(r) \/ DeleteZoneLocal(r)
  BY <1>2 DEF Next, ZoneStep, RecordStep, CreateZoneCheck, CreateZoneTx, PdnsCreateZone,
     CreateZoneCleanup, CreateZoneTaken, GetZone, LoadMissed, UpdateZoneLoad, DeleteZoneLoad,
     PdnsDeleteZone, DeleteRecordsLocal, CreateRecords, CreateRecord, RecordInvalid,
     UpdateRecordLoad, UpdateRecordSave, DeleteRecordLoad, DeleteRecord, SyncZoneLoad,
     SyncList, Push, PushDone, WriteFails, Crash
<1>4. CASE CreateZoneCommit(r)
  BY <1>4 DEF CreateZoneCommit
<1>5. CASE CreateZoneLocal(r)
  BY <1>5 DEF CreateZoneLocal
<1>6. CASE UpdateZoneSave(r)
  BY <1>6 DEF UpdateZoneSave
<1>7. CASE DeleteZoneTx(r) \/ DeleteZoneLocal(r)
  BY <1>7 DEF DeleteZoneTx, DeleteZoneLocal
<1> QED BY <1>3, <1>4, <1>5, <1>6, <1>7

\* ZoneInv holds throughout.
LEMMA ZoneInvariant == Spec => []ZoneInv
<1>1. Init => ZoneInv
  BY DEF Init, ZoneInv, AfterGetZone, DeletedZoneNotServed
<1>2. TypeOK /\ ZoneInv /\ [Next]_vars => ZoneInv'
  BY ZoneStepInv
<1> QED
  BY <1>1, <1>2, TypeCorrect, PTL DEF Spec

(***************************************************************************)
(* PowerDNS never serves a zone whose row is deleted, whatever overlaps,   *)
(* fails or is cut off.                                                    *)
(***************************************************************************)
THEOREM ServedTheorem == Spec => []DeletedZoneNotServed
<1>1. ZoneInv => DeletedZoneNotServed
  BY DEF ZoneInv
<1> QED
  BY <1>1, ZoneInvariant, PTL

(***************************************************************************)
(* A zone appears in the database only when PowerDNS serves it.            *)
(***************************************************************************)
THEOREM CreatedTheorem == Spec => CreatedZoneIsServed
<1>1. TypeOK /\ ZoneInv /\ [Next]_vars =>
        [powerDNS /\ zone = "none" /\ zone' = "live" => served']_vars
  BY AppearsServed
<1> QED
  BY <1>1, ZoneInvariant, TypeCorrect, PTL DEF Spec, CreatedZoneIsServed

-----------------------------------------------------------------------------
(***************************************************************************)
(* Requests that have not overlapped: at most one is under way, so the     *)
(* zone it was admitted to is still there at each of its steps, and a zone *)
(* that is not there has no records.                                       *)
(***************************************************************************)
Alone == \A r, q \in Request : pc[r] # "idle" /\ pc[q] # "idle" => r = q

NoneLive == \A i \in RecordId : state[i] # "live"
OnZone == {"admitted", "zone_save", "pdns_delete", "tx_delete", "del_records", "del_zone",
           "rec_create", "rec_save", "rec_delete", "sync", "sync_list", "push"}
OrphanInv ==
    /\ zone # "live" => NoneLive
    /\ \A r \in Request : pc[r] \in OnZone => zone = "live"
    /\ \A r \in Request : pc[r] = "del_zone" => NoneLive

\* While nothing fails, PowerDNS lacks a zone only just before its row is deleted.
StrandedInv ==
    powerDNS /\ zone = "live" /\ ~served => \E r \in Request : pc[r] = "tx_delete"

(***************************************************************************)
(* While nothing fails, record sets differ from the records only until the *)
(* request that changed them has pushed, and what it has not pushed yet is *)
(* in its list.                                                            *)
(***************************************************************************)
Records == [t \in Type |-> LiveOf(t)]
Synced == \A t \in Type : Records[t] # {} => rrset[t] = Records[t]
SyncInv ==
    /\ powerDNS /\ zone = "live" /\ ~Synced =>
         \E r \in Request : pc[r] \in {"sync", "sync_list", "push", "tx_delete"}
    /\ \A r \in Request : pc[r] = "push" => \A t \in Type :
         list[r][t] = Records[t] \/ (list[r][t] = {} /\ rrset[t] = Records[t])

\* As long as no overlap was noted, no two requests are under way.
LEMMA AloneStep ==
    ASSUME Alone, [Next]_vars, ~overlapped'
    PROVE  Alone' /\ ~overlapped
<1>1. CASE Next
  <2>1. WatchOverlap
    BY <1>1
       DEF Next, ZoneStep, RecordStep, Watch, CreateZoneCheck, CreateZoneTx, PdnsCreateZone,
           CreateZoneCommit, CreateZoneCleanup, CreateZoneLocal, CreateZoneTaken, GetZone,
           LoadMissed, UpdateZoneLoad, UpdateZoneSave, DeleteZoneLoad, PdnsDeleteZone,
           DeleteZoneTx, DeleteRecordsLocal, DeleteZoneLocal, CreateRecords, CreateRecord,
           RecordInvalid, UpdateRecordLoad, UpdateRecordSave, DeleteRecordLoad,
           DeleteRecord, SyncZoneLoad, SyncList, Push, PushDone, WriteFails, Crash
  <2>2. ~Overlap' /\ ~overlapped
    BY <2>1, Zenon DEF WatchOverlap
  <2> QED
    BY <2>2 DEF Overlap, Alone
<1>2. CASE UNCHANGED vars
  <2>1. Alone'
    BY <1>2 DEF Alone, vars
  <2>2. ~overlapped
    BY <1>2, Zenon DEF vars
  <2> QED
    BY <2>1, <2>2
<1> QED
  BY <1>1, <1>2

\* Every step keeps the history: an overlap or a failure stays noted.
LEMMA HistoryKept ==
    ASSUME [Next]_vars
    PROVE  (~overlapped' => ~overlapped) /\ (~failed' => ~failed)
<1>1. /\ overlapped' = overlapped \/ overlapped' = TRUE
      /\ failed' = failed \/ failed' = TRUE
  BY KeptStep
<1>2. ~overlapped' => ~overlapped
  BY <1>1, Zenon
<1>3. ~failed' => ~failed
  BY <1>1, Zenon
<1> QED
  BY <1>2, <1>3

\* A request on its own leaves no live record without a live zone.
LEMMA OrphanStep ==
    ASSUME TypeOK, Alone, OrphanInv, [Next]_vars
    PROVE  OrphanInv'
<1>1. TypeOK /\ Alone /\ OrphanInv
  OBVIOUS
<1> USE DEF TypeOK, Alone, OrphanInv, OnZone, NoneLive, vars, dbVars
<1>2. ASSUME NEW r \in Request, ZoneStep(r) PROVE OrphanInv'
  <2>1. CASE CreateZoneCheck(r)
    BY <2>1, <1>1 DEF CreateZoneCheck, Goto
  <2>2. CASE CreateZoneTx(r)
    BY <2>2, <1>1 DEF CreateZoneTx, Goto
  <2>3. CASE PdnsCreateZone(r)
    BY <2>3, <1>1 DEF PdnsCreateZone, Goto
  <2>4. CASE CreateZoneCommit(r)
    BY <2>4, <1>1 DEF CreateZoneCommit, Goto
  <2>5. CASE CreateZoneCleanup(r)
    BY <2>5, <1>1 DEF CreateZoneCleanup, Goto
  <2>6. CASE CreateZoneLocal(r)
    BY <2>6, <1>1 DEF CreateZoneLocal, Goto
  <2>7. CASE CreateZoneTaken(r)
    BY <2>7, <1>1 DEF CreateZoneTaken, Goto
  <2>8. CASE GetZone(r)
    BY <2>8, <1>1 DEF GetZone, Goto
  <2>9. CASE LoadMissed(r)
    BY <2>9, <1>1 DEF LoadMissed, Goto
  <2>10. CASE UpdateZoneLoad(r)
    BY <2>10, <1>1 DEF UpdateZoneLoad, Goto
  <2>11. CASE UpdateZoneSave(r)
    BY <2>11, <1>1 DEF UpdateZoneSave, Goto
  <2>12. CASE DeleteZoneLoad(r)
    BY <2>12, <1>1 DEF DeleteZoneLoad, Goto
  <2>13. CASE PdnsDeleteZone(r)
    BY <2>13, <1>1 DEF PdnsDeleteZone, Goto
  <2>14. CASE DeleteZoneTx(r)
    BY <2>14, <1>1 DEF DeleteZoneTx, Goto, RecordsDeleted
  <2>15. CASE DeleteRecordsLocal(r)
    BY <2>15, <1>1 DEF DeleteRecordsLocal, Goto, RecordsDeleted
  <2>16. CASE DeleteZoneLocal(r)
    BY <2>16, <1>1 DEF DeleteZoneLocal, Goto
  <2> HIDE DEF TypeOK, Alone, OrphanInv
  <2> QED
    BY <1>2, <2>1, <2>2, <2>3, <2>4, <2>5, <2>6, <2>7, <2>8, <2>9, <2>10, <2>11, <2>12,
       <2>13, <2>14, <2>15, <2>16 DEF ZoneStep
<1>3. ASSUME NEW r \in Request, RecordStep(r) PROVE OrphanInv'
  <2>1. CASE CreateRecords(r)
    BY <2>1, <1>1 DEF CreateRecords, Goto
  <2>2. CASE CreateRecord(r)
    BY <2>2, <1>1 DEF CreateRecord, Goto
  <2>3. CASE RecordInvalid(r)
    BY <2>3, <1>1 DEF RecordInvalid, Goto
  <2>4. CASE UpdateRecordLoad(r)
    BY <2>4, <1>1 DEF UpdateRecordLoad, Goto
  <2>5. CASE UpdateRecordSave(r)
    BY <2>5, <1>1 DEF UpdateRecordSave, Goto
  <2>6. CASE DeleteRecordLoad(r)
    BY <2>6, <1>1 DEF DeleteRecordLoad, Goto
  <2>7. CASE DeleteRecord(r)
    BY <2>7, <1>1 DEF DeleteRecord, Goto
  <2>8. CASE SyncZoneLoad(r)
    BY <2>8, <1>1 DEF SyncZoneLoad, Goto, AfterSync
  <2>9. CASE SyncList(r)
    BY <2>9, <1>1 DEF SyncList, Goto
  <2>10. CASE Push(r)
    BY <2>10, <1>1 DEF Push, Goto, AfterSync
  <2>11. CASE PushDone(r)
    BY <2>11, <1>1 DEF PushDone, Goto, AfterSync
  <2> HIDE DEF TypeOK, Alone, OrphanInv
  <2> QED
    BY <1>3, <2>1, <2>2, <2>3, <2>4, <2>5, <2>6, <2>7, <2>8, <2>9, <2>10, <2>11
       DEF RecordStep
<1>4. ASSUME NEW r \in Request, WriteFails(r) PROVE OrphanInv'
  BY <1>1, <1>4 DEF WriteFails, Goto
<1>5. CASE Crash
  BY <1>1, <1>5 DEF Crash
<1>6. CASE UNCHANGED vars
  BY <1>1, <1>6
<1> HIDE DEF TypeOK, Alone, OrphanInv
<1> QED
  BY <1>2, <1>3, <1>4, <1>5, <1>6 DEF Next

(***************************************************************************)
(* As long as requests do not overlap, a deleted zone has no records left, *)
(* for any number of records and through every failure and crash.          *)
(***************************************************************************)
THEOREM OrphanTheorem == Spec => []NoOrphanRecords
<1> DEFINE Inv == ~overlapped => Alone /\ OrphanInv
<1>1. Init => Inv
  BY DEF Init, Alone, OrphanInv, NoneLive, OnZone
<1>2. TypeOK /\ Inv /\ [Next]_vars => Inv'
  BY HistoryKept, AloneStep, OrphanStep
<1>3. Inv => NoOrphanRecords
  BY DEF OrphanInv, NoneLive, NoOrphanRecords
<1> QED
  BY <1>1, <1>2, <1>3, TypeCorrect, PTL DEF Spec

-----------------------------------------------------------------------------
\* A request on its own, whose calls succeed, withdraws a zone only to delete it.
LEMMA StrandedStep ==
    ASSUME TypeOK, ZoneInv, Alone, OrphanInv, StrandedInv, [Next]_vars, ~failed'
    PROVE  StrandedInv'
<1>1. TypeOK /\ ZoneInv /\ Alone /\ OrphanInv /\ StrandedInv
  OBVIOUS
<1>0. ~Fails
  BY Zenon DEF Fails
<1> USE DEF TypeOK, Alone, OrphanInv, OnZone, StrandedInv, vars, dbVars, pdnsVars
<1>2. ASSUME NEW r \in Request, ZoneStep(r) PROVE StrandedInv'
  <2>1. CASE CreateZoneCheck(r)
    BY <2>1, <1>0, <1>1 DEF CreateZoneCheck, Goto
  <2>2. CASE CreateZoneTx(r)
    BY <2>2, <1>0, <1>1 DEF CreateZoneTx, Goto
  <2>3. CASE PdnsCreateZone(r)
    BY <2>3, <1>0, <1>1 DEF PdnsCreateZone, Goto, ZoneInv
  <2>4. CASE CreateZoneCommit(r)
    BY <2>4, <1>0, <1>1 DEF CreateZoneCommit, Goto, ZoneInv
  <2>5. CASE CreateZoneCleanup(r)
    BY <2>5, <1>0, <1>1 DEF CreateZoneCleanup, Goto, ZoneInv
  <2>6. CASE CreateZoneLocal(r)
    BY <2>6, <1>0, <1>1 DEF CreateZoneLocal, Goto, ZoneInv
  <2>7. CASE CreateZoneTaken(r)
    BY <2>7, <1>0, <1>1 DEF CreateZoneTaken, Goto
  <2>8. CASE GetZone(r)
    BY <2>8, <1>0, <1>1 DEF GetZone, Goto
  <2>9. CASE LoadMissed(r)
    BY <2>9, <1>0, <1>1 DEF LoadMissed, Goto
  <2>10. CASE UpdateZoneLoad(r)
    BY <2>10, <1>0, <1>1 DEF UpdateZoneLoad, Goto
  <2>11. CASE UpdateZoneSave(r)
    BY <2>11, <1>0, <1>1 DEF UpdateZoneSave, Goto
  <2>12. CASE DeleteZoneLoad(r)
    BY <2>12, <1>0, <1>1 DEF DeleteZoneLoad, Goto
  <2>13. CASE PdnsDeleteZone(r)
    BY <2>13, <1>0, <1>1 DEF PdnsDeleteZone, Goto
  <2>14. CASE DeleteZoneTx(r)
    BY <2>14, <1>0, <1>1 DEF DeleteZoneTx, Goto, RecordsDeleted
  <2>15. CASE DeleteRecordsLocal(r)
    BY <2>15, <1>0, <1>1 DEF DeleteRecordsLocal, Goto, RecordsDeleted
  <2>16. CASE DeleteZoneLocal(r)
    BY <2>16, <1>0, <1>1 DEF DeleteZoneLocal, Goto
  <2> HIDE DEF TypeOK, Alone, OrphanInv, StrandedInv
  <2> QED
    BY <1>2, <2>1, <2>2, <2>3, <2>4, <2>5, <2>6, <2>7, <2>8, <2>9, <2>10, <2>11, <2>12,
       <2>13, <2>14, <2>15, <2>16 DEF ZoneStep
<1>3. ASSUME NEW r \in Request, RecordStep(r) PROVE StrandedInv'
  <2>1. CASE CreateRecords(r)
    BY <2>1, <1>0, <1>1 DEF CreateRecords, Goto
  <2>2. CASE CreateRecord(r)
    BY <2>2, <1>0, <1>1 DEF CreateRecord, Goto
  <2>3. CASE RecordInvalid(r)
    BY <2>3, <1>0, <1>1 DEF RecordInvalid, Goto
  <2>4. CASE UpdateRecordLoad(r)
    BY <2>4, <1>0, <1>1 DEF UpdateRecordLoad, Goto
  <2>5. CASE UpdateRecordSave(r)
    BY <2>5, <1>0, <1>1 DEF UpdateRecordSave, Goto
  <2>6. CASE DeleteRecordLoad(r)
    BY <2>6, <1>0, <1>1 DEF DeleteRecordLoad, Goto
  <2>7. CASE DeleteRecord(r)
    BY <2>7, <1>0, <1>1 DEF DeleteRecord, Goto
  <2>8. CASE SyncZoneLoad(r)
    BY <2>8, <1>0, <1>1 DEF SyncZoneLoad, Goto, AfterSync
  <2>9. CASE SyncList(r)
    BY <2>9, <1>0, <1>1 DEF SyncList, Goto
  <2>10. CASE Push(r)
    BY <2>10, <1>0, <1>1 DEF Push, Goto, AfterSync
  <2>11. CASE PushDone(r)
    BY <2>11, <1>0, <1>1 DEF PushDone, Goto, AfterSync
  <2> HIDE DEF TypeOK, Alone, OrphanInv, StrandedInv
  <2> QED
    BY <1>3, <2>1, <2>2, <2>3, <2>4, <2>5, <2>6, <2>7, <2>8, <2>9, <2>10, <2>11
       DEF RecordStep
<1>4. ASSUME NEW r \in Request, WriteFails(r) PROVE StrandedInv'
  BY <1>0, <1>4 DEF WriteFails
<1>5. CASE Crash
  BY <1>0, <1>5 DEF Crash
<1>6. CASE UNCHANGED vars
  BY <1>1, <1>6
<1> HIDE DEF TypeOK, Alone, OrphanInv, StrandedInv
<1> QED
  BY <1>2, <1>3, <1>4, <1>5, <1>6 DEF Next

(***************************************************************************)
(* A zone in the database that PowerDNS does not serve is left behind only *)
(* by a failure or by requests that overlap.                               *)
(***************************************************************************)
THEOREM StrandedTheorem == Spec => []StrandedZoneHasCause
<1> DEFINE Inv == /\ ZoneInv
                  /\ ~overlapped => Alone /\ OrphanInv
                  /\ ~overlapped /\ ~failed => StrandedInv
<1>1. Init => Inv
  BY DEF Init, Alone, OrphanInv, NoneLive, OnZone, StrandedInv, ZoneInv, AfterGetZone,
         DeletedZoneNotServed
<1>2. TypeOK /\ Inv /\ [Next]_vars => Inv'
  BY HistoryKept, AloneStep, OrphanStep, StrandedStep, ZoneStepInv
<1>3. Inv => StrandedZoneHasCause
  BY DEF StrandedInv, StrandedZoneHasCause
<1> QED
  BY <1>1, <1>2, <1>3, TypeCorrect, PTL DEF Spec

-----------------------------------------------------------------------------
\* A zone without live records has none of any type.
LEMMA NoRecords == ASSUME NoneLive PROVE \A t \in Type : Records[t] = {}
  BY DEF NoneLive, Records, LiveOf

\* A request on its own, whose calls succeed, leaves the record sets in sync.
LEMMA SyncStep ==
    ASSUME TypeOK, ZoneInv, Alone, OrphanInv, SyncInv, [Next]_vars, ~failed'
    PROVE  SyncInv'
<1>1. TypeOK /\ ZoneInv /\ Alone /\ OrphanInv /\ SyncInv
  OBVIOUS
<1>0. ~Fails
  BY Zenon DEF Fails
<1> USE DEF TypeOK, Alone, OrphanInv, OnZone, SyncInv, Synced, vars, dbVars, pdnsVars
<1>2. ASSUME NEW r \in Request, ZoneStep(r) PROVE SyncInv'
  <2>1. CASE CreateZoneCheck(r)
    <3>1. Records' = Records
      BY <2>1 DEF CreateZoneCheck, Records, LiveOf
    <3> QED
      BY <2>1, <1>0, <1>1, <3>1 DEF CreateZoneCheck, Goto
  <2>2. CASE CreateZoneTx(r)
    <3>1. Records' = Records
      BY <2>2 DEF CreateZoneTx, Records, LiveOf
    <3> QED
      BY <2>2, <1>0, <1>1, <3>1 DEF CreateZoneTx, Goto
  <2>3. CASE PdnsCreateZone(r)
    <3>1. \A q \in Request : pc'[q] # "push"
      BY <2>3, <1>1 DEF PdnsCreateZone, Goto
    <3>2. zone' # "live"
      BY <2>3, <1>1 DEF PdnsCreateZone, ZoneInv
    <3> QED
      BY <3>1, <3>2
  <2>4. CASE CreateZoneCommit(r)
    <3>1. \A q \in Request : pc'[q] # "push"
      BY <2>4, <1>1 DEF CreateZoneCommit, Goto
    <3>2. zone # "live"
      BY <2>4, <1>1 DEF CreateZoneCommit, ZoneInv
    <3>3. \A t \in Type : Records[t] = {}
      BY <1>1, <3>2, NoRecords
    <3>4. Records' = Records
      BY <2>4 DEF CreateZoneCommit, Records, LiveOf
    <3> QED
      BY <3>1, <3>3, <3>4
  <2>5. CASE CreateZoneCleanup(r)
    <3>1. \A q \in Request : pc'[q] # "push"
      BY <2>5, <1>1 DEF CreateZoneCleanup, Goto
    <3>2. zone' # "live"
      BY <2>5, <1>1 DEF CreateZoneCleanup, ZoneInv
    <3> QED
      BY <3>1, <3>2
  <2>6. CASE CreateZoneLocal(r)
    <3>1. \A q \in Request : pc'[q] # "push"
      BY <2>6, <1>1 DEF CreateZoneLocal, Goto
    <3>2. ~powerDNS'
      BY <2>6, <1>1 DEF CreateZoneLocal, ZoneInv
    <3> QED
      BY <3>1, <3>2
  <2>7. CASE CreateZoneTaken(r)
    <3>1. Records' = Records
      BY <2>7 DEF CreateZoneTaken, Records, LiveOf
    <3> QED
      BY <2>7, <1>0, <1>1, <3>1 DEF CreateZoneTaken, Goto
  <2>8. CASE GetZone(r)
    <3>1. Records' = Records
      BY <2>8 DEF GetZone, Records, LiveOf
    <3> QED
      BY <2>8, <1>0, <1>1, <3>1 DEF GetZone, Goto
  <2>9. CASE LoadMissed(r)
    <3>1. Records' = Records
      BY <2>9 DEF LoadMissed, Records, LiveOf
    <3> QED
      BY <2>9, <1>0, <1>1, <3>1 DEF LoadMissed, Goto
  <2>10. CASE UpdateZoneLoad(r)
    <3>1. Records' = Records
      BY <2>10 DEF UpdateZoneLoad, Records, LiveOf
    <3> QED
      BY <2>10, <1>0, <1>1, <3>1 DEF UpdateZoneLoad, Goto
  <2>11. CASE UpdateZoneSave(r)
    <3>1. Records' = Records
      BY <2>11 DEF UpdateZoneSave, Records, LiveOf
    <3> QED
      BY <2>11, <1>0, <1>1, <3>1 DEF UpdateZoneSave, Goto
  <2>12. CASE DeleteZoneLoad(r)
    <3>1. Records' = Records
      BY <2>12 DEF DeleteZoneLoad, Records, LiveOf
    <3> QED
      BY <2>12, <1>0, <1>1, <3>1 DEF DeleteZoneLoad, Goto
  <2>13. CASE PdnsDeleteZone(r)
    <3>1. Records' = Records
      BY <2>13 DEF PdnsDeleteZone, Records, LiveOf
    <3> QED
      BY <2>13, <1>0, <1>1, <3>1 DEF PdnsDeleteZone, Goto
  <2>14. CASE DeleteZoneTx(r)
    <3>1. \A q \in Request : pc'[q] # "push"
      BY <2>14, <1>1 DEF DeleteZoneTx, Goto, RecordsDeleted
    <3> QED
      BY <2>14, <1>1, <3>1 DEF DeleteZoneTx, Goto, RecordsDeleted
  <2>15. CASE DeleteRecordsLocal(r)
    <3>1. \A q \in Request : pc'[q] # "push"
      BY <2>15, <1>1 DEF DeleteRecordsLocal, Goto
    <3>2. ~powerDNS'
      BY <2>15, <1>1 DEF DeleteRecordsLocal, ZoneInv
    <3> QED
      BY <3>1, <3>2
  <2>16. CASE DeleteZoneLocal(r)
    <3>1. Records' = Records
      BY <2>16 DEF DeleteZoneLocal, Records, LiveOf
    <3> QED
      BY <2>16, <1>0, <1>1, <3>1 DEF DeleteZoneLocal, Goto
  <2> HIDE DEF TypeOK, Alone, OrphanInv, SyncInv
  <2> QED
    BY <1>2, <2>1, <2>2, <2>3, <2>4, <2>5, <2>6, <2>7, <2>8, <2>9, <2>10, <2>11, <2>12,
       <2>13, <2>14, <2>15, <2>16 DEF ZoneStep
<1>3. ASSUME NEW r \in Request, RecordStep(r) PROVE SyncInv'
  <2>1. CASE CreateRecords(r)
    <3>1. Records' = Records
      BY <2>1 DEF CreateRecords, Records, LiveOf
    <3> QED
      BY <2>1, <1>0, <1>1, <3>1 DEF CreateRecords, Goto
  <2>2. CASE CreateRecord(r)
    <3>1. \A q \in Request : pc'[q] # "push"
      BY <2>2, <1>1 DEF CreateRecord, Goto
    <3> QED
      BY <2>2, <1>1, <3>1 DEF CreateRecord, Goto
  <2>3. CASE RecordInvalid(r)
    <3>1. Records' = Records
      BY <2>3 DEF RecordInvalid, Records, LiveOf
    <3> QED
      BY <2>3, <1>0, <1>1, <3>1 DEF RecordInvalid, Goto
  <2>4. CASE UpdateRecordLoad(r)
    <3>1. Records' = Records
      BY <2>4 DEF UpdateRecordLoad, Records, LiveOf
    <3> QED
      BY <2>4, <1>0, <1>1, <3>1 DEF UpdateRecordLoad, Goto
  <2>5. CASE UpdateRecordSave(r)
    <3>1. \A q \in Request : pc'[q] # "push"
      BY <2>5, <1>1 DEF UpdateRecordSave, Goto
    <3> QED
      BY <2>5, <1>1, <3>1 DEF UpdateRecordSave, Goto
  <2>6. CASE DeleteRecordLoad(r)
    <3>1. Records' = Records
      BY <2>6 DEF DeleteRecordLoad, Records, LiveOf
    <3> QED
      BY <2>6, <1>0, <1>1, <3>1 DEF DeleteRecordLoad, Goto
  <2>7. CASE DeleteRecord(r)
    <3>1. \A q \in Request : pc'[q] # "push"
      BY <2>7, <1>1 DEF DeleteRecord, Goto
    <3> QED
      BY <2>7, <1>1, <3>1 DEF DeleteRecord, Goto
  <2>8. CASE SyncZoneLoad(r)
    <3>1. zone = "live" /\ \A q \in Request : q # r => pc[q] = "idle"
      BY <2>8, <1>1 DEF SyncZoneLoad
    <3>2. \A q \in Request : pc'[q] # "push"
      BY <2>8, <1>1, <3>1 DEF SyncZoneLoad, Goto, AfterSync
    <3>3. powerDNS' => pc'[r] = "sync_list"
      BY <2>8, <1>1, <3>1 DEF SyncZoneLoad, Goto
    <3> QED
      BY <3>2, <3>3
  <2>9. CASE SyncList(r)
    <3>1. Records' = Records
      BY <2>9 DEF SyncList, Records, LiveOf
    <3>2. pc'[r] = "push" /\ \A q \in Request : q # r => pc'[q] = "idle"
      BY <2>9, <1>1 DEF SyncList, Goto
    <3>3. list'[r] = Records
      BY <2>9, <1>1 DEF SyncList, Records
    <3>4. \A t \in Type : list'[r][t] = Records'[t]
      BY <3>1, <3>3
    <3> QED
      BY <3>2, <3>4
  <2>10. CASE Push(r)
    <3>1. Records' = Records
      BY <2>10 DEF Push, Records, LiveOf
    <3>2. PICK t \in Type : /\ rrset' = [rrset EXCEPT ![t] = list[r][t]]
                            /\ list' = [list EXCEPT ![r] = [list[r] EXCEPT ![t] = {}]]
                            /\ list[r][t] # {}
                            /\ pc' = pc
      BY <2>10, <1>0 DEF Push
    <3>3. pc[r] = "push" /\ \A q \in Request : q # r => pc'[q] = "idle"
      BY <2>10, <1>1, <3>2 DEF Push
    <3>4. rrset'[t] = list[r][t] /\ list'[r][t] = {} /\ list[r][t] = Records[t]
      BY <1>1, <3>2, <3>3
    <3>5. \A u \in Type : u # t => rrset'[u] = rrset[u] /\ list'[r][u] = list[r][u]
      BY <1>1, <3>2
    <3>6. \A u \in Type : list'[r][u] = Records[u] \/ (list'[r][u] = {} /\ rrset'[u] = Records[u])
      BY <1>1, <3>3, <3>4, <3>5
    <3>7. pc'[r] = "push"
      BY <3>2, <3>3
    <3> QED
      BY <3>1, <3>3, <3>6, <3>7
  <2>11. CASE PushDone(r)
    <3>1. Records' = Records
      BY <2>11 DEF PushDone, Records, LiveOf
    <3>2. list[r] = [t \in Type |-> {}] /\ rrset' = rrset /\ pc[r] = "push"
      BY <2>11 DEF PushDone, NoSets
    <3>3. \A q \in Request : pc'[q] # "push"
      BY <2>11, <1>1 DEF PushDone, AfterSync, Goto
    <3>4. \A t \in Type : rrset'[t] = Records'[t] \/ Records'[t] = {}
      BY <1>1, <3>1, <3>2
    <3> QED
      BY <3>3, <3>4
  <2> HIDE DEF TypeOK, Alone, OrphanInv, SyncInv
  <2> QED
    BY <1>3, <2>1, <2>2, <2>3, <2>4, <2>5, <2>6, <2>7, <2>8, <2>9, <2>10, <2>11
       DEF RecordStep
<1>4. ASSUME NEW r \in Request, WriteFails(r) PROVE SyncInv'
  BY <1>0, <1>4 DEF WriteFails
<1>5. CASE Crash
  BY <1>0, <1>5 DEF Crash
<1>6. CASE UNCHANGED vars
  <2>1. Records' = Records
    BY <1>6 DEF Records, LiveOf
  <2> QED
    BY <1>1, <1>6, <2>1
<1> HIDE DEF TypeOK, Alone, OrphanInv, SyncInv
<1> QED
  BY <1>2, <1>3, <1>4, <1>5, <1>6 DEF Next

(***************************************************************************)
(* As long as requests do not overlap and nothing fails, whenever none is  *)
(* at work PowerDNS serves exactly the zone's records of every type the    *)
(* zone has records of, for any types, contents and templates.             *)
(***************************************************************************)
THEOREM SyncTheorem == Spec => []PresentTypesInSync
<1> DEFINE Inv == /\ ZoneInv
                  /\ ~overlapped => Alone /\ OrphanInv
                  /\ ~overlapped /\ ~failed => SyncInv
<1>1. Init => Inv
  BY DEF Init, Alone, OrphanInv, NoneLive, OnZone, SyncInv, ZoneInv, AfterGetZone,
         DeletedZoneNotServed
<1>2. TypeOK /\ Inv /\ [Next]_vars => Inv'
  BY HistoryKept, AloneStep, OrphanStep, SyncStep, ZoneStepInv
<1>3. Inv => PresentTypesInSync
  BY DEF SyncInv, Synced, Records, PresentTypesInSync
<1> QED
  BY <1>1, <1>2, <1>3, TypeCorrect, PTL DEF Spec
=============================================================================
