------------------------------ MODULE DNSZone -------------------------------
(***************************************************************************)
(* The DNS engine (internal/dns, internal/api/v1/dns.go) for one domain:   *)
(* its row in dns_zones, the rows of dns_records, and the copy of both in  *)
(* an external PowerDNS server.  Requests overlap; every database          *)
(* statement and every HTTP call is a step; the database may refuse a      *)
(* write, PowerDNS may refuse a call or apply it and lose the answer, and  *)
(* the process may die.  What PowerDNS applies of a call it applies before *)
(* the client gives up after its 10 seconds: a call that waits longer and  *)
(* is then applied is not modelled.                                        *)
(*                                                                         *)
(* A Delete sets deleted_at and the row keeps its place in the unique      *)
(* index on domain, so a domain has at most one row for ever.  A Save of a *)
(* row that was deleted meanwhile stores it again with deleted_at NULL.    *)
(***************************************************************************)
EXTENDS Integers, FiniteSets

CONSTANTS
    Request,        \* concurrent requests
    NoRequest,      \* nobody
    Type, Content,  \* record types and contents
    NoValue,        \* the value of a row not yet inserted
    TemplateSize,   \* bound: records in a template
    MaxRecords      \* bound: rows ever inserted in dns_records

ASSUME DNSAssumption ==
    /\ NoRequest \notin Request
    /\ NoValue \notin Type \X Content
    /\ TemplateSize \in Nat /\ MaxRecords \in Nat

VARIABLES
    powerDNS,   \* IsPowerDNSEnabled, set for good by the environment
    zone,       \* the dns_zones row: "none", "live" or "deleted"
    state,      \* the same for each dns_records row
    value,      \* type and content of each dns_records row
    writer,     \* the request whose transaction holds the write lock
    served,     \* PowerDNS has the zone
    rrset,      \* the record sets PowerDNS has, by type
    pc,         \* where each request is
    rec,        \* the record row a request works on
    copy,       \* its loaded and changed value
    list,       \* record sets a request read and has not pushed yet
    todo,       \* records an ApplyTemplate still has to create
    overlapped, \* history: two requests have been under way at once
    failed      \* history: a call or a write failed or the process died

dbVars == <<zone, state, value>>
pdnsVars == <<served, rrset>>
vars == <<powerDNS, dbVars, writer, pdnsVars, pc, rec, copy, list, todo, overlapped, failed>>

RecordId == 1..MaxRecords
NoRecord == 0
Value == Type \X Content
RowState == {"none", "live", "deleted"}
NoSets == [t \in Type |-> {}]

\* Records of one type that Find(zone_id = ?) returns.
LiveOf(t) == {c \in Content : \E i \in RecordId : state[i] = "live" /\ value[i] = <<t, c>>}

Init ==
    /\ powerDNS \in BOOLEAN
    /\ zone = "none"
    /\ state = [i \in RecordId |-> "none"]
    /\ value = [i \in RecordId |-> NoValue]
    /\ writer = NoRequest
    /\ served = FALSE /\ rrset = NoSets
    /\ pc = [r \in Request |-> "idle"]
    /\ rec = [r \in Request |-> NoRecord]
    /\ copy = [r \in Request |-> NoValue]
    /\ list = [r \in Request |-> NoSets]
    /\ todo = [r \in Request |-> 0]
    /\ overlapped = FALSE /\ failed = FALSE

\* Every step keeps the history.
Overlap == \E r, q \in Request : r # q /\ pc[r] # "idle" /\ pc[q] # "idle"
WatchOverlap == overlapped' = IF Overlap' THEN TRUE ELSE overlapped
Works == failed' = failed
Fails == failed' = TRUE
Watch == WatchOverlap /\ Works

Goto(r, label) == pc' = [pc EXCEPT ![r] = label]
Unlocked == writer = NoRequest

\* The request is done with the row it loaded.
Forget(r) == rec' = [rec EXCEPT ![r] = NoRecord] /\ copy' = [copy EXCEPT ![r] = NoValue]

-----------------------------------------------------------------------------
\* CreateZone looks for a row of the domain that is not deleted.
CreateZoneCheck(r) ==
    /\ pc[r] = "idle"
    /\ zone # "live"
    /\ Goto(r, IF powerDNS THEN "tx_create" ELSE "create")
    /\ UNCHANGED <<powerDNS, dbVars, writer, pdnsVars, rec, copy, list, todo>>
    /\ Watch

\* Begin and INSERT; the unique index on domain counts deleted rows too.
CreateZoneTx(r) ==
    /\ pc[r] = "tx_create"
    /\ Unlocked /\ zone = "none"
    /\ writer' = r
    /\ Goto(r, "pdns_create")
    /\ UNCHANGED <<powerDNS, dbVars, pdnsVars, rec, copy, list, todo>>
    /\ Watch

\* Slip: the error of the PowerDNS call is only logged, as in a record sync.
PdnsCreateZoneIgnored(r) ==
    /\ pc[r] = "pdns_create"
    /\ \/ served' = TRUE /\ rrset' = NoSets
       \/ UNCHANGED pdnsVars
    /\ writer' = writer
    /\ Goto(r, "commit")
    /\ UNCHANGED <<powerDNS, dbVars, rec, copy, list, todo>>
    /\ Watch

\* pdns.CreateZone: done, done with the answer lost, or refused; rollback on error.
PdnsCreateZone(r) ==
    /\ pc[r] = "pdns_create"
    /\ \/ /\ ~served
          /\ served' = TRUE /\ rrset' = NoSets
          /\ \/ writer' = writer /\ Goto(r, "commit") /\ Works
             \/ writer' = NoRequest /\ Goto(r, "idle") /\ Fails
       \/ /\ UNCHANGED pdnsVars
          /\ writer' = NoRequest
          /\ Goto(r, "idle")
          /\ Fails
    /\ UNCHANGED <<powerDNS, dbVars, rec, copy, list, todo>>
    /\ WatchOverlap

\* Slip: the clean-up of a failed commit runs after every commit.
CreateZoneCommitCleansUp(r) ==
    /\ pc[r] = "commit"
    /\ zone' = "live"
    /\ Goto(r, "cleanup")
    /\ writer' = NoRequest
    /\ UNCHANGED <<powerDNS, state, value, pdnsVars, rec, copy, list, todo>>
    /\ Watch

\* Commit, or its failure, after which the PowerDNS zone is to be removed again.
CreateZoneCommit(r) ==
    /\ pc[r] = "commit"
    /\ \/ zone' = "live" /\ Goto(r, "idle") /\ Works
       \/ zone' = zone /\ Goto(r, "cleanup") /\ Fails
    /\ writer' = NoRequest
    /\ UNCHANGED <<powerDNS, state, value, pdnsVars, rec, copy, list, todo>>
    /\ WatchOverlap

\* The best-effort pdns.DeleteZone, whose error is dropped.
CreateZoneCleanup(r) ==
    /\ pc[r] = "cleanup"
    /\ \/ served' = FALSE /\ rrset' = NoSets /\ Works
       \/ UNCHANGED pdnsVars /\ Fails
    /\ Goto(r, "idle")
    /\ UNCHANGED <<powerDNS, dbVars, writer, rec, copy, list, todo>>
    /\ WatchOverlap

\* Local mode: one INSERT.
CreateZoneLocal(r) ==
    /\ pc[r] = "create"
    /\ Unlocked /\ zone = "none"
    /\ zone' = "live"
    /\ Goto(r, "idle")
    /\ UNCHANGED <<powerDNS, state, value, writer, pdnsVars, rec, copy, list, todo>>
    /\ Watch

\* The INSERT of the zone meets the row of a zone created or deleted before.
CreateZoneTaken(r) ==
    /\ pc[r] \in {"tx_create", "create"}
    /\ zone # "none"
    /\ Goto(r, "idle")
    /\ UNCHANGED <<powerDNS, dbVars, writer, pdnsVars, rec, copy, list, todo>>
    /\ Watch

-----------------------------------------------------------------------------
\* The handlers of an existing zone load it first (and check its tenant).
GetZone(r) ==
    /\ pc[r] = "idle"
    /\ zone = "live"
    /\ Goto(r, "admitted")
    /\ UNCHANGED <<powerDNS, dbVars, writer, pdnsVars, rec, copy, list, todo>>
    /\ Watch

\* The service finds its row gone when it loads it a second time.
LoadMissed(r) ==
    /\ pc[r] = "admitted"
    /\ zone # "live" \/ \E i \in RecordId : state[i] # "live"
    /\ Goto(r, "idle")
    /\ UNCHANGED <<powerDNS, dbVars, writer, pdnsVars, rec, copy, list, todo>>
    /\ Watch

\* UpdateZone loads the row; the columns it sets are not modelled.
UpdateZoneLoad(r) ==
    /\ pc[r] = "admitted"
    /\ zone = "live"
    /\ Goto(r, "zone_save")
    /\ UNCHANGED <<powerDNS, dbVars, writer, pdnsVars, rec, copy, list, todo>>
    /\ Watch

\* Save: UPDATE where deleted_at is NULL, else an upsert that clears deleted_at.
UpdateZoneSave(r) ==
    /\ pc[r] = "zone_save"
    /\ Unlocked
    /\ zone' = "live"
    /\ Goto(r, "idle")
    /\ UNCHANGED <<powerDNS, state, value, writer, pdnsVars, rec, copy, list, todo>>
    /\ Watch

\* DeleteZone loads the zone again.
DeleteZoneLoad(r) ==
    /\ pc[r] = "admitted"
    /\ zone = "live"
    /\ Goto(r, IF powerDNS THEN "pdns_delete" ELSE "del_records")
    /\ UNCHANGED <<powerDNS, dbVars, writer, pdnsVars, rec, copy, list, todo>>
    /\ Watch

\* Slip: an error of the PowerDNS deletion does not stop the deletion.
PdnsDeleteZoneIgnored(r) ==
    /\ pc[r] = "pdns_delete"
    /\ \/ served' = FALSE /\ rrset' = NoSets
       \/ UNCHANGED pdnsVars
    /\ Goto(r, "tx_delete")
    /\ UNCHANGED <<powerDNS, dbVars, writer, rec, copy, list, todo>>
    /\ Watch

\* pdns.DeleteZone comes first; any error, a 404 included, ends the request.
PdnsDeleteZone(r) ==
    /\ pc[r] = "pdns_delete"
    /\ \/ /\ served
          /\ served' = FALSE /\ rrset' = NoSets
          /\ \/ Goto(r, "tx_delete") /\ Works
             \/ Goto(r, "idle") /\ Fails
       \/ /\ UNCHANGED pdnsVars
          /\ Goto(r, "idle")
          /\ Fails
    /\ UNCHANGED <<powerDNS, dbVars, writer, rec, copy, list, todo>>
    /\ WatchOverlap

RecordsDeleted == [i \in RecordId |-> IF state[i] = "live" THEN "deleted" ELSE state[i]]

\* The transaction that deletes the records and the zone.
DeleteZoneTx(r) ==
    /\ pc[r] = "tx_delete"
    /\ Unlocked
    /\ state' = RecordsDeleted
    /\ zone' = "deleted"
    /\ Goto(r, "idle")
    /\ UNCHANGED <<powerDNS, value, writer, pdnsVars, rec, copy, list, todo>>
    /\ Watch

\* Slip: the zone goes first and its records afterwards.
DeleteZoneFirst(r) ==
    /\ pc[r] = "del_records"
    /\ Unlocked
    /\ zone' = "deleted"
    /\ Goto(r, "del_zone")
    /\ UNCHANGED <<powerDNS, state, value, writer, pdnsVars, rec, copy, list, todo>>
    /\ Watch

\* Local mode: the two DELETEs are not in a transaction.
DeleteRecordsLocal(r) ==
    /\ pc[r] = "del_records"
    /\ Unlocked
    /\ state' = RecordsDeleted
    /\ Goto(r, "del_zone")
    /\ UNCHANGED <<powerDNS, zone, value, writer, pdnsVars, rec, copy, list, todo>>
    /\ Watch

DeleteZoneLocal(r) ==
    /\ pc[r] = "del_zone"
    /\ Unlocked
    /\ zone' = "deleted"
    /\ Goto(r, "idle")
    /\ UNCHANGED <<powerDNS, state, value, writer, pdnsVars, rec, copy, list, todo>>
    /\ Watch

-----------------------------------------------------------------------------
\* CreateRecord, or an ApplyTemplate of n records that has loaded its template.
CreateRecords(r) ==
    /\ pc[r] = "admitted"
    /\ \E n \in 1..TemplateSize : todo' = [todo EXCEPT ![r] = n]
    /\ Goto(r, "rec_create")
    /\ UNCHANGED <<powerDNS, dbVars, writer, pdnsVars, rec, copy, list>>
    /\ Watch

\* The INSERT of a record; nothing asks whether its zone still exists.
CreateRecord(r) ==
    /\ pc[r] = "rec_create"
    /\ Unlocked
    /\ \E i \in RecordId, v \in Value :
         /\ state[i] = "none"
         /\ \A j \in RecordId : state[j] = "none" => i <= j
         /\ state' = [state EXCEPT ![i] = "live"]
         /\ value' = [value EXCEPT ![i] = v]
    /\ todo' = [todo EXCEPT ![r] = todo[r] - 1]
    /\ Goto(r, "sync")
    /\ UNCHANGED <<powerDNS, zone, writer, pdnsVars, rec, copy, list>>
    /\ Watch

\* ValidateRecord refuses the record; a template stops there, half applied.
RecordInvalid(r) ==
    /\ pc[r] = "rec_create"
    /\ todo' = [todo EXCEPT ![r] = 0]
    /\ Goto(r, "idle")
    /\ UNCHANGED <<powerDNS, dbVars, writer, pdnsVars, rec, copy, list>>
    /\ Watch

\* UpdateRecord loads a record and applies the fields of the request.
UpdateRecordLoad(r) ==
    /\ pc[r] = "admitted"
    /\ \E i \in RecordId, v \in Value :
         /\ state[i] = "live"
         /\ rec' = [rec EXCEPT ![r] = i]
         /\ copy' = [copy EXCEPT ![r] = v]
    /\ Goto(r, "rec_save")
    /\ UNCHANGED <<powerDNS, dbVars, writer, pdnsVars, list, todo>>
    /\ Watch

\* Save writes the whole row, and stores it again if it was deleted meanwhile.
UpdateRecordSave(r) ==
    /\ pc[r] = "rec_save"
    /\ Unlocked
    /\ state' = [state EXCEPT ![rec[r]] = "live"]
    /\ value' = [value EXCEPT ![rec[r]] = copy[r]]
    /\ Forget(r)
    /\ Goto(r, "sync")
    /\ UNCHANGED <<powerDNS, zone, writer, pdnsVars, list, todo>>
    /\ Watch

DeleteRecordLoad(r) ==
    /\ pc[r] = "admitted"
    /\ \E i \in RecordId :
         /\ state[i] = "live"
         /\ rec' = [rec EXCEPT ![r] = i]
    /\ Goto(r, "rec_delete")
    /\ UNCHANGED <<powerDNS, dbVars, writer, pdnsVars, copy, list, todo>>
    /\ Watch

DeleteRecord(r) ==
    /\ pc[r] = "rec_delete"
    /\ Unlocked
    /\ state' = [state EXCEPT ![rec[r]] = "deleted"]
    /\ Forget(r)
    /\ Goto(r, "sync")
    /\ UNCHANGED <<powerDNS, zone, value, writer, pdnsVars, list, todo>>
    /\ Watch

-----------------------------------------------------------------------------
\* After a sync ApplyTemplate goes on with its next record.
AfterSync(r) == Goto(r, IF todo[r] > 0 THEN "rec_create" ELSE "idle")

\* syncRecordToPowerDNS loads the zone; without one, or in local mode, it returns.
SyncZoneLoad(r) ==
    /\ pc[r] = "sync"
    /\ IF powerDNS /\ zone = "live" THEN Goto(r, "sync_list") ELSE AfterSync(r)
    /\ UNCHANGED <<powerDNS, dbVars, writer, pdnsVars, rec, copy, list, todo>>
    /\ Watch

\* Slip: the list of records loses its last row.
SyncListLosesLast(r) ==
    /\ pc[r] = "sync_list"
    /\ list' = [list EXCEPT ![r] = [t \in Type |->
            {c \in Content : \E i, j \in RecordId :
                state[i] = "live" /\ value[i] = <<t, c>> /\ state[j] = "live" /\ i < j}]]
    /\ Goto(r, "push")
    /\ UNCHANGED <<powerDNS, dbVars, writer, pdnsVars, rec, copy, todo>>
    /\ Watch

\* Slip: the records are grouped by content instead of type.
SyncListUntyped(r) ==
    /\ pc[r] = "sync_list"
    /\ list' = [list EXCEPT ![r] = [t \in Content |->
            {c \in Content : \E i \in RecordId : state[i] = "live" /\ value[i][2] = t}]]
    /\ Goto(r, "push")
    /\ UNCHANGED <<powerDNS, dbVars, writer, pdnsVars, rec, copy, todo>>
    /\ Watch

\* It lists the records, and SyncZone groups them by type.
SyncList(r) ==
    /\ pc[r] = "sync_list"
    /\ list' = [list EXCEPT ![r] = [t \in Type |-> LiveOf(t)]]
    /\ Goto(r, "push")
    /\ UNCHANGED <<powerDNS, dbVars, writer, pdnsVars, rec, copy, todo>>
    /\ Watch

(***************************************************************************)
(* SyncZone replaces the record set of one of the types it has records of, *)
(* in the order of a Go map.  The first error ends it and is only printed. *)
(***************************************************************************)
Push(r) ==
    /\ pc[r] = "push"
    /\ \E t \in Type :
         /\ list[r][t] # {}
         /\ \/ /\ served
               /\ rrset' = [rrset EXCEPT ![t] = list[r][t]]
               /\ list' = [list EXCEPT ![r] = [list[r] EXCEPT ![t] = {}]]
               /\ pc' = pc
               /\ Works
            \/ /\ \/ rrset' = rrset
                  \/ served /\ rrset' = [rrset EXCEPT ![t] = list[r][t]]
               /\ list' = [list EXCEPT ![r] = NoSets]
               /\ AfterSync(r)
               /\ Fails
    /\ UNCHANGED <<powerDNS, dbVars, writer, served, rec, copy, todo>>
    /\ WatchOverlap

PushDone(r) ==
    /\ pc[r] = "push"
    /\ list[r] = NoSets
    /\ AfterSync(r)
    /\ UNCHANGED <<powerDNS, dbVars, writer, pdnsVars, rec, copy, list, todo>>
    /\ Watch

-----------------------------------------------------------------------------
\* The database refuses a write (busy, full disk): the request ends with an error.
WriteFails(r) ==
    /\ pc[r] \in {"tx_create", "create", "zone_save", "tx_delete", "del_records",
                  "del_zone", "rec_create", "rec_save", "rec_delete"}
    /\ todo' = [todo EXCEPT ![r] = 0]
    /\ Forget(r)
    /\ Goto(r, "idle")
    /\ UNCHANGED <<powerDNS, dbVars, writer, pdnsVars, list>>
    /\ WatchOverlap /\ Fails

\* The process dies: an open transaction is rolled back, PowerDNS keeps what it has.
Crash ==
    /\ writer' = NoRequest
    /\ pc' = [r \in Request |-> "idle"]
    /\ rec' = [r \in Request |-> NoRecord]
    /\ copy' = [r \in Request |-> NoValue]
    /\ list' = [r \in Request |-> NoSets]
    /\ todo' = [r \in Request |-> 0]
    /\ UNCHANGED <<powerDNS, dbVars, pdnsVars>>
    /\ WatchOverlap /\ Fails

ZoneStep(r) ==
    \/ CreateZoneCheck(r) \/ CreateZoneTx(r) \/ PdnsCreateZone(r)
    \/ CreateZoneCommit(r) \/ CreateZoneCleanup(r) \/ CreateZoneLocal(r)
    \/ CreateZoneTaken(r) \/ GetZone(r) \/ LoadMissed(r)
    \/ UpdateZoneLoad(r) \/ UpdateZoneSave(r)
    \/ DeleteZoneLoad(r) \/ PdnsDeleteZone(r) \/ DeleteZoneTx(r)
    \/ DeleteRecordsLocal(r) \/ DeleteZoneLocal(r)

RecordStep(r) ==
    \/ CreateRecords(r) \/ CreateRecord(r) \/ RecordInvalid(r)
    \/ UpdateRecordLoad(r) \/ UpdateRecordSave(r)
    \/ DeleteRecordLoad(r) \/ DeleteRecord(r)
    \/ SyncZoneLoad(r) \/ SyncList(r) \/ Push(r) \/ PushDone(r)

Next ==
    \/ \E r \in Request : ZoneStep(r) \/ RecordStep(r) \/ WriteFails(r)
    \/ Crash

Spec == Init /\ [][Next]_vars

-----------------------------------------------------------------------------
\* Every variable has its type.
TypeOK ==
    /\ powerDNS \in BOOLEAN
    /\ zone \in RowState
    /\ state \in [RecordId -> RowState]
    /\ value \in [RecordId -> Value \cup {NoValue}]
    /\ writer \in Request \cup {NoRequest}
    /\ served \in BOOLEAN
    /\ rrset \in [Type -> SUBSET Content]
    /\ pc \in [Request -> {"idle", "tx_create", "pdns_create", "commit", "cleanup",
                "create", "admitted", "zone_save", "pdns_delete", "tx_delete",
                "del_records", "del_zone", "rec_create", "rec_save", "rec_delete",
                "sync", "sync_list", "push"}]
    /\ rec \in [Request -> RecordId \cup {NoRecord}]
    /\ copy \in [Request -> Value \cup {NoValue}]
    /\ list \in [Request -> [Type -> SUBSET Content]]
    /\ todo \in [Request -> 0..TemplateSize]
    /\ overlapped \in BOOLEAN /\ failed \in BOOLEAN

(***************************************************************************)
(* A zone that was deleted is not served by PowerDNS, whatever overlaps,   *)
(* fails or crashes: DeleteZone withdraws it before it touches the         *)
(* database, and no CreateZone in flight can put it back, because its own  *)
(* INSERT comes first and holds the write lock until PowerDNS answered.    *)
(***************************************************************************)
DeletedZoneNotServed == powerDNS /\ zone = "deleted" => ~served

(***************************************************************************)
(* A zone appears in the database only when PowerDNS serves it: the call   *)
(* lies between the INSERT and the COMMIT, and no clean-up of another      *)
(* failed CreateZone can remove the zone in between.                       *)
(***************************************************************************)
CreatedZoneIsServed ==
    [][powerDNS /\ zone = "none" /\ zone' = "live" => served']_vars

(***************************************************************************)
(* A zone in the database that PowerDNS does not serve, which no request   *)
(* can delete any more because pdns.DeleteZone then meets a 404, is left   *)
(* behind only by a failure (a database deletion that fails after PowerDNS *)
(* has dropped the zone) or by requests that overlap (an UpdateZone that   *)
(* stores a deleted zone again).                                           *)
(***************************************************************************)
StrandedZoneHasCause ==
    powerDNS /\ zone = "live" /\ ~served /\ (\A r \in Request : pc[r] = "idle") =>
        failed \/ overlapped

(***************************************************************************)
(* A deleted zone has no records left ("DeleteZone deletes a zone and all  *)
(* its records", service.go), as long as requests do not overlap; also     *)
(* when a deletion fails or dies between its two statements.  A record     *)
(* created while the zone is being deleted would be left behind.           *)
(***************************************************************************)
NoOrphanRecords ==
    ~overlapped /\ zone = "deleted" => \A i \in RecordId : state[i] # "live"

(***************************************************************************)
(* When no request is at work, PowerDNS serves exactly the zone's records  *)
(* of every type the zone has records of, as long as requests do not       *)
(* overlap and nothing fails: a failed push is only printed, and two syncs *)
(* may push in the other order.  Templates that stop half way included.    *)
(***************************************************************************)
PresentTypesInSync ==
    ~overlapped /\ ~failed /\ powerDNS /\ zone = "live" /\ (\A r \in Request : pc[r] = "idle") =>
        \A t \in Type : LiveOf(t) # {} => rrset[t] = LiveOf(t)

(***************************************************************************)
(* When no request is at work, PowerDNS serves no record that the zone no  *)
(* longer has ("Zone/record changes automatically pushed to PowerDNS API", *)
(* docs/DNS_ENGINE.md), at least while nothing overlaps and nothing fails. *)
(***************************************************************************)
DeletedRecordsWithdrawn ==
    ~overlapped /\ ~failed /\ powerDNS /\ zone = "live" /\ (\A r \in Request : pc[r] = "idle") =>
        \A t \in Type : rrset[t] \subseteq LiveOf(t)
=============================================================================
