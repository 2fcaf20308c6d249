----------------------------- MODULE AuditChain -----------------------------
(***************************************************************************)
(* The append-only audit log of internal/audit/audit.go: rows in the       *)
(* audit_entries table chained by hash, the in-memory cache of the last    *)
(* hash, any number of requests inside Auditor.Record at the same time,    *)
(* and the verification of the chain by POST /admin/audit-log/verify.      *)
(*                                                                         *)
(* SHA-256 is taken to be injective.  The hash of a row is therefore       *)
(* written as the sequence of the events it covers: computeHash appends an *)
(* event to the previous hash, and the empty cache string is << >>.        *)
(*                                                                         *)
(* A row's id is a ULID: a millisecond and a random part.  newID() builds  *)
(* a fresh monotonic source on every call, so two ids of one millisecond   *)
(* are ordered by their random parts alone.                                *)
(***************************************************************************)
EXTENDS Integers, Sequences, FiniteSets

CONSTANTS
    Recorder,   \* requests that call Auditor.Record
    Event,      \* audit events, whatever they hold
    NoEvent,    \* the event of an unused row buffer
    Rand,       \* random parts of a ULID
    MaxTime,    \* bound on the clock, in milliseconds
    MaxRows,    \* bound: no new Record once the table has this many rows
    MaxAltered  \* bound on rows altered behind the server's back

ASSUME AuditAssumption ==
    /\ NoEvent \notin Event
    /\ Rand \subseteq Nat
    /\ MaxTime \in Nat
    /\ MaxRows \in Nat
    /\ MaxAltered \in Nat

VARIABLES
    now,        \* the wall clock, in milliseconds
    rows,       \* the audit_entries table
    cache,      \* Auditor.cache, the last hash seen
    pc,         \* where each request is inside Record
    row,        \* the row each request is building
    altered,    \* ids of the rows whose content was changed outside the server
    answer,     \* the last answer of the verify endpoint, and the index behind it
    irregular   \* history: calls of Record have overlapped or shared a millisecond

vars == <<now, rows, cache, pc, row, altered, answer, irregular>>

Hash == Seq(Event)
Row == [ms : Nat, rnd : Rand, ev : Event, prev : Hash, hash : Hash]
RowBuffer == [ms : Nat, rnd : Nat, ev : Event \cup {NoEvent}, prev : Hash, hash : Hash]
Id(a) == <<a.ms, a.rnd>>
MakeRow(ms, rnd, ev, prev, hash) ==
    [ms |-> ms, rnd |-> rnd, ev |-> ev, prev |-> prev, hash |-> hash]
NoRow == MakeRow(0, 0, NoEvent, <<>>, <<>>)

computeHash(prev, ev) == Append(prev, ev)

\* ORDER BY id: lexicographic on the two parts of a ULID.
Before(a, b) == a.ms < b.ms \/ (a.ms = b.ms /\ a.rnd < b.rnd)
Earlier(b) == {a \in rows : Before(a, b)}
Newest(S) == CHOOSE a \in S : \A b \in S : b = a \/ Before(b, a)
HashOfNewest(S) == IF S = {} THEN <<>> ELSE Newest(S).hash

-----------------------------------------------------------------------------
\* Slip: a restart that reads the first row instead of the last one.
loadFirstHash ==
    IF rows = {} THEN <<>>
    ELSE (CHOOSE a \in rows : \A b \in rows : b = a \/ Before(a, b)).hash

\* loadLastHash: the hash of the row with the largest id, "" on an empty table.
loadLastHash == HashOfNewest(rows)

(***************************************************************************)
(* VerifyChain walks the rows in id order and stops at the first one whose *)
(* prev_hash is not the stored hash of the row before it, or whose hash is *)
(* not the hash of its content.  It returns that row's index from 0, or -1.*)
(***************************************************************************)
RowOk(b) == /\ b.prev = HashOfNewest(Earlier(b))
            /\ b.hash = computeHash(b.prev, b.ev)
BadRows == {b \in rows : ~RowOk(b)}
FirstIndex(S) ==
    IF S = {} THEN -1 ELSE Cardinality({a \in rows : \A b \in S : Before(a, b)})
VerifyChain == FirstIndex(BadRows)

-----------------------------------------------------------------------------
Init ==
    /\ now = 0
    /\ rows = {}
    /\ cache = <<>>
    /\ pc = [r \in Recorder |-> "idle"]
    /\ row = [r \in Recorder |-> NoRow]
    /\ altered = {}
    /\ answer = [found |-> -1, tampered |-> FALSE]
    /\ irregular = FALSE

\* Two calls of Record are under way, or one has an id in the millisecond of a row.
Overlap == \E r, s \in Recorder : r # s /\ pc[r] # "idle" /\ pc[s] # "idle"
SameMs == \E r \in Recorder : pc[r] = "built" /\ \E a \in rows : a.ms = row[r].ms

\* Every step keeps the history of such irregularities.
Watch == irregular' = IF (Overlap \/ SameMs)' THEN TRUE ELSE irregular

Tick ==
    /\ now < MaxTime
    /\ now' = now + 1
    /\ UNCHANGED <<rows, cache, pc, row, altered, answer>>
    /\ Watch

\* Record, up to the first Unlock: the event is fixed and the cache is copied.
ReadCache(r) ==
    /\ pc[r] = "idle"
    /\ Cardinality(rows) < MaxRows
    /\ \E e \in Event :
         row' = [row EXCEPT ![r] = MakeRow(0, 0, e, cache, <<>>)]
    /\ pc' = [pc EXCEPT ![r] = "read"]
    /\ UNCHANGED <<now, rows, cache, altered, answer>>
    /\ Watch

\* Slip: the row's id is stamped with a time that may lie before the epoch.
BuildRowEarlyStamp(r) ==
    /\ pc[r] = "read"
    /\ \E n \in Rand :
         row' = [row EXCEPT ![r] =
                    MakeRow(now - 1, n, row[r].ev, row[r].prev,
                            computeHash(row[r].prev, row[r].ev))]
    /\ pc' = [pc EXCEPT ![r] = "built"]
    /\ UNCHANGED <<now, rows, cache, altered, answer>>
    /\ Watch

\* Slip: the cache is advanced before the INSERT is known to have succeeded.
BuildRowPublishes(r) ==
    /\ pc[r] = "read"
    /\ \E n \in Rand :
         row' = [row EXCEPT ![r] =
                    MakeRow(now, n, row[r].ev, row[r].prev,
                            computeHash(row[r].prev, row[r].ev))]
    /\ cache' = computeHash(row[r].prev, row[r].ev)
    /\ pc' = [pc EXCEPT ![r] = "built"]
    /\ UNCHANGED <<now, rows, altered, answer>>
    /\ Watch

\* Record computes the hash and the row, whose id carries the current time.
BuildRow(r) ==
    /\ pc[r] = "read"
    /\ \E n \in Rand :
         row' = [row EXCEPT ![r] =
                    MakeRow(now, n, row[r].ev, row[r].prev,
                            computeHash(row[r].prev, row[r].ev))]
    /\ pc' = [pc EXCEPT ![r] = "built"]
    /\ UNCHANGED <<now, rows, cache, altered, answer>>
    /\ Watch

\* The INSERT; the primary key and the unique index on hash must be free.
Insert(r) ==
    /\ pc[r] = "built"
    /\ \A a \in rows : Id(a) # Id(row[r]) /\ a.hash # row[r].hash
    /\ rows' = rows \cup {row[r]}
    /\ pc' = [pc EXCEPT ![r] = "inserted"]
    /\ UNCHANGED <<now, cache, row, altered, answer>>
    /\ Watch

\* The INSERT is refused: Record returns the error and leaves the cache alone.
InsertFails(r) ==
    /\ pc[r] = "built"
    /\ pc' = [pc EXCEPT ![r] = "idle"]
    /\ row' = [row EXCEPT ![r] = NoRow]
    /\ UNCHANGED <<now, rows, cache, altered, answer>>
    /\ Watch

\* The second critical section of Record: the cache becomes this row's hash.
Publish(r) ==
    /\ pc[r] = "inserted"
    /\ cache' = row[r].hash
    /\ pc' = [pc EXCEPT ![r] = "idle"]
    /\ row' = [row EXCEPT ![r] = NoRow]
    /\ UNCHANGED <<now, rows, altered, answer>>
    /\ Watch

\* The process dies with requests in flight and starts again: audit.New.
Restart ==
    /\ cache' = loadLastHash
    /\ pc' = [r \in Recorder |-> "idle"]
    /\ row' = [r \in Recorder |-> NoRow]
    /\ UNCHANGED <<now, rows, altered, answer>>
    /\ Watch

\* Somebody changes the content of a stored row outside the server.
Alter ==
    /\ Cardinality(altered) < MaxAltered
    /\ \E b \in rows : \E e \in Event \ {b.ev} :
         /\ Id(b) \notin altered
         /\ rows' = (rows \ {b}) \cup {MakeRow(b.ms, b.rnd, e, b.prev, b.hash)}
         /\ altered' = altered \cup {Id(b)}
    /\ UNCHANGED <<now, cache, pc, row, answer>>
    /\ Watch

(***************************************************************************)
(* AdminAuditVerify.  VerifyChain returns (index, nil) for a broken chain  *)
(* and an error only when the table cannot be read; the handler answers    *)
(* tampered = true on an error and (false, -1) otherwise.                  *)
(***************************************************************************)
AdminAuditVerify ==
    /\ \/ answer' = [found |-> VerifyChain, tampered |-> FALSE]
       \/ answer' = [found |-> 0, tampered |-> TRUE]
    /\ UNCHANGED <<now, rows, cache, pc, row, altered>>
    /\ Watch

Next ==
    \/ Tick
    \/ \E r \in Recorder :
         ReadCache(r) \/ BuildRow(r) \/ Insert(r) \/ InsertFails(r) \/ Publish(r)
    \/ Restart
    \/ Alter
    \/ AdminAuditVerify

Spec == Init /\ [][Next]_vars

-----------------------------------------------------------------------------
(***************************************************************************)
(* Every variable has its type: a row being built has the fields Record    *)
(* has filled in so far.                                                   *)
(***************************************************************************)
TypeOK ==
    /\ now \in Nat
    /\ rows \subseteq Row /\ IsFiniteSet(rows)
    /\ cache \in Hash
    /\ pc \in [Recorder -> {"idle", "read", "built", "inserted"}]
    /\ row \in [Recorder -> RowBuffer]
    /\ \A r \in Recorder :
         /\ pc[r] # "idle" => row[r].ev \in Event
         /\ pc[r] \in {"built", "inserted"} => row[r] \in Row
    /\ altered \subseteq Nat \X Rand
    /\ answer \in [found : Int, tampered : BOOLEAN]
    /\ irregular \in BOOLEAN

(***************************************************************************)
(* Every row's hash chain can be followed back to the start of the log     *)
(* through rows that are in the table, whatever overlaps, fails or         *)
(* crashes: Record writes the cache only after its INSERT succeeded, so a  *)
(* hash taken from the cache (or reloaded by loadLastHash) is never that   *)
(* of a row that does not exist.                                           *)
(***************************************************************************)
AncestorsRecorded ==
    \A b \in rows : \A n \in 1..Len(b.hash) :
        \E a \in rows : a.hash = SubSeq(b.hash, 1, n)

(***************************************************************************)
(* Once VerifyChain reports a bad row it never again reports a clean log:  *)
(* no later Record, restart or change of a row can hide a break.           *)
(***************************************************************************)
BreakIsPermanent == [][VerifyChain # -1 => VerifyChain' # -1]_vars

(***************************************************************************)
(* VerifyChain returns the index of the first altered row, and -1 when no  *)
(* row was altered ("Returns the index of the first tampered row, or -1 if *)
(* clean", audit.go), through failed inserts and restarts at any point of  *)
(* Record.  It holds as long as calls of Record have not overlapped and no *)
(* two rows were given ids in the same millisecond.                        *)
(***************************************************************************)
FirstBadIsFirstAltered ==
    ~irregular => VerifyChain = FirstIndex({b \in rows : Id(b) \in altered})

(***************************************************************************)
(* An untouched log verifies.  Record's comment says it is "Safe for       *)
(* concurrent use" and the package comment that the chain is               *)
(* "self-verifying"; this is what both promise a reader of the log.        *)
(***************************************************************************)
UntouchedLogVerifies == altered = {} => VerifyChain = -1

(***************************************************************************)
(* The verify endpoint says tampered whenever VerifyChain found a bad row  *)
(* ("Audit log tamper detection tested", SECURITY_AUDIT.md, with this very *)
(* endpoint as the evidence).                                              *)
(***************************************************************************)
EndpointReportsBadRow == answer.found # -1 => answer.tampered
=============================================================================
