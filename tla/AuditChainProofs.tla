-------------------------- MODULE AuditChainProofs --------------------------
(***************************************************************************)
(* What AuditChain promises for any number of requests, rows and           *)
(* milliseconds.  The results and how they depend on each other:           *)
(*   TypeCorrect        - by induction on the steps, with OrderInv;        *)
(*   AncestorsTheorem   - from TypeCorrect and the invariant Rooted;       *)
(*   SerialTheorem      - from TypeCorrect and the invariant SerialInv;    *)
(*   BreakTheorem       - from Rooted and the invariant BreakInv.          *)
(***************************************************************************)
EXTENDS AuditChain, FiniteSetTheorems, SequenceTheorems, TLAPS

USE AuditAssumption

-----------------------------------------------------------------------------
\* The empty hash, and a hash extended by an event, are hashes.
LEMMA HashTypes ==
    /\ <<>> \in Hash
    /\ \A h \in Hash, e \in Event : computeHash(h, e) \in Hash
  BY DEF Hash, computeHash

\* The buffer of an idle request is well typed.
LEMMA NoRowType == NoRow \in RowBuffer
  BY HashTypes DEF NoRow, MakeRow, RowBuffer

\* The row with the largest id, if there is one, is a row of the set.
LEMMA NewestIn ==
    ASSUME NEW S, \E a \in S : \A b \in S : b = a \/ Before(b, a)
    PROVE  Newest(S) \in S /\ \A b \in S : b = Newest(S) \/ Before(b, Newest(S))
  BY DEF Newest

\* Both parts of an id are numbers.
LEMMA IdTypes == \A a \in Row : a.ms \in Nat /\ a.rnd \in Nat
  BY DEF Row

\* Ids are totally ordered.
LEMMA BeforeTotal ==
    ASSUME NEW a \in Row, NEW b \in Row, Id(a) # Id(b)
    PROVE  Before(a, b) \/ Before(b, a)
  <1>1. a.ms \in Nat /\ a.rnd \in Nat /\ b.ms \in Nat /\ b.rnd \in Nat
    BY IdTypes
  <1>2. a.ms # b.ms \/ a.rnd # b.rnd
    BY DEF Id
  <1> QED
    BY <1>1, <1>2 DEF Before

\* The order of ids is transitive.
LEMMA BeforeTransitive ==
    ASSUME NEW a \in Row, NEW b \in Row, NEW c \in Row, Before(a, b), Before(b, c)
    PROVE  Before(a, c)
  <1>1. \A x \in {a, b, c} : x.ms \in Nat /\ x.rnd \in Nat
    BY IdTypes
  <1> QED
    BY <1>1 DEF Before

\* The index VerifyChain returns is an integer.
LEMMA IndexType ==
    ASSUME NEW S, IsFiniteSet(rows)
    PROVE  FirstIndex(S) \in Int
  <1>1. IsFiniteSet({a \in rows : \A b \in S : Before(a, b)})
    BY FS_Subset
  <1> QED
    BY <1>1, FS_CardinalityType DEF FirstIndex

-----------------------------------------------------------------------------
(***************************************************************************)
(* The table has a last row, which is what loadLastHash reads: ids are     *)
(* distinct, and a table that is not empty has a row with the largest id.  *)
(***************************************************************************)
OrderInv ==
    /\ \A a, b \in rows : Id(a) = Id(b) => a = b
    /\ rows # {} => \E a \in rows : \A b \in rows : b = a \/ Before(b, a)

\* What loadLastHash reads is a hash: the empty one or that of some row.
LEMMA LastHash ==
    ASSUME OrderInv
    PROVE  \/ rows = {} /\ loadLastHash = <<>>
           \/ \E a \in rows : loadLastHash = a.hash /\ \A b \in rows : b = a \/ Before(b, a)
  BY NewestIn DEF OrderInv, loadLastHash, HashOfNewest

\* Every step keeps the history of overlaps and shared milliseconds.
LEMMA Watched == ASSUME Next PROVE Watch
  BY DEF Next, Tick, ReadCache, BuildRow, Insert, InsertFails, Publish, Restart, Alter,
         AdminAuditVerify

\* The type invariant and OrderInv together are inductive.
LEMMA TypeStep ==
    ASSUME TypeOK, OrderInv, [Next]_vars
    PROVE  TypeOK' /\ OrderInv'
<1>0. irregular' \in BOOLEAN
  <2>1. CASE Next
    BY <2>1, Watched, Zenon DEF Watch, TypeOK
  <2>2. CASE UNCHANGED vars
    BY <2>2, Zenon DEF vars, TypeOK
  <2> QED
    BY <2>1, <2>2
<1>1. CASE Tick
  BY <1>0, <1>1 DEF Tick, TypeOK, OrderInv
<1>2. ASSUME NEW r \in Recorder, ReadCache(r) PROVE TypeOK' /\ OrderInv'
  BY <1>0, <1>2, HashTypes DEF ReadCache, TypeOK, OrderInv, MakeRow, RowBuffer
<1>3. ASSUME NEW r \in Recorder, BuildRow(r) PROVE TypeOK' /\ OrderInv'
  BY <1>0, <1>3, HashTypes DEF BuildRow, TypeOK, OrderInv, RowBuffer, Row, MakeRow
<1>4. ASSUME NEW r \in Recorder, Insert(r) PROVE TypeOK' /\ OrderInv'
  <2>1. row[r] \in Row
    BY <1>0, <1>4 DEF Insert, TypeOK
  <2>2. TypeOK'
    BY <1>0, <1>4, <2>1, FS_AddElement DEF Insert, TypeOK
  <2>3. \A a, b \in rows' : Id(a) = Id(b) => a = b
    BY <1>4 DEF Insert, OrderInv
  <2>4. \E a \in rows' : \A b \in rows' : b = a \/ Before(b, a)
    <3>1. CASE rows = {}
      BY <3>1, <1>4 DEF Insert
    <3>2. CASE rows # {}
      <4>1. PICK a \in rows : \A b \in rows : b = a \/ Before(b, a)
        BY <3>2 DEF OrderInv
      <4>2. Before(a, row[r]) \/ Before(row[r], a)
        BY <1>0, <1>4, <2>1, BeforeTotal DEF Insert, TypeOK
      <4>3. CASE Before(a, row[r])
        BY <1>0, <4>1, <4>3, <2>1, <1>4, BeforeTransitive DEF Insert, TypeOK
      <4>4. CASE Before(row[r], a)
        BY <4>1, <4>4, <1>4 DEF Insert
      <4> QED
        BY <4>2, <4>3, <4>4
    <3> QED
      BY <3>1, <3>2
  <2> QED
    BY <2>2, <2>3, <2>4 DEF OrderInv
<1>5. ASSUME NEW r \in Recorder, InsertFails(r) PROVE TypeOK' /\ OrderInv'
  BY <1>0, <1>5, NoRowType DEF InsertFails, TypeOK, OrderInv
<1>6. ASSUME NEW r \in Recorder, Publish(r) PROVE TypeOK' /\ OrderInv'
  BY <1>0, <1>6, NoRowType DEF Publish, TypeOK, OrderInv, Row
<1>7. CASE Restart
  <2>1. loadLastHash \in Hash
    BY <1>0, LastHash, HashTypes DEF TypeOK, Row
  <2> QED
    BY <1>0, <1>7, <2>1, NoRowType DEF Restart, TypeOK, OrderInv
<1>8. CASE Alter
  <2>0. PICK b \in rows : \E e \in Event \ {b.ev} :
          /\ rows' = (rows \ {b}) \cup {MakeRow(b.ms, b.rnd, e, b.prev, b.hash)}
          /\ altered' = altered \cup {Id(b)}
    BY <1>8 DEF Alter
  <2>1. PICK e \in Event \ {b.ev} :
          /\ rows' = (rows \ {b}) \cup {MakeRow(b.ms, b.rnd, e, b.prev, b.hash)}
          /\ altered' = altered \cup {Id(b)}
    BY <2>0
  <2> DEFINE c == MakeRow(b.ms, b.rnd, e, b.prev, b.hash)
  <2>2. c \in Row /\ Id(c) = Id(b) /\ c.ms = b.ms /\ c.rnd = b.rnd
    BY <1>0, <2>1 DEF TypeOK, MakeRow, Row, Id
  <2>3. TypeOK'
    <3>1. IsFiniteSet(rows') /\ rows' \subseteq Row
      BY <1>0, <2>1, <2>2, FS_AddElement, FS_RemoveElement DEF TypeOK
    <3> QED
      BY <1>0, <1>8, <3>1, <2>1 DEF Alter, TypeOK, Row, Id
  <2>4. \A x, y \in rows' : Id(x) = Id(y) => x = y
    BY <2>1, <2>2 DEF OrderInv
  <2>5. PICK a \in rows : \A x \in rows : x = a \/ Before(x, a)
    BY <2>1 DEF OrderInv
  <2>6. \E z \in rows' : \A x \in rows' : x = z \/ Before(x, z)
    <3>1. CASE a = b
      <4>1. \A x \in rows' : x = c \/ Before(x, c)
        BY <3>1, <2>1, <2>2, <2>5 DEF Before
      <4> QED
        BY <4>1, <2>1
    <3>2. CASE a # b
      <4>1. \A x \in rows' : x = a \/ Before(x, a)
        BY <3>2, <2>1, <2>2, <2>5 DEF Before
      <4> QED
        BY <4>1, <3>2, <2>1
    <3> QED
      BY <3>1, <3>2
  <2> QED
    BY <2>3, <2>4, <2>6 DEF OrderInv
<1>9. CASE AdminAuditVerify
  <2>1. VerifyChain \in Int /\ 0 \in Int
    BY <1>0, IndexType DEF TypeOK, VerifyChain
  <2>2. \A i \in Int, t \in BOOLEAN :
          [found |-> i, tampered |-> t] \in [found : Int, tampered : BOOLEAN]
    OBVIOUS
  <2>3. answer' \in [found : Int, tampered : BOOLEAN]
    BY <1>9, <2>1, <2>2, Zenon DEF AdminAuditVerify
  <2> QED
    BY <1>0, <1>9, <2>3 DEF AdminAuditVerify, TypeOK, OrderInv
<1>10. CASE UNCHANGED vars
  BY <1>0, <1>10 DEF vars, TypeOK, OrderInv
<1> QED
  BY <1>1, <1>2, <1>3, <1>4, <1>5, <1>6, <1>7, <1>8, <1>9, <1>10 DEF Next

(***************************************************************************)
(* Type correctness of the audit log, for every value of the constants,    *)
(* with the existence of the row loadLastHash reads after a restart.       *)
(***************************************************************************)
THEOREM TypeCorrect == Spec => [](TypeOK /\ OrderInv)
<1>1. Init => TypeOK /\ OrderInv
  <2> SUFFICES ASSUME Init PROVE TypeOK /\ OrderInv
    OBVIOUS
  <2>1. irregular \in BOOLEAN
    BY Zenon DEF Init
  <2>2. answer \in [found : Int, tampered : BOOLEAN]
    BY DEF Init
  <2> QED
    BY <2>1, <2>2, HashTypes, NoRowType, FS_EmptySet DEF Init, TypeOK, OrderInv
<1>2. TypeOK /\ OrderInv /\ [Next]_vars => (TypeOK /\ OrderInv)'
  BY TypeStep
<1> QED
  BY <1>1, <1>2, PTL DEF Spec

-----------------------------------------------------------------------------
(***************************************************************************)
(* Rooted: every hash in play is that of a chain of stored rows.  It adds  *)
(* to AncestorsRecorded the hashes that are not stored yet: the cache, the *)
(* copies of it that requests hold, and the row a request is building.     *)
(***************************************************************************)
Known(h) == \A n \in 1..Len(h) : \E a \in rows : a.hash = SubSeq(h, 1, n)

Rooted ==
    /\ \A b \in rows : Known(b.hash)
    /\ Known(cache)
    /\ \A r \in Recorder :
         /\ pc[r] \in {"read", "built"} => Known(row[r].prev)
         /\ pc[r] \in {"built", "inserted"} =>
              row[r].hash = computeHash(row[r].prev, row[r].ev)
         /\ pc[r] = "inserted" => Known(row[r].hash)

\* The prefixes of an extended hash are those of the hash, and itself.
LEMMA PrefixesOfHash ==
    ASSUME NEW h \in Hash, NEW e \in Event, NEW n \in 1..Len(computeHash(h, e))
    PROVE  \/ n \in 1..Len(h) /\ SubSeq(computeHash(h, e), 1, n) = SubSeq(h, 1, n)
           \/ SubSeq(computeHash(h, e), 1, n) = computeHash(h, e)
  <1>1. /\ computeHash(h, e) \in Seq(Event)
        /\ Len(computeHash(h, e)) = Len(h) + 1
        /\ Len(h) \in Nat
    BY AppendProperties, LenProperties DEF computeHash, Hash
  <1>2. CASE n = Len(h) + 1
    BY <1>1, <1>2, SubSeqFull
  <1>3. CASE n \in 1..Len(h)
    <2>1. computeHash(h, e) = h \o <<e>> /\ <<e>> \in Seq(Event) /\ 1 \in 1..Len(h)
      BY <1>1, <1>3, AppendIsConcat DEF computeHash, Hash
    <2> QED
      BY <1>3, <2>1, SubSeqOfConcat1 DEF Hash
  <1> QED
    BY <1>1, <1>2, <1>3

\* A known hash stays known while no stored hash disappears.
LEMMA KnownStays ==
    ASSUME \A a \in rows : \E b \in rows' : b.hash = a.hash,
           NEW h, Known(h)
    PROVE  \A n \in 1..Len(h) : \E a \in rows' : a.hash = SubSeq(h, 1, n)
  <1> SUFFICES ASSUME NEW n \in 1..Len(h)
               PROVE  \E a \in rows' : a.hash = SubSeq(h, 1, n)
    OBVIOUS
  <1>1. PICK a \in rows : a.hash = SubSeq(h, 1, n)
    BY DEF Known
  <1> QED
    BY <1>1

\* Every step preserves Rooted.
LEMMA RootedStep ==
    ASSUME TypeOK, OrderInv, Rooted, [Next]_vars
    PROVE  Rooted'
<1>1. CASE Tick
  BY <1>1 DEF Tick, Rooted, Known
<1>2. ASSUME NEW r \in Recorder, ReadCache(r) PROVE Rooted'
  BY <1>2 DEF ReadCache, Rooted, Known, TypeOK, MakeRow
<1>3. ASSUME NEW r \in Recorder, BuildRow(r) PROVE Rooted'
  <2>1. /\ rows' = rows /\ cache' = cache /\ pc[r] = "read"
        /\ pc' = [pc EXCEPT ![r] = "built"]
        /\ \A s \in Recorder \ {r} : row'[s] = row[s]
        /\ row'[r].prev = row[r].prev
        /\ row'[r].hash = computeHash(row'[r].prev, row'[r].ev)
    BY <1>3 DEF BuildRow, TypeOK, MakeRow
  <2>2. \A h : Known(h)' <=> Known(h)
    BY <2>1 DEF Known
  <2> QED
    BY <2>1, <2>2 DEF Rooted, TypeOK
<1>4. ASSUME NEW r \in Recorder, Insert(r) PROVE Rooted'
  <2>1. /\ rows' = rows \cup {row[r]} /\ row' = row /\ cache' = cache
        /\ pc[r] = "built" /\ pc' = [pc EXCEPT ![r] = "inserted"]
    BY <1>4 DEF Insert
  <2>2. /\ row[r].prev \in Hash /\ row[r].ev \in Event
        /\ row[r].hash = computeHash(row[r].prev, row[r].ev)
        /\ Known(row[r].prev)
    BY <2>1 DEF TypeOK, Row, Rooted
  <2>3. \A h : Known(h) => Known(h)'
    BY <2>1, KnownStays DEF Known
  <2>4. Known(row[r].hash)'
    <3> SUFFICES ASSUME NEW n \in 1..Len(row[r].hash)
                 PROVE  \E a \in rows' : a.hash = SubSeq(row[r].hash, 1, n)
      BY <2>1 DEF Known
    <3>1. CASE n \in 1..Len(row[r].prev) /\ SubSeq(row[r].hash, 1, n) = SubSeq(row[r].prev, 1, n)
      BY <2>1, <2>2, <3>1 DEF Known
    <3>2. CASE SubSeq(row[r].hash, 1, n) = row[r].hash
      BY <2>1, <3>2
    <3> QED
      BY <2>2, <3>1, <3>2, PrefixesOfHash
  <2>5. \A b \in rows' : Known(b.hash)'
    BY <2>1, <2>3, <2>4 DEF Rooted
  <2>6. Known(cache)'
    BY <2>1, <2>3 DEF Rooted
  <2>7. ASSUME NEW s \in Recorder
        PROVE  /\ pc'[s] \in {"read", "built"} => Known(row[s].prev)'
               /\ pc'[s] \in {"built", "inserted"} =>
                    row[s].hash = computeHash(row[s].prev, row[s].ev)
               /\ pc'[s] = "inserted" => Known(row[s].hash)'
    BY <2>1, <2>2, <2>3, <2>4 DEF Rooted, TypeOK
  <2> QED
    BY <2>1, <2>5, <2>6, <2>7 DEF Rooted
<1>5. ASSUME NEW r \in Recorder, InsertFails(r) PROVE Rooted'
  BY <1>5 DEF InsertFails, Rooted, Known, TypeOK
<1>6. ASSUME NEW r \in Recorder, Publish(r) PROVE Rooted'
  BY <1>6 DEF Publish, Rooted, Known, TypeOK
<1>7. CASE Restart
  <2>1. Known(loadLastHash)
    BY LastHash DEF Rooted, Known
  <2> QED
    BY <1>7, <2>1 DEF Restart, Rooted, Known, TypeOK
<1>8. CASE Alter
  <2>1. /\ \A b \in rows' : \E a \in rows : a.hash = b.hash
        /\ \A a \in rows : \E b \in rows' : b.hash = a.hash
    <3>1. PICK b \in rows : \E e \in Event :
            rows' = (rows \ {b}) \cup {MakeRow(b.ms, b.rnd, e, b.prev, b.hash)}
      BY <1>8 DEF Alter
    <3>2. PICK e \in Event :
            rows' = (rows \ {b}) \cup {MakeRow(b.ms, b.rnd, e, b.prev, b.hash)}
      BY <3>1
    <3>3. MakeRow(b.ms, b.rnd, e, b.prev, b.hash).hash = b.hash
      BY DEF MakeRow
    <3> QED
      BY <3>2, <3>3
  <2>2. \A h : Known(h) => Known(h)'
    BY <2>1, KnownStays DEF Known
  <2> QED
    BY <1>8, <2>1, <2>2 DEF Alter, Rooted
<1>9. CASE AdminAuditVerify
  BY <1>9 DEF AdminAuditVerify, Rooted, Known
<1>10. CASE UNCHANGED vars
  BY <1>10 DEF vars, Rooted, Known
<1> QED
  BY <1>1, <1>2, <1>3, <1>4, <1>5, <1>6, <1>7, <1>8, <1>9, <1>10 DEF Next

(***************************************************************************)
(* For any number of overlapping requests, failed inserts and restarts,    *)
(* every row of the log leads back to its start through stored rows.       *)
(***************************************************************************)
THEOREM AncestorsTheorem == Spec => []AncestorsRecorded
<1>1. Init => Rooted
  BY DEF Init, Rooted, Known
<1>2. TypeOK /\ OrderInv /\ Rooted /\ [Next]_vars => Rooted'
  BY RootedStep
<1>3. Rooted => AncestorsRecorded
  BY DEF Rooted, Known, AncestorsRecorded
<1> QED
  BY <1>1, <1>2, <1>3, TypeCorrect, PTL DEF Spec

-----------------------------------------------------------------------------
(***************************************************************************)
(* The serial case.  Tip(h, S): h is the hash of the newest row of S.      *)
(* Linked(b): b's prev_hash is the hash of the row before it.  SerialInv   *)
(* says that the hash a request is about to chain to is that of the newest *)
(* row, wherever the request is, and that the rows that do not check are   *)
(* the altered ones.                                                       *)
(***************************************************************************)
Tip(h, S) ==
    \/ S = {} /\ h = <<>>
    \/ \E a \in S : a.hash = h /\ \A b \in S : b = a \/ Before(b, a)

Linked(b) == Tip(b.prev, Earlier(b))
Genuine(b) == b.hash = computeHash(b.prev, b.ev)

OneAtATime == \A r, s \in Recorder : pc[r] # "idle" /\ pc[s] # "idle" => r = s

ChainInv ==
    /\ \A a \in rows : a.ms <= now /\ Linked(a)
    /\ \A a \in rows : Genuine(a) <=> Id(a) \notin altered
    /\ \A i \in altered : \E a \in rows : Id(a) = i

TipInv ==
    /\ (\A r \in Recorder : pc[r] # "inserted") => Tip(cache, rows)
    /\ \A r \in Recorder :
         /\ pc[r] \in {"read", "built"} => Tip(row[r].prev, rows)
         /\ pc[r] = "inserted" => Tip(row[r].hash, rows)
         /\ pc[r] = "built" => /\ row[r].ms <= now
                               /\ Genuine(row[r])
                               /\ \A a \in rows : a.ms < row[r].ms

SerialInv == OneAtATime /\ ChainInv /\ TipInv

\* A tip is what loadLastHash and VerifyChain compute.
LEMMA TipIsHashOfNewest ==
    ASSUME NEW S \in SUBSET Row, NEW h, Tip(h, S)
    PROVE  HashOfNewest(S) = h
  <1>1. CASE S = {}
    BY <1>1 DEF Tip, HashOfNewest
  <1>2. CASE S # {}
    <2>1. PICK a \in S : a.hash = h /\ \A b \in S : b = a \/ Before(b, a)
      BY <1>2 DEF Tip
    <2>2. Newest(S) \in S /\ \A b \in S : b = Newest(S) \/ Before(b, Newest(S))
      BY <2>1, NewestIn
    <2>3. ~(Before(a, Newest(S)) /\ Before(Newest(S), a))
      BY <2>1, <2>2, IdTypes DEF Before
    <2> QED
      BY <1>2, <2>1, <2>2, <2>3 DEF HashOfNewest
  <1> QED
    BY <1>1, <1>2

\* Replacing a row by one with the same id and hashes moves no tip.
LEMMA TipStays ==
    ASSUME NEW S, NEW h, NEW b \in S, NEW c,
           c.ms = b.ms, c.rnd = b.rnd, c.hash = b.hash, Tip(h, S)
    PROVE  Tip(h, (S \ {b}) \cup {c})
  <1> DEFINE T == (S \ {b}) \cup {c}
  <1>1. PICK a \in S : a.hash = h /\ \A x \in S : x = a \/ Before(x, a)
    BY DEF Tip
  <1>2. CASE a = b
    <2>1. c \in T /\ c.hash = h /\ \A x \in T : x = c \/ Before(x, c)
      BY <1>1, <1>2 DEF Before
    <2> QED
      BY <2>1 DEF Tip
  <1>3. CASE a # b
    <2>1. a \in T /\ \A x \in T : x = a \/ Before(x, a)
      BY <1>1, <1>3 DEF Before
    <2> QED
      BY <1>1, <2>1 DEF Tip
  <1> QED
    BY <1>2, <1>3

\* One event hashes to one hash: two events after the same hash differ.
LEMMA HashInjective ==
    ASSUME NEW h \in Hash, NEW e \in Event, NEW f \in Event,
           computeHash(h, e) = computeHash(h, f)
    PROVE  e = f
  BY AppendProperties DEF computeHash, Hash

\* A step of one request that does not touch the table keeps ChainInv.
LEMMA ChainStays ==
    ASSUME ChainInv, rows' = rows, altered' = altered, now' = now \/ now' > now,
           now \in Nat, now' \in Nat, TypeOK
    PROVE  ChainInv'
  <1>1. \A a \in rows : a.ms <= now'
    BY IdTypes DEF ChainInv, TypeOK
  <1>2. \A a \in rows : Linked(a)'
    BY DEF ChainInv, Linked, Earlier
  <1> QED
    BY <1>1, <1>2 DEF ChainInv, Genuine

\* Inserting the row a request has built extends the chain by one row.
LEMMA InsertKeepsChain ==
    ASSUME TypeOK, OrderInv, SerialInv, NEW r \in Recorder, Insert(r)
    PROVE  ChainInv' /\ Tip(row[r].hash, rows')
<1> DEFINE new == row[r]
<1>1. /\ rows' = rows \cup {new} /\ row' = row /\ altered' = altered /\ now' = now
      /\ pc[r] = "built"
  BY DEF Insert
<1>2. /\ new \in Row /\ Genuine(new) /\ new.ms <= now /\ Tip(new.prev, rows)
      /\ \A a \in rows : a.ms < new.ms
  BY <1>1 DEF TypeOK, SerialInv, TipInv
<1>3. \A a \in rows : Before(a, new) /\ ~Before(new, a)
  BY <1>2, IdTypes DEF Before, TypeOK
<1>4. ~Before(new, new)
  BY <1>2, IdTypes DEF Before
<1>5. Earlier(new)' = rows /\ \A a \in rows : Earlier(a)' = Earlier(a)
  BY <1>1, <1>3, <1>4 DEF Earlier
<1>6. \A a \in rows' : a.ms <= now' /\ Linked(a)'
  <2>1. Linked(new)'
    BY <1>1, <1>2, <1>5 DEF Linked, Tip
  <2>2. \A a \in rows : Linked(a)'
    BY <1>5 DEF Linked, SerialInv, ChainInv, Tip
  <2> QED
    BY <1>1, <1>2, <2>1, <2>2 DEF SerialInv, ChainInv
<1>7. Id(new) \notin altered
  <2>1. \A a \in rows : Id(a) # Id(new)
    BY DEF Insert
  <2> QED
    BY <2>1 DEF SerialInv, ChainInv
<1>8. \A a \in rows' : Genuine(a)' <=> Id(a) \notin altered'
  BY <1>1, <1>2, <1>7 DEF SerialInv, ChainInv, Genuine
<1>9. \A i \in altered' : \E a \in rows' : Id(a) = i
  BY <1>1 DEF SerialInv, ChainInv
<1>10. Tip(new.hash, rows')
  BY <1>1, <1>3 DEF Tip
<1> QED
  BY <1>6, <1>8, <1>9, <1>10 DEF ChainInv

\* Altering a row's content breaks that row and no other.
LEMMA AlterKeepsSerialInv ==
    ASSUME TypeOK, OrderInv, SerialInv, Alter
    PROVE  SerialInv'
<1>1. PICK b \in rows : \E e \in Event \ {b.ev} :
        /\ Id(b) \notin altered
        /\ rows' = (rows \ {b}) \cup {MakeRow(b.ms, b.rnd, e, b.prev, b.hash)}
        /\ altered' = altered \cup {Id(b)}
  BY DEF Alter
<1>2. PICK e \in Event \ {b.ev} :
        /\ Id(b) \notin altered
        /\ rows' = (rows \ {b}) \cup {MakeRow(b.ms, b.rnd, e, b.prev, b.hash)}
        /\ altered' = altered \cup {Id(b)}
  BY <1>1
<1> DEFINE c == MakeRow(b.ms, b.rnd, e, b.prev, b.hash)
<1>3. /\ c.ms = b.ms /\ c.rnd = b.rnd /\ c.prev = b.prev /\ c.hash = b.hash /\ c.ev = e
      /\ Id(c) = Id(b)
  BY DEF MakeRow, Id
<1>4. UNCHANGED <<now, cache, pc, row>>
  BY DEF Alter
<1>5. b \in Row /\ b.prev \in Hash /\ b.ev \in Event
  BY DEF TypeOK, Row
<1> HIDE DEF c
<1>6. ASSUME NEW x, NEW o \in rows, x.ms = o.ms, x.rnd = o.rnd, x.prev = o.prev
      PROVE  Linked(x)'
  <2>1. Linked(o)
    BY DEF SerialInv, ChainInv
  <2>2. CASE b \in Earlier(o)
    <3>1. Earlier(x)' = (Earlier(o) \ {b}) \cup {c}
      BY <1>2, <1>3, <1>6, <2>2 DEF Earlier, Before, c
    <3> QED
      BY <1>3, <1>6, <2>1, <2>2, <3>1, TipStays DEF Linked
  <2>3. CASE b \notin Earlier(o)
    <3>1. Earlier(x)' = Earlier(o)
      BY <1>2, <1>3, <1>6, <2>3 DEF Earlier, Before, c
    <3> QED
      BY <1>6, <2>1, <3>1 DEF Linked, Tip
  <2> QED
    BY <2>2, <2>3
<1>7. \A a \in rows' : a.ms <= now' /\ Linked(a)'
  BY <1>2, <1>3, <1>4, <1>6 DEF SerialInv, ChainInv, c
<1>8. \A a \in rows' : Genuine(a)' <=> Id(a) \notin altered'
  <2>1. Genuine(b) /\ ~Genuine(c)
    BY <1>2, <1>3, <1>5, HashInjective DEF SerialInv, ChainInv, Genuine
  <2>2. \A a \in rows : a # b => Id(a) # Id(b)
    BY DEF OrderInv
  <2> QED
    BY <1>2, <1>3, <2>1, <2>2 DEF SerialInv, ChainInv, Genuine, c
<1>9. \A i \in altered' : \E a \in rows' : Id(a) = i
  BY <1>2, <1>3 DEF SerialInv, ChainInv, c
<1>10. \A h : Tip(h, rows) => Tip(h, rows')
  BY <1>2, <1>3, TipStays DEF c
<1>11. TipInv'
  <2>1. \A n : (\A a \in rows : a.ms < n) => \A a \in rows' : a.ms < n
    BY <1>2, <1>3 DEF c
  <2> QED
    BY <1>4, <1>10, <2>1 DEF SerialInv, TipInv, Genuine
<1> QED
  BY <1>4, <1>7, <1>8, <1>9, <1>11 DEF SerialInv, ChainInv, OneAtATime

\* A stuttering step keeps SerialInv.
LEMMA UnchangedKeepsSerialInv ==
    ASSUME TypeOK, SerialInv, UNCHANGED vars
    PROVE  SerialInv'
<1>1. ChainInv'
  BY ChainStays DEF vars, SerialInv, TypeOK
<1> QED
  BY <1>1 DEF vars, SerialInv, OneAtATime, TipInv, Genuine

\* Without overlap and with distinct milliseconds every step keeps SerialInv.
LEMMA SerialStep ==
    ASSUME ~Overlap', ~SameMs', TypeOK, OrderInv, SerialInv, [Next]_vars
    PROVE  SerialInv'
<1>1. CASE Tick
  <2>1. ChainInv'
    BY <1>1, ChainStays DEF Tick, SerialInv, TypeOK
  <2>2. TipInv'
    BY <1>1, IdTypes DEF Tick, SerialInv, TipInv, TypeOK, Genuine, RowBuffer
  <2> QED
    BY <1>1, <2>1, <2>2 DEF Tick, SerialInv, OneAtATime
<1>2. ASSUME NEW r \in Recorder, ReadCache(r) PROVE SerialInv'
  <2>1. ChainInv'
    BY <1>2, ChainStays DEF ReadCache, SerialInv, TypeOK
  <2>2. /\ \A s \in Recorder : pc[s] = "idle"
        /\ pc' = [pc EXCEPT ![r] = "read"] /\ rows' = rows /\ cache' = cache
        /\ row'[r].prev = cache
    BY <1>2 DEF ReadCache, TypeOK, MakeRow, Overlap
  <2>3. OneAtATime'
    BY <2>2 DEF OneAtATime, TypeOK
  <2>4. TipInv'
    BY <2>2 DEF SerialInv, TipInv, TypeOK
  <2> QED
    BY <2>1, <2>3, <2>4 DEF SerialInv
<1>3. ASSUME NEW r \in Recorder, BuildRow(r) PROVE SerialInv'
  <2>1. ChainInv'
    BY <1>3, ChainStays DEF BuildRow, SerialInv, TypeOK
  <2>2. /\ \A a \in rows : a.ms # now
        /\ pc[r] = "read" /\ pc' = [pc EXCEPT ![r] = "built"]
        /\ rows' = rows /\ cache' = cache /\ now' = now
        /\ \A s \in Recorder \ {r} : row'[s] = row[s]
        /\ row'[r].prev = row[r].prev /\ row'[r].ms = now
        /\ row'[r].hash = computeHash(row'[r].prev, row'[r].ev)
    BY <1>3 DEF BuildRow, TypeOK, MakeRow, SameMs
  <2>3. OneAtATime'
    BY <2>2 DEF SerialInv, OneAtATime, TypeOK
  <2>4. \A s \in Recorder : s # r => pc[s] = "idle" /\ pc'[s] = "idle"
    BY <2>2 DEF SerialInv, OneAtATime, TypeOK
  <2>5. \A a \in rows : a.ms < now /\ now <= now
    BY <2>2, IdTypes DEF SerialInv, ChainInv, TypeOK
  <2>6. TipInv'
    BY <2>2, <2>4, <2>5 DEF SerialInv, TipInv, TypeOK, Genuine
  <2> QED
    BY <2>1, <2>3, <2>6 DEF SerialInv
<1>4. ASSUME NEW r \in Recorder, Insert(r) PROVE SerialInv'
  <2>1. ChainInv' /\ Tip(row[r].hash, rows')
    BY <1>4, InsertKeepsChain
  <2>2. pc[r] = "built" /\ pc' = [pc EXCEPT ![r] = "inserted"] /\ row' = row
    BY <1>4 DEF Insert
  <2>3. \A s \in Recorder : s # r => pc'[s] = "idle"
    BY <2>2 DEF SerialInv, OneAtATime, TypeOK
  <2>4. TipInv'
    BY <2>1, <2>2, <2>3 DEF TipInv, TypeOK
  <2> QED
    BY <2>1, <2>2, <2>3, <2>4 DEF SerialInv, OneAtATime
<1>5. ASSUME NEW r \in Recorder, InsertFails(r) PROVE SerialInv'
  <2>1. ChainInv'
    BY <1>5, ChainStays DEF InsertFails, SerialInv, TypeOK
  <2>2. /\ pc[r] = "built" /\ pc' = [pc EXCEPT ![r] = "idle"]
        /\ rows' = rows /\ cache' = cache
    BY <1>5 DEF InsertFails
  <2>3. \A s \in Recorder : pc'[s] = "idle" /\ pc[s] # "inserted"
    BY <2>2 DEF SerialInv, OneAtATime, TypeOK
  <2>4. TipInv'
    BY <2>2, <2>3 DEF SerialInv, TipInv, TypeOK
  <2> QED
    BY <2>1, <2>3, <2>4 DEF SerialInv, OneAtATime
<1>6. ASSUME NEW r \in Recorder, Publish(r) PROVE SerialInv'
  <2>1. ChainInv'
    BY <1>6, ChainStays DEF Publish, SerialInv, TypeOK
  <2>2. /\ pc[r] = "inserted" /\ pc' = [pc EXCEPT ![r] = "idle"]
        /\ rows' = rows /\ cache' = row[r].hash
    BY <1>6 DEF Publish
  <2>3. \A s \in Recorder : pc'[s] = "idle"
    BY <2>2 DEF SerialInv, OneAtATime, TypeOK
  <2>4. TipInv'
    BY <2>2, <2>3 DEF SerialInv, TipInv, TypeOK
  <2> QED
    BY <2>1, <2>3, <2>4 DEF SerialInv, OneAtATime
<1>7. CASE Restart
  <2>1. ChainInv'
    BY <1>7, ChainStays DEF Restart, SerialInv, TypeOK
  <2>2. Tip(loadLastHash, rows)
    BY LastHash DEF Tip
  <2>3. /\ \A s \in Recorder : pc'[s] = "idle"
        /\ rows' = rows /\ cache' = loadLastHash
    BY <1>7 DEF Restart
  <2>4. TipInv'
    BY <2>2, <2>3 DEF TipInv
  <2> QED
    BY <2>1, <2>3, <2>4 DEF SerialInv, OneAtATime
<1>8. CASE Alter
  BY <1>8, AlterKeepsSerialInv
<1>9. CASE AdminAuditVerify
  <2>1. ChainInv'
    BY <1>9, ChainStays DEF AdminAuditVerify, SerialInv, TypeOK
  <2> QED
    BY <1>9, <2>1 DEF AdminAuditVerify, SerialInv, OneAtATime, TipInv, Genuine
<1>10. CASE UNCHANGED vars
  BY <1>10, UnchangedKeepsSerialInv
<1> QED
  BY <1>1, <1>2, <1>3, <1>4, <1>5, <1>6, <1>7, <1>8, <1>9, <1>10 DEF Next

\* In a chained log the rows VerifyChain rejects are the altered ones.
LEMMA BadAreAltered ==
    ASSUME TypeOK, SerialInv
    PROVE  FirstBadIsFirstAltered
<1>1. \A b \in rows : b.prev = HashOfNewest(Earlier(b))
  BY TipIsHashOfNewest DEF SerialInv, ChainInv, Linked, TypeOK, Earlier
<1>2. BadRows = {b \in rows : Id(b) \in altered}
  BY <1>1 DEF BadRows, RowOk, SerialInv, ChainInv, Genuine
<1> QED
  BY <1>2 DEF FirstBadIsFirstAltered, VerifyChain

(***************************************************************************)
(* As long as calls of Record have not overlapped and rows were stamped in *)
(* distinct milliseconds, VerifyChain returns the index of the first       *)
(* altered row and -1 on an unaltered log, through any failed insert and   *)
(* any restart.                                                            *)
(***************************************************************************)
THEOREM SerialTheorem == Spec => []FirstBadIsFirstAltered
<1> DEFINE RegularInv == ~irregular => SerialInv
<1>1. Init => RegularInv
  BY DEF Init, SerialInv, OneAtATime, ChainInv, TipInv, Tip
<1>2. TypeOK /\ OrderInv /\ RegularInv /\ [Next]_vars => RegularInv'
  <2> SUFFICES ASSUME TypeOK, OrderInv, RegularInv, [Next]_vars, ~irregular'
               PROVE  SerialInv'
    OBVIOUS
  <2>1. CASE Next
    <3>1. ~irregular /\ ~Overlap' /\ ~SameMs'
      BY <2>1, Watched, Zenon DEF Watch
    <3> QED
      BY <3>1, SerialStep
  <2>2. CASE UNCHANGED vars
    <3>1. SerialInv
      BY <2>2 DEF vars
    <3> QED
      BY <2>2, <3>1, UnchangedKeepsSerialInv
  <2> QED
    BY <2>1, <2>2
<1>3. TypeOK /\ RegularInv => FirstBadIsFirstAltered
  BY BadAreAltered DEF FirstBadIsFirstAltered
<1> QED
  BY <1>1, <1>2, <1>3, TypeCorrect, PTL DEF Spec

-----------------------------------------------------------------------------
(***************************************************************************)
(* What a break rests on, with overlapping requests too: only an altered   *)
(* row has a hash that is not the hash of its content, and every part of   *)
(* the table has a newest row, so that inserting a row changes what        *)
(* precedes another one in at most one way.                                *)
(***************************************************************************)
HasNewest(S) == \E a \in S : \A b \in S : b = a \/ Before(b, a)

BreakInv ==
    /\ \A a \in rows : Id(a) \notin altered => Genuine(a)
    /\ \A S \in SUBSET rows : S # {} => HasNewest(S)

\* VerifyChain reports something exactly when some row does not check.
LEMMA ReportsBad ==
    ASSUME IsFiniteSet(rows)
    PROVE  VerifyChain # -1 <=> BadRows # {}
<1> DEFINE T == {a \in rows : \A b \in BadRows : Before(a, b)}
<1>1. IsFiniteSet(T)
  BY FS_Subset
<1>2. Cardinality(T) \in Nat
  BY <1>1, FS_CardinalityType
<1>3. BadRows # {} => VerifyChain = Cardinality(T)
  BY DEF VerifyChain, FirstIndex
<1>4. BadRows = {} => VerifyChain = -1
  BY DEF VerifyChain, FirstIndex
<1> HIDE DEF T
<1> QED
  BY <1>2, <1>3, <1>4

\* A row that joins a set is its newest one, or the newest one stays.
LEMMA JoinMovesTip ==
    ASSUME NEW S \in SUBSET Row, NEW new \in Row, S # {} => HasNewest(S),
           \A a \in S : Id(a) # Id(new)
    PROVE  /\ HasNewest(S \cup {new})
           /\ \/ HashOfNewest(S \cup {new}) = new.hash
              \/ HashOfNewest(S \cup {new}) = HashOfNewest(S)
<1> DEFINE T == S \cup {new}
<1>1. T \in SUBSET Row
  OBVIOUS
<1>2. CASE S = {}
  <2>1. Tip(new.hash, T) /\ HasNewest(T)
    BY <1>2 DEF Tip, HasNewest
  <2> QED
    BY <1>1, <2>1, TipIsHashOfNewest
<1>3. CASE S # {}
  <2>1. PICK m \in S : \A b \in S : b = m \/ Before(b, m)
    BY <1>3 DEF HasNewest
  <2>2. Tip(m.hash, S)
    BY <2>1 DEF Tip
  <2>3. CASE Before(m, new)
    <3>1. \A b \in S : Before(b, new)
      BY <2>1, <2>3, BeforeTransitive
    <3>2. Tip(new.hash, T) /\ HasNewest(T)
      BY <3>1 DEF Tip, HasNewest
    <3> QED
      BY <1>1, <3>2, TipIsHashOfNewest
  <2>4. CASE Before(new, m)
    <3>1. Tip(m.hash, T) /\ HasNewest(T)
      BY <2>1, <2>4 DEF Tip, HasNewest
    <3> QED
      BY <1>1, <2>2, <3>1, TipIsHashOfNewest
  <2> QED
    BY <2>3, <2>4, BeforeTotal
<1> QED
  BY <1>2, <1>3

\* Inserting a row and altering one keep BreakInv; no other step touches a row.
LEMMA BreakStep ==
    ASSUME TypeOK, OrderInv, Rooted, BreakInv, [Next]_vars
    PROVE  BreakInv'
<1>1. ASSUME NEW r \in Recorder, Insert(r) PROVE BreakInv'
  <2> DEFINE new == row[r]
  <2>1. /\ rows' = rows \cup {new} /\ altered' = altered
        /\ \A a \in rows : Id(a) # Id(new)
    BY <1>1 DEF Insert
  <2>2. new \in Row /\ Genuine(new)
    BY <1>1 DEF Insert, TypeOK, Rooted, Genuine
  <2>3. \A a \in rows' : Id(a) \notin altered' => Genuine(a)'
    BY <2>1, <2>2 DEF BreakInv, Genuine
  <2>4. ASSUME NEW S \in SUBSET rows', S # {} PROVE HasNewest(S)
    <3>1. CASE new \notin S
      BY <2>1, <2>4, <3>1 DEF BreakInv
    <3>2. CASE new \in S
      <4> DEFINE R == S \ {new}
      <4>1. R \in SUBSET rows /\ S = R \cup {new}
        BY <2>1, <3>2
      <4>2. R \in SUBSET Row /\ (R # {} => HasNewest(R)) /\ \A a \in R : Id(a) # Id(new)
        BY <2>1, <4>1 DEF BreakInv, TypeOK
      <4> HIDE DEF R, new
      <4>3. HasNewest(R \cup {new})
        BY <2>2, <4>2, JoinMovesTip
      <4> QED
        BY <4>1, <4>3
    <3> QED
      BY <3>1, <3>2
  <2> QED
    BY <2>3, <2>4 DEF BreakInv, HasNewest
<1>2. CASE Alter
  <2>1. PICK b \in rows : \E e \in Event \ {b.ev} :
          /\ rows' = (rows \ {b}) \cup {MakeRow(b.ms, b.rnd, e, b.prev, b.hash)}
          /\ altered' = altered \cup {Id(b)}
    BY <1>2 DEF Alter
  <2>2. PICK e \in Event \ {b.ev} :
          /\ rows' = (rows \ {b}) \cup {MakeRow(b.ms, b.rnd, e, b.prev, b.hash)}
          /\ altered' = altered \cup {Id(b)}
    BY <2>1
  <2> DEFINE c == MakeRow(b.ms, b.rnd, e, b.prev, b.hash)
  <2>3. Id(c) = Id(b) /\ c.ms = b.ms /\ c.rnd = b.rnd
    BY DEF MakeRow, Id
  <2>4. rows' = (rows \ {b}) \cup {c} /\ altered' = altered \cup {Id(b)}
    BY <2>2
  <2> HIDE DEF c
  <2>5. \A a \in rows' : Id(a) \notin altered' => Genuine(a)'
    BY <2>3, <2>4 DEF BreakInv, Genuine
  <2>6. ASSUME NEW S \in SUBSET rows', S # {} PROVE HasNewest(S)
    <3>1. CASE c \notin S
      BY <2>4, <2>6, <3>1 DEF BreakInv
    <3>2. CASE c \in S
      <4> DEFINE R == (S \ {c}) \cup {b}
      <4>1. R \in SUBSET rows /\ R # {}
        BY <2>4
      <4>2. PICK a \in R : \A x \in R : x = a \/ Before(x, a)
        BY <4>1 DEF BreakInv, HasNewest
      <4>3. CASE a = b
        <5>1. \A x \in S : x = c \/ Before(x, c)
          BY <2>3, <2>4, <4>2, <4>3 DEF Before
        <5> QED
          BY <3>2, <5>1 DEF HasNewest
      <4>4. CASE a # b
        <5>1. a \in S /\ Before(b, a)
          BY <4>2, <4>4
        <5>2. \A x \in S : x = a \/ Before(x, a)
          BY <2>3, <4>2, <5>1 DEF Before
        <5> QED
          BY <5>1, <5>2 DEF HasNewest
      <4> QED
        BY <4>3, <4>4
    <3> QED
      BY <3>1, <3>2
  <2> QED
    BY <2>5, <2>6 DEF BreakInv, HasNewest
<1>3. CASE UNCHANGED <<rows, altered>>
  BY <1>3 DEF BreakInv, Genuine
<1> QED
  BY <1>1, <1>2, <1>3 DEF Next, Tick, ReadCache, BuildRow, InsertFails, Publish, Restart,
     AdminAuditVerify, vars

(***************************************************************************)
(* A new row cannot mend a bad one.  To do so it would have to come        *)
(* between the bad row and its neighbour and have the hash that the bad    *)
(* row continues; but that is the hash of a stored row (Rooted), and the   *)
(* unique index on hash takes it only once.                                *)
(***************************************************************************)
LEMMA InsertKeepsBreak ==
    ASSUME TypeOK, Rooted, BreakInv, NEW r \in Recorder, Insert(r), BadRows # {}
    PROVE  BadRows' # {}
<1> DEFINE new == row[r]
<1>1. /\ rows' = rows \cup {new} /\ new \in Row
      /\ \A a \in rows : Id(a) # Id(new) /\ a.hash # new.hash
  BY DEF Insert, TypeOK
<1>2. PICK b \in rows : ~RowOk(b)
  BY DEF BadRows
<1>3. CASE b.hash # computeHash(b.prev, b.ev)
  BY <1>1, <1>2, <1>3 DEF BadRows, RowOk
<1>4. CASE b.hash = computeHash(b.prev, b.ev)
  <2>1. b.prev # HashOfNewest(Earlier(b))
    BY <1>2, <1>4 DEF RowOk
  <2>2. b.prev \in Hash /\ b.ev \in Event /\ new.prev \in Hash /\ new.ev \in Event
    BY <1>1, <1>2 DEF TypeOK, Row
  <2>3. new.hash # b.prev
    <3>1. CASE b.prev = <<>>
      <4>1. new.hash = computeHash(new.prev, new.ev)
        BY DEF Rooted, Insert
      <4>2. Len(computeHash(new.prev, new.ev)) = Len(new.prev) + 1 /\ Len(new.prev) \in Nat
        BY <2>2, AppendProperties, LenProperties DEF computeHash, Hash
      <4> QED
        BY <3>1, <4>1, <4>2
    <3>2. CASE b.prev # <<>>
      <4> DEFINE n == Len(b.prev)
      <4>1. n \in Nat /\ n # 0
        BY <2>2, <3>2, LenProperties, EmptySeq DEF Hash
      <4>2. Len(b.hash) = n + 1 /\ b.hash = b.prev \o <<b.ev>> /\ <<b.ev>> \in Seq(Event)
        BY <1>4, <2>2, AppendProperties, AppendIsConcat DEF computeHash, Hash
      <4>3. SubSeq(b.hash, 1, n) = SubSeq(b.prev, 1, n)
        BY <2>2, <4>1, <4>2, SubSeqOfConcat1 DEF Hash
      <4>4. SubSeq(b.prev, 1, n) = b.prev
        BY <2>2, SubSeqFull DEF Hash
      <4>5. n \in 1..Len(b.hash)
        BY <4>1, <4>2
      <4>6. PICK a \in rows : a.hash = SubSeq(b.hash, 1, n)
        BY <4>5 DEF Rooted, Known
      <4> QED
        BY <1>1, <4>3, <4>4, <4>6
    <3> QED
      BY <3>1, <3>2
  <2>4. Earlier(b) \in SUBSET rows /\ Earlier(b) \in SUBSET Row
    BY DEF Earlier, TypeOK
  <2>5. Earlier(b)' = Earlier(b) \/ Earlier(b)' = Earlier(b) \cup {new}
    BY <1>1 DEF Earlier
  <2>6. /\ Earlier(b) # {} => HasNewest(Earlier(b))
        /\ \A a \in Earlier(b) : Id(a) # Id(new)
    BY <1>1, <2>4 DEF BreakInv
  <2> HIDE DEF new
  <2>7. \/ HashOfNewest(Earlier(b) \cup {new}) = new.hash
        \/ HashOfNewest(Earlier(b) \cup {new}) = HashOfNewest(Earlier(b))
    BY <1>1, <2>4, <2>6, JoinMovesTip
  <2>8. b.prev # HashOfNewest(Earlier(b)')
    BY <2>1, <2>3, <2>5, <2>7
  <2>9. ~RowOk(b)'
    BY <2>8 DEF RowOk, HashOfNewest, Newest
  <2> QED
    BY <1>1, <2>9 DEF BadRows
<1> QED
  BY <1>3, <1>4

\* Altering a row that was not altered before always leaves a bad row.
LEMMA AlterBreaks ==
    ASSUME TypeOK, BreakInv, Alter
    PROVE  BadRows' # {}
<1>1. PICK b \in rows : \E e \in Event \ {b.ev} :
        /\ Id(b) \notin altered
        /\ rows' = (rows \ {b}) \cup {MakeRow(b.ms, b.rnd, e, b.prev, b.hash)}
  BY DEF Alter
<1>2. PICK e \in Event \ {b.ev} :
        rows' = (rows \ {b}) \cup {MakeRow(b.ms, b.rnd, e, b.prev, b.hash)}
  BY <1>1
<1> DEFINE c == MakeRow(b.ms, b.rnd, e, b.prev, b.hash)
<1>3. c \in rows' /\ c.hash = b.hash /\ c.prev = b.prev /\ c.ev = e
  BY <1>2 DEF MakeRow
<1>4. b.hash = computeHash(b.prev, b.ev) /\ b.prev \in Hash /\ b.ev \in Event
  BY <1>1 DEF BreakInv, Genuine, TypeOK, Row
<1>5. computeHash(b.prev, b.ev) # computeHash(b.prev, e)
  BY <1>4, HashInjective
<1> HIDE DEF c
<1>6. ~RowOk(c)'
  BY <1>3, <1>4, <1>5 DEF RowOk
<1> QED
  BY <1>3, <1>6 DEF BadRows

(***************************************************************************)
(* A break of the chain is permanent: no request, however many overlap, no *)
(* restart and no further change of a row makes VerifyChain report a clean *)
(* log again.                                                              *)
(***************************************************************************)
THEOREM BreakTheorem == Spec => BreakIsPermanent
<1>1. Init => Rooted /\ BreakInv
  BY DEF Init, Rooted, Known, BreakInv
<1>2. TypeOK /\ OrderInv /\ Rooted /\ BreakInv /\ [Next]_vars => Rooted' /\ BreakInv'
  BY RootedStep, BreakStep
<1>3. TypeOK /\ TypeOK' /\ Rooted /\ BreakInv /\ [Next]_vars
      => [VerifyChain # -1 => VerifyChain' # -1]_vars
  <2> SUFFICES ASSUME TypeOK, TypeOK', Rooted, BreakInv, Next, VerifyChain # -1
               PROVE  VerifyChain' # -1
    OBVIOUS
  <2>1. BadRows # {}
    BY ReportsBad DEF TypeOK
  <2>2. BadRows' # {}
    <3>1. CASE \E r \in Recorder : Insert(r)
      BY <2>1, <3>1, InsertKeepsBreak
    <3>2. CASE Alter
      BY <3>2, AlterBreaks
    <3>3. CASE rows' = rows
      BY <2>1, <3>3 DEF BadRows, RowOk, Earlier
    <3> QED
      BY <3>1, <3>2, <3>3 DEF Next, Tick, ReadCache, BuildRow, InsertFails, Publish,
         Restart, AdminAuditVerify
  <2>3. IsFiniteSet(rows')
    BY DEF TypeOK
  <2> DEFINE T == {a \in rows' : \A b \in BadRows' : Before(a, b)}
  <2>4. IsFiniteSet(T)
    BY <2>3, FS_Subset
  <2>5. Cardinality(T) \in Nat
    BY <2>4, FS_CardinalityType
  <2>6. VerifyChain' = Cardinality(T)
    BY <2>2 DEF VerifyChain, FirstIndex
  <2> HIDE DEF T
  <2> QED
    BY <2>5, <2>6
<1> QED
  BY <1>1, <1>2, <1>3, TypeCorrect, PTL DEF Spec, BreakIsPermanent
=============================================================================
