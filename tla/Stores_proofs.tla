--------------------------- MODULE Stores_proofs ---------------------------
(***************************************************************************)
(* Theorems of Stores: the three stores keep the promise of CcrStore, and  *)
(* none of them loses an entry silently, for any ids, originals, setups,   *)
(* clients and bounds.                                                     *)
(***************************************************************************)
EXTENDS Stores, TLAPS

\* The data of a row tells its original: a native row holds the payload that
\* was saved, any other row the text, or the envelope of the payload.
Genuine(row) ==
  IF row.native THEN IsNative(row.was) /\ row.data = row.was.data
  ELSE row.data = AsText(row.was)

\* A row is as old as its column says, in ticks or in whole seconds.
Dated(row) ==
  /\ setup.kind = "memory" => row.at = row.since
  /\ setup.kind = "sqlite" => row.at = row.since \div TicksPerSecond
  /\ row.since <= now

Sane(id, row) == row # None => Genuine(row) /\ Dated(row) /\ row.was \in saved[id]

\* Only fjall acknowledges, and what it has acknowledged is both what it
\* answers and what would survive.
AckedKept ==
  \A id \in Ids : acked[id] # None =>
    /\ setup.kind = "fjall"
    /\ rows[id] # None /\ rows[id].was = acked[id]
    /\ disk[id] # None /\ disk[id].was = acked[id]

StoreInv ==
  /\ TypeOK
  /\ \A id \in Ids : Sane(id, rows[id]) /\ Sane(id, disk[id])
  /\ AckedKept
-----------------------------------------------------------------------------
(* Payloads *)

\* What a text column holds is a string, and decoding it gives the payload or
\* the text that was encoded.
LEMMA TextFacts ==
  ASSUME NEW o \in Original
  PROVE  /\ AsText(o) \in Strings
         /\ o.api = "payload" => Decoded(AsText(o)) = o.data
<1>1. CASE o \in [api : {"text"}, data : Strings]
  BY <1>1 DEF AsText
<1>2. CASE o \in [api : {"payload"}, data : Payloads]
  BY <1>2 DEF AsText, Envelope, Strings, Decoded
<1>3. QED
  BY <1>1, <1>2 DEF Original

\* Whatever interface a row was saved through and is read through, the answer is
\* one that its original allows.
LEMMA ReadFacts ==
  ASSUME NEW row \in Row, Genuine(row), NEW api \in Apis
  PROVE  /\ Read(row, api) \in Promise!Replies(row.was, api)
         /\ Read(row, api) \in Strings \cup Payloads \cup {Refused}
<1>1. row # None /\ row.was # None /\ row.was \in Original
  BY StoreAssumption DEF Row
<1>2. CASE row.was \in [api : {"text"}, data : Strings]
  <2>1. ~row.native /\ row.data = row.was.data
    BY <1>2 DEF Genuine, IsNative, AsText, Row
  <2>2. Decoded(row.data) \in Strings \cup Payloads /\ row.data \in Strings
    BY <1>2, <2>1 DEF Decoded, Strings
  <2>3. QED
    BY <1>1, <1>2, <2>1, <2>2
       DEF Read, Promise!Replies, Promise!Decoded, Decoded, Apis
<1>3. CASE row.was \in [api : {"payload"}, data : Payloads]
  <2>1. CASE row.native
    BY <1>1, <1>3, <2>1 DEF Genuine, Read, Promise!Replies, Apis
  <2>2. CASE ~row.native
    <3>1. row.data = Envelope(row.was.data) /\ row.data \in Strings
      BY <1>1, <1>3, <2>2, TextFacts DEF Genuine, AsText
    <3>2. Decoded(row.data) = row.was.data
      BY <1>1, <1>3, <2>2, TextFacts DEF Genuine
    <3>3. QED
      BY <1>1, <1>3, <2>2, <3>1, <3>2
         DEF Read, Promise!Replies, Promise!Envelope, Envelope, Apis
  <2>3. QED
    BY <2>1, <2>2 DEF Row
<1>4. QED
  BY <1>1, <1>2, <1>3 DEF Original

\* Rows of the three stores are rows that tell their original.
LEMMA RowFacts ==
  ASSUME TypeOK, NEW o \in Original, NEW at \in Nat, NEW since \in Nat
  PROVE  LET text   == [data |-> AsText(o), native |-> FALSE, at |-> at,
                        was |-> o, since |-> since]
             native == [data |-> IF IsNative(o) THEN o.data ELSE AsText(o),
                        native |-> IsNative(o), at |-> at, was |-> o,
                        since |-> since]
         IN  text \in Row /\ Genuine(text) /\ native \in Row /\ Genuine(native)
<1>1. AsText(o) \in Strings /\ IsNative(o) \in BOOLEAN
  BY TextFacts DEF IsNative
<1>2. IsNative(o) => o.data \in Binary
  BY DEF IsNative
<1>3. QED
  BY <1>1, <1>2 DEF Row, Genuine
-----------------------------------------------------------------------------
(* The invariant *)

\* The parts of the invariant that a step disturbs one at a time.
LEMMA InvParts ==
  ASSUME StoreInv, setup' = setup, now' = now,
         rows' \in [Ids -> Row \cup {None}], disk' \in [Ids -> Row \cup {None}],
         saving' \in [Clients -> Ids \cup {None}],
         answer' \in Answer \cup {None},
         saved' \in [Ids -> SUBSET Original],
         acked' \in [Ids -> Original \cup {None}], boot' \in {0, 1},
         \A id \in Ids : /\ Sane(id, rows[id])' /\ Sane(id, disk[id])',
         AckedKept'
  PROVE  StoreInv'
BY DEF StoreInv, TypeOK, StateTypeOK

\* Initially there is nothing.
LEMMA InvInit == Init => StoreInv
BY StoreAssumption DEF Init, StoreInv, TypeOK, StateTypeOK, Sane, AckedKept

\* The history of a save that took effect: the row that it wrote is sane, the
\* other rows stay so, nothing is acknowledged under the id.
LEMMA SaveInv ==
  ASSUME StoreInv, NEW id \in Ids, NEW o \in Original, Recorded(id, o),
         NEW row \in Row, Genuine(row), Dated(row), row.was = o,
         setup' = setup, now' = now, answer' = answer, boot' = boot,
         disk' = disk, saving' \in [Clients -> Ids \cup {None}],
         rows' \in [Ids -> Row \cup {None}],
         rows'[id] = row,
         \A k \in Ids \ {id} : rows'[k] \in {rows[k], None},
         setup.kind = "fjall" => \A k \in Ids \ {id} : rows'[k] = rows[k]
  PROVE  StoreInv'
<1>1. /\ saved' \in [Ids -> SUBSET Original]
      /\ \A k \in Ids : saved[k] \subseteq saved'[k]
      /\ o \in saved'[id]
  BY DEF Recorded, StoreInv, TypeOK, StateTypeOK
<1>2. /\ acked' \in [Ids -> Original \cup {None}]
      /\ acked'[id] = None /\ \A k \in Ids \ {id} : acked'[k] = acked[k]
  BY DEF Recorded, StoreInv, TypeOK, StateTypeOK
<1>3. \A k \in Ids : Sane(k, rows[k])' /\ Sane(k, disk[k])'
  BY <1>1 DEF StoreInv, Sane, Dated
<1>4. AckedKept'
  BY <1>2 DEF StoreInv, AckedKept
<1>5. QED
  BY <1>1, <1>2, <1>3, <1>4, InvParts DEF StoreInv, TypeOK, StateTypeOK

\* Rows that are removed, and acknowledgements that are taken back with them.
LEMMA RemoveInv ==
  ASSUME StoreInv, setup' = setup, now' = now, boot' = boot, disk' = disk,
         saving' = saving, saved' = saved, answer' \in Answer \cup {None},
         rows' \in [Ids -> Row \cup {None}],
         acked' \in [Ids -> Original \cup {None}],
         \A k \in Ids : /\ rows'[k] \in {rows[k], None}
                        /\ acked'[k] \in {acked[k], None}
                        /\ acked'[k] = None \/ rows'[k] = rows[k]
  PROVE  StoreInv'
<1>1. \A k \in Ids : Sane(k, rows[k])' /\ Sane(k, disk[k])'
  BY DEF StoreInv, Sane, Dated
<1>2. AckedKept'
  BY DEF StoreInv, AckedKept
<1>3. QED
  BY <1>1, <1>2, InvParts DEF StoreInv, TypeOK, StateTypeOK

\* An answer is one when its result is.
LEMMA AnswerType ==
  ASSUME NEW id \in Ids, NEW api \in Apis, NEW res, Answered(id, api, res),
         res \in Strings \cup Payloads \cup {None, Error, Refused}
  PROVE  answer' \in Answer \cup {None}
BY DEF Answered, Answer

\* A read of a sane row yields an answer.
LEMMA SaneRead ==
  ASSUME NEW id \in Ids, NEW row \in Row \cup {None}, Sane(id, row),
         NEW api \in Apis
  PROVE  Read(row, api) \in Strings \cup Payloads \cup {None, Error, Refused}
<1>1. CASE row = None
  BY <1>1 DEF Read
<1>2. CASE row # None
  BY <1>2, ReadFacts DEF Sane
<1>3. QED
  BY <1>1, <1>2

\* What the restart finds is what the disk held.
LEMMA CrashInv ==
  ASSUME StoreInv, setup' = setup, now' = now, boot' \in {0, 1}, disk' = disk,
         saving' \in [Clients -> Ids \cup {None}], saved' = saved,
         answer' = answer, acked' = acked, rows' = disk
  PROVE  StoreInv'
<1>1. \A k \in Ids : Sane(k, rows[k])' /\ Sane(k, disk[k])'
  BY DEF StoreInv, Sane, Dated
<1>2. AckedKept'
  BY DEF StoreInv, AckedKept
<1>3. QED
  BY <1>1, <1>2, InvParts DEF StoreInv, TypeOK, StateTypeOK

\* What the disk takes over is what the store answers.
LEMMA SyncInv ==
  ASSUME StoreInv, setup' = setup, now' = now, boot' = boot, rows' = rows,
         saving' \in [Clients -> Ids \cup {None}], saved' = saved,
         answer' = answer, disk' = rows,
         acked' \in [Ids -> Original \cup {None}],
         \A k \in Ids : acked'[k] # None => /\ setup.kind = "fjall"
                                            /\ rows[k] # None
                                            /\ rows[k].was = acked'[k]
  PROVE  StoreInv'
<1>1. \A k \in Ids : Sane(k, rows[k])' /\ Sane(k, disk[k])'
  BY DEF StoreInv, Sane, Dated
<1>2. AckedKept'
  BY DEF AckedKept
<1>3. QED
  BY <1>1, <1>2, InvParts DEF StoreInv, TypeOK, StateTypeOK

\* Steps of the memory store.
LEMMA MemInv ==
  ASSUME StoreInv, setup.kind = "memory", MemNext
  PROVE  StoreInv'
<1> USE DEF kept
<1>1. TypeOK /\ now \in Nat /\ \A id \in Ids : acked[id] = None
  BY StoreAssumption DEF StoreInv, TypeOK, StateTypeOK, AckedKept
<1>2. ASSUME NEW w \in HostWrites, MemSave(w.id, w.original) PROVE StoreInv'
  <2>1. w.id \in Ids /\ w.original \in Original
    BY StoreAssumption DEF HostWrites
  <2> DEFINE id == w.id
             row == MemRow(w.original)
  <2>2. row \in Row /\ Genuine(row) /\ row.was = w.original /\ Dated(row)
    <3>1. row \in Row /\ Genuine(row)
      BY <1>1, <2>1, RowFacts DEF MemRow
    <3>2. row.was = w.original /\ row.at = now /\ row.since = now
      BY DEF MemRow
    <3> HIDE DEF row
    <3>3. QED
      BY <1>1, <3>1, <3>2 DEF Dated
  <2>3. /\ rows'[id] = row
        /\ rows' \in [Ids -> Row \cup {None}]
        /\ \A k \in Ids \ {id} : rows'[k] \in {rows[k], None}
    <3> HIDE DEF row
    <3>1. rows \in [Ids -> Row \cup {None}]
      BY <1>1 DEF TypeOK, StateTypeOK
    <3>2. CASE rows' = [rows EXCEPT ![id] = row]
      BY <2>1, <2>2, <3>1, <3>2
    <3>3. CASE \E k \in Victims(id) :
                 rows' = [rows EXCEPT ![k] = None, ![id] = row]
      BY <2>1, <2>2, <3>1, <3>3
    <3>4. QED
      BY <1>2, <3>2, <3>3 DEF MemSave, row
  <2> HIDE DEF row
  <2>4. /\ Recorded(id, w.original) /\ disk' = disk /\ saving' = saving
        /\ setup' = setup /\ now' = now /\ answer' = answer /\ boot' = boot
    BY <1>2 DEF MemSave
  <2>5. saving' \in [Clients -> Ids \cup {None}]
    BY <1>1, <2>4 DEF TypeOK, StateTypeOK
  <2> HIDE DEF id
  <2>6. id \in Ids
    BY <2>1 DEF id
  <2>7. QED
    BY <2>1, <2>2, <2>3, <2>4, <2>5, <2>6, SaveInv
<1>3. ASSUME NEW id \in Ids, NEW api \in Apis, MemRetrieve(id, api)
      PROVE  StoreInv'
  <2>1. rows[id] \in Row \cup {None} /\ Sane(id, rows[id])
    BY DEF StoreInv, TypeOK, StateTypeOK
  <2>2. answer' \in Answer \cup {None}
    <3>1. CASE Answered(id, api, None)
      BY <3>1, AnswerType
    <3>2. CASE Answered(id, api, Read(rows[id], api))
      BY <2>1, <3>2, SaneRead, AnswerType
    <3>3. QED
      BY <1>3, <3>1, <3>2 DEF MemRetrieve
  <2>3. /\ rows' \in [Ids -> Row \cup {None}]
        /\ \A k \in Ids : rows'[k] \in {rows[k], None}
    BY <1>1, <1>3 DEF MemRetrieve, TypeOK, StateTypeOK
  <2>4. QED
    BY <1>1, <1>3, <2>2, <2>3, RemoveInv DEF MemRetrieve, TypeOK, StateTypeOK
<1>4. ASSUME NEW id \in Ids, MemDelete(id) PROVE StoreInv'
  <2>1. /\ rows' \in [Ids -> Row \cup {None}] /\ acked' \in [Ids -> Original \cup {None}]
        /\ \A k \in Ids : /\ rows'[k] \in {rows[k], None}
                          /\ acked'[k] = None
    BY <1>1, <1>4 DEF MemDelete, TypeOK, StateTypeOK
  <2>2. QED
    BY <1>1, <1>4, <2>1, RemoveInv DEF MemDelete, TypeOK, StateTypeOK
<1>5. ASSUME MemCrash PROVE StoreInv'
  <2>1. boot' \in {0, 1} /\ rows' \in [Ids -> Row \cup {None}]
    BY <1>1, <1>5 DEF MemCrash, Crashed, TypeOK, StateTypeOK
  <2>2. \A k \in Ids : Sane(k, rows[k])' /\ Sane(k, disk[k])'
    BY <1>5 DEF MemCrash, StoreInv, Sane, Dated
  <2>3. AckedKept'
    BY <1>1, <1>5 DEF MemCrash, AckedKept
  <2>4. QED
    BY <1>5, <2>1, <2>2, <2>3, InvParts
       DEF MemCrash, StoreInv, TypeOK, StateTypeOK
<1>6. QED
  BY <1>2, <1>3, <1>4, <1>5 DEF MemNext

\* A row of a database or of a partition: the payload natively when it can be.
LEMMA NativeRowFacts ==
  ASSUME TypeOK, NEW o \in Original
  PROVE  LET sql == SqlRow(None, o)
             fj  == FjRow(o)
         IN  /\ sql \in Row /\ Genuine(sql) /\ sql.was = o
             /\ sql.at = Seconds /\ sql.since = now /\ Seconds \in Nat
             /\ fj \in Row /\ Genuine(fj) /\ fj.was = o /\ fj.since = 0
<1>1. now \in Nat
  BY StoreAssumption DEF TypeOK, StateTypeOK
<1>2. Seconds \in Nat
  BY <1>1, SqliteAssumption DEF Seconds
<1>3. SqlRow(None, o) \in Row /\ Genuine(SqlRow(None, o))
  BY <1>1, <1>2, RowFacts DEF SqlRow
<1>4. FjRow(o) \in Row /\ Genuine(FjRow(o))
  BY RowFacts DEF FjRow
<1>5. QED
  BY <1>2, <1>3, <1>4 DEF SqlRow, FjRow

\* Steps of the sqlite store: a purge removes rows, a power loss brings back
\* those of the disk.
LEMMA SqlInv ==
  ASSUME StoreInv, setup.kind = "sqlite", SqlNext
  PROVE  StoreInv'
<1> USE DEF kept
<1>1. TypeOK /\ now \in Nat /\ \A id \in Ids : acked[id] = None
  BY StoreAssumption DEF StoreInv, TypeOK, StateTypeOK, AckedKept
<1>2. ASSUME NEW w \in HostWrites, SqlSave(w.id, w.original) PROVE StoreInv'
  <2>1. w.id \in Ids /\ w.original \in Original
    BY StoreAssumption DEF HostWrites
  <2> DEFINE id == w.id
             row == SqlRow(w.id, w.original)
  <2>2. row \in Row /\ Genuine(row) /\ row.was = w.original /\ Dated(row)
    <3>1. /\ row \in Row /\ Genuine(row) /\ row.was = w.original
          /\ row.at = Seconds /\ row.since = now
      BY <1>1, <2>1, NativeRowFacts DEF SqlRow
    <3> HIDE DEF row
    <3>2. QED
      BY <1>1, <3>1 DEF Dated, Seconds
  <2>3. /\ rows'[id] = row
        /\ rows' \in [Ids -> Row \cup {None}]
        /\ \A k \in Ids \ {id} : rows'[k] = rows[k]
    <3>1. rows' = [rows EXCEPT ![id] = row]
      BY <1>2 DEF SqlSave
    <3> HIDE DEF row
    <3>2. QED
      BY <1>1, <2>1, <2>2, <3>1 DEF TypeOK, StateTypeOK
  <2> HIDE DEF row
  <2>4. /\ Recorded(id, w.original) /\ disk' = disk /\ saving' = saving
        /\ setup' = setup /\ now' = now /\ answer' = answer /\ boot' = boot
    BY <1>2 DEF SqlSave
  <2>5. saving' \in [Clients -> Ids \cup {None}]
    BY <1>1, <2>4 DEF TypeOK, StateTypeOK
  <2> HIDE DEF id
  <2>6. id \in Ids
    BY <2>1 DEF id
  <2>7. QED
    BY <2>1, <2>2, <2>3, <2>4, <2>5, <2>6, SaveInv
<1>3. ASSUME NEW id \in Ids, NEW api \in Apis, SqlRetrieve(id, api)
      PROVE  StoreInv'
  <2>1. /\ rows' \in [Ids -> Row \cup {None}]
        /\ \A k \in Ids : rows'[k] \in {rows[k], None}
    BY <1>1, <1>3 DEF SqlRetrieve, SqlPurged, TypeOK, StateTypeOK
  <2>2. SqlPurged[id] \in Row \cup {None} /\ Sane(id, SqlPurged[id])
    <3>1. rows[id] \in Row \cup {None} /\ Sane(id, rows[id])
      BY DEF StoreInv, TypeOK, StateTypeOK
    <3>2. QED
      BY <3>1 DEF SqlPurged, Sane
  <2>3. answer' \in Answer \cup {None}
    <3>1. CASE Answered(id, api, Error)
      BY <3>1, AnswerType
    <3>2. CASE Answered(id, api, Read(SqlPurged[id], api))
      BY <2>2, <3>2, SaneRead, AnswerType
    <3>3. QED
      BY <1>3, <3>1, <3>2 DEF SqlRetrieve
  <2>4. QED
    BY <1>1, <1>3, <2>1, <2>3, RemoveInv DEF SqlRetrieve, TypeOK, StateTypeOK
<1>4. ASSUME NEW id \in Ids, SqlDelete(id) PROVE StoreInv'
  <2>1. /\ rows' \in [Ids -> Row \cup {None}] /\ acked' \in [Ids -> Original \cup {None}]
        /\ \A k \in Ids : /\ rows'[k] \in {rows[k], None}
                          /\ acked'[k] = None
    BY <1>1, <1>4 DEF SqlDelete, TypeOK, StateTypeOK
  <2>2. QED
    BY <1>1, <1>4, <2>1, RemoveInv DEF SqlDelete, TypeOK, StateTypeOK
<1>5. ASSUME SqlCheckpoint PROVE StoreInv'
  BY <1>1, <1>5, SyncInv DEF SqlCheckpoint, TypeOK, StateTypeOK
<1>6. ASSUME SqlPowerLoss PROVE StoreInv'
  BY <1>1, <1>6, CrashInv DEF SqlPowerLoss, Crashed, TypeOK, StateTypeOK, AckedKept
<1>7. QED
  BY <1>2, <1>3, <1>4, <1>5, <1>6 DEF SqlNext

\* Steps of the fjall store: the sync of a save acknowledges what the partition
\* holds under its id by then, and nothing else does.
LEMMA FjInv ==
  ASSUME StoreInv, setup.kind = "fjall", FjNext
  PROVE  StoreInv'
<1> USE DEF kept
<1>1. TypeOK /\ now \in Nat /\ None \notin Row \cup Original
  BY StoreAssumption DEF StoreInv, TypeOK, StateTypeOK
<1>2. ASSUME NEW c \in Clients, NEW w \in HostWrites,
             FjInsert(c, w.id, w.original)
      PROVE  StoreInv'
  <2>1. w.id \in Ids /\ w.original \in Original
    BY StoreAssumption DEF HostWrites
  <2> DEFINE id == w.id
             row == FjRow(w.original)
  <2>2. row \in Row /\ Genuine(row) /\ row.was = w.original /\ Dated(row)
    <3>1. /\ row \in Row /\ Genuine(row) /\ row.was = w.original
          /\ row.since = 0
      BY <1>1, <2>1, NativeRowFacts
    <3> HIDE DEF row
    <3>2. QED
      BY <1>1, <3>1 DEF Dated
  <2>3. /\ rows'[id] = row
        /\ rows' \in [Ids -> Row \cup {None}]
        /\ \A k \in Ids \ {id} : rows'[k] = rows[k]
    <3>1. rows' = [rows EXCEPT ![id] = row]
      BY <1>2 DEF FjInsert
    <3> HIDE DEF row
    <3>2. QED
      BY <1>1, <2>1, <2>2, <3>1 DEF TypeOK, StateTypeOK
  <2> HIDE DEF row
  <2>4. /\ Recorded(id, w.original) /\ disk' = disk
        /\ setup' = setup /\ now' = now /\ answer' = answer /\ boot' = boot
    BY <1>2 DEF FjInsert
  <2>5. saving' \in [Clients -> Ids \cup {None}]
    BY <1>1, <1>2, <2>1 DEF FjInsert, TypeOK, StateTypeOK
  <2> HIDE DEF id
  <2>6. id \in Ids
    BY <2>1 DEF id
  <2>7. QED
    BY <2>1, <2>2, <2>3, <2>4, <2>5, <2>6, SaveInv
<1>3. ASSUME NEW c \in Clients, FjPersist(c) PROVE StoreInv'
  <2>1. saving' \in [Clients -> Ids \cup {None}] /\ saving[c] \in Ids
    BY <1>1, <1>3 DEF FjPersist, TypeOK, StateTypeOK
  <2> DEFINE id == saving[c]
             new == IF rows[id] = None THEN None ELSE rows[id].was
  <2>2. rows[id] \in Row \cup {None} /\ new \in Original \cup {None}
    BY <1>1, <2>1 DEF TypeOK, StateTypeOK, Row
  <2>3. acked' = [acked EXCEPT ![id] = new]
    BY <1>3 DEF FjPersist
  <2>4. new # None => rows[id] # None /\ rows[id].was = new
    OBVIOUS
  <2> HIDE DEF new
  <2>5. acked' \in [Ids -> Original \cup {None}]
    BY <1>1, <2>2, <2>3 DEF TypeOK, StateTypeOK
  <2>6. \A k \in Ids : acked'[k] # None => rows[k] # None /\ rows[k].was = acked'[k]
    BY <1>1, <2>3, <2>4 DEF StoreInv, AckedKept, TypeOK, StateTypeOK
  <2>7. QED
    BY <1>3, <2>1, <2>5, <2>6, SyncInv DEF FjPersist
<1>4. ASSUME NEW c \in Clients, FjPersistFails(c) PROVE StoreInv'
  <2>1. saving' \in [Clients -> Ids \cup {None}]
    BY <1>1, <1>4 DEF FjPersistFails, TypeOK, StateTypeOK
  <2>2. \A k \in Ids : Sane(k, rows[k])' /\ Sane(k, disk[k])'
    BY <1>4 DEF FjPersistFails, StoreInv, Sane, Dated
  <2>3. AckedKept'
    BY <1>4 DEF FjPersistFails, StoreInv, AckedKept
  <2>4. QED
    BY <1>4, <2>1, <2>2, <2>3, InvParts
       DEF FjPersistFails, StoreInv, TypeOK, StateTypeOK
<1>5. ASSUME NEW id \in Ids, NEW api \in Apis, FjRetrieve(id, api)
      PROVE  StoreInv'
  <2>1. rows[id] \in Row \cup {None} /\ Sane(id, rows[id])
    BY DEF StoreInv, TypeOK, StateTypeOK
  <2>2. answer' \in Answer \cup {None}
    <3>1. CASE Answered(id, api, Error)
      BY <3>1, AnswerType
    <3>2. CASE Answered(id, api, Read(rows[id], api))
      BY <2>1, <3>2, SaneRead, AnswerType
    <3>3. QED
      BY <1>5, <3>1, <3>2 DEF FjRetrieve
  <2>3. QED
    BY <1>1, <1>5, <2>2, RemoveInv DEF FjRetrieve, TypeOK, StateTypeOK
<1>6. ASSUME NEW id \in Ids, FjDelete(id) PROVE StoreInv'
  <2>1. /\ rows' \in [Ids -> Row \cup {None}] /\ acked' \in [Ids -> Original \cup {None}]
        /\ \A k \in Ids : /\ rows'[k] \in {rows[k], None}
                          /\ acked'[k] \in {acked[k], None}
                          /\ acked'[k] = None \/ rows'[k] = rows[k]
    BY <1>1, <1>6 DEF FjDelete, TypeOK, StateTypeOK
  <2>2. QED
    BY <1>1, <1>6, <2>1, RemoveInv DEF FjDelete, TypeOK, StateTypeOK
<1>7. ASSUME FjWriteBack PROVE StoreInv'
  BY <1>1, <1>7, SyncInv DEF FjWriteBack, StoreInv, AckedKept, TypeOK, StateTypeOK
<1>8. ASSUME FjCrash PROVE StoreInv'
  BY <1>1, <1>8, CrashInv DEF FjCrash, Crashed, TypeOK, StateTypeOK
<1>9. QED
  BY <1>2, <1>3, <1>4, <1>5, <1>6, <1>7, <1>8 DEF FjNext

\* The clock dates nothing back.
LEMMA TickInv ==
  ASSUME StoreInv, Tick
  PROVE  StoreInv'
<1>1. now \in Nat /\ MaxTick \in Nat /\ now' = now + 1 /\ now' \in 0 .. MaxTick
  BY StoreAssumption DEF Tick, StoreInv, TypeOK, StateTypeOK
<1>2. TypeOK'
  BY <1>1 DEF Tick, StoreInv, TypeOK, StateTypeOK
<1>3. ASSUME NEW k \in Ids, NEW row \in Row \cup {None}, Sane(k, row)
      PROVE  row # None => /\ Genuine(row) /\ row.was \in saved'[k]
                           /\ setup'.kind = "memory" => row.at = row.since
                           /\ setup'.kind = "sqlite" => row.at = row.since \div TicksPerSecond
                           /\ row.since <= now'
  <2>1. row # None => row.since \in Nat
    BY DEF Row
  <2>2. QED
    BY <1>1, <1>3, <2>1 DEF Tick, Sane, Dated
<1>4. \A k \in Ids : Sane(k, rows[k])' /\ Sane(k, disk[k])'
  <2> SUFFICES ASSUME NEW k \in Ids PROVE Sane(k, rows[k])' /\ Sane(k, disk[k])'
    OBVIOUS
  <2>1. /\ rows[k] \in Row \cup {None} /\ Sane(k, rows[k])
        /\ disk[k] \in Row \cup {None} /\ Sane(k, disk[k])
    BY DEF StoreInv, TypeOK, StateTypeOK
  <2>2. rows' = rows /\ disk' = disk
    BY DEF Tick
  <2>3. QED
    BY <1>3, <2>1, <2>2 DEF Sane, Dated, Genuine
<1>5. AckedKept'
  BY DEF Tick, StoreInv, AckedKept
<1>6. QED
  BY <1>2, <1>4, <1>5 DEF StoreInv

\* Every step preserves the invariant.
LEMMA StoreNext == StoreInv /\ [Next]_vars => StoreInv'
<1> SUFFICES ASSUME StoreInv, [Next]_vars PROVE StoreInv'
  OBVIOUS
<1>1. CASE setup.kind = "memory" /\ MemNext
  BY <1>1, MemInv
<1>2. CASE setup.kind = "sqlite" /\ SqlNext
  BY <1>2, SqlInv
<1>3. CASE setup.kind = "fjall" /\ FjNext
  BY <1>3, FjInv
<1>4. CASE Tick
  BY <1>4, TickInv
<1>5. CASE UNCHANGED vars
  BY <1>5 DEF vars, StoreInv, TypeOK, StateTypeOK, Sane, Dated, AckedKept
<1>6. QED
  BY <1>1, <1>2, <1>3, <1>4, <1>5 DEF Next

\* Every value of a store's state is one of its type: a row is a text, or a
\* binary payload stored natively, whatever was saved, replaced and restored
\* under its id (SqliteCcrStore, save_payload; FjallCcrStore, retrieve_payload).
THEOREM StoresTyped == Spec => []TypeOK
<1>1. StoreInv => TypeOK
  BY DEF StoreInv
<1>2. QED
  BY <1>1, InvInit, StoreNext, PTL DEF Spec
-----------------------------------------------------------------------------
(* The promise *)

\* What the promise says of a store depends on its row, its kind and the clock.
LEMMA SameContents ==
  ASSUME setup' = setup, now' = now, NEW k \in Ids
  PROVE  /\ rows'[k] = rows[k] => (Live(k)' <=> Live(k)) /\ Contents'[k] = Contents[k]
         /\ rows'[k] = None => ~Live(k)' /\ Contents'[k] = None
BY DEF Contents, Live, MemExpired, SqlExpired, Seconds

\* A store that holds nothing holds the contents of nothing.
LEMMA PromiseInit == Init => Promise!Init
BY DEF Init, Promise!Init, Contents, Live, Forgetful

\* A save is a write of the promise.
LEMMA WriteStep ==
  ASSUME NEW id \in Ids, NEW o \in Original, Recorded(id, o),
         setup' = setup, answer' = answer, boot' = boot,
         \A k \in Ids :
           \/ Contents'[k] = IF k = id THEN o ELSE Contents[k]
           \/ Forgetful /\ Contents'[k] = None
  PROVE  Promise!Next
<1>1. \A k \in Ids : [Contents EXCEPT ![id] = o][k] =
                       IF k = id THEN o ELSE Contents[k]
  BY DEF Contents
<1>2. Promise!Becomes([Contents EXCEPT ![id] = o])
  BY <1>1 DEF Promise!Becomes
<1>3. Forgetful' = Forgetful
  BY DEF Forgetful
<1>4. Promise!Write(id, o)
  BY <1>2, <1>3 DEF Promise!Write, Recorded
<1>5. QED
  BY <1>4 DEF Promise!Next, Promise!Original, Promise!Strings, Original, Strings

\* A delete is a removal of the promise.
LEMMA RemoveStep ==
  ASSUME NEW id \in Ids, setup' = setup, now' = now, answer' = answer,
         boot' = boot, saved' = saved, TypeOK,
         rows' = [rows EXCEPT ![id] = None], acked' = [acked EXCEPT ![id] = None]
  PROVE  Promise!Next
<1>1. \A k \in Ids : rows'[k] = IF k = id THEN None ELSE rows[k]
  BY DEF TypeOK, StateTypeOK
<1>2. \A k \in Ids : Contents'[k] = IF k = id THEN None ELSE Contents[k]
  BY <1>1, SameContents
<1>3. Contents' = [Contents EXCEPT ![id] = None]
  BY <1>2 DEF Contents
<1>4. Promise!Remove(id)
  BY <1>3 DEF Promise!Remove, Forgetful
<1>5. QED
  BY <1>4 DEF Promise!Next

\* A read is a read of the promise: what it answers is what the contents allow,
\* or an error, and what it removes was no longer part of the contents.
LEMMA ReadStep ==
  ASSUME NEW id \in Ids, NEW api \in Apis, NEW res, Answered(id, api, res),
         res \in Promise!Replies(Contents[id], api) \cup {Error},
         setup' = setup, saved' = saved, acked' = acked, boot' = boot,
         Contents' = Contents
  PROVE  Promise!Next
<1>1. Promise!Read(id, api)
  BY DEF Promise!Read, Answered, Forgetful
<1>2. QED
  BY <1>1 DEF Promise!Next, Promise!Apis, Apis

\* What is read from a live row is what the contents allow.
LEMMA LiveReply ==
  ASSUME StoreInv, NEW id \in Ids, NEW api \in Apis
  PROVE  /\ Live(id) => Read(rows[id], api) \in Promise!Replies(Contents[id], api)
         /\ ~Live(id) => None \in Promise!Replies(Contents[id], api)
<1>1. rows[id] \in Row \cup {None} /\ Sane(id, rows[id])
  BY DEF StoreInv, TypeOK, StateTypeOK
<1>2. CASE Live(id)
  <2>1. rows[id] \in Row /\ Genuine(rows[id]) /\ Contents[id] = rows[id].was
    BY <1>1, <1>2 DEF Live, Contents, Sane
  <2>2. QED
    BY <1>2, <2>1, ReadFacts
<1>3. CASE ~Live(id)
  BY <1>3 DEF Contents, Promise!Replies
<1>4. QED
  BY <1>2, <1>3

\* A crash is a crash of the promise, when what it leaves was saved, and holds
\* what was acknowledged.
LEMMA CrashStep ==
  ASSUME setup' = setup, saved' = saved, acked' = acked, answer' = answer,
         boot' = 1 - boot,
         \A id \in Ids : IF acked[id] # None THEN Contents'[id] = acked[id]
                         ELSE Contents'[id] \in saved[id] \cup {None}
  PROVE  Promise!Next
<1>1. Promise!Crash
  BY DEF Promise!Crash, Forgetful
<1>2. QED
  BY <1>1 DEF Promise!Next

\* Steps that change nothing the promise is about.
LEMMA StutterStep ==
  ASSUME setup' = setup, Contents' = Contents, saved' = saved, acked' = acked,
         answer' = answer, boot' = boot
  PROVE  UNCHANGED Promise!vars
BY DEF Promise!vars, Forgetful

\* The memory store: a new row is live, and the entry that makes room for it is
\* forgotten, which a store with a capacity may do.
LEMMA MemStep ==
  ASSUME StoreInv, setup.kind = "memory", MemNext
  PROVE  [Promise!Next]_(Promise!vars)
<1> USE DEF kept
<1>1. /\ TypeOK /\ now \in Nat /\ None \notin Row /\ setup \in Setup
      /\ \A id \in Ids : acked[id] = None
  BY StoreAssumption DEF StoreInv, TypeOK, StateTypeOK, AckedKept
<1>2. ASSUME NEW w \in HostWrites, MemSave(w.id, w.original) PROVE Promise!Next
  <2>1. w.id \in Ids /\ w.original \in Original
    BY StoreAssumption DEF HostWrites
  <2> DEFINE id == w.id
             o == w.original
             row == MemRow(o)
  <2>2. row \in Row /\ row.was = o /\ row.at = now
    BY <1>1, <2>1, RowFacts DEF MemRow
  <2> HIDE DEF row
  <2>3. /\ rows'[id] = row
        /\ \A k \in Ids \ {id} :
             rows'[k] = rows[k] \/ (setup.capacity # None /\ rows'[k] = None)
    <3>1. rows \in [Ids -> Row \cup {None}]
      BY <1>1 DEF TypeOK, StateTypeOK
    <3>2. CASE rows' = [rows EXCEPT ![id] = row]
      <4>1. rows'[id] = row /\ \A k \in Ids \ {id} : rows'[k] = rows[k]
        BY <2>1, <3>1, <3>2
      <4>2. QED
        BY <4>1
    <3>3. CASE \E k \in Victims(id) :
                 rows' = [rows EXCEPT ![k] = None, ![id] = row]
      <4>1. setup.capacity # None
        BY <3>3 DEF Victims
      <4>2. PICK v : rows' = [rows EXCEPT ![v] = None, ![id] = row]
        BY <3>3
      <4>3. /\ rows'[id] = row
            /\ \A k \in Ids \ {id} : rows'[k] = rows[k] \/ rows'[k] = None
        BY <2>1, <3>1, <4>2
      <4>4. QED
        BY <4>1, <4>3
    <3>4. QED
      BY <1>2, <3>2, <3>3 DEF MemSave, row
  <2>4. /\ Recorded(id, o) /\ setup' = setup /\ now' = now /\ answer' = answer
        /\ boot' = boot
    BY <1>2 DEF MemSave
  <2>5. Contents'[id] = o
    <3>1. ~(now' - row.at > setup'.ttl) \/ setup'.ttl = None
      BY <1>1, <2>2, <2>4 DEF Setup
    <3>2. Live(id)'
      BY <1>1, <2>1, <2>2, <2>3, <2>4, <3>1 DEF Live, MemExpired
    <3>3. QED
      BY <2>1, <2>2, <2>3, <3>2 DEF Contents
  <2>6. \A k \in Ids \ {id} : \/ Contents'[k] = Contents[k]
                              \/ Forgetful /\ Contents'[k] = None
    BY <2>3, <2>4, SameContents DEF Forgetful
  <2> HIDE DEF id, o
  <2>7. id \in Ids /\ o \in Original
    BY <2>1 DEF id, o
  <2>8. QED
    BY <2>4, <2>5, <2>6, <2>7, WriteStep
<1>3. ASSUME NEW id \in Ids, NEW api \in Apis, MemRetrieve(id, api)
      PROVE  Promise!Next
  <2>1. /\ setup' = setup /\ now' = now /\ saved' = saved /\ acked' = acked
        /\ boot' = boot
    BY <1>3 DEF MemRetrieve
  <2>2. CASE rows[id] # None /\ MemExpired(rows[id])
    <3>1. ~Live(id)
      BY <1>1, <2>2 DEF Live
    <3>2. \A k \in Ids : Contents'[k] = Contents[k]
      <4>1. \A k \in Ids : rows'[k] = IF k = id THEN None ELSE rows[k]
        BY <1>1, <1>3, <2>2 DEF MemRetrieve, TypeOK, StateTypeOK
      <4>2. Contents[id] = None
        BY <3>1 DEF Contents
      <4>3. QED
        BY <2>1, <4>1, <4>2, SameContents
    <3>3. Contents' = Contents
      BY <3>2 DEF Contents
    <3>4. Answered(id, api, None)
      BY <1>3, <2>2 DEF MemRetrieve
    <3>5. QED
      BY <2>1, <3>1, <3>3, <3>4, LiveReply, ReadStep
  <2>3. CASE ~(rows[id] # None /\ MemExpired(rows[id]))
    <3>1. rows' = rows /\ Answered(id, api, Read(rows[id], api))
      BY <1>3, <2>3 DEF MemRetrieve
    <3>2. \A k \in Ids : Contents'[k] = Contents[k]
      BY <2>1, <3>1, SameContents
    <3>3. Contents' = Contents
      BY <3>2 DEF Contents
    <3>4. Read(rows[id], api) \in Promise!Replies(Contents[id], api)
      <4>1. CASE rows[id] = None
        BY <4>1, LiveReply DEF Live, Read
      <4>2. CASE rows[id] # None
        BY <1>1, <2>3, <4>2, LiveReply DEF Live
      <4>3. QED
        BY <4>1, <4>2
    <3>5. QED
      BY <2>1, <3>1, <3>3, <3>4, ReadStep
  <2>4. QED
    BY <2>2, <2>3
<1>4. ASSUME NEW id \in Ids, MemDelete(id) PROVE Promise!Next
  BY <1>1, <1>4, RemoveStep DEF MemDelete
<1>5. ASSUME MemCrash PROVE Promise!Next
  <2>1. \A id \in Ids : Contents'[id] = None
    BY <1>5, SameContents DEF MemCrash
  <2>2. QED
    BY <1>1, <1>5, <2>1, CrashStep DEF MemCrash, Crashed
<1>6. QED
  BY <1>2, <1>3, <1>4, <1>5 DEF MemNext

\* The sqlite store: a row that is saved with a time to live of zero seconds, or
\* one that is negative as an i64, is forgotten at once; a delete that fails,
\* and a checkpoint, change nothing that the promise is about.
LEMMA SqlStep ==
  ASSUME StoreInv, setup.kind = "sqlite", SqlNext
  PROVE  [Promise!Next]_(Promise!vars)
<1> USE DEF kept
<1>1. /\ TypeOK /\ now \in Nat /\ None \notin Row /\ setup \in Setups
      /\ \A id \in Ids : acked[id] = None
  BY StoreAssumption DEF StoreInv, TypeOK, StateTypeOK, AckedKept
<1>2. Forgetful
  BY <1>1, SqliteAssumption, StoreAssumption DEF Forgetful, Setup
<1>3. ASSUME NEW w \in HostWrites, SqlSave(w.id, w.original) PROVE Promise!Next
  <2>1. w.id \in Ids /\ w.original \in Original
    BY StoreAssumption DEF HostWrites
  <2> DEFINE id == w.id
             o == w.original
             row == SqlRow(w.id, o)
  <2>2. row \in Row /\ row.was = o
    BY <1>1, <2>1, NativeRowFacts DEF SqlRow
  <2>3. /\ Recorded(id, o) /\ setup' = setup /\ now' = now /\ answer' = answer
        /\ boot' = boot /\ rows' = [rows EXCEPT ![id] = row]
    BY <1>3 DEF SqlSave
  <2> HIDE DEF row
  <2>4. rows'[id] = row /\ \A k \in Ids \ {id} : rows'[k] = rows[k]
    BY <1>1, <2>1, <2>3 DEF TypeOK, StateTypeOK
  <2>5. Contents'[id] \in {o, None}
    BY <2>1, <2>2, <2>4 DEF Contents
  <2>6. \A k \in Ids \ {id} : Contents'[k] = Contents[k]
    BY <2>3, <2>4, SameContents
  <2> HIDE DEF id, o
  <2>7. id \in Ids /\ o \in Original
    BY <2>1 DEF id, o
  <2>8. QED
    BY <1>2, <2>3, <2>5, <2>6, <2>7, WriteStep
<1>4. ASSUME NEW id \in Ids, NEW api \in Apis, SqlRetrieve(id, api)
      PROVE  Promise!Next
  <2>1. /\ setup' = setup /\ now' = now /\ saved' = saved /\ acked' = acked
        /\ boot' = boot
    BY <1>4 DEF SqlRetrieve
  <2>2. \A k \in Ids : Contents'[k] = Contents[k]
    <3> SUFFICES ASSUME NEW k \in Ids PROVE Contents'[k] = Contents[k]
      OBVIOUS
    <3>1. CASE rows'[k] = rows[k]
      BY <2>1, <3>1, SameContents
    <3>2. CASE rows'[k] = None /\ k \in Held /\ SqlExpired(rows[k])
      <4>1. ~Live(k)
        BY <3>2 DEF Live
      <4>2. QED
        BY <2>1, <3>2, <4>1, SameContents DEF Contents
    <3>3. QED
      BY <1>4, <3>1, <3>2 DEF SqlRetrieve, SqlPurged
  <2>3. Contents' = Contents
    BY <2>2 DEF Contents
  <2>4. Read(SqlPurged[id], api) \in Promise!Replies(Contents[id], api)
    <3>1. CASE Live(id)
      <4>1. SqlPurged[id] = rows[id]
        BY <3>1 DEF Live, SqlPurged
      <4>2. QED
        BY <3>1, <4>1, LiveReply
    <3>2. CASE ~Live(id)
      <4>1. SqlPurged[id] = None
        BY <3>2 DEF Live, SqlPurged, Held
      <4>2. QED
        BY <3>2, <4>1, LiveReply DEF Read
    <3>3. QED
      BY <3>1, <3>2
  <2>5. PICK res \in {Read(SqlPurged[id], api), Error} : Answered(id, api, res)
    BY <1>4 DEF SqlRetrieve
  <2>6. QED
    BY <2>1, <2>3, <2>4, <2>5, ReadStep
<1>5. ASSUME rows' = rows, setup' = setup, now' = now, saved' = saved,
             acked' = acked, answer' = answer, boot' = boot
      PROVE  UNCHANGED Promise!vars
  <2>1. \A k \in Ids : Contents'[k] = Contents[k]
    BY <1>5, SameContents
  <2>2. Contents' = Contents
    BY <2>1 DEF Contents
  <2>3. QED
    BY <1>5, <2>2, StutterStep
<1>6. ASSUME NEW id \in Ids, SqlDelete(id)
      PROVE  [Promise!Next]_(Promise!vars)
  <2>1. CASE rows' = [rows EXCEPT ![id] = None]
    BY <1>1, <1>6, <2>1, RemoveStep DEF SqlDelete
  <2>2. CASE rows' = rows
    <3>1. acked' = acked
      BY <1>1, <1>6 DEF SqlDelete, TypeOK, StateTypeOK
    <3>2. QED
      BY <1>5, <1>6, <2>2, <3>1 DEF SqlDelete
  <2>3. QED
    BY <1>6, <2>1, <2>2 DEF SqlDelete
<1>7. ASSUME SqlCheckpoint PROVE UNCHANGED Promise!vars
  BY <1>5, <1>7 DEF SqlCheckpoint
<1>8. ASSUME SqlPowerLoss PROVE Promise!Next
  <2>1. \A id \in Ids : Contents'[id] \in saved[id] \cup {None}
    BY <1>8 DEF SqlPowerLoss, Contents, Live, StoreInv, Sane
  <2>2. QED
    BY <1>1, <1>8, <2>1, CrashStep DEF SqlPowerLoss, Crashed
<1>9. QED
  BY <1>3, <1>4, <1>6, <1>7, <1>8 DEF SqlNext

\* The fjall store: the sync of a save acknowledges it, or what another thread
\* has put in its place, and a crash keeps what was acknowledged.
LEMMA FjStep ==
  ASSUME StoreInv, setup.kind = "fjall", FjNext
  PROVE  [Promise!Next]_(Promise!vars)
<1> USE DEF kept
<1>1. TypeOK /\ now \in Nat /\ None \notin Row
  BY StoreAssumption DEF StoreInv, TypeOK, StateTypeOK
<1>2. \A id \in Ids : Live(id) <=> rows[id] # None
  BY DEF Live
<1>3. ASSUME rows' = rows, setup' = setup, now' = now
      PROVE  Contents' = Contents
  <2>1. \A k \in Ids : Contents'[k] = Contents[k]
    BY <1>3, SameContents
  <2>2. QED
    BY <2>1 DEF Contents
<1>4. ASSUME NEW c \in Clients, NEW w \in HostWrites,
             FjInsert(c, w.id, w.original)
      PROVE  Promise!Next
  <2>1. w.id \in Ids /\ w.original \in Original
    BY StoreAssumption DEF HostWrites
  <2> DEFINE id == w.id
             o == w.original
             row == FjRow(o)
  <2>2. row \in Row /\ row.was = o
    BY <1>1, <2>1, NativeRowFacts
  <2>3. /\ Recorded(id, o) /\ setup' = setup /\ now' = now /\ answer' = answer
        /\ boot' = boot /\ rows' = [rows EXCEPT ![id] = row]
    BY <1>4 DEF FjInsert
  <2> HIDE DEF row
  <2>4. rows'[id] = row /\ \A k \in Ids \ {id} : rows'[k] = rows[k]
    BY <1>1, <2>1, <2>3 DEF TypeOK, StateTypeOK
  <2>5. Contents'[id] = o
    BY <1>1, <2>1, <2>2, <2>3, <2>4 DEF Contents, Live
  <2>6. \A k \in Ids \ {id} : Contents'[k] = Contents[k]
    BY <2>3, <2>4, SameContents
  <2> HIDE DEF id, o
  <2>7. id \in Ids /\ o \in Original
    BY <2>1 DEF id, o
  <2>8. QED
    BY <2>3, <2>5, <2>6, <2>7, WriteStep
<1>5. ASSUME NEW c \in Clients, FjPersist(c) PROVE Promise!Next
  <2> DEFINE id == saving[c]
  <2>1. id \in Ids
    BY <1>1, <1>5 DEF FjPersist, TypeOK, StateTypeOK
  <2>2. Contents[id] = IF rows[id] = None THEN None ELSE rows[id].was
    BY <1>2, <2>1 DEF Contents
  <2>3. acked' = [acked EXCEPT ![id] = Contents[id]]
    BY <1>5, <2>2 DEF FjPersist
  <2>4. Contents' = Contents
    BY <1>3, <1>5 DEF FjPersist
  <2>5. /\ setup' = setup /\ saved' = saved /\ answer' = answer /\ boot' = boot
    BY <1>5 DEF FjPersist
  <2> HIDE DEF id
  <2>6. Promise!Acknowledge(id)
    BY <2>3, <2>4, <2>5 DEF Promise!Acknowledge, Forgetful
  <2>7. QED
    BY <2>1, <2>6 DEF Promise!Next
<1>6. ASSUME NEW c \in Clients, FjPersistFails(c) PROVE UNCHANGED Promise!vars
  BY <1>3, <1>6, StutterStep DEF FjPersistFails
<1>7. ASSUME NEW id \in Ids, NEW api \in Apis, FjRetrieve(id, api)
      PROVE  Promise!Next
  <2>1. Contents' = Contents
    BY <1>3, <1>7 DEF FjRetrieve
  <2>2. Read(rows[id], api) \in Promise!Replies(Contents[id], api)
    <3>1. CASE rows[id] = None
      BY <1>2, <3>1, LiveReply DEF Read
    <3>2. CASE rows[id] # None
      BY <1>2, <3>2, LiveReply
    <3>3. QED
      BY <3>1, <3>2
  <2>3. PICK res \in {Read(rows[id], api), Error} : Answered(id, api, res)
    BY <1>7 DEF FjRetrieve
  <2>4. QED
    BY <1>7, <2>1, <2>2, <2>3, ReadStep DEF FjRetrieve
<1>8. ASSUME NEW id \in Ids, FjDelete(id) PROVE Promise!Next
  BY <1>1, <1>8, RemoveStep DEF FjDelete
<1>9. ASSUME FjWriteBack PROVE UNCHANGED Promise!vars
  BY <1>3, <1>9, StutterStep DEF FjWriteBack
<1>10. ASSUME FjCrash PROVE Promise!Next
  <2>1. \A id \in Ids :
          Contents'[id] = IF disk[id] = None THEN None ELSE disk[id].was
    BY <1>10 DEF FjCrash, Contents, Live
  <2>2. \A id \in Ids : IF acked[id] # None THEN Contents'[id] = acked[id]
                        ELSE Contents'[id] \in saved[id] \cup {None}
    BY <2>1 DEF StoreInv, Sane, AckedKept
  <2>3. QED
    BY <1>10, <2>2, CrashStep DEF FjCrash, Crashed
<1>11. QED
  BY <1>4, <1>5, <1>6, <1>7, <1>8, <1>9, <1>10 DEF FjNext

\* Whole seconds do not go back.
LEMMA SecondsGrow ==
  ASSUME now \in Nat, now' = now + 1
  PROVE  Seconds \in Nat /\ Seconds' \in Nat /\ Seconds <= Seconds'
BY SqliteAssumption DEF Seconds

\* A tick brings no entry back to life.
LEMMA TickDies ==
  ASSUME StoreInv, Tick, NEW k \in Ids, Live(k)'
  PROVE  Live(k)
<1>1. now \in Nat /\ now' = now + 1 /\ rows' = rows /\ setup' = setup
  BY StoreAssumption DEF Tick, StoreInv, TypeOK, StateTypeOK
<1>2. rows[k] \in Row /\ rows[k].at \in Nat
  BY <1>1 DEF StoreInv, TypeOK, StateTypeOK, Live, Row
<1>3. setup \in Setups /\ setup \in Setup
  BY StoreAssumption DEF StoreInv, TypeOK, StateTypeOK
<1>4. CASE setup.kind = "memory"
  BY <1>1, <1>2, <1>3, <1>4 DEF Live, MemExpired, Setup
<1>5. CASE setup.kind = "sqlite"
  <2>1. AsSigned(setup.ttl) \in Int
    BY <1>3, <1>5, SqliteAssumption DEF AsSigned
  <2>2. ~(rows[k].at + AsSigned(setup.ttl) <= Seconds')
    BY <1>1, <1>5 DEF Live, SqlExpired
  <2>3. ~(rows[k].at + AsSigned(setup.ttl) <= Seconds)
    BY <1>1, <1>2, <2>1, <2>2, SecondsGrow
  <2>4. QED
    BY <1>1, <1>5, <2>3 DEF Live, SqlExpired
<1>6. CASE setup.kind = "fjall"
  BY <1>1, <1>6 DEF Live
<1>7. QED
  BY <1>3, <1>4, <1>5, <1>6 DEF Setup, Kinds

\* The clock runs only for stores that forget, and makes them forget.
LEMMA TickStep ==
  ASSUME StoreInv, Tick
  PROVE  Promise!Next
<1>1. /\ rows' = rows /\ setup' = setup /\ saved' = saved /\ acked' = acked
      /\ answer' = answer /\ boot' = boot /\ Forgetful
  BY DEF Tick, Forgetful
<1>2. \A k \in Ids : Contents'[k] = Contents[k] \/ Contents'[k] = None
  BY <1>1, TickDies DEF Contents
<1>3. Promise!Forget
  BY <1>1, <1>2 DEF Promise!Forget, Promise!Becomes, Forgetful
<1>4. QED
  BY <1>3 DEF Promise!Next

\* A step that leaves a store alone leaves its promise alone.
LEMMA StillStep ==
  ASSUME UNCHANGED vars
  PROVE  UNCHANGED Promise!vars
<1>1. /\ rows' = rows /\ setup' = setup /\ now' = now /\ saved' = saved
      /\ acked' = acked /\ answer' = answer /\ boot' = boot
  BY DEF vars
<1>2. \A k \in Ids : Contents'[k] = Contents[k]
  BY <1>1, SameContents
<1>3. Contents' = Contents
  BY <1>2 DEF Contents
<1>4. QED
  BY <1>1, <1>3, StutterStep

\* Every step of a store is a step of its promise, or none.
LEMMA PromiseNext == StoreInv /\ [Next]_vars => [Promise!Next]_(Promise!vars)
<1> SUFFICES ASSUME StoreInv, [Next]_vars PROVE [Promise!Next]_(Promise!vars)
  OBVIOUS
<1>1. CASE setup.kind = "memory" /\ MemNext
  BY <1>1, MemStep
<1>2. CASE setup.kind = "sqlite" /\ SqlNext
  BY <1>2, SqlStep
<1>3. CASE setup.kind = "fjall" /\ FjNext
  BY <1>3, FjStep
<1>4. CASE Tick
  BY <1>4, TickStep
<1>5. CASE UNCHANGED vars
  BY <1>5, StillStep
<1>6. QED
  BY <1>1, <1>2, <1>3, <1>4, <1>5 DEF Next

\* The three stores implement the store that CcrStore specifies: whatever is
\* saved, replaced, deleted, expired, evicted, restored or interrupted, a read
\* yields what was last saved under the id, nothing, or an error, and a restart
\* of fjall finds everything it has acknowledged (in_memory.rs, sqlite.rs,
\* fjall.rs).
THEOREM StoresKeepPromise == Spec => KeepsPromise
<1>1. Init => Promise!Init
  BY PromiseInit
<1>2. StoreInv /\ [Next]_vars => [Promise!Next]_(Promise!vars)
  BY PromiseNext
<1>3. QED
  BY <1>1, <1>2, InvInit, StoreNext, PTL DEF Spec, KeepsPromise, Promise!Spec
-----------------------------------------------------------------------------
(* Losses *)

\* Deadlines in whole seconds: a row that was dated in second a \div T and lives
\* S of them is dead no earlier than (S - 1) * T + 1 ticks after tick a.
LEMMA WholeSeconds ==
  ASSUME NEW T \in Nat \ {0}, NEW a \in Nat, NEW b \in Nat, NEW S \in Int,
         a \div T + S <= b \div T
  PROVE  b - a >= (S - 1) * T + 1
<1> DEFINE p == a \div T
           q == b \div T
<1>1. p \in Nat /\ q \in Nat /\ p + S <= q
  OBVIOUS
<1>2. a <= p * T + T - 1
  OBVIOUS
<1>3. q * T <= b
  OBVIOUS
<1> HIDE DEF p, q
<1>4. (q - p) * T >= S * T
  BY <1>1
<1>5. /\ (q - p) * T = q * T - p * T
      /\ (S - 1) * T = S * T - T
  BY <1>1
<1>6. q * T \in Int /\ p * T \in Int /\ S * T \in Int /\ (S - 1) * T \in Int
      /\ (q - p) * T \in Int
  BY <1>1
<1>7. QED
  BY <1>2, <1>3, <1>4, <1>5, <1>6

\* No row is dated in the future.
LEMMA SecondsDated ==
  ASSUME now \in Nat, NEW a \in Nat, a <= now
  PROVE  a \div TicksPerSecond <= Seconds /\ Seconds \in Nat
BY SqliteAssumption DEF Seconds

\* A tick takes only what is old enough.
LEMMA TickAges ==
  ASSUME StoreInv, Tick, NEW id \in Ids, Live(id), ~Live(id)'
  PROVE  Aged(id)
<1>1. /\ now \in Nat /\ now' = now + 1 /\ rows' = rows /\ setup' = setup
      /\ setup \in Setups /\ setup \in Setup /\ None \notin Nat
  BY StoreAssumption DEF Tick, StoreInv, TypeOK, StateTypeOK
<1>2. /\ rows[id] \in Row /\ rows[id].at \in Nat /\ rows[id].since \in Nat
      /\ Sane(id, rows[id]) /\ rows[id] # None
  BY <1>1 DEF StoreInv, TypeOK, StateTypeOK, Live, Row
<1>3. CASE setup.kind = "memory"
  <2>1. /\ setup.ttl \in Nat /\ now' - rows[id].at > setup.ttl
        /\ rows[id].at = rows[id].since
    BY <1>1, <1>2, <1>3 DEF Live, MemExpired, Setup, Sane, Dated
  <2>2. Lifetime = setup.ttl + 1
    BY <1>3 DEF Lifetime
  <2>3. QED
    BY <1>1, <1>2, <2>1, <2>2 DEF Aged
<1>4. CASE setup.kind = "sqlite"
  <2>1. setup.ttl \in Nat /\ AsSigned(setup.ttl) \in Int
    BY <1>1, <1>4, SqliteAssumption DEF AsSigned
  <2>2. rows[id].since \div TicksPerSecond + AsSigned(setup.ttl) <= Seconds'
    BY <1>1, <1>2, <1>4 DEF Live, SqlExpired, Sane, Dated
  <2>3. now' - rows[id].since >= (AsSigned(setup.ttl) - 1) * TicksPerSecond + 1
    <3>1. Seconds' = now' \div TicksPerSecond /\ now' \in Nat
      BY <1>1 DEF Seconds
    <3>2. QED
      BY <1>2, <2>1, <2>2, <3>1, WholeSeconds, SqliteAssumption
  <2>4. Lifetime = (AsSigned(setup.ttl) - 1) * TicksPerSecond + 1
    BY <1>4 DEF Lifetime
  <2>5. QED
    BY <1>1, <2>1, <2>3, <2>4 DEF Aged
<1>5. CASE setup.kind = "fjall"
  BY <1>1, <1>5 DEF Live
<1>6. QED
  BY <1>1, <1>3, <1>4, <1>5 DEF Setup, Kinds

\* A memory store that is full of live entries gives up one that is no younger
\* than the others; an expired entry would have gone instead.
LEMMA SaveDisplaces ==
  ASSUME StoreInv, setup.kind = "memory", NEW w \in HostWrites,
         MemSave(w.id, w.original), NEW id \in Ids, Live(id), ~Live(id)'
  PROVE  Displaced(id)
<1> USE DEF kept
<1>1. /\ TypeOK /\ now \in Nat /\ setup \in Setup /\ None \notin Row \cup Nat
      /\ w.id \in Ids /\ w.original \in Original
  BY StoreAssumption DEF StoreInv, TypeOK, StateTypeOK, HostWrites
<1> DEFINE new == w.id
           row == MemRow(w.original)
<1>2. row \in Row /\ row.at = now
  BY <1>1, RowFacts DEF MemRow
<1>3. setup' = setup /\ now' = now
  BY DEF MemSave
<1>4. rows \in [Ids -> Row \cup {None}]
  BY <1>1 DEF TypeOK, StateTypeOK
<1> HIDE DEF row
<1>5. ~(now - row.at > setup.ttl) \/ setup.ttl = None
  BY <1>1, <1>2 DEF Setup
<1>6. rows'[new] = row => Live(new)'
  BY <1>1, <1>2, <1>3, <1>5 DEF Live, MemExpired
<1>7. \A k \in Ids : rows'[k] = rows[k] => (Live(k)' <=> Live(k))
  BY <1>3, SameContents
<1>8. CASE rows' = [rows EXCEPT ![new] = row]
  BY <1>1, <1>4, <1>6, <1>7, <1>8
<1>9. CASE \E v \in Victims(new) : rows' = [rows EXCEPT ![v] = None, ![new] = row]
  <2>1. /\ setup.capacity # None /\ Cardinality(Held) >= setup.capacity
        /\ new \notin Held
    BY <1>9 DEF Victims
  <2>2. PICK v \in Oldest : rows' = [rows EXCEPT ![v] = None, ![new] = row]
    BY <1>9 DEF Victims
  <2>3. v \in Held /\ v \in Ids /\ \A j \in Held : rows[v].at <= rows[j].at
    BY <2>2 DEF Oldest, Held
  <2>4. /\ rows'[new] = row /\ rows'[v] = None
        /\ \A k \in Ids \ {new, v} : rows'[k] = rows[k]
    BY <1>1, <1>4, <2>1, <2>2, <2>3
  <2>5. id = v
    BY <1>6, <1>7, <2>4
  <2>6. \A k \in Held : /\ rows[k] \in Row /\ rows[k].at \in Nat
                        /\ rows[k].since = rows[k].at
    BY <1>4 DEF Held, StoreInv, Sane, Dated, Row
  <2>7. \A k \in Held : Live(k)
    <3> SUFFICES ASSUME NEW k \in Held PROVE Live(k)
      OBVIOUS
    <3>1. rows[v].at <= rows[k].at /\ rows[k].at \in Nat /\ rows[v].at \in Nat
      BY <2>3, <2>6
    <3>2. setup.ttl # None => ~(now - rows[v].at > setup.ttl) /\ setup.ttl \in Nat
      BY <1>1, <2>5 DEF Live, MemExpired, Setup
    <3>3. ~MemExpired(rows[k])
      BY <1>1, <3>1, <3>2 DEF MemExpired
    <3>4. QED
      BY <3>3 DEF Live, Held
  <2>8. {k \in Ids : Live(k)} = Held
    BY <2>7 DEF Held, Live
  <2>9. new \in Ids /\ ~Live(new) /\ Live(new)'
    BY <1>1, <1>6, <2>1, <2>4 DEF Live, Held
  <2>10. \A k \in Ids : Live(k) => rows[id].since <= rows[k].since
    BY <2>3, <2>5, <2>6, <2>8
  <2>11. QED
    BY <2>1, <2>8, <2>9, <2>10 DEF Displaced
<1>10. QED
  BY <1>8, <1>9 DEF MemSave, row

\* A row whose replacement is dead at once was not alive.
LEMMA SqlSaveKeeps ==
  ASSUME StoreInv, setup.kind = "sqlite", NEW w \in HostWrites,
         SqlSave(w.id, w.original), NEW id \in Ids, Live(id)
  PROVE  Live(id)'
<1> USE DEF kept
<1>1. /\ TypeOK /\ now \in Nat /\ setup \in Setups /\ None \notin Row
      /\ w.id \in Ids /\ w.original \in Original
  BY StoreAssumption DEF StoreInv, TypeOK, StateTypeOK, HostWrites
<1> DEFINE row == SqlRow(w.id, w.original)
<1>2. row \in Row /\ row.at = Seconds /\ Seconds \in Nat
  BY <1>1, NativeRowFacts DEF SqlRow
<1>3. setup' = setup /\ now' = now /\ rows' = [rows EXCEPT ![w.id] = row]
  BY DEF SqlSave
<1> HIDE DEF row
<1>4. rows'[w.id] = row /\ \A k \in Ids \ {w.id} : rows'[k] = rows[k]
  BY <1>1, <1>3 DEF TypeOK, StateTypeOK
<1>5. CASE id # w.id
  BY <1>3, <1>4, <1>5, SameContents
<1>6. CASE id = w.id
  <2>1. /\ rows[id] \in Row /\ rows[id].at = rows[id].since \div TicksPerSecond
        /\ rows[id].since \in Nat /\ rows[id].since <= now
    BY <1>1 DEF StoreInv, TypeOK, StateTypeOK, Live, Sane, Dated, Row
  <2>2. rows[id].at <= Seconds /\ rows[id].at \in Nat
    BY <1>1, <2>1, SecondsDated DEF Row
  <2>3. ~(rows[id].at + AsSigned(setup.ttl) <= Seconds)
    BY DEF Live, SqlExpired
  <2>4. AsSigned(setup.ttl) \in Int
    BY <1>1, SqliteAssumption DEF AsSigned
  <2>5. ~(row.at + AsSigned(setup.ttl) <= Seconds)
    BY <1>2, <2>2, <2>3, <2>4
  <2>6. Seconds' = Seconds
    BY <1>3 DEF Seconds
  <2>7. QED
    BY <1>1, <1>2, <1>3, <1>4, <1>6, <2>5, <2>6 DEF Live, SqlExpired
<1>7. QED
  BY <1>5, <1>6

\* No step of a store loses an entry silently.
LEMMA NoLossNext ==
  ASSUME StoreInv, [Next]_vars, NEW id \in Ids, Live(id), ~Live(id)'
  PROVE  \/ Aged(id)
         \/ Displaced(id)
         \/ MemDelete(id) \/ SqlDelete(id) \/ FjDelete(id)
         \/ MemCrash \/ SqlPowerLoss \/ FjCrash
<1> USE DEF kept
<1>1. rows \in [Ids -> Row \cup {None}]
  BY DEF StoreInv, TypeOK, StateTypeOK
<1>2. ASSUME setup' = setup, now' = now, rows'[id] = rows[id] PROVE FALSE
  BY <1>2, SameContents
<1>3. CASE setup.kind = "memory" /\ MemNext
  <2>1. ASSUME NEW w \in HostWrites, MemSave(w.id, w.original)
        PROVE  Displaced(id)
    BY <1>3, <2>1, SaveDisplaces
  <2>2. ASSUME NEW k \in Ids, NEW api \in Apis, MemRetrieve(k, api) PROVE FALSE
    <3>1. rows'[id] = rows[id] \/ (id = k /\ MemExpired(rows[k]))
      BY <1>1, <2>2 DEF MemRetrieve
    <3>2. ~(id = k /\ MemExpired(rows[k]))
      BY <1>3 DEF Live
    <3>3. QED
      BY <1>2, <2>2, <3>1, <3>2 DEF MemRetrieve
  <2>3. ASSUME NEW k \in Ids, MemDelete(k) PROVE MemDelete(id)
    <3>1. k # id => rows'[id] = rows[id]
      BY <1>1, <2>3 DEF MemDelete
    <3>2. QED
      BY <1>2, <2>3, <3>1 DEF MemDelete
  <2>4. QED
    BY <1>3, <2>1, <2>2, <2>3 DEF MemNext
<1>4. CASE setup.kind = "sqlite" /\ SqlNext
  <2>1. ASSUME NEW w \in HostWrites, SqlSave(w.id, w.original) PROVE FALSE
    BY <1>4, <2>1, SqlSaveKeeps
  <2>2. ASSUME NEW k \in Ids, NEW api \in Apis, SqlRetrieve(k, api) PROVE FALSE
    <3>1. ~SqlExpired(rows[id])
      BY <1>4 DEF Live
    <3>2. rows'[id] = rows[id]
      BY <2>2, <3>1 DEF SqlRetrieve, SqlPurged
    <3>3. QED
      BY <1>2, <2>2, <3>2 DEF SqlRetrieve
  <2>3. ASSUME NEW k \in Ids, SqlDelete(k) PROVE SqlDelete(id)
    <3>1. k # id => rows'[id] = rows[id]
      BY <1>1, <2>3 DEF SqlDelete
    <3>2. QED
      BY <1>2, <2>3, <3>1 DEF SqlDelete
  <2>4. ASSUME SqlCheckpoint PROVE FALSE
    BY <1>2, <2>4 DEF SqlCheckpoint
  <2>5. QED
    BY <1>4, <2>1, <2>2, <2>3, <2>4 DEF SqlNext
<1>5. CASE setup.kind = "fjall" /\ FjNext
  <2>1. Live(id) <=> rows[id] # None
    BY <1>5 DEF Live
  <2>2. ASSUME NEW c \in Clients, NEW w \in HostWrites,
               FjInsert(c, w.id, w.original)
        PROVE  FALSE
    <3>1. /\ w.id \in Ids /\ w.original \in Original /\ None \notin Row /\ TypeOK
      BY StoreAssumption DEF HostWrites, StoreInv
    <3>2. FjRow(w.original) \in Row
      BY <3>1, NativeRowFacts
    <3>3. rows' = [rows EXCEPT ![w.id] = FjRow(w.original)] /\ setup' = setup
      BY <2>2 DEF FjInsert
    <3>4. rows'[id] # None
      BY <1>1, <2>1, <3>1, <3>2, <3>3
    <3>5. QED
      BY <1>5, <3>3, <3>4 DEF Live
  <2>3. ASSUME NEW c \in Clients, FjPersist(c) \/ FjPersistFails(c) PROVE FALSE
    BY <1>2, <2>3 DEF FjPersist, FjPersistFails
  <2>4. ASSUME NEW k \in Ids, NEW api \in Apis, FjRetrieve(k, api) PROVE FALSE
    BY <1>2, <2>4 DEF FjRetrieve
  <2>5. ASSUME NEW k \in Ids, FjDelete(k) PROVE FjDelete(id)
    <3>1. k # id => rows'[id] = rows[id]
      BY <1>1, <2>5 DEF FjDelete
    <3>2. QED
      BY <1>2, <2>5, <3>1 DEF FjDelete
  <2>6. ASSUME FjWriteBack PROVE FALSE
    BY <1>2, <2>6 DEF FjWriteBack
  <2>7. QED
    BY <1>5, <2>2, <2>3, <2>4, <2>5, <2>6 DEF FjNext
<1>6. CASE Tick
  BY <1>6, TickAges
<1>7. CASE UNCHANGED vars
  BY <1>2, <1>7 DEF vars
<1>8. QED
  BY <1>3, <1>4, <1>5, <1>6, <1>7 DEF Next

\* An entry that no delete and no crash takes is lost only after its time to
\* live, in whole seconds for sqlite, or to make room in a memory store that is
\* full of live entries which are no older (in_memory.rs, save; sqlite.rs,
\* retrieve).
THEOREM NoLoss == Spec => NoSilentLoss
<1>1. StoreInv /\ [Next]_vars =>
        [\A id \in Ids : Live(id) /\ ~Live(id)' =>
           \/ Aged(id)
           \/ Displaced(id)
           \/ MemDelete(id) \/ SqlDelete(id) \/ FjDelete(id)
           \/ MemCrash \/ SqlPowerLoss \/ FjCrash]_vars
  BY NoLossNext
<1>2. QED
  BY <1>1, InvInit, StoreNext, PTL DEF Spec, NoSilentLoss
=============================================================================
