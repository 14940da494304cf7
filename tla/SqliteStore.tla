---------------------------- MODULE SqliteStore ----------------------------
(***************************************************************************)
(* SqliteCcrStore: one connection under a mutex, so each call is one step; *)
(* WAL with synchronous=NORMAL, so a power loss may take back the last     *)
(* commits.  The clock is read in whole seconds.                           *)
(***************************************************************************)
EXTENDS StoreState

CONSTANTS
  TicksPerSecond,
  WordLimit        \* ttl_seconds is a u64 below this, cast to an i64

ASSUME SqliteAssumption ==
  /\ TicksPerSecond \in Nat \ {0}
  /\ WordLimit \in Nat /\ WordLimit % 2 = 0
  /\ \A s \in Setups : s.kind = "sqlite" =>
       s.ttl \in 0 .. WordLimit - 1 /\ s.capacity = None

Seconds == now \div TicksPerSecond

AsSigned(n) == IF 2 * n >= WordLimit THEN n - WordLimit ELSE n

SqlExpired(row) == row.at + AsSigned(setup.ttl) <= Seconds

\* Mutant: the upsert leaves the media type of the row it replaces.
SqlRow_KeepsMedia(id, o) ==
  LET native == IsNative(o) \/ (id \in Held /\ rows[id].native)
  IN  [data |-> IF IsNative(o) THEN o.data ELSE AsText(o),
       native |-> native, at |-> Seconds, was |-> o,
       since |-> now]

SqlRow(id, o) ==
  [data |-> IF IsNative(o) THEN o.data ELSE AsText(o),
   native |-> IsNative(o), at |-> Seconds, was |-> o,
       since |-> now]

\* A statement that fails changes nothing, and the caller is told.
SqlSave(id, o) ==
  /\ rows' = [rows EXCEPT ![id] = SqlRow(id, o)]
  /\ Recorded(id, o)
  /\ UNCHANGED <<kept, disk, saving>>

\* Expired rows are purged first (an error there is ignored); the query looks
\* at the deadline again.
SqlPurged == [k \in Ids |-> IF k \in Held /\ SqlExpired(rows[k]) THEN None
                           ELSE rows[k]]

SqlRetrieve(id, api) ==
  /\ rows' \in {rows, SqlPurged}
  /\ \E res \in {Read(SqlPurged[id], api), Error} : Answered(id, api, res)
  /\ UNCHANGED <<setup, now, disk, saving, saved, acked, boot>>

\* A delete that fails answers Ok like one that does not.
SqlDelete(id) ==
  /\ rows' \in {[rows EXCEPT ![id] = None], rows}
  /\ acked' = [acked EXCEPT ![id] = None]
  /\ UNCHANGED <<kept, disk, saving, saved>>

\* What is committed reaches the disk, at the latest with a checkpoint.
SqlCheckpoint ==
  /\ disk' = rows
  /\ UNCHANGED <<kept, rows, saving, saved, acked>>

SqlPowerLoss ==
  /\ Crashed
  /\ rows' = disk
  /\ UNCHANGED <<setup, now, answer, disk, saving, saved, acked>>

SqlNext ==
  \/ \E w \in HostWrites : SqlSave(w.id, w.original)
  \/ \E id \in Ids : \/ \E api \in Apis : SqlRetrieve(id, api)
                     \/ SqlDelete(id)
  \/ SqlCheckpoint
  \/ SqlPowerLoss
=============================================================================
