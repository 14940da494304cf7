----------------------------- MODULE FjallStore -----------------------------
(***************************************************************************)
(* FjallCcrStore: a save inserts and then persists, without a lock around  *)
(* the two, so that calls of other threads come in between.  A delete is   *)
(* not persisted.  Nothing expires.                                        *)
(***************************************************************************)
EXTENDS StoreState

ASSUME FjallAssumption ==
  \A s \in Setups : s.kind = "fjall" => s.ttl = None /\ s.capacity = None

FjRow(o) ==
  [data |-> IF IsNative(o) THEN o.data ELSE AsText(o),
   native |-> IsNative(o), at |-> 0, was |-> o, since |-> 0]

FjInsert(c, id, o) ==
  /\ saving[c] = None
  /\ rows' = [rows EXCEPT ![id] = FjRow(o)]
  /\ saving' = [saving EXCEPT ![c] = id]
  /\ Recorded(id, o)
  /\ UNCHANGED <<kept, disk>>

\* Mutant: the save answers Ok without a sync.
FjPersist_NoSync(c) ==
  /\ saving[c] # None
  /\ acked' = [acked EXCEPT ![saving[c]] =
                 IF rows[saving[c]] = None THEN None ELSE rows[saving[c]].was]
  /\ saving' = [saving EXCEPT ![c] = None]
  /\ UNCHANGED <<kept, rows, disk, saved>>

\* persist(SyncAll), and the save answers Ok.
FjPersist(c) ==
  /\ saving[c] # None
  /\ disk' = rows
  /\ acked' = [acked EXCEPT ![saving[c]] =
                 IF rows[saving[c]] = None THEN None ELSE rows[saving[c]].was]
  /\ saving' = [saving EXCEPT ![c] = None]
  /\ UNCHANGED <<kept, rows, saved>>

\* The save answers an error, and the entry is there.
FjPersistFails(c) ==
  /\ saving[c] # None
  /\ saving' = [saving EXCEPT ![c] = None]
  /\ UNCHANGED <<kept, rows, disk, saved, acked>>

FjRetrieve(id, api) ==
  /\ \E res \in {Read(rows[id], api), Error} : Answered(id, api, res)
  /\ UNCHANGED <<setup, now, rows, disk, saving, saved, acked, boot>>

FjDelete(id) ==
  /\ rows' = [rows EXCEPT ![id] = None]
  /\ acked' = [acked EXCEPT ![id] = None]
  /\ UNCHANGED <<kept, disk, saving, saved>>

\* The journal reaches the disk by itself.
FjWriteBack ==
  /\ disk' = rows
  /\ UNCHANGED <<kept, rows, saving, saved, acked>>

FjCrash ==
  /\ Crashed
  /\ rows' = disk
  /\ saving' = [c \in Clients |-> None]
  /\ UNCHANGED <<setup, now, answer, disk, saved, acked>>

FjNext ==
  \/ \E c \in Clients : \/ \E w \in HostWrites : FjInsert(c, w.id, w.original)
                        \/ FjPersist(c) \/ FjPersistFails(c)
  \/ \E id \in Ids : \/ \E api \in Apis : FjRetrieve(id, api)
                     \/ FjDelete(id)
  \/ FjWriteBack
  \/ FjCrash
=============================================================================
