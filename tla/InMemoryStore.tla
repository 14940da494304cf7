--------------------------- MODULE InMemoryStore ---------------------------
(***************************************************************************)
(* InMemoryCcrStore: a map under a mutex, so each call is one step.  Both  *)
(* interfaces share the text map.  A tick is the unit of its Duration, and *)
(* saves may fall on the same instant.                                     *)
(***************************************************************************)
EXTENDS StoreState

MemExpired(row) == setup.ttl # None /\ now - row.at > setup.ttl

MemRow(o) ==
  [data |-> AsText(o), native |-> FALSE, at |-> now, was |-> o, since |-> now]

Oldest == {k \in Held : \A j \in Held : rows[k].at <= rows[j].at}

\* Mutant: the youngest entry is evicted.
Victims_Youngest(id) ==
  IF /\ setup.capacity # None
     /\ Cardinality(Held) >= setup.capacity
     /\ id \notin Held
  THEN {k \in Held : \A j \in Held : rows[k].at >= rows[j].at} ELSE {}

\* At capacity, one of the oldest entries makes room for a new id.
Victims(id) ==
  IF /\ setup.capacity # None
     /\ Cardinality(Held) >= setup.capacity
     /\ id \notin Held
  THEN Oldest ELSE {}

MemSave(id, o) ==
  /\ \/ /\ Victims(id) = {}
        /\ rows' = [rows EXCEPT ![id] = MemRow(o)]
     \/ \E k \in Victims(id) :
          rows' = [rows EXCEPT ![k] = None, ![id] = MemRow(o)]
  /\ Recorded(id, o)
  /\ UNCHANGED <<kept, disk, saving>>

\* An expired entry is removed when it is read.
MemRetrieve(id, api) ==
  /\ IF rows[id] # None /\ MemExpired(rows[id])
     THEN rows' = [rows EXCEPT ![id] = None] /\ Answered(id, api, None)
     ELSE UNCHANGED rows /\ Answered(id, api, Read(rows[id], api))
  /\ UNCHANGED <<setup, now, disk, saving, saved, acked, boot>>

MemDelete(id) ==
  /\ rows' = [rows EXCEPT ![id] = None]
  /\ acked' = [acked EXCEPT ![id] = None]
  /\ UNCHANGED <<kept, disk, saving, saved>>

\* The process ends.
MemCrash ==
  /\ Crashed
  /\ rows' = [id \in Ids |-> None]
  /\ UNCHANGED <<setup, now, answer, disk, saving, saved, acked>>

MemNext ==
  \/ \E w \in HostWrites : MemSave(w.id, w.original)
  \/ \E id \in Ids : \/ \E api \in Apis : MemRetrieve(id, api)
                     \/ MemDelete(id)
  \/ MemCrash
=============================================================================
