------------------------------- MODULE Stores -------------------------------
(***************************************************************************)
(* The three stores side by side, each shown to keep the promise of        *)
(* CcrStore.                                                               *)
(***************************************************************************)
EXTENDS InMemoryStore, SqliteStore, FjallStore

TypeOK == StateTypeOK

Next ==
  \/ setup.kind = "memory" /\ MemNext
  \/ setup.kind = "sqlite" /\ SqlNext
  \/ setup.kind = "fjall" /\ FjNext
  \/ Tick

Spec == Init /\ [][Next]_vars

Live(id) ==
  /\ rows[id] # None
  /\ CASE setup.kind = "memory" -> ~MemExpired(rows[id])
       [] setup.kind = "sqlite" -> ~SqlExpired(rows[id])
       [] setup.kind = "fjall"  -> TRUE

\* What a read of a store can yield, and whether the store forgets by design.
Contents  == [id \in Ids |-> IF Live(id) THEN rows[id].was ELSE None]
Forgetful == setup.ttl # None \/ setup.capacity # None

Promise == INSTANCE CcrStore WITH
  promise  <- [forgets |-> Forgetful, durable |-> setup.kind = "fjall"],
  contents <- Contents

\* Each store keeps the promise of CcrStore: whatever the order of saves,
\* deletes, reads and crashes, a read yields the original that was last saved,
\* in the form it was saved in, and fjall has every acknowledged one after a
\* crash (InMemoryCcrStore, SqliteCcrStore, FjallCcrStore).
KeepsPromise == Promise!Spec

\* The shortest life of an entry, in ticks.
Lifetime ==
  CASE setup.kind = "memory" -> setup.ttl + 1
    [] setup.kind = "sqlite" -> (AsSigned(setup.ttl) - 1) * TicksPerSecond + 1

Aged(id) == setup.ttl # None /\ now' - rows[id].since >= Lifetime

Displaced(id) ==
  /\ setup.capacity # None
  /\ \E new \in Ids : ~Live(new) /\ Live(new)'
  /\ Cardinality({k \in Ids : Live(k)}) >= setup.capacity
  /\ \A k \in Ids : Live(k) => rows[id].since <= rows[k].since

\* An entry that no delete and no crash takes is lost only by age, or because
\* the capacity is full of entries that are no older: expired ones never cost a
\* live one (in_memory.rs, save; sqlite.rs, retrieve).
NoSilentLoss ==
  [][\A id \in Ids : Live(id) /\ ~Live(id)' =>
       \/ Aged(id)
       \/ Displaced(id)
       \/ MemDelete(id) \/ SqlDelete(id) \/ FjDelete(id)
       \/ MemCrash \/ SqlPowerLoss \/ FjCrash]_vars
=============================================================================
