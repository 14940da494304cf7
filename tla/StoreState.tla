----------------------------- MODULE StoreState -----------------------------
(***************************************************************************)
(* What the three CCR stores have in common in this model: rows with the   *)
(* encoded original, a clock, what would survive a power loss, and the     *)
(* encoding itself (ccr/mod.rs).                                           *)
(***************************************************************************)
EXTENDS Integers, CcrPayload

CONSTANTS
  Clients,   \* threads that call the store
  Setups,    \* the stores a host may have opened
  Writes,    \* bound: the saves of hosts, as [kind, id, original]
  MaxTick    \* bound: ticks of the clock

VARIABLES
  setup,   \* fixed: the store
  rows,    \* what the store holds, expired or not
  disk,    \* what it would hold after a power loss
  now,     \* the clock, in ticks
  saving,  \* [Clients -> Ids or None]: a save that is not persisted yet
  answer,  \* the last answer to a read
  saved,   \* history: all originals ever saved under an id
  acked,   \* history: what a persisted save has put under an id
  boot     \* history: the parity of the crashes so far

vars == <<setup, rows, disk, now, saving, answer, saved, acked, boot>>
kept == <<setup, now, answer, boot>>

Kinds == {"memory", "sqlite", "fjall"}

Setup == [kind : Kinds, ttl : Nat \cup {None},
          capacity : Nat \cup {None}]

\* `native': a media type column, or a frame, says that the data is a payload;
\* only a binary one is stored like that.
\* `was' and `since' are history: the original that was saved, and the tick.
Row == [native : {TRUE},  data : Binary,  at : Nat, was : Original, since : Nat]
       \cup
       [native : {FALSE}, data : Strings, at : Nat, was : Original, since : Nat]

ASSUME StoreAssumption ==
  /\ Setups \subseteq Setup
  /\ Writes \subseteq [kind : Kinds, id : Ids, original : Original]
  /\ MaxTick \in Nat
  /\ None \notin Nat \cup Ids \cup Original \cup Row

StateTypeOK ==
  /\ setup \in Setups
  /\ rows \in [Ids -> Row \cup {None}]
  /\ disk \in [Ids -> Row \cup {None}]
  /\ now \in 0 .. MaxTick
  /\ saving \in [Clients -> Ids \cup {None}]
  /\ answer \in Answer \cup {None}
  /\ saved \in [Ids -> SUBSET Original]
  /\ acked \in [Ids -> Original \cup {None}]
  /\ boot \in {0, 1}

Init ==
  /\ setup \in Setups
  /\ rows = [id \in Ids |-> None]
  /\ disk = [id \in Ids |-> None]
  /\ now = 0
  /\ saving = [c \in Clients |-> None]
  /\ answer = None
  /\ saved = [id \in Ids |-> {}]
  /\ acked = [id \in Ids |-> None]
  /\ boot = 0

Held == {id \in Ids : rows[id] # None}
-----------------------------------------------------------------------------
\* The text that a save hands to a text column: every payload as its envelope.
AsText(o) == IF o.api = "text" THEN o.data ELSE Envelope(o.data)

\* The text interface cannot return a native payload.
Read(row, api) ==
  IF row = None           THEN None
  ELSE IF api = "text"    THEN IF row.native THEN Refused ELSE row.data
  ELSE IF row.native      THEN row.data
  ELSE Decoded(row.data)

Answered(id, api, res) == answer' = [id |-> id, api |-> api, res |-> res]

\* Binary payloads are stored natively by the stores that can.
IsNative(o) == o.api = "payload" /\ o.data \in Binary

\* What a host of this store may save.
HostWrites == {w \in Writes : w.kind = setup.kind}

\* The history of a save that took effect, and of a delete.
Recorded(id, o) ==
  /\ saved' = [saved EXCEPT ![id] = @ \cup {o}]
  /\ acked' = [acked EXCEPT ![id] = None]

Crashed == boot' = 1 - boot

\* The clock stands still where nothing depends on it.
Tick ==
  /\ now < MaxTick
  /\ setup.ttl # None \/ setup.capacity # None
  /\ now' = now + 1
  /\ UNCHANGED <<setup, rows, disk, saving, answer, saved, acked, boot>>
=============================================================================
