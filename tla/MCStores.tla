------------------------------ MODULE MCStores ------------------------------
(***************************************************************************)
(* Each kind of store, with ids that hosts save through both interfaces:   *)
(* three where the capacity is two, else two.                              *)
(***************************************************************************)
EXTENDS Stores

CONSTANTS i1, i2, i3, note, memo, blob

AsTextOf(s) == [api |-> "text", data |-> s]
Plain(t) == [enc |-> FALSE, of |-> t]

Text(kind, id) ==
  [kind |-> kind, id |-> id, original |-> AsTextOf(Plain(note))]
Payload(kind, id, p) ==
  [kind |-> kind, id |-> id, original |-> [api |-> "payload", data |-> p]]

\* A host may also save the envelope of a payload as a text.
MCWrites ==
  {Text("memory", i1), Text("memory", i2), Payload("memory", i2, blob),
   [kind |-> "memory", id |-> i3, original |-> AsTextOf(Envelope(blob))]} \cup
  UNION {{Text(k, i1), Payload(k, i1, blob), Payload(k, i2, memo)} :
           k \in {"sqlite", "fjall"}}

On(kind, ttl, capacity) == [kind |-> kind, ttl |-> ttl, capacity |-> capacity]

\* With WordLimit 8, a time to live of 7 is the largest u64.
MCSetups ==
  {On("memory", None, None), On("memory", 1, 2), On("memory", None, 0),
   On("sqlite", 1, None), On("sqlite", 7, None), On("fjall", None, None)}
=============================================================================
