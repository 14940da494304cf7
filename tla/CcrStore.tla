------------------------------ MODULE CcrStore ------------------------------
(***************************************************************************)
(* What a CCR store promises to those who save originals in it: a read     *)
(* yields what was last saved under the id, or that nothing is there, or   *)
(* an error; never another original.  A store that forgets (capacity, time *)
(* to live) may lose entries at any time, another one only in a crash.  A  *)
(* durable store loses nothing it has acknowledged.                        *)
(*                                                                         *)
(* An original is saved as a text or as a typed payload, and can be read   *)
(* through either interface.                                               *)
(***************************************************************************)
EXTENDS Integers, CcrPayload

VARIABLES
  promise,   \* fixed: whether the store forgets, and whether it is durable
  contents,  \* [Ids -> Original or None]: what a read yields
  saved,     \* [Ids -> SUBSET Original]: all that was ever saved
  acked,     \* [Ids -> Original or None]: what a durable store must keep
  answer,    \* the last answer to a read
  boot       \* the parity of the crashes so far, so that a crash shows

vars == <<promise, contents, saved, acked, answer, boot>>

Init ==
  /\ promise \in [forgets : BOOLEAN, durable : BOOLEAN]
  /\ contents = [id \in Ids |-> None]
  /\ saved = [id \in Ids |-> {}]
  /\ acked = [id \in Ids |-> None]
  /\ answer = None
  /\ boot = 0

\* What a read may answer.  Reading a payload as a text yields its envelope or
\* is refused; an envelope that was saved as a text is decoded as a payload.
Replies(o, api) ==
  IF o = None                             THEN {None}
  ELSE IF o.api = api                     THEN {o.data}
  ELSE IF api = "text"                    THEN {Envelope(o.data), Refused}
  ELSE {Decoded(o.data)}

\* The contents become `to', but for what is forgotten.
Becomes(to) ==
  \A id \in Ids : \/ contents'[id] = to[id]
                  \/ promise.forgets /\ contents'[id] = None

\* A save takes effect; it is acknowledged by a step of its own.
Write(id, o) ==
  /\ Becomes([contents EXCEPT ![id] = o])
  /\ saved' = [saved EXCEPT ![id] = @ \cup {o}]
  /\ acked' = [acked EXCEPT ![id] = None]
  /\ UNCHANGED <<promise, answer, boot>>

Acknowledge(id) ==
  /\ promise.durable
  /\ acked' = [acked EXCEPT ![id] = contents[id]]
  /\ UNCHANGED <<promise, contents, saved, answer, boot>>

Remove(id) ==
  /\ contents' = [contents EXCEPT ![id] = None]
  /\ acked' = [acked EXCEPT ![id] = None]
  /\ UNCHANGED <<promise, saved, answer, boot>>

Read(id, api) ==
  /\ \E res \in Replies(contents[id], api) \cup {Error} :
       answer' = [id |-> id, api |-> api, res |-> res]
  /\ UNCHANGED <<promise, contents, saved, acked, boot>>

Forget ==
  /\ promise.forgets
  /\ Becomes(contents)
  /\ UNCHANGED <<promise, saved, acked, answer, boot>>

\* A removed or replaced original may be back after a crash.
Crash ==
  /\ boot' = 1 - boot
  /\ \A id \in Ids : IF acked[id] # None THEN contents'[id] = acked[id]
                     ELSE contents'[id] \in saved[id] \cup {None}
  /\ UNCHANGED <<promise, saved, acked, answer>>

Next ==
  \/ \E id \in Ids : \/ \E o \in Original : Write(id, o)
                     \/ Acknowledge(id)
                     \/ Remove(id)
                     \/ \E api \in Apis : Read(id, api)
  \/ Forget
  \/ Crash

Spec == Init /\ [][Next]_vars
=============================================================================
