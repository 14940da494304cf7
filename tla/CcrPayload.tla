----------------------------- MODULE CcrPayload -----------------------------
(***************************************************************************)
(* What hosts save in a CCR store, and how a typed payload becomes a text  *)
(* and back (ccr/mod.rs).                                                  *)
(***************************************************************************)
EXTENDS FiniteSets

CONSTANTS
  Ids,
  Texts,     \* what a host saves as text
  Payloads,  \* what a host saves as typed payload
  Binary,    \* the payloads that are not UTF-8
  None,
  Error,     \* a read that fails
  Refused    \* a read through the interface that cannot return the original

ASSUME PayloadAssumption ==
  /\ Binary \subseteq Payloads
  /\ {None, Error, Refused} \cap (Texts \cup Payloads) = {}
  /\ Cardinality({None, Error, Refused}) = 3

\* A string is a text of the host or the envelope of a payload, which a host
\* may save as a text too.
Strings == [enc : {FALSE}, of : Texts] \cup [enc : {TRUE}, of : Payloads]

Apis == {"text", "payload"}

Original == [api : {"text"}, data : Strings] \cup
            [api : {"payload"}, data : Payloads]

\* The string as a result of a payload read is a text/plain payload.
Answer == [id : Ids, api : Apis,
           res : Strings \cup Payloads \cup {None, Error, Refused}]

\* encode_payload and decode_payload
Envelope(p) == [enc |-> TRUE, of |-> p]

Decoded(s) == IF s.enc THEN s.of ELSE s
=============================================================================
