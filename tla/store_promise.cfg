CONSTANTS
  i1 = i1
  i2 = i2
  i3 = i3
  note = note
  memo = memo
  blob = blob
  None = None
  Error = Error
  Refused = Refused
  Ids = {i1, i2, i3}
  Texts = {note}
  Payloads = {memo, blob}
  Binary = {blob}
  Clients = {c1, c2}
  Setups <- MCSetups
  Writes <- MCWrites
  MaxTick = 2
  TicksPerSecond = 2
  WordLimit = 8
SPECIFICATION Spec
INVARIANT
  TypeOK
PROPERTIES
  KeepsPromise
  NoSilentLoss
