SPECIFICATION WebhookSpec
CONSTANTS
  Updates = {u1}
  Servers = {s1, s2}
  Slots = {a, b}
  NoUpdate = NoUpdate
  MaxFaults = 2
  MaxAttempts = 1
SYMMETRY Symmetry
INVARIANTS
  WebhookTypeOK
  AnsweredIsStored
  StoredIsTelegrams
PROPERTIES
  RedeliveryIsHarmless
