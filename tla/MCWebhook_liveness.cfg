SPECIFICATION FairWebhookSpec
CONSTANTS
  Updates = {u1}
  Servers = {s1, s2}
  Slots = {a}
  NoUpdate = NoUpdate
  MaxFaults = 2
  MaxAttempts = 1
PROPERTIES
  UpdatesAreAcknowledged
