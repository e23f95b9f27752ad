\* Two single-loop processes, two updates of any kind.
CONSTANTS
  Updates = {u1, u2}
  Processes = {p1, p2}
  Slots = {s1}
  MaxFaults = 2
  NoClaim = NoClaim
SPECIFICATION Spec
SYMMETRY Symmetry
INVARIANTS
  AtMostOneRequest
  NoBlindRetry
  SucceededMeansApplied
  FailedMeansRefused
  MarkerCoversTheCall
  MarkersAreFresh
  ExclusiveAttempts
  RepliesFollowSuccess
PROPERTIES
  TerminalIsFinal
  OldAttemptsAreFenced
  UnexpiredClaimsHold
