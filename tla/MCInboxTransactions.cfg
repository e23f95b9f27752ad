SPECIFICATION TxSpec
CONSTANTS
  Updates = {u1, u2}
  Txns = {t1, t2}
  MaxAttempts = 2
SYMMETRY Symmetry
INVARIANTS
  TxTypeOK
  RefusedMeansLost
  RecoveryLeavesNone
  OnlyRecoveriesDeadlock
PROPERTIES
  CommitsAreOperations
