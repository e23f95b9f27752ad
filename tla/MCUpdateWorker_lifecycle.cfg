\* One process of two loops, two updates of any kind.
CONSTANTS
  Updates = {u1, u2}
  Processes = {p1}
  Slots = {s1, s2}
  MaxFaults = 2
  NoClaim = NoClaim
SPECIFICATION Spec
SYMMETRY Symmetry
INVARIANTS
  IInv
  AttemptsAreOwed
PROPERTIES
  ImplementsLifecycle
  StoppingWindsDown
