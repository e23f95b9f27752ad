\* Two single-loop processes, one update.
CONSTANTS
  Updates = {u1}
  Processes = {p1, p2}
  Slots = {s1}
  MaxFaults = 2
  NoClaim = NoClaim
SPECIFICATION Spec
PROPERTIES
  UnsentIsNotUncertain
