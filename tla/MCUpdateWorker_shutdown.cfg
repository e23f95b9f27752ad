\* One process of two loops, two updates.
CONSTANTS
  Updates = {u1, u2}
  Processes = {p1}
  Slots = {s1, s2}
  MaxFaults = 1
  NoClaim = NoClaim
SPECIFICATION ShutdownSpec
PROPERTIES
  ShutdownEnds
