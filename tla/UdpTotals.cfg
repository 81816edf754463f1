SPECIFICATION Spec
CONSTANTS
  Ports = {1, 2}
  Lengths <- MCLengths
  BuffLen = 2
  Garbage = {0, 7}
  MaxClients = 2
  MaxFaults = 0
INVARIANTS PrintsTotals
CHECK_DEADLOCK FALSE
