SPECIFICATION FairSpec
CONSTANTS
  Ports = {1, 2}
  Lengths <- MCLengths
  BuffLen = 2
  Garbage = {7}
  MaxClients = 3
  MaxFaults = 1
INVARIANTS TypeOK PrintsOwnTotals
PROPERTIES ClientEnds
CHECK_DEADLOCK FALSE
