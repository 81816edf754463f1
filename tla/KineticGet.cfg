SPECIFICATION FairSpec
CONSTANTS
  Shells = {"h"}
  Keys = {"k"}
  Values = {"v"}
  MaxPuts = 1
  MaxFaults = 0
PROPERTY GetReturns
\* A shell that waits in GET takes no step.
CHECK_DEADLOCK FALSE
