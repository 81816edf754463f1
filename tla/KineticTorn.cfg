SPECIFICATION Spec
CONSTANTS
  Shells = {"h1", "h2"}
  Keys = {"k"}
  Values = {"v"}
  MaxPuts = 2
  MaxFaults = 0
INVARIANT PutCreatesPair
\* A shell that waits in GET takes no step.
CHECK_DEADLOCK FALSE
