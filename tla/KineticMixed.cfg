SPECIFICATION Spec
CONSTANTS
  h1 = h1
  h2 = h2
  h3 = h3
  Shells = {h1, h2, h3}
  Keys = {"k"}
  Values = {"v"}
  MaxPuts = 3
  MaxFaults = 1
INVARIANTS TypeOK QuietLogIsExact DamageIsBounded MixedNotLost
SYMMETRY Symmetry
\* A shell that waits in GET takes no step.
CHECK_DEADLOCK FALSE
