SPECIFICATION Spec
CONSTANTS
  s1 = s1
  s2 = s2
  s3 = s3
  p1 = p1
  p2 = p2
  NoSub = NoSub
  Subs = {s1}
  CreatedAt <- MCCreatedAt
  StreamOf <- MCOneStream
  WithToken = {s1}
  StreamArgs = {98, 200}
  Procs = {p1, p2}
  LoopLimit = 2
  RunLimit = 1
  Postpone = 5
  FreshFor = 1
  Interval = 2
  RetryDelays = {1}
  AnswerLimit = 1
  Pause = 1
  UpdateMayFail = TRUE
  MaxCrashes = 1
INVARIANTS TypeOK OneRunPerStream OneClaimPerSub NoLostUpdate TornOnlyPastLock
PROPERTIES UndisturbedSpaced UnsubscribedIsFinal ReducedOnlyAfterFailure NoRowTwice
SYMMETRY MCSymmetry
