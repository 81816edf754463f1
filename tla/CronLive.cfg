SPECIFICATION FairSpec
CONSTANTS
  s1 = s1
  s2 = s2
  s3 = s3
  p1 = p1
  p2 = p2
  NoSub = NoSub
  Subs = {s1, s2, s3}
  CreatedAt <- MCCreatedAt
  StreamOf <- MCOneStream
  WithToken = {s1, s2}
  StreamArgs = {200}
  Procs = {p1, p2}
  LoopLimit = 3
  RunLimit = 2
  Postpone = 3
  FreshFor = 1
  Interval = 3
  RetryDelays = {3}
  AnswerLimit = 1
  Pause = 0
  UpdateMayFail = FALSE
  MaxCrashes = 1
PROPERTIES RunsEnd DueIsServed
