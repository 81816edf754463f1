SPECIFICATION Spec
CONSTANTS
  s1 = s1
  s2 = s2
  s3 = s3
  p1 = p1
  p2 = p2
  NoSub = NoSub
  Subs = {s1}
  CreatedAt <- MCCreatedAt
  StreamOf <- MCOneStream
  WithToken = {s1}
  StreamArgs = {200}
  Procs = {p1, p2}
  LoopLimit = 20
  RunLimit = 2
  Postpone = 17
  FreshFor = 23
  Interval = 172
  RetryDelays = {34}
  AnswerLimit = 1
  Pause = 1
  UpdateMayFail = FALSE
  MaxCrashes = 0
PROPERTY ChargesSpaced
