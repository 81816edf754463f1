SPECIFICATION Spec
CONSTANTS
  s1 = s1
  s2 = s2
  s3 = s3
  p1 = p1
  p2 = p2
  NoSub = NoSub
  Subs = {s1}
  CreatedAt <- MCCreatedAt
  StreamOf <- MCOneStream
  WithToken = {s1}
  StreamArgs = {200}
  Procs = {p1}
  LoopLimit = 20
  RunLimit = 5000
  Postpone = 43200
  FreshFor = 57600
  Interval = 432000
  RetryDelays = {86400}
  AnswerLimit = 1
  Pause = 0
  UpdateMayFail = TRUE
  MaxCrashes = 0
PROPERTY ChargesSpaced
