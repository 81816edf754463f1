SPECIFICATION FairSpec
CONSTANTS
  Lengths = {2, 3}
  BufferLen = 3
  MaxWords = 2
  Descriptors = 3
  Clients = {"c1", "c2", "c3"}
  QLen = 2
  MaxTime = 1
  MaxFaults = 1
  PointerSize = 3
  Messages <- MCMessages
  MaxSignals = 3
  TimeLimit = 3
  Wanted = "w"
  Others = {"a", "b"}
  MaxLinks = 1
  Numbers = {1, 2}
  Memory = 7
  Letters = {"a", "b"}
  MaxString = 4
  MaxSubstring = 3
  LineSize = 4
  LineLengths = {1, 3, 5}
  MaxLines = 2
  MaxFiles = 3
  CatDescriptors = 2
INVARIANTS TypesOK OneStays TimeIsFresh OnlyLeaversEndIt ShortMessageArrives
  NoChildLeft AnswerIsThere ListsAreRight TextsAreRight
PROPERTIES NeverOlder EndsAfterEof EveryClientEnds InterruptedEnds
  NameIsGreeted
\* Every one of these programs ends, or waits for a user who may type nothing.
CHECK_DEADLOCK FALSE
