SPECIFICATION SessionSpec
CONSTANTS
  Symbols = {"PUT", "q"}
  BufferLen = 3
  MaxLine = 5
  MaxFails = 1
  MaxLines = 2
  Shells = {"h"}
  Keys = {"PUT", "q", "text"}
  Values = {"PUT", "q", "text"}
  MaxPuts = 2
  MaxFaults = 0
INVARIANTS LineTypeOK PlainLineIsSplit NothingLost OverrunOnlyByLongWord OneBufferLeaksPerLine
PROPERTIES NothingRunsAfterEof LogSpec PlainPutIsStored
\* A shell that has written past its buffer takes no step, and nobody types
\* more than MaxLines lines.
CHECK_DEADLOCK FALSE
