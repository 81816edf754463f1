SPECIFICATION LineSpec
CONSTANTS
  Symbols = {"PUT"}
  BufferLen = 3
  MaxLine = 7
  MaxFails = 0
  MaxLines = 1
PROPERTY UnmatchedLineStoresNothing
CHECK_DEADLOCK FALSE
