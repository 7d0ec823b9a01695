CONSTANTS
  Bytes = 4
  BufSize = 2
  Soc = 7
  Word = 16
  MaxAgain = 1
  Faults = {}
SPECIFICATION PipeSpec
INVARIANT Piped
CHECK_DEADLOCK FALSE
