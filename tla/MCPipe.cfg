CONSTANTS
  Bytes = 5
  BufSize = 3
  Soc = 7
  Word = 16
  MaxAgain = 2
  Faults = {"read", "send"}
SPECIFICATION FairPipeSpec
INVARIANTS
  PipedInOrder
  NothingHeldBack
PROPERTIES
  BytesGetThrough
  CloseGetsThrough
CHECK_DEADLOCK FALSE
