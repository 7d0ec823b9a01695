CONSTANTS
  Tasks <- WithWrap
  MaxPriority = 1
  Priority <- TaskPriority
  Duplication <- TaskDuplication
  JobId <- TaskId
  Word = 8
  Size = 2
  StartIdx <- ServerStart
  Faults = {"connect_now", "refused", "reset", "closed", "no_header", "part", "zero"}
SPECIFICATION FairSpec
INVARIANTS
  DoneOnce
  DoneIsAsSent
  PurgedCopyStops
  PurgedForAReason
PROPERTIES
  FileArrives
  CopiesEnd
CHECK_DEADLOCK FALSE
