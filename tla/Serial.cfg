CONSTANTS
  XferSize = 2
  FifoSize = 1
  Timeout = 2
  Room = 1
  Bytes = 3
  Chunks = 3
  Ctrls = 1
  UserRts = FALSE
SPECIFICATION LiveSpec
INVARIANT OutputInOrder
INVARIANT InputInOrder
PROPERTY OutputSent
PROPERTY InputResumes
CHECK_DEADLOCK FALSE
