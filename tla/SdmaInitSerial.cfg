CONSTANTS
  p1 = p1
  p2 = p2
  t1 = t1
  t2 = t2
  t3 = t3
  NoThread = NoThread
  Process <- MCProcess
  Thread <- MCThread
  ProcOf <- MCProcOf
  SerialLoad = TRUE
  MayFail = TRUE
SPECIFICATION LiveSpec
INVARIANT CountsRight
INVARIANT ResetAlone
INVARIANT InitExclusive
PROPERTY CallsReturn
CHECK_DEADLOCK FALSE
