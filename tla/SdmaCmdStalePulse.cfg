CONSTANTS
  p1 = p1
  p2 = p2
  t1 = t1
  t2 = t2
  t3 = t3
  NoThread = NoThread
  Process <- MCProcess
  Thread <- MCThread
  ProcOf <- MCProcOf
  MayTimeOut = TRUE
  MaxPulses = 2
SPECIFICATION Spec
INVARIANT TruthfulReturn
