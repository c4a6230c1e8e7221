CONSTANTS
  p1 = p1
  p2 = p2
  t1 = t1
  t2 = t2
  t3 = t3
  NoThread = NoThread
  Process <- MCProcess
  Thread <- MCThread
  ProcOf <- MCProcOf
  MayTimeOut = FALSE
  MaxPulses = 2
SPECIFICATION LiveSpec
INVARIANT TruthfulReturn
INVARIANT OwnNotifications
INVARIANT NoTornDescriptor
PROPERTY ImplementsCtxLoad
