CONSTANTS
  p1 = p1
  p2 = p2
  t1 = t1
  t2 = t2
  t3 = t3
  NoThread = NoThread
  Process <- MCProcess
  Thread <- MCTwoThread
  ProcOf <- MCTwoProcOf
  MayTimeOut = TRUE
  MaxPulses = 1
SPECIFICATION LateSpec
INVARIANT OnlyHolderListens
PROPERTY CallReturns
