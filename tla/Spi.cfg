CONSTANTS
  c1 = c1
  c2 = c2
  d1 = d1
  d2 = d2
  NoDevice = NoDevice
  Client <- MCClient
  Device <- MCDevice
  W = 2
  FifoSize = 3
  BurstMax = 10
  Lens <- MCLens
  NamesDevice = TRUE
  AfterLate = FALSE
SPECIFICATION LiveSpec
INVARIANT LockExcludes
INVARIANT NoOverrun
INVARIANT ReadsReceived
INVARIANT Exchanged
PROPERTY ImplementsBus
PROPERTY XferReturns
