CONSTANTS
  RxN = 3
  QMax = 2
  RxFrames = 4
  RxMaxFrags = 2
  MayFail = TRUE
SPECIFICATION RxLiveSpec
INVARIANT OneFrame
INVARIANT InOrder
INVARIANT QueueIsWorked
INVARIANT OneInCharge
PROPERTY ReceptionGoesOn
CHECK_DEADLOCK FALSE
