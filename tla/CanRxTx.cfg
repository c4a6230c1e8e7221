CONSTANTS
  RxBox <- MCOneRx
  TxBox <- MCTwoTx
  MaxQueue = 3
  MaxFrames = 4
  MaxWrites = 2
  FullMsg = TRUE
  KeepsNew = TRUE
SPECIFICATION LiveSpec
INVARIANT RxInOrder
INVARIANT AckedWereSent
PROPERTY TxNotOverwritten
PROPERTY WaitsForBusOnly
CHECK_DEADLOCK FALSE
