SPECIFICATION Spec
CONSTANTS
  OBUF = 3
  Slack = 1
  WriteSizes <- MC_WriteSizes
  AckLen = 1
  RtsHandshake = TRUE
  RequireCarrier = TRUE
  MaxTok = 7
  IBUF = 2
  ReadSizes <- MC_ReadSizes
  MaxRx = 3
INVARIANTS TypeOK RtsHeldInRegion
PROPERTIES TxFifoRefined WritesCompleteWhenLineFree ReadsEndAfterCarrierLoss
