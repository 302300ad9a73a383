CONSTANTS
    TXQ_SIZE <- MC_TXQ_SIZE
    WriteSizes <- MC_WriteSizes
    AckLen = 1
    DiscardMin = 2
    UWIDTH <- MC_UWIDTH
    WRITE_MAX <- MC_WRITE_MAX
    MaxTok = 9
    MaxLostIrq = 1
    IdleMethod = 1
SPECIFICATION Spec
INVARIANT NoTxOverflow
