CONSTANTS
    RXQ_SIZE = 4
    QLOW_WATER = 1
    QHIGH_WATER = 3
    SKID = 1
    ReadSizes <- MC_ReadSizes
    XonHandshake = TRUE
    RtsHandshake = TRUE
    SlowInit <- MC_SlowInit
    MAX_OVERRUN = 1
    MAX_FRAMING = 1
    MaxRx = 6
    MaxErr = 2
    LogFile = TRUE
SPECIFICATION Spec
INVARIANT NoRxOverflow
