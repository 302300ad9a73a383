CONSTANTS
    NFiles <- MC_NFiles
    MaxRecv = 1
    CANCEL_COUNT = 3
    Keys <- MC_Keys
    MaxKeys = 5
    RequireCarrier = TRUE
SPECIFICATION Spec
PROPERTY EmptyBatchExitsZero
