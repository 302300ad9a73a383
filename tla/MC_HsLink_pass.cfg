CONSTANTS
    NFiles <- MC_NFilesPass
    MaxRecv = 1
    CANCEL_COUNT = 3
    Keys <- MC_Keys
    MaxKeys = 4
    RequireCarrier = TRUE
SPECIFICATION Spec
INVARIANT TypeOK KeyboardCancelExact
PROPERTY CancelLeadsToExit
