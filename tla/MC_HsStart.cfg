SPECIFICATION Spec
CONSTANTS
  Speeds <- MC_Speeds
  Divisors <- MC_Divisors
  Heaps <- MC_Heaps
  SweepHeaps <- MC_SweepHeaps
  TmBytes <- MC_TmBytes
  HtBytes <- MC_HtBytes
  HtKeys <- MC_HtKeys
  TmMaxRx = 4
  HtMaxRx = 4
  MaxKeys = 2
  RequireCarrier = TRUE
INVARIANTS TypeOK SizingIsLargestFit AutostartExact EveryStxRStartsHslink ClosedPortRestored
PROPERTIES TerminalEndsAfterCarrierLoss
