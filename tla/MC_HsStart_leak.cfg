SPECIFICATION Spec
CONSTANTS
  Speeds <- MC_Speeds
  Divisors <- MC_Divisors
  Heaps <- MC_Heaps
  SweepHeaps <- MC_SweepHeaps
  TmBytes <- MC_TmBytes
  HtBytes <- MC_HtBytes
  HtKeys <- MC_HtKeys
  TmMaxRx = 2
  HtMaxRx = 0
  MaxKeys = 0
  RequireCarrier = TRUE
INVARIANT PortRestoredAtExit
