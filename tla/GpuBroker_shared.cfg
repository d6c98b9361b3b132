\* Three connections of two VMs share the GPU under the throttle: admission,
\* true-up, reap and renders in any order.
SPECIFICATION FairSpec
CONSTANTS
  b1 = b1
  b2 = b2
  b3 = b3
  v1 = v1
  v2 = v2
  Nobody = Nobody
  NoSize = NoSize
  Backends <- ThreeBackends
  Vms <- TwoVms
  VmOf <- SharedId
  Streaming <- SomeStream
  TotalVram = 7
  VramReserve = 1
  MaxGpuVms = 2
  MaxEncSessions = 1
  VramCap <- Caps
  Estimate = 2
  ScanoutSizes <- Sizes
  ThrottleEnabled = TRUE
  Rate <- Rates
  Unit = 2
  Burst = 1
  Quantum = 2
  NapMax = 2
  MaxCost = 2
  ElapsedMax = 6
INVARIANTS WithinBudget TicketsExact LedgerExact BackPressure
PROPERTY RunReturns
CHECK_DEADLOCK FALSE
