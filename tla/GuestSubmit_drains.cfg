\* The broker may deny the VM; the ring memory may be unmapped and mapped again.
SPECIFICATION SFairSpec
CONSTANTS
  Cap = 2
  IndexMod = 16
  c1 = c1
  c2 = c2
  NoCpu = NoCpu
  Gone = Gone
  Cpus <- TwoCpus
  Addrs <- MCAddrs
  LinuxSeqno = TRUE
  MaxSubmits = 3
  MaxNudges = 2
  MayDeny = TRUE
  MaxTries = 2
  MaxRemaps = 2
INVARIANTS STypeOK DoorbellRetires PayloadIntact AckedRan WaitsForItsOwn
PROPERTY SubmitReturns
CHECK_DEADLOCK FALSE
