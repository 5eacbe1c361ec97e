CONSTANTS
  p0 = p0
  p1 = p1
  p2 = p2
  Procs = {p0, p1, p2}
  Earlier = {p0}
  NoProc = NoProc
  Supervised = {p2}
  MaxKills = 1
  MaxSignals = 2
SPECIFICATION FairSpec
CHECK_DEADLOCK FALSE
INVARIANTS NoLeftoverLock
PROPERTIES OneGateway LoneStarterGetsLock ShutdownEnds
