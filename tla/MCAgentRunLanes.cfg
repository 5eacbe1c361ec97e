SPECIFICATION FairRunSpec
CONSTANTS
  r1 = r1
  r2 = r2
  Runs <- MCRuns
  Entries <- MCEntries
  Sessions <- MCSessions
  Lanes <- MCLanes
  LaneParams <- MCLaneParams
  Waiters = {}
  MaxLimit = 1
  MaxGeneration = 1
INVARIANTS SessionExclusive SomeRunGoesOn
PROPERTIES RunsQuiesce
CHECK_DEADLOCK FALSE
