SPECIFICATION FairSpec
CONSTANTS
  Lanes = {l1, l2}
  Entries = {e1, e2}
  Waiters = {w1}
  MaxLimit = 2
  MaxGeneration = 1
CHECK_DEADLOCK FALSE
INVARIANTS LanesConsistent WorkConserving WaitersAccurate
PROPERTIES EveryCommandSettles EveryWaiterReturns
