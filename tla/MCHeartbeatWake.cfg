SPECIFICATION FairSpec
CONSTANTS
  Targets = {t1, t2}
  Delays = {0, 1}
  MaxHandlers = 2
  Slots = {b1, b2}
  MaxRequests = 2
CHECK_DEADLOCK FALSE
INVARIANTS RegistrationsConsistent WakesKept BatchesDoNotOverlap
PROPERTIES EveryWakeAnswered CooldownKept
