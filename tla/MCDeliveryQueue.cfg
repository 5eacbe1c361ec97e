SPECIFICATION TwoMessagesSpec
CONSTANTS
  Entries = {e1, e2, e3}
  DrainKeys = {k1}
  Startup = startup
  BestEffort = {e3}
  ReportsErrors = {}
  OnDisk = {e1}
  MaxRetries = 2
  BudgetExpires = TRUE
  MaxCrashes = 1
CHECK_DEADLOCK FALSE
INVARIANTS NoLostDelivery ClaimsExact
PROPERTIES NoReplayAfterAck LeftoversRetried
