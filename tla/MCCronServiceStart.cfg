CONSTANTS
  daily = daily
  once = once
  hourly = hourly
  Jobs = {daily, hourly}
  OneShots = {}
  CronJobs = {daily, hourly}
  At <- MCAt
  Stored = {daily}
  MaxMissed = 1
  MaxAttempts = 1
  Backoff = 1
  MaxConcurrentRuns = 1
  Stuck = 2
  MaxTime = 3
  MaxEvents = 1
SPECIFICATION Spec
CHECK_DEADLOCK FALSE
PROPERTY SlotsOutliveCatchup
