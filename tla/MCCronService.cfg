CONSTANTS
  daily = daily
  once = once
  hourly = hourly
  Jobs = {daily, once}
  OneShots = {once}
  CronJobs = {daily}
  At <- MCAt
  Stored = {daily}
  MaxMissed = 1
  MaxAttempts = 1
  Backoff = 1
  MaxConcurrentRuns = 2
  Stuck = 1
  MaxTime = 3
  MaxEvents = 2
SPECIFICATION Spec
CHECK_DEADLOCK FALSE
INVARIANTS SchedulerHealthy NoConcurrentRun OneShotOnce
PROPERTIES DueSlotsKept
