SPECIFICATION OneCrossSpec
CONSTANTS
  Messages = {m1, m2, m3}
  Objects = {o1}
  Settings <- Switching
  Routes = {"none", "cross"}
  MaxClears = 1
  MaxDropped = 2
  NoObject = NoObject
CHECK_DEADLOCK FALSE
INVARIANTS QueuesWellFormed
PROPERTIES RemovedOnlyIfHandled CapRespected LeftOnlyByEmbeddedRun EveryMessageHandled
