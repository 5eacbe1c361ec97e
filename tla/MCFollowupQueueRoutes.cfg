SPECIFICATION Spec
CONSTANTS
  Messages = {m1, m2}
  Objects = {o1}
  Settings <- CollectNew
  Routes = {"a", "b"}
  MaxClears = 0
  MaxDropped = 0
  NoObject = NoObject
CHECK_DEADLOCK FALSE
INVARIANTS BatchesShareRoute
