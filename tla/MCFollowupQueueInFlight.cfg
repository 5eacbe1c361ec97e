SPECIFICATION Spec
CONSTANTS
  Messages = {m1, m2, m3}
  Objects = {o1}
  Settings <- FollowupOld
  Routes = {"none"}
  MaxClears = 0
  MaxDropped = 2
  NoObject = NoObject
SYMMETRY MessageSymmetry
INVARIANTS NoSilentLoss
CHECK_DEADLOCK FALSE
