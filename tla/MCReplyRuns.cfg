CONSTANTS
  o1 = o1
  o2 = o2
  o3 = o3
  k1 = k1
  k2 = k2
  s1 = s1
  s2 = s2
  s3 = s3
  w1 = w1
  Ops = {o1, o2, o3}
  Keys = {k1, k2}
  SessionIds = {s1, s2, s3}
  KeyOf <- MCKeyOf
  Waiters = {w1}
  None = None
SPECIFICATION Spec
SYMMETRY Symmetry
CHECK_DEADLOCK FALSE
INVARIANTS RegistryConsistent BackendsStop WaitersServed
