SPECIFICATION IdemSpec
CONSTANTS
  Replicas = {p1, p2}
  Attempts = {a1, a2, a3}
  Keys = {k1, k2}
  Bodies = {b1, b2}
  Fragile = {}
  None = None
INVARIANTS
  SameRequestSameResponse
CHECK_DEADLOCK FALSE
