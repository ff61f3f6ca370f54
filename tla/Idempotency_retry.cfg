SPECIFICATION IdemSpec
CONSTANTS
  Replicas = {p1}
  Attempts = {a1, a2, a3}
  Keys = {k1, k2}
  Bodies = {b1, b2}
  Fragile = {a1}
  None = None
INVARIANTS
  OneEffectPerKey
CHECK_DEADLOCK FALSE
