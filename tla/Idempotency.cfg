SPECIFICATION FairIdemSpec
CONSTANTS
  Replicas = {p1}
  Attempts = {a1, a2, a3}
  Keys = {k1, k2}
  Bodies = {b1, b2}
  Fragile = {a1, a2}
  None = None
INVARIANTS
  IdemTypeOK
  AnswersAreEffects
  OneSoundEffect
PROPERTIES
  FirstRecordDecides
  EveryAttemptEnds
CHECK_DEADLOCK FALSE
