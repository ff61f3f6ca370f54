SPECIFICATION FairSafetyPgSpec
CONSTANTS
  b1 = b1
  b2 = b2
  i1 = i1
  i2 = i2
  O1 = O1
  o1 = o1
  o2 = o2
  Merchants = {m1}
  QualificationIds = {q1}
  BatchIds = {b1, b2}
  Orders = {O1, o1, o2}
  Horizon = 1
  ExpiryDates = {1}
  Plans = {2}
  OrderQuantities = {1}
  IncidentIds = {i1, i2}
  Sessions = {s1, s2}
  TextOrder <- MCTextOrder
  UuidOf <- MCUuidOf
  OrderCalls <- MCOrderCalls
  Reports <- MCReports
  ProducedQuantities = {1}
  BatchTargets = {"SCHEDULED", "PRODUCING"}
  IncidentTargets = {"CONTAINED"}
  EvidenceSubjects = {i1}
  CapturedAt = {"NANOSECONDS"}
  MaxEvidence = 2
INVARIANTS
  SafetyPgTypeOK
  EvidenceChainsUnbroken
  OnlyContainmentsDeadlock
  NoOrderTwiceInABatch
PROPERTIES
  ImplementsService
  EveryCallEnds
CHECK_DEADLOCK FALSE
