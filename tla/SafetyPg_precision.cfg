SPECIFICATION SafetyPgSpec
CONSTANTS
  b1 = b1
  b2 = b2
  i1 = i1
  i2 = i2
  O1 = O1
  o1 = o1
  o2 = o2
  Merchants = {m1}
  QualificationIds = {q1}
  BatchIds = {b1}
  Orders = {}
  Horizon = 0
  ExpiryDates = {1}
  Plans = {1}
  OrderQuantities = {}
  IncidentIds = {i1}
  Sessions = {s1}
  TextOrder <- NoOrders
  UuidOf <- NoOrders
  OrderCalls = {}
  Reports <- OneBatch
  ProducedQuantities = {1}
  BatchTargets = {"SCHEDULED"}
  IncidentTargets = {"CONTAINED"}
  EvidenceSubjects = {i1}
  CapturedAt = {"MICROSECONDS", "NANOSECONDS"}
  MaxEvidence = 2
INVARIANTS
  RecordedEvidenceVerifies
CHECK_DEADLOCK FALSE
