SPECIFICATION ContainmentSpec
CONSTANTS
  Merchants = {m1}
  QualificationIds = {q1}
  BatchIds = {b1, b2}
  Orders = {}
  Horizon = 0
  ExpiryDates = {1}
  Plans = {1}
  OrderQuantities = {}
  IncidentIds = {i1}
  RecallIds = {r1}
  DispositionIds = {d1}
  Quantities = {1}
INVARIANTS
  ContainmentTypeOK
  ContainedBatchesAreWithdrawn
  RecallReachesItsBatches
  ClosedIncidentsHaveNoActiveRecall
PROPERTIES
  WithdrawalFollowsBatchLifecycle
CHECK_DEADLOCK FALSE
