SPECIFICATION ProductionSpec
CONSTANTS
  Merchants = {m1, m2}
  QualificationIds = {q1}
  BatchIds = {b1, b2}
  Orders = {o1, o2}
  Horizon = 1
  ExpiryDates = {1, 2}
  Plans = {2}
  OrderQuantities = {1, 2}
INVARIANTS
  BatchesOfExaminedMerchants
  OrdersInOneBatch
PROPERTIES
  WithdrawnStaysWithdrawn
CHECK_DEADLOCK FALSE
