SPECIFICATION ContainmentSpec
CONSTANTS
  Merchants = {m1}
  QualificationIds = {q1}
  BatchIds = {b1}
  Orders = {}
  Horizon = 0
  ExpiryDates = {1}
  Plans = {1}
  OrderQuantities = {}
  IncidentIds = {i1}
  RecallIds = {r1}
  DispositionIds = {d1}
  Quantities = {1}
INVARIANT
  RecallQuantitiesConsistent
CHECK_DEADLOCK FALSE
