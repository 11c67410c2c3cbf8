CONSTANTS
  r1 = r1
  r2 = r2
  i1 = i1
  i2 = i2
  p1 = p1
  Request <- OneRequest
  Item <- OneItem
  Sale <- OneOfEach
  StockLevel <- ZeroOrOne
  Plate <- OnePlate
  Fleet <- OneOrNone
  Editor <- Everyone
  MaxRequests = 4
  MaxOverlaps = 1
  MaxFaults = 0
SPECIFICATION Spec
CHECK_DEADLOCK FALSE
INVARIANTS
  NotInflated
