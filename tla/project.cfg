CONSTANTS
  r1 = r1
  r2 = r2
  i1 = i1
  i2 = i2
  p1 = p1
  Request <- TwoRequests
  Item <- TwoItems
  Sale <- OneOfEach
  StockLevel <- ShortOrOne
  Plate <- OnePlate
  Fleet <- OneOrNone
  Editor <- Operator
  MaxRequests = 4
  MaxOverlaps = 1
  MaxFaults = 1
SPECIFICATION Spec
CHECK_DEADLOCK FALSE
SYMMETRY Symmetry
INVARIANTS
  ProjectInv
  Balanced
  NetDelta
  LedgerAgrees
  RefundedIsCancelled
  FinishedWasBegun
  NothingOverReturned
