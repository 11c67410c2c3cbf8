CONSTANTS
  r1 = r1
  r2 = r2
  p1 = p1
  p2 = p2
  Request <- TwoRequests
  Item <- OneItem
  Order <- OneOrder
  Plate <- TwoPlates
  Role <- TwoRoles
  Kind <- BothKinds
  MaxAttempts = 2
  MaxFaults = 1
SPECIFICATION Spec
CHECK_DEADLOCK FALSE
SYMMETRY Symmetry
INVARIANTS
  OverlapInv
  SelesaiDelivered
  PaidInMotion
  ApprovedFirst
  LedgerBacked
  CreditedPerAttempt
  AuditComplete
