CONSTANTS
  r1 = r1
  r2 = r2
  p1 = p1
  p2 = p2
  Request <- OneRequest
  Item <- TwoItems
  Order <- AllOrders
  Plate <- OnePlate
  Role <- TwoRoles
  Kind <- OnlyResource
  MaxAttempts = 2
  MaxFaults = 1
SPECIFICATION Spec
CHECK_DEADLOCK FALSE
INVARIANTS
  DeliveredExactly
