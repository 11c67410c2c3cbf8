CONSTANTS
  r1 = r1
  r2 = r2
  p1 = p1
  p2 = p2
  Request <- OneRequest
  Item <- TwoItems
  Order <- AllOrders
  Plate <- OnePlate
  Role <- AllRoles
  Kind <- BothKinds
  MaxAttempts = 3
  MaxFaults = 2
SPECIFICATION FairSpec
CHECK_DEADLOCK FALSE
INVARIANTS
  DeliveredOnce
  PriceOfLines
PROPERTIES
  Implements
  ResourceCompletes
