CONSTANTS
  r1 = r1
  r2 = r2
  p1 = p1
  p2 = p2
  Request <- TwoRequests
  Item <- OneItem
  Order <- OneOrder
  Plate <- OnePlate
  Role <- TwoRoles
  Kind <- OnlyResource
  MaxAttempts = 1
  MaxFaults = 0
SPECIFICATION Spec
CHECK_DEADLOCK FALSE
PROPERTIES
  TerminalIsFinal
