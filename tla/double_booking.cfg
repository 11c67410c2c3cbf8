CONSTANTS
  r1 = r1
  r2 = r2
  p1 = p1
  p2 = p2
  j1 = j1
  j2 = j2
  Request <- TwoRequests
  Plate <- OnePlate
  Project <- OneProject
  Window <- Touching
  Start <- OneStart
  FormStatus <- NoForm
  MaxRequests = 4
  MaxFaults = 0
SPECIFICATION Spec
CHECK_DEADLOCK FALSE
INVARIANTS
  NoDoubleBooking
