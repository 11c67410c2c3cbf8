CONSTANTS
  r1 = r1
  r2 = r2
  p1 = p1
  p2 = p2
  j1 = j1
  j2 = j2
  Request <- TwoRequests
  Plate <- OnePlate
  Project <- OneProject
  Window <- ThreeWindows
  Start <- OneStart
  FormStatus <- Typed
  MaxRequests = 4
  MaxFaults = 1
SPECIFICATION Spec
CHECK_DEADLOCK FALSE
SYMMETRY Symmetry
INVARIANTS
  BookingInv
  CalendarClear
  ReturnedToPool
  WorkshopHasJob
