CONSTANTS
  r1 = r1
  r2 = r2
  r3 = r3
  Request <- TwoRequests
  Service <- BothServices
  Kind <- TwoKinds
  MaxIDAttempts = 2
  MaxCreations = 4
  LastDay = 1
SPECIFICATION Spec
CHECK_DEADLOCK FALSE
SYMMETRY Symmetry
INVARIANTS
  IInv
  OwnRow
  AloneSucceeds
