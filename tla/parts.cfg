CONSTANTS
  r1 = r1
  r2 = r2
  a1 = a1
  a2 = a2
  n1 = n1
  n2 = n2
  Service <- TwoServices
  MaxKeys = 2
  MaxTime = 1
  AccessTTL = 1
  Request <- TwoRequests
  Account <- TwoAccounts
  Name <- TwoNames
  Founder <- First
  Seed <- Second
  Asked <- TwoOthers
  RefreshTTL = 1
  MaxRequests = 4
  MaxOverlaps = 1
  MaxFaults = 1
  j1 = j1
  j2 = j2
  i1 = i1
  i2 = i2
  s1 = s1
  s2 = s2
  p1 = p1
  Job <- TwoJobs
  Item <- TwoItems
  Supplier <- OneSupplier
  Purchase <- OnePurchase
  Quantity <- One
  StockUpdate <- BackOrForth
  Level <- One
  MaxJobs = 3
  MaxJobOverlaps = 2
  MaxMishaps = 1
  l1 = l1
  l2 = l2
  c1 = c1
  c2 = c2
  Line <- TwoLines
  Row <- TwoRows
  MinYear <- In2020
  MaxYear = 1
  Day <- EdgeDays
  MaxWrites = 2
  h1 = h1
  h2 = h2
  q1 = q1
  q2 = q2
  t1 = t1
  t2 = t2
  m1 = m1
  m2 = m2
  Clerk <- TwoClerks
  Plate <- TwoPlates
  ContentType <- TwoTypes
  Image <- TwoImages
  MaxErrands = 3
  MaxFailures = 1
SPECIFICATION PartsSpec
CHECK_DEADLOCK FALSE
SYMMETRY PartsSymmetry
INVARIANTS
  PartsInv
  SingleUse
  ReplayEndsFamily
  RolesOfTheLogin
  RolesAsAsked
  RotationCutsNobodyOff
  NeverOverdrawn
  NoChangeLost
  SidesAgree
  BarsAddUp
  CountsTellTheSame
  PanelAgreesWithCharts
  ShowsItsPhoto
  NothingLeftBehind
PROPERTIES
  ComparedLikeWithLike
