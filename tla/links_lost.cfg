CONSTANTS
  j1 = j1
  j2 = j2
  i1 = i1
  i2 = i2
  s1 = s1
  s2 = s2
  p1 = p1
  Job <- TwoJobs
  Item <- OneItem
  Supplier <- OneSupplier
  Purchase <- OnePurchase
  Quantity <- One
  StockUpdate <- BackOrForth
  Level <- One
  MaxJobs = 3
  MaxJobOverlaps = 0
  MaxMishaps = 0
SPECIFICATION CatalogueSpec
CHECK_DEADLOCK FALSE
INVARIANTS
  LinksKept
