\* A hard crash of Redis within a second of a purchase.
SPECIFICATION LossSpec
CONSTANTS
  s1 = s1  s2 = s2  b1 = b1  b2 = b2  b3 = b3  c1 = c1  c2 = c2
  Sales = {s1}
  Buyers = {b1, b2}
  InitialStock <- StockOfOne
  NotSeeded = NotSeeded
  DistinctMs = TRUE
  PriorRows <- NoRows
  PriorClock = 0
  Callers = {c1}
  SaleOf <- OneSale
  Nobody = Nobody
  SeedWithinTTL = TRUE
  PipelineWhole = TRUE
  SeedHeard = TRUE
  ReleaseHeard = TRUE
  Workers = {w1}
  Batch = 1
  MaxLosses = 1
  LossKeepsLocks = TRUE
INVARIANTS LedgerWithinStock
