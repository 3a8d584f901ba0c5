\* The reply to a DEL of the init lock is lost, and the client sends the DEL again.
SPECIFICATION Spec
CONSTANTS
  s1 = s1  s2 = s2  b1 = b1  b2 = b2  b3 = b3  c1 = c1  c2 = c2
  Sales = {s1}
  Buyers = {b1, b2}
  InitialStock <- StockOfOne
  NotSeeded = NotSeeded
  DistinctMs = TRUE
  PriorRows <- NoRows
  PriorClock = 0
  Callers = {c1, c2}
  SaleOf <- OneSale
  Nobody = Nobody
  SeedWithinTTL = TRUE
  PipelineWhole = TRUE
  SeedHeard = TRUE
  ReleaseHeard = FALSE
  Workers = {w1}
  Batch = 1
PROPERTIES NeverClobbered
