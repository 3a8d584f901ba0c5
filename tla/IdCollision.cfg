\* Two sales sell within the same millisecond.
SPECIFICATION Spec
CONSTANTS
  s1 = s1  s2 = s2  b1 = b1  b2 = b2  b3 = b3  c1 = c1  c2 = c2
  Sales = {s1, s2}
  Buyers = {b1}
  InitialStock <- StockOfOne
  NotSeeded = NotSeeded
  DistinctMs = FALSE
  PriorRows <- NoRows
  PriorClock = 0
  Callers = {c1, c2}
  SaleOf <- SaleEach
  Nobody = Nobody
  SeedWithinTTL = TRUE
  PipelineWhole = TRUE
  SeedHeard = TRUE
  ReleaseHeard = TRUE
  Workers = {w1}
  Batch = 1
INVARIANTS AcknowledgedIsRecorded
