\* A purchase arrives between the two commands of the seed pipeline.
SPECIFICATION Spec
CONSTANTS
  s1 = s1  s2 = s2  b1 = b1  b2 = b2  b3 = b3  c1 = c1  c2 = c2
  Sales = {s1}
  Buyers = {b1, b2}
  InitialStock <- StockOfTwo
  NotSeeded = NotSeeded
  DistinctMs = TRUE
  PriorRows <- OneRow
  PriorClock = 1
  Callers = {c1}
  SaleOf <- OneSale
  Nobody = Nobody
  SeedWithinTTL = TRUE
  PipelineWhole = FALSE
  SeedHeard = TRUE
  ReleaseHeard = TRUE
  Workers = {w1}
  Batch = 1
INVARIANTS OneReservationPerBuyer
