\* Two buyers of a seeded sale, two workers that come and go, an unreliable Postgres.
SPECIFICATION LiveSpec
CONSTANTS
  s1 = s1  s2 = s2  b1 = b1  b2 = b2  b3 = b3  c1 = c1  c2 = c2
  Sales = {s1}
  Buyers = {b1, b2}
  InitialStock <- StockOfTwo
  NotSeeded = NotSeeded
  DistinctMs = TRUE
  PriorRows <- NoRows
  PriorClock = 0
  Callers = {}
  SaleOf <- OneSale
  Nobody = Nobody
  SeedWithinTTL = TRUE
  PipelineWhole = TRUE
  SeedHeard = TRUE
  ReleaseHeard = TRUE
  Workers = {w1, w2}
  Batch = 1
PROPERTIES EveryReservationRecorded
