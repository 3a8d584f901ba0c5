\* Wipes and crashes at any moment, batches in hand and drained tails included: the cold and warm
\* paths of the load tests.
SPECIFICATION LossSpec
CONSTANTS
  s1 = s1  s2 = s2  b1 = b1  b2 = b2  b3 = b3  c1 = c1  c2 = c2
  Sales = {s1}
  Buyers = {b1, b2, b3}
  InitialStock <- StockOfTwo
  NotSeeded = NotSeeded
  DistinctMs = TRUE
  PriorRows <- OneRow
  PriorClock = 1
  Callers = {c1}
  SaleOf <- OneSale
  Nobody = Nobody
  SeedWithinTTL = TRUE
  PipelineWhole = TRUE
  SeedHeard = TRUE
  ReleaseHeard = TRUE
  Workers = {w1}
  Batch = 1
  MaxLosses = 2
  LossKeepsLocks = TRUE
SYMMETRY Symmetric
VIEW WithoutReceipts
INVARIANTS LossTypeOK OversoldOnlyByForgotten GateAddsUp GateKnowsEveryRow RestartHeals LossInv
           AcknowledgedHasRow LossRecordInv
