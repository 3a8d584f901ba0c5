\* One sale of two units, three buyers; two API nodes seed it, two workers drain it.
SPECIFICATION Spec
CONSTANTS
  s1 = s1  s2 = s2  b1 = b1  b2 = b2  b3 = b3  c1 = c1  c2 = c2
  Sales = {s1}
  Buyers = {b1, b2, b3}
  InitialStock <- StockOfTwo
  NotSeeded = NotSeeded
  DistinctMs = TRUE
  PriorRows <- NoRows
  PriorClock = 0
  Callers = {c1, c2}
  SaleOf <- OneSale
  Nobody = Nobody
  SeedWithinTTL = TRUE
  PipelineWhole = TRUE
  SeedHeard = TRUE
  ReleaseHeard = TRUE
  Workers = {w1, w2}
  Batch = 2
SYMMETRY Symmetric
INVARIANTS TypeOK NoOversell StockConserved OneReservationPerBuyer GateKnowsEveryHolder
           AcknowledgedIsRecorded OneSeeder IndInv RecordInv
PROPERTIES NeverClobbered KeepsPromise
