\* Two nodes with two sales: one on record, one that a post may create.
SPECIFICATION FairRecoverySpec
CONSTANTS
  s1 = s1  s2 = s2  b1 = b1  n1 = n1  n2 = n2  p1 = p1  p2 = p2  q1 = q1
  Sales = {s1, s2}
  Buyers = {b1}
  InitialStock <- StockOfTwo
  NotSeeded = NotSeeded
  DistinctMs = TRUE
  PriorRows <- OneRow
  PriorClock = 1
  Callers <- AllCallers
  SaleOf <- SaleOfCaller
  Nobody = Nobody
  SeedWithinTTL = TRUE
  PipelineWhole = FALSE
  SeedHeard = FALSE
  ReleaseHeard = FALSE
  Nodes = {n1, n2}
  Passes = {p1, p2}
  Posts = {q1}
  NodeOf <- JobNode
  SeedSale = s2
  NoSale = NoSale
  MaxFaults = 1
INVARIANTS RecoveryTypeOK ServesWarm BootInv
PROPERTIES SeedsWhatIsDue
