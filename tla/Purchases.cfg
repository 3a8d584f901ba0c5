\* One sale of one unit, two nodes that may create it with different windows, two buyers.
SPECIFICATION PurchasesSpec
CONSTANTS
  s1 = s1  s2 = s2  s3 = s3  b1 = b1  b2 = b2  n1 = n1  n2 = n2
  Sales = {s1}
  Buyers = {b1, b2}
  InitialStock <- OneUnit
  NotSeeded = NotSeeded
  DistinctMs = TRUE
  Capacity = 1
  TTL = 1
  Nodes = {n1, n2}
  Calls = {k1, k2}
  Created = {s1}
  Windows <- EarlyOrLate
  NoSale = NoSale
  NoCall = NoCall
  Horizon = 3
  MaxDeaths = 1
SYMMETRY Symmetric
INVARIANTS PurchasesTypeOK SoldInWindow AnsweredTruly PurchasesInv
PROPERTIES LocalCreateWins
