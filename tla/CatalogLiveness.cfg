\* Three ids, of which a node remembers two as unknown; a sale is created under one of them.
\* Two requests at a time. A creation whose row is never read back stands for one by another
\* node.
SPECIFICATION FairPurchasesSpec
CONSTANTS
  s1 = s1  s2 = s2  s3 = s3  b1 = b1  b2 = b2  n1 = n1  n2 = n2
  Sales = {s1, s2, s3}
  Buyers = {b1}
  InitialStock <- OneUnit
  NotSeeded = NotSeeded
  DistinctMs = TRUE
  Capacity = 2
  TTL = 2
  Nodes = {n1}
  Calls = {k1, k2}
  Created = {s1}
  Windows <- Upcoming
  NoSale = NoSale
  NoCall = NoCall
  Horizon = 0
  MaxDeaths = 0
INVARIANTS UnknownBounded
PROPERTIES BecomesKnown
