\* A tab whose user types either identifier, others who buy, a sale that opens and closes.
SPECIFICATION FairStorefrontSpec
CONSTANTS
  s1 = s1  b1 = b1  b2 = b2
  Sales = {s1}
  Buyers = {b1, b2}
  InitialStock <- StockOfTwo
  NotSeeded = NotSeeded
  DistinctMs = TRUE
  Sale = s1
  StartsAt = 1
  EndsAt = 2
  Horizon = 2
  MaxPresses = 2
  Blank = Blank
  NoData = NoData
  NoOutcome = NoOutcome
INVARIANTS StorefrontTypeOK SoldOutIsTrue TabInv
PROPERTIES MeterNeverRises RefetchSeesPurchase OutcomeMeetsField FindsStock
