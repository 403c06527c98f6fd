CONSTANTS
  Ids = {1, 2, 3}
  Seqs = {1, 2}
  MaxPriceTicks = 2
  MaxQuantity = 2
  MaxOrders = 2
  MaxPriceLevels = 2
  NoOrder = NoOrder
  MaxTrades = 1
SPECIFICATION LedgerSpec
INVARIANTS
  BookSorted
  Uncrossed
  FillsAccountForQuantity
  RetiredAreRecentDepartures
PROPERTIES
  PriceTimePriority
  MatchingEnds
