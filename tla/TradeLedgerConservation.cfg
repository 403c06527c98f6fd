CONSTANTS
  Ids = {1, 2, 3}
  Seqs = {1}
  MaxPriceTicks = 2
  MaxQuantity = 2
  MaxOrders = 2
  MaxPriceLevels = 2
  NoOrder = NoOrder
  MaxTrades = 1
SPECIFICATION LedgerSpec
INVARIANT
  QuantityConserved
