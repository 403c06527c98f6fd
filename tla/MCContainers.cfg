CONSTANTS
  Ids = {1, 2}
  Seqs = {1, 2}
  MaxPriceTicks = 3
  MaxQuantity = 2
  MaxOrders = 4
  MaxPriceLevels = 3
  Offered <- MCOffered
  RetiredIds = {1, 2, 3, 4, 5}
  HistoryCapacity = 4
  Homes = {0, 7}
  FirstHome = 0
  Empty = Empty
SPECIFICATION MCSpec
INVARIANTS
  StorageConsistent
  TableMatchesRing
PROPERTIES
  ImplementsPriceTimeBook
  ImplementsRetiredHistory
