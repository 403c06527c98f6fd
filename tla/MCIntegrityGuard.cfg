CONSTANTS
  Ids = {1}
  Seqs = {1}
  MaxPriceTicks = 3
  MaxQuantity = 1
  MaxOrders = 3
  MaxPriceLevels = 3
  MaxSteps = 2
  WordSize = 4
  Outcomes <- MCOutcomes
SPECIFICATION GuardSpec
PROPERTIES
  CommitIsAtomic
  ErrorNamesViolation
