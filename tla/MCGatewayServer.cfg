CONSTANTS
  Ids = {0, 1, 2, 3}
  Seqs = {0, 1, 2, 3}
  MaxPriceTicks = 2
  MaxQuantity = 2
  MaxOrders = 3
  MaxPriceLevels = 3
  NoOrder = NoOrder
  IngressCapacity = 3
  EgressCapacity = 6
  Clients = {c1, c2, c3}
  Requests <- LiveRequests
  ChannelCapacity = 1
  IdSpace = 4
  SeqSpace = 4
  TopGatewayQuantity = 3
  Absent = Absent
  Malformed = Malformed
  NoCommand = NoCommand
  NoReply = NoReply
  NoAnswer = NoAnswer
  Torn = Torn
  Garbled = Garbled
  Faults = {"Timeout", "Disk"}
  MaxFaults = 1
SPECIFICATION MCSpec
SYMMETRY ClientSymmetry
INVARIANTS
  TruthfulAnswers
  ProjectionAgrees
  JournalAgrees
  LevelsAggregateOrders
CHECK_DEADLOCK FALSE
