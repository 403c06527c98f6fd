CONSTANTS
  Ids = {0, 1, 2, 3}
  Seqs = {0, 1, 2, 3, 4, 5, 6, 7}
  MaxPriceTicks = 2
  MaxQuantity = 2
  MaxOrders = 3
  MaxPriceLevels = 3
  NoOrder = NoOrder
  IngressCapacity = 3
  EgressCapacity = 6
  Clients = {c1, c2}
  Requests <- RestartRequests
  ChannelCapacity = 1
  IdSpace = 4
  SeqSpace = 8
  TopGatewayQuantity = 3
  Absent = Absent
  Malformed = Malformed
  NoCommand = NoCommand
  NoReply = NoReply
  NoAnswer = NoAnswer
  Torn = Torn
  Garbled = Garbled
  Faults = {"Break", "Restart", "Timeout", "Crash", "Disk"}
  MaxFaults = 2
SPECIFICATION MCFairSpec
INVARIANTS
  NoTwins
  JournalledOnce
  AnsweredIsDurable
PROPERTIES
  ReplayRebuildsBook
  EveryRequestAnswered
CHECK_DEADLOCK FALSE
