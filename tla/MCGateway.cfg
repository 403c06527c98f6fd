CONSTANTS
  IdSpace = 4
  SeqSpace = 4
  TopPriceTicks = 2
  TopGatewayQuantity = 1
  Absent = Absent
  Malformed = Malformed
  Bodies <- MCBodies
  MaxForwarded = 4
SPECIFICATION LibrarySpec
INVARIANTS
  IdentifiersUnique
  FaithfulToRequest
CHECK_DEADLOCK FALSE
