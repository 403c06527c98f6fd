CONSTANTS
  Ids = {1, 2}
  Seqs = {1}
  MaxPriceTicks = 1
  MaxQuantity = 2
  MaxOrders = 2
  MaxPriceLevels = 2
  NoOrder = NoOrder
  IngressCapacity = 2
  EgressCapacity = 3
  Sockets = {1, 2, 3}
  max_connections = 2
  Commands <- MCCommands
  MaxBatch = 3
  NoSocket = NoSocket
  MaxFrames = 3
  MaxAccepted = 3
SPECIFICATION MCSpec
INVARIANTS
  OneAnswerEach
  TradesBeforeTheirAck
  ExecutionSequenceGrows
  RingsEmptyBetweenReads
  LifecyclesAgree
  LossIsCounted
PROPERTY
  ServerSettles
CHECK_DEADLOCK FALSE
