CONSTANTS
  ByteSpace = 6
  WideBytes = 2
  NarrowBytes = 1
  kMaxPriceTicks = 30
  kMaxGatewayQuantity = 4
  MAX_PRICE_TICKS = 30
  MAX_GATEWAY_QUANTITY = 4
  MAX_ENGINE_QUANTITY = 2
  kMaxMessageSize = 12
  MaxSent = 2
SPECIFICATION MCSpec
INVARIANTS
  ChunkingIrrelevant
  RoundTrip
  FramersAgree
CHECK_DEADLOCK FALSE
