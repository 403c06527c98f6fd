CONSTANTS
  Values = {1, 2}
  Capacity = 2
  NoValue = NoValue
  Threads = {driver, other}
  Driver = driver
  HeapBlocks = 3
  MaxAllocations = 3
  kMinOrderVolume = 2
  kMaxOrderVolume = 3
  Target = 2
  Volumes = {1, 2, 4}
  Percentages = {0, 50, 101}
  Slow = 2
  MaxSubmissions = 4
SPECIFICATION MeasureSpec
INVARIANTS
  CountsArePaired
  PercentileIsNearestRank
  RecordingAllocatesNothing
PROPERTY
  ImplementsBoundedQueue
CHECK_DEADLOCK FALSE
