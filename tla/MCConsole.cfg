CONSTANTS
  EventCapacity = 2
  SocketRoom = 1
  MaxChanges = 2
  Polls = {1, 2}
  MaxFailures = 1
SPECIFICATION MCSpec
PROPERTIES
  EveryChangeIsStreamed
  PollingCatchesUp
  NeverShowsOlder
