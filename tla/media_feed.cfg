CONSTANTS
  Consumers = {recorder, publisher}
  LossIntolerant = {recorder}
  LiveAligned = {publisher}
  Capacity = 1
  MaxPackets = 5
  MaxBootstrap = 4
  MaxChunk = 2
  Streams <- SmallStreams
  MaxLaunches = 2
  Clients = {operator, automation}
  MaxReconnects = 3
  MaxSessions = 2
SPECIFICATION MCSpec
INVARIANTS
  TypesOK
  PumpNeverFaults
  OneStreamer
  StopIsFinal
  ActiveIsWatched
PROPERTIES
  FeedOrderAndContinuity
  WaitsEnd
CHECK_DEADLOCK FALSE
