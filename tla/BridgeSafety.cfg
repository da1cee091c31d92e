SPECIFICATION BridgeSpec
CONSTANTS
  A = A
  Ids = {A}
  MaxSend <- MCTwo
  SeqValues = 3
  GenValues = 2
  WarnThreshold = 1
  MaxTimeouts = 1
  RequireHandshake = TRUE
  HeartbeatModes = {TRUE}
  HashAccepted = TRUE
  HeartbeatValues = 2
  TxCapacity = 2
  RingPackets = 2
  ChunkPackets = 2
  MaxTasks = 1
  MaxLine = 2
  MaxAttempts = 0
  MaxData = 0
  MaxFaults = 1
  StartMayThrow = TRUE
  MaxRacers = 0
  LateTasks = {}
  MaxStale = 1
  SlowTimers = FALSE
INVARIANTS SenderIsServed ClearedByDestroy HandshakeFirst ReadyIsLinked DrainedIsQuiet
PROPERTY KeepsPromise
CHECK_DEADLOCK FALSE
