SPECIFICATION Spec
CONSTANTS
  RequireHandshake = TRUE
  HeartbeatModes = {TRUE}
  HashAccepted = TRUE
  HeartbeatValues = 2
  TxCapacity = 2
  RingPackets = 1
  ChunkPackets = 2
  MaxTasks = 2
  MaxLine = 2
  MaxAttempts = 2
  MaxData = 0
  MaxFaults = 1
  StartMayThrow = TRUE
  MaxRacers = 0
  LateTasks = {}
  MaxStale = 1
  SlowTimers = FALSE
INVARIANT ReadyIsLinked
CHECK_DEADLOCK FALSE
