SPECIFICATION Spec
CONSTANTS
  RequireHandshake = TRUE
  HeartbeatModes = {TRUE}
  HashAccepted = TRUE
  HeartbeatValues = 2
  TxCapacity = 2
  RingPackets = 1
  ChunkPackets = 2
  MaxTasks = 2
  MaxLine = 2
  MaxAttempts = 2
  MaxData = 1
  MaxFaults = 1
  StartMayThrow = FALSE
  MaxRacers = 1
  LateTasks = {"check", "heartbeat", "send", "reliable"}
  MaxStale = 1
  SlowTimers = FALSE
INVARIANT DrainedIsQuiet
CHECK_DEADLOCK FALSE
