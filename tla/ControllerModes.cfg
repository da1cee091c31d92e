SPECIFICATION Spec
CONSTANTS
  RequireHandshake = FALSE
  HeartbeatModes = {TRUE, FALSE}
  HashAccepted = TRUE
  HeartbeatValues = 2
  TxCapacity = 2
  RingPackets = 1
  ChunkPackets = 2
  MaxTasks = 1
  MaxLine = 2
  MaxAttempts = 2
  MaxData = 1
  MaxFaults = 1
  StartMayThrow = TRUE
  MaxRacers = 1
  LateTasks = {"check", "heartbeat", "send", "reliable"}
  MaxStale = 2
  SlowTimers = FALSE
INVARIANTS TypeOK OpsAccounted NeverStalls CompletedOnce ReadyIsLinked
CHECK_DEADLOCK FALSE
