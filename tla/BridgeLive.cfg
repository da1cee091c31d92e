SPECIFICATION FairBridge
CONSTANTS
  A = A
  Ids = {A}
  MaxSend <- MCOne
  SeqValues = 2
  GenValues = 2
  WarnThreshold = 1
  MaxTimeouts = 1
  RequireHandshake = TRUE
  HeartbeatModes = {TRUE}
  HashAccepted = TRUE
  HeartbeatValues = 2
  TxCapacity = 2
  RingPackets = 1
  ChunkPackets = 1
  MaxTasks = 1
  MaxLine = 1
  MaxAttempts = 0
  MaxData = 1
  MaxFaults = 1
  StartMayThrow = FALSE
  MaxRacers = 0
  LateTasks = {}
  MaxStale = 1
  SlowTimers = TRUE
PROPERTIES EventuallyAcked StaysReady Drains
CHECK_DEADLOCK FALSE
