SPECIFICATION Spec
CONSTANTS
  A = A
  B = B
  Ids = {A, B}
  MaxSend <- MCWrapSend
  MaxPending = 1
  SeqValues = 256
  GenValues = 2
  WarnThreshold = 1
  TxCapacity = 1
  ChannelCap = 1
  MaxTimeouts = 1
  MaxFaults = 0
  TimerOutlastsRoundTrip = FALSE
INVARIANT AtLeastOnceAlways
CONSTRAINT WrapScenario
CHECK_DEADLOCK FALSE
