SPECIFICATION Spec
CONSTANTS
  A = A
  B = B
  Ids = {A, B}
  MaxSend <- MCMaxSend
  MaxPending = 2
  SeqValues = 2
  GenValues = 2
  WarnThreshold = 2
  TxCapacity = 1
  ChannelCap = 2
  MaxTimeouts = 2
  MaxFaults = 1
  TimerOutlastsRoundTrip = FALSE
INVARIANTS TypeOK AtLeastOnce NeverStranded OneCurrentWrite IndInv
PROPERTY InOrder
CHECK_DEADLOCK FALSE
