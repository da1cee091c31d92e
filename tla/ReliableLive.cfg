SPECIFICATION FairSpec
CONSTANTS
  A = A
  B = B
  Ids = {A, B}
  MaxSend <- MCMaxSend
  MaxPending = 2
  SeqValues = 4
  GenValues = 2
  WarnThreshold = 2
  TxCapacity = 1
  ChannelCap = 2
  MaxTimeouts = 2
  MaxFaults = 2
  TimerOutlastsRoundTrip = TRUE
PROPERTIES EventuallyAcked ImplementsPromise
CHECK_DEADLOCK FALSE
