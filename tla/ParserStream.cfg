SPECIFICATION FairSpec
CONSTANTS
  ByteValues = 4
  Header1 = 3
  Header2 = 2
  expected_payload_size <- MCPayloadSize
  MaxPayload = 2
  checksum_update <- MCSum8
  HasChecksum = TRUE
  Capacities = {4, 8}
  Streams <- MCStreams
  ReadSizes = {1, 4, 12}
  MaxResets = 1
INVARIANTS TypeOK NeverOverflows DropsCounted WaitIsShort
PROPERTIES ImplementsStream Returns
CHECK_DEADLOCK FALSE
