SPECIFICATION Spec
CONSTANTS
  ByteValues = 4
  Header1 = 3
  Header2 = 2
  expected_payload_size <- MCPayloadSize
  MaxPayload = 2
  checksum_update <- MCSum8
  HasChecksum = TRUE
INVARIANTS TypeOK BufferInBounds GenuineOnly DecodesFrames Recovers
