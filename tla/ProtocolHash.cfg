SPECIFICATION Spec
CONSTANTS
  FirstProtocols <- MCFirstProtocols
  Names <- MCNames
  Upper <- MCUpper
  Ids = {1, 2, 253, 256}
  FieldLists <- MCFieldLists
  TypeMappings <- MCTypeMappings
  Checksums = {"NONE", "CRC8", "CRC16"}
  HeadBytes = {90, 165}
  BufferSizes = {6, 9, 13}
  SizeOf <- MCSizeOf
  LengthLimit = 8
  MaxMessages = 3
  MaxEdits = 2
INVARIANTS TypeOK MatchedIsCompatible SameContractMatches BuiltIsSound
