SPECIFICATION BindingsSpec
CONSTANTS
  Paths <- MCPaths
  Fixed <- MCFixed
  MaxLength = 2
  MaxFields = 2
  Values <- MCValues
  ByteValues = 2
INVARIANTS NeverOutOfBounds DroppedForCause RoundTrips
