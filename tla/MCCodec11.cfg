CONSTANTS
  LOW = 2
  HIGH = 2
  ENTRIES = 2
  MIN_RAW = 1
  MAX_RAW = 2
  MAX_LITERAL = 2
  HEADER_LEN = 1
  CHECKSUM_LEN = 1
  Pixels = {0, 3}
  MaxLen = 9
  MaxStream = 4
  Tables <- AllTables
SPECIFICATION Spec
INVARIANTS
  DecodesToBand
  BoundIsEnough
  InBuffer
  PassFindsLongest
PROPERTY
  CodecReturns
CHECK_DEADLOCK FALSE
