CONSTANTS
  LOW = 2
  HIGH = 2
  ENTRIES = 2
  MIN_RAW = 1
  MAX_RAW = 2
  MAX_LITERAL = 2
  HEADER_LEN = 1
  CHECKSUM_LEN = 1
  Hash <- SmallHash
  SLOTS = 2
  MAX_DIST = 5
  Columns <- TwoColumns
  Default <- SmallDefault
  Pixels = {0, 3}
  MaxLen = 12
SPECIFICATION Spec
INVARIANTS
  TableSound
  MostCredited
  SlotsAreLatest
PROPERTY
  TableIsChosen
CHECK_DEADLOCK FALSE
