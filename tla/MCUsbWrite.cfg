CONSTANTS
  CHUNK_BYTES = 2
  MaxBytes = 7
SPECIFICATION WriteSpec
INVARIANTS
  TakenInOrder
  ReportIsTrue
  Accounted
PROPERTY
  WriteReturns
