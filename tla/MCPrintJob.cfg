CONSTANTS
  Ink = {white, black}
  White = white
  BandLines = 2
  MaxBand = 1
  Printable = 3
  Margin = 1
  Rasters = {1, 2, 3, 4, 5, 6}
  MaxPages = 2
SPECIFICATION Spec
CONSTRAINT Bounded
INVARIANTS
  WellFormedAtEnd
  PrintedAsSent
  FailureTold
