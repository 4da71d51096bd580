CONSTANTS
  Ink = {white, black}
  White = white
  BandLines = 2
  MaxBand = 1
  MaxLines = 6
  MaxPages = 2
  MaxDrops = 2
SPECIFICATION Spec
CONSTRAINT Bounded
INVARIANTS
  TypeOK
  InStep
  RoundTrip
  StreamLegal
  BandNumbersIncrease
  NoBlankBandSent
PROPERTY
  KeepsPromise
