CONSTANTS
  Garbage = {300}
  Printable <- Area
  Margin <- Edge
  Gray = {0, 159, 160, 255}
  Lut <- Tone
  Mask <- SmallMask
  MaskSide = 2
  Methods <- AllMethods
  Rasters <- Sizes
  MaxPages = 1
SPECIFICATION Spec
INVARIANTS
  TypeOK
  SolidExact
  ErrorsSmall
  ToneKept
  ExactDots
  SolidInPlace
CHECK_DEADLOCK FALSE
