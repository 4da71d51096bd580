CONSTANTS
  Garbage = {300}
  Printable <- Area
  Margin <- Edge
  Gray = {0, 159, 160, 255}
  Lut <- Tone
  Mask <- SmallMask
  MaskSide = 2
  Methods <- LargeCell
  Rasters <- OneSize
  MaxPages = 1
SPECIFICATION Spec
INVARIANT
  ScreenSolid
CHECK_DEADLOCK FALSE
