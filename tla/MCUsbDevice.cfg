CONSTANTS
  Printers = {"p", "q"}
  Ident <- TwoAlike
  Uri <- DefaultUri
  SendMatches <- BySerial
  Bytes <- Conditions
  Starts = {{}, {"p"}, {"p", "q"}}
  MaxDevices = 2
  MaxEvents = 3
SPECIFICATION Spec
INVARIANTS
  NothingLeaks
  RightPrinter
  ProbeSound
PROPERTIES
  StatusTrue
  StatusCatchesUp
  JobGetsThrough
