CONSTANTS
  DefaultPort = 8000
  Ports = {8000}
  Others = {}
  Purges = {FALSE}
  Kills = TRUE
  OwnQueues = FALSE
  VendorStarts <- VendorOnly
SPECIFICATION Spec
INVARIANTS
  DriverCanBePutBack
