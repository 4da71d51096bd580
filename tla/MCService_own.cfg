CONSTANTS
  DefaultPort = 8000
  Ports = {8000}
  Others = {}
  Purges = {FALSE}
  Kills = FALSE
  OwnQueues = TRUE
  VendorStarts <- VendorOnly
SPECIFICATION Spec
PROPERTIES
  OwnQueueLeftAlone
