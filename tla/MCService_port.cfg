CONSTANTS
  DefaultPort = 8000
  Ports = {8000, 9000}
  Others = {}
  Purges = {FALSE}
  Kills = FALSE
  OwnQueues = FALSE
  VendorStarts <- VendorOnly
SPECIFICATION Spec
INVARIANTS
  QueueReachesService
