CONSTANTS
  DefaultPort = 8000
  Ports = {8000}
  Others = {8000}
  Purges = {FALSE, TRUE}
  Kills = TRUE
  OwnQueues = TRUE
  VendorStarts <- VendorOrNot
SPECIFICATION Spec
INVARIANTS
  SingleOwner
  InstallWorks
  UninstallClears
  VendorQueueRestored
PROPERTIES
  VendorQueueIsBackedUp
