SPECIFICATION Spec
CONSTANTS
  MaxVersion = 2
  MaxRequests = 2
  MaxCrashes = 1
  Shared = FALSE
  AllowLocal = TRUE
  DiskFaults = TRUE
  UnlinkFaults = TRUE
  MayCancel = TRUE

PROPERTIES AnnouncesOnlyReached
CHECK_DEADLOCK FALSE
