SPECIFICATION FairSpec
CONSTANTS
  MaxVersion = 2
  MaxRequests = 1
  MaxCrashes = 0
  Shared = TRUE
  AllowLocal = FALSE
  DiskFaults = FALSE
  UnlinkFaults = FALSE
  MayCancel = TRUE
PROPERTY CancelledIsNotApplied
CHECK_DEADLOCK FALSE
