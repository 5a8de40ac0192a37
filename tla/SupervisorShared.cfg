SPECIFICATION FairSpec
CONSTANTS
  MaxVersion = 3
  MaxRequests = 2
  MaxCrashes = 2
  Shared = TRUE
  AllowLocal = TRUE
  DiskFaults = FALSE
  UnlinkFaults = TRUE
  MayCancel = TRUE
INVARIANTS CompletedMeansRunning RolledBackMeansRestored CriticalHasOwner
PROPERTIES StatusPrecedesReplacement PersistsOnlyRunning ImplementsLifecycle PendingIsRetried TakenIsAnswered
CHECK_DEADLOCK FALSE
