SPECIFICATION FairSpec
CONSTANTS
    Sources = {s1}
    Tasks = {t1, t2}
    MaxOps = 2
    MaxTime = 2
    TicksPerMinute = 1
    Retention = 0
    Windows <- MCWindows
    MaxFaults = 1
CHECK_DEADLOCK FALSE
INVARIANTS
    UnsavedIsLate
    
    ClearIsFinal
    ReportIsAccurate
    CountedSurvives
PROPERTIES
    SavedEventually
