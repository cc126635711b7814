SPECIFICATION FairSpec
CONSTANTS
    MaxUpdates = 3
    MaxFaults = 1
    MaxLate = 1
    MaxCrashes = 1
    MaxQuestions = 1
INVARIANTS
    AckedIsKept
    OldNeverRuns
    AckedIsAdmitted
PROPERTIES
    UpdatesAreConsumed
CHECK_DEADLOCK FALSE
