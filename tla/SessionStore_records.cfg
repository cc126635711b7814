SPECIFICATION Spec
CONSTANTS
    Transcripts = {t0, t1, t2}
    Start = t0
    Appends = {"ok", "refused", "unsure", "torn"}
    Windows = {"save", "append"}
    MaxRecords = 4
    MaxCrashes = 2
SYMMETRY Symmetry
INVARIANTS
    StaysReadable
    SavedSurvives
PROPERTIES
    PublishedOnce
