SPECIFICATION UndoSpec
CONSTANTS
    f1 = f1
    f2 = f2
    t1 = t1
    large = large
    Files = {f1, f2}
    Texts = {t1}
    Opaque = {large}
    Holds <- MCHolds
    Requests = {h1, h2}
    MaxRequests = 4
    MaxChanges = 2
    MaxMishaps = 1
SYMMETRY Symmetry

    
PROPERTIES
    OverwritesOnlyRecorded
    
CHECK_DEADLOCK FALSE
