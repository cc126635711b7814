SPECIFICATION FairSpec
CONSTANTS
    Starters = {s1, s2}
    Killers = {k1}
    Close = close
    MaxLive = 1
    MaxBuffer = 2
    MaxRead = 1
    MaxStarts = 3
    Talkers = {1}
    MaxBytes = 3
INVARIANTS
    LiveBound
    ReadsAccounted
PROPERTIES
    TerminatedEnds
CHECK_DEADLOCK FALSE
