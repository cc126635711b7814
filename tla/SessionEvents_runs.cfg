SPECIFICATION FairSpec
CONSTANTS
    Runs = {r1, r2}
    Aborters = {a1}
    MaxFaults = 1
    MaxCrashes = 1
    Nil = Nil
INVARIANTS
    OnlyFaultsSilence
    ClosedUnlessEarly
    RunNumbersHold
PROPERTIES
    AbortReturns
