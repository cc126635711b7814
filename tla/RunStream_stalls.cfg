SPECIFICATION StreamFairSpec
CONSTANTS
    LiveBuffer = 1
    MaxEmitted = 4
    MaxOthers = 1
INVARIANTS
    ShownContiguous
    NothingMissedSilently
PROPERTIES
    HandlerReturns
