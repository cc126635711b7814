SPECIFICATION FairSpec
CONSTANTS
    Asks = {q1, q2, q3}
    Clients = {k1, k2}
    MaxRuns = 3
    Nil = Nil
INVARIANTS
    OnePlace
    Answerable
PROPERTIES
    CancelledAskReturns
