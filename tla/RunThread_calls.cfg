SPECIFICATION FairSpec
CONSTANTS
    Callers = {c1, c2}
    Cancellers = {k1}
    Policies = {"reject_while_active", "queue_while_active"}
    Nil = Nil
INVARIANTS
    RolledBack
    
PROPERTIES
    
    CancelledRunEnds
    QueueDrains
