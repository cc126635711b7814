SPECIFICATION FairSpec
CONSTANTS
    MaxEvents = 5
    Buffer = 1
    MaxCursor = 2
INVARIANTS
    FollowsTheLog
PROPERTIES
    EventsArrive
