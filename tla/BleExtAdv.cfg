\* A start that GAP refuses or that fails, a connection, and calls while two
\* actions wait.
CONSTANTS
    Sets = {a, b}
    QueueNum = 50
    Refusable = {"START"}
    MaxQueued = 2
    MaxQueuedHit = 0
    MaxUnread = 0
    MaxConns = 1
SPECIFICATION FairSpec
INVARIANTS
    TypeOK
    OneAtATime
    QueueHasWaker
    CountKept
    AgreesAtRest
PROPERTIES
    DisabledStops
