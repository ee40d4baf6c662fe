\* A controller and buffers that fail, sessions that come and go, and sequence
\* numbers that wrap around.  As many calls are refused in a row as still give
\* the next message a number of its own.
SPECIFICATION Spec
CONSTANTS
    GapMayReject = FALSE
    CtrlMayFail = TRUE
    QueueNum = 2
    MsgCredits = 2
    SeqMod = 3
    MaxCalls = 4
    MaxRefusals = 1
    MaxNoBuf = 1
    MaxInFlight = 1
    MaxPosted = 1
INVARIANTS
    TypeOK
    CreditsConserved
    BacklogHasWaker
PROPERTIES
    EntersSniffDrained
    DeliversInOrder
