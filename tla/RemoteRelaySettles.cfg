\* Liveness, on a controller that does what it is asked.
SPECIFICATION FairSpec
CONSTANTS
    GapMayReject = FALSE
    CtrlMayFail = FALSE
    QueueNum = 2
    MsgCredits = 1
    SeqMod = 8
    MaxCalls = 2
    MaxRefusals = 1
    MaxNoBuf = 1
    MaxInFlight = 1
    MaxPosted = 1
PROPERTIES
    AcceptedIsSettled
