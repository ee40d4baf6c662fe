\* Role switches postponed by sniff mode, SCO and secure connections; the GAP
\* library and the controller may refuse anything.
SPECIFICATION FairSpec
CONSTANTS
    GapMayReject = TRUE
    CtrlMayFail = TRUE
    SwitchRequests = {TRUE, FALSE}
    Holds = {"sco", "sc"}
    MaxInFlight = 2
    MaxPosted = 2
INVARIANTS
    TypeOK
    PendingActionConsistent
    MarkedBranchesUnreached
    ModeTracked
    PendingIsOutstanding
    IdleTimerAlive
PROPERTIES
    ForgottenOnlyOnFailure
    DisabledLinkSettles
