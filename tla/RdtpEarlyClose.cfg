\* A session closed before L2CAP has answered.
SPECIFICATION Spec
CONSTANTS
    MaxChannels = 1
    EarlyClose = TRUE
INVARIANTS
    ClosingEnds
