\* Every point of the clock to start from, so that it wraps around anywhere.
\* No message waits for longer than any two of the three clocks are apart.
\* Once the message is received and the horizon reached, nothing is left to do.
SPECIFICATION Spec
CONSTANTS
    ClkMod = 24
    DurMod = 8
    MinLead = 2
    Periods = {3, 5}
    BudsPhase = 15
    OtherPhase = 9
    MaxMsgs = 1
    Horizon = 8
INVARIANTS
    SameInstant
    FiresWhenAsked
    ExpiredOnlyForACause
CHECK_DEADLOCK FALSE
