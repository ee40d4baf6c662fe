\* Three channels asked for and closed by either bud, any of them failing.
SPECIFICATION FairSpec
CONSTANTS
    MaxChannels = 3
    EarlyClose = FALSE
INVARIANTS
    TypeOK
    SessionsAgree
    OneChannel
    SessionHasLink
PROPERTIES
    AlwaysSettles
