SPECIFICATION FairSpec
CONSTANTS
    MaxOpens = 2
    MaxSends = 1
    MaxDepth = 2
    MaxEndpoints = 2
    BodyHasLine = FALSE
PROPERTIES
    ChainEnds
    IoReleased
CHECK_DEADLOCK FALSE
