SPECIFICATION OnceSpec
CONSTANTS
    MaxOpens = 2
    MaxSends = 2
    MaxDepth = 2
    MaxEndpoints = 1
    BodyHasLine = TRUE
INVARIANT DoneWhenComplete
CHECK_DEADLOCK FALSE
