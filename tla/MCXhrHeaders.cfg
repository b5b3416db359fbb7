SPECIFICATION HeadersSpec
CONSTANTS
    MaxOpens = 3
    MaxSends = 3
    MaxDepth = 2
    MaxEndpoints = 2
    BodyHasLine = TRUE
    MaxHeaders = 3
INVARIANTS
    RequestSentAtMostOnce
    OwnResponse
    RightHost
    OwnRequestHeaders
PROPERTIES
    CallbackSeesItsState
    KeepsPromise
CHECK_DEADLOCK FALSE
