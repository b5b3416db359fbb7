SPECIFICATION Spec
CONSTANTS
    MaxOpens = 2
    MaxSends = 2
    MaxDepth = 2
    MaxEndpoints = 1
    BodyHasLine = TRUE
INVARIANTS
    TypeOK
    CompletionsQueuedOnce
    InvokeAgrees
CHECK_DEADLOCK FALSE
