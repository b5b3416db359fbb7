SPECIFICATION FairSpec
CONSTANTS
    MaxOpens = 2
    MaxEndpoints = 2
INVARIANTS
    TypeOK
    CompletionsQueuedOnce
    RequestSentAtMostOnce
    ContentIsBody
PROPERTY
    ChainEnds
CHECK_DEADLOCK FALSE
