SPECIFICATION Spec
CONSTANTS
    MaxOpens = 2
    MaxEndpoints = 1
INVARIANT EachEndpointTried
CHECK_DEADLOCK FALSE
