SPECIFICATION Spec
CONSTANTS
    Objects = {o1}
    Responders = {}
    MaxOps = 1
    None = None
INVARIANT SafelyDestroyed
CHECK_DEADLOCK FALSE
