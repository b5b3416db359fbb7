SPECIFICATION FairSpec
CONSTANTS
    MaxTexts = 0
    NotUtf8 = {}
    MaxCloses = 1
    MaxFrames = 2
INVARIANTS
    OneReader
    RunsWhileAlive
PROPERTIES
    KeepsSession
    AttemptEnds
    CloseEnds
    ThreadReturns
CHECK_DEADLOCK FALSE
