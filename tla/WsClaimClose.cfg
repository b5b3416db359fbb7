SPECIFICATION CarefulSpec
CONSTANTS
    MaxTexts = 0
    NotUtf8 = {}
    MaxCloses = 1
    MaxFrames = 1
PROPERTIES
    CloseAnswered
CHECK_DEADLOCK FALSE
