SPECIFICATION Spec
CONSTANTS
    MaxTexts = 3
    NotUtf8 = {2}
    MaxCloses = 1
    MaxFrames = 1
INVARIANTS
    TypeOK
    WriteFlagRight
    QueueServed
    OutgoingInOrder
    NoGap
CHECK_DEADLOCK FALSE
