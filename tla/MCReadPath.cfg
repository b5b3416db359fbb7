\* Limits scaled down: a size is basic up to 2, in two bytes up to 3, in eight
\* from 4 on; codes 126 and 127 are 3 and 4.  A read may hold all of a stream.
SPECIFICATION PathSpec
CONSTANTS
    BasicLimit = 2
    Code16 = 3
    Code64 = 4
    ExtendedLimit = 3
    ReadSize = 32
    MaxMessage = 4
    SizeT = 1000
    MaxHeader = 15
    None = None
    Streams <- MCStreams
INVARIANTS
    PathTypeOK
    InSync
    Prompt
    MessageFits
    ValidatorAgrees
PROPERTY
    DeliveredFrameByFrame
CHECK_DEADLOCK FALSE
