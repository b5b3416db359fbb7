SPECIFICATION SsdpSpec
CONSTANTS
    Objects = {o1, o2}
    Responders = {o2}
    MaxOps = 2
    MaxAnswers = 3
    None = None
    Sizes = {1, 2}
INVARIANTS
    TypeOK
    ThreadServes
    SizesPrintedOnce
    ReceivePerSearch
PROPERTIES
    Served
    ThreadReturns
    AnswerServed
CHECK_DEADLOCK FALSE
