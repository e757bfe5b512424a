CONSTANTS
    RequestSize = 4
    KeyUnit = 2
    MinRead = 2
    ResponseSize = 2
    Payloads <- MCPayloads
SPECIFICATION FairSpec
INVARIANTS
    TypeOK
    FramesWhole
    AnswersInOrder
PROPERTIES
    Answered
CHECK_DEADLOCK FALSE
