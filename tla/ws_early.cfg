CONSTANTS
    RequestSize = 4
    KeyUnit = 2
    MinRead = 2
    ResponseSize = 2
    Payloads <- MCPayloads
SPECIFICATION Spec
INVARIANTS
    CutsWithin
CHECK_DEADLOCK FALSE
