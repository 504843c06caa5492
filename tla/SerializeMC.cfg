SPECIFICATION Spec
CONSTANTS
    Calls <- MCCalls
    SizeMax = 40
    StreamMax = 19
    FramesReserved = 1
    Prior = Prior
INVARIANTS StringIsTransactional LogicalFailureEmitsNothing EmitsTheText CountDecides
CHECK_DEADLOCK FALSE
