SPECIFICATION Spec
CONSTANTS
    Calls <- MCCalls
    SizeMax = 40
    StreamMax = 19
    FramesReserved = 1
    Prior = Prior
INVARIANT OnlyStreamFailureLeavesPrefix
CHECK_DEADLOCK FALSE
