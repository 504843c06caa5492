SPECIFICATION Spec
CONSTANTS
    Zero = Zero
    NoPath = NoPath
    MemberA = 11
    MemberB = 12
    LetterX = LetterX
    LetterY = LetterY
    maxOperations = 5
    maxClonedNodes = 11
    Targets <- MCTargets
    Patches <- MCPatches
INVARIANTS PendingIsLive NoFreeNodes
PROPERTIES MergesOrNothing Returns
CHECK_DEADLOCK FALSE
