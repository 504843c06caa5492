SPECIFICATION Spec
CONSTANTS
    Zero = Zero
    MemberA = 11
    Letter = Letter
    MaxOps = 2
    Indexes = {0, 1, 2}
    Dash = 98
    Targets <- MCTargets
    Patches <- MCPatches
    maxOperations = 2
    maxClonedNodes = 7
    MaxCalls = 1
INVARIANTS CloneBudget SuccessClearsError
PROPERTIES AllOrNothing BlamesFirstBadOperation
CHECK_DEADLOCK FALSE
