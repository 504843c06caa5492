SPECIFICATION Spec
CONSTANTS
    Threads = {t1, t2}
    NodeCount = 4
    Nil = Nil
    NullCell = NullCell
INVARIANTS AllReleased LinksAreClean
PROPERTIES StackSafe Ends
CHECK_DEADLOCK FALSE
