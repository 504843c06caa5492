SPECIFICATION MCSpec
CONSTANTS
    Alphabet = {"/", "~", "0", "1", "a", "-"}
    MaxPointer = 5
    SizeMax = 100
    MaxReference = 4
    MaxFragment = 5
    MaxPattern = 4
    IntBits = 6
    Precision = 4
    Scale = 4
    KExponentCap = 40
    Digits10 = 15
    MaxPieces = 4
    MaxPoints = 2
    MaxLines = 6
    MaxToken = 6
    Parsers = {p1, p2, p3}
    Impls = {i1, i2, i3, i4}
    Configurations = {standard, other}
    Defaults = standard
INVARIANTS PointersExact TextsExact StringsExact NumbersExact
PROPERTY ParsersAreValues
CHECK_DEADLOCK FALSE
