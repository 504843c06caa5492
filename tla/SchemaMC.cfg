SPECIFICATION MCSpec
CONSTANTS
    Values <- MCValues
    Decimal <- MCDecimal
    References <- MCReferences
    Patterns <- MCPatterns
    Formats <- MCFormats
    Builtins <- MCBuiltins
    AnchorNames <- MCAnchorNames
INVARIANTS
    VerdictIsMeaning
    VerdictIsReported
    RecursionBounded
    CyclesAreFound
    NodesKnowTheirResource
    DocumentsBounded
PROPERTY Ends
