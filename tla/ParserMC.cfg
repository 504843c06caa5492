SPECIFICATION Spec
CONSTANTS
    Configurations <- MCConfigurations
    DepthHardLimit = 2
    Lexemes <- MCLexemes
    MaxLexemes = 11
INVARIANTS AcceptsExactlyJson SameAnswer EventsNest WithinLimits
