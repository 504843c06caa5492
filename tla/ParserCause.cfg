SPECIFICATION Spec
CONSTANTS
    Configurations <- MCConfigurations
    DepthHardLimit = 2
    Lexemes <- MCLexemes
    MaxLexemes = 4
INVARIANT NamesTheCause
