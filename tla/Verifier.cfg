SPECIFICATION VerifierSpec
CONSTANTS
    Letters <- MCLetters
    Value <- MCValue
    One = 2
    MaxText = 5
INVARIANTS
    NormalizedIsLinewise
    ModesAreNested
    EpsilonMeetsTheFormula
CHECK_DEADLOCK FALSE
