SPECIFICATION Spec
CONSTANTS
    Value = {a, b, c}
    NoValue = NoValue
    FieldType = {t, omni}
    OmniType = omni
    MaxNodes = 4
    PtrWidth = 1
    ScalarWidth <- Sizes
    GepOffset <- AllOffsets
    Stride <- TwoStrides
    SeqSize <- NoSet
    Mixes <- FiveOnArrays
    MaxMultiple = 1
CHECK_DEADLOCK FALSE
SYMMETRY ValueSymmetry
INVARIANTS StridesKept TypesFit ArraysHaveSize UniqueScalarPointsHere LinksKept OneLinkPerField LinksInBounds WrongOnlyIfBlind
