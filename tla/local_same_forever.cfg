SPECIFICATION FairSpec
CONSTANTS
    Value = {a, b, c}
    NoValue = NoValue
    FieldType = {unknown}
    OmniType = omni
    MaxNodes = 3
    PtrWidth = 1
    ScalarWidth <- Sizes
    GepOffset <- NegativeOffsets
    Stride <- Strides
    SeqSize <- TwoSizes
    Mixes <- FourOrSequence
    MaxMultiple = 1
CHECK_DEADLOCK FALSE
INVARIANTS TypeOK GepsKept
PROPERTIES SameStaysSame 
