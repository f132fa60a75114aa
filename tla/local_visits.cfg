\* all visits of the local analysis, then compress and remove_dead
SPECIFICATION AnalysisSpec
CONSTANTS
    Value = {a, b, c}
    NoValue = NoValue
    FieldType = {unknown}
    OmniType = omni
    MaxNodes = 4
    PtrWidth = 1
    ScalarWidth <- NoSet
    StructWidth <- Sizes
    GepOffset <- ConstantOffsets
    Stride <- NoSet
    SeqSize <- NoSet
    Mixes <- FourInstructions
    MaxDistance = 4
    MaxFurther = 1
    IsMain = TRUE
    LinkedOffset <- Zero
    FieldOffset <- Fields
CHECK_DEADLOCK FALSE
SYMMETRY ValueSymmetry
INVARIANTS
    AnalysisTypeOK GraphIsLeastSolution FieldsKept NodesKept NothingDangles
