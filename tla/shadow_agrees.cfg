SPECIFICATION Spec
CONSTANTS
    main = main
    ff = ff
    a = a
    b = b
    par = par
    pp = pp
    q = q
    l = l
    glob = glob
    rr = rr
    x = x
    w = w
    y = y
    z = z
    fg = fg
    h = h
    A = A
    B = B
    G = G
    R = R
    Function = {main, ff}
    Main = main
    ModuleOrder <- Order
    Returns = {main, ff}
    Value = {a, b, par, pp, q, l, glob, rr, x, w, y, z, fg, h}
    NoValue = NoValue
    Instruction <- InstructionsOf
    MaxBody <- Lengths
    MaxRegion <- RegionEnds
    Node = {1, 2, 3, 4, 5, 6, 7}
    Size <- SizesOf
    Types <- TypesOf
    Collapsed = {}
    Array = {1, 4, 7}
    Scalar = {}
    Points <- LinksOf
    Cell <- CellsOf
    NoCell = NoCell
    Inputs <- InputsOf
    Returned <- ReturnedOf
    Globals <- Names
    Simulated <- InMain
    Flags <- FlagChoices
    AllocIsDef = FALSE
    Operands <- OperandsOf
    SiteValue <- Sites
    Env <- Apart
    ObjectSize = 4
CHECK_DEADLOCK FALSE
INVARIANTS TypeOK WritesSeen InterfacesMatch IdsDistinct AccessesMirrorShadow
