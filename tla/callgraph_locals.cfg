SPECIFICATION RSpec
CONSTANTS
    main = main
    f = f
    a = a
    b = b
    d1 = d1
    d2 = d2
    d3 = d3
    i1 = i1
    i2 = i2
    i3 = i3
    xx = xx
    y = y
    m1 = m1
    m2 = m2
    pf = pf
    z = z
    w = w
    rf = rf
    pa = pa
    u = u
    v = v
    ra = ra
    na = na
    pb = pb
    rb = rb
    rm = rm
    Function = {main, f, a, b}
    Main = main
    GlobalVar = {main, f, a, b}
    Indirect = {i1, i2, i3}
    Caller <- CallerOf
    Actuals <- OtherActuals
    Result <- ResultOf
    Formals <- FormalsOf
    Ret <- RetOf
    UniqueReturn <- OnlyB
    Legal <- AnyCallee
    FunctionOrder <- Names
    CallRecords <- LLVMRecords
    External = External
    StripBitCast <- CastOf
    LocalGraphs <- AllWithLocals
    MaxNodes = 20
    StackSite = {}
    NoPointers = {}
    NoSite = NoSite
CHECK_DEADLOCK FALSE
INVARIANT ResolvedIsComplete
