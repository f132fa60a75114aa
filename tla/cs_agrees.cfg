SPECIFICATION FairSpec
CONSTANTS
    main = main
    callee = callee
    inner = inner
    x = x
    y = y
    pp = pp
    q = q
    t = t
    rr = rr
    callG = callG
    callH = callH
    A = A
    B = B
    onStack = onStack
    v = v
    z = z
    e = e
    s = s
    o = o
    other = other
    u = u
    f = f
    again = again
    w = w
    Component = {main, callee, inner}
    Var = {x, y, z, o, pp, q, t, e, u, rr, s, f}
    VarOf <- Owner
    GlobalVar = {v, w}
    CallSite = {callG, other, callH, again}
    Caller <- From
    Callee <- To
    Passes <- Arguments
    Returns <- Results
    UniqueReturn <- ReturnsV
    BottomUpOrder <- CalleesFirst
    TopDownOrder <- CallersFirst
    Analysis = {"cs", "butd", "bu"}
    LocalGraphs <- AllLocals
    MaxNodes = 16
    StackSite = {onStack}
    NoPointers = {}
    NoSite = NoSite
CHECK_DEADLOCK FALSE
INVARIANTS TypeOK PropagationSuffices WaitingOrSettled SitesFlow LocalGraphsKept FinerThanInsensitive
PROPERTY AnalysisEnds
