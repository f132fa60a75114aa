SPECIFICATION FairSpec
CONSTANTS
    m1 = m1
    m2 = m2
    g1 = g1
    g2 = g2
    h1 = h1
    main_g = main_g
    main_h = main_h
    g_h = g_h
    main = main
    g = g
    h = h
    s = s
    t = t
    NoLink = NoLink
    NoScalar = NoScalar
    NoCall = NoCall
    Component = {main, g, h}
    Node = {m1, m2, g1, g2, h1}
    GraphOf <- Graph
    CallSite = {main_g, main_h, g_h}
    Caller <- From
    Callee <- To
    CallOrder <- PostOrder
    MaxField = 0
    Modified = {}
    Shape <- Shapes
    Site = {m1, m2, g1, g2, h1}
    Scalar = {s, t}
    StartSites <- OwnSites
    StartScalars <- OddScalars
CHECK_DEADLOCK FALSE
INVARIANTS TypeOK ComparedAgree AlignedAgree LabelsExact
PROPERTY ClosureEnds
