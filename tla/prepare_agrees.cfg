SPECIFICATION Spec
CONSTANTS
    f = f
    g = g
    malloc = malloc
    free = free
    A = A
    B = B
    N = N
    One = One
    Zero = Zero
    Null = Null
    GaveUp = GaveUp
    MaxMade = 5
    Function = {f, g}
    Param = {A, B, N, Null, Zero, One}
    Const = {Zero, One}
    Allocator = {malloc}
    Deallocator = {free}
CHECK_DEADLOCK FALSE
INVARIANTS MeaningKept SitesAreFresh
