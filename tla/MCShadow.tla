------------------------------ MODULE MCShadow ------------------------------
(* ShadowMem and its memory SSA on main(a, b, par), which gets objects A and B and a
   pointer into one of them (pp is a or b, q the second field of a, l was loaded, maybe
   from the second element), with a global G and the object R that ff returns.
   ff(x, w) has y, the second field of w, and h behind the global, and creates z.  *)
EXTENDS SeaMemorySSA

CONSTANTS main, ff, a, b, par, pp, q, l, glob, rr, x, w, y, z, fg, h, A, B, G, R

CellIn(n, o) == [node |-> n, off |-> o]
Order == <<ff, main>>
Names == <<glob, fg>>

\* main's nodes are 1 to 3; ff's are 4 to 7, the last one for w if ff keeps its
\* parameters apart
CellsWith(n) == [u \in Function |-> [v \in Value |->
    IF u = main
    THEN CASE v \in {a, b, pp, l} -> CellIn(1, 0) [] v \in {par, q} -> CellIn(1, 1)
           [] v = glob -> CellIn(2, 0) [] v = rr -> CellIn(3, 0) [] OTHER -> NoCell
    ELSE CASE v = x -> CellIn(4, 0) [] v = w -> CellIn(n, 0) [] v = y -> CellIn(n, 1)
           [] v = fg -> CellIn(5, 0) [] v = h -> CellIn(5, 1) [] v = z -> CellIn(6, 0)
           [] OTHER -> NoCell]]
CellsOf == CellsWith(7)
CellsOfF == CellsWith(4)
LinksOf == [n \in Node |-> {}]
SizesOf == [n \in Node |-> CASE n \in {1, 4, 7} -> 2 [] n \in {3, 6} -> 0 [] OTHER -> 1]
TypesOf == [n \in Node |-> IF n \in {1, 4} THEN {0, 1} ELSE {0}]
InputsOf == [u \in Function |-> IF u = main THEN {1, 2} ELSE {4, 5, 7}]
ReturnedOf == [u \in Function |-> IF u = main THEN {} ELSE {6}]
InMain == [n \in Node |-> CellIn(IF n = 7 THEN 1 ELSE n - 3, 0)]
OperandsOf == [v \in Value |-> CASE v = pp -> {a, b} [] v = q -> {a} [] v = y -> {w}
                                 [] v = h -> {fg} [] OTHER -> {}]
Sites == {a, b, par, glob, rr, x, w, z, fg}

At(o, k) == [obj |-> o, off |-> k]
EnvOfMain ==
    {[v \in {a, b, par, pp, q, l, glob, rr} |->
        CASE v = a -> At(A, 0) [] v = b -> At(B, 0) [] v = par -> At(pointee, 1)
          [] v = pp -> At(pointee, 0) [] v = q -> At(A, 1) [] v = l -> At(A, loaded)
          [] v = glob -> At(G, 0) [] OTHER -> At(R, 0)] :
            pointee \in {A, B}, loaded \in {0, 2}}
EnvOfF(pairs) ==
    {[v \in {x, w, y, z, fg, h} |->
        CASE v = x -> At(o[1], 0) [] v = w -> At(o[2], 0) [] v = y -> At(o[2], 1)
          [] v = z -> At(R, 0) [] v = h -> At(G, 1) [] OTHER -> At(G, 0)] : o \in pairs}
\* the parameters of ff point to different objects, or maybe to the same one
Apart == [u \in Function |-> IF u = main THEN EnvOfMain ELSE EnvOfF({<<A, B>>, <<B, A>>})]
Together == [u \in Function |->
    IF u = main THEN EnvOfMain ELSE EnvOfF({A, B} \X {A, B})]

Access(op, v, n) == [op |-> op, ptr |-> v, src |-> v, bytes |-> n,
                     callee |-> main, binds |-> {}]
Copy(v, s, n) == [Access("transfer", v, n) EXCEPT !.src = s]
Call(v1, v2) == [Access("call", NoValue, 1) EXCEPT
                    !.callee = ff, !.binds = {<<v1, x>>, <<v2, w>>, <<glob, fg>>, <<rr, z>>}]
InstructionsOf ==
    [u \in Function |->
       IF u = main
       THEN {Access("load", pp, 1), Access("is_modified", par, 1),
             Access("get_shadowmem", l, 1), Access("reset_modified", q, 1),
             Access("memset", q, Unknown), Copy(a, b, 2), Call(b, a)}
       ELSE {Access("memhavoc", y, 1), Access("store", x, 1), Access("free", h, 1),
             Access("calloc", z, 1), Access("alloc", z, 1)}]
Lengths == [u \in Function |-> IF u = main THEN 3 ELSE 1]
RegionEnds == [u \in Function |-> IF u = main THEN 2 ELSE 0]

\* ff alone, whose parameters may point to the same object
OnlyF == <<ff>>
AccessesOfF == [u \in Function |->
    {Access(op, v, 1) : op \in {"load", "store"}, v \in {x, w, y, fg}}]
LengthsOfF == [u \in Function |-> 2]

AllFlags == [read |-> Node, mod |-> Node]
\* the second field of w is read by memhavoc only, which marks nothing
ReadOnlyParameters == [read |-> {1, 2, 4, 5}, mod |-> {1, 2, 3, 6}]
FlagChoices == {AllFlags, ReadOnlyParameters}

\* Its executions are some that the graphs are right about.
ASSUME ExecutionsAgree == PlacesConsistent /\ PointersLeadToSites
=============================================================================
