------------------------------ MODULE MCClosure ------------------------------
(* CallSiteClosure on a program in which main calls g and h, and g calls h. *)
EXTENDS ClosureReference

CONSTANTS m1, m2, g1, g2, h1, main_g, main_h, g_h, main, g, h, s, t

Graph == [n \in Node |-> CASE n \in {m1, m2} -> main
                           [] n \in {g1, g2} -> g
                           [] OTHER -> h]
From == [cs \in CallSite |-> IF cs = g_h THEN g ELSE main]
To == [cs \in CallSite |-> IF cs = main_g THEN g ELSE h]

\* scc_begin meets callees before callers
PostOrder == SelectSeq(<<g_h, main_g, main_h>>, LAMBDA cs : cs \in CallSite)

\* All graphs whose links lead to the beginning of a node. The call of g passes
\* a pointer into m1, and a second one if fields do not matter; the others pass
\* one; a callee sees the beginning of its parameters.
Start(n) == [node |-> n, off |-> 0]
LinksIn(c) == [NodesOf(c) -> [Field -> {Start(n) : n \in NodesOf(c)} \cup {NoLink}]]
Passed(cs) == {p \in Parameters(cs) : p[1].off = 0}
First == {p \in Passed(main_g) : p[1] = Start(g1) /\ p[2].node = m1}
Roots(cs) == IF cs = main_g /\ MaxField = 0 THEN First \X Passed(main_g)
             ELSE {<<p>> : p \in IF cs = main_g THEN First ELSE Passed(cs)}
Shapes ==
    {[link |-> [n \in Node |-> IF Graph[n] = main THEN inMain[n]
                               ELSE IF Graph[n] = g THEN inG[n] ELSE inH[n]],
      root |-> r] :
        inMain \in LinksIn(main), inG \in LinksIn(g), inH \in LinksIn(h),
        r \in {x \in [CallSite -> UNION {Roots(cs) : cs \in CallSite}] :
                 \A cs \in CallSite : x[cs] \in Roots(cs)}}

\* every node has a site of its own, on the stack; or all but the node of h
OwnSites == {[n \in Node |-> {n}], [n \in Node |-> {n} \ {h1}]}

\* nodes have one of two scalars, or none
OddScalars ==
    {[n \in Node |-> IF n \in S THEN o ELSE s] :
        S \in {{m2}, {g1}, {h1}, {m1, g2}, {m1, h1}}, o \in {t, NoScalar}}
=============================================================================
