------------------------------- MODULE GraphHeap -------------------------------
(* Whole points-to graphs as values, for the analyses over several functions.
   DsaGraph follows one graph pointer by pointer; here the graphs of all
   functions are one record, forwarding is resolved at once, and an operation of
   lib/seadsa/Graph.cc is an operator from heaps to heaps:

       node     the nodes; <<c, k>> belongs to the graph of component c
       gone     nodes that were merged away since the last compress
       link     links <<node, field, cell>>; a cell is <<node, offset>>
       cell     m_values, m_formals and m_returns: pairs of a slot <<c, value>> and a
                cell
       folded   nodes with isOffsetCollapsed
       mark     flags that unification adds up: <<node, "modified">>, <<node, "external">>
       foreign  nodes that are clones
       site     allocation sites <<node, site>>
       copy, split             m_map and m_deferredUnify of a Cloner at work

   Field types and arrays are left out, and with them sizes, which matter to
   arrays only.  Nodes that nothing refers to are dropped.  *)
EXTENDS Integers, FiniteSets

CONSTANTS
    MaxNodes        \* nodes a graph may have while an operation works on it

\* The nodes that cells of slots in S lead to.
RECURSIVE Reach(_, _)
Reach(h, S) ==
    LET next == S \cup {l[3][1] : l \in {m \in h.link : m[1] \in S}}
    IN  IF next = S THEN S ELSE Reach(h, next)

SitesOf(h, n) == {p[2] : p \in {q \in h.site : q[1] = n}}
Marked(h, flag) == {p[1] : p \in {q \in h.mark : q[2] = flag}}
LinksOf(h, n) == {l \in h.link : l[1] = n}
Slots(h) == {p[1] : p \in h.cell}
CellOf(h, s) == (CHOOSE p \in h.cell : p[1] = s)[2]

Fresh(h, c) == <<c, CHOOSE k \in 1 .. MaxNodes :
                      /\ <<c, k>> \notin h.node \cup h.gone
                      /\ \A i \in 1 .. k - 1 : <<c, i>> \in h.node \cup h.gone>>

At(h, n, k) == IF n \in h.folded THEN <<n, 0>> ELSE <<n, k>>
-----------------------------------------------------------------------------
(* Unification *)

\* mutant of JoinForeign: a node stays foreign whatever it takes in
ForeignEither(S, a, b) == IF S \cap {a, b} # {} THEN (S \ {a}) \cup {b} ELSE S

\* NodeType::join: only two clones make a clone.
JoinForeign(S, a, b) == IF {a, b} \subseteq S THEN S \ {a} ELSE S \ {a, b}

\* a is embedded at offset k of b, and everything that refers to a follows.
Move(h, a, b, k) ==
    LET to(c) == IF c[1] = a THEN At(h, b, c[2] + k) ELSE c
    IN  [h EXCEPT
           !.node = @ \ {a},
           !.gone = @ \cup {a},
           !.link = {<<to(<<l[1], l[2]>>)[1], to(<<l[1], l[2]>>)[2], to(l[3])>> : l \in @},
           !.cell = {<<s[1], to(s[2])>> : s \in @},
           !.folded = @ \ {a},
           !.mark = {<<to(<<p[1], 0>>)[1], p[2]>> : p \in @},
           !.foreign = JoinForeign(@, a, b),
           !.site = {<<to(<<p[1], 0>>)[1], p[2]>> : p \in @},
           !.copy = {<<p[1], to(<<p[2], 0>>)[1], p[3]>> : p \in @},
           !.split = {<<p[1], to(<<p[2], 0>>)[1]>> : p \in @}]

\* A node that is larger than a byte is replaced by a new one, which is not foreign.
Fold(h, n) ==
    LET to(c) == IF c[1] = n THEN <<n, 0>> ELSE c
    IN  [h EXCEPT
           !.link = {<<l[1], to(<<l[1], l[2]>>)[2], to(l[3])>> : l \in @},
           !.cell = {<<s[1], to(s[2])>> : s \in @},
           !.folded = @ \cup {n},
           !.foreign = IF LinksOf(h, n) # {} THEN @ \ {n} ELSE @]

\* The node with the larger offset takes the other one in.
Join(h, c, d) ==
    LET into == IF c[2] < d[2] THEN d ELSE c
        from == IF c[2] < d[2] THEN c ELSE d
        k == into[2] - from[2]
    IN  IF into[1] = from[1] THEN (IF k = 0 THEN h ELSE Fold(h, into[1]))
        ELSE IF from[1] \in h.folded /\ into[1] \notin h.folded
             THEN Move(Fold(h, into[1]), from[1], into[1], 0)
        ELSE Move(h, from[1], into[1], k)

Met(h) == {p \in h.link \X h.link : /\ p[1][1] = p[2][1] /\ p[1][2] = p[2][2]
                                     /\ p[1][3] # p[2][3]}

\* mutant of Settle: links that meet because others did are left
SettleOnce(h) ==
    IF Met(h) = {} THEN h
    ELSE LET p == CHOOSE p \in Met(h) : TRUE IN Join(h, p[1][3], p[2][3])

\* A field has one link: links that meet are unified, and so on.
RECURSIVE Settle(_)
Settle(h) ==
    IF Met(h) = {} THEN h
    ELSE LET p == CHOOSE p \in Met(h) : TRUE IN Settle(Join(h, p[1][3], p[2][3]))

Unify(h, c, d) == Settle(Join(h, c, d))
-----------------------------------------------------------------------------
(* Slots *)

\* A new node without links, with allocation sites S.
WithNode(h, n, S) == [h EXCEPT !.node = @ \cup {n},
                               !.site = @ \cup {<<n, s>> : s \in S}]

\* mkCell of a global creates its node; globals are always present.
WithGlobal(h, s) ==
    IF s \in Slots(h) THEN h
    ELSE LET n == Fresh(h, s[1])
         IN  [WithNode(h, n, {s[2]}) EXCEPT !.cell = @ \cup {<<s, <<n, 0>>>>}]

\* mutant of UnifySlot: a cell that exists is left as it is
UnifySlotIfNew(h, s, c) ==
    IF s \in Slots(h) THEN h ELSE [h EXCEPT !.cell = @ \cup {<<s, c>>}]

\* mkCell and Cell::unify: a null cell takes the other's place.
UnifySlot(h, s, c) ==
    IF s \in Slots(h) THEN Unify(h, CellOf(h, s), c)
    ELSE [h EXCEPT !.cell = @ \cup {<<s, c>>}]

\* What remains of h when only slots S and what they lead to are kept.
Keep(h, S) ==
    LET live == Reach(h, {CellOf(h, s)[1] : s \in S})
    IN  [h EXCEPT !.node = @ \cap live, !.gone = {},
                  !.link = {l \in @ : l[1] \in live},
                  !.cell = {p \in @ : p[1] \in S},
                  !.folded = @ \cap live, !.foreign = @ \cap live,
                  !.mark = {p \in @ : p[1] \in live},
                  !.site = {p \in @ : p[1] \in live},
                  !.copy = {}, !.split = {}]

compress(h) == Keep(h, Slots(h))

\* Nodes P go, and with them the slots and the links that lead to them; then
\* remove_dead.
removeNodes(h, P) ==
    Keep([h EXCEPT !.link = {l \in @ : l[3][1] \notin P}],
         {s \in Slots(h) : CellOf(h, s)[1] \notin P})
-----------------------------------------------------------------------------
(* SimulationMapper: a triple <<n1, n2, k>> says that n1 of heap h lies at offset
   k of n2 of heap g; the two heaps may be one. *)

Embedded(g, c1, c2) ==
    <<c1[1], c2[1], IF c2[1] \in g.folded THEN 0 ELSE c2[2] - c1[2]>>

Fits(g, c1, c2) == c2[1] \in g.folded \/ c1[2] <= c2[2]

\* The link of n2 that a link of n1 corresponds to.
Counterpart(g, t, l) ==
    {m \in LinksOf(g, t[2]) :
       /\ m[2] = IF t[2] \in g.folded THEN 0 ELSE l[2] + t[3]
       /\ Fits(g, l[3], m[3])}

Below(h, g, t) ==
    UNION {{Embedded(g, l[3], m[3]) : m \in Counterpart(g, t, l)} : l \in LinksOf(h, t[1])}

RECURSIVE Simulation(_, _, _)
Simulation(h, g, sim) ==
    LET next == sim \cup UNION {Below(h, g, t) : t \in sim}
    IN  IF next = sim THEN sim ELSE Simulation(h, g, next)

\* What the pairs of cells in R relate, and the links below them.
Mapped(h, g, R) ==
    Simulation(h, g, {Embedded(g, r[1], r[2]) : r \in {q \in R : Fits(g, q[1], q[2])}})

\* insert succeeds for all pairs in R: links of n1 are links of n2, a node that
\* is not collapsed does not stand for one that is, and a node has one offset in
\* another node.
Simulated(h, g, R) ==
    /\ \A r \in R : Fits(g, r[1], r[2])
    /\ LET sim == Mapped(h, g, R)
       IN  /\ \A t \in sim :
                  /\ t[1] \in h.folded => t[2] \in g.folded
                  /\ \A l \in LinksOf(h, t[1]) : Counterpart(g, t, l) # {}
           /\ \A t, u \in sim : t[1] = u[1] /\ t[2] = u[2] => t = u

isFunction(sim) == \A t, u \in sim : t[1] = u[1] => t[2] = u[2]

isInjective(g, sim) ==
    \A t, u \in sim : t[2] = u[2] /\ t[3] = u[3] /\ t[2] \in Marked(g, "modified") => t = u
=============================================================================
