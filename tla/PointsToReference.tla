------------------------- MODULE PointsToReference -------------------------
(***************************************************************************)
(* What the local analysis computes, said without a graph: the least       *)
(* solution of the constraints that the visited instructions put on the    *)
(* values, in a language where GEPs have constant offsets.                 *)
(*                                                                         *)
(* d \in known[v, w] says that v points d units after w.  Distances come   *)
(* from GEPs and merged values, add up along paths, and what is read or    *)
(* written through pointers to the same field is at distance 0.  A value   *)
(* at a nonzero distance from itself has a collapsed object: its distances *)
(* carry no information, and all its pointers are alike.                   *)
(*                                                                         *)
(* The module is a definition to compare lib/seadsa/DsaLocal.cc and        *)
(* lib/seadsa/Graph.cc with; nothing of it is in the code.                 *)
(***************************************************************************)
EXTENDS LocalAnalysis

CONSTANT MaxDistance      \* bound on the distances told apart

Distance == (- MaxDistance) .. MaxDistance
Known == {v \in Value : Bound(v)}

\* the distances the instructions state
Stated == [p \in Known \X Known |->
    {i.k : i \in {j \in prog : j.op = "gep" /\ <<j.v, j.p>> = p}}
    \cup {0 : i \in {j \in prog : j.op = "same" /\ <<j.v, j.p>> = p}}
    \cup {0 : v \in {w \in Known : p = <<w, w>>}}]

Accesses ==
    {i \in prog : i.op \in {"load", "store", "put", "get", "link"}}
FieldOf(i) == IF i.op \in {"load", "store"} THEN 0 ELSE i.k

\* the values whose object has collapsed, by the distances known so far
CollapsedIn(known) ==
    {v \in Known : \E w \in Known :
        /\ known[v, w] # {}
        /\ known[w, w] # {0} \/ [op |-> "collapse", p |-> w] \in prog}

\* one round of consequences
Consequences(known) ==
    LET lost == CollapsedIn(known)
        Meet(i, j) == \/ FieldOf(j) - FieldOf(i) \in known[i.p, j.p]
                      \/ i.p \in lost /\ known[i.p, j.p] # {}
        met == {<<i.v, j.v>> : <<i, j>> \in {q \in Accesses \X Accesses :
                                                 Meet(q[1], q[2])}}
        Sums(v, w) == UNION {{d + e : d \in known[v, u], e \in known[u, w]} :
                                u \in Known}
    IN  [p \in Known \X Known |->
            known[p] \cup {-d : d \in known[p[2], p[1]]}
            \cup (Sums(p[1], p[2]) \cap Distance)
            \cup {0 : q \in met \cap {p}}
            \cup {0 : v \in {w \in lost : w = p[1] /\ known[p] # {}}}]

RECURSIVE Closure(_)
Closure(known) ==
    LET more == Consequences(known)
    IN  IF more = known THEN known ELSE Closure(more)

\* The graph that remains is the least solution: two pointers share a cell
\* exactly when the instructions force them to, and a node has collapsed exactly
\* when they force that.  So nothing is merged or collapsed without a reason,
\* nothing that must be merged is missed, and the order in which instructions
\* were visited and links moved does not matter.
GraphIsLeastSolution ==
    phase = "done" =>
        LET known == Closure(Stated)
        IN  /\ \A v, w \in Known :
                  SameCell(cell[v], cell[w]) <=> 0 \in known[v, w]
            /\ \A v \in Known :
                  IsCollapsed(Address(cell[v]).node) <=> v \in CollapsedIn(known)
=============================================================================
