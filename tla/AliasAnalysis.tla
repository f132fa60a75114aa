---------------------------- MODULE AliasAnalysis ----------------------------
(***************************************************************************)
(* The alias analysis that LLVM's passes ask (SeaDsaAliasAnalysis.cc):     *)
(* what it answers about two pointers from the graph of their function.    *)
(* `No' lets a pass reorder the two accesses; `May' leaves the question to *)
(* the other analyses.                                                     *)
(***************************************************************************)
EXTENDS DsaLocal

CONSTANT MaxMultiple   \* bound: multiples of a stride told apart

ASSUME MultipleAssumption == MaxMultiple \in Nat
ASSUME ValueAssumption == IsFiniteSet(Value)

-----------------------------------------------------------------------------
\* n->getAccessedType(o): the sizes of the types accessed at an offset
AccessedSizes(n, o) == {e.width : e \in {x \in types[n] : x.off = Numeric(n, o)}}

\* Where an access at offset o of node n ends, if all types accessed there have
\* one size (sizeOf).
EndOf(n, o) ==
    LET sizes == AccessedSizes(n, o)
    IN  IF sizes = {} THEN o ELSE o + (CHOOSE s \in sizes : TRUE)

OneSize(n, o) == \E s \in AccessedSizes(n, o) : AccessedSizes(n, o) = {s}

maybeUnsafe(n) == marks[n] \cap {"int_to_ptr", "ptr_to_int"} # {}

\* accesses at the offsets lo <= hi of node n
MayOverlap(n, lo, hi) ==
    IsCollapsed(n) \/ ~OneSize(n, lo) \/ EndOf(n, lo) >= hi

\* mutant of mayAlias: the offsets are not reduced to those in an array
mayAliasRaw(c1, c2) ==
    \/ c1 = NoCell \/ c2 = NoCell
    \/ LET a == Resolve(c1)
           b == Resolve(c2)
       IN  \/ maybeUnsafe(a.node) \/ maybeUnsafe(b.node)
           \/ /\ a.node = b.node
              /\ IF a.off <= b.off THEN MayOverlap(a.node, a.off, b.off)
                 ELSE MayOverlap(a.node, b.off, a.off)

\* mayAlias, of two cells
mayAlias(c1, c2) ==
    \/ c1 = NoCell \/ c2 = NoCell
    \/ LET a == Address(c1)
           b == Address(c2)
       IN  \/ maybeUnsafe(a.node) \/ maybeUnsafe(b.node)
           \/ /\ a.node = b.node
              /\ IF a.off <= b.off THEN MayOverlap(a.node, a.off, b.off)
                 ELSE MayOverlap(a.node, b.off, a.off)

\* SeaDsaAAResult::alias, of two pointers of one function
alias(v, w) ==
    IF v = w THEN "Must" ELSE IF mayAlias(cell[v], cell[w]) THEN "May" ELSE "No"

-----------------------------------------------------------------------------
(* Executions: how far a pointer may be from the ones it was computed from *)

Multiples == (- MaxMultiple) .. MaxMultiple

\* A GEP of which visitGep does not look at the variable part, as its constant part
\* is negative (GepBack, GepBefore), and whose node has not come to cover its stride.
Blind(i) ==
    /\ i.k < 0 /\ i.stride # 0
    /\ LET n == Address(cell[i.p]).node
       IN  ~IsCollapsed(n) /\ ~(IsArray(n) /\ i.stride % size[n] = 0)

\* v may be computed from p and lie d units after it, by the variable parts of the
\* blind GEPs in `unseen'
Moves ==
    (UNION {{[v |-> i.v, p |-> i.p, d |-> i.k + m * i.stride,
              unseen |-> IF m # 0 /\ Blind(i) THEN {i} ELSE {}] : m \in Multiples} :
               i \in {j \in prog : j.op = "gep"}})
    \cup {[v |-> i.v, p |-> i.p, d |-> 0, unseen |-> {}] : i \in {j \in prog : j.op = "same"}}

\* pointers, distances, and the blind GEPs they are owed to, reached from those in S
\* by one move more
Further(S) ==
    S \cup UNION {{<<m.v, x[2] + m.d, x[3] \cup m.unseen>> : x \in {y \in S : y[1] = m.p}} :
                     m \in Moves}

\* the pointers computed from b, and their distances from it
ComputedFrom(b) ==
    LET upTo[n \in Nat] == IF n = 0 THEN {<<b, 0, {}>>} ELSE Further(upTo[n - 1])
    IN  upTo[Cardinality(Value)]

Accesses == {i \in prog : i.op \in {"touch", "load", "store"}}
WidthOf(i) == IF i.op = "touch" THEN i.width ELSE PtrWidth

\* Two accesses of which an execution may have one write what the other reads or
\* writes are said to be apart only if one of the pointers was computed with the
\* variable part of a blind GEP, which the graph knows nothing of: in all other cases
\* the answer is right whatever has been merged, collapsed or made an array since,
\* though SeaDsaAAResult::alias looks only at where the cells are now and at the types
\* accessed at the lower one.
WrongOnlyIfBlind ==
    Idle => \A b \in Value : \A x, y \in ComputedFrom(b) : \A i, j \in Accesses :
        (/\ i.p = x[1] /\ j.p = y[1]
         /\ x[2] <= y[2] /\ y[2] < x[2] + WidthOf(i)
         /\ "No" \in {alias(i.p, j.p), alias(j.p, i.p)})
            => x[3] \cup y[3] # {}
=============================================================================
