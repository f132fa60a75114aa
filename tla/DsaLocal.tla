------------------------------ MODULE DsaLocal ------------------------------
(***************************************************************************)
(* The local analysis of sea-dsa (lib/seadsa/DsaLocal.cc): how the pointer *)
(* instructions of a function build its points-to graph.                   *)
(*                                                                         *)
(* Each visit method is an action taken when no graph operation is         *)
(* pending: it does what it does itself and leaves on `stack' the graph    *)
(* operations it calls.  Instructions come in any order, over any values   *)
(* that already have a cell, which covers every order in which a block can *)
(* hold them; each value is defined once.                                  *)
(***************************************************************************)
EXTENDS DsaGraph, FiniteSets

CONSTANTS
    PtrWidth,      \* size of a pointer, in units of offset
    ScalarWidth,   \* sizes of the other values loaded and stored
    GepOffset,     \* constant offsets of GEPs, may be negative
    Stride,        \* gcds of the variable offsets of GEPs
    SeqSize,       \* second arguments of calls to sea_dsa_mk_seq
    Mixes          \* bound: how many instructions of some kinds a function holds

ASSUME WidthAssumption ==
    PtrWidth \in Nat \ {0} /\ ScalarWidth \subseteq Nat \ {0}
ASSUME OffsetAssumption ==
    /\ GepOffset \subseteq Int
    /\ Stride \subseteq Nat \ {0}
    /\ SeqSize \subseteq Nat \ {0}

VARIABLE prog      \* the instructions visited, for the properties

vars == <<graphVars, prog>>

Instruction ==
         [op : {"alloca", "call"}, v : Value]
    \cup [op : {"gep"}, v : Value, p : Value, k : Int, stride : Nat]
    \cup [op : {"load", "store"}, v : Value, p : Value, ty : FieldType]
    \cup [op : {"touch"}, p : Value, mark : Mark, width : Nat]
    \cup [op : {"same"}, v : Value, p : Value]
    \cup [op : {"collapse", "mk_seq"}, p : Value]

Bound(v) == cell[v] # NoCell
Defines(v) == Idle /\ ~Bound(v)

\* A mix names sets of kinds, and how many instructions of each set there may be.
Kind(i) == IF i.op = "gep" /\ i.k < 0 THEN "gep back" ELSE i.op
InBounds(is) ==
    \E mix \in Mixes :
      /\ \A i \in is : Kind(i) \in UNION DOMAIN mix
      /\ \A kinds \in DOMAIN mix : Cardinality({i \in is : Kind(i) \in kinds}) <= mix[kinds]

Visited(is) == prog' = prog \cup is /\ InBounds(prog')

Call(fs) == stack' = fs
CanMakeNode == ClientNode \ nodes # {}
At(n, o) == [node |-> n, off |-> o]
SetMark(n, m) == marks' = [marks EXCEPT ![n] = @ \cup {m}]

-----------------------------------------------------------------------------
VisitAlloca(v) ==
    /\ Defines(v)
    /\ \E n \in ClientNode :
          /\ MkNode(n)
          /\ sites' = [sites EXCEPT ![n] = {v}]
          /\ SetMark(n, "alloca")
          /\ MkCell(v, At(n, 0))
    /\ Visited({[op |-> "alloca", v |-> v]})
    /\ UNCHANGED <<fwd, size, types, links, stack>>

\* a pointer the analysis knows nothing of: a PHI before its incoming values
\* are merged, the result of a call
VisitInstruction(v) ==
    /\ Defines(v)
    /\ \E n \in ClientNode : MkNode(n) /\ MkCell(v, At(n, 0))
    /\ Visited({[op |-> "call", v |-> v]})
    /\ UNCHANGED <<fwd, marks, size, types, links, sites, stack>>

(* visitGep: v is p moved by k, and by some multiple of the stride *)

IsGep(v, p, k, stride) ==
    /\ Defines(v)
    /\ Bound(p)
    /\ Visited({[op |-> "gep", v |-> v, p |-> p, k |-> k, stride |-> stride]})

GepInCollapsed(v, p, k, stride) ==
    /\ IsGep(v, p, k, stride)
    /\ IsCollapsed(Resolve(cell[p]).node)
    /\ MkCell(v, At(Resolve(cell[p]).node, 0))
    /\ UNCHANGED <<nodes, fwd, marks, size, types, links, sites, stack>>

\* the variable part of a negative offset is not looked at
GepBack(v, p, k, stride) ==
    /\ IsGep(v, p, k, stride)
    /\ ~IsCollapsed(Resolve(cell[p]).node)
    /\ k < 0
    /\ Address(cell[p]).off + k >= 0
    /\ MkCell(v, At(Address(cell[p]).node, Address(cell[p]).off + k))
    /\ UNCHANGED <<nodes, fwd, marks, size, types, links, sites, stack>>

GepBefore(v, p, k, stride) ==
    /\ IsGep(v, p, k, stride)
    /\ ~IsCollapsed(Resolve(cell[p]).node)
    /\ k < 0
    /\ Address(cell[p]).off + k < 0
    /\ \E n \in ClientNode :
          /\ MkNode(n)
          /\ MkCell(v, At(n, 0))
          /\ Call(<<UnifyAt(n, Address(cell[p]).node,
                            -(Address(cell[p]).off + k))>>)
    /\ UNCHANGED <<fwd, marks, size, types, links, sites>>

GepIntoArray(v, p, k, stride) ==
    /\ IsGep(v, p, k, stride)
    /\ ~IsCollapsed(Resolve(cell[p]).node)
    /\ k >= 0
    /\ stride # 0
    /\ \E n \in ClientNode :
          /\ MkNode(n)
          /\ SetMark(n, "array")
          /\ size' = [size EXCEPT ![n] = stride]
          /\ MkCell(v, At(n, k + Resolve(cell[p]).off))
          /\ Call(<<UnifyAt(n, Resolve(cell[p]).node, 0)>>)
    /\ UNCHANGED <<fwd, types, links, sites>>

GepToField(v, p, k, stride) ==
    /\ IsGep(v, p, k, stride)
    /\ ~IsCollapsed(Resolve(cell[p]).node)
    /\ k >= 0
    /\ stride = 0
    /\ MkCell(v, At(Resolve(cell[p]).node, Resolve(cell[p]).off + k))
    /\ UNCHANGED <<nodes, fwd, marks, size, types, links, sites, stack>>

VisitGep(v, p, k, stride) ==
    \/ GepInCollapsed(v, p, k, stride)
    \/ GepBack(v, p, k, stride)
    \/ GepBefore(v, p, k, stride)
    \/ GepIntoArray(v, p, k, stride)
    \/ GepToField(v, p, k, stride)

(* visitLoadInst, in three parts: before, between and after its calls *)

VisitLoad(v, p, ty) ==
    /\ Defines(v)
    /\ Bound(p)
    /\ CanMakeNode
    /\ Visited({[op |-> "load", v |-> v, p |-> p, ty |-> ty]})
    /\ Call(<<Access(cell[p], PtrWidth), Load(v, cell[p], ty)>>)
    /\ UNCHANGED <<nodeVars, cell>>

LoadFindsLink ==
    /\ Running("load")
    /\ SetMark(Resolve(Top.at).node, "read")
    /\ LinkAt(Resolve(Top.at).node, LinkOffset(Top.at), Top.ty) # {}
    /\ Continue(<<BindLink(Top.v, Top.at, Top.ty)>>)
    /\ UNCHANGED <<nodes, fwd, size, types, links, sites, scalar, once, cell,
                   prog>>

LoadMakesLink ==
    /\ Running("load")
    /\ SetMark(Resolve(Top.at).node, "read")
    /\ LinkAt(Resolve(Top.at).node, LinkOffset(Top.at), Top.ty) = {}
    /\ \E n \in ClientNode :
          /\ MkNode(n)
          /\ Continue(<<AddLink(Top.at, Top.ty, At(n, 0)),
                        BindLink(Top.v, Top.at, Top.ty)>>)
    /\ UNCHANGED <<fwd, size, types, links, sites, scalar, once, cell, prog>>

VisitStore(v, p, ty) ==
    /\ Idle
    /\ Bound(v) /\ Bound(p)
    /\ SetMark(Resolve(cell[p]).node, "modified")
    /\ Visited({[op |-> "store", v |-> v, p |-> p, ty |-> ty]})
    /\ Call(<<Access(cell[p], PtrWidth), AddLink(cell[p], ty, cell[v])>>)
    /\ UNCHANGED <<nodes, fwd, size, types, links, sites, scalar, once, cell>>

\* a load or store of something that is not a pointer
VisitScalarAccess(p, width, mark) ==
    /\ Idle
    /\ Bound(p)
    /\ SetMark(Resolve(cell[p]).node, mark)
    /\ Visited({[op |-> "touch", p |-> p, mark |-> mark, width |-> width]})
    /\ Call(<<Access(cell[p], width)>>)
    /\ UNCHANGED <<nodes, fwd, size, types, links, sites, scalar, once, cell>>

VisitSelect(v, p, q) ==
    /\ Defines(v)
    /\ Bound(p) /\ Bound(q)
    /\ Visited({[op |-> "same", v |-> v, p |-> p],
                [op |-> "same", v |-> p, p |-> q]})
    /\ Call(<<Unify(cell[p], cell[q]), Bind(v, cell[p])>>)
    /\ UNCHANGED <<nodeVars, cell>>

\* one incoming value of a PHI
VisitPHINode(v, p) ==
    /\ Idle
    /\ Bound(v) /\ Bound(p)
    /\ Visited({[op |-> "same", v |-> v, p |-> p]})
    /\ Call(<<Unify(cell[v], cell[p])>>)
    /\ UNCHANGED <<nodeVars, cell>>

(* the specification functions sea_dsa_collapse and sea_dsa_mk_seq *)

VisitCollapse(p) ==
    /\ Idle
    /\ Bound(p)
    /\ Visited({[op |-> "collapse", p |-> p]})
    /\ Call(<<Collapse(Resolve(cell[p]).node)>>)
    /\ UNCHANGED <<nodeVars, cell>>

VisitMakeSeq(p, sz) ==
    /\ Idle
    /\ Bound(p)
    /\ LET n == Resolve(cell[p]).node
       IN  /\ ~IsArray(n)
           /\ size[n] <= sz
           /\ SetMark(n, "array")
           /\ size' = [size EXCEPT ![n] = sz]
    /\ Visited({[op |-> "mk_seq", p |-> p]})
    /\ UNCHANGED <<nodes, fwd, types, links, sites, scalar, once, cell, stack>>

-----------------------------------------------------------------------------
Init == GraphInit /\ prog = {}

Visit ==
    \/ \E v \in Value : VisitAlloca(v) \/ VisitInstruction(v)
    \/ \E v, p \in Value, k \in GepOffset, stride \in Stride \cup {0} :
          VisitGep(v, p, k, stride)
    \/ \E v, p \in Value, ty \in FieldType :
          VisitLoad(v, p, ty) \/ VisitStore(v, p, ty)
    \/ \E p \in Value, width \in ScalarWidth, mark \in {"read", "modified"} :
          VisitScalarAccess(p, width, mark)
    \/ \E v, p, q \in Value : VisitSelect(v, p, q)
    \/ \E v, p \in Value : VisitPHINode(v, p)
    \/ \E p \in Value : VisitCollapse(p)
    \/ \E p \in Value, sz \in SeqSize : VisitMakeSeq(p, sz)

Step == (GraphStep /\ UNCHANGED prog) \/ LoadFindsLink \/ LoadMakesLink

Next == Step \/ Visit

Spec == Init /\ [][Next]_vars

\* The analysis is one sequential program: a call that has begun runs on.
FairSpec == Spec /\ WF_vars(Step)

-----------------------------------------------------------------------------
(* What the graph promises once no operation is pending.  The instruction   *)
(* set `prog' is all that was asked of it, in whatever order.               *)

Shifted(c, k) == [c EXCEPT !.off = @ + k]
Linked(p, ty) == FoundLink(Address(cell[p]).node, Address(cell[p]).off, ty)

\* Whatever was stored through p, or loaded through it, is still found there:
\* no merging, collapse or move of links (Node::pointTo, Node::addLink) loses
\* or splits a points-to edge.
LinksKept ==
    Idle => \A i \in prog : i.op \in {"load", "store"} =>
                \E l \in Linked(i.p, i.ty) : SameCell(l.to, cell[i.v])

\* A GEP stays at its distance from its base, in whatever nodes and at whatever
\* offsets the two have ended up (visitGep, Node::unifyAt).
GepsKept ==
    Idle => \A i \in prog : i.op = "gep" =>
                IF i.k >= 0 THEN SameCell(cell[i.v], Shifted(cell[i.p], i.k))
                ELSE SameCell(Shifted(cell[i.v], -i.k), cell[i.p])

\* A GEP with a variable index of some stride keeps reaching every multiple of
\* it: the node has collapsed or is an array of a size that divides the stride
\* (the divisibility cases of Node::unifyAt).  When the constant part is negative
\* visitGep does not look at the variable part, see GepBack.
StridesKept ==
    Idle => \A i \in prog : (i.op = "gep" /\ i.k >= 0 /\ i.stride # 0) =>
                LET n == Address(cell[i.p]).node
                IN  IsCollapsed(n) \/ (IsArray(n) /\ i.stride % size[n] = 0)

(* What holds of every node at every moment, inside an operation or not. *)

\* A link lies inside its node, at an offset that somebody asks for: collapsing
\* a node of size one in place (collapseOffsets) leaves no link behind.
LinksInBounds ==
    \A n \in Node : \A l \in links[n] :
        l.off < size[n] /\ Numeric(n, l.off) = l.off

\* A field has one link for each type, and the omni link excludes all others
\* (Node::addLink removes them and adds them again).
OneLinkPerField ==
    \A n \in Node : \A k, l \in links[n] : (k # l /\ k.off = l.off) =>
        k.ty # l.ty /\ OmniType \notin {k.ty, l.ty}

\* Accessed types lie inside the node; an array that a type does not fit has
\* collapsed (Node::growSize).
TypesFit ==
    \A n \in Node : \A e \in types[n] : e.off + e.width <= size[n]

\* getNumericOffset divides by the size of an array.
ArraysHaveSize == \A n \in Node : IsArray(n) => size[n] > 0

\* The unique scalar of a node points to its first byte: it is reset when the
\* node is placed inside another, or collapses, or gets a second pointer.
UniqueScalarPointsHere ==
    \A n \in Node : (scalar[n] # NoValue /\ ~IsForwarding(n)) =>
        Resolve(cell[scalar[n]]) = At(n, 0)

(* What a step may never do. *)

ProbeOffset == 0 .. 3
Probe == [node : ClientNode, off : ProbeOffset]

\* Two cells that denote the same memory do so for ever: no unification, and
\* no change of a node to an array or to a collapsed node, separates them.
SameStaysSame ==
    [][\A c, d \in Probe : SameCell(c, d) => SameCell(c, d)']_vars

(* What must happen. *)

\* A collapsed node that sea_dsa_mk_seq has made an array (VisitMakeSeq does not ask
\* whether it has collapsed), beside an array whose size does not go with its own:
\* unifyAt, collapsing the one in vain, would try to unify them for ever.
CollapsedSequence ==
    \E n, m \in {x \in Node : IsArray(x) /\ ~IsForwarding(x)} :
        IsCollapsed(n) /\ size[n] % size[m] # 0 /\ size[m] % size[n] # 0

=============================================================================
