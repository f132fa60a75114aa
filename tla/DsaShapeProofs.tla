--------------------------- MODULE DsaShapeProofs ---------------------------
(***************************************************************************)
(* The shape of the nodes, proved: what size, accessed types, links and    *)
(* unique scalar of a node have to do with each other, inside an operation *)
(* as well as between two.                                                 *)
(*                                                                         *)
(* The hard part is that a link lies inside its node.  When a node is      *)
(* placed inside another (Node::pointTo) its links follow much later, after *)
(* its types, and are moved one by one through calls that merge and        *)
(* collapse nodes again; all that time the node they are bound for must    *)
(* have grown enough.  It has, because a node that is neither array nor    *)
(* collapsed is never larger than its accessed types ask for, and these    *)
(* are merged first.                                                       *)
(***************************************************************************)
EXTENDS DsaLocalProofs, SequenceTheorems

Plain(n) == ~IsCollapsed(n) /\ ~IsArray(n)

(* Node by node. *)

\* a node that is not in the graph is as the constructor of Node leaves it
BlankAt(n) == n \notin nodes => size[n] = 0 /\ types[n] = {} /\ links[n] = {}

CollapsedHasSize(n) == IsCollapsed(n) => size[n] > 0

\* a node is no larger than what was accessed in it
SizeWitnessed(n) ==
    Plain(n) /\ size[n] > 0 => \E e \in types[n] : e.off + e.width = size[n]

TypesFitAt(n) == \A e \in types[n] : e.off + e.width <= size[n]

OneLinkPerFieldAt(n) ==
    \A k, l \in links[n] : (k # l /\ k.off = l.off) =>
        k.ty # l.ty /\ OmniType \notin {k.ty, l.ty}

LinksInBoundsAt(n) ==
    \A l \in links[n] : l.off < size[n] /\ Numeric(n, l.off) = l.off

NodeShape(n) ==
    /\ BlankAt(n)
    /\ CollapsedHasSize(n)
    /\ SizeWitnessed(n)
    /\ TypesFitAt(n)
    /\ OneLinkPerFieldAt(n)
    /\ LinksInBoundsAt(n)

Shape == \A n \in Node : NodeShape(n)

\* a node that a step leaves alone, but for marks that say nothing of its shape
Untouched(n) ==
    /\ size'[n] = size[n]
    /\ types'[n] = types[n]
    /\ links'[n] = links[n]
    /\ IsCollapsed(n)' <=> IsCollapsed(n)
    /\ IsArray(n)' <=> IsArray(n)

\* what is left alone keeps its shape
LEMMA UntouchedKeepsShape ==
    ASSUME NEW n, NodeShape(n), Untouched(n), nodes \subseteq nodes'
    PROVE  NodeShape(n)'
  <1>1. \A o : Numeric(n, o)' = Numeric(n, o)
    BY DEF Untouched, Numeric
  <1>2. BlankAt(n)' /\ CollapsedHasSize(n)' /\ SizeWitnessed(n)' /\ TypesFitAt(n)'
    BY DEF NodeShape, Untouched, BlankAt, CollapsedHasSize, SizeWitnessed,
           TypesFitAt, Plain
  <1>3. OneLinkPerFieldAt(n)' /\ LinksInBoundsAt(n)'
    BY <1>1 DEF NodeShape, Untouched, OneLinkPerFieldAt, LinksInBoundsAt
  <1> QED
    BY <1>2, <1>3 DEF NodeShape

\* a step keeps the shape of all nodes when it does of those it touches
LEMMA TouchedDecide ==
    ASSUME Shape, nodes \subseteq nodes',
           \A n \in Node : Untouched(n) \/ NodeShape(n)'
    PROVE  Shape'
  BY UntouchedKeepsShape DEF Shape

\* a step that enters a node, sets a mark or calls, and touches no shape
LEMMA NothingTouched ==
    ASSUME Shape, nodes \subseteq nodes', UNCHANGED <<size, types, links>>,
           \A n \in Node : /\ IsCollapsed(n)' <=> IsCollapsed(n)
                           /\ IsArray(n)' <=> IsArray(n)
    PROVE  Shape'
  <1>1. \A n \in Node : Untouched(n)
    BY DEF Untouched
  <1> QED
    BY <1>1, UntouchedKeepsShape DEF Shape

(* Growing. *)

\* Node::growSize and Node::addAccessedType: a node that takes in the extents es,
\* none of which overflows it
LEMMA GrownShape ==
    ASSUME Inv, NEW n \in Node, n \in nodes, NodeShape(n),
           NEW es \in SUBSET Extent,
           IsCollapsed(n) => es = {}, \A e \in es : ~Overflows(n, e),
           NEW z \in Ends(n, es), GrowsTo(n, es, z), nodes \subseteq nodes',
           types'[n] = types[n] \cup es, size'[n] = z,
           UNCHANGED <<links, marks>>
    PROVE  NodeShape(n)'
  <1>1. size[n] \in Nat /\ z \in Nat /\ size[n] <= z
    BY EndsAreSizes DEF Inv, TypeOK
  <1>2. \A e \in types[n] \cup es : e.off \in Nat /\ e.width \in Nat
    BY DEF Inv, TypeOK, Extent
  <1>3. \A o : IsArray(n) => z = size[n]
    BY DEF Ends
  <1>4. \A o : Numeric(n, o)' = Numeric(n, o)
    BY <1>3 DEF Numeric, IsCollapsed, IsArray
  <1>5. /\ IsCollapsed(n)' <=> IsCollapsed(n)
        /\ IsArray(n)' <=> IsArray(n)
        /\ Plain(n)' <=> Plain(n)
    BY DEF IsCollapsed, IsArray, Plain
  <1>6. BlankAt(n)' /\ CollapsedHasSize(n)'
    BY <1>1, <1>5 DEF BlankAt, CollapsedHasSize, NodeShape
  <1>7. SizeWitnessed(n)'
    <2> SUFFICES ASSUME Plain(n), z > 0
                 PROVE  \E e \in types[n] \cup es : e.off + e.width = z
      BY <1>5 DEF SizeWitnessed
    <2>1. CASE z = size[n]
      BY <2>1 DEF NodeShape, SizeWitnessed
    <2>2. CASE z # size[n]
      BY <2>2 DEF Ends
    <2> QED
      BY <2>1, <2>2
  <1>8. TypesFitAt(n)'
    <2> SUFFICES ASSUME NEW e \in types[n] \cup es PROVE e.off + e.width <= z
      BY DEF TypesFitAt
    <2>1. CASE e \in types[n]
      BY <1>1, <1>2, <2>1 DEF NodeShape, TypesFitAt
    <2>2. CASE e \in es /\ IsArray(n)
      BY <1>1, <1>2, <1>3, <2>2 DEF Overflows
    <2>3. CASE e \in es /\ ~IsArray(n)
      BY <2>3 DEF GrowsTo, Ends
    <2> QED
      BY <2>1, <2>2, <2>3
  <1>9. OneLinkPerFieldAt(n)'
    BY DEF NodeShape, OneLinkPerFieldAt
  <1>10. LinksInBoundsAt(n)'
    <2> SUFFICES ASSUME NEW l \in links[n]
                 PROVE  l.off < z /\ Numeric(n, l.off) = l.off
      BY <1>4 DEF LinksInBoundsAt
    <2>1. l.off \in Nat /\ l.off < size[n] /\ Numeric(n, l.off) = l.off
      BY DEF NodeShape, LinksInBoundsAt, Inv, TypeOK, LinkIn
    <2> QED
      BY <1>1, <2>1
  <1> QED
    BY <1>6, <1>7, <1>8, <1>9, <1>10 DEF NodeShape

\* what joinAccessedTypes brings to m are extents
LEMMA JoinedAreExtents ==
    ASSUME TypeOK, ArraysHaveSize, NEW n \in Node, NEW m \in Node, NEW o \in Nat
    PROVE  /\ JoinedTypes(n, m, o) \in SUBSET Extent
           /\ IsCollapsed(m) => JoinedTypes(n, m, o) = {}
  <1>1. ASSUME NEW e \in types[n]
        PROVE  Placed(m, e, o) \in Extent
    <2>1. e \in Extent
      BY DEF TypeOK
    <2>2. e.off + o \in Nat /\ e.width \in Nat \ {0}
      BY <2>1 DEF Extent
    <2>3. Numeric(m, e.off + o) \in Nat
      BY <2>2, NumericIsNat
    <2> QED
      BY <2>2, <2>3 DEF Placed, Extent
  <1> QED
    BY <1>1 DEF JoinedTypes

\* joinAccessedTypes, where everything fits
LEMMA AbsorbTypesShape == Inv /\ Shape /\ AbsorbTypes => Shape'
  <1> SUFFICES ASSUME Inv, Shape, AbsorbTypes PROVE Shape'
    OBVIOUS
  <1>0. PICK n, m, o, es : /\ n = Top.n /\ m = Top.m /\ o = Top.o
                           /\ es = JoinedTypes(Top.n, Top.m, Top.o)
    OBVIOUS
  <1>1. /\ \A e \in es : ~Overflows(m, e)
        /\ types' = [types EXCEPT ![m] = @ \cup es]
        /\ UNCHANGED <<nodes, fwd, marks, links>>
    BY <1>0 DEF AbsorbTypes
  <1>2. PICK z \in Ends(m, es) :
           GrowsTo(m, es, z) /\ size' = [size EXCEPT ![m] = z]
    BY <1>0 DEF AbsorbTypes
  <1>3. m \in nodes /\ m \in Node /\ n \in Node /\ o \in Nat
    BY <1>0, AbsorbTop DEF AbsorbTypes, Running
  <1>4. es \in SUBSET Extent /\ (IsCollapsed(m) => es = {})
    BY <1>0, <1>3, JoinedAreExtents DEF Inv
  <1>5. types'[m] = types[m] \cup es /\ size'[m] = z
    BY <1>1, <1>2, <1>3 DEF Inv, TypeOK
  <1>6. NodeShape(m)'
    BY <1>1, <1>2, <1>3, <1>4, <1>5, GrownShape DEF Shape
  <1>7. \A x \in Node \ {m} : Untouched(x)
    BY <1>1, <1>2 DEF Untouched, IsCollapsed, IsArray, Inv, TypeOK
  <1> QED
    BY <1>1, <1>6, <1>7, TouchedDecide

\* addAccessedType, where the type fits
LEMMA AddAccessedTypeShape == Inv /\ Shape /\ AddAccessedType => Shape'
  <1> SUFFICES ASSUME Inv, Shape, AddAccessedType PROVE Shape'
    OBVIOUS
  <1>0. PICK n, e : /\ n = Resolve(Top.at).node
                    /\ e = AccessedExtent(Top.at, Top.width)
    OBVIOUS
  <1>1. /\ ~IsCollapsed(n) /\ ~Overflows(n, e)
        /\ types' = [types EXCEPT ![n] = @ \cup {e}]
        /\ UNCHANGED <<nodes, fwd, marks, links>>
    BY <1>0 DEF AddAccessedType
  <1>2. PICK z \in Ends(n, {e}) :
           GrowsTo(n, {e}, z) /\ size' = [size EXCEPT ![n] = z]
    BY <1>0 DEF AddAccessedType
  <1>3. n \in nodes /\ n \in Node /\ {e} \in SUBSET Extent
    BY <1>0, AccessTop DEF AddAccessedType
  <1>4. types'[n] = types[n] \cup {e} /\ size'[n] = z
    BY <1>1, <1>2, <1>3 DEF Inv, TypeOK
  <1>5. NodeShape(n)'
    BY <1>1, <1>2, <1>3, <1>4, GrownShape DEF Shape
  <1>6. \A x \in Node \ {n} : Untouched(x)
    BY <1>1, <1>2 DEF Untouched, IsCollapsed, IsArray, Inv, TypeOK
  <1> QED
    BY <1>1, <1>5, <1>6, TouchedDecide

(* Collapsing. *)

\* collapseOffsets in place: the only offset a link of a node of size one can have
\* is the one that is left
LEMMA CollapseInPlaceShape == Inv /\ Shape /\ CollapseInPlace => Shape'
  <1> SUFFICES ASSUME Inv, Shape, CollapseInPlace PROVE Shape'
    OBVIOUS
  <1>0. PICK n : n = Root(Top.n)
    OBVIOUS
  <1>1. /\ size[n] <= 1
        /\ size' = [size EXCEPT ![n] = 1]
        /\ marks' = [marks EXCEPT ![n] =
                         (@ \cup {"offset_collapsed"}) \ {"array"}]
        /\ UNCHANGED <<nodes, types, links>>
    BY <1>0 DEF CollapseInPlace
  <1>2. n \in nodes /\ n \in Node
    BY <1>0, CollapseTop DEF CollapseInPlace
  <1>3. size'[n] = 1 /\ IsCollapsed(n)' /\ size[n] \in Nat
    BY <1>1, <1>2 DEF IsCollapsed, Inv, TypeOK
  <1>4. NodeShape(n)'
    <2>1. BlankAt(n)' /\ CollapsedHasSize(n)' /\ SizeWitnessed(n)'
      BY <1>1, <1>2, <1>3 DEF BlankAt, CollapsedHasSize, SizeWitnessed, Plain
    <2>2. TypesFitAt(n)'
      <3> SUFFICES ASSUME NEW e \in types[n] PROVE e.off + e.width <= 1
        BY <1>1, <1>3 DEF TypesFitAt
      <3>1. e.off + e.width <= size[n] /\ e.off \in Nat /\ e.width \in Nat
        BY <1>2 DEF Shape, NodeShape, TypesFitAt, Inv, TypeOK, Extent
      <3> QED
        BY <1>1, <1>3, <3>1
    <2>3. OneLinkPerFieldAt(n)'
      BY <1>1, <1>2 DEF Shape, NodeShape, OneLinkPerFieldAt
    <2>4. LinksInBoundsAt(n)'
      <3> SUFFICES ASSUME NEW l \in links[n]
                   PROVE  l.off < 1 /\ l.off = 0
        BY <1>1, <1>3 DEF LinksInBoundsAt, Numeric
      <3>1. l.off \in Nat /\ l.off < size[n]
        BY <1>2 DEF Shape, NodeShape, LinksInBoundsAt, Inv, TypeOK, LinkIn
      <3> QED
        BY <1>1, <1>3, <3>1
    <2> QED
      BY <2>1, <2>2, <2>3, <2>4 DEF NodeShape
  <1>5. \A x \in Node \ {n} : Untouched(x)
    BY <1>1 DEF Untouched, IsCollapsed, IsArray, Inv, TypeOK
  <1> QED
    BY <1>1, <1>4, <1>5, TouchedDecide

\* collapseOffsets with a new node, which is empty
LEMMA CollapseFreshShape == Inv /\ Shape /\ CollapseFresh => Shape'
  <1> SUFFICES ASSUME Inv, Shape, CollapseFresh PROVE Shape'
    OBVIOUS
  <1>0. PICK n, c : n = Root(Top.n) /\ c = CollapsedTwin(Root(Top.n))
    OBVIOUS
  <1>1. /\ n \in ClientNode /\ c \notin nodes
        /\ nodes' = nodes \cup {c}
        /\ marks' = [marks EXCEPT ![c] =
                        (JoinMarks({}, marks[n]) \cup {"offset_collapsed"})
                        \ {"array"}]
        /\ size' = [size EXCEPT ![c] = 1]
        /\ UNCHANGED <<types, links>>
    BY <1>0 DEF CollapseFresh
  <1>2. c \in Node
    BY <1>0, <1>1, MaxNodesAssumption DEF ClientNode, Node, CollapsedTwin
  <1>3. size'[c] = 1 /\ IsCollapsed(c)'
    BY <1>1, <1>2 DEF IsCollapsed, Inv, TypeOK
  <1>4. types'[c] = {} /\ links'[c] = {} /\ c \in nodes'
    BY <1>1, <1>2 DEF Shape, NodeShape, BlankAt
  <1>5. NodeShape(c)'
    BY <1>3, <1>4 DEF NodeShape, BlankAt, CollapsedHasSize, SizeWitnessed, Plain,
                      TypesFitAt, OneLinkPerFieldAt, LinksInBoundsAt
  <1>6. \A x \in Node \ {c} : Untouched(x)
    BY <1>1 DEF Untouched, IsCollapsed, IsArray, Inv, TypeOK
  <1>7. nodes \subseteq nodes'
    BY <1>1
  <1> QED
    BY <1>5, <1>6, <1>7, TouchedDecide

\* pointTo resets its source; the flags of the destination that matter stay what
\* they are, since the source has none that it lacks
LEMMA AbsorbMarksShape == Inv /\ Shape /\ AbsorbMarks => Shape'
  <1> SUFFICES ASSUME Inv, Shape, AbsorbMarks PROVE Shape'
    OBVIOUS
  <1>0. PICK n, r : n = Top.n /\ r = Root(Top.m)
    OBVIOUS
  <1>1. /\ marks' = [marks EXCEPT ![r] = JoinMarks(@, marks[n]), ![n] = {}]
        /\ size' = [size EXCEPT ![n] = 0]
        /\ types' = [types EXCEPT ![n] = {}]
        /\ links' = [links EXCEPT ![n] = {}]
        /\ UNCHANGED nodes
    BY <1>0 DEF AbsorbMarks
  <1>2. /\ n \in nodes /\ n \in Node /\ r \in Node /\ n # r
        /\ IsCollapsed(n) => IsCollapsed(r)
        /\ IsArray(n) => IsArray(r) \/ IsCollapsed(r)
    BY <1>0, AbsorbTop DEF AbsorbMarks, Running, MergeSound
  <1>3. size'[n] = 0 /\ types'[n] = {} /\ links'[n] = {} /\ marks'[n] = {}
    BY <1>1, <1>2 DEF Inv, TypeOK
  <1>4. NodeShape(n)'
    BY <1>3 DEF NodeShape, BlankAt, CollapsedHasSize, SizeWitnessed, IsCollapsed,
                TypesFitAt, OneLinkPerFieldAt, LinksInBoundsAt
  <1>5. marks[r] \in SUBSET Mark /\ marks[n] \in SUBSET Mark
    BY <1>2 DEF Inv, TypeOK
  <1>6. marks'[r] = JoinMarks(marks[r], marks[n])
    BY <1>1, <1>2 DEF Inv, TypeOK
  <1>7. /\ IsCollapsed(r)' <=> IsCollapsed(r)
        /\ IsArray(r)' <=> IsArray(r) /\ ~IsCollapsed(r)
    BY <1>2, <1>5, <1>6, JoinFlags DEF IsCollapsed, IsArray
  <1>8. size'[r] = size[r] /\ types'[r] = types[r] /\ links'[r] = links[r]
    BY <1>1, <1>2 DEF Inv, TypeOK
  <1>9. NodeShape(r)'
    <2>1. NodeShape(r)
      BY <1>2 DEF Shape
    <2>2. \A o : Numeric(r, o)' = Numeric(r, o)
      BY <1>7, <1>8 DEF Numeric
    <2>3. BlankAt(r)' /\ CollapsedHasSize(r)' /\ SizeWitnessed(r)' /\ TypesFitAt(r)'
      BY <1>1, <1>7, <1>8, <2>1
         DEF NodeShape, BlankAt, CollapsedHasSize, SizeWitnessed, TypesFitAt, Plain
    <2>4. OneLinkPerFieldAt(r)' /\ LinksInBoundsAt(r)'
      BY <1>8, <2>1, <2>2 DEF NodeShape, OneLinkPerFieldAt, LinksInBoundsAt
    <2> QED
      BY <2>3, <2>4 DEF NodeShape
  <1>10. \A x \in Node \ {n, r} : Untouched(x)
    BY <1>1 DEF Untouched, IsCollapsed, IsArray, Inv, TypeOK
  <1> QED
    BY <1>1, <1>4, <1>9, <1>10, TouchedDecide

-----------------------------------------------------------------------------
(* Cells at which a link may be set. *)

\* the types of a node that was placed in c's node will be merged next, and one of
\* them reaches beyond c
CoverComes(c) ==
    /\ stack # <<>> /\ Top.op = "absorb" /\ Top.m = Resolve(c).node
    /\ ~IsCollapsed(Top.n)
    /\ \E e \in types[Top.n] : Resolve(c).off < Top.o + (e.off + e.width)

\* c lies inside its node, or soon will
Covered(c) ==
    \/ ~Plain(Resolve(c).node)
    \/ Resolve(c).off < size[Resolve(c).node]
    \/ CoverComes(c)

LinksCovered == \A n \in Node : \A l \in links[n] : Covered(At(n, l.off))

\* calls that will set links do so inside nodes; the type of a load or store is
\* entered before its link
FrameCovered(f) ==
    /\ f.op = "links" => \A l \in f.rest : Covered(Shifted(f.via, l.off))
    /\ f.op \in {"addLink", "load"} =>
           \/ Covered(f.at)
           \/ Len(stack) = 2 /\ stack[2] = f /\ Top.op = "access" /\ Top.at = f.at

FramesCovered == \A f : On(f, stack) => FrameCovered(f)

\* a cell at which a link may be set has an offset of a link
LEMMA CoveredInBounds ==
    ASSUME Inv, Shape, NEW c \in CellIn(nodes), Covered(c),
           stack # <<>>, Top.op # "absorb"
    PROVE  /\ LinkOffset(c) \in Nat
           /\ LinkOffset(c) < size[Resolve(c).node]
           /\ Numeric(Resolve(c).node, LinkOffset(c)) = LinkOffset(c)
  <1>1. PICK r, o : r = Resolve(c).node /\ o = Resolve(c).off
    OBVIOUS
  <1>2. r \in Node /\ o \in Nat
    BY <1>1, ResolvedType DEF Inv
  <1>3. LinkOffset(c) = Numeric(r, o) /\ size[r] \in Nat
    BY <1>1, <1>2 DEF LinkOffset, Inv, TypeOK
  <1>4. CASE IsCollapsed(r)
    BY <1>1, <1>2, <1>3, <1>4 DEF Numeric, Shape, NodeShape, CollapsedHasSize
  <1>5. CASE ~IsCollapsed(r) /\ IsArray(r)
    <2>1. PICK s \in Nat \ {0} : s = size[r]
      BY <1>2, <1>5 DEF Inv, ArraysHaveSize, TypeOK
    <2>2. o % s \in 0 .. (s - 1)
      BY <1>2
    <2>3. (o % s) % s = o % s
      <3>1. PICK x \in 0 .. (s - 1) : x = o % s
        BY <2>2
      <3> QED
        BY <3>1
    <2> QED
      BY <1>1, <1>3, <1>5, <2>1, <2>2, <2>3 DEF Numeric
  <1>6. CASE Plain(r)
    BY <1>1, <1>2, <1>3, <1>6 DEF Plain, Numeric, Covered, CoverComes
  <1> QED
    BY <1>4, <1>5, <1>6 DEF Plain

\* addLink, where there is no link yet: an omni link displaces all others at its
\* offset, and any other link is the first of its type and of the omni type
LEMMA AddLinkSetsShape ==
    Inv /\ Shape /\ FramesCovered /\ AddLinkSets => Shape'
  <1> SUFFICES ASSUME Inv, Shape, FramesCovered, AddLinkSets PROVE Shape'
    OBVIOUS
  <1>0. PICK n, o, l, displaced :
            /\ n = Resolve(Top.at).node /\ o = LinkOffset(Top.at)
            /\ l = [off |-> o, ty |-> Top.ty, to |-> Top.to]
            /\ displaced = IF Top.ty = OmniType THEN {k \in links[n] : k.off = o}
                           ELSE {}
    OBVIOUS
  <1>1. /\ FoundLink(n, o, Top.ty) = {}
        /\ links' = [links EXCEPT ![n] = (@ \ displaced) \cup {l}]
        /\ UNCHANGED <<nodes, marks, size, types>>
    BY <1>0 DEF AddLinkSets
  <1>2. /\ stack # <<>> /\ Top.op = "addLink" /\ Top.at \in CellIn(nodes)
        /\ n \in nodes /\ n \in Node
    BY <1>0, AddLinkTop DEF AddLinkSets, Running
  <1>3. Covered(Top.at)
    <2>1. FrameCovered(Top)
      BY <1>2, TopFrame DEF FramesCovered, Inv
    <2> QED
      BY <1>2, <2>1 DEF FrameCovered
  <1>4. o \in Nat /\ o < size[n] /\ Numeric(n, o) = o
    BY <1>0, <1>2, <1>3, CoveredInBounds
  <1>5. links'[n] = (links[n] \ displaced) \cup {l}
    BY <1>1, <1>2 DEF Inv, TypeOK
  <1>6. NodeShape(n)'
    <2>1. NodeShape(n)
      BY <1>2 DEF Shape
    <2>2. \A p : Numeric(n, p)' = Numeric(n, p)
      BY <1>1 DEF Numeric, IsCollapsed, IsArray
    <2>3. BlankAt(n)' /\ CollapsedHasSize(n)' /\ SizeWitnessed(n)' /\ TypesFitAt(n)'
      BY <1>1, <1>2, <2>1
         DEF NodeShape, BlankAt, CollapsedHasSize, SizeWitnessed, TypesFitAt, Plain,
             IsCollapsed, IsArray
    <2>4. LinksInBoundsAt(n)'
      <3> SUFFICES ASSUME NEW k \in (links[n] \ displaced) \cup {l}
                   PROVE  k.off < size[n] /\ Numeric(n, k.off) = k.off
        BY <1>1, <1>5, <2>2 DEF LinksInBoundsAt
      <3>1. CASE k = l
        BY <1>0, <1>4, <3>1
      <3>2. CASE k \in links[n]
        BY <2>1, <3>2 DEF NodeShape, LinksInBoundsAt
      <3> QED
        BY <3>1, <3>2
    <2>5. OneLinkPerFieldAt(n)'
      <3>1. ASSUME NEW k \in links[n] \ displaced, k.off = o
            PROVE  Top.ty # OmniType /\ k.ty # Top.ty /\ k.ty # OmniType
        <4>1. Top.ty # OmniType
          BY <1>0, <3>1
        <4>2. LinkAt(n, o, Top.ty) = {} /\ LinkAt(n, o, OmniType) = {}
          BY <1>1 DEF FoundLink
        <4> QED
          BY <3>1, <4>1, <4>2 DEF LinkAt
      <3> SUFFICES ASSUME NEW k \in (links[n] \ displaced) \cup {l},
                          NEW h \in (links[n] \ displaced) \cup {l},
                          k # h, k.off = h.off
                   PROVE  k.ty # h.ty /\ OmniType \notin {k.ty, h.ty}
        BY <1>5 DEF OneLinkPerFieldAt
      <3>2. CASE k \in links[n] \ displaced /\ h \in links[n] \ displaced
        BY <2>1, <3>2 DEF NodeShape, OneLinkPerFieldAt
      <3>3. CASE k = l \/ h = l
        BY <1>0, <3>1, <3>3
      <3> QED
        BY <3>2, <3>3
    <2> QED
      BY <2>3, <2>4, <2>5 DEF NodeShape
  <1>7. \A x \in Node \ {n} : Untouched(x)
    BY <1>1 DEF Untouched, IsCollapsed, IsArray, Inv, TypeOK
  <1> QED
    BY <1>1, <1>6, <1>7, TouchedDecide

(* The visits. *)

\* visitGep, where an array of the stride's size is made: it is new and empty
LEMMA GepIntoArrayShape ==
    ASSUME Inv, Shape, NEW v, NEW p, NEW k, NEW stride \in Nat,
           GepIntoArray(v, p, k, stride)
    PROVE  Shape'
  <1>1. PICK n \in ClientNode :
          /\ MkNode(n) /\ SetMark(n, "array")
          /\ size' = [size EXCEPT ![n] = stride]
          /\ UNCHANGED <<types, links>>
    BY DEF GepIntoArray
  <1>2. n \in Node /\ n \in nodes' /\ n \notin nodes /\ nodes \subseteq nodes'
    BY <1>1, MkNodeType DEF Inv
  <1>3. /\ types'[n] = {} /\ links'[n] = {} /\ size'[n] = stride
        /\ marks'[n] = {"array"}
    BY <1>1, <1>2 DEF Shape, NodeShape, BlankAt, Inv, TypeOK, SetMark
  <1>4. NodeShape(n)'
    BY <1>2, <1>3 DEF NodeShape, BlankAt, CollapsedHasSize, SizeWitnessed, Plain,
                      IsCollapsed, IsArray, TypesFitAt, OneLinkPerFieldAt,
                      LinksInBoundsAt
  <1>5. \A x \in Node \ {n} : Untouched(x)
    BY <1>1 DEF Untouched, IsCollapsed, IsArray, Inv, TypeOK, SetMark
  <1> QED
    BY <1>2, <1>4, <1>5, TouchedDecide

\* sea_dsa_mk_seq: an array that is as large as the node it was
LEMMA VisitMakeSeqShape ==
    ASSUME Inv, Shape, NEW p \in Value, NEW sz \in SeqSize, VisitMakeSeq(p, sz)
    PROVE  Shape'
  <1>1. PICK n : n = Resolve(cell[p]).node
    OBVIOUS
  <1>2. /\ n \in nodes /\ n \in Node
        /\ ~IsArray(n) /\ size[n] <= sz
        /\ SetMark(n, "array") /\ size' = [size EXCEPT ![n] = sz]
        /\ UNCHANGED <<nodes, types, links>>
    BY <1>1, BoundType, ResolvedType DEF VisitMakeSeq, Inv
  <1>3. sz \in Nat \ {0}
    BY OffsetAssumption
  <1>4. NodeShape(n)'
    <2>1. /\ NodeShape(n) /\ size[n] \in Nat /\ size'[n] = sz
          /\ IsArray(n)' /\ (IsCollapsed(n)' <=> IsCollapsed(n))
          /\ types'[n] = types[n] /\ links'[n] = links[n]
      BY <1>2 DEF Shape, Inv, TypeOK, SetMark, IsArray, IsCollapsed
    <2>2. CollapsedHasSize(n)' /\ SizeWitnessed(n)' /\ OneLinkPerFieldAt(n)'
      BY <1>3, <2>1
         DEF CollapsedHasSize, SizeWitnessed, Plain, NodeShape, OneLinkPerFieldAt
    <2>3. TypesFitAt(n)'
      <3> SUFFICES ASSUME NEW e \in types[n] PROVE e.off + e.width <= sz
        BY <2>1 DEF TypesFitAt
      <3>1. e.off \in Nat /\ e.width \in Nat /\ e.off + e.width <= size[n]
        BY <1>2, <2>1 DEF NodeShape, TypesFitAt, Inv, TypeOK, Extent
      <3> QED
        BY <1>2, <1>3, <2>1, <3>1
    <2>4. LinksInBoundsAt(n)'
      <3> SUFFICES ASSUME NEW l \in links[n]
                   PROVE  l.off < sz /\ Numeric(n, l.off)' = l.off
        BY <2>1 DEF LinksInBoundsAt, Numeric, IsCollapsed, IsArray
      <3>1. /\ l.off \in Nat /\ l.off < size[n] /\ Numeric(n, l.off) = l.off
        BY <1>2, <2>1 DEF NodeShape, LinksInBoundsAt, Inv, TypeOK, LinkIn
      <3>2. l.off < sz /\ l.off % sz = l.off
        BY <1>2, <1>3, <2>1, <3>1
      <3> QED
        BY <2>1, <3>1, <3>2 DEF Numeric
    <2>5. BlankAt(n)'
      BY <1>2 DEF BlankAt
    <2> QED
      BY <2>2, <2>3, <2>4, <2>5 DEF NodeShape
  <1>5. \A x \in Node \ {n} : Untouched(x)
    BY <1>2 DEF Untouched, IsCollapsed, IsArray, Inv, TypeOK, SetMark
  <1> QED
    BY <1>2, <1>4, <1>5, TouchedDecide

\* what a visit touches itself, besides the graph operations it calls
LEMMA VisitTouches ==
    ASSUME Inv, Visit
    PROVE  /\ nodes \subseteq nodes' /\ UNCHANGED <<fwd, types, links>>
           /\ \/ \E v, p \in Value, k \in GepOffset, stride \in Nat :
                    GepIntoArray(v, p, k, stride)
              \/ \E p \in Value, sz \in SeqSize : VisitMakeSeq(p, sz)
              \/ /\ UNCHANGED size
                 /\ \A n \in Node : /\ IsCollapsed(n)' <=> IsCollapsed(n)
                                    /\ IsArray(n)' <=> IsArray(n)
  <1>1. CASE \E v \in Value : VisitAlloca(v)
    <2>1. PICK v \in Value, n \in ClientNode :
             /\ MkNode(n) /\ SetMark(n, "alloca")
             /\ UNCHANGED <<fwd, size, types, links>>
      BY <1>1 DEF VisitAlloca
    <2>2. n \in Node /\ n \in nodes' /\ nodes \subseteq nodes'
      BY <2>1, MkNodeType DEF Inv
    <2> QED
      BY <2>1, <2>2, SetMarkType DEF Mark, Inv
  <1>2. CASE \E v \in Value : VisitInstruction(v)
    <2>1. PICK v \in Value, n \in ClientNode :
             MkNode(n) /\ UNCHANGED <<fwd, marks, size, types, links>>
      BY <1>2 DEF VisitInstruction
    <2> QED
      BY <2>1, MkNodeType DEF Inv, IsCollapsed, IsArray
  <1>3. CASE \E v, p \in Value, k \in GepOffset, stride \in Stride \cup {0} :
                VisitGep(v, p, k, stride)
    <2>1. PICK v \in Value, p \in Value, k \in GepOffset,
               stride \in Stride \cup {0} : VisitGep(v, p, k, stride)
      BY <1>3
    <2>2. stride \in Nat
      BY OffsetAssumption
    <2>3. CASE GepIntoArray(v, p, k, stride) \/ GepBefore(v, p, k, stride)
      <3>1. PICK n \in ClientNode : MkNode(n) /\ UNCHANGED <<fwd, types, links>>
        BY <2>3 DEF GepIntoArray, GepBefore
      <3>2. nodes \subseteq nodes'
        BY <3>1, MkNodeType DEF Inv
      <3>3. GepBefore(v, p, k, stride) => UNCHANGED <<marks, size>>
        BY DEF GepBefore
      <3> QED
        BY <2>1, <2>2, <2>3, <3>1, <3>2, <3>3 DEF IsCollapsed, IsArray
    <2>4. CASE \/ GepInCollapsed(v, p, k, stride) \/ GepBack(v, p, k, stride)
               \/ GepToField(v, p, k, stride)
      BY <2>4 DEF GepInCollapsed, GepBack, GepToField, IsCollapsed, IsArray
    <2> QED
      BY <2>1, <2>3, <2>4 DEF VisitGep
  <1>4. CASE \E v, p \in Value, ty \in FieldType : VisitStore(v, p, ty)
    <2>1. \E p \in Value : /\ Bound(p) /\ SetMark(Resolve(cell[p]).node, "modified")
                           /\ UNCHANGED <<nodes, fwd, size, types, links>>
      BY <1>4 DEF VisitStore
    <2>2. PICK n : /\ SetMark(n, "modified") /\ n \in Node /\ n \in nodes
                   /\ UNCHANGED <<nodes, fwd, size, types, links>>
      BY <2>1, BoundType, ResolvedType DEF Inv
    <2> QED
      BY <2>2, SetMarkType DEF Mark, Inv
  <1>5. CASE \E p \in Value, width \in ScalarWidth,
                mark \in {"read", "modified"} :
                VisitScalarAccess(p, width, mark)
    <2>1. PICK p \in Value, mark \in {"read", "modified"} :
             /\ Bound(p) /\ SetMark(Resolve(cell[p]).node, mark)
             /\ UNCHANGED <<nodes, fwd, size, types, links>>
      BY <1>5 DEF VisitScalarAccess
    <2>2. PICK n : /\ SetMark(n, mark) /\ n \in Node /\ n \in nodes
                   /\ UNCHANGED <<nodes, fwd, size, types, links>>
      BY <2>1, BoundType, ResolvedType DEF Inv
    <2> QED
      BY <2>2, SetMarkType DEF Mark, Inv
  <1>6. CASE \/ \E v, p \in Value, ty \in FieldType : VisitLoad(v, p, ty)
             \/ \E v, p, q \in Value : VisitSelect(v, p, q)
             \/ \E v, p \in Value : VisitPHINode(v, p)
             \/ \E p \in Value : VisitCollapse(p)
    BY <1>6 DEF VisitLoad, VisitSelect, VisitPHINode, VisitCollapse, nodeVars,
                IsCollapsed, IsArray
  <1>7. CASE \E p \in Value, sz \in SeqSize : VisitMakeSeq(p, sz)
    BY <1>7 DEF VisitMakeSeq
  <1> QED
    BY <1>1, <1>2, <1>3, <1>4, <1>5, <1>6, <1>7 DEF Visit

\* what the steps of a load touch themselves
LEMMA LoadTouches ==
    ASSUME Inv, LoadFindsLink \/ LoadMakesLink
    PROVE  /\ nodes \subseteq nodes' /\ UNCHANGED <<fwd, size, types, links>>
           /\ \A n \in Node : /\ IsCollapsed(n)' <=> IsCollapsed(n)
                              /\ IsArray(n)' <=> IsArray(n)
  <1>1. PICK n : n = Resolve(Top.at).node
    OBVIOUS
  <1>2. /\ SetMark(n, "read") /\ n \in nodes /\ n \in Node
        /\ UNCHANGED <<fwd, size, types, links>>
    BY <1>1, LoadTop DEF LoadFindsLink, LoadMakesLink
  <1>3. nodes \subseteq nodes'
    BY MkNodeType DEF LoadFindsLink, LoadMakesLink, Inv
  <1> QED
    BY <1>2, <1>3, SetMarkType DEF Mark, Inv

\* the graph operations' steps that change the stack, cells or forwarding only
CallingStep ==
    \/ UnifyCells \/ UnifyAtCollapse \/ UnifyAtSwap \/ UnifyAtSelf
    \/ CollapseDone \/ AbsorbCollapses \/ MoveLink \/ AllLinksMoved
    \/ AddLinkUnifies \/ AccessCollapses \/ AccessIgnored
    \/ BindCell \/ BindLinkTarget

LEMMA CallingTouches ==
    CallingStep => UNCHANGED <<nodes, fwd, marks, size, types, links>>
  BY DEF CallingStep, UnifyCells, UnifyAtCollapse, UnifyAtSwap, UnifyAtSelf,
         CollapseDone, AbsorbCollapses, MoveLink, AllLinksMoved, AddLinkUnifies,
         AccessCollapses, AccessIgnored, BindCell, BindLinkTarget, nodeVars

\* no step spoils the shape of a node
LEMMA NextShape == Inv /\ Shape /\ FramesCovered /\ [Next]_vars => Shape'
  <1> SUFFICES ASSUME Inv, Shape, FramesCovered, [Next]_vars PROVE Shape'
    OBVIOUS
  <1>1. CASE CallingStep \/ UnifyAtMerge \/ UNCHANGED vars
    <2>1. UNCHANGED <<nodes, marks, size, types, links>>
      BY <1>1, CallingTouches DEF UnifyAtMerge, vars, graphVars
    <2> QED
      BY <2>1, NothingTouched DEF IsCollapsed, IsArray
  <1>2. CASE CollapseInPlace
    BY <1>2, CollapseInPlaceShape
  <1>3. CASE CollapseFresh
    BY <1>3, CollapseFreshShape
  <1>4. CASE AbsorbTypes
    BY <1>4, AbsorbTypesShape
  <1>5. CASE AbsorbMarks
    BY <1>5, AbsorbMarksShape
  <1>6. CASE AddLinkSets
    BY <1>6, AddLinkSetsShape
  <1>7. CASE AddAccessedType
    BY <1>7, AddAccessedTypeShape
  <1>8. CASE LoadFindsLink \/ LoadMakesLink
    BY <1>8, LoadTouches, NothingTouched
  <1>9. CASE Visit
    <2>1. CASE \E v, p \in Value, k \in GepOffset, stride \in Nat :
                  GepIntoArray(v, p, k, stride)
      BY <2>1, GepIntoArrayShape
    <2>2. CASE \E p \in Value, sz \in SeqSize : VisitMakeSeq(p, sz)
      BY <2>2, VisitMakeSeqShape
    <2>3. CASE /\ UNCHANGED size
               /\ \A n \in Node : /\ IsCollapsed(n)' <=> IsCollapsed(n)
                                  /\ IsArray(n)' <=> IsArray(n)
      BY <1>9, <2>3, VisitTouches, NothingTouched
    <2> QED
      BY <1>9, <2>1, <2>2, <2>3, VisitTouches
  <1> QED
    BY <1>1, <1>2, <1>3, <1>4, <1>5, <1>6, <1>7, <1>8, <1>9
       DEF Next, Step, GraphStep, CallingStep

(* Covered cells stay covered. *)

\* a step that grows nodes, or makes arrays or collapsed nodes of them
LEMMA InPlaceCovered ==
    ASSUME TypeOK, TypeOK', ForwardingResolved, UNCHANGED fwd,
           \A r \in Node : Root(r) = r =>
               ~Plain(r)' \/ (Plain(r) /\ size[r] <= size'[r]),
           NEW c \in CellIn(Node), Covered(c), ~CoverComes(c)
    PROVE  Covered(c)'
  <1>1. PICK r \in Node, o \in Nat :
           /\ r = Resolve(c).node /\ o = Resolve(c).off /\ Root(r) = r
    BY CellType DEF Resolve, Root
  <1>2. Resolve(c)' = Resolve(c)
    BY DEF Resolve
  <1>3. ~Plain(r) \/ o < size[r]
    BY <1>1 DEF Covered
  <1>4. ~Plain(r)' \/ o < size'[r]
    <2>1. size[r] \in Nat /\ size'[r] \in Nat
      BY DEF TypeOK
    <2> QED
      BY <1>1, <1>3, <2>1
  <1>5. Resolve(c).node' = r /\ Resolve(c).off' = o
    BY <1>1, <1>2
  <1> QED
    BY <1>4, <1>5 DEF Covered

\* pointTo sets the forwarding: what lay inside the node that is placed lies
\* inside the other one once the types are merged
LEMMA UnifyAtMergeCovered ==
    ASSUME Inv, Inv', Shape, UnifyAtMerge, NEW c \in CellIn(Node), Covered(c)
    PROVE  Covered(c)'
  <1>0. PICK n, m, o : /\ n = Root(Top.n) /\ m = Root(Top.m)
                       /\ o = Numeric(Root(Top.n), Top.o)
    OBVIOUS
  <1>1. /\ stack # <<>> /\ Continue(<<Absorb(m, n, o)>>) /\ Top.op = "unifyAt"
        /\ n # m /\ ~CannotPlace(n, m, Top.o) /\ ~MustSwap(n, m, Top.o)
        /\ fwd' = Forwarded(m, n, o)
        /\ UNCHANGED <<marks, size, types>>
    BY <1>0 DEF UnifyAtMerge, Running
  <1>2. n \in Node /\ m \in Node /\ o \in Nat /\ Root(n) = n /\ Root(m) = m
    <2>1. Top.n \in Node /\ Top.m \in Node
      BY UnifyAtTop DEF UnifyAtMerge, Inv, TypeOK
    <2> QED
      BY <1>0, <2>1, UnifyAtTop, RootOfRoot DEF UnifyAtMerge, Inv
  <1>3. PICK r \in Node, a \in Nat : r = Resolve(c).node /\ a = Resolve(c).off
    BY CellType DEF Inv, Resolve, Root
  <1>4. c.node \in Node /\ fwd[c.node].off \in Nat /\ c.off \in Nat
    BY DEF CellIn, Inv, TypeOK
  <1>5. ~Plain(r) \/ a < size[r]
    BY <1>1, <1>3 DEF Covered, CoverComes
  <1>6. \A x : Plain(x)' <=> Plain(x)
    BY <1>1 DEF Plain, IsCollapsed, IsArray
  <1>7. CASE r # m
    <2>1. fwd'[c.node] = fwd[c.node]
      BY <1>1, <1>3, <1>4, <1>7 DEF Forwarded, Resolve
    <2>2. Resolve(c).node' = r /\ Resolve(c).off' = a
      BY <1>3, <2>1 DEF Resolve
    <2> QED
      BY <1>1, <1>5, <1>6, <2>2 DEF Covered
  <1>8. CASE r = m
    <2>1. fwd'[c.node] = [node |-> n, off |-> fwd[c.node].off + o]
      BY <1>1, <1>3, <1>4, <1>8 DEF Forwarded, Resolve
    <2>2. Resolve(c).node' = n /\ Resolve(c).off' = a + o
      BY <1>2, <1>3, <1>4, <2>1 DEF Resolve
    <2>3. SUFFICES ASSUME Plain(n) PROVE CoverComes(c)'
      BY <1>6, <2>2 DEF Covered
    <2>4. Plain(m)
      BY <1>1, <2>3 DEF Plain, CannotPlace, MustSwap, ArrayIntoScalar
    <2>5. PICK e \in types[m] : a < e.off + e.width
      <3>1. a < size[m] /\ size[m] \in Nat
        BY <1>2, <1>5, <1>8, <2>4 DEF Inv, TypeOK
      <3>2. size[m] > 0
        BY <3>1
      <3> QED
        BY <1>2, <2>4, <3>1, <3>2 DEF Shape, NodeShape, SizeWitnessed
    <2>6. Top' = Absorb(m, n, o) /\ stack' # <<>>
      BY <1>1 DEF Continue, Top
    <2>7. e.off \in Nat /\ e.width \in Nat
      BY <1>2 DEF Inv, TypeOK, Extent
    <2>8. a + o < o + (e.off + e.width)
      BY <1>2, <1>3, <2>5, <2>7
    <2>9. ~IsCollapsed(m)' /\ e \in types'[m]
      BY <1>1, <2>4, <2>5 DEF Plain, IsCollapsed
    <2> QED
      BY <2>2, <2>6, <2>8, <2>9 DEF CoverComes, Absorb
  <1> QED
    BY <1>7, <1>8

\* joinAccessedTypes, where everything fits: the node grows as was foreseen
LEMMA AbsorbTypesCovered ==
    ASSUME Inv, Inv', AbsorbTypes, NEW c \in CellIn(Node), Covered(c)
    PROVE  Covered(c)'
  <1>0. PICK n, m, o, es : /\ n = Top.n /\ m = Top.m /\ o = Top.o
                           /\ es = JoinedTypes(Top.n, Top.m, Top.o)
    OBVIOUS
  <1>1. UNCHANGED <<fwd, marks>>
    BY DEF AbsorbTypes
  <1>2. PICK z \in Ends(m, es) :
           GrowsTo(m, es, z) /\ size' = [size EXCEPT ![m] = z]
    BY <1>0 DEF AbsorbTypes
  <1>3. m \in Node /\ n \in Node /\ o \in Nat
    BY <1>0, AbsorbTop DEF AbsorbTypes, Running
  <1>4. es \in SUBSET Extent
    BY <1>0, <1>3, JoinedAreExtents DEF Inv
  <1>5. z \in Nat /\ size[m] <= z /\ size'[m] = z
    BY <1>2, <1>3, <1>4, EndsAreSizes DEF Inv, TypeOK
  <1>6. \A x : Plain(x)' <=> Plain(x)
    BY <1>1 DEF Plain, IsCollapsed, IsArray
  <1>7. \A r \in Node : size[r] <= size'[r]
    BY <1>2, <1>5 DEF Inv, TypeOK
  <1>8. CASE ~CoverComes(c)
    BY <1>1, <1>6, <1>7, <1>8, InPlaceCovered DEF Inv
  <1>9. CASE CoverComes(c) /\ Plain(m)
    <2>1. PICK e \in types[n] : Resolve(c).off < o + (e.off + e.width)
      BY <1>0, <1>9 DEF CoverComes
    <2>2. e.off \in Nat /\ e.width \in Nat
      BY <1>3 DEF Inv, TypeOK, Extent
    <2>3. Placed(m, e, o) \in es
      BY <1>0, <1>9 DEF JoinedTypes, CoverComes, Plain
    <2>4. Placed(m, e, o).off = e.off + o /\ Placed(m, e, o).width = e.width
      BY <1>9 DEF Placed, Numeric, Plain
    <2>5. (e.off + o) + e.width <= z
      BY <1>2, <1>9, <2>3, <2>4 DEF GrowsTo, Ends, Plain
    <2>6. Resolve(c).off \in Nat
      BY CellType DEF Inv, Resolve
    <2>7. Resolve(c).off < size'[m]
      BY <1>3, <1>5, <2>1, <2>2, <2>5, <2>6
    <2>8. Resolve(c).node = m /\ Resolve(c)' = Resolve(c)
      BY <1>0, <1>1, <1>9 DEF CoverComes, Resolve
    <2> QED
      BY <2>7, <2>8 DEF Covered
  <1>10. CASE CoverComes(c) /\ ~Plain(m)
    <2>1. Resolve(c).node = m /\ Resolve(c)' = Resolve(c)
      BY <1>0, <1>1, <1>10 DEF CoverComes, Resolve
    <2> QED
      BY <1>6, <1>10, <2>1 DEF Covered
  <1> QED
    BY <1>8, <1>9, <1>10

\* a visit begins when nothing is pending
LEMMA VisitIdle == Visit => Idle
  <1>1. ASSUME NEW v, NEW p, NEW k, NEW stride, VisitGep(v, p, k, stride)
        PROVE  Idle
    BY <1>1 DEF VisitGep, GepInCollapsed, GepBack, GepBefore, GepIntoArray,
                GepToField, IsGep, Defines
  <1>2. ASSUME NEW v, VisitAlloca(v) \/ VisitInstruction(v)
        PROVE  Idle
    BY <1>2 DEF VisitAlloca, VisitInstruction, Defines
  <1>3. ASSUME NEW v, NEW p, NEW ty, VisitLoad(v, p, ty) \/ VisitStore(v, p, ty)
        PROVE  Idle
    BY <1>3 DEF VisitLoad, VisitStore, Defines
  <1>4. ASSUME NEW p, NEW x, NEW y,
               \/ VisitScalarAccess(p, x, y) \/ VisitSelect(p, x, y)
               \/ VisitPHINode(p, x) \/ VisitCollapse(p) \/ VisitMakeSeq(p, x)
        PROVE  Idle
    BY <1>4 DEF VisitScalarAccess, VisitSelect, VisitPHINode, VisitCollapse,
                VisitMakeSeq, Defines
  <1> QED
    BY <1>1, <1>2, <1>3, <1>4 DEF Visit

\* a step that leaves sizes and the flags that matter alone
LEMMA NothingUncovered ==
    ASSUME Inv, Inv', UNCHANGED <<fwd, size>>,
           \A n \in Node : /\ IsCollapsed(n)' <=> IsCollapsed(n)
                           /\ IsArray(n)' <=> IsArray(n),
           NEW c \in CellIn(Node), Covered(c), ~CoverComes(c)
    PROVE  Covered(c)'
  <1>1. \A r \in Node : ~Plain(r)' \/ (Plain(r) /\ size[r] <= size'[r])
    <2>1. \A r \in Node : size[r] \in Nat
      BY DEF Inv, TypeOK
    <2>2. \A r \in Node : ~Plain(r)' \/ Plain(r)
      BY DEF Plain
    <2>3. \A r \in Node : size[r] <= size'[r]
      BY <2>1
    <2> QED
      BY <2>2, <2>3
  <1> QED
    BY <1>1, InPlaceCovered DEF Inv

\* a step that makes an array or a collapsed node of one node
LEMMA OneRoundedCovered ==
    ASSUME Inv, Inv', UNCHANGED fwd, NEW n \in Node, ~Plain(n)',
           \A r \in Node \ {n} : marks'[r] = marks[r] /\ size'[r] = size[r],
           NEW c \in CellIn(Node), Covered(c), ~CoverComes(c)
    PROVE  Covered(c)'
  <1>1. \A r \in Node : ~Plain(r)' \/ (Plain(r) /\ size[r] <= size'[r])
    <2>1. \A r \in Node \ {n} : ~Plain(r)' \/ Plain(r)
      BY DEF Plain, IsCollapsed, IsArray
    <2>2. \A r \in Node \ {n} : size[r] <= size'[r]
      BY DEF Inv, TypeOK
    <2> QED
      BY <2>1, <2>2
  <1> QED
    BY <1>1, InPlaceCovered DEF Inv

\* joinAccessedTypes, where an array overflows: arrays cover all cells
LEMMA AbsorbCollapsesCovered ==
    ASSUME Inv, Inv', AbsorbCollapses, NEW c \in CellIn(Node), Covered(c)
    PROVE  Covered(c)'
  <1>1. UNCHANGED <<fwd, marks, size>>
    BY DEF AbsorbCollapses, nodeVars
  <1>2. ~Plain(Top.m)
    BY DEF AbsorbCollapses, Overflows, Plain
  <1>3. CASE CoverComes(c)
    <2>1. Resolve(c).node = Top.m /\ Resolve(c)' = Resolve(c)
      BY <1>1, <1>3 DEF CoverComes, Resolve
    <2>2. ~Plain(Resolve(c).node)'
      BY <1>1, <1>2, <2>1 DEF Plain, IsCollapsed, IsArray, Resolve
    <2> QED
      BY <2>2 DEF Covered
  <1>4. CASE ~CoverComes(c)
    BY <1>1, <1>4, NothingUncovered DEF IsCollapsed, IsArray
  <1> QED
    BY <1>3, <1>4

\* collapseOffsets with a new node
LEMMA CollapseFreshCovered ==
    ASSUME Inv, Inv', CollapseFresh, NEW c \in CellIn(Node), Covered(c)
    PROVE  Covered(c)'
  <1>0. PICK n, d : n = Root(Top.n) /\ d = CollapsedTwin(Root(Top.n))
    OBVIOUS
  <1>1. /\ n \in ClientNode /\ d \notin nodes
        /\ fwd' = Forwarded(n, d, 0)
        /\ marks' = [marks EXCEPT ![d] =
                        (JoinMarks({}, marks[n]) \cup {"offset_collapsed"})
                        \ {"array"}]
        /\ size' = [size EXCEPT ![d] = 1]
        /\ stack # <<>> /\ Top.op = "collapse"
    BY <1>0 DEF CollapseFresh, Running
  <1>2. d \in Node /\ ~CoverComes(c)
    BY <1>0, <1>1, MaxNodesAssumption
       DEF ClientNode, Node, CollapsedTwin, CoverComes
  <1>3. ~Plain(d)'
    BY <1>1, <1>2 DEF Plain, IsCollapsed, Inv, TypeOK
  <1>4. \A r \in Node \ {d} : marks'[r] = marks[r] /\ size'[r] = size[r]
    BY <1>1 DEF Inv, TypeOK
  <1>5. PICK r \in Node, a \in Nat : r = Resolve(c).node /\ a = Resolve(c).off
    BY CellType DEF Inv, Resolve, Root
  <1>6. c.node \in Node /\ fwd[c.node].node = r
    BY <1>5 DEF CellIn, Resolve
  <1>7. CASE r = n
    <2>1. fwd'[c.node].node = d
      BY <1>1, <1>6, <1>7 DEF Forwarded
    <2>2. Resolve(c).node' = d
      BY <2>1 DEF Resolve
    <2> QED
      BY <1>3, <2>2 DEF Covered
  <1>8. CASE r # n
    <2>1. fwd'[c.node] = fwd[c.node]
      BY <1>1, <1>6, <1>8 DEF Forwarded
    <2>2. Resolve(c).node' = r /\ Resolve(c).off' = a
      BY <1>5, <2>1 DEF Resolve
    <2>3. CASE r = d
      BY <1>3, <2>2, <2>3 DEF Covered
    <2>4. CASE r # d
      <3>1. marks'[r] = marks[r] /\ size'[r] = size[r]
        BY <1>4, <2>4
      <3>2. ~Plain(r) \/ a < size[r]
        BY <1>2, <1>5 DEF Covered
      <3>3. ~Plain(r)' \/ a < size'[r]
        BY <3>1, <3>2 DEF Plain, IsCollapsed, IsArray
      <3> QED
        BY <2>2, <3>3 DEF Covered
    <2> QED
      BY <2>3, <2>4
  <1> QED
    BY <1>7, <1>8

\* pointTo joins the marks: the destination was what it becomes already
LEMMA AbsorbMarksCovered ==
    ASSUME Inv, Inv', AbsorbMarks, NEW c \in CellIn(Node), Covered(c)
    PROVE  Covered(c)'
  <1>0. PICK n, r : n = Top.n /\ r = Root(Top.m)
    OBVIOUS
  <1>1. /\ marks' = [marks EXCEPT ![r] = JoinMarks(@, marks[n]), ![n] = {}]
        /\ size' = [size EXCEPT ![n] = 0]
        /\ UNCHANGED fwd
        /\ stack # <<>> /\ Top.op = "annotate"
    BY <1>0 DEF AbsorbMarks, Running
  <1>2. /\ n \in Node /\ r \in Node /\ n # r /\ Root(n) # n
        /\ IsCollapsed(n) => IsCollapsed(r)
        /\ IsArray(n) => IsArray(r) \/ IsCollapsed(r)
    BY <1>0, <1>1, AbsorbTop DEF MergeSound, IsForwarding
  <1>3. marks[r] \in SUBSET Mark /\ marks[n] \in SUBSET Mark
    BY <1>2 DEF Inv, TypeOK
  <1>4. marks'[r] = JoinMarks(marks[r], marks[n]) /\ size'[r] = size[r]
    BY <1>1, <1>2 DEF Inv, TypeOK
  <1>5. Plain(r)' <=> Plain(r)
    BY <1>2, <1>3, <1>4, JoinFlags DEF Plain, IsCollapsed, IsArray
  <1>6. \A k \in Node \ {n, r} : marks'[k] = marks[k] /\ size'[k] = size[k]
    BY <1>1 DEF Inv, TypeOK
  <1>7. \A k \in Node : Root(k) = k =>
            ~Plain(k)' \/ (Plain(k) /\ size[k] <= size'[k])
    <2>1. \A k \in Node : size[k] \in Nat /\ size'[k] \in Nat
      BY DEF Inv, TypeOK
    <2> QED
      BY <1>2, <1>4, <1>5, <1>6, <2>1 DEF Plain, IsCollapsed, IsArray
  <1>8. ~CoverComes(c)
    BY <1>1 DEF CoverComes
  <1> QED
    BY <1>1, <1>7, <1>8, InPlaceCovered DEF Inv

\* addAccessedType, where the type fits
LEMMA AddAccessedTypeCovered ==
    ASSUME Inv, Inv', AddAccessedType, NEW c \in CellIn(Node), Covered(c)
    PROVE  Covered(c)'
  <1>0. PICK n, e : /\ n = Resolve(Top.at).node
                    /\ e = AccessedExtent(Top.at, Top.width)
    OBVIOUS
  <1>1. UNCHANGED <<fwd, marks>> /\ ~CoverComes(c)
    BY DEF AddAccessedType, Running, CoverComes
  <1>2. PICK z \in Ends(n, {e}) :
           GrowsTo(n, {e}, z) /\ size' = [size EXCEPT ![n] = z]
    BY <1>0 DEF AddAccessedType
  <1>3. n \in Node /\ {e} \in SUBSET Extent
    BY <1>0, AccessTop DEF AddAccessedType
  <1>4. z \in Nat /\ size[n] <= z
    BY <1>2, <1>3, EndsAreSizes DEF Inv
  <1>5. \A r \in Node : size[r] <= size'[r]
    BY <1>2, <1>4 DEF Inv, TypeOK
  <1>6. \A r \in Node : ~Plain(r)' \/ (Plain(r) /\ size[r] <= size'[r])
    BY <1>1, <1>5 DEF Plain, IsCollapsed, IsArray
  <1> QED
    BY <1>1, <1>6, InPlaceCovered DEF Inv

\* no step takes a covered cell out of its node
LEMMA NextCovered ==
    ASSUME Inv, Inv', Shape, [Next]_vars, NEW c \in CellIn(Node), Covered(c)
    PROVE  Covered(c)'
  <1>1. CASE UNCHANGED vars
    <2>1. UNCHANGED <<fwd, marks, size, types, stack>>
      BY <1>1 DEF vars, graphVars
    <2> QED
      BY <2>1 DEF Covered, CoverComes, Plain, Resolve, IsCollapsed, IsArray, Top
  <1>2. CASE CallingStep /\ ~AbsorbCollapses
    <2>1. stack # <<>> /\ Top.op # "absorb"
      BY <1>2 DEF CallingStep, UnifyCells, UnifyAtCollapse, UnifyAtSwap,
                  UnifyAtSelf, CollapseDone, MoveLink, AllLinksMoved,
                  AddLinkUnifies, AccessCollapses, AccessIgnored, BindCell,
                  BindLinkTarget, Running
    <2>2. ~CoverComes(c)
      BY <2>1 DEF CoverComes
    <2>3. UNCHANGED <<fwd, marks, size>>
      BY <1>2, CallingTouches
    <2> QED
      BY <2>2, <2>3, NothingUncovered DEF IsCollapsed, IsArray
  <1>3. CASE AbsorbCollapses
    BY <1>3, AbsorbCollapsesCovered
  <1>4. CASE UnifyAtMerge
    BY <1>4, UnifyAtMergeCovered
  <1>5. CASE CollapseInPlace
    <2>1. PICK n : n = Root(Top.n)
      OBVIOUS
    <2>2. /\ size' = [size EXCEPT ![n] = 1]
          /\ marks' = [marks EXCEPT ![n] =
                           (@ \cup {"offset_collapsed"}) \ {"array"}]
          /\ UNCHANGED fwd
      BY <1>5, <2>1 DEF CollapseInPlace
    <2>3. n \in Node
      BY <1>5, <2>1, CollapseTop DEF CollapseInPlace
    <2>4. ~Plain(n)' /\ ~CoverComes(c)
      BY <1>5, <2>2, <2>3
         DEF Plain, IsCollapsed, Inv, TypeOK, CollapseInPlace, Running, CoverComes
    <2>5. \A r \in Node \ {n} : marks'[r] = marks[r] /\ size'[r] = size[r]
      BY <2>2 DEF Inv, TypeOK
    <2> QED
      BY <2>2, <2>3, <2>4, <2>5, OneRoundedCovered
  <1>6. CASE CollapseFresh
    BY <1>6, CollapseFreshCovered
  <1>7. CASE AbsorbTypes
    BY <1>7, AbsorbTypesCovered
  <1>8. CASE AbsorbMarks
    BY <1>8, AbsorbMarksCovered
  <1>9. CASE AddLinkSets
    <2>1. UNCHANGED <<fwd, marks, size>> /\ ~CoverComes(c)
      BY <1>9 DEF AddLinkSets, Running, CoverComes
    <2> QED
      BY <2>1, NothingUncovered DEF IsCollapsed, IsArray
  <1>10. CASE AddAccessedType
    BY <1>10, AddAccessedTypeCovered
  <1>11. CASE LoadFindsLink \/ LoadMakesLink
    <2>1. ~CoverComes(c)
      BY <1>11 DEF LoadFindsLink, LoadMakesLink, Running, CoverComes
    <2> QED
      BY <1>11, <2>1, LoadTouches, NothingUncovered
  <1>12. CASE Visit
    <2>1. ~CoverComes(c)
      BY <1>12, VisitIdle DEF Idle, CoverComes
    <2>2. CASE \E v, p \in Value, k \in GepOffset, stride \in Nat :
                  GepIntoArray(v, p, k, stride)
      <3>1. PICK n \in ClientNode, stride \in Nat :
              /\ MkNode(n) /\ SetMark(n, "array")
              /\ size' = [size EXCEPT ![n] = stride]
              /\ UNCHANGED fwd
        BY <2>2 DEF GepIntoArray
      <3>2. n \in Node
        BY <3>1, MkNodeType DEF Inv
      <3>3. ~Plain(n)'
        BY <3>1, <3>2 DEF Plain, IsArray, SetMark, Inv, TypeOK
      <3>4. \A r \in Node \ {n} : marks'[r] = marks[r] /\ size'[r] = size[r]
        BY <3>1 DEF SetMark, Inv, TypeOK
      <3> QED
        BY <2>1, <3>1, <3>2, <3>3, <3>4, OneRoundedCovered
    <2>3. CASE \E p \in Value, sz \in SeqSize : VisitMakeSeq(p, sz)
      <3>1. PICK p \in Value, sz \in SeqSize : VisitMakeSeq(p, sz)
        BY <2>3
      <3>2. PICK n : n = Resolve(cell[p]).node
        OBVIOUS
      <3>3. /\ n \in Node /\ SetMark(n, "array")
            /\ size' = [size EXCEPT ![n] = sz] /\ UNCHANGED fwd
        BY <3>1, <3>2, BoundType, ResolvedType DEF VisitMakeSeq, Inv
      <3>4. ~Plain(n)'
        BY <3>3 DEF Plain, IsArray, SetMark, Inv, TypeOK
      <3>5. \A r \in Node \ {n} : marks'[r] = marks[r] /\ size'[r] = size[r]
        BY <3>3 DEF SetMark, Inv, TypeOK
      <3> QED
        BY <2>1, <3>3, <3>4, <3>5, OneRoundedCovered
    <2>4. CASE /\ UNCHANGED size
               /\ \A n \in Node : /\ IsCollapsed(n)' <=> IsCollapsed(n)
                                  /\ IsArray(n)' <=> IsArray(n)
      BY <1>12, <2>1, <2>4, VisitTouches, NothingUncovered
    <2> QED
      BY <1>12, <2>2, <2>3, <2>4, VisitTouches
  <1> QED
    BY <1>1, <1>2, <1>3, <1>4, <1>5, <1>6, <1>7, <1>8, <1>9, <1>10, <1>11, <1>12
       DEF Next, Step, GraphStep, CallingStep

-----------------------------------------------------------------------------
(* The stack, frame by frame.                                               *)

\* the frames of a concatenation
LEMMA Stacked ==
    ASSUME NEW F, NEW s \in Seq(F), s # <<>>, NEW fs \in Seq(F), NEW t,
           t = fs \o Tail(s)
    PROVE  /\ t \in Seq(F)
           /\ Len(t) \in Nat /\ Len(s) \in Nat /\ Len(fs) \in Nat
           /\ Len(t) = Len(fs) + Len(s) - 1
           /\ \A j \in 1 .. Len(fs) : t[j] = fs[j]
           /\ \A j \in 2 .. Len(s) : t[j + Len(fs) - 1] = s[j]
  <1>1. Tail(s) \in Seq(F) /\ Len(Tail(s)) = Len(s) - 1
    OBVIOUS
  <1>2. t \in Seq(F) /\ Len(t) = Len(fs) + Len(s) - 1
    BY <1>1
  <1>3. ASSUME NEW j \in 1 .. Len(fs) PROVE t[j] = fs[j]
    BY <1>1
  <1>4. ASSUME NEW j \in 2 .. Len(s) PROVE t[j + Len(fs) - 1] = s[j]
    <2>1. j - 1 \in 1 .. Len(Tail(s))
      BY <1>1
    <2>2. (fs \o Tail(s))[Len(fs) + (j - 1)] = Tail(s)[j - 1]
      BY <1>1, <2>1
    <2>3. Tail(s)[j - 1] = s[j]
      BY <2>1
    <2>4. Len(fs) + (j - 1) = j + Len(fs) - 1
      OBVIOUS
    <2> QED
      BY <2>2, <2>3, <2>4
  <1> QED
    BY <1>2, <1>3, <1>4

\* the frame on top returns
LEMMA Returned ==
    ASSUME TypeOK, stack # <<>>, Return
    PROVE  /\ Len(stack') \in Nat /\ Len(stack) \in Nat
           /\ Len(stack') = Len(stack) - 1
           /\ \A j \in 1 .. Len(stack') :
                 j + 1 \in 2 .. Len(stack) /\ stack'[j] = stack[j + 1]
           /\ \A f : On(f, stack') => On(f, stack)
           /\ \A f : On(f, stack) => f = Top \/ On(f, stack')
  <1>1. /\ stack \in Seq(FrameIn(nodes)) /\ <<>> \in Seq(FrameIn(nodes))
        /\ stack' = <<>> \o Tail(stack) /\ Len(<<>>) = 0
    BY DEF TypeOK, Return, Continue
  <1>2. /\ Len(stack') \in Nat /\ Len(stack) \in Nat
        /\ Len(stack') = Len(stack) - 1
        /\ \A j \in 2 .. Len(stack) : stack'[j + 0 - 1] = stack[j]
    BY <1>1, Stacked
  <1>3. \A j \in 1 .. Len(stack') :
            j + 1 \in 2 .. Len(stack) /\ stack'[j] = stack[j + 1]
    BY <1>2
  <1>4. ASSUME NEW f, On(f, stack') PROVE On(f, stack)
    BY <1>2, <1>3, <1>4 DEF On
  <1>5. ASSUME NEW f, On(f, stack) PROVE f = Top \/ On(f, stack')
    <2>1. PICK j \in 1 .. Len(stack) : stack[j] = f
      BY <1>5 DEF On
    <2>2. CASE j = 1
      BY <1>1, <2>1, <2>2 DEF Top
    <2>3. CASE j # 1
      <3>1. j - 1 \in 1 .. Len(stack') /\ j + 0 - 1 = j - 1 /\ j \in 2 .. Len(stack)
        BY <1>2, <2>1, <2>3
      <3> QED
        BY <1>2, <2>1, <3>1 DEF On
    <2> QED
      BY <2>2, <2>3
  <1> QED
    BY <1>2, <1>3, <1>4, <1>5

\* the frame on top makes one call
LEMMA CalledOne ==
    ASSUME TypeOK, stack # <<>>, NEW x, Continue(<<x>>)
    PROVE  /\ Len(stack') \in Nat /\ Len(stack) \in Nat /\ Len(stack) >= 1
           /\ Len(stack') = Len(stack)
           /\ stack'[1] = x /\ Top' = x /\ stack' # <<>>
           /\ \A j \in 2 .. Len(stack) : stack'[j] = stack[j]
           /\ On(x, stack')
           /\ \A f : On(f, stack') => f = x \/ On(f, stack)
           /\ \A f : On(f, stack) => f = Top \/ On(f, stack')
  <1>0. PICK F : F = FrameIn(nodes) \cup {x}
    OBVIOUS
  <1>1. /\ stack \in Seq(F) /\ <<x>> \in Seq(F)
        /\ stack' = <<x>> \o Tail(stack) /\ Len(<<x>>) = 1 /\ <<x>>[1] = x
    BY <1>0 DEF TypeOK, Continue
  <1>2. /\ stack' \in Seq(F) /\ Len(stack') \in Nat /\ Len(stack) \in Nat
        /\ Len(stack') = 1 + Len(stack) - 1
        /\ \A j \in 1 .. 1 : stack'[j] = <<x>>[j]
        /\ \A j \in 2 .. Len(stack) : stack'[j + 1 - 1] = stack[j]
    BY <1>1, Stacked
  <1>3. Len(stack) >= 1
    BY <1>1, <1>2
  <1>4. /\ Len(stack') = Len(stack) /\ stack'[1] = x
        /\ \A j \in 2 .. Len(stack) : stack'[j] = stack[j]
    BY <1>1, <1>2
  <1>5. Top' = x /\ stack' # <<>>
    BY <1>2, <1>3, <1>4 DEF Top
  <1>6. On(x, stack')
    BY <1>2, <1>3, <1>4 DEF On
  <1>7. ASSUME NEW f, On(f, stack') PROVE f = x \/ On(f, stack)
    BY <1>2, <1>4, <1>7 DEF On
  <1>8. ASSUME NEW f, On(f, stack) PROVE f = Top \/ On(f, stack')
    <2>1. PICK j \in 1 .. Len(stack) : stack[j] = f
      BY <1>8 DEF On
    <2>2. CASE j = 1
      BY <1>1, <2>1, <2>2 DEF Top
    <2>3. CASE j # 1
      BY <1>2, <1>4, <2>1, <2>3 DEF On
    <2> QED
      BY <2>2, <2>3
  <1> QED
    BY <1>2, <1>3, <1>4, <1>5, <1>6, <1>7, <1>8

\* the frame on top makes two calls
LEMMA CalledTwo ==
    ASSUME TypeOK, stack # <<>>, NEW x, NEW y, Continue(<<x, y>>)
    PROVE  /\ Len(stack') \in Nat /\ Len(stack) \in Nat /\ Len(stack) >= 1
           /\ Len(stack') = Len(stack) + 1
           /\ stack'[1] = x /\ Top' = x /\ stack' # <<>> /\ stack'[2] = y
           /\ \A j \in 2 .. Len(stack) : stack'[j + 1] = stack[j]
           /\ On(x, stack') /\ On(y, stack')
           /\ \A f : On(f, stack') => f = x \/ f = y \/ On(f, stack)
           /\ \A f : On(f, stack) => f = Top \/ On(f, stack')
  <1>0. PICK F : F = FrameIn(nodes) \cup {x, y}
    OBVIOUS
  <1>1. /\ stack \in Seq(F) /\ <<x, y>> \in Seq(F)
        /\ stack' = <<x, y>> \o Tail(stack) /\ Len(<<x, y>>) = 2
        /\ <<x, y>>[1] = x /\ <<x, y>>[2] = y
    BY <1>0 DEF TypeOK, Continue
  <1>2. /\ stack' \in Seq(F) /\ Len(stack') \in Nat /\ Len(stack) \in Nat
        /\ Len(stack') = 2 + Len(stack) - 1
        /\ \A j \in 1 .. 2 : stack'[j] = <<x, y>>[j]
        /\ \A j \in 2 .. Len(stack) : stack'[j + 2 - 1] = stack[j]
    BY <1>1, Stacked
  <1>3. Len(stack) >= 1
    BY <1>1, <1>2
  <1>4. /\ Len(stack') = Len(stack) + 1 /\ stack'[1] = x /\ stack'[2] = y
        /\ \A j \in 2 .. Len(stack) : stack'[j + 1] = stack[j]
    BY <1>1, <1>2
  <1>5. Top' = x /\ stack' # <<>>
    BY <1>2, <1>3, <1>4 DEF Top
  <1>6. On(x, stack') /\ On(y, stack')
    BY <1>2, <1>3, <1>4 DEF On
  <1>7. ASSUME NEW f, On(f, stack') PROVE f = x \/ f = y \/ On(f, stack)
    <2>1. PICK j \in 1 .. Len(stack') : stack'[j] = f
      BY <1>7 DEF On
    <2>2. CASE j \in {1, 2}
      BY <1>4, <2>1, <2>2
    <2>3. CASE j \notin {1, 2}
      <3>1. j - 1 \in 2 .. Len(stack) /\ (j - 1) + 1 = j
        BY <1>2, <1>4, <2>1, <2>3
      <3>2. stack[j - 1] = f
        BY <1>4, <2>1, <3>1
      <3> QED
        BY <1>2, <3>1, <3>2 DEF On
    <2> QED
      BY <2>2, <2>3
  <1>8. ASSUME NEW f, On(f, stack) PROVE f = Top \/ On(f, stack')
    <2>1. PICK j \in 1 .. Len(stack) : stack[j] = f
      BY <1>8 DEF On
    <2>2. CASE j = 1
      BY <1>1, <2>1, <2>2 DEF Top
    <2>3. CASE j # 1
      <3>1. j \in 2 .. Len(stack) /\ j + 1 \in 1 .. Len(stack')
        BY <1>2, <1>4, <2>1, <2>3
      <3>2. stack'[j + 1] = f
        BY <1>4, <2>1, <3>1
      <3> QED
        BY <3>1, <3>2 DEF On
    <2> QED
      BY <2>2, <2>3
  <1> QED
    BY <1>2, <1>3, <1>4, <1>5, <1>6, <1>7, <1>8

(* Pending calls set links inside nodes. *)

LinkOp == {"links", "addLink", "load"}

MergeOp == {"unify", "unifyAt", "collapse", "absorb", "annotate"}

\* a step of the frame on top that makes only calls of the kinds ops
Calls(ops) ==
    /\ stack # <<>>
    /\ \/ Return
       \/ \E x : Continue(<<x>>) /\ x.op \in ops
       \/ \E x, y : Continue(<<x, y>>) /\ x.op \in ops /\ y.op \in ops

\* a pending call is over nodes of the graph
LEMMA OnType ==
    ASSUME TypeOK, NEW f, On(f, stack)
    PROVE  f \in FrameIn(nodes) /\ stack # <<>>
  BY DEF TypeOK, On

\* the cells that the links of a call are moved to
LEMMA ShiftedType ==
    ASSUME NEW S, NEW c \in CellIn(S), NEW k \in Nat
    PROVE  /\ Shifted(c, k) \in CellIn(S)
           /\ Shifted(c, k).node = c.node /\ Shifted(c, k).off = c.off + k
           /\ Shifted(c, k) = [node |-> c.node, off |-> c.off + k]
  BY DEF Shifted, CellIn

\* calls that were pending stay covered
LEMMA OldFrameCovered ==
    ASSUME Inv, FramesCovered, \A a : (Top.op = "access" /\ a = Top.at) => Covered(a)',
           \A c \in CellIn(Node) : Covered(c) => Covered(c)',
           NEW f, On(f, stack)
    PROVE  FrameCovered(f)'
  <1>1. f \in FrameIn(nodes) /\ stack # <<>> /\ nodes \subseteq Node
    BY OnType DEF Inv, TypeOK
  <1>2. FrameCovered(f)
    BY DEF FramesCovered
  <1>3. CellIn(nodes) \subseteq CellIn(Node)
    BY <1>1, FramesGrow
  <1>4. ASSUME f.op = "links", NEW l \in f.rest
        PROVE  Covered(Shifted(f.via, l.off))'
    <2>1. f.via \in CellIn(nodes) /\ l.off \in Nat
      BY <1>1, <1>4, FramesRead DEF LinkIn
    <2>2. Shifted(f.via, l.off) \in CellIn(Node)
      BY <1>3, <2>1, ShiftedType
    <2>3. Covered(Shifted(f.via, l.off))
      BY <1>2, <1>4 DEF FrameCovered
    <2>4. PICK c \in CellIn(Node) : c = Shifted(f.via, l.off)
      BY <2>2
    <2>5. Covered(c)'
      BY <2>3, <2>4
    <2> QED
      BY <2>4, <2>5
  <1>5. ASSUME f.op \in {"addLink", "load"}
        PROVE  Covered(f.at)'
    <2>1. f.at \in CellIn(Node)
      BY <1>1, <1>3, <1>5, FramesRead
    <2>2. CASE Covered(f.at)
      <3>1. PICK c \in CellIn(Node) : c = f.at
        BY <2>1
      <3>2. Covered(c)'
        BY <2>2, <3>1
      <3> QED
        BY <3>1, <3>2
    <2>3. CASE ~Covered(f.at)
      <3>1. PICK a : a = f.at
        OBVIOUS
      <3>2. Top.op = "access" /\ a = Top.at
        BY <1>2, <1>5, <2>3, <3>1 DEF FrameCovered
      <3> QED
        BY <3>1, <3>2
    <2> QED
      BY <2>2, <2>3
  <1> QED
    BY <1>4, <1>5 DEF FrameCovered

\* a call that has nothing to do with links is covered
LEMMA NoLinkCovered ==
    ASSUME NEW f, f.op \notin LinkOp
    PROVE  FrameCovered(f)'
  BY DEF LinkOp, FrameCovered

\* a step that makes no call to do with links
LEMMA CallsNoLinkCovered ==
    ASSUME Inv, FramesCovered, \A a : (Top.op = "access" /\ a = Top.at) => Covered(a)',
           \A c \in CellIn(Node) : Covered(c) => Covered(c)',
           NEW ops, ops \cap LinkOp = {}, Calls(ops)
    PROVE  FramesCovered'
  <1> SUFFICES ASSUME NEW f, On(f, stack') PROVE FrameCovered(f)'
    BY DEF FramesCovered
  <1>0. \A x : x.op \in ops => FrameCovered(x)'
    BY NoLinkCovered
  <1>1. CASE On(f, stack)
    BY <1>1, OldFrameCovered
  <1>2. CASE Return
    BY <1>1, <1>2, Returned DEF Calls, Inv
  <1>3. CASE \E x : Continue(<<x>>) /\ x.op \in ops
    <2>1. PICK x : Continue(<<x>>) /\ x.op \in ops
      BY <1>3
    <2>2. f = x \/ On(f, stack)
      BY <2>1, CalledOne DEF Calls, Inv
    <2> QED
      BY <1>0, <1>1, <2>1, <2>2
  <1>4. CASE \E x, y : Continue(<<x, y>>) /\ x.op \in ops /\ y.op \in ops
    <2>1. PICK x, y : Continue(<<x, y>>) /\ x.op \in ops /\ y.op \in ops
      BY <1>4
    <2>2. f = x \/ f = y \/ On(f, stack)
      BY <2>1, CalledTwo DEF Calls, Inv
    <2> QED
      BY <1>0, <1>1, <2>1, <2>2
  <1> QED
    BY <1>2, <1>3, <1>4 DEF Calls

LEMMA CallsMore ==
    ASSUME NEW a, NEW b, a \subseteq b, Calls(a)
    PROVE  Calls(b)
  <1>1. CASE Return
    BY <1>1 DEF Calls
  <1>2. CASE \E x : Continue(<<x>>) /\ x.op \in a
    BY <1>2 DEF Calls
  <1>3. CASE \E x, y : Continue(<<x, y>>) /\ x.op \in a /\ y.op \in a
    BY <1>3 DEF Calls
  <1> QED
    BY <1>1, <1>2, <1>3 DEF Calls

\* most steps only go on merging, and place no node in another
LEMMA UnplacedSteps ==
    ASSUME \/ UnifyAtSelf
           \/ UnifyAtMerge \/ CollapseDone \/ CollapseInPlace \/ CollapseFresh
           \/ AbsorbTypes \/ AbsorbCollapses \/ AllLinksMoved \/ AddLinkUnifies
           \/ AddAccessedType \/ AccessCollapses \/ AccessIgnored
           \/ BindCell \/ BindLinkTarget
    PROVE  Calls(MergeOp \ {"unifyAt"})
  <1>1. CASE \/ CollapseDone \/ CollapseInPlace \/ AllLinksMoved \/ AddAccessedType
             \/ AccessIgnored \/ BindCell \/ BindLinkTarget
    BY <1>1 DEF CollapseDone, CollapseInPlace, AllLinksMoved, AddAccessedType,
                AccessIgnored, BindCell, BindLinkTarget, Running, Calls
  <1>2. CASE UnifyAtMerge \/ CollapseFresh
    <2>1. PICK x : Continue(<<x>>) /\ x.op = "absorb" /\ stack # <<>>
      BY <1>2 DEF UnifyAtMerge, CollapseFresh, Absorb, Running
    <2> QED
      BY <2>1 DEF Calls, MergeOp
  <1>3. CASE AbsorbTypes
    <2>1. PICK x : Continue(<<x>>) /\ x.op = "annotate" /\ stack # <<>>
      BY <1>3 DEF AbsorbTypes, Annotate, Running
    <2> QED
      BY <2>1 DEF Calls, MergeOp
  <1>4. CASE AddLinkUnifies
    <2>1. PICK x : Continue(<<x>>) /\ x.op = "unify" /\ stack # <<>>
      BY <1>4 DEF AddLinkUnifies, Unify, Running
    <2> QED
      BY <2>1 DEF Calls, MergeOp
  <1>5. CASE AccessCollapses
    <2>1. PICK x : Continue(<<x>>) /\ x.op = "collapse" /\ stack # <<>>
      BY <1>5 DEF AccessCollapses, Collapse, Running
    <2> QED
      BY <2>1 DEF Calls, MergeOp
  <1>6. CASE AbsorbCollapses
    <2>1. PICK x, y : /\ x = Collapse(Top.m)
                      /\ y = Annotate(Top.n, Top.m, Top.o)
      OBVIOUS
    <2>2. Continue(<<x, y>>) /\ stack # <<>>
      BY <1>6, <2>1 DEF AbsorbCollapses, Running
    <2>3. x.op = "collapse" /\ y.op = "annotate"
      BY <2>1 DEF Collapse, Annotate
    <2> QED
      BY <2>2, <2>3 DEF Calls, MergeOp
  <1>7. CASE UnifyAtSelf
    <2>1. CASE Continue(<<>>)
      BY <1>7, <2>1 DEF UnifyAtSelf, Running, Calls, Return
    <2>2. CASE ~Continue(<<>>)
      <3>1. PICK x : Continue(<<x>>) /\ x.op = "collapse" /\ stack # <<>>
        BY <1>7, <2>2 DEF UnifyAtSelf, Collapse, Running
      <3> QED
        BY <3>1 DEF Calls, MergeOp
    <2> QED
      BY <2>1, <2>2
  <1> QED
    BY <1>1, <1>2, <1>3, <1>4, <1>5, <1>6, <1>7

\* most steps only go on merging
LEMMA MergingSteps ==
    ASSUME \/ UnifyCells \/ UnifyAtCollapse \/ UnifyAtSwap \/ UnifyAtSelf
           \/ UnifyAtMerge \/ CollapseDone \/ CollapseInPlace \/ CollapseFresh
           \/ AbsorbTypes \/ AbsorbCollapses \/ AllLinksMoved \/ AddLinkUnifies
           \/ AddAccessedType \/ AccessCollapses \/ AccessIgnored
           \/ BindCell \/ BindLinkTarget
    PROVE  Calls(MergeOp)
  <1>1. CASE UnifyCells
    <2>1. PICK x : Continue(<<x>>) /\ x.op = "unifyAt" /\ stack # <<>>
      BY <1>1 DEF UnifyCells, UnifyAt, Running
    <2> QED
      BY <2>1 DEF Calls, MergeOp
  <1>2. CASE UnifyAtSwap
    <2>1. PICK x : Continue(<<x>>) /\ x.op = "unifyAt" /\ stack # <<>>
      BY <1>2 DEF UnifyAtSwap, UnifyAt, Running
    <2> QED
      BY <2>1 DEF Calls, MergeOp
  <1>3. CASE UnifyAtCollapse
    <2>1. PICK x, y : /\ x = Collapse(Root(Top.n))
                      /\ y = UnifyAt(Root(Top.n), Root(Top.m), Top.o)
      OBVIOUS
    <2>2. Continue(<<x, y>>) /\ stack # <<>>
      BY <1>3, <2>1 DEF UnifyAtCollapse, Running
    <2>3. x.op = "collapse" /\ y.op = "unifyAt"
      BY <2>1 DEF Collapse, UnifyAt
    <2> QED
      BY <2>2, <2>3 DEF Calls, MergeOp
  <1> QED
    BY <1>1, <1>2, <1>3, UnplacedSteps, CallsMore

\* the cell of an accessed type is covered once the type is entered
LEMMA AccessCovers ==
    ASSUME Inv, Inv', stack # <<>>, Top.op = "access", NEW c, c = Top.at,
           AddAccessedType \/ AccessCollapses \/ AccessIgnored
    PROVE  Covered(c)'
  <1>0. PICK n, o, e : /\ n = Resolve(c).node /\ o = Resolve(c).off
                       /\ e = AccessedExtent(c, Top.width)
    OBVIOUS
  <1>1. Resolve(c)' = Resolve(c) /\ marks' = marks
    BY DEF AddAccessedType, AccessCollapses, AccessIgnored, nodeVars, Resolve
  <1>2. Resolve(c).node' = n /\ Resolve(c).off' = o
    BY <1>0, <1>1
  <1>3. CASE ~Plain(n)
    BY <1>1, <1>2, <1>3 DEF Covered, Plain, IsCollapsed, IsArray
  <1>4. CASE Plain(n)
    <2>1. AddAccessedType
      BY <1>0, <1>4 DEF AccessCollapses, AccessIgnored, Overflows, Plain
    <2>2. PICK z \in Ends(n, {e}) :
             GrowsTo(n, {e}, z) /\ size' = [size EXCEPT ![n] = z]
      BY <1>0, <2>1 DEF AddAccessedType
    <2>3. n \in Node /\ e \in Extent /\ e.off \in Nat /\ e.width \in Nat \ {0}
      BY <1>0, <2>1, AccessTop DEF AddAccessedType, Extent
    <2>4. e.off = o
      BY <1>0, <1>4 DEF AccessedExtent, LinkOffset, Numeric, Plain
    <2>5. z \in Nat /\ size'[n] = z
      BY <2>2, <2>3, EndsAreSizes DEF Inv, TypeOK
    <2>6. e.off + e.width <= z
      BY <1>4, <2>2 DEF GrowsTo, Ends, Plain
    <2>7. o < size'[n]
      BY <2>3, <2>4, <2>5, <2>6
    <2> QED
      BY <1>2, <2>7 DEF Covered
  <1> QED
    BY <1>3, <1>4

\* the loops that add links again
LEMMA MoveLinkCovered ==
    ASSUME Inv, FramesCovered, MoveLink,
           \A c \in CellIn(Node) : Covered(c) => Covered(c)'
    PROVE  FramesCovered'
  <1>0. PICK via, rest : via = Top.via /\ rest = Top.rest
    OBVIOUS
  <1>1. /\ stack # <<>> /\ Top.op = "links"
        /\ via \in CellIn(nodes) /\ rest \subseteq LinkIn(nodes)
        /\ nodes \subseteq Node
    BY <1>0, TopFrame, FramesRead DEF Inv, TypeOK, MoveLink, Running
  <1>2. PICK l \in rest :
           Continue(<<AddLink(Shifted(via, l.off), l.ty, l.to),
                      Links(via, rest \ {l})>>)
    BY <1>0 DEF MoveLink, Shifted
  <1>3. PICK x, y : /\ x = AddLink(Shifted(via, l.off), l.ty, l.to)
                    /\ y = Links(via, rest \ {l})
    OBVIOUS
  <1>4. FrameCovered(Top)
    BY <1>1, TopFrame DEF FramesCovered, Inv
  <1>5. ASSUME NEW k \in rest
        PROVE  Covered(Shifted(via, k.off))'
    <2>1. Covered(Shifted(via, k.off))
      BY <1>0, <1>1, <1>4 DEF FrameCovered
    <2>2. via \in CellIn(Node) /\ k.off \in Nat
      BY <1>1, <1>5, FramesGrow DEF LinkIn
    <2>3. PICK c \in CellIn(Node) : c = Shifted(via, k.off)
      BY <2>2, ShiftedType
    <2>4. Covered(c)'
      BY <2>1, <2>3
    <2> QED
      BY <2>3, <2>4
  <1>6. FrameCovered(x)'
    <2>1. x.op = "addLink" /\ x.at = Shifted(via, l.off)
      BY <1>3 DEF AddLink
    <2> QED
      BY <1>5, <2>1 DEF FrameCovered
  <1>7. FrameCovered(y)'
    <2>1. y.op = "links" /\ y.via = via /\ y.rest = rest \ {l}
      BY <1>3 DEF Links
    <2> QED
      BY <1>5, <2>1 DEF FrameCovered
  <1> SUFFICES ASSUME NEW f, On(f, stack') PROVE FrameCovered(f)'
    BY DEF FramesCovered
  <1>8. f = x \/ f = y \/ On(f, stack)
    BY <1>1, <1>2, <1>3, CalledTwo DEF Inv
  <1>9. ASSUME On(f, stack) PROVE FrameCovered(f)'
    BY <1>1, <1>9, OldFrameCovered
  <1> QED
    BY <1>6, <1>7, <1>8, <1>9

\* a loop over links that lie inside the node n they are taken from
LEMMA RelinkCovered ==
    ASSUME LinksCovered, NEW n \in Node, NEW rest \in SUBSET links[n],
           TypeOK, \A c \in CellIn(Node) : Covered(c) => Covered(c)',
           NEW x, x = Links(At(n, 0), rest)
    PROVE  FrameCovered(x)'
  <1>1. x.op = "links" /\ x.via = At(n, 0) /\ x.rest = rest
    BY DEF Links
  <1>2. ASSUME NEW k \in rest
        PROVE  Covered(Shifted(At(n, 0), k.off))'
    <2>1. k \in links[n] /\ k.off \in Nat
      BY DEF TypeOK, LinkIn
    <2>2. PICK c : c = At(n, k.off)
      OBVIOUS
    <2>3. c \in CellIn(Node) /\ c = Shifted(At(n, 0), k.off)
      BY <2>1, <2>2 DEF At, CellIn, Shifted
    <2>4. Covered(c)
      BY <2>1, <2>2 DEF LinksCovered
    <2>5. Covered(c)'
      BY <2>3, <2>4
    <2> QED
      BY <2>3, <2>5
  <1> QED
    BY <1>1, <1>2 DEF FrameCovered

\* addLink calls such a loop for the links it displaces
LEMMA AddLinkSetsFrames ==
    ASSUME Inv, FramesCovered, LinksCovered, AddLinkSets,
           \A c \in CellIn(Node) : Covered(c) => Covered(c)'
    PROVE  FramesCovered'
  <1>0. PICK n, displaced :
            /\ n = Resolve(Top.at).node
            /\ displaced = IF Top.ty = OmniType
                           THEN {k \in links[n] : k.off = LinkOffset(Top.at)}
                           ELSE {}
    OBVIOUS
  <1>1. /\ stack # <<>> /\ Top.op = "addLink" /\ n \in Node
        /\ displaced \in SUBSET links[n]
    BY <1>0, AddLinkTop DEF AddLinkSets, Running
  <1>2. Continue(IF displaced = {} THEN <<>> ELSE <<Links(At(n, 0), displaced)>>)
    BY <1>0 DEF AddLinkSets, At
  <1> SUFFICES ASSUME NEW f, On(f, stack') PROVE FrameCovered(f)'
    BY DEF FramesCovered
  <1>3. CASE displaced = {}
    <2>1. On(f, stack)
      BY <1>1, <1>2, <1>3, Returned DEF Inv, Return
    <2> QED
      BY <1>1, <2>1, OldFrameCovered
  <1>4. CASE displaced # {}
    <2>1. PICK x : x = Links(At(n, 0), displaced) /\ Continue(<<x>>)
      BY <1>2, <1>4
    <2>2. f = x \/ On(f, stack)
      BY <1>1, <2>1, CalledOne DEF Inv
    <2>3. FrameCovered(x)'
      BY <1>1, <2>1, RelinkCovered DEF Inv
    <2> QED
      BY <1>1, <2>2, <2>3, OldFrameCovered
  <1> QED
    BY <1>3, <1>4

\* pointTo calls such a loop for the links of the node that was placed
LEMMA AbsorbMarksFrames ==
    ASSUME Inv, FramesCovered, LinksCovered, AbsorbMarks,
           \A c \in CellIn(Node) : Covered(c) => Covered(c)'
    PROVE  FramesCovered'
  <1>0. PICK n : n = Top.n
    OBVIOUS
  <1>1. stack # <<>> /\ Top.op = "annotate" /\ n \in Node
    BY <1>0, AbsorbTop DEF AbsorbMarks, Running
  <1>2. PICK x : x = Links(At(n, 0), links[n]) /\ Continue(<<x>>)
    BY <1>0 DEF AbsorbMarks, At
  <1> SUFFICES ASSUME NEW f, On(f, stack') PROVE FrameCovered(f)'
    BY DEF FramesCovered
  <1>3. f = x \/ On(f, stack)
    BY <1>1, <1>2, CalledOne DEF Inv
  <1>4. FrameCovered(x)'
    BY <1>1, <1>2, RelinkCovered DEF Inv
  <1> QED
    BY <1>1, <1>3, <1>4, OldFrameCovered

\* visitLoadInst adds a link where it looked for one
LEMMA LoadMakesLinkFrames ==
    ASSUME Inv, FramesCovered, LoadMakesLink,
           \A c \in CellIn(Node) : Covered(c) => Covered(c)'
    PROVE  FramesCovered'
  <1>1. PICK n \in ClientNode :
           Continue(<<AddLink(Top.at, Top.ty, At(n, 0)),
                      BindLink(Top.v, Top.at, Top.ty)>>)
    BY DEF LoadMakesLink
  <1>2. PICK c, x, y : /\ c = Top.at /\ x = AddLink(Top.at, Top.ty, At(n, 0))
                       /\ y = BindLink(Top.v, Top.at, Top.ty)
    OBVIOUS
  <1>3. stack # <<>> /\ Top.op = "load" /\ c \in CellIn(nodes) /\ nodes \subseteq Node
    BY <1>2, LoadTop DEF LoadMakesLink, Running, Inv, TypeOK
  <1>4. FrameCovered(Top)
    BY <1>3, TopFrame DEF FramesCovered, Inv
  <1>5. Covered(c)
    BY <1>2, <1>3, <1>4 DEF FrameCovered
  <1>6. c \in CellIn(Node)
    BY <1>3, FramesGrow
  <1>7. x.op = "addLink" /\ x.at = c /\ y.op \notin LinkOp
    BY <1>2 DEF AddLink, BindLink, LinkOp
  <1>8. FrameCovered(x)'
    <2>1. Covered(c)'
      BY <1>5, <1>6
    <2> QED
      BY <1>7, <2>1 DEF FrameCovered
  <1> SUFFICES ASSUME NEW f, On(f, stack') PROVE FrameCovered(f)'
    BY DEF FramesCovered
  <1>9. f = x \/ f = y \/ On(f, stack)
    BY <1>1, <1>2, <1>3, CalledTwo DEF Inv
  <1>10. ASSUME On(f, stack) PROVE FrameCovered(f)'
    BY <1>3, <1>10, OldFrameCovered
  <1> QED
    BY <1>7, <1>8, <1>9, <1>10, NoLinkCovered

\* what a visit calls: no link is set, or one is set at the cell just accessed
LEMMA VisitFrames ==
    ASSUME Inv, Visit
    PROVE  \/ \A f : On(f, stack') => f.op \notin LinkOp
           \/ \E c, w, g : /\ stack' = <<Access(c, w), g>> /\ g.op \in LinkOp \ {"links"}
                           /\ g.at = c
  <1>1. Idle
    BY VisitIdle
  <1>2. CASE UNCHANGED stack
    BY <1>1, <1>2, NoCalls
  <1>3. CASE \E x : stack' = <<x>> /\ x.op \notin LinkOp
    BY <1>3 DEF On
  <1>4. CASE \E x, y : /\ stack' = <<x, y>>
                       /\ x.op \notin LinkOp /\ y.op \notin LinkOp
    BY <1>4 DEF On
  <1>5. CASE \/ \E v \in Value : VisitAlloca(v) \/ VisitInstruction(v)
             \/ \E p \in Value, sz \in SeqSize : VisitMakeSeq(p, sz)
    BY <1>2, <1>5 DEF VisitAlloca, VisitInstruction, VisitMakeSeq
  <1>6. ASSUME NEW v, NEW p, NEW k, NEW stride, VisitGep(v, p, k, stride)
        PROVE  UNCHANGED stack \/ \E x : stack' = <<x>> /\ x.op \notin LinkOp
    <2>1. CASE \/ GepInCollapsed(v, p, k, stride) \/ GepBack(v, p, k, stride)
               \/ GepToField(v, p, k, stride)
      BY <2>1 DEF GepInCollapsed, GepBack, GepToField
    <2>2. CASE GepBefore(v, p, k, stride) \/ GepIntoArray(v, p, k, stride)
      <3>1. \E a, b, o : stack' = <<UnifyAt(a, b, o)>>
        BY <2>2 DEF GepBefore, GepIntoArray, Call
      <3> QED
        BY <3>1 DEF UnifyAt, LinkOp
    <2> QED
      BY <1>6, <2>1, <2>2 DEF VisitGep
  <1>7. ASSUME NEW v, NEW p, NEW ty, VisitLoad(v, p, ty) \/ VisitStore(v, p, ty)
        PROVE  \E c, w, g : /\ stack' = <<Access(c, w), g>>
                            /\ g.op \in LinkOp \ {"links"} /\ g.at = c
    <2>1. PICK x, y : /\ x = Load(v, cell[p], ty)
                      /\ y = AddLink(cell[p], ty, cell[v])
      OBVIOUS
    <2>2. \/ stack' = <<Access(cell[p], PtrWidth), x>>
          \/ stack' = <<Access(cell[p], PtrWidth), y>>
      BY <1>7, <2>1 DEF VisitLoad, VisitStore, Call
    <2>3. /\ x.op \in LinkOp \ {"links"} /\ x.at = cell[p]
          /\ y.op \in LinkOp \ {"links"} /\ y.at = cell[p]
      BY <2>1 DEF Load, AddLink, LinkOp
    <2> QED
      BY <2>2, <2>3
  <1>8. ASSUME NEW p, NEW x, NEW y,
               \/ VisitScalarAccess(p, x, y) \/ VisitPHINode(p, x) \/ VisitCollapse(p)
        PROVE  \E z : stack' = <<z>> /\ z.op \notin LinkOp
    BY <1>8 DEF VisitScalarAccess, VisitPHINode, VisitCollapse, Call, Access, Unify,
                Collapse, LinkOp
  <1>9. ASSUME NEW v, NEW p, NEW q, VisitSelect(v, p, q)
        PROVE  \E x, y : /\ stack' = <<x, y>>
                         /\ x.op \notin LinkOp /\ y.op \notin LinkOp
    BY <1>9 DEF VisitSelect, Call, Unify, Bind, LinkOp
  <1> QED
    BY <1>2, <1>3, <1>4, <1>5, <1>6, <1>7, <1>8, <1>9 DEF Visit

LEMMA VisitFramesCovered ==
    ASSUME Inv, Visit
    PROVE  FramesCovered'
  <1>1. CASE \A f : On(f, stack') => f.op \notin LinkOp
    BY <1>1, NoLinkCovered DEF FramesCovered
  <1>2. CASE \E c, w, g : /\ stack' = <<Access(c, w), g>>
                          /\ g.op \in LinkOp \ {"links"} /\ g.at = c
    <2>1. PICK c, w, g : /\ stack' = <<Access(c, w), g>>
                         /\ g.op \in LinkOp \ {"links"} /\ g.at = c
      BY <1>2
    <2>2. PICK x : x = Access(c, w)
      OBVIOUS
    <2>3. stack' = <<x, g>> /\ x.op = "access" /\ x.at = c
      BY <2>1, <2>2 DEF Access
    <2>4. /\ Len(stack') = 2 /\ stack'[2] = g /\ Top' = x
          /\ \A f : On(f, stack') => f = x \/ f = g
      BY <2>3 DEF On, Top
    <2>5. FrameCovered(x)'
      BY <2>3, NoLinkCovered DEF LinkOp
    <2>6. FrameCovered(g)'
      BY <2>1, <2>3, <2>4 DEF FrameCovered, LinkOp
    <2> QED
      BY <2>4, <2>5, <2>6 DEF FramesCovered
  <1> QED
    BY <1>1, <1>2, VisitFrames

\* no step leaves a pending call that would set a link outside of its node
LEMMA NextFramesCovered ==
    ASSUME Inv, Inv', Shape, LinksCovered, FramesCovered, [Next]_vars
    PROVE  FramesCovered'
  <1>1. \A c \in CellIn(Node) : Covered(c) => Covered(c)'
    BY NextCovered
  <1>2. CASE UNCHANGED vars
    <2>1. UNCHANGED <<fwd, marks, size, types, stack>>
      BY <1>2 DEF vars, graphVars
    <2>2. stack' = stack /\ \A c : Covered(c) => Covered(c)'
      BY <2>1 DEF Covered, CoverComes, Plain, Resolve, IsCollapsed, IsArray, Top
    <2>3. \A f : FrameCovered(f) => FrameCovered(f)'
      BY <2>2 DEF FrameCovered, Top
    <2> QED
      BY <2>2, <2>3 DEF FramesCovered
  <1>3. CASE AddAccessedType \/ AccessCollapses \/ AccessIgnored
    <2>1. stack # <<>> /\ Top.op = "access"
      BY <1>3 DEF AddAccessedType, AccessCollapses, AccessIgnored, Running
    <2>2. \A a : (Top.op = "access" /\ a = Top.at) => Covered(a)'
      BY <1>3, <2>1, AccessCovers
    <2> QED
      BY <1>1, <1>3, <2>2, MergingSteps, CallsNoLinkCovered DEF MergeOp, LinkOp
  <1>4. CASE \/ UnifyCells \/ UnifyAtCollapse \/ UnifyAtSwap \/ UnifyAtSelf
             \/ UnifyAtMerge \/ CollapseDone \/ CollapseInPlace \/ CollapseFresh
             \/ AbsorbTypes \/ AbsorbCollapses \/ AllLinksMoved
             \/ AddLinkUnifies \/ BindCell \/ BindLinkTarget
    <2>1. Top.op # "access"
      BY <1>4 DEF UnifyCells, UnifyAtCollapse, UnifyAtSwap, UnifyAtSelf,
                  UnifyAtMerge, CollapseDone, CollapseInPlace, CollapseFresh,
                  AbsorbTypes, AbsorbCollapses, AllLinksMoved, AddLinkUnifies,
                  BindCell, BindLinkTarget, Running
    <2> QED
      BY <1>1, <1>4, <2>1, MergingSteps, CallsNoLinkCovered DEF MergeOp, LinkOp
  <1>5. CASE AbsorbMarks
    BY <1>1, <1>5, AbsorbMarksFrames
  <1>6. CASE MoveLink
    BY <1>1, <1>6, MoveLinkCovered
  <1>7. CASE AddLinkSets
    BY <1>1, <1>7, AddLinkSetsFrames
  <1>8. CASE LoadMakesLink
    BY <1>1, <1>8, LoadMakesLinkFrames
  <1>9. CASE LoadFindsLink
    <2>1. stack # <<>> /\ Top.op = "load"
      BY <1>9 DEF LoadFindsLink, Running
    <2>2. PICK x : x.op = "bindLink" /\ Continue(<<x>>)
      BY <1>9 DEF LoadFindsLink, BindLink
    <2>3. Calls({"bindLink"})
      BY <2>1, <2>2 DEF Calls
    <2> QED
      BY <1>1, <2>1, <2>3, CallsNoLinkCovered DEF LinkOp
  <1>10. CASE Visit
    BY <1>10, VisitFramesCovered
  <1> QED
    BY <1>2, <1>3, <1>4, <1>5, <1>6, <1>7, <1>8, <1>9, <1>10
       DEF Next, Step, GraphStep

\* links change in three steps only
LEMMA LinksChange ==
    ASSUME Inv, [Next]_vars
    PROVE  UNCHANGED links \/ AbsorbMarks \/ AddLinkSets
  <1>1. CASE CallingStep
    BY <1>1, CallingTouches
  <1>2. CASE Visit
    BY <1>2, VisitTouches
  <1>3. CASE LoadFindsLink \/ LoadMakesLink
    BY <1>3, LoadTouches
  <1>4. CASE \/ UnifyAtMerge \/ CollapseInPlace \/ CollapseFresh \/ AbsorbTypes
             \/ AddAccessedType \/ UNCHANGED vars
    BY <1>4 DEF UnifyAtMerge, CollapseInPlace, CollapseFresh, AbsorbTypes,
                AddAccessedType, vars, graphVars
  <1> QED
    BY <1>1, <1>2, <1>3, <1>4 DEF Next, Step, GraphStep, CallingStep

\* no step leaves a link outside of its node
LEMMA NextLinksCovered ==
    ASSUME Inv, Inv', Shape, LinksCovered, FramesCovered, [Next]_vars
    PROVE  LinksCovered'
  <1>1. ASSUME NEW n \in Node, NEW l \in links[n] PROVE Covered(At(n, l.off))'
    <2>1. l.off \in Nat
      BY DEF Inv, TypeOK, LinkIn
    <2>2. PICK c \in CellIn(Node) : c = At(n, l.off)
      BY <2>1 DEF At, CellIn
    <2>3. Covered(c)'
      BY <2>2, NextCovered DEF LinksCovered
    <2> QED
      BY <2>2, <2>3
  <1>2. CASE UNCHANGED links
    BY <1>1, <1>2 DEF LinksCovered
  <1>3. CASE AbsorbMarks
    <2>1. PICK n : n = Top.n
      OBVIOUS
    <2>2. links' = [links EXCEPT ![n] = {}]
      BY <1>3, <2>1 DEF AbsorbMarks
    <2>3. \A m \in Node : links'[m] \subseteq links[m]
      BY <2>2 DEF Inv, TypeOK
    <2> QED
      BY <1>1, <2>3 DEF LinksCovered
  <1>4. CASE AddLinkSets
    <2>1. PICK at, n, o, k, displaced :
            /\ at = Top.at /\ n = Resolve(Top.at).node /\ o = LinkOffset(Top.at)
            /\ k = [off |-> LinkOffset(Top.at), ty |-> Top.ty, to |-> Top.to]
            /\ displaced = IF Top.ty = OmniType
                           THEN {l \in links[n] : l.off = LinkOffset(Top.at)}
                           ELSE {}
      OBVIOUS
    <2>2. /\ links' = [links EXCEPT ![n] = (@ \ displaced) \cup {k}]
          /\ UNCHANGED <<nodes, fwd, marks, size, types>>
      BY <1>4, <2>1 DEF AddLinkSets
    <2>3. /\ stack # <<>> /\ Top.op = "addLink"
          /\ at \in CellIn(nodes) /\ n \in Node /\ o \in Nat
      BY <1>4, <2>1, AddLinkTop DEF AddLinkSets, Running
    <2>4. FrameCovered(Top)
      BY <2>3, TopFrame DEF FramesCovered, Inv
    <2>5. Covered(at)
      BY <2>1, <2>3, <2>4 DEF FrameCovered
    <2>6. /\ o < size[n] /\ Numeric(n, o) = o
      BY <2>1, <2>3, <2>5, CoveredInBounds
    <2>7. fwd[n] = [node |-> n, off |-> 0]
      <3>1. at.node \in Node
        BY <2>3 DEF CellIn, Inv, TypeOK
      <3> QED
        BY <2>1, <3>1 DEF Inv, ForwardingResolved, Resolve, Root
    <2>8. Covered(At(n, k.off))'
      <3>1. k.off = o
        BY <2>1
      <3>2. Resolve(At(n, k.off))'.node = n /\ Resolve(At(n, k.off))'.off = o
        BY <2>2, <2>3, <2>7, <3>1 DEF Resolve, At
      <3> QED
        BY <2>2, <2>6, <3>2 DEF Covered
    <2>9. \A m \in Node : \A l \in links'[m] : l \in links[m] \/ (m = n /\ l = k)
      BY <2>2 DEF Inv, TypeOK
    <2> QED
      BY <1>1, <2>8, <2>9 DEF LinksCovered
  <1> QED
    BY <1>2, <1>3, <1>4, LinksChange

-----------------------------------------------------------------------------
(* The inductive invariant and what it gives.                               *)

ShapeInv == Shape /\ LinksCovered /\ FramesCovered

LEMMA InitShape == Init => ShapeInv
  <1> SUFFICES ASSUME Init PROVE ShapeInv
    OBVIOUS
  <1>1. \A n \in Node : /\ size[n] = 0 /\ types[n] = {} /\ links[n] = {}
                        /\ ~IsCollapsed(n)
    BY DEF Init, GraphInit, IsCollapsed
  <1>2. Shape
    BY <1>1 DEF Shape, NodeShape, BlankAt, CollapsedHasSize, SizeWitnessed,
                TypesFitAt, OneLinkPerFieldAt, LinksInBoundsAt
  <1>3. LinksCovered
    BY <1>1 DEF LinksCovered
  <1>4. FramesCovered
    BY NoCalls DEF Init, GraphInit, FramesCovered, Idle
  <1> QED
    BY <1>2, <1>3, <1>4 DEF ShapeInv

\* Types and links stay inside their nodes and fields stay free of competing links,
\* also in the frames of calls that were interrupted in the middle of moving links.
THEOREM ShapeHolds == Spec => [](Inv /\ ShapeInv)
  <1>1. Init => Inv /\ ShapeInv
    BY InitInv, InitShape
  <1>2. Inv /\ ShapeInv /\ [Next]_vars => (Inv /\ ShapeInv)'
    <2> SUFFICES ASSUME Inv, ShapeInv, [Next]_vars PROVE Inv' /\ ShapeInv'
      OBVIOUS
    <2>1. Inv'
      BY NextInv
    <2>2. Shape' /\ LinksCovered' /\ FramesCovered'
      BY <2>1, NextShape, NextLinksCovered, NextFramesCovered DEF ShapeInv
    <2> QED
      BY <2>1, <2>2 DEF ShapeInv
  <1> QED
    BY <1>1, <1>2, PTL DEF Spec

\* Accessed types lie inside their node at every moment of every analysis
\* (Node::growSize, Node::joinAccessedTypes).
THEOREM TypesAlwaysFit == Spec => []TypesFit
  <1>1. Shape => TypesFit
    BY DEF Shape, NodeShape, TypesFitAt, TypesFit
  <1> QED
    BY <1>1, ShapeHolds, PTL DEF ShapeInv

\* A field never has two links of one type, nor another link beside the omni link,
\* also while Node::addLink displaces the others and adds them again.
THEOREM LinksStayUnique == Spec => []OneLinkPerField
  <1>1. Shape => OneLinkPerField
    BY DEF Shape, NodeShape, OneLinkPerFieldAt, OneLinkPerField
  <1> QED
    BY <1>1, ShapeHolds, PTL DEF ShapeInv

\* A link lies inside its node, at an offset somebody asks for, at every moment:
\* also right after its node has shrunk to one by collapsing in place.
THEOREM LinksStayInBounds == Spec => []LinksInBounds
  <1>1. Shape => LinksInBounds
    BY DEF Shape, NodeShape, LinksInBoundsAt, LinksInBounds
  <1> QED
    BY <1>1, ShapeHolds, PTL DEF ShapeInv

-----------------------------------------------------------------------------
(* The unique scalar of a node.                                             *)

ClientOp == {"bind", "load", "bindLink"}

\* what the analysis does with the result of its calls is done last, and gives a
\* cell to a value that has none
ClientsLast ==
    \A j \in 1 .. Len(stack) : stack[j].op \in ClientOp =>
        j = Len(stack) /\ ~Bound(stack[j].v)

ScalarsBound == \A n \in Node : scalar[n] # NoValue => Bound(scalar[n])

PointsHere(n) ==
    (scalar[n] # NoValue /\ ~IsForwarding(n)) => Resolve(cell[scalar[n]]) = At(n, 0)

\* a step that calls, but no client
LEMMA CallsNoClient ==
    ASSUME TypeOK, ClientsLast, Top.op \notin ClientOp, UNCHANGED cell,
           NEW ops, ops \cap ClientOp = {}, Calls(ops)
    PROVE  ClientsLast'
  <1> SUFFICES ASSUME NEW j \in 1 .. Len(stack'), NEW f, f = stack'[j],
                      f.op \in ClientOp
               PROVE  j = Len(stack') /\ ~Bound(f.v)
    BY DEF ClientsLast, Bound
  <1>1. \A i \in 1 .. Len(stack) : stack[i].op \in ClientOp =>
            i = Len(stack) /\ ~Bound(stack[i].v)
    BY DEF ClientsLast
  <1>2. CASE Return
    <2>1. /\ Len(stack) \in Nat /\ Len(stack') = Len(stack) - 1
          /\ j + 1 \in 2 .. Len(stack) /\ f = stack[j + 1]
      BY <1>2, Returned DEF Calls
    <2>2. j + 1 = Len(stack) /\ ~Bound(f.v)
      BY <1>1, <2>1
    <2> QED
      BY <2>1, <2>2
  <1>3. CASE \E x : Continue(<<x>>) /\ x.op \in ops
    <2>1. PICK x : Continue(<<x>>) /\ x.op \in ops
      BY <1>3
    <2>2. /\ Len(stack) \in Nat /\ Len(stack') = Len(stack) /\ stack'[1] = x
          /\ \A i \in 2 .. Len(stack) : stack'[i] = stack[i]
      BY <2>1, CalledOne DEF Calls
    <2>3. j \in 2 .. Len(stack) /\ f = stack[j]
      BY <2>1, <2>2
    <2> QED
      BY <1>1, <2>2, <2>3
  <1>4. CASE \E x, y : Continue(<<x, y>>) /\ x.op \in ops /\ y.op \in ops
    <2>1. PICK x, y : Continue(<<x, y>>) /\ x.op \in ops /\ y.op \in ops
      BY <1>4
    <2>2. /\ Len(stack) \in Nat /\ Len(stack') = Len(stack) + 1
          /\ stack'[1] = x /\ stack'[2] = y
          /\ \A i \in 2 .. Len(stack) : stack'[i + 1] = stack[i]
      BY <2>1, CalledTwo DEF Calls
    <2>3. j # 1 /\ j # 2
      BY <2>1, <2>2
    <2>4. PICK i \in 2 .. Len(stack) : j = i + 1
      <3>1. j - 1 \in 2 .. Len(stack) /\ j = (j - 1) + 1
        BY <2>2, <2>3
      <3> QED
        BY <3>1
    <2>5. f = stack[i]
      BY <2>2, <2>4
    <2>6. i = Len(stack) /\ ~Bound(f.v)
      BY <1>1, <2>2, <2>4, <2>5
    <2> QED
      BY <2>2, <2>4, <2>6
  <1> QED
    BY <1>2, <1>3, <1>4 DEF Calls

\* a client on top is alone
LEMMA ClientOnTop ==
    ASSUME TypeOK, ClientsLast, stack # <<>>, Top.op \in ClientOp
    PROVE  Len(stack) = 1 /\ ~Bound(Top.v)
  <1>1. Len(stack) \in Nat /\ Len(stack) >= 1 /\ Top = stack[1]
    BY DEF TypeOK, Top
  <1> QED
    BY <1>1 DEF ClientsLast

\* its calls are then all that is pending
LEMMA LastCalls ==
    ASSUME NEW F, NEW s \in Seq(F), Len(s) = 1, NEW fs \in Seq(F)
    PROVE  fs \o Tail(s) = fs
  <1>1. Tail(s) \in Seq(F) /\ Len(Tail(s)) = 0
    OBVIOUS
  <1>2. Tail(s) = <<>>
    BY <1>1, EmptySeq
  <1> QED
    BY <1>2, ConcatEmptySeq

\* a stack with at most its last call a client
LEMMA OneClient ==
    ASSUME \/ \E x : stack' = <<x>> /\ x.op \notin ClientOp
           \/ \E x : stack' = <<x>> /\ ~Bound(x.v)'
           \/ \E x, y : /\ stack' = <<x, y>> /\ x.op \notin ClientOp
                        /\ y.op \notin ClientOp \/ ~Bound(y.v)'
           \/ Len(stack') = 0
    PROVE  ClientsLast'
  <1>1. CASE Len(stack') = 0
    BY <1>1 DEF ClientsLast
  <1>2. CASE \E x : stack' = <<x>> /\ (x.op \notin ClientOp \/ ~Bound(x.v)')
    <2>1. PICK x : stack' = <<x>> /\ (x.op \notin ClientOp \/ ~Bound(x.v)')
      BY <1>2
    <2>2. Len(stack') = 1 /\ stack'[1] = x
      BY <2>1
    <2> QED
      BY <2>1, <2>2 DEF ClientsLast
  <1>3. CASE \E x, y : /\ stack' = <<x, y>> /\ x.op \notin ClientOp
                       /\ y.op \notin ClientOp \/ ~Bound(y.v)'
    <2>1. PICK x, y : /\ stack' = <<x, y>> /\ x.op \notin ClientOp
                      /\ y.op \notin ClientOp \/ ~Bound(y.v)'
      BY <1>3
    <2>2. Len(stack') = 2 /\ stack'[1] = x /\ stack'[2] = y
      BY <2>1
    <2> QED
      BY <2>1, <2>2 DEF ClientsLast
  <1> QED
    BY <1>1, <1>2, <1>3

LEMMA VisitClients ==
    ASSUME Visit
    PROVE  ClientsLast'
  <1>1. Idle
    BY VisitIdle
  <1>2. CASE UNCHANGED stack
    <2>1. Len(stack') = 0
      BY <1>1, <1>2 DEF Idle
    <2> QED
      BY <2>1, OneClient
  <1>3. CASE \/ \E v \in Value : VisitAlloca(v) \/ VisitInstruction(v)
             \/ \E p \in Value, sz \in SeqSize : VisitMakeSeq(p, sz)
    BY <1>2, <1>3 DEF VisitAlloca, VisitInstruction, VisitMakeSeq
  <1>4. ASSUME NEW v, NEW p, NEW k, NEW stride, VisitGep(v, p, k, stride)
        PROVE  ClientsLast'
    <2>1. CASE \/ GepInCollapsed(v, p, k, stride) \/ GepBack(v, p, k, stride)
               \/ GepToField(v, p, k, stride)
      BY <1>2, <2>1 DEF GepInCollapsed, GepBack, GepToField
    <2>2. CASE GepBefore(v, p, k, stride) \/ GepIntoArray(v, p, k, stride)
      <3>1. \E a, b, o : stack' = <<UnifyAt(a, b, o)>>
        BY <2>2 DEF GepBefore, GepIntoArray, Call
      <3>2. \E x : stack' = <<x>> /\ x.op \notin ClientOp
        BY <3>1 DEF UnifyAt, ClientOp
      <3> QED
        BY <3>2, OneClient
    <2> QED
      BY <1>4, <2>1, <2>2 DEF VisitGep
  <1>5. ASSUME NEW v, NEW p, NEW ty, VisitLoad(v, p, ty) \/ VisitStore(v, p, ty)
        PROVE  ClientsLast'
    <2>1. PICK x, y, z : /\ x = Access(cell[p], PtrWidth)
                         /\ y = Load(v, cell[p], ty)
                         /\ z = AddLink(cell[p], ty, cell[v])
      OBVIOUS
    <2>2. /\ x.op \notin ClientOp /\ z.op \notin ClientOp /\ y.v = v
      BY <2>1 DEF Access, Load, AddLink, ClientOp
    <2>3. CASE VisitLoad(v, p, ty)
      <3>1. stack' = <<x, y>> /\ ~Bound(v)'
        BY <2>1, <2>3 DEF VisitLoad, Call, Defines, Bound
      <3> QED
        BY <2>2, <3>1, OneClient
    <2>4. CASE VisitStore(v, p, ty)
      <3>1. stack' = <<x, z>>
        BY <2>1, <2>4 DEF VisitStore, Call
      <3> QED
        BY <2>2, <3>1, OneClient
    <2> QED
      BY <1>5, <2>3, <2>4
  <1>6. ASSUME NEW p, NEW x, NEW y,
               \/ VisitScalarAccess(p, x, y) \/ VisitPHINode(p, x) \/ VisitCollapse(p)
        PROVE  ClientsLast'
    <2>1. \E z : stack' = <<z>> /\ z.op \notin ClientOp
      BY <1>6 DEF VisitScalarAccess, VisitPHINode, VisitCollapse, Call, Access,
                  Unify, Collapse, ClientOp
    <2> QED
      BY <2>1, OneClient
  <1>7. ASSUME NEW v, NEW p, NEW q, VisitSelect(v, p, q)
        PROVE  ClientsLast'
    <2>1. PICK x, y : x = Unify(cell[p], cell[q]) /\ y = Bind(v, cell[p])
      OBVIOUS
    <2>2. stack' = <<x, y>> /\ ~Bound(v)'
      BY <1>7, <2>1 DEF VisitSelect, Call, Defines, Bound
    <2>3. x.op \notin ClientOp /\ y.v = v
      BY <2>1 DEF Unify, Bind, ClientOp
    <2> QED
      BY <2>2, <2>3, OneClient
  <1> QED
    BY <1>3, <1>4, <1>5, <1>6, <1>7 DEF Visit

\* the steps that set links, or hand them on, call nothing else
LEMMA LinkingSteps ==
    ASSUME MoveLink \/ AddLinkSets \/ AbsorbMarks
    PROVE  Calls({"links", "addLink"})
  <1>0. stack # <<>>
    BY DEF MoveLink, AddLinkSets, AbsorbMarks, Running
  <1>1. CASE MoveLink
    <2>1. PICK l \in Top.rest :
             Continue(<<AddLink([Top.via EXCEPT !.off = @ + l.off],
                                l.ty, l.to),
                        Links(Top.via, Top.rest \ {l})>>)
      BY <1>1 DEF MoveLink
    <2>2. PICK x, y : /\ x = AddLink([Top.via EXCEPT !.off = @ + l.off],
                                     l.ty, l.to)
                      /\ y = Links(Top.via, Top.rest \ {l})
      OBVIOUS
    <2>3. x.op = "addLink" /\ y.op = "links"
      BY <2>2 DEF AddLink, Links
    <2> QED
      BY <1>0, <2>1, <2>2, <2>3 DEF Calls
  <1>2. CASE AddLinkSets \/ AbsorbMarks
    <2>1. Return \/ \E c, s : Continue(<<Links(c, s)>>)
      BY <1>2, Zenon DEF AddLinkSets, AbsorbMarks, Return
    <2>2. ASSUME NEW c, NEW s, Continue(<<Links(c, s)>>)
          PROVE  \E x : Continue(<<x>>) /\ x.op = "links"
      BY <2>2 DEF Links
    <2> QED
      BY <1>0, <2>1, <2>2 DEF Calls
  <1> QED
    BY <1>1, <1>2

\* clients stay last
LEMMA NextClients ==
    ASSUME Inv, ClientsLast, [Next]_vars
    PROVE  ClientsLast'
  <1>1. CASE UNCHANGED vars
    BY <1>1 DEF vars, graphVars, ClientsLast, Bound
  <1>2. CASE BindCell \/ BindLinkTarget
    <2>1. stack # <<>> /\ Top.op \in ClientOp /\ Return
      BY <1>2 DEF BindCell, BindLinkTarget, Running, ClientOp
    <2>2. Len(stack') = 0
      BY <2>1, ClientOnTop, Returned DEF Inv
    <2> QED
      BY <2>2, OneClient
  <1>3. CASE LoadFindsLink \/ LoadMakesLink
    <2>1. PICK v : v = Top.v
      OBVIOUS
    <2>2. stack # <<>> /\ Top.op \in ClientOp /\ UNCHANGED cell
      BY <1>3 DEF LoadFindsLink, LoadMakesLink, Running, ClientOp
    <2>3. Len(stack) = 1 /\ ~Bound(v)
      BY <2>1, <2>2, ClientOnTop DEF Inv
    <2>4. ~Bound(v)'
      BY <2>2, <2>3 DEF Bound
    <2>5. stack \in Seq(FrameIn(nodes))
      BY DEF Inv, TypeOK
    <2>6. CASE LoadFindsLink
      <3>1. PICK x : x = BindLink(Top.v, Top.at, Top.ty) /\ Continue(<<x>>)
        BY <2>6 DEF LoadFindsLink
      <3>2. PICK F : F = FrameIn(nodes) \cup {x}
        OBVIOUS
      <3>3. stack \in Seq(F) /\ <<x>> \in Seq(F) /\ x.v = v
        BY <2>1, <2>5, <3>1, <3>2 DEF BindLink
      <3>4. stack' = <<x>>
        BY <2>3, <3>1, <3>3, LastCalls DEF Continue
      <3> QED
        BY <2>4, <3>3, <3>4, OneClient
    <2>7. CASE LoadMakesLink
      <3>1. PICK n \in ClientNode :
               Continue(<<AddLink(Top.at, Top.ty, At(n, 0)),
                          BindLink(Top.v, Top.at, Top.ty)>>)
        BY <2>7 DEF LoadMakesLink
      <3>2. PICK x, y : /\ x = AddLink(Top.at, Top.ty, At(n, 0))
                        /\ y = BindLink(Top.v, Top.at, Top.ty)
        OBVIOUS
      <3>3. stack' = <<x, y>>
        <4>1. PICK F : F = FrameIn(nodes) \cup {x, y}
          OBVIOUS
        <4>2. stack \in Seq(F) /\ <<x, y>> \in Seq(F)
          BY <2>5, <4>1
        <4> QED
          BY <2>3, <3>1, <3>2, <4>2, LastCalls DEF Continue
      <3>4. x.op \notin ClientOp /\ y.v = v
        BY <2>1, <3>2 DEF AddLink, BindLink, ClientOp
      <3> QED
        BY <2>4, <3>3, <3>4, OneClient
    <2> QED
      BY <1>3, <2>6, <2>7
  <1>4. CASE Visit
    BY <1>4, VisitClients
  <1>5. CASE \/ UnifyCells \/ UnifyAtCollapse \/ UnifyAtSwap \/ UnifyAtSelf
             \/ UnifyAtMerge \/ CollapseDone \/ CollapseInPlace \/ CollapseFresh
             \/ AbsorbTypes \/ AbsorbCollapses \/ AllLinksMoved
             \/ AddLinkUnifies \/ AddAccessedType \/ AccessCollapses
             \/ AccessIgnored
    <2>1. Top.op \notin ClientOp
      BY <1>5 DEF UnifyCells, UnifyAtCollapse, UnifyAtSwap, UnifyAtSelf,
                  UnifyAtMerge, CollapseDone, CollapseInPlace, CollapseFresh,
                  AbsorbTypes, AbsorbCollapses, AllLinksMoved, AddLinkUnifies,
                  AddAccessedType, AccessCollapses, AccessIgnored, Running, ClientOp
    <2>2. UNCHANGED cell
      BY <1>5 DEF UnifyCells, UnifyAtCollapse, UnifyAtSwap, UnifyAtSelf,
                  UnifyAtMerge, CollapseDone, CollapseInPlace, CollapseFresh,
                  AbsorbTypes, AbsorbCollapses, AllLinksMoved, AddLinkUnifies,
                  AddAccessedType, AccessCollapses, AccessIgnored
    <2> QED
      BY <1>5, <2>1, <2>2, MergingSteps, CallsNoClient DEF MergeOp, ClientOp, Inv
  <1>6. CASE MoveLink \/ AddLinkSets \/ AbsorbMarks
    <2>1. Top.op \notin ClientOp /\ UNCHANGED cell /\ stack # <<>>
      BY <1>6 DEF MoveLink, AddLinkSets, AbsorbMarks, Running, ClientOp
    <2>2. Calls({"links", "addLink"})
      BY <1>6, LinkingSteps
    <2> QED
      BY <2>1, <2>2, CallsNoClient DEF ClientOp, Inv
  <1> QED
    BY <1>1, <1>2, <1>3, <1>4, <1>5, <1>6 DEF Next, Step, GraphStep

\* a value gets its cell
LEMMA MkCellPoints ==
    ASSUME Inv, UniqueScalarPointsHere, ScalarsBound, UNCHANGED fwd,
           NEW v \in Value, ~Bound(v), NEW c \in CellIn(Node),
           fwd[c.node] = [node |-> c.node, off |-> 0], MkCell(v, c)
    PROVE  UniqueScalarPointsHere' /\ ScalarsBound'
  <1>0. PICK r \in Node, o \in Nat : c = At(r, o) /\ r = c.node /\ o = c.off
    BY DEF CellIn, At
  <1>1. cell'[v] = c /\ \A w \in Value \ {v} : cell'[w] = cell[w]
    BY DEF MkCell, Inv, TypeOK
  <1>2. \A w \in Value \ {v} : Bound(w) => Bound(w)'
    BY <1>1 DEF Bound
  <1>3. Bound(v)'
    <2>1. r # 0
      BY MaxNodesAssumption DEF Node
    <2>2. c # NoCell
      BY <1>0, <2>1 DEF NoCell
    <2> QED
      BY <1>1, <2>2 DEF Bound
  <1>4. \A n \in Node \ {r} : scalar'[n] = scalar[n]
    BY <1>0 DEF MkCell, Inv, TypeOK
  <1>5. /\ scalar'[r] = NewScalar(v, c)
        /\ o = 0 => NewScalar(v, c) \in {v, NoValue}
        /\ o # 0 => NewScalar(v, c) \in {scalar[r], NoValue}
    BY <1>0 DEF MkCell, Inv, TypeOK, NewScalar
  <1>6. \A n \in Node : IsForwarding(n)' <=> IsForwarding(n)
    BY DEF IsForwarding, Root
  <1>7. ASSUME NEW n \in Node, NEW w, w = scalar[n], w = scalar'[n], w # NoValue
        PROVE  Bound(w)' /\ PointsHere(n)'
    <2>1. w \in Value
      <3>1. scalar \in [Node -> Value \cup {NoValue}]
        BY DEF Inv, TypeOK
      <3> QED
        BY <1>7, <3>1
    <2>2. Bound(w)
      BY <1>7 DEF ScalarsBound
    <2>3. w # v
      BY <2>2
    <2>4. PICK d : d = cell[w] /\ d = cell'[w]
      BY <1>1, <2>1, <2>3
    <2>5. ~IsForwarding(n) => Resolve(d) = At(n, 0)
      BY <1>7, <2>4 DEF UniqueScalarPointsHere
    <2>6. Resolve(d)' = Resolve(d)
      BY DEF Resolve
    <2>7. PointsHere(n)'
      BY <1>6, <1>7, <2>4, <2>5, <2>6 DEF PointsHere, At
    <2> QED
      BY <1>2, <2>1, <2>2, <2>3, <2>7
  <1>8. ASSUME NEW n \in Node, scalar'[n] # NoValue
        PROVE  Bound(scalar[n])' /\ PointsHere(n)'
    <2>1. CASE scalar'[n] = scalar[n]
      BY <1>7, <1>8, <2>1
    <2>2. CASE scalar'[n] # scalar[n]
      <3>1. n = r /\ o = 0 /\ scalar'[n] = v
        BY <1>4, <1>5, <1>8, <2>2
      <3>2. fwd'[r] = [node |-> r, off |-> 0]
        BY <1>0
      <3>3. PointsHere(n)'
        BY <1>0, <1>1, <3>1, <3>2 DEF PointsHere, Resolve, At
      <3> QED
        BY <1>3, <3>1, <3>3
    <2> QED
      BY <2>1, <2>2
  <1>9. ASSUME NEW n \in Node, scalar'[n] # NoValue PROVE Bound(scalar[n])'
    BY <1>8, <1>9
  <1>10. ASSUME NEW n \in Node PROVE PointsHere(n)'
    <2>1. CASE scalar'[n] = NoValue
      BY <2>1 DEF PointsHere
    <2>2. CASE scalar'[n] # NoValue
      BY <1>8, <2>2
    <2> QED
      BY <2>1, <2>2
  <1>11. ScalarsBound'
    BY <1>9 DEF ScalarsBound
  <1> QED
    BY <1>10, <1>11 DEF PointsHere, UniqueScalarPointsHere

\* no value gets a cell
LEMMA NoCellChanges ==
    ASSUME Inv, UniqueScalarPointsHere, ScalarsBound, UNCHANGED cell,
           \A n \in Node : scalar'[n] \in {scalar[n], NoValue},
           \A n \in Node : scalar'[n] # NoValue /\ ~IsForwarding(n)' =>
               /\ ~IsForwarding(n)
               /\ \A x \in Node : fwd[x].node = n => fwd'[x] = fwd[x]
    PROVE  UniqueScalarPointsHere' /\ ScalarsBound'
  <1>1. ScalarsBound'
    BY DEF ScalarsBound, Bound
  <1>2. ASSUME NEW n \in Node, scalar'[n] # NoValue, ~IsForwarding(n)'
        PROVE  Resolve(cell[scalar[n]])' = At(n, 0)
    <2>1. scalar'[n] = scalar[n] /\ ~IsForwarding(n)
      BY <1>2
    <2>2. PICK d, w : w = scalar[n] /\ w = scalar'[n] /\ d = cell[w] /\ d = cell'[w]
      BY <2>1
    <2>3. Resolve(d) = At(n, 0)
      BY <1>2, <2>1, <2>2 DEF UniqueScalarPointsHere
    <2>4. w \in Value /\ Bound(w)
      <3>1. w \in Value
        BY <1>2, <2>2 DEF Inv, TypeOK
      <3>2. Bound(w)
        BY <1>2, <2>2 DEF ScalarsBound
      <3> QED
        BY <3>1, <3>2
    <2>5. d \in CellIn(Node)
      BY <2>2, <2>4, BoundType, FramesGrow DEF Inv, TypeOK
    <2>6. d.node \in Node /\ fwd[d.node].node = n
      BY <2>3, <2>5 DEF CellIn, Resolve, At
    <2>7. fwd'[d.node] = fwd[d.node]
      BY <1>2, <2>6
    <2>8. Resolve(d)' = Resolve(d)
      BY <2>7 DEF Resolve
    <2> QED
      BY <2>2, <2>3, <2>8 DEF At
  <1> QED
    BY <1>1, <1>2 DEF UniqueScalarPointsHere, At

\* pointTo sets the forwarding
LEMMA UnifyAtMergeScalars ==
    ASSUME Inv, UniqueScalarPointsHere, ScalarsBound, UnifyAtMerge
    PROVE  UniqueScalarPointsHere' /\ ScalarsBound'
  <1>0. PICK n, m, o : /\ n = Root(Top.n) /\ m = Root(Top.m)
                       /\ o = Numeric(Root(Top.n), Top.o)
    OBVIOUS
  <1>1. /\ n # m /\ fwd' = Forwarded(m, n, o)
        /\ scalar' = [scalar EXCEPT ![n] =
                          IF KillsScalar(m, n, o) THEN NoValue ELSE @]
        /\ UNCHANGED cell
    BY <1>0 DEF UnifyAtMerge
  <1>2. n \in Node /\ m \in Node /\ Root(n) = n /\ Root(m) = m
    <2>1. Top.n \in Node /\ Top.m \in Node
      BY UnifyAtTop DEF UnifyAtMerge, Inv, TypeOK
    <2> QED
      BY <1>0, <2>1, UnifyAtTop, RootOfRoot DEF UnifyAtMerge, Inv
  <1>3. \A x \in Node : fwd[x].node # m => fwd'[x] = fwd[x]
    BY <1>1 DEF Forwarded
  <1>4. fwd'[m].node = n
    BY <1>1, <1>2 DEF Forwarded, Root
  <1>5. \A x \in Node : scalar'[x] \in {scalar[x], NoValue}
    BY <1>1 DEF Inv, TypeOK
  <1>6. ASSUME NEW x \in Node, ~IsForwarding(x)'
        PROVE  ~IsForwarding(x) /\ x # m
    <2>1. x # m
      BY <1>1, <1>4, <1>6 DEF IsForwarding, Root
    <2>2. fwd'[x].node = x
      BY <1>6 DEF IsForwarding, Root
    <2>3. fwd[x].node # m
      BY <1>1, <1>2, <2>2 DEF Forwarded, Root
    <2> QED
      BY <1>3, <2>1, <2>2, <2>3 DEF IsForwarding, Root
  <1> QED
    BY <1>1, <1>3, <1>5, <1>6, NoCellChanges

\* collapseOffsets with a new node
LEMMA CollapseFreshScalars ==
    ASSUME Inv, UniqueScalarPointsHere, ScalarsBound, CollapseFresh
    PROVE  UniqueScalarPointsHere' /\ ScalarsBound'
  <1>0. PICK n, d : n = Root(Top.n) /\ d = CollapsedTwin(Root(Top.n))
    OBVIOUS
  <1>1. /\ n \in ClientNode /\ d \notin nodes /\ fwd' = Forwarded(n, d, 0)
        /\ scalar' = [scalar EXCEPT ![n] = NoValue, ![d] = NoValue]
        /\ UNCHANGED cell
    BY <1>0 DEF CollapseFresh
  <1>2. n \in Node /\ d \in Node /\ n # d
    BY <1>0, <1>1, MaxNodesAssumption DEF ClientNode, Node, CollapsedTwin
  <1>3. \A x \in Node : fwd[x].node # n => fwd'[x] = fwd[x]
    BY <1>1 DEF Forwarded
  <1>4. \A x \in Node : scalar'[x] \in {scalar[x], NoValue}
    BY <1>1 DEF Inv, TypeOK
  <1>5. scalar'[n] = NoValue /\ scalar'[d] = NoValue
    BY <1>1, <1>2 DEF Inv, TypeOK
  <1>6. ASSUME NEW x \in Node, ~IsForwarding(x)', x # d
        PROVE  ~IsForwarding(x)
    BY <1>1, <1>6 DEF IsForwarding, Root, Forwarded
  <1> QED
    BY <1>1, <1>3, <1>4, <1>5, <1>6, NoCellChanges

\* what a cell resolves to is in no other node
LEMMA RootCell ==
    ASSUME Inv, NEW c \in CellIn(nodes)
    PROVE  /\ Resolve(c) \in CellIn(Node) /\ Resolve(c) \in CellIn(nodes)
           /\ fwd[Resolve(c).node] = [node |-> Resolve(c).node, off |-> 0]
  <1>1. nodes \subseteq Node /\ c.node \in Node
    BY DEF Inv, TypeOK, CellIn
  <1>2. Resolve(c) \in CellIn(nodes)
    BY ResolvedType DEF Inv
  <1>3. Resolve(c).node = Root(c.node)
    BY DEF Resolve, Root
  <1> QED
    BY <1>1, <1>2, <1>3, FramesGrow DEF Inv, ForwardingResolved

\* visitGep, the cells it binds
LEMMA VisitGepScalars ==
    ASSUME Inv, UniqueScalarPointsHere, ScalarsBound,
           NEW v \in Value, NEW p \in Value, NEW k \in Int, NEW stride \in Nat,
           VisitGep(v, p, k, stride)
    PROVE  UniqueScalarPointsHere' /\ ScalarsBound'
  <1>1. IsGep(v, p, k, stride) /\ UNCHANGED fwd
    BY DEF VisitGep, GepInCollapsed, GepBack, GepBefore, GepIntoArray, GepToField
  <1>2. PICK r, o, a : /\ r = Resolve(cell[p]).node /\ o = Resolve(cell[p]).off
                       /\ a = Address(cell[p]).off
    OBVIOUS
  <1>3. /\ r \in Node /\ o \in Nat /\ a \in Nat /\ r = Address(cell[p]).node
        /\ ~Bound(v)
    BY <1>1, <1>2, GepBase DEF Inv, TypeOK, IsGep, Defines
  <1>4. fwd[r] = [node |-> r, off |-> 0]
    <2>1. cell[p] \in CellIn(nodes)
      BY <1>1, BoundType DEF IsGep, Inv
    <2> QED
      BY <1>2, <2>1, RootCell
  <1>5. \E c \in CellIn(Node) : /\ MkCell(v, c)
                                 /\ fwd[c.node] = [node |-> c.node, off |-> 0]
    <2>1. CASE GepInCollapsed(v, p, k, stride)
      <3>1. PICK c : c = At(r, 0)
        OBVIOUS
      <3>2. c \in CellIn(Node) /\ c.node = r
        BY <1>3, <3>1 DEF At, CellIn
      <3> QED
        BY <1>2, <1>4, <2>1, <3>1, <3>2 DEF GepInCollapsed
    <2>2. CASE GepBack(v, p, k, stride)
      <3>1. PICK c : c = At(r, a + k)
        OBVIOUS
      <3>2. a + k \in Nat
        BY <1>2, <1>3, <2>2 DEF GepBack
      <3>3. c \in CellIn(Node) /\ c.node = r
        BY <1>3, <3>1, <3>2 DEF At, CellIn
      <3> QED
        BY <1>2, <1>3, <1>4, <2>2, <3>1, <3>3 DEF GepBack
    <2>3. CASE GepToField(v, p, k, stride)
      <3>1. PICK c : c = At(r, o + k)
        OBVIOUS
      <3>2. o + k \in Nat
        BY <1>3, <2>3 DEF GepToField
      <3>3. c \in CellIn(Node) /\ c.node = r
        BY <1>3, <3>1, <3>2 DEF At, CellIn
      <3> QED
        BY <1>2, <1>4, <2>3, <3>1, <3>3 DEF GepToField
    <2>4. CASE GepBefore(v, p, k, stride) \/ GepIntoArray(v, p, k, stride)
      <3>1. PICK n \in ClientNode, j \in Nat : MkNode(n) /\ MkCell(v, At(n, j))
        <4>1. CASE GepBefore(v, p, k, stride)
          BY <4>1 DEF GepBefore
        <4>2. CASE GepIntoArray(v, p, k, stride)
          <5>1. k + o \in Nat
            BY <1>3, <4>2 DEF GepIntoArray
          <5> QED
            BY <1>2, <4>2, <5>1 DEF GepIntoArray
        <4> QED
          BY <2>4, <4>1, <4>2
      <3>2. n \in Node /\ n \notin nodes
        BY <3>1, MkNodeType DEF Inv
      <3>3. fwd[n] = [node |-> n, off |-> 0]
        BY <3>2 DEF Inv, TypeOK
      <3>4. PICK c : c = At(n, j)
        OBVIOUS
      <3>5. c \in CellIn(Node) /\ c.node = n
        BY <3>2, <3>4 DEF At, CellIn
      <3> QED
        BY <3>1, <3>3, <3>4, <3>5
    <2> QED
      BY <2>1, <2>2, <2>3, <2>4 DEF VisitGep
  <1> QED
    BY <1>1, <1>3, <1>5, MkCellPoints

\* The unique scalar of a node keeps pointing to its first byte.
LEMMA NextScalars ==
    ASSUME Inv, ClientsLast, UniqueScalarPointsHere, ScalarsBound, [Next]_vars
    PROVE  UniqueScalarPointsHere' /\ ScalarsBound'
  <1>1. CASE UNCHANGED <<fwd, cell, scalar>>
    BY <1>1, NoCellChanges DEF IsForwarding, Root
  <1>2. CASE UNCHANGED <<fwd, cell>> /\ \E n : scalar' = [scalar EXCEPT ![n] = NoValue]
    <2>1. \A n \in Node : scalar'[n] \in {scalar[n], NoValue}
      BY <1>2 DEF Inv, TypeOK
    <2> QED
      BY <1>2, <2>1, NoCellChanges DEF IsForwarding, Root
  <1>3. CASE UnifyAtMerge
    BY <1>3, UnifyAtMergeScalars
  <1>4. CASE CollapseFresh
    BY <1>4, CollapseFreshScalars
  <1>5. CASE BindCell
    <2>1. PICK v, c : v = Top.v /\ c = Resolve(Top.to)
      OBVIOUS
    <2>2. /\ v \in Value /\ c \in CellIn(Node)
          /\ fwd[c.node] = [node |-> c.node, off |-> 0]
      <3>1. Top.v \in Value /\ Top.to \in CellIn(nodes)
        BY <1>5, TopFrame, FramesRead DEF BindCell, Running, Inv
      <3> QED
        BY <2>1, <3>1, RootCell
    <2>3. ~Bound(v)
      BY <1>5, <2>1, ClientOnTop DEF BindCell, Running, ClientOp, Inv
    <2>4. MkCell(v, c) /\ UNCHANGED fwd
      BY <1>5, <2>1 DEF BindCell
    <2> QED
      BY <2>2, <2>3, <2>4, MkCellPoints
  <1>6. CASE BindLinkTarget
    <2>1. PICK l \in FoundLink(Resolve(Top.at).node, LinkOffset(Top.at), Top.ty) :
             MkCell(Top.v, Resolve(l.to))
      BY <1>6 DEF BindLinkTarget
    <2>2. PICK v, c : v = Top.v /\ c = Resolve(l.to)
      OBVIOUS
    <2>3. /\ v \in Value /\ c \in CellIn(Node)
          /\ fwd[c.node] = [node |-> c.node, off |-> 0]
      <3>1. Top.v \in Value /\ Top.at \in CellIn(nodes)
        BY <1>6, TopFrame, FramesRead DEF BindLinkTarget, Running, Inv
      <3>2. Resolve(Top.at).node \in Node
        BY <3>1, ResolvedType DEF Inv
      <3>3. l.to \in CellIn(nodes)
        BY <2>1, <3>2, FoundLinkType DEF Inv
      <3> QED
        BY <2>2, <3>1, <3>3, RootCell
    <2>4. ~Bound(v)
      BY <1>6, <2>2, ClientOnTop DEF BindLinkTarget, Running, ClientOp, Inv
    <2>5. MkCell(v, c) /\ UNCHANGED fwd
      BY <1>6, <2>1, <2>2 DEF BindLinkTarget
    <2> QED
      BY <2>3, <2>4, <2>5, MkCellPoints
  <1>7. CASE \E v \in Value : VisitAlloca(v) \/ VisitInstruction(v)
    <2>1. PICK v \in Value, n \in ClientNode :
             /\ MkNode(n) /\ MkCell(v, At(n, 0)) /\ ~Bound(v) /\ UNCHANGED fwd
      BY <1>7 DEF VisitAlloca, VisitInstruction, Defines
    <2>2. n \in Node /\ n \notin nodes
      BY <2>1, MkNodeType DEF Inv
    <2>3. fwd[n] = [node |-> n, off |-> 0]
      BY <2>2 DEF Inv, TypeOK
    <2>4. PICK c : c = At(n, 0)
      OBVIOUS
    <2>5. c \in CellIn(Node) /\ c.node = n
      BY <2>2, <2>4 DEF At, CellIn
    <2> QED
      BY <2>1, <2>3, <2>4, <2>5, MkCellPoints
  <1>8. CASE \E v, p \in Value, k \in GepOffset, stride \in Stride \cup {0} :
                VisitGep(v, p, k, stride)
    BY <1>8, VisitGepScalars, OffsetAssumption
  <1>9. CASE \/ \E v, p \in Value, ty \in FieldType :
                  VisitLoad(v, p, ty) \/ VisitStore(v, p, ty)
             \/ \E p \in Value, width \in ScalarWidth,
                   mark \in {"read", "modified"} : VisitScalarAccess(p, width, mark)
             \/ \E v, p, q \in Value : VisitSelect(v, p, q)
             \/ \E v, p \in Value : VisitPHINode(v, p)
             \/ \E p \in Value : VisitCollapse(p)
             \/ \E p \in Value, sz \in SeqSize : VisitMakeSeq(p, sz)
    BY <1>1, <1>9 DEF VisitLoad, VisitStore, VisitScalarAccess, VisitSelect,
                      VisitPHINode, VisitCollapse, VisitMakeSeq, nodeVars
  <1>10. CASE \/ UnifyCells \/ UnifyAtCollapse \/ UnifyAtSwap \/ UnifyAtSelf
              \/ CollapseDone \/ AbsorbTypes \/ AbsorbCollapses
              \/ MoveLink \/ AllLinksMoved \/ AddLinkUnifies \/ AddLinkSets
              \/ AddAccessedType \/ AccessCollapses \/ AccessIgnored
              \/ LoadFindsLink \/ LoadMakesLink \/ UNCHANGED vars
    <2>1. UNCHANGED <<fwd, cell, scalar>>
      BY <1>10 DEF UnifyCells, UnifyAtCollapse, UnifyAtSwap, UnifyAtSelf,
                   CollapseDone, AbsorbTypes, AbsorbCollapses, MoveLink,
                   AllLinksMoved, AddLinkUnifies, AddLinkSets, AddAccessedType,
                   AccessCollapses, AccessIgnored, LoadFindsLink, LoadMakesLink,
                   nodeVars, vars, graphVars
    <2> QED
      BY <1>1, <2>1
  <1>11. CASE CollapseInPlace \/ AbsorbMarks
    BY <1>2, <1>11 DEF CollapseInPlace, AbsorbMarks
  <1> QED
    BY <1>3, <1>4, <1>5, <1>6, <1>7, <1>8, <1>9, <1>10, <1>11
       DEF Next, Step, GraphStep, Visit

\* The unique scalar of a node, which later passes take for the one pointer to its
\* memory, points to the first byte of it at every moment: no node that is placed
\* further on in another, or collapses, still names one (Node::setUniqueScalar).
THEOREM ScalarsPointHere == Spec => []UniqueScalarPointsHere
  <1>1. Init => ClientsLast /\ UniqueScalarPointsHere /\ ScalarsBound
    <2> SUFFICES ASSUME Init PROVE ClientsLast /\ UniqueScalarPointsHere /\ ScalarsBound
      OBVIOUS
    <2>1. Len(stack) = 0 /\ \A n \in Node : scalar[n] = NoValue
      BY DEF Init, GraphInit
    <2> QED
      BY <2>1 DEF ClientsLast, UniqueScalarPointsHere, ScalarsBound
  <1>2. /\ Inv /\ ClientsLast /\ UniqueScalarPointsHere /\ ScalarsBound
        /\ [Next]_vars
        => (Inv /\ ClientsLast /\ UniqueScalarPointsHere /\ ScalarsBound)'
    BY NextInv, NextClients, NextScalars
  <1> QED
    BY <1>1, <1>2, InitInv, PTL DEF Spec
=============================================================================
