------------------------------ MODULE DsaGraph ------------------------------
(***************************************************************************)
(* The points-to graph of sea-dsa (lib/seadsa/Graph.cc) and its            *)
(* unification engine.                                                     *)
(*                                                                         *)
(* A node stands for a set of memory objects.  Unifying two cells (a cell  *)
(* is a node and an offset) makes one node forward to the other and moves  *)
(* its size, types, marks, allocation sites and links; moving a link may   *)
(* find another link in its place, which unifies again, in the middle of   *)
(* the first unification.  Node::unifyAt, Node::collapseOffsets,           *)
(* Node::pointTo, Node::addLink and Cell::unify call each other to an      *)
(* arbitrary depth, and each of them goes on with nodes that its callees   *)
(* may have forwarded.  The module keeps that recursion: `stack' holds one *)
(* frame per pending call and every action runs the frame on top up to the *)
(* next call it makes.                                                     *)
(*                                                                         *)
(* Abstractions.  Forwarding is kept resolved (`fwd' maps a node to the    *)
(* cell Node::getNode and Node::getRawOffset would compute by following    *)
(* the chain).  A link is a record, accessed types are the extents they    *)
(* cover.  Offsets are small numbers in place of bytes.  Debug logging,    *)
(* node ids and the type-collapsed mark (Node::collapseTypes has no        *)
(* caller) are left out.                                                   *)
(***************************************************************************)
EXTENDS Integers, Sequences

CONSTANTS
    MaxNodes,     \* nodes the clients may create with Graph::mkNode
    Value,        \* the LLVM values that can be bound to a cell
    NoValue,      \* the null pointer of type llvm::Value *
    FieldType,    \* types that tell links at one offset apart: one, unless
                  \* the analysis is type-aware
    OmniType      \* the field type of i8*; outside FieldType when the analysis
                  \* is not type-aware

ASSUME MaxNodesAssumption == MaxNodes \in Nat \ {0}
ASSUME NoValueAssumption == NoValue \notin Value

VARIABLES
    nodes,    \* Graph::m_nodes
    fwd,      \* where each node's offset 0 now lies, forwarding resolved
    marks,    \* Node::m_nodeType: the flags that are set
    size,     \* Node::m_size
    types,    \* Node::m_accessedTypes, as extents
    links,    \* Node::m_links
    sites,    \* Node::m_alloca_sites
    scalar,   \* Node::m_unique_scalar
    once,     \* Node::m_has_once_unique_scalar
    cell,     \* Graph::m_values
    stack     \* pending calls, the innermost first

nodeVars == <<nodes, fwd, marks, size, types, links, sites, scalar, once>>
graphVars == <<nodes, fwd, marks, size, types, links, sites, scalar, once,
               cell, stack>>

-----------------------------------------------------------------------------
(* Nodes, cells and offsets *)

\* A node is replaced by a collapsed one at most once (see CollapseFresh), so
\* the node that collapseOffsets allocates for n needs no search.
ClientNode == 1 .. MaxNodes
Node == 1 .. (2 * MaxNodes)
CollapsedTwin(n) == n + MaxNodes

\* mutant of MkNode: the node is not entered in the graph
MkNodeUnlisted(n) ==
    /\ n \in ClientNode \ nodes
    /\ \A x \in ClientNode \ nodes : n <= x
    /\ nodes' = nodes

\* Graph::mkNode called by a client
MkNode(n) ==
    /\ n \in ClientNode \ nodes
    /\ \A x \in ClientNode \ nodes : n <= x
    /\ nodes' = nodes \cup {n}

Mark == {"array", "offset_collapsed", "foreign", "alloca", "read", "modified",
         "heap", "external", "int_to_ptr", "ptr_to_int"}
Extent == [off : Nat, width : Nat \ {0}]

\* cells and links into the set S of nodes
CellIn(S) == [node : S, off : Nat]
LinkIn(S) == [off : Nat, ty : FieldType, to : CellIn(S)]
NoCell == [node |-> 0, off |-> 0]

Root(n) == fwd[n].node
Resolve(c) == [node |-> fwd[c.node].node, off |-> fwd[c.node].off + c.off]
IsForwarding(n) == Root(n) # n

IsCollapsed(n) == "offset_collapsed" \in marks[n]
IsArray(n) == "array" \in marks[n]

\* Node::Offset::getNumericOffset on the node n the offset was taken in
Numeric(n, o) ==
    IF IsCollapsed(n) THEN 0
    ELSE IF IsArray(n) THEN o % size[n]
    ELSE o

\* what Cell::getNode and Cell::getOffset show of a cell
Address(c) ==
    LET r == Resolve(c) IN [node |-> r.node, off |-> Numeric(r.node, r.off)]

SameCell(c, d) == Address(c) = Address(d)

\* mutant of JoinMarks: every flag is joined as the foreign flag is
IntersectMarks(a, b) == a \cap b

\* NodeType::join
JoinMarks(a, b) ==
    LET both == ((a \cup b) \ {"foreign"}) \cup (a \cap b \cap {"foreign"})
    IN  IF "offset_collapsed" \in both THEN both \ {"array"} ELSE both

-----------------------------------------------------------------------------
(* Frames: the calls that can be pending *)

FrameIn(S) ==
         [op : {"unify"}, a : CellIn(S), b : CellIn(S)]
    \cup [op : {"unifyAt"}, n : S, m : S, o : Nat]
    \cup [op : {"collapse"}, n : S]
    \* Node::pointTo once the forwarding is set: merge the types, then the marks
    \cup [op : {"absorb", "annotate"}, n : S, m : S, o : Nat]
    \* the loops that re-add links through a cell, and one Cell::addLink
    \cup [op : {"links"}, via : CellIn(S), rest : SUBSET LinkIn(S)]
    \cup [op : {"addLink"}, at : CellIn(S), ty : FieldType, to : CellIn(S)]
    \* Cell::addAccessedType
    \cup [op : {"access"}, at : CellIn(S), width : Nat \ {0}]
    \* what a client does once its calls have returned
    \cup [op : {"bind"}, v : Value, to : CellIn(S)]
    \cup [op : {"load", "bindLink"}, v : Value, at : CellIn(S), ty : FieldType]

Unify(a, b) == [op |-> "unify", a |-> a, b |-> b]
UnifyAt(n, m, o) == [op |-> "unifyAt", n |-> n, m |-> m, o |-> o]
Collapse(n) == [op |-> "collapse", n |-> n]
Absorb(n, m, o) == [op |-> "absorb", n |-> n, m |-> m, o |-> o]
Annotate(n, m, o) == [op |-> "annotate", n |-> n, m |-> m, o |-> o]
Links(via, rest) == [op |-> "links", via |-> via, rest |-> rest]
AddLink(at, ty, to) == [op |-> "addLink", at |-> at, ty |-> ty, to |-> to]
Access(at, width) == [op |-> "access", at |-> at, width |-> width]
Bind(v, to) == [op |-> "bind", v |-> v, to |-> to]
Load(v, at, ty) == [op |-> "load", v |-> v, at |-> at, ty |-> ty]
BindLink(v, at, ty) == [op |-> "bindLink", v |-> v, at |-> at, ty |-> ty]

Idle == stack = <<>>
Top == Head(stack)
Running(op) == stack # <<>> /\ Top.op = op
\* the frame on top makes the calls fs, in order, and is done
Continue(fs) == stack' = fs \o Tail(stack)
Return == Continue(<<>>)

-----------------------------------------------------------------------------
(* Cell::unify: the cell with the smaller offset is placed in the other one *)

\* mutant of UnifyCells: the cells take each other's place
UnifyCellsSwapped ==
    /\ Running("unify")
    /\ LET a == Resolve(Top.a)
           b == Resolve(Top.b)
       IN  Continue(<<IF a.off < b.off
                      THEN UnifyAt(a.node, b.node, b.off - a.off)
                      ELSE UnifyAt(b.node, a.node, a.off - b.off)>>)
    /\ UNCHANGED <<nodeVars, cell>>

UnifyCells ==
    /\ Running("unify")
    /\ LET a == Resolve(Top.a)
           b == Resolve(Top.b)
       IN  Continue(<<IF a.off < b.off
                      THEN UnifyAt(b.node, a.node, b.off - a.off)
                      ELSE UnifyAt(a.node, b.node, a.off - b.off)>>)
    /\ UNCHANGED <<nodeVars, cell>>

(* Node::unifyAt: node m is placed at offset o of node n *)

\* mutant of ArrayIntoScalar: the array is merged into the scalar node
NeverArrayIntoScalar(n, m) == FALSE

ArrayIntoScalar(n, m) ==
    ~IsCollapsed(n) /\ ~IsCollapsed(m) /\ IsArray(m) /\ ~IsArray(n)
ArrayIntoArray(n, m) == IsArray(n) /\ IsArray(m)
ScalarIntoArray(n, m) == IsArray(n) /\ ~IsArray(m)

Smaller(n, m) == IF size[n] <= size[m] THEN n ELSE m
Larger(n, m) == IF size[n] <= size[m] THEN m ELSE n

\* mutant of CannotPlace: the sizes of two arrays need not divide each other
PlaceAnySize(n, m, o) ==
    \/ IsCollapsed(m) /\ ~IsCollapsed(n)
    \/ ArrayIntoScalar(n, m) /\ Numeric(n, o) # 0
    \/ ArrayIntoArray(n, m) /\ Numeric(Smaller(n, m), o) # 0
    \/ /\ ScalarIntoArray(n, m)
       /\ Numeric(n, o) # 0
       /\ Numeric(n, o) + size[m] > size[n]

CannotPlace(n, m, o) ==
    \/ IsCollapsed(m) /\ ~IsCollapsed(n)
    \/ ArrayIntoScalar(n, m) /\ Numeric(n, o) # 0
    \/ /\ ArrayIntoArray(n, m)
       /\ \/ size[Larger(n, m)] % size[Smaller(n, m)] # 0
          \/ Numeric(Smaller(n, m), o) # 0
    \/ /\ ScalarIntoArray(n, m)
       /\ Numeric(n, o) # 0
       /\ Numeric(n, o) + size[m] > size[n]

MustSwap(n, m, o) ==
    /\ ~CannotPlace(n, m, o)
    /\ \/ ArrayIntoScalar(n, m)
       \/ ArrayIntoArray(n, m) /\ Smaller(n, m) # n

UnifyAtCollapse ==
    /\ Running("unifyAt")
    /\ LET n == Root(Top.n)
           m == Root(Top.m)
       IN  /\ CannotPlace(n, m, Top.o)
           /\ Continue(<<Collapse(n), UnifyAt(n, m, Top.o)>>)
    /\ UNCHANGED <<nodeVars, cell>>

UnifyAtSwap ==
    /\ Running("unifyAt")
    /\ LET n == Root(Top.n)
           m == Root(Top.m)
       IN  /\ MustSwap(n, m, Top.o)
           /\ Continue(<<UnifyAt(m, n, 0)>>)
    /\ UNCHANGED <<nodeVars, cell>>

\* mutant of UnifyAtSelf: a node placed inside itself does not collapse
UnifyAtSelfIgnored ==
    /\ Running("unifyAt")
    /\ Root(Top.n) = Root(Top.m)
    /\ ~CannotPlace(Root(Top.n), Root(Top.n), Top.o)
    /\ Return
    /\ UNCHANGED <<nodeVars, cell>>

UnifyAtSelf ==
    /\ Running("unifyAt")
    /\ LET n == Root(Top.n)
       IN  /\ n = Root(Top.m)
           /\ ~CannotPlace(n, n, Top.o)
           /\ Continue(IF Numeric(n, Top.o) > 0 THEN <<Collapse(n)>> ELSE <<>>)
    /\ UNCHANGED <<nodeVars, cell>>

(* Node::pointTo, from its entry to the merging of the accessed types *)

\* mutant of Forwarded: the offsets inside n are kept as offsets inside m
ForwardedFlat(n, m, o) ==
    [x \in Node |-> IF fwd[x].node = n
                    THEN [node |-> m, off |-> fwd[x].off]
                    ELSE fwd[x]]

\* Node::m_forward.pointTo.  The code repoints n only; getNode and getRawOffset follow
\* the chains that this makes, adding up the offsets, and so fwd says at once where they
\* lead: every node that lay in n lies in m, o further on.
Forwarded(n, m, o) ==
    [x \in Node |-> IF fwd[x].node = n
                    THEN [node |-> m, off |-> fwd[x].off + o]
                    ELSE fwd[x]]

\* setUniqueScalar(nullptr) at the destination
KillsScalar(n, m, o) == o # 0 \/ scalar[n] # scalar[m]

UnifyAtMerge ==
    /\ Running("unifyAt")
    /\ LET n == Root(Top.n)
           m == Root(Top.m)
           o == Numeric(n, Top.o)
       IN  /\ n # m
           /\ ~CannotPlace(n, m, Top.o)
           /\ ~MustSwap(n, m, Top.o)
           /\ fwd' = Forwarded(m, n, o)
           /\ scalar' = [scalar EXCEPT ![n] =
                             IF KillsScalar(m, n, o) THEN NoValue ELSE @]
           /\ once' = [once EXCEPT ![n] = @ \/ KillsScalar(m, n, o)]
           /\ Continue(<<Absorb(m, n, o)>>)
    /\ UNCHANGED <<nodes, marks, size, types, links, sites, cell>>

(* Node::collapseOffsets *)

CollapseDone ==
    /\ Running("collapse")
    /\ IsCollapsed(Root(Top.n))
    /\ Return
    /\ UNCHANGED <<nodeVars, cell>>

CollapseInPlace ==
    /\ Running("collapse")
    /\ LET n == Root(Top.n)
       IN  /\ ~IsCollapsed(n)
           /\ size[n] <= 1
           /\ scalar' = [scalar EXCEPT ![n] = NoValue]
           /\ size' = [size EXCEPT ![n] = 1]
           /\ marks' = [marks EXCEPT ![n] =
                            (@ \cup {"offset_collapsed"}) \ {"array"}]
    /\ Return
    /\ UNCHANGED <<nodes, fwd, types, links, sites, once, cell>>

\* The replacement is created collapsed and stays so: this is the one place
\* outside the clients that allocates, and it runs at most once per node.
CollapseFresh ==
    /\ Running("collapse")
    /\ LET n == Root(Top.n)
           c == CollapsedTwin(n)
       IN  /\ n \in ClientNode
           /\ c \notin nodes
           /\ ~IsCollapsed(n)
           /\ size[n] > 1
           /\ nodes' = nodes \cup {c}
           /\ fwd' = Forwarded(n, c, 0)
           /\ marks' = [marks EXCEPT ![c] =
                           (JoinMarks({}, marks[n]) \cup {"offset_collapsed"})
                           \ {"array"}]
           /\ size' = [size EXCEPT ![c] = 1]
           /\ scalar' = [scalar EXCEPT ![n] = NoValue, ![c] = NoValue]
           /\ Continue(<<Absorb(n, c, 0)>>)
    /\ UNCHANGED <<types, links, sites, once, cell>>

(* Node::growSize and Node::addAccessedType for a set of primitive types *)

\* mutant of Placed: the types of n are merged without their offset
PlacedUnshifted(m, e, o) == [off |-> Numeric(m, e.off), width |-> e.width]

\* where extent e of a node placed at offset o of node m lands
Placed(m, e, o) == [off |-> Numeric(m, e.off + o), width |-> e.width]
\* mutant of Overflows: only the first byte of the type is looked at
OverflowsByOffset(m, e) == IsArray(m) /\ e.off >= size[m]

Overflows(m, e) == IsArray(m) /\ e.off + e.width > size[m]

\* z is the size of node m once it has grown to hold the extents es
Ends(m, es) ==
    {size[m]} \cup IF IsArray(m) THEN {} ELSE {e.off + e.width : e \in es}
GrowsTo(m, es, z) == \A y \in Ends(m, es) : y <= z

(* Node::joinAccessedTypes: m holds the types of n from offset o on.  An   *)
(* array that does not hold one of them collapses, which drops them all.    *)

JoinedTypes(n, m, o) ==
    IF IsCollapsed(n) \/ IsCollapsed(m) THEN {}
    ELSE {Placed(m, e, o) : e \in types[n]}

AbsorbTypes ==
    /\ Running("absorb")
    /\ LET n == Top.n
           m == Top.m
           es == JoinedTypes(n, m, Top.o)
       IN  /\ \A e \in es : ~Overflows(m, e)
           /\ types' = [types EXCEPT ![m] = @ \cup es]
           /\ \E z \in Ends(m, es) :
                 GrowsTo(m, es, z) /\ size' = [size EXCEPT ![m] = z]
           /\ Continue(<<Annotate(n, m, Top.o)>>)
    /\ UNCHANGED <<nodes, fwd, marks, links, sites, scalar, once, cell>>

AbsorbCollapses ==
    /\ Running("absorb")
    /\ \E e \in JoinedTypes(Top.n, Top.m, Top.o) : Overflows(Top.m, e)
    /\ Continue(<<Collapse(Top.m), Annotate(Top.n, Top.m, Top.o)>>)
    /\ UNCHANGED <<nodeVars, cell>>

(* Node::pointTo, the rest: marks go to the node m has become, allocation  *)
(* sites to m itself, links to wherever n forwards; n is then reset (the    *)
(* code resets it after the last link, and reads nothing of it meanwhile).  *)

\* mutant of AbsorbMarks: allocation sites stay behind
AbsorbMarksNotSites ==
    /\ Running("annotate")
    /\ LET n == Top.n
           m == Top.m
       IN  /\ marks' = [marks EXCEPT ![Root(m)] = JoinMarks(@, marks[n]),
                                     ![n] = {}]
           /\ size' = [size EXCEPT ![n] = 0]
           /\ types' = [types EXCEPT ![n] = {}]
           /\ links' = [links EXCEPT ![n] = {}]
           /\ scalar' = [scalar EXCEPT ![n] = NoValue]
           /\ Continue(<<Links([node |-> n, off |-> 0], links[n])>>)
    /\ UNCHANGED <<nodes, fwd, sites, once, cell>>

AbsorbMarks ==
    /\ Running("annotate")
    /\ LET n == Top.n
           m == Top.m
       IN  /\ marks' = [marks EXCEPT ![Root(m)] = JoinMarks(@, marks[n]),
                                     ![n] = {}]
           /\ sites' = [sites EXCEPT ![m] = @ \cup sites[n], ![n] = {}]
           /\ size' = [size EXCEPT ![n] = 0]
           /\ types' = [types EXCEPT ![n] = {}]
           /\ links' = [links EXCEPT ![n] = {}]
           /\ scalar' = [scalar EXCEPT ![n] = NoValue]
           /\ Continue(<<Links([node |-> n, off |-> 0], links[n])>>)
    /\ UNCHANGED <<nodes, fwd, once, cell>>

\* links are kept sorted by offset, then type
MoveLink ==
    /\ Running("links")
    /\ \E l \in Top.rest :
          /\ \A k \in Top.rest : l.off <= k.off
          /\ Continue(<<AddLink([Top.via EXCEPT !.off = @ + l.off],
                                l.ty, l.to),
                        Links(Top.via, Top.rest \ {l})>>)
    /\ UNCHANGED <<nodeVars, cell>>

AllLinksMoved ==
    /\ Running("links")
    /\ Top.rest = {}
    /\ Return
    /\ UNCHANGED <<nodeVars, cell>>

(* Cell::addLink and Node::addLink *)

LinkAt(n, o, ty) == {l \in links[n] : l.off = o /\ l.ty = ty}
\* mutant of FoundLink: the omni link is not looked at
FoundLinkOfType(n, o, ty) == LinkAt(n, o, ty)

\* where addLink and getLink look, in this order
FoundLink(n, o, ty) ==
    IF LinkAt(n, o, ty) # {} THEN LinkAt(n, o, ty) ELSE LinkAt(n, o, OmniType)

\* mutant of LinkOffset: getRawOffset in place of getOffset
LinkOffsetRaw(at) == Resolve(at).off

LinkOffset(at) == LET r == Resolve(at) IN Numeric(r.node, r.off)

\* mutant of AddLinkUnifies: a link that is found is left as it is
AddLinkKeepsOld ==
    /\ Running("addLink")
    /\ FoundLink(Resolve(Top.at).node, LinkOffset(Top.at), Top.ty) # {}
    /\ Return
    /\ UNCHANGED <<nodeVars, cell>>

AddLinkUnifies ==
    /\ Running("addLink")
    /\ \E l \in FoundLink(Resolve(Top.at).node, LinkOffset(Top.at), Top.ty) :
          Continue(<<Unify(l.to, Top.to)>>)
    /\ UNCHANGED <<nodeVars, cell>>

\* mutant of AddLinkSets: the displaced links are not added again
AddLinkDrops ==
    /\ Running("addLink")
    /\ LET n == Resolve(Top.at).node
           o == LinkOffset(Top.at)
           l == [off |-> o, ty |-> Top.ty, to |-> Top.to]
           displaced == IF Top.ty = OmniType
                        THEN {k \in links[n] : k.off = o}
                        ELSE {}
       IN  /\ FoundLink(n, o, Top.ty) = {}
           /\ links' = [links EXCEPT ![n] = (@ \ displaced) \cup {l}]
    /\ Return
    /\ UNCHANGED <<nodes, fwd, marks, size, types, sites, scalar, once, cell>>

\* a link of the omni type takes the place of every link at its offset; those
\* are added again and find it
AddLinkSets ==
    /\ Running("addLink")
    /\ LET n == Resolve(Top.at).node
           o == LinkOffset(Top.at)
           l == [off |-> o, ty |-> Top.ty, to |-> Top.to]
           displaced == IF Top.ty = OmniType
                        THEN {k \in links[n] : k.off = o}
                        ELSE {}
       IN  /\ FoundLink(n, o, Top.ty) = {}
           /\ links' = [links EXCEPT ![n] = (@ \ displaced) \cup {l}]
           /\ Continue(IF displaced = {} THEN <<>>
                       ELSE <<Links([node |-> n, off |-> 0], displaced)>>)
    /\ UNCHANGED <<nodes, fwd, marks, size, types, sites, scalar, once, cell>>

(* Cell::growSize and Cell::addAccessedType *)

AccessedExtent(c, width) == [off |-> LinkOffset(c), width |-> width]

AddAccessedType ==
    /\ Running("access")
    /\ LET n == Resolve(Top.at).node
           e == AccessedExtent(Top.at, Top.width)
       IN  /\ ~IsCollapsed(n)
           /\ ~Overflows(n, e)
           /\ types' = [types EXCEPT ![n] = @ \cup {e}]
           /\ \E z \in Ends(n, {e}) :
                 GrowsTo(n, {e}, z) /\ size' = [size EXCEPT ![n] = z]
    /\ Return
    /\ UNCHANGED <<nodes, fwd, marks, links, sites, scalar, once, cell>>

AccessCollapses ==
    /\ Running("access")
    /\ LET n == Resolve(Top.at).node
       IN  /\ ~IsCollapsed(n)
           /\ Overflows(n, AccessedExtent(Top.at, Top.width))
           /\ Continue(<<Collapse(n)>>)
    /\ UNCHANGED <<nodeVars, cell>>

AccessIgnored ==
    /\ Running("access")
    /\ IsCollapsed(Resolve(Top.at).node)
    /\ Return
    /\ UNCHANGED <<nodeVars, cell>>

(* Graph::mkCell for a value that has no cell yet *)

\* mutant of NewScalar: a pointer into the node counts
NewScalarAnyOffset(v, c) == IF once[c.node] THEN NoValue ELSE v

NewScalar(v, c) ==
    IF c.off = 0 /\ ~once[c.node] THEN v
    ELSE IF c.off = 0 \/ once[c.node] THEN NoValue
    ELSE scalar[c.node]

MkCell(v, c) ==
    /\ cell' = [cell EXCEPT ![v] = c]
    /\ scalar' = [scalar EXCEPT ![c.node] = NewScalar(v, c)]
    /\ once' = [once EXCEPT ![c.node] = @ \/ c.off = 0]

BindCell ==
    /\ Running("bind")
    /\ MkCell(Top.v, Resolve(Top.to))
    /\ Return
    /\ UNCHANGED <<nodes, fwd, marks, size, types, links, sites>>

BindLinkTarget ==
    /\ Running("bindLink")
    /\ \E l \in FoundLink(Resolve(Top.at).node, LinkOffset(Top.at), Top.ty) :
          MkCell(Top.v, Resolve(l.to))
    /\ Return
    /\ UNCHANGED <<nodes, fwd, marks, size, types, links, sites>>

-----------------------------------------------------------------------------
GraphStep ==
    \/ UnifyCells
    \/ UnifyAtCollapse \/ UnifyAtSwap \/ UnifyAtSelf \/ UnifyAtMerge
    \/ CollapseDone \/ CollapseInPlace \/ CollapseFresh
    \/ AbsorbTypes \/ AbsorbCollapses \/ AbsorbMarks
    \/ MoveLink \/ AllLinksMoved
    \/ AddLinkUnifies \/ AddLinkSets
    \/ AddAccessedType \/ AccessCollapses \/ AccessIgnored
    \/ BindCell \/ BindLinkTarget

GraphInit ==
    /\ nodes = {}
    /\ fwd = [n \in Node |-> [node |-> n, off |-> 0]]
    /\ marks = [n \in Node |-> {}]
    /\ size = [n \in Node |-> 0]
    /\ types = [n \in Node |-> {}]
    /\ links = [n \in Node |-> {}]
    /\ sites = [n \in Node |-> {}]
    /\ scalar = [n \in Node |-> NoValue]
    /\ once = [n \in Node |-> FALSE]
    /\ cell = [v \in Value |-> NoCell]
    /\ stack = <<>>

\* No cell, link or pending call refers to a node that is not in the graph, and
\* a node that is not in the graph is as the constructor of Node leaves it.
TypeOK ==
    /\ nodes \subseteq Node
    /\ fwd \in [Node -> CellIn(Node)]
    /\ \A n \in nodes : Root(n) \in nodes
    /\ marks \in [Node -> SUBSET Mark]
    /\ size \in [Node -> Nat]
    /\ types \in [Node -> SUBSET Extent]
    /\ links \in [Node -> SUBSET LinkIn(nodes)]
    /\ sites \in [Node -> SUBSET Value]
    /\ scalar \in [Node -> Value \cup {NoValue}]
    /\ once \in [Node -> BOOLEAN]
    /\ cell \in [Value -> CellIn(nodes) \cup {NoCell}]
    /\ stack \in Seq(FrameIn(nodes))
    /\ \A n \in Node \ nodes : fwd[n] = [node |-> n, off |-> 0] /\ marks[n] = {}
=============================================================================
