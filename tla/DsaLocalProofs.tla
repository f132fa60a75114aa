--------------------------- MODULE DsaLocalProofs ---------------------------
(***************************************************************************)
(* Proofs about the unification engine, for every set of values, every     *)
(* number of nodes and every function the local analysis may visit.        *)
(***************************************************************************)
EXTENDS DsaLocal, TLAPS

(* Frames: what a pending call holds, and that it stays well formed as the  *)
(* graph gains nodes.                                                       *)

\* what a handler puts on the stack is a frame over the nodes it names
LEMMA FramesBuilt ==
    ASSUME NEW S, NEW c \in CellIn(S), NEW d \in CellIn(S), NEW n \in S,
           NEW m \in S, NEW o \in Nat, NEW ty \in FieldType,
           NEW rest \in SUBSET LinkIn(S), NEW w \in Nat \ {0}, NEW v \in Value
    PROVE  /\ Unify(c, d) \in FrameIn(S)
           /\ UnifyAt(n, m, o) \in FrameIn(S)
           /\ Collapse(n) \in FrameIn(S)
           /\ Absorb(n, m, o) \in FrameIn(S)
           /\ Annotate(n, m, o) \in FrameIn(S)
           /\ Links(c, rest) \in FrameIn(S)
           /\ AddLink(c, ty, d) \in FrameIn(S)
           /\ Access(c, w) \in FrameIn(S)
           /\ Bind(v, c) \in FrameIn(S)
           /\ Load(v, c, ty) \in FrameIn(S)
           /\ BindLink(v, c, ty) \in FrameIn(S)
  BY DEF FrameIn, Unify, UnifyAt, Collapse, Absorb, Annotate, Links, AddLink,
         Access, Bind, Load, BindLink

\* what a handler reads off the stack is over the nodes of the frame
LEMMA FramesRead ==
    ASSUME NEW S, NEW f \in FrameIn(S)
    PROVE  /\ f.op = "unify" => f.a \in CellIn(S) /\ f.b \in CellIn(S)
           /\ f.op = "unifyAt" => f.n \in S /\ f.m \in S /\ f.o \in Nat
           /\ f.op = "collapse" => f.n \in S
           /\ f.op \in {"absorb", "annotate"} =>
                  f.n \in S /\ f.m \in S /\ f.o \in Nat
           /\ f.op = "links" => f.via \in CellIn(S) /\ f.rest \subseteq LinkIn(S)
           /\ f.op = "addLink" =>
                  f.at \in CellIn(S) /\ f.ty \in FieldType /\ f.to \in CellIn(S)
           /\ f.op = "access" => f.at \in CellIn(S) /\ f.width \in Nat \ {0}
           /\ f.op = "bind" => f.v \in Value /\ f.to \in CellIn(S)
           /\ f.op \in {"load", "bindLink"} =>
                  f.v \in Value /\ f.at \in CellIn(S) /\ f.ty \in FieldType
  BY DEF FrameIn

\* cells, links and frames over some nodes are so over more nodes
LEMMA FramesGrow ==
    ASSUME NEW S, NEW T, S \subseteq T
    PROVE  /\ CellIn(S) \subseteq CellIn(T)
           /\ LinkIn(S) \subseteq LinkIn(T)
           /\ FrameIn(S) \subseteq FrameIn(T)
  <1>1. CellIn(S) \subseteq CellIn(T)
    BY DEF CellIn
  <1>2. LinkIn(S) \subseteq LinkIn(T)
    BY <1>1 DEF LinkIn
  <1>3. FrameIn(S) \subseteq FrameIn(T)
    BY <1>1, <1>2 DEF FrameIn
  <1> QED
    BY <1>1, <1>2, <1>3

\* the frame f is pending on s
On(f, s) == \E j \in 1 .. Len(s) : s[j] = f

\* a stack whose top is replaced by frames over more nodes
LEMMA StackTyped ==
    ASSUME NEW S, NEW T, S \subseteq T, NEW s \in Seq(FrameIn(S)), s # <<>>,
           NEW fs \in Seq(FrameIn(T))
    PROVE  fs \o Tail(s) \in Seq(FrameIn(T))
  <1>1. FrameIn(S) \subseteq FrameIn(T)
    BY FramesGrow
  <1> QED
    BY <1>1

\* a frame of such a stack is new or was pending before
LEMMA StackHolds ==
    ASSUME NEW F, NEW s \in Seq(F), s # <<>>, NEW fs \in Seq(F),
           NEW f, On(f, fs \o Tail(s))
    PROVE  On(f, fs) \/ On(f, s)
  <1>1. Tail(s) \in Seq(F) /\ Len(s) \in Nat /\ Len(s) > 0
    OBVIOUS
  <1>2. PICK i \in 1 .. Len(fs \o Tail(s)) : (fs \o Tail(s))[i] = f
    BY DEF On
  <1>3. Len(fs \o Tail(s)) = Len(fs) + (Len(s) - 1)
    BY <1>1
  <1>4. CASE i \in 1 .. Len(fs)
    BY <1>1, <1>2, <1>4 DEF On
  <1>5. CASE i \notin 1 .. Len(fs)
    <2>1. i - Len(fs) \in 1 .. (Len(s) - 1)
      BY <1>1, <1>3, <1>5
    <2>2. (fs \o Tail(s))[i] = Tail(s)[i - Len(fs)]
      BY <1>1, <1>3, <2>1
    <2>3. Tail(s)[i - Len(fs)] = s[i - Len(fs) + 1]
      BY <1>1, <2>1
    <2> QED
      BY <1>1, <1>2, <2>1, <2>2, <2>3 DEF On
  <1> QED
    BY <1>4, <1>5

-----------------------------------------------------------------------------
(* The inductive invariant.                                                 *)

\* What a pending pointTo relies on: its source forwards already, and whatever
\* makes the source collapsed or an array is true of the destination, so that
\* joining the marks of the source turns no node into an array.
MergeSound(f) ==
    f.op \in {"absorb", "annotate"} =>
        /\ IsForwarding(f.n)
        /\ IsCollapsed(f.n) => IsCollapsed(Root(f.m))
        /\ IsArray(f.n) => IsArray(Root(f.m)) \/ IsCollapsed(Root(f.m))

MergesSound == \A f : On(f, stack) => MergeSound(f)

\* how fwd stands for the chains of forwarding nodes (see Forwarded): it says where
\* they end
ForwardingResolved ==
    \A n \in Node : fwd[Root(n)] = [node |-> Root(n), off |-> 0]

Inv == TypeOK /\ ForwardingResolved /\ ArraysHaveSize /\ MergesSound

(* Offsets are natural numbers: no array has size zero. *)

\* Node::Offset::getNumericOffset returns a number: it never divides by zero
LEMMA NumericIsNat ==
    ASSUME TypeOK, ArraysHaveSize, NEW n \in Node, NEW o \in Nat
    PROVE  Numeric(n, o) \in Nat
  <1>1. size[n] \in Nat /\ (IsArray(n) => size[n] > 0)
    BY DEF TypeOK, ArraysHaveSize
  <1>2. IsArray(n) => o % size[n] \in Nat
    BY <1>1
  <1> QED
    BY <1>1, <1>2 DEF Numeric

\* Cell::getNode and getRawOffset lead to a node of the graph
LEMMA ResolvedType ==
    ASSUME TypeOK, NEW c \in CellIn(nodes)
    PROVE  /\ Resolve(c) \in CellIn(nodes)
           /\ Resolve(c).node \in nodes
           /\ Resolve(c).node \in Node
           /\ Resolve(c).node = Root(c.node)
           /\ Resolve(c).off \in Nat
           /\ Resolve(c).off = fwd[c.node].off + c.off
  BY DEF TypeOK, Resolve, CellIn, Root

\* what Cell::getNode and Cell::getOffset show is a node of the graph and a number
LEMMA AddressType ==
    ASSUME TypeOK, ArraysHaveSize, NEW c \in CellIn(nodes)
    PROVE  /\ Address(c).node = Resolve(c).node
           /\ Address(c).off \in Nat
           /\ Address(c).off = Numeric(Resolve(c).node, Resolve(c).off)
           /\ LinkOffset(c) = Address(c).off
  BY ResolvedType, NumericIsNat DEF Address, LinkOffset

\* Node::getNode leads to a node of the graph
LEMMA RootType ==
    ASSUME TypeOK, NEW n \in nodes
    PROVE  n \in Node /\ Root(n) \in nodes /\ Root(n) \in Node
  BY DEF TypeOK

\* Node::getNode leads to a node that does not forward
LEMMA RootOfRoot ==
    ASSUME ForwardingResolved, NEW n \in Node
    PROVE  Root(Root(n)) = Root(n)
  <1>1. fwd[Root(n)] = [node |-> Root(n), off |-> 0]
    BY DEF ForwardingResolved
  <1> QED
    BY <1>1 DEF Root

\* the call that runs is over nodes of the graph
LEMMA TopFrame ==
    ASSUME TypeOK, stack # <<>>
    PROVE  Top \in FrameIn(nodes) /\ On(Top, stack)
  BY DEF TypeOK, Top, On

\* the stack after a step: well formed, and nothing on it but calls of the step
\* and calls that were pending
LEMMA StackContinues ==
    ASSUME TypeOK, stack # <<>>, NEW T, nodes \subseteq T,
           NEW fs \in Seq(FrameIn(T)), Continue(fs)
    PROVE  /\ stack' \in Seq(FrameIn(T))
           /\ \A f : On(f, stack') => On(f, fs) \/ On(f, stack)
  <1>1. stack \in Seq(FrameIn(nodes)) /\ stack' = fs \o Tail(stack)
    BY DEF Continue, TypeOK
  <1>2. stack' \in Seq(FrameIn(T))
    BY <1>1, StackTyped
  <1>3. stack \in Seq(FrameIn(T))
    <2>1. FrameIn(nodes) \subseteq FrameIn(T)
      BY FramesGrow
    <2> QED
      BY <1>1, <2>1
  <1>4. ASSUME NEW f, On(f, stack')
        PROVE  On(f, fs) \/ On(f, stack)
    BY <1>1, <1>3, <1>4, StackHolds
  <1> QED
    BY <1>2, <1>4

(* A step that only exchanges the top frame for others. *)

\* a step that only calls keeps the invariant, when the calls are sound
LEMMA CallsPreserveInv ==
    ASSUME Inv, stack # <<>>, NEW fs \in Seq(FrameIn(nodes)),
           \A f : On(f, fs) => MergeSound(f),
           Continue(fs), UNCHANGED <<nodeVars, cell>>
    PROVE  Inv'
  <1>1. /\ stack' \in Seq(FrameIn(nodes))
        /\ \A f : On(f, stack') => On(f, fs) \/ On(f, stack)
    BY StackContinues DEF Inv
  <1>2. TypeOK'
    BY <1>1 DEF Inv, TypeOK, nodeVars, Root
  <1>3. ForwardingResolved' /\ ArraysHaveSize'
    BY DEF Inv, ForwardingResolved, ArraysHaveSize, nodeVars, Root, IsArray
  <1>4. ASSUME NEW f, On(f, stack')
        PROVE  MergeSound(f)'
    <2>1. MergeSound(f)
      BY <1>1, <1>4 DEF Inv, MergesSound
    <2> QED
      BY <2>1 DEF MergeSound, nodeVars, IsForwarding, IsCollapsed, IsArray, Root
  <1> QED
    BY <1>2, <1>3, <1>4 DEF Inv, MergesSound, On

\* the same for one call
LEMMA OneCall ==
    ASSUME Inv, stack # <<>>, NEW x \in FrameIn(nodes), MergeSound(x),
           Continue(<<x>>), UNCHANGED <<nodeVars, cell>>
    PROVE  Inv'
  <1>1. <<x>> \in Seq(FrameIn(nodes))
    OBVIOUS
  <1>2. \A f : On(f, <<x>>) => MergeSound(f)
    BY DEF On
  <1> QED
    BY <1>1, <1>2, CallsPreserveInv

\* the same for two calls
LEMMA TwoCalls ==
    ASSUME Inv, stack # <<>>, NEW x \in FrameIn(nodes), MergeSound(x),
           NEW y \in FrameIn(nodes), MergeSound(y),
           Continue(<<x, y>>), UNCHANGED <<nodeVars, cell>>
    PROVE  Inv'
  <1>1. <<x, y>> \in Seq(FrameIn(nodes))
    OBVIOUS
  <1>2. \A f : On(f, <<x, y>>) => MergeSound(f)
    BY DEF On
  <1> QED
    BY <1>1, <1>2, CallsPreserveInv

\* the same for a plain return
LEMMA NoCall ==
    ASSUME Inv, stack # <<>>, Return, UNCHANGED <<nodeVars, cell>>
    PROVE  Inv'
  <1>1. <<>> \in Seq(FrameIn(nodes)) /\ \A f : ~On(f, <<>>)
    BY DEF On
  <1> QED
    BY <1>1, CallsPreserveInv DEF Return

(* The steps that change the stack only. *)

\* Cell::unify calls unifyAt with an offset that is not negative
LEMMA UnifyCellsInv == Inv /\ UnifyCells => Inv'
  <1> SUFFICES ASSUME Inv, UnifyCells PROVE Inv'
    OBVIOUS
  <1> DEFINE a == Resolve(Top.a)
             b == Resolve(Top.b)
             x == IF a.off < b.off THEN UnifyAt(b.node, a.node, b.off - a.off)
                  ELSE UnifyAt(a.node, b.node, a.off - b.off)
  <1>1. stack # <<>> /\ Continue(<<x>>) /\ UNCHANGED <<nodeVars, cell>>
    BY DEF UnifyCells, Running
  <1>2. Top.a \in CellIn(nodes) /\ Top.b \in CellIn(nodes)
    BY TopFrame, FramesRead DEF Inv, UnifyCells, Running
  <1>3. a.node \in nodes /\ b.node \in nodes /\ a.off \in Nat /\ b.off \in Nat
    BY <1>2, ResolvedType DEF Inv
  <1>4. x \in FrameIn(nodes) /\ MergeSound(x)
    BY <1>3 DEF UnifyAt, FrameIn, MergeSound
  <1> QED
    BY <1>1, <1>4, OneCall

\* what unifyAt starts with
LEMMA UnifyAtTop ==
    ASSUME Inv, Running("unifyAt")
    PROVE  /\ stack # <<>>
           /\ Top.n \in nodes /\ Top.m \in nodes /\ Top.o \in Nat
           /\ Root(Top.n) \in nodes /\ Root(Top.n) \in Node
           /\ Root(Top.m) \in nodes /\ Root(Top.m) \in Node
           /\ Numeric(Root(Top.n), Top.o) \in Nat
  <1>1. stack # <<>> /\ Top.n \in nodes /\ Top.m \in nodes /\ Top.o \in Nat
    BY TopFrame, FramesRead DEF Inv, Running
  <1>2. /\ Root(Top.n) \in nodes /\ Root(Top.n) \in Node
        /\ Root(Top.m) \in nodes /\ Root(Top.m) \in Node
    BY <1>1, RootType DEF Inv
  <1> QED
    BY <1>1, <1>2, NumericIsNat DEF Inv

\* unifyAt, where it collapses the destination and tries again
LEMMA UnifyAtCollapseInv == Inv /\ UnifyAtCollapse => Inv'
  <1> SUFFICES ASSUME Inv, UnifyAtCollapse PROVE Inv'
    OBVIOUS
  <1> DEFINE n == Root(Top.n)
             m == Root(Top.m)
  <1>1. /\ stack # <<>>
        /\ Continue(<<Collapse(n), UnifyAt(n, m, Top.o)>>)
        /\ UNCHANGED <<nodeVars, cell>>
    BY DEF UnifyAtCollapse, Running
  <1>2. n \in nodes /\ m \in nodes /\ Top.o \in Nat
    BY UnifyAtTop DEF UnifyAtCollapse
  <1>3. /\ Collapse(n) \in FrameIn(nodes) /\ MergeSound(Collapse(n))
        /\ UnifyAt(n, m, Top.o) \in FrameIn(nodes)
        /\ MergeSound(UnifyAt(n, m, Top.o))
    BY <1>2 DEF Collapse, UnifyAt, FrameIn, MergeSound
  <1> QED
    BY <1>1, <1>3, TwoCalls

\* unifyAt, where the destination is the one to be placed
LEMMA UnifyAtSwapInv == Inv /\ UnifyAtSwap => Inv'
  <1> SUFFICES ASSUME Inv, UnifyAtSwap PROVE Inv'
    OBVIOUS
  <1> DEFINE n == Root(Top.n)
             m == Root(Top.m)
  <1>1. /\ stack # <<>>
        /\ Continue(<<UnifyAt(m, n, 0)>>)
        /\ UNCHANGED <<nodeVars, cell>>
    BY DEF UnifyAtSwap, Running
  <1>2. n \in nodes /\ m \in nodes
    BY UnifyAtTop DEF UnifyAtSwap
  <1>3. UnifyAt(m, n, 0) \in FrameIn(nodes) /\ MergeSound(UnifyAt(m, n, 0))
    BY <1>2 DEF UnifyAt, FrameIn, MergeSound
  <1> QED
    BY <1>1, <1>3, OneCall

\* unifyAt on one node
LEMMA UnifyAtSelfInv == Inv /\ UnifyAtSelf => Inv'
  <1> SUFFICES ASSUME Inv, UnifyAtSelf PROVE Inv'
    OBVIOUS
  <1> DEFINE n == Root(Top.n)
  <1>1. /\ stack # <<>>
        /\ Continue(IF Numeric(n, Top.o) > 0 THEN <<Collapse(n)>> ELSE <<>>)
        /\ UNCHANGED <<nodeVars, cell>>
    BY DEF UnifyAtSelf, Running
  <1>2. n \in nodes
    BY UnifyAtTop DEF UnifyAtSelf
  <1>3. Collapse(n) \in FrameIn(nodes) /\ MergeSound(Collapse(n))
    BY <1>2 DEF Collapse, FrameIn, MergeSound
  <1>4. CASE Numeric(n, Top.o) > 0
    BY <1>1, <1>3, <1>4, OneCall
  <1>5. CASE ~(Numeric(n, Top.o) > 0)
    BY <1>1, <1>5, NoCall DEF Return
  <1> QED
    BY <1>4, <1>5

\* collapseOffsets on a collapsed node
LEMMA CollapseDoneInv == Inv /\ CollapseDone => Inv'
  BY NoCall DEF CollapseDone, Running

\* what pointTo goes on with after its forwarding is set: the source is never the
\* node that the destination has become
LEMMA AbsorbTop ==
    ASSUME Inv, stack # <<>>, Top.op \in {"absorb", "annotate"}
    PROVE  /\ Top.n \in nodes /\ Top.m \in nodes /\ Top.o \in Nat
           /\ Top.n \in Node /\ Top.m \in Node
           /\ Root(Top.m) \in nodes /\ Root(Top.m) \in Node
           /\ MergeSound(Top)
           /\ Top.n # Root(Top.m)
  <1>1. Top.n \in nodes /\ Top.m \in nodes /\ Top.o \in Nat
    BY TopFrame, FramesRead DEF Inv
  <1>2. MergeSound(Top)
    BY TopFrame DEF Inv, MergesSound
  <1>3. /\ Top.n \in Node /\ Top.m \in Node
        /\ Root(Top.m) \in nodes /\ Root(Top.m) \in Node
    BY <1>1, RootType DEF Inv
  <1>4. Root(Root(Top.m)) = Root(Top.m)
    BY <1>3, RootOfRoot DEF Inv
  <1> QED
    BY <1>1, <1>2, <1>3, <1>4 DEF MergeSound, IsForwarding

\* joinAccessedTypes, where a type does not fit the array
LEMMA AbsorbCollapsesInv == Inv /\ AbsorbCollapses => Inv'
  <1> SUFFICES ASSUME Inv, AbsorbCollapses PROVE Inv'
    OBVIOUS
  <1> DEFINE x == Collapse(Top.m)
             y == Annotate(Top.n, Top.m, Top.o)
  <1>1. /\ stack # <<>> /\ Top.op = "absorb"
        /\ Continue(<<x, y>>)
        /\ UNCHANGED <<nodeVars, cell>>
    BY DEF AbsorbCollapses, Running
  <1>2. x \in FrameIn(nodes) /\ y \in FrameIn(nodes)
    BY <1>1, AbsorbTop DEF Collapse, Annotate, FrameIn
  <1>3. MergeSound(x) /\ MergeSound(y)
    BY <1>1, AbsorbTop DEF Collapse, Annotate, MergeSound
  <1> QED
    BY <1>1, <1>2, <1>3, TwoCalls

\* one turn of a loop over links
LEMMA MoveLinkInv == Inv /\ MoveLink => Inv'
  <1> SUFFICES ASSUME Inv, MoveLink PROVE Inv'
    OBVIOUS
  <1>1. PICK l \in Top.rest :
           Continue(<<AddLink([Top.via EXCEPT !.off = @ + l.off], l.ty, l.to),
                      Links(Top.via, Top.rest \ {l})>>)
    BY DEF MoveLink
  <1> DEFINE x == AddLink([Top.via EXCEPT !.off = @ + l.off], l.ty, l.to)
             y == Links(Top.via, Top.rest \ {l})
  <1>2. stack # <<>> /\ UNCHANGED <<nodeVars, cell>>
    BY DEF MoveLink, Running
  <1>3. Top.via \in CellIn(nodes) /\ Top.rest \subseteq LinkIn(nodes)
    BY TopFrame, FramesRead DEF Inv, MoveLink, Running
  <1>4. l \in LinkIn(nodes)
    BY <1>3
  <1>5. /\ [Top.via EXCEPT !.off = @ + l.off] \in CellIn(nodes)
        /\ l.ty \in FieldType /\ l.to \in CellIn(nodes)
    BY <1>3, <1>4 DEF CellIn, LinkIn
  <1>6. x \in FrameIn(nodes) /\ y \in FrameIn(nodes)
    BY <1>3, <1>5 DEF AddLink, Links, FrameIn
  <1>7. MergeSound(x) /\ MergeSound(y)
    BY DEF AddLink, Links, MergeSound
  <1> QED
    BY <1>1, <1>2, <1>6, <1>7, TwoCalls

\* the end of a loop over links
LEMMA AllLinksMovedInv == Inv /\ AllLinksMoved => Inv'
  BY NoCall DEF AllLinksMoved, Running

\* what addLink starts with
LEMMA AddLinkTop ==
    ASSUME Inv, Running("addLink")
    PROVE  /\ stack # <<>>
           /\ Top.at \in CellIn(nodes) /\ Top.ty \in FieldType
           /\ Top.to \in CellIn(nodes)
           /\ Resolve(Top.at).node \in nodes /\ Resolve(Top.at).node \in Node
           /\ LinkOffset(Top.at) \in Nat
  <1>1. /\ stack # <<>>
        /\ Top.at \in CellIn(nodes) /\ Top.ty \in FieldType
        /\ Top.to \in CellIn(nodes)
    BY TopFrame, FramesRead DEF Inv, Running
  <1> QED
    BY <1>1, ResolvedType, AddressType DEF Inv

\* a link leads to a cell of the graph
LEMMA FoundLinkType ==
    ASSUME TypeOK, NEW n \in Node, NEW o, NEW ty, NEW l \in FoundLink(n, o, ty)
    PROVE  l.to \in CellIn(nodes)
  <1>1. l \in links[n] /\ links[n] \subseteq LinkIn(nodes)
    BY DEF FoundLink, LinkAt, TypeOK
  <1> QED
    BY <1>1 DEF LinkIn

\* addLink, where there is a link already
LEMMA AddLinkUnifiesInv == Inv /\ AddLinkUnifies => Inv'
  <1> SUFFICES ASSUME Inv, AddLinkUnifies PROVE Inv'
    OBVIOUS
  <1>1. PICK l \in FoundLink(Resolve(Top.at).node, LinkOffset(Top.at), Top.ty) :
           Continue(<<Unify(l.to, Top.to)>>)
    BY DEF AddLinkUnifies
  <1>2. stack # <<>> /\ UNCHANGED <<nodeVars, cell>>
    BY DEF AddLinkUnifies, Running
  <1>3. l.to \in CellIn(nodes) /\ Top.to \in CellIn(nodes)
    BY AddLinkTop, FoundLinkType DEF AddLinkUnifies, Inv
  <1>4. /\ Unify(l.to, Top.to) \in FrameIn(nodes)
        /\ MergeSound(Unify(l.to, Top.to))
    BY <1>3 DEF Unify, FrameIn, MergeSound
  <1> QED
    BY <1>1, <1>2, <1>4, OneCall

\* what addAccessedType starts with
LEMMA AccessTop ==
    ASSUME Inv, Running("access")
    PROVE  /\ stack # <<>>
           /\ Resolve(Top.at).node \in nodes /\ Resolve(Top.at).node \in Node
           /\ AccessedExtent(Top.at, Top.width) \in Extent
  <1>1. stack # <<>> /\ Top.at \in CellIn(nodes) /\ Top.width \in Nat \ {0}
    BY TopFrame, FramesRead DEF Inv, Running
  <1>2. LinkOffset(Top.at) \in Nat
    BY <1>1, AddressType DEF Inv
  <1> QED
    BY <1>1, <1>2, ResolvedType DEF Inv, AccessedExtent, Extent

\* addAccessedType, where the type does not fit the array
LEMMA AccessCollapsesInv == Inv /\ AccessCollapses => Inv'
  <1> SUFFICES ASSUME Inv, AccessCollapses PROVE Inv'
    OBVIOUS
  <1> DEFINE x == Collapse(Resolve(Top.at).node)
  <1>1. stack # <<>> /\ Continue(<<x>>) /\ UNCHANGED <<nodeVars, cell>>
    BY DEF AccessCollapses, Running
  <1>2. x \in FrameIn(nodes) /\ MergeSound(x)
    BY AccessTop DEF AccessCollapses, Collapse, FrameIn, MergeSound
  <1> QED
    BY <1>1, <1>2, OneCall

\* addAccessedType on a collapsed node
LEMMA AccessIgnoredInv == Inv /\ AccessIgnored => Inv'
  BY NoCall DEF AccessIgnored, Running

-----------------------------------------------------------------------------
(* The steps that change the graph.  A pending merge stays sound when the   *)
(* step keeps its source forwarding, and takes no flag from its destination *)
(* that the source still has.                                               *)

\* pending merges stay sound when each one does and the new calls are sound
LEMMA MergesStaySound ==
    ASSUME Inv, stack # <<>>, nodes \subseteq nodes',
           NEW fs \in Seq(FrameIn(nodes')), Continue(fs),
           \A f : On(f, fs) => MergeSound(f)',
           \A f \in FrameIn(nodes) :
               On(f, stack) /\ MergeSound(f) => MergeSound(f)'
    PROVE  stack' \in Seq(FrameIn(nodes')) /\ MergesSound'
  <1>1. /\ stack' \in Seq(FrameIn(nodes'))
        /\ \A f : On(f, stack') => On(f, fs) \/ On(f, stack)
    BY StackContinues DEF Inv
  <1>2. ASSUME NEW f, On(f, stack')
        PROVE  MergeSound(f)'
    <2>1. CASE On(f, fs)
      BY <2>1
    <2>2. CASE On(f, stack)
      <3>1. MergeSound(f)
        BY <2>2 DEF Inv, MergesSound
      <3>2. f \in FrameIn(nodes)
        BY <2>2 DEF On, Inv, TypeOK
      <3> QED
        BY <2>2, <3>1, <3>2
    <2> QED
      BY <1>1, <1>2, <2>1, <2>2
  <1> QED
    BY <1>1, <1>2 DEF MergesSound, On

\* whether a pending merge is sound depends only on forwarding and on two flags
LEMMA FlagsDecide ==
    ASSUME TypeOK, NEW f \in FrameIn(nodes), MergeSound(f), UNCHANGED fwd,
           \A n \in nodes : /\ IsArray(n)' <=> IsArray(n)
                            /\ IsCollapsed(n)' <=> IsCollapsed(n)
    PROVE  MergeSound(f)'
  <1>1. f.op \in {"absorb", "annotate"} =>
            /\ f.n \in nodes /\ f.m \in nodes /\ Root(f.m) \in nodes
    BY FramesRead, RootType
  <1>2. Root(f.n)' = Root(f.n) /\ Root(f.m)' = Root(f.m)
    BY DEF Root
  <1> QED
    BY <1>1, <1>2 DEF MergeSound, IsForwarding

\* no other call has anything to be sound about
LEMMA NoMergeSound ==
    ASSUME NEW f, f.op \notin {"absorb", "annotate"}
    PROVE  MergeSound(f) /\ MergeSound(f)'
  BY DEF MergeSound

(* Growing a node to hold some extents. *)

\* a node only grows
LEMMA EndsAreSizes ==
    ASSUME TypeOK, NEW m \in Node, NEW es \in SUBSET Extent,
           NEW z \in Ends(m, es), GrowsTo(m, es, z)
    PROVE  z \in Nat /\ size[m] <= z
  BY DEF Ends, GrowsTo, Extent, TypeOK

\* joinAccessedTypes, where everything fits
LEMMA AbsorbTypesInv == Inv /\ AbsorbTypes => Inv'
  <1> SUFFICES ASSUME Inv, AbsorbTypes PROVE Inv'
    OBVIOUS
  <1> DEFINE n == Top.n
             m == Top.m
             es == JoinedTypes(n, m, Top.o)
             x == Annotate(n, m, Top.o)
  <1>1. /\ stack # <<>> /\ Top.op = "absorb" /\ Continue(<<x>>)
        /\ UNCHANGED <<nodes, fwd, marks, links, sites, scalar, once, cell>>
        /\ types' = [types EXCEPT ![m] = @ \cup es]
    BY DEF AbsorbTypes, Running
  <1>2. PICK z \in Ends(m, es) :
           GrowsTo(m, es, z) /\ size' = [size EXCEPT ![m] = z]
    BY DEF AbsorbTypes
  <1>3. /\ n \in nodes /\ m \in nodes /\ Top.o \in Nat
        /\ n \in Node /\ m \in Node /\ MergeSound(Top)
    BY <1>1, AbsorbTop
  <1>4. es \in SUBSET Extent
    <2>1. ASSUME NEW e \in types[n]
          PROVE  Placed(m, e, Top.o) \in Extent
      <3>1. e \in Extent
        BY <1>3 DEF Inv, TypeOK
      <3>2. e.off + Top.o \in Nat /\ e.width \in Nat \ {0}
        BY <3>1, <1>3 DEF Extent
      <3>3. Numeric(m, e.off + Top.o) \in Nat
        BY <3>2, <1>3, NumericIsNat DEF Inv
      <3> QED
        BY <3>2, <3>3 DEF Placed, Extent
    <2> QED
      BY <2>1 DEF JoinedTypes
  <1>5. z \in Nat /\ size[m] <= z
    BY <1>2, <1>3, <1>4, EndsAreSizes DEF Inv
  <1>6. x \in FrameIn(nodes) /\ MergeSound(x)
    BY <1>1, <1>3 DEF Annotate, FrameIn, MergeSound
  <1>7. \A k \in nodes : /\ IsArray(k)' <=> IsArray(k)
                         /\ IsCollapsed(k)' <=> IsCollapsed(k)
    BY <1>1 DEF IsArray, IsCollapsed
  <1>8. stack' \in Seq(FrameIn(nodes')) /\ MergesSound'
    <2>1. <<x>> \in Seq(FrameIn(nodes')) /\ nodes \subseteq nodes'
      BY <1>1, <1>6
    <2>2. \A f : On(f, <<x>>) => MergeSound(f)'
      BY <1>1, <1>6, <1>7, FlagsDecide DEF On, Inv
    <2>3. \A f \in FrameIn(nodes) :
              On(f, stack) /\ MergeSound(f) => MergeSound(f)'
      BY <1>1, <1>7, FlagsDecide DEF Inv
    <2> QED
      BY <1>1, <2>1, <2>2, <2>3, MergesStaySound
  <1>9. types' \in [Node -> SUBSET Extent] /\ size' \in [Node -> Nat]
    BY <1>1, <1>2, <1>3, <1>4, <1>5 DEF Inv, TypeOK
  <1>10. TypeOK'
    BY <1>1, <1>8, <1>9 DEF Inv, TypeOK, Root
  <1>11. ForwardingResolved'
    BY <1>1 DEF Inv, ForwardingResolved, Root
  <1>12. ArraysHaveSize'
    BY <1>1, <1>2, <1>3, <1>5 DEF Inv, ArraysHaveSize, IsArray, TypeOK
  <1> QED
    BY <1>8, <1>10, <1>11, <1>12 DEF Inv

\* the marks of two nodes joined
LEMMA JoinFlags ==
    ASSUME NEW a \in SUBSET Mark, NEW b \in SUBSET Mark
    PROVE  /\ JoinMarks(a, b) \in SUBSET Mark
           /\ "offset_collapsed" \in JoinMarks(a, b)
                  <=> "offset_collapsed" \in a \cup b
           /\ "array" \in JoinMarks(a, b)
                  <=> /\ "array" \in a \cup b
                      /\ "offset_collapsed" \notin a \cup b
  BY DEF JoinMarks, Mark

\* what forwarding the root m to another root n does to the roots
LEMMA RootsForwarded ==
    ASSUME TypeOK, ForwardingResolved, NEW m \in Node, NEW n \in Node,
           Root(m) = m, Root(n) = n, fwd[n] = [node |-> n, off |-> 0], m # n,
           NEW o \in Nat, fwd' = Forwarded(m, n, o)
    PROVE  /\ fwd' \in [Node -> CellIn(Node)]
           /\ \A x \in Node : Root(x)' = IF Root(x) = m THEN n ELSE Root(x)
           /\ \A x \in Node : Root(x) # m => fwd'[x] = fwd[x]
           /\ \A x \in Node : IsForwarding(x) => IsForwarding(x)'
           /\ IsForwarding(m)'
           /\ ForwardingResolved'
  <1>1. \A x \in Node : /\ fwd[x] \in CellIn(Node)
                        /\ Root(x) \in Node
                        /\ Root(x) = fwd[x].node
    BY DEF TypeOK, Root, CellIn
  <1>2. ASSUME NEW x \in Node
        PROVE  /\ fwd'[x] \in CellIn(Node)
               /\ fwd'[x].node = IF Root(x) = m THEN n ELSE Root(x)
               /\ Root(x) # m => fwd'[x] = fwd[x]
    <2>1. fwd'[x] = IF Root(x) = m THEN [node |-> n, off |-> fwd[x].off + o]
                    ELSE fwd[x]
      BY <1>1 DEF Forwarded
    <2>2. fwd[x].off + o \in Nat
      BY <1>1 DEF CellIn
    <2>3. [node |-> n, off |-> fwd[x].off + o] \in CellIn(Node)
      BY <2>2 DEF CellIn
    <2> QED
      BY <1>1, <2>1, <2>3
  <1>3. \A x \in Node : Root(x)' = IF Root(x) = m THEN n ELSE Root(x)
    BY <1>2 DEF Root
  <1>4. fwd' \in [Node -> CellIn(Node)]
    <2>1. DOMAIN fwd' = Node /\ fwd' = [x \in Node |-> fwd'[x]]
      BY DEF Forwarded
    <2> QED
      BY <1>2, <2>1
  <1>5. ASSUME NEW x \in Node, IsForwarding(x)
        PROVE  IsForwarding(x)'
    BY <1>3, <1>5 DEF IsForwarding
  <1>6. IsForwarding(m)'
    BY <1>3 DEF IsForwarding
  <1>7. ASSUME NEW x \in Node
        PROVE  fwd'[Root(x)'] = [node |-> Root(x)', off |-> 0]
    <2>1. CASE Root(x) = m
      BY <1>2, <1>3, <2>1
    <2>2. CASE Root(x) # m
      <3>1. Root(Root(x)) = Root(x)
        BY RootOfRoot
      <3>2. fwd[Root(x)] = [node |-> Root(x), off |-> 0]
        BY DEF ForwardingResolved
      <3> QED
        BY <1>1, <1>2, <1>3, <2>2, <3>1, <3>2
    <2> QED
      BY <2>1, <2>2
  <1> QED
    BY <1>2, <1>3, <1>4, <1>5, <1>6, <1>7 DEF ForwardingResolved

\* pointTo sets the forwarding: the merge it leaves pending is sound, because
\* unifyAt has collapsed or swapped the nodes whose flags do not agree
LEMMA UnifyAtMergeInv == Inv /\ UnifyAtMerge => Inv'
  <1> SUFFICES ASSUME Inv, UnifyAtMerge PROVE Inv'
    OBVIOUS
  <1>0. PICK n, m, o, x : /\ n = Root(Top.n) /\ m = Root(Top.m)
                          /\ o = Numeric(Root(Top.n), Top.o)
                          /\ x = Absorb(m, n, o)
    OBVIOUS
  <1>1. /\ stack # <<>> /\ Continue(<<x>>)
        /\ n # m
        /\ ~CannotPlace(n, m, Top.o) /\ ~MustSwap(n, m, Top.o)
        /\ fwd' = Forwarded(m, n, o)
        /\ scalar' = [scalar EXCEPT ![n] =
                          IF KillsScalar(m, n, o) THEN NoValue ELSE @]
        /\ once' = [once EXCEPT ![n] = @ \/ KillsScalar(m, n, o)]
        /\ UNCHANGED <<nodes, marks, size, types, links, sites, cell>>
    BY <1>0 DEF UnifyAtMerge, Running
  <1>2. /\ n \in nodes /\ m \in nodes /\ n \in Node /\ m \in Node /\ o \in Nat
        /\ Top.n \in Node /\ Top.m \in Node
    BY <1>0, UnifyAtTop, RootType DEF UnifyAtMerge, Inv
  <1>3. Root(n) = n /\ Root(m) = m /\ fwd[n] = [node |-> n, off |-> 0]
    <2>1. fwd[n] = [node |-> n, off |-> 0]
      BY <1>0, <1>2 DEF Inv, ForwardingResolved
    <2> QED
      BY <1>0, <1>2, <2>1, RootOfRoot DEF Inv
  <1>4. /\ fwd' \in [Node -> CellIn(Node)]
        /\ \A y \in Node : Root(y)' = IF Root(y) = m THEN n ELSE Root(y)
        /\ \A y \in Node : Root(y) # m => fwd'[y] = fwd[y]
        /\ \A y \in Node : IsForwarding(y) => IsForwarding(y)'
        /\ IsForwarding(m)'
        /\ ForwardingResolved'
    BY <1>1, <1>2, <1>3, RootsForwarded DEF Inv
  <1>5. /\ IsCollapsed(m) => IsCollapsed(n)
        /\ IsArray(m) => IsArray(n) \/ IsCollapsed(n)
    BY <1>1 DEF CannotPlace, MustSwap, ArrayIntoScalar
  <1>6. x \in FrameIn(nodes)
    BY <1>0, <1>2 DEF Absorb, FrameIn
  <1>7. \A y : (IsArray(y)' <=> IsArray(y)) /\ (IsCollapsed(y)' <=> IsCollapsed(y))
    BY <1>1 DEF IsArray, IsCollapsed
  <1>8. MergeSound(x)'
    <2>1. x.n = m /\ x.m = n
      BY <1>0 DEF Absorb
    <2>2. Root(n)' = n
      BY <1>1, <1>2, <1>3, <1>4
    <2> QED
      BY <1>4, <1>5, <1>7, <2>1, <2>2 DEF MergeSound
  <1>9. ASSUME NEW f \in FrameIn(nodes), MergeSound(f)
        PROVE  MergeSound(f)'
    <2>1. CASE f.op \notin {"absorb", "annotate"}
      BY <2>1, NoMergeSound
    <2>2. CASE f.op \in {"absorb", "annotate"}
      <3>1. f.n \in Node /\ f.m \in Node
        BY <2>2, FramesRead, RootType DEF Inv
      <3>2. IsForwarding(f.n)'
        BY <1>4, <1>9, <2>2, <3>1 DEF MergeSound
      <3>3. Root(f.m)' = IF Root(f.m) = m THEN n ELSE Root(f.m)
        BY <1>4, <3>1
      <3> QED
        BY <1>5, <1>7, <1>9, <2>2, <3>2, <3>3 DEF MergeSound
    <2> QED
      BY <2>1, <2>2
  <1>10. stack' \in Seq(FrameIn(nodes')) /\ MergesSound'
    <2>1. <<x>> \in Seq(FrameIn(nodes')) /\ nodes \subseteq nodes'
      BY <1>1, <1>6
    <2>2. \A f : On(f, <<x>>) => MergeSound(f)'
      BY <1>8 DEF On
    <2> QED
      BY <1>1, <1>9, <2>1, <2>2, MergesStaySound
  <1>11. TypeOK'
    <2>1. \A y \in nodes : Root(y)' \in nodes
      BY <1>2, <1>4, RootType DEF Inv
    <2>2. \A y \in Node \ nodes : fwd'[y] = [node |-> y, off |-> 0]
      <3> TAKE y \in Node \ nodes
      <3>1. fwd[y] = [node |-> y, off |-> 0]
        BY DEF Inv, TypeOK
      <3>2. Root(y) # m
        BY <1>2, <3>1 DEF Root
      <3> QED
        BY <1>4, <3>1, <3>2
    <2>3. scalar' \in [Node -> Value \cup {NoValue}]
      BY <1>1 DEF Inv, TypeOK
    <2>4. once' \in [Node -> BOOLEAN]
      <3>1. (once[n] \/ KillsScalar(m, n, o)) \in BOOLEAN
        OBVIOUS
      <3>2. once \in [Node -> BOOLEAN]
        BY DEF Inv, TypeOK
      <3> QED
        BY <1>1, <3>1, <3>2
    <2> QED
      BY <1>1, <1>4, <1>10, <2>1, <2>2, <2>3, <2>4 DEF Inv, TypeOK
  <1>12. ArraysHaveSize'
    BY <1>1, <1>7 DEF Inv, ArraysHaveSize
  <1> QED
    BY <1>4, <1>10, <1>11, <1>12 DEF Inv

\* what collapseOffsets starts with
LEMMA CollapseTop ==
    ASSUME Inv, Running("collapse")
    PROVE  /\ stack # <<>>
           /\ Root(Top.n) \in nodes /\ Root(Top.n) \in Node
           /\ Root(Root(Top.n)) = Root(Top.n)
           /\ fwd[Root(Top.n)] = [node |-> Root(Top.n), off |-> 0]
  <1>1. stack # <<>> /\ Top.n \in nodes
    BY TopFrame, FramesRead DEF Inv, Running
  <1>2. Top.n \in Node /\ Root(Top.n) \in nodes /\ Root(Top.n) \in Node
    BY <1>1, RootType DEF Inv
  <1> QED
    BY <1>1, <1>2, RootOfRoot DEF Inv, ForwardingResolved

\* a step that returns, and in which flags only become collapsed ones
LEMMA ReturnKeepsMerges ==
    ASSUME Inv, stack # <<>>, Return, nodes = nodes',
           \A f \in FrameIn(nodes) : MergeSound(f) => MergeSound(f)'
    PROVE  stack' \in Seq(FrameIn(nodes')) /\ MergesSound'
  <1>1. <<>> \in Seq(FrameIn(nodes')) /\ \A f : ~On(f, <<>>)
    BY DEF On
  <1> QED
    BY <1>1, MergesStaySound DEF Return

\* collapseOffsets on a node of size one or none
LEMMA CollapseInPlaceInv == Inv /\ CollapseInPlace => Inv'
  <1> SUFFICES ASSUME Inv, CollapseInPlace PROVE Inv'
    OBVIOUS
  <1>0. PICK n : n = Root(Top.n)
    OBVIOUS
  <1>1. /\ stack # <<>> /\ Return
        /\ scalar' = [scalar EXCEPT ![n] = NoValue]
        /\ size' = [size EXCEPT ![n] = 1]
        /\ marks' = [marks EXCEPT ![n] =
                         (@ \cup {"offset_collapsed"}) \ {"array"}]
        /\ UNCHANGED <<nodes, fwd, types, links, sites, once, cell>>
    BY <1>0 DEF CollapseInPlace, Running
  <1>2. n \in nodes /\ n \in Node /\ Root(n) = n
    BY <1>0, CollapseTop DEF CollapseInPlace
  <1>3. /\ marks' \in [Node -> SUBSET Mark]
        /\ IsCollapsed(n)' /\ ~IsArray(n)'
        /\ \A k \in Node \ {n} : /\ IsArray(k)' <=> IsArray(k)
                                 /\ IsCollapsed(k)' <=> IsCollapsed(k)
                                 /\ marks'[k] = marks[k]
    <2>1. marks \in [Node -> SUBSET Mark]
      BY DEF Inv, TypeOK
    <2> QED
      BY <1>1, <1>2, <2>1 DEF IsArray, IsCollapsed, Mark
  <1>4. ASSUME NEW f \in FrameIn(nodes), MergeSound(f)
        PROVE  MergeSound(f)'
    <2>1. CASE f.op \notin {"absorb", "annotate"}
      BY <2>1, NoMergeSound
    <2>2. CASE f.op \in {"absorb", "annotate"}
      <3>1. f.n \in Node /\ f.m \in Node /\ Root(f.m) \in Node
        BY <2>2, FramesRead, RootType DEF Inv
      <3>2. Root(f.n)' = Root(f.n) /\ Root(f.m)' = Root(f.m)
        BY <1>1 DEF Root
      <3>3. f.n # n
        BY <1>2, <1>4, <2>2 DEF MergeSound, IsForwarding
      <3> QED
        BY <1>3, <1>4, <2>2, <3>1, <3>2, <3>3 DEF MergeSound, IsForwarding
    <2> QED
      BY <2>1, <2>2
  <1>5. stack' \in Seq(FrameIn(nodes')) /\ MergesSound'
    BY <1>1, <1>4, ReturnKeepsMerges
  <1>6. size' \in [Node -> Nat] /\ scalar' \in [Node -> Value \cup {NoValue}]
    BY <1>1 DEF Inv, TypeOK
  <1>7. TypeOK'
    BY <1>1, <1>2, <1>3, <1>5, <1>6 DEF Inv, TypeOK, Root
  <1>8. ForwardingResolved'
    BY <1>1 DEF Inv, ForwardingResolved, Root
  <1>9. ArraysHaveSize'
    BY <1>1, <1>2, <1>3 DEF Inv, ArraysHaveSize, TypeOK
  <1> QED
    BY <1>5, <1>7, <1>8, <1>9 DEF Inv

\* collapseOffsets on a larger node, which a new collapsed node replaces
LEMMA CollapseFreshInv == Inv /\ CollapseFresh => Inv'
  <1> SUFFICES ASSUME Inv, CollapseFresh PROVE Inv'
    OBVIOUS
  <1>0. PICK n, c, x : /\ n = Root(Top.n) /\ c = CollapsedTwin(Root(Top.n))
                       /\ x = Absorb(n, c, 0)
    OBVIOUS
  <1>1. /\ stack # <<>> /\ Continue(<<x>>)
        /\ n \in ClientNode /\ c \notin nodes
        /\ nodes' = nodes \cup {c}
        /\ fwd' = Forwarded(n, c, 0)
        /\ marks' = [marks EXCEPT ![c] =
                        (JoinMarks({}, marks[n]) \cup {"offset_collapsed"})
                        \ {"array"}]
        /\ size' = [size EXCEPT ![c] = 1]
        /\ scalar' = [scalar EXCEPT ![n] = NoValue, ![c] = NoValue]
        /\ UNCHANGED <<types, links, sites, once, cell>>
    BY <1>0 DEF CollapseFresh, Running
  <1>2. n \in nodes /\ n \in Node /\ Root(n) = n
    BY <1>0, CollapseTop DEF CollapseFresh
  <1>3. c \in Node /\ c # n
    BY <1>0, <1>1, <1>2, MaxNodesAssumption
       DEF ClientNode, Node, CollapsedTwin
  <1>4. Root(c) = c /\ fwd[c] = [node |-> c, off |-> 0]
    <2>1. fwd[c] = [node |-> c, off |-> 0]
      BY <1>1, <1>3 DEF Inv, TypeOK
    <2> QED
      BY <2>1 DEF Root
  <1>5. /\ fwd' \in [Node -> CellIn(Node)]
        /\ \A y \in Node : Root(y)' = IF Root(y) = n THEN c ELSE Root(y)
        /\ \A y \in Node : Root(y) # n => fwd'[y] = fwd[y]
        /\ \A y \in Node : IsForwarding(y) => IsForwarding(y)'
        /\ IsForwarding(n)'
        /\ ForwardingResolved'
    BY <1>1, <1>2, <1>3, <1>4, RootsForwarded DEF Inv
  <1>6. /\ marks' \in [Node -> SUBSET Mark]
        /\ IsCollapsed(c)' /\ ~IsArray(c)'
        /\ \A k \in Node \ {c} : /\ IsArray(k)' <=> IsArray(k)
                                 /\ IsCollapsed(k)' <=> IsCollapsed(k)
                                 /\ marks'[k] = marks[k]
    <2>1. marks \in [Node -> SUBSET Mark]
      BY DEF Inv, TypeOK
    <2>2. JoinMarks({}, marks[n]) \in SUBSET Mark
      BY <1>2, <2>1, JoinFlags
    <2> QED
      BY <1>1, <1>3, <2>1, <2>2 DEF IsArray, IsCollapsed, Mark
  <1>7. nodes \subseteq nodes' /\ nodes' \subseteq Node
    BY <1>1, <1>3 DEF Inv, TypeOK
  <1>8. x \in FrameIn(nodes')
    BY <1>0, <1>1, <1>2 DEF Absorb, FrameIn
  <1>9. MergeSound(x)'
    <2>1. x.n = n /\ x.m = c
      BY <1>0 DEF Absorb
    <2>2. Root(c)' = c
      BY <1>2, <1>3, <1>4, <1>5
    <2> QED
      BY <1>5, <1>6, <2>1, <2>2 DEF MergeSound
  <1>10. ASSUME NEW f \in FrameIn(nodes), MergeSound(f)
         PROVE  MergeSound(f)'
    <2>1. CASE f.op \notin {"absorb", "annotate"}
      BY <2>1, NoMergeSound
    <2>2. CASE f.op \in {"absorb", "annotate"}
      <3>1. f.n \in nodes /\ f.n \in Node /\ f.m \in Node /\ Root(f.m) \in nodes
        BY <2>2, FramesRead, RootType DEF Inv
      <3>2. IsForwarding(f.n)'
        BY <1>5, <1>10, <2>2, <3>1 DEF MergeSound
      <3>3. Root(f.m)' = IF Root(f.m) = n THEN c ELSE Root(f.m)
        BY <1>5, <3>1
      <3>4. f.n # c /\ Root(f.m) # c /\ Root(f.m) \in Node
        BY <1>1, <1>7, <3>1
      <3> QED
        BY <1>6, <1>10, <2>2, <3>1, <3>2, <3>3, <3>4 DEF MergeSound
    <2> QED
      BY <2>1, <2>2
  <1>11. stack' \in Seq(FrameIn(nodes')) /\ MergesSound'
    <2>1. <<x>> \in Seq(FrameIn(nodes'))
      BY <1>8
    <2>2. \A f : On(f, <<x>>) => MergeSound(f)'
      BY <1>9 DEF On
    <2> QED
      BY <1>1, <1>7, <1>10, <2>1, <2>2, MergesStaySound
  <1>12. TypeOK'
    <2>1. \A y \in nodes' : Root(y)' \in nodes'
      <3>1. \A y \in nodes : Root(y) \in nodes
        BY RootType DEF Inv
      <3> QED
        BY <1>1, <1>2, <1>3, <1>4, <1>5, <1>7, <3>1
    <2>2. \A y \in Node \ nodes' : /\ fwd'[y] = [node |-> y, off |-> 0]
                                   /\ marks'[y] = {}
      <3> TAKE y \in Node \ nodes'
      <3>1. fwd[y] = [node |-> y, off |-> 0] /\ marks[y] = {} /\ y # c
        BY <1>1 DEF Inv, TypeOK
      <3>2. Root(y) # n
        BY <1>1, <1>2, <3>1 DEF Root
      <3> QED
        BY <1>5, <1>6, <3>1, <3>2
    <2>3. size' \in [Node -> Nat] /\ scalar' \in [Node -> Value \cup {NoValue}]
      BY <1>1 DEF Inv, TypeOK
    <2>4. /\ links' \in [Node -> SUBSET LinkIn(nodes')]
          /\ cell' \in [Value -> CellIn(nodes') \cup {NoCell}]
      <3>1. CellIn(nodes) \subseteq CellIn(nodes')
        BY <1>7, FramesGrow
      <3>2. LinkIn(nodes) \subseteq LinkIn(nodes')
        BY <1>7, FramesGrow
      <3> QED
        BY <1>1, <3>1, <3>2 DEF Inv, TypeOK
    <2> QED
      BY <1>1, <1>5, <1>6, <1>7, <1>11, <2>1, <2>2, <2>3, <2>4 DEF Inv, TypeOK
  <1>13. ArraysHaveSize'
    BY <1>1, <1>3, <1>6 DEF Inv, ArraysHaveSize, TypeOK
  <1> QED
    BY <1>5, <1>11, <1>12, <1>13 DEF Inv

\* pointTo joins the marks into the node the destination has become: as its
\* source's flags hold there, no node turns into an array of size zero
LEMMA AbsorbMarksInv == Inv /\ AbsorbMarks => Inv'
  <1> SUFFICES ASSUME Inv, AbsorbMarks PROVE Inv'
    OBVIOUS
  <1>0. PICK n, m, r, x : /\ n = Top.n /\ m = Top.m /\ r = Root(Top.m)
                          /\ x = Links([node |-> n, off |-> 0], links[n])
    OBVIOUS
  <1>1. /\ stack # <<>> /\ Top.op = "annotate" /\ Continue(<<x>>)
        /\ marks' = [marks EXCEPT ![r] = JoinMarks(@, marks[n]), ![n] = {}]
        /\ sites' = [sites EXCEPT ![m] = @ \cup sites[n], ![n] = {}]
        /\ size' = [size EXCEPT ![n] = 0]
        /\ types' = [types EXCEPT ![n] = {}]
        /\ links' = [links EXCEPT ![n] = {}]
        /\ scalar' = [scalar EXCEPT ![n] = NoValue]
        /\ UNCHANGED <<nodes, fwd, once, cell>>
    BY <1>0 DEF AbsorbMarks, Running
  <1>2. /\ n \in nodes /\ m \in nodes /\ r \in nodes
        /\ n \in Node /\ m \in Node /\ r \in Node
        /\ n # r /\ Root(r) = r
        /\ IsForwarding(n)
        /\ IsCollapsed(n) => IsCollapsed(r)
        /\ IsArray(n) => IsArray(r) \/ IsCollapsed(r)
    BY <1>0, <1>1, AbsorbTop, RootOfRoot DEF Inv, MergeSound
  <1>3. /\ marks' \in [Node -> SUBSET Mark]
        /\ ~IsCollapsed(n)' /\ ~IsArray(n)'
        /\ IsCollapsed(r)' <=> IsCollapsed(r)
        /\ IsArray(r)' => IsArray(r)
        /\ IsArray(r) => IsArray(r)' \/ IsCollapsed(r)'
        /\ \A k \in Node \ {n, r} : /\ IsArray(k)' <=> IsArray(k)
                                    /\ IsCollapsed(k)' <=> IsCollapsed(k)
                                    /\ marks'[k] = marks[k]
    <2>1. marks \in [Node -> SUBSET Mark]
      BY DEF Inv, TypeOK
    <2>2. /\ JoinMarks(marks[r], marks[n]) \in SUBSET Mark
          /\ "offset_collapsed" \in JoinMarks(marks[r], marks[n])
                 <=> "offset_collapsed" \in marks[r] \cup marks[n]
          /\ "array" \in JoinMarks(marks[r], marks[n])
                 <=> /\ "array" \in marks[r] \cup marks[n]
                     /\ "offset_collapsed" \notin marks[r] \cup marks[n]
      BY <1>2, <2>1, JoinFlags
    <2>3. /\ marks'[n] = {} /\ marks'[r] = JoinMarks(marks[r], marks[n])
          /\ \A k \in Node \ {n, r} : marks'[k] = marks[k]
          /\ marks' \in [Node -> SUBSET Mark]
      BY <1>1, <1>2, <2>1, <2>2
    <2> QED
      BY <1>2, <2>2, <2>3 DEF IsArray, IsCollapsed
  <1>4. ASSUME NEW f \in FrameIn(nodes), MergeSound(f)
        PROVE  MergeSound(f)'
    <2>1. CASE f.op \notin {"absorb", "annotate"}
      BY <2>1, NoMergeSound
    <2>2. CASE f.op \in {"absorb", "annotate"}
      <3>1. f.n \in Node /\ f.m \in Node /\ Root(f.m) \in Node
        BY <2>2, FramesRead, RootType DEF Inv
      <3>2. Root(f.n)' = Root(f.n) /\ Root(f.m)' = Root(f.m)
        BY <1>1 DEF Root
      <3>3. f.n # r
        BY <1>2, <1>4, <2>2 DEF MergeSound, IsForwarding
      <3>4. Root(f.m) # n
        BY <1>2, <3>1, RootOfRoot DEF IsForwarding, Inv
      <3>5. IsForwarding(f.n)'
        BY <1>4, <2>2, <3>2 DEF MergeSound, IsForwarding
      <3>6. /\ IsCollapsed(f.n)' => IsCollapsed(f.n)
            /\ IsArray(f.n)' => IsArray(f.n)
            /\ IsCollapsed(Root(f.m)) => IsCollapsed(Root(f.m))'
            /\ IsArray(Root(f.m)) => IsArray(Root(f.m))' \/ IsCollapsed(Root(f.m))'
        <4>1. /\ IsCollapsed(f.n)' => IsCollapsed(f.n)
              /\ IsArray(f.n)' => IsArray(f.n)
          BY <1>3, <3>1, <3>3
        <4>2. PICK g : g = Root(f.m)
          OBVIOUS
        <4>3. Root(f.m)' = g
          BY <3>2, <4>2
        <4>4. /\ IsCollapsed(g) => IsCollapsed(g)'
              /\ IsArray(g) => IsArray(g)' \/ IsCollapsed(g)'
          BY <1>3, <3>1, <3>4, <4>2
        <4> QED
          BY <4>1, <4>2, <4>3, <4>4
      <3> QED
        BY <1>4, <2>2, <3>5, <3>6 DEF MergeSound
    <2> QED
      BY <2>1, <2>2
  <1>5. x \in FrameIn(nodes) /\ x.op = "links"
    <2>1. [node |-> n, off |-> 0] \in CellIn(nodes)
      BY <1>2 DEF CellIn
    <2>2. links[n] \in SUBSET LinkIn(nodes)
      BY <1>2 DEF Inv, TypeOK
    <2> QED
      BY <1>0, <2>1, <2>2 DEF Links, FrameIn
  <1>6. stack' \in Seq(FrameIn(nodes')) /\ MergesSound'
    <2>1. <<x>> \in Seq(FrameIn(nodes')) /\ nodes \subseteq nodes'
      BY <1>1, <1>5
    <2>2. \A f : On(f, <<x>>) => MergeSound(f)'
      BY <1>5 DEF On, MergeSound
    <2> QED
      BY <1>1, <1>4, <2>1, <2>2, MergesStaySound
  <1>7. TypeOK'
    <2>1. /\ size' \in [Node -> Nat] /\ types' \in [Node -> SUBSET Extent]
          /\ scalar' \in [Node -> Value \cup {NoValue}]
      BY <1>1 DEF Inv, TypeOK
    <2>2. links' \in [Node -> SUBSET LinkIn(nodes')]
      BY <1>1 DEF Inv, TypeOK
    <2>3. sites' \in [Node -> SUBSET Value]
      BY <1>1, <1>2 DEF Inv, TypeOK
    <2>4. \A y \in Node \ nodes' : marks'[y] = {}
      BY <1>1, <1>2, <1>3 DEF Inv, TypeOK
    <2> QED
      BY <1>1, <1>3, <1>6, <2>1, <2>2, <2>3, <2>4 DEF Inv, TypeOK, Root
  <1>8. ForwardingResolved'
    BY <1>1 DEF Inv, ForwardingResolved, Root
  <1>9. ArraysHaveSize'
    <2>1. \A k \in Node : k # n => size'[k] = size[k]
      BY <1>1 DEF Inv, TypeOK
    <2> QED
      BY <1>2, <1>3, <2>1 DEF Inv, ArraysHaveSize
  <1> QED
    BY <1>6, <1>7, <1>8, <1>9 DEF Inv

\* addLink, where there is no link yet
LEMMA AddLinkSetsInv == Inv /\ AddLinkSets => Inv'
  <1> SUFFICES ASSUME Inv, AddLinkSets PROVE Inv'
    OBVIOUS
  <1>0. PICK n, o, l, displaced :
            /\ n = Resolve(Top.at).node /\ o = LinkOffset(Top.at)
            /\ l = [off |-> o, ty |-> Top.ty, to |-> Top.to]
            /\ displaced = IF Top.ty = OmniType THEN {k \in links[n] : k.off = o}
                           ELSE {}
    OBVIOUS
  <1>1. /\ stack # <<>>
        /\ links' = [links EXCEPT ![n] = (@ \ displaced) \cup {l}]
        /\ Continue(IF displaced = {} THEN <<>>
                    ELSE <<Links([node |-> n, off |-> 0], displaced)>>)
        /\ UNCHANGED <<nodes, fwd, marks, size, types, sites, scalar, once, cell>>
    BY <1>0 DEF AddLinkSets, Running
  <1>2. /\ n \in nodes /\ n \in Node /\ l \in LinkIn(nodes)
        /\ displaced \subseteq links[n]
    BY <1>0, AddLinkTop DEF AddLinkSets, LinkIn
  <1>3. links[n] \subseteq LinkIn(nodes)
    BY <1>2 DEF Inv, TypeOK
  <1>4. PICK fs : fs = IF displaced = {} THEN <<>>
                       ELSE <<Links([node |-> n, off |-> 0], displaced)>>
    OBVIOUS
  <1>5. Links([node |-> n, off |-> 0], displaced) \in FrameIn(nodes)
    <2>1. [node |-> n, off |-> 0] \in CellIn(nodes)
      BY <1>2 DEF CellIn
    <2> QED
      BY <1>2, <1>3, <2>1 DEF Links, FrameIn
  <1>6. fs \in Seq(FrameIn(nodes)) /\ \A f : On(f, fs) => MergeSound(f)'
    BY <1>4, <1>5 DEF On, MergeSound, Links
  <1>7. \A k \in nodes : /\ IsArray(k)' <=> IsArray(k)
                         /\ IsCollapsed(k)' <=> IsCollapsed(k)
    BY <1>1 DEF IsArray, IsCollapsed
  <1>8. stack' \in Seq(FrameIn(nodes')) /\ MergesSound'
    <2>1. fs \in Seq(FrameIn(nodes')) /\ nodes \subseteq nodes' /\ Continue(fs)
      BY <1>1, <1>4, <1>6
    <2>2. \A f \in FrameIn(nodes) :
              On(f, stack) /\ MergeSound(f) => MergeSound(f)'
      BY <1>1, <1>7, FlagsDecide DEF Inv
    <2> QED
      BY <1>1, <1>6, <2>1, <2>2, MergesStaySound
  <1>9. links' \in [Node -> SUBSET LinkIn(nodes')]
    BY <1>1, <1>2, <1>3 DEF Inv, TypeOK
  <1>10. TypeOK'
    BY <1>1, <1>8, <1>9 DEF Inv, TypeOK, Root
  <1>11. ForwardingResolved' /\ ArraysHaveSize'
    BY <1>1 DEF Inv, ForwardingResolved, ArraysHaveSize, Root, IsArray
  <1> QED
    BY <1>8, <1>10, <1>11 DEF Inv

\* addAccessedType and growSize, where the type fits
LEMMA AddAccessedTypeInv == Inv /\ AddAccessedType => Inv'
  <1> SUFFICES ASSUME Inv, AddAccessedType PROVE Inv'
    OBVIOUS
  <1>0. PICK n, e : /\ n = Resolve(Top.at).node
                    /\ e = AccessedExtent(Top.at, Top.width)
    OBVIOUS
  <1>1. /\ stack # <<>> /\ Return
        /\ types' = [types EXCEPT ![n] = @ \cup {e}]
        /\ UNCHANGED <<nodes, fwd, marks, links, sites, scalar, once, cell>>
    BY <1>0 DEF AddAccessedType, Running
  <1>2. PICK z \in Ends(n, {e}) :
           GrowsTo(n, {e}, z) /\ size' = [size EXCEPT ![n] = z]
    BY <1>0 DEF AddAccessedType
  <1>3. n \in nodes /\ n \in Node /\ e \in Extent
    BY <1>0, AccessTop DEF AddAccessedType
  <1>4. z \in Nat /\ size[n] <= z
    BY <1>2, <1>3, EndsAreSizes DEF Inv
  <1>5. \A k \in nodes : /\ IsArray(k)' <=> IsArray(k)
                         /\ IsCollapsed(k)' <=> IsCollapsed(k)
    BY <1>1 DEF IsArray, IsCollapsed
  <1>6. stack' \in Seq(FrameIn(nodes')) /\ MergesSound'
    <2>1. \A f \in FrameIn(nodes) : MergeSound(f) => MergeSound(f)'
      BY <1>1, <1>5, FlagsDecide DEF Inv
    <2> QED
      BY <1>1, <2>1, ReturnKeepsMerges
  <1>7. types' \in [Node -> SUBSET Extent] /\ size' \in [Node -> Nat]
    BY <1>1, <1>2, <1>3, <1>4 DEF Inv, TypeOK
  <1>8. TypeOK'
    BY <1>1, <1>6, <1>7 DEF Inv, TypeOK, Root
  <1>9. ForwardingResolved'
    BY <1>1 DEF Inv, ForwardingResolved, Root
  <1>10. ArraysHaveSize'
    BY <1>1, <1>2, <1>3, <1>4 DEF Inv, ArraysHaveSize, IsArray, TypeOK
  <1> QED
    BY <1>6, <1>8, <1>9, <1>10 DEF Inv

-----------------------------------------------------------------------------
(* Binding a value to a cell.                                               *)

\* Graph::mkCell keeps the types of what it assigns
LEMMA MkCellType ==
    ASSUME TypeOK, nodes \subseteq nodes', nodes' \subseteq Node,
           NEW v \in Value, NEW c \in CellIn(nodes'), MkCell(v, c)
    PROVE  /\ cell' \in [Value -> CellIn(nodes') \cup {NoCell}]
           /\ scalar' \in [Node -> Value \cup {NoValue}]
           /\ once' \in [Node -> BOOLEAN]
  <1>1. CellIn(nodes) \subseteq CellIn(nodes')
    BY FramesGrow
  <1>2. cell' \in [Value -> CellIn(nodes') \cup {NoCell}]
    BY <1>1 DEF MkCell, TypeOK
  <1>3. c.node \in Node /\ c.off \in Nat
    BY DEF CellIn
  <1>4. NewScalar(v, c) \in Value \cup {NoValue}
    BY <1>3 DEF NewScalar, TypeOK
  <1>5. scalar' \in [Node -> Value \cup {NoValue}]
    BY <1>4 DEF MkCell, TypeOK
  <1>6. once' \in [Node -> BOOLEAN]
    <2>1. (once[c.node] \/ c.off = 0) \in BOOLEAN
      OBVIOUS
    <2>2. once \in [Node -> BOOLEAN] /\ once' = [once EXCEPT ![c.node] = @ \/ c.off = 0]
      BY DEF MkCell, TypeOK
    <2> QED
      BY <2>1, <2>2
  <1> QED
    BY <1>2, <1>5, <1>6

\* a step that binds a value and returns
LEMMA BindInv ==
    ASSUME Inv, stack # <<>>, Return, NEW v \in Value, NEW c \in CellIn(nodes),
           MkCell(v, c),
           UNCHANGED <<nodes, fwd, marks, size, types, links, sites>>
    PROVE  Inv'
  <1>1. /\ cell' \in [Value -> CellIn(nodes') \cup {NoCell}]
        /\ scalar' \in [Node -> Value \cup {NoValue}]
        /\ once' \in [Node -> BOOLEAN]
    <2>1. nodes' \subseteq Node
      BY DEF Inv, TypeOK
    <2> QED
      BY <2>1, MkCellType DEF Inv
  <1>2. \A k \in nodes : /\ IsArray(k)' <=> IsArray(k)
                         /\ IsCollapsed(k)' <=> IsCollapsed(k)
    BY DEF IsArray, IsCollapsed
  <1>3. stack' \in Seq(FrameIn(nodes')) /\ MergesSound'
    <2>1. \A f \in FrameIn(nodes) : MergeSound(f) => MergeSound(f)'
      BY <1>2, FlagsDecide DEF Inv
    <2> QED
      BY <2>1, ReturnKeepsMerges
  <1>4. TypeOK'
    BY <1>1, <1>3 DEF Inv, TypeOK, Root
  <1>5. ForwardingResolved' /\ ArraysHaveSize'
    BY DEF Inv, ForwardingResolved, ArraysHaveSize, Root, IsArray
  <1> QED
    BY <1>3, <1>4, <1>5 DEF Inv

\* mkCell for a select
LEMMA BindCellInv == Inv /\ BindCell => Inv'
  <1> SUFFICES ASSUME Inv, BindCell PROVE Inv'
    OBVIOUS
  <1>0. PICK v, c : v = Top.v /\ c = Resolve(Top.to)
    OBVIOUS
  <1>1. /\ stack # <<>> /\ Return /\ MkCell(v, c)
        /\ UNCHANGED <<nodes, fwd, marks, size, types, links, sites>>
    BY <1>0 DEF BindCell, Running
  <1>2. v \in Value /\ c \in CellIn(nodes)
    <2>1. Top.v \in Value /\ Top.to \in CellIn(nodes)
      BY TopFrame, FramesRead DEF BindCell, Running, Inv
    <2> QED
      BY <1>0, <2>1, ResolvedType DEF Inv
  <1> QED
    BY <1>1, <1>2, BindInv

\* mkCell for a load
LEMMA BindLinkTargetInv == Inv /\ BindLinkTarget => Inv'
  <1> SUFFICES ASSUME Inv, BindLinkTarget PROVE Inv'
    OBVIOUS
  <1>1. PICK l \in FoundLink(Resolve(Top.at).node, LinkOffset(Top.at), Top.ty) :
           MkCell(Top.v, Resolve(l.to))
    BY DEF BindLinkTarget
  <1>2. PICK v, c : v = Top.v /\ c = Resolve(l.to)
    OBVIOUS
  <1>3. /\ stack # <<>> /\ Return /\ MkCell(v, c)
        /\ UNCHANGED <<nodes, fwd, marks, size, types, links, sites>>
    BY <1>1, <1>2 DEF BindLinkTarget, Running
  <1>4. v \in Value /\ c \in CellIn(nodes)
    <2>1. Top.v \in Value /\ Top.at \in CellIn(nodes)
      BY TopFrame, FramesRead DEF BindLinkTarget, Running, Inv
    <2>2. Resolve(Top.at).node \in Node
      BY <2>1, ResolvedType DEF Inv
    <2>3. l.to \in CellIn(nodes)
      BY <2>2, FoundLinkType DEF Inv
    <2> QED
      BY <1>2, <2>1, <2>3, ResolvedType DEF Inv
  <1> QED
    BY <1>3, <1>4, BindInv

\* Every step of a graph operation keeps the invariant, whatever the calls above
\* it have done to the nodes it goes on with.
THEOREM GraphStepInv == Inv /\ GraphStep => Inv'
  <1> SUFFICES ASSUME Inv, GraphStep PROVE Inv'
    OBVIOUS
  <1>1. CASE UnifyCells
    BY <1>1, UnifyCellsInv
  <1>2. CASE UnifyAtCollapse
    BY <1>2, UnifyAtCollapseInv
  <1>3. CASE UnifyAtSwap
    BY <1>3, UnifyAtSwapInv
  <1>4. CASE UnifyAtSelf
    BY <1>4, UnifyAtSelfInv
  <1>5. CASE UnifyAtMerge
    BY <1>5, UnifyAtMergeInv
  <1>6. CASE CollapseDone
    BY <1>6, CollapseDoneInv
  <1>7. CASE CollapseInPlace
    BY <1>7, CollapseInPlaceInv
  <1>8. CASE CollapseFresh
    BY <1>8, CollapseFreshInv
  <1>9. CASE AbsorbTypes
    BY <1>9, AbsorbTypesInv
  <1>10. CASE AbsorbCollapses
    BY <1>10, AbsorbCollapsesInv
  <1>11. CASE AbsorbMarks
    BY <1>11, AbsorbMarksInv
  <1>12. CASE MoveLink
    BY <1>12, MoveLinkInv
  <1>13. CASE AllLinksMoved
    BY <1>13, AllLinksMovedInv
  <1>14. CASE AddLinkUnifies
    BY <1>14, AddLinkUnifiesInv
  <1>15. CASE AddLinkSets
    BY <1>15, AddLinkSetsInv
  <1>16. CASE AddAccessedType
    BY <1>16, AddAccessedTypeInv
  <1>17. CASE AccessCollapses
    BY <1>17, AccessCollapsesInv
  <1>18. CASE AccessIgnored
    BY <1>18, AccessIgnoredInv
  <1>19. CASE BindCell
    BY <1>19, BindCellInv
  <1>20. CASE BindLinkTarget
    BY <1>20, BindLinkTargetInv
  <1> QED
    BY <1>1, <1>2, <1>3, <1>4, <1>5, <1>6, <1>7, <1>8, <1>9, <1>10, <1>11,
       <1>12, <1>13, <1>14, <1>15, <1>16, <1>17, <1>18, <1>19, <1>20
       DEF GraphStep

(* The two halves of a load.                                                *)

\* setting one flag
LEMMA SetMarkType ==
    ASSUME TypeOK, nodes \subseteq nodes', NEW n \in Node, n \in nodes',
           NEW k \in Mark, SetMark(n, k)
    PROVE  /\ marks' \in [Node -> SUBSET Mark]
           /\ \A y \in Node \ nodes' : marks'[y] = {}
           /\ \A y \in Node : IsCollapsed(y) => IsCollapsed(y)'
           /\ \A y \in Node : IsArray(y)' => IsArray(y) \/ (k = "array" /\ y = n)
           /\ k \in {"read", "modified", "alloca"} =>
                 \A y \in Node : /\ IsArray(y)' <=> IsArray(y)
                                 /\ IsCollapsed(y)' <=> IsCollapsed(y)
  BY DEF SetMark, TypeOK, IsArray, IsCollapsed, Mark

\* what a load goes on with
LEMMA LoadTop ==
    ASSUME Inv, Running("load")
    PROVE  /\ stack # <<>>
           /\ Top.v \in Value /\ Top.at \in CellIn(nodes) /\ Top.ty \in FieldType
           /\ Resolve(Top.at).node \in nodes /\ Resolve(Top.at).node \in Node
  <1>1. /\ stack # <<>>
        /\ Top.v \in Value /\ Top.at \in CellIn(nodes) /\ Top.ty \in FieldType
    BY TopFrame, FramesRead DEF Running, Inv
  <1> QED
    BY <1>1, ResolvedType DEF Inv

\* a step of a load that marks its node and calls
LEMMA LoadInv ==
    ASSUME Inv, stack # <<>>, NEW n \in Node, n \in nodes, SetMark(n, "read"),
           nodes \subseteq nodes', nodes' \subseteq Node,
           NEW fs \in Seq(FrameIn(nodes')), Continue(fs),
           \A f : On(f, fs) => f.op \notin {"absorb", "annotate"},
           UNCHANGED <<fwd, size, types, links, sites, scalar, once, cell>>
    PROVE  Inv'
  <1>1. /\ marks' \in [Node -> SUBSET Mark]
        /\ \A y \in Node \ nodes' : marks'[y] = {}
        /\ \A y \in Node : /\ IsArray(y)' <=> IsArray(y)
                           /\ IsCollapsed(y)' <=> IsCollapsed(y)
    BY SetMarkType DEF Mark, Inv
  <1>2. stack' \in Seq(FrameIn(nodes')) /\ MergesSound'
    <2>1. \A f \in FrameIn(nodes) : MergeSound(f) => MergeSound(f)'
      <3>1. nodes \subseteq Node
        BY DEF Inv, TypeOK
      <3> QED
        BY <1>1, <3>1, FlagsDecide DEF Inv
    <2>2. \A f : On(f, fs) => MergeSound(f)'
      BY NoMergeSound
    <2> QED
      BY <2>1, <2>2, MergesStaySound
  <1>3. /\ links' \in [Node -> SUBSET LinkIn(nodes')]
        /\ cell' \in [Value -> CellIn(nodes') \cup {NoCell}]
    <2>1. CellIn(nodes) \subseteq CellIn(nodes')
      BY FramesGrow
    <2>2. LinkIn(nodes) \subseteq LinkIn(nodes')
      BY FramesGrow
    <2> QED
      BY <2>1, <2>2 DEF Inv, TypeOK
  <1>4. \A y \in nodes' : Root(y) \in nodes'
    <2> TAKE y \in nodes'
    <2>1. CASE y \in nodes
      BY <2>1 DEF Inv, TypeOK
    <2>2. CASE y \notin nodes
      <3>1. fwd[y] = [node |-> y, off |-> 0]
        BY <2>2 DEF Inv, TypeOK
      <3> QED
        BY <3>1 DEF Root
    <2> QED
      BY <2>1, <2>2
  <1>5. \A y \in Node \ nodes' : fwd[y] = [node |-> y, off |-> 0]
    BY DEF Inv, TypeOK
  <1>6. TypeOK'
    BY <1>1, <1>2, <1>3, <1>4, <1>5 DEF Inv, TypeOK, Root
  <1>7. ForwardingResolved'
    BY DEF Inv, ForwardingResolved, Root
  <1>8. ArraysHaveSize'
    BY <1>1 DEF Inv, ArraysHaveSize
  <1> QED
    BY <1>2, <1>6, <1>7, <1>8 DEF Inv

\* visitLoadInst, where there is a link
LEMMA LoadFindsLinkInv == Inv /\ LoadFindsLink => Inv'
  <1> SUFFICES ASSUME Inv, LoadFindsLink PROVE Inv'
    OBVIOUS
  <1>0. PICK n, x : /\ n = Resolve(Top.at).node
                    /\ x = BindLink(Top.v, Top.at, Top.ty)
    OBVIOUS
  <1>1. /\ stack # <<>> /\ SetMark(n, "read") /\ Continue(<<x>>)
        /\ n \in nodes /\ n \in Node
        /\ UNCHANGED <<nodes, fwd, size, types, links, sites, scalar, once, cell>>
    BY <1>0, LoadTop DEF LoadFindsLink
  <1>2. x \in FrameIn(nodes) /\ x.op = "bindLink"
    BY <1>0, LoadTop DEF LoadFindsLink, BindLink, FrameIn
  <1>3. /\ <<x>> \in Seq(FrameIn(nodes'))
        /\ \A f : On(f, <<x>>) => f.op \notin {"absorb", "annotate"}
    BY <1>1, <1>2 DEF On
  <1>4. nodes \subseteq nodes' /\ nodes' \subseteq Node
    BY <1>1 DEF Inv, TypeOK
  <1> QED
    BY <1>1, <1>3, <1>4, LoadInv

\* visitLoadInst, where a node for the loaded pointer is made
LEMMA LoadMakesLinkInv == Inv /\ LoadMakesLink => Inv'
  <1> SUFFICES ASSUME Inv, LoadMakesLink PROVE Inv'
    OBVIOUS
  <1>1. PICK k \in ClientNode :
           /\ MkNode(k)
           /\ Continue(<<AddLink(Top.at, Top.ty, At(k, 0)),
                         BindLink(Top.v, Top.at, Top.ty)>>)
    BY DEF LoadMakesLink
  <1>2. PICK n, x, y : /\ n = Resolve(Top.at).node
                       /\ x = AddLink(Top.at, Top.ty, At(k, 0))
                       /\ y = BindLink(Top.v, Top.at, Top.ty)
    OBVIOUS
  <1>3. /\ stack # <<>> /\ SetMark(n, "read") /\ Continue(<<x, y>>)
        /\ n \in nodes /\ n \in Node
        /\ UNCHANGED <<fwd, size, types, links, sites, scalar, once, cell>>
    BY <1>1, <1>2, LoadTop DEF LoadMakesLink
  <1>4. nodes \subseteq nodes' /\ nodes' \subseteq Node /\ k \in nodes'
    BY <1>1, MaxNodesAssumption DEF MkNode, Inv, TypeOK, ClientNode, Node
  <1>5. Top.v \in Value /\ Top.at \in CellIn(nodes') /\ Top.ty \in FieldType
    <2>1. Top.v \in Value /\ Top.at \in CellIn(nodes) /\ Top.ty \in FieldType
      BY LoadTop DEF LoadMakesLink
    <2>2. CellIn(nodes) \subseteq CellIn(nodes')
      BY <1>4, FramesGrow
    <2> QED
      BY <2>1, <2>2
  <1>6. At(k, 0) \in CellIn(nodes')
    BY <1>4 DEF At, CellIn
  <1>7. x \in FrameIn(nodes') /\ y \in FrameIn(nodes')
    BY <1>2, <1>5, <1>6 DEF AddLink, BindLink, FrameIn
  <1>8. x.op = "addLink" /\ y.op = "bindLink"
    BY <1>2 DEF AddLink, BindLink
  <1>9. /\ <<x, y>> \in Seq(FrameIn(nodes'))
        /\ \A f : On(f, <<x, y>>) => f.op \notin {"absorb", "annotate"}
    BY <1>7, <1>8 DEF On
  <1> QED
    BY <1>3, <1>4, <1>9, LoadInv

-----------------------------------------------------------------------------
(* The visits: nothing is pending when they begin, and what they call is    *)
(* never the middle of a merge.                                             *)

\* a visit that starts from no pending call, adds nodes, flags and cells and leaves
\* only calls that are not merges
LEMMA VisitInv ==
    ASSUME Inv, Idle, nodes \subseteq nodes', nodes' \subseteq Node,
           UNCHANGED <<fwd, types, links>>,
           marks' \in [Node -> SUBSET Mark],
           \A y \in Node \ nodes' : marks'[y] = {},
           size' \in [Node -> Nat],
           \A y \in Node : IsArray(y)' => size'[y] > 0,
           sites' \in [Node -> SUBSET Value],
           cell' \in [Value -> CellIn(nodes') \cup {NoCell}],
           scalar' \in [Node -> Value \cup {NoValue}],
           once' \in [Node -> BOOLEAN],
           stack' \in Seq(FrameIn(nodes')),
           \A f : On(f, stack') => f.op \notin {"absorb", "annotate"}
    PROVE  Inv'
  <1>1. links' \in [Node -> SUBSET LinkIn(nodes')]
    <2>1. LinkIn(nodes) \subseteq LinkIn(nodes')
      BY FramesGrow
    <2> QED
      BY <2>1 DEF Inv, TypeOK
  <1>2. \A y \in nodes' : Root(y) \in nodes'
    <2> TAKE y \in nodes'
    <2>1. CASE y \in nodes
      BY <2>1 DEF Inv, TypeOK
    <2>2. CASE y \notin nodes
      <3>1. fwd[y] = [node |-> y, off |-> 0]
        BY <2>2 DEF Inv, TypeOK
      <3> QED
        BY <3>1 DEF Root
    <2> QED
      BY <2>1, <2>2
  <1>3. \A y \in Node \ nodes' : fwd[y] = [node |-> y, off |-> 0]
    BY DEF Inv, TypeOK
  <1>4. TypeOK'
    BY <1>1, <1>2, <1>3 DEF Inv, TypeOK, Root
  <1>5. ForwardingResolved' /\ ArraysHaveSize'
    BY DEF Inv, ForwardingResolved, ArraysHaveSize, Root
  <1>6. MergesSound'
    BY NoMergeSound DEF MergesSound, On
  <1> QED
    BY <1>4, <1>5, <1>6 DEF Inv

\* no pending calls
LEMMA NoCalls ==
    ASSUME Idle, NEW S
    PROVE  /\ stack \in Seq(FrameIn(S))
           /\ \A f : ~On(f, stack)
  BY DEF Idle, On

\* a visit that only calls
LEMMA CallingVisitInv ==
    ASSUME Inv, Idle, NEW fs \in Seq(FrameIn(nodes)), Call(fs),
           \A f : On(f, fs) => f.op \notin {"absorb", "annotate"},
           UNCHANGED <<nodeVars, cell>>
    PROVE  Inv'
  <1>1. nodes' \subseteq Node /\ \A y \in Node : IsArray(y)' => size'[y] > 0
    BY DEF Inv, TypeOK, ArraysHaveSize, IsArray, nodeVars
  <1>2. /\ stack' \in Seq(FrameIn(nodes'))
        /\ \A f : On(f, stack') => f.op \notin {"absorb", "annotate"}
    BY DEF Call, nodeVars
  <1> QED
    BY <1>1, <1>2, VisitInv DEF Inv, TypeOK, nodeVars

\* a visit that only binds its value
LEMMA BindingVisitInv ==
    ASSUME Inv, Idle, NEW v \in Value, NEW c \in CellIn(nodes), MkCell(v, c),
           UNCHANGED <<nodes, fwd, marks, size, types, links, sites, stack>>
    PROVE  Inv'
  <1>1. nodes' \subseteq Node /\ \A y \in Node : IsArray(y)' => size'[y] > 0
    BY DEF Inv, TypeOK, ArraysHaveSize, IsArray
  <1>2. /\ cell' \in [Value -> CellIn(nodes') \cup {NoCell}]
        /\ scalar' \in [Node -> Value \cup {NoValue}]
        /\ once' \in [Node -> BOOLEAN]
    BY <1>1, MkCellType DEF Inv
  <1>3. /\ stack' \in Seq(FrameIn(nodes'))
        /\ \A f : On(f, stack') => f.op \notin {"absorb", "annotate"}
    BY NoCalls
  <1> QED
    BY <1>1, <1>2, <1>3, VisitInv DEF Inv, TypeOK

\* a visit that marks a node and calls
LEMMA MarkingVisitInv ==
    ASSUME Inv, Idle, NEW n \in Node, n \in nodes,
           NEW k \in {"read", "modified"}, SetMark(n, k),
           NEW fs \in Seq(FrameIn(nodes)), Call(fs),
           \A f : On(f, fs) => f.op \notin {"absorb", "annotate"},
           UNCHANGED <<nodes, fwd, size, types, links, sites, scalar, once, cell>>
    PROVE  Inv'
  <1>1. /\ marks' \in [Node -> SUBSET Mark]
        /\ \A y \in Node \ nodes' : marks'[y] = {}
        /\ \A y \in Node : IsArray(y)' <=> IsArray(y)
    BY SetMarkType DEF Mark, Inv
  <1>2. nodes' \subseteq Node /\ \A y \in Node : IsArray(y)' => size'[y] > 0
    BY <1>1 DEF Inv, TypeOK, ArraysHaveSize
  <1>3. /\ stack' \in Seq(FrameIn(nodes'))
        /\ \A f : On(f, stack') => f.op \notin {"absorb", "annotate"}
    BY DEF Call
  <1> QED
    BY <1>1, <1>2, <1>3, VisitInv DEF Inv, TypeOK

\* Graph::mkNode adds one node
LEMMA MkNodeType ==
    ASSUME TypeOK, NEW n \in ClientNode, MkNode(n)
    PROVE  /\ nodes \subseteq nodes' /\ nodes' \subseteq Node
           /\ n \in Node /\ n \in nodes' /\ n \notin nodes
           /\ At(n, 0) \in CellIn(nodes')
  <1>1. n \notin nodes /\ nodes' = nodes \cup {n} /\ nodes \subseteq Node
    BY DEF MkNode, TypeOK
  <1>2. n \in Node
    BY MaxNodesAssumption DEF ClientNode, Node
  <1>3. At(n, 0) \in CellIn(nodes')
    BY <1>1 DEF At, CellIn
  <1> QED
    BY <1>1, <1>2, <1>3

\* a bound value has a cell of the graph
LEMMA BoundType ==
    ASSUME TypeOK, NEW v \in Value, Bound(v)
    PROVE  cell[v] \in CellIn(nodes)
  BY DEF TypeOK, Bound

\* visitAllocaInst
LEMMA VisitAllocaInv ==
    ASSUME Inv, NEW v \in Value, VisitAlloca(v)
    PROVE  Inv'
  <1>1. PICK n \in ClientNode :
          /\ MkNode(n)
          /\ sites' = [sites EXCEPT ![n] = {v}]
          /\ SetMark(n, "alloca")
          /\ MkCell(v, At(n, 0))
    BY DEF VisitAlloca
  <1>2. Idle /\ UNCHANGED <<fwd, size, types, links, stack>>
    BY DEF VisitAlloca, Defines
  <1>3. /\ nodes \subseteq nodes' /\ nodes' \subseteq Node
        /\ n \in Node /\ n \in nodes' /\ At(n, 0) \in CellIn(nodes')
    BY <1>1, MkNodeType DEF Inv
  <1>4. /\ cell' \in [Value -> CellIn(nodes') \cup {NoCell}]
        /\ scalar' \in [Node -> Value \cup {NoValue}]
        /\ once' \in [Node -> BOOLEAN]
    BY <1>1, <1>3, MkCellType DEF Inv
  <1>5. /\ marks' \in [Node -> SUBSET Mark]
        /\ \A y \in Node \ nodes' : marks'[y] = {}
        /\ \A y \in Node : IsArray(y)' <=> IsArray(y)
    BY <1>1, <1>3, SetMarkType DEF Mark, Inv
  <1>6. /\ size' \in [Node -> Nat]
        /\ \A y \in Node : IsArray(y)' => size'[y] > 0
        /\ sites' \in [Node -> SUBSET Value]
    BY <1>1, <1>2, <1>5 DEF Inv, TypeOK, ArraysHaveSize
  <1>7. /\ stack' \in Seq(FrameIn(nodes'))
        /\ \A f : On(f, stack') => f.op \notin {"absorb", "annotate"}
    BY <1>2, NoCalls
  <1> QED
    BY <1>2, <1>3, <1>4, <1>5, <1>6, <1>7, VisitInv

\* visitInstruction
LEMMA VisitInstructionInv ==
    ASSUME Inv, NEW v \in Value, VisitInstruction(v)
    PROVE  Inv'
  <1>1. PICK n \in ClientNode : MkNode(n) /\ MkCell(v, At(n, 0))
    BY DEF VisitInstruction
  <1>2. Idle /\ UNCHANGED <<fwd, marks, size, types, links, sites, stack>>
    BY DEF VisitInstruction, Defines
  <1>3. /\ nodes \subseteq nodes' /\ nodes' \subseteq Node
        /\ At(n, 0) \in CellIn(nodes')
    BY <1>1, MkNodeType DEF Inv
  <1>4. /\ cell' \in [Value -> CellIn(nodes') \cup {NoCell}]
        /\ scalar' \in [Node -> Value \cup {NoValue}]
        /\ once' \in [Node -> BOOLEAN]
    BY <1>1, <1>3, MkCellType DEF Inv
  <1>5. /\ marks' \in [Node -> SUBSET Mark]
        /\ \A y \in Node \ nodes' : marks'[y] = {}
        /\ size' \in [Node -> Nat]
        /\ sites' \in [Node -> SUBSET Value]
    BY <1>2, <1>3 DEF Inv, TypeOK
  <1>6. \A y \in Node : IsArray(y)' => size'[y] > 0
    BY <1>2 DEF Inv, ArraysHaveSize, IsArray
  <1>7. /\ stack' \in Seq(FrameIn(nodes'))
        /\ \A f : On(f, stack') => f.op \notin {"absorb", "annotate"}
    BY <1>2, NoCalls
  <1> QED
    BY <1>2, <1>3, <1>4, <1>5, <1>6, <1>7, VisitInv

\* the cell of the base of a GEP
LEMMA GepBase ==
    ASSUME Inv, NEW v \in Value, NEW p \in Value, NEW k, NEW stride,
           IsGep(v, p, k, stride)
    PROVE  /\ Idle
           /\ Resolve(cell[p]).node \in nodes
           /\ Resolve(cell[p]).off \in Nat
           /\ Address(cell[p]).node = Resolve(cell[p]).node
           /\ Address(cell[p]).off \in Nat
  <1>1. Idle /\ cell[p] \in CellIn(nodes)
    BY BoundType DEF IsGep, Defines, Inv
  <1> QED
    BY <1>1, ResolvedType, AddressType DEF Inv

\* visitGep, where the result lies before the node of the base
LEMMA GepBeforeInv ==
    ASSUME Inv, NEW v \in Value, NEW p \in Value, NEW k \in Int, NEW stride,
           GepBefore(v, p, k, stride)
    PROVE  Inv'
  <1>1. PICK n \in ClientNode :
          /\ MkNode(n)
          /\ MkCell(v, At(n, 0))
          /\ Call(<<UnifyAt(n, Address(cell[p]).node, -(Address(cell[p]).off + k))>>)
    BY DEF GepBefore
  <1>2. /\ IsGep(v, p, k, stride)
        /\ Address(cell[p]).off + k < 0
        /\ UNCHANGED <<fwd, marks, size, types, links, sites>>
    BY DEF GepBefore
  <1>3. PICK x : x = UnifyAt(n, Address(cell[p]).node,
                             -(Address(cell[p]).off + k))
    OBVIOUS
  <1>4. /\ nodes \subseteq nodes' /\ nodes' \subseteq Node
        /\ n \in nodes' /\ At(n, 0) \in CellIn(nodes')
    BY <1>1, MkNodeType DEF Inv
  <1>5. /\ Idle /\ Address(cell[p]).node \in nodes
        /\ -(Address(cell[p]).off + k) \in Nat
    BY <1>2, GepBase
  <1>6. x \in FrameIn(nodes') /\ x.op = "unifyAt"
    BY <1>3, <1>4, <1>5 DEF UnifyAt, FrameIn
  <1>7. /\ stack' \in Seq(FrameIn(nodes'))
        /\ \A f : On(f, stack') => f.op \notin {"absorb", "annotate"}
    <2>1. stack' = <<x>>
      BY <1>1, <1>3 DEF Call
    <2> QED
      BY <1>6, <2>1 DEF On
  <1>8. /\ cell' \in [Value -> CellIn(nodes') \cup {NoCell}]
        /\ scalar' \in [Node -> Value \cup {NoValue}]
        /\ once' \in [Node -> BOOLEAN]
    BY <1>1, <1>4, MkCellType DEF Inv
  <1>9. /\ marks' \in [Node -> SUBSET Mark]
        /\ \A y \in Node \ nodes' : marks'[y] = {}
        /\ size' \in [Node -> Nat]
        /\ sites' \in [Node -> SUBSET Value]
    BY <1>2, <1>4 DEF Inv, TypeOK
  <1>10. \A y \in Node : IsArray(y)' => size'[y] > 0
    BY <1>2 DEF Inv, ArraysHaveSize, IsArray
  <1> QED
    BY <1>2, <1>4, <1>5, <1>7, <1>8, <1>9, <1>10, VisitInv

\* visitGep with a variable offset: the array it makes has the size of the stride
LEMMA GepIntoArrayInv ==
    ASSUME Inv, NEW v \in Value, NEW p \in Value, NEW k \in Int,
           NEW stride \in Nat, GepIntoArray(v, p, k, stride)
    PROVE  Inv'
  <1>1. PICK n \in ClientNode :
          /\ MkNode(n)
          /\ SetMark(n, "array")
          /\ size' = [size EXCEPT ![n] = stride]
          /\ MkCell(v, At(n, k + Resolve(cell[p]).off))
          /\ Call(<<UnifyAt(n, Resolve(cell[p]).node, 0)>>)
    BY DEF GepIntoArray
  <1>2. /\ IsGep(v, p, k, stride) /\ k >= 0 /\ stride # 0
        /\ UNCHANGED <<fwd, types, links, sites>>
    BY DEF GepIntoArray
  <1>3. PICK x, c : /\ x = UnifyAt(n, Resolve(cell[p]).node, 0)
                    /\ c = At(n, k + Resolve(cell[p]).off)
    OBVIOUS
  <1>4. /\ nodes \subseteq nodes' /\ nodes' \subseteq Node
        /\ n \in Node /\ n \in nodes'
    BY <1>1, MkNodeType DEF Inv
  <1>5. /\ Idle /\ Resolve(cell[p]).node \in nodes
        /\ k + Resolve(cell[p]).off \in Nat
    BY <1>2, GepBase
  <1>6. c \in CellIn(nodes')
    BY <1>3, <1>4, <1>5 DEF At, CellIn
  <1>7. x \in FrameIn(nodes') /\ x.op = "unifyAt"
    BY <1>3, <1>4, <1>5 DEF UnifyAt, FrameIn
  <1>8. /\ stack' \in Seq(FrameIn(nodes'))
        /\ \A f : On(f, stack') => f.op \notin {"absorb", "annotate"}
    <2>1. stack' = <<x>>
      BY <1>1, <1>3 DEF Call
    <2> QED
      BY <1>7, <2>1 DEF On
  <1>9. /\ cell' \in [Value -> CellIn(nodes') \cup {NoCell}]
        /\ scalar' \in [Node -> Value \cup {NoValue}]
        /\ once' \in [Node -> BOOLEAN]
    BY <1>1, <1>3, <1>4, <1>6, MkCellType DEF Inv
  <1>10. /\ marks' \in [Node -> SUBSET Mark]
         /\ \A y \in Node \ nodes' : marks'[y] = {}
         /\ \A y \in Node : IsArray(y)' => IsArray(y) \/ y = n
    BY <1>1, <1>4, SetMarkType DEF Mark, Inv
  <1>11. /\ size' \in [Node -> Nat]
         /\ \A y \in Node : IsArray(y)' => size'[y] > 0
         /\ sites' \in [Node -> SUBSET Value]
    BY <1>1, <1>2, <1>4, <1>10 DEF Inv, TypeOK, ArraysHaveSize
  <1> QED
    BY <1>2, <1>4, <1>5, <1>8, <1>9, <1>10, <1>11, VisitInv

\* visitGep
LEMMA VisitGepInv ==
    ASSUME Inv, NEW v \in Value, NEW p \in Value, NEW k \in Int,
           NEW stride \in Nat, VisitGep(v, p, k, stride)
    PROVE  Inv'
  <1>1. CASE GepInCollapsed(v, p, k, stride)
    <2>0. PICK c : c = At(Resolve(cell[p]).node, 0)
      OBVIOUS
    <2>1. Idle /\ c \in CellIn(nodes)
      BY <1>1, <2>0, GepBase DEF GepInCollapsed, At, CellIn
    <2> QED
      BY <1>1, <2>0, <2>1, BindingVisitInv DEF GepInCollapsed
  <1>2. CASE GepBack(v, p, k, stride)
    <2>0. PICK c : c = At(Address(cell[p]).node, Address(cell[p]).off + k)
      OBVIOUS
    <2>1. Address(cell[p]).off + k >= 0 /\ IsGep(v, p, k, stride)
      BY <1>2 DEF GepBack
    <2>2. Idle /\ c \in CellIn(nodes)
      BY <2>0, <2>1, GepBase DEF At, CellIn
    <2> QED
      BY <1>2, <2>0, <2>2, BindingVisitInv DEF GepBack
  <1>3. CASE GepBefore(v, p, k, stride)
    BY <1>3, GepBeforeInv
  <1>4. CASE GepIntoArray(v, p, k, stride)
    BY <1>4, GepIntoArrayInv
  <1>5. CASE GepToField(v, p, k, stride)
    <2>0. PICK c : c = At(Resolve(cell[p]).node, Resolve(cell[p]).off + k)
      OBVIOUS
    <2>1. Idle /\ c \in CellIn(nodes)
      BY <1>5, <2>0, GepBase DEF GepToField, At, CellIn
    <2> QED
      BY <1>5, <2>0, <2>1, BindingVisitInv DEF GepToField
  <1> QED
    BY <1>1, <1>2, <1>3, <1>4, <1>5 DEF VisitGep

\* visitLoadInst, up to its first call
LEMMA VisitLoadInv ==
    ASSUME Inv, NEW v \in Value, NEW p \in Value, NEW ty \in FieldType,
           VisitLoad(v, p, ty)
    PROVE  Inv'
  <1>0. PICK x, y : x = Access(cell[p], PtrWidth) /\ y = Load(v, cell[p], ty)
    OBVIOUS
  <1>1. /\ Idle /\ cell[p] \in CellIn(nodes)
        /\ Call(<<x, y>>) /\ UNCHANGED <<nodeVars, cell>>
    BY <1>0, BoundType DEF VisitLoad, Defines, Inv
  <1>2. /\ x \in FrameIn(nodes) /\ x.op = "access"
        /\ y \in FrameIn(nodes) /\ y.op = "load"
    BY <1>0, <1>1, WidthAssumption DEF Access, Load, FrameIn
  <1>3. /\ <<x, y>> \in Seq(FrameIn(nodes))
        /\ \A f : On(f, <<x, y>>) => f.op \notin {"absorb", "annotate"}
    BY <1>2 DEF On
  <1> QED
    BY <1>1, <1>3, CallingVisitInv

\* visitStoreInst of a pointer
LEMMA VisitStoreInv ==
    ASSUME Inv, NEW v \in Value, NEW p \in Value, NEW ty \in FieldType,
           VisitStore(v, p, ty)
    PROVE  Inv'
  <1>0. PICK n, x, y : /\ n = Resolve(cell[p]).node
                       /\ x = Access(cell[p], PtrWidth)
                       /\ y = AddLink(cell[p], ty, cell[v])
    OBVIOUS
  <1>1. /\ Idle /\ cell[p] \in CellIn(nodes) /\ cell[v] \in CellIn(nodes)
        /\ SetMark(n, "modified") /\ Call(<<x, y>>)
        /\ UNCHANGED <<nodes, fwd, size, types, links, sites, scalar, once, cell>>
    BY <1>0, BoundType DEF VisitStore, Inv
  <1>2. n \in Node /\ n \in nodes
    BY <1>0, <1>1, ResolvedType DEF Inv
  <1>3. /\ x \in FrameIn(nodes) /\ x.op = "access"
        /\ y \in FrameIn(nodes) /\ y.op = "addLink"
    BY <1>0, <1>1, WidthAssumption DEF Access, AddLink, FrameIn
  <1>4. /\ <<x, y>> \in Seq(FrameIn(nodes))
        /\ \A f : On(f, <<x, y>>) => f.op \notin {"absorb", "annotate"}
    BY <1>3 DEF On
  <1> QED
    BY <1>1, <1>2, <1>4, MarkingVisitInv

\* a load or store of something else
LEMMA VisitScalarAccessInv ==
    ASSUME Inv, NEW p \in Value, NEW width \in ScalarWidth,
           NEW mark \in {"read", "modified"}, VisitScalarAccess(p, width, mark)
    PROVE  Inv'
  <1>0. PICK n, x : n = Resolve(cell[p]).node /\ x = Access(cell[p], width)
    OBVIOUS
  <1>1. /\ Idle /\ cell[p] \in CellIn(nodes)
        /\ SetMark(n, mark) /\ Call(<<x>>)
        /\ UNCHANGED <<nodes, fwd, size, types, links, sites, scalar, once, cell>>
    BY <1>0, BoundType DEF VisitScalarAccess, Inv
  <1>2. n \in Node /\ n \in nodes
    BY <1>0, <1>1, ResolvedType DEF Inv
  <1>3. x \in FrameIn(nodes) /\ x.op = "access"
    <2>1. width \in Nat \ {0}
      BY WidthAssumption
    <2> QED
      BY <1>0, <1>1, <2>1 DEF Access, FrameIn
  <1>4. /\ <<x>> \in Seq(FrameIn(nodes))
        /\ \A f : On(f, <<x>>) => f.op \notin {"absorb", "annotate"}
    BY <1>3 DEF On
  <1> QED
    BY <1>1, <1>2, <1>4, MarkingVisitInv

\* visitSelectInst
LEMMA VisitSelectInv ==
    ASSUME Inv, NEW v \in Value, NEW p \in Value, NEW q \in Value,
           VisitSelect(v, p, q)
    PROVE  Inv'
  <1>0. PICK x, y : x = Unify(cell[p], cell[q]) /\ y = Bind(v, cell[p])
    OBVIOUS
  <1>1. /\ Idle /\ cell[p] \in CellIn(nodes) /\ cell[q] \in CellIn(nodes)
        /\ Call(<<x, y>>) /\ UNCHANGED <<nodeVars, cell>>
    BY <1>0, BoundType DEF VisitSelect, Defines, Inv
  <1>2. /\ x \in FrameIn(nodes) /\ x.op = "unify"
        /\ y \in FrameIn(nodes) /\ y.op = "bind"
    BY <1>0, <1>1 DEF Unify, Bind, FrameIn
  <1>3. /\ <<x, y>> \in Seq(FrameIn(nodes))
        /\ \A f : On(f, <<x, y>>) => f.op \notin {"absorb", "annotate"}
    BY <1>2 DEF On
  <1> QED
    BY <1>1, <1>3, CallingVisitInv

\* visitPHINode
LEMMA VisitPHINodeInv ==
    ASSUME Inv, NEW v \in Value, NEW p \in Value, VisitPHINode(v, p)
    PROVE  Inv'
  <1>0. PICK x : x = Unify(cell[v], cell[p])
    OBVIOUS
  <1>1. /\ Idle /\ cell[v] \in CellIn(nodes) /\ cell[p] \in CellIn(nodes)
        /\ Call(<<x>>) /\ UNCHANGED <<nodeVars, cell>>
    BY <1>0, BoundType DEF VisitPHINode, Inv
  <1>2. x \in FrameIn(nodes) /\ x.op = "unify"
    BY <1>0, <1>1 DEF Unify, FrameIn
  <1>3. /\ <<x>> \in Seq(FrameIn(nodes))
        /\ \A f : On(f, <<x>>) => f.op \notin {"absorb", "annotate"}
    BY <1>2 DEF On
  <1> QED
    BY <1>1, <1>3, CallingVisitInv

\* sea_dsa_collapse
LEMMA VisitCollapseInv ==
    ASSUME Inv, NEW p \in Value, VisitCollapse(p)
    PROVE  Inv'
  <1>0. PICK x : x = Collapse(Resolve(cell[p]).node)
    OBVIOUS
  <1>1. /\ Idle /\ cell[p] \in CellIn(nodes)
        /\ Call(<<x>>) /\ UNCHANGED <<nodeVars, cell>>
    BY <1>0, BoundType DEF VisitCollapse, Inv
  <1>2. x \in FrameIn(nodes) /\ x.op = "collapse"
    BY <1>0, <1>1, ResolvedType DEF Collapse, FrameIn, Inv
  <1>3. /\ <<x>> \in Seq(FrameIn(nodes))
        /\ \A f : On(f, <<x>>) => f.op \notin {"absorb", "annotate"}
    BY <1>2 DEF On
  <1> QED
    BY <1>1, <1>3, CallingVisitInv

\* sea_dsa_mk_seq gives the array it makes a size
LEMMA VisitMakeSeqInv ==
    ASSUME Inv, NEW p \in Value, NEW sz \in SeqSize, VisitMakeSeq(p, sz)
    PROVE  Inv'
  <1>0. PICK n : n = Resolve(cell[p]).node
    OBVIOUS
  <1>1. /\ Idle /\ cell[p] \in CellIn(nodes)
        /\ SetMark(n, "array") /\ size' = [size EXCEPT ![n] = sz]
        /\ UNCHANGED <<nodes, fwd, types, links, sites, scalar, once, cell, stack>>
    BY <1>0, BoundType DEF VisitMakeSeq, Inv
  <1>2. n \in Node /\ n \in nodes /\ sz \in Nat \ {0}
    BY <1>0, <1>1, ResolvedType, OffsetAssumption DEF Inv
  <1>3. /\ marks' \in [Node -> SUBSET Mark]
        /\ \A y \in Node \ nodes' : marks'[y] = {}
        /\ \A y \in Node : IsArray(y)' => IsArray(y) \/ y = n
    BY <1>1, <1>2, SetMarkType DEF Mark, Inv
  <1>4. /\ size' \in [Node -> Nat]
        /\ \A y \in Node : IsArray(y)' => size'[y] > 0
    BY <1>1, <1>2, <1>3 DEF Inv, TypeOK, ArraysHaveSize
  <1>5. /\ stack' \in Seq(FrameIn(nodes'))
        /\ \A f : On(f, stack') => f.op \notin {"absorb", "annotate"}
    BY <1>1, NoCalls
  <1> QED
    BY <1>1, <1>3, <1>4, <1>5, VisitInv DEF Inv, TypeOK

-----------------------------------------------------------------------------
\* The empty graph satisfies the invariant.
THEOREM InitInv == Init => Inv
  <1> SUFFICES ASSUME Init PROVE Inv
    OBVIOUS
  <1>1. /\ nodes = {}
        /\ fwd = [n \in Node |-> [node |-> n, off |-> 0]]
        /\ marks = [n \in Node |-> {}]
        /\ stack = <<>>
    BY DEF Init, GraphInit
  <1>2. \A n \in Node : fwd[n] = [node |-> n, off |-> 0] /\ Root(n) = n
    BY <1>1 DEF Root
  <1>3. TypeOK
    BY <1>1, <1>2 DEF Init, GraphInit, TypeOK, CellIn
  <1>4. ForwardingResolved /\ ArraysHaveSize
    BY <1>1, <1>2 DEF ForwardingResolved, ArraysHaveSize, IsArray
  <1>5. MergesSound
    BY <1>1 DEF MergesSound, On
  <1> QED
    BY <1>3, <1>4, <1>5 DEF Inv

\* The invariant is inductive: every visit and every step of the operations it
\* calls keep it.
THEOREM NextInv == Inv /\ [Next]_vars => Inv'
  <1> SUFFICES ASSUME Inv, [Next]_vars PROVE Inv'
    OBVIOUS
  <1>1. CASE GraphStep
    BY <1>1, GraphStepInv
  <1>2. CASE LoadFindsLink
    BY <1>2, LoadFindsLinkInv
  <1>3. CASE LoadMakesLink
    BY <1>3, LoadMakesLinkInv
  <1>4. CASE \E v \in Value : VisitAlloca(v) \/ VisitInstruction(v)
    BY <1>4, VisitAllocaInv, VisitInstructionInv
  <1>5. CASE \E v, p \in Value, k \in GepOffset, stride \in Stride \cup {0} :
                VisitGep(v, p, k, stride)
    <2>1. PICK v \in Value, p \in Value, k \in GepOffset,
               stride \in Stride \cup {0} : VisitGep(v, p, k, stride)
      BY <1>5
    <2>2. k \in Int /\ stride \in Nat
      BY OffsetAssumption
    <2> QED
      BY <2>1, <2>2, VisitGepInv
  <1>6. CASE \E v, p \in Value, ty \in FieldType :
                VisitLoad(v, p, ty) \/ VisitStore(v, p, ty)
    BY <1>6, VisitLoadInv, VisitStoreInv
  <1>7. CASE \E p \in Value, width \in ScalarWidth,
                mark \in {"read", "modified"} :
                VisitScalarAccess(p, width, mark)
    BY <1>7, VisitScalarAccessInv
  <1>8. CASE \E v, p, q \in Value : VisitSelect(v, p, q)
    BY <1>8, VisitSelectInv
  <1>9. CASE \E v, p \in Value : VisitPHINode(v, p)
    BY <1>9, VisitPHINodeInv
  <1>10. CASE \E p \in Value : VisitCollapse(p)
    BY <1>10, VisitCollapseInv
  <1>11. CASE \E p \in Value, sz \in SeqSize : VisitMakeSeq(p, sz)
    BY <1>11, VisitMakeSeqInv
  <1>12. CASE UNCHANGED vars
    <2>1. /\ UNCHANGED <<nodes, fwd, marks, size, types, links, sites, scalar,
                         once, cell, stack>>
      BY <1>12 DEF vars, graphVars
    <2>2. TypeOK'
      BY <2>1 DEF Inv, TypeOK, Root
    <2>3. ForwardingResolved' /\ ArraysHaveSize'
      BY <2>1 DEF Inv, ForwardingResolved, ArraysHaveSize, Root, IsArray
    <2>4. MergesSound'
      BY <2>1 DEF Inv, MergesSound, On, MergeSound, IsForwarding, IsCollapsed,
                  IsArray, Root
    <2> QED
      BY <2>2, <2>3, <2>4 DEF Inv
  <1> QED
    BY <1>1, <1>2, <1>3, <1>4, <1>5, <1>6, <1>7, <1>8, <1>9, <1>10, <1>11,
       <1>12 DEF Next, Step, Visit

\* The inductive invariant holds of every function: the graph is well formed,
\* forwarding is resolved, arrays have a size and every pending pointTo is sound.
THEOREM InvHolds == Spec => []Inv
  <1>1. Init => Inv
    BY InitInv
  <1>2. Inv /\ [Next]_vars => Inv'
    BY NextInv
  <1> QED
    BY <1>1, <1>2, PTL DEF Spec

\* No cell, link or pending call ever refers to a node that is not in the graph,
\* whatever nodes the calls above it have forwarded meanwhile.
THEOREM TypeCorrect == Spec => []TypeOK
  <1>1. Inv => TypeOK
    BY DEF Inv
  <1> QED
    BY <1>1, InvHolds, PTL

\* Node::Offset::getNumericOffset never divides by zero: an array has a size at
\* every moment, inside an operation and for every function visited.
THEOREM ArraysCorrect == Spec => []ArraysHaveSize
  <1>1. Inv => ArraysHaveSize
    BY DEF Inv
  <1> QED
    BY <1>1, InvHolds, PTL

(***************************************************************************)
(* What clients of the analysis rely on most, proved: two cells that       *)
(* denote the same memory do so for ever.  A step either leaves a node in  *)
(* place, with flags that only coarsen how offsets are read, or forwards a *)
(* node into another one that reads offsets at least as coarsely.  The     *)
(* second needs that an array only goes into an array whose size divides   *)
(* its own, and a little arithmetic of remainders.                         *)
(***************************************************************************)

(* Remainders.                                                              *)

\* quotient and remainder, as numbers with names
LEMMA Quotient ==
    ASSUME NEW a \in Nat, NEW t \in Nat \ {0}
    PROVE  \E q \in Int, r \in 0 .. (t - 1) : a = t * q + r /\ a % t = r
  <1>1. /\ a = t * (a \div t) + (a % t)
        /\ a \div t \in Int
        /\ a % t \in 0 .. (t - 1)
    OBVIOUS
  <1> QED
    BY <1>1

\* a number has one remainder
LEMMA RemainderUnique ==
    ASSUME NEW t \in Nat \ {0}, NEW q \in Int, NEW p \in Int,
           NEW r \in 0 .. (t - 1), NEW s \in 0 .. (t - 1),
           t * q + r = t * p + s
    PROVE  r = s
  <1>1. t * (q - p) = s - r
    OBVIOUS
  <1>2. CASE q - p >= 1
    <2>1. t * (q - p) >= t
      BY <1>2
    <2> QED
      BY <1>1, <2>1
  <1>3. CASE q - p <= -1
    <2>1. t * (q - p) <= -t
      BY <1>3
    <2> QED
      BY <1>1, <2>1
  <1>4. CASE q - p = 0
    BY <1>1, <1>4
  <1> QED
    BY <1>2, <1>3, <1>4

\* products of sums
LEMMA Distributes ==
    ASSUME NEW t \in Int, NEW q \in Int, NEW j \in Int
    PROVE  t * (q + j) = t * q + t * j
  OBVIOUS

\* products of three
LEMMA Associates ==
    ASSUME NEW t \in Int, NEW q \in Int, NEW j \in Int
    PROVE  (t * q) * j = t * (q * j) /\ q * j \in Int
  OBVIOUS

\* adding a multiple of t does not change the remainder
LEMMA MultipleAdded ==
    ASSUME NEW t \in Nat \ {0}, NEW q \in Int, NEW j \in Int, NEW l \in Int,
           NEW r \in 0 .. (t - 1), NEW u \in 0 .. (t - 1),
           t * l + u = t * q + (t * j + r)
    PROVE  u = r
  <1>1. t * (q + j) = t * q + t * j
    BY Distributes
  <1>2. t * l + u = t * (q + j) + r /\ q + j \in Int
    BY <1>1
  <1> QED
    BY <1>2, RemainderUnique

\* Two offsets that are the same modulo s stay so, wherever they are placed,
\* modulo each divisor of s.
SameModulo(a, b, s) == a % s = b % s
Divides(t, s) == s % t = 0

\* offsets that an array of size s takes for one are taken for one by the array of
\* size t it is placed in (unifyAt checks that t divides s)
LEMMA PlacedModulo ==
    ASSUME NEW s \in Nat \ {0}, NEW t \in Nat \ {0}, Divides(t, s),
           NEW a \in Nat, NEW b \in Nat, NEW o \in Nat, SameModulo(a, b, s)
    PROVE  SameModulo(a + o, b + o, t)
  <1> SUFFICES ASSUME s % t = 0, a % s = b % s
               PROVE  (a + o) % t = (b + o) % t
    BY DEF SameModulo, Divides
  <1>1. PICK q \in Int : s = t * q
    <2>1. PICK q \in Int, r \in 0 .. (t - 1) : s = t * q + r /\ s % t = r
      BY Quotient, ZenonT(20)
    <2>2. t * q + r = t * q /\ t * q \in Int
      BY <2>1
    <2> QED
      BY <2>1, <2>2
  <1>2. PICK i \in Int, r \in 0 .. (s - 1) : a = s * i + r /\ a % s = r
    BY Quotient
  <1>3. PICK j \in Int, u \in 0 .. (s - 1) : b = s * j + u /\ b % s = u
    BY Quotient
  <1>4. r = u
    BY <1>2, <1>3
  <1>5. PICK x \in Nat, y \in Nat, z \in Nat :
           x = r + o /\ y = a + o /\ z = b + o
    OBVIOUS
  <1>6. PICK k \in Int : k = q * i /\ y = t * k + x
    <2>1. s * i = t * (q * i) /\ q * i \in Int
      BY <1>1, Associates
    <2>2. PICK k \in Int : k = q * i /\ s * i = t * k
      BY <2>1
    <2> QED
      BY <1>2, <1>5, <2>2
  <1>7. PICK l \in Int : l = q * j /\ z = t * l + x
    <2>1. s * j = t * (q * j) /\ q * j \in Int
      BY <1>1, Associates
    <2>2. PICK l \in Int : l = q * j /\ s * j = t * l
      BY <2>1
    <2> QED
      BY <1>3, <1>4, <1>5, <2>2
  <1>8. PICK d \in Int, e \in 0 .. (t - 1) : x = t * d + e /\ x % t = e
    BY Quotient, ZenonT(20)
  <1>9. PICK f \in Int, g \in 0 .. (t - 1) : y = t * f + g /\ y % t = g
    BY Quotient, ZenonT(20)
  <1>10. PICK m \in Int, n \in 0 .. (t - 1) : z = t * m + n /\ z % t = n
    BY Quotient, ZenonT(20)
  <1>11. g = e
    <2>1. t * f + g = t * k + (t * d + e)
      BY <1>6, <1>8, <1>9
    <2> QED
      BY <2>1, MultipleAdded
  <1>12. n = e
    <2>1. t * m + n = t * l + (t * d + e)
      BY <1>7, <1>8, <1>10
    <2> QED
      BY <2>1, MultipleAdded
  <1> QED
    BY <1>5, <1>8, <1>9, <1>10, <1>11, <1>12

-----------------------------------------------------------------------------
(* Nodes that stay in place.                                                *)

\* a step after which node r reads offsets as before, or more coarsely
Coarser(r) ==
    \/ IsCollapsed(r)'
    \/ ~IsCollapsed(r) /\ (IsArray(r) => IsArray(r)' /\ size'[r] = size[r])

\* a step that separates no two cells
Together == \A c, d \in CellIn(Node) : SameCell(c, d) => SameCell(c, d)'

\* what Coarser is for
LEMMA CoarserReads ==
    ASSUME NEW r, Coarser(r), NEW a \in Nat, NEW b \in Nat,
           Numeric(r, a) = Numeric(r, b)
    PROVE  Numeric(r, a)' = Numeric(r, b)'
  BY DEF Coarser, Numeric

\* a cell is read in the node it leads to
LEMMA CellType ==
    ASSUME TypeOK, ForwardingResolved, NEW c \in CellIn(Node)
    PROVE  /\ Root(c.node) \in Node /\ Root(Root(c.node)) = Root(c.node)
           /\ fwd[c.node].off + c.off \in Nat
           /\ Address(c) = [node |-> Root(c.node),
                            off |-> Numeric(Root(c.node),
                                            fwd[c.node].off + c.off)]
  <1>1. c.node \in Node /\ c.off \in Nat
    BY DEF CellIn
  <1>2. fwd[c.node] \in CellIn(Node)
    BY <1>1 DEF TypeOK
  <1>3. Root(c.node) \in Node /\ fwd[c.node].off + c.off \in Nat
    BY <1>1, <1>2 DEF CellIn, Root
  <1>4. Root(Root(c.node)) = Root(c.node)
    BY <1>1, RootOfRoot
  <1> QED
    BY <1>3, <1>4 DEF Address, Resolve, Root

\* nothing is separated while no node forwards and each reads as coarsely
LEMMA InPlaceTogether ==
    ASSUME TypeOK, ForwardingResolved, UNCHANGED fwd,
           \A r \in Node : Root(r) = r => Coarser(r)
    PROVE  Together
  <1> SUFFICES ASSUME NEW c \in CellIn(Node), NEW d \in CellIn(Node),
                      SameCell(c, d)
               PROVE  SameCell(c, d)'
    BY DEF Together
  <1>1. PICK r \in Node, s \in Node, a \in Nat, b \in Nat :
           /\ r = Root(c.node) /\ a = fwd[c.node].off + c.off
           /\ s = Root(d.node) /\ b = fwd[d.node].off + d.off
    BY CellType
  <1>2. /\ r \in Node /\ Root(r) = r
        /\ Address(c) = [node |-> r, off |-> Numeric(r, a)]
        /\ Address(d) = [node |-> s, off |-> Numeric(s, b)]
    BY <1>1, CellType
  <1>3. r = s /\ Numeric(r, a) = Numeric(r, b)
    <2>1. Address(c).node = Address(d).node /\ Address(c).off = Address(d).off
      BY DEF SameCell
    <2> QED
      BY <1>2, <2>1
  <1>4. Numeric(r, a)' = Numeric(r, b)'
    BY <1>2, <1>3, CoarserReads
  <1>5. /\ Address(c)' = [node |-> r, off |-> Numeric(r, a)']
        /\ Address(d)' = [node |-> r, off |-> Numeric(r, b)']
    BY <1>1, <1>3 DEF Address, Resolve, Root, Numeric, IsCollapsed, IsArray
  <1> QED
    BY <1>4, <1>5 DEF SameCell

-----------------------------------------------------------------------------
(* Nodes that are placed inside others.                                     *)

\* the step after which node n reads what it took from m at least as coarsely
TakenIn(n, m) ==
    \/ IsCollapsed(n)'
    \/ ~IsCollapsed(m) /\ (IsArray(m) => IsArray(n)' /\ size[m] % size'[n] = 0)

\* what TakenIn is for
LEMMA TakenInReads ==
    ASSUME TypeOK, TypeOK', ArraysHaveSize, ArraysHaveSize',
           NEW n \in Node, NEW m \in Node, TakenIn(n, m),
           NEW a \in Nat, NEW b \in Nat, Numeric(m, a) = Numeric(m, b),
           NEW x \in Nat, NEW y \in Nat, x - a \in Nat, x - a = y - b
    PROVE  Numeric(n, x)' = Numeric(n, y)'
  <1>0. PICK o \in Nat : x = a + o /\ y = b + o
    OBVIOUS
  <1>1. CASE IsCollapsed(n)'
    BY <1>1 DEF Numeric
  <1>2. CASE ~IsCollapsed(n)' /\ ~IsArray(m)
    BY <1>0, <1>2 DEF TakenIn, Numeric
  <1>3. CASE ~IsCollapsed(n)' /\ IsArray(m)
    <2>1. /\ IsArray(n)' /\ ~IsCollapsed(m) /\ size[m] % size'[n] = 0
      BY <1>3 DEF TakenIn
    <2>2. PICK s \in Nat \ {0}, t \in Nat \ {0} : s = size[m] /\ t = size'[n]
      BY <1>3, <2>1 DEF ArraysHaveSize, TypeOK
    <2>3. SameModulo(a, b, s) /\ Divides(t, s)
      BY <1>3, <2>1, <2>2 DEF Numeric, SameModulo, Divides
    <2>4. SameModulo(a + o, b + o, t)
      BY <2>3, PlacedModulo
    <2> QED
      BY <1>0, <1>3, <2>1, <2>2, <2>4 DEF Numeric, SameModulo
  <1> QED
    BY <1>1, <1>2, <1>3

\* nothing is separated when node m is forwarded to a node n that takes it in
LEMMA MergedTogether ==
    ASSUME TypeOK, TypeOK', ForwardingResolved, ArraysHaveSize, ArraysHaveSize',
           NEW m \in Node, NEW n \in Node, NEW o \in Nat,
           Root(m) = m, Root(n) = n, fwd[n] = [node |-> n, off |-> 0], m # n,
           fwd' = Forwarded(m, n, o),
           \A r \in Node : (Root(r) = r /\ r # m) => Coarser(r),
           TakenIn(n, m)
    PROVE  Together
  <1> SUFFICES ASSUME NEW c \in CellIn(Node), NEW d \in CellIn(Node),
                      SameCell(c, d)
               PROVE  SameCell(c, d)'
    BY DEF Together
  <1>1. PICK r \in Node, s \in Node, a \in Nat, b \in Nat :
           /\ r = Root(c.node) /\ a = fwd[c.node].off + c.off
           /\ s = Root(d.node) /\ b = fwd[d.node].off + d.off
    BY CellType
  <1>2. /\ Root(r) = r
        /\ Address(c) = [node |-> r, off |-> Numeric(r, a)]
        /\ Address(d) = [node |-> s, off |-> Numeric(s, b)]
    BY <1>1, CellType
  <1>3. r = s /\ Numeric(r, a) = Numeric(r, b)
    <2>1. Address(c).node = Address(d).node /\ Address(c).off = Address(d).off
      BY DEF SameCell
    <2> QED
      BY <1>2, <2>1
  <1>4. /\ c.node \in Node /\ c.off \in Nat
        /\ d.node \in Node /\ d.off \in Nat
    BY DEF CellIn
  <1>5. CASE r = m
    <2>1. /\ fwd'[c.node] = [node |-> n, off |-> fwd[c.node].off + o]
          /\ fwd'[d.node] = [node |-> n, off |-> fwd[d.node].off + o]
      BY <1>1, <1>3, <1>4, <1>5 DEF Forwarded, Root
    <2>2. fwd[c.node].off \in Nat /\ fwd[d.node].off \in Nat
      BY <1>4 DEF TypeOK, CellIn
    <2>3. /\ fwd'[c.node].node = n /\ fwd'[c.node].off + c.off = a + o
          /\ fwd'[d.node].node = n /\ fwd'[d.node].off + d.off = b + o
      BY <1>1, <1>4, <2>1, <2>2
    <2>4. PICK x \in Nat, y \in Nat :
             x = a + o /\ y = b + o /\ x - a = y - b /\ x - a \in Nat
      OBVIOUS
    <2>5. Numeric(n, x)' = Numeric(n, y)'
      <3>1. Numeric(m, a) = Numeric(m, b)
        BY <1>3, <1>5
      <3> QED
        BY <2>4, <3>1, TakenInReads
    <2>6. /\ Address(c)' = [node |-> n, off |-> Numeric(n, x)']
          /\ Address(d)' = [node |-> n, off |-> Numeric(n, y)']
      BY <2>3, <2>4 DEF Address, Resolve, Numeric, IsCollapsed, IsArray
    <2> QED
      BY <2>5, <2>6 DEF SameCell
  <1>6. CASE r # m
    <2>1. fwd'[c.node] = fwd[c.node] /\ fwd'[d.node] = fwd[d.node]
      BY <1>1, <1>3, <1>4, <1>6, RootsForwarded
    <2>2. Numeric(r, a)' = Numeric(r, b)'
      BY <1>2, <1>3, <1>6, CoarserReads
    <2>3. /\ Address(c)' = [node |-> r, off |-> Numeric(r, a)']
          /\ Address(d)' = [node |-> r, off |-> Numeric(r, b)']
      BY <1>1, <1>3, <2>1
         DEF Address, Resolve, Root, Numeric, IsCollapsed, IsArray
    <2> QED
      BY <2>2, <2>3 DEF SameCell
  <1> QED
    BY <1>5, <1>6

-----------------------------------------------------------------------------
(* The steps of the graph operations and of the visits.                     *)

\* a step that leaves forwarding, flags and sizes alone
LEMMA NothingMoves ==
    ASSUME Inv, UNCHANGED <<fwd, marks, size>>
    PROVE  Together
  <1>1. \A r \in Node : Root(r) = r => Coarser(r)
    BY DEF Coarser, IsCollapsed, IsArray
  <1> QED
    BY <1>1, InPlaceTogether DEF Inv

\* a step that grows a node which is no array
LEMMA NodeGrows ==
    ASSUME Inv, UNCHANGED <<fwd, marks>>, NEW n \in Node, NEW z,
           size' = [size EXCEPT ![n] = z], IsArray(n) => z = size[n]
    PROVE  Together
  <1>1. \A r \in Node : Root(r) = r => Coarser(r)
    BY DEF Coarser, IsCollapsed, IsArray, Inv, TypeOK
  <1> QED
    BY <1>1, InPlaceTogether DEF Inv

\* a step that sets a flag
LEMMA NodeMarked ==
    ASSUME Inv, UNCHANGED <<fwd, size>>, NEW n \in Node, NEW k, SetMark(n, k)
    PROVE  Together
  <1>1. \A r \in Node : Root(r) = r => Coarser(r)
    BY DEF Coarser, IsCollapsed, IsArray, SetMark, Inv, TypeOK
  <1> QED
    BY <1>1, InPlaceTogether DEF Inv

\* a step that makes an array of a node
LEMMA NodeBecomesArray ==
    ASSUME Inv, UNCHANGED fwd, NEW n \in Node, NEW z, ~IsArray(n),
           SetMark(n, "array"), size' = [size EXCEPT ![n] = z]
    PROVE  Together
  <1>1. \A r \in Node : Root(r) = r => Coarser(r)
    BY DEF Coarser, IsCollapsed, IsArray, SetMark, Inv, TypeOK
  <1> QED
    BY <1>1, InPlaceTogether DEF Inv

\* pointTo: the cases of unifyAt that are left place a node in one that reads
\* offsets at least as coarsely
LEMMA UnifyAtMergeTogether == Inv /\ Inv' /\ UnifyAtMerge => Together
  <1> SUFFICES ASSUME Inv, Inv', UnifyAtMerge PROVE Together
    OBVIOUS
  <1>0. PICK n, m, o : /\ n = Root(Top.n) /\ m = Root(Top.m)
                       /\ o = Numeric(Root(Top.n), Top.o)
    OBVIOUS
  <1>1. /\ n # m
        /\ ~CannotPlace(n, m, Top.o) /\ ~MustSwap(n, m, Top.o)
        /\ fwd' = Forwarded(m, n, o)
        /\ UNCHANGED <<marks, size>>
    BY <1>0 DEF UnifyAtMerge
  <1>2. /\ n \in Node /\ m \in Node /\ o \in Nat
        /\ Top.n \in Node /\ Top.m \in Node
    BY <1>0, UnifyAtTop, RootType DEF UnifyAtMerge, Inv
  <1>3. Root(n) = n /\ Root(m) = m /\ fwd[n] = [node |-> n, off |-> 0]
    <2>1. fwd[n] = [node |-> n, off |-> 0]
      BY <1>0, <1>2 DEF Inv, ForwardingResolved
    <2> QED
      BY <1>0, <1>2, <2>1, RootOfRoot DEF Inv
  <1>4. \A r \in Node : (Root(r) = r /\ r # m) => Coarser(r)
    BY <1>1 DEF Coarser, IsCollapsed, IsArray
  <1>5. TakenIn(n, m)
    <2>1. IsCollapsed(m) => IsCollapsed(n)
      BY <1>1 DEF CannotPlace
    <2>2. (~IsCollapsed(n) /\ IsArray(m)) => IsArray(n)
      BY <1>1, <2>1 DEF MustSwap, ArrayIntoScalar
    <2>3. (IsArray(n) /\ IsArray(m)) => size[m] % size[n] = 0
      <3>1. SUFFICES ASSUME IsArray(n), IsArray(m)
                     PROVE  size[m] % size[n] = 0
        OBVIOUS
      <3>2. Smaller(n, m) = n /\ size[Larger(n, m)] % size[Smaller(n, m)] = 0
        BY <1>1, <3>1 DEF CannotPlace, MustSwap, ArrayIntoArray
      <3>3. Larger(n, m) = m
        BY <1>1, <3>2 DEF Smaller, Larger
      <3> QED
        BY <3>2, <3>3
    <2> QED
      BY <1>1, <2>1, <2>2, <2>3 DEF TakenIn, IsCollapsed, IsArray
  <1> QED
    BY <1>1, <1>2, <1>3, <1>4, <1>5, MergedTogether DEF Inv

\* collapseOffsets in place
LEMMA CollapseInPlaceTogether == Inv /\ CollapseInPlace => Together
  <1> SUFFICES ASSUME Inv, CollapseInPlace PROVE Together
    OBVIOUS
  <1>0. PICK n : n = Root(Top.n)
    OBVIOUS
  <1>1. /\ size' = [size EXCEPT ![n] = 1]
        /\ marks' = [marks EXCEPT ![n] =
                         (@ \cup {"offset_collapsed"}) \ {"array"}]
        /\ UNCHANGED fwd
    BY <1>0 DEF CollapseInPlace
  <1>2. n \in Node
    BY <1>0, CollapseTop DEF CollapseInPlace
  <1>3. \A r \in Node : Root(r) = r => Coarser(r)
    BY <1>1, <1>2 DEF Coarser, IsCollapsed, IsArray, Inv, TypeOK
  <1> QED
    BY <1>1, <1>3, InPlaceTogether DEF Inv

\* collapseOffsets with a new node: a collapsed node has one offset
LEMMA CollapseFreshTogether == Inv /\ Inv' /\ CollapseFresh => Together
  <1> SUFFICES ASSUME Inv, Inv', CollapseFresh PROVE Together
    OBVIOUS
  <1>0. PICK n, c : n = Root(Top.n) /\ c = CollapsedTwin(Root(Top.n))
    OBVIOUS
  <1>1. /\ n \in ClientNode /\ c \notin nodes
        /\ fwd' = Forwarded(n, c, 0)
        /\ marks' = [marks EXCEPT ![c] =
                        (JoinMarks({}, marks[n]) \cup {"offset_collapsed"})
                        \ {"array"}]
        /\ size' = [size EXCEPT ![c] = 1]
    BY <1>0 DEF CollapseFresh
  <1>2. n \in Node /\ Root(n) = n
    BY <1>0, CollapseTop DEF CollapseFresh
  <1>3. c \in Node /\ c # n
    BY <1>0, <1>1, MaxNodesAssumption DEF ClientNode, Node, CollapsedTwin
  <1>4. Root(c) = c /\ fwd[c] = [node |-> c, off |-> 0]
    <2>1. fwd[c] = [node |-> c, off |-> 0]
      BY <1>1, <1>3 DEF Inv, TypeOK
    <2> QED
      BY <2>1 DEF Root
  <1>5. IsCollapsed(c)'
    BY <1>1, <1>3 DEF IsCollapsed, Inv, TypeOK
  <1>6. \A r \in Node : Coarser(r)
    BY <1>1, <1>5 DEF Coarser, IsCollapsed, IsArray, Inv, TypeOK
  <1>7. TakenIn(c, n)
    BY <1>5 DEF TakenIn
  <1> QED
    BY <1>1, <1>2, <1>3, <1>4, <1>6, <1>7, MergedTogether DEF Inv

\* joining marks and resetting the source of pointTo
LEMMA AbsorbMarksTogether == Inv /\ AbsorbMarks => Together
  <1> SUFFICES ASSUME Inv, AbsorbMarks PROVE Together
    OBVIOUS
  <1>0. PICK n, r : n = Top.n /\ r = Root(Top.m)
    OBVIOUS
  <1>1. /\ marks' = [marks EXCEPT ![r] = JoinMarks(@, marks[n]), ![n] = {}]
        /\ size' = [size EXCEPT ![n] = 0]
        /\ UNCHANGED fwd
    BY <1>0 DEF AbsorbMarks
  <1>2. /\ n \in Node /\ r \in Node /\ n # r /\ Root(n) # n
        /\ IsCollapsed(n) => IsCollapsed(r)
        /\ IsArray(n) => IsArray(r) \/ IsCollapsed(r)
    BY <1>0, AbsorbTop DEF AbsorbMarks, Running, MergeSound, IsForwarding
  <1>3. marks[r] \in SUBSET Mark /\ marks[n] \in SUBSET Mark
    BY <1>2 DEF Inv, TypeOK
  <1>4. marks'[r] = JoinMarks(marks[r], marks[n]) /\ size'[r] = size[r]
    BY <1>1, <1>2 DEF Inv, TypeOK
  <1>5. Coarser(r)
    <2>1. IsCollapsed(r) => IsCollapsed(r)'
      BY <1>3, <1>4, JoinFlags DEF IsCollapsed
    <2>2. IsArray(r) => IsArray(r)' \/ IsCollapsed(r)'
      BY <1>3, <1>4, JoinFlags DEF IsCollapsed, IsArray
    <2> QED
      BY <1>4, <2>1, <2>2 DEF Coarser
  <1>6. \A k \in Node \ {n, r} : marks'[k] = marks[k] /\ size'[k] = size[k]
    BY <1>1 DEF Inv, TypeOK
  <1>7. \A k \in Node : Root(k) = k => Coarser(k)
    BY <1>2, <1>5, <1>6 DEF Coarser, IsCollapsed, IsArray
  <1> QED
    BY <1>1, <1>7, InPlaceTogether DEF Inv

\* joinAccessedTypes grows no array
LEMMA AbsorbTypesTogether == Inv /\ AbsorbTypes => Together
  <1> SUFFICES ASSUME Inv, AbsorbTypes PROVE Together
    OBVIOUS
  <1>1. PICK z \in Ends(Top.m, JoinedTypes(Top.n, Top.m, Top.o)) :
           size' = [size EXCEPT ![Top.m] = z]
    BY DEF AbsorbTypes
  <1>2. PICK m : m = Top.m
    OBVIOUS
  <1>3. m \in Node
    BY <1>2, AbsorbTop DEF AbsorbTypes, Running
  <1>4. IsArray(m) => z = size[m]
    BY <1>1, <1>2 DEF Ends
  <1> QED
    BY <1>1, <1>2, <1>3, <1>4, NodeGrows DEF AbsorbTypes

\* addAccessedType grows no array
LEMMA AddAccessedTypeTogether == Inv /\ AddAccessedType => Together
  <1> SUFFICES ASSUME Inv, AddAccessedType PROVE Together
    OBVIOUS
  <1>1. PICK n : n = Resolve(Top.at).node
    OBVIOUS
  <1>2. PICK z \in Ends(n, {AccessedExtent(Top.at, Top.width)}) :
           size' = [size EXCEPT ![n] = z]
    BY <1>1 DEF AddAccessedType
  <1>3. n \in Node
    BY <1>1, AccessTop DEF AddAccessedType
  <1>4. IsArray(n) => z = size[n]
    BY <1>2 DEF Ends
  <1> QED
    BY <1>2, <1>3, <1>4, NodeGrows DEF AddAccessedType

\* no step of a graph operation separates two cells
LEMMA GraphStepTogether == Inv /\ Inv' /\ GraphStep => Together
  <1> SUFFICES ASSUME Inv, Inv', GraphStep PROVE Together
    OBVIOUS
  <1>1. CASE \/ UnifyCells \/ UnifyAtCollapse \/ UnifyAtSwap \/ UnifyAtSelf
             \/ CollapseDone \/ AbsorbCollapses \/ MoveLink \/ AllLinksMoved
             \/ AddLinkUnifies \/ AddLinkSets
             \/ AccessCollapses \/ AccessIgnored \/ BindCell \/ BindLinkTarget
    <2>1. UNCHANGED <<fwd, marks, size>>
      BY <1>1 DEF UnifyCells, UnifyAtCollapse, UnifyAtSwap, UnifyAtSelf,
                  CollapseDone, AbsorbCollapses, MoveLink, AllLinksMoved,
                  AddLinkUnifies, AddLinkSets, AccessCollapses, AccessIgnored,
                  BindCell, BindLinkTarget, nodeVars
    <2> QED
      BY <2>1, NothingMoves
  <1>2. CASE UnifyAtMerge
    BY <1>2, UnifyAtMergeTogether
  <1>3. CASE CollapseInPlace
    BY <1>3, CollapseInPlaceTogether
  <1>4. CASE CollapseFresh
    BY <1>4, CollapseFreshTogether
  <1>5. CASE AbsorbTypes
    BY <1>5, AbsorbTypesTogether
  <1>6. CASE AbsorbMarks
    BY <1>6, AbsorbMarksTogether
  <1>7. CASE AddAccessedType
    BY <1>7, AddAccessedTypeTogether
  <1> QED
    BY <1>1, <1>2, <1>3, <1>4, <1>5, <1>6, <1>7 DEF GraphStep

\* nor does a step of a load
LEMMA LoadTogether == Inv /\ (LoadFindsLink \/ LoadMakesLink) => Together
  <1> SUFFICES ASSUME Inv, LoadFindsLink \/ LoadMakesLink PROVE Together
    OBVIOUS
  <1>1. PICK n : n = Resolve(Top.at).node
    OBVIOUS
  <1>2. SetMark(n, "read") /\ n \in Node /\ UNCHANGED <<fwd, size>>
    BY <1>1, LoadTop DEF LoadFindsLink, LoadMakesLink
  <1> QED
    BY <1>2, NodeMarked

\* nor does a visit: what it makes an array is new, or was none (MAKE_SEQ)
LEMMA VisitTogether == Inv /\ Visit => Together
  <1> SUFFICES ASSUME Inv, Visit PROVE Together
    OBVIOUS
  <1>1. CASE \E v \in Value : VisitAlloca(v)
    <2>1. PICK v \in Value, n \in ClientNode :
             /\ MkNode(n) /\ SetMark(n, "alloca")
             /\ UNCHANGED <<fwd, size>>
      BY <1>1 DEF VisitAlloca
    <2>2. n \in Node
      BY <2>1, MkNodeType DEF Inv
    <2> QED
      BY <2>1, <2>2, NodeMarked
  <1>2. CASE \E v \in Value : VisitInstruction(v)
    BY <1>2, NothingMoves DEF VisitInstruction
  <1>3. CASE \E v, p \in Value, k \in GepOffset, stride \in Stride \cup {0} :
                VisitGep(v, p, k, stride)
    <2>1. PICK v \in Value, p \in Value, k \in GepOffset,
               stride \in Stride \cup {0} : VisitGep(v, p, k, stride)
      BY <1>3
    <2>2. CASE GepIntoArray(v, p, k, stride)
      <3>1. PICK n \in ClientNode :
              /\ MkNode(n) /\ SetMark(n, "array")
              /\ size' = [size EXCEPT ![n] = stride]
              /\ UNCHANGED fwd
        BY <2>2 DEF GepIntoArray
      <3>2. n \in Node /\ n \notin nodes
        BY <3>1, MkNodeType DEF Inv
      <3>3. ~IsArray(n)
        BY <3>2 DEF IsArray, Inv, TypeOK
      <3> QED
        BY <3>1, <3>2, <3>3, NodeBecomesArray
    <2>3. CASE ~GepIntoArray(v, p, k, stride)
      <3>1. UNCHANGED <<fwd, marks, size>>
        BY <2>1, <2>3 DEF VisitGep, GepInCollapsed, GepBack, GepBefore,
                          GepToField
      <3> QED
        BY <3>1, NothingMoves
    <2> QED
      BY <2>2, <2>3
  <1>4. CASE \E v, p \in Value, ty \in FieldType : VisitLoad(v, p, ty)
    BY <1>4, NothingMoves DEF VisitLoad, nodeVars
  <1>5. CASE \E v, p \in Value, ty \in FieldType : VisitStore(v, p, ty)
    <2>1. \E p \in Value : Bound(p) /\ SetMark(Resolve(cell[p]).node, "modified")
                            /\ UNCHANGED <<fwd, size>>
      BY <1>5 DEF VisitStore
    <2>2. PICK n, m : SetMark(n, m) /\ n \in Node /\ UNCHANGED <<fwd, size>>
      BY <2>1, BoundType, ResolvedType DEF Inv
    <2> QED
      BY <2>2, NodeMarked
  <1>6. CASE \E p \in Value, width \in ScalarWidth,
                mark \in {"read", "modified"} :
                VisitScalarAccess(p, width, mark)
    <2>1. \E p \in Value, mark \in {"read", "modified"} :
             /\ Bound(p) /\ SetMark(Resolve(cell[p]).node, mark)
             /\ UNCHANGED <<fwd, size>>
      BY <1>6 DEF VisitScalarAccess
    <2>2. PICK n, m : SetMark(n, m) /\ n \in Node /\ UNCHANGED <<fwd, size>>
      BY <2>1, BoundType, ResolvedType DEF Inv
    <2> QED
      BY <2>2, NodeMarked
  <1>7. CASE \/ \E v, p, q \in Value : VisitSelect(v, p, q)
             \/ \E v, p \in Value : VisitPHINode(v, p)
             \/ \E p \in Value : VisitCollapse(p)
    BY <1>7, NothingMoves DEF VisitSelect, VisitPHINode, VisitCollapse, nodeVars
  <1>8. CASE \E p \in Value, sz \in SeqSize : VisitMakeSeq(p, sz)
    <2>1. PICK p \in Value, sz \in SeqSize : VisitMakeSeq(p, sz)
      BY <1>8
    <2>2. PICK n : n = Resolve(cell[p]).node
      OBVIOUS
    <2>3. /\ Bound(p) /\ ~IsArray(n) /\ SetMark(n, "array")
          /\ size' = [size EXCEPT ![n] = sz] /\ UNCHANGED fwd
      BY <2>1, <2>2 DEF VisitMakeSeq
    <2>4. n \in Node
      BY <2>2, <2>3, BoundType, ResolvedType DEF Inv
    <2> QED
      BY <2>3, <2>4, NodeBecomesArray
  <1> QED
    BY <1>1, <1>2, <1>3, <1>4, <1>5, <1>6, <1>7, <1>8 DEF Visit

\* nor does any step
LEMMA NextTogether == Inv /\ Inv' /\ [Next]_vars => Together
  <1> SUFFICES ASSUME Inv, Inv', [Next]_vars PROVE Together
    OBVIOUS
  <1>1. CASE UNCHANGED vars
    BY <1>1, NothingMoves DEF vars, graphVars
  <1> QED
    BY <1>1, GraphStepTogether, LoadTogether, VisitTogether DEF Next, Step

\* No step separates two cells that denote the same memory, whatever their
\* offsets: not a merge (Node::unifyAt, Node::pointTo), not a collapse, not a
\* node becoming an array.
THEOREM CellsStayTogether == Spec => [][Together]_vars
  <1>1. Inv /\ Inv' /\ [Next]_vars => [Together]_vars
    BY NextTogether
  <1> QED
    BY <1>1, InvHolds, PTL DEF Spec

\* The same for the cells that the runs look at.
THEOREM SameStays == Spec => SameStaysSame
  <1>1. Probe \subseteq CellIn(Node)
    BY MaxNodesAssumption DEF Probe, ProbeOffset, CellIn, ClientNode, Node
  <1>2. Together => \A c, d \in Probe : SameCell(c, d) => SameCell(c, d)'
    BY <1>1 DEF Together
  <1>3. [Together]_vars
            => [\A c, d \in Probe : SameCell(c, d) => SameCell(c, d)']_vars
    BY <1>2
  <1> QED
    BY <1>3, CellsStayTogether, PTL DEF SameStaysSame
=============================================================================
