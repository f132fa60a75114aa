---------------------------- MODULE DsaKeptProofs ----------------------------
(***************************************************************************)
(* What a function asked for is kept, proved: a GEP stays at its distance  *)
(* from its base, and whatever was stored through a pointer or loaded      *)
(* through it is found there when the operation has returned.              *)
(*                                                                         *)
(* When visitGep returns, the unification that puts the result in its      *)
(* place is still pending; what it is going to do is not visible in the    *)
(* graph yet.  The invariant speaks of it through the maps E from cells to *)
(* anything that give two cells one value when the graph, and the calls    *)
(* still pending, are going to make them one: a pending Cell::unify or     *)
(* Node::unifyAt pledges an equation.  Every step of the engine keeps what *)
(* was pledged: a map that suits the graph and the calls after the step    *)
(* suits those before it.  Once nothing is pending the addresses of cells  *)
(* are such a map.                                                         *)
(***************************************************************************)
EXTENDS DsaShapeProofs

CellMap == [CellIn(Node) -> CellIn(Node)]

\* E tells no cells apart that the graph does not
Respects(E) == \A c, d \in CellIn(Node) : SameCell(c, d) => E[c] = E[d]

\* cells that E does not tell apart stay so when both are moved
MovesAlong(E) ==
    \A c, d \in CellIn(Node) : \A k \in Nat :
        E[c] = E[d] => E[Shifted(c, k)] = E[Shifted(d, k)]

\* what the pending call f will make one
Pledged(f, E) ==
    /\ f.op = "unify" => E[f.a] = E[f.b]
    /\ f.op = "unifyAt" => E[At(f.n, f.o)] = E[At(f.m, 0)]
    /\ f.op = "collapse" => \A a, b \in Nat : E[At(f.n, a)] = E[At(f.n, b)]

Foresees(E) ==
    /\ Respects(E)
    /\ MovesAlong(E)
    /\ \A f : On(f, stack) => Pledged(f, E)

-----------------------------------------------------------------------------
(* Cells that denote the same memory.                                       *)

\* cells at numbers
LEMMA AtType ==
    ASSUME NEW n \in Node, NEW o \in Nat
    PROVE  At(n, o) \in CellIn(Node) /\ At(n, o).node = n /\ At(n, o).off = o
  BY DEF At, CellIn

\* moving a cell of a node
LEMMA AtShifted ==
    ASSUME NEW n, NEW o, NEW k
    PROVE  Shifted(At(n, o), k) = At(n, o + k)
  BY DEF At, Shifted

\* a node that does not forward
LEMMA RootReads ==
    ASSUME Inv, NEW r \in Node, Root(r) = r, NEW o \in Nat
    PROVE  /\ Resolve(At(r, o)) = At(r, o)
           /\ Address(At(r, o)) = At(r, Numeric(r, o))
  <1>1. fwd[r] = [node |-> r, off |-> 0]
    BY DEF Inv, ForwardingResolved
  <1>2. Resolve(At(r, o)) = At(r, o)
    BY <1>1 DEF Resolve, At
  <1> QED
    BY <1>2 DEF Address, At

\* what a cell resolves to, by name
LEMMA ResolvesTo ==
    ASSUME Inv, NEW c \in CellIn(Node)
    PROVE  /\ c.node \in Node /\ c.off \in Nat
           /\ Root(c.node) \in Node /\ Root(Root(c.node)) = Root(c.node)
           /\ fwd[c.node].off \in Nat
           /\ Resolve(c) = At(Root(c.node), fwd[c.node].off + c.off)
           /\ Resolve(c) \in CellIn(Node)
           /\ SameCell(c, Resolve(c))
  <1>1. c.node \in Node /\ c.off \in Nat /\ fwd[c.node] \in CellIn(Node)
    BY DEF CellIn, Inv, TypeOK
  <1>2. Root(c.node) \in Node /\ fwd[c.node].off \in Nat
    BY <1>1 DEF CellIn, Root
  <1>3. Root(Root(c.node)) = Root(c.node)
    BY <1>1, RootOfRoot DEF Inv
  <1>4. Resolve(c) = At(Root(c.node), fwd[c.node].off + c.off)
    BY DEF Resolve, At, Root
  <1>5. PICK r \in Node, o \in Nat : r = Root(c.node) /\ o = fwd[c.node].off + c.off
    BY <1>1, <1>2
  <1>6. Resolve(c) = At(r, o) /\ Resolve(c) \in CellIn(Node)
    BY <1>4, <1>5, AtType
  <1>7. Resolve(At(r, o)) = At(r, o)
    BY <1>3, <1>5, RootReads
  <1>8. SameCell(c, Resolve(c))
    BY <1>6, <1>7 DEF SameCell, Address
  <1> QED
    BY <1>1, <1>2, <1>3, <1>4, <1>6, <1>8

\* moving a cell moves what it resolves to
LEMMA ShiftedReads ==
    ASSUME Inv, NEW c \in CellIn(Node), NEW k \in Nat
    PROVE  /\ Shifted(c, k) \in CellIn(Node)
           /\ Resolve(Shifted(c, k)) = At(Root(c.node), (fwd[c.node].off + c.off) + k)
  <1>1. /\ Shifted(c, k) \in CellIn(Node)
        /\ Shifted(c, k).node = c.node /\ Shifted(c, k).off = c.off + k
    BY ShiftedType
  <1>2. PICK x \in Nat, y \in Nat : x = fwd[c.node].off /\ y = c.off
    BY ResolvesTo
  <1>3. x + (y + k) = (x + y) + k
    OBVIOUS
  <1>4. Resolve(Shifted(c, k)) = At(Root(c.node), x + (y + k))
    BY <1>1, <1>2 DEF Resolve, At, Root
  <1> QED
    BY <1>1, <1>2, <1>3, <1>4

\* the offset shown denotes the same byte as the offset kept
LEMMA NumericSame ==
    ASSUME Inv, NEW r \in Node, Root(r) = r, NEW o \in Nat
    PROVE  /\ Numeric(r, o) \in Nat /\ Numeric(r, Numeric(r, o)) = Numeric(r, o)
           /\ SameCell(At(r, o), At(r, Numeric(r, o)))
  <1>1. PICK a \in Nat : a = Numeric(r, o)
    BY NumericIsNat DEF Inv
  <1>2. Numeric(r, a) = a
    <2>1. CASE IsCollapsed(r) \/ ~IsArray(r)
      BY <1>1, <2>1 DEF Numeric
    <2>2. CASE ~IsCollapsed(r) /\ IsArray(r)
      <3>1. PICK s \in Nat \ {0} : s = size[r]
        BY <2>2 DEF Inv, ArraysHaveSize, TypeOK
      <3>2. a = o % s /\ Numeric(r, a) = a % s
        BY <1>1, <2>2, <3>1 DEF Numeric
      <3>3. a \in 0 .. (s - 1)
        BY <3>1, <3>2
      <3> QED
        BY <3>2, <3>3
    <2> QED
      BY <2>1, <2>2
  <1>3. Address(At(r, o)) = At(r, a) /\ Address(At(r, a)) = At(r, a)
    BY <1>1, <1>2, RootReads
  <1> QED
    BY <1>1, <1>2, <1>3 DEF SameCell

\* a collapsed node is one byte
LEMMA CollapsedSame ==
    ASSUME Inv, NEW c \in CellIn(Node), NEW d \in CellIn(Node),
           Root(c.node) = Root(d.node), IsCollapsed(Root(c.node))
    PROVE  SameCell(c, d)
  <1>1. PICK r : r = Root(c.node)
    OBVIOUS
  <1>2. Address(c) = At(r, 0) /\ Address(d) = At(r, 0)
    BY <1>1, ResolvesTo DEF Address, Numeric, At
  <1> QED
    BY <1>2 DEF SameCell

\* cells that denote the same byte do so after both are moved
LEMMA SameMoves ==
    ASSUME Inv, NEW c \in CellIn(Node), NEW d \in CellIn(Node), NEW k \in Nat,
           SameCell(c, d)
    PROVE  SameCell(Shifted(c, k), Shifted(d, k))
  <1>1. PICK r \in Node, a \in Nat : /\ r = Root(c.node) /\ a = fwd[c.node].off + c.off
                                     /\ Resolve(c) = At(r, a)
    BY ResolvesTo
  <1>2. PICK s \in Node, b \in Nat : /\ s = Root(d.node) /\ b = fwd[d.node].off + d.off
                                     /\ Resolve(d) = At(s, b)
    BY ResolvesTo
  <1>3. r = s /\ Numeric(r, a) = Numeric(r, b)
    BY <1>1, <1>2 DEF SameCell, Address, At
  <1>4. Resolve(Shifted(c, k)) = At(r, a + k)
    BY <1>1, ShiftedReads
  <1>5. Resolve(Shifted(d, k)) = At(r, b + k)
    BY <1>2, <1>3, ShiftedReads
  <1>6. Numeric(r, a + k) = Numeric(r, b + k)
    <2>1. CASE IsCollapsed(r)
      BY <2>1 DEF Numeric
    <2>2. CASE ~IsCollapsed(r) /\ ~IsArray(r)
      BY <1>3, <2>2 DEF Numeric
    <2>3. CASE ~IsCollapsed(r) /\ IsArray(r)
      <3>1. PICK t \in Nat \ {0} : t = size[r]
        BY <2>3 DEF Inv, ArraysHaveSize, TypeOK
      <3>2. a % t = b % t
        BY <1>3, <2>3, <3>1 DEF Numeric
      <3>3. t % t = 0
        BY <3>1
      <3>4. SameModulo(a, b, t) /\ Divides(t, t)
        BY <3>2, <3>3 DEF SameModulo, Divides
      <3>5. SameModulo(a + k, b + k, t)
        BY <3>4, PlacedModulo
      <3>6. (a + k) % t = (b + k) % t
        BY <3>5 DEF SameModulo
      <3> QED
        BY <2>3, <3>1, <3>6 DEF Numeric
    <2> QED
      BY <2>1, <2>2, <2>3
  <1> QED
    BY <1>4, <1>5, <1>6 DEF SameCell, Address, At

\* the addresses of cells are a map that suits a graph with nothing pending
LEMMA AddressForesees ==
    ASSUME Inv, Idle, NEW E, E = [c \in CellIn(Node) |-> Address(c)]
    PROVE  E \in CellMap /\ Foresees(E)
  <1>1. \A c \in CellIn(Node) : E[c] = Address(c) /\ Address(c) \in CellIn(Node)
    <2> SUFFICES ASSUME NEW c \in CellIn(Node) PROVE Address(c) \in CellIn(Node)
      OBVIOUS
    <2>1. PICK r \in Node, a \in Nat : Resolve(c) = At(r, a)
      BY ResolvesTo
    <2>2. Numeric(r, a) \in Nat
      BY NumericIsNat DEF Inv
    <2> QED
      BY <2>1, <2>2 DEF Address, At, CellIn
  <1>2. Respects(E)
    BY <1>1 DEF Respects, SameCell
  <1>3. MovesAlong(E)
    <2> SUFFICES ASSUME NEW c \in CellIn(Node), NEW d \in CellIn(Node), NEW k \in Nat,
                        E[c] = E[d]
                 PROVE  E[Shifted(c, k)] = E[Shifted(d, k)]
      BY DEF MovesAlong
    <2>1. SameCell(Shifted(c, k), Shifted(d, k))
      BY <1>1, SameMoves DEF SameCell
    <2> QED
      BY <1>1, <2>1, ShiftedType DEF SameCell
  <1>4. \A f : ~On(f, stack)
    BY NoCalls
  <1> QED
    BY <1>1, <1>2, <1>3, <1>4 DEF CellMap, Foresees

-----------------------------------------------------------------------------
(* A node that lies in a collapsed one does so for ever.                    *)

CollapsedStays == \A x \in Node : IsCollapsed(Root(x)) => IsCollapsed(Root(x))'

\* a step that leaves nodes where they are and takes no flag of theirs
LEMMA CollapsedInPlace ==
    ASSUME Inv, UNCHANGED fwd,
           \A r \in Node : Root(r) = r /\ IsCollapsed(r) => IsCollapsed(r)'
    PROVE  CollapsedStays
  <1> SUFFICES ASSUME NEW x \in Node, IsCollapsed(Root(x))
               PROVE  IsCollapsed(Root(x))'
    BY DEF CollapsedStays
  <1>1. PICK r : r = Root(x) /\ r = Root(x)'
    BY DEF Root
  <1>2. r \in Node /\ Root(r) = r
    <2>1. fwd[x] \in CellIn(Node)
      BY DEF Inv, TypeOK
    <2> QED
      BY <1>1, <2>1, RootOfRoot DEF CellIn, Root, Inv
  <1>3. IsCollapsed(r)'
    BY <1>1, <1>2
  <1> QED
    BY <1>1, <1>3 DEF IsCollapsed

LEMMA UnifyAtMergeCollapsed ==
    ASSUME Inv, UnifyAtMerge
    PROVE  CollapsedStays
  <1>0. PICK n, m, o : /\ n = Root(Top.n) /\ m = Root(Top.m)
                       /\ o = Numeric(Root(Top.n), Top.o)
    OBVIOUS
  <1>1. /\ ~CannotPlace(n, m, Top.o) /\ fwd' = Forwarded(m, n, o)
        /\ UNCHANGED marks
    BY <1>0 DEF UnifyAtMerge
  <1>2. IsCollapsed(m) => IsCollapsed(n)
    BY <1>1 DEF CannotPlace
  <1> SUFFICES ASSUME NEW x \in Node, IsCollapsed(Root(x))
               PROVE  IsCollapsed(Root(x))'
    BY DEF CollapsedStays
  <1>3. CASE fwd[x].node = m
    <2>1. fwd'[x].node = n
      BY <1>1, <1>3 DEF Forwarded
    <2> QED
      BY <1>1, <1>2, <1>3, <2>1 DEF IsCollapsed, Root
  <1>4. CASE fwd[x].node # m
    <2>1. fwd'[x] = fwd[x]
      BY <1>1, <1>4 DEF Forwarded
    <2> QED
      BY <1>1, <2>1 DEF IsCollapsed, Root
  <1> QED
    BY <1>3, <1>4

LEMMA CollapseFreshCollapsed ==
    ASSUME Inv, CollapseFresh
    PROVE  CollapsedStays
  <1>0. PICK n, d : n = Root(Top.n) /\ d = CollapsedTwin(Root(Top.n))
    OBVIOUS
  <1>1. /\ n \in ClientNode /\ fwd' = Forwarded(n, d, 0)
        /\ marks' = [marks EXCEPT ![d] =
                        (JoinMarks({}, marks[n]) \cup {"offset_collapsed"})
                        \ {"array"}]
    BY <1>0 DEF CollapseFresh
  <1>2. d \in Node
    BY <1>0, <1>1, MaxNodesAssumption DEF ClientNode, Node, CollapsedTwin
  <1>3. IsCollapsed(d)' /\ \A r \in Node : IsCollapsed(r) => IsCollapsed(r)'
    BY <1>1, <1>2 DEF IsCollapsed, Inv, TypeOK
  <1> SUFFICES ASSUME NEW x \in Node, IsCollapsed(Root(x))
               PROVE  IsCollapsed(Root(x))'
    BY DEF CollapsedStays
  <1>4. PICK r : r = Root(x)'
    OBVIOUS
  <1>5. CASE fwd[x].node = n
    <2>1. r = d
      BY <1>1, <1>4, <1>5 DEF Forwarded, Root
    <2> QED
      BY <1>3, <1>4, <2>1 DEF IsCollapsed
  <1>6. CASE fwd[x].node # n
    <2>1. fwd'[x] = fwd[x] /\ fwd[x] \in CellIn(Node)
      BY <1>1, <1>6 DEF Forwarded, Inv, TypeOK
    <2>2. r = Root(x) /\ r \in Node
      BY <1>4, <2>1 DEF Root, CellIn
    <2>3. IsCollapsed(r)'
      BY <1>3, <2>2
    <2> QED
      BY <1>4, <2>3 DEF IsCollapsed
  <1> QED
    BY <1>5, <1>6

LEMMA AbsorbMarksCollapsed ==
    ASSUME Inv, AbsorbMarks
    PROVE  CollapsedStays
  <1>0. PICK n, r : n = Top.n /\ r = Root(Top.m)
    OBVIOUS
  <1>1. /\ marks' = [marks EXCEPT ![r] = JoinMarks(@, marks[n]), ![n] = {}]
        /\ UNCHANGED fwd
    BY <1>0 DEF AbsorbMarks
  <1>2. n \in Node /\ r \in Node /\ n # r /\ Root(n) # n
    BY <1>0, AbsorbTop DEF AbsorbMarks, Running, MergeSound, IsForwarding
  <1>3. marks[r] \in SUBSET Mark /\ marks[n] \in SUBSET Mark
    BY <1>2 DEF Inv, TypeOK
  <1>4. marks'[r] = JoinMarks(marks[r], marks[n])
    BY <1>1, <1>2 DEF Inv, TypeOK
  <1>5. IsCollapsed(r) => IsCollapsed(r)'
    BY <1>3, <1>4, JoinFlags DEF IsCollapsed
  <1>6. \A k \in Node \ {n, r} : marks'[k] = marks[k]
    BY <1>1 DEF Inv, TypeOK
  <1>7. \A k \in Node : Root(k) = k /\ IsCollapsed(k) => IsCollapsed(k)'
    BY <1>2, <1>5, <1>6 DEF IsCollapsed
  <1> QED
    BY <1>1, <1>7, CollapsedInPlace

\* visits and loads set marks only
LEMMA NextCollapsed ==
    ASSUME Inv, [Next]_vars
    PROVE  CollapsedStays
  <1>1. CASE UNCHANGED <<fwd, marks>>
    BY <1>1, CollapsedInPlace DEF IsCollapsed
  <1>2. CASE /\ UNCHANGED fwd
             /\ \A n \in Node : IsCollapsed(n)' <=> IsCollapsed(n)
    BY <1>2, CollapsedInPlace
  <1>3. CASE CallingStep
    BY <1>1, <1>3, CallingTouches
  <1>4. CASE AbsorbTypes \/ AddLinkSets \/ AddAccessedType \/ UNCHANGED vars
    BY <1>1, <1>4 DEF AbsorbTypes, AddLinkSets, AddAccessedType, vars, graphVars
  <1>5. CASE UnifyAtMerge
    BY <1>5, UnifyAtMergeCollapsed
  <1>6. CASE CollapseInPlace
    <2>1. PICK n : n = Root(Top.n)
      OBVIOUS
    <2>2. /\ marks' = [marks EXCEPT ![n] =
                           (@ \cup {"offset_collapsed"}) \ {"array"}]
          /\ UNCHANGED fwd
      BY <1>6, <2>1 DEF CollapseInPlace
    <2>3. \A r \in Node : IsCollapsed(r) => IsCollapsed(r)'
      BY <2>2 DEF IsCollapsed, Inv, TypeOK
    <2> QED
      BY <2>2, <2>3, CollapsedInPlace
  <1>7. CASE CollapseFresh
    BY <1>7, CollapseFreshCollapsed
  <1>8. CASE AbsorbMarks
    BY <1>8, AbsorbMarksCollapsed
  <1>9. CASE LoadFindsLink \/ LoadMakesLink
    BY <1>2, <1>9, LoadTouches
  <1>10. CASE Visit
    <2>1. ASSUME NEW n, SetMark(n, "array"), UNCHANGED fwd
          PROVE  CollapsedStays
      <3>1. \A r \in Node : IsCollapsed(r) => IsCollapsed(r)'
        BY <2>1 DEF SetMark, IsCollapsed, Inv, TypeOK
      <3> QED
        BY <2>1, <3>1, CollapsedInPlace
    <2>2. CASE \E v, p \in Value, k \in GepOffset, stride \in Nat :
                  GepIntoArray(v, p, k, stride)
      BY <2>1, <2>2 DEF GepIntoArray
    <2>3. CASE \E p \in Value, sz \in SeqSize : VisitMakeSeq(p, sz)
      BY <2>1, <2>3 DEF VisitMakeSeq
    <2> QED
      BY <1>2, <1>10, <2>2, <2>3, VisitTouches
  <1> QED
    BY <1>3, <1>4, <1>5, <1>6, <1>7, <1>8, <1>9, <1>10
       DEF Next, Step, GraphStep, CallingStep

-----------------------------------------------------------------------------
(* What a pending Node::unifyAt is given.                                   *)

\* The calls of unifyAt name nodes that do not forward.  Only its call to
\* collapseOffsets comes before the node it waits with is looked at again, and
\* after that call the node lies in a collapsed one.
Waiting(f) ==
    f.op = "unifyAt" =>
        \/ IsCollapsed(Root(f.n))
        \/ Root(f.n) = f.n /\ Top.op = "collapse" /\ Top.n = f.n

Starting(f) ==
    f.op = "unifyAt" =>
        IsCollapsed(Root(f.n)) \/ (Root(f.n) = f.n /\ Root(f.m) = f.m)

PlacesSound ==
    /\ \A j \in 2 .. Len(stack) : Waiting(stack[j])
    /\ stack # <<>> => Starting(Top)

\* collapseOffsets leaves its node in a collapsed one
LEMMA CollapseCollapses ==
    ASSUME Inv, CollapseDone \/ CollapseInPlace \/ CollapseFresh,
           NEW x \in Node, Root(x) = Root(Top.n)
    PROVE  IsCollapsed(Root(x))'
  <1>1. PICK n : n = Root(Top.n)
    OBVIOUS
  <1>2. n \in Node /\ Root(x) = n
    BY <1>1, CollapseTop DEF CollapseDone, CollapseInPlace, CollapseFresh
  <1>3. CASE CollapseDone
    BY <1>1, <1>2, <1>3 DEF CollapseDone, nodeVars, IsCollapsed, Root
  <1>4. CASE CollapseInPlace
    <2>1. /\ marks' = [marks EXCEPT ![n] =
                           (@ \cup {"offset_collapsed"}) \ {"array"}]
          /\ UNCHANGED fwd
      BY <1>1, <1>4 DEF CollapseInPlace
    <2>2. "offset_collapsed" \in marks'[n] /\ fwd'[x].node = n
      BY <1>2, <2>1 DEF Inv, TypeOK, Root
    <2> QED
      BY <2>2 DEF IsCollapsed, Root
  <1>5. CASE CollapseFresh
    <2>1. PICK d : d = CollapsedTwin(n)
      OBVIOUS
    <2>2. /\ n \in ClientNode /\ fwd' = Forwarded(n, d, 0)
          /\ marks' = [marks EXCEPT ![d] =
                          (JoinMarks({}, marks[n]) \cup {"offset_collapsed"})
                          \ {"array"}]
      BY <1>1, <1>5, <2>1 DEF CollapseFresh
    <2>3. d \in Node
      BY <2>1, <2>2, MaxNodesAssumption DEF ClientNode, Node, CollapsedTwin
    <2>4. "offset_collapsed" \in marks'[d] /\ fwd'[x].node = d
      BY <1>2, <2>2, <2>3 DEF Inv, TypeOK, Root, Forwarded
    <2> QED
      BY <2>4 DEF IsCollapsed, Root
  <1> QED
    BY <1>3, <1>4, <1>5

\* whatever a step does, a unifyAt beneath the top waits with a collapsed node
\* after it
LEMMA WaitingStep ==
    ASSUME Inv, Next, PlacesSound, NEW j \in 2 .. Len(stack),
           NEW f, f = stack[j], f.op = "unifyAt"
    PROVE  IsCollapsed(Root(f.n))'
  <1>1. Waiting(f) /\ stack # <<>>
    <2>1. Len(stack) > 0 /\ Len(<<>>) = 0
      BY DEF Inv, TypeOK
    <2> QED
      BY <2>1 DEF PlacesSound
  <1>2. On(f, stack)
    BY DEF On, Inv, TypeOK
  <1>3. PICK x \in Node : x = f.n
    BY <1>2, OnType, FramesRead DEF Inv, TypeOK
  <1>4. CASE IsCollapsed(Root(x))
    <2>1. IsCollapsed(Root(x))'
      BY <1>4, NextCollapsed DEF CollapsedStays
    <2> QED
      BY <1>3, <2>1
  <1>5. CASE Root(x) = x /\ Top.op = "collapse" /\ Top.n = x
    <2>1. CollapseDone \/ CollapseInPlace \/ CollapseFresh
      BY <1>1, <1>5, VisitIdle
         DEF Idle, Next, Step, GraphStep, UnifyCells, UnifyAtCollapse, UnifyAtSwap,
             UnifyAtSelf, UnifyAtMerge, AbsorbTypes, AbsorbCollapses, AbsorbMarks,
             MoveLink, AllLinksMoved, AddLinkUnifies, AddLinkSets, AddAccessedType,
             AccessCollapses, AccessIgnored, BindCell, BindLinkTarget,
             LoadFindsLink, LoadMakesLink, Running
    <2>2. IsCollapsed(Root(x))'
      BY <1>5, <2>1, CollapseCollapses
    <2> QED
      BY <1>3, <2>2
  <1> QED
    BY <1>1, <1>3, <1>4, <1>5 DEF Waiting

\* a step that makes the calls x, y with what unifyAt expects
LEMMA CallsPlaced ==
    ASSUME Inv, Next, PlacesSound, stack # <<>>, NEW x, NEW y,
           \/ Return
           \/ Continue(<<x>>) /\ Starting(x)'
           \/ Continue(<<x, y>>) /\ Starting(x)' /\ Waiting(y)'
    PROVE  PlacesSound'
  <1>1. ASSUME NEW f, NEW i \in 2 .. Len(stack), f = stack[i]
        PROVE  Waiting(f)' /\ Starting(f)'
    BY <1>1, WaitingStep DEF Waiting, Starting
  <1>2. CASE Return
    <2>1. /\ Len(stack') \in Nat
          /\ \A j \in 1 .. Len(stack') :
                j + 1 \in 2 .. Len(stack) /\ stack'[j] = stack[j + 1]
      BY <1>2, Returned DEF Inv
    <2>2. ASSUME NEW j \in 1 .. Len(stack'), NEW f, f = stack'[j]
          PROVE  Waiting(f)' /\ Starting(f)'
      BY <1>1, <2>1, <2>2
    <2>3. \A j \in 2 .. Len(stack') : j \in 1 .. Len(stack')
      BY <2>1
    <2>4. ASSUME NEW j \in 2 .. Len(stack')
          PROVE  Waiting(stack[j])'
      <3>1. PICK f : f = stack'[j]
        OBVIOUS
      <3>2. Waiting(f)'
        BY <2>2, <2>3, <3>1
      <3> QED
        BY <3>1, <3>2 DEF Waiting, IsCollapsed, Root, Top
    <2>5. ASSUME stack' # <<>>
          PROVE  Starting(Top)'
      <3>1. 1 \in 1 .. Len(stack')
        <4>1. stack' \in Seq(FrameIn(nodes))
          <5>1. /\ stack \in Seq(FrameIn(nodes))
                /\ <<>> \in Seq(FrameIn(nodes))
                /\ stack' = <<>> \o Tail(stack)
            BY <1>2 DEF Inv, TypeOK, Return, Continue
          <5> QED
            BY <5>1, Stacked
        <4> QED
          BY <2>5, <4>1
      <3>2. PICK f : f = stack'[1]
        OBVIOUS
      <3>3. Starting(f)' /\ f = Top'
        BY <2>2, <3>1, <3>2 DEF Top
      <3> QED
        BY <3>3 DEF Starting, IsCollapsed, Root, Top
    <2> QED
      BY <2>4, <2>5 DEF PlacesSound
  <1>3. CASE Continue(<<x>>) /\ Starting(x)'
    <2>1. /\ Len(stack') = Len(stack) /\ Top' = x
          /\ \A j \in 2 .. Len(stack) : stack'[j] = stack[j]
      BY <1>3, CalledOne DEF Inv
    <2>2. ASSUME NEW j \in 2 .. Len(stack')
          PROVE  Waiting(stack[j])'
      <3>1. PICK f : f = stack'[j]
        OBVIOUS
      <3>2. Waiting(f)'
        BY <1>1, <2>1, <3>1
      <3> QED
        BY <3>1, <3>2 DEF Waiting, IsCollapsed, Root, Top
    <2>3. Starting(Top)'
      BY <1>3, <2>1 DEF Starting, IsCollapsed, Root, Top
    <2> QED
      BY <2>2, <2>3 DEF PlacesSound
  <1>4. CASE Continue(<<x, y>>) /\ Starting(x)' /\ Waiting(y)'
    <2>1. /\ Len(stack) \in Nat /\ Len(stack') = Len(stack) + 1 /\ Top' = x
          /\ stack'[2] = y
          /\ \A j \in 2 .. Len(stack) : stack'[j + 1] = stack[j]
      BY <1>4, CalledTwo DEF Inv
    <2>2. ASSUME NEW j \in 2 .. Len(stack')
          PROVE  Waiting(stack[j])'
      <3>1. PICK f : f = stack'[j]
        OBVIOUS
      <3>2. CASE j = 2
        BY <1>4, <2>1, <3>1, <3>2 DEF Waiting, IsCollapsed, Root, Top
      <3>3. CASE j # 2
        <4>1. PICK i \in 2 .. Len(stack) : j = i + 1
          <5>1. j - 1 \in 2 .. Len(stack) /\ j = (j - 1) + 1
            BY <2>1, <3>3
          <5> QED
            BY <5>1
        <4>2. Waiting(f)'
          BY <1>1, <2>1, <3>1, <4>1
        <4> QED
          BY <3>1, <4>2 DEF Waiting, IsCollapsed, Root, Top
      <3> QED
        BY <3>2, <3>3
    <2>3. Starting(Top)'
      BY <1>4, <2>1 DEF Starting, IsCollapsed, Root, Top
    <2> QED
      BY <2>2, <2>3 DEF PlacesSound
  <1> QED
    BY <1>2, <1>3, <1>4

\* a step that does not call unifyAt
LEMMA CallsNotPlaced ==
    ASSUME Inv, Next, PlacesSound, NEW ops, "unifyAt" \notin ops, Calls(ops)
    PROVE  PlacesSound'
  <1>1. \A f : f.op \in ops => Starting(f)' /\ Waiting(f)'
    BY DEF Starting, Waiting
  <1>2. \/ Return
        \/ \E x : Continue(<<x>>) /\ Starting(x)'
        \/ \E x, y : Continue(<<x, y>>) /\ Starting(x)' /\ Waiting(y)'
    BY <1>1 DEF Calls
  <1> QED
    BY <1>2, CallsPlaced DEF Calls

\* the calls made when nothing is pending
LEMMA OnlyPlaced ==
    ASSUME \/ stack' = <<>>
           \/ \E x : stack' = <<x>> /\ Starting(x)'
           \/ \E x, y : stack' = <<x, y>> /\ x.op # "unifyAt" /\ y.op # "unifyAt"
    PROVE  PlacesSound'
  <1>1. CASE stack' = <<>>
    <2>1. Len(stack') = 0
      BY <1>1
    <2> QED
      BY <1>1, <2>1 DEF PlacesSound
  <1>2. CASE \E x : stack' = <<x>> /\ Starting(x)'
    <2>1. PICK x : stack' = <<x>> /\ Starting(x)'
      BY <1>2
    <2>2. Len(stack') = 1 /\ Top' = x
      BY <2>1 DEF Top
    <2> QED
      BY <2>1, <2>2 DEF PlacesSound, Starting, IsCollapsed, Root, Top
  <1>3. CASE \E x, y : stack' = <<x, y>> /\ x.op # "unifyAt" /\ y.op # "unifyAt"
    <2>1. PICK x, y : stack' = <<x, y>> /\ x.op # "unifyAt" /\ y.op # "unifyAt"
      BY <1>3
    <2>2. /\ Len(stack') = 2 /\ Top' = x
          /\ \A j \in 2 .. Len(stack') : stack'[j].op # "unifyAt"
      BY <2>1 DEF Top
    <2> QED
      BY <2>1, <2>2 DEF PlacesSound, Starting, Waiting, Top
  <1> QED
    BY <1>1, <1>2, <1>3

\* a load sets the link it does not find and binds its result
LEMMA LoadSteps ==
    ASSUME LoadFindsLink \/ LoadMakesLink
    PROVE  Calls({"addLink", "bindLink"})
  <1>1. stack # <<>>
    BY DEF LoadFindsLink, LoadMakesLink, Running
  <1>2. CASE LoadFindsLink
    <2>1. PICK x : x = BindLink(Top.v, Top.at, Top.ty)
      OBVIOUS
    <2>2. Continue(<<x>>) /\ x.op = "bindLink"
      BY <1>2, <2>1 DEF LoadFindsLink, BindLink
    <2> QED
      BY <1>1, <2>2 DEF Calls
  <1>3. CASE LoadMakesLink
    <2>1. PICK n : Continue(<<AddLink(Top.at, Top.ty, At(n, 0)),
                              BindLink(Top.v, Top.at, Top.ty)>>)
      BY <1>3 DEF LoadMakesLink
    <2>2. PICK x, y : /\ x = AddLink(Top.at, Top.ty, At(n, 0))
                      /\ y = BindLink(Top.v, Top.at, Top.ty)
      OBVIOUS
    <2>3. Continue(<<x, y>>) /\ x.op = "addLink" /\ y.op = "bindLink"
      BY <2>1, <2>2 DEF AddLink, BindLink
    <2> QED
      BY <1>1, <2>3 DEF Calls
  <1> QED
    BY <1>2, <1>3

LEMMA UnifyAtCollapsePlaced ==
    ASSUME Inv, Next, PlacesSound, UnifyAtCollapse
    PROVE  PlacesSound'
  <1>1. PICK n, m : n = Root(Top.n) /\ m = Root(Top.m)
    OBVIOUS
  <1>2. PICK x, y : x = Collapse(n) /\ y = UnifyAt(n, m, Top.o)
    OBVIOUS
  <1>3. Continue(<<x, y>>) /\ UNCHANGED fwd /\ stack # <<>>
    BY <1>1, <1>2 DEF UnifyAtCollapse, Running, nodeVars
  <1>4. Root(n) = n
    <2>1. Top.n \in Node
      BY <1>3, UnifyAtTop DEF UnifyAtCollapse, Inv, TypeOK
    <2> QED
      BY <1>1, <2>1, RootOfRoot DEF Inv
  <1>5. x.op = "collapse" /\ x.n = n /\ y.n = n
    BY <1>2 DEF Collapse, UnifyAt
  <1>6. Top' = x
    BY <1>3, CalledTwo DEF Inv
  <1>7. Starting(x)'
    BY <1>5 DEF Starting
  <1>8. Waiting(y)'
    BY <1>3, <1>4, <1>5, <1>6 DEF Waiting, Root, Top
  <1> QED
    BY <1>3, <1>7, <1>8, CallsPlaced

\* Cell::unify and the swap of unifyAt look their nodes up
LEMMA RootsPlaced ==
    ASSUME Inv, Next, PlacesSound, UnifyCells \/ UnifyAtSwap
    PROVE  PlacesSound'
  <1>1. stack # <<>> /\ UNCHANGED fwd /\ On(Top, stack) /\ Top \in FrameIn(nodes)
    BY TopFrame DEF UnifyCells, UnifyAtSwap, Running, nodeVars, Inv
  <1>2. \A n \in nodes : n \in Node /\ Root(Root(n)) = Root(n)
    BY RootOfRoot DEF Inv, TypeOK
  <1>3. PICK n, m, o : /\ Continue(<<UnifyAt(n, m, o)>>)
                       /\ Root(n) = n /\ Root(m) = m
    <2>1. CASE UnifyCells
      <3>1. PICK a, b : a = Resolve(Top.a) /\ b = Resolve(Top.b)
        OBVIOUS
      <3>2. Top.a.node \in nodes /\ Top.b.node \in nodes
        BY <1>1, <2>1, FramesRead DEF UnifyCells, Running, CellIn
      <3>3. Root(a.node) = a.node /\ Root(b.node) = b.node
        BY <1>2, <3>1, <3>2 DEF Resolve, Root
      <3>4. \/ Continue(<<UnifyAt(b.node, a.node, b.off - a.off)>>)
            \/ Continue(<<UnifyAt(a.node, b.node, a.off - b.off)>>)
        BY <2>1, <3>1 DEF UnifyCells
      <3> QED
        BY <3>3, <3>4
    <2>2. CASE UnifyAtSwap
      BY <1>2, <2>2, UnifyAtTop DEF UnifyAtSwap
    <2> QED
      BY <2>1, <2>2
  <1>4. PICK x : x = UnifyAt(n, m, o)
    OBVIOUS
  <1>5. x.n = n /\ x.m = m
    BY <1>4 DEF UnifyAt
  <1>6. Starting(x)'
    BY <1>1, <1>3, <1>5 DEF Starting, Root
  <1> QED
    BY <1>1, <1>3, <1>4, <1>6, CallsPlaced

\* the two calls of unifyAt in visitGep
LEMMA GepPlaced ==
    ASSUME Inv, NEW v \in Value, NEW p \in Value, NEW k \in Int, NEW stride,
           GepBefore(v, p, k, stride) \/ GepIntoArray(v, p, k, stride)
    PROVE  PlacesSound'
  <1>1. PICK n, r, o :
           /\ n \in ClientNode /\ MkNode(n) /\ stack' = <<UnifyAt(n, r, o)>>
           /\ r = Resolve(cell[p]).node /\ UNCHANGED fwd /\ Bound(p)
    <2>1. IsGep(v, p, k, stride)
      BY DEF GepBefore, GepIntoArray
    <2>2. Address(cell[p]).node = Resolve(cell[p]).node
      BY <2>1, GepBase
    <2> QED
      BY <2>1, <2>2 DEF GepBefore, GepIntoArray, Call, IsGep
  <1>2. n \in Node /\ Root(n) = n
    <2>1. n \in Node /\ n \notin nodes
      BY <1>1, MkNodeType DEF Inv
    <2> QED
      BY <2>1 DEF Inv, TypeOK, Root
  <1>3. Root(r) = r
    <2>1. cell[p] \in CellIn(Node)
      BY <1>1, BoundType, FramesGrow DEF Inv, TypeOK
    <2> QED
      BY <1>1, <2>1, ResolvesTo DEF At
  <1>4. PICK x : x = UnifyAt(n, r, o)
    OBVIOUS
  <1>5. x.n = n /\ x.m = r
    BY <1>4 DEF UnifyAt
  <1>6. Starting(x)'
    BY <1>1, <1>2, <1>3, <1>5 DEF Starting, Root
  <1> QED
    BY <1>1, <1>4, <1>6, OnlyPlaced

LEMMA VisitPlaced ==
    ASSUME Inv, Visit
    PROVE  PlacesSound'
  <1>1. CASE UNCHANGED stack
    BY <1>1, VisitIdle, OnlyPlaced DEF Idle
  <1>2. CASE \/ \E v \in Value : VisitAlloca(v) \/ VisitInstruction(v)
             \/ \E p \in Value, sz \in SeqSize : VisitMakeSeq(p, sz)
    BY <1>1, <1>2 DEF VisitAlloca, VisitInstruction, VisitMakeSeq
  <1>3. ASSUME NEW v \in Value, NEW p \in Value, NEW k \in GepOffset,
               NEW stride \in Stride \cup {0}, VisitGep(v, p, k, stride)
        PROVE  PlacesSound'
    <2>1. k \in Int
      BY OffsetAssumption
    <2>2. CASE \/ GepInCollapsed(v, p, k, stride) \/ GepBack(v, p, k, stride)
               \/ GepToField(v, p, k, stride)
      BY <1>1, <2>2 DEF GepInCollapsed, GepBack, GepToField
    <2> QED
      BY <1>3, <2>1, <2>2, GepPlaced DEF VisitGep
  <1>4. ASSUME NEW v, NEW p, NEW ty, VisitLoad(v, p, ty) \/ VisitStore(v, p, ty)
        PROVE  PlacesSound'
    <2>1. PICK x, y, z : /\ x = Access(cell[p], PtrWidth)
                         /\ y = Load(v, cell[p], ty)
                         /\ z = AddLink(cell[p], ty, cell[v])
      OBVIOUS
    <2>2. x.op # "unifyAt" /\ y.op # "unifyAt" /\ z.op # "unifyAt"
      BY <2>1 DEF Access, Load, AddLink
    <2>3. stack' = <<x, y>> \/ stack' = <<x, z>>
      BY <1>4, <2>1 DEF VisitLoad, VisitStore, Call
    <2> QED
      BY <2>2, <2>3, OnlyPlaced
  <1>5. ASSUME NEW p, NEW x, NEW y,
               \/ VisitScalarAccess(p, x, y) \/ VisitPHINode(p, x) \/ VisitCollapse(p)
        PROVE  PlacesSound'
    <2>1. \E z : stack' = <<z>> /\ z.op # "unifyAt"
      BY <1>5 DEF VisitScalarAccess, VisitPHINode, VisitCollapse, Call, Access,
                  Unify, Collapse
    <2> QED
      BY <2>1, OnlyPlaced DEF Starting
  <1>6. ASSUME NEW v, NEW p, NEW q, VisitSelect(v, p, q)
        PROVE  PlacesSound'
    <2>1. PICK x, y : x = Unify(cell[p], cell[q]) /\ y = Bind(v, cell[p])
      OBVIOUS
    <2>2. stack' = <<x, y>>
      BY <1>6, <2>1 DEF VisitSelect, Call
    <2>3. x.op # "unifyAt" /\ y.op # "unifyAt"
      BY <2>1 DEF Unify, Bind
    <2> QED
      BY <2>2, <2>3, OnlyPlaced
  <1> QED
    BY <1>2, <1>3, <1>4, <1>5, <1>6 DEF Visit

\* what unifyAt is given stays as it expects
LEMMA NextPlaces ==
    ASSUME Inv, PlacesSound, [Next]_vars
    PROVE  PlacesSound'
  <1>1. CASE UNCHANGED vars
    BY <1>1 DEF vars, graphVars, PlacesSound, Waiting, Starting, IsCollapsed, Root, Top
  <1> SUFFICES ASSUME Next PROVE PlacesSound'
    BY <1>1
  <1>2. CASE \/ UnifyAtSelf
             \/ UnifyAtMerge \/ CollapseDone \/ CollapseInPlace \/ CollapseFresh
             \/ AbsorbTypes \/ AbsorbCollapses \/ AllLinksMoved \/ AddLinkUnifies
             \/ AddAccessedType \/ AccessCollapses \/ AccessIgnored
             \/ BindCell \/ BindLinkTarget
    BY <1>2, UnplacedSteps, CallsNotPlaced
  <1>3. CASE MoveLink \/ AddLinkSets \/ AbsorbMarks
    BY <1>3, LinkingSteps, CallsNotPlaced
  <1>4. CASE LoadFindsLink \/ LoadMakesLink
    BY <1>4, LoadSteps, CallsNotPlaced
  <1> QED
    BY <1>2, <1>3, <1>4, UnifyAtCollapsePlaced, RootsPlaced, VisitPlaced
       DEF Next, Step, GraphStep

-----------------------------------------------------------------------------
(* What was pledged is kept.                                                *)

\* a map that suits the new state suits the old one
LEMMA StillRespects ==
    ASSUME Inv, Inv', [Next]_vars, NEW E, Respects(E)'
    PROVE  Respects(E)
  BY NextTogether DEF Respects, Together

\* two cells of a node that has collapsed
LEMMA CollapsedNext ==
    ASSUME NEW E, Respects(E)', NEW c \in CellIn(Node), NEW d \in CellIn(Node),
           NEW r, Root(c.node)' = r, Root(d.node)' = r, IsCollapsed(r)'
    PROVE  E[c] = E[d]
  <1>1. Address(c)' = At(r, 0) /\ Address(d)' = At(r, 0)
    BY DEF Address, Resolve, Numeric, Root, At, IsCollapsed
  <1> QED
    BY <1>1 DEF Respects, SameCell

\* a place in a collapsed node, pledged with whatever place is taken there
LEMMA CollapsedPledge ==
    ASSUME Inv, NEW E, Respects(E), MovesAlong(E),
           NEW f \in FrameIn(nodes), f.op = "unifyAt",
           IsCollapsed(Root(f.n)), NEW j \in Nat,
           E[At(Root(f.m), 0)] = E[At(Root(f.n), j)]
    PROVE  Pledged(f, E)
  <1>1. PICK n \in Node, m \in Node, o \in Nat : n = f.n /\ m = f.m /\ o = f.o
    BY FramesRead DEF Inv, TypeOK
  <1>2. PICK r, s : r = Root(n) /\ s = Root(m)
    OBVIOUS
  <1>3. PICK c, d : c = At(n, o) /\ d = At(m, 0)
    OBVIOUS
  <1>4. /\ c \in CellIn(Node) /\ c.node = n
        /\ d \in CellIn(Node) /\ d.node = m /\ d.off = 0
    BY <1>1, <1>3, AtType
  <1>5. r \in Node /\ s \in Node /\ Root(r) = r
    BY <1>2, <1>4, ResolvesTo
  <1>6. PICK k \in Nat : k = fwd[m].off
    BY <1>4, ResolvesTo
  <1>7. E[d] = E[At(s, k)]
    <2>1. Resolve(d) = At(s, k) /\ At(s, k) \in CellIn(Node) /\ SameCell(d, At(s, k))
      <3>1. Resolve(d) = At(s, k + 0)
        BY <1>2, <1>4, <1>6, ResolvesTo
      <3>2. k + 0 = k
        OBVIOUS
      <3> QED
        BY <1>4, <3>1, <3>2, ResolvesTo
    <2> QED
      BY <1>4, <2>1 DEF Respects
  <1>8. E[At(s, k)] = E[At(r, j + k)]
    <2>1. At(s, 0) \in CellIn(Node) /\ At(r, j) \in CellIn(Node)
      BY <1>5, AtType
    <2>2. E[Shifted(At(s, 0), k)] = E[Shifted(At(r, j), k)]
      BY <1>1, <1>2, <2>1 DEF MovesAlong
    <2>3. 0 + k = k
      OBVIOUS
    <2> QED
      BY <2>2, <2>3, AtShifted
  <1>9. E[At(r, j + k)] = E[c]
    <2>1. At(r, j + k) \in CellIn(Node) /\ At(r, j + k).node = r
      BY <1>5, AtType
    <2>2. SameCell(At(r, j + k), c)
      BY <1>1, <1>2, <1>4, <1>5, <2>1, CollapsedSame
    <2> QED
      BY <1>4, <2>1, <2>2 DEF Respects
  <1>10. E[At(f.n, f.o)] = E[At(f.m, 0)]
    BY <1>1, <1>3, <1>7, <1>8, <1>9
  <1> QED
    BY <1>10 DEF Pledged

\* where a cell leads, as a place
LEMMA PlaceOf ==
    ASSUME Inv, NEW c \in CellIn(Node)
    PROVE  \E r \in Node, a \in Nat :
              /\ Resolve(c) = At(r, a) /\ SameCell(c, At(r, a)) /\ Root(r) = r
              /\ r = Resolve(c).node /\ a = Resolve(c).off
              /\ r = Root(c.node) /\ a = fwd[c.node].off + c.off
  <1>1. PICK r \in Node, a \in Nat : r = Root(c.node) /\ a = fwd[c.node].off + c.off
    BY ResolvesTo
  <1>2. Resolve(c) = At(r, a) /\ SameCell(c, At(r, a)) /\ Root(r) = r
    BY <1>1, ResolvesTo
  <1>3. r = Resolve(c).node /\ a = Resolve(c).off
    BY <1>2, AtType
  <1> QED
    BY <1>1, <1>2, <1>3

LEMMA UnifyCellsForeseen ==
    ASSUME Inv, UnifyCells, NEW E, Respects(E), MovesAlong(E),
           \A f : On(f, stack') => Pledged(f, E)
    PROVE  Pledged(Top, E)
  <1>1. stack # <<>> /\ Top \in FrameIn(nodes) /\ Top.op = "unify"
    BY TopFrame DEF UnifyCells, Running, Inv
  <1>2. PICK c \in CellIn(Node), d \in CellIn(Node) : c = Top.a /\ d = Top.b
    BY <1>1, FramesRead, FramesGrow DEF Inv, TypeOK
  <1>3. PICK r \in Node, a \in Nat : /\ Resolve(c) = At(r, a) /\ SameCell(c, At(r, a))
                                     /\ r = Resolve(c).node /\ a = Resolve(c).off
    BY PlaceOf
  <1>4. PICK s \in Node, b \in Nat : /\ Resolve(d) = At(s, b) /\ SameCell(d, At(s, b))
                                     /\ s = Resolve(d).node /\ b = Resolve(d).off
    BY PlaceOf
  <1>5. E[c] = E[At(r, a)] /\ E[d] = E[At(s, b)]
    BY <1>3, <1>4, AtType DEF Respects
  <1>6. ASSUME NEW n \in Node, NEW x \in Nat, NEW m \in Node, NEW y \in Nat,
               NEW z, z = y - x, x <= y, Continue(<<UnifyAt(m, n, z)>>)
        PROVE  E[At(m, y)] = E[At(n, x)]
    <2>1. PICK f : f = UnifyAt(m, n, z)
      OBVIOUS
    <2>2. f.op = "unifyAt" /\ f.n = m /\ f.m = n /\ f.o = z
      BY <2>1 DEF UnifyAt
    <2>3. On(f, stack')
      BY <1>1, <1>6, <2>1, CalledOne DEF Inv
    <2>4. E[At(m, z)] = E[At(n, 0)]
      BY <2>2, <2>3 DEF Pledged
    <2>5. z \in Nat /\ z + x = y /\ 0 + x = x
      BY <1>6
    <2>6. E[Shifted(At(m, z), x)] = E[Shifted(At(n, 0), x)]
      BY <2>4, <2>5, AtType DEF MovesAlong
    <2> QED
      BY <2>5, <2>6, AtShifted
  <1>7. E[At(r, a)] = E[At(s, b)]
    <2>1. Continue(<<IF a < b THEN UnifyAt(s, r, b - a) ELSE UnifyAt(r, s, a - b)>>)
      BY <1>2, <1>3, <1>4 DEF UnifyCells
    <2>2. CASE a < b
      <3>1. a <= b /\ Continue(<<UnifyAt(s, r, b - a)>>)
        BY <2>1, <2>2
      <3> QED
        BY <1>6, <3>1
    <2>3. CASE ~(a < b)
      <3>1. b <= a /\ Continue(<<UnifyAt(r, s, a - b)>>)
        BY <2>1, <2>3
      <3> QED
        BY <1>6, <3>1
    <2> QED
      BY <2>2, <2>3
  <1> QED
    BY <1>1, <1>2, <1>5, <1>7 DEF Pledged

LEMMA UnifyAtCollapseForeseen ==
    ASSUME Inv, UnifyAtCollapse, NEW E, Respects(E), MovesAlong(E),
           \A f : On(f, stack') => Pledged(f, E)
    PROVE  Pledged(Top, E)
  <1>1. stack # <<>> /\ Top \in FrameIn(nodes) /\ Top.op = "unifyAt"
    BY TopFrame DEF UnifyAtCollapse, Running, Inv
  <1>2. PICK f \in FrameIn(nodes) : f = Top
    BY <1>1
  <1>3. PICK r \in Node, s \in Node, o \in Nat : r = Root(f.n) /\ s = Root(f.m) /\ o = f.o
    BY <1>2, UnifyAtTop DEF UnifyAtCollapse
  <1>4. PICK n \in Node, m \in Node : n = f.n /\ m = f.m
    BY <1>1, <1>2, FramesRead DEF Inv, TypeOK
  <1>5. PICK x, y : x = Collapse(r) /\ y = UnifyAt(r, s, o)
    OBVIOUS
  <1>6. x.op = "collapse" /\ x.n = r
    BY <1>5 DEF Collapse
  <1>7. y.op = "unifyAt" /\ y.n = r /\ y.m = s /\ y.o = o
    BY <1>5 DEF UnifyAt
  <1>8. On(x, stack') /\ On(y, stack')
    <2>1. Continue(<<x, y>>)
      BY <1>2, <1>3, <1>5 DEF UnifyAtCollapse
    <2> QED
      BY <1>1, <2>1, CalledTwo DEF Inv
  <1>9. \A a, b \in Nat : E[At(r, a)] = E[At(r, b)]
    BY <1>6, <1>8 DEF Pledged
  <1>10. E[At(r, o)] = E[At(s, 0)]
    BY <1>7, <1>8 DEF Pledged
  <1>11. PICK c, d : c = At(n, o) /\ d = At(m, 0)
    OBVIOUS
  <1>12. c \in CellIn(Node) /\ d \in CellIn(Node) /\ c.node = n /\ d.node = m
    BY <1>11, AtType
  <1>13. PICK a \in Nat : SameCell(c, At(r, a))
    BY <1>3, <1>4, <1>12, PlaceOf
  <1>14. PICK b \in Nat : SameCell(d, At(s, b))
    BY <1>3, <1>4, <1>12, PlaceOf
  <1>15. E[c] = E[At(r, a)] /\ E[d] = E[At(s, b)]
    BY <1>12, <1>13, <1>14, AtType DEF Respects
  <1>16. E[At(r, o + b)] = E[At(s, b)]
    <2>1. E[Shifted(At(r, o), b)] = E[Shifted(At(s, 0), b)]
      BY <1>10, AtType DEF MovesAlong
    <2>2. 0 + b = b
      OBVIOUS
    <2> QED
      BY <2>1, <2>2, AtShifted
  <1>17. E[At(r, a)] = E[At(r, o + b)]
    <2>1. o + b \in Nat
      OBVIOUS
    <2> QED
      BY <1>9, <2>1
  <1> QED
    BY <1>1, <1>2, <1>3, <1>4, <1>11, <1>15, <1>16, <1>17 DEF Pledged

\* where unifyAt does not look its nodes up, it need not
LEMMA UnifyAtStarts ==
    ASSUME Inv, PlacesSound, Running("unifyAt")
    PROVE  \E f \in FrameIn(nodes) :
              /\ f = Top /\ f.op = "unifyAt"
              /\ f.n \in Node /\ f.m \in Node /\ f.o \in Nat
              /\ Root(f.n) \in Node /\ Root(f.m) \in Node
              /\ Root(Root(f.n)) = Root(f.n) /\ Root(Root(f.m)) = Root(f.m)
              /\ IsCollapsed(Root(f.n)) \/ (Root(f.n) = f.n /\ Root(f.m) = f.m)
  <1>1. stack # <<>> /\ Top \in FrameIn(nodes) /\ Top.op = "unifyAt"
    BY TopFrame DEF Running, Inv
  <1>2. PICK f \in FrameIn(nodes) : f = Top
    BY <1>1
  <1>3. f.n \in Node /\ f.m \in Node /\ f.o \in Nat
    BY <1>1, <1>2, FramesRead DEF Inv, TypeOK
  <1>4. Root(f.n) \in Node /\ Root(f.m) \in Node
    BY <1>2, UnifyAtTop
  <1>5. Root(Root(f.n)) = Root(f.n) /\ Root(Root(f.m)) = Root(f.m)
    BY <1>3, RootOfRoot DEF Inv
  <1>6. IsCollapsed(Root(f.n)) \/ (Root(f.n) = f.n /\ Root(f.m) = f.m)
    BY <1>1, <1>2 DEF PlacesSound, Starting
  <1> QED
    BY <1>1, <1>2, <1>3, <1>4, <1>5, <1>6

LEMMA UnifyAtSwapForeseen ==
    ASSUME Inv, PlacesSound, UnifyAtSwap, NEW E, Respects(E), MovesAlong(E),
           \A f : On(f, stack') => Pledged(f, E)
    PROVE  Pledged(Top, E)
  <1>1. PICK f \in FrameIn(nodes) :
              /\ f = Top /\ f.op = "unifyAt"
              /\ f.n \in Node /\ f.m \in Node /\ f.o \in Nat
              /\ Root(f.n) \in Node /\ Root(f.m) \in Node
              /\ IsCollapsed(Root(f.n)) \/ (Root(f.n) = f.n /\ Root(f.m) = f.m)
    BY UnifyAtStarts DEF UnifyAtSwap
  <1>2. PICK n \in Node, m \in Node, o \in Nat :
              n = Root(f.n) /\ m = Root(f.m) /\ o = f.o
    BY <1>1
  <1>3. E[At(m, 0)] = E[At(n, 0)]
    <2>1. PICK x : x = UnifyAt(m, n, 0)
      OBVIOUS
    <2>2. x.op = "unifyAt" /\ x.n = m /\ x.m = n /\ x.o = 0
      BY <2>1 DEF UnifyAt
    <2>3. Continue(<<x>>) /\ stack # <<>>
      BY <1>1, <1>2, <2>1 DEF UnifyAtSwap, Running
    <2> QED
      BY <2>2, <2>3, CalledOne DEF Inv, Pledged
  <1>4. CASE IsCollapsed(n)
    BY <1>1, <1>2, <1>3, <1>4, CollapsedPledge
  <1>5. CASE f.n = n /\ f.m = m
    <2>1. MustSwap(n, m, o) /\ ~CannotPlace(n, m, o)
      BY <1>1, <1>2 DEF UnifyAtSwap, MustSwap
    <2>2. Root(n) = n /\ Root(m) = m
      BY <1>2, <1>5
    <2>3. ASSUME NEW r \in {n, m}, Numeric(r, o) = 0
          PROVE  E[At(r, o)] = E[At(r, 0)]
      BY <2>2, <2>3, NumericSame, AtType DEF Respects
    <2>4. E[At(n, o)] = E[At(m, 0)]
      <3>1. CASE ArrayIntoScalar(n, m)
        <4>1. Numeric(n, o) = 0
          BY <2>1, <3>1 DEF CannotPlace
        <4> QED
          BY <1>3, <2>3, <4>1
      <3>2. CASE ArrayIntoArray(n, m) /\ Smaller(n, m) # n
        <4>1. Numeric(m, o) = 0
          BY <2>1, <3>2 DEF CannotPlace, Smaller
        <4>2. E[At(m, o)] = E[At(m, 0)]
          BY <2>3, <4>1
        <4>3. E[At(m, o)] = E[At(n, o)]
          <5>1. E[Shifted(At(m, 0), o)] = E[Shifted(At(n, 0), o)]
            BY <1>3, AtType DEF MovesAlong
          <5>2. 0 + o = o
            OBVIOUS
          <5> QED
            BY <5>1, <5>2, AtShifted
        <4> QED
          BY <4>2, <4>3
      <3> QED
        BY <2>1, <3>1, <3>2 DEF MustSwap
    <2> QED
      BY <1>1, <1>2, <1>5, <2>4 DEF Pledged
  <1> QED
    BY <1>1, <1>2, <1>4, <1>5

LEMMA UnifyAtSelfForeseen ==
    ASSUME Inv, PlacesSound, UnifyAtSelf, NEW E, Respects(E), MovesAlong(E),
           \A f : On(f, stack') => Pledged(f, E)
    PROVE  Pledged(Top, E)
  <1>1. PICK f \in FrameIn(nodes) :
              /\ f = Top /\ f.op = "unifyAt"
              /\ f.n \in Node /\ f.m \in Node /\ f.o \in Nat
              /\ Root(f.n) \in Node
              /\ IsCollapsed(Root(f.n)) \/ (Root(f.n) = f.n /\ Root(f.m) = f.m)
    BY UnifyAtStarts DEF UnifyAtSelf
  <1>2. PICK n \in Node, o \in Nat : n = Root(f.n) /\ n = Root(f.m) /\ o = f.o
    BY <1>1 DEF UnifyAtSelf
  <1>3. CASE Numeric(n, o) > 0
    <2>1. PICK x : x = Collapse(n)
      OBVIOUS
    <2>2. x.op = "collapse" /\ x.n = n
      BY <2>1 DEF Collapse
    <2>3. Continue(<<x>>) /\ stack # <<>>
      BY <1>1, <1>2, <1>3, <2>1 DEF UnifyAtSelf, Running
    <2>4. \A a, b \in Nat : E[At(n, a)] = E[At(n, b)]
      BY <2>2, <2>3, CalledOne DEF Inv, Pledged
    <2>5. PICK c, d : c = At(f.n, o) /\ d = At(f.m, 0)
      OBVIOUS
    <2>6. c \in CellIn(Node) /\ d \in CellIn(Node) /\ c.node = f.n /\ d.node = f.m
      BY <1>1, <2>5, AtType
    <2>7. PICK a \in Nat : SameCell(c, At(n, a))
      BY <1>2, <2>6, PlaceOf
    <2>8. PICK b \in Nat : SameCell(d, At(n, b))
      BY <1>2, <2>6, PlaceOf
    <2>9. E[c] = E[d]
      BY <2>4, <2>6, <2>7, <2>8, AtType DEF Respects
    <2> QED
      BY <1>1, <1>2, <2>5, <2>9 DEF Pledged
  <1>4. CASE ~(Numeric(n, o) > 0)
    <2>1. Numeric(n, o) = 0
      BY <1>4, NumericIsNat DEF Inv
    <2>2. CASE IsCollapsed(n)
      BY <1>1, <1>2, <2>2, CollapsedPledge
    <2>3. CASE f.n = n /\ f.m = n
      <3>1. Root(n) = n
        BY <1>2, <2>3
      <3>2. E[At(n, o)] = E[At(n, 0)]
        BY <2>1, <3>1, NumericSame, AtType DEF Respects
      <3> QED
        BY <1>1, <1>2, <2>3, <3>2 DEF Pledged
    <2> QED
      BY <1>1, <1>2, <2>2, <2>3
  <1> QED
    BY <1>3, <1>4

LEMMA UnifyAtMergeForeseen ==
    ASSUME Inv, Inv', PlacesSound, UnifyAtMerge,
           NEW E, Respects(E), Respects(E)', MovesAlong(E)
    PROVE  Pledged(Top, E)
  <1>1. PICK f \in FrameIn(nodes) :
              /\ f = Top /\ f.op = "unifyAt"
              /\ f.n \in Node /\ f.m \in Node /\ f.o \in Nat
              /\ Root(f.n) \in Node /\ Root(f.m) \in Node
              /\ Root(Root(f.n)) = Root(f.n) /\ Root(Root(f.m)) = Root(f.m)
              /\ IsCollapsed(Root(f.n)) \/ (Root(f.n) = f.n /\ Root(f.m) = f.m)
    BY UnifyAtStarts DEF UnifyAtMerge
  <1>2. PICK n \in Node, m \in Node, o \in Nat :
              n = Root(f.n) /\ m = Root(f.m) /\ o = f.o
    BY <1>1
  <1>3. PICK z \in Nat : z = Numeric(n, o)
    BY NumericIsNat DEF Inv
  <1>4. n # m /\ fwd' = Forwarded(m, n, z)
    BY <1>1, <1>2, <1>3 DEF UnifyAtMerge
  <1>5. Root(n) = n /\ Root(m) = m
    BY <1>1, <1>2
  <1>6. fwd[n] = [node |-> n, off |-> 0] /\ fwd[m] = [node |-> m, off |-> 0]
    BY <1>5 DEF Inv, ForwardingResolved
  <1>7. E[At(m, 0)] = E[At(n, z)]
    <2>1. fwd'[n] = [node |-> n, off |-> 0] /\ fwd'[m] = [node |-> n, off |-> z]
      <3>1. fwd'[n] = fwd[n] /\ fwd'[m] = [node |-> n, off |-> 0 + z]
        BY <1>4, <1>6 DEF Forwarded
      <3>2. 0 + z = z
        OBVIOUS
      <3> QED
        BY <1>6, <3>1, <3>2
    <2>2. z + 0 = z /\ 0 + z = z
      OBVIOUS
    <2>3. Resolve(At(m, 0))' = At(n, z) /\ Resolve(At(n, z))' = At(n, z)
      BY <2>1, <2>2 DEF Resolve, At
    <2>4. SameCell(At(m, 0), At(n, z))'
      BY <2>3 DEF SameCell, Address
    <2> QED
      BY <2>4, AtType DEF Respects
  <1>8. CASE IsCollapsed(n)
    BY <1>1, <1>2, <1>7, <1>8, CollapsedPledge
  <1>9. CASE f.n = n /\ f.m = m
    <2>1. E[At(n, o)] = E[At(n, z)]
      BY <1>3, <1>5, NumericSame, AtType DEF Respects
    <2> QED
      BY <1>1, <1>2, <1>7, <1>9, <2>1 DEF Pledged
  <1> QED
    BY <1>1, <1>2, <1>8, <1>9

LEMMA CollapseForeseen ==
    ASSUME Inv, CollapseDone \/ CollapseInPlace \/ CollapseFresh,
           NEW E, Respects(E)'
    PROVE  Pledged(Top, E)
  <1>1. stack # <<>> /\ Top \in FrameIn(nodes) /\ Top.op = "collapse"
    BY TopFrame DEF CollapseDone, CollapseInPlace, CollapseFresh, Running, Inv
  <1>2. PICK n \in Node : n = Top.n
    BY <1>1, FramesRead DEF Inv, TypeOK
  <1>3. IsCollapsed(Root(n))'
    BY <1>2, CollapseCollapses
  <1>4. ASSUME NEW a \in Nat, NEW b \in Nat
        PROVE  E[At(n, a)] = E[At(n, b)]
    <2>1. PICK r : r = Root(n)'
      OBVIOUS
    <2>2. IsCollapsed(r)'
      BY <1>3, <2>1 DEF IsCollapsed, Root
    <2>3. PICK c, d : c = At(n, a) /\ d = At(n, b)
      OBVIOUS
    <2>4. /\ c \in CellIn(Node) /\ d \in CellIn(Node)
          /\ c.node = n /\ d.node = n
      BY <2>3, AtType
    <2>5. Root(c.node)' = r /\ Root(d.node)' = r
      BY <2>1, <2>4 DEF Root
    <2>6. E[c] = E[d]
      BY <2>2, <2>4, <2>5, CollapsedNext
    <2> QED
      BY <2>3, <2>6
  <1> QED
    BY <1>1, <1>2, <1>4 DEF Pledged

\* every step of the engine does what was pledged
LEMMA Foreseen ==
    ASSUME Inv, Inv', PlacesSound, [Next]_vars, ~Visit,
           NEW E, Foresees(E)'
    PROVE  Foresees(E)
  <1>1. Respects(E)' /\ MovesAlong(E) /\ (\A f : On(f, stack') => Pledged(f, E))
    BY DEF Foresees, MovesAlong, Pledged, On
  <1>2. Respects(E)
    BY <1>1, StillRespects
  <1>3. CASE UNCHANGED vars
    BY <1>1, <1>2, <1>3 DEF Foresees, vars, graphVars
  <1>4. CASE ~(UNCHANGED vars)
    <2>1. Step
      BY <1>4 DEF Next
    <2>2. Pledged(Top, E)
      <3>1. CASE \/ UnifyCells \/ UnifyAtCollapse \/ UnifyAtSwap \/ UnifyAtSelf
                 \/ UnifyAtMerge \/ CollapseDone \/ CollapseInPlace \/ CollapseFresh
        BY <1>1, <1>2, <3>1, UnifyCellsForeseen, UnifyAtCollapseForeseen,
           UnifyAtSwapForeseen, UnifyAtSelfForeseen, UnifyAtMergeForeseen,
           CollapseForeseen
      <3>2. CASE \/ AbsorbTypes \/ AbsorbCollapses \/ AbsorbMarks
                 \/ MoveLink \/ AllLinksMoved \/ AddLinkUnifies \/ AddLinkSets
                 \/ AddAccessedType \/ AccessCollapses \/ AccessIgnored
                 \/ BindCell \/ BindLinkTarget \/ LoadFindsLink \/ LoadMakesLink
        <4>1. Top.op \notin {"unify", "unifyAt", "collapse"}
          BY <3>2 DEF AbsorbTypes, AbsorbCollapses, AbsorbMarks, MoveLink,
                      AllLinksMoved, AddLinkUnifies, AddLinkSets, AddAccessedType,
                      AccessCollapses, AccessIgnored, BindCell, BindLinkTarget,
                      LoadFindsLink, LoadMakesLink, Running
        <4> QED
          BY <4>1 DEF Pledged
      <3> QED
        BY <2>1, <3>1, <3>2 DEF Step, GraphStep
    <2>3. \A f : On(f, stack) => f = Top \/ On(f, stack')
      <3>1. Calls(MergeOp) \/ Calls({"links", "addLink"}) \/ Calls({"addLink", "bindLink"})
        BY <2>1, MergingSteps, LinkingSteps, LoadSteps DEF Step, GraphStep
      <3>2. \/ stack # <<>> /\ Return
            \/ stack # <<>> /\ \E x : Continue(<<x>>)
            \/ stack # <<>> /\ \E x, y : Continue(<<x, y>>)
        BY <3>1 DEF Calls
      <3> QED
        BY <3>2, Returned, CalledOne, CalledTwo DEF Inv
    <2> QED
      BY <1>1, <1>2, <2>2, <2>3 DEF Foresees
  <1> QED
    BY <1>3, <1>4

-----------------------------------------------------------------------------
(* The GEPs.                                                                *)

\* E has i at its distance from its base
GepSeen(E, i) ==
    IF i.k >= 0 THEN E[cell[i.v]] = E[Shifted(cell[i.p], i.k)]
    ELSE E[Shifted(cell[i.v], -i.k)] = E[cell[i.p]]

\* the values of a GEP have their cells
GepsBound ==
    \A i \in prog : i.op = "gep" =>
        /\ i.v \in Value /\ i.p \in Value /\ i.k \in Int /\ i.stride \in Nat
        /\ Bound(i.v) /\ Bound(i.p)

GepsForeseen ==
    \A E \in CellMap : Foresees(E) =>
        \A i \in prog : i.op = "gep" => GepSeen(E, i)

KeptInv == Inv /\ ClientsLast /\ PlacesSound /\ GepsBound /\ GepsForeseen

\* a value that has a cell keeps it
LEMMA CellsStay ==
    ASSUME Inv, ClientsLast, [Next]_vars, NEW v \in Value, Bound(v)
    PROVE  cell'[v] = cell[v] /\ Bound(v)'
  <1>1. ASSUME NEW w, ~Bound(w), NEW c, MkCell(w, c)
        PROVE  cell'[v] = cell[v]
    BY <1>1 DEF MkCell, Inv, TypeOK
  <1>2. CASE BindCell \/ BindLinkTarget
    <2>1. ~Bound(Top.v)
      BY <1>2, ClientOnTop DEF BindCell, BindLinkTarget, Running, ClientOp, Inv
    <2>2. \E c : MkCell(Top.v, c)
      BY <1>2 DEF BindCell, BindLinkTarget
    <2> QED
      BY <1>1, <2>1, <2>2 DEF Bound
  <1>3. CASE UNCHANGED cell
    BY <1>3 DEF Bound
  <1>4. CASE Visit
    <2>1. CASE \E w \in Value : VisitAlloca(w) \/ VisitInstruction(w)
      <3>1. \E w, c : ~Bound(w) /\ MkCell(w, c)
        BY <2>1 DEF VisitAlloca, VisitInstruction, Defines
      <3> QED
        BY <1>1, <3>1 DEF Bound
    <2>2. CASE \E w, p \in Value, k \in GepOffset, stride \in Stride \cup {0} :
                  VisitGep(w, p, k, stride)
      <3>1. PICK w, p, k, stride : VisitGep(w, p, k, stride)
        BY <2>2
      <3>2. ~Bound(w)
        BY <3>1 DEF VisitGep, GepInCollapsed, GepBack, GepBefore, GepIntoArray,
                    GepToField, IsGep, Defines
      <3>3. \E c : MkCell(w, c)
        BY <3>1 DEF VisitGep, GepInCollapsed, GepBack, GepBefore, GepIntoArray,
                    GepToField
      <3> QED
        BY <1>1, <3>2, <3>3 DEF Bound
    <2>3. ASSUME NEW p, NEW q, NEW r, NEW x, NEW y,
                 \/ VisitLoad(p, q, x) \/ VisitStore(p, q, x)
                 \/ VisitScalarAccess(p, x, y) \/ VisitSelect(p, q, r)
                 \/ VisitPHINode(p, q) \/ VisitCollapse(p) \/ VisitMakeSeq(p, x)
          PROVE  UNCHANGED cell
      BY <2>3 DEF VisitLoad, VisitStore, VisitScalarAccess, VisitSelect,
                  VisitPHINode, VisitCollapse, VisitMakeSeq
    <2> QED
      BY <1>3, <1>4, <2>1, <2>2, <2>3 DEF Visit
  <1>5. CASE ~Visit /\ ~BindCell /\ ~BindLinkTarget
    <2>1. UNCHANGED cell
      BY <1>5 DEF vars, graphVars, Next, Step, GraphStep, UnifyCells,
                  UnifyAtCollapse, UnifyAtSwap, UnifyAtSelf, UnifyAtMerge,
                  CollapseDone, CollapseInPlace, CollapseFresh, AbsorbTypes,
                  AbsorbCollapses, AbsorbMarks, MoveLink, AllLinksMoved,
                  AddLinkUnifies, AddLinkSets, AddAccessedType, AccessCollapses,
                  AccessIgnored, LoadFindsLink, LoadMakesLink
    <2> QED
      BY <1>3, <2>1
  <1> QED
    BY <1>2, <1>4, <1>5

\* the result of visitGep, once what it calls is done
LEMMA GepForeseen ==
    ASSUME Inv, NEW v \in Value, NEW p \in Value, NEW k \in Int, NEW stride \in Nat,
           VisitGep(v, p, k, stride),
           NEW E, Respects(E), MovesAlong(E), \A f : On(f, stack') => Pledged(f, E)
    PROVE  IF k >= 0 THEN E[cell'[v]] = E[Shifted(cell[p], k)]
           ELSE E[Shifted(cell'[v], -k)] = E[cell[p]]
  <1>1. IsGep(v, p, k, stride) /\ Bound(p)
    BY DEF VisitGep, GepInCollapsed, GepBack, GepBefore, GepIntoArray, GepToField, IsGep
  <1>2. PICK c \in CellIn(Node) : c = cell[p]
    BY <1>1, BoundType, FramesGrow DEF Inv, TypeOK
  <1>3. PICK r \in Node, o \in Nat :
           /\ Resolve(c) = At(r, o) /\ SameCell(c, At(r, o)) /\ Root(r) = r
           /\ r = Resolve(c).node /\ o = Resolve(c).off
           /\ r = Root(c.node) /\ o = fwd[c.node].off + c.off
    BY PlaceOf
  <1>4. PICK a \in Nat : a = Numeric(r, o)
    BY NumericIsNat DEF Inv
  <1>5. Address(c).node = r /\ Address(c).off = a
    BY <1>3, <1>4 DEF Address
  <1>6. SameCell(At(r, o), At(r, a))
    BY <1>3, <1>4, NumericSame
  <1>7. E[c] = E[At(r, o)] /\ E[c] = E[At(r, a)]
    BY <1>3, <1>6, AtType DEF Respects
  <1>8. ASSUME NEW d, MkCell(v, d)
        PROVE  cell'[v] = d
    BY <1>8 DEF MkCell, Inv, TypeOK
  <1>9. ASSUME k >= 0
        PROVE  E[Shifted(c, k)] = E[At(r, o + k)] /\ o + k \in Nat /\ k \in Nat
    <2>1. k \in Nat /\ o + k \in Nat
      BY <1>9
    <2>2. PICK d \in CellIn(Node) : d = At(r, o)
      BY AtType
    <2>3. E[Shifted(c, k)] = E[Shifted(d, k)]
      BY <1>7, <2>1, <2>2 DEF MovesAlong
    <2> QED
      BY <2>1, <2>2, <2>3, AtShifted
  <1>10. CASE GepInCollapsed(v, p, k, stride)
    <2>1. MkCell(v, At(r, 0)) /\ IsCollapsed(r)
      BY <1>2, <1>3, <1>10 DEF GepInCollapsed
    <2>2. cell'[v] = At(r, 0)
      BY <1>8, <2>1
    <2>3. \A x, y \in Nat : E[At(r, x)] = E[At(r, y)]
      <3> SUFFICES ASSUME NEW x \in Nat, NEW y \in Nat
                   PROVE  E[At(r, x)] = E[At(r, y)]
        OBVIOUS
      <3>1. SameCell(At(r, x), At(r, y))
        BY <1>3, <2>1, AtType, CollapsedSame
      <3> QED
        BY <3>1, AtType DEF Respects
    <2>4. CASE k >= 0
      BY <1>2, <1>9, <2>2, <2>3, <2>4
    <2>5. CASE ~(k >= 0)
      <3>1. 0 + -k \in Nat
        BY <2>5
      <3>2. Shifted(cell'[v], -k) = At(r, 0 + -k)
        BY <2>2, AtShifted
      <3> QED
        BY <1>2, <1>7, <2>3, <2>5, <3>1, <3>2
    <2> QED
      BY <2>4, <2>5
  <1>11. CASE GepBack(v, p, k, stride)
    <2>1. k < 0 /\ a + k >= 0 /\ MkCell(v, At(r, a + k))
      BY <1>2, <1>5, <1>11 DEF GepBack
    <2>2. cell'[v] = At(r, a + k)
      BY <1>8, <2>1
    <2>3. (a + k) + -k = a /\ ~(k >= 0)
      BY <2>1
    <2> QED
      BY <1>2, <1>7, <2>2, <2>3, AtShifted
  <1>12. CASE GepBefore(v, p, k, stride)
    <2>1. PICK n \in ClientNode :
             /\ k < 0 /\ a + k < 0 /\ MkNode(n) /\ MkCell(v, At(n, 0))
             /\ stack' = <<UnifyAt(n, r, -(a + k))>>
      BY <1>2, <1>5, <1>12 DEF GepBefore, Call
    <2>2. PICK z \in Nat : z = -(a + k)
      BY <2>1
    <2>3. z + a = 0 + -k /\ 0 + a = a /\ ~(k >= 0)
      BY <2>1, <2>2
    <2>4. cell'[v] = At(n, 0)
      BY <1>8, <2>1
    <2>5. n \in Node
      BY <2>1, MkNodeType DEF Inv
    <2>6. E[At(n, z)] = E[At(r, 0)]
      <3>1. PICK f : f = UnifyAt(n, r, z)
        OBVIOUS
      <3>2. f.op = "unifyAt" /\ f.n = n /\ f.m = r /\ f.o = z
        BY <3>1 DEF UnifyAt
      <3>3. On(f, stack')
        BY <2>1, <2>2, <3>1 DEF On
      <3> QED
        BY <3>2, <3>3 DEF Pledged
    <2>7. E[Shifted(At(n, z), a)] = E[Shifted(At(r, 0), a)]
      BY <2>5, <2>6, AtType DEF MovesAlong
    <2>8. E[At(n, 0 + -k)] = E[At(r, a)]
      BY <2>3, <2>7, AtShifted
    <2>9. E[Shifted(cell'[v], -k)] = E[cell[p]]
      BY <1>2, <1>7, <2>4, <2>8, AtShifted
    <2> QED
      BY <2>3, <2>9
  <1>13. CASE GepIntoArray(v, p, k, stride)
    <2>1. PICK n \in ClientNode :
             /\ k >= 0 /\ MkNode(n) /\ MkCell(v, At(n, k + o))
             /\ stack' = <<UnifyAt(n, r, 0)>>
      BY <1>2, <1>3, <1>13 DEF GepIntoArray, Call
    <2>2. PICK z \in Nat : z = k + o
      BY <2>1
    <2>3. 0 + z = o + k /\ 0 + z = z
      BY <2>2
    <2>4. cell'[v] = At(n, z)
      BY <1>8, <2>1, <2>2
    <2>5. n \in Node
      BY <2>1, MkNodeType DEF Inv
    <2>6. E[At(n, 0)] = E[At(r, 0)]
      <3>1. PICK f : f = UnifyAt(n, r, 0)
        OBVIOUS
      <3>2. f.op = "unifyAt" /\ f.n = n /\ f.m = r /\ f.o = 0
        BY <3>1 DEF UnifyAt
      <3>3. On(f, stack')
        BY <2>1, <3>1 DEF On
      <3> QED
        BY <3>2, <3>3 DEF Pledged
    <2>7. E[Shifted(At(n, 0), z)] = E[Shifted(At(r, 0), z)]
      BY <2>5, <2>6, AtType DEF MovesAlong
    <2>8. E[At(n, z)] = E[At(r, o + k)]
      BY <2>3, <2>7, AtShifted
    <2>9. E[cell'[v]] = E[Shifted(cell[p], k)]
      BY <1>2, <1>9, <2>1, <2>4, <2>8
    <2> QED
      BY <2>1, <2>9
  <1>14. CASE GepToField(v, p, k, stride)
    <2>1. k >= 0 /\ MkCell(v, At(r, o + k))
      BY <1>2, <1>3, <1>14 DEF GepToField
    <2> QED
      BY <1>2, <1>8, <1>9, <2>1
  <1> QED
    BY <1>10, <1>11, <1>12, <1>13, <1>14 DEF VisitGep

\* what a visit adds to the instructions
LEMMA VisitAdds ==
    ASSUME Visit, NEW i \in prog' \ prog, i.op = "gep"
    PROVE  \E v, p \in Value, k \in GepOffset, stride \in Stride \cup {0} :
              /\ VisitGep(v, p, k, stride)
              /\ i = [op |-> "gep", v |-> v, p |-> p, k |-> k, stride |-> stride]
  <1>1. ASSUME NEW is, Visited(is), \A j \in is : j.op # "gep"
        PROVE  FALSE
    BY <1>1 DEF Visited
  <1>2. ASSUME NEW v \in Value, VisitAlloca(v) \/ VisitInstruction(v)
        PROVE  FALSE
    <2>1. PICK x, y : x = [op |-> "alloca", v |-> v] /\ y = [op |-> "call", v |-> v]
      OBVIOUS
    <2>2. Visited({x}) \/ Visited({y})
      BY <1>2, <2>1 DEF VisitAlloca, VisitInstruction
    <2>3. x.op # "gep" /\ y.op # "gep"
      BY <2>1
    <2> QED
      BY <1>1, <2>2, <2>3
  <1>3. ASSUME NEW v, NEW p, NEW ty, VisitLoad(v, p, ty) \/ VisitStore(v, p, ty)
        PROVE  FALSE
    <2>1. PICK x, y : /\ x = [op |-> "load", v |-> v, p |-> p, ty |-> ty]
                      /\ y = [op |-> "store", v |-> v, p |-> p, ty |-> ty]
      OBVIOUS
    <2>2. Visited({x}) \/ Visited({y})
      BY <1>3, <2>1 DEF VisitLoad, VisitStore
    <2>3. x.op # "gep" /\ y.op # "gep"
      BY <2>1
    <2> QED
      BY <1>1, <2>2, <2>3
  <1>4. ASSUME NEW p, NEW x, NEW y,
               \/ VisitScalarAccess(p, x, y) \/ VisitPHINode(p, x)
               \/ VisitCollapse(p) \/ VisitMakeSeq(p, x)
        PROVE  FALSE
    <2>1. PICK a, b, c, d :
             /\ a = [op |-> "touch", p |-> p, mark |-> y, width |-> x]
             /\ b = [op |-> "same", v |-> p, p |-> x]
             /\ c = [op |-> "collapse", p |-> p]
             /\ d = [op |-> "mk_seq", p |-> p]
      OBVIOUS
    <2>2. Visited({a}) \/ Visited({b}) \/ Visited({c}) \/ Visited({d})
      BY <1>4, <2>1 DEF VisitScalarAccess, VisitPHINode, VisitCollapse, VisitMakeSeq
    <2>3. a.op # "gep" /\ b.op # "gep" /\ c.op # "gep" /\ d.op # "gep"
      BY <2>1
    <2> QED
      BY <1>1, <2>2, <2>3
  <1>5. ASSUME NEW v, NEW p, NEW q, VisitSelect(v, p, q)
        PROVE  FALSE
    <2>1. PICK x, y : /\ x = [op |-> "same", v |-> v, p |-> p]
                      /\ y = [op |-> "same", v |-> p, p |-> q]
      OBVIOUS
    <2>2. Visited({x, y}) /\ x.op # "gep" /\ y.op # "gep"
      BY <1>5, <2>1 DEF VisitSelect
    <2> QED
      BY <1>1, <2>2
  <1>6. PICK v \in Value, p \in Value, k \in GepOffset, stride \in Stride \cup {0} :
           VisitGep(v, p, k, stride)
    BY <1>2, <1>3, <1>4, <1>5 DEF Visit
  <1>7. Visited({[op |-> "gep", v |-> v, p |-> p, k |-> k, stride |-> stride]})
    BY <1>6 DEF VisitGep, GepInCollapsed, GepBack, GepBefore, GepIntoArray,
                GepToField, IsGep
  <1>8. i = [op |-> "gep", v |-> v, p |-> p, k |-> k, stride |-> stride]
    BY <1>7 DEF Visited
  <1> QED
    BY <1>6, <1>8

\* visitGep gives its result a cell of a node
LEMMA GepBinds ==
    ASSUME Inv, NEW v \in Value, NEW p \in Value, NEW k, NEW stride,
           VisitGep(v, p, k, stride), Bound(p)
    PROVE  \E n \in Node : \E o : MkCell(v, At(n, o))
  <1>1. PICK r \in Node : r = Resolve(cell[p]).node /\ r = Address(cell[p]).node
    BY BoundType, ResolvedType, AddressType DEF Inv
  <1>2. CASE \/ GepInCollapsed(v, p, k, stride) \/ GepBack(v, p, k, stride)
             \/ GepToField(v, p, k, stride)
    BY <1>1, <1>2 DEF GepInCollapsed, GepBack, GepToField
  <1>3. CASE GepBefore(v, p, k, stride) \/ GepIntoArray(v, p, k, stride)
    <2>1. \A n \in ClientNode : n \in Node
      BY MaxNodesAssumption DEF ClientNode, Node
    <2> QED
      BY <1>3, <2>1 DEF GepBefore, GepIntoArray
  <1> QED
    BY <1>2, <1>3 DEF VisitGep

\* prog is only written by visits
LEMMA StepsVisitNothing ==
    ASSUME [Next]_vars, ~Visit
    PROVE  UNCHANGED prog
  BY DEF vars, Next, Step, LoadFindsLink, LoadMakesLink

LEMMA NextGepsBound ==
    ASSUME Inv, ClientsLast, GepsBound, [Next]_vars
    PROVE  GepsBound'
  <1> SUFFICES ASSUME NEW i \in prog', i.op = "gep"
               PROVE  /\ i.v \in Value /\ i.p \in Value
                      /\ i.k \in Int /\ i.stride \in Nat
                      /\ Bound(i.v)' /\ Bound(i.p)'
    BY DEF GepsBound, Bound
  <1>1. CASE i \in prog
    BY <1>1, CellsStay DEF GepsBound
  <1>2. CASE i \notin prog
    <2>1. Visit
      BY <1>2, StepsVisitNothing
    <2>2. PICK v \in Value, p \in Value, k \in GepOffset, stride \in Stride \cup {0} :
             /\ VisitGep(v, p, k, stride)
             /\ i = [op |-> "gep", v |-> v, p |-> p, k |-> k, stride |-> stride]
      BY <1>2, <2>1, VisitAdds
    <2>3. Bound(p)' /\ Bound(v)'
      <3>1. Bound(p)
        BY <2>2 DEF VisitGep, GepInCollapsed, GepBack, GepBefore, GepIntoArray,
                    GepToField, IsGep
      <3>2. PICK n \in Node : \E o : MkCell(v, At(n, o))
        BY <2>2, <3>1, GepBinds
      <3>3. PICK o : cell'[v] = At(n, o)
        BY <3>2 DEF MkCell, Inv, TypeOK
      <3>4. n # 0
        BY MaxNodesAssumption DEF Node
      <3>5. Bound(v)'
        BY <3>3, <3>4 DEF Bound, NoCell, At
      <3> QED
        BY <3>1, <3>5, CellsStay
    <2>4. k \in Int /\ stride \in Nat
      BY OffsetAssumption
    <2> QED
      BY <2>2, <2>3, <2>4
  <1> QED
    BY <1>1, <1>2

LEMMA NextGeps ==
    ASSUME KeptInv, Inv', [Next]_vars
    PROVE  GepsForeseen'
  <1>0. Inv /\ ClientsLast /\ PlacesSound /\ GepsBound /\ GepsForeseen
    BY DEF KeptInv
  <1> SUFFICES ASSUME NEW E \in CellMap, Foresees(E)',
                      NEW i \in prog', i.op = "gep"
               PROVE  GepSeen(E, i)'
    BY DEF GepsForeseen, CellMap, Foresees, Respects, MovesAlong, GepSeen, Pledged,
           On, SameCell, Address, Resolve, Numeric, IsCollapsed, IsArray
  <1>1. Respects(E)' /\ MovesAlong(E) /\ (\A f : On(f, stack') => Pledged(f, E))
    BY DEF Foresees, MovesAlong, Pledged, On
  <1>2. Respects(E)
    BY <1>0, <1>1, StillRespects
  <1>3. Foresees(E)
    <2>1. CASE Visit
      <3>1. \A f : ~On(f, stack)
        BY <2>1, VisitIdle, NoCalls
      <3> QED
        BY <1>1, <1>2, <3>1 DEF Foresees
    <2> QED
      BY <1>0, <2>1, Foreseen
  <1>4. CASE i \in prog
    <2>1. GepSeen(E, i)
      BY <1>0, <1>3, <1>4 DEF GepsForeseen
    <2>2. cell'[i.v] = cell[i.v] /\ cell'[i.p] = cell[i.p]
      BY <1>0, <1>4, CellsStay DEF GepsBound
    <2> QED
      BY <2>1, <2>2 DEF GepSeen
  <1>5. CASE i \notin prog
    <2>1. Visit
      BY <1>5, StepsVisitNothing
    <2>2. PICK v \in Value, p \in Value, k \in GepOffset, stride \in Stride \cup {0} :
             /\ VisitGep(v, p, k, stride)
             /\ i = [op |-> "gep", v |-> v, p |-> p, k |-> k, stride |-> stride]
      BY <1>5, <2>1, VisitAdds
    <2>3. k \in Int /\ stride \in Nat
      BY OffsetAssumption
    <2>4. cell'[p] = cell[p]
      <3>1. Bound(p)
        BY <2>2 DEF VisitGep, GepInCollapsed, GepBack, GepBefore, GepIntoArray,
                    GepToField, IsGep
      <3> QED
        BY <1>0, <3>1, CellsStay
    <2>5. IF k >= 0 THEN E[cell'[v]] = E[Shifted(cell[p], k)]
          ELSE E[Shifted(cell'[v], -k)] = E[cell[p]]
      BY <1>0, <1>1, <1>2, <2>2, <2>3, GepForeseen
    <2>6. i.k = k /\ i.v = v /\ i.p = p
      BY <2>2
    <2> QED
      BY <2>4, <2>5, <2>6 DEF GepSeen
  <1> QED
    BY <1>4, <1>5

\* the engine keeps what GEPs are promised
LEMMA NextKept == KeptInv /\ [Next]_vars => KeptInv'
  <1> SUFFICES ASSUME KeptInv, [Next]_vars PROVE KeptInv'
    OBVIOUS
  <1>1. Inv /\ ClientsLast /\ PlacesSound /\ GepsBound
    BY DEF KeptInv
  <1>2. Inv'
    BY <1>1, NextInv
  <1>3. ClientsLast'
    BY <1>1, NextClients
  <1>4. PlacesSound'
    BY <1>1, NextPlaces
  <1>5. GepsBound'
    BY <1>1, NextGepsBound
  <1> QED
    BY <1>2, <1>3, <1>4, <1>5, NextGeps DEF KeptInv

LEMMA InitKept == Init => KeptInv
  <1> SUFFICES ASSUME Init PROVE KeptInv
    OBVIOUS
  <1>1. Inv
    BY InitInv
  <1>2. stack = <<>> /\ prog = {}
    BY DEF Init, GraphInit
  <1>3. Len(stack) = 0
    BY <1>2
  <1> QED
    BY <1>1, <1>2, <1>3 DEF KeptInv, ClientsLast, PlacesSound, GepsBound, GepsForeseen

\* A GEP stays at its distance from its base, in whatever nodes and at whatever
\* offsets the two end up (visitGep, Node::unifyAt, Node::pointTo).
THEOREM GepsStay == Spec => []GepsKept
  <1>1. KeptInv => GepsKept
    <2> SUFFICES ASSUME KeptInv, Idle, NEW i \in prog, i.op = "gep"
                 PROVE  IF i.k >= 0 THEN SameCell(cell[i.v], Shifted(cell[i.p], i.k))
                        ELSE SameCell(Shifted(cell[i.v], -i.k), cell[i.p])
      BY DEF GepsKept
    <2>1. PICK E : E = [c \in CellIn(Node) |-> Address(c)]
      OBVIOUS
    <2>2. E \in CellMap /\ Foresees(E)
      BY <2>1, AddressForesees DEF KeptInv
    <2>3. GepSeen(E, i)
      BY <2>2 DEF KeptInv, GepsForeseen
    <2>4. PICK c \in CellIn(Node), d \in CellIn(Node), k \in Int :
             c = cell[i.v] /\ d = cell[i.p] /\ k = i.k
      BY BoundType, FramesGrow DEF KeptInv, GepsBound, Inv, TypeOK
    <2>5. \A e \in CellIn(Node) : E[e] = Address(e)
      BY <2>1
    <2>6. CASE k >= 0
      <3>1. Shifted(d, k) \in CellIn(Node)
        BY <2>6, ShiftedType
      <3> QED
        BY <2>3, <2>4, <2>5, <2>6, <3>1 DEF GepSeen, SameCell
    <2>7. CASE ~(k >= 0)
      <3>1. -k \in Nat
        BY <2>7
      <3>2. Shifted(c, -k) \in CellIn(Node)
        BY <3>1, ShiftedType
      <3> QED
        BY <2>3, <2>4, <2>5, <2>7, <3>2 DEF GepSeen, SameCell
    <2> QED
      BY <2>6, <2>7
  <1> QED
    BY <1>1, InitKept, NextKept, PTL DEF Spec

-----------------------------------------------------------------------------
(* The strides.                                                             *)

\* moving the result of a GEP with a variable index by its stride leaves it
\* where it is
StridesSame ==
    \A i \in prog : (i.op = "gep" /\ i.k >= 0 /\ i.stride # 0) =>
        SameCell(cell[i.v], Shifted(cell[i.v], i.stride))

\* moving by a multiple leaves the remainder
LEMMA StrideAdded ==
    ASSUME NEW a \in Nat, NEW t \in Nat \ {0}
    PROVE  a % t = (a + t) % t
  <1>1. PICK q \in Int, r \in 0 .. (t - 1) : a = t * q + r /\ a % t = r
    BY Quotient
  <1>2. PICK l \in Int, u \in 0 .. (t - 1) : a + t = t * l + u /\ (a + t) % t = u
    BY Quotient
  <1>3. t * l + u = t * q + (t * 1 + r)
    BY <1>1, <1>2
  <1>4. u = r
    BY <1>3, MultipleAdded
  <1> QED
    BY <1>1, <1>2, <1>4

\* and only moving by a multiple does
LEMMA EvenlyApart ==
    ASSUME NEW a \in Nat, NEW t \in Nat, NEW s \in Nat \ {0}, a % s = (a + t) % s
    PROVE  t % s = 0
  <1>1. PICK q \in Int, r \in 0 .. (s - 1) : a = s * q + r /\ a % s = r
    BY Quotient
  <1>2. PICK l \in Int, u \in 0 .. (s - 1) : a + t = s * l + u /\ (a + t) % s = u
    BY Quotient
  <1>3. PICK k \in Int, w \in 0 .. (s - 1) : t = s * k + w /\ t % s = w
    BY Quotient
  <1>4. PICK x, y, z : x = s * q /\ y = s * l /\ z = s * k
    OBVIOUS
  <1>5. x \in Int /\ y \in Int /\ z \in Int
    BY <1>4
  <1>6. y = x + t
    BY <1>1, <1>2, <1>4, <1>5
  <1>7. y = x + (z + w)
    BY <1>3, <1>4, <1>5, <1>6
  <1>8. 0 \in 0 .. (s - 1) /\ y + 0 = x + (z + w)
    BY <1>5, <1>7
  <1>9. 0 = w
    BY <1>4, <1>8, MultipleAdded
  <1> QED
    BY <1>3, <1>9

\* visitGep puts it into a node that has collapsed, or into an array of that size
LEMMA GepStrides ==
    ASSUME Inv, NEW v \in Value, NEW p \in Value, NEW k \in Int, NEW stride \in Nat,
           VisitGep(v, p, k, stride), k >= 0, stride # 0,
           NEW c, c = cell'[v]
    PROVE  SameCell(c, Shifted(c, stride))'
  <1>1. ASSUME NEW d, MkCell(v, d)
        PROVE  c = d
    BY <1>1 DEF MkCell, Inv, TypeOK
  <1>2. Bound(p)
    BY DEF VisitGep, GepInCollapsed, GepBack, GepBefore, GepIntoArray, GepToField, IsGep
  <1>3. PICK d \in CellIn(Node) : d = cell[p]
    BY <1>2, BoundType, FramesGrow DEF Inv, TypeOK
  <1>4. PICK r \in Node, o \in Nat : /\ r = Resolve(d).node /\ o = Resolve(d).off
                                     /\ Root(r) = r
    BY PlaceOf
  <1>5. CASE GepInCollapsed(v, p, k, stride)
    <2>1. MkCell(v, At(r, 0)) /\ IsCollapsed(r) /\ UNCHANGED <<fwd, marks>>
      BY <1>3, <1>4, <1>5 DEF GepInCollapsed
    <2>2. c = At(r, 0)
      BY <1>1, <2>1
    <2>3. c.node = r /\ Shifted(c, stride).node = r
      BY <2>2 DEF At, Shifted
    <2>4. Root(r)' = r /\ IsCollapsed(r)'
      BY <1>4, <2>1 DEF Root, IsCollapsed
    <2>5. PICK e : e = Shifted(c, stride)
      OBVIOUS
    <2>6. Address(c)' = At(r, 0) /\ Address(e)' = At(r, 0)
      BY <2>3, <2>4, <2>5 DEF Address, Resolve, Numeric, Root, At, IsCollapsed
    <2> QED
      BY <2>5, <2>6 DEF SameCell, Address, Shifted
  <1>6. CASE GepIntoArray(v, p, k, stride)
    <2>1. PICK n \in ClientNode :
             /\ MkNode(n) /\ MkCell(v, At(n, k + o)) /\ SetMark(n, "array")
             /\ size' = [size EXCEPT ![n] = stride] /\ UNCHANGED fwd
      BY <1>3, <1>4, <1>6 DEF GepIntoArray
    <2>2. PICK z \in Nat : z = k + o
      OBVIOUS
    <2>3. c = At(n, z)
      BY <1>1, <2>1, <2>2
    <2>4. n \in Node /\ n \notin nodes
      BY <2>1, MkNodeType DEF Inv
    <2>5. fwd'[n] = [node |-> n, off |-> 0] /\ size'[n] = stride
      BY <2>1, <2>4 DEF Inv, TypeOK
    <2>6. PICK e : e = Shifted(c, stride)
      OBVIOUS
    <2>7. e = At(n, z + stride)
      BY <2>3, <2>6, AtShifted
    <2>8. 0 + z = z /\ 0 + (z + stride) = z + stride /\ z + stride \in Nat
      OBVIOUS
    <2>9. Resolve(c)' = At(n, z) /\ Resolve(e)' = At(n, z + stride)
      BY <2>3, <2>5, <2>7, <2>8 DEF Resolve, At
    <2>10. z % stride = (z + stride) % stride
      BY StrideAdded
    <2>11. ~IsCollapsed(n)' /\ IsArray(n)'
      BY <2>1, <2>4 DEF SetMark, Inv, TypeOK, IsCollapsed, IsArray
    <2>12. PICK x, y : x = z % stride /\ y = (z + stride) % stride
      OBVIOUS
    <2>13. Numeric(n, z)' = x /\ Numeric(n, z + stride)' = y
      BY <2>5, <2>11, <2>12 DEF Numeric, IsCollapsed, IsArray
    <2>14. Address(c)' = At(n, x) /\ Address(e)' = At(n, y)
      BY <2>9, <2>13 DEF Address, At, Numeric, IsCollapsed, IsArray
    <2>15. SameCell(c, e)'
      BY <2>10, <2>12, <2>14 DEF SameCell
    <2> QED
      BY <2>6, <2>15 DEF SameCell, Address, Shifted
  <1>7. CASE \/ GepBack(v, p, k, stride) \/ GepBefore(v, p, k, stride)
             \/ GepToField(v, p, k, stride)
    BY <1>7 DEF GepBack, GepBefore, GepToField
  <1> QED
    BY <1>5, <1>6, <1>7 DEF VisitGep

LEMMA NextStrides ==
    ASSUME Inv, Inv', ClientsLast, GepsBound, StridesSame, [Next]_vars
    PROVE  StridesSame'
  <1> SUFFICES ASSUME NEW i \in prog', i.op = "gep", i.k >= 0, i.stride # 0,
                      NEW c, c = cell'[i.v]
               PROVE  SameCell(c, Shifted(c, i.stride))'
    BY DEF StridesSame, SameCell, Shifted, Address, Resolve, Numeric, IsCollapsed, IsArray
  <1>1. CASE i \in prog
    <2>1. i.v \in Value /\ i.stride \in Nat /\ Bound(i.v)
      BY <1>1 DEF GepsBound
    <2>2. c = cell[i.v]
      BY <2>1, CellsStay
    <2>3. c \in CellIn(Node)
      <3>1. cell[i.v] \in CellIn(nodes)
        BY <2>1, BoundType DEF Inv
      <3>2. CellIn(nodes) \subseteq CellIn(Node)
        BY FramesGrow DEF Inv, TypeOK
      <3> QED
        BY <2>2, <3>1, <3>2
    <2>4. PICK e \in CellIn(Node) : e = Shifted(c, i.stride)
      BY <2>1, <2>3, ShiftedType
    <2>5. SameCell(c, e)
      BY <1>1, <2>2, <2>4 DEF StridesSame
    <2>6. SameCell(c, e)'
      BY <2>3, <2>4, <2>5, NextTogether DEF Together
    <2> QED
      BY <2>4, <2>6 DEF SameCell, Address
  <1>2. CASE i \notin prog
    <2>1. Visit
      BY <1>2, StepsVisitNothing
    <2>2. PICK v \in Value, p \in Value, k \in GepOffset, stride \in Stride \cup {0} :
             /\ VisitGep(v, p, k, stride)
             /\ i = [op |-> "gep", v |-> v, p |-> p, k |-> k, stride |-> stride]
      BY <1>2, <2>1, VisitAdds
    <2>3. k \in Int /\ stride \in Nat
      BY OffsetAssumption
    <2>4. i.k = k /\ i.v = v /\ i.stride = stride
      BY <2>2
    <2>5. SameCell(c, Shifted(c, stride))'
      BY <2>2, <2>3, <2>4, GepStrides
    <2> QED
      BY <2>4, <2>5
  <1> QED
    BY <1>1, <1>2

\* an array in which moving by t changes nothing has a size that divides t
LEMMA SizeDivides ==
    ASSUME Inv, NEW c \in CellIn(Node), NEW t \in Nat, t # 0,
           SameCell(c, Shifted(c, t)), NEW r, r = Address(c).node
    PROVE  IsCollapsed(r) \/ (IsArray(r) /\ t % size[r] = 0)
  <1>1. PICK n \in Node, a \in Nat : n = Root(c.node) /\ a = fwd[c.node].off + c.off
                                     /\ Resolve(c) = At(n, a)
    BY PlaceOf
  <1>2. Resolve(Shifted(c, t)) = At(n, a + t)
    BY <1>1, ShiftedReads
  <1>3. r = n /\ Numeric(n, a) = Numeric(n, a + t)
    BY <1>1, <1>2 DEF SameCell, Address, At
  <1>4. CASE ~IsCollapsed(n) /\ ~IsArray(n)
    <2>1. a = a + t
      BY <1>3, <1>4 DEF Numeric
    <2> QED
      BY <2>1
  <1>5. CASE ~IsCollapsed(n) /\ IsArray(n)
    <2>1. PICK s \in Nat \ {0} : s = size[n]
      BY <1>5 DEF Inv, ArraysHaveSize, TypeOK
    <2>2. a % s = (a + t) % s
      BY <1>3, <1>5, <2>1 DEF Numeric
    <2>3. t % s = 0
      BY <2>2, EvenlyApart
    <2> QED
      BY <1>3, <1>5, <2>1, <2>3
  <1> QED
    BY <1>3, <1>4, <1>5

\* A GEP with a variable index of some stride keeps reaching every multiple of it
\* (visitGep, the divisibility cases of Node::unifyAt).
THEOREM StridesStay == Spec => []StridesKept
  <1> DEFINE I == KeptInv /\ StridesSame
  <1>1. Init => I
    <2>1. Init => StridesSame
      BY DEF Init, StridesSame
    <2> QED
      BY <2>1, InitKept
  <1>2. I /\ [Next]_vars => I'
    <2>1. KeptInv => Inv /\ ClientsLast /\ GepsBound
      BY DEF KeptInv
    <2>2. KeptInv' => Inv'
      BY DEF KeptInv
    <2> QED
      BY <2>1, <2>2, NextKept, NextStrides
  <1>3. I /\ GepsKept => StridesKept
    <2> SUFFICES ASSUME KeptInv, StridesSame, GepsKept, Idle,
                        NEW i \in prog, i.op = "gep", i.k >= 0, i.stride # 0,
                        NEW r, r = Address(cell[i.p]).node
                 PROVE  IsCollapsed(r) \/ (IsArray(r) /\ i.stride % size[r] = 0)
      BY DEF StridesKept
    <2>1. Inv /\ i.v \in Value /\ i.p \in Value /\ i.k \in Nat /\ i.stride \in Nat
      BY DEF KeptInv, GepsBound
    <2>2. PICK c \in CellIn(Node), d \in CellIn(Node) : c = cell[i.v] /\ d = cell[i.p]
      <3>1. Bound(i.v) /\ Bound(i.p)
        BY DEF KeptInv, GepsBound
      <3>2. cell[i.v] \in CellIn(nodes) /\ cell[i.p] \in CellIn(nodes)
        BY <2>1, <3>1, BoundType DEF Inv
      <3> QED
        BY <2>1, <3>2, FramesGrow DEF Inv, TypeOK
    <2>3. SameCell(c, Shifted(d, i.k)) /\ SameCell(c, Shifted(c, i.stride))
      BY <2>2 DEF GepsKept, StridesSame
    <2>4. r = Root(d.node)
      BY <2>2 DEF Address, Resolve, Root
    <2>5. Shifted(d, i.k).node = d.node
      BY <2>1, ShiftedType
    <2>6. Address(c).node = Address(Shifted(d, i.k)).node
      BY <2>3 DEF SameCell
    <2>7. r = Address(c).node
      BY <2>4, <2>5, <2>6 DEF Address, Resolve, Root
    <2> QED
      BY <2>1, <2>2, <2>3, <2>7, SizeDivides
  <1> QED
    BY <1>1, <1>2, <1>3, GepsStay, PTL DEF Spec

-----------------------------------------------------------------------------
(* Points-to edges.  While nodes are merged a link is in a node, or in the  *)
(* list of links a pending call is going to add again, or in the hand of a  *)
(* pending Cell::addLink; and it may already lead to a node that a pending  *)
(* call is still going to unify with the one that was asked for.            *)

LinkedOp == {"load", "store"}

\* a link l at the cell `at' stands for the edge from c to d of type ty
Carries(E, at, l, c, ty, d) ==
    E[at] = E[c] /\ l.ty \in {ty, OmniType} /\ E[l.to] = E[d]

InGraph(E, c, ty, d) ==
    \E n \in Node : \E l \in links[n] : Carries(E, At(n, l.off), l, c, ty, d)

InFrame(f, E, c, ty, d) ==
    \/ f.op = "links" /\ \E l \in f.rest : Carries(E, Shifted(f.via, l.off), l, c, ty, d)
    \/ f.op = "addLink" /\ Carries(E, f.at, f, c, ty, d)

Edge(E, c, ty, d) ==
    InGraph(E, c, ty, d) \/ \E f : On(f, stack) /\ InFrame(f, E, c, ty, d)

\* a load whose result has no cell yet is pending
LoadComes(i) ==
    \E f : /\ On(f, stack) /\ f.op \in {"load", "bindLink"}
           /\ f.v = i.v /\ f.at = cell[i.p] /\ f.ty = i.ty

LoadsPending ==
    \A i \in prog : i.op \in LinkedOp =>
        /\ i.v \in Value /\ i.p \in Value /\ i.ty \in FieldType
        /\ Bound(i.p)
        /\ Bound(i.v) \/ LoadComes(i)

LinksForeseen ==
    \A E \in CellMap : Foresees(E) =>
        \A i \in prog : i.op \in LinkedOp /\ Bound(i.v) =>
            Edge(E, cell[i.p], i.ty, cell[i.v])

\* a node that forwards has handed on its links, or a pending call will do so
LinksComeAlong(n) ==
    links[n] # {} /\ IsForwarding(n) =>
        \E f : On(f, stack) /\ f.op \in {"absorb", "annotate"} /\ f.n = n

LinksAtRoots == \A n \in Node : LinksComeAlong(n)

-----------------------------------------------------------------------------
(* Edges are never lost.                                                    *)

\* a step that keeps every link, but perhaps not the call on top
LEMMA EdgeStays ==
    ASSUME NEW E, NEW c, NEW ty, NEW d, Edge(E, c, ty, d),
           InGraph(E, c, ty, d) => Edge(E, c, ty, d)',
           InFrame(Top, E, c, ty, d) => Edge(E, c, ty, d)',
           \A f : On(f, stack) => f = Top \/ On(f, stack')
    PROVE  Edge(E, c, ty, d)'
  <1>1. ASSUME NEW f, On(f, stack), InFrame(f, E, c, ty, d)
        PROVE  Edge(E, c, ty, d)'
    <2>1. CASE f = Top
      BY <1>1, <2>1
    <2>2. CASE f # Top
      <3>1. On(f, stack')
        BY <1>1, <2>2
      <3>2. InFrame(f, E, c, ty, d)'
        BY <1>1 DEF InFrame, Carries
      <3> QED
        BY <3>1, <3>2 DEF Edge, On, InFrame, Carries
    <2> QED
      BY <2>1, <2>2
  <1> QED
    BY <1>1 DEF Edge

\* what is in the graph and not touched
LEMMA GraphEdgeStays ==
    ASSUME NEW E, NEW c, NEW ty, NEW d, InGraph(E, c, ty, d), UNCHANGED links
    PROVE  Edge(E, c, ty, d)'
  BY DEF InGraph, Edge, Carries

\* what a call of the new stack carries
LEMMA FrameEdge ==
    ASSUME NEW E, NEW c, NEW ty, NEW d, NEW f, On(f, stack'), InFrame(f, E, c, ty, d)
    PROVE  Edge(E, c, ty, d)'
  BY DEF Edge, On, InFrame, Carries

\* every step makes calls
LEMMA StepCalls ==
    ASSUME Inv, Step
    PROVE  /\ stack # <<>> /\ Top \in FrameIn(nodes)
           /\ \A f : On(f, stack) => f = Top \/ On(f, stack')
  <1>1. Calls(MergeOp) \/ Calls({"links", "addLink"}) \/ Calls({"addLink", "bindLink"})
    BY MergingSteps, LinkingSteps, LoadSteps DEF Step, GraphStep
  <1>2. \/ stack # <<>> /\ Return
        \/ stack # <<>> /\ \E x : Continue(<<x>>)
        \/ stack # <<>> /\ \E x, y : Continue(<<x, y>>)
    BY <1>1 DEF Calls
  <1> QED
    BY <1>2, TopFrame, Returned, CalledOne, CalledTwo DEF Inv

LEMMA MoveLinkEdge ==
    ASSUME Inv, MoveLink, NEW E, NEW c, NEW ty, NEW d, InFrame(Top, E, c, ty, d)
    PROVE  Edge(E, c, ty, d)'
  <1>1. Top.op = "links" /\ stack # <<>>
    BY DEF MoveLink, Running
  <1>2. PICK k \in Top.rest : Carries(E, Shifted(Top.via, k.off), k, c, ty, d)
    BY <1>1 DEF InFrame
  <1>3. PICK l \in Top.rest :
           Continue(<<AddLink(Shifted(Top.via, l.off), l.ty, l.to),
                      Links(Top.via, Top.rest \ {l})>>)
    BY DEF MoveLink, Shifted
  <1>4. PICK x, y : /\ x = AddLink(Shifted(Top.via, l.off), l.ty, l.to)
                    /\ y = Links(Top.via, Top.rest \ {l})
    OBVIOUS
  <1>5. On(x, stack') /\ On(y, stack')
    BY <1>1, <1>3, <1>4, CalledTwo DEF Inv
  <1>6. CASE k = l
    <2>1. /\ x.op = "addLink" /\ x.at = Shifted(Top.via, l.off)
          /\ x.ty = l.ty /\ x.to = l.to
      BY <1>4 DEF AddLink
    <2>2. InFrame(x, E, c, ty, d)
      BY <1>2, <1>6, <2>1 DEF InFrame, Carries
    <2> QED
      BY <1>5, <2>2, FrameEdge
  <1>7. CASE k # l
    <2>1. y.op = "links" /\ y.via = Top.via /\ k \in y.rest
      BY <1>2, <1>4, <1>7 DEF Links
    <2>2. InFrame(y, E, c, ty, d)
      BY <1>2, <2>1 DEF InFrame
    <2> QED
      BY <1>5, <2>2, FrameEdge
  <1> QED
    BY <1>6, <1>7

\* the place where addLink and getLink look is the cell they are given
LEMMA LinkPlace ==
    ASSUME Inv, NEW E, Respects(E), NEW at \in CellIn(Node)
    PROVE  \E n \in Node, o \in Nat :
              /\ n = Resolve(at).node /\ o = LinkOffset(at) /\ E[At(n, o)] = E[at]
  <1>1. PICK r \in Node, a \in Nat :
           /\ Resolve(at) = At(r, a) /\ SameCell(at, At(r, a)) /\ Root(r) = r
           /\ r = Resolve(at).node /\ a = Resolve(at).off
    BY PlaceOf
  <1>2. PICK o \in Nat : o = Numeric(r, a) /\ SameCell(At(r, a), At(r, o))
    BY <1>1, NumericSame
  <1>3. o = LinkOffset(at)
    BY <1>1, <1>2 DEF LinkOffset
  <1>4. E[at] = E[At(r, a)] /\ E[At(r, a)] = E[At(r, o)]
    BY <1>1, <1>2, AtType DEF Respects
  <1> QED
    BY <1>1, <1>3, <1>4

\* what addLink has in hand
LEMMA AddLinkCell ==
    ASSUME Inv, Running("addLink")
    PROVE  Top.at \in CellIn(Node)
  BY AddLinkTop, FramesGrow DEF Inv, TypeOK

LEMMA AddLinkUnifiesEdge ==
    ASSUME Inv, AddLinkUnifies, NEW E, Respects(E), NEW c, NEW ty, NEW d,
           \A f : On(f, stack') => Pledged(f, E), InFrame(Top, E, c, ty, d)
    PROVE  Edge(E, c, ty, d)'
  <1>1. Running("addLink") /\ Top.op = "addLink" /\ stack # <<>> /\ UNCHANGED links
    BY DEF AddLinkUnifies, Running, nodeVars
  <1>2. Carries(E, Top.at, Top, c, ty, d)
    BY <1>1 DEF InFrame
  <1>3. PICK n \in Node, o \in Nat : /\ n = Resolve(Top.at).node /\ o = LinkOffset(Top.at)
                                     /\ E[At(n, o)] = E[Top.at]
    BY <1>1, AddLinkCell, LinkPlace
  <1>4. PICK l \in FoundLink(n, o, Top.ty) : Continue(<<Unify(l.to, Top.to)>>)
    BY <1>3 DEF AddLinkUnifies
  <1>5. l \in links[n] /\ l.off = o /\ l.ty \in {Top.ty, OmniType}
    BY DEF FoundLink, LinkAt
  <1>6. E[l.to] = E[Top.to]
    <2>1. PICK x : x = Unify(l.to, Top.to)
      OBVIOUS
    <2>2. x.op = "unify" /\ x.a = l.to /\ x.b = Top.to
      BY <2>1 DEF Unify
    <2>3. On(x, stack')
      BY <1>1, <1>4, <2>1, CalledOne DEF Inv
    <2> QED
      BY <2>2, <2>3 DEF Pledged
  <1>7. Carries(E, At(n, l.off), l, c, ty, d)
    BY <1>2, <1>3, <1>5, <1>6 DEF Carries
  <1>8. InGraph(E, c, ty, d)
    BY <1>5, <1>7 DEF InGraph
  <1> QED
    BY <1>1, <1>8, GraphEdgeStays

LEMMA AddLinkSetsEdge ==
    ASSUME Inv, AddLinkSets, NEW E, Respects(E), NEW c, NEW ty, NEW d
    PROVE  /\ InFrame(Top, E, c, ty, d) => Edge(E, c, ty, d)'
           /\ InGraph(E, c, ty, d) => Edge(E, c, ty, d)'
  <1>1. Running("addLink") /\ Top.op = "addLink" /\ stack # <<>>
    BY DEF AddLinkSets, Running
  <1>2. PICK n \in Node, o \in Nat : /\ n = Resolve(Top.at).node /\ o = LinkOffset(Top.at)
                                     /\ E[At(n, o)] = E[Top.at]
    BY <1>1, AddLinkCell, LinkPlace
  <1>3. PICK l : l = [off |-> o, ty |-> Top.ty, to |-> Top.to]
    OBVIOUS
  <1>4. PICK gone : /\ gone \subseteq links[n]
                    /\ links' = [links EXCEPT ![n] = (@ \ gone) \cup {l}]
                    /\ gone # {} => Continue(<<Links([node |-> n, off |-> 0], gone)>>)
    <2>1. PICK gone : gone = IF Top.ty = OmniType
                             THEN {k \in links[n] : k.off = o}
                             ELSE {}
      OBVIOUS
    <2>2. gone \subseteq links[n]
      BY <2>1
    <2>3. links' = [links EXCEPT ![n] = (@ \ gone) \cup {l}]
      BY <1>2, <1>3, <2>1 DEF AddLinkSets
    <2>4. Continue(IF gone = {} THEN <<>> ELSE <<Links([node |-> n, off |-> 0], gone)>>)
      BY <1>2, <2>1 DEF AddLinkSets
    <2> QED
      BY <2>2, <2>3, <2>4
  <1>5. links'[n] = (links[n] \ gone) \cup {l} /\ \A m \in Node \ {n} : links'[m] = links[m]
    BY <1>4 DEF Inv, TypeOK
  <1>6. ASSUME InFrame(Top, E, c, ty, d)
        PROVE  Edge(E, c, ty, d)'
    <2>1. Carries(E, Top.at, Top, c, ty, d)
      BY <1>1, <1>6 DEF InFrame
    <2>2. Carries(E, At(n, l.off), l, c, ty, d)
      BY <1>2, <1>3, <2>1 DEF Carries
    <2>3. l \in links'[n]
      BY <1>5
    <2> QED
      BY <2>2, <2>3 DEF Edge, InGraph, Carries
  <1>7. ASSUME InGraph(E, c, ty, d)
        PROVE  Edge(E, c, ty, d)'
    <2>1. PICK m \in Node : \E k \in links[m] : Carries(E, At(m, k.off), k, c, ty, d)
      BY <1>7 DEF InGraph
    <2>2. PICK k \in links[m] : Carries(E, At(m, k.off), k, c, ty, d)
      BY <2>1
    <2>3. CASE m = n /\ k \in gone
      <3>1. PICK x : x = Links([node |-> n, off |-> 0], gone)
        OBVIOUS
      <3>2. x.op = "links" /\ x.via = At(n, 0) /\ x.rest = gone
        BY <3>1 DEF Links, At
      <3>3. On(x, stack')
        BY <1>1, <1>4, <2>3, <3>1, CalledOne DEF Inv
      <3>4. Shifted(At(n, 0), k.off) = At(n, k.off)
        <4>1. k.off \in Nat
          BY DEF Inv, TypeOK, LinkIn
        <4>2. 0 + k.off = k.off
          BY <4>1
        <4> QED
          BY <4>2, AtShifted
      <3>5. InFrame(x, E, c, ty, d)
        BY <2>2, <2>3, <3>2, <3>4 DEF InFrame
      <3> QED
        BY <3>3, <3>5, FrameEdge
    <2>4. CASE ~(m = n /\ k \in gone)
      <3>1. k \in links'[m]
        BY <1>5, <2>4
      <3> QED
        BY <2>2, <3>1 DEF Edge, InGraph, Carries
    <2> QED
      BY <2>3, <2>4
  <1> QED
    BY <1>6, <1>7

LEMMA AbsorbMarksEdge ==
    ASSUME Inv, AbsorbMarks, NEW E, NEW c, NEW ty, NEW d, InGraph(E, c, ty, d)
    PROVE  Edge(E, c, ty, d)'
  <1>1. PICK n \in Node : n = Top.n
    BY AbsorbTop DEF AbsorbMarks, Running
  <1>2. /\ links' = [links EXCEPT ![n] = {}] /\ stack # <<>>
        /\ Continue(<<Links([node |-> n, off |-> 0], links[n])>>)
    BY <1>1 DEF AbsorbMarks, Running
  <1>3. PICK m \in Node : \E k \in links[m] : Carries(E, At(m, k.off), k, c, ty, d)
    BY DEF InGraph
  <1>4. PICK k \in links[m] : Carries(E, At(m, k.off), k, c, ty, d)
    BY <1>3
  <1>5. CASE m = n
    <2>1. PICK x : x = Links([node |-> n, off |-> 0], links[n])
      OBVIOUS
    <2>2. x.op = "links" /\ x.via = At(n, 0) /\ x.rest = links[n]
      BY <2>1 DEF Links, At
    <2>3. On(x, stack')
      BY <1>2, <2>1, CalledOne DEF Inv
    <2>4. Shifted(At(n, 0), k.off) = At(n, k.off)
      <3>1. k.off \in Nat
        BY DEF Inv, TypeOK, LinkIn
      <3>2. 0 + k.off = k.off
        BY <3>1
      <3> QED
        BY <3>2, AtShifted
    <2>5. InFrame(x, E, c, ty, d)
      BY <1>4, <1>5, <2>2, <2>4 DEF InFrame
    <2> QED
      BY <2>3, <2>5, FrameEdge
  <1>6. CASE m # n
    <2>1. k \in links'[m]
      BY <1>2, <1>6 DEF Inv, TypeOK
    <2> QED
      BY <1>4, <2>1 DEF Edge, InGraph, Carries
  <1> QED
    BY <1>5, <1>6

\* no step loses an edge
LEMMA NextEdge ==
    ASSUME Inv, Inv', [Next]_vars, NEW E, Foresees(E), Foresees(E)',
           NEW c, NEW ty, NEW d, Edge(E, c, ty, d)
    PROVE  Edge(E, c, ty, d)'
  <1>1. CASE UNCHANGED vars
    BY <1>1 DEF vars, graphVars, Edge, InGraph, InFrame, On, Carries
  <1>2. CASE Visit
    <2>1. UNCHANGED links /\ \A f : ~On(f, stack)
      BY <1>2, VisitTouches, VisitIdle, NoCalls
    <2> QED
      BY <2>1, GraphEdgeStays DEF Edge
  <1>3. CASE Step
    <2>1. stack # <<>> /\ \A f : On(f, stack) => f = Top \/ On(f, stack')
      BY <1>3, StepCalls
    <2>2. Respects(E) /\ \A f : On(f, stack') => Pledged(f, E)
      BY DEF Foresees, On, Pledged
    <2>3. InGraph(E, c, ty, d) => Edge(E, c, ty, d)'
      <3>1. UNCHANGED links \/ AbsorbMarks \/ AddLinkSets
        BY LinksChange
      <3> QED
        BY <2>2, <3>1, GraphEdgeStays, AbsorbMarksEdge, AddLinkSetsEdge
    <2>4. InFrame(Top, E, c, ty, d) => Edge(E, c, ty, d)'
      <3>1. CASE MoveLink \/ AddLinkUnifies \/ AddLinkSets
        BY <2>2, <3>1, MoveLinkEdge, AddLinkUnifiesEdge, AddLinkSetsEdge
      <3>2. CASE AllLinksMoved
        <4>1. ~InFrame(Top, E, c, ty, d)
          BY <3>2 DEF AllLinksMoved, Running, InFrame
        <4> QED
          BY <4>1
      <3>3. CASE \/ UnifyCells \/ UnifyAtCollapse \/ UnifyAtSwap \/ UnifyAtSelf
                 \/ UnifyAtMerge \/ CollapseDone \/ CollapseInPlace \/ CollapseFresh
                 \/ AbsorbTypes \/ AbsorbCollapses \/ AbsorbMarks
                 \/ AddAccessedType \/ AccessCollapses \/ AccessIgnored
                 \/ BindCell \/ BindLinkTarget \/ LoadFindsLink \/ LoadMakesLink
        <4>1. Top.op \notin {"links", "addLink"}
          BY <3>3 DEF UnifyCells, UnifyAtCollapse, UnifyAtSwap, UnifyAtSelf,
                      UnifyAtMerge, CollapseDone, CollapseInPlace, CollapseFresh,
                      AbsorbTypes, AbsorbCollapses, AbsorbMarks, AddAccessedType,
                      AccessCollapses, AccessIgnored, BindCell, BindLinkTarget,
                      LoadFindsLink, LoadMakesLink, Running
        <4> QED
          BY <4>1 DEF InFrame
      <3> QED
        BY <1>3, <3>1, <3>2, <3>3 DEF Step, GraphStep
    <2> QED
      BY <2>1, <2>3, <2>4, EdgeStays
  <1> QED
    BY <1>1, <1>2, <1>3 DEF Next

-----------------------------------------------------------------------------
(* Loads and stores.                                                        *)

\* the loads and stores a visit adds to the instructions
LEMMA VisitAddsLinked ==
    ASSUME Visit, NEW i \in prog' \ prog, i.op \in LinkedOp
    PROVE  \E v, p \in Value, ty \in FieldType :
              \/ VisitLoad(v, p, ty) /\ i = [op |-> "load", v |-> v, p |-> p, ty |-> ty]
              \/ VisitStore(v, p, ty) /\ i = [op |-> "store", v |-> v, p |-> p, ty |-> ty]
  <1>1. ASSUME NEW is, Visited(is), \A j \in is : j.op \notin LinkedOp
        PROVE  FALSE
    BY <1>1 DEF Visited
  <1>2. ASSUME NEW v \in Value, VisitAlloca(v) \/ VisitInstruction(v)
        PROVE  FALSE
    <2>1. PICK x, y : x = [op |-> "alloca", v |-> v] /\ y = [op |-> "call", v |-> v]
      OBVIOUS
    <2>2. Visited({x}) \/ Visited({y})
      BY <1>2, <2>1 DEF VisitAlloca, VisitInstruction
    <2>3. x.op \notin LinkedOp /\ y.op \notin LinkedOp
      BY <2>1 DEF LinkedOp
    <2> QED
      BY <1>1, <2>2, <2>3
  <1>3. ASSUME NEW v, NEW p, NEW k, NEW stride, VisitGep(v, p, k, stride)
        PROVE  FALSE
    <2>1. PICK x : x = [op |-> "gep", v |-> v, p |-> p, k |-> k, stride |-> stride]
      OBVIOUS
    <2>2. Visited({x})
      BY <1>3, <2>1 DEF VisitGep, GepInCollapsed, GepBack, GepBefore, GepIntoArray,
                        GepToField, IsGep
    <2>3. x.op \notin LinkedOp
      BY <2>1 DEF LinkedOp
    <2> QED
      BY <1>1, <2>2, <2>3
  <1>4. ASSUME NEW p, NEW x, NEW y,
               \/ VisitScalarAccess(p, x, y) \/ VisitPHINode(p, x)
               \/ VisitCollapse(p) \/ VisitMakeSeq(p, x)
        PROVE  FALSE
    <2>1. PICK a, b, c, d :
             /\ a = [op |-> "touch", p |-> p, mark |-> y, width |-> x]
             /\ b = [op |-> "same", v |-> p, p |-> x]
             /\ c = [op |-> "collapse", p |-> p]
             /\ d = [op |-> "mk_seq", p |-> p]
      OBVIOUS
    <2>2. Visited({a}) \/ Visited({b}) \/ Visited({c}) \/ Visited({d})
      BY <1>4, <2>1 DEF VisitScalarAccess, VisitPHINode, VisitCollapse, VisitMakeSeq
    <2>3. \A j \in {a, b, c, d} : j.op \notin LinkedOp
      BY <2>1 DEF LinkedOp
    <2> QED
      BY <1>1, <2>2, <2>3
  <1>5. ASSUME NEW v, NEW p, NEW q, VisitSelect(v, p, q)
        PROVE  FALSE
    <2>1. PICK x, y : /\ x = [op |-> "same", v |-> v, p |-> p]
                      /\ y = [op |-> "same", v |-> p, p |-> q]
      OBVIOUS
    <2>2. Visited({x, y}) /\ x.op \notin LinkedOp /\ y.op \notin LinkedOp
      BY <1>5, <2>1 DEF VisitSelect, LinkedOp
    <2> QED
      BY <1>1, <2>2
  <1>6. PICK v \in Value, p \in Value, ty \in FieldType :
           VisitLoad(v, p, ty) \/ VisitStore(v, p, ty)
    BY <1>2, <1>3, <1>4, <1>5 DEF Visit
  <1>7. PICK x, y : /\ x = [op |-> "load", v |-> v, p |-> p, ty |-> ty]
                    /\ y = [op |-> "store", v |-> v, p |-> p, ty |-> ty]
    OBVIOUS
  <1>8. \/ VisitLoad(v, p, ty) /\ Visited({x})
        \/ VisitStore(v, p, ty) /\ Visited({y})
    BY <1>6, <1>7 DEF VisitLoad, VisitStore
  <1>9. \/ VisitLoad(v, p, ty) /\ i = x
        \/ VisitStore(v, p, ty) /\ i = y
    BY <1>8 DEF Visited
  <1> QED
    BY <1>7, <1>9

\* while a load is pending its result is bound by the lookup of the link only
LEMMA LoadBinds ==
    ASSUME Inv, ClientsLast, Step, NEW i, i.v \in Value, ~Bound(i.v), LoadComes(i)
    PROVE  \/ UNCHANGED cell
           \/ /\ BindLinkTarget
              /\ Top.v = i.v /\ Top.at = cell[i.p] /\ Top.ty = i.ty
  <1>1. CASE BindCell \/ BindLinkTarget
    <2>1. stack # <<>> /\ Top.op \in {"bind", "bindLink"} /\ Top.op \in ClientOp
      BY <1>1 DEF BindCell, BindLinkTarget, Running, ClientOp
    <2>2. Len(stack) = 1
      BY <2>1, ClientOnTop DEF Inv
    <2>3. \A f : On(f, stack) => f = Top
      <3>1. \A j \in 1 .. Len(stack) : stack[j] = Top
        BY <2>2 DEF Top
      <3> QED
        BY <3>1 DEF On
    <2>4. Top.op \in {"load", "bindLink"} /\ Top.v = i.v /\ Top.at = cell[i.p] /\ Top.ty = i.ty
      BY <2>3 DEF LoadComes
    <2>5. BindLinkTarget
      BY <1>1, <2>4 DEF BindCell, Running
    <2> QED
      BY <2>4, <2>5
  <1>2. CASE ~BindCell /\ ~BindLinkTarget
    BY <1>2 DEF Step, GraphStep, UnifyCells,
                UnifyAtCollapse, UnifyAtSwap, UnifyAtSelf, UnifyAtMerge,
                CollapseDone, CollapseInPlace, CollapseFresh, AbsorbTypes,
                AbsorbCollapses, AbsorbMarks, MoveLink, AllLinksMoved,
                AddLinkUnifies, AddLinkSets, AddAccessedType, AccessCollapses,
                AccessIgnored, LoadFindsLink, LoadMakesLink
  <1> QED
    BY <1>1, <1>2

\* a pending load stays pending until its result is bound
LEMMA LoadStaysPending ==
    ASSUME Inv, ClientsLast, Step, NEW i, i.v \in Value, i.p \in Value, Bound(i.p),
           ~Bound(i.v), LoadComes(i)
    PROVE  Bound(i.v)' \/ LoadComes(i)'
  <1>1. PICK f : /\ On(f, stack) /\ f.op \in {"load", "bindLink"}
                 /\ f.v = i.v /\ f.at = cell[i.p] /\ f.ty = i.ty
    BY DEF LoadComes
  <1>2. cell'[i.p] = cell[i.p]
    BY CellsStay DEF Next
  <1>3. stack # <<>> /\ (f = Top \/ On(f, stack'))
    BY <1>1, StepCalls
  <1>4. CASE On(f, stack')
    BY <1>1, <1>2, <1>4 DEF LoadComes, On
  <1>5. CASE f = Top
    <2>1. LoadFindsLink \/ LoadMakesLink \/ BindLinkTarget
      BY <1>1, <1>5
         DEF Step, GraphStep, UnifyCells,
             UnifyAtCollapse, UnifyAtSwap, UnifyAtSelf, UnifyAtMerge,
             CollapseDone, CollapseInPlace, CollapseFresh, AbsorbTypes,
             AbsorbCollapses, AbsorbMarks, MoveLink, AllLinksMoved,
             AddLinkUnifies, AddLinkSets, AddAccessedType, AccessCollapses,
             AccessIgnored, BindCell, Running
    <2>2. CASE LoadFindsLink \/ LoadMakesLink
      <3>1. PICK x : x = BindLink(Top.v, Top.at, Top.ty)
        OBVIOUS
      <3>2. On(x, stack')
        <4>1. Continue(<<x>>) \/ \E y : Continue(<<y, x>>)
          BY <2>2, <3>1 DEF LoadFindsLink, LoadMakesLink
        <4> QED
          BY <1>3, <4>1, CalledOne, CalledTwo DEF Inv
      <3>3. x.op = "bindLink" /\ x.v = Top.v /\ x.at = Top.at /\ x.ty = Top.ty
        BY <3>1 DEF BindLink
      <3> QED
        BY <1>1, <1>2, <1>5, <3>2, <3>3 DEF LoadComes, On
    <2>3. CASE BindLinkTarget
      <3>1. PICK at \in CellIn(Node) : at = Top.at
        <4>1. Top \in FrameIn(nodes) /\ Top.op = "bindLink"
          BY <1>3, <2>3, TopFrame DEF BindLinkTarget, Running, Inv
        <4> QED
          BY <4>1, FramesRead, FramesGrow DEF Inv, TypeOK
      <3>2. PICK n \in Node : n = Resolve(at).node
        BY <3>1, PlaceOf
      <3>3. PICK l \in FoundLink(n, LinkOffset(at), Top.ty) : MkCell(i.v, Resolve(l.to))
        BY <1>1, <1>5, <2>3, <3>1, <3>2 DEF BindLinkTarget
      <3>4. l.to \in CellIn(nodes)
        BY <3>3, FoundLinkType DEF Inv
      <3>5. Resolve(l.to).node \in Node /\ cell'[i.v] = Resolve(l.to)
        BY <3>3, <3>4, ResolvedType DEF Inv, MkCell, TypeOK
      <3>6. Resolve(l.to).node # 0
        BY <3>5, MaxNodesAssumption DEF Node
      <3>7. Bound(i.v)'
        BY <3>5, <3>6 DEF Bound, NoCell
      <3> QED
        BY <3>7
    <2> QED
      BY <2>1, <2>2, <2>3
  <1> QED
    BY <1>3, <1>4, <1>5

LEMMA NextPending ==
    ASSUME Inv, ClientsLast, LoadsPending, [Next]_vars
    PROVE  LoadsPending'
  <1> SUFFICES ASSUME NEW i \in prog', i.op \in LinkedOp
               PROVE  /\ i.v \in Value /\ i.p \in Value /\ i.ty \in FieldType
                      /\ Bound(i.p)'
                      /\ Bound(i.v)' \/ LoadComes(i)'
    BY DEF LoadsPending, Bound, LoadComes, On
  <1>1. CASE i \in prog
    <2>1. /\ i.v \in Value /\ i.p \in Value /\ i.ty \in FieldType
          /\ Bound(i.p) /\ (Bound(i.v) \/ LoadComes(i))
      BY <1>1 DEF LoadsPending
    <2>2. Bound(i.p)' /\ (Bound(i.v) => Bound(i.v)')
      BY <2>1, CellsStay
    <2>3. ASSUME ~Bound(i.v)
          PROVE  Bound(i.v)' \/ LoadComes(i)'
      <3>1. CASE UNCHANGED vars
        BY <2>1, <2>3, <3>1 DEF vars, graphVars, LoadComes, On
      <3>2. CASE Visit
        <4>1. \A f : ~On(f, stack)
          BY <3>2, VisitIdle, NoCalls
        <4> QED
          BY <2>1, <2>3, <4>1 DEF LoadComes
      <3>3. CASE Step
        BY <2>1, <2>3, <3>3, LoadStaysPending
      <3> QED
        BY <3>1, <3>2, <3>3 DEF Next
    <2> QED
      BY <2>1, <2>2, <2>3
  <1>2. CASE i \notin prog
    <2>1. Visit
      BY <1>2, StepsVisitNothing
    <2>2. PICK v \in Value, p \in Value, ty \in FieldType :
              \/ VisitLoad(v, p, ty) /\ i = [op |-> "load", v |-> v, p |-> p, ty |-> ty]
              \/ VisitStore(v, p, ty) /\ i = [op |-> "store", v |-> v, p |-> p, ty |-> ty]
      BY <1>2, <2>1, VisitAddsLinked
    <2>3. i.v = v /\ i.p = p /\ i.ty = ty
      BY <2>2
    <2>4. UNCHANGED cell /\ Bound(p)
      BY <2>2 DEF VisitLoad, VisitStore
    <2>5. CASE VisitStore(v, p, ty)
      BY <2>3, <2>4, <2>5 DEF VisitStore, Bound
    <2>6. CASE VisitLoad(v, p, ty)
      <3>1. PICK x, y : x = Access(cell[p], PtrWidth) /\ y = Load(v, cell[p], ty)
        OBVIOUS
      <3>2. stack' = <<x, y>>
        BY <2>6, <3>1 DEF VisitLoad, Call
      <3>3. On(y, stack')
        BY <3>2 DEF On
      <3>4. y.op = "load" /\ y.v = v /\ y.at = cell[p] /\ y.ty = ty
        BY <3>1 DEF Load
      <3>5. LoadComes(i)'
        BY <2>3, <2>4, <3>3, <3>4 DEF LoadComes, On
      <3> QED
        BY <2>3, <2>4, <3>5 DEF Bound
    <2> QED
      BY <2>2, <2>5, <2>6
  <1> QED
    BY <1>1, <1>2

\* the link that a load finds is the edge it asked for
LEMMA LoadEdge ==
    ASSUME Inv, BindLinkTarget, NEW E, Respects(E), NEW v \in Value, v = Top.v,
           NEW c, c = Top.at, NEW ty, ty = Top.ty
    PROVE  Edge(E, c, ty, cell[v])'
  <1>1. stack # <<>> /\ Top \in FrameIn(nodes) /\ Top.op = "bindLink" /\ UNCHANGED links
    BY TopFrame DEF BindLinkTarget, Running, Inv
  <1>2. c \in CellIn(Node)
    BY <1>1, FramesRead, FramesGrow DEF Inv, TypeOK
  <1>3. PICK n \in Node, o \in Nat : /\ n = Resolve(c).node /\ o = LinkOffset(c)
                                     /\ E[At(n, o)] = E[c]
    BY <1>2, LinkPlace
  <1>4. PICK l \in FoundLink(n, o, ty) : MkCell(v, Resolve(l.to))
    BY <1>3 DEF BindLinkTarget
  <1>5. l \in links[n] /\ l.off = o /\ l.ty \in {ty, OmniType}
    BY DEF FoundLink, LinkAt
  <1>6. l.to \in CellIn(Node)
    BY <1>4, FoundLinkType, FramesGrow DEF Inv, TypeOK
  <1>7. PICK d \in CellIn(Node) : d = Resolve(l.to) /\ SameCell(l.to, d)
    BY <1>6, ResolvesTo
  <1>8. cell'[v] = d
    BY <1>4, <1>7 DEF MkCell, Inv, TypeOK
  <1>9. E[l.to] = E[d]
    BY <1>6, <1>7 DEF Respects
  <1>10. Carries(E, At(n, l.off), l, c, ty, d)
    BY <1>3, <1>5, <1>9 DEF Carries
  <1>11. l \in links'[n]
    BY <1>1, <1>5
  <1> QED
    BY <1>8, <1>10, <1>11 DEF Edge, InGraph, Carries

\* a store sets out with its edge in hand
LEMMA StoreEdge ==
    ASSUME NEW v, NEW p, NEW ty, VisitStore(v, p, ty), NEW E
    PROVE  Edge(E, cell[p], ty, cell[v])'
  <1>1. PICK x, y : x = Access(cell[p], PtrWidth) /\ y = AddLink(cell[p], ty, cell[v])
    OBVIOUS
  <1>2. stack' = <<x, y>> /\ UNCHANGED cell
    BY <1>1 DEF VisitStore, Call
  <1>3. On(y, stack')
    BY <1>2 DEF On
  <1>4. y.op = "addLink" /\ y.at = cell[p] /\ y.ty = ty /\ y.to = cell[v]
    BY <1>1 DEF AddLink
  <1>5. PICK c, d : c = cell[p] /\ d = cell[v]
    OBVIOUS
  <1>6. InFrame(y, E, c, ty, d)
    BY <1>4, <1>5 DEF InFrame, Carries
  <1>7. Edge(E, c, ty, d)'
    BY <1>3, <1>6, FrameEdge
  <1> QED
    BY <1>2, <1>5, <1>7 DEF Edge, InGraph, InFrame, On, Carries

LEMMA NextLinks ==
    ASSUME KeptInv, Inv', LoadsPending, LinksForeseen, [Next]_vars
    PROVE  LinksForeseen'
  <1>0. Inv /\ ClientsLast /\ PlacesSound
    BY DEF KeptInv
  <1> SUFFICES ASSUME NEW E \in CellMap, Foresees(E)',
                      NEW i \in prog', i.op \in LinkedOp, Bound(i.v)'
               PROVE  Edge(E, cell[i.p], i.ty, cell[i.v])'
    BY DEF LinksForeseen, CellMap, Foresees, Respects, MovesAlong, Pledged, Bound,
           On, SameCell, Address, Resolve, Numeric, IsCollapsed, IsArray
  <1>1. Respects(E)' /\ MovesAlong(E) /\ (\A f : On(f, stack') => Pledged(f, E))
    BY DEF Foresees, MovesAlong, Pledged, On
  <1>2. Respects(E)
    BY <1>0, <1>1, StillRespects
  <1>3. Foresees(E)
    <2>1. CASE Visit
      <3>1. \A f : ~On(f, stack)
        BY <2>1, VisitIdle, NoCalls
      <3> QED
        BY <1>1, <1>2, <3>1 DEF Foresees
    <2> QED
      BY <1>0, <2>1, Foreseen
  <1>4. CASE i \in prog
    <2>1. /\ i.v \in Value /\ i.p \in Value /\ i.ty \in FieldType
          /\ Bound(i.p) /\ (Bound(i.v) \/ LoadComes(i))
      BY <1>4 DEF LoadsPending
    <2>2. PICK c : c = cell[i.p] /\ cell'[i.p] = c
      BY <1>0, <2>1, CellsStay
    <2>3. PICK d : d = cell'[i.v]
      OBVIOUS
    <2>4. Edge(E, c, i.ty, d)'
      <3>1. CASE Bound(i.v)
        <4>1. d = cell[i.v]
          BY <1>0, <2>1, <2>3, <3>1, CellsStay
        <4>2. Edge(E, c, i.ty, d)
          BY <1>3, <1>4, <2>2, <3>1, <4>1 DEF LinksForeseen
        <4> QED
          BY <1>0, <1>3, <4>2, NextEdge
      <3>2. CASE ~Bound(i.v)
        <4>1. LoadComes(i) /\ ~(UNCHANGED cell)
          BY <2>1, <3>2 DEF Bound
        <4>2. Step
          <5>1. CASE UNCHANGED vars
            BY <4>1, <5>1 DEF vars, graphVars
          <5>2. CASE Visit
            <6>1. \A f : ~On(f, stack)
              BY <5>2, VisitIdle, NoCalls
            <6> QED
              BY <4>1, <6>1 DEF LoadComes
          <5> QED
            BY <5>1, <5>2 DEF Next
        <4>3. BindLinkTarget /\ Top.v = i.v /\ Top.at = c /\ Top.ty = i.ty
          BY <1>0, <2>1, <2>2, <3>2, <4>1, <4>2, LoadBinds
        <4>4. PICK v, ty : v \in Value /\ v = i.v /\ ty = i.ty
          BY <2>1
        <4>5. Edge(E, c, ty, cell[v])'
          BY <1>0, <1>2, <4>3, <4>4, LoadEdge
        <4> QED
          BY <2>3, <4>4, <4>5 DEF Edge, InGraph, InFrame, On, Carries
      <3> QED
        BY <3>1, <3>2
    <2> QED
      BY <2>2, <2>3, <2>4 DEF Edge, InGraph, InFrame, On, Carries
  <1>5. CASE i \notin prog
    <2>1. Visit
      BY <1>5, StepsVisitNothing
    <2>2. PICK v \in Value, p \in Value, ty \in FieldType :
              \/ VisitLoad(v, p, ty) /\ i = [op |-> "load", v |-> v, p |-> p, ty |-> ty]
              \/ VisitStore(v, p, ty) /\ i = [op |-> "store", v |-> v, p |-> p, ty |-> ty]
      BY <1>5, <2>1, VisitAddsLinked
    <2>3. i.v = v /\ i.p = p /\ i.ty = ty
      BY <2>2
    <2>4. ~VisitLoad(v, p, ty)
      BY <2>3 DEF VisitLoad, Defines, Bound
    <2>5. Edge(E, cell[p], ty, cell[v])'
      BY <2>2, <2>4, StoreEdge
    <2> QED
      BY <2>3, <2>5 DEF Edge, InGraph, InFrame, On, Carries
  <1> QED
    BY <1>4, <1>5

-----------------------------------------------------------------------------
(* The links of nodes that forward.                                         *)

\* a step after which no node forwards that did not, or only with the call that
\* takes its links along
LEMMA RootLinksStay ==
    ASSUME Inv, LinksAtRoots, Step,
           \A n \in Node : links'[n] # {} =>
               links[n] # {} \/ ~IsForwarding(n)',
           \A n \in Node : IsForwarding(n)' /\ links'[n] # {} =>
               \/ IsForwarding(n)
               \/ \E f : On(f, stack') /\ f.op \in {"absorb", "annotate"} /\ f.n = n,
           ASSUME NEW n, Top.op \in {"absorb", "annotate"}, Top.n = n, links'[n] # {}
           PROVE  \E f : On(f, stack') /\ f.op \in {"absorb", "annotate"} /\ f.n = n
    PROVE  LinksAtRoots'
  <1> SUFFICES ASSUME NEW n \in Node, links'[n] # {}, IsForwarding(n)'
               PROVE  \E f : On(f, stack') /\ f.op \in {"absorb", "annotate"} /\ f.n = n
    BY DEF LinksAtRoots, LinksComeAlong, On
  <1>1. CASE links[n] # {} /\ IsForwarding(n)
    <2>1. PICK f : On(f, stack) /\ f.op \in {"absorb", "annotate"} /\ f.n = n
      BY <1>1 DEF LinksAtRoots, LinksComeAlong
    <2>2. f = Top \/ On(f, stack')
      BY <2>1, StepCalls
    <2> QED
      BY <2>1, <2>2
  <1>2. CASE ~(links[n] # {} /\ IsForwarding(n))
    BY <1>2
  <1> QED
    BY <1>1, <1>2

\* a merge takes the links of its node along
LEMMA ForwardingLinks ==
    ASSUME Inv, LinksAtRoots, Step, UnifyAtMerge \/ CollapseFresh
    PROVE  LinksAtRoots'
  <1>1. stack # <<>> /\ UNCHANGED links
    BY DEF UnifyAtMerge, CollapseFresh, Running
  <1>2. Top.op \notin {"absorb", "annotate"}
    BY DEF UnifyAtMerge, CollapseFresh, Running
  <1>3. PICK m, n, o : fwd' = Forwarded(m, n, o) /\ Continue(<<Absorb(m, n, o)>>)
    BY DEF UnifyAtMerge, CollapseFresh
  <1>4. PICK x : x = Absorb(m, n, o)
    OBVIOUS
  <1>5. On(x, stack') /\ x.op = "absorb" /\ x.n = m
    BY <1>1, <1>3, <1>4, CalledOne DEF Inv, Absorb
  <1>6. \A k \in Node : IsForwarding(k)' => IsForwarding(k) \/ k = m
    <2> SUFFICES ASSUME NEW k \in Node, ~IsForwarding(k), k # m
                 PROVE  ~IsForwarding(k)'
      OBVIOUS
    <2>1. fwd[k].node = k
      BY DEF IsForwarding, Root
    <2>2. fwd'[k] = fwd[k]
      BY <1>3, <2>1 DEF Forwarded
    <2> QED
      BY <2>1, <2>2 DEF IsForwarding, Root
  <1> QED
    BY <1>1, <1>2, <1>5, <1>6, RootLinksStay

LEMMA AddLinkSetsRoot ==
    ASSUME Inv, LinksAtRoots, Step, AddLinkSets
    PROVE  LinksAtRoots'
  <1>1. Running("addLink") /\ UNCHANGED fwd
    BY DEF AddLinkSets
  <1>2. PICK n \in Node : n = Resolve(Top.at).node /\ Root(n) = n
    BY <1>1, AddLinkCell, PlaceOf
  <1>3. \A k \in Node \ {n} : links'[k] = links[k]
    BY <1>2 DEF AddLinkSets, Inv, TypeOK
  <1>4. ~IsForwarding(n)'
    BY <1>1, <1>2 DEF IsForwarding, Root
  <1>5. \A k \in Node : IsForwarding(k)' => IsForwarding(k)
    BY <1>1 DEF IsForwarding, Root
  <1>6. Top.op \notin {"absorb", "annotate"}
    BY <1>1 DEF Running
  <1> QED
    BY <1>1, <1>3, <1>4, <1>5, <1>6, RootLinksStay

LEMMA AbsorbRoots ==
    ASSUME Inv, LinksAtRoots, Step, AbsorbTypes \/ AbsorbCollapses \/ AbsorbMarks
    PROVE  LinksAtRoots'
  <1>1. stack # <<>> /\ UNCHANGED fwd /\ Top.op \in {"absorb", "annotate"}
    BY DEF AbsorbTypes, AbsorbCollapses, AbsorbMarks, Running, nodeVars
  <1>2. PICK n \in Node : n = Top.n
    BY <1>1, AbsorbTop
  <1>3. \A k \in Node : IsForwarding(k)' => IsForwarding(k)
    BY <1>1 DEF IsForwarding, Root
  <1>4. CASE AbsorbMarks
    <2>1. links' = [links EXCEPT ![n] = {}]
      BY <1>2, <1>4 DEF AbsorbMarks
    <2>2. links'[n] = {} /\ \A k \in Node \ {n} : links'[k] = links[k]
      BY <2>1 DEF Inv, TypeOK
    <2> QED
      BY <1>1, <1>2, <1>3, <2>2, RootLinksStay
  <1>5. CASE AbsorbTypes \/ AbsorbCollapses
    <2>1. UNCHANGED links
      BY <1>5 DEF AbsorbTypes, AbsorbCollapses, nodeVars
    <2>2. PICK x : x = Annotate(Top.n, Top.m, Top.o)
      OBVIOUS
    <2>3. Continue(<<x>>) \/ \E y : Continue(<<y, x>>)
      BY <1>5, <2>2 DEF AbsorbTypes, AbsorbCollapses
    <2>4. On(x, stack') /\ x.op = "annotate" /\ x.n = n
      BY <1>1, <1>2, <2>2, <2>3, CalledOne, CalledTwo DEF Inv, Annotate
    <2> QED
      BY <1>1, <1>2, <1>3, <2>1, <2>4, RootLinksStay
  <1> QED
    BY <1>4, <1>5

LEMMA NextRoots ==
    ASSUME Inv, LinksAtRoots, [Next]_vars
    PROVE  LinksAtRoots'
  <1>1. CASE UNCHANGED vars
    BY <1>1 DEF vars, graphVars, LinksAtRoots, LinksComeAlong, On, IsForwarding, Root
  <1>2. CASE Visit
    <2>1. UNCHANGED <<fwd, links>> /\ \A f : ~On(f, stack)
      BY <1>2, VisitTouches, VisitIdle, NoCalls
    <2>2. \A n \in Node : links[n] = {} \/ ~IsForwarding(n)
      BY <2>1 DEF LinksAtRoots, LinksComeAlong
    <2> QED
      BY <2>1, <2>2 DEF LinksAtRoots, LinksComeAlong, IsForwarding, Root
  <1>3. ASSUME Step, UNCHANGED <<fwd, links>>, Top.op \notin {"absorb", "annotate"}
        PROVE  LinksAtRoots'
    <2>1. \A k \in Node : IsForwarding(k)' => IsForwarding(k)
      BY <1>3 DEF IsForwarding, Root
    <2> QED
      BY <1>3, <2>1, RootLinksStay
  <1>4. CASE Step /\ CallingStep /\ ~AbsorbCollapses
    <2>1. UNCHANGED <<fwd, links>>
      BY <1>4, CallingTouches
    <2>2. Top.op \notin {"absorb", "annotate"}
      BY <1>4 DEF CallingStep, UnifyCells, UnifyAtCollapse, UnifyAtSwap, UnifyAtSelf,
                  CollapseDone, MoveLink, AllLinksMoved, AddLinkUnifies,
                  AccessCollapses, AccessIgnored, BindCell, BindLinkTarget, Running
    <2> QED
      BY <1>3, <1>4, <2>1, <2>2
  <1>5. CASE /\ Step
             /\ \/ CollapseInPlace \/ AddAccessedType
                \/ LoadFindsLink \/ LoadMakesLink
    <2>1. UNCHANGED <<fwd, links>> /\ Top.op \notin {"absorb", "annotate"}
      BY <1>5 DEF CollapseInPlace, AddAccessedType, LoadFindsLink, LoadMakesLink,
                  Running
    <2> QED
      BY <1>3, <1>5, <2>1
  <1> QED
    BY <1>1, <1>2, <1>4, <1>5, ForwardingLinks, AddLinkSetsRoot, AbsorbRoots
       DEF Next, Step, GraphStep, CallingStep

-----------------------------------------------------------------------------
\* Whatever was stored through a pointer, or loaded through it, is found there once
\* the operation has returned: no merging, collapse or move of links loses or
\* splits a points-to edge (Node::pointTo, Node::addLink).
THEOREM LinksStay == Spec => []LinksKept
  <1> DEFINE I == KeptInv /\ LoadsPending /\ LinksForeseen /\ LinksAtRoots
  <1>1. Init => I
    <2> SUFFICES ASSUME Init PROVE I
      OBVIOUS
    <2>1. KeptInv
      BY InitKept
    <2>2. prog = {} /\ \A n \in Node : links[n] = {}
      BY DEF Init, GraphInit
    <2> QED
      BY <2>1, <2>2 DEF LoadsPending, LinksForeseen, LinksAtRoots, LinksComeAlong
  <1>2. I /\ [Next]_vars => I'
    <2>1. KeptInv => Inv /\ ClientsLast
      BY DEF KeptInv
    <2>2. KeptInv' => Inv'
      BY DEF KeptInv
    <2> QED
      BY <2>1, <2>2, NextKept, NextPending, NextLinks, NextRoots
  <1>3. I /\ OneLinkPerField /\ LinksInBounds => LinksKept
    <2> SUFFICES ASSUME I, OneLinkPerField, LinksInBounds, Idle,
                        NEW i \in prog, i.op \in LinkedOp
                 PROVE  \E l \in Linked(i.p, i.ty) : SameCell(l.to, cell[i.v])
      BY DEF LinksKept, LinkedOp
    <2>1. \A f : ~On(f, stack)
      BY NoCalls
    <2>2. /\ i.v \in Value /\ i.p \in Value /\ i.ty \in FieldType
          /\ Bound(i.p) /\ Bound(i.v)
      BY <2>1 DEF LoadsPending, LoadComes
    <2>3. PICK E : E = [c \in CellIn(Node) |-> Address(c)]
      OBVIOUS
    <2>4. E \in CellMap /\ Foresees(E)
      BY <2>3, AddressForesees DEF KeptInv
    <2>5. Inv
      BY DEF KeptInv
    <2>6. PICK c \in CellIn(Node), d \in CellIn(Node) : c = cell[i.p] /\ d = cell[i.v]
      <3>1. cell[i.p] \in CellIn(nodes) /\ cell[i.v] \in CellIn(nodes)
        BY <2>2, <2>5, BoundType DEF Inv
      <3>2. CellIn(nodes) \subseteq CellIn(Node)
        BY <2>5, FramesGrow DEF Inv, TypeOK
      <3> QED
        BY <3>1, <3>2
    <2>7. Edge(E, c, i.ty, d)
      BY <2>2, <2>4, <2>6 DEF LinksForeseen
    <2>8. PICK n \in Node : \E l \in links[n] : Carries(E, At(n, l.off), l, c, i.ty, d)
      BY <2>1, <2>7 DEF Edge, InGraph
    <2>9. PICK l \in links[n] : Carries(E, At(n, l.off), l, c, i.ty, d)
      BY <2>8
    <2>10. l.off \in Nat /\ l.to \in CellIn(Node) /\ l.ty \in {i.ty, OmniType}
      <3>1. l \in LinkIn(nodes)
        BY <2>5 DEF Inv, TypeOK
      <3>2. l.off \in Nat /\ l.to \in CellIn(nodes)
        BY <3>1 DEF LinkIn
      <3>3. CellIn(nodes) \subseteq CellIn(Node)
        BY <2>5, FramesGrow DEF Inv, TypeOK
      <3> QED
        BY <2>9, <3>2, <3>3 DEF Carries
    <2>11. Root(n) = n
      BY <2>1, <2>9 DEF LinksAtRoots, LinksComeAlong, IsForwarding
    <2>12. Address(At(n, l.off)) = At(n, l.off)
      BY <2>5, <2>9, <2>10, <2>11, RootReads DEF LinksInBounds
    <2>13. Address(c) = At(n, l.off) /\ SameCell(l.to, d)
      <3>1. \A e \in CellIn(Node) : E[e] = Address(e)
        BY <2>3
      <3> QED
        BY <2>9, <2>10, <2>12, <3>1, AtType DEF Carries, SameCell
    <2>14. l \in FoundLink(n, l.off, i.ty)
      <3>1. CASE l.ty = i.ty
        BY <3>1 DEF FoundLink, LinkAt
      <3>2. CASE l.ty # i.ty
        <4>1. l.ty = OmniType
          BY <2>10, <3>2
        <4>2. LinkAt(n, l.off, i.ty) = {}
          BY <3>2, <4>1 DEF LinkAt, OneLinkPerField
        <4> QED
          BY <4>1, <4>2 DEF FoundLink, LinkAt
      <3> QED
        BY <3>1, <3>2
    <2>15. l \in Linked(i.p, i.ty)
      BY <2>6, <2>13, <2>14 DEF Linked, At
    <2> QED
      BY <2>6, <2>13, <2>15
  <1> QED
    BY <1>1, <1>2, <1>3, LinksStayUnique, LinksStayInBounds, PTL DEF Spec
=============================================================================
