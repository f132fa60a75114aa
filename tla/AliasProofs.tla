----------------------------- MODULE AliasProofs -----------------------------
(***************************************************************************)
(* The alias analysis is sound, proved: two accesses that may meet are     *)
(* never said to be apart.                                                 *)
(*                                                                         *)
(* Three things have to be known of a graph with nothing pending.  What an *)
(* instruction computes from another pointer lies at its distance from it, *)
(* in one node, up to the size of an array; pointers that a PHI or a       *)
(* select makes one have one cell; and the type that an access was made    *)
(* with is found where its cell is now, unless the node has collapsed.  As *)
(* in DsaKeptProofs the invariants speak of them up to what pending calls  *)
(* are going to do.                                                        *)
(***************************************************************************)
EXTENDS DsaKeptProofs, AliasAnalysis, Induction

\* what a visit other than that of a GEP or an allocation adds
LEMMA VisitAddsOther ==
    ASSUME Visit, NEW i \in prog' \ prog, i.op \in {"same", "touch", "load", "store"}
    PROVE  \/ \E v, p, q \in Value :
                 /\ VisitSelect(v, p, q)
                 /\ i \in {[op |-> "same", v |-> v, p |-> p],
                           [op |-> "same", v |-> p, p |-> q]}
           \/ \E v, p \in Value :
                 VisitPHINode(v, p) /\ i = [op |-> "same", v |-> v, p |-> p]
           \/ \E p \in Value, width \in ScalarWidth, mark \in {"read", "modified"} :
                 /\ VisitScalarAccess(p, width, mark)
                 /\ i = [op |-> "touch", p |-> p, mark |-> mark, width |-> width]
           \/ i.op \in LinkedOp
  <1>1. ASSUME NEW x, Visited({x})
        PROVE  i = x
    BY <1>1 DEF Visited
  <1>2. ASSUME NEW v, VisitAlloca(v) \/ VisitInstruction(v)
        PROVE  FALSE
    <2>1. PICK x, y : x = [op |-> "alloca", v |-> v] /\ y = [op |-> "call", v |-> v]
      OBVIOUS
    <2>2. Visited({x}) \/ Visited({y})
      BY <1>2, <2>1 DEF VisitAlloca, VisitInstruction
    <2>3. i.op \in {"alloca", "call"}
      BY <1>1, <2>1, <2>2
    <2> QED
      BY <2>3
  <1>3. ASSUME NEW v, NEW p, NEW k, NEW stride, VisitGep(v, p, k, stride)
        PROVE  FALSE
    <2>1. PICK x : x = [op |-> "gep", v |-> v, p |-> p, k |-> k, stride |-> stride]
      OBVIOUS
    <2>2. Visited({x})
      BY <1>3, <2>1 DEF VisitGep, GepInCollapsed, GepBack, GepBefore, GepIntoArray,
                        GepToField, IsGep
    <2>3. i.op = "gep"
      BY <1>1, <2>1, <2>2
    <2> QED
      BY <2>3
  <1>4. ASSUME NEW v, NEW p, NEW ty, VisitLoad(v, p, ty) \/ VisitStore(v, p, ty)
        PROVE  i.op \in LinkedOp
    <2>1. PICK x, y : /\ x = [op |-> "load", v |-> v, p |-> p, ty |-> ty]
                      /\ y = [op |-> "store", v |-> v, p |-> p, ty |-> ty]
      OBVIOUS
    <2>2. Visited({x}) \/ Visited({y})
      BY <1>4, <2>1 DEF VisitLoad, VisitStore
    <2> QED
      BY <1>1, <2>1, <2>2 DEF LinkedOp
  <1>5. ASSUME NEW p, NEW sz, VisitCollapse(p) \/ VisitMakeSeq(p, sz)
        PROVE  FALSE
    <2>1. PICK x, y : x = [op |-> "collapse", p |-> p] /\ y = [op |-> "mk_seq", p |-> p]
      OBVIOUS
    <2>2. Visited({x}) \/ Visited({y})
      BY <1>5, <2>1 DEF VisitCollapse, VisitMakeSeq
    <2>3. i.op \in {"collapse", "mk_seq"}
      BY <1>1, <2>1, <2>2
    <2> QED
      BY <2>3
  <1>6. ASSUME NEW p, NEW width, NEW mark, VisitScalarAccess(p, width, mark)
        PROVE  i = [op |-> "touch", p |-> p, mark |-> mark, width |-> width]
    BY <1>1, <1>6 DEF VisitScalarAccess
  <1>7. ASSUME NEW v, NEW p, VisitPHINode(v, p)
        PROVE  i = [op |-> "same", v |-> v, p |-> p]
    BY <1>1, <1>7 DEF VisitPHINode
  <1>8. ASSUME NEW v, NEW p, NEW q, VisitSelect(v, p, q)
        PROVE  i \in {[op |-> "same", v |-> v, p |-> p],
                      [op |-> "same", v |-> p, p |-> q]}
    BY <1>8 DEF VisitSelect, Visited
  <1> QED
    BY <1>2, <1>3, <1>4, <1>5, <1>6, <1>7, <1>8 DEF Visit

\* the calls of a visit that makes two
LEMMA TwoStacked ==
    ASSUME NEW x, NEW y, stack' = <<x, y>>
    PROVE  On(x, stack') /\ On(y, stack')
  BY DEF On

\* the call of a visit that makes one
LEMMA OneStacked ==
    ASSUME NEW x, stack' = <<x>>
    PROVE  On(x, stack')
  BY DEF On

-----------------------------------------------------------------------------
(* Pointers made one by a PHI or a select.                                  *)

\* a select whose result has no cell yet is pending
SelectComes(i) ==
    \E f : On(f, stack) /\ f.op = "bind" /\ f.v = i.v /\ f.to = cell[i.p]

SamesPending ==
    \A i \in prog : i.op = "same" =>
        /\ i.v \in Value /\ i.p \in Value
        /\ Bound(i.p)
        /\ Bound(i.v) \/ SelectComes(i)

SamesForeseen ==
    \A E \in CellMap : Foresees(E) =>
        \A i \in prog : i.op = "same" /\ Bound(i.v) => E[cell[i.v]] = E[cell[i.p]]

\* while a select is pending its result is bound by its own last step only
LEMMA SelectBinds ==
    ASSUME Inv, ClientsLast, Step, NEW i, i.v \in Value, ~Bound(i.v), SelectComes(i)
    PROVE  \/ UNCHANGED cell /\ SelectComes(i)'
           \/ BindCell /\ Top.v = i.v /\ Top.to = cell[i.p]
  <1>1. PICK f : On(f, stack) /\ f.op = "bind" /\ f.v = i.v /\ f.to = cell[i.p]
    BY DEF SelectComes
  <1>2. CASE BindCell \/ BindLinkTarget
    <2>1. stack # <<>> /\ Top.op \in {"bind", "bindLink"} /\ Top.op \in ClientOp
      BY <1>2 DEF BindCell, BindLinkTarget, Running, ClientOp
    <2>2. Len(stack) = 1
      BY <2>1, ClientOnTop DEF Inv
    <2>3. f = Top
      <3>1. \A j \in 1 .. Len(stack) : stack[j] = Top
        BY <2>2 DEF Top
      <3> QED
        BY <1>1, <3>1 DEF On
    <2>4. BindCell
      BY <1>1, <1>2, <2>3 DEF BindLinkTarget, Running
    <2> QED
      BY <1>1, <2>3, <2>4
  <1>3. CASE ~BindCell /\ ~BindLinkTarget
    <2>1. UNCHANGED cell
      BY <1>3 DEF Step, GraphStep, UnifyCells,
                  UnifyAtCollapse, UnifyAtSwap, UnifyAtSelf, UnifyAtMerge,
                  CollapseDone, CollapseInPlace, CollapseFresh, AbsorbTypes,
                  AbsorbCollapses, AbsorbMarks, MoveLink, AllLinksMoved,
                  AddLinkUnifies, AddLinkSets, AddAccessedType, AccessCollapses,
                  AccessIgnored, LoadFindsLink, LoadMakesLink
    <2>2. Top.op # "bind"
      BY <1>3 DEF Step, GraphStep, UnifyCells,
                  UnifyAtCollapse, UnifyAtSwap, UnifyAtSelf, UnifyAtMerge,
                  CollapseDone, CollapseInPlace, CollapseFresh, AbsorbTypes,
                  AbsorbCollapses, AbsorbMarks, MoveLink, AllLinksMoved,
                  AddLinkUnifies, AddLinkSets, AddAccessedType, AccessCollapses,
                  AccessIgnored, LoadFindsLink, LoadMakesLink, Running
    <2>3. On(f, stack')
      BY <1>1, <2>2, StepCalls
    <2>4. cell'[i.p] = cell[i.p]
      BY <2>1
    <2> QED
      BY <1>1, <2>1, <2>3, <2>4 DEF SelectComes, On
  <1> QED
    BY <1>2, <1>3

\* the value that bind gives a cell has one
LEMMA BindBinds ==
    ASSUME Inv, BindCell, NEW v \in Value, v = Top.v
    PROVE  /\ Bound(v)'
           /\ Top.to \in CellIn(Node) /\ cell'[v] = Resolve(Top.to)
  <1>1. Top \in FrameIn(nodes) /\ Top.op = "bind"
    BY TopFrame DEF BindCell, Running, Inv
  <1>2. PICK to : to = Top.to /\ to \in CellIn(nodes)
    BY <1>1, FramesRead
  <1>3. to \in CellIn(Node)
    BY <1>2, FramesGrow DEF Inv, TypeOK
  <1>4. cell'[v] = Resolve(to)
    BY <1>2 DEF BindCell, MkCell, Inv, TypeOK
  <1>5. Resolve(to).node \in Node
    BY <1>2, ResolvedType DEF Inv
  <1>6. Resolve(to).node # 0
    BY <1>5, MaxNodesAssumption DEF Node
  <1>7. cell'[v] # NoCell
    BY <1>4, <1>6 DEF NoCell
  <1> QED
    BY <1>2, <1>3, <1>4, <1>7 DEF Bound

\* what a visit adds of this kind
LEMMA SameAdded ==
    ASSUME Visit, NEW i \in prog' \ prog, i.op = "same"
    PROVE  /\ i.v \in Value /\ i.p \in Value /\ Bound(i.p) /\ UNCHANGED cell
           /\ \/ SelectComes(i)' /\ ~Bound(i.v)
              \/ /\ Bound(i.v)
                 /\ \E x : On(x, stack') /\ \/ x = Unify(cell[i.v], cell[i.p])
                                            \/ x = Unify(cell[i.p], cell[i.v])
  <1>1. CASE \E v, p, q \in Value :
                 /\ VisitSelect(v, p, q)
                 /\ i \in {[op |-> "same", v |-> v, p |-> p],
                           [op |-> "same", v |-> p, p |-> q]}
    <2>1. PICK v \in Value, p \in Value, q \in Value :
             /\ VisitSelect(v, p, q)
             /\ i \in {[op |-> "same", v |-> v, p |-> p],
                       [op |-> "same", v |-> p, p |-> q]}
      BY <1>1
    <2>2. PICK x, y : x = Unify(cell[p], cell[q]) /\ y = Bind(v, cell[p])
      OBVIOUS
    <2>3. /\ Bound(p) /\ Bound(q) /\ ~Bound(v) /\ UNCHANGED cell
          /\ stack' = <<x, y>>
      BY <2>1, <2>2 DEF VisitSelect, Defines, Call
    <2>4. On(x, stack') /\ On(y, stack')
      BY <2>3, TwoStacked
    <2>5. y.op = "bind" /\ y.v = v /\ y.to = cell[p]
      BY <2>2 DEF Bind
    <2>6. CASE i = [op |-> "same", v |-> v, p |-> p]
      <3>1. i.v = v /\ i.p = p
        BY <2>6
      <3>2. SelectComes(i)'
        BY <2>3, <2>4, <2>5, <3>1 DEF SelectComes, On
      <3> QED
        BY <2>3, <3>1, <3>2
    <2>7. CASE i = [op |-> "same", v |-> p, p |-> q]
      <3>1. i.v = p /\ i.p = q
        BY <2>7
      <3> QED
        BY <2>2, <2>3, <2>4, <3>1
    <2> QED
      BY <2>1, <2>6, <2>7
  <1>2. CASE \E v, p \in Value :
                 VisitPHINode(v, p) /\ i = [op |-> "same", v |-> v, p |-> p]
    <2>1. PICK v \in Value, p \in Value :
             VisitPHINode(v, p) /\ i = [op |-> "same", v |-> v, p |-> p]
      BY <1>2
    <2>2. PICK x : x = Unify(cell[v], cell[p])
      OBVIOUS
    <2>3. Bound(v) /\ Bound(p) /\ UNCHANGED cell /\ stack' = <<x>>
      BY <2>1, <2>2 DEF VisitPHINode, Call
    <2>4. On(x, stack')
      BY <2>3, OneStacked
    <2>5. i.v = v /\ i.p = p
      BY <2>1
    <2> QED
      BY <2>2, <2>3, <2>4, <2>5
  <1> QED
    BY <1>1, <1>2, VisitAddsOther DEF LinkedOp

\* the pointers of a PHI or a select have cells, or the select is pending
LEMMA NextSamesPending ==
    ASSUME Inv, ClientsLast, SamesPending, [Next]_vars
    PROVE  SamesPending'
  <1> SUFFICES ASSUME NEW i \in prog', i.op = "same"
               PROVE  /\ i.v \in Value /\ i.p \in Value
                      /\ Bound(i.p)'
                      /\ Bound(i.v)' \/ SelectComes(i)'
    BY DEF SamesPending, Bound, SelectComes, On
  <1>1. CASE i \in prog
    <2>1. i.v \in Value /\ i.p \in Value /\ Bound(i.p) /\ (Bound(i.v) \/ SelectComes(i))
      BY <1>1 DEF SamesPending
    <2>2. Bound(i.p)' /\ (Bound(i.v) => Bound(i.v)')
      BY <2>1, CellsStay
    <2>3. ASSUME ~Bound(i.v)
          PROVE  Bound(i.v)' \/ SelectComes(i)'
      <3>1. CASE UNCHANGED vars
        BY <2>1, <2>3, <3>1 DEF vars, graphVars, SelectComes, On
      <3>2. CASE Visit
        <4>1. \A f : ~On(f, stack)
          BY <3>2, VisitIdle, NoCalls
        <4> QED
          BY <2>1, <2>3, <4>1 DEF SelectComes
      <3>3. CASE Step
        BY <2>1, <2>3, <3>3, SelectBinds, BindBinds
      <3> QED
        BY <3>1, <3>2, <3>3 DEF Next
    <2> QED
      BY <2>1, <2>2, <2>3
  <1>2. CASE i \notin prog
    <2>1. Visit
      BY <1>2, StepsVisitNothing
    <2> QED
      BY <1>2, <2>1, SameAdded DEF Bound
  <1> QED
    BY <1>1, <1>2

\* a map that suits the state after a step suits the one before it
LEMMA ForeseesBack ==
    ASSUME KeptInv, Inv', [Next]_vars, NEW E, Foresees(E)'
    PROVE  Foresees(E) /\ Respects(E) /\ MovesAlong(E)
  <1>0. Inv /\ PlacesSound
    BY DEF KeptInv
  <1>1. Respects(E)' /\ MovesAlong(E)
    BY DEF Foresees, MovesAlong
  <1>2. Respects(E)
    BY <1>0, <1>1, StillRespects
  <1>3. CASE Visit
    <2>1. \A f : ~On(f, stack)
      BY <1>3, VisitIdle, NoCalls
    <2> QED
      BY <1>1, <1>2, <2>1 DEF Foresees
  <1>4. CASE ~Visit
    BY <1>0, <1>1, <1>2, <1>4, Foreseen
  <1> QED
    BY <1>3, <1>4

\* and are one, up to what pending calls are going to do
LEMMA NextSames ==
    ASSUME KeptInv, Inv', SamesPending, SamesForeseen, [Next]_vars
    PROVE  SamesForeseen'
  <1>0. Inv /\ ClientsLast
    BY DEF KeptInv
  <1> SUFFICES ASSUME NEW E \in CellMap, Foresees(E)',
                      NEW i \in prog', i.op = "same", Bound(i.v)'
               PROVE  E[cell'[i.v]] = E[cell'[i.p]]
    BY DEF SamesForeseen, CellMap, Foresees, Respects, MovesAlong, Pledged, Bound,
           On, SameCell, Address, Resolve, Numeric, IsCollapsed, IsArray
  <1>1. Foresees(E) /\ Respects(E)
    BY ForeseesBack
  <1>2. \A f : On(f, stack') => Pledged(f, E)
    BY DEF Foresees, On, Pledged
  <1>3. CASE i \in prog
    <2>1. i.v \in Value /\ i.p \in Value /\ Bound(i.p) /\ (Bound(i.v) \/ SelectComes(i))
      BY <1>3 DEF SamesPending
    <2>2. cell'[i.p] = cell[i.p]
      BY <1>0, <2>1, CellsStay
    <2>3. CASE Bound(i.v)
      <3>1. cell'[i.v] = cell[i.v]
        BY <1>0, <2>1, <2>3, CellsStay
      <3>2. E[cell[i.v]] = E[cell[i.p]]
        BY <1>1, <1>3, <2>3 DEF SamesForeseen
      <3> QED
        BY <2>2, <3>1, <3>2
    <2>4. CASE ~Bound(i.v)
      <3>1. SelectComes(i) /\ ~(UNCHANGED cell)
        BY <2>1, <2>4 DEF Bound
      <3>2. Step
        <4>1. CASE UNCHANGED vars
          BY <3>1, <4>1 DEF vars, graphVars
        <4>2. CASE Visit
          <5>1. \A f : ~On(f, stack)
            BY <4>2, VisitIdle, NoCalls
          <5> QED
            BY <3>1, <5>1 DEF SelectComes
        <4> QED
          BY <4>1, <4>2 DEF Next
      <3>3. BindCell /\ Top.v = i.v /\ Top.to = cell[i.p]
        BY <1>0, <2>1, <2>4, <3>1, <3>2, SelectBinds
      <3>4. PICK c \in CellIn(Node) : c = Top.to
        BY <1>0, <2>1, <3>3, BindBinds
      <3>5. cell'[i.v] = Resolve(c)
        BY <1>0, <2>1, <3>3, <3>4, BindBinds
      <3>6. Resolve(c) \in CellIn(Node) /\ SameCell(c, Resolve(c))
        BY <1>0, ResolvesTo
      <3>7. E[c] = E[Resolve(c)]
        BY <1>1, <3>6 DEF Respects
      <3> QED
        BY <2>2, <3>3, <3>4, <3>5, <3>7
    <2> QED
      BY <2>3, <2>4
  <1>4. CASE i \notin prog
    <2>1. Visit
      BY <1>4, StepsVisitNothing
    <2>2. UNCHANGED cell /\ Bound(i.v)
      BY <1>4, <2>1, SameAdded DEF Bound
    <2>3. PICK a, b, x : /\ {a, b} = {cell[i.v], cell[i.p]}
                         /\ On(x, stack') /\ x = Unify(a, b)
      BY <1>4, <2>1, <2>2, SameAdded
    <2>4. x.op = "unify" /\ x.a = a /\ x.b = b
      BY <2>3 DEF Unify
    <2>5. E[a] = E[b]
      BY <1>2, <2>3, <2>4 DEF Pledged
    <2> QED
      BY <2>2, <2>3, <2>5
  <1> QED
    BY <1>3, <1>4

-----------------------------------------------------------------------------
(* Types on their way from one node to another.                             *)

\* Node::pointTo hands the types on as the first thing it does after it has set
\* the forwarding
AbsorbsFirst ==
    /\ \A j \in 2 .. Len(stack) : stack[j].op # "absorb"
    /\ stack # <<>> /\ Top.op = "absorb" =>
           fwd[Top.n] = At(Top.m, Top.o) /\ Root(Top.m) = Top.m

\* a step that calls, but does not absorb
LEMMA NoAbsorb ==
    ASSUME TypeOK, \A j \in 2 .. Len(stack) : stack[j].op # "absorb",
           NEW ops, "absorb" \notin ops, Calls(ops)
    PROVE  \A j \in 1 .. Len(stack') : stack'[j].op # "absorb"
  <1> SUFFICES ASSUME NEW j \in 1 .. Len(stack')
               PROVE  stack'[j].op # "absorb"
    OBVIOUS
  <1>1. CASE Return
    <2>1. j + 1 \in 2 .. Len(stack) /\ stack'[j] = stack[j + 1]
      BY <1>1, Returned DEF Calls
    <2> QED
      BY <2>1
  <1>2. CASE \E x : Continue(<<x>>) /\ x.op \in ops
    <2>1. PICK x : Continue(<<x>>) /\ x.op \in ops
      BY <1>2
    <2>2. /\ Len(stack) \in Nat /\ Len(stack') = Len(stack) /\ stack'[1] = x
          /\ \A i \in 2 .. Len(stack) : stack'[i] = stack[i]
      BY <2>1, CalledOne DEF Calls
    <2>3. j = 1 \/ j \in 2 .. Len(stack)
      BY <2>2
    <2> QED
      BY <2>1, <2>2, <2>3
  <1>3. CASE \E x, y : Continue(<<x, y>>) /\ x.op \in ops /\ y.op \in ops
    <2>1. PICK x, y : Continue(<<x, y>>) /\ x.op \in ops /\ y.op \in ops
      BY <1>3
    <2>2. /\ Len(stack) \in Nat /\ Len(stack') = Len(stack) + 1
          /\ stack'[1] = x /\ stack'[2] = y
          /\ \A i \in 2 .. Len(stack) : stack'[i + 1] = stack[i]
      BY <2>1, CalledTwo DEF Calls
    <2>3. CASE j \in {1, 2}
      BY <2>1, <2>2, <2>3
    <2>4. CASE j \notin {1, 2}
      <3>1. j - 1 \in 2 .. Len(stack) /\ (j - 1) + 1 = j
        BY <2>2, <2>4
      <3> QED
        BY <2>2, <3>1
    <2> QED
      BY <2>3, <2>4
  <1> QED
    BY <1>1, <1>2, <1>3 DEF Calls

\* all steps but those that set a forwarding are such
LEMMA OtherSteps ==
    ASSUME Step, ~UnifyAtMerge, ~CollapseFresh
    PROVE  \E ops : "absorb" \notin ops /\ Calls(ops)
  <1>1. CASE LoadFindsLink \/ LoadMakesLink
    BY <1>1, LoadSteps
  <1>2. CASE MoveLink \/ AddLinkSets \/ AbsorbMarks
    BY <1>2, LinkingSteps
  <1>3. CASE UnifyCells \/ UnifyAtSwap
    <2>1. PICK x : Continue(<<x>>) /\ x.op = "unifyAt" /\ stack # <<>>
      BY <1>3 DEF UnifyCells, UnifyAtSwap, UnifyAt, Running
    <2>2. Calls({"unifyAt"})
      BY <2>1 DEF Calls
    <2> QED
      BY <2>2
  <1>4. CASE UnifyAtCollapse
    <2>1. PICK x, y : /\ x = Collapse(Root(Top.n))
                      /\ y = UnifyAt(Root(Top.n), Root(Top.m), Top.o)
      OBVIOUS
    <2>2. Continue(<<x, y>>) /\ stack # <<>>
      BY <1>4, <2>1 DEF UnifyAtCollapse, Running
    <2>3. x.op = "collapse" /\ y.op = "unifyAt"
      BY <2>1 DEF Collapse, UnifyAt
    <2>4. Calls({"collapse", "unifyAt"})
      BY <2>2, <2>3 DEF Calls
    <2> QED
      BY <2>4
  <1>5. CASE UnifyAtSelf \/ AccessCollapses
    <2>1. \/ stack # <<>> /\ Return
          \/ stack # <<>> /\ \E n : Continue(<<Collapse(n)>>)
      BY <1>5, Zenon DEF UnifyAtSelf, AccessCollapses, Running, Return
    <2>2. ASSUME NEW n, Continue(<<Collapse(n)>>)
          PROVE  \E x : Continue(<<x>>) /\ x.op = "collapse"
      BY <2>2 DEF Collapse
    <2>3. Calls({"collapse"})
      BY <2>1, <2>2 DEF Calls
    <2> QED
      BY <2>3
  <1>6. CASE AbsorbTypes
    <2>1. PICK x : Continue(<<x>>) /\ x.op = "annotate" /\ stack # <<>>
      BY <1>6 DEF AbsorbTypes, Annotate, Running
    <2>2. Calls({"annotate"})
      BY <2>1 DEF Calls
    <2> QED
      BY <2>2
  <1>7. CASE AbsorbCollapses
    <2>1. PICK x, y : /\ x = Collapse(Top.m)
                      /\ y = Annotate(Top.n, Top.m, Top.o)
      OBVIOUS
    <2>2. Continue(<<x, y>>) /\ stack # <<>>
      BY <1>7, <2>1 DEF AbsorbCollapses, Running
    <2>3. x.op = "collapse" /\ y.op = "annotate"
      BY <2>1 DEF Collapse, Annotate
    <2>4. Calls({"collapse", "annotate"})
      BY <2>2, <2>3 DEF Calls
    <2> QED
      BY <2>4
  <1>8. CASE AddLinkUnifies
    <2>1. PICK x : Continue(<<x>>) /\ x.op = "unify" /\ stack # <<>>
      BY <1>8 DEF AddLinkUnifies, Unify, Running
    <2>2. Calls({"unify"})
      BY <2>1 DEF Calls
    <2> QED
      BY <2>2
  <1>9. CASE \/ CollapseDone \/ CollapseInPlace \/ AllLinksMoved \/ AddAccessedType
             \/ AccessIgnored \/ BindCell \/ BindLinkTarget
    <2>1. stack # <<>> /\ Return
      BY <1>9 DEF CollapseDone, CollapseInPlace, AllLinksMoved, AddAccessedType,
                  AccessIgnored, BindCell, BindLinkTarget, Running
    <2>2. Calls({})
      BY <2>1 DEF Calls
    <2> QED
      BY <2>2
  <1> QED
    BY <1>1, <1>2, <1>3, <1>4, <1>5, <1>6, <1>7, <1>8, <1>9 DEF Step, GraphStep

\* visits do not absorb
LEMMA VisitNoAbsorb ==
    ASSUME Visit
    PROVE  \A f : On(f, stack') => f.op # "absorb"
  <1>1. Idle
    BY VisitIdle
  <1>2. CASE UNCHANGED stack
    BY <1>1, <1>2, NoCalls
  <1>3. CASE \E x : stack' = <<x>> /\ x.op # "absorb"
    BY <1>3 DEF On
  <1>4. CASE \E x, y : stack' = <<x, y>> /\ x.op # "absorb" /\ y.op # "absorb"
    BY <1>4 DEF On
  <1>5. CASE \/ \E v \in Value : VisitAlloca(v) \/ VisitInstruction(v)
             \/ \E p \in Value, sz \in SeqSize : VisitMakeSeq(p, sz)
    BY <1>2, <1>5 DEF VisitAlloca, VisitInstruction, VisitMakeSeq
  <1>6. ASSUME NEW v, NEW p, NEW k, NEW stride, VisitGep(v, p, k, stride)
        PROVE  UNCHANGED stack \/ \E x : stack' = <<x>> /\ x.op # "absorb"
    <2>1. CASE \/ GepInCollapsed(v, p, k, stride) \/ GepBack(v, p, k, stride)
               \/ GepToField(v, p, k, stride)
      BY <2>1 DEF GepInCollapsed, GepBack, GepToField
    <2>2. CASE GepBefore(v, p, k, stride) \/ GepIntoArray(v, p, k, stride)
      <3>1. \E a, b, o : stack' = <<UnifyAt(a, b, o)>>
        BY <2>2 DEF GepBefore, GepIntoArray, Call
      <3> QED
        BY <3>1 DEF UnifyAt
    <2> QED
      BY <1>6, <2>1, <2>2 DEF VisitGep
  <1>7. ASSUME NEW v, NEW p, NEW ty, VisitLoad(v, p, ty) \/ VisitStore(v, p, ty)
        PROVE  \E x, y : stack' = <<x, y>> /\ x.op # "absorb" /\ y.op # "absorb"
    <2>1. PICK x, y, z : /\ x = Access(cell[p], PtrWidth)
                         /\ y = Load(v, cell[p], ty)
                         /\ z = AddLink(cell[p], ty, cell[v])
      OBVIOUS
    <2>2. stack' = <<x, y>> \/ stack' = <<x, z>>
      BY <1>7, <2>1 DEF VisitLoad, VisitStore, Call
    <2>3. x.op # "absorb" /\ y.op # "absorb" /\ z.op # "absorb"
      BY <2>1 DEF Access, Load, AddLink
    <2> QED
      BY <2>2, <2>3
  <1>8. ASSUME NEW p, NEW x, NEW y,
               \/ VisitScalarAccess(p, x, y) \/ VisitPHINode(p, x) \/ VisitCollapse(p)
        PROVE  \E z : stack' = <<z>> /\ z.op # "absorb"
    BY <1>8 DEF VisitScalarAccess, VisitPHINode, VisitCollapse, Call, Access, Unify,
                Collapse
  <1>9. ASSUME NEW v, NEW p, NEW q, VisitSelect(v, p, q)
        PROVE  \E x, y : stack' = <<x, y>> /\ x.op # "absorb" /\ y.op # "absorb"
    BY <1>9 DEF VisitSelect, Call, Unify, Bind
  <1> QED
    BY <1>2, <1>3, <1>4, <1>5, <1>6, <1>7, <1>8, <1>9 DEF Visit

\* a merge, or a collapse into a new node: who is forwarded, and where
LEMMA ForwardingStep ==
    ASSUME Inv, UnifyAtMerge \/ CollapseFresh
    PROVE  \E n, m \in Node, o \in Nat :
              /\ n # m /\ fwd' = Forwarded(n, m, o)
              /\ fwd[n] = [node |-> n, off |-> 0] /\ fwd[m] = [node |-> m, off |-> 0]
              /\ Continue(<<Absorb(n, m, o)>>)
              /\ stack # <<>> /\ Top.op \notin {"absorb", "access"} /\ UNCHANGED types
  <1>1. CASE UnifyAtMerge
    <2>1. Running("unifyAt") /\ stack # <<>> /\ Top.op = "unifyAt"
      BY <1>1 DEF UnifyAtMerge, Running
    <2>2. PICK a \in Node, b \in Node, c \in Nat : a = Top.n /\ b = Top.m /\ c = Top.o
      BY <2>1, TopFrame, FramesRead DEF Inv, TypeOK
    <2>3. PICK n \in Node, m \in Node : /\ n = Root(b) /\ m = Root(a)
                                        /\ Root(n) = n /\ Root(m) = m
      <3>1. Root(b) \in Node /\ Root(a) \in Node
        BY DEF Inv, TypeOK, Root, CellIn
      <3> QED
        BY <2>2, <3>1, RootOfRoot DEF Inv
    <2>4. PICK o \in Nat : o = Numeric(m, c)
      BY NumericIsNat DEF Inv
    <2>5. n # m /\ fwd' = Forwarded(n, m, o) /\ Continue(<<Absorb(n, m, o)>>)
      BY <1>1, <2>2, <2>3, <2>4 DEF UnifyAtMerge
    <2>6. fwd[n] = [node |-> n, off |-> 0] /\ fwd[m] = [node |-> m, off |-> 0]
      BY <2>3 DEF Inv, ForwardingResolved
    <2>7. UNCHANGED types
      BY <1>1 DEF UnifyAtMerge
    <2> QED
      BY <2>1, <2>5, <2>6, <2>7
  <1>2. CASE CollapseFresh
    <2>1. Running("collapse") /\ stack # <<>> /\ Top.op = "collapse"
      BY <1>2 DEF CollapseFresh, Running
    <2>2. PICK n \in Node : /\ n = Root(Top.n)
                            /\ fwd[n] = [node |-> n, off |-> 0]
                            /\ n \in nodes
      BY <2>1, CollapseTop
    <2>3. PICK m : /\ m = CollapsedTwin(n) /\ n \in ClientNode /\ m \notin nodes
                   /\ fwd' = Forwarded(n, m, 0) /\ Continue(<<Absorb(n, m, 0)>>)
                   /\ UNCHANGED types
      BY <1>2, <2>2 DEF CollapseFresh
    <2>4. m \in Node
      BY <2>3, MaxNodesAssumption DEF ClientNode, Node, CollapsedTwin
    <2>5. fwd[m] = [node |-> m, off |-> 0]
      BY <2>3, <2>4 DEF Inv, TypeOK
    <2> QED
      BY <2>1, <2>2, <2>3, <2>4, <2>5
  <1> QED
    BY <1>1, <1>2

\* the types of a node are handed on first, before anything moves its new root
LEMMA NextAbsorbs ==
    ASSUME Inv, Inv', AbsorbsFirst, [Next]_vars
    PROVE  AbsorbsFirst'
  <1>1. CASE UNCHANGED vars
    BY <1>1 DEF vars, graphVars, AbsorbsFirst, Top, Root
  <1>2. ASSUME \A j \in 1 .. Len(stack') : stack'[j].op # "absorb"
        PROVE  AbsorbsFirst'
    <2>1. \A j \in 2 .. Len(stack') : j \in 1 .. Len(stack')
      BY DEF Inv, TypeOK
    <2>2. stack' # <<>> => 1 \in 1 .. Len(stack') /\ Top' = stack'[1]
      BY DEF Inv, TypeOK, Top
    <2> QED
      BY <1>2, <2>1, <2>2 DEF AbsorbsFirst
  <1>3. CASE Visit
    BY <1>2, <1>3, VisitNoAbsorb DEF On
  <1>4. CASE Step /\ ~UnifyAtMerge /\ ~CollapseFresh
    <2>1. PICK ops : "absorb" \notin ops /\ Calls(ops)
      BY <1>4, OtherSteps
    <2> QED
      BY <1>2, <2>1, NoAbsorb DEF Inv, AbsorbsFirst
  <1>5. CASE UnifyAtMerge \/ CollapseFresh
    <2>1. PICK n \in Node, m \in Node, o \in Nat :
              /\ n # m /\ fwd' = Forwarded(n, m, o)
              /\ fwd[n] = [node |-> n, off |-> 0] /\ fwd[m] = [node |-> m, off |-> 0]
              /\ Continue(<<Absorb(n, m, o)>>) /\ stack # <<>>
      BY <1>5, ForwardingStep
    <2>2. PICK x : x = Absorb(n, m, o)
      OBVIOUS
    <2>3. /\ Len(stack) \in Nat /\ Len(stack') = Len(stack) /\ Top' = x
          /\ \A j \in 2 .. Len(stack) : stack'[j] = stack[j]
      BY <2>2, <2>1, CalledOne DEF Inv
    <2>4. x.n = n /\ x.m = m /\ x.o = o
      BY <2>2 DEF Absorb
    <2>5. fwd'[n] = [node |-> m, off |-> 0 + o] /\ fwd'[m] = fwd[m] /\ 0 + o = o
      BY <2>1 DEF Forwarded
    <2>6. fwd'[n] = At(m, o) /\ Root(m)' = m
      BY <2>1, <2>5 DEF At, Root
    <2> QED
      BY <2>3, <2>4, <2>6 DEF AbsorbsFirst, At, Root
  <1> QED
    BY <1>1, <1>3, <1>4, <1>5 DEF Next

-----------------------------------------------------------------------------
(* The types of accesses.                                                   *)

\* the types of a node that does not forward, or that is just handing them on
Live(n) == ~IsForwarding(n) \/ (stack # <<>> /\ Top.op = "absorb" /\ Top.n = n)

\* a type of size w is where E has the cell c
InTypes(E, c, w) ==
    \E n \in Node : /\ Live(n)
                    /\ \E e \in types[n] : e.width = w /\ E[At(n, e.off)] = E[c]

\* a pending Cell::addAccessedType is going to put one there
InAccess(f, E, c, w) == f.op = "access" /\ f.width = w /\ E[f.at] = E[c]

\* or all of the node is one byte
Flat(E, c) == \A k \in Nat : E[Shifted(c, k)] = E[c]

Typed(E, c, w) ==
    \/ InTypes(E, c, w)
    \/ \E f : On(f, stack) /\ InAccess(f, E, c, w)
    \/ Flat(E, c)

AccessesBound ==
    \A i \in Accesses : i.p \in Value /\ Bound(i.p) /\ WidthOf(i) \in Nat \ {0}

TypedForeseen ==
    \A E \in CellMap : Foresees(E) =>
        \A i \in Accesses : Typed(E, cell[i.p], WidthOf(i))

\* a node that is or will be one byte
LEMMA FlatNode ==
    ASSUME NEW E, MovesAlong(E), NEW n \in Node, NEW o \in Nat, NEW c \in CellIn(Node),
           E[At(n, o)] = E[c], \A a, b \in Nat : E[At(n, a)] = E[At(n, b)]
    PROVE  Flat(E, c)
  <1> SUFFICES ASSUME NEW k \in Nat
               PROVE  E[Shifted(c, k)] = E[c]
    BY DEF Flat
  <1>1. At(n, o) \in CellIn(Node)
    BY AtType
  <1>2. E[Shifted(At(n, o), k)] = E[Shifted(c, k)]
    BY <1>1 DEF MovesAlong
  <1>3. E[At(n, o + k)] = E[At(n, o)]
    OBVIOUS
  <1> QED
    BY <1>2, <1>3, AtShifted

\* a node that has collapsed is one byte
LEMMA CollapsedFlat ==
    ASSUME Inv, NEW E, Respects(E), NEW n \in Node, IsCollapsed(Root(n))
    PROVE  \A a, b \in Nat : E[At(n, a)] = E[At(n, b)]
  <1> SUFFICES ASSUME NEW a \in Nat, NEW b \in Nat
               PROVE  E[At(n, a)] = E[At(n, b)]
    OBVIOUS
  <1>1. PICK x, y : x = At(n, a) /\ y = At(n, b)
    OBVIOUS
  <1>2. x \in CellIn(Node) /\ y \in CellIn(Node) /\ x.node = n /\ y.node = n
    BY <1>1, AtType
  <1>3. SameCell(x, y)
    BY <1>2, CollapsedSame
  <1> QED
    BY <1>1, <1>2, <1>3 DEF Respects

\* a type of a node, wherever the node's first byte lies
LEMMA TypePlaced ==
    ASSUME Inv, NEW E, Respects(E), NEW n \in Node, NEW m \in Node, NEW o \in Nat,
           fwd[n] = At(m, o), Root(m) = m, NEW a \in Nat
    PROVE  Numeric(m, a + o) \in Nat /\ E[At(m, Numeric(m, a + o))] = E[At(n, a)]
  <1>0. PICK z \in Nat : z = a + o
    OBVIOUS
  <1>1. PICK y \in Nat : y = Numeric(m, z)
    BY NumericIsNat DEF Inv
  <1>2. Resolve(At(n, a)) = At(m, z)
    BY <1>0 DEF Resolve, At
  <1>3. PICK x : x = At(n, a) /\ x \in CellIn(Node)
    BY AtType
  <1>4. SameCell(x, At(m, z)) /\ At(m, z) \in CellIn(Node)
    BY <1>2, <1>3, ResolvesTo
  <1>5. SameCell(At(m, z), At(m, y)) /\ At(m, y) \in CellIn(Node)
    BY <1>1, NumericSame, AtType
  <1>6. E[x] = E[At(m, z)] /\ E[At(m, z)] = E[At(m, y)]
    BY <1>3, <1>4, <1>5 DEF Respects
  <1> QED
    BY <1>0, <1>1, <1>3, <1>6

\* a type that stays where it is
LEMMA TypeStays ==
    ASSUME NEW E, NEW c, NEW w, NEW n \in Node, NEW e \in types'[n],
           e.width = w, E[At(n, e.off)] = E[c], Live(n)'
    PROVE  Typed(E, c, w)'
  BY DEF Typed, InTypes, Live, IsForwarding, Root, Top

\* joinAccessedTypes hands the types on
LEMMA AbsorbTypesTyped ==
    ASSUME Inv, AbsorbsFirst, AbsorbTypes, NEW E, Respects(E), MovesAlong(E),
           NEW c \in CellIn(Node), NEW w, NEW n \in Node, Top.n = n,
           NEW e \in types[n], e.width = w, E[At(n, e.off)] = E[c]
    PROVE  Typed(E, c, w)'
  <1>1. stack # <<>> /\ Top.op = "absorb" /\ UNCHANGED fwd
    BY DEF AbsorbTypes, Running
  <1>2. PICK m \in Node, o \in Nat : m = Top.m /\ o = Top.o
    BY <1>1, AbsorbTop
  <1>3. fwd[n] = At(m, o) /\ Root(m) = m
    BY <1>1, <1>2 DEF AbsorbsFirst
  <1>4. PICK a \in Nat : a = e.off
    BY DEF Inv, TypeOK, Extent
  <1>5. Root(n) = m
    BY <1>3 DEF Root, At
  <1>6. IsCollapsed(n) => IsCollapsed(m)
    BY <1>1, <1>2, <1>3, AbsorbTop DEF MergeSound
  <1>7. CASE IsCollapsed(m)
    <2>1. \A x, y \in Nat : E[At(n, x)] = E[At(n, y)]
      BY <1>5, <1>7, CollapsedFlat
    <2>2. Flat(E, c)
      BY <1>4, <2>1, FlatNode
    <2> QED
      BY <2>2 DEF Typed, Flat
  <1>8. CASE ~IsCollapsed(m)
    <2>1. JoinedTypes(n, m, o) = {Placed(m, x, o) : x \in types[n]}
      BY <1>6, <1>8 DEF JoinedTypes
    <2>2. PICK d : d = Placed(m, e, o)
      OBVIOUS
    <2>3. d.off = Numeric(m, a + o) /\ d.width = w
      BY <1>4, <2>2 DEF Placed
    <2>4. types' = [types EXCEPT ![m] = @ \cup JoinedTypes(n, m, o)]
      BY <1>2 DEF AbsorbTypes
    <2>5. d \in types'[m]
      BY <2>1, <2>2, <2>4 DEF Inv, TypeOK
    <2>6. E[At(m, d.off)] = E[c]
      BY <1>3, <1>4, <2>3, TypePlaced
    <2>7. Live(m)'
      BY <1>1, <1>3 DEF Live, IsForwarding, Root
    <2> QED
      BY <2>3, <2>5, <2>6, <2>7, TypeStays
  <1> QED
    BY <1>7, <1>8

\* or drops them all when the destination collapses
LEMMA AbsorbCollapsesTyped ==
    ASSUME Inv, AbsorbsFirst, AbsorbCollapses, NEW E, Respects(E), MovesAlong(E),
           \A f : On(f, stack') => Pledged(f, E),
           NEW c \in CellIn(Node), NEW w, NEW n \in Node, Top.n = n,
           NEW e \in types[n], E[At(n, e.off)] = E[c]
    PROVE  Typed(E, c, w)'
  <1>1. stack # <<>> /\ Top.op = "absorb"
    BY DEF AbsorbCollapses, Running
  <1>2. PICK m \in Node, o \in Nat : m = Top.m /\ o = Top.o
    BY <1>1, AbsorbTop
  <1>3. fwd[n] = At(m, o) /\ Root(m) = m
    BY <1>1, <1>2 DEF AbsorbsFirst
  <1>4. PICK a \in Nat : a = e.off
    BY DEF Inv, TypeOK, Extent
  <1>5. PICK x, y : x = Collapse(m) /\ y = Annotate(n, m, o)
    OBVIOUS
  <1>6. Continue(<<x, y>>)
    BY <1>2, <1>5 DEF AbsorbCollapses
  <1>7. On(x, stack') /\ x.op = "collapse" /\ x.n = m
    BY <1>1, <1>5, <1>6, CalledTwo DEF Inv, Collapse
  <1>8. \A i, j \in Nat : E[At(m, i)] = E[At(m, j)]
    BY <1>7 DEF Pledged
  <1>9. PICK z \in Nat : z = Numeric(m, a + o) /\ E[At(m, z)] = E[At(n, a)]
    BY <1>3, TypePlaced
  <1>10. Flat(E, c)
    BY <1>4, <1>8, <1>9, FlatNode
  <1> QED
    BY <1>10 DEF Typed, Flat

\* Cell::addAccessedType does what was asked for
LEMMA AccessTyped ==
    ASSUME Inv, AddAccessedType \/ AccessCollapses \/ AccessIgnored,
           NEW E, Respects(E), MovesAlong(E), \A f : On(f, stack') => Pledged(f, E),
           NEW c \in CellIn(Node), NEW w, InAccess(Top, E, c, w)
    PROVE  Typed(E, c, w)'
  <1>1. Running("access") /\ stack # <<>> /\ Top.op = "access" /\ UNCHANGED fwd
    BY DEF AddAccessedType, AccessCollapses, AccessIgnored, Running, nodeVars
  <1>2. PICK at \in CellIn(Node) : at = Top.at
    <2>1. Top.at \in CellIn(nodes)
      BY <1>1, TopFrame, FramesRead DEF Inv
    <2> QED
      BY <2>1, FramesGrow DEF Inv, TypeOK
  <1>3. Top.width = w /\ E[at] = E[c]
    BY <1>2 DEF InAccess
  <1>4. PICK n \in Node, o \in Nat : /\ n = Resolve(at).node /\ o = LinkOffset(at)
                                     /\ E[At(n, o)] = E[at]
    BY LinkPlace
  <1>5. Root(n) = n
    BY <1>4, PlaceOf
  <1>6. CASE AddAccessedType
    <2>1. PICK e : e = [off |-> o, width |-> w]
      OBVIOUS
    <2>2. types' = [types EXCEPT ![n] = @ \cup {e}]
      BY <1>2, <1>3, <1>4, <1>6, <2>1 DEF AddAccessedType, AccessedExtent
    <2>3. e \in types'[n]
      BY <2>2 DEF Inv, TypeOK
    <2>4. e.width = w /\ E[At(n, e.off)] = E[c]
      BY <1>3, <1>4, <2>1
    <2>5. Live(n)'
      BY <1>1, <1>5 DEF Live, IsForwarding, Root
    <2> QED
      BY <2>3, <2>4, <2>5, TypeStays
  <1>7. ASSUME \A a, b \in Nat : E[At(n, a)] = E[At(n, b)]
        PROVE  Typed(E, c, w)'
    <2>1. Flat(E, c)
      BY <1>3, <1>4, <1>7, FlatNode
    <2> QED
      BY <2>1 DEF Typed, Flat
  <1>8. CASE AccessCollapses
    <2>1. PICK x : x = Collapse(n)
      OBVIOUS
    <2>2. Continue(<<x>>)
      BY <1>2, <1>4, <1>8, <2>1 DEF AccessCollapses
    <2>3. On(x, stack') /\ x.op = "collapse" /\ x.n = n
      BY <1>1, <2>1, <2>2, CalledOne DEF Inv, Collapse
    <2>4. \A a, b \in Nat : E[At(n, a)] = E[At(n, b)]
      BY <2>3 DEF Pledged
    <2> QED
      BY <1>7, <2>4
  <1>9. CASE AccessIgnored
    <2>1. IsCollapsed(Root(n))
      BY <1>2, <1>4, <1>5, <1>9 DEF AccessIgnored
    <2> QED
      BY <1>7, <2>1, CollapsedFlat
  <1> QED
    BY <1>6, <1>8, <1>9

\* what becomes of a type of a node
LEMMA TypeMoves ==
    ASSUME Inv, AbsorbsFirst, Step, NEW E, Respects(E), MovesAlong(E),
           \A f : On(f, stack') => Pledged(f, E),
           NEW c \in CellIn(Node), NEW w, NEW n \in Node, Live(n),
           NEW e \in types[n], e.width = w, E[At(n, e.off)] = E[c]
    PROVE  Typed(E, c, w)'
  <1>1. ASSUME ~IsForwarding(n)', e \in types'[n]
        PROVE  Typed(E, c, w)'
    BY <1>1, TypeStays DEF Live, IsForwarding, Root
  <1>2. CASE UnifyAtMerge \/ CollapseFresh
    <2>1. PICK a \in Node, m \in Node, o \in Nat :
              /\ a # m /\ fwd' = Forwarded(a, m, o)
              /\ fwd[a] = [node |-> a, off |-> 0] /\ fwd[m] = [node |-> m, off |-> 0]
              /\ Continue(<<Absorb(a, m, o)>>)
              /\ stack # <<>> /\ Top.op # "absorb" /\ UNCHANGED types
      BY <1>2, ForwardingStep
    <2>2. Root(n) = n
      BY <2>1 DEF Live, IsForwarding
    <2>3. CASE n = a
      <3>1. PICK x : x = Absorb(a, m, o)
        OBVIOUS
      <3>2. Top' = x /\ stack' # <<>>
        BY <2>1, <3>1, CalledOne DEF Inv
      <3>3. x.op = "absorb" /\ x.n = n
        BY <2>3, <3>1 DEF Absorb
      <3>4. Live(n)'
        BY <3>2, <3>3 DEF Live
      <3> QED
        BY <2>1, <3>4, TypeStays
    <2>4. CASE n # a
      <3>1. fwd'[n] = fwd[n]
        BY <2>1, <2>2, <2>4 DEF Forwarded, Root
      <3>2. ~IsForwarding(n)'
        BY <2>2, <3>1 DEF IsForwarding, Root
      <3> QED
        BY <1>1, <2>1, <3>2
    <2> QED
      BY <2>3, <2>4
  <1>3. CASE AbsorbTypes \/ AbsorbCollapses
    <2>1. UNCHANGED fwd
      BY <1>3 DEF AbsorbTypes, AbsorbCollapses, nodeVars
    <2>2. CASE Top.n = n
      BY <1>3, <2>2, AbsorbTypesTyped, AbsorbCollapsesTyped
    <2>3. CASE Top.n # n
      <3>1. ~IsForwarding(n)'
        BY <2>1, <2>3 DEF Live, IsForwarding, Root
      <3>2. UNCHANGED types \/ \E m, es : types' = [types EXCEPT ![m] = @ \cup es]
        BY <1>3 DEF AbsorbTypes, AbsorbCollapses, nodeVars
      <3>3. e \in types'[n]
        BY <3>2 DEF Inv, TypeOK
      <3> QED
        BY <1>1, <3>1, <3>3
    <2> QED
      BY <2>2, <2>3
  <1>4. CASE AbsorbMarks
    <2>1. stack # <<>> /\ Top.op = "annotate" /\ UNCHANGED fwd
      BY <1>4 DEF AbsorbMarks, Running
    <2>2. ~IsForwarding(n) /\ Top.op # "absorb"
      BY <2>1 DEF Live
    <2>3. IsForwarding(Top.n)
      BY <2>1, AbsorbTop DEF MergeSound
    <2>4. e \in types'[n]
      BY <1>4, <2>2, <2>3 DEF AbsorbMarks, Inv, TypeOK
    <2> QED
      BY <1>1, <2>1, <2>2, <2>4 DEF IsForwarding, Root
  <1>5. ASSUME UNCHANGED fwd, types[n] \subseteq types'[n], Top.op # "absorb"
        PROVE  Typed(E, c, w)'
    BY <1>1, <1>5 DEF Live, IsForwarding, Root
  <1>6. CASE AddAccessedType
    <2>1. UNCHANGED fwd /\ Top.op # "absorb"
      BY <1>6 DEF AddAccessedType, Running
    <2>2. types[n] \subseteq types'[n]
      BY <1>6 DEF AddAccessedType, Inv, TypeOK
    <2> QED
      BY <1>5, <2>1, <2>2
  <1>7. CASE CallingStep /\ ~AbsorbCollapses
    <2>1. UNCHANGED <<fwd, types>>
      BY <1>7, CallingTouches
    <2>2. Top.op # "absorb"
      BY <1>7 DEF CallingStep, UnifyCells, UnifyAtCollapse, UnifyAtSwap, UnifyAtSelf,
                  CollapseDone, MoveLink, AllLinksMoved, AddLinkUnifies,
                  AccessCollapses, AccessIgnored, BindCell, BindLinkTarget, Running
    <2> QED
      BY <1>5, <2>1, <2>2
  <1>8. CASE CollapseInPlace \/ AddLinkSets \/ LoadFindsLink \/ LoadMakesLink
    <2>1. UNCHANGED <<fwd, types>> /\ Top.op # "absorb"
      BY <1>8 DEF CollapseInPlace, AddLinkSets, LoadFindsLink, LoadMakesLink, Running
    <2> QED
      BY <1>5, <2>1
  <1> QED
    BY <1>2, <1>3, <1>4, <1>6, <1>7, <1>8 DEF Step, GraphStep, CallingStep

\* no step loses the type of an access
LEMMA NextTyped ==
    ASSUME Inv, AbsorbsFirst, [Next]_vars, NEW E, Respects(E), MovesAlong(E),
           \A f : On(f, stack') => Pledged(f, E),
           NEW c \in CellIn(Node), NEW w, Typed(E, c, w)
    PROVE  Typed(E, c, w)'
  <1>1. CASE Flat(E, c)
    BY <1>1 DEF Typed, Flat
  <1>2. CASE UNCHANGED vars
    BY <1>2 DEF vars, graphVars, Typed, InTypes, InAccess, Flat, On, Live, IsForwarding,
                Root, Top
  <1>3. CASE Visit
    <2>1. UNCHANGED <<fwd, types>> /\ (\A f : ~On(f, stack)) /\ stack = <<>>
      BY <1>3, VisitTouches, VisitIdle, NoCalls DEF Idle
    <2>2. CASE InTypes(E, c, w)
      <3>1. PICK n \in Node : Live(n) /\ \E e \in types[n] :
                                 e.width = w /\ E[At(n, e.off)] = E[c]
        BY <2>2 DEF InTypes
      <3>2. PICK e \in types[n] : e.width = w /\ E[At(n, e.off)] = E[c]
        BY <3>1
      <3>3. Live(n)'
        BY <2>1, <3>1 DEF Live, IsForwarding, Root
      <3> QED
        BY <2>1, <3>2, <3>3, TypeStays
    <2> QED
      BY <1>1, <2>1, <2>2 DEF Typed
  <1>4. CASE Step
    <2>1. CASE InTypes(E, c, w)
      <3>1. PICK n \in Node : Live(n) /\ \E e \in types[n] :
                                 e.width = w /\ E[At(n, e.off)] = E[c]
        BY <2>1 DEF InTypes
      <3>2. PICK e \in types[n] : e.width = w /\ E[At(n, e.off)] = E[c]
        BY <3>1
      <3> QED
        BY <1>4, <3>1, <3>2, TypeMoves
    <2>2. CASE \E f : On(f, stack) /\ InAccess(f, E, c, w)
      <3>1. PICK f : On(f, stack) /\ InAccess(f, E, c, w)
        BY <2>2
      <3>2. CASE On(f, stack')
        BY <3>1, <3>2 DEF Typed, InAccess, On
      <3>3. CASE ~On(f, stack')
        <4>1. f = Top
          BY <1>4, <3>1, <3>3, StepCalls
        <4>2. Top.op = "access"
          BY <3>1, <4>1 DEF InAccess
        <4>3. AddAccessedType \/ AccessCollapses \/ AccessIgnored
          BY <1>4, <4>2
             DEF Step, GraphStep, UnifyCells, UnifyAtCollapse, UnifyAtSwap,
                 UnifyAtSelf, UnifyAtMerge, CollapseDone, CollapseInPlace,
                 CollapseFresh, AbsorbTypes, AbsorbCollapses, AbsorbMarks, MoveLink,
                 AllLinksMoved, AddLinkUnifies, AddLinkSets, BindCell,
                 BindLinkTarget, LoadFindsLink, LoadMakesLink, Running
        <4> QED
          BY <3>1, <4>1, <4>3, AccessTyped
      <3> QED
        BY <3>2, <3>3
    <2> QED
      BY <1>1, <2>1, <2>2 DEF Typed
  <1> QED
    BY <1>2, <1>3, <1>4 DEF Next

\* an access sets out with its type in hand
LEMMA AccessAdded ==
    ASSUME Visit, NEW i \in Accesses' \ Accesses
    PROVE  /\ i.p \in Value /\ Bound(i.p) /\ UNCHANGED cell
           /\ WidthOf(i) \in Nat \ {0}
           /\ \E x : On(x, stack') /\ x = Access(cell[i.p], WidthOf(i))
  <1>1. i \in prog' \ prog /\ i.op \in {"touch", "load", "store"}
    BY DEF Accesses
  <1>2. CASE i.op \in LinkedOp
    <2>1. PICK v \in Value, p \in Value, ty \in FieldType :
              \/ VisitLoad(v, p, ty) /\ i = [op |-> "load", v |-> v, p |-> p, ty |-> ty]
              \/ VisitStore(v, p, ty) /\ i = [op |-> "store", v |-> v, p |-> p, ty |-> ty]
      BY <1>1, <1>2, VisitAddsLinked
    <2>2. i.p = p /\ i.op # "touch"
      BY <2>1
    <2>3. WidthOf(i) = PtrWidth /\ PtrWidth \in Nat \ {0}
      BY <2>2, WidthAssumption DEF WidthOf
    <2>4. PICK x, y, z : /\ x = Access(cell[p], PtrWidth)
                         /\ y = Load(v, cell[p], ty)
                         /\ z = AddLink(cell[p], ty, cell[v])
      OBVIOUS
    <2>5. /\ UNCHANGED cell /\ Bound(p)
          /\ stack' = <<x, y>> \/ stack' = <<x, z>>
      BY <2>1, <2>4 DEF VisitLoad, VisitStore, Call
    <2>6. On(x, stack')
      BY <2>5, TwoStacked
    <2> QED
      BY <2>2, <2>3, <2>4, <2>5, <2>6
  <1>3. CASE i.op \notin LinkedOp
    <2>1. i.op = "touch"
      BY <1>1, <1>3 DEF LinkedOp
    <2>2. PICK p \in Value, width \in ScalarWidth, mark \in {"read", "modified"} :
                 /\ VisitScalarAccess(p, width, mark)
                 /\ i = [op |-> "touch", p |-> p, mark |-> mark, width |-> width]
      BY <1>1, <2>1, VisitAddsOther DEF LinkedOp
    <2>3. i.p = p /\ WidthOf(i) = width /\ width \in Nat \ {0}
      BY <2>2, WidthAssumption DEF WidthOf
    <2>4. PICK x : x = Access(cell[p], width)
      OBVIOUS
    <2>5. UNCHANGED cell /\ Bound(p) /\ stack' = <<x>>
      BY <2>2, <2>4 DEF VisitScalarAccess, Call
    <2>6. On(x, stack')
      BY <2>5, OneStacked
    <2> QED
      BY <2>3, <2>4, <2>5, <2>6
  <1> QED
    BY <1>2, <1>3

\* the type of every access is where its cell is, up to what pending calls do
LEMMA NextAccesses ==
    ASSUME KeptInv, Inv', AbsorbsFirst, AccessesBound, TypedForeseen, [Next]_vars
    PROVE  AccessesBound' /\ TypedForeseen'
  <1>0. Inv /\ ClientsLast
    BY DEF KeptInv
  <1>1. \A i \in Accesses' \ Accesses : Visit
    BY StepsVisitNothing DEF Accesses
  <1>2. AccessesBound'
    <2> SUFFICES ASSUME NEW i \in Accesses'
                 PROVE  i.p \in Value /\ Bound(i.p)' /\ WidthOf(i) \in Nat \ {0}
      BY DEF AccessesBound, Bound, WidthOf
    <2>1. CASE i \in Accesses
      BY <1>0, <2>1, CellsStay DEF AccessesBound
    <2>2. CASE i \notin Accesses
      BY <1>1, <2>2, AccessAdded DEF Bound
    <2> QED
      BY <2>1, <2>2
  <1>3. TypedForeseen'
    <2> SUFFICES ASSUME NEW E \in CellMap, Foresees(E)', NEW i \in Accesses'
                 PROVE  Typed(E, cell[i.p], WidthOf(i))'
      BY DEF TypedForeseen
    <2>0. PICK c, w : c = cell'[i.p] /\ w = WidthOf(i)
      OBVIOUS
    <2> SUFFICES Typed(E, c, w)'
      BY <2>0 DEF Typed, InTypes, InAccess, Flat, WidthOf, Shifted
    <2>1. Foresees(E) /\ Respects(E) /\ MovesAlong(E)
      BY ForeseesBack
    <2>2. \A f : On(f, stack') => Pledged(f, E)
      BY DEF Foresees, On, Pledged
    <2>3. CASE i \in Accesses
      <3>1. i.p \in Value /\ Bound(i.p)
        BY <2>3 DEF AccessesBound
      <3>2. c = cell[i.p]
        BY <1>0, <2>0, <3>1, CellsStay
      <3>3. c \in CellIn(Node)
        <4>1. cell[i.p] \in CellIn(nodes)
          BY <1>0, <3>1, BoundType DEF Inv
        <4>2. nodes \subseteq Node
          BY <1>0 DEF Inv, TypeOK
        <4> QED
          BY <3>2, <4>1, <4>2 DEF CellIn
      <3>4. Typed(E, c, w)
        BY <2>0, <2>1, <2>3, <3>2 DEF TypedForeseen
      <3> QED
        BY <1>0, <2>1, <2>2, <3>3, <3>4, NextTyped
    <2>4. CASE i \notin Accesses
      <3>1. Visit
        BY <1>1, <2>4
      <3>2. PICK x : On(x, stack') /\ x = Access(c, w)
        BY <2>0, <2>4, <3>1, AccessAdded
      <3>3. InAccess(x, E, c, w)
        BY <3>2 DEF InAccess, Access
      <3> QED
        BY <3>2, <3>3 DEF Typed, InAccess, On
    <2> QED
      BY <2>3, <2>4
  <1> QED
    BY <1>2, <1>3


-----------------------------------------------------------------------------
(* Distances.                                                               *)

\* offset x of node r may be taken for the one k units after y
Spaced(r, x, y, k) ==
    \/ IsCollapsed(r)
    \/ x = y + k
    \/ IsArray(r) /\ \E q \in Int : x = (y + k) + size[r] * q

\* c denotes memory that may lie k units after that of d
Near(c, d, k) ==
    /\ Address(c).node = Address(d).node
    /\ Spaced(Address(c).node, Address(c).off, Address(d).off, k)

\* distances add up
LEMMA SpacedAdds ==
    ASSUME Inv, NEW r \in Node, NEW x \in Int, NEW y \in Int, NEW z \in Int,
           NEW k \in Int, NEW j \in Int, Spaced(r, x, y, k), Spaced(r, y, z, j)
    PROVE  Spaced(r, x, z, j + k)
  <1> SUFFICES ASSUME ~IsCollapsed(r)
               PROVE  Spaced(r, x, z, j + k)
    BY DEF Spaced
  <1>1. CASE x = y + k /\ y = z + j
    BY <1>1 DEF Spaced
  <1>2. CASE ~(x = y + k /\ y = z + j)
    <2>1. IsArray(r)
      BY <1>2 DEF Spaced
    <2>2. PICK s \in Int : s = size[r]
      BY DEF Inv, TypeOK
    <2>3. s * 0 = 0
      BY <2>2
    <2>4. PICK q \in Int : x = (y + k) + s * q
      BY <2>2, <2>3 DEF Spaced
    <2>5. PICK p \in Int : y = (z + j) + s * p
      BY <2>2, <2>3 DEF Spaced
    <2>6. PICK a \in Int, b \in Int, c \in Int : a = s * q /\ b = s * p /\ c = s * (q + p)
      BY <2>2
    <2>7. c = a + b
      BY <2>2, <2>6, Distributes
    <2>8. x = (z + (j + k)) + c
      BY <2>4, <2>5, <2>6, <2>7
    <2>9. q + p \in Int
      OBVIOUS
    <2> QED
      BY <2>1, <2>2, <2>6, <2>8, <2>9 DEF Spaced
  <1> QED
    BY <1>1, <1>2

\* and are the same backwards
LEMMA SpacedBack ==
    ASSUME Inv, NEW r \in Node, NEW x \in Int, NEW y \in Int, NEW k \in Int,
           Spaced(r, x, y, k)
    PROVE  Spaced(r, y, x, -k)
  <1>1. CASE IsCollapsed(r) \/ x = y + k
    BY <1>1 DEF Spaced
  <1>2. CASE ~IsCollapsed(r) /\ x # y + k
    <2>1. IsArray(r)
      BY <1>2 DEF Spaced
    <2>2. PICK s \in Int : s = size[r]
      BY DEF Inv, TypeOK
    <2>3. PICK q \in Int : x = (y + k) + s * q
      BY <1>2, <2>2 DEF Spaced
    <2>4. PICK a \in Int, b \in Int, p \in Int : a = s * q /\ p = -q /\ b = s * p
      BY <2>2
    <2>5. a + b = s * (q + p)
      BY <2>2, <2>4, Distributes
    <2>6. q + p = 0 /\ s * 0 = 0
      BY <2>2, <2>4
    <2>7. a + b = 0
      BY <2>5, <2>6
    <2>8. y = (x + (-k)) + b
      BY <2>3, <2>4, <2>7
    <2> QED
      BY <2>1, <2>2, <2>4, <2>8 DEF Spaced
  <1> QED
    BY <1>1, <1>2

\* what is shown of an offset is where it is
LEMMA NumericSpaced ==
    ASSUME Inv, NEW r \in Node, NEW a \in Nat
    PROVE  Numeric(r, a) \in Nat /\ Spaced(r, Numeric(r, a), a, 0)
  <1>1. PICK x \in Nat : x = Numeric(r, a)
    BY NumericIsNat DEF Inv
  <1>2. CASE IsCollapsed(r) \/ ~IsArray(r)
    BY <1>1, <1>2 DEF Spaced, Numeric
  <1>3. CASE ~IsCollapsed(r) /\ IsArray(r)
    <2>1. PICK s \in Nat \ {0} : s = size[r]
      BY <1>3 DEF Inv, ArraysHaveSize, TypeOK
    <2>2. x = a % s
      BY <1>1, <1>3, <2>1 DEF Numeric
    <2>3. PICK q \in Int, u \in 0 .. (s - 1) : a = s * q + u /\ a % s = u
      BY Quotient
    <2>4. PICK b \in Int, c \in Int, p \in Int : b = s * q /\ p = -q /\ c = s * p
      BY <2>1
    <2>5. b + c = s * (q + p)
      BY <2>4, Distributes
    <2>6. q + p = 0 /\ s * 0 = 0
      BY <2>1, <2>4
    <2>7. b + c = 0
      BY <2>5, <2>6
    <2>8. x = (a + 0) + c
      BY <2>2, <2>3, <2>4, <2>7
    <2> QED
      BY <1>1, <1>3, <2>1, <2>4, <2>8 DEF Spaced
  <1> QED
    BY <1>1, <1>2, <1>3

\* an array repeats at each multiple of its size
LEMMA StrideSpaced ==
    ASSUME Inv, NEW r \in Node, NEW x \in Int, NEW t \in Nat, NEW j \in Int,
           IsCollapsed(r) \/ (IsArray(r) /\ t % size[r] = 0)
    PROVE  Spaced(r, x, x, j * t)
  <1>1. CASE IsCollapsed(r)
    BY <1>1 DEF Spaced
  <1>2. CASE IsArray(r) /\ t % size[r] = 0
    <2>1. PICK s \in Nat \ {0} : s = size[r]
      BY <1>2 DEF Inv, ArraysHaveSize, TypeOK
    <2>2. PICK q \in Int, u \in 0 .. (s - 1) : t = s * q + u /\ t % s = u
      BY Quotient, ZenonT(20)
    <2>3. u = 0
      BY <1>2, <2>1, <2>2
    <2>4. PICK y \in Int : y = s * q
      BY <2>1
    <2>5. t = s * q
      BY <2>2, <2>3, <2>4
    <2>6. PICK p \in Int, l \in Int : p = -j /\ l = q * p
      OBVIOUS
    <2>7. (s * q) * p = s * l
      BY <2>1, <2>6, Associates
    <2>8. t * p = s * l
      BY <2>5, <2>7
    <2>9. PICK a \in Int, b \in Int : a = j * t /\ b = t * p
      BY <2>6
    <2>10. a + b = 0
      <3>1. t * (j + p) = t * j + t * p
        BY <2>6, Distributes
      <3>2. j + p = 0 /\ t * 0 = 0 /\ t * j = j * t
        BY <2>6
      <3> QED
        BY <2>9, <3>1, <3>2
    <2>11. x = (x + a) + b
      BY <2>10
    <2> QED
      BY <1>2, <2>1, <2>6, <2>8, <2>9, <2>11 DEF Spaced
  <1> QED
    BY <1>1, <1>2

\* the address of a cell, in parts
LEMMA AddressParts ==
    ASSUME Inv, NEW c \in CellIn(Node)
    PROVE  /\ Address(c).node \in Node /\ Address(c).off \in Nat
           /\ Root(Address(c).node) = Address(c).node
           /\ Address(c) = At(Address(c).node, Address(c).off)
           /\ ~IsCollapsed(Address(c).node) /\ IsArray(Address(c).node)
                 => Address(c).off < size[Address(c).node]
  <1>1. PICK r \in Node, a \in Nat : Resolve(c) = At(r, a) /\ Root(r) = r
    BY PlaceOf
  <1>2. PICK o \in Nat : o = Numeric(r, a)
    BY NumericIsNat DEF Inv
  <1>3. Address(c) = At(r, o)
    BY <1>1, <1>2 DEF Address, At
  <1>4. Address(c).node = r /\ Address(c).off = o
    BY <1>3, AtType
  <1>5. ASSUME ~IsCollapsed(r), IsArray(r)
        PROVE  o < size[r]
    <2>1. PICK s \in Nat \ {0} : s = size[r]
      BY <1>5 DEF Inv, ArraysHaveSize, TypeOK
    <2>2. o = a % s
      BY <1>2, <1>5, <2>1 DEF Numeric
    <2> QED
      BY <2>1, <2>2
  <1> QED
    BY <1>1, <1>3, <1>4, <1>5

\* a cell that is moved is at its distance from where it was
LEMMA ShiftedNear ==
    ASSUME Inv, NEW c \in CellIn(Node), NEW k \in Nat
    PROVE  Near(Shifted(c, k), c, k)
  <1>1. PICK r \in Node, a \in Nat :
           /\ Resolve(c) = At(r, a) /\ Root(r) = r
           /\ r = Root(c.node) /\ a = fwd[c.node].off + c.off
    BY PlaceOf
  <1>2. PICK b \in Nat : b = a + k
    OBVIOUS
  <1>3. Resolve(Shifted(c, k)) = At(r, b)
    BY <1>1, <1>2, ShiftedReads
  <1>4. PICK x \in Nat, y \in Nat : x = Numeric(r, b) /\ y = Numeric(r, a)
    BY NumericSpaced
  <1>5. Address(Shifted(c, k)) = At(r, x) /\ Address(c) = At(r, y)
    BY <1>1, <1>3, <1>4 DEF Address, At
  <1>6. Spaced(r, x, b, 0) /\ Spaced(r, y, a, 0)
    BY <1>4, NumericSpaced
  <1>7. Spaced(r, b, a, k)
    BY <1>2 DEF Spaced
  <1>8. Spaced(r, a, y, 0)
    <2>1. Spaced(r, a, y, -0)
      BY <1>6, SpacedBack
    <2> QED
      BY <2>1
  <1>9. Spaced(r, b, y, k)
    <2>1. Spaced(r, b, y, 0 + k)
      BY <1>7, <1>8, SpacedAdds
    <2> QED
      BY <2>1
  <1>10. Spaced(r, x, y, k)
    <2>1. Spaced(r, x, y, k + 0)
      BY <1>6, <1>9, SpacedAdds
    <2> QED
      BY <2>1
  <1> QED
    BY <1>5, <1>10, AtType DEF Near

\* distances of cells add up
LEMMA NearAdds ==
    ASSUME Inv, NEW c \in CellIn(Node), NEW d \in CellIn(Node), NEW e \in CellIn(Node),
           NEW k \in Int, NEW j \in Int, Near(c, d, k), Near(d, e, j)
    PROVE  Near(c, e, j + k)
  <1>1. PICK r \in Node, x \in Nat, y \in Nat, z \in Nat :
           /\ Address(c).node = r /\ Address(c).off = x
           /\ Address(d).off = y /\ Address(e).off = z
    BY AddressParts
  <1>2. Address(d).node = r /\ Address(e).node = r
    BY <1>1 DEF Near
  <1>3. Spaced(r, x, y, k) /\ Spaced(r, y, z, j)
    BY <1>1, <1>2 DEF Near
  <1>4. Spaced(r, x, z, j + k)
    BY <1>3, SpacedAdds
  <1> QED
    BY <1>1, <1>2, <1>4 DEF Near

\* backwards
LEMMA NearBack ==
    ASSUME Inv, NEW c \in CellIn(Node), NEW d \in CellIn(Node), NEW k \in Int,
           Near(c, d, k)
    PROVE  Near(d, c, -k)
  <1>1. PICK r \in Node, x \in Nat, y \in Nat :
           Address(c).node = r /\ Address(c).off = x /\ Address(d).off = y
    BY AddressParts
  <1>2. Address(d).node = r /\ Spaced(r, x, y, k)
    BY <1>1 DEF Near
  <1>3. Spaced(r, y, x, -k)
    BY <1>2, SpacedBack
  <1> QED
    BY <1>1, <1>2, <1>3 DEF Near

\* cells that denote the same memory are at no distance
LEMMA SameNear ==
    ASSUME Inv, NEW c \in CellIn(Node), NEW d \in CellIn(Node), SameCell(c, d)
    PROVE  Near(c, d, 0)
  <1>1. PICK x \in Nat : x = Address(c).off
    BY AddressParts
  <1>2. x = x + 0
    OBVIOUS
  <1> QED
    BY <1>1, <1>2 DEF Near, Spaced, SameCell

\* a pointer with a cell, and its cell
LEMMA CellOf ==
    ASSUME Inv, NEW v \in Value, Bound(v)
    PROVE  cell[v] \in CellIn(Node) /\ cell[v] # NoCell
  <1>1. cell[v] \in CellIn(nodes)
    BY BoundType DEF Inv
  <1>2. nodes \subseteq Node
    BY DEF Inv, TypeOK
  <1> QED
    BY <1>1, <1>2 DEF CellIn, Bound

\* the distances of a GEP from its base are numbers
LEMMA GepDistance ==
    ASSUME GepsBound, NEW i \in prog, i.op = "gep", NEW m \in Multiples
    PROVE  /\ i.v \in Value /\ i.p \in Value /\ Bound(i.v) /\ Bound(i.p)
           /\ i.k + m * i.stride \in Int
  <1>1. /\ i.v \in Value /\ i.p \in Value /\ Bound(i.v) /\ Bound(i.p)
        /\ i.k \in Int /\ i.stride \in Nat
    BY DEF GepsBound
  <1>2. m \in Int
    BY MultipleAssumption DEF Multiples
  <1> QED
    BY <1>1, <1>2

\* the result of a GEP lies at each of its distances from the base that are seen
LEMMA GepNear ==
    ASSUME Inv, Idle, GepsBound, GepsKept, StridesKept,
           NEW i \in prog, i.op = "gep", NEW m \in Multiples, m = 0 \/ ~Blind(i)
    PROVE  /\ i.v \in Value /\ i.p \in Value /\ Bound(i.v) /\ Bound(i.p)
           /\ i.k + m * i.stride \in Int
           /\ Near(cell[i.v], cell[i.p], i.k + m * i.stride)
  <1>1. /\ i.v \in Value /\ i.p \in Value /\ Bound(i.v) /\ Bound(i.p)
        /\ i.k \in Int /\ i.stride \in Nat
    BY DEF GepsBound
  <1>2. PICK c \in CellIn(Node), d \in CellIn(Node) : c = cell[i.v] /\ d = cell[i.p]
    BY <1>1, CellOf
  <1>3. PICK k \in Int, t \in Nat : k = i.k /\ t = i.stride
    BY <1>1
  <1>4. m \in Int
    BY MultipleAssumption DEF Multiples
  <1>5. PICK j \in Int : j = m * t
    BY <1>4
  <1>6. Near(c, d, k)
    <2>1. CASE k >= 0
      <3>1. SameCell(c, Shifted(d, k))
        BY <1>2, <1>3, <2>1 DEF GepsKept
      <3>2. Shifted(d, k) \in CellIn(Node) /\ Near(Shifted(d, k), d, k)
        BY <2>1, ShiftedType, ShiftedNear
      <3>3. Near(c, Shifted(d, k), 0)
        BY <3>1, <3>2, SameNear
      <3>4. Near(c, d, k + 0)
        BY <3>2, <3>3, NearAdds
      <3> QED
        BY <3>4
    <2>2. CASE ~(k >= 0)
      <3>1. PICK b \in Nat : b = -k
        BY <2>2
      <3>2. SameCell(Shifted(c, b), d)
        BY <1>2, <1>3, <2>2, <3>1 DEF GepsKept
      <3>3. Shifted(c, b) \in CellIn(Node) /\ Near(Shifted(c, b), c, b)
        BY ShiftedType, ShiftedNear
      <3>4. Near(c, Shifted(c, b), -b)
        BY <3>3, NearBack
      <3>5. Near(Shifted(c, b), d, 0)
        BY <3>2, <3>3, SameNear
      <3>6. Near(c, d, 0 + (-b))
        BY <3>3, <3>4, <3>5, NearAdds
      <3> QED
        BY <3>1, <3>6
    <2> QED
      BY <2>1, <2>2
  <1>7. Near(d, d, j)
    <2>1. PICK r \in Node, x \in Nat : r = Address(d).node /\ x = Address(d).off
      BY AddressParts
    <2>2. CASE j = 0
      BY <2>2, SameNear DEF SameCell
    <2>3. CASE j # 0
      <3>1. t # 0
        BY <1>4, <1>5, <2>3
      <3>2. m # 0
        BY <1>5, <2>3
      <3>3. IsCollapsed(r) \/ (IsArray(r) /\ t % size[r] = 0)
        <4>1. CASE k >= 0
          BY <1>2, <1>3, <2>1, <3>1, <4>1 DEF StridesKept
        <4>2. CASE k < 0
          BY <1>2, <1>3, <2>1, <3>1, <3>2, <4>2 DEF Blind
        <4> QED
          BY <4>1, <4>2
      <3>4. Spaced(r, x, x, j)
        BY <1>4, <1>5, <3>3, StrideSpaced
      <3> QED
        BY <2>1, <3>4 DEF Near
    <2> QED
      BY <2>2, <2>3
  <1>8. Near(c, d, j + k)
    BY <1>6, <1>7, NearAdds
  <1>9. j + k = k + j
    OBVIOUS
  <1> QED
    BY <1>1, <1>2, <1>3, <1>5, <1>8, <1>9

\* the pointers that a PHI or a select makes one have one cell
LEMMA SameTogether ==
    ASSUME Inv, Idle, SamesPending, SamesForeseen, NEW i \in prog, i.op = "same"
    PROVE  /\ i.v \in Value /\ i.p \in Value /\ Bound(i.v) /\ Bound(i.p)
           /\ SameCell(cell[i.v], cell[i.p]) /\ Near(cell[i.v], cell[i.p], 0)
  <1>1. \A f : ~On(f, stack)
    BY NoCalls
  <1>2. i.v \in Value /\ i.p \in Value /\ Bound(i.v) /\ Bound(i.p)
    BY <1>1 DEF SamesPending, SelectComes
  <1>3. PICK c \in CellIn(Node), d \in CellIn(Node) : c = cell[i.v] /\ d = cell[i.p]
    BY <1>2, CellOf
  <1>4. PICK E : E = [e \in CellIn(Node) |-> Address(e)]
    OBVIOUS
  <1>5. E \in CellMap /\ Foresees(E)
    BY <1>4, AddressForesees
  <1>6. E[c] = E[d]
    BY <1>2, <1>3, <1>5 DEF SamesForeseen
  <1>7. SameCell(c, d)
    BY <1>4, <1>6 DEF SameCell
  <1> QED
    BY <1>2, <1>3, <1>7, SameNear

-----------------------------------------------------------------------------
(* What is computed from a pointer.                                         *)

\* what GEPs, PHIs and selects have been asked for is there
Settled ==
    Inv /\ Idle /\ GepsBound /\ GepsKept /\ StridesKept /\ SamesPending /\ SamesForeseen

\* a pointer, and the distance from b at which it lies unless it is owed to blind GEPs
CloseTo(b) ==
    {x \in Value \X Int \X SUBSET prog :
        x[3] = {} /\ Bound(x[1]) => Bound(b) /\ Near(cell[x[1]], cell[b], x[2])}

\* an element of a union
LEMMA InUnion ==
    ASSUME NEW A, NEW B, NEW M, M = (UNION A) \cup B, NEW m \in M
    PROVE  m \in B \/ \E X \in A : m \in X
  OBVIOUS

\* each move goes by its distance
LEMMA MovesNear ==
    ASSUME Settled, NEW m \in Moves
    PROVE  /\ m.v \in Value /\ m.p \in Value /\ m.d \in Int /\ m.unseen \in SUBSET prog
           /\ Bound(m.v) /\ Bound(m.p)
           /\ m.unseen = {} => Near(cell[m.v], cell[m.p], m.d)
  <1> DEFINE ByGep(i) == {[v |-> i.v, p |-> i.p, d |-> i.k + x * i.stride,
                           unseen |-> IF x # 0 /\ Blind(i) THEN {i} ELSE {}] : x \in Multiples}
             Geps == {j \in prog : j.op = "gep"}
             BySame == {[v |-> i.v, p |-> i.p, d |-> 0, unseen |-> {}] :
                             i \in {j \in prog : j.op = "same"}}
  <1>0. Moves = (UNION {ByGep(i) : i \in Geps}) \cup BySame
    BY Zenon DEF Moves
  <1>1. CASE \E i \in Geps : m \in ByGep(i)
    <2>1. PICK i \in prog : i.op = "gep" /\ m \in ByGep(i)
      BY <1>1
    <2>2. PICK x \in Multiples :
             m = [v |-> i.v, p |-> i.p, d |-> i.k + x * i.stride,
                  unseen |-> IF x # 0 /\ Blind(i) THEN {i} ELSE {}]
      BY <2>1
    <2>3. m.v = i.v /\ m.p = i.p /\ m.d = i.k + x * i.stride
      BY <2>2
    <2>4. m.unseen = IF x # 0 /\ Blind(i) THEN {i} ELSE {}
      BY <2>2
    <2>5. /\ i.v \in Value /\ i.p \in Value /\ Bound(i.v) /\ Bound(i.p)
          /\ i.k + x * i.stride \in Int
      BY <2>1, GepDistance DEF Settled
    <2>6. m.unseen = {} => Near(cell[m.v], cell[m.p], m.d)
      BY <2>1, <2>3, <2>4, GepNear DEF Settled
    <2> QED
      BY <2>3, <2>4, <2>5, <2>6
  <1>2. CASE m \in BySame
    <2>1. PICK i \in prog :
             i.op = "same" /\ m = [v |-> i.v, p |-> i.p, d |-> 0, unseen |-> {}]
      BY <1>2
    <2>2. m.v = i.v /\ m.p = i.p /\ m.d = 0 /\ m.unseen = {}
      BY <2>1
    <2> QED
      BY <2>1, <2>2, SameTogether DEF Settled
  <1>3. (\E i \in Geps : m \in ByGep(i)) \/ m \in BySame
    <2>1. PICK A, B : A = {ByGep(i) : i \in Geps} /\ B = BySame
      OBVIOUS
    <2>2. m \in B \/ \E X \in A : m \in X
      BY <1>0, <2>1, InUnion
    <2> QED
      BY <2>1, <2>2
  <1> QED
    BY <1>1, <1>2, <1>3

\* a move from where b may be leads where b may be
LEMMA FurtherClose ==
    ASSUME Settled, NEW b \in Value, NEW S \in SUBSET CloseTo(b)
    PROVE  Further(S) \in SUBSET CloseTo(b)
  <1> SUFFICES ASSUME NEW y \in Further(S), y \notin S
               PROVE  y \in CloseTo(b)
    OBVIOUS
  <1>1. PICK m \in Moves :
           y \in {<<m.v, x[2] + m.d, x[3] \cup m.unseen>> : x \in {z \in S : z[1] = m.p}}
    BY DEF Further
  <1>2. PICK x \in S : x[1] = m.p /\ y = <<m.v, x[2] + m.d, x[3] \cup m.unseen>>
    BY <1>1
  <1>3. /\ x[1] \in Value /\ x[2] \in Int /\ x[3] \in SUBSET prog
        /\ x[3] = {} /\ Bound(x[1]) => Bound(b) /\ Near(cell[x[1]], cell[b], x[2])
    BY DEF CloseTo
  <1>4. PICK v \in Value, p \in Value, d \in Int, s \in SUBSET prog :
           /\ v = m.v /\ p = m.p /\ d = m.d /\ s = m.unseen
           /\ Bound(v) /\ Bound(p)
           /\ s = {} => Near(cell[v], cell[p], d)
    BY MovesNear
  <1>5. PICK k \in Int, u \in SUBSET prog : k = x[2] /\ u = x[3]
    BY <1>3
  <1>6. y = <<v, k + d, u \cup s>>
    BY <1>2, <1>4, <1>5
  <1>7. y \in Value \X Int \X SUBSET prog
    <2>1. k + d \in Int /\ u \cup s \in SUBSET prog
      OBVIOUS
    <2> QED
      BY <1>6, <2>1
  <1>8. ASSUME u \cup s = {}
        PROVE  Bound(b) /\ Near(cell[v], cell[b], k + d)
    <2>1. u = {} /\ s = {}
      BY <1>8
    <2>2. Bound(b) /\ Near(cell[p], cell[b], k) /\ Near(cell[v], cell[p], d)
      BY <1>2, <1>3, <1>4, <1>5, <2>1
    <2>3. cell[v] \in CellIn(Node) /\ cell[p] \in CellIn(Node) /\ cell[b] \in CellIn(Node)
      BY <1>4, <2>2, CellOf DEF Settled
    <2> QED
      BY <2>2, <2>3, NearAdds DEF Settled
  <1> QED
    BY <1>6, <1>7, <1>8 DEF CloseTo

\* what is computed from b lies where it should
LEMMA ComputedClose ==
    ASSUME Settled, NEW b \in Value
    PROVE  ComputedFrom(b) \in SUBSET CloseTo(b)
  <1> DEFINE S == SUBSET CloseTo(b)
             F == [X \in S |-> Further(X)]
             step(f) == [n \in Nat |->
                            IF n = 0 THEN {<<b, 0, {}>>} ELSE Further(f[n - 1])]
             u == CHOOSE f : f = step(f)
  <1>1. {<<b, 0, {}>>} \in S
    <2>1. PICK x : x = <<b, 0, {}>>
      OBVIOUS
    <2>3. x[1] = b /\ x[2] = 0 /\ x \in Value \X Int \X SUBSET prog
      BY <2>1
    <2>2. ASSUME Bound(b)
          PROVE  Near(cell[b], cell[b], 0)
      BY <2>2, CellOf, SameNear DEF Settled, SameCell
    <2>4. x \in CloseTo(b)
      BY <2>2, <2>3 DEF CloseTo
    <2> QED
      BY <2>1, <2>4
  <1>2. \A X \in S : Further(X) \in S
    BY FurtherClose
  <1>3. F \in [S -> S] /\ \A X \in S : F[X] = Further(X)
    BY <1>2
  <1> HIDE DEF S, F
  <1>4. PICK g : Iterating(g, S, {<<b, 0, {}>>}, F)
    BY <1>1, <1>3, Iterates
  <1>5. /\ g \in [Nat -> S] /\ g[0] = {<<b, 0, {}>>}
        /\ \A n \in Nat : g[n + 1] = F[g[n]]
    BY <1>4 DEF Iterating
  <1>6. g = step(g)
    <2>1. ASSUME NEW n \in Nat, n # 0
          PROVE  g[n] = Further(g[n - 1])
      <3>1. PICK k \in Nat : k = n - 1 /\ k + 1 = n
        BY <2>1
      <3>2. g[k + 1] = F[g[k]] /\ g[k] \in S
        BY <1>5
      <3> QED
        BY <1>3, <3>1, <3>2
    <2> QED
      BY <1>5, <2>1
  <1>7. u = step(u)
    BY <1>6
  <1>8. ComputedFrom(b) = u[Cardinality(Value)]
    BY DEF ComputedFrom
  <1> HIDE DEF u
  <1>9. u[0] = {<<b, 0, {}>>} /\ \A n \in Nat : u[n + 1] = Further(u[n])
    <2>1. u[0] = {<<b, 0, {}>>}
      BY <1>7
    <2>2. ASSUME NEW n \in Nat
          PROVE  u[n + 1] = Further(u[n])
      <3>1. PICK k \in Nat : k = n + 1 /\ k # 0 /\ k - 1 = n
        OBVIOUS
      <3>2. u[k] = Further(u[k - 1])
        BY <1>7, <3>1
      <3> QED
        BY <3>1, <3>2
    <2> QED
      BY <2>1, <2>2
  <1> DEFINE P == {n \in Nat : u[n] \in S}
  <1>10. 0 \in P /\ \A n \in P : n + 1 \in P
    <2>1. 0 \in P
      BY <1>1, <1>9
    <2>2. ASSUME NEW n \in P
          PROVE  n + 1 \in P
      <3>1. u[n] \in S /\ n \in Nat /\ n + 1 \in Nat
        OBVIOUS
      <3>2. Further(u[n]) \in S
        BY <1>2, <3>1
      <3> QED
        BY <1>9, <3>1, <3>2
    <2> QED
      BY <2>1, <2>2
  <1>11. P = Nat
    <2> HIDE DEF P
    <2>1. P \in SUBSET Nat
      BY DEF P
    <2> QED
      BY <1>10, <2>1, SetInduction
  <1>12. Cardinality(Value) \in Nat
    BY ValueAssumption, FS_CardinalityType
  <1>13. u[Cardinality(Value)] \in S
    BY <1>11, <1>12
  <1> QED
    BY <1>8, <1>13 DEF S

-----------------------------------------------------------------------------
(* Accesses that meet.                                                      *)

\* the type of an access made through c is where c is
TypeAt(c, w) ==
    \/ IsCollapsed(Address(c).node)
    \/ /\ w \in AccessedSizes(Address(c).node, Address(c).off)
       /\ Address(c).off + w <= size[Address(c).node]
    \/ IsArray(Address(c).node) /\ size[Address(c).node] = 1

\* where the type of an access is found once nothing is pending
LEMMA TypedAt ==
    ASSUME Inv, Idle, TypesFit, NEW E, E = [c \in CellIn(Node) |-> Address(c)],
           NEW c \in CellIn(Node), NEW w \in Nat \ {0}, Typed(E, c, w)
    PROVE  TypeAt(c, w)
  <1>1. PICK r \in Node, o \in Nat : r = Address(c).node /\ o = Address(c).off
    BY AddressParts
  <1>2. Address(c) = At(r, o)
    BY <1>1, AddressParts
  <1>3. CASE InTypes(E, c, w)
    <2>1. PICK n \in Node : Live(n) /\ \E e \in types[n] :
                               e.width = w /\ E[At(n, e.off)] = E[c]
      BY <1>3 DEF InTypes
    <2>2. PICK e \in types[n] : e.width = w /\ E[At(n, e.off)] = E[c]
      BY <2>1
    <2>3. PICK a \in Nat : a = e.off
      BY DEF Inv, TypeOK, Extent
    <2>4. Root(n) = n
      BY <2>1 DEF Live, Idle, IsForwarding
    <2>5. At(n, a) \in CellIn(Node)
      BY AtType
    <2>6. Address(At(n, a)) = Address(c)
      BY <2>2, <2>3, <2>5
    <2>7. PICK x \in Nat : x = Numeric(n, a) /\ Address(At(n, a)) = At(n, x)
      BY <2>4, RootReads, NumericSame
    <2>8. n = r /\ x = o
      <3>1. At(n, x) = At(r, o)
        BY <1>2, <2>6, <2>7
      <3> QED
        BY <3>1 DEF At
    <2>9. a + w <= size[n]
      BY <2>2, <2>3 DEF TypesFit
    <2>10. CASE ~IsCollapsed(n)
      <3>1. PICK s \in Nat : s = size[n]
        BY DEF Inv, TypeOK
      <3>2. a \in 0 .. (s - 1) /\ s > 0
        BY <2>9, <3>1
      <3>3. Numeric(n, a) = a
        <4>1. a % s = a
          BY <3>1, <3>2
        <4> QED
          BY <2>10, <3>1, <4>1 DEF Numeric
      <3>4. Numeric(n, a) = a /\ a = o
        BY <2>7, <2>8, <3>3
      <3>5. e \in {x_1 \in types[r] : x_1.off = Numeric(r, o)}
        BY <2>3, <2>8, <3>4
      <3>6. w \in AccessedSizes(r, o)
        BY <2>2, <3>5 DEF AccessedSizes
      <3> QED
        BY <1>1, <2>8, <2>9, <3>4, <3>6 DEF TypeAt
    <2> QED
      BY <1>1, <2>8, <2>10 DEF TypeAt
  <1>4. CASE Flat(E, c)
    <2>1. Shifted(c, 1) \in CellIn(Node)
      BY ShiftedType
    <2>2. E[Shifted(c, 1)] = E[c]
      BY <1>4 DEF Flat
    <2>3. SameCell(c, Shifted(c, 1))
      BY <2>1, <2>2 DEF SameCell
    <2>4. IsCollapsed(r) \/ (IsArray(r) /\ 1 % size[r] = 0)
      BY <1>1, <2>3, SizeDivides
    <2>5. CASE ~IsCollapsed(r) /\ IsArray(r)
      <3>1. PICK s \in Nat \ {0} : s = size[r]
        BY <2>5 DEF Inv, ArraysHaveSize, TypeOK
      <3>2. 1 % s = 0
        BY <2>4, <2>5, <3>1
      <3>3. PICK q \in Int, u \in 0 .. (s - 1) : 1 = s * q + u /\ 1 % s = u
        BY Quotient
      <3>4. s = 1
        <4>1. CASE s > 1
          <5>1. 1 % s = 1
            BY <4>1
          <5> QED
            BY <3>2, <5>1
        <4> QED
          BY <3>1, <4>1
      <3> QED
        BY <1>1, <2>5, <3>1, <3>4 DEF TypeAt
    <2> QED
      BY <1>1, <2>4, <2>5 DEF TypeAt
  <1>5. \A f : ~On(f, stack)
    BY NoCalls
  <1> QED
    BY <1>3, <1>4, <1>5 DEF Typed

\* two offsets within an array are equal if they are so modulo its size
LEMMA NoWrap ==
    ASSUME NEW s \in Nat \ {0}, NEW q \in Int,
           NEW x \in 0 .. (s - 1), NEW y \in 0 .. (s - 1), x = y + s * q
    PROVE  x = y
  <1>1. s * 0 = 0 /\ s * q \in Int
    OBVIOUS
  <1>2. s * 0 + x = s * q + y
    BY <1>1
  <1> QED
    BY <1>2, RemainderUnique

\* the answer on two cells of which the second may be within the access made
\* through the first
LEMMA OverlapSeen ==
    ASSUME Inv, NEW r \in Node, NEW x \in Nat, NEW y \in Nat, NEW w \in Nat \ {0},
           NEW k \in Nat, k < w, Spaced(r, y, x, k), Numeric(r, x) = x,
           IsArray(r) /\ ~IsCollapsed(r) => x < size[r] /\ y < size[r],
           \/ IsCollapsed(r)
           \/ w \in AccessedSizes(r, x) /\ x + w <= size[r]
           \/ IsArray(r) /\ size[r] = 1
    PROVE  /\ x <= y => MayOverlap(r, x, y)
           /\ y <= x => MayOverlap(r, y, x)
  <1>1. CASE IsCollapsed(r)
    BY <1>1 DEF MayOverlap
  <1>2. ASSUME NEW z \in Nat
        PROVE  MayOverlap(r, z, z)
    <2> SUFFICES ASSUME OneSize(r, z)
                 PROVE  EndOf(r, z) >= z
      BY DEF MayOverlap
    <2>1. PICK s \in AccessedSizes(r, z) : AccessedSizes(r, z) = {s}
      BY DEF OneSize
    <2>2. s \in Nat
      BY <2>1 DEF AccessedSizes, Inv, TypeOK, Extent
    <2>3. EndOf(r, z) = z + s
      BY <2>1 DEF EndOf
    <2> QED
      BY <2>2, <2>3
  <1>3. CASE ~IsCollapsed(r) /\ IsArray(r) /\ size[r] = 1
    <2>1. x = 0 /\ y = 0
      BY <1>3
    <2> QED
      BY <1>2, <2>1
  <1>4. CASE ~IsCollapsed(r) /\ w \in AccessedSizes(r, x) /\ x + w <= size[r]
    <2>1. y = x + k
      <3>1. CASE ~(y = x + k)
        <4>1. IsArray(r)
          BY <1>4, <3>1 DEF Spaced
        <4>2. PICK s \in Nat \ {0} : s = size[r]
          BY <4>1 DEF Inv, ArraysHaveSize, TypeOK
        <4>3. PICK q \in Int : y = (x + k) + s * q
          BY <1>4, <3>1, <4>2 DEF Spaced
        <4>4. PICK z \in Nat : z = x + k
          OBVIOUS
        <4>5. y \in 0 .. (s - 1) /\ z \in 0 .. (s - 1)
          BY <1>4, <4>1, <4>2, <4>4
        <4>6. y = z
          BY <4>3, <4>4, <4>5, NoWrap
        <4> QED
          BY <4>4, <4>6
      <3> QED
        BY <3>1
    <2>2. CASE k = 0
      <3>1. y = x
        BY <2>1, <2>2
      <3> QED
        BY <1>2, <3>1
    <2>3. CASE k # 0
      <3>1. x <= y /\ ~(y <= x)
        BY <2>1, <2>3
      <3>2. MayOverlap(r, x, y)
        <4> SUFFICES ASSUME OneSize(r, x)
                     PROVE  EndOf(r, x) >= y
          BY DEF MayOverlap
        <4>1. AccessedSizes(r, x) = {w}
          BY <1>4 DEF OneSize
        <4>2. EndOf(r, x) = x + w
          BY <4>1 DEF EndOf
        <4> QED
          BY <2>1, <4>2
      <3> QED
        BY <3>1, <3>2
    <2> QED
      BY <2>2, <2>3
  <1> QED
    BY <1>1, <1>3, <1>4

\* the type of an access, where its cell is
AccessesTyped == Idle => \A i \in Accesses : TypeAt(cell[i.p], WidthOf(i))

\* two accesses of which one may be within the other
LEMMA AccessesMeet ==
    ASSUME Settled, AccessesBound, AccessesTyped,
           NEW b \in Value, NEW x \in ComputedFrom(b), NEW y \in ComputedFrom(b),
           NEW i \in Accesses, NEW j \in Accesses, i.p = x[1], j.p = y[1],
           x[2] <= y[2], y[2] < x[2] + WidthOf(i), x[3] = {}, y[3] = {}
    PROVE  alias(i.p, j.p) # "No" /\ alias(j.p, i.p) # "No"
  <1>0. Inv /\ Idle
    BY DEF Settled
  <1>1. PICK v \in Value, p \in Value, w \in Nat \ {0} :
           v = i.p /\ p = j.p /\ w = WidthOf(i) /\ Bound(v) /\ Bound(p)
    BY DEF AccessesBound
  <1>2. x \in CloseTo(b) /\ y \in CloseTo(b)
    BY ComputedClose
  <1>3. PICK k \in Int, l \in Int :
           k = x[2] /\ l = y[2] /\ Bound(b) /\ Near(cell[v], cell[b], k)
           /\ Near(cell[p], cell[b], l)
    BY <1>1, <1>2 DEF CloseTo
  <1>4. PICK c \in CellIn(Node), d \in CellIn(Node), e \in CellIn(Node) :
           c = cell[v] /\ d = cell[p] /\ e = cell[b] /\ c # NoCell /\ d # NoCell
    BY <1>0, <1>1, <1>3, CellOf
  <1>5. Near(e, c, -k)
    BY <1>0, <1>3, <1>4, NearBack
  <1>6. PICK h \in Nat : h = l - k /\ h < w
    BY <1>1, <1>3
  <1>7. Near(d, c, h)
    <2>1. Near(d, e, l) /\ -k \in Int
      BY <1>3, <1>4
    <2>3. Near(d, c, (-k) + l)
      BY <1>0, <1>5, <2>1, NearAdds
    <2>2. (-k) + l = h
      BY <1>6
    <2> QED
      BY <2>2, <2>3
  <1>8. PICK r \in Node, m \in Nat, n \in Nat :
           /\ Address(c).node = r /\ Address(c).off = m /\ Address(d).off = n
           /\ Root(r) = r
           /\ ~IsCollapsed(r) /\ IsArray(r) => m < size[r]
    BY <1>0, AddressParts
  <1>9. Address(d).node = r /\ Spaced(r, n, m, h)
    BY <1>7, <1>8 DEF Near
  <1>10. ~IsCollapsed(r) /\ IsArray(r) => n < size[r]
    BY <1>0, <1>8, <1>9, AddressParts
  <1>11. TypeAt(c, w)
    BY <1>0, <1>1, <1>4 DEF AccessesTyped
  <1>12. Numeric(r, m) = m \/ IsCollapsed(r)
    <2>1. PICK s \in Nat : s = size[r]
      BY <1>0 DEF Inv, TypeOK
    <2>2. CASE ~IsCollapsed(r) /\ IsArray(r)
      <3>1. m \in 0 .. (s - 1) /\ s > 0
        BY <1>8, <2>1, <2>2
      <3>2. m % s = m
        BY <2>1, <3>1
      <3> QED
        BY <2>1, <2>2, <3>2 DEF Numeric
    <2> QED
      BY <2>2 DEF Numeric
  <1>13. /\ m <= n => MayOverlap(r, m, n)
         /\ n <= m => MayOverlap(r, n, m)
    <2>1. CASE IsCollapsed(r)
      BY <2>1 DEF MayOverlap
    <2>2. CASE ~IsCollapsed(r)
      <3>1. \/ w \in AccessedSizes(r, m) /\ m + w <= size[r]
            \/ IsArray(r) /\ size[r] = 1
        BY <1>8, <1>11, <2>2 DEF TypeAt
      <3> QED
        BY <1>0, <1>6, <1>8, <1>9, <1>10, <1>12, <2>2, <3>1, OverlapSeen
    <2> QED
      BY <2>1, <2>2
  <1>14. mayAlias(c, d)
    BY <1>8, <1>9, <1>13 DEF mayAlias
  <1>15. mayAlias(d, c)
    BY <1>8, <1>9, <1>13 DEF mayAlias
  <1> QED
    BY <1>1, <1>4, <1>14, <1>15 DEF alias

-----------------------------------------------------------------------------
AliasInv ==
    /\ KeptInv /\ SamesPending /\ SamesForeseen
    /\ AbsorbsFirst /\ AccessesBound /\ TypedForeseen

\* before the first visit nothing has been asked for
LEMMA InitAlias == Init => AliasInv
  <1> SUFFICES ASSUME Init
               PROVE  AliasInv
    OBVIOUS
  <1>1. prog = {} /\ stack = <<>>
    BY DEF Init, GraphInit
  <1>2. Accesses = {}
    BY <1>1 DEF Accesses
  <1> QED
    BY <1>1, <1>2, InitKept
       DEF AliasInv, SamesPending, SamesForeseen, AbsorbsFirst, AccessesBound,
           TypedForeseen

\* and every step keeps what was
LEMMA NextAlias == AliasInv /\ [Next]_vars => AliasInv'
  <1> SUFFICES ASSUME AliasInv, [Next]_vars
               PROVE  AliasInv'
    OBVIOUS
  <1>0. KeptInv /\ KeptInv'
    BY NextKept DEF AliasInv
  <1>1. Inv /\ ClientsLast /\ Inv'
    BY <1>0 DEF KeptInv
  <1>2. SamesPending' /\ SamesForeseen'
    BY <1>0, <1>1, NextSamesPending, NextSames DEF AliasInv
  <1>3. AbsorbsFirst'
    BY <1>1, NextAbsorbs DEF AliasInv
  <1>4. AccessesBound' /\ TypedForeseen'
    BY <1>0, <1>1, NextAccesses DEF AliasInv
  <1> QED
    BY <1>0, <1>2, <1>3, <1>4 DEF AliasInv

\* a PHI and its incoming values, a select and its operands
SamesKept ==
    Idle => \A i \in prog : i.op = "same" => SameCell(cell[i.v], cell[i.p])

\* A PHI and its incoming values have one cell, and so have a select and its
\* operands, whatever merges and collapses come later (visitPHINode,
\* visitSelectInst).
THEOREM SamesStay == Spec => []SamesKept
  <1>1. AliasInv => SamesKept
    <2> SUFFICES ASSUME AliasInv, Idle, NEW i \in prog, i.op = "same"
                 PROVE  SameCell(cell[i.v], cell[i.p])
      BY DEF SamesKept
    <2>1. Inv /\ SamesPending /\ SamesForeseen
      BY DEF AliasInv, KeptInv
    <2> QED
      BY <2>1, SameTogether
  <1> QED
    BY <1>1, InitAlias, NextAlias, PTL DEF Spec

\* The type of an access is found in whatever node and at whatever offset its
\* cell has ended up, unless that node has become a single byte
\* (Cell::addAccessedType, Node::joinAccessedTypes).
THEOREM AccessesStayTyped == Spec => []AccessesTyped
  <1>1. AliasInv /\ TypesFit => AccessesTyped
    <2> SUFFICES ASSUME AliasInv, TypesFit, Idle, NEW i \in Accesses
                 PROVE  TypeAt(cell[i.p], WidthOf(i))
      BY DEF AccessesTyped
    <2>1. Inv
      BY DEF AliasInv, KeptInv
    <2>2. i.p \in Value /\ Bound(i.p) /\ WidthOf(i) \in Nat \ {0}
      BY DEF AliasInv, AccessesBound
    <2>3. PICK E : E = [z \in CellIn(Node) |-> Address(z)]
      OBVIOUS
    <2>4. E \in CellMap /\ Foresees(E)
      BY <2>1, <2>3, AddressForesees
    <2>5. Typed(E, cell[i.p], WidthOf(i))
      BY <2>4 DEF AliasInv, TypedForeseen
    <2>6. cell[i.p] \in CellIn(Node)
      BY <2>1, <2>2, CellOf
    <2> QED
      BY <2>1, <2>2, <2>3, <2>5, <2>6, TypedAt
  <1> QED
    BY <1>1, InitAlias, NextAlias, TypesAlwaysFit, PTL DEF Spec

\* What LLVM's passes rely on, and where they cannot: two accesses of which an
\* execution may have one write what the other reads or writes are said to be apart
\* (SeaDsaAAResult::alias) only if one pointer was computed with the variable part of
\* a GEP that goes backwards (visitGep), in a node that does not cover its stride; for
\* all other pointers the answer is right, whatever has been merged, collapsed or made
\* an array since.
THEOREM AliasWrongOnlyIfBlind == Spec => []WrongOnlyIfBlind
  <1>1. AliasInv /\ GepsKept /\ StridesKept /\ AccessesTyped => WrongOnlyIfBlind
    <2> SUFFICES ASSUME AliasInv, GepsKept, StridesKept, AccessesTyped, Idle,
                        NEW b \in Value, NEW x \in ComputedFrom(b),
                        NEW y \in ComputedFrom(b),
                        NEW i \in Accesses, NEW j \in Accesses,
                        i.p = x[1], j.p = y[1],
                        x[2] <= y[2], y[2] < x[2] + WidthOf(i), x[3] = {}, y[3] = {}
                 PROVE  alias(i.p, j.p) # "No" /\ alias(j.p, i.p) # "No"
      BY DEF WrongOnlyIfBlind
    <2>1. Settled /\ AccessesBound
      BY DEF Settled, AliasInv, KeptInv
    <2> QED
      BY <2>1, AccessesMeet
  <1> QED
    BY <1>1, InitAlias, NextAlias, GepsStay, StridesStay, AccessesStayTyped,
       PTL DEF Spec
=============================================================================
