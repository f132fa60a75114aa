------------------------- MODULE LocalAnalysisProofs -------------------------
(***************************************************************************)
(* Proofs about the whole of LocalAnalysis::runOnFunction: what it keeps   *)
(* between its visits, in the middle of them, and in the graph that        *)
(* compress and remove_dead leave.                                         *)
(***************************************************************************)
EXTENDS LocalAnalysis, DsaKeptProofs, Induction

\* the flags that decide nothing about offsets
PlainMark == Mark \ {"array", "offset_collapsed"}
AnyInstruction == Instruction \cup FurtherInstruction

\* no client waits for the result of a call
NoClient == \A f : On(f, stack) => f.op \notin ClientOp

-----------------------------------------------------------------------------
(* What every step of the analysis up to remove_dead keeps.                 *)

CellsKept == \A v \in Value : Bound(v) => cell'[v] = cell[v]
RootsKept == \A x, y \in nodes : Root(x) = Root(y) => Root(x)' = Root(y)'
Progress ==
    Inv' /\ ClientsLast' /\ nodes \subseteq nodes' /\ CellsKept /\ RootsKept

\* what a visit may leave on the stack, in the flags and in the cells
SafeCalls ==
    /\ stack' \in Seq(FrameIn(nodes'))
    /\ \A f : On(f, stack') => f.op \notin {"absorb", "annotate"}
    /\ ClientsLast'
SafeMarks ==
    /\ marks' \in [Node -> SUBSET Mark]
    /\ \A y \in Node \ nodes' : marks'[y] = {}
    /\ \A y \in Node : IsArray(y)' => IsArray(y)
SafeCells ==
    /\ cell' \in [Value -> CellIn(nodes') \cup {NoCell}]
    /\ scalar' \in [Node -> Value \cup {NoValue}]
    /\ once' \in [Node -> BOOLEAN]
    /\ CellsKept

\* a visit, in the general form
LEMMA VisitProgress ==
    ASSUME Inv, Idle, nodes \subseteq nodes', nodes' \subseteq Node,
           UNCHANGED <<fwd, size, types, links>>,
           sites' \in [Node -> SUBSET Value],
           SafeCalls, SafeMarks, SafeCells
    PROVE  Progress
  <1>1. size' \in [Node -> Nat] /\ \A y \in Node : IsArray(y)' => size'[y] > 0
    BY DEF Inv, TypeOK, ArraysHaveSize, SafeMarks
  <1>2. Inv'
    BY <1>1, VisitInv DEF SafeCalls, SafeMarks, SafeCells
  <1>3. RootsKept
    BY DEF RootsKept, Root
  <1> QED
    BY <1>2, <1>3 DEF Progress, SafeCalls, SafeCells

\* a value's cell is in the graph, and no other value's is touched
LEMMA BindingSafe ==
    ASSUME TypeOK, nodes \subseteq nodes', nodes' \subseteq Node,
           NEW v \in Value, ~Bound(v), NEW c \in CellIn(nodes'), MkCell(v, c)
    PROVE  SafeCells
  <1>1. CellsKept
    BY DEF CellsKept, MkCell, TypeOK
  <1> QED
    BY <1>1, MkCellType DEF SafeCells

\* a visit that binds no value touches no cell
LEMMA SameCellsSafe ==
    ASSUME TypeOK, nodes \subseteq nodes', UNCHANGED <<cell, scalar, once>>
    PROVE  SafeCells
  <1>1. CellIn(nodes) \subseteq CellIn(nodes')
    BY FramesGrow
  <1> QED
    BY <1>1 DEF SafeCells, CellsKept, TypeOK

\* a visit that sets no flag
LEMMA SameMarksSafe ==
    ASSUME TypeOK, nodes \subseteq nodes', UNCHANGED marks
    PROVE  SafeMarks
  BY DEF SafeMarks, TypeOK, IsArray

\* the flags a visit sets turn no node into an array
LEMMA MarkingSafe ==
    ASSUME TypeOK, nodes \subseteq nodes', NEW n \in nodes', NEW ms \in SUBSET PlainMark,
           \/ marks' = [marks EXCEPT ![n] = @ \cup ms]
           \/ marks' = [marks EXCEPT ![n] = ms]
    PROVE  SafeMarks
  BY DEF SafeMarks, TypeOK, IsArray, PlainMark

\* one flag
LEMMA OneMarkSafe ==
    ASSUME TypeOK, nodes \subseteq nodes', NEW n \in nodes', NEW k \in PlainMark,
           SetMark(n, k)
    PROVE  SafeMarks
  <1>1. PICK ms : ms = {k}
    OBVIOUS
  <1>2. ms \in SUBSET PlainMark /\ marks' = [marks EXCEPT ![n] = @ \cup ms]
    BY <1>1 DEF SetMark
  <1> QED
    BY <1>2, MarkingSafe

\* a visit that calls no graph operation
LEMMA NoCallsSafe ==
    ASSUME stack' = <<>>
    PROVE  SafeCalls
  <1>1. \A f : ~On(f, stack')
    BY DEF On
  <1>2. ClientsLast'
    BY OneClient
  <1> QED
    BY <1>1, <1>2 DEF SafeCalls

\* one that calls one, or waits for the result of one
LEMMA OneCallSafe ==
    ASSUME NEW x \in FrameIn(nodes'), x.op \notin {"absorb", "annotate"},
           x.op \notin ClientOp \/ ~Bound(x.v)', stack' = <<x>>
    PROVE  SafeCalls
  <1>1. \A f : On(f, stack') => f = x
    BY DEF On
  <1>2. ClientsLast'
    BY OneClient
  <1> QED
    BY <1>1, <1>2 DEF SafeCalls

\* one that calls two: only the second may bind a value
LEMMA TwoCallsSafe ==
    ASSUME NEW x \in FrameIn(nodes'), NEW y \in FrameIn(nodes'),
           x.op \notin {"absorb", "annotate"}, y.op \notin {"absorb", "annotate"},
           x.op \notin ClientOp, y.op \notin ClientOp \/ ~Bound(y.v)',
           stack' = <<x, y>>
    PROVE  SafeCalls
  <1>1. \A f : On(f, stack') => f = x \/ f = y
    BY DEF On
  <1>2. ClientsLast'
    BY OneClient
  <1> QED
    BY <1>1, <1>2 DEF SafeCalls

\* what is pending after such a visit
LEMMA OneOnStack ==
    ASSUME NEW x, x.op \notin ClientOp, stack' = <<x>>
    PROVE  NoClient'
  BY DEF NoClient, On

\* the same when nothing is pending
LEMMA NoneOnStack ==
    ASSUME stack' = <<>>
    PROVE  NoClient'
  BY DEF NoClient, On

-----------------------------------------------------------------------------
(* The graph operations.                                                    *)

\* what is forwarded to one node stays so
LEMMA ForwardedTogether ==
    ASSUME TypeOK, NEW n, NEW m, NEW o, fwd' = Forwarded(n, m, o)
    PROVE  RootsKept
  <1>1. \A x \in Node : Root(x)' = IF Root(x) = n THEN m ELSE Root(x)
    BY DEF Forwarded, Root
  <1>2. nodes \subseteq Node
    BY DEF TypeOK
  <1> QED
    BY <1>1, <1>2 DEF RootsKept

\* Node::pointTo only makes a node that does not forward forward
LEMMA GraphStepRoots ==
    ASSUME Inv, GraphStep
    PROVE  nodes \subseteq nodes' /\ RootsKept
  <1>1. CASE UnifyAtMerge
    BY <1>1, ForwardedTogether DEF UnifyAtMerge, Inv
  <1>2. CASE CollapseFresh
    BY <1>2, ForwardedTogether DEF CollapseFresh, Inv
  <1>3. CASE UNCHANGED <<nodes, fwd>>
    BY <1>3 DEF RootsKept, Root
  <1> QED
    BY <1>1, <1>2, <1>3
       DEF GraphStep, UnifyCells, UnifyAtCollapse, UnifyAtSwap, UnifyAtSelf,
           CollapseDone, CollapseInPlace, AbsorbTypes, AbsorbCollapses, AbsorbMarks,
           MoveLink, AllLinksMoved, AddLinkUnifies, AddLinkSets, AddAccessedType,
           AccessCollapses, AccessIgnored, BindCell, BindLinkTarget, nodeVars

\* visitGep may add a node, and forwards none
LEMMA GepRoots ==
    ASSUME NEW v, NEW p, NEW k, NEW stride, VisitGep(v, p, k, stride)
    PROVE  nodes \subseteq nodes' /\ UNCHANGED fwd
  BY DEF VisitGep, GepInCollapsed, GepBack, GepBefore, GepIntoArray, GepToField,
         MkNode

\* no other visit forwards one
LEMMA VisitRoots ==
    ASSUME Visit
    PROVE  nodes \subseteq nodes' /\ UNCHANGED fwd
  BY GepRoots
     DEF Visit, VisitAlloca, VisitInstruction, VisitLoad, VisitStore,
         VisitScalarAccess, VisitSelect, VisitPHINode, VisitCollapse, VisitMakeSeq,
         MkNode, nodeVars

\* every step of DsaLocal, a visit or a part of a graph operation
LEMMA NextProgress ==
    ASSUME Inv, ClientsLast, Next
    PROVE  Progress
  <1>1. Inv' /\ ClientsLast'
    BY NextInv, NextClients
  <1>2. CellsKept
    BY CellsStay DEF CellsKept
  <1>3. nodes \subseteq nodes' /\ RootsKept
    <2>1. CASE GraphStep
      BY <2>1, GraphStepRoots
    <2>2. CASE nodes \subseteq nodes' /\ UNCHANGED fwd
      BY <2>2 DEF RootsKept, Root
    <2>3. CASE LoadFindsLink \/ LoadMakesLink
      BY <2>2, <2>3 DEF LoadFindsLink, LoadMakesLink, MkNode
    <2>4. CASE Visit
      BY <2>2, <2>4, VisitRoots
    <2> QED
      BY <2>1, <2>3, <2>4 DEF Next, Step
  <1> QED
    BY <1>1, <1>2, <1>3 DEF Progress

\* no operation makes itself a client
LEMMA NoClientStep ==
    ASSUME Inv, Step, NoClient
    PROVE  NoClient' /\ UNCHANGED cell
  <1>1. stack # <<>> => On(Top, stack)
    BY TopFrame DEF Inv
  <1>2. stack # <<>> => Top.op \notin ClientOp
    BY <1>1 DEF NoClient
  <1>3. ~LoadFindsLink /\ ~LoadMakesLink /\ ~BindCell /\ ~BindLinkTarget
    BY <1>2 DEF LoadFindsLink, LoadMakesLink, BindCell, BindLinkTarget, Running,
                ClientOp
  <1>4. Calls(MergeOp) \/ Calls({"links", "addLink"})
    BY <1>3, MergingSteps, LinkingSteps DEF Step, GraphStep
  <1>5. \A op : op \in MergeOp \cup {"links", "addLink"} => op \notin ClientOp
    BY DEF MergeOp, ClientOp
  <1>6. NoClient'
    <2>1. \/ stack # <<>> /\ Return
          \/ stack # <<>> /\ \E x : Continue(<<x>>) /\ x.op \notin ClientOp
          \/ stack # <<>> /\ \E x, y : /\ Continue(<<x, y>>) /\ x.op \notin ClientOp
                                       /\ y.op \notin ClientOp
      BY <1>4, <1>5 DEF Calls
    <2>2. \A f : On(f, stack') => f.op \notin ClientOp \/ On(f, stack)
      BY <2>1, Returned, CalledOne, CalledTwo DEF Inv
    <2> QED
      BY <2>2 DEF NoClient
  <1>7. UNCHANGED cell
    BY <1>3 DEF Step, GraphStep, UnifyCells,
                UnifyAtCollapse, UnifyAtSwap, UnifyAtSelf, UnifyAtMerge,
                CollapseDone, CollapseInPlace, CollapseFresh, AbsorbTypes,
                AbsorbCollapses, AbsorbMarks, MoveLink, AllLinksMoved,
                AddLinkUnifies, AddLinkSets, AddAccessedType, AccessCollapses,
                AccessIgnored
  <1> QED
    BY <1>6, <1>7

\* v gets what the pending load finds
LoadPending(v) ==
    \E f : On(f, stack) /\ f.op \in {"load", "bindLink"} /\ f.v = v
\* a load that is pending is done in the end
LEMMA LoadPendingStep ==
    ASSUME Inv, Step, NEW v \in Value, LoadPending(v)
    PROVE  Bound(v)' \/ LoadPending(v)'
  <1>1. PICK f : On(f, stack) /\ f.op \in {"load", "bindLink"} /\ f.v = v
    BY DEF LoadPending
  <1>2. stack # <<>> /\ (f = Top \/ On(f, stack'))
    BY <1>1, StepCalls
  <1>3. CASE On(f, stack')
    BY <1>1, <1>3 DEF LoadPending, On
  <1>4. CASE f = Top
    <2>1. LoadFindsLink \/ LoadMakesLink \/ BindLinkTarget
      BY <1>1, <1>4
         DEF Step, GraphStep, UnifyCells,
             UnifyAtCollapse, UnifyAtSwap, UnifyAtSelf, UnifyAtMerge,
             CollapseDone, CollapseInPlace, CollapseFresh, AbsorbTypes,
             AbsorbCollapses, AbsorbMarks, MoveLink, AllLinksMoved,
             AddLinkUnifies, AddLinkSets, AddAccessedType, AccessCollapses,
             AccessIgnored, BindCell, Running
    <2>2. CASE LoadFindsLink \/ LoadMakesLink
      <3>1. PICK x : x = BindLink(Top.v, Top.at, Top.ty)
        OBVIOUS
      <3>2. On(x, stack')
        <4>1. Continue(<<x>>) \/ \E y : Continue(<<y, x>>)
          BY <2>2, <3>1 DEF LoadFindsLink, LoadMakesLink
        <4> QED
          BY <1>2, <4>1, CalledOne, CalledTwo DEF Inv
      <3>3. x.op = "bindLink" /\ x.v = v
        BY <1>1, <1>4, <3>1 DEF BindLink
      <3> QED
        BY <3>2, <3>3 DEF LoadPending, On
    <2>3. CASE BindLinkTarget
      <3>1. PICK l \in FoundLink(Resolve(Top.at).node, LinkOffset(Top.at), Top.ty) :
               MkCell(v, Resolve(l.to))
        BY <1>1, <1>4, <2>3 DEF BindLinkTarget
      <3>2. l.to \in CellIn(nodes)
        <4>1. Top.at \in CellIn(nodes)
          BY <1>1, <1>2, <1>4, TopFrame, FramesRead DEF Inv
        <4>2. Resolve(Top.at).node \in Node
          BY <4>1, ResolvedType DEF Inv
        <4> QED
          BY <4>2, FoundLinkType DEF Inv
      <3>3. Resolve(l.to).node \in Node
        BY <3>2, ResolvedType DEF Inv
      <3>4. cell'[v] = Resolve(l.to)
        BY <3>1 DEF MkCell, Inv, TypeOK
      <3>5. Resolve(l.to) # NoCell
        BY <3>3, MaxNodesAssumption DEF Node, NoCell
      <3> QED
        BY <3>4, <3>5 DEF Bound
    <2> QED
      BY <2>1, <2>2, <2>3
  <1> QED
    BY <1>2, <1>3, <1>4

-----------------------------------------------------------------------------
(* The inductive invariant.                                                 *)

\* a call that a visit has still to make; a client among them is the only one
CallLater(x) ==
    /\ x \in FrameIn(nodes) /\ x.op \notin {"absorb", "annotate"}
    /\ x.op \in ClientOp => ~Bound(x.v) /\ NoClient

FinallySound == todo.op = "finally" =>
    /\ \A m \in todo.marks : m.at \in CellIn(nodes) /\ m.mark \in PlainMark
    /\ \A t \in todo.tags : t.node \in nodes /\ t.site \in Value
    /\ todo.facts \subseteq AnyInstruction /\ \A i \in todo.facts : i.op # "node"
    /\ todo.calls = <<>> \/ \E x : todo.calls = <<x>> /\ CallLater(x)
ExtractSound == todo.op = "extract" =>
    /\ todo.v \in Value /\ todo.p \in Value /\ todo.k \in Nat /\ todo.ty \in FieldType
    /\ Bound(todo.p) /\ ~Bound(todo.v) /\ NoClient
ExchangeSound == todo.op = "exchange" =>
    /\ todo.v \in Value /\ todo.p \in Value /\ todo.w \in Value /\ todo.ty \in FieldType
    /\ Bound(todo.w)
    /\ Bound(todo.v) \/ LoadPending(todo.v)
TodoSound ==
    /\ todo.op \in {"nothing", "finally", "again", "extract", "exchange"}
    /\ FinallySound /\ ExtractSound /\ ExchangeSound

RetSound == ret \in CellIn(nodes) \cup {NoCell}
\* the callee of an indirect call is a value, and goes where the value goes
SiteSound(c) ==
    /\ c \in [call : Value \cup {NoValue}, cell : CellIn(nodes)]
    /\ \E w \in Value : Bound(w) /\ Root(cell[w].node) = Root(c.cell.node)
CallSitesSound == \A c \in callSites : SiteSound(c)
ProgSound ==
    /\ prog \subseteq AnyInstruction
    /\ \A i \in prog : i.op = "node" => Bound(i.v)

Sound == TodoSound /\ RetSound /\ CallSitesSound /\ ProgSound

\* what the steps keep of it
LEMMA BoundKept ==
    ASSUME CellsKept, NEW v \in Value, Bound(v)
    PROVE  Bound(v)' /\ cell'[v] = cell[v]
  BY DEF CellsKept, Bound

\* the return cell stays in the graph
LEMMA RetKept ==
    ASSUME Progress, RetSound, UNCHANGED ret
    PROVE  RetSound'
  BY FramesGrow DEF Progress, RetSound

\* the callee's cell goes where the callee goes
LEMMA SiteKept ==
    ASSUME Inv, Progress, NEW c, SiteSound(c)
    PROVE  SiteSound(c)'
  <1>1. c \in [call : Value \cup {NoValue}, cell : CellIn(nodes)]
    BY DEF SiteSound
  <1>2. PICK w \in Value : Bound(w) /\ Root(cell[w].node) = Root(c.cell.node)
    BY DEF SiteSound
  <1>3. c.cell \in CellIn(nodes) /\ cell[w] \in CellIn(nodes)
    BY <1>1, <1>2, BoundType DEF Inv
  <1>4. Root(cell[w].node)' = Root(c.cell.node)'
    <2>1. PICK x \in nodes, y \in nodes : x = cell[w].node /\ y = c.cell.node
      BY <1>3 DEF CellIn
    <2>2. cell'[w] = cell[w]
      BY <1>2, BoundKept DEF Progress
    <2>3. Root(x)' = Root(y)'
      BY <1>2, <2>1 DEF Progress, RootsKept
    <2> QED
      BY <2>1, <2>2, <2>3 DEF Root
  <1>5. Bound(w)'
    BY <1>2, BoundKept DEF Progress
  <1>6. c \in [call : Value \cup {NoValue}, cell : CellIn(nodes')]
    <2>1. CellIn(nodes) \subseteq CellIn(nodes')
      BY FramesGrow DEF Progress
    <2> QED
      BY <1>1, <2>1
  <1> QED
    BY <1>4, <1>5, <1>6 DEF SiteSound

\* so do all of them
LEMMA CallSitesKept ==
    ASSUME Inv, Progress, CallSitesSound, UNCHANGED callSites
    PROVE  CallSitesSound'
  BY SiteKept DEF CallSitesSound

\* what is recorded of a value with a node of its own stays true
LEMMA ProgKept ==
    ASSUME Inv, Progress, ProgSound, NEW is \in SUBSET AnyInstruction, prog' = prog \cup is,
           \A i \in is : i.op = "node" => Bound(i.v)'
    PROVE  ProgSound'
  <1>1. prog' \subseteq AnyInstruction
    BY DEF ProgSound
  <1>2. ASSUME NEW i \in prog, i.op = "node" PROVE i.v \in Value
    BY <1>2 DEF ProgSound, AnyInstruction, Instruction, FurtherInstruction
  <1>3. ASSUME NEW i \in prog', i.op = "node" PROVE Bound(i.v)'
    <2>1. CASE i \in prog
      <3>1. PICK v \in Value : v = i.v
        BY <1>2, <1>3, <2>1
      <3>2. Bound(v)
        BY <1>3, <2>1, <3>1 DEF ProgSound
      <3>3. Bound(v)'
        BY <3>2, BoundKept DEF Progress
      <3> QED
        BY <3>1, <3>3
    <2>2. CASE i \in is
      BY <1>3, <2>2
    <2> QED
      BY <2>1, <2>2
  <1> QED
    BY <1>1, <1>3 DEF ProgSound

\* the same for one instruction
LEMMA OneKept ==
    ASSUME Inv, Progress, ProgSound, NEW i \in AnyInstruction, prog' = prog \cup {i},
           i.op = "node" => Bound(i.v)'
    PROVE  ProgSound'
  <1>1. PICK is : is = {i}
    OBVIOUS
  <1>2. /\ is \in SUBSET AnyInstruction /\ prog' = prog \cup is
        /\ \A j \in is : j.op = "node" => Bound(j.v)'
    BY <1>1
  <1> QED
    BY <1>2, ProgKept

\* a visit that is done has nothing left to do
LEMMA NothingSound ==
    ASSUME \/ todo' = Nothing
           \/ \E v, p : todo' = Again(v, p)
    PROVE  TodoSound'
  BY DEF TodoSound, FinallySound, ExtractSound, ExchangeSound, Nothing, Again

\* what a visit leaves to do when its calls have returned
LEMMA FinallyBuilt ==
    ASSUME NEW ms, \A m \in ms : m.at \in CellIn(nodes') /\ m.mark \in PlainMark,
           NEW ts, \A t \in ts : t.node \in nodes' /\ t.site \in Value,
           NEW is, is \subseteq AnyInstruction, \A i \in is : i.op # "node",
           NEW fs, fs = <<>> \/ \E x : fs = <<x>> /\ CallLater(x)',
           todo' = Finally(ms, ts, fs, is)
    PROVE  TodoSound'
  <1>1. /\ todo'.op = "finally" /\ todo'.marks = ms /\ todo'.tags = ts
        /\ todo'.calls = fs /\ todo'.facts = is
    BY DEF Finally
  <1>2. FinallySound'
    BY <1>1 DEF FinallySound, CallLater
  <1> QED
    BY <1>1, <1>2 DEF TodoSound, ExtractSound, ExchangeSound

\* what DsaLocal's own visits record
LEMMA LocalVisitRecords ==
    ASSUME Visit
    PROVE  \E is \in SUBSET Instruction : prog' = prog \cup is
  <1>1. ASSUME NEW is \in SUBSET Instruction, Visited(is)
        PROVE  \E js \in SUBSET Instruction : prog' = prog \cup js
    BY <1>1 DEF Visited
  <1>2. ASSUME NEW v \in Value, VisitAlloca(v) \/ VisitInstruction(v)
        PROVE  \E is \in SUBSET Instruction : Visited(is)
    <2>1. PICK x, y : x = [op |-> "alloca", v |-> v] /\ y = [op |-> "call", v |-> v]
      OBVIOUS
    <2>2. Visited({x}) \/ Visited({y})
      BY <1>2, <2>1 DEF VisitAlloca, VisitInstruction
    <2>3. x \in Instruction /\ y \in Instruction
      BY <2>1 DEF Instruction
    <2> QED
      BY <2>2, <2>3
  <1>3. ASSUME NEW v \in Value, NEW p \in Value, NEW k \in GepOffset,
               NEW stride \in Stride \cup {0}, VisitGep(v, p, k, stride)
        PROVE  \E is \in SUBSET Instruction : Visited(is)
    <2>1. PICK x : x = [op |-> "gep", v |-> v, p |-> p, k |-> k, stride |-> stride]
      OBVIOUS
    <2>2. Visited({x})
      BY <1>3, <2>1 DEF VisitGep, GepInCollapsed, GepBack, GepBefore, GepIntoArray,
                        GepToField, IsGep
    <2>3. k \in Int /\ stride \in Nat
      BY OffsetAssumption
    <2>4. x \in Instruction
      BY <2>1, <2>3 DEF Instruction
    <2> QED
      BY <2>2, <2>4
  <1>4. ASSUME NEW v \in Value, NEW p \in Value, NEW ty \in FieldType,
               VisitLoad(v, p, ty) \/ VisitStore(v, p, ty)
        PROVE  \E is \in SUBSET Instruction : Visited(is)
    <2>1. PICK x, y : /\ x = [op |-> "load", v |-> v, p |-> p, ty |-> ty]
                      /\ y = [op |-> "store", v |-> v, p |-> p, ty |-> ty]
      OBVIOUS
    <2>2. Visited({x}) \/ Visited({y})
      BY <1>4, <2>1 DEF VisitLoad, VisitStore
    <2>3. x \in Instruction /\ y \in Instruction
      BY <2>1 DEF Instruction
    <2> QED
      BY <2>2, <2>3
  <1>5. ASSUME NEW p \in Value, NEW q \in Value, NEW sz,
               VisitPHINode(p, q) \/ VisitCollapse(p) \/ VisitMakeSeq(p, sz)
        PROVE  \E is \in SUBSET Instruction : Visited(is)
    <2>1. PICK b, c, d : /\ b = [op |-> "same", v |-> p, p |-> q]
                         /\ c = [op |-> "collapse", p |-> p]
                         /\ d = [op |-> "mk_seq", p |-> p]
      OBVIOUS
    <2>2. Visited({b}) \/ Visited({c}) \/ Visited({d})
      BY <1>5, <2>1 DEF VisitPHINode, VisitCollapse, VisitMakeSeq
    <2>3. b \in Instruction /\ c \in Instruction /\ d \in Instruction
      BY <2>1 DEF Instruction
    <2> QED
      BY <2>2, <2>3
  <1>7. ASSUME NEW p \in Value, NEW width \in ScalarWidth,
               NEW mark \in {"read", "modified"}, VisitScalarAccess(p, width, mark)
        PROVE  \E is \in SUBSET Instruction : Visited(is)
    <2>1. PICK a : a = [op |-> "touch", p |-> p, mark |-> mark, width |-> width]
      OBVIOUS
    <2>2. Visited({a})
      BY <1>7, <2>1 DEF VisitScalarAccess
    <2>3. width \in Nat /\ mark \in Mark
      BY WidthAssumption DEF Mark
    <2>4. a \in Instruction
      BY <2>1, <2>3 DEF Instruction
    <2> QED
      BY <2>2, <2>4
  <1>6. ASSUME NEW v \in Value, NEW p \in Value, NEW q \in Value, VisitSelect(v, p, q)
        PROVE  \E is \in SUBSET Instruction : Visited(is)
    <2>1. PICK x, y : /\ x = [op |-> "same", v |-> v, p |-> p]
                      /\ y = [op |-> "same", v |-> p, p |-> q]
      OBVIOUS
    <2>2. Visited({x, y}) /\ x \in Instruction /\ y \in Instruction
      BY <1>6, <2>1 DEF VisitSelect, Instruction
    <2> QED
      BY <2>2
  <1>8. \E is \in SUBSET Instruction : Visited(is)
    <2>1. CASE \E v \in Value : VisitAlloca(v) \/ VisitInstruction(v)
      BY <1>2, <2>1
    <2>2. CASE \E v, p \in Value, k \in GepOffset, stride \in Stride \cup {0} :
                  VisitGep(v, p, k, stride)
      BY <1>3, <2>2
    <2>3. CASE \E v, p \in Value, ty \in FieldType :
                  VisitLoad(v, p, ty) \/ VisitStore(v, p, ty)
      BY <1>4, <2>3
    <2>4. CASE \/ \E v, p \in Value : VisitPHINode(v, p)
               \/ \E p \in Value : VisitCollapse(p)
               \/ \E p \in Value, sz \in SeqSize : VisitMakeSeq(p, sz)
      BY <1>5, <2>4
    <2>5. CASE \E v, p, q \in Value : VisitSelect(v, p, q)
      BY <1>6, <2>5
    <2>6. CASE \E p \in Value, width \in ScalarWidth, mark \in {"read", "modified"} :
                  VisitScalarAccess(p, width, mark)
      BY <1>7, <2>6
    <2> QED
      BY <2>1, <2>2, <2>3, <2>4, <2>5, <2>6 DEF Visit
  <1> QED
    BY <1>1, <1>8

-----------------------------------------------------------------------------
(* The visits: the graph.                                                   *)

\* a visit that only calls
LEMMA QuietProgress ==
    ASSUME Inv, Idle, UNCHANGED <<nodeVars, cell>>, SafeCalls
    PROVE  Progress
  <1>1. SafeMarks /\ SafeCells
    BY SameMarksSafe, SameCellsSafe DEF nodeVars, Inv
  <1>2. /\ nodes \subseteq nodes' /\ nodes' \subseteq Node
        /\ sites' \in [Node -> SUBSET Value]
    BY DEF nodeVars, Inv, TypeOK
  <1> QED
    BY <1>1, <1>2, VisitProgress DEF nodeVars

\* one that sets flags and calls
LEMMA MarkedProgress ==
    ASSUME Inv, Idle, NEW n \in nodes, NEW ms \in SUBSET PlainMark,
           marks' = [marks EXCEPT ![n] = @ \cup ms],
           UNCHANGED <<nodes, fwd, size, types, links, sites, scalar, once, cell>>,
           SafeCalls
    PROVE  Progress
  <1>1. SafeMarks
    BY MarkingSafe DEF Inv
  <1>2. SafeCells
    BY SameCellsSafe DEF Inv
  <1>3. /\ nodes \subseteq nodes' /\ nodes' \subseteq Node
        /\ sites' \in [Node -> SUBSET Value]
    BY DEF Inv, TypeOK
  <1> QED
    BY <1>1, <1>2, <1>3, VisitProgress

\* one that gives a value its cell and calls
LEMMA BoundProgress ==
    ASSUME Inv, Idle, NEW v \in Value, ~Bound(v), NEW c \in CellIn(nodes), MkCell(v, c),
           UNCHANGED <<nodes, fwd, marks, size, types, links, sites>>, SafeCalls
    PROVE  Progress
  <1>1. SafeMarks
    BY SameMarksSafe DEF Inv
  <1>2. /\ nodes \subseteq nodes' /\ nodes' \subseteq Node
        /\ sites' \in [Node -> SUBSET Value]
    BY DEF Inv, TypeOK
  <1>3. SafeCells
    BY <1>2, BindingSafe DEF Inv
  <1> QED
    BY <1>1, <1>2, <1>3, VisitProgress

\* one that makes a node for a value
LEMMA FreshNodeProgress ==
    ASSUME Inv, NEW v \in Value, NEW ms \in SUBSET PlainMark, NEW ss \in SUBSET Value,
           FreshNode(v, ms, ss)
    PROVE  Progress /\ Bound(v)' /\ Idle /\ todo = Nothing
  <1>1. PICK n \in ClientNode :
           /\ MkNode(n)
           /\ sites' = [sites EXCEPT ![n] = ss]
           /\ marks' = [marks EXCEPT ![n] = ms]
           /\ MkCell(v, At(n, 0))
    BY DEF FreshNode
  <1>2. /\ Idle /\ todo = Nothing /\ ~Bound(v)
        /\ UNCHANGED <<fwd, size, types, links, stack>>
    BY DEF FreshNode, Ready
  <1>3. /\ nodes \subseteq nodes' /\ nodes' \subseteq Node
        /\ n \in Node /\ n \in nodes' /\ At(n, 0) \in CellIn(nodes')
    BY <1>1, MkNodeType DEF Inv
  <1>4. SafeMarks
    BY <1>1, <1>3, MarkingSafe DEF Inv
  <1>5. SafeCells
    BY <1>1, <1>2, <1>3, BindingSafe DEF Inv
  <1>6. SafeCalls
    BY <1>2, NoCallsSafe DEF Idle
  <1>7. sites' \in [Node -> SUBSET Value]
    BY <1>1 DEF Inv, TypeOK
  <1>8. Progress
    BY <1>2, <1>3, <1>4, <1>5, <1>6, <1>7, VisitProgress
  <1>9. Bound(v)'
    <2>1. cell'[v] = At(n, 0)
      BY <1>1 DEF MkCell, Inv, TypeOK
    <2>2. n # 0
      BY <1>3, MaxNodesAssumption DEF Node
    <2>3. At(n, 0).node = n /\ NoCell.node = 0
      BY DEF At, NoCell
    <2> QED
      BY <2>1, <2>2, <2>3 DEF Bound
  <1> QED
    BY <1>2, <1>8, <1>9

\* the calls a visit makes first
LEMMA CallsNone ==
    ASSUME Idle, UNCHANGED stack
    PROVE  SafeCalls /\ NoClient'
  BY NoCallsSafe, NoneOnStack DEF Idle

\* one graph operation
LEMMA CallsGraph ==
    ASSUME NEW x, x \in FrameIn(nodes'), x.op \notin ClientOp \cup {"absorb", "annotate"},
           Call(<<x>>)
    PROVE  SafeCalls /\ NoClient'
  BY OneCallSafe, OneOnStack DEF Call

\* two graph operations
LEMMA CallsTwice ==
    ASSUME NEW x, x \in FrameIn(nodes'), x.op \notin ClientOp \cup {"absorb", "annotate"},
           NEW y, y \in FrameIn(nodes'), y.op \notin ClientOp \cup {"absorb", "annotate"},
           Call(<<x, y>>)
    PROVE  SafeCalls
  BY TwoCallsSafe DEF Call

\* Node::addAccessedType
LEMMA CallsAccess ==
    ASSUME NEW c \in CellIn(nodes'), NEW w \in Nat \ {0}, Call(<<Access(c, w)>>)
    PROVE  SafeCalls /\ NoClient'
  <1>1. PICK x : x = Access(c, w)
    OBVIOUS
  <1>2. x \in FrameIn(nodes') /\ x.op = "access"
    BY <1>1 DEF Access, FrameIn
  <1> QED
    BY <1>1, <1>2, CallsGraph DEF ClientOp

\* Cell::unify
LEMMA CallsUnify ==
    ASSUME NEW c \in CellIn(nodes'), NEW d \in CellIn(nodes'), Call(<<Unify(c, d)>>)
    PROVE  SafeCalls /\ NoClient'
  <1>1. PICK x : x = Unify(c, d)
    OBVIOUS
  <1>2. x \in FrameIn(nodes') /\ x.op = "unify"
    BY <1>1 DEF Unify, FrameIn
  <1> QED
    BY <1>1, <1>2, CallsGraph DEF ClientOp

\* Cell::addLink
LEMMA CallsAddLink ==
    ASSUME NEW c \in CellIn(nodes'), NEW d \in CellIn(nodes'), NEW ty \in FieldType,
           Call(<<AddLink(c, ty, d)>>)
    PROVE  SafeCalls /\ NoClient'
  <1>1. PICK x : x = AddLink(c, ty, d)
    OBVIOUS
  <1>2. x \in FrameIn(nodes') /\ x.op = "addLink"
    BY <1>1 DEF AddLink, FrameIn
  <1> QED
    BY <1>1, <1>2, CallsGraph DEF ClientOp

\* an access and a link
LEMMA CallsStore ==
    ASSUME NEW c \in CellIn(nodes'), NEW w \in Nat \ {0}, NEW d \in CellIn(nodes'),
           NEW ty \in FieldType, Call(<<Access(c, w), AddLink(c, ty, d)>>)
    PROVE  SafeCalls
  <1>1. PICK x, y : x = Access(c, w) /\ y = AddLink(c, ty, d)
    OBVIOUS
  <1>2. /\ x \in FrameIn(nodes') /\ x.op = "access"
        /\ y \in FrameIn(nodes') /\ y.op = "addLink"
    BY <1>1 DEF Access, AddLink, FrameIn
  <1> QED
    BY <1>1, <1>2, CallsTwice DEF ClientOp

\* an access, and what a load goes on with
LEMMA CallsLoad ==
    ASSUME NEW v \in Value, ~Bound(v)', NEW c \in CellIn(nodes'), NEW w \in Nat \ {0},
           NEW ty \in FieldType, Call(<<Access(c, w), Load(v, c, ty)>>)
    PROVE  SafeCalls /\ LoadPending(v)'
  <1>1. PICK x, y : x = Access(c, w) /\ y = Load(v, c, ty)
    OBVIOUS
  <1>2. /\ x \in FrameIn(nodes') /\ x.op = "access"
        /\ y \in FrameIn(nodes') /\ y.op = "load" /\ y.v = v
    BY <1>1 DEF Access, Load, FrameIn
  <1>3. stack' = <<x, y>>
    BY <1>1 DEF Call
  <1>4. SafeCalls
    BY <1>2, <1>3, TwoCallsSafe DEF ClientOp
  <1>5. On(y, stack')
    BY <1>3 DEF On
  <1> QED
    BY <1>2, <1>4, <1>5 DEF LoadPending, On

-----------------------------------------------------------------------------
(* The visits: what they record and what they have still to do.             *)

\* what is left to show of a visit that records some instructions
LEMMA SoundKept ==
    ASSUME Inv, Sound, Progress, TodoSound', UNCHANGED <<ret, callSites>>,
           NEW is \in SUBSET AnyInstruction, prog' = prog \cup is,
           \A i \in is : i.op = "node" => Bound(i.v)'
    PROVE  Progress /\ Sound'
  BY RetKept, CallSitesKept, ProgKept DEF Sound

\* the facts are recorded later
LEMMA SoundLater ==
    ASSUME Inv, Sound, Progress, TodoSound', UNCHANGED <<ret, callSites, prog>>
    PROVE  Progress /\ Sound'
  <1>1. PICK is : is = {}
    OBVIOUS
  <1>2. /\ is \in SUBSET AnyInstruction /\ prog' = prog \cup is
        /\ \A i \in is : i.op = "node" => Bound(i.v)'
    BY <1>1
  <1> QED
    BY <1>2, SoundKept

\* nothing is left to do, one fact is recorded
LEMMA SoundNow ==
    ASSUME Inv, Sound, Progress, UNCHANGED <<ret, callSites>>, todo' = Nothing,
           NEW is \in SUBSET AnyInstruction, Visited(is), \A i \in is : i.op # "node"
    PROVE  Progress /\ Sound'
  <1>1. TodoSound' /\ prog' = prog \cup is
    BY NothingSound DEF Visited
  <1> QED
    BY <1>1, SoundKept

\* the visits that give a value a node of its own
LEMMA AllocatesSound ==
    ASSUME Inv, Sound, NEW v \in Value, NEW ms \in SUBSET PlainMark,
           NEW ss \in SUBSET Value, Allocates(v, ms, ss)
    PROVE  Progress /\ Sound'
  <1>1. Progress /\ Bound(v)' /\ todo = Nothing
    BY FreshNodeProgress DEF Allocates
  <1>2. UNCHANGED <<todo, ret, callSites>>
    BY DEF Allocates
  <1>3. PICK i : i = [op |-> "node", v |-> v, marks |-> ms, sites |-> ss]
    OBVIOUS
  <1>4. prog' = prog \cup {i}
    BY <1>3 DEF Allocates, Visited
  <1>5. ms \in SUBSET Mark
    BY DEF PlainMark
  <1>6. i \in AnyInstruction /\ i.v = v
    BY <1>3, <1>5 DEF AnyInstruction, FurtherInstruction
  <1>7. TodoSound'
    BY <1>1, <1>2, NothingSound
  <1>8. RetSound' /\ CallSitesSound'
    BY <1>1, <1>2, RetKept, CallSitesKept DEF Sound
  <1>9. i.op = "node" => Bound(i.v)'
    BY <1>1, <1>6
  <1>10. ProgSound'
    BY <1>1, <1>4, <1>6, <1>9, OneKept DEF Sound
  <1> QED
    BY <1>1, <1>7, <1>8, <1>10 DEF Sound

\* the marks that visits set
LEMMA MarksPlain ==
    /\ {"alloca"} \in SUBSET PlainMark /\ {} \in SUBSET PlainMark
    /\ {"heap"} \in SUBSET PlainMark /\ {"external"} \in SUBSET PlainMark
    /\ {"int_to_ptr", "alloca"} \in SUBSET PlainMark
    /\ {"modified", "read"} \in SUBSET PlainMark
    /\ \A m \in {"modified", "read", "heap", "ptr_to_int", "int_to_ptr", "external"} :
          m \in PlainMark /\ m \in Mark /\ {m} \in SUBSET PlainMark
  BY DEF PlainMark, Mark

\* a call that returns its argument
LEMMA ExternalIdentitySound ==
    ASSUME Inv, Sound, todo = Nothing, NEW v \in Value, NEW p \in Value,
           VisitExternalIdentity(v, p)
    PROVE  Progress /\ Sound'
  <1>1. PICK n \in ClientNode :
           /\ MkNode(n)
           /\ SetMark(n, "external")
           /\ MkCell(v, At(n, 0))
           /\ Call(<<Unify(At(n, 0), cell[p])>>)
    BY DEF VisitExternalIdentity
  <1>2. /\ Idle /\ ~Bound(v) /\ Bound(p) /\ Visited({Same(v, p)})
        /\ UNCHANGED <<fwd, size, types, links, sites, todo, ret, callSites>>
    BY DEF VisitExternalIdentity, Defines
  <1>3. /\ nodes \subseteq nodes' /\ nodes' \subseteq Node
        /\ n \in Node /\ n \in nodes' /\ At(n, 0) \in CellIn(nodes')
    BY <1>1, MkNodeType DEF Inv
  <1>4. cell[p] \in CellIn(nodes')
    BY <1>2, <1>3, BoundType, FramesGrow DEF Inv
  <1>5. SafeMarks
    BY <1>1, <1>3, MarksPlain, OneMarkSafe DEF Inv
  <1>6. SafeCells
    BY <1>1, <1>2, <1>3, BindingSafe DEF Inv
  <1>7. SafeCalls
    BY <1>1, <1>3, <1>4, CallsUnify
  <1>8. sites' \in [Node -> SUBSET Value]
    BY <1>2 DEF Inv, TypeOK
  <1>9. Progress
    BY <1>2, <1>3, <1>5, <1>6, <1>7, <1>8, VisitProgress
  <1>10. Same(v, p) \in AnyInstruction /\ Same(v, p).op # "node"
    BY DEF Same, AnyInstruction, Instruction
  <1> QED
    BY <1>2, <1>9, <1>10, SoundNow

(* Indirect calls *)

\* a new call site has the cell of its callee
LEMMA SiteAdded ==
    ASSUME Inv, Progress, CallSitesSound, NEW w \in Value, Bound(w),
           NEW u \in Value \cup {NoValue},
           callSites' = callSites \cup {[call |-> u, cell |-> cell[w]]}
    PROVE  CallSitesSound'
  <1>1. PICK d : d = [call |-> u, cell |-> cell[w]]
    OBVIOUS
  <1>2. cell'[w] = cell[w] /\ Bound(w)'
    BY BoundKept DEF Progress
  <1>3. cell[w] \in CellIn(nodes')
    BY BoundType, FramesGrow DEF Inv, Progress
  <1>4. d \in [call : Value \cup {NoValue}, cell : CellIn(nodes')]
    BY <1>1, <1>3
  <1>5. Root(cell[w].node)' = Root(d.cell.node)'
    <2>1. cell'[w] = d.cell
      BY <1>1, <1>2
    <2> QED
      BY <2>1 DEF Root
  <1>6. SiteSound(d)'
    BY <1>2, <1>4, <1>5 DEF SiteSound
  <1>7. \A c \in callSites : SiteSound(c)'
    BY SiteKept DEF CallSitesSound
  <1> QED
    BY <1>1, <1>6, <1>7 DEF CallSitesSound

\* a call through a pointer that gives a pointer
LEMMA IndirectCallSound ==
    ASSUME Inv, Sound, NEW v \in Value, NEW callee \in Value,
           VisitIndirectCall(v, callee)
    PROVE  Progress /\ Sound'
  <1>1. Progress /\ Bound(v)' /\ todo = Nothing
    BY FreshNodeProgress, MarksPlain DEF VisitIndirectCall
  <1>2. /\ Bound(callee) /\ UNCHANGED <<todo, ret>>
        /\ callSites' = callSites \cup {[call |-> v, cell |-> cell[callee]]}
    BY DEF VisitIndirectCall
  <1>3. PICK i : i = [op |-> "node", v |-> v, marks |-> {}, sites |-> {}]
    OBVIOUS
  <1>4. prog' = prog \cup {i}
    BY <1>3 DEF VisitIndirectCall, Visited
  <1>5. i \in AnyInstruction /\ i.v = v
    BY <1>3 DEF AnyInstruction, FurtherInstruction
  <1>6. TodoSound' /\ RetSound'
    BY <1>1, <1>2, NothingSound, RetKept DEF Sound
  <1>7. CallSitesSound'
    BY <1>1, <1>2, SiteAdded DEF Sound
  <1>8. ProgSound'
    <2>1. i.op = "node" => Bound(i.v)'
      BY <1>1, <1>5
    <2> QED
      BY <1>1, <1>4, <1>5, <2>1, OneKept DEF Sound
  <1> QED
    BY <1>1, <1>6, <1>7, <1>8 DEF Sound

\* and one that gives none
LEMMA IndirectCallForEffectSound ==
    ASSUME Inv, ClientsLast, Sound, NEW callee \in Value, VisitIndirectCallForEffect(callee)
    PROVE  Progress /\ Sound'
  <1>1. /\ Idle /\ todo = Nothing /\ Bound(callee) /\ UNCHANGED <<todo, ret>>
        /\ callSites' = callSites \cup {[call |-> NoValue, cell |-> cell[callee]]}
        /\ UNCHANGED <<nodeVars, cell, stack, prog>>
    BY DEF VisitIndirectCallForEffect, Ready, graphVars, nodeVars
  <1>2. Progress
    BY <1>1, CallsNone, QuietProgress
  <1>3. TodoSound' /\ RetSound'
    BY <1>1, <1>2, NothingSound, RetKept DEF Sound
  <1>4. CallSitesSound'
    BY <1>1, <1>2, SiteAdded DEF Sound
  <1>5. ProgSound'
    <2>1. PICK is : is = {}
      OBVIOUS
    <2>2. /\ is \in SUBSET AnyInstruction /\ prog' = prog \cup is
          /\ \A i \in is : i.op = "node" => Bound(i.v)'
      BY <1>1, <2>1
    <2> QED
      BY <1>2, <2>2, ProgKept DEF Sound
  <1> QED
    BY <1>2, <1>3, <1>4, <1>5 DEF Sound

(* Copies of cells *)

\* an integer cast back to the pointer it came from, and moved
LEMMA FixedOffsetSound ==
    ASSUME Inv, Sound, todo = Nothing, NEW v \in Value, NEW p \in Value, NEW k \in Nat,
           VisitFixedOffset(v, p, k)
    PROVE  Progress /\ Sound'
  <1>1. PICK i : i = [op |-> "gep", v |-> v, p |-> p, k |-> k, stride |-> 0]
    OBVIOUS
  <1>2. /\ Idle /\ ~Bound(v) /\ Bound(p) /\ Visited({i})
        /\ UNCHANGED <<nodes, fwd, marks, size, types, links, sites, stack>>
        /\ UNCHANGED <<todo, ret, callSites>>
    BY <1>1 DEF VisitFixedOffset, GepInCollapsed, GepToField, IsGep, Defines
  <1>3. /\ Resolve(cell[p]).node \in nodes /\ Resolve(cell[p]).off \in Nat
    BY <1>2, BoundType, ResolvedType DEF Inv
  <1>4. PICK c : MkCell(v, c) /\ \E o \in Nat : c = At(Resolve(cell[p]).node, o)
    <2>1. Resolve(cell[p]).off + k \in Nat /\ 0 \in Nat
      BY <1>3
    <2> QED
      BY <2>1 DEF VisitFixedOffset, GepInCollapsed, GepToField
  <1>5. c \in CellIn(nodes)
    BY <1>3, <1>4 DEF At, CellIn
  <1>6. Progress
    BY <1>2, <1>4, <1>5, CallsNone, BoundProgress
  <1>7. i \in AnyInstruction /\ i.op # "node"
    BY <1>1 DEF AnyInstruction, Instruction
  <1> QED
    BY <1>2, <1>6, <1>7, SoundNow

\* an integer that was loaded, cast to a pointer
LEMMA LoadedIntegerSound ==
    ASSUME Inv, Sound, todo = Nothing, NEW v \in Value, NEW p \in Value,
           NEW ty \in FieldType, VisitLoadedInteger(v, p, ty)
    PROVE  Progress /\ Sound'
  <1>1. PICK i : i = [op |-> "load", v |-> v, p |-> p, ty |-> ty]
    OBVIOUS
  <1>2. /\ Idle /\ ~Bound(v) /\ Bound(p) /\ Visited({i})
        /\ Call(<<Access(cell[p], PtrWidth), Load(v, cell[p], ty)>>)
        /\ UNCHANGED <<nodeVars, cell>>
        /\ UNCHANGED <<todo, ret, callSites>>
    BY <1>1 DEF VisitLoadedInteger, VisitLoad, Defines
  <1>3. cell[p] \in CellIn(nodes') /\ ~Bound(v)' /\ PtrWidth \in Nat \ {0}
    BY <1>2, BoundType, WidthAssumption DEF Inv, nodeVars, Bound
  <1>4. Progress
    BY <1>2, <1>3, CallsLoad, QuietProgress
  <1>5. i \in AnyInstruction /\ i.op # "node"
    BY <1>1 DEF AnyInstruction, Instruction
  <1> QED
    BY <1>2, <1>4, <1>5, SoundNow

\* visitBitCastInst
LEMMA BitCastSound ==
    ASSUME Inv, Sound, todo = Nothing, NEW v \in Value, NEW p \in Value,
           VisitBitCastInst(v, p)
    PROVE  Progress /\ Sound'
  <1>1. /\ Idle /\ ~Bound(v) /\ Bound(p) /\ Visited({Same(v, p)})
        /\ MkCell(v, Resolve(cell[p]))
        /\ UNCHANGED <<nodes, fwd, marks, size, types, links, sites, stack>>
        /\ UNCHANGED <<todo, ret, callSites>>
    BY DEF VisitBitCastInst, Defines
  <1>2. Resolve(cell[p]) \in CellIn(nodes)
    BY <1>1, BoundType, ResolvedType DEF Inv
  <1>3. Progress
    BY <1>1, <1>2, CallsNone, BoundProgress
  <1>4. Same(v, p) \in AnyInstruction /\ Same(v, p).op # "node"
    BY DEF Same, AnyInstruction, Instruction
  <1> QED
    BY <1>1, <1>3, <1>4, SoundNow

\* visitReturnInst
LEMMA ReturnSound ==
    ASSUME Inv, Sound, NEW v \in Value, VisitReturnInst(v)
    PROVE  Progress /\ Sound'
  <1>1. PICK i : i = [op |-> "returned", v |-> v]
    OBVIOUS
  <1>2. /\ Idle /\ todo = Nothing /\ Bound(v) /\ Visited({i})
        /\ ret' = IF ret = NoCell THEN Resolve(cell[v]) ELSE ret
        /\ UNCHANGED <<nodeVars, cell, stack>>
        /\ UNCHANGED <<todo, callSites>>
    BY <1>1 DEF VisitReturnInst, Ready, graphVars, nodeVars
  <1>3. Progress
    BY <1>2, CallsNone, QuietProgress
  <1>4. RetSound'
    <2>1. Resolve(cell[v]) \in CellIn(nodes)
      BY <1>2, BoundType, ResolvedType DEF Inv
    <2> QED
      BY <1>2, <2>1 DEF RetSound, Sound, nodeVars
  <1>5. i \in AnyInstruction /\ i.op # "node"
    BY <1>1 DEF AnyInstruction, FurtherInstruction
  <1>6. ProgSound'
    <2>1. prog' = prog \cup {i}
      BY <1>2 DEF Visited
    <2> QED
      BY <1>3, <1>5, <2>1, OneKept DEF Sound
  <1>7. TodoSound' /\ CallSitesSound'
    BY <1>2, <1>3, NothingSound, CallSitesKept DEF Sound
  <1> QED
    BY <1>3, <1>4, <1>6, <1>7 DEF Sound

(* Visits that leave something to do *)

\* a visit that leaves one or two flags to set
LEMMA FinallyMarks ==
    ASSUME NEW c \in CellIn(nodes'), NEW k \in PlainMark, NEW d \in CellIn(nodes'),
           NEW j \in PlainMark,
           NEW is, is \subseteq AnyInstruction, \A i \in is : i.op # "node",
           NEW fs, fs = <<>> \/ \E x : fs = <<x>> /\ CallLater(x)',
           \/ todo' = Finally({[at |-> c, mark |-> k]}, {}, fs, is)
           \/ todo' = Finally({[at |-> c, mark |-> k], [at |-> d, mark |-> j]}, {}, fs, is)
    PROVE  TodoSound'
  <1>1. PICK ms, ts : /\ todo' = Finally(ms, ts, fs, is) /\ ts = {}
                      /\ ms \subseteq {[at |-> c, mark |-> k], [at |-> d, mark |-> j]}
    OBVIOUS
  <1>2. /\ \A m \in ms : m.at \in CellIn(nodes') /\ m.mark \in PlainMark
        /\ \A t \in ts : t.node \in nodes' /\ t.site \in Value
    BY <1>1
  <1> QED
    BY <1>1, <1>2, FinallyBuilt

\* the instructions such a visit records
LEMMA TouchedOrSame ==
    ASSUME NEW v \in Value, NEW p \in Value, NEW m \in Mark,
           NEW is, is \subseteq {Touch(p, m), Same(v, p)}
    PROVE  is \subseteq AnyInstruction /\ \A i \in is : i.op # "node"
  <1>1. /\ Touch(p, m) \in AnyInstruction /\ Touch(p, m).op # "node"
        /\ Same(v, p) \in AnyInstruction /\ Same(v, p).op # "node"
    BY DEF Touch, Same, AnyInstruction, Instruction
  <1> QED
    BY <1>1

\* visitLoadInst of a struct
LEMMA LoadStructSound ==
    ASSUME Inv, Sound, NEW v \in Value, NEW p \in Value, NEW width \in StructWidth,
           VisitLoadStruct(v, p, width)
    PROVE  Progress /\ Sound'
  <1>1. PICK is, x : is = {Touch(p, "read"), Same(v, p)} /\ x = Bind(v, cell[p])
    OBVIOUS
  <1>2. /\ Idle /\ ~Bound(v) /\ Bound(p)
        /\ Call(<<Access(cell[p], width)>>)
        /\ todo' = Finally({[at |-> cell[p], mark |-> "read"]}, {}, <<x>>, is)
        /\ UNCHANGED <<nodeVars, cell, prog, ret, callSites>>
    BY <1>1 DEF VisitLoadStruct, Defines
  <1>3. /\ cell[p] \in CellIn(nodes') /\ ~Bound(v)' /\ width \in Nat \ {0}
    BY <1>2, BoundType, FieldOffsetAssumption DEF Inv, nodeVars, Bound
  <1>4. SafeCalls /\ NoClient'
    BY <1>2, <1>3, CallsAccess
  <1>5. Progress
    BY <1>2, <1>4, QuietProgress
  <1>6. CallLater(x)'
    <2>1. x \in FrameIn(nodes') /\ x.op = "bind" /\ x.v = v
      BY <1>1, <1>3 DEF Bind, FrameIn
    <2> QED
      BY <1>3, <1>4, <2>1 DEF CallLater
  <1>7. "read" \in Mark /\ "read" \in PlainMark
    BY MarksPlain
  <1>8. is \subseteq AnyInstruction /\ \A i \in is : i.op # "node"
    BY <1>1, <1>7, TouchedOrSame
  <1>9. TodoSound'
    BY <1>2, <1>3, <1>6, <1>7, <1>8, FinallyMarks
  <1> QED
    BY <1>2, <1>5, <1>9, SoundLater

(* Marks *)

\* the visits that only set flags
LEMMA MarksSound ==
    ASSUME Inv, Sound, todo = Nothing, NEW p \in Value, NEW ms \in SUBSET PlainMark,
           Marks(p, ms)
    PROVE  Progress /\ Sound'
  <1>1. PICK n, is : n = Resolve(cell[p]).node /\ is = {Touch(p, m) : m \in ms}
    OBVIOUS
  <1>2. /\ Idle /\ Bound(p) /\ Visited(is)
        /\ marks' = [marks EXCEPT ![n] = @ \cup ms]
        /\ UNCHANGED <<nodes, fwd, size, types, links, sites, scalar, once, cell, stack>>
        /\ UNCHANGED <<todo, ret, callSites>>
    BY <1>1 DEF Marks
  <1>3. n \in nodes
    BY <1>1, <1>2, BoundType, ResolvedType DEF Inv
  <1>4. Progress
    BY <1>2, <1>3, CallsNone, MarkedProgress
  <1>5. is \in SUBSET AnyInstruction /\ \A i \in is : i.op # "node"
    <2>1. \A m \in ms : Touch(p, m) \in AnyInstruction /\ Touch(p, m).op # "node"
      BY DEF Touch, AnyInstruction, Instruction, PlainMark
    <2> QED
      BY <1>1, <2>1
  <1> QED
    BY <1>2, <1>4, <1>5, SoundNow

\* visitAtomicRMWInst
LEMMA AtomicRMWSound ==
    ASSUME Inv, Sound, todo = Nothing, NEW p \in Value, NEW width \in StructWidth,
           VisitAtomicRMWInst(p, width)
    PROVE  Progress /\ Sound'
  <1>1. PICK n, is, ms : /\ n = Resolve(cell[p]).node
                         /\ is = {Touch(p, "modified"), Touch(p, "read")}
                         /\ ms = {"modified", "read"}
    OBVIOUS
  <1>2. /\ Idle /\ Bound(p) /\ Visited(is)
        /\ marks' = [marks EXCEPT ![n] = @ \cup ms]
        /\ Call(<<Access(cell[p], width)>>)
        /\ UNCHANGED <<nodes, fwd, size, types, links, sites, scalar, once, cell>>
        /\ UNCHANGED <<todo, ret, callSites>>
    BY <1>1 DEF VisitAtomicRMWInst
  <1>3. n \in nodes /\ cell[p] \in CellIn(nodes') /\ width \in Nat \ {0}
    BY <1>1, <1>2, BoundType, ResolvedType, FieldOffsetAssumption DEF Inv
  <1>4. ms \in SUBSET PlainMark
    BY <1>1, MarksPlain
  <1>5. Progress
    BY <1>2, <1>3, <1>4, CallsAccess, MarkedProgress
  <1>6. is \in SUBSET AnyInstruction /\ \A i \in is : i.op # "node"
    <2>1. \A m \in ms : Touch(p, m) \in AnyInstruction /\ Touch(p, m).op # "node"
      BY <1>4 DEF Touch, AnyInstruction, Instruction, PlainMark
    <2> QED
      BY <1>1, <2>1
  <1> QED
    BY <1>2, <1>5, <1>6, SoundNow

(* Links *)

\* visitAtomicCmpXchgInst, up to what it loads
LEMMA CmpXchgSound ==
    ASSUME Inv, Sound, NEW v \in Value, NEW p \in Value, NEW w \in Value,
           NEW ty \in FieldType, VisitAtomicCmpXchgInst(v, p, w, ty)
    PROVE  Progress /\ Sound'
  <1>1. PICK n, ms : n = Resolve(cell[p]).node /\ ms = {"modified", "read"}
    OBVIOUS
  <1>2. /\ Idle /\ ~Bound(v) /\ Bound(p) /\ Bound(w)
        /\ marks' = [marks EXCEPT ![n] = @ \cup ms]
        /\ Call(<<Access(cell[p], PtrWidth), Load(v, cell[p], ty)>>)
        /\ todo' = Exchange(v, p, w, ty)
        /\ UNCHANGED <<nodes, fwd, size, types, links, sites, scalar, once, cell>>
        /\ UNCHANGED <<prog, ret, callSites>>
    BY <1>1 DEF VisitAtomicCmpXchgInst, Defines
  <1>3. /\ n \in nodes /\ cell[p] \in CellIn(nodes') /\ PtrWidth \in Nat \ {0}
        /\ ~Bound(v)'
    BY <1>1, <1>2, BoundType, ResolvedType, WidthAssumption DEF Inv, Bound
  <1>4. ms \in SUBSET PlainMark
    BY <1>1, MarksPlain
  <1>5. SafeCalls /\ LoadPending(v)'
    BY <1>2, <1>3, CallsLoad
  <1>6. Progress
    BY <1>2, <1>3, <1>4, <1>5, MarkedProgress
  <1>7. TodoSound'
    <2>1. /\ todo'.op = "exchange" /\ todo'.v = v /\ todo'.p = p /\ todo'.w = w
          /\ todo'.ty = ty
      BY <1>2 DEF Exchange
    <2>2. Bound(w)'
      BY <1>2, <1>6, BoundKept DEF Progress
    <2>3. ExchangeSound'
      BY <1>5, <2>1, <2>2 DEF ExchangeSound
    <2> QED
      BY <2>1, <2>3 DEF TodoSound, FinallySound, ExtractSound
  <1> QED
    BY <1>2, <1>6, <1>7, SoundLater

\* what is put into a field or read from it
LEMMA HeldRecorded ==
    ASSUME NEW i, NEW v \in Value, NEW p \in Value, NEW k \in Int, NEW ty \in FieldType,
           \/ i = [op |-> "put", v |-> v, p |-> p, k |-> k, ty |-> ty]
           \/ i = [op |-> "get", v |-> v, p |-> p, k |-> k, ty |-> ty]
    PROVE  i \in AnyInstruction /\ i.op # "node"
  <1>1. i.op # "node"
    OBVIOUS
  <1>2. i \in [op : {"put", "get"}, v : Value, p : Value, k : Int, ty : FieldType]
    OBVIOUS
  <1>3. [op : {"put", "get"}, v : Value, p : Value, k : Int, ty : FieldType]
           \subseteq AnyInstruction
    BY DEF AnyInstruction, FurtherInstruction
  <1> QED
    BY <1>1, <1>2, <1>3

\* visitAtomicCmpXchgInst, once it has loaded
LEMMA ExchangeMergesSound ==
    ASSUME Inv, Sound, ExchangeMerges
    PROVE  Progress /\ Sound'
  <1>1. /\ Idle /\ todo.op = "exchange"
        /\ Call(<<Unify(cell[todo.v], cell[todo.w])>>)
        /\ prog' = prog \cup Exchanged(todo.v, todo.p, todo.w, todo.ty)
        /\ todo' = Nothing
        /\ UNCHANGED <<nodeVars, cell, ret, callSites>>
    BY DEF ExchangeMerges
  <1>2. /\ todo.v \in Value /\ todo.p \in Value /\ todo.w \in Value
        /\ todo.ty \in FieldType /\ Bound(todo.w)
        /\ Bound(todo.v) \/ LoadPending(todo.v)
    BY <1>1 DEF Sound, TodoSound, ExchangeSound
  <1>3. ~LoadPending(todo.v)
    BY <1>1 DEF LoadPending, On, Idle
  <1>4. cell[todo.v] \in CellIn(nodes') /\ cell[todo.w] \in CellIn(nodes')
    BY <1>1, <1>2, <1>3, BoundType DEF Inv, nodeVars
  <1>5. Progress
    BY <1>1, <1>4, CallsUnify, QuietProgress
  <1>6. PICK is, i, j :
           /\ i = [op |-> "get", v |-> todo.v, p |-> todo.p, k |-> 0, ty |-> todo.ty]
           /\ j = [op |-> "put", v |-> todo.w, p |-> todo.p, k |-> 0, ty |-> todo.ty]
           /\ is = {i, j}
    OBVIOUS
  <1>7. i \in AnyInstruction /\ j \in AnyInstruction /\ i.op # "node" /\ j.op # "node"
    <2>1. 0 \in Int
      OBVIOUS
    <2> QED
      BY <1>2, <1>6, <2>1, HeldRecorded
  <1>8. prog' = prog \cup is
    BY <1>1, <1>6 DEF Exchanged
  <1>9. is \in SUBSET AnyInstruction /\ \A k \in is : k.op = "node" => Bound(k.v)'
    BY <1>6, <1>7
  <1> QED
    BY <1>1, <1>5, <1>8, <1>9, NothingSound, SoundKept

(* Aggregates *)

\* an aggregate without a cell is given a node
LEMMA GiveAggregateNodeSound ==
    ASSUME Inv, Sound, NEW v \in Value, NEW p \in Value, GiveAggregateNode(v, p)
    PROVE  Progress /\ Sound'
  <1>1. Progress
    BY FreshNodeProgress, MarksPlain DEF GiveAggregateNode
  <1>2. todo' = Again(v, p) /\ UNCHANGED <<prog, ret, callSites>>
    BY DEF GiveAggregateNode
  <1> QED
    BY <1>1, <1>2, NothingSound, SoundLater

\* where in the aggregate p a field lies
LEMMA ShiftType ==
    ASSUME TypeOK, NEW p \in Value, Bound(p), NEW k \in Nat
    PROVE  Shift(p, k) \in CellIn(nodes)
  BY BoundType, ShiftedType DEF Shift

\* visitInsertValueInst, of a pointer and of anything else
LEMMA InsertSound ==
    ASSUME Inv, Sound, NEW v \in Value, NEW p \in Value, NEW k \in FieldOffset,
           \/ \E w \in Value, ty \in FieldType : VisitInsertValueInst(v, p, w, k, ty)
           \/ \E width \in StructWidth : VisitInsertScalar(v, p, width, k)
    PROVE  Progress /\ Sound'
  <1>1. /\ Idle /\ ~Bound(v) /\ Bound(p)
        /\ MkCell(v, Resolve(cell[p]))
        /\ UNCHANGED <<nodes, fwd, marks, size, types, links, sites>>
        /\ UNCHANGED <<prog, ret, callSites>>
    BY DEF VisitInsertValueInst, VisitInsertScalar, Aggregate
  <1>2. k \in Nat /\ PtrWidth \in Nat \ {0} /\ StructWidth \subseteq Nat \ {0}
    BY FieldOffsetAssumption, WidthAssumption
  <1>3. /\ Resolve(cell[p]) \in CellIn(nodes)
        /\ Shift(p, k) \in CellIn(nodes) /\ Shift(p, k) \in CellIn(nodes')
    BY <1>1, <1>2, BoundType, ResolvedType, ShiftType DEF Inv
  <1>4. "modified" \in PlainMark /\ "modified" \in Mark
    BY MarksPlain
  <1>5. CASE \E w \in Value, ty \in FieldType : VisitInsertValueInst(v, p, w, k, ty)
    <2>1. PICK w \in Value, ty \in FieldType : VisitInsertValueInst(v, p, w, k, ty)
      BY <1>5
    <2>2. PICK is, i, x :
             /\ i = [op |-> "put", v |-> w, p |-> p, k |-> k, ty |-> ty]
             /\ is = {Same(v, p), i}
             /\ x = AddLink(Shift(p, k), ty, cell[w])
      OBVIOUS
    <2>3. /\ Bound(w)
          /\ Call(<<Access(Shift(p, k), PtrWidth)>>)
          /\ todo' = Finally({[at |-> Shift(p, k), mark |-> "modified"]}, {}, <<x>>, is)
      BY <2>1, <2>2 DEF VisitInsertValueInst
    <2>4. SafeCalls
      BY <1>2, <1>3, <2>3, CallsAccess
    <2>5. Progress
      BY <1>1, <1>3, <2>4, BoundProgress
    <2>6. cell[w] \in CellIn(nodes')
      BY <1>1, <2>3, BoundType DEF Inv
    <2>7. x \in FrameIn(nodes') /\ x.op = "addLink"
      BY <1>3, <2>2, <2>6 DEF AddLink, FrameIn
    <2>8. CallLater(x)'
      BY <2>7 DEF CallLater, ClientOp
    <2>9. is \subseteq AnyInstruction /\ \A j \in is : j.op # "node"
      <3>1. i \in AnyInstruction /\ i.op # "node"
        <4>1. k \in Int
          BY <1>2
        <4> QED
          BY <2>2, <4>1, HeldRecorded
      <3>2. Same(v, p) \in AnyInstruction /\ Same(v, p).op # "node"
        BY DEF Same, AnyInstruction, Instruction
      <3> QED
        BY <2>2, <3>1, <3>2
    <2>10. TodoSound'
      BY <1>3, <1>4, <2>3, <2>8, <2>9, FinallyMarks
    <2> QED
      BY <1>1, <2>5, <2>10, SoundLater
  <1>6. CASE \E width \in StructWidth : VisitInsertScalar(v, p, width, k)
    <2>1. PICK width \in StructWidth : VisitInsertScalar(v, p, width, k)
      BY <1>6
    <2>2. PICK is : is = {Same(v, p), Touch(p, "modified")}
      OBVIOUS
    <2>3. /\ Call(<<Access(Shift(p, k), width)>>)
          /\ todo' = Finally({[at |-> Shift(p, k), mark |-> "modified"]}, {}, <<>>, is)
      BY <2>1, <2>2 DEF VisitInsertScalar
    <2>4. width \in Nat \ {0}
      BY <1>2
    <2>5. SafeCalls
      BY <1>3, <2>3, <2>4, CallsAccess
    <2>6. Progress
      BY <1>1, <1>3, <2>5, BoundProgress
    <2>7. is \subseteq AnyInstruction /\ \A j \in is : j.op # "node"
      BY <1>4, <2>2, TouchedOrSame
    <2>8. TodoSound'
      BY <1>3, <1>4, <2>3, <2>7, FinallyMarks
    <2> QED
      BY <1>1, <2>6, <2>8, SoundLater
  <1> QED
    BY <1>5, <1>6

\* visitExtractValueInst of what is not a pointer
LEMMA ExtractScalarSound ==
    ASSUME Inv, Sound, NEW v \in Value, NEW p \in Value, NEW k \in FieldOffset,
           NEW width \in StructWidth, VisitExtractScalar(v, p, width, k)
    PROVE  Progress /\ Sound'
  <1>1. PICK is : is = {Touch(p, "read")}
    OBVIOUS
  <1>2. /\ Idle /\ Bound(p)
        /\ Call(<<Access(Shift(p, k), width)>>)
        /\ todo' = Finally({[at |-> Shift(p, k), mark |-> "read"]}, {}, <<>>, is)
        /\ UNCHANGED <<nodeVars, cell, prog, ret, callSites>>
    BY <1>1 DEF VisitExtractScalar, Aggregate
  <1>3. k \in Nat /\ width \in Nat \ {0}
    BY FieldOffsetAssumption
  <1>4. Shift(p, k) \in CellIn(nodes')
    BY <1>2, <1>3, ShiftType DEF Inv, nodeVars
  <1>5. Progress
    BY <1>2, <1>3, <1>4, CallsAccess, QuietProgress
  <1>6. "read" \in Mark /\ "read" \in PlainMark
    BY MarksPlain
  <1>7. is \subseteq AnyInstruction /\ \A i \in is : i.op # "node"
    BY <1>1, <1>6, TouchedOrSame
  <1>8. TodoSound'
    BY <1>2, <1>4, <1>6, <1>7, FinallyMarks
  <1> QED
    BY <1>2, <1>5, <1>8, SoundLater

\* visitExtractValueInst of a pointer, up to its access
LEMMA ExtractValueSound ==
    ASSUME Inv, Sound, NEW v \in Value, NEW p \in Value, NEW k \in FieldOffset,
           NEW ty \in FieldType, VisitExtractValueInst(v, p, k, ty)
    PROVE  Progress /\ Sound'
  <1>1. /\ Idle /\ ~Bound(v) /\ Bound(p)
        /\ Call(<<Access(Shift(p, k), PtrWidth)>>)
        /\ todo' = Extract(v, p, k, ty)
        /\ UNCHANGED <<nodeVars, cell, prog, ret, callSites>>
    BY DEF VisitExtractValueInst, Aggregate
  <1>2. k \in Nat /\ PtrWidth \in Nat \ {0}
    BY FieldOffsetAssumption, WidthAssumption
  <1>3. Shift(p, k) \in CellIn(nodes')
    BY <1>1, <1>2, ShiftType DEF Inv, nodeVars
  <1>4. SafeCalls /\ NoClient'
    BY <1>1, <1>2, <1>3, CallsAccess
  <1>5. Progress
    BY <1>1, <1>4, QuietProgress
  <1>6. /\ todo'.op = "extract" /\ todo'.v = v /\ todo'.p = p /\ todo'.k = k
        /\ todo'.ty = ty
    BY <1>1 DEF Extract
  <1>7. Bound(p)' /\ ~Bound(v)'
    BY <1>1 DEF Bound
  <1>8. ExtractSound'
    BY <1>2, <1>4, <1>6, <1>7 DEF ExtractSound
  <1>9. TodoSound'
    BY <1>6, <1>8 DEF TodoSound, FinallySound, ExchangeSound
  <1> QED
    BY <1>1, <1>5, <1>9, SoundLater

\* the cell that is read, and its instruction
LEMMA ExtractType ==
    ASSUME Inv, Sound, Extracting
    PROVE  /\ todo.v \in Value /\ todo.ty \in FieldType /\ ~Bound(todo.v)
           /\ ExtractedFrom \in CellIn(nodes)
           /\ Resolve(ExtractedFrom).node \in nodes
           /\ Extracted \in AnyInstruction /\ Extracted.op # "node"
  <1>1. /\ todo.v \in Value /\ todo.p \in Value /\ todo.k \in Nat
        /\ todo.ty \in FieldType /\ Bound(todo.p) /\ ~Bound(todo.v)
    BY DEF Extracting, Sound, TodoSound, ExtractSound
  <1>2. ExtractedFrom \in CellIn(nodes)
    BY <1>1, ShiftType DEF Inv, ExtractedFrom
  <1>3. Resolve(ExtractedFrom).node \in nodes
    BY <1>2, ResolvedType DEF Inv
  <1>4. Extracted \in AnyInstruction /\ Extracted.op # "node"
    <2>1. todo.k \in Int
      BY <1>1
    <2> QED
      BY <1>1, <2>1, HeldRecorded DEF Extracted
  <1> QED
    BY <1>1, <1>2, <1>3, <1>4

\* it goes on with the link there is
LEMMA ExtractFindsSound ==
    ASSUME Inv, Sound, ExtractFindsLink
    PROVE  Progress /\ Sound'
  <1>1. PICK n, ms, v, c, ty, x, is :
           /\ n = Resolve(ExtractedFrom).node /\ ms = {"read"} /\ is = {Extracted}
           /\ v = todo.v /\ c = ExtractedFrom /\ ty = todo.ty /\ x = BindLink(v, c, ty)
    OBVIOUS
  <1>2. /\ Idle /\ Extracting
        /\ marks' = [marks EXCEPT ![n] = @ \cup ms]
        /\ Call(<<x>>) /\ prog' = prog \cup is /\ todo' = Nothing
        /\ UNCHANGED <<nodes, fwd, size, types, links, sites, scalar, once, cell>>
        /\ UNCHANGED <<ret, callSites>>
    BY <1>1 DEF ExtractFindsLink, Extracting, SetMark
  <1>3. /\ n \in nodes /\ v \in Value /\ ~Bound(v) /\ c \in CellIn(nodes)
        /\ ty \in FieldType /\ is \in SUBSET AnyInstruction
        /\ \A i \in is : i.op # "node"
    BY <1>1, <1>2, ExtractType
  <1>4. x \in FrameIn(nodes') /\ x.op = "bindLink" /\ x.v = v /\ ~Bound(v)'
    <2>1. c \in CellIn(nodes') /\ ~Bound(v)'
      BY <1>2, <1>3 DEF Bound
    <2> QED
      BY <1>1, <1>3, <2>1 DEF BindLink, FrameIn
  <1>5. SafeCalls
    BY <1>2, <1>4, OneCallSafe DEF Call
  <1>6. ms \in SUBSET PlainMark
    BY <1>1, MarksPlain
  <1>7. Progress
    BY <1>2, <1>3, <1>5, <1>6, MarkedProgress
  <1> QED
    BY <1>2, <1>3, <1>7, NothingSound, SoundKept

\* the new node is linked, then bound
LEMMA ExtractMakesSound ==
    ASSUME Inv, Sound, ExtractMakesLink
    PROVE  Progress /\ Sound'
  <1>1. PICK m, v, c, ty, is :
           /\ m = Resolve(ExtractedFrom).node /\ is = {Extracted}
           /\ v = todo.v /\ c = ExtractedFrom /\ ty = todo.ty
    OBVIOUS
  <1>2. PICK n \in ClientNode :
           /\ MkNode(n)
           /\ Call(<<AddLink(c, ty, At(n, 0))>>)
           /\ todo' = Finally({}, {[node |-> n, site |-> v]}, <<BindLink(v, c, ty)>>, is)
    BY <1>1 DEF ExtractMakesLink
  <1>3. /\ Idle /\ Extracting /\ SetMark(m, "read")
        /\ UNCHANGED <<fwd, size, types, links, sites, scalar, once, cell>>
        /\ UNCHANGED <<prog, ret, callSites>>
    BY <1>1 DEF ExtractMakesLink, Extracting
  <1>4. /\ m \in nodes /\ v \in Value /\ ~Bound(v) /\ c \in CellIn(nodes)
        /\ ty \in FieldType /\ is \in SUBSET AnyInstruction
        /\ \A i \in is : i.op # "node"
    BY <1>1, <1>3, ExtractType
  <1>5. /\ nodes \subseteq nodes' /\ nodes' \subseteq Node
        /\ n \in Node /\ n \in nodes' /\ At(n, 0) \in CellIn(nodes')
    BY <1>2, MkNodeType DEF Inv
  <1>6. c \in CellIn(nodes') /\ m \in nodes'
    BY <1>4, <1>5, FramesGrow
  <1>7. SafeCalls /\ NoClient'
    BY <1>2, <1>4, <1>5, <1>6, CallsAddLink
  <1>8. SafeMarks
    BY <1>3, <1>5, <1>6, MarksPlain, OneMarkSafe DEF Inv
  <1>9. SafeCells
    BY <1>3, <1>5, SameCellsSafe DEF Inv
  <1>10. sites' \in [Node -> SUBSET Value]
    BY <1>3 DEF Inv, TypeOK
  <1>11. Progress
    BY <1>3, <1>5, <1>7, <1>8, <1>9, <1>10, VisitProgress
  <1>12. PICK x : x = BindLink(v, c, ty)
    OBVIOUS
  <1>13. CallLater(x)'
    <2>1. x \in FrameIn(nodes') /\ x.op = "bindLink" /\ x.v = v
      BY <1>4, <1>6, <1>12 DEF BindLink, FrameIn
    <2>2. ~Bound(v)'
      BY <1>3, <1>4 DEF Bound
    <2> QED
      BY <1>7, <2>1, <2>2 DEF CallLater
  <1>14. PICK ms, ts, fs : /\ ms = {} /\ ts = {[node |-> n, site |-> v]} /\ fs = <<x>>
                           /\ todo' = Finally(ms, ts, fs, is)
    BY <1>2, <1>12
  <1>15. /\ \A y \in ms : y.at \in CellIn(nodes') /\ y.mark \in PlainMark
         /\ \A t \in ts : t.node \in nodes' /\ t.site \in Value
         /\ fs = <<>> \/ \E y : fs = <<y>> /\ CallLater(y)'
    BY <1>4, <1>5, <1>13, <1>14
  <1>16. TodoSound'
    <2>1. is \subseteq AnyInstruction
      BY <1>4
    <2> QED
      BY <1>4, <1>14, <1>15, <2>1, FinallyBuilt
  <1> QED
    BY <1>3, <1>11, <1>16, SoundLater

(* Globals *)

\* a global has a cell
LEMMA GlobalBound ==
    ASSUME Inv, Sound, NEW g \in Value, IsGlobal(g)
    PROVE  Bound(g)
  <1>1. PICK i : i = [op |-> "node", v |-> g, marks |-> {}, sites |-> {g}] /\ i \in prog
    BY DEF IsGlobal
  <1> QED
    BY <1>1 DEF Sound, ProgSound

\* so has an offset from the start of a value's node
LEMMA SlotType ==
    ASSUME Inv, NEW p \in Value, Bound(p), NEW k \in Nat
    PROVE  At(Resolve(cell[p]).node, k) \in CellIn(nodes)
  <1>1. Resolve(cell[p]).node \in nodes
    BY BoundType, ResolvedType DEF Inv
  <1> QED
    BY <1>1 DEF At, CellIn

\* a global initialised with the address of another
LEMMA InitGlobalSound ==
    ASSUME Inv, Sound, NEW g \in Value, NEW w \in Value, NEW k \in FieldOffset,
           NEW ty \in FieldType, InitGlobal(g, k, w, ty)
    PROVE  Progress /\ Sound'
  <1>1. PICK i : i = [op |-> "put", v |-> w, p |-> g, k |-> k, ty |-> ty]
    OBVIOUS
  <1>2. /\ Idle /\ todo = Nothing /\ IsGlobal(g) /\ IsGlobal(w) /\ Visited({i})
        /\ Call(<<Access(GlobalSlot(g, k), PtrWidth),
                  AddLink(GlobalSlot(g, k), ty, cell[w])>>)
        /\ UNCHANGED <<nodeVars, cell>>
        /\ UNCHANGED <<todo, ret, callSites>>
    BY <1>1 DEF InitGlobal, Ready
  <1>3. k \in Nat /\ k \in Int /\ PtrWidth \in Nat \ {0}
    BY FieldOffsetAssumption, WidthAssumption
  <1>4. Bound(g) /\ Bound(w)
    BY <1>2, GlobalBound
  <1>5. GlobalSlot(g, k) \in CellIn(nodes') /\ cell[w] \in CellIn(nodes')
    BY <1>2, <1>3, <1>4, BoundType, SlotType DEF Inv, nodeVars, GlobalSlot
  <1>6. SafeCalls
    BY <1>2, <1>3, <1>5, CallsStore
  <1>7. Progress
    BY <1>2, <1>6, QuietProgress
  <1>8. i \in AnyInstruction /\ i.op # "node"
    BY <1>1, <1>3, HeldRecorded
  <1>9. todo' = Nothing
    BY <1>2
  <1> QED
    BY <1>2, <1>7, <1>8, <1>9, SoundNow

\* a global initialised with that of a function
LEMMA InitWithFunctionSound ==
    ASSUME Inv, Sound, NEW g \in Value, NEW f \in Value, NEW k \in FieldOffset,
           NEW ty \in FieldType, InitGlobalWithFunction(g, k, f, ty)
    PROVE  Progress /\ Sound'
  <1>1. PICK i : i = [op |-> "function", p |-> g, k |-> k, ty |-> ty, site |-> f]
    OBVIOUS
  <1>2. PICK n \in ClientNode :
           /\ MkNode(n)
           /\ sites' = [sites EXCEPT ![n] = {f}]
           /\ Call(<<Access(GlobalSlot(g, k), PtrWidth),
                     AddLink(GlobalSlot(g, k), ty, At(n, 0))>>)
    BY DEF InitGlobalWithFunction
  <1>3. /\ Idle /\ todo' = Nothing /\ IsGlobal(g) /\ Visited({i})
        /\ UNCHANGED <<fwd, marks, size, types, links, scalar, once, cell>>
        /\ UNCHANGED <<ret, callSites>>
    BY <1>1 DEF InitGlobalWithFunction, Ready
  <1>4. k \in Nat /\ PtrWidth \in Nat \ {0}
    BY FieldOffsetAssumption, WidthAssumption
  <1>5. /\ nodes \subseteq nodes' /\ nodes' \subseteq Node
        /\ n \in Node /\ n \in nodes' /\ At(n, 0) \in CellIn(nodes')
    BY <1>2, MkNodeType DEF Inv
  <1>6. GlobalSlot(g, k) \in CellIn(nodes')
    <2>1. GlobalSlot(g, k) \in CellIn(nodes)
      BY <1>3, <1>4, GlobalBound, SlotType DEF GlobalSlot
    <2> QED
      BY <1>5, <2>1, FramesGrow
  <1>7. SafeCalls
    BY <1>2, <1>4, <1>5, <1>6, CallsStore
  <1>8. SafeMarks /\ SafeCells
    BY <1>3, <1>5, SameMarksSafe, SameCellsSafe DEF Inv
  <1>9. sites' \in [Node -> SUBSET Value]
    BY <1>2 DEF Inv, TypeOK
  <1>10. Progress
    BY <1>3, <1>5, <1>7, <1>8, <1>9, VisitProgress
  <1>11. i \in AnyInstruction /\ i.op # "node"
    BY <1>1, <1>4 DEF AnyInstruction, FurtherInstruction
  <1> QED
    BY <1>3, <1>10, <1>11, SoundNow

(* Specification functions *)

\* sea_dsa_alias
LEMMA VisitAliasSound ==
    ASSUME Inv, Sound, NEW p \in Value, NEW q \in Value, NEW r \in Value,
           VisitAlias(p, q, r)
    PROVE  Progress /\ Sound'
  <1>1. PICK is, x, y : /\ is = {Same(p, q), Same(p, r)}
                        /\ x = Unify(cell[p], cell[q]) /\ y = Unify(cell[p], cell[r])
    OBVIOUS
  <1>2. /\ Idle /\ todo' = Nothing /\ Bound(p) /\ Bound(q) /\ Bound(r)
        /\ Visited(is) /\ Call(<<x, y>>)
        /\ UNCHANGED <<nodeVars, cell>>
        /\ UNCHANGED <<ret, callSites>>
    BY <1>1 DEF VisitAlias, Ready
  <1>3. /\ cell[p] \in CellIn(nodes') /\ cell[q] \in CellIn(nodes')
        /\ cell[r] \in CellIn(nodes')
    BY <1>2, BoundType DEF Inv, nodeVars
  <1>4. /\ x \in FrameIn(nodes') /\ x.op = "unify"
        /\ y \in FrameIn(nodes') /\ y.op = "unify"
    BY <1>1, <1>3 DEF Unify, FrameIn
  <1>5. SafeCalls
    BY <1>2, <1>4, CallsTwice DEF ClientOp
  <1>6. Progress
    BY <1>2, <1>5, QuietProgress
  <1>7. is \in SUBSET AnyInstruction /\ \A i \in is : i.op # "node"
    <2>1. /\ Same(p, q) \in AnyInstruction /\ Same(p, q).op # "node"
          /\ Same(p, r) \in AnyInstruction /\ Same(p, r).op # "node"
      BY DEF Same, AnyInstruction, Instruction
    <2> QED
      BY <1>1, <2>1
  <1> QED
    BY <1>2, <1>6, <1>7, SoundNow

\* the distance of such an offset from the pointer
LEMMA OffsetType ==
    ASSUME Inv, NEW p \in Value, Bound(p), NEW k \in Nat
    PROVE  FromPointer(p, k) \in Int
  <1>1. Resolve(cell[p]).off \in Nat
    BY BoundType, ResolvedType DEF Inv
  <1> QED
    BY <1>1 DEF FromPointer

\* sea_dsa_link
LEMMA LinkSound ==
    ASSUME Inv, Sound, NEW p \in Value, NEW w \in Value, NEW k \in LinkedOffset,
           NEW ty \in FieldType, VisitLink(p, k, w, ty)
    PROVE  Progress /\ Sound'
  <1>1. PICK i : i = [op |-> "link", v |-> w, p |-> p, k |-> FromPointer(p, k), ty |-> ty]
    OBVIOUS
  <1>2. /\ Idle /\ todo' = Nothing /\ Bound(p) /\ Bound(w) /\ Visited({i})
        /\ Call(<<AddLink(NodeSlot(p, k), ty, cell[w])>>)
        /\ UNCHANGED <<nodeVars, cell>>
        /\ UNCHANGED <<ret, callSites>>
    BY <1>1 DEF VisitLink, Ready
  <1>3. k \in Nat
    BY FieldOffsetAssumption
  <1>4. NodeSlot(p, k) \in CellIn(nodes') /\ cell[w] \in CellIn(nodes')
    BY <1>2, <1>3, BoundType, SlotType DEF Inv, nodeVars, NodeSlot
  <1>5. Progress
    BY <1>2, <1>4, CallsAddLink, QuietProgress
  <1>6. i \in AnyInstruction /\ i.op # "node"
    <2>1. PICK o \in Int : o = FromPointer(p, k)
      BY <1>2, <1>3, OffsetType
    <2>2. i \in [op : {"link"}, v : Value, p : Value, k : Int, ty : FieldType]
      BY <1>1, <2>1
    <2> QED
      BY <1>1, <2>2 DEF AnyInstruction, FurtherInstruction
  <1> QED
    BY <1>2, <1>5, <1>6, SoundNow

\* sea_dsa_access
LEMMA AccessSound ==
    ASSUME Inv, Sound, NEW p \in Value, NEW k \in FieldOffset, VisitAccess(p, k)
    PROVE  Progress /\ Sound'
  <1>1. PICK i : i = [op |-> "access", p |-> p, k |-> FromPointer(p, k)]
    OBVIOUS
  <1>2. /\ Idle /\ todo' = Nothing /\ Bound(p) /\ Visited({i})
        /\ Call(<<Access(NodeSlot(p, k), PtrWidth)>>)
        /\ UNCHANGED <<nodeVars, cell>>
        /\ UNCHANGED <<ret, callSites>>
    BY <1>1 DEF VisitAccess, Ready
  <1>3. k \in Nat /\ PtrWidth \in Nat \ {0}
    BY FieldOffsetAssumption, WidthAssumption
  <1>4. NodeSlot(p, k) \in CellIn(nodes')
    BY <1>2, <1>3, SlotType DEF Inv, nodeVars, NodeSlot
  <1>5. Progress
    BY <1>2, <1>3, <1>4, CallsAccess, QuietProgress
  <1>6. i \in AnyInstruction /\ i.op # "node"
    <2>1. PICK o \in Int : o = FromPointer(p, k)
      BY <1>2, <1>3, OffsetType
    <2>2. i \in [op : {"access"}, p : Value, k : Int]
      BY <1>1, <2>1
    <2> QED
      BY <1>1, <2>2 DEF AnyInstruction, FurtherInstruction
  <1> QED
    BY <1>2, <1>5, <1>6, SoundNow

\* visitMemTransferInst
LEMMA MemTransferSound ==
    ASSUME Inv, Sound, NEW d \in Value, NEW s \in Value, NEW a, NEW b,
           VisitMemTransferInst(d, s, a, b)
    PROVE  Progress /\ Sound'
  <1>1. PICK z, is : /\ is = {Touch(s, "read"), Touch(d, "modified"), z}
                     /\ z \in {[op |-> "copy none"], Same(d, s),
                               [op |-> "copy", v |-> d, p |-> s]}
                     /\ todo' = Finally({[at |-> cell[s], mark |-> "read"],
                                         [at |-> cell[d], mark |-> "modified"]}, {},
                                        <<>>, is)
    <2>1. PICK z : z = IF b THEN [op |-> "copy none"]
                       ELSE IF CopiesPointers(s, a, b) THEN Same(d, s)
                       ELSE [op |-> "copy", v |-> d, p |-> s]
      OBVIOUS
    <2>2. z \in {[op |-> "copy none"], Same(d, s), [op |-> "copy", v |-> d, p |-> s]}
      BY <2>1
    <2>3. PICK is : is = {Touch(s, "read"), Touch(d, "modified"), z}
      OBVIOUS
    <2>4. todo' = Finally({[at |-> cell[s], mark |-> "read"],
                           [at |-> cell[d], mark |-> "modified"]}, {}, <<>>, is)
      BY <2>1, <2>3 DEF VisitMemTransferInst
    <2> QED
      BY <2>2, <2>3, <2>4
  <1>2. /\ Idle /\ Bound(d) /\ Bound(s)
        /\ Call(<<>>) \/ Call(<<Unify(cell[d], cell[s])>>)
        /\ UNCHANGED <<nodeVars, cell, prog, ret, callSites>>
    BY DEF VisitMemTransferInst, Ready
  <1>3. cell[d] \in CellIn(nodes') /\ cell[s] \in CellIn(nodes')
    BY <1>2, BoundType DEF Inv, nodeVars
  <1>4. SafeCalls
    <2>1. CASE Call(<<>>)
      BY <2>1, NoCallsSafe DEF Call
    <2>2. CASE Call(<<Unify(cell[d], cell[s])>>)
      BY <1>3, <2>2, CallsUnify
    <2> QED
      BY <1>2, <2>1, <2>2
  <1>5. Progress
    BY <1>2, <1>4, QuietProgress
  <1>6. /\ "read" \in PlainMark /\ "modified" \in PlainMark
        /\ "read" \in Mark /\ "modified" \in Mark
    BY MarksPlain
  <1>7. is \subseteq AnyInstruction /\ \A i \in is : i.op # "node"
    <2>1. /\ Touch(s, "read") \in AnyInstruction /\ Touch(s, "read").op # "node"
          /\ Touch(d, "modified") \in AnyInstruction /\ Touch(d, "modified").op # "node"
          /\ Same(d, s) \in AnyInstruction /\ Same(d, s).op # "node"
      BY <1>6 DEF Touch, Same, AnyInstruction, Instruction
    <2>2. PICK x, y : x = [op |-> "copy none"] /\ y = [op |-> "copy", v |-> d, p |-> s]
      OBVIOUS
    <2>3. /\ x \in AnyInstruction /\ x.op # "node"
          /\ y \in AnyInstruction /\ y.op # "node"
      BY <2>2 DEF AnyInstruction, FurtherInstruction
    <2> QED
      BY <1>1, <2>1, <2>2, <2>3
  <1>8. TodoSound'
    BY <1>1, <1>3, <1>6, <1>7, FinallyMarks
  <1> QED
    BY <1>2, <1>5, <1>8, SoundLater

(* The rest of a visit *)

\* FinishVisit: what a visit does when its calls have returned
LEMMA FinishSound ==
    ASSUME Inv, Sound, FinishVisit
    PROVE  Progress /\ Sound'
  <1>1. /\ Idle /\ todo.op = "finally" /\ Call(todo.calls)
        /\ prog' = prog \cup todo.facts /\ todo' = Nothing
        /\ UNCHANGED <<nodes, fwd, size, types, links, scalar, once, cell>>
        /\ UNCHANGED <<ret, callSites>>
    BY DEF FinishVisit
  <1>2. /\ \A m \in todo.marks : m.at \in CellIn(nodes) /\ m.mark \in PlainMark
        /\ \A t \in todo.tags : t.node \in nodes /\ t.site \in Value
        /\ todo.facts \subseteq AnyInstruction /\ \A i \in todo.facts : i.op # "node"
        /\ todo.calls = <<>> \/ \E x : todo.calls = <<x>> /\ CallLater(x)
    BY <1>1 DEF Sound, TodoSound, FinallySound
  <1> DEFINE ms(n) == {m.mark : m \in {x \in todo.marks : Resolve(x.at).node = n}}
             al(n) == {"alloca" : t \in {x \in todo.tags : x.node = n}}
             ss(n) == {t.site : t \in {x \in todo.tags : x.node = n}}
  <1>3. /\ marks' = [n \in Node |-> marks[n] \cup ms(n) \cup al(n)]
        /\ sites' = [n \in Node |-> sites[n] \cup ss(n)]
    BY DEF FinishVisit
  <1>4. "alloca" \in PlainMark
    BY DEF PlainMark, Mark
  <1>5. \A n \in Node : /\ ms(n) \subseteq PlainMark /\ al(n) \subseteq PlainMark
                        /\ ss(n) \subseteq Value
    BY <1>2, <1>4
  <1>6. \A n \in Node \ nodes : ms(n) = {} /\ al(n) = {}
    <2>1. \A m \in todo.marks : Resolve(m.at).node \in nodes
      BY <1>2, ResolvedType DEF Inv
    <2> QED
      BY <1>2, <2>1
  <1>7. nodes \subseteq nodes' /\ nodes' \subseteq Node /\ nodes' = nodes
    BY <1>1 DEF Inv, TypeOK
  <1> HIDE DEF ms, al, ss
  <1>8. SafeMarks
    <2>1. marks \in [Node -> SUBSET Mark] /\ \A y \in Node \ nodes : marks[y] = {}
      BY DEF Inv, TypeOK
    <2>2. marks' \in [Node -> SUBSET Mark]
      BY <1>3, <1>5, <2>1 DEF PlainMark
    <2>3. \A y \in Node \ nodes' : marks'[y] = {}
      BY <1>3, <1>6, <1>7, <2>1
    <2>4. \A y \in Node : IsArray(y)' => IsArray(y)
      BY <1>3, <1>5, <2>1 DEF PlainMark, IsArray
    <2> QED
      BY <2>2, <2>3, <2>4 DEF SafeMarks
  <1>9. SafeCells
    BY <1>1, <1>7, SameCellsSafe DEF Inv
  <1>10. sites' \in [Node -> SUBSET Value]
    BY <1>3, <1>5 DEF Inv, TypeOK
  <1>11. SafeCalls
    <2>1. CASE todo.calls = <<>>
      BY <1>1, <2>1, NoCallsSafe DEF Call
    <2>2. CASE \E x : todo.calls = <<x>> /\ CallLater(x)
      <3>1. PICK x : todo.calls = <<x>> /\ CallLater(x)
        BY <2>2
      <3>2. /\ x \in FrameIn(nodes') /\ x.op \notin {"absorb", "annotate"}
            /\ x.op \notin ClientOp \/ ~Bound(x.v)'
        BY <1>1, <3>1 DEF CallLater, Bound
      <3> QED
        BY <1>1, <3>1, <3>2, OneCallSafe DEF Call
    <2> QED
      BY <1>2, <2>1, <2>2
  <1>12. Progress
    BY <1>1, <1>7, <1>8, <1>9, <1>10, <1>11, VisitProgress
  <1>13. /\ todo.facts \in SUBSET AnyInstruction
         /\ \A i \in todo.facts : i.op = "node" => Bound(i.v)'
    BY <1>2
  <1> QED
    BY <1>1, <1>12, <1>13, NothingSound, SoundKept

(* The graph operations and the visits of DsaLocal *)

\* a graph operation visits nothing
LEMMA StepKeepsProg ==
    ASSUME Step
    PROVE  UNCHANGED prog
  BY DEF Step, LoadFindsLink, LoadMakesLink

\* a graph operation under way disturbs nothing a visit relies on
LEMMA StepSound ==
    ASSUME Inv, ClientsLast, Sound, Step, UNCHANGED extraVars
    PROVE  Progress /\ Sound'
  <1>1. Progress
    BY NextProgress DEF Next
  <1>2. UNCHANGED <<todo, ret, callSites, prog>>
    BY StepKeepsProg DEF extraVars
  <1>3. FinallySound'
    <2> SUFFICES ASSUME todo.op = "finally" PROVE FinallySound'
      BY <1>2 DEF FinallySound
    <2>1. /\ \A m \in todo.marks : m.at \in CellIn(nodes) /\ m.mark \in PlainMark
          /\ \A t \in todo.tags : t.node \in nodes /\ t.site \in Value
          /\ todo.facts \subseteq AnyInstruction /\ \A i \in todo.facts : i.op # "node"
          /\ todo.calls = <<>> \/ \E x : todo.calls = <<x>> /\ CallLater(x)
      BY DEF Sound, TodoSound, FinallySound
    <2>2. nodes \subseteq nodes' /\ CellIn(nodes) \subseteq CellIn(nodes')
          /\ FrameIn(nodes) \subseteq FrameIn(nodes')
      BY <1>1, FramesGrow DEF Progress
    <2>3. ASSUME NEW x, CallLater(x) PROVE CallLater(x)'
      <3>1. x \in FrameIn(nodes') /\ x.op \notin {"absorb", "annotate"}
        BY <2>2, <2>3 DEF CallLater
      <3>2. ASSUME x.op \in ClientOp PROVE ~Bound(x.v)' /\ NoClient'
        <4>1. ~Bound(x.v) /\ NoClient
          BY <2>3, <3>2 DEF CallLater
        <4>2. NoClient' /\ UNCHANGED cell
          BY <4>1, NoClientStep
        <4> QED
          BY <4>1, <4>2 DEF Bound
      <3> QED
        BY <3>1, <3>2 DEF CallLater
    <2>4. todo.calls = <<>> \/ \E x : todo.calls = <<x>> /\ CallLater(x)'
      BY <2>1, <2>3
    <2>5. /\ \A m \in todo.marks : m.at \in CellIn(nodes') /\ m.mark \in PlainMark
          /\ \A t \in todo.tags : t.node \in nodes' /\ t.site \in Value
      BY <2>1, <2>2
    <2> QED
      BY <1>2, <2>1, <2>4, <2>5 DEF FinallySound
  <1>4. ExtractSound'
    <2> SUFFICES ASSUME todo.op = "extract" PROVE ExtractSound'
      BY <1>2 DEF ExtractSound
    <2>1. /\ todo.v \in Value /\ todo.p \in Value /\ todo.k \in Nat
          /\ todo.ty \in FieldType /\ Bound(todo.p) /\ ~Bound(todo.v) /\ NoClient
      BY DEF Sound, TodoSound, ExtractSound
    <2>2. NoClient' /\ UNCHANGED cell
      BY <2>1, NoClientStep
    <2> QED
      BY <1>2, <2>1, <2>2 DEF ExtractSound, Bound
  <1>5. ExchangeSound'
    <2> SUFFICES ASSUME todo.op = "exchange" PROVE ExchangeSound'
      BY <1>2 DEF ExchangeSound
    <2>1. PICK v, p, w, ty : v = todo.v /\ p = todo.p /\ w = todo.w /\ ty = todo.ty
      OBVIOUS
    <2>2. /\ v \in Value /\ p \in Value /\ w \in Value /\ ty \in FieldType
          /\ Bound(w) /\ (Bound(v) \/ LoadPending(v))
      BY <2>1 DEF Sound, TodoSound, ExchangeSound
    <2>3. Bound(w)'
      BY <1>1, <2>2, BoundKept DEF Progress
    <2>4. Bound(v)' \/ LoadPending(v)'
      BY <1>1, <2>2, BoundKept, LoadPendingStep DEF Progress
    <2>5. todo'.v = v /\ todo'.p = p /\ todo'.w = w /\ todo'.ty = ty
      BY <1>2, <2>1
    <2> QED
      BY <2>2, <2>3, <2>4, <2>5 DEF ExchangeSound
  <1>6. TodoSound'
    BY <1>2, <1>3, <1>4, <1>5 DEF TodoSound, Sound
  <1> QED
    BY <1>1, <1>2, <1>6, SoundLater

\* DsaLocal's visits
LEMMA VisitSound ==
    ASSUME Inv, ClientsLast, Sound, todo = Nothing, Visit, UNCHANGED <<todo, ret, callSites>>
    PROVE  Progress /\ Sound'
  <1>1. Progress
    BY NextProgress DEF Next
  <1>2. PICK is \in SUBSET Instruction : prog' = prog \cup is
    BY LocalVisitRecords
  <1>3. /\ is \in SUBSET AnyInstruction
        /\ \A i \in is : i.op = "node" => Bound(i.v)'
    BY DEF AnyInstruction, Instruction
  <1> QED
    BY <1>1, <1>2, <1>3, NothingSound, SoundKept

-----------------------------------------------------------------------------
(* What compress and remove_dead keep.                                      *)

\* everything on the way from a live root is within reach
LEMMA ReachableCloses ==
    ASSUME Inv, RetSound
    PROVE  Roots \subseteq Reachable /\ Targets(Reachable) \subseteq Reachable
  <1> DEFINE F == [V \in SUBSET Node |-> V \cup Targets(V)]
             upTo(f) == [i \in Nat |-> IF i = 0 THEN Roots
                                       ELSE f[i - 1] \cup Targets(f[i - 1])]
  <1>1. Roots \in SUBSET Node
    <2>1. \A v \in Value : Bound(v) => Resolve(cell[v]).node \in nodes
      BY BoundType, ResolvedType DEF Inv
    <2>2. ret # NoCell => Resolve(ret).node \in nodes
      BY ResolvedType DEF Inv, RetSound
    <2> QED
      BY <2>1, <2>2 DEF Roots, Inv, TypeOK
  <1>2. \A V \in SUBSET Node : Targets(V) \in SUBSET Node
    <2>1. \A n \in Node : \A l \in links[n] : Resolve(l.to).node \in Node
      <3> SUFFICES ASSUME NEW n \in Node, NEW l \in links[n]
                   PROVE  Resolve(l.to).node \in Node
        OBVIOUS
      <3>1. l.to \in CellIn(nodes)
        BY DEF Inv, TypeOK, LinkIn
      <3> QED
        BY <3>1, ResolvedType DEF Inv, TypeOK
    <2> QED
      BY <2>1 DEF Targets
  <1>3. F \in [SUBSET Node -> SUBSET Node] /\ \A V \in SUBSET Node : V \subseteq F[V]
    BY <1>2
  <1>4. PICK f : Iterating(f, SUBSET Node, Roots, F)
    BY <1>1, <1>3, Iterates
  <1>5. /\ f \in [Nat -> SUBSET Node] /\ f[0] = Roots
        /\ \A i \in Nat : f[i + 1] = f[i] \cup Targets(f[i])
    BY <1>4 DEF Iterating, F
  <1>6. f = upTo(f)
    <2>1. ASSUME NEW i \in Nat, i # 0 PROVE f[i] = f[i - 1] \cup Targets(f[i - 1])
      <3>1. i - 1 \in Nat /\ i - 1 + 1 = i
        BY <2>1
      <3> QED
        BY <3>1, <1>5
    <2> QED
      BY <2>1, <1>5
  <1>7. PICK h : h = WithinSteps
    OBVIOUS
  <1>8. h = upTo(h)
    BY <1>6, <1>7 DEF WithinSteps
  <1>9. h[0] = Roots /\ \A i \in Nat : h[i + 1] = h[i] \cup Targets(h[i])
    <2>1. h[0] = Roots
      BY <1>8
    <2>2. ASSUME NEW i \in Nat PROVE h[i + 1] = h[i] \cup Targets(h[i])
      <3>1. i + 1 \in Nat /\ i + 1 # 0 /\ i + 1 - 1 = i
        OBVIOUS
      <3>2. PICK j : j = i + 1
        OBVIOUS
      <3>3. upTo(h)[j] = h[j - 1] \cup Targets(h[j - 1])
        BY <3>1, <3>2
      <3>4. h[j] = upTo(h)[j]
        BY <1>8
      <3> QED
        BY <3>1, <3>2, <3>3, <3>4
    <2> QED
      BY <2>1, <2>2
  <1>10. \A i \in Nat : h[i] \subseteq Node
    <2> DEFINE P == {i \in Nat : h[i] \subseteq Node}
    <2>1. 0 \in P
      BY <1>1, <1>9
    <2>2. ASSUME NEW i \in P PROVE i + 1 \in P
      <3>1. i \in Nat /\ i + 1 \in Nat /\ h[i] \subseteq Node
        OBVIOUS
      <3>2. h[i + 1] = h[i] \cup Targets(h[i])
        BY <1>9, <3>1
      <3>3. Targets(h[i]) \subseteq Node
        BY <1>2, <3>1
      <3> QED
        BY <3>1, <3>2, <3>3
    <2>3. P \in SUBSET Nat
      OBVIOUS
    <2> HIDE DEF P
    <2>4. P = Nat
      BY <2>1, <2>2, <2>3, SetInduction
    <2> QED
      BY <2>4 DEF P
  <1>11. Iterating(h, SUBSET Node, Roots, F)
    <2>1. h \in [Nat -> SUBSET Node]
      BY <1>8, <1>10
    <2>2. \A i \in Nat : h[i + 1] = F[h[i]]
      BY <1>9, <1>10 DEF F
    <2> QED
      BY <1>9, <2>1, <2>2 DEF Iterating
  <1>12. \A i \in Nat : Roots \subseteq h[i]
    <2> DEFINE P == {i \in Nat : Roots \subseteq h[i]}
    <2>1. 0 \in P
      BY <1>9
    <2>2. ASSUME NEW i \in P PROVE i + 1 \in P
      <3>1. i \in Nat /\ i + 1 \in Nat /\ Roots \subseteq h[i]
        OBVIOUS
      <3>2. h[i + 1] = h[i] \cup Targets(h[i])
        BY <1>9, <3>1
      <3> QED
        BY <3>1, <3>2
    <2>3. P \in SUBSET Nat
      OBVIOUS
    <2> HIDE DEF P
    <2>4. P = Nat
      BY <2>1, <2>2, <2>3, SetInduction
    <2> QED
      BY <2>4 DEF P
  <1>13. Cardinality(Node) \in Nat /\ F[h[Cardinality(Node)]] = h[Cardinality(Node)]
    <2>1. IsFiniteSet(Node)
      BY MaxNodesAssumption, FS_Interval DEF Node
    <2> QED
      BY <1>3, <1>11, <2>1, Saturates
  <1>14. PICK V : V = Reachable /\ V = h[Cardinality(Node)]
    BY <1>7 DEF Reachable
  <1>15. V \in SUBSET Node /\ Roots \subseteq V /\ F[V] = V
    BY <1>10, <1>12, <1>13, <1>14
  <1>16. V \cup Targets(V) = V
    BY <1>15 DEF F
  <1> QED
    BY <1>14, <1>15, <1>16

\* what a cell leads to is not erased, if it is within reach
LEMMA LiveTarget ==
    ASSUME Inv, nodes' = LiveNodes \cap Reachable, NEW c \in CellIn(nodes),
           Resolve(c).node \in Reachable
    PROVE  Resolve(c) \in CellIn(nodes')
  <1>1. /\ Resolve(c) \in CellIn(nodes)
        /\ Resolve(c).node \in nodes /\ Resolve(c).node = Root(c.node)
    BY ResolvedType DEF Inv, Resolve, Root
  <1>2. c.node \in Node
    BY DEF CellIn, Inv, TypeOK
  <1>3. Root(Root(c.node)) = Root(c.node)
    <2>1. PICK r : r = Root(c.node)
      OBVIOUS
    <2>2. fwd[r] = [node |-> r, off |-> 0]
      BY <1>2, <2>1 DEF Inv, ForwardingResolved
    <2>3. fwd[r].node = r
      BY <2>2
    <2> QED
      BY <2>1, <2>3 DEF Root
  <1>4. Resolve(c).node \in nodes'
    BY <1>1, <1>3 DEF LiveNodes, IsForwarding
  <1> QED
    BY <1>1, <1>4 DEF CellIn

\* every value that had a cell has one, the one it led to
LEMMA CellsSurvive ==
    ASSUME Inv, RetSound, CompressAndRemoveDead, NEW v \in Value
    PROVE  /\ ~Bound(v) => cell'[v] = NoCell /\ ~Bound(v)'
           /\ Bound(v) => /\ cell'[v] = Resolve(cell[v])
                          /\ Resolve(cell[v]) \in CellIn(nodes') /\ Bound(v)'
  <1>1. /\ nodes' = LiveNodes \cap Reachable
        /\ cell' = [w \in Value |-> Resolved(cell[w])]
    BY DEF CompressAndRemoveDead
  <1>2. CASE ~Bound(v)
    BY <1>1, <1>2 DEF Bound, Resolved
  <1>3. CASE Bound(v)
    <2>1. cell[v] \in CellIn(nodes) /\ cell[v] # NoCell
      BY <1>3, BoundType DEF Inv, Bound
    <2>2. Resolve(cell[v]).node \in Roots
      BY <1>3 DEF Roots
    <2>3. Resolve(cell[v]) \in CellIn(nodes')
      BY <1>1, <2>1, <2>2, LiveTarget, ReachableCloses
    <2>4. cell'[v] = Resolve(cell[v])
      BY <1>1, <2>1 DEF Resolved
    <2>5. Resolve(cell[v]) # NoCell
      <3>1. Resolve(cell[v]).node \in Node
        BY <2>1, ResolvedType DEF Inv, TypeOK
      <3> QED
        BY <3>1, MaxNodesAssumption DEF Node, NoCell
    <2> QED
      BY <1>3, <2>3, <2>4, <2>5 DEF Bound
  <1> QED
    BY <1>2, <1>3

\* so has the return
LEMMA ReturnSurvives ==
    ASSUME Inv, RetSound, CompressAndRemoveDead
    PROVE  RetSound'
  <1>1. nodes' = LiveNodes \cap Reachable /\ ret' = Resolved(ret)
    BY DEF CompressAndRemoveDead
  <1>2. CASE ret = NoCell
    BY <1>1, <1>2 DEF Resolved, RetSound
  <1>3. CASE ret # NoCell
    <2>1. ret \in CellIn(nodes) /\ Resolve(ret).node \in Roots
      BY <1>3 DEF RetSound, Roots
    <2>2. Resolve(ret) \in CellIn(nodes')
      BY <1>1, <2>1, LiveTarget, ReachableCloses
    <2> QED
      BY <1>1, <1>3, <2>2 DEF Resolved, RetSound
  <1> QED
    BY <1>2, <1>3

\* the links of what is left lead to what is left
LEMMA LinksSurvive ==
    ASSUME Inv, RetSound, CompressAndRemoveDead
    PROVE  links' \in [Node -> SUBSET LinkIn(nodes')]
  <1>1. /\ nodes' = LiveNodes \cap Reachable
        /\ links' = [n \in Node |->
              {[l EXCEPT !.to = Resolve(l.to)] :
                  l \in IF n \in nodes' THEN links[n] ELSE {}}]
    BY DEF CompressAndRemoveDead
  <1>2. ASSUME NEW n \in Node, n \in nodes', NEW l \in links[n]
        PROVE  [l EXCEPT !.to = Resolve(l.to)] \in LinkIn(nodes')
    <2>1. l \in [off : Nat, ty : FieldType, to : CellIn(nodes)]
      BY DEF Inv, TypeOK, LinkIn
    <2>2. PICK c : c = Resolve(l.to)
      OBVIOUS
    <2>3. c.node \in Targets(Reachable)
      BY <1>1, <1>2, <2>2 DEF Targets
    <2>4. c \in CellIn(nodes')
      BY <1>1, <2>1, <2>2, <2>3, LiveTarget, ReachableCloses
    <2>5. [l EXCEPT !.to = c] \in [off : Nat, ty : FieldType, to : CellIn(nodes')]
      BY <2>1, <2>4
    <2> QED
      BY <2>2, <2>5 DEF LinkIn
  <1>3. ASSUME NEW n \in Node PROVE links'[n] \in SUBSET LinkIn(nodes')
    <2>1. CASE n \in nodes'
      BY <1>1, <1>2, <2>1
    <2>2. CASE n \notin nodes'
      <3>1. links'[n] = {}
        BY <1>1, <2>2
      <3> QED
        BY <3>1
    <2> QED
      BY <2>1, <2>2
  <1> QED
    BY <1>1, <1>3

\* Graph::compress and Graph::remove_dead leave a graph
LEMMA CompressInv ==
    ASSUME Inv, RetSound, CompressAndRemoveDead
    PROVE  Inv' /\ Idle' /\ ClientsLast'
  <1>1. /\ nodes' = LiveNodes \cap Reachable
        /\ cell' = [v \in Value |-> Resolved(cell[v])]
        /\ fwd' = [n \in Node |-> [node |-> n, off |-> 0]]
        /\ marks' = [n \in Node |-> IF n \in nodes' THEN marks[n] ELSE {}]
        /\ size' = [n \in Node |-> IF n \in nodes' THEN size[n] ELSE 0]
        /\ types' = [n \in Node |-> IF n \in nodes' THEN types[n] ELSE {}]
        /\ sites' = [n \in Node |-> IF n \in nodes' THEN sites[n] ELSE {}]
        /\ scalar' = [n \in Node |-> IF n \in nodes' THEN scalar[n] ELSE NoValue]
        /\ once' = [n \in Node |-> n \in nodes' /\ once[n]]
        /\ stack = <<>> /\ stack' = stack
    BY DEF CompressAndRemoveDead, Ready, Idle
  <1>2. nodes' \subseteq nodes /\ nodes \subseteq Node
    BY <1>1 DEF LiveNodes, Inv, TypeOK
  <1>3. /\ marks' \in [Node -> SUBSET Mark] /\ size' \in [Node -> Nat]
        /\ types' \in [Node -> SUBSET Extent] /\ sites' \in [Node -> SUBSET Value]
        /\ scalar' \in [Node -> Value \cup {NoValue}]
        /\ \A n \in Node \ nodes' : fwd'[n] = [node |-> n, off |-> 0] /\ marks'[n] = {}
    <2> USE DEF Inv, TypeOK
    <2>1. marks' \in [Node -> SUBSET Mark]
      BY <1>1
    <2>2. size' \in [Node -> Nat]
      BY <1>1
    <2>3. types' \in [Node -> SUBSET Extent] /\ sites' \in [Node -> SUBSET Value]
      BY <1>1
    <2>4. scalar' \in [Node -> Value \cup {NoValue}]
      BY <1>1
    <2> QED
      BY <1>1, <2>1, <2>2, <2>3, <2>4
  <1>4. fwd' \in [Node -> CellIn(Node)] /\ \A n \in Node : Root(n)' = n
    BY <1>1 DEF CellIn, Root
  <1>5. once' \in [Node -> BOOLEAN]
    BY <1>1
  <1>6. cell' \in [Value -> CellIn(nodes') \cup {NoCell}]
    <2>1. \A v \in Value : cell'[v] \in CellIn(nodes') \cup {NoCell}
      BY CellsSurvive
    <2> QED
      BY <1>1, <2>1
  <1>7. stack' \in Seq(FrameIn(nodes')) /\ \A f : ~On(f, stack')
    BY <1>1 DEF On
  <1>8. TypeOK'
    BY <1>2, <1>3, <1>4, <1>5, <1>6, <1>7, LinksSurvive DEF TypeOK
  <1>9. ForwardingResolved'
    BY <1>1, <1>4 DEF ForwardingResolved
  <1>10. ArraysHaveSize'
    <2>1. \A n \in Node : IsArray(n) => size[n] > 0
      BY DEF Inv, ArraysHaveSize
    <2>2. ASSUME NEW n \in Node, IsArray(n)' PROVE size'[n] > 0
      BY <1>1, <2>1, <2>2 DEF IsArray
    <2> QED
      BY <2>2 DEF ArraysHaveSize
  <1>11. MergesSound'
    BY <1>7 DEF MergesSound
  <1>12. ClientsLast'
    BY <1>1, OneClient
  <1> QED
    BY <1>1, <1>8, <1>9, <1>10, <1>11, <1>12 DEF Inv, Idle

\* the callees of call sites are values, so their nodes are kept
LEMMA SitesSurvive ==
    ASSUME Inv, RetSound, CallSitesSound, CompressAndRemoveDead
    PROVE  CallSitesSound'
  <1>1. /\ nodes' = LiveNodes \cap Reachable
        /\ callSites' = {[c EXCEPT !.cell = Resolve(c.cell)] : c \in callSites}
        /\ fwd' = [n \in Node |-> [node |-> n, off |-> 0]]
    BY DEF CompressAndRemoveDead
  <1>2. ASSUME NEW c \in callSites, NEW e, e = [c EXCEPT !.cell = Resolve(c.cell)]
        PROVE  SiteSound(e)'
    <2>1. c \in [call : Value \cup {NoValue}, cell : CellIn(nodes)]
      BY DEF CallSitesSound, SiteSound
    <2>2. PICK w \in Value : Bound(w) /\ Root(cell[w].node) = Root(c.cell.node)
      BY DEF CallSitesSound, SiteSound
    <2>3. cell[w] \in CellIn(nodes) /\ c.cell \in CellIn(nodes)
      BY <2>1, <2>2, BoundType DEF Inv
    <2>4. PICK d : d = Resolve(c.cell)
      OBVIOUS
    <2>5. d.node = Resolve(cell[w]).node
      BY <2>2, <2>4 DEF Resolve, Root
    <2>6. d.node \in Roots
      BY <2>2, <2>5 DEF Roots
    <2>7. d \in CellIn(nodes')
      BY <1>1, <2>3, <2>4, <2>6, LiveTarget, ReachableCloses
    <2>8. Bound(w)' /\ cell'[w] = Resolve(cell[w])
      BY <2>2, CellsSurvive
    <2>9. e = [c EXCEPT !.cell = d]
      BY <1>2, <2>4
    <2>10. e \in [call : Value \cup {NoValue}, cell : CellIn(nodes')] /\ e.cell = d
      BY <2>1, <2>7, <2>9
    <2>11. Root(cell[w].node)' = Root(e.cell.node)'
      <3>1. cell'[w].node = e.cell.node
        BY <2>5, <2>8, <2>10
      <3> QED
        BY <3>1 DEF Root
    <2>12. SiteSound(e)'
      BY <2>8, <2>10, <2>11 DEF SiteSound
    <2> QED
      BY <2>12
  <1>3. ASSUME NEW c \in callSites' PROVE SiteSound(c)'
    <2>1. PICK b \in callSites : c = [b EXCEPT !.cell = Resolve(b.cell)]
      BY <1>1
    <2> QED
      BY <1>2, <2>1
  <1> QED
    BY <1>3 DEF CallSitesSound

\* what the graph that remains is
LEMMA CompressSound ==
    ASSUME Inv, Sound, CompressAndRemoveDead
    PROVE  /\ Inv' /\ Idle' /\ ClientsLast' /\ Sound'
           /\ todo' = Nothing /\ phase' = "done" /\ NothingDangles'
  <1>1. /\ nodes' = LiveNodes \cap Reachable
        /\ fwd' = [n \in Node |-> [node |-> n, off |-> 0]]
        /\ todo' = Nothing /\ prog' = prog /\ phase' = "done"
    BY DEF CompressAndRemoveDead, Ready
  <1>2. Inv' /\ Idle' /\ ClientsLast'
    BY CompressInv DEF Sound
  <1>3. RetSound' /\ CallSitesSound' /\ TodoSound'
    BY <1>1, ReturnSurvives, SitesSurvive, NothingSound DEF Sound
  <1>4. ProgSound'
    <2>1. prog \subseteq AnyInstruction
      BY DEF Sound, ProgSound
    <2>2. ASSUME NEW i \in prog, i.op = "node" PROVE Bound(i.v)'
      <3>1. PICK v : v = i.v
        OBVIOUS
      <3>2. v \in Value
        BY <2>1, <2>2, <3>1 DEF AnyInstruction, Instruction, FurtherInstruction
      <3>3. Bound(v)
        BY <2>2, <3>1 DEF Sound, ProgSound
      <3>4. Bound(v)'
        BY <3>2, <3>3, CellsSurvive DEF Sound
      <3> QED
        BY <3>1, <3>4
    <2> QED
      BY <1>1, <2>1, <2>2 DEF ProgSound
  <1>5. NothingDangles'
    <2>1. \A v \in Value : Bound(v)' => cell'[v].node \in nodes'
      BY <1>2 DEF Inv, TypeOK, Bound, CellIn
    <2>2. \A n \in nodes' : \A l \in links'[n] : l.to.node \in nodes'
      BY <1>2 DEF Inv, TypeOK, LinkIn, CellIn
    <2>3. ret' # NoCell => ret'.node \in nodes'
      BY <1>3 DEF RetSound, CellIn
    <2>4. \A c \in callSites' : c.cell.node \in nodes'
      BY <1>3 DEF CallSitesSound, SiteSound, CellIn
    <2>5. \A n \in nodes' : Root(n)' = n
      BY <1>1, <1>2 DEF Root, Inv, TypeOK
    <2> QED
      BY <2>1, <2>2, <2>3, <2>4, <2>5 DEF NothingDangles, IsForwarding
  <1> QED
    BY <1>1, <1>2, <1>3, <1>4, <1>5 DEF Sound

-----------------------------------------------------------------------------
(* The analysis.                                                            *)

\* the phases follow each other, and remove_dead is the last thing done
AnalysisInv ==
    /\ Inv /\ ClientsLast /\ Sound
    /\ phase \in {"entry", "body", "done"}
    /\ phase = "done" => Idle /\ todo = Nothing
    /\ NothingDangles

\* the analysis starts with an empty graph
LEMMA InitSound ==
    ASSUME AnalysisInit
    PROVE  AnalysisInv
  <1>1. Init /\ phase = "entry" /\ todo = Nothing /\ ret = NoCell /\ callSites = {}
    BY DEF AnalysisInit
  <1>2. Inv /\ ClientsLast
    <2>1. stack = <<>>
      BY <1>1 DEF Init, GraphInit
    <2> QED
      BY <1>1, <2>1, InitInv DEF ClientsLast
  <1>3. todo.op = "nothing" /\ prog = {}
    BY <1>1 DEF Nothing, Init
  <1>4. Sound
    BY <1>1, <1>3
       DEF Sound, TodoSound, FinallySound, ExtractSound, ExchangeSound, RetSound,
           CallSitesSound, ProgSound
  <1> QED
    BY <1>1, <1>2, <1>4 DEF AnalysisInv, NothingDangles

\* every visit of the analysis and every resumption of one
LEMMA EntrySound ==
    ASSUME Inv, Sound, Entry
    PROVE  Progress /\ Sound'
  <1>1. CASE \E v \in Value : DeclareFormal(v)
    <2>1. PICK v \in Value, ss \in SUBSET Value : Allocates(v, {"alloca"}, ss)
      BY <1>1 DEF DeclareFormal
    <2> QED
      BY <2>1, AllocatesSound, MarksPlain
  <1>2. CASE \E v \in Value : DeclareGlobal(v)
    <2>1. PICK v \in Value : Allocates(v, {}, {v})
      BY <1>2 DEF DeclareGlobal
    <2>2. {v} \in SUBSET Value
      OBVIOUS
    <2> QED
      BY <2>1, <2>2, AllocatesSound, MarksPlain
  <1>3. CASE \E g, w \in Value, k \in FieldOffset, ty \in FieldType :
                InitGlobal(g, k, w, ty) \/ InitGlobalWithFunction(g, k, w, ty)
    BY <1>3, InitGlobalSound, InitWithFunctionSound
  <1> QED
    BY <1>1, <1>2, <1>3 DEF Entry

\* visitCallBase
LEMMA CallSound ==
    ASSUME Inv, ClientsLast, Sound, todo = Nothing, VisitCallBase
    PROVE  Progress /\ Sound'
  <1>0. \A v \in Value : {v} \in SUBSET Value /\ {} \in SUBSET Value
    OBVIOUS
  <1>1. ASSUME NEW v \in Value,
               \/ VisitAllocationFnCall(v) \/ VisitInlineAsmCall(v)
               \/ VisitExternalCall(v) \/ VisitMake(v)
        PROVE  Progress /\ Sound'
    <2>1. \E ms \in SUBSET PlainMark, ss \in SUBSET Value : Allocates(v, ms, ss)
      BY <1>0, <1>1, MarksPlain
         DEF VisitAllocationFnCall, VisitInlineAsmCall, VisitExternalCall, VisitMake
    <2> QED
      BY <2>1, AllocatesSound
  <1>2. ASSUME NEW v \in Value, NEW p \in Value,
               VisitExternalIdentity(v, p) \/ VisitIndirectCall(v, p)
        PROVE  Progress /\ Sound'
    BY <1>2, ExternalIdentitySound, IndirectCallSound
  <1>3. ASSUME NEW p \in Value, VisitSetAttribute(p) \/ VisitIndirectCallForEffect(p)
        PROVE  Progress /\ Sound'
    <2>1. CASE VisitSetAttribute(p)
      <3>1. \E ms \in SUBSET PlainMark : Marks(p, ms)
        BY <2>1, MarksPlain DEF VisitSetAttribute
      <3> QED
        BY <3>1, MarksSound
    <2> QED
      BY <1>3, <2>1, IndirectCallForEffectSound
  <1>4. ASSUME NEW p \in Value, NEW q \in Value, NEW r \in Value, VisitAlias(p, q, r)
        PROVE  Progress /\ Sound'
    BY <1>4, VisitAliasSound
  <1>5. ASSUME NEW p \in Value, NEW w \in Value, NEW k \in LinkedOffset,
               NEW ty \in FieldType, VisitLink(p, k, w, ty)
        PROVE  Progress /\ Sound'
    BY <1>5, LinkSound
  <1>6. ASSUME NEW p \in Value, NEW k \in FieldOffset, VisitAccess(p, k)
        PROVE  Progress /\ Sound'
    BY <1>6, AccessSound
  <1> QED
    BY <1>1, <1>2, <1>3, <1>4, <1>5, <1>6 DEF VisitCallBase

\* the visits that DsaLocal does not have
LEMMA FurtherSound ==
    ASSUME Inv, ClientsLast, Sound, todo = Nothing, VisitFurther
    PROVE  Progress /\ Sound'
  <1>0. \A v \in Value : {v} \in SUBSET Value /\ {} \in SUBSET Value
    OBVIOUS
  <1>1. ASSUME NEW v \in Value,
               \/ DeclareGlobal(v) \/ ConstantCell(v)
               \/ VisitShuffleVectorInst(v) \/ VisitIntToPtr(v)
               \/ \E f \in Value : VisitLoadOfFunction(v, f)
        PROVE  Progress /\ Sound'
    <2>1. \E ms \in SUBSET PlainMark, ss \in SUBSET Value : Allocates(v, ms, ss)
      BY <1>0, <1>1, MarksPlain
         DEF DeclareGlobal, ConstantCell, VisitShuffleVectorInst, VisitIntToPtr,
             VisitLoadOfFunction
    <2> QED
      BY <2>1, AllocatesSound
  <1>2. ASSUME NEW v \in Value, NEW p \in Value, VisitBitCastInst(v, p)
        PROVE  Progress /\ Sound'
    BY <1>2, BitCastSound
  <1>3. ASSUME NEW v \in Value, NEW p \in Value, NEW k \in FieldOffset,
               VisitFixedOffset(v, p, k)
        PROVE  Progress /\ Sound'
    <2>1. k \in Nat
      BY FieldOffsetAssumption
    <2> QED
      BY <1>3, <2>1, FixedOffsetSound
  <1>4. ASSUME NEW v \in Value, NEW p \in Value, NEW ty \in FieldType,
               VisitLoadedInteger(v, p, ty)
        PROVE  Progress /\ Sound'
    BY <1>4, LoadedIntegerSound
  <1>5. ASSUME NEW v \in Value, NEW p \in Value, NEW width \in StructWidth,
               VisitLoadStruct(v, p, width) \/ VisitAtomicRMWInst(p, width)
        PROVE  Progress /\ Sound'
    BY <1>5, LoadStructSound, AtomicRMWSound
  <1>6. ASSUME NEW v \in Value, VisitReturnInst(v)
        PROVE  Progress /\ Sound'
    BY <1>6, ReturnSound
  <1>7. ASSUME NEW p \in Value, VisitMemSetInst(p) \/ VisitPtrToIntInst(p)
        PROVE  Progress /\ Sound'
    <2>1. \E ms \in SUBSET PlainMark : Marks(p, ms)
      BY <1>7, MarksPlain DEF VisitMemSetInst, VisitPtrToIntInst
    <2> QED
      BY <2>1, MarksSound
  <1>8. ASSUME NEW v \in Value, NEW p \in Value, NEW w \in Value, NEW ty \in FieldType,
               VisitAtomicCmpXchgInst(v, p, w, ty)
        PROVE  Progress /\ Sound'
    BY <1>8, CmpXchgSound
  <1>9. ASSUME NEW d \in Value, NEW s \in Value, NEW a \in BOOLEAN, NEW b \in BOOLEAN,
               VisitMemTransferInst(d, s, a, b)
        PROVE  Progress /\ Sound'
    BY <1>9, MemTransferSound
  <1>10. ASSUME NEW v \in Value, NEW p \in Value, GiveAggregateNode(v, p)
         PROVE  Progress /\ Sound'
    BY <1>10, GiveAggregateNodeSound
  <1> QED
    BY <1>1, <1>2, <1>3, <1>4, <1>5, <1>6, <1>7, <1>8, <1>9, <1>10, CallSound
       DEF VisitFurther

\* those of aggregates
LEMMA AggregateSound ==
    ASSUME Inv, Sound, VisitAggregate
    PROVE  Progress /\ Sound'
  BY InsertSound, ExtractScalarSound, ExtractValueSound DEF VisitAggregate

\* one instruction
LEMMA BodySound ==
    ASSUME Inv, ClientsLast, Sound, Body
    PROVE  Progress /\ Sound'
  BY VisitSound, FurtherSound, AggregateSound DEF Body

\* what remains of an instruction
LEMMA ResumeSound ==
    ASSUME Inv, ClientsLast, Sound, Resume
    PROVE  Progress /\ Sound'
  BY StepSound, ExtractFindsSound, ExtractMakesSound, ExchangeMergesSound, FinishSound
     DEF Resume

\* every step of runOnFunction
LEMMA NextSound ==
    ASSUME AnalysisInv, [AnalysisNext]_allVars
    PROVE  AnalysisInv'
  <1>1. /\ Inv /\ ClientsLast /\ Sound /\ phase \in {"entry", "body", "done"}
        /\ phase = "done" => Idle /\ todo = Nothing
    BY DEF AnalysisInv
  <1>2. ASSUME Progress, Sound', phase' \in {"entry", "body"}
        PROVE  AnalysisInv'
    BY <1>2 DEF AnalysisInv, Progress, NothingDangles
  <1>3. CASE Entry
    <2>1. phase' = "entry"
      BY <1>3 DEF Entry
    <2> QED
      BY <1>1, <1>2, <1>3, <2>1, EntrySound
  <1>4. CASE Body
    <2>1. phase' = "body"
      BY <1>4 DEF Body
    <2> QED
      BY <1>1, <1>2, <1>4, <2>1, BodySound
  <1>5. CASE Resume
    <2>1. phase' = phase /\ phase # "done"
      <3>1. phase' = phase
        BY <1>5 DEF Resume, extraVars
      <3>2. CASE ~Idle
        BY <1>1, <3>1, <3>2
      <3>3. CASE ExtractFindsLink \/ ExtractMakesLink \/ ExchangeMerges \/ FinishVisit
        <4>1. todo.op # "nothing"
          BY <3>3 DEF ExtractFindsLink, ExtractMakesLink, ExchangeMerges, FinishVisit,
                      Extracting
        <4> QED
          BY <1>1, <3>1, <4>1 DEF Nothing
      <3> QED
        BY <1>5, <3>1, <3>2, <3>3 DEF Resume
    <2> QED
      BY <1>1, <1>2, <1>5, <2>1, ResumeSound
  <1>6. CASE CompressAndRemoveDead
    BY <1>1, <1>6, CompressSound DEF AnalysisInv
  <1>7. CASE UNCHANGED allVars
    <2>1. Inv'
      BY <1>1, <1>7, NextInv DEF allVars
    <2>2. ClientsLast'
      BY <1>1, <1>7 DEF allVars, vars, graphVars, ClientsLast, Bound
    <2>3. /\ UNCHANGED <<nodes, fwd, marks, links, cell, stack>>
          /\ UNCHANGED <<prog, todo, ret, callSites, phase>>
      BY <1>7 DEF allVars, vars, graphVars, extraVars
    <2>4. TodoSound'
      BY <1>1, <2>3 DEF Sound, TodoSound, FinallySound, ExtractSound, ExchangeSound,
                        CallLater, NoClient, LoadPending, On, Bound
    <2>5. RetSound' /\ CallSitesSound' /\ ProgSound'
      BY <1>1, <2>3 DEF Sound, RetSound, CallSitesSound, SiteSound, ProgSound, Bound, Root
    <2>6. NothingDangles'
      BY <2>3 DEF AnalysisInv, NothingDangles, IsForwarding, Root, Bound
    <2> QED
      BY <1>1, <2>1, <2>2, <2>3, <2>4, <2>5, <2>6 DEF AnalysisInv, Sound, Idle
  <1> QED
    BY <1>3, <1>4, <1>5, <1>6, <1>7 DEF AnalysisNext

\* What the analysis is between and inside its visits, and what it leaves.
THEOREM AnalysisHolds == AnalysisSpec => []AnalysisInv
  <1>1. AnalysisInit => AnalysisInv
    BY InitSound
  <1>2. AnalysisInv /\ [AnalysisNext]_allVars => AnalysisInv'
    BY NextSound
  <1> QED
    BY <1>1, <1>2, PTL DEF AnalysisSpec

\* The cells of values, of the return and of call sites lie in nodes of the graph
\* throughout LocalAnalysis::runOnFunction.
THEOREM AnalysisTypeCorrect == AnalysisSpec => []AnalysisTypeOK
  <1>1. AnalysisInv => AnalysisTypeOK
    <2> SUFFICES ASSUME AnalysisInv PROVE AnalysisTypeOK
      OBVIOUS
    <2>1. TypeOK /\ phase \in {"entry", "body", "done"}
      BY DEF AnalysisInv, Inv
    <2>2. todo.op \in {"nothing", "finally", "again", "extract", "exchange"}
      BY DEF AnalysisInv, Sound, TodoSound
    <2>3. ret = NoCell \/ ret.node \in nodes
      BY DEF AnalysisInv, Sound, RetSound, CellIn
    <2>4. \A c \in callSites :
             c.call \in Value \cup {NoValue} /\ c.cell.node \in nodes
      BY DEF AnalysisInv, Sound, CallSitesSound, SiteSound, CellIn
    <2>5. prog \subseteq Instruction \cup FurtherInstruction
      BY DEF AnalysisInv, Sound, ProgSound, AnyInstruction
    <2> QED
      BY <2>1, <2>2, <2>3, <2>4, <2>5 DEF AnalysisTypeOK
  <1> QED
    BY <1>1, AnalysisHolds, PTL

\* What Graph::compress and Graph::remove_dead leave refers to nothing they erased.
THEOREM NothingIsLeftDangling == AnalysisSpec => []NothingDangles
  <1>1. AnalysisInv => NothingDangles
    BY DEF AnalysisInv
  <1> QED
    BY <1>1, AnalysisHolds, PTL

\* Node::Offset::getNumericOffset never divides by zero, in the whole of the analysis.
THEOREM ArraysKeepSize == AnalysisSpec => []ArraysHaveSize
  <1>1. AnalysisInv => ArraysHaveSize
    BY DEF AnalysisInv, Inv
  <1> QED
    BY <1>1, AnalysisHolds, PTL
=============================================================================
