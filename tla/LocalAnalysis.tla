---------------------------- MODULE LocalAnalysis ----------------------------
(***************************************************************************)
(* The whole of LocalAnalysis::runOnFunction (lib/seadsa/DsaLocal.cc): the *)
(* formal parameters and the initialisers of the globals, then every       *)
(* instruction, those of DsaLocal and the ones added here, then            *)
(* Graph::compress and Graph::remove_dead.                                 *)
(*                                                                         *)
(* A visit method that goes on after a graph operation has returned leaves *)
(* what it has still to do in `todo'.                                      *)
(***************************************************************************)
EXTENDS DsaLocal

CONSTANTS
    IsMain,        \* is the function main?
    FieldOffset,   \* where fields of aggregates and of globals lie
    LinkedOffset,  \* second arguments of calls to sea_dsa_link
    StructWidth,   \* sizes of structs, and of what is not a pointer in them
    MaxFurther     \* bound: how many of the visits are none of DsaLocal's

ASSUME IsMainAssumption == IsMain \in BOOLEAN
ASSUME FieldOffsetAssumption ==
    /\ FieldOffset \subseteq Nat /\ LinkedOffset \subseteq Nat
    /\ StructWidth \subseteq Nat \ {0}

VARIABLES
    phase,       \* "entry", "body", "done"
    todo,        \* the rest of the visit in progress
    ret,         \* Graph::m_returns of this function
    callSites,   \* Graph::m_callSites: indirect calls and callee cells
    further      \* visits counted by MaxFurther

extraVars == <<phase, todo, ret, callSites, further>>
allVars == <<vars, extraVars>>

\* "node" is a value with a node of its own; "put" and "get" say that v is held
\* k after p; "function" that the field k after p points to a function
FurtherInstruction ==
         [op : {"node"}, v : Value, marks : SUBSET Mark, sites : SUBSET Value]
    \cup [op : {"put", "get"}, v : Value, p : Value, k : Int, ty : FieldType]
    \cup [op : {"function"}, p : Value, k : Nat, ty : FieldType, site : Value]
    \cup [op : {"returned"}, v : Value]
    \cup [op : {"link"}, v : Value, p : Value, k : Int, ty : FieldType]
    \cup [op : {"access"}, p : Value, k : Int]
    \cup [op : {"copy"}, v : Value, p : Value]
    \cup [op : {"copy none"}]

Nothing == [op |-> "nothing"]
\* marks are set, allocation sites recorded, the calls made, and the visit done
Finally(ms, ts, fs, is) ==
    [op |-> "finally", marks |-> ms, tags |-> ts, calls |-> fs, facts |-> is]
\* an aggregate without a cell has been given one, its visit starts over
Again(v, p) == [op |-> "again", v |-> v, p |-> p]
Extract(v, p, k, ty) ==
    [op |-> "extract", v |-> v, p |-> p, k |-> k, ty |-> ty]
Exchange(v, p, w, ty) ==
    [op |-> "exchange", v |-> v, p |-> p, w |-> w, ty |-> ty]

Ready == Idle /\ todo = Nothing
Shift(p, k) == Shifted(cell[p], k)
Planned(is) == InBounds(prog \cup is)
\* p is marked; what it accesses is said by the other facts
Touch(p, m) == [op |-> "touch", p |-> p, mark |-> m, width |-> 0]
Same(v, p) == [op |-> "same", v |-> v, p |-> p]

-----------------------------------------------------------------------------
(* Visits that give v a node of its own *)

FreshNode(v, ms, ss) ==
    /\ Ready /\ ~Bound(v)
    /\ \E n \in ClientNode :
          /\ MkNode(n)
          /\ sites' = [sites EXCEPT ![n] = ss]
          /\ marks' = [marks EXCEPT ![n] = ms]
          /\ MkCell(v, At(n, 0))
    /\ UNCHANGED <<fwd, size, types, links, stack>>

Allocates(v, ms, ss) ==
    /\ FreshNode(v, ms, ss)
    /\ Visited({[op |-> "node", v |-> v, marks |-> ms, sites |-> ss]})
    /\ UNCHANGED <<todo, ret, callSites>>

\* runOnFunction: a formal parameter of pointer type
DeclareFormal(v) == Allocates(v, {"alloca"}, IF IsMain THEN {v} ELSE {})

\* Graph::mkCell of a global
DeclareGlobal(v) == Allocates(v, {}, {v})

\* valueCell: an aggregate constant
ConstantCell(v) == Allocates(v, {}, {})

\* visitLoadInst of a global that a cast of function f initialises
VisitLoadOfFunction(v, f) == Allocates(v, {}, {f})

VisitShuffleVectorInst(v) == Allocates(v, {}, {})

VisitAllocationFnCall(v) == Allocates(v, {"heap"}, {v})

VisitInlineAsmCall(v) == Allocates(v, {"external"}, {v})

\* without a site, or with one when the result aliases nothing
VisitExternalCall(v) ==
    Allocates(v, {"external"}, {}) \/ Allocates(v, {"external"}, {v})

\* the callee is known to return its argument p
VisitExternalIdentity(v, p) ==
    /\ Defines(v)
    /\ Bound(p)
    /\ \E n \in ClientNode :
          /\ MkNode(n)
          /\ SetMark(n, "external")
          /\ MkCell(v, At(n, 0))
          /\ Call(<<Unify(At(n, 0), cell[p])>>)
    /\ Visited({Same(v, p)})
    /\ UNCHANGED <<fwd, size, types, links, sites, todo, ret, callSites>>

VisitIndirectCall(v, callee) ==
    /\ FreshNode(v, {}, {})
    /\ Visited({[op |-> "node", v |-> v, marks |-> {}, sites |-> {}]})
    /\ Bound(callee)
    /\ callSites' = callSites \cup {[call |-> v, cell |-> cell[callee]]}
    /\ UNCHANGED <<todo, ret>>

\* the call gives no pointer
VisitIndirectCallForEffect(callee) ==
    /\ Ready
    /\ Bound(callee)
    /\ callSites' = callSites \cup {[call |-> NoValue, cell |-> cell[callee]]}
    /\ UNCHANGED <<graphVars, prog, todo, ret>>

VisitMake(v) == Allocates(v, {}, {})

\* visitCastIntToPtr of an integer nothing is known of
VisitIntToPtr(v) == Allocates(v, {"int_to_ptr", "alloca"}, {v})

-----------------------------------------------------------------------------
(* Copies of cells *)

\* visitCastIntToPtr of a pointer, cast to an integer, plus k
VisitFixedOffset(v, p, k) ==
    /\ k >= 0
    /\ GepInCollapsed(v, p, k, 0) \/ GepToField(v, p, k, 0)
    /\ UNCHANGED <<todo, ret, callSites>>

\* isFixedOffset: the integer was loaded, and v is bound as if it were a pointer
\* to bytes
VisitLoadedInteger(v, p, ty) ==
    /\ OmniType \in FieldType => ty = OmniType
    /\ VisitLoad(v, p, ty)
    /\ UNCHANGED <<todo, ret, callSites>>

VisitBitCastInst(v, p) ==
    /\ Defines(v)
    /\ Bound(p)
    /\ MkCell(v, Resolve(cell[p]))
    /\ Visited({Same(v, p)})
    /\ UNCHANGED <<nodes, fwd, marks, size, types, links, sites, stack,
                   todo, ret, callSites>>

\* visitLoadInst of a first-class struct: its pointer stands for it
VisitLoadStruct(v, p, width) ==
    /\ Defines(v)
    /\ Bound(p)
    /\ LET facts == {Touch(p, "read"), Same(v, p)}
       IN  /\ Planned(facts)
           /\ Call(<<Access(cell[p], width)>>)
           /\ todo' = Finally({[at |-> cell[p], mark |-> "read"]}, {},
                              <<Bind(v, cell[p])>>, facts)
    /\ UNCHANGED <<nodeVars, cell, prog, ret, callSites>>

\* Graph::mkRetCell keeps the cell it has
VisitReturnInst(v) ==
    /\ Ready
    /\ Bound(v)
    /\ Visited({[op |-> "returned", v |-> v]})
    /\ ret' = IF ret = NoCell THEN Resolve(cell[v]) ELSE ret
    /\ UNCHANGED <<graphVars, todo, callSites>>

-----------------------------------------------------------------------------
(* Marks *)

Marks(p, ms) ==
    /\ Idle
    /\ Bound(p)
    /\ marks' = [marks EXCEPT ![Resolve(cell[p]).node] = @ \cup ms]
    /\ Visited({Touch(p, m) : m \in ms})
    /\ UNCHANGED <<nodes, fwd, size, types, links, sites, scalar, once, cell,
                   stack, todo, ret, callSites>>

VisitMemSetInst(p) == Marks(p, {"modified"})
VisitPtrToIntInst(p) == Marks(p, {"ptr_to_int"})
VisitSetAttribute(p) ==
    \E m \in {"modified", "read", "heap", "ptr_to_int", "int_to_ptr",
              "external"} : Marks(p, {m})

VisitAtomicRMWInst(p, width) ==
    /\ Idle
    /\ Bound(p)
    /\ marks' = [marks EXCEPT ![Resolve(cell[p]).node] =
                     @ \cup {"modified", "read"}]
    /\ Visited({Touch(p, "modified"), Touch(p, "read")})
    /\ Call(<<Access(cell[p], width)>>)
    /\ UNCHANGED <<nodes, fwd, size, types, links, sites, scalar, once, cell,
                   todo, ret, callSites>>

-----------------------------------------------------------------------------
(* Links *)

\* v is what p points to, and from now on w as well
Exchanged(v, p, w, ty) ==
    {[op |-> "get", v |-> v, p |-> p, k |-> 0, ty |-> ty],
     [op |-> "put", v |-> w, p |-> p, k |-> 0, ty |-> ty]}

VisitAtomicCmpXchgInst(v, p, w, ty) ==
    /\ Defines(v)
    /\ Bound(p) /\ Bound(w)
    /\ CanMakeNode
    /\ Planned(Exchanged(v, p, w, ty))
    /\ marks' = [marks EXCEPT ![Resolve(cell[p]).node] =
                     @ \cup {"modified", "read"}]
    /\ Call(<<Access(cell[p], PtrWidth), Load(v, cell[p], ty)>>)
    /\ todo' = Exchange(v, p, w, ty)
    /\ UNCHANGED <<nodes, fwd, size, types, links, sites, scalar, once, cell,
                   prog, ret, callSites>>

ExchangeMerges ==
    /\ Idle /\ todo.op = "exchange"
    /\ Call(<<Unify(cell[todo.v], cell[todo.w])>>)
    /\ prog' = prog \cup Exchanged(todo.v, todo.p, todo.w, todo.ty)
    /\ todo' = Nothing
    /\ UNCHANGED <<nodeVars, cell, ret, callSites>>

(* First-class aggregates: v is the aggregate p with w put in place, k into *)
(* it, or what p holds there.  An aggregate without a cell is given one.    *)

Aggregate(v, p) ==
    Idle /\ ~Bound(v) /\ Bound(p) /\ todo \in {Nothing, Again(v, p)}

\* the site is the instruction, the cell goes to its operand
GiveAggregateNode(v, p) ==
    /\ v # p /\ ~Bound(v)
    /\ FreshNode(p, {"alloca"}, {v})
    /\ todo' = Again(v, p)
    /\ UNCHANGED <<prog, ret, callSites>>

VisitInsertValueInst(v, p, w, k, ty) ==
    /\ Aggregate(v, p)
    /\ Bound(w)
    /\ LET facts == {Same(v, p),
                     [op |-> "put", v |-> w, p |-> p, k |-> k, ty |-> ty]}
       IN  /\ Planned(facts)
           /\ MkCell(v, Resolve(cell[p]))
           /\ Call(<<Access(Shift(p, k), PtrWidth)>>)
           /\ todo' = Finally({[at |-> Shift(p, k), mark |-> "modified"]}, {},
                              <<AddLink(Shift(p, k), ty, cell[w])>>, facts)
    /\ UNCHANGED <<nodes, fwd, marks, size, types, links, sites, prog,
                   ret, callSites>>

VisitInsertScalar(v, p, width, k) ==
    /\ Aggregate(v, p)
    /\ LET facts == {Same(v, p), Touch(p, "modified")}
       IN  /\ Planned(facts)
           /\ MkCell(v, Resolve(cell[p]))
           /\ Call(<<Access(Shift(p, k), width)>>)
           /\ todo' = Finally({[at |-> Shift(p, k), mark |-> "modified"]}, {},
                              <<>>, facts)
    /\ UNCHANGED <<nodes, fwd, marks, size, types, links, sites, prog,
                   ret, callSites>>

VisitExtractValueInst(v, p, k, ty) ==
    /\ Aggregate(v, p)
    /\ CanMakeNode
    /\ Planned({[op |-> "get", v |-> v, p |-> p, k |-> k, ty |-> ty]})
    /\ Call(<<Access(Shift(p, k), PtrWidth)>>)
    /\ todo' = Extract(v, p, k, ty)
    /\ UNCHANGED <<nodeVars, cell, prog, ret, callSites>>

VisitExtractScalar(v, p, width, k) ==
    /\ Aggregate(v, p)
    /\ Planned({Touch(p, "read")})
    /\ Call(<<Access(Shift(p, k), width)>>)
    /\ todo' = Finally({[at |-> Shift(p, k), mark |-> "read"]}, {}, <<>>,
                       {Touch(p, "read")})
    /\ UNCHANGED <<nodeVars, cell, prog, ret, callSites>>

Extracting == Idle /\ todo.op = "extract"
\* mutant of ExtractedFrom: the indices are forgotten
ExtractedFromStart == cell[todo.p]

ExtractedFrom == Shift(todo.p, todo.k)
Extracted == [op |-> "get", v |-> todo.v, p |-> todo.p, k |-> todo.k,
              ty |-> todo.ty]

ExtractFindsLink ==
    /\ Extracting
    /\ LinkAt(Resolve(ExtractedFrom).node, LinkOffset(ExtractedFrom), todo.ty)
          # {}
    /\ SetMark(Resolve(ExtractedFrom).node, "read")
    /\ Call(<<BindLink(todo.v, ExtractedFrom, todo.ty)>>)
    /\ prog' = prog \cup {Extracted}
    /\ todo' = Nothing
    /\ UNCHANGED <<nodes, fwd, size, types, links, sites, scalar, once, cell,
                   ret, callSites>>

\* the new node gets its site and mark once it has been linked
ExtractMakesLink ==
    /\ Extracting
    /\ LinkAt(Resolve(ExtractedFrom).node, LinkOffset(ExtractedFrom), todo.ty)
          = {}
    /\ SetMark(Resolve(ExtractedFrom).node, "read")
    /\ \E n \in ClientNode :
          /\ MkNode(n)
          /\ Call(<<AddLink(ExtractedFrom, todo.ty, At(n, 0))>>)
          /\ todo' = Finally({}, {[node |-> n, site |-> todo.v]},
                             <<BindLink(todo.v, ExtractedFrom, todo.ty)>>,
                             {Extracted})
    /\ UNCHANGED <<fwd, size, types, links, sites, scalar, once, cell, prog,
                   ret, callSites>>

(* Initialisers of globals: the link goes into the node of the global, the *)
(* offset of its cell is not added.                                        *)

IsGlobal(v) == [op |-> "node", v |-> v, marks |-> {}, sites |-> {v}] \in prog
GlobalSlot(g, k) == At(Resolve(cell[g]).node, k)
Initialised(g, k) ==
    \E i \in prog : i.op \in {"put", "function"} /\ i.p = g /\ i.k = k

InitGlobal(g, k, w, ty) ==
    /\ Ready /\ IsMain
    /\ IsGlobal(g) /\ IsGlobal(w) /\ ~Initialised(g, k)
    /\ Visited({[op |-> "put", v |-> w, p |-> g, k |-> k, ty |-> ty]})
    /\ Call(<<Access(GlobalSlot(g, k), PtrWidth),
              AddLink(GlobalSlot(g, k), ty, cell[w])>>)
    /\ UNCHANGED <<nodeVars, cell, todo, ret, callSites>>

InitGlobalWithFunction(g, k, f, ty) ==
    /\ Ready /\ IsMain
    /\ IsGlobal(g) /\ ~Initialised(g, k)
    /\ \E n \in ClientNode :
          /\ MkNode(n)
          /\ sites' = [sites EXCEPT ![n] = {f}]
          /\ Call(<<Access(GlobalSlot(g, k), PtrWidth),
                    AddLink(GlobalSlot(g, k), ty, At(n, 0))>>)
    /\ Visited({[op |-> "function", p |-> g, k |-> k, ty |-> ty, site |-> f]})
    /\ UNCHANGED <<fwd, marks, size, types, links, scalar, once, cell,
                   todo, ret, callSites>>

-----------------------------------------------------------------------------
(* The other specification functions.  Offsets count from the start of the *)
(* node, wherever in it p points.                                          *)

NodeSlot(p, k) == At(Resolve(cell[p]).node, k)
FromPointer(p, k) == k - Resolve(cell[p]).off

VisitAlias(p, q, r) ==
    /\ Ready
    /\ Bound(p) /\ Bound(q) /\ Bound(r)
    /\ Visited({Same(p, q), Same(p, r)})
    /\ Call(<<Unify(cell[p], cell[q]), Unify(cell[p], cell[r])>>)
    /\ UNCHANGED <<nodeVars, cell, todo, ret, callSites>>

VisitLink(p, k, w, ty) ==
    /\ Ready
    /\ Bound(p) /\ Bound(w)
    /\ Visited({[op |-> "link", v |-> w, p |-> p, k |-> FromPointer(p, k),
                 ty |-> ty]})
    /\ Call(<<AddLink(NodeSlot(p, k), ty, cell[w])>>)
    /\ UNCHANGED <<nodeVars, cell, todo, ret, callSites>>

VisitAccess(p, k) ==
    /\ Ready
    /\ Bound(p)
    /\ Visited({[op |-> "access", p |-> p, k |-> FromPointer(p, k)]})
    /\ Call(<<Access(NodeSlot(p, k), PtrWidth)>>)
    /\ UNCHANGED <<nodeVars, cell, todo, ret, callSites>>

(* visitMemTransferInst: d and s become one when pointers may be copied.   *)
(* `noPointerType' says that the type s points to holds none, `copiesNone' *)
(* that the bytes copied hold none.                                        *)

CopiesPointers(s, noPointerType, copiesNone) ==
    /\ ~(links[Resolve(cell[s]).node] = {} /\ noPointerType)
    /\ ~copiesNone

VisitMemTransferInst(d, s, noPointerType, copiesNone) ==
    /\ Ready
    /\ Bound(d) /\ Bound(s)
    /\ LET merges == CopiesPointers(s, noPointerType, copiesNone)
           facts == {Touch(s, "read"), Touch(d, "modified"),
                     IF copiesNone THEN [op |-> "copy none"]
                     ELSE IF merges THEN Same(d, s)
                     ELSE [op |-> "copy", v |-> d, p |-> s]}
       IN  /\ Planned(facts)
           /\ Call(IF merges THEN <<Unify(cell[d], cell[s])>> ELSE <<>>)
           /\ todo' = Finally({[at |-> cell[s], mark |-> "read"],
                               [at |-> cell[d], mark |-> "modified"]}, {},
                              <<>>, facts)
    /\ UNCHANGED <<nodeVars, cell, prog, ret, callSites>>

-----------------------------------------------------------------------------
(* The rest of a visit, when the graph operations it has made returned *)

FinishVisit ==
    /\ Idle /\ todo.op = "finally"
    /\ marks' = [n \in Node |->
          marks[n] \cup {m.mark : m \in {x \in todo.marks :
                                             Resolve(x.at).node = n}}
                   \cup {"alloca" : t \in {x \in todo.tags : x.node = n}}]
    /\ sites' = [n \in Node |->
          sites[n] \cup {t.site : t \in {x \in todo.tags : x.node = n}}]
    /\ Call(todo.calls)
    /\ prog' = prog \cup todo.facts
    /\ todo' = Nothing
    /\ UNCHANGED <<nodes, fwd, size, types, links, scalar, once, cell,
                   ret, callSites>>

(* Graph::compress and Graph::remove_dead *)

LiveNodes == {n \in nodes : ~IsForwarding(n)}
Roots == {Resolve(cell[v]).node : v \in {w \in Value : Bound(w)}}
         \cup IF ret = NoCell THEN {} ELSE {Resolve(ret).node}

Targets(S) == {Resolve(l.to).node : l \in UNION {links[n] : n \in S}}
WithinSteps[i \in Nat] ==
    IF i = 0 THEN Roots
    ELSE WithinSteps[i - 1] \cup Targets(WithinSteps[i - 1])
Reachable == WithinSteps[Cardinality(Node)]

\* mutant of Resolved: cells go on referring to nodes that forward
ResolvedLater(c) == c

Resolved(c) == IF c = NoCell THEN NoCell ELSE Resolve(c)

\* what is erased is left as the constructor of Node leaves it
CompressAndRemoveDead ==
    /\ Ready /\ phase = "body"
    /\ phase' = "done"
    /\ nodes' = LiveNodes \cap Reachable
    /\ cell' = [v \in Value |-> Resolved(cell[v])]
    /\ ret' = Resolved(ret)
    /\ callSites' = {[c EXCEPT !.cell = Resolve(c.cell)] : c \in callSites}
    /\ fwd' = [n \in Node |-> [node |-> n, off |-> 0]]
    /\ marks' = [n \in Node |-> IF n \in nodes' THEN marks[n] ELSE {}]
    /\ size' = [n \in Node |-> IF n \in nodes' THEN size[n] ELSE 0]
    /\ types' = [n \in Node |-> IF n \in nodes' THEN types[n] ELSE {}]
    /\ links' = [n \in Node |->
          {[l EXCEPT !.to = Resolve(l.to)] :
              l \in IF n \in nodes' THEN links[n] ELSE {}}]
    /\ sites' = [n \in Node |-> IF n \in nodes' THEN sites[n] ELSE {}]
    /\ scalar' = [n \in Node |-> IF n \in nodes' THEN scalar[n] ELSE NoValue]
    /\ once' = [n \in Node |-> n \in nodes' /\ once[n]]
    /\ UNCHANGED <<stack, prog, todo, further>>

-----------------------------------------------------------------------------
AnalysisInit ==
    /\ Init
    /\ phase = "entry" /\ todo = Nothing /\ ret = NoCell /\ callSites = {}
    /\ further = 0

CountFurther == further < MaxFurther /\ further' = further + 1

Entry ==
    /\ Ready /\ phase = "entry" /\ UNCHANGED <<phase, further>>
    /\ \/ \E v \in Value : DeclareFormal(v)
       \/ \E v \in Value : IsMain /\ DeclareGlobal(v)
       \/ \E g, w \in Value, k \in FieldOffset, ty \in FieldType :
             InitGlobal(g, k, w, ty) \/ InitGlobalWithFunction(g, k, w, ty)

VisitCallBase ==
    \/ \E v \in Value :
          \/ VisitAllocationFnCall(v) \/ VisitInlineAsmCall(v)
          \/ VisitExternalCall(v) \/ VisitMake(v)
    \/ \E v, p \in Value :
          VisitExternalIdentity(v, p) \/ VisitIndirectCall(v, p)
    \/ \E p \in Value : VisitSetAttribute(p) \/ VisitIndirectCallForEffect(p)
    \/ \E p, q, r \in Value : VisitAlias(p, q, r)
    \/ \E p, w \in Value, k \in LinkedOffset, ty \in FieldType :
          VisitLink(p, k, w, ty)
    \/ \E p \in Value, k \in FieldOffset : VisitAccess(p, k)

VisitFurther ==
    \/ VisitCallBase
    \/ \E v \in Value :
          \/ DeclareGlobal(v) \/ ConstantCell(v)
          \/ VisitShuffleVectorInst(v) \/ VisitIntToPtr(v)
    \/ \E v, f \in Value : VisitLoadOfFunction(v, f)
    \/ \E v, p \in Value :
          \/ VisitBitCastInst(v, p)
          \/ \E k \in FieldOffset : VisitFixedOffset(v, p, k)
    \/ \E v, p \in Value, ty \in FieldType : VisitLoadedInteger(v, p, ty)
    \/ \E v, p \in Value, width \in StructWidth : VisitLoadStruct(v, p, width)
    \/ \E v \in Value : VisitReturnInst(v)
    \/ \E p \in Value : VisitMemSetInst(p) \/ VisitPtrToIntInst(p)
    \/ \E p \in Value, width \in StructWidth : VisitAtomicRMWInst(p, width)
    \/ \E v, p, w \in Value, ty \in FieldType :
          VisitAtomicCmpXchgInst(v, p, w, ty)
    \/ \E d, s \in Value, noPointerType, copiesNone \in BOOLEAN :
          VisitMemTransferInst(d, s, noPointerType, copiesNone)
    \/ \E v, p \in Value : GiveAggregateNode(v, p)

VisitAggregate ==
    \/ \E v, p, w \in Value, k \in FieldOffset, ty \in FieldType :
          VisitInsertValueInst(v, p, w, k, ty)
    \/ \E v, p \in Value, k \in FieldOffset, width \in StructWidth :
          \/ VisitInsertScalar(v, p, width, k)
          \/ VisitExtractScalar(v, p, width, k)
    \/ \E v, p \in Value, k \in FieldOffset, ty \in FieldType :
          VisitExtractValueInst(v, p, k, ty)

Body ==
    /\ Idle /\ phase # "done" /\ phase' = "body"
    /\ \/ todo = Nothing /\ Visit /\ UNCHANGED <<todo, ret, callSites, further>>
       \/ todo = Nothing /\ CountFurther /\ (VisitFurther \/ VisitAggregate)
       \/ todo.op = "again" /\ UNCHANGED further /\ VisitAggregate

Resume ==
    \/ ~Idle /\ Step /\ UNCHANGED extraVars
    \/ (ExtractFindsLink \/ ExtractMakesLink \/ ExchangeMerges \/ FinishVisit)
          /\ UNCHANGED <<phase, further>>

AnalysisNext == Entry \/ Body \/ Resume \/ CompressAndRemoveDead

AnalysisSpec == AnalysisInit /\ [][AnalysisNext]_allVars

-----------------------------------------------------------------------------
\* Cells of values, returns and call sites lie in nodes of the graph, also while
\* a visit is suspended in the middle of its graph operations.
AnalysisTypeOK ==
    /\ TypeOK
    /\ phase \in {"entry", "body", "done"}
    /\ todo.op \in {"nothing", "finally", "again", "extract", "exchange"}
    /\ ret = NoCell \/ ret.node \in nodes
    /\ \A c \in callSites :
          c.call \in Value \cup {NoValue} /\ c.cell.node \in nodes
    /\ prog \subseteq Instruction \cup FurtherInstruction

LinkedAt(p, k, ty) ==
    FoundLink(Address(Shift(p, k)).node, Address(Shift(p, k)).off, ty)

\* What is put into a field, read from it or put there by an initialiser is
\* found there, in the end as well: compress and remove_dead lose no link.  And
\* the return cell is that of a value the function returns.
FieldsKept == Ready =>
    /\ ret # NoCell => \E i \in prog : /\ i.op = "returned"
                                      /\ SameCell(ret, cell[i.v])
    /\ \A i \in prog :
        /\ i.op \in {"put", "get"} =>
              \E l \in LinkedAt(i.p, i.k, i.ty) : SameCell(l.to, cell[i.v])
        /\ i.op = "function" =>
              \E l \in LinkedAt(i.p, i.k, i.ty) :
                  i.site \in sites[Address(l.to).node]

\* A value that was given a node of its own finds the marks and the sites of it
\* in whatever node it has become part of, in the graph that remains as well.
NodesKept ==
    Ready => \A i \in prog :
        /\ i.op = "node" =>
              /\ i.marks \subseteq marks[Address(cell[i.v]).node]
              /\ i.sites \subseteq sites[Address(cell[i.v]).node]
        /\ i.op = "alloca" => i.v \in sites[Address(cell[i.v]).node]

\* No cell of a value, a link, a return or a call site refers to a node that
\* compress or remove_dead has erased, or one that forwards.
NothingDangles ==
    phase = "done" =>
        /\ \A v \in Value : Bound(v) => cell[v].node \in nodes
        /\ \A n \in nodes : \A l \in links[n] : l.to.node \in nodes
        /\ ret # NoCell => ret.node \in nodes
        /\ \A c \in callSites : c.cell.node \in nodes
        /\ \A n \in nodes : ~IsForwarding(n)
=============================================================================
