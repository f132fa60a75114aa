------------------------------- MODULE ShadowMem -------------------------------
(* ShadowMemImpl (lib/seadsa/ShadowMem.cc): every memory access of a function
   gets a pseudo-instruction that uses or redefines a shadow variable of the DSA
   node it accesses; PromoteMemToReg turns the variables into registers, and the
   optimizer moves every use up to the first definition that may clobber it.

   The graphs are those of a finished analysis, given by constants.  A function
   is a sequence of instructions, one stretch of which (region) may be
   conditional or a loop; its instructions are chosen as they are visited.  *)
EXTENDS Integers, Sequences, FiniteSets, SequencesExt

CONSTANTS
    Function, Main, ModuleOrder,
    Returns,            \* functions that have a return instruction
    Value, NoValue,     \* pointers
    Instruction,        \* what each function may contain
    MaxBody,            \* bound: length of a function
    MaxRegion,          \* bound: where a region may end
    Node,               \* nodes, numbered by their ids
    Size,               \* sizes of nodes
    Types,              \* offsets that their fields are accessed at
    Collapsed, Array,   \* nodes without offsets; nodes whose offsets wrap around
    Scalar,             \* nodes that are one global
    Points,             \* the nodes that the links of a node lead to
    Cell, NoCell,       \* the cell of a value in the graph of a function
    Inputs, Returned,   \* nodes of parameters and globals; of the returned value
    Globals,            \* globals, in the order of their names
    Simulated,          \* the caller's cell that simulates a node of the callee
    Flags,              \* sets of nodes with the flags read and modified
    AllocIsDef,         \* option horn-shadow-mem-alloc-is-def
    Operands,           \* the pointers that a gep, phi or select is made of
    SiteValue,          \* allocas, arguments, globals, calls that allocate
    Env,                \* the executions of a function: addresses of its values
    ObjectSize          \* length of every object

\* runOnModule visits every function once.
ASSUME FunctionsAssumption ==
    /\ Main \in Function /\ Returns \subseteq Function
    /\ ModuleOrder \in Seq(Function) /\ ModuleOrder # <<>>
    /\ \A i, j \in DOMAIN ModuleOrder : ModuleOrder[i] = ModuleOrder[j] => i = j
    /\ MaxBody \in [Function -> Nat] /\ MaxRegion \in [Function -> Nat]

\* The fields of a node, and the arrays, have a size (Node::addAccessedType).
ASSUME GraphAssumption ==
    /\ Node \subseteq Nat /\ IsFiniteSet(Node)
    /\ Size \in [Node -> Nat] /\ Types \in [Node -> SUBSET Nat]
    /\ \A n \in Node : \A o \in Types[n] : o = 0 \/ o < Size[n]
    /\ Array \subseteq {n \in Node : Size[n] # 0}
    /\ Points \in [Node -> SUBSET Node]
    /\ Inputs \in [Function -> SUBSET Node] /\ Returned \in [Function -> SUBSET Node]
    /\ \A x \in Flags : x.read \subseteq Node /\ x.mod \subseteq Node

ASSUME ValueAssumption ==
    SiteValue \subseteq Value /\ NoValue \notin Value /\ ObjectSize \in Nat

VARIABLES
    split,      \* m_splitDsaNodes: a variable for each field
    read, mod,  \* nodes with the flags read and modified
    todo,       \* functions to come
    fn,         \* the function being instrumented
    phase,      \* what runOnFunction is doing with it
    body,       \* its instructions, as far as they have been visited
    region,     \* its conditional or repeated stretch
    code,       \* its pseudo-instructions, in the order of the blocks
    shadows,    \* m_shadows
    ids,        \* m_nodeIds and m_maxId
    arg,        \* operand 1 of every pseudo-instruction
    use,        \* the pseudo-instruction that solveUses looks at
    def, prev   \* def and prevDef of its loop

vars == <<split, read, mod, todo, fn, phase, body, region, code, shadows, ids,
          arg, use, def, prev>>
flags == <<split, read, mod>>

Phi == 0        \* the phi of a variable at the region; others are positions in code
None == -1
Unknown == 0    \* no constant number of bytes

-----------------------------------------------------------------------------
(* Nodes that escape, and the interface of a function *)

Reachable(S) ==
    LET upTo[i \in Nat] ==
            IF i = 0 THEN S
            ELSE LET known == upTo[i - 1] IN known \cup UNION {Points[n] : n \in known}
    IN  upTo[Cardinality(Node)]

\* reachable from the returned value only
OnlyReturned(f) == Reachable(Returned[f]) \ Reachable(Inputs[f])
Reach(f) == Reachable(Inputs[f]) \cup Reachable(Returned[f])

Fields(n) == IF split /\ n \notin Collapsed THEN Types[n] ELSE {0}

Below(x, y) == x[1] < y[1] \/ (x[1] = y[1] /\ x[2] < y[2])
InOrder(S) ==
    [k \in 1 .. Cardinality(S) |->
        CHOOSE x \in S : Cardinality({y \in S : Below(y, x)}) = k - 1]

\* The fields a caller may see, in the order that gives them their indices.
Interface(f) == InOrder(UNION {{n} \X Fields(n) : n \in Reach(f) \cap (read \cup mod)})

\* getOffset: what a cell denotes in its node.
Offset(c) ==
    CASE c.node \in Collapsed -> 0
      [] c.node \in Array \ Collapsed -> c.off % Size[c.node]
      [] OTHER -> c.off

\* A cell, which may lie beyond its node: neither memset nor the functions of the
\* verifier make a node grow.  But getFieldId asserts that a node without a size has
\* no offsets.
IsCell(c) ==
    /\ c.node \in Node /\ c.off \in Nat
    /\ Size[c.node] = 0 => c.node \in Collapsed \/ c.off = 0

\* The caller's cell for a field of the callee, by the simulation.
InCaller(x) == [node |-> Simulated[x[1]].node, off |-> Simulated[x[1]].off + x[2]]

\* What the functions do to memory, and the simulation of a callee by its caller,
\* concern cells of the graphs.
ASSUME InstructionAssumption ==
    /\ \A f \in Function : \A i \in Instruction[f] :
         IF i.op = "call"
         THEN /\ i.callee \in Function
              /\ \A n \in Reach(i.callee) : \A o \in Types[n] \cup {0} :
                   IsCell(InCaller(<<n, o>>))
         ELSE /\ {i.ptr, i.src} \subseteq Value /\ i.bytes \in Nat
              /\ \A v \in {i.ptr, i.src} : Cell[f][v] # NoCell => IsCell(Cell[f][v])
    /\ Globals \in Seq(Value)
    /\ \A g \in ToSet(Globals) : Cell[Main][g] # NoCell => IsCell(Cell[Main][g])

\* mutant of ShadowOf: a variable for the offset though nodes are not split
ShadowOfOffset(c) == <<c.node, Offset(c)>>

\* The shadow variable of a cell.
ShadowOf(c) == <<c.node, IF split THEN Offset(c) ELSE 0>>

\* A pseudo-instruction at the instruction number `at'.
Pseudo(op, var, at, ptr, bytes) ==
    [op |-> op, var |-> var, at |-> at, ptr |-> ptr, bytes |-> bytes, idx |-> 0]

IsInit(p) == p.op \in {"init", "arg_init", "global_init"}
IsDef(p) == IsInit(p) \/ p.op \in {"store", "arg_mod", "arg_new"}
IsUse(p) == ~IsDef(p)

-----------------------------------------------------------------------------
Init ==
    /\ split \in BOOLEAN
    /\ \E x \in Flags : read = x.read /\ mod = x.mod
    /\ todo = ModuleOrder
    /\ fn = Head(todo) /\ phase = "begin"
    /\ body = [f \in Function |-> <<>>]
    /\ region = [f \in Function |-> [kind |-> "none", from |-> 1, to |-> 0]]
    /\ code = [f \in Function |-> <<>>]
    /\ arg = [f \in Function |-> <<>>]
    /\ shadows = {}
    /\ ids = [base |-> [n \in Node |-> None], max |-> 0]
    /\ use = 0 /\ def = None /\ prev = None

\* mutant of IdsFor: one id for a node and all its fields
IdsForNode(old, xs) ==
    FoldLeft(LAMBDA known, x :
                IF known.base[x[1]] # None THEN known
                ELSE [base |-> [known.base EXCEPT ![x[1]] = known.max],
                      max |-> known.max + 1],
             old, xs)

\* Ids that a node takes.
Width(n) == IF Size[n] = 0 THEN 1 ELSE Size[n]

\* getFieldId for the variables xs in turn: a node gets as many ids as it has bytes
\* when its first field is numbered.
IdsFor(old, xs) ==
    LET upTo[k \in 0 .. Len(xs)] ==
            IF k = 0 THEN old
            ELSE LET known == upTo[k - 1]
                     n == xs[k][1]
                 IN  IF known.base[n] # None THEN known
                     ELSE [base |-> [known.base EXCEPT ![n] = known.max],
                           max |-> known.max + Width(n)]
    IN  upTo[Len(xs)]
FieldId(x) == ids.base[x[1]] + x[2]

\* Pseudo-instructions, and the variables they and those of `touched' are about.
Emit(ps, touched) ==
    LET xs == touched \o [k \in DOMAIN ps |-> ps[k].var]
    IN  /\ code' = [code EXCEPT ![fn] = @ \o ps]
        /\ shadows' = shadows \cup ToSet(xs)
        /\ ids' = IdsFor(ids, xs)

\* visitMainFunction: a definition for every global of the graph
GlobalInits ==
    LET initial(g) ==
            IF Cell[fn][g] = NoCell \/ Cell[fn][g].node \in Scalar THEN <<>>
            ELSE <<Pseudo("global_init", ShadowOf(Cell[fn][g]), 0, g, Unknown)>>
    IN  FlattenSeq([k \in DOMAIN Globals |-> initial(Globals[k])])

BeginFunction ==
    /\ phase = "begin"
    /\ phase' = "visit"
    /\ Emit(IF fn = Main THEN GlobalInits ELSE <<>>, <<>>)
    /\ UNCHANGED <<flags, todo, fn, body, region, arg, use, def, prev>>

\* The next instruction of the function; the analysis has marked the nodes that it
\* reads and writes.
VisitTouching(i, reads, writes, ps, touched) ==
    /\ phase = "visit" /\ Len(body[fn]) < MaxBody[fn]
    /\ split => i.bytes = 1
    /\ reads \subseteq read /\ writes \subseteq mod
    /\ body' = [body EXCEPT ![fn] = Append(@, i)]
    /\ Emit(ps, touched)
    /\ UNCHANGED <<flags, todo, fn, phase, region, arg, use, def, prev>>

Visit(i, reads, writes, ps) == VisitTouching(i, reads, writes, ps, <<>>)

Here == Len(body[fn]) + 1
Accessed(v) == ShadowOf(Cell[fn][v])

VisitLoadInst(i) ==
    /\ i.op = "load"
    /\ IF Cell[fn][i.ptr] = NoCell THEN Visit(i, {}, {}, <<>>)
       ELSE Visit(i, {Cell[fn][i.ptr].node}, {},
                  <<Pseudo("load", Accessed(i.ptr), Here, i.ptr, i.bytes)>>)

VisitStoreInst(i) ==
    /\ i.op = "store"
    /\ IF Cell[fn][i.ptr] = NoCell THEN Visit(i, {}, {}, <<>>)
       ELSE Visit(i, {}, {Cell[fn][i.ptr].node},
                  <<Pseudo("store", Accessed(i.ptr), Here, i.ptr, i.bytes)>>)

\* the length of a memset need not be a constant
VisitMemSetInst(i) ==
    /\ i.op = "memset" /\ Cell[fn][i.ptr] # NoCell
    /\ Visit(i, {}, {Cell[fn][i.ptr].node},
             <<Pseudo("store", Accessed(i.ptr), Here, i.ptr, i.bytes)>>)

(* The functions of the verifier that ask for or set what it knows of a pointer.
   Unlike loads and stores they are no reason for the analysis to mark a node.  *)
Query(i) == Visit(i, {}, {}, <<Pseudo("load", Accessed(i.ptr), Here, i.ptr, i.bytes)>>)
Update(i) == Visit(i, {}, {}, <<Pseudo("store", Accessed(i.ptr), Here, i.ptr, i.bytes)>>)

\* instrumented as a use, of as many bytes as a pointer has
VisitMemhavoc(i) == i.op = "memhavoc" /\ Cell[fn][i.ptr] # NoCell /\ Query(i)

\* is_modified, is_read, is_alloc
VisitShadowQuery(i) == i.op = "is_modified" /\ Cell[fn][i.ptr] # NoCell /\ Query(i)
VisitGetShadowMem(i) == i.op = "get_shadowmem" /\ Cell[fn][i.ptr] # NoCell /\ Query(i)

\* reset_modified, set_shadowmem
VisitShadowUpdate(i) == i.op = "reset_modified" /\ Cell[fn][i.ptr] # NoCell /\ Update(i)

\* reset_read, free
VisitFree(i) == i.op = "free" /\ Cell[fn][i.ptr] # NoCell /\ Update(i)

\* alloca and allocation functions
VisitAllocation(i) ==
    /\ i.op = "alloc" /\ Cell[fn][i.ptr] # NoCell
    /\ Visit(i, {}, {}, <<Pseudo(IF AllocIsDef THEN "store" ELSE "load",
                                Accessed(i.ptr), Here, i.ptr, i.bytes)>>)

\* calloc writes, if its cell is the beginning of its node
VisitCalloc(i) ==
    /\ i.op = "calloc" /\ Cell[fn][i.ptr] # NoCell
    /\ Visit(i, {}, {Cell[fn][i.ptr].node},
             IF Offset(Cell[fn][i.ptr]) # 0 THEN <<>>
             ELSE <<Pseudo("store", Accessed(i.ptr), Here, i.ptr, i.bytes)>>)

VisitMemTransferInst(i) ==
    /\ i.op = "transfer"
    /\ Cell[fn][i.ptr] # NoCell /\ Cell[fn][i.src] # NoCell
    /\ Visit(i, {Cell[fn][i.src].node}, {Cell[fn][i.ptr].node},
             <<Pseudo("trsfr_load", Accessed(i.src), Here, i.src, i.bytes),
               Pseudo("store", Accessed(i.ptr), Here, i.ptr, i.bytes)>>)

\* How a call shows that the callee reads, writes or creates the k-th field of its
\* interface.
CallOp(f, x, k) ==
    LET p == [Pseudo("arg_ref", ShadowOf(InCaller(x)), Here, NoValue, Unknown) EXCEPT !.idx = k]
    IN  IF x[1] \notin mod
        THEN IF x[1] \in OnlyReturned(f) THEN <<>> ELSE <<p>>
        ELSE <<[p EXCEPT !.op = IF x[1] \in OnlyReturned(f) THEN "arg_new" ELSE "arg_mod"]>>

VisitDsaCallSite(i) ==
    /\ i.op = "call"
    /\ LET f == i.callee
           fields == Interface(f)
           seen == {fields[k][1] : k \in DOMAIN fields}
           image(S) == {Simulated[n].node : n \in S}
       IN  VisitTouching(i, image(seen \cap read), image(seen \cap mod),
                         FlattenSeq([k \in DOMAIN fields |-> CallOp(f, fields[k], k)]),
                         [k \in DOMAIN fields |-> ShadowOf(InCaller(fields[k]))])

-----------------------------------------------------------------------------
(* After the visit: initial values, markers, registers *)

\* mutant of MarkOps: the marker of the final value is put for what is read too
MarkOpsAll(f, x, k) ==
    LET p(op) == [Pseudo(op, x, Len(body[f]) + 1, NoValue, Unknown) EXCEPT !.idx = k]
    IN  (IF x[1] \in OnlyReturned(f) THEN <<>> ELSE <<p("in")>>) \o <<p("out")>>

\* markInOut: the initial value unless the node is created in the function, and the
\* final value if it is written.
MarkOps(f, x, k) ==
    LET p(op) == [Pseudo(op, x, Len(body[f]) + 1, NoValue, Unknown) EXCEPT !.idx = k]
    IN  (IF x[1] \in OnlyReturned(f) THEN <<>> ELSE <<p("in")>>)
            \o (IF x[1] \in mod THEN <<p("out")>> ELSE <<>>)

\* Every variable in use gets an initial value at the entry, in the order of nodes.
InitOps(f, used) ==
    LET order == InOrder(used)
    IN  [k \in 1 .. Len(order) |->
           Pseudo(IF order[k][1] \in Reach(f) THEN "arg_init" ELSE "init",
                  order[k], 0, NoValue, Unknown)]

Regions(n) ==
    {[kind |-> "none", from |-> 1, to |-> 0]}
        \cup {r \in [kind : {"if", "loop"}, from : 1 .. n, to : (1 .. n) \cap (1 .. MaxRegion[fn])] :
                 r.from <= r.to}

\* The value of variable x where the k-th pseudo-instruction of cs stands: the last
\* definition above it, or the phi at the end of a conditional stretch r, or at the
\* beginning of a loop r, that defines x.
Reaching(cs, r, k, x) ==
    LET defines(d) == IsDef(cs[d]) /\ cs[d].var = x
        within(i) == r.from <= i /\ i <= r.to
        above == {d \in 1 .. k - 1 : defines(d)}
        inside == {d \in DOMAIN cs : defines(d) /\ within(cs[d].at)}
        at == cs[k].at
        recent == IF inside = {} \/ at < r.from \/ (r.kind = "if" /\ within(at)) THEN above
                  ELSE IF within(at) THEN above \cap inside
                  ELSE {d \in above : cs[d].at > r.to}
    IN  IF recent # {} THEN Max(recent)
        ELSE IF inside # {} /\ at >= r.from THEN Phi ELSE None

\* The operands that PromoteMemToReg leaves.  The marker of an initial value names
\* it, whatever was written since.
Operand(cs, r, k) ==
    LET initial(d) == cs[d].op \in {"init", "arg_init"} /\ cs[d].var = cs[k].var
    IN  IF cs[k].op = "in" THEN CHOOSE d \in DOMAIN cs : initial(d)
        ELSE Reaching(cs, r, k, cs[k].var)

\* solveUses goes to the next use, and starts with the definition it has.
NextUse(cs, args, k) ==
    LET later == {j \in DOMAIN cs : j > k /\ IsUse(cs[j])}
    IN  /\ prev' = None
        /\ IF later = {} THEN phase' = "end" /\ use' = 0 /\ def' = None
           ELSE phase' = "solve" /\ use' = Min(later) /\ def' = args[Min(later)]

\* runOnFunction after the visit.  A function that never returns gets no markers,
\* and its variables stay in memory.
EndVisit ==
    /\ phase = "visit"
    /\ LET fields == Interface(fn)
           used == shadows \cup {fields[k] : k \in DOMAIN fields}
           marks == FlattenSeq([k \in DOMAIN fields |-> MarkOps(fn, fields[k], k)])
           cs == InitOps(fn, used) \o code[fn] \o (IF fn \in Returns THEN marks ELSE <<>>)
       IN  /\ shadows' = used /\ ids' = IdsFor(ids, InOrder(used))
           /\ code' = [code EXCEPT ![fn] = cs]
           /\ \E r \in Regions(Len(body[fn])) :
                /\ region' = [region EXCEPT ![fn] = r]
                /\ IF fn \in Returns
                   THEN LET args == [k \in DOMAIN cs |-> Operand(cs, r, k)]
                        IN  arg' = [arg EXCEPT ![fn] = args] /\ NextUse(cs, args, 0)
                   ELSE phase' = "end" /\ UNCHANGED <<arg, use, def, prev>>
    /\ UNCHANGED <<flags, todo, fn, body>>

-----------------------------------------------------------------------------
(* solveUses *)

\* getAllAllocSites: the values that a pointer is made of.  It gives up at the
\* first one that is neither an allocation site nor made of others.
Origins(v) ==
    LET upTo[i \in Nat] ==
            IF i = 0 THEN {v}
            ELSE LET known == upTo[i - 1]
                 IN  known \cup UNION {Operands[w] : w \in known \ SiteValue}
    IN  {w \in upTo[Cardinality(Value)] : w \in SiteValue \/ Operands[w] = {}}

SitesDisjoint(d, u) ==
    /\ Origins(u.ptr) \cup Origins(d.ptr) \subseteq SiteValue
    /\ Origins(u.ptr) \cap Origins(d.ptr) = {}

OffsetsDisjoint(d, u) ==
    LET uo == Offset(Cell[fn][u.ptr])
        do == Offset(Cell[fn][d.ptr])
    IN  \/ (d.bytes # Unknown /\ uo >= do + d.bytes)
        \/ (u.bytes # Unknown /\ uo + u.bytes <= do)

\* The bytes that an access of pointer v touches in an execution e of a function,
\* an assignment of addresses to its values.
Bytes(e, v, bytes) ==
    {<<e[v].obj, b>> :
        b \in e[v].off .. (IF bytes = Unknown THEN ObjectSize ELSE e[v].off + bytes) - 1}

\* What LLVM's own analyses may answer: any answer that is right.
isNoAlias(d, u) ==
    \A e \in Env[fn] : Bytes(e, u.ptr, u.bytes) \cap Bytes(e, d.ptr, d.bytes) = {}

KnownPointers(d, u) == ~IsInit(d) /\ u.ptr # NoValue /\ d.ptr # NoValue

\* mutant of Skippable: pseudo-instructions without a pointer do not clobber
SkippableUnknown(d, u) ==
    \/ (~IsInit(d) /\ (u.ptr = NoValue \/ d.ptr = NoValue))
    \/ (KnownPointers(d, u) /\ (OffsetsDisjoint(d, u) \/ SitesDisjoint(d, u)))

\* mayClobber answers no whatever LLVM's analyses say; it may answer no.
Skippable(d, u) ==
    KnownPointers(d, u) /\ (OffsetsDisjoint(d, u) \/ SitesDisjoint(d, u))
MaySkip(d, u) == Skippable(d, u) \/ (KnownPointers(d, u) /\ isNoAlias(d, u))

Ops == code[fn]

\* the definition is no phi and does not clobber
SkipDef ==
    /\ phase = "solve" /\ def > 0
    /\ MaySkip(Ops[def], Ops[use])
    /\ prev' = def
    /\ def' = arg[fn][def]
    /\ UNCHANGED <<flags, todo, fn, phase, body, region, code, shadows, ids, arg, use>>

\* The loop ends at a definition that may clobber, or with the last one skipped.
StopWalk ==
    /\ phase = "solve"
    /\ def > 0 => ~Skippable(Ops[def], Ops[use])
    /\ LET found == IF def > 0 THEN def ELSE prev
           args == IF found = None THEN arg[fn] ELSE [arg[fn] EXCEPT ![use] = found]
       IN  arg' = [arg EXCEPT ![fn] = args] /\ NextUse(Ops, args, use)
    /\ UNCHANGED <<flags, todo, fn, body, region, code, shadows, ids>>

\* runOnFunction returns
EndFunction ==
    /\ phase = "end"
    /\ todo' = Tail(todo)
    /\ IF Tail(todo) = <<>> THEN phase' = "done" /\ fn' = fn
       ELSE phase' = "begin" /\ fn' = Head(Tail(todo))
    /\ shadows' = {} /\ use' = 0 /\ def' = None /\ prev' = None
    /\ UNCHANGED <<flags, body, region, code, ids, arg>>

Next ==
    \/ BeginFunction
    \/ \E i \in Instruction[fn] :
         \/ VisitLoadInst(i) \/ VisitStoreInst(i) \/ VisitAllocation(i)
         \/ VisitCalloc(i) \/ VisitMemSetInst(i) \/ VisitMemTransferInst(i)
         \/ VisitMemhavoc(i) \/ VisitShadowQuery(i) \/ VisitGetShadowMem(i)
         \/ VisitShadowUpdate(i) \/ VisitFree(i) \/ VisitDsaCallSite(i)
    \/ EndVisit \/ SkipDef \/ StopWalk \/ EndFunction

Spec == Init /\ [][Next]_vars

-----------------------------------------------------------------------------
(* Executions of a finished function, and what its registers say of them *)

\* The instructions of f in the order of an execution that runs its region `times'
\* times; the last one stands for the return.
Trace(f, times) ==
    LET n == Len(body[f])
        r == region[f]
        stretch(a, b) == [i \in 1 .. b - a + 1 |-> a + i - 1]
    IN  stretch(1, r.from - 1)
            \o FlattenSeq([j \in 1 .. times |-> stretch(r.from, r.to)])
            \o stretch(r.to + 1, n + 1)

Times(f) == CASE region[f].kind = "none" -> {0}
              [] region[f].kind = "if" -> {0, 1}
              [] OTHER -> {0, 1, 2}

\* Executions of the callee when instruction i calls it in execution e.
Called(i, e) == {c \in Env[i.callee] : \A b \in i.binds : e[b[1]] = c[b[2]]}
CalleeEnv(f, e, i) == Called(body[f][i], e)

OpsAt(f, i) == {k \in DOMAIN code[f] : code[f][k].at = i}
IsCall(f, i) == i \in DOMAIN body[f] /\ body[f][i].op = "call"

\* The bytes that the pseudo-instructions of S stand for.
BytesOf(f, e, S) == UNION {Bytes(e, code[f][k].ptr, code[f][k].bytes) : k \in S}

Reading == {"load", "trsfr_load"}
Writing == {"store"}
Having(f, ops) == {k \in DOMAIN code[f] : code[f][k].op \in ops}

\* The accesses of a function to nodes of S.
ToNodes(f, ops, S) == {k \in Having(f, ops) : code[f][k].var[1] \in S}

\* What the i-th instruction writes; a called function calls no other, and what it
\* does to memory that is its own is nobody else's concern.
Written(f, e, i) ==
    IF IsCall(f, i)
    THEN LET g == body[f][i].callee
         IN  UNION {BytesOf(g, c, ToNodes(g, Writing, Reach(g))) : c \in CalleeEnv(f, e, i)}
    ELSE BytesOf(f, e, {k \in OpsAt(f, i) : code[f][k].op \in Writing})

\* What the k-th pseudo-instruction accesses, by those of a callee that do: the one
\* of a call stands for what the callee does to a field of its interface.
Accesses(f, e, k, ops) ==
    LET p == code[f][k]
        g == body[f][p.at].callee
        field == Interface(g)[p.idx]
        ofField == {j \in Having(g, ops) : code[g][j].var = field}
    IN  CASE p.op \in ops -> Bytes(e, p.ptr, p.bytes)
          [] p.op \in {"arg_ref", "arg_mod", "arg_new"} ->
                UNION {BytesOf(g, c, ofField) : c \in CalleeEnv(f, e, p.at)}
          [] OTHER -> {}

\* The marker of a final value reads all that was written to the variable.
Observed(f, e, k) ==
    IF code[f][k].op = "out"
    THEN UNION {Accesses(f, e, j, Writing) :
                  j \in {d \in DOMAIN code[f] : code[f][d].var = code[f][k].var}}
    ELSE Accesses(f, e, k, Reading)

\* What the i-th instruction reads; a callee, of the memory that is there before it.
ReadAt(f, e, i) ==
    IF IsCall(f, i)
    THEN LET g == body[f][i].callee
             known == Reachable(Inputs[g])
         IN  UNION {BytesOf(g, c, ToNodes(g, Reading, known)) : c \in CalleeEnv(f, e, i)}
    ELSE UNION {Observed(f, e, k) : k \in OpsAt(f, i)}

\* The register that the k-th pseudo-instruction gets from before its instruction:
\* those of a call about one variable, of fields that the callee keeps apart and the
\* caller does not, get theirs from one another.
Entering(f, k) ==
    LET at == code[f][k].at
        same == {j \in OpsAt(f, at) : code[f][j].var = code[f][k].var}
    IN  IF IsCall(f, at) THEN arg[f][Min(same)] ELSE arg[f][k]

\* When, in the execution tr, register d got the value that it has at step t; 0 is
\* the entry of the function.
SetAt(f, tr, t, d) ==
    LET r == region[f]
        latest(S) == Max({0} \cup {s \in 1 .. t - 1 : tr[s] \in S})
    IN  CASE d > 0 -> IF code[f][d].at = tr[t] THEN t ELSE latest({code[f][d].at})
          [] d = Phi /\ r.kind = "loop" /\ tr[t] \in r.from .. r.to ->
                Max({s \in 1 .. t : tr[s] = r.from}) - 1
          [] OTHER -> latest(1 .. r.to)

-----------------------------------------------------------------------------
(* Executions that agree with the graphs of the analysis *)

Pointers(f) ==
    {v \in Value : Cell[f][v] # NoCell
        /\ \E i \in Instruction[f] : i.op # "call" /\ v \in {i.ptr, i.src}}

\* Cells of the graph of f, and the addresses that they have in an execution of f:
\* those of its pointers, and those of what a callee reaches from outside.
OwnPlaces(f, e) == {<<Cell[f][v], e[v]>> : v \in Pointers(f)}
CellOutside(g, v) == InCaller(<<Cell[g][v].node, Offset(Cell[g][v])>>)
CalleePlaces(g, c) ==
    {<<CellOutside(g, v), c[v]>> : v \in {w \in Pointers(g) : Cell[g][w].node \in Reach(g)}}
Places(f, e) ==
    OwnPlaces(f, e)
        \cup UNION {UNION {CalleePlaces(i.callee, c) : c \in Called(i, e)} :
                       i \in {j \in Instruction[f] : j.op = "call"}}

\* What lies in one object lies in one node, as far apart as the cells say, or by
\* strides more if the node is an array.
Consistent(x, y) ==
    x[2].obj = y[2].obj =>
      LET n == x[1].node
          strides == IF n \in Array THEN -ObjectSize .. ObjectSize ELSE {0}
      IN  /\ n = y[1].node
          /\ \/ n \in Collapsed
             \/ \E k \in strides :
                  x[2].off - y[2].off = Offset(x[1]) - Offset(y[1]) + k * Size[n]
PlacesConsistent ==
    \A f \in Function : \A e \in Env[f] :
      /\ \A v \in Pointers(f) : e[v].off \in 0 .. ObjectSize
      /\ \A x, y \in Places(f, e) : Consistent(x, y)

\* A gep, phi or select leads into an object that one of its operands leads into.
PointersLeadToSites ==
    \A f \in Function : \A e \in Env[f] : \A v \in Pointers(f) :
      Origins(v) \subseteq SiteValue => \E s \in Origins(v) : e[s].obj = e[v].obj

(* What the analysis and mayClobber do not guarantee *)

\* Two sites are one object: parameters and globals are told apart by their names.
SitesMeet(e, d, u) == \E s \in Origins(d.ptr), x \in Origins(u.ptr) : e[s].obj = e[x].obj

\* An access of an array that begins in the middle of a stride and may not end in it.
OverStride(f, p) ==
    LET c == Cell[f][p.ptr]
    IN  /\ c.node \in Array \ Collapsed /\ Offset(c) # 0
        /\ p.bytes = Unknown \/ Offset(c) + p.bytes > Size[c.node]

\* mayClobber tells definition d and use u apart for a reason that need not hold.
Misjudged(f, e, d, u) ==
    /\ KnownPointers(d, u)
    /\ \/ SitesDisjoint(d, u) /\ SitesMeet(e, d, u)
       \/ OffsetsDisjoint(d, u) /\ (OverStride(f, d) \/ OverStride(f, u))

\* What function g does to memory and does not show to its callers: what the analysis
\* has no field for, and what the verifier asks for or sets, and allocations, in a
\* node that is not marked for another reason.
Unmarking ==
    {"memhavoc", "is_modified", "get_shadowmem", "reset_modified", "free", "alloc"}
Hidden(g) ==
    {k \in Having(g, Reading \cup Writing) :
        LET p == code[g][k]
        IN  \/ p.var[2] \notin Fields(p.var[1])
            \/ /\ body[g][p.at].op \in Unmarking
               /\ p.var[1] \notin (IF p.op \in Writing THEN mod ELSE read \cup mod)}

\* What the i-th instruction writes and reads, but for what its callee hides.
WrittenOpenly(f, e, i) ==
    IF IsCall(f, i)
    THEN LET g == body[f][i].callee
         IN  UNION {BytesOf(g, c, ToNodes(g, Writing, Reach(g)) \ Hidden(g)) :
                      c \in CalleeEnv(f, e, i)}
    ELSE Written(f, e, i)
ReadOpenly(f, e, i) ==
    IF IsCall(f, i)
    THEN LET g == body[f][i].callee
             known == Reachable(Inputs[g])
         IN  UNION {BytesOf(g, c, ToNodes(g, Reading, known) \ Hidden(g)) :
                      c \in CalleeEnv(f, e, i)}
    ELSE ReadAt(f, e, i)

-----------------------------------------------------------------------------
(* Properties *)

\* Offsets that shadow variables of a node stand for.
Slots(n) == IF ~split \/ n \in Collapsed THEN {0}
            ELSE IF n \in Array THEN 0 .. Size[n] - 1 ELSE Nat

\* Every component of the state has its type (the class ShadowMemImpl), and every
\* shadow variable stands for an offset, in an array one of its stride, or for all of
\* its node.
TypeOK ==
    /\ split \in BOOLEAN /\ read \subseteq Node /\ mod \subseteq Node
    /\ fn \in Function
    /\ phase \in {"begin", "visit", "solve", "end", "done"}
    /\ \A f \in Function :
         /\ Len(body[f]) <= MaxBody[f] /\ region[f].to <= Len(body[f])
         /\ \A k \in DOMAIN arg[f] : arg[f][k] \in None .. Len(code[f])
    /\ use \in 0 .. Len(code[fn]) /\ {def, prev} \subseteq None .. Len(code[fn])
    /\ \A x \in shadows : x[1] \in Node /\ x[2] \in Slots(x[1])

\* The variables that share a number (getFieldId), in any functions, whatever the
\* order in which their nodes are met: one of the two lies beyond its node.
IdsDistinct ==
    LET variables == UNION {{code[f][k].var : k \in DOMAIN code[f]} : f \in Function}
        beyond(x) == x[2] >= Width(x[1])
    IN  \A x, y \in variables : FieldId(x) = FieldId(y) => x = y \/ beyond(x) \/ beyond(y)

\* Every use sees the last write of the bytes that it reads, though the pointers of
\* the write and of the read may be parameters (comment and assertion of solveUses).
UsesSeeLastWrite ==
    phase = "end" /\ fn \in Returns =>
      \A e \in Env[fn] :
        LET instrs == 1 .. Len(body[fn]) + 1
            written == UNION {{i} \X Written(fn, e, i) : i \in instrs}
            reads == UNION {{i} \X ReadAt(fn, e, i) : i \in instrs}
            observed == UNION {{k} \X Observed(fn, e, k) : k \in DOMAIN code[fn]}
        IN  \A n \in Times(fn) :
              LET tr == Trace(fn, n)
              IN  \A t \in DOMAIN tr, x \in reads :
                    LET writes == {s \in 1 .. t - 1 : <<tr[s], x[2]>> \in written}
                    IN  x[1] = tr[t] /\ writes # {} =>
                          \E k \in OpsAt(fn, tr[t]) :
                             /\ <<k, x[2]>> \in observed
                             /\ SetAt(fn, tr, t, Entering(fn, k)) \in Max(writes) .. t - 1

\* In every execution, whatever an instruction writes and a later one reads was
\* written no later than the definition that a pseudo-instruction for these bytes
\* uses, and that definition is above the read: solveUses never moves a use above a
\* write of the same bytes, no write of a callee is missed, and the final values that
\* a function shows are the last ones.  The uses that do not see a write are those
\* that mayClobber misjudges: two sites are one object, or one of the accesses goes
\* beyond its stride.
WritesSeen ==
    phase = "end" /\ fn \in Returns =>
      \A e \in Env[fn] :
        LET instrs == 1 .. Len(body[fn]) + 1
            written == UNION {{i} \X WrittenOpenly(fn, e, i) : i \in instrs}
            reads == UNION {{i} \X ReadOpenly(fn, e, i) : i \in instrs}
            observed == UNION {{k} \X Observed(fn, e, k) : k \in DOMAIN code[fn]}
        IN  \A n \in Times(fn) :
              LET tr == Trace(fn, n)
              IN  \A t \in DOMAIN tr, x \in reads : x[1] = tr[t] =>
                    \A s \in 1 .. t - 1 : <<tr[s], x[2]>> \in written =>
                      \/ \E k \in OpsAt(fn, tr[t]) :
                           /\ <<k, x[2]>> \in observed
                           /\ SetAt(fn, tr, t, Entering(fn, k)) \in s .. t - 1
                      \/ \E d \in OpsAt(fn, tr[s]), k \in OpsAt(fn, tr[t]) :
                           Misjudged(fn, e, code[fn][d], code[fn][k])

\* The functions that have all their pseudo-instructions.
Finished(f) ==
    /\ f \in ToSet(ModuleOrder)
    /\ f \notin ToSet(todo) \/ (f = fn /\ phase \in {"solve", "end"})

\* What the k-th pseudo-instructions of function f with the operations ops say
\* about fields: their indices and their variables.
Shown(f, at, ops) ==
    {<<code[f][k].idx, code[f][k].var>> :
        k \in {j \in DOMAIN code[f] : code[f][j].op \in ops /\ code[f][j].at = at}}

\* What a call shows of its callee (visitDsaCallSite) is what the callee shows of
\* itself (markInOut): the same indices, an initial value for what is read or
\* changed, a final value for what is changed or created, and the variables of the
\* caller are those of the cells that simulate the callee's.
InterfacesMatch ==
    \A f \in Function : \A i \in DOMAIN body[f] :
      Finished(f) /\ IsCall(f, i) /\ body[f][i].callee \in Returns
          /\ Finished(body[f][i].callee) =>
        LET g == body[f][i].callee
            inCaller(pairs) == {<<x[1], ShadowOf(InCaller(x[2]))>> : x \in pairs}
            return == Len(body[g]) + 1
        IN  /\ Shown(f, i, {"arg_ref", "arg_mod"}) = inCaller(Shown(g, return, {"in"}))
            /\ Shown(f, i, {"arg_mod", "arg_new"}) = inCaller(Shown(g, return, {"out"}))

=============================================================================
