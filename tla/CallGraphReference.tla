-------------------------- MODULE CallGraphReference --------------------------
(* CompleteCallGraph beside what it computes, defined without cloning: the
   callees that executions of the program call, and those that one graph for the
   whole program gives.  Programs have no loads and stores here: a node stands for
   a pointer variable of a function.  *)
EXTENDS CompleteCallGraph

VARIABLES
    must,       \* callees that an execution from main calls
    may         \* callees of the context-insensitive analysis

rvars == <<vars, must, may>>
-----------------------------------------------------------------------------
(* Executions.  An activation is a function with values of its parameters, pairs
   <<parameter, function>>; a fact <<activation, node, s>> says that the variable
   may be s in it. *)

ValuesOf(h, facts, act, v) ==
    (IF v \in GlobalVar THEN {v} ELSE {})
    \cup {q[3] : q \in {p \in facts : /\ p[1] = act /\ <<act[1], v>> \in Slots(h)
                                      /\ p[2] = CellOf(h, <<act[1], v>>)[1]}}

\* The calls <<call, callee>> of an activation.
CallsOf(h, facts, act) ==
    {r \in Known(FirstRecords) : Caller[r[1]] = act[1]}
    \cup {<<i, f>> \in Indirect \X Function :
            Caller[i] = act[1] /\ <<i, f>> \in Legal /\ f \in ValuesOf(h, facts, act, i)}

\* Values of the parameters from k on.
RECURSIVE Passed(_, _, _, _, _)
Passed(h, facts, act, r, k) ==
    IF k > Len(Formals[r[2]]) \/ k > Len(Actuals[r[1]]) THEN {{}}
    ELSE LET S == ValuesOf(h, facts, act, Actuals[r[1]][k])
             rest == Passed(h, facts, act, r, k + 1)
         IN  IF S = {} THEN rest ELSE {e \cup {<<Formals[r[2]][k], s>>} : e \in rest, s \in S}

Started(h, facts, act) ==
    UNION {{<<r[2], e>> : e \in Passed(h, facts, act, r, 1)} : r \in CallsOf(h, facts, act)}

Begin(h, act) ==
    {<<act, p[1], p[2]>> : p \in {q \in h.site : q[1][1] = act[1]}}
    \cup {<<act, CellOf(h, <<act[1], e[1]>>)[1], e[2]>> : e \in {d \in act[2] : <<act[1], d[1]>> \in Slots(h)}}

Returned(h, facts, act) ==
    UNION {{<<act, CellOf(h, <<act[1], Result[r[1]]>>)[1], s>> :
              s \in UNION {ValuesOf(h, facts, <<r[2], e>>, Ret[r[2]]) : e \in Passed(h, facts, act, r, 1)}} :
           r \in {q \in CallsOf(h, facts, act) : <<act[1], Result[q[1]]>> \in Slots(h)}}

RECURSIVE Executed(_, _, _)
Executed(h, acts, facts) ==
    LET newActs == acts \cup UNION {Started(h, facts, act) : act \in acts}
        newFacts == facts \cup UNION {Begin(h, act) \cup Returned(h, facts, act) : act \in acts}
    IN  IF newActs = acts /\ newFacts = facts THEN <<acts, facts>>
        ELSE Executed(h, newActs, newFacts)

Must(h) ==
    LET e == Executed(h, {<<Main, {}>>}, {})
    IN  {r \in UNION {CallsOf(h, e[2], act) : act \in e[1]} : r[1] \in Indirect}
-----------------------------------------------------------------------------
(* One graph *)

Together(h, s, t) ==
    LET g == IF t[2] \in GlobalVar THEN WithGlobal(h, t) ELSE h
    IN  IF s \in Slots(g) THEN UnifySlot(g, t, CellOf(g, s)) ELSE g

Joined(h, r) ==
    LET d == Caller[r[1]]
        ret == Together(h, <<r[2], Ret[r[2]]>>, <<d, Result[r[1]]>>)
        both == {i \in DOMAIN Formals[r[2]] : i \in DOMAIN Actuals[r[1]]}
    IN  FoldSet(LAMBDA i, g : Together(g, <<r[2], Formals[r[2]][i]>>, <<d, Actuals[r[1]][i]>>), ret, both)

RECURSIVE Flat(_, _)
Flat(h, edges) ==
    LET called == FoldSet(LAMBDA r, g : Joined(g, r), h, Known(FirstRecords) \cup edges)
        globals == {s \in Slots(called) : s[2] \in GlobalVar}
        one == FoldSet(LAMBDA p, g : Together(g, p[1], p[2]), called,
                       {p \in globals \X globals : p[1][2] = p[2][2]})
        next == edges \cup {<<i, f>> \in Legal :
                              \E s \in Slots(one) : s[2] = i /\ f \in SitesOf(one, CellOf(one, s)[1])}
    IN  IF next = edges THEN edges ELSE Flat(h, next)

May(h) == Flat(h, Edges(FirstRecords))
-----------------------------------------------------------------------------
RInit == Init /\ must = Must(local) /\ may = May(local)
RSpec == RInit /\ [][Next /\ UNCHANGED <<must, may>>]_rvars
RFairSpec == RSpec /\ ([]<>(phase = "done") \/ []<><<TRUE>>_rvars)
-----------------------------------------------------------------------------
(* Properties *)

\* Graphs hold cells of their own nodes; a function is in one graph with the
\* component it was visited with; marks are on call sites that exist; every call
\* that LLVM's call graph has keeps an edge, to a callee or to the external node.
TypeOK ==
    /\ graphOf \in [Function -> Function]
    /\ \A p \in heap.cell : p[2][1] \in heap.node /\ p[2][1][1] = p[1][1]
    /\ \A p, q \in heap.cell : p[1] = q[1] => p = q
    /\ round = 2 => \A f \in Function : graphOf[graphOf[f]] = graphOf[f]
    /\ marked \subseteq Slots(heap) /\ resolved \subseteq Indirect
    /\ phase \in {"bu", "add", "remove", "done"} /\ (phase # "bu" <=> todo = {})
    /\ {r[1] : r \in Range(CallRecords)} \subseteq {r[1] : r \in Range(records)}

\* The rounds implement the promise of CompleteCallGraph.hh: edges are added until
\* every indirect call has the callees that executions call, and none is added
\* that the context-insensitive analysis does not have.
Promise == INSTANCE CallGraphSpec WITH edges <- Edges(records), done <- phase = "done"
Completes == Promise!Spec

\* The comment on isComplete: an indirect call that counts as resolved has all
\* callees that executions call.
ResolvedIsComplete ==
    phase = "done" => \A r \in must : r[1] \in resolved => r \in Edges(records)

\* The rounds end: the graphs keep what they have, and with them the edges.
RoundsEnd == <>(phase = "done")
=============================================================================
