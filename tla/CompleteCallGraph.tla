-------------------------- MODULE CompleteCallGraph --------------------------
(* CompleteCallGraphAnalysis (lib/seadsa/DsaCompleteCallGraph.cc): rounds of a
   bottom-up pass over the call graph and of a pass that looks at indirect calls.

   The bottom-up pass clones the graphs of callees into those of callers, and
   with the node of a called pointer the call site itself.  A call site whose
   node was copied into a caller is marked; one that was not, or that has reached
   main, gets the functions among the allocation sites of its node as callees.
   Then the marks are cleared and, if the call graph has changed, the next round
   begins on the same graphs.  At the end an indirect call that is resolved
   loses its edge to the node for unknown callees.

   A call site in a graph is a slot <<graph, instruction>>; graphs have the name
   of a function.  Functions are globals and allocation sites.  *)
EXTENDS Cloner, FiniteSetsExt, Graphs

CONSTANTS
    Function, Main,         \* defined functions; the one named main
    Indirect, Caller,       \* indirect calls; the function of a call
    Actuals, Result,        \* pointers that a call passes, and its own value
    Formals, Ret,           \* parameters and the return cell of a function
    UniqueReturn,           \* findUniqueReturnValue if a global, or NoSite
    Legal,                  \* pairs for which isLegalToPromote holds
    FunctionOrder,          \* functions by name
    CallRecords,            \* LLVM's call graph: <<call, callee>>, in order
    External,               \* its node for calls that it knows no callee of
    StripBitCast,           \* the function that a call's operand is cast from, or NoSite
    LocalGraphs             \* heaps that the local analysis may leave

ASSUME ProgramAssumption ==
    /\ Function \subseteq GlobalVar /\ Main \in Function
    /\ FunctionOrder \in Seq(Function)
    /\ External \notin Function
    /\ CallRecords \in Seq((DOMAIN Caller) \X (Function \cup {External}))
    /\ Indirect \subseteq DOMAIN Caller

VARIABLES
    heap, local,
    graphOf,    \* the graph of a function
    records,    \* call records of the call graph, in order
    todo,       \* components of the call graph that the bottom-up pass has ahead
    marked,     \* call sites with m_cloned
    resolved,   \* m_resolved
    round,
    phase       \* "bu", "add", "remove" or "done"

vars == <<heap, local, graphOf, records, todo, marked, resolved, round, phase>>

Known(recs) == {r \in Range(recs) : r[2] # External}
Edges(recs) == {r \in Known(recs) : r[1] \in Indirect}
Callees(recs) == {<<Caller[r[1]], r[2]>> : r \in Known(recs)}
Components(recs) ==
    LET calls == ConnectionsIn([node |-> Function, edge |-> Callees(recs)])
    IN  {{g \in Function : g = f \/ (calls[f, g] /\ calls[g, f])} : f \in Function}
GlobalsOf(h, c) == {v \in GlobalVar : <<c, v>> \in Slots(h)}
CallSitesOf(h, c) == {s \in Slots(h) : s[1] = c /\ s[2] \in Indirect}
NewCloner(h) == [h EXCEPT !.copy = {}, !.split = {}]
BringEach(h, x, transfers) == FoldSet(LAMBDA t, a : Bring(a, x, t), h, transfers)
\* Calls of a cast function get it as their callee; their records move to the end.
resolveIndirectCallsThroughBitCast(recs) ==
    LET cast(r) == StripBitCast[r[1]] # NoSite
        moved == SelectSeq(recs, cast)
    IN  SelectSeq(recs, LAMBDA r : ~cast(r))
            \o [i \in DOMAIN moved |-> <<moved[i][1], StripBitCast[moved[i][1]]>>]

FirstRecords == resolveIndirectCallsThroughBitCast(CallRecords)
-----------------------------------------------------------------------------
(* The bottom-up pass *)

\* mutant of CopyCallSite: a call site that exists is not unified with the copy
CopyCallSiteOnce(h, s, into) ==
    IF <<into, s[2]>> \in Slots(h) THEN h
    ELSE LET n == (CHOOSE q \in CopiesOf(h, CellOf(h, s)[1]) : TRUE)[2]
         IN  UnifySlot(h, <<into, s[2]>>, <<n, CellOf(h, s)[2]>>)

CopyCallSite(h, s, into) ==
    LET n == (CHOOSE q \in CopiesOf(h, CellOf(h, s)[1]) : TRUE)[2]
    IN  UnifySlot(h, <<into, s[2]>>, <<n, CellOf(h, s)[2]>>)

\* Call sites are copied with their nodes; in one graph they count as copied.
cloneCallSites(st, c, into) ==
    LET copied == {s \in CallSitesOf(st.heap, c) : CopiesOf(st.heap, CellOf(st.heap, s)[1]) # {}}
    IN  [heap |-> FoldSet(LAMBDA s, h : CopyCallSite(h, s, into), st.heap, copied),
         marked |-> st.marked \cup (IF c = into THEN CallSitesOf(st.heap, c) ELSE copied)]

\* cloneAndResolveArgumentsAndCallSites
Inline(st, of, r) ==
    LET c == of[r[2]]
        into == of[Caller[r[1]]]
        x == [into |-> into, strip |-> TRUE, oldest |-> TRUE]
        globals == {Transfer(<<c, v>>, <<<<into, v>>>>, FALSE, v) : v \in GlobalsOf(st.heap, c)}
        only == UniqueReturn[r[2]]
        return == {Transfer(<<c, Ret[r[2]]>>,
                            <<<<into, Result[r[1]]>>>> \o
                                (IF only = NoSite THEN <<>> ELSE <<<<into, only>>>>),
                            FALSE, only)}
        both == {i \in DOMAIN Formals[r[2]] : i \in DOMAIN Actuals[r[1]]}
        actual(i) == Transfer(<<c, Formals[r[2]][i]>>, <<<<into, Actuals[r[1]][i]>>>>, FALSE, NoSite)
        known(S) == {t \in S : t.from \in Slots(st.heap)}
        one == BringEach(NewCloner(st.heap), x, globals)
        two == BringEach(one, x, known(return))
        three == BringEach(two, x, known({actual(i) : i \in both}))
    IN  cloneCallSites([st EXCEPT !.heap = three], c, into)

\* Several graphs become one: in the first round the local analysis builds them
\* in one place, later mergeGraphs copies what callers can see.
Visible(h, c) ==
    {s \in Slots(h) : /\ s[1] = c
                      /\ s[2] \in GlobalVar \cup UNION {Range(Formals[f]) \cup {Ret[f]} : f \in Function}}

\* mutant of Without: marks of call sites of the graph are kept
WithoutItsNodes(st, c) == [st EXCEPT !.heap = Keep(st.heap, {s \in Slots(st.heap) : s[1] # c})]

\* No function has the graph any more.
Without(st, c) ==
    [heap |-> Keep(st.heap, {s \in Slots(st.heap) : s[1] # c}),
     marked |-> {s \in st.marked : s[1] # c}]

mergeGraphs(st, c, into, first) ==
    LET x == [into |-> into, strip |-> FALSE, oldest |-> TRUE]
        slots == IF first THEN {s \in Slots(st.heap) : s[1] = c} ELSE Visible(st.heap, c)
        h == BringEach(NewCloner(st.heap), x,
                       {Transfer(s, <<<<into, s[2]>>>>, FALSE, NoSite) : s \in slots})
        g == IF first THEN [st EXCEPT !.heap = h] ELSE cloneCallSites([st EXCEPT !.heap = h], c, into)
    IN  Without(g, c)

RecordsOf(recs, scc) ==
    FoldLeft(LAMBDA a, f : a \o SelectSeq(recs, LAMBDA r : Caller[r[1]] = f /\ r[2] # External), <<>>,
             SelectSeq(FunctionOrder, LAMBDA f : f \in scc))

\* One component of the call graph, whose callees have been visited.
BottomUpStep ==
    /\ phase = "bu"
    /\ \E scc \in todo, first \in UNION todo :
           LET into == graphOf[first]
               others == {graphOf[f] : f \in scc} \ {into}
               of == [f \in Function |-> IF f \in scc THEN into ELSE graphOf[f]]
               merged == FoldSet(LAMBDA c, st : mergeGraphs(st, c, into, round = 1),
                                 [heap |-> heap, marked |-> marked], others)
               inlined == FoldLeft(LAMBDA st, r : Inline(st, of, r), merged, RecordsOf(records, scc))
           IN  /\ first \in scc
               /\ \A e \in Callees(records) : e[1] \in scc => e[2] \in scc \/ e[2] \notin UNION todo
               /\ todo' = todo \ {scc}
               /\ heap' = compress(inlined.heap)
               /\ marked' = inlined.marked
               /\ graphOf' = of
    /\ phase' = IF todo' = {} THEN "add" ELSE "bu"
    /\ UNCHANGED <<local, records, resolved, round>>
-----------------------------------------------------------------------------
(* New edges *)

\* Call sites that are looked at, as pairs <<call, node>>.
Candidates ==
    {<<s[2], CellOf(heap, s)[1]>> :
       s \in {q \in Slots(heap) : q[2] \in Indirect /\ (q[1] = graphOf[Main] \/ q \notin marked)}}

LegalCallees(k) == {f \in SitesOf(heap, k[2]) \cap Function : <<k[1], f>> \in Legal}

hasEdge(i, f) == <<i, f>> \in Range(records)

NewEdges ==
    {e \in UNION {{<<k[1], f>> : f \in LegalCallees(k)} : k \in Candidates} : ~hasEdge(e[1], e[2])}

\* mutant of change: callees that the call graph has count as well
changeIfFound(new) == \E k \in Candidates : LegalCallees(k) # {}

change(new) == new # {}

AddEdges ==
    /\ phase = "add"
    /\ LET new == NewEdges
       IN  /\ records' = FoldSet(LAMBDA e, recs : Append(recs, e), records, new)
           /\ phase' = IF change(new) THEN "bu" ELSE "remove"
           /\ todo' = IF change(new) THEN Components(records') ELSE {}
    /\ resolved' = resolved \cup {k[1] : k \in {j \in Candidates :
                                        /\ LegalCallees(j) # {}
                                        /\ j[2] \notin Marked(heap, "external")}}
    /\ marked' = {}
    /\ round' = 2
    /\ UNCHANGED <<heap, local, graphOf>>

\* a resolved call loses its edge to the external node
KeepsRecord(r) == r[1] \in resolved => r[2] # External

\* The call sites of the graphs are cleared.
RemoveEdges ==
    /\ phase = "remove"
    /\ records' = SelectSeq(records, KeepsRecord)
    /\ heap' = Keep(heap, {s \in Slots(heap) : s[2] \notin Indirect})
    /\ phase' = "done"
    /\ UNCHANGED <<local, graphOf, todo, marked, resolved, round>>

Init ==
    /\ local \in LocalGraphs
    /\ heap = local
    /\ graphOf = [f \in Function |-> f]
    /\ records = FirstRecords
    /\ todo = Components(FirstRecords)
    /\ marked = {} /\ resolved = {} /\ round = 1 /\ phase = "bu"

Next == BottomUpStep \/ AddEdges \/ RemoveEdges

Spec == Init /\ [][Next]_vars

\* The program runs until it is done, as WF_vars(Next) says.
FairSpec == Spec /\ ([]<>(phase = "done") \/ []<><<TRUE>>_vars)
=============================================================================
