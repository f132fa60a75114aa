---------------------------- MODULE AllocWrapInfo ----------------------------
(* lib/seadsa/AllocWrapInfo.cc: functions that return what an allocator has returned
   are allocators themselves, again and again until nothing is new; and
   AllocSiteInfo.cc, which marks the calls of such functions as allocation sites.

   Names given on the command line, the sizes of sites and the attribute noreturn
   are left out.  *)
EXTENDS FunctionIR

CONSTANTS
    Allocator,     \* functions that the library information, or the list, knows
    Deallocator

VARIABLES
    allocs, deallocs,
    round,       \* the names of this round that are still to be looked at
    found,       \* this round has found a wrapper
    loopsKnown,  \* the pass that asks can be asked for loops
    marked       \* instructions marked as allocation sites

wrapVars == <<allocs, deallocs, round, found, loopsKnown, marked>>

CallsOf(c, f) == {i \in Live(c) : Is(c, i, "call") /\ c.ins[i].callee = f}
Returned(c) == {Argument(c, i) : i \in {j \in Live(c) : Is(c, j, "ret")}}
ReturnsPointer(c) ==
    \A v \in Returned(c) : IF IsInstruction(v) THEN c.ins[v].ty = "pointer" ELSE v \notin Const

\* Does src flow into dst?  Not through the phi of a loop, nor through any phi when
\* loops are not known.
RECURSIVE flowsFrom(_, _, _)
flowsFrom(c, dst, src) ==
    \/ dst = src
    \/ dst = Null
    \/ Is(c, dst, "bitcast") /\ flowsFrom(c, Argument(c, dst), src)
    \/ /\ Is(c, dst, "phi") /\ loopsKnown /\ c.shape # "loop"
       /\ \A v \in ToSet(c.ins[dst].args) : flowsFrom(c, v, src)

\* The casts and phis that isNotStored follows from v.
Followed(c, S) == {i \in UNION {Users(c, v) : v \in S} : c.ins[i].op \in {"bitcast", "phi"}}
RECURSIVE Follow(_, _)
Follow(c, S) == IF Followed(c, S) \subseteq S THEN S ELSE Follow(c, S \cup Followed(c, S))

\* mutant of isNotStored: casts and phis are not followed
isNotStoredItself(c, v) ==
    \A i \in Users(c, v) : c.ins[i].op \in {"cmp", "ret", "bitcast", "phi"}

isNotStored(c, v) ==
    \A u \in Follow(c, {v}) : \A i \in Users(c, u) : c.ins[i].op \in {"cmp", "ret", "bitcast", "phi"}

\* isNotStored calls itself without end on a cycle, unless it meets a store first.
MayRecur(c, v) ==
    \E u \in Follow(c, {v}) : u \in Follow(c, Followed(c, {u}))

MayWrap(f, call) ==
    /\ ReturnsPointer(code[f])
    /\ \A v \in Returned(code[f]) : flowsFrom(code[f], v, call)
Wraps(f, call) ==
    MayWrap(f, call) /\ isNotStored(code[f], call) /\ ~MayRecur(code[f], call)

Candidates(n, names) == {e \in (DOMAIN code \ names) \X UNION {CallsOf(code[f], n) : f \in DOMAIN code} :
                            e[2] \in CallsOf(code[e[1]], n)}
WrappersOf(n, names) == {e[1] : e \in {d \in Candidates(n, names) : Wraps(d[1], d[2])}}

\* One name of a round of findWrappers; `names' is the set that is extended, and
\* the round goes over a copy of it.
LookAt(names, n) ==
    /\ n \in round
    /\ round' = round \ {n}
    /\ found' = (found \/ WrappersOf(n, names) # {})

\* The recursion that does not end.
Crash(names, n) ==
    /\ \E e \in Candidates(n, names) : MayWrap(e[1], e[2]) /\ MayRecur(code[e[1]], e[2])
    /\ pass' = "crashed"
    /\ UNCHANGED <<code, wrapVars>>

FindAllocWrapper ==
    /\ pass = "wrappers"
    /\ \E n \in round :
          /\ LookAt(allocs, n)
          /\ allocs' = allocs \cup WrappersOf(n, allocs)
    /\ UNCHANGED <<code, pass, deallocs, loopsKnown, marked>>

FindDeallocWrapper ==
    /\ pass = "dealloc wrappers"
    /\ \E n \in round :
          /\ LookAt(deallocs, n)
          /\ deallocs' = deallocs \cup WrappersOf(n, deallocs)
    /\ UNCHANGED <<code, pass, allocs, loopsKnown, marked>>

FindCrash ==
    \/ pass = "wrappers" /\ \E n \in round : Crash(allocs, n)
    \/ pass = "dealloc wrappers" /\ \E n \in round : Crash(deallocs, n)

\* Another round while there was something new; then deallocators.
NextRound ==
    /\ pass \in {"wrappers", "dealloc wrappers"} /\ round = {}
    /\ found' = FALSE
    /\ IF found THEN /\ round' = IF pass = "wrappers" THEN allocs ELSE deallocs
                     /\ UNCHANGED pass
       ELSE IF pass = "wrappers" THEN round' = deallocs /\ pass' = "dealloc wrappers"
       ELSE round' = {} /\ pass' = "marking"
    /\ UNCHANGED <<code, allocs, deallocs, loopsKnown, marked>>

markAllocs(c) ==
    {i \in Live(c) : Is(c, i, "alloca") \/ (Is(c, i, "call") /\ c.ins[i].callee \in allocs)}

MarkAllocs ==
    /\ pass = "marking"
    /\ marked' = [f \in DOMAIN code |-> markAllocs(code[f])]
    /\ pass' = "done"
    /\ UNCHANGED <<code, allocs, deallocs, round, found, loopsKnown>>

WrapInit ==
    /\ allocs = Allocator /\ deallocs = Deallocator
    /\ round = allocs /\ found = FALSE
    /\ loopsKnown \in BOOLEAN
    /\ marked = <<>>

WrapNext == FindAllocWrapper \/ FindDeallocWrapper \/ FindCrash \/ NextRound \/ MarkAllocs

-----------------------------------------------------------------------------
(* Properties *)

\* In an execution of f its result is null, or fresh: the last result of a call of an
\* allocator, which no memory holds.
ReturnsFresh(f, env, path) ==
    LET b == Behaviour(code[f], env, path)
    IN  \/ b[2] = env[Null]
        \/ /\ b[2][1] = "result" /\ b[2][2] \in allocs
           /\ \A addr \in DOMAIN b[1] : b[2] \notin {addr, b[1][addr]}

\* A call that is marked as an allocation site, other than of the allocators
\* themselves, returns null or fresh memory on every path of its callee: two calls
\* never return one object, nor one that is known elsewhere.  A function
\* without branches or stores that returns fresh memory is found, however deep it
\* wraps an allocator.
SitesAreFresh ==
    pass = "done" =>
        \A f \in DOMAIN code :
            LET runs == Environments \X Paths(code[f])
                plain == code[f].shape = "line" /\ \A i \in Live(code[f]) :
                             code[f].ins[i].op # "store" /\ (Is(code[f], i, "call") => code[f].ins[i].args = <<>>)
            IN  /\ f \in allocs => \A r \in runs : ReturnsFresh(f, r[1], r[2])
                /\ /\ plain /\ ReturnsPointer(code[f])
                   /\ \A r \in runs : ReturnsFresh(f, r[1], r[2]) /\ Behaviour(code[f], r[1], r[2])[2][1] = "result"
                   => f \in allocs
=============================================================================
