---------------------------- MODULE RemovePtrToInt ----------------------------
(* lib/seadsa/RemovePtrToInt.cc: addresses that travel as integers, through
   ptrtoint and inttoptr or through loads and stores of integers, are rewritten to
   travel as pointers, for the analysis to see them.  Functions are rewritten one
   by one, stores and inttoptr in the order of the code; instructions that may
   have become useless are removed at the end of each function.

   Types are left out but for pointers and integers as wide; a pass of a narrower
   integer is not modelled.  *)
EXTENDS FunctionIR

CONSTANT GaveUp    \* a null result of the promoter

VARIABLES
    rewriting,   \* the function at work and those still to come
    todo,        \* stores and inttoptr of the function that are still to be visited
    unused,      \* MaybeUnusedInsts
    erased,      \* StoresToErase
    renamed,     \* RenameMap
    newPhis,     \* NewPhis
    original     \* the functions before; read by properties only

rewriteVars == <<rewriting, todo, unused, erased, renamed, newPhis, original>>

Fn == Head(rewriting)
ToVisit(c) == SelectSeq(Layout(c), LAMBDA i : c.ins[i].op \in {"store", "inttoptr"})

-----------------------------------------------------------------------------
(* PointerPromoter: makes a pointer of an integer expression.  The state has the
   code, the two collections that it adds to, and the phis it has met.  A result
   that is given up leaves what was made on the way.  *)

NewBefore(s, i, new) == [s EXCEPT !.code = InsertBefore(@, i, new), !.value = Made(s.code)]
ToRemove(s, i) == [s EXCEPT !.unused = @ \cup {i}]
GiveUp(s) == [s EXCEPT !.value = GaveUp]

\* the load of a pointer; stores of the integer are doubled, other users will take
\* the new pointer's ptrtoint
visitLoad(s, i) ==
    LET loaded == NewBefore(s, i, Ins("load", s.code.ins[i].args, "pointer"))
        p == loaded.value
        users == Users(s.code, i)
        stores == {u \in users : Is(s.code, u, "store") /\ Argument(s.code, u) = i}
        others == {u \in users : s.code.ins[u].op \notin {"store", "inttoptr"}}
        double(u, t) == ToRemove([t EXCEPT !.code = InsertBefore(@, u,
                            Ins("store", <<p, @.ins[u].args[2]>>, "none"))], u)
        doubled == FoldSet(double, loaded, stores)
    IN  IF others = {} THEN doubled
        ELSE [doubled EXCEPT !.code = InsertBefore(@, i, Ins("ptrtoint", <<p>>, "integer")),
                             !.renamed = @ @@ (i :> Made(doubled.code))]

RECURSIVE Visit(_, _)
visitOffset(s, i, op) ==
    LET v == s.code.ins[i].args[1]
        by == s.code.ins[i].args[2]
        t == IF IsInstruction(v) THEN Visit(s, v) ELSE GiveUp(s)
    IN  IF t.value = GaveUp THEN t
        ELSE IF op = "gep back" /\ by = Zero THEN ToRemove(t, i)
        ELSE NewBefore(ToRemove(t, i), i, Ins(op, <<t.value, by>>, "pointer"))

visitPHINode(s, i) ==
    LET operand(t, v) ==
            IF t.value = GaveUp THEN t
            ELSE LET u == IF IsInstruction(v) THEN Visit(t, v) ELSE GiveUp(t)
                 IN  [u EXCEPT !.vals = Append(t.vals, u.value)]
        start == [s EXCEPT !.visited = @ \cup {i}, !.vals = <<>>, !.value = Null]
        t == FoldLeft(operand, start, s.code.ins[i].args)
        made == ToRemove(NewBefore(t, i, Ins("phi", t.vals, "pointer")), i)
    IN  IF i \in s.visited THEN GiveUp(s)
        ELSE IF t.value = GaveUp THEN t ELSE [made EXCEPT !.vals = s.vals]

Visit(s, i) ==
    LET op == s.code.ins[i].op
    IN  CASE op = "ptrtoint" -> [ToRemove(s, i) EXCEPT !.value = Argument(s.code, i)]
          [] op = "load" -> visitLoad(s, i)
          [] op = "add" -> visitOffset(s, i, "gep")
          [] op = "sub" /\ s.code.ins[i].args[2] \in Const -> visitOffset(s, i, "gep back")
          [] op = "phi" -> visitPHINode(s, i)
          [] OTHER -> GiveUp(s)

-----------------------------------------------------------------------------
(* runOnFunction *)

\* mutant of StorePointer: the pointer is stored where it was converted
StorePointerEarly(c, i, twice) ==
    LET at == c.ins[i].args[1]
        p == Argument(c, at)
        addr == c.ins[i].args[2]
        once == InsertBefore(c, at, Ins("store", <<p, addr>>, "none"))
    IN  IF ~twice THEN once
        ELSE InsertBefore(once, at, Ins("store", <<p, Argument(c, addr)>>, "none"))

\* A store of a ptrtoint becomes a store of the pointer (visitIntStoreInst2), and
\* once more through the address that a cast was made of, if that was the
\* address of pointers, too (visitStoreInst).
StorePointer(c, i, twice) ==
    LET p == Argument(c, c.ins[i].args[1])
        addr == c.ins[i].args[2]
        once == InsertBefore(c, i, Ins("store", <<p, addr>>, "none"))
    IN  IF ~twice THEN once
        ELSE InsertBefore(once, i, Ins("store", <<p, Argument(c, addr)>>, "none"))

VisitPointerStore ==
    /\ todo # <<>>
    /\ LET i == Head(todo)
           c == code[Fn]
           addr == c.ins[i].args[2]
       IN  /\ Is(c, i, "store") /\ Is(c, Argument(c, i), "ptrtoint")
           /\ \E twice \in IF Is(c, addr, "bitcast") THEN BOOLEAN ELSE {FALSE} :
                 /\ code' = [code EXCEPT ![Fn] = StorePointer(c, i, twice)]
                 /\ unused' = unused \cup {Argument(c, i)} \cup (IF twice THEN {addr} ELSE {})
           /\ erased' = erased \cup {i}
    /\ todo' = Tail(todo)
    /\ UNCHANGED <<pass, rewriting, renamed, newPhis, original>>

\* An integer is copied through two casts: visitIntStoreInst copies a pointer.
CopiesInteger(c, i) ==
    LET v == Argument(c, i)
    IN  /\ Is(c, v, "load") /\ c.ins[v].ty = "integer"
        /\ Is(c, Argument(c, v), "bitcast") /\ Is(c, c.ins[i].args[2], "bitcast")

VisitCopyStore ==
    /\ todo # <<>>
    /\ LET i == Head(todo)
           c == code[Fn]
           v == Argument(c, i)
           from == Argument(c, v)
           to == c.ins[i].args[2]
           loaded == InsertBefore(c, v, Ins("load", <<Argument(c, from)>>, "pointer"))
       IN  /\ Is(c, i, "store") /\ CopiesInteger(c, i)
           /\ code' = [code EXCEPT ![Fn] =
                          InsertBefore(loaded, i, Ins("store", <<Made(c), Argument(c, to)>>, "none"))]
           /\ erased' = erased \cup {i}
           /\ unused' = unused \cup {v, from, to}
    /\ todo' = Tail(todo)
    /\ UNCHANGED <<pass, rewriting, renamed, newPhis, original>>

VisitOtherStore ==
    /\ todo # <<>>
    /\ LET c == code[Fn]
           i == Head(todo)
       IN  Is(c, i, "store") /\ ~Is(c, Argument(c, i), "ptrtoint") /\ ~CopiesInteger(c, i)
    /\ todo' = Tail(todo)
    /\ UNCHANGED <<code, pass, rewriting, unused, erased, renamed, newPhis, original>>

\* An inttoptr of a phi takes the phi of pointers that was made for another
\* inttoptr, or one that is made now, if all operands are ptrtoint.
VisitPhi ==
    /\ todo # <<>>
    /\ LET i == Head(todo)
           c == code[Fn]
           phi == Argument(c, i)
           operands == c.ins[phi].args
           fromPointers == \A k \in DOMAIN operands : Is(c, operands[k], "ptrtoint")
           pointers == [k \in DOMAIN operands |-> Argument(c, operands[k])]
           use(d, v) == code' = [code EXCEPT ![Fn] = ReplaceUses(d, i, v)]
       IN  /\ Is(c, i, "inttoptr") /\ Is(c, phi, "phi")
           /\ \/ /\ phi \in DOMAIN newPhis
                 /\ use(c, newPhis[phi])
                 /\ unused' = unused \cup {i}
                 /\ UNCHANGED newPhis
              \/ /\ phi \notin DOMAIN newPhis /\ fromPointers
                 /\ use(InsertBefore(c, phi, Ins("phi", pointers, "pointer")), Made(c))
                 /\ newPhis' = newPhis @@ (phi :> Made(c))
                 /\ unused' = unused \cup ToSet(operands) \cup {phi, i}
              \/ /\ phi \notin DOMAIN newPhis /\ ~fromPointers
                 /\ UNCHANGED <<code, unused, newPhis>>
    /\ todo' = Tail(todo)
    /\ UNCHANGED <<pass, rewriting, erased, renamed, original>>

\* An inttoptr of anything else is left to the PointerPromoter.
VisitIntToPtr ==
    /\ todo # <<>>
    /\ LET i == Head(todo)
           c == code[Fn]
           v == Argument(c, i)
           start == [code |-> c, unused |-> unused, renamed |-> renamed,
                     visited |-> {}, vals |-> <<>>, value |-> GaveUp]
           s == IF IsInstruction(v) THEN Visit(start, v) ELSE start
       IN  /\ Is(c, i, "inttoptr") /\ ~Is(c, v, "phi")
           /\ renamed' = s.renamed
           /\ IF s.value = GaveUp
              THEN /\ code' = [code EXCEPT ![Fn] = s.code]
                   /\ unused' = s.unused
              ELSE /\ code' = [code EXCEPT ![Fn] = ReplaceUses(s.code, i, s.value)]
                   /\ unused' = s.unused \cup {i}
    /\ todo' = Tail(todo)
    /\ UNCHANGED <<pass, rewriting, erased, newPhis, original>>

Kept(c) == LET d == Without(c, erased) IN DeleteDead(d, {i \in unused : TriviallyDead(d, i)})

\* The entry of a load that was deleted is a dangling pointer: nothing more may
\* come of it, for nothing uses the load.
ReplaceLoads(c) == FoldSet(LAMBDA i, d : ReplaceUses(d, i, renamed[i]), c, DOMAIN renamed)

\* The next function, or the end of the pass.
Continue(rest) ==
    /\ rewriting' = rest
    /\ todo' = IF rest = <<>> THEN <<>> ELSE ToVisit(code[Head(rest)])
    /\ unused' = {} /\ erased' = {} /\ renamed' = <<>> /\ newPhis' = <<>>

FinishFunction ==
    /\ pass = "rewriting" /\ rewriting # <<>> /\ todo = <<>>
    /\ LET c == Kept(code[Fn])
       IN  \/ /\ code' = [code EXCEPT ![Fn] = ReplaceLoads(c)]
              /\ pass' = IF Tail(rewriting) = <<>> THEN "wrappers" ELSE "rewriting"
           \/ /\ ~(DOMAIN renamed \subseteq Live(c))
              /\ pass' = "crashed"
              /\ UNCHANGED code
    /\ Continue(Tail(rewriting))
    /\ UNCHANGED original

RewriteNext ==
    \/ VisitPointerStore \/ VisitCopyStore \/ VisitOtherStore
    \/ VisitPhi \/ VisitIntToPtr \/ FinishFunction

-----------------------------------------------------------------------------
(* Properties *)

\* A function that was rewritten is well formed, as runOnFunction asserts and the
\* comment on deferred removals promises: no instruction uses one that was erased or
\* deleted, or one that is made later.  And it does what it did: on every path it
\* leaves the same memory and returns the same value, although loads are moved to
\* where integers were loaded, stores are doubled or erased, and phis and sums are
\* rebuilt, some of it for a promotion that is then given up.
MeaningKept ==
    pass = "wrappers" =>
        \A f \in DOMAIN original :
            /\ WellFormed(code[f])
            /\ \A env \in Environments, path \in Paths(original[f]) :
                   Behaviour(code[f], env, path) = Behaviour(original[f], env, path)
=============================================================================
