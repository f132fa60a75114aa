------------------------------ MODULE FunctionIR ------------------------------
(* Functions as the passes see them that prepare a module for the analysis.  They
   are LLVM's; a function here is a straight line, a conditional with phis where it
   joins, or a loop with phis at its header.

   Values are parameters, constants and instructions.  Integers are as wide as
   addresses; types and the casts between pointer types that a pass inserts are
   left out.  *)
EXTENDS SequencesExt, Integers, TLC

CONSTANTS
    Function,    \* functions
    Param,       \* parameters and constants: ...
    Null,        \* ... the null pointer ...
    Const, Zero  \* ... and integers, 0 among them

ASSUME ConstantsAssumption == {Null, Zero} \cup Const \subseteq Param /\ Zero \in Const

VARIABLES
    code,  \* functions: their instructions in the order they were made, and the
           \* two blocks that these are in
    pass   \* the pass at work, "done", or "crashed"

Ins(op, args, ty) == [op |-> op, args |-> args, ty |-> ty]
CallOf(f, args, ty) == [op |-> "call", args |-> args, ty |-> ty, callee |-> f]

Layout(c) == c.first \o c.second
Live(c) == ToSet(Layout(c))
Users(c, v) == {i \in Live(c) : v \in ToSet(c.ins[i].args)}
IsInstruction(v) == v \notin Param
Is(c, v, op) == IsInstruction(v) /\ c.ins[v].op = op
Argument(c, i) == c.ins[i].args[1]

Made(c) == Len(c.ins) + 1
\* the new instruction is put before instruction i
InsertBefore(c, i, new) ==
    LET put(block) == IF i \notin ToSet(block) THEN block
                      ELSE InsertAt(block, CHOOSE k \in DOMAIN block : block[k] = i, Made(c))
    IN  [c EXCEPT !.ins = Append(@, new), !.first = put(@), !.second = put(@)]

ReplaceUses(c, v, w) ==
    [c EXCEPT !.ins = [i \in DOMAIN @ |->
        [@[i] EXCEPT !.args = [k \in DOMAIN @ |-> IF @[k] = v THEN w ELSE @[k]]]]]

Without(c, S) ==
    LET rest(block) == SelectSeq(block, LAMBDA i : i \notin S)
    IN  [c EXCEPT !.first = rest(@), !.second = rest(@)]

\* No use, and no effect but its value.
TriviallyDead(c, i) ==
    i \in Live(c) /\ Users(c, i) = {} /\ c.ins[i].op \notin {"store", "ret", "call"}

\* RecursivelyDeleteTriviallyDeadInstructions
RECURSIVE DeleteDead(_, _)
DeleteDead(c, S) ==
    IF S = {} THEN c
    ELSE LET d == Without(c, S)
             used == UNION {ToSet(c.ins[i].args) : i \in S}
         IN  DeleteDead(d, {v \in used : IsInstruction(v) /\ TriviallyDead(d, v)})

\* What verifyFunction asks for: instructions are used after they are made, by phis
\* after the block that they come from, and phis come first.
WellFormed(c) ==
    LET place(v) == CHOOSE k \in DOMAIN Layout(c) : Layout(c)[k] = v
        defined(i, k, v) ==
            IF ~Is(c, i, "phi") THEN v \in Live(c) /\ place(v) < place(i)
            ELSE v \in (IF c.shape = "loop" /\ k = 2 THEN Live(c) ELSE ToSet(c.first))
    IN  \A i \in Live(c) :
            /\ \A k \in DOMAIN c.ins[i].args : LET v == c.ins[i].args[k]
                                               IN  IsInstruction(v) => defined(i, k, v)
            /\ Is(c, i, "phi") => \A j \in ToSet(c.second) : place(j) < place(i) => Is(c, j, "phi")

-----------------------------------------------------------------------------
(* Executions: `path' tells which operands phis take in the runs of the second
   block, `env' the values of parameters.  Values are terms: nothing is known of
   integers but what they are made of.  *)

Paths(c) ==
    IF c.shape = "line" THEN {<<1>>}
    ELSE IF c.shape = "if" THEN {<<1>>, <<2>>}
    ELSE {<<1>>, <<1, 2>>, <<1, 2, 2>>}

Content(s, addr) == IF addr \in DOMAIN s.mem THEN s.mem[addr] ELSE <<"held", addr>>
Moved(t, arg, by) == IF arg = Zero THEN t ELSE <<by, t, arg>>

\* what instruction i computes in the n-th run of its block, entered with values `at'
Computed(s, at, i, c, k, n) ==
    LET ins == c.ins[i]
        arg(j) == s.val[ins.args[j]]
    IN  CASE ins.op = "load" -> Content(s, arg(1))
          [] ins.op \in {"ptrtoint", "inttoptr", "bitcast"} -> arg(1)
          [] ins.op \in {"add", "gep"} -> Moved(arg(1), ins.args[2], "plus")
          [] ins.op \in {"sub", "gep back"} -> Moved(arg(1), ins.args[2], "minus")
          [] ins.op = "phi" -> at[ins.args[k]]
          [] ins.op = "call" -> <<"result", ins.callee, i, n>>
          [] ins.op = "alloca" -> <<"object", i, n>>
          [] ins.op = "cmp" -> <<"compared", arg(1)>>

Execution(c, env, path) ==
    LET run(s, at, i, k, n) ==
            LET arg(j) == s.val[c.ins[i].args[j]]
            IN  CASE c.ins[i].op = "store" -> [s EXCEPT !.mem = (arg(2) :> arg(1)) @@ @]
                  [] c.ins[i].op = "ret" -> [s EXCEPT !.ret = arg(1)]
                  [] OTHER -> [s EXCEPT !.val = (i :> Computed(s, at, i, c, k, n)) @@ @]
        entry == FoldLeft(LAMBDA s, i : run(s, env, i, 0, 0),
                          [val |-> env, mem |-> <<>>, ret |-> <<>>], c.first)
        block(s, n) == FoldLeft(LAMBDA t, i : run(t, s.val, i, path[n], n), s, c.second)
    IN  FoldLeft(block, entry, [n \in DOMAIN path |-> n])

\* what a caller can tell of a function
Behaviour(c, env, path) ==
    LET s == Execution(c, env, path) IN <<s.mem, s.ret>>

\* parameters, all different or two pointers to one address
Environments ==
    {[v \in Param |-> <<"parameter", v>>],
     [v \in Param |-> IF v \in Const THEN <<"parameter", v>> ELSE <<"parameter", Null>>]}
=============================================================================
