------------------------------ MODULE MCPrepare ------------------------------
(* The passes that prepare a module, one after the other, on all functions f of a
   few instructions: of integers and pointers, or of allocations, with callers g.  *)
EXTENDS RemovePtrToInt, AllocWrapInfo

CONSTANTS f, g, malloc, free, A, B, N, One, MaxMade

VARIABLE menu

\* instructions of f, without its ret
Bound == IF menu = "integers" THEN MaxMade ELSE MaxMade - 2

vars == <<code, pass, rewriteVars, wrapVars, menu>>

c == code[f]
Values(ty) == {i \in Live(c) : c.ins[i].ty = ty}
Pointers == {A, 1} \cup Values("pointer")
\* values without a use that should have one
Unused == {i \in Live(c) : /\ c.ins[i].ty # "none" /\ c.ins[i].op \notin {"call", "inttoptr"}
                           /\ Users(c, i) = {} /\ c.ins[i].args # <<B>>}

AddTo(block, new) ==
    code' = [code EXCEPT ![f].ins = Append(@, new), ![f][block] = Append(@, Made(c))]

\* Phis come first in the second block; the second operand of a loop's phi may be
\* an instruction still to come.
PhiArgs(values) ==
    IF c.shape = "if" THEN values \X (values \ {N})
    ELSE values \X ((values \cap Param) \cup (Made(c) .. Bound))

IntegerIns ==
    {Ins("ptrtoint", <<v>>, "integer") : v \in Pointers \ {1}}
    \cup {Ins("inttoptr", <<v>>, "pointer") : v \in Values("integer")}
    \cup {Ins("load", <<v>>, "integer") : v \in {A, 1}}
    \cup {Ins("store", <<v, a>>, "none") : v \in Values("integer") \cup (Pointers \ {A, 1}), a \in Pointers}
    \cup {Ins("store", <<N, A>>, "none")}
    \cup {Ins("add", <<v, N>>, "integer") : v \in Values("integer")}
    \cup {Ins("sub", <<v, w>>, "integer") : v \in Values("integer"), w \in {Zero, One, N}}
AllocIns ==
    {CallOf(malloc, <<>>, "pointer"), Ins("alloca", <<>>, "pointer")}
    \cup {CallOf(free, <<v>>, "none") : v \in Values("pointer")}
    \cup {Ins("bitcast", <<v>>, "pointer") : v \in Values("pointer")}
    \cup {Ins("cmp", <<v>>, "none") : v \in Values("pointer")}
    \cup {Ins("store", <<v, a>>, "none") : v \in Values("pointer"), a \in {A}}
Phis ==
    IF menu = "integers" THEN {Ins("phi", <<p[1], p[2]>>, "integer") : p \in PhiArgs(Values("integer") \cup {N})}
    ELSE {Ins("phi", <<p[1], p[2]>>, "pointer") : p \in PhiArgs(Values("pointer") \cup {Null})}

Wanted == IF menu = "integers" THEN IntegerIns ELSE AllocIns

\* Every unused value can still be used.
Usable == Cardinality(Unused') <= 2 * (Bound - Len(c.ins)) - 1

AddFirst ==
    /\ c.second = <<>> /\ Len(c.ins) < Bound
    /\ \E new \in Wanted : AddTo("first", new)
AddSecond ==
    /\ c.shape # "line" /\ Len(c.ins) < Bound
    /\ \/ \E new \in Wanted : AddTo("second", new)
       \/ /\ \A i \in ToSet(c.second) : Is(c, i, "phi")
          /\ \E new \in Phis : AddTo("second", new)

WellTyped ==
    \A i \in Live(c) : Is(c, i, "phi") =>
        \A v \in ToSet(c.ins[i].args) :
            IsInstruction(v) => v \in Live(c) /\ c.ins[v].ty = c.ins[i].ty

Line(ins) == [ins |-> ins, first |-> [i \in DOMAIN ins |-> i], second |-> <<>>, shape |-> "line"]
Ret(v) == Ins("ret", <<v>>, "none")
Callers ==
    {Line(<<CallOf(f, <<>>, "pointer"), Ret(1)>>),
     Line(<<CallOf(f, <<>>, "pointer"), Ins("store", <<1, A>>, "none"), Ret(1)>>),
     Line(<<CallOf(f, <<>>, "pointer"), Ins("bitcast", <<1>>, "pointer"), Ret(2)>>),
     Line(<<CallOf(malloc, <<>>, "pointer"), CallOf(f, <<>>, "pointer"), Ret(1)>>),
     [ins |-> <<CallOf(f, <<>>, "pointer"), CallOf(f, <<>>, "pointer"), Ins("phi", <<1, 2>>, "pointer"), Ret(3)>>,
      first |-> <<1, 2>>, second |-> <<3, 4>>, shape |-> "if"],
     [ins |-> <<CallOf(f, <<>>, "pointer"), Ins("phi", <<1, Null>>, "pointer"), Ret(2)>>,
      first |-> <<1>>, second |-> <<2, 3>>, shape |-> "if"],
     [ins |-> <<CallOf(f, <<>>, "pointer"), Ins("phi", <<1, 2>>, "pointer"), Ret(1)>>,
      first |-> <<1>>, second |-> <<2, 3>>, shape |-> "loop"]}

Close ==
    /\ \E v \in Values("pointer") \cup Values("integer") \cup (IF menu = "integers" THEN {} ELSE {Null}) :
          /\ Unused \subseteq {v}
          /\ AddTo(IF c.shape = "line" THEN "first" ELSE "second", Ret(v))
    /\ c.shape # "line" => c.second # <<>>
    /\ IF menu = "integers" THEN ToVisit(c) # <<>> ELSE \E i \in Live(c) : Is(c, i, "call")
    /\ WellTyped /\ WellFormed(c)
    /\ pass' = IF menu = "integers" THEN "rewriting" ELSE "wrappers"
    /\ rewriting' = IF menu = "integers" THEN <<f>> ELSE <<>>
    /\ original' = [original EXCEPT ![f] = code'[f]]
    /\ todo' = IF menu = "integers" THEN ToVisit(code'[f]) ELSE <<>>

Build ==
    /\ pass = "building"
    /\ \/ (AddFirst \/ AddSecond) /\ Usable /\ UNCHANGED <<pass, rewriting, todo, original>>
       \/ Close
    /\ UNCHANGED <<unused, erased, renamed, newPhis, wrapVars, menu>>

Init ==
    /\ menu \in {"integers", "allocations"}
    /\ pass = "building"
    /\ \E shape \in {"line", "if", "loop"}, caller \in IF menu = "integers" THEN {Line(<<>>)} ELSE Callers :
           code = (f :> [Line(IF menu = "integers" THEN <<Ins("bitcast", <<B>>, "pointer")>> ELSE <<>>)
                             EXCEPT !.shape = shape]) @@ (g :> caller)
    /\ original = code
    /\ rewriting = <<>> /\ todo = <<>> /\ unused = {} /\ erased = {} /\ renamed = <<>> /\ newPhis = <<>>
    /\ WrapInit
    /\ menu = "integers" => loopsKnown

Rewrite == RewriteNext /\ UNCHANGED <<wrapVars, menu>>
Wrap == menu = "allocations" /\ WrapNext /\ UNCHANGED <<rewriteVars, menu>>

Next == Build \/ Rewrite \/ Wrap
Spec == Init /\ [][Next]_vars
=============================================================================
