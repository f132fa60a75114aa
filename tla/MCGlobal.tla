------------------------------- MODULE MCGlobal -------------------------------
(* GlobalAnalysis on a program in which main calls callee twice with two pointers,
   callee calls inner with one, and inner calls itself. *)
EXTENDS GlobalAnalysis

CONSTANTS main, callee, inner, x, y, z, o, pp, q, t, e, u, rr, s, f, callG, other, callH, again, A, B, onStack, v, w

Owner == [a \in Var |-> IF a \in {x, y, z, o} THEN main ELSE IF a \in {rr, s, f} THEN inner ELSE callee]
From == [cs \in CallSite |-> IF cs \in {callG, other} THEN main ELSE IF cs = callH THEN callee ELSE inner]
To == [cs \in CallSite |-> IF cs \in {callG, other} THEN callee ELSE inner]
Arguments == [cs \in CallSite |-> IF cs = callG THEN <<<<pp, x>>, <<q, y>>>>
                                  ELSE IF cs = other THEN <<<<pp, o>>>>
                                  ELSE IF cs = callH THEN <<<<rr, t>>>> ELSE <<<<rr, s>>>>]
\* the other call of callee passes a pointer that callG passes, too
Overlapping == [Arguments EXCEPT ![other] = <<<<pp, x>>, <<q, o>>>>]
\* callee returns the global v, in the cell e, if it has one; inner returns f.
Results == [cs \in CallSite |-> IF cs = callG THEN <<<<e, z>>>>
                                ELSE IF cs = callH THEN <<<<f, u>>>> ELSE <<>>]
ReturnsV == [cs \in CallSite |-> IF cs = callG THEN v ELSE NoSite]
CalleesFirst == <<again, callH, callG, other>>
CallersFirst == <<callG, other, callH, again>>

\* A graph: the cells of its slots, its links, its sites and its modified nodes,
\* with nodes by number.  inner got its first node back from unknown code.
Graph(c, cells, links, sites, mod) ==
    [cell |-> {<<<<c, a>>, <<<<c, cells[a][1]>>, cells[a][2]>>>> : a \in DOMAIN cells},
     link |-> {<<<<c, l[1]>>, l[2], <<<<c, l[3]>>, 0>>>> : l \in links},
     site |-> {<<<<c, k[1]>>, k[2]>> : k \in sites},
     mark |-> {<<<<c, n>>, "modified">> : n \in mod}
              \cup (IF c = inner THEN {<<<<c, 1>>, "external">>} ELSE {})]

Together(a, b, c) ==
    compress([node |-> Component \X (1 .. MaxNodes), gone |-> {},
              cell |-> a.cell \cup b.cell \cup c.cell,
              link |-> a.link \cup b.link \cup c.link,
              site |-> a.site \cup b.site \cup c.site,
              mark |-> a.mark \cup b.mark \cup c.mark,
              folded |-> {}, foreign |-> {}, copy |-> {}, split |-> {}])

Optional(l) == {{}, {l}}

\* x and y point to different objects, to one, or to two fields of one; o to
\* another.
Mains ==
    {Graph(main, (x :> <<1, 0>> @@ y :> b @@ o :> <<4, 0>>), l \cup {<<2, 0, 3>>},
           {<<1, A>>, <<2, onStack>>, <<3, B>>}, {1, 3}) :
       b \in {<<1, 0>>, <<1, 1>>, <<2, 0>>}, l \in {{}, {<<1, 0, 3>>}, {<<1, 0, 1>>}}}
\* callee follows its parameters; it passes pp, or what pp points to, on; q may be what inner
\* has returned.
Gs ==
    {Graph(callee, (pp :> <<1, 0>> @@ q :> <<2, 0>> @@ t :> <<k, 0>>) @@ c,
           l1 \cup l2 \cup l3, {}, {1, 2}) :
       k \in {1, 3}, c \in {<<>>, u :> <<2, 0>>}, l1 \in {{<<1, 0, 3>>}, {<<1, 0, 2>>}},
       l2 \in Optional(<<2, 0, 3>>), l3 \in Optional(<<1, 1, 4>>)}
\* inner walks along a list, calls itself on an element, returns it, or nothing of it.
Hs ==
    {Graph(inner, (rr :> <<1, 0>> @@ s :> <<k, 0>> @@ f :> <<k, 0>>), {<<1, 0, k>>}, {}, {1}) :
       k \in {1, 2}}
    \cup {Graph(inner, (rr :> <<1, 0>>), {}, {}, {1})}
Locals == {Together(a, b, c) : a \in Mains, b \in Gs, c \in Hs}

\* main and inner use the globals v and w, whose objects inner may have merged.
MainsWithGlobals ==
    {Graph(main, (x :> <<1, 0>> @@ y :> <<2, 0>> @@ v :> <<3, 0>> @@ o :> <<2, 0>>) @@ c, l \cup {<<3, 0, 1>>},
           {<<1, A>>, <<2, onStack>>, <<3, v>>, <<4, w>>}, {3, 4}) :
       c \in {<<>>, w :> <<4, 0>>}, l \in Optional(<<1, 0, 2>>)}
GsWithGlobals ==
    {Graph(callee, (pp :> <<1, 0>> @@ q :> <<2, 0>> @@ t :> <<k, 0>>) @@ c, l,
           {<<3, v>>}, {}) :
       k \in {1, 2}, c \in {<<>>, v :> <<3, 0>> @@ e :> <<3, 0>>},
       l \in {{<<1, 0, 2>>}, {<<1, 0, 3>>, <<2, 0, 4>>}}}
HsWithGlobals ==
    {Graph(inner, (rr :> <<j, 0>> @@ v :> <<2, 0>> @@ w :> <<k, 0>>), l, {<<2, v>>, <<k, w>>, <<4, A>>}, {1, 2}) :
       j \in {1, 2}, k \in {2, 3}, l \in {{<<2, 0, 1>>}, {<<2, 0, 2>>}, {<<2, 0, 4>>, <<3, 0, 4>>}}}
LocalsWithGlobals ==
    {Together(a, b, c) : a \in MainsWithGlobals, b \in GsWithGlobals, c \in HsWithGlobals}

AllLocals == Locals \cup LocalsWithGlobals
=============================================================================
