----------------------------- MODULE MCCallGraph -----------------------------
(* CallGraphReference on a program in which main calls f twice, f calls the
   pointer it gets, or one of its own, and the callee a calls a pointer, too, and
   f again.  main calls what f has returned. *)
EXTENDS CallGraphReference

CONSTANTS main, f, a, b, d1, d2, d3, i1, i2, i3, xx, y, m1, m2, pf, z, w, rf, pa, u, v, ra, na, pb, rb, rm

CallerOf == [c \in {d1, d2, d3, i1, i2, i3} |->
               IF c \in {d1, d2, i3} THEN main ELSE IF c = i1 THEN f ELSE a]
\* f and a pass their parameters on, or other variables.
ActualsOf == [c \in {d1, d2, d3, i1, i2, i3} |->
                CASE c = d1 -> <<xx>> [] c = d2 -> <<y>> [] c = i1 -> <<pf>>
                  [] c = i3 -> <<xx>> [] OTHER -> <<pa>>]
OtherActuals == [ActualsOf EXCEPT ![i1] = <<z>>, ![i2] = <<v>>, ![d3] = <<u>>]
ResultOf == [c \in {d1, d2, d3, i1, i2, i3} |->
               CASE c = d1 -> m1 [] c = d2 -> m2 [] c = i1 -> w [] c = d3 -> na [] OTHER -> rm]
FormalsOf == [g \in {main, f, a, b} |-> CASE g = f -> <<pf>> [] g = a -> <<pa>> [] g = b -> <<pb>> [] OTHER -> <<>>]
RetOf == [g \in {main, f, a, b} |-> CASE g = f -> rf [] g = a -> ra [] g = b -> rb [] OTHER -> rm]
OnlyB == [g \in {main, f, a, b} |-> IF g = b THEN a ELSE NoSite]
Names == <<a, b, f, main>>
\* a calls f through a cast
LLVMRecords == <<<<d1, f>>, <<d2, f>>, <<i3, External>>, <<i1, External>>, <<d3, External>>, <<i2, External>>>>
CastOf == [c \in {d1, d2, d3, i1, i2, i3} |-> IF c = d3 THEN f ELSE NoSite]
AnyCallee == {i1, i2, i3} \X {a, b}

\* A graph: the node of each slot, by number, and the sites of nodes.
Graph(c, nodes, sites, ext) ==
    [cell |-> {<<<<c, s>>, <<<<c, nodes[s]>>, 0>>>> : s \in DOMAIN nodes},
     site |-> {<<<<c, k[1]>>, k[2]>> : k \in sites},
     mark |-> {<<<<c, k>>, "external">> : k \in ext}]

Whole(G) ==
    compress([node |-> {main, f, a, b} \X (1 .. MaxNodes), gone |-> {},
              cell |-> UNION {g.cell : g \in G}, link |-> {}, folded |-> {}, foreign |-> {},
              site |-> UNION {g.site : g \in G}, mark |-> UNION {g.mark : g \in G},
              copy |-> {}, split |-> {}])

\* xx and y are a or b; main calls the result of its first call, or that of a call
\* of an external function.
Mains == {Graph(main, (xx :> 1 @@ y :> k @@ m1 :> 3 @@ m2 :> j @@ i3 :> 3), {<<1, s>>, <<k, t>>}, E) :
            k \in {1, 2}, j \in {3, 4}, s \in {a, b}, t \in {a, b}, E \in {{}, {3}}}
\* f calls its parameter or a pointer of its own, and returns the parameter or
\* another pointer; a does the same.
Fs == {Graph(f, (pf :> 1 @@ i1 :> k @@ rf :> m @@ w :> 4), {<<2, a>>, <<3, b>>}, {}) :
         k \in {1, 2}, m \in {1, 2, 3}}
As == {Graph(a, (pa :> 1 @@ i2 :> k @@ ra :> m), {<<2, b>>, <<3, a>>}, {}) :
         k \in {1, 2}, m \in {1, 2, 3}}
\* The pointers that f and a pass are variables of their own.
FsWithLocals == {Graph(f, (pf :> 1 @@ i1 :> 1 @@ z :> k @@ w :> 4 @@ rf :> m), {<<2, b>>}, {}) :
                   k \in {1, 2}, m \in {1, 4}}
AsWithLocals == {Graph(a, (pa :> 1 @@ i2 :> 1 @@ u :> k @@ v :> 1 @@ ra :> 1), {<<2, b>>}, {}) : k \in {1, 2}}
Bs == {Graph(b, (pb :> 1 @@ rb :> 2 @@ a :> 2), {<<2, a>>}, {})}
AllWithLocals == {Whole({p, q, r, s}) : p \in Mains, q \in FsWithLocals, r \in AsWithLocals, s \in Bs}
All == {Whole({p, q, r, s}) : p \in Mains, q \in Fs, r \in As, s \in Bs}
=============================================================================
