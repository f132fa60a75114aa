----------------------------- MODULE SeaMemorySSA -----------------------------
(* The objects that clients read the memory SSA form of a function from
   (lib/seadsa/SeaMemorySSA.cc): one for each pseudo-instruction and each phi of a
   shadow variable, made in one traversal of the blocks as they are laid out.

   A definition is named <<k, x>>: the k-th pseudo-instruction, or Phi, of
   variable x.  That name also stands for the object that is made for it.  *)
EXTENDS ShadowMem

NoAccess == <<None, None>>

-----------------------------------------------------------------------------
(* The function as ShadowMem leaves it *)

\* Phis of the region, those that PromoteMemToReg needs for some register; each
\* takes the tag of shadow memory from a definition that flows into it.
ShadowPhis(f) ==
    {code[f][k].var : k \in {j \in DOMAIN code[f] : Operand(code[f], region[f], j) = Phi}}

\* what flows into the phi of x from before the region, and from its end
IncomingValues(f, x) ==
    LET defs == {k \in DOMAIN code[f] : IsDef(code[f][k]) /\ code[f][k].var = x}
    IN  <<<<Max({k \in defs : code[f][k].at < region[f].from}), x>>,
          <<Max({k \in defs : code[f][k].at \in region[f].from .. region[f].to}), x>>>>

\* the definition that a pseudo-instruction uses: the others have that of an entry
UsedValue(f, k) ==
    IF arg[f][k] = None THEN NoAccess ELSE <<arg[f][k], code[f][k].var>>

\* Blocks in their order in the function, as the phis at their beginning and the
\* instructions they hold.  The block of a region may come after the return.
Layouts(f) ==
    LET r == region[f]
        phis == ShadowPhis(f)
        block(xs, from, to) == [phis |-> InOrder(xs), from |-> from, to |-> to]
        entry == block({}, 0, r.from - 1)
        inner == block({}, r.from, r.to)
        header == IF r.kind = "loop" THEN <<block(phis, r.from, r.from - 1)>> ELSE <<>>
        exit == block(IF r.kind = "if" THEN phis ELSE {}, r.to + 1, Len(body[f]) + 1)
    IN  IF r.kind = "none" THEN {<<block({}, 0, Len(body[f]) + 1)>>}
        ELSE {<<entry>> \o header \o <<inner, exit>>, <<entry>> \o header \o <<exit, inner>>}

\* The definitions and uses of a block, in order.
Contents(f, b) ==
    LET ops == SelectSeq([k \in DOMAIN code[f] |-> k],
                         LAMBDA k : code[f][k].at \in b.from .. b.to)
    IN  [j \in DOMAIN b.phis |-> <<Phi, b.phis[j]>>]
            \o [j \in DOMAIN ops |-> <<ops[j], code[f][ops[j]].var>>]

\* When the traversal of the blocks l meets what.
Traversal(f, l) ==
    LET met == FlattenSeq([j \in DOMAIN l |-> Contents(f, l[j])])
    IN  [v \in ToSet(met) |-> CHOOSE j \in DOMAIN met : met[j] = v]

-----------------------------------------------------------------------------
(* buildForFunction, which meets values at the times that step gives *)

\* defMap when the traversal is at w: v, if it has been met.
Lookup(step, v, w) == IF v \in DOMAIN step /\ step[v] < step[w] THEN v ELSE NoAccess

\* what the object of a use or a definition says that it uses
DefiningAccess(f, step, k) == Lookup(step, UsedValue(f, k), <<k, code[f][k].var>>)

\* mutant of PhiOperand: what was not met yet stays open
PhiOperandOpen(step, x, v) == Lookup(step, v, <<Phi, x>>)

\* A value that flows into a phi and has not been met is resolved at the end.
PhiOperand(step, x, v) ==
    LET found == Lookup(step, v, <<Phi, x>>)
    IN  IF found # NoAccess THEN found
        ELSE IF v \in DOMAIN step THEN v ELSE NoAccess

\* The instruction whose access it is: the first that follows which is no
\* pseudo-instruction.  Initial values and markers have none.
MemoryInst(f, v) ==
    IF v[1] = Phi \/ IsInit(code[f][v[1]]) \/ code[f][v[1]].op \in {"in", "out"} THEN None
    ELSE code[f][v[1]].at

\* The list of a block.  Initial values and markers go to lists of their own.
BlockAccesses(f, b) ==
    SelectSeq(Contents(f, b), LAMBDA v : v[1] = Phi \/ MemoryInst(f, v) # None)
LiveOnEntry(f, step) == {v \in DOMAIN step : v[1] # Phi /\ IsInit(code[f][v[1]])}
LiveOnExit(f, step) == {v \in DOMAIN step : v[1] # Phi /\ code[f][v[1]].op \in {"in", "out"}}

\* The accesses of an instruction, in the lists of the blocks: from the first one
\* that was made for it to the last in a row.
MemoryAccesses(f, lists, i) ==
    LET mine(list, j) == MemoryInst(f, list[j]) = i
        having == {b \in DOMAIN lists : \E j \in DOMAIN lists[b] : mine(lists[b], j)}
        list == lists[Min(having)]
        first == Min({j \in DOMAIN list : mine(list, j)})
        last == Max({j \in first .. Len(list) : \A h \in first .. j : mine(list, h)})
    IN  IF having = {} THEN <<>> ELSE SubSeq(list, first, last)

\* The phis of a block: from the first one in its list on.
PhiAccesses(list) ==
    LET others == {j \in DOMAIN list : list[j][1] # Phi}
    IN  SubSeq(list, 1, IF others = {} THEN Len(list) ELSE Min(others) - 1)

-----------------------------------------------------------------------------
(* Properties *)

\* Whatever the layout of its blocks, the objects of a function say what its
\* pseudo-instructions say: buildForFunction has met every definition before a use
\* of it (its assertions hold), phis know what flows into them from blocks that come
\* later, the accesses of an instruction are its pseudo-instructions, all of them
\* and in their order, and no object is out of reach of its clients.
AccessesMirrorShadow ==
    phase = "end" /\ fn \in Returns =>
      \A l \in Layouts(fn) :
        LET step == Traversal(fn, l)
            lists == [b \in DOMAIN l |-> BlockAccesses(fn, l[b])]
            accesses == [i \in DOMAIN body[fn] |-> MemoryAccesses(fn, lists, i)]
        IN  /\ \A k \in DOMAIN code[fn] : DefiningAccess(fn, step, k) = UsedValue(fn, k)
            /\ \A b \in DOMAIN l : \A x \in ToSet(l[b].phis) :
                 LET flows == IncomingValues(fn, x)
                 IN  \A e \in DOMAIN flows : PhiOperand(step, x, flows[e]) = flows[e]
            /\ \A i \in DOMAIN body[fn] :
                 \A h, j \in DOMAIN accesses[i] : h < j => accesses[i][h][1] < accesses[i][j][1]
            /\ \A i \in DOMAIN body[fn] :
                 {accesses[i][j][1] : j \in DOMAIN accesses[i]} = OpsAt(fn, i)
            /\ DOMAIN step = LiveOnEntry(fn, step) \cup LiveOnExit(fn, step)
                    \cup UNION {ToSet(accesses[i]) : i \in DOMAIN accesses}
                    \cup UNION {ToSet(PhiAccesses(lists[b])) : b \in DOMAIN lists}

=============================================================================
