-------------------------------- MODULE Cloner --------------------------------
(* Cloner::clone (lib/seadsa/Cloner.cc): copies a node, and what its links lead
   to, into another graph.  A Cloner x is

       into     the component whose graph receives the copies
       strip    the option StripAllocas
       oldest   which of the copies of a split node SmallDenseSet, ordered by
                address, returns first: the oldest or the youngest

   A copy for a single allocation site is not shared with other copies of the
   same node, unless a cycle or a later call asks for the whole node.  *)
EXTENDS GraphHeap, Sequences, SequencesExt

CONSTANTS
    GlobalVar,      \* global variables and functions, each its own allocation site
    StackSite,      \* allocation sites for which isStackAllocation holds
    NoPointers,     \* allocation sites for which isConstantNoPtr holds
    NoSite          \* the default of onlyAllocSite

SingleAllocSite == 0
NoAllocas == 1
Full == 2

Level(x, force, only) ==
    IF only # NoSite THEN SingleAllocSite
    ELSE IF x.strip /\ ~force THEN NoAllocas ELSE Full

CopySites(h, n, m, x, force, only) ==
    LET wanted == {s \in SitesOf(h, n) : /\ s \in StackSite /\ x.strip => force
                                         /\ only \in {NoSite, s}}
    IN  [h EXCEPT !.site = @ \cup {<<m, s>> : s \in wanted}]

CopiesOf(h, n) == {p \in h.copy : p[1] = n}
\* The clones of n for single sites, which are still to be unified.
PiecesOf(h, n) == {p[2] : p \in {q \in h.split : q[1] = n}}

\* The pieces of a node move into one, the one that is not first in the set; the
\* result is cached.
RECURSIVE MergePieces(_, _, _)
MergePieces(h, first, S) ==
    IF S = {} THEN <<h, first>>
    ELSE LET m == CHOOSE m \in S : \A k \in S : m[2] <= k[2]
         IN  MergePieces(Unify(h, <<m, 0>>, <<first, 0>>), m, S \ {m})

CloneOfPieces(h, n, x, force) ==
    LET S == PiecesOf(h, n)
        first == CHOOSE m \in S : \A k \in S : IF x.oldest THEN m[2] <= k[2]
                                               ELSE m[2] >= k[2]
        r == MergePieces(h, first, S \ {first})
        g == [r[1] EXCEPT !.split = {p \in @ : p[1] # n},
                          !.copy = @ \cup {<<n, r[2], Level(x, force, NoSite)>>}]
    IN  <<CopySites(g, n, r[2], x, force, NoSite), r[2]>>

\* mutant of CachedClone: a copy that exists is complete
CachedCloneAsIs(h, n, x, force, only) == <<h, (CHOOSE q \in CopiesOf(h, n) : TRUE)[2]>>

\* A copy that exists gets the sites it was not made for.
CachedClone(h, n, x, force, only) ==
    LET p == CHOOSE q \in CopiesOf(h, n) : TRUE
        level == Level(x, force, only)
        g == IF level > p[3] THEN CopySites(h, n, p[2], x, force, only) ELSE h
    IN  <<[g EXCEPT !.copy = (@ \ {p}) \cup {<<n, p[2], level>>}], p[2]>>

\* setLink on the node that clone created; links of a node that forwards are
\* never looked at again.
SetLink(h, m, f, c) ==
    IF m \in h.gone THEN h
    ELSE [h EXCEPT !.link = {l \in @ : l[1] # m \/ l[2] # f}
                            \cup {<<m, At(h, m, f)[2], At(h, c[1], c[2])>>}]

\* m is a new copy of n, without its links and its sites.
CopyNode(h, n, m) ==
    [WithNode(h, m, {}) EXCEPT
       !.folded = IF n \in @ THEN @ \cup {m} ELSE @,
       !.mark = @ \cup {<<m, p[2]>> : p \in {q \in @ : q[1] = n}}]

RECURSIVE Clone(_, _, _, _, _), CloneLinks(_, _, _, _, _)

CloneAfresh(h, n, x, force, only) ==
    LET m == Fresh(h, x.into)
        copied == [CopyNode(h, n, m) EXCEPT !.foreign = @ \cup {m}]
        sited == CopySites(copied, n, m, x, force, only)
        known == IF only = NoSite
                 THEN [sited EXCEPT !.copy = @ \cup {<<n, m, Level(x, force, only)>>}]
                 ELSE [sited EXCEPT !.split = @ \cup {<<n, m>>}]
    IN  IF only \in NoPointers THEN <<known, m>>
        ELSE LET g == CloneLinks(known, n, m, x, LinksOf(h, n))
             IN  <<g, IF m \in g.gone THEN (CHOOSE q \in CopiesOf(g, n) : TRUE)[2] ELSE m>>

Clone(h, n, x, force, only) ==
    IF n[1] = x.into THEN <<h, n>>
    ELSE IF only = NoSite /\ PiecesOf(h, n) # {} THEN CloneOfPieces(h, n, x, force)
    ELSE IF CopiesOf(h, n) # {} THEN CachedClone(h, n, x, force, only)
    ELSE CloneAfresh(h, n, x, force, only)

\* Links in the order of their fields.
CloneLinks(h, n, m, x, todo) ==
    IF todo = {} THEN h
    ELSE LET l == CHOOSE k \in todo : \A j \in todo : k[2] <= j[2]
             r == Clone(h, l[3][1], x, FALSE, NoSite)
         IN  CloneLinks(SetLink(r[1], m, l[2], <<r[2], l[3][2]>>), n, m, x, todo \ {l})
-----------------------------------------------------------------------------
(* cloneAndResolveArguments: cells are brought from one graph to the other, one
   after the other.  A transfer names the slot it comes from, the slots it is
   unified with, and the arguments of clone, and says whether the clone ceases to be
   memory that unknown code made. *)

Transfer(from, into, force, only) ==
    [from |-> from, into |-> into, force |-> force, only |-> only, known |-> FALSE]

SetExternalFalse(r) == <<[r[1] EXCEPT !.mark = @ \ {<<r[2], "external">>}], r[2]>>

WithSlot(h, s) == IF s[2] \in GlobalVar THEN WithGlobal(h, s) ELSE h

\* The second slot is unified with what became of the first.
AlsoSecond(h, t) ==
    IF Len(t.into) = 1 THEN h
    ELSE UnifySlot(WithSlot(h, t.into[2]), t.into[2], CellOf(h, t.into[1]))

\* mutant of Place: the cell becomes one of the beginning of its node
PlaceStart(r, k, t) ==
    AlsoSecond(UnifySlot(WithSlot(r[1], t.into[1]), t.into[1], <<r[2], 0>>), t)

\* The clone r has been made of a node; the cell at offset k of it is unified.
Place(r, k, t) ==
    AlsoSecond(UnifySlot(WithSlot(r[1], t.into[1]), t.into[1], <<r[2], k>>), t)

Bring(h, x, t) ==
    LET g == WithSlot(h, t.from)
        r == Clone(g, CellOf(g, t.from)[1], x, t.force, t.only)
    IN  Place(IF t.known THEN SetExternalFalse(r) ELSE r, CellOf(g, t.from)[2], t)

BringAll(h, x, transfers) == FoldLeft(LAMBDA a, t : Bring(a, x, t), h, transfers)
=============================================================================
