--------------------------- MODULE ClosureReference ---------------------------
(* What the closure over call sites computes, with no worklist: nodes that call
   sites compare, directly or through others, share all their labels. *)
EXTENDS CallSiteClosure

Compared(m, n) == \E cs \in CallSite : <<m, n>> \in met[cs] \/ <<n, m>> \in met[cs]

\* the nodes connected with n
Group(n) ==
    LET upTo[i \in Nat] ==
            IF i = 0 THEN {n}
            ELSE LET known == upTo[i - 1]
                 IN  known \cup {k \in Node : \E m \in known : Compared(m, k)}
    IN  upTo[Cardinality(Node)]

\* A node ends with the sites of all the nodes connected with it, and keeps its
\* scalar if all of them have it: no execution, in whichever order the worklist
\* has them, adds or takes more, and none is missing (CallGraphClosure).
LabelsExact ==
    Done => \A n \in Node :
              LET before == {start[m] : m \in Group(n)}
              IN  label[n] = IF op = "AllocaSite" THEN UNION before
                             ELSE IF before = {start[n]} THEN start[n] ELSE NoScalar
=============================================================================
