---------------------------- MODULE CallGraphSpec ----------------------------
(* What CompleteCallGraphAnalysis promises (include/seadsa/CompleteCallGraph.hh):
   it adds callees to indirect calls until all of them are known, and never one
   that no analysis of the program would justify.  *)
VARIABLES
    edges,      \* pairs of an indirect call and a callee
    must,       \* callees that some execution calls; fixed by the program
    may,        \* callees of the context-insensitive analysis; also fixed
    done

vars == <<edges, must, may, done>>

Init == edges \subseteq may /\ must \subseteq may /\ done = FALSE

\* A round of the analysis finds callees.
Add ==
    /\ ~done
    /\ edges' \in SUBSET may /\ edges \subseteq edges' /\ edges' # edges
    /\ UNCHANGED <<must, may, done>>

Finish ==
    /\ ~done /\ must \subseteq edges
    /\ done' = TRUE
    /\ UNCHANGED <<edges, must, may>>

Spec == Init /\ [][Add \/ Finish]_vars
=============================================================================
