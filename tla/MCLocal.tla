------------------------------ MODULE MCLocal ------------------------------
(* DsaLocal on small functions. *)
EXTENDS AliasAnalysis, TLC

ValueSymmetry == Permutations(Value)

NoSet == {}
NegativeOffsets == {-1, 1}
ZeroOffset == {0}
ZeroAndOne == {0, 1}
AllOffsets == {-1, 0, 1}
Strides == {1, 2, 3}
TwoStrides == {2, 3}
Sizes == {2}
TwoSizes == {2, 3}

\* five instructions, of which no GEP goes backwards or none is a store
OnArrays == {"call", "gep", "touch", "same"}
FiveOnArrays == {(OnArrays \cup {"store"}) :> 5, (OnArrays \cup {"gep back"}) :> 5}

\* four instructions, or sequences made of collapsed nodes and unified
AllKinds == {"alloca", "gep", "gep back", "touch", "same", "mk_seq", "collapse", "load"}
SequenceOfCollapsed ==
    [kinds \in {{"alloca"}, {"collapse"}, {"mk_seq"}, {"same"}} |->
        IF kinds \in {{"alloca"}, {"mk_seq"}} THEN 2 ELSE 1]
FourOrSequence == {AllKinds :> 4, SequenceOfCollapsed}
=============================================================================
