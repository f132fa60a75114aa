---------------------------- MODULE MCReference ----------------------------
(* PointsToReference on small functions. *)
EXTENDS PointsToReference, TLC

ValueSymmetry == Permutations(Value)
NoSet == {}
ConstantOffsets == {-1, 1}
Zero == {0}
Fields == {0, 1}
Sizes == {2}

AllKinds == {"alloca", "gep", "gep back", "load", "store", "same", "collapse", "node",
             "put", "get", "function", "touch", "returned", "link", "access", "copy",
             "copy none"}
FourInstructions == {AllKinds :> 4}
=============================================================================
