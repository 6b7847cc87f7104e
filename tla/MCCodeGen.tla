------------------------------ MODULE MCCodeGen -----------------------------
(* Programs of a few tokens with two function names.                       *)
EXTENDS CodeGen, TLC

Names == Permutations(Funcs)
=============================================================================
