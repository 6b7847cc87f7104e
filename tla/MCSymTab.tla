------------------------------ MODULE MCSymTab ------------------------------
(* Names are interchangeable.                                              *)
EXTENDS SymTab, TLC

MCSymmetry == Permutations(Names)

=============================================================================
