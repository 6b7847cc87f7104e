---------------------------- MODULE MCVmStrings -----------------------------
(* Strings of one or two characters.                                       *)
EXTENDS VmStrings, TLC

MCLiterals == {<<"a">>}
MCMade     == {<<"a", "a">>}
Renamings  == Permutations(Vars) \cup Permutations(Chunks)
=============================================================================
