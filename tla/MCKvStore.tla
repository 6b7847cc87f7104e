----------------------------- MODULE MCKvStore ------------------------------
(* Fresh memory that looks like entries of the store.                      *)
EXTENDS KvStore

MCGarbage == {[key |-> 2, value |-> 7]}

=============================================================================
