------------------------------ MODULE MCVmHeap ------------------------------
(* A small heap for TLC: data that looks like a free block, and data that  *)
(* looks like the header of a chunk of two blocks.                         *)
EXTENDS VmHeap

MCDataCells == {[tag |-> 0, words |-> 1], [tag |-> 2, words |-> 0]}

=============================================================================
