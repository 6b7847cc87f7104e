------------------------------ MODULE HeapAbs -------------------------------
(***************************************************************************)
(* What the heap promises to the program: each variable owns a run of      *)
(* blocks of its own, or none.  A run is taken where no other variable has *)
(* blocks, stays where it is for as long as it is owned, and is given up   *)
(* as a whole.  Nothing is said of which free run is taken.                *)
(***************************************************************************)
EXTENDS Integers

CONSTANTS Vars, Blocks

VARIABLE own   \* the blocks of each variable

Init == own = [v \in Vars |-> {}]

Taken == UNION {own[v] : v \in Vars}

(* v gets the blocks first .. last, all of them free.                      *)
Take(v, first, last) ==
  /\ own[v] = {}
  /\ first <= last
  /\ first .. last \subseteq Blocks \ Taken
  /\ own' = [own EXCEPT ![v] = first .. last]

Drop(v) == own' = [own EXCEPT ![v] = {}]

DropAll == own' = [v \in Vars |-> {}]

Next ==
  \/ \E v \in Vars : Drop(v) \/ \E b, c \in Blocks : Take(v, b, c)
  \/ DropAll

Spec == Init /\ [][Next]_own

=============================================================================
