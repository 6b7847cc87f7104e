------------------------------- MODULE KvMap --------------------------------
(***************************************************************************)
(* What nc_kvstore.h promises: a store is a mapping from at most cap keys  *)
(* to values.  A call is a request, and one step that does all that is to  *)
(* be done and returns.  While there is no store (a NULL pointer), calls   *)
(* change nothing.                                                         *)
(***************************************************************************)
EXTENDS Integers, FiniteSets

CONSTANTS Keys, Values, MaxElem, Requests, NoCall

VARIABLES
  made,   \* there is a store
  map,    \* its contents
  cap,    \* the capacity it was created with
  dflt,   \* the value of a missing key
  call,   \* the request in progress
  ret     \* what the last call returned; -1: failed, TRUE and FALSE are 1 and 0

absvars == <<made, map, cap, dflt, call, ret>>

Empty == [k \in {} |-> 0]

Init ==
  /\ made = FALSE
  /\ map = Empty
  /\ cap = 0
  /\ dflt \in Values
  /\ call = NoCall
  /\ ret = 0

Idle == call = NoCall /\ call' = NoCall

Create(n, d) ==
  /\ Idle
  /\ made' = TRUE
  /\ map' = Empty
  /\ cap' = n
  /\ dflt' = d
  /\ UNCHANGED ret

(* kvs_create with no elements gives NULL.                                 *)
Refuse ==
  /\ Idle
  /\ made' = FALSE
  /\ map' = Empty
  /\ cap' = 0
  /\ UNCHANGED <<dflt, ret>>

Count ==
  /\ Idle
  /\ ret' = Cardinality(DOMAIN map)
  /\ UNCHANGED <<made, map, cap, dflt>>

Clear ==
  /\ Idle
  /\ map' = Empty
  /\ UNCHANGED <<made, cap, dflt, ret>>

(* kvs_set and kvs_delete of NULL fail, kvs_get and kvs_exists give 0.     *)
OnNull ==
  /\ Idle
  /\ ~made
  /\ ret' \in {-1, 0}
  /\ UNCHANGED <<made, map, cap, dflt>>

Begin(r) ==
  /\ call = NoCall
  /\ made
  /\ call' = r
  /\ UNCHANGED <<made, map, cap, dflt, ret>>

Has  == call.key \in DOMAIN map
Full == Cardinality(DOMAIN map) >= cap

Return(op, r) ==
  /\ call.op = op
  /\ call' = NoCall
  /\ ret' = r
  /\ UNCHANGED <<made, cap, dflt>>

Set ==
  /\ Has \/ ~Full
  /\ Return("set", 0)
  /\ map' = [k \in DOMAIN map \cup {call.key} |->
               IF k = call.key THEN call.value ELSE map[k]]

SetFull ==
  /\ ~Has /\ Full
  /\ Return("set", -1)
  /\ UNCHANGED map

Delete ==
  /\ Return("delete", IF Has THEN 0 ELSE -1)
  /\ map' = [k \in DOMAIN map \ {call.key} |-> map[k]]

Get ==
  /\ Return("get", IF Has THEN map[call.key] ELSE dflt)
  /\ UNCHANGED map

Exists ==
  /\ Return("exists", IF Has THEN 1 ELSE 0)
  /\ UNCHANGED map

Next ==
  \/ \E n \in 1 .. MaxElem, d \in Values : Create(n, d)
  \/ \E r \in Requests : Begin(r)
  \/ Refuse \/ Count \/ Clear \/ OnNull
  \/ Set \/ SetFull \/ Delete \/ Get \/ Exists

Spec == Init /\ [][Next]_absvars

=============================================================================
