------------------------------ MODULE KvStore -------------------------------
(***************************************************************************)
(* The key-value store of nc_kvstore.c: an array of entries in ascending   *)
(* order of their keys, in memory the caller provides, searched by         *)
(* bisection.  The loop of kvs_bsearch is modelled one iteration per step; *)
(* the rest of a call, after the search, is one step.                      *)
(*                                                                         *)
(* A new store keeps whatever the memory held before.  Slots from count on *)
(* hold such garbage, or copies of entries that were moved or deleted.     *)
(***************************************************************************)
EXTENDS Integers, FiniteSets

CONSTANTS
  Keys, Values,   \* int32_t
  MaxElem,        \* the number of entries the memory has room for
  Garbage         \* what an entry of that memory may hold at first

Entry == [key : Keys, value : Values]

ASSUME KvAssumption ==
  /\ Keys \subseteq Int
  /\ Values \subseteq Int
  /\ MaxElem \in 1 .. 65535      \* uint16_t
  /\ Garbage \subseteq Entry

VARIABLES
  created,       \* the store pointer is not NULL
  entries, count, capacity, default_val,   \* kvs_store_t
  pc,            \* "idle", "search" (in kvs_bsearch), "act" (after it)
  call,          \* the call in progress: operation and arguments
  left, right,   \* the local variables of kvs_bsearch
  idx, found,    \* its results
  span,          \* 2 to the number of iterations of its loop; for LogSearch only
  ret            \* what the last call returned

store  == <<created, entries, count, capacity, default_val>>
locals == <<call, left, right, idx, found, span>>
vars   == <<store, locals, pc, ret>>

Slots  == 0 .. MaxElem - 1
Ops    == {"set", "get", "exists", "delete"}
Requests == [op : {"set"}, key : Keys, value : Values]
            \cup [op : Ops \ {"set"}, key : Keys, value : {0}]
NoCall == [op |-> "none", key |-> 0, value |-> 0]

Init ==
  /\ created = FALSE
  /\ entries \in [Slots -> Garbage]
  /\ count = 0 /\ capacity = 0
  /\ default_val \in Values
  /\ pc = "idle" /\ call = NoCall
  /\ left = 0 /\ right = 0 /\ idx = 0 /\ found = FALSE /\ span = 1
  /\ ret = 0

-----------------------------------------------------------------------------
(* kvs_create: NULL without elements, otherwise an empty store.            *)
Create(n, d) ==
  /\ pc = "idle"
  /\ created' = (n # 0)
  /\ count' = 0
  /\ capacity' = n
  /\ default_val' = IF n # 0 THEN d ELSE default_val
  /\ UNCHANGED <<entries, locals, pc, ret>>

(* A call with a NULL pointer returns at once.                             *)
NullCall(op) ==
  /\ pc = "idle"
  /\ ~created
  /\ ret' = IF op \in {"set", "delete"} THEN -1 ELSE 0
  /\ UNCHANGED <<store, locals, pc>>

(* kvs_count.                                                              *)
Count ==
  /\ pc = "idle"
  /\ ret' = IF created THEN count ELSE 0
  /\ UNCHANGED <<store, locals, pc>>

(* kvs_clear.                                                              *)
Clear ==
  /\ pc = "idle"
  /\ created
  /\ count' = 0
  /\ UNCHANGED <<created, entries, capacity, default_val, locals, pc, ret>>

-----------------------------------------------------------------------------
(* kvs_set, kvs_get, kvs_exists, kvs_delete enter kvs_bsearch.             *)
Enter(request) ==
  /\ pc = "idle"
  /\ created
  /\ call' = request
  /\ IF count = 0
     THEN pc' = "act" /\ UNCHANGED right
     ELSE pc' = "search" /\ right' = count
  /\ UNCHANGED <<store, left, idx, found, span, ret>>

(* Mutant: the search goes one by one.                                     *)
First == left

Mid == left + (right - left) \div 2

Compare ==
  /\ pc = "search"
  /\ left < right
  /\ span' = 2 * span
  /\ UNCHANGED <<store, call, ret>>

Hit ==
  /\ Compare
  /\ entries[Mid].key = call.key
  /\ idx' = Mid
  /\ found' = TRUE
  /\ pc' = "act"
  /\ UNCHANGED <<left, right>>

GoRight ==
  /\ Compare
  /\ entries[Mid].key < call.key
  /\ left' = Mid + 1
  /\ UNCHANGED <<right, idx, found, pc>>

(* Mutant: an entry is left out.                                           *)
GoLeftTooFar ==
  /\ Compare
  /\ entries[Mid].key > call.key
  /\ right' = IF Mid > left THEN Mid - 1 ELSE left
  /\ UNCHANGED <<left, idx, found, pc>>

GoLeft ==
  /\ Compare
  /\ entries[Mid].key > call.key
  /\ right' = Mid
  /\ UNCHANGED <<left, idx, found, pc>>

(* Mutant: the loop is not left when the window is empty.                  *)
MissedLate ==
  /\ pc = "search"
  /\ left > right
  /\ idx' = left
  /\ found' = FALSE
  /\ pc' = "act"
  /\ UNCHANGED <<store, call, left, right, span, ret>>

Missed ==
  /\ pc = "search"
  /\ left >= right
  /\ idx' = left
  /\ found' = FALSE
  /\ pc' = "act"
  /\ UNCHANGED <<store, call, left, right, span, ret>>

-----------------------------------------------------------------------------
(* The rest of a call, after kvs_bsearch.                                  *)
Return(op, r) ==
  /\ pc = "act"
  /\ call.op = op
  /\ ret' = r
  /\ pc' = "idle"
  /\ call' = NoCall
  /\ left' = 0 /\ right' = 0 /\ idx' = 0 /\ found' = FALSE /\ span' = 1

(* kvs_set: update, refuse, or insert at idx after moving the entries      *)
(* from idx on up by one.                                                  *)
SetUpdate ==
  /\ Return("set", 0)
  /\ found
  /\ entries' = [entries EXCEPT ![idx].value = call.value]
  /\ UNCHANGED <<created, count, capacity, default_val>>

SetFull ==
  /\ Return("set", -1)
  /\ ~found
  /\ count >= capacity
  /\ UNCHANGED store

(* Mutant: the entries are not moved.                                      *)
Overwritten ==
  [entries EXCEPT ![idx] = [key |-> call.key, value |-> call.value]]

Inserted ==
  [i \in Slots |-> IF i = idx THEN [key |-> call.key, value |-> call.value]
                   ELSE IF i \in idx + 1 .. count THEN entries[i - 1]
                   ELSE entries[i]]

SetInsert ==
  /\ Return("set", 0)
  /\ ~found
  /\ count < capacity
  /\ entries' = Inserted
  /\ count' = count + 1
  /\ UNCHANGED <<created, capacity, default_val>>

(* kvs_get and kvs_exists.                                                 *)
Get    == Return("get", IF found THEN entries[idx].value ELSE default_val)
          /\ UNCHANGED store
Exists == Return("exists", IF found THEN 1 ELSE 0) /\ UNCHANGED store

(* kvs_delete: the entries behind idx move down by one.                    *)
DeleteMissing == Return("delete", -1) /\ ~found /\ UNCHANGED store

(* Mutant: the entry itself stays.                                         *)
RemovedNext == [i \in Slots |-> IF i \in idx + 1 .. count - 2 THEN entries[i + 1]
                                ELSE entries[i]]

Removed == [i \in Slots |-> IF i \in idx .. count - 2 THEN entries[i + 1]
                            ELSE entries[i]]

(* Mutant: the result of the search is not looked at.                      *)
DeleteAnyway ==
  /\ Return("delete", 0)
  /\ entries' = Removed
  /\ count' = count - 1
  /\ UNCHANGED <<created, capacity, default_val>>

DeleteFound ==
  /\ Return("delete", 0)
  /\ found
  /\ entries' = Removed
  /\ count' = count - 1
  /\ UNCHANGED <<created, capacity, default_val>>

-----------------------------------------------------------------------------
Search == Hit \/ GoRight \/ GoLeft \/ Missed
Act    == SetUpdate \/ SetFull \/ SetInsert \/ Get \/ Exists
          \/ DeleteMissing \/ DeleteFound

Next ==
  \/ \E n \in 0 .. MaxElem, d \in Values : Create(n, d)
  \/ \E op \in Ops : NullCall(op)
  \/ Count
  \/ Clear
  \/ \E request \in Requests : Enter(request)
  \/ Search
  \/ Act

(* A call, once begun, is executed to its end.                             *)
Spec == Init /\ [][Next]_vars /\ WF_vars(Search \/ Act)

-----------------------------------------------------------------------------
(* Every variable has its type; positions fit uint16_t.                    *)
TypeOK ==
  /\ created \in BOOLEAN
  /\ entries \in [Slots -> Entry]
  /\ count \in 0 .. MaxElem /\ capacity \in 0 .. MaxElem
  /\ default_val \in Values
  /\ pc \in {"idle", "search", "act"}
  /\ call \in Requests \cup {NoCall}
  /\ left \in 0 .. MaxElem /\ right \in 0 .. MaxElem /\ idx \in 0 .. MaxElem
  /\ found \in BOOLEAN
  /\ span \in Nat \ {0}
  /\ ret \in Values \cup {-1} \cup 0 .. MaxElem

(* The entries in use are in strictly ascending order of their keys, and   *)
(* there are at most as many as the store was created for: what            *)
(* kvs_bsearch relies on, and every memmove has to restore.                *)
Sorted ==
  /\ count <= capacity
  /\ \A i, j \in 0 .. count - 1 : i < j => entries[i].key < entries[j].key

(* While kvs_bsearch looks for a key, every entry left of the window is    *)
(* smaller and every entry right of it is greater; its result is the       *)
(* position of the key, or the one position where it has to be inserted.   *)
Below(n) == \A i \in 0 .. n - 1 : entries[i].key < call.key
Above(n) == \A i \in n .. count - 1 : entries[i].key > call.key

Window ==
  /\ pc = "search" => left <= right /\ right <= count /\ Below(left) /\ Above(right)
  /\ pc = "act" => /\ idx <= count
                   /\ Below(idx)
                   /\ IF found
                      THEN idx < count /\ entries[idx].key = call.key
                      ELSE Above(idx)

(* nc_kvstore.c line 28, "max 7 comparisons for 100 entries": n iterations *)
(* are made only if there are at least 2^(n-1) entries.                    *)
LogSearch == span > 1 => span <= 2 * count

(* The store implements the mapping: an operation on the array, however    *)
(* many iterations its search takes, does what KvMap says it does.         *)
Used == {entries[i].key : i \in 0 .. count - 1}
SlotOf(k) == CHOOSE i \in 0 .. count - 1 : entries[i].key = k

Abs == INSTANCE KvMap WITH
         made <- created, cap <- capacity, dflt <- default_val,
         map <- [k \in Used |-> entries[SlotOf(k)].value]
Implements == Abs!Spec

(* Every call returns.                                                     *)
CallReturns == pc # "idle" ~> pc = "idle"

=============================================================================
