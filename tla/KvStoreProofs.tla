--------------------------- MODULE KvStoreProofs ----------------------------
(***************************************************************************)
(* Proofs about KvStore: for all keys, values and capacities, and whatever *)
(* the memory held before, the entries stay in order, the bisection finds  *)
(* the position of a key in a logarithmic number of iterations, and the    *)
(* store implements the mapping of KvMap.                                  *)
(***************************************************************************)
EXTENDS KvStore, FiniteSetTheorems, TLAPS

-----------------------------------------------------------------------------
(* The inductive invariant.                                                *)

(* The locals of a call exist only while it runs, on a store.              *)
CallOK ==
  /\ pc = "idle" => /\ call = NoCall
                    /\ left = 0 /\ right = 0 /\ idx = 0
                    /\ found = FALSE
                    /\ span = 1
  /\ pc # "idle" => created /\ call \in Requests
  /\ ~created => count = 0

(* Each iteration at least halves the window.                              *)
Shrinks ==
  /\ pc = "search" => (right - left) * span <= count
  /\ LogSearch

IInv == TypeOK /\ Sorted /\ Window /\ CallOK /\ Shrinks

-----------------------------------------------------------------------------
LEMMA MaxElemType == MaxElem \in Int /\ 1 <= MaxElem /\ MaxElem <= 65535
<1>1. MaxElem \in 1 .. 65535
  BY KvAssumption
<1>. QED BY <1>1

LEMMA Ints ==
  ASSUME TypeOK
  PROVE  /\ count \in Int /\ 0 <= count /\ count <= MaxElem
         /\ capacity \in Int /\ 0 <= capacity /\ capacity <= MaxElem
         /\ left \in Int /\ 0 <= left /\ left <= MaxElem
         /\ right \in Int /\ 0 <= right /\ right <= MaxElem
         /\ idx \in Int /\ 0 <= idx /\ idx <= MaxElem
         /\ span \in Int /\ 1 <= span
<1>1. /\ count \in 0 .. MaxElem /\ capacity \in 0 .. MaxElem
      /\ left \in 0 .. MaxElem /\ right \in 0 .. MaxElem
      /\ idx \in 0 .. MaxElem /\ span \in Nat \ {0}
  BY DEF TypeOK
<1>. QED BY ONLY <1>1, MaxElemType

LEMMA EntryType ==
  ASSUME NEW e \in Entry
  PROVE  e.key \in Keys /\ e.key \in Int /\ e.value \in Values
<1>1. Keys \subseteq Int
  BY KvAssumption
<1>2. e.key \in Keys /\ e.value \in Values
  BY DEF Entry
<1>. QED BY ONLY <1>1, <1>2

LEMMA KeyType ==
  ASSUME TypeOK
  PROVE  \A i \in 0 .. MaxElem - 1 : entries[i] \in Entry /\ entries[i].key \in Int
<1>. TAKE i \in 0 .. MaxElem - 1
<1>1. entries[i] \in Entry
  BY DEF TypeOK, Slots
<1>. QED BY <1>1, EntryType

LEMMA RequestTypes ==
  /\ NoCall \notin Requests
  /\ \A r \in Requests : /\ r.op \in Ops /\ r.key \in Keys /\ r.key \in Int
                         /\ r.op = "set" => r.value \in Values
<1>1. Keys \subseteq Int
  BY KvAssumption
<1>. QED BY <1>1 DEF Requests, NoCall, Ops

THEOREM InitOK == Init => IInv
<1>. SUFFICES ASSUME Init PROVE IInv
  OBVIOUS
<1>1. TypeOK
  <2>1. entries \in [Slots -> Entry]
    BY KvAssumption DEF Init
  <2>2. 0 \in 0 .. MaxElem
    BY MaxElemType
  <2>3. /\ default_val \in Values /\ pc = "idle" /\ call = NoCall
        /\ created = FALSE /\ found = FALSE /\ span = 1
    BY DEF Init
  <2>4. /\ count = 0 /\ capacity = 0 /\ left = 0 /\ right = 0 /\ idx = 0 /\ ret = 0
    BY DEF Init
  <2>5. created \in BOOLEAN /\ found \in BOOLEAN
    BY <2>3
  <2>6. /\ count \in 0 .. MaxElem /\ capacity \in 0 .. MaxElem
        /\ left \in 0 .. MaxElem /\ right \in 0 .. MaxElem /\ idx \in 0 .. MaxElem
        /\ ret \in 0 .. MaxElem /\ span \in Nat \ {0}
    BY <2>2, <2>3, <2>4
  <2>7. /\ pc \in {"idle", "search", "act"} /\ call \in Requests \cup {NoCall}
        /\ ret \in Values \cup {-1} \cup 0 .. MaxElem
    BY <2>3, <2>6
  <2>. QED BY <2>1, <2>3, <2>5, <2>6, <2>7 DEF TypeOK
<1>2. Sorted /\ Window
  BY DEF Init, Sorted, Window
<1>3. CallOK /\ Shrinks
  BY DEF Init, CallOK, Shrinks, LogSearch
<1>. QED BY <1>1, <1>2, <1>3 DEF IInv

-----------------------------------------------------------------------------
(* Steps between two calls, and the start of one.                          *)

LEMMA BetweenCalls ==
  ASSUME IInv,
         \/ \E n \in 0 .. MaxElem, d \in Values : Create(n, d)
         \/ \E op \in Ops : NullCall(op)
         \/ Count
         \/ Clear
  PROVE  IInv'
<1>. USE DEF IInv
<1>0. pc = "idle" /\ pc' = "idle" /\ UNCHANGED <<entries, locals>>
  BY DEF Create, NullCall, Count, Clear, store
<1>1. TypeOK'
  <2>1. CASE \E n \in 0 .. MaxElem, d \in Values : Create(n, d)
    <3>1. /\ count' \in 0 .. MaxElem /\ capacity' \in 0 .. MaxElem
          /\ default_val' \in Values /\ created' \in BOOLEAN /\ ret' = ret
      BY <2>1, MaxElemType DEF Create, TypeOK
    <3>. QED BY <1>0, <3>1 DEF TypeOK, locals
  <2>2. CASE \E op \in Ops : NullCall(op)
    <3>1. ret' \in {-1, 0} /\ UNCHANGED store
      BY <2>2 DEF NullCall
    <3>2. 0 \in 0 .. MaxElem
      BY MaxElemType
    <3>. QED BY <1>0, <3>1, <3>2 DEF TypeOK, store, locals
  <2>3. CASE Count
    <3>1. ret' \in 0 .. MaxElem
      BY <2>3, Ints, MaxElemType DEF Count
    <3>. QED BY <1>0, <2>3, <3>1 DEF Count, TypeOK, store, locals
  <2>4. CASE Clear
    <3>1. 0 \in 0 .. MaxElem
      BY MaxElemType
    <3>. QED BY <1>0, <2>4, <3>1 DEF Clear, TypeOK, locals
  <2>. QED BY <2>1, <2>2, <2>3, <2>4
<1>2. \/ count' = 0 /\ capacity' \in Nat
      \/ UNCHANGED <<created, count, capacity>>
  BY Ints DEF Create, NullCall, Count, Clear, store
<1>3. Sorted'
  BY <1>0, <1>2 DEF Sorted
<1>4. Window' /\ Shrinks'
  BY <1>0 DEF Window, CallOK, Shrinks, LogSearch, locals
<1>5. CallOK'
  BY <1>0, <1>2 DEF CallOK, locals
<1>. QED BY <1>1, <1>3, <1>4, <1>5

LEMMA EnterStep ==
  ASSUME IInv, NEW request \in Requests, Enter(request)
  PROVE  IInv'
<1>. USE DEF IInv
<1>0. /\ pc = "idle" /\ created /\ call' = request
      /\ UNCHANGED <<store, left, idx, found, span, ret>>
      /\ left = 0 /\ idx = 0 /\ found = FALSE /\ span = 1 /\ right = 0
      /\ \/ count = 0 /\ pc' = "act" /\ right' = 0
         \/ count # 0 /\ pc' = "search" /\ right' = count
  BY DEF Enter, CallOK
<1>1. TypeOK'
  BY <1>0 DEF TypeOK, store
<1>2. Sorted'
  BY <1>0 DEF Sorted, store
<1>3. Window'
  <2>1. UNCHANGED <<entries, count>>
    BY <1>0 DEF store
  <2>2. count \in Int /\ 0 <= count
    BY Ints
  <2>3. CASE count = 0
    BY <1>0, <2>1, <2>2, <2>3 DEF Window, Below, Above
  <2>4. CASE count # 0
    BY <1>0, <2>1, <2>2, <2>4 DEF Window, Below, Above
  <2>. QED BY <2>3, <2>4
<1>4. CallOK'
  BY <1>0 DEF CallOK, store
<1>5. Shrinks'
  <2>1. count \in Int /\ count' = count
    BY <1>0, Ints DEF store
  <2>2. (count - 0) * 1 <= count
    BY <2>1
  <2>. QED BY <1>0, <2>1, <2>2 DEF Shrinks, LogSearch
<1>. QED BY <1>1, <1>2, <1>3, <1>4, <1>5

-----------------------------------------------------------------------------
(* An iteration of the search.                                             *)

(* The middle of a window that is not empty lies in it, and no half is     *)
(* longer than half of it.                                                 *)
LEMMA MidInWindow ==
  ASSUME TypeOK, left < right
  PROVE  /\ Mid \in Int /\ left <= Mid /\ Mid < right
         /\ 2 * (Mid - left) <= right - left
         /\ 2 * (right - (Mid + 1)) <= right - left
BY Ints DEF Mid

LEMMA Halving ==
  ASSUME NEW w \in Int, NEW h \in Int, NEW s \in Int, NEW n \in Int,
         1 <= s, 2 * h <= w, w * s <= n
  PROVE  h * (2 * s) <= n
<1>1. h * (2 * s) = (2 * h) * s
  OBVIOUS
<1>2. (2 * h) * s <= w * s
  <2>. DEFINE d == w - 2 * h
  <2>1. d \in Int /\ 0 <= d /\ w = 2 * h + d
    OBVIOUS
  <2>2. w * s = (2 * h) * s + d * s
    BY <2>1
  <2>3. 0 <= d * s
    BY <2>1
  <2>. QED BY <2>2, <2>3
<1>3. h * (2 * s) \in Int /\ (2 * h) * s \in Int /\ w * s \in Int
  OBVIOUS
<1>. QED BY <1>1, <1>2, <1>3

LEMMA SearchStep ==
  ASSUME IInv, Search
  PROVE  IInv'
<1>. USE DEF IInv
<1>0. /\ pc = "search" /\ UNCHANGED <<store, call, ret>>
      /\ created /\ call \in Requests
      /\ left <= right /\ right <= count /\ Below(left) /\ Above(right)
      /\ count <= MaxElem /\ 0 <= left
  BY DEF Search, Hit, GoRight, GoLeft, Missed, Compare, CallOK, Window, TypeOK
<1>1. Sorted'
  BY <1>0 DEF Sorted, store
<1>2. CASE Missed
  <2>1. /\ left = right /\ idx' = left /\ found' = FALSE /\ pc' = "act"
        /\ UNCHANGED <<left, right, span>>
    BY <1>0, <1>2, Ints DEF Missed
  <2>2. TypeOK'
    BY <1>0, <2>1 DEF TypeOK, store
  <2>3. Window'
    BY <1>0, <2>1 DEF Window, Below, Above, store
  <2>4. CallOK' /\ Shrinks'
    BY <1>0, <2>1 DEF CallOK, Shrinks, LogSearch, store
  <2>. QED BY <1>1, <2>2, <2>3, <2>4
<1>3. CASE Hit \/ GoRight \/ GoLeft
  <2>1. /\ left < right /\ span' = 2 * span
        /\ Mid \in Int /\ left <= Mid /\ Mid < right
        /\ 2 * (Mid - left) <= right - left
        /\ 2 * (right - (Mid + 1)) <= right - left
    BY <1>3, MidInWindow DEF Hit, GoRight, GoLeft, Compare
  <2>2. /\ count \in Int /\ left \in Int /\ right \in Int /\ span \in Int
        /\ 1 <= span /\ MaxElem \in Int
        /\ \A i \in 0 .. count - 1 : entries[i].key \in Int
    <3>1. count \in Int /\ count <= MaxElem
      BY Ints
    <3>. QED BY <1>0, <3>1, Ints, KeyType, MaxElemType
  <2>3. LogSearch'
    <3>1. (right - left) * span <= count
      BY <1>0 DEF Shrinks
    <3>2. 1 <= right - left
      BY <2>1, <2>2
    <3>3. span <= (right - left) * span
      BY <2>2, <3>2
    <3>4. span <= count
      BY <2>2, <3>1, <3>3
    <3>. QED BY <1>0, <2>1, <2>2, <3>4 DEF LogSearch, store
  <2>4. TypeOK'
    <3>1. /\ left' \in 0 .. MaxElem /\ right' \in 0 .. MaxElem
          /\ idx' \in 0 .. MaxElem /\ found' \in BOOLEAN
          /\ span' \in Nat \ {0} /\ pc' \in {"search", "act"}
      <4>1. Mid \in 0 .. MaxElem /\ Mid + 1 \in 0 .. MaxElem
        BY ONLY <1>0, <2>1, <2>2
      <4>2. 2 * span \in Nat \ {0}
        BY ONLY <2>2
      <4>. QED BY <1>0, <1>3, <2>1, <4>1, <4>2 DEF Hit, GoRight, GoLeft, TypeOK
    <3>. QED BY <1>0, <3>1 DEF TypeOK, store
  <2>5. CallOK'
    <3>1. pc' \in {"search", "act"}
      BY <1>0, <1>3 DEF Hit, GoRight, GoLeft
    <3>. QED BY <1>0, <3>1 DEF CallOK, store
  <2>6. CASE Hit
    <3>1. /\ entries[Mid].key = call.key /\ idx' = Mid /\ found' = TRUE
          /\ pc' = "act" /\ UNCHANGED <<left, right>>
      BY <2>6 DEF Hit
    <3>2. \A i \in 0 .. Mid - 1 : entries[i].key < call.key
      BY <1>0, <2>1, <2>2, <3>1 DEF Sorted
    <3>3. Window'
      BY <1>0, <2>1, <2>2, <3>1, <3>2 DEF Window, Below, store
    <3>. QED BY <1>1, <2>3, <2>4, <2>5, <3>1, <3>3 DEF Shrinks
  <2>7. CASE GoRight
    <3>1. /\ entries[Mid].key < call.key /\ left' = Mid + 1
          /\ UNCHANGED <<right, idx, found, pc>>
      BY <2>7 DEF GoRight
    <3>2. call.key \in Int
      BY <1>0, RequestTypes
    <3>3. ASSUME NEW i \in 0 .. Mid PROVE entries[i].key < call.key
      <4>1. Mid \in 0 .. count - 1 /\ i \in 0 .. count - 1
        BY ONLY <1>0, <2>1, <2>2
      <4>2. i < Mid => entries[i].key < entries[Mid].key
        BY <4>1 DEF Sorted
      <4>3. entries[i].key \in Int /\ entries[Mid].key \in Int
        BY <2>2, <4>1
      <4>4. i = Mid \/ i < Mid
        BY <2>1
      <4>. QED BY <3>1, <3>2, <4>2, <4>3, <4>4
    <3>4. Window'
      BY <1>0, <2>1, <2>2, <3>1, <3>3 DEF Window, Below, Above, store
    <3>5. (right - (Mid + 1)) * (2 * span) <= count
      <4>1. (right - left) * span <= count
        BY <1>0 DEF Shrinks
      <4>2. right - left \in Int /\ (right - (Mid + 1)) \in Int
        BY <2>1, <2>2
      <4>. QED BY ONLY <2>1, <2>2, <4>1, <4>2, Halving
    <3>. QED BY <1>0, <1>1, <2>1, <2>3, <2>4, <2>5, <3>1, <3>4, <3>5 DEF Shrinks, store
  <2>8. CASE GoLeft
    <3>1. /\ entries[Mid].key > call.key /\ right' = Mid
          /\ UNCHANGED <<left, idx, found, pc>>
      BY <2>8 DEF GoLeft
    <3>2. call.key \in Int
      BY <1>0, RequestTypes
    <3>3. ASSUME NEW i \in Mid .. count - 1 PROVE entries[i].key > call.key
      <4>1. Mid \in 0 .. count - 1 /\ i \in 0 .. count - 1
        BY ONLY <1>0, <2>1, <2>2
      <4>2. Mid < i => entries[Mid].key < entries[i].key
        BY <4>1 DEF Sorted
      <4>3. entries[i].key \in Int /\ entries[Mid].key \in Int
        BY <2>2, <4>1
      <4>4. i = Mid \/ Mid < i
        BY <2>1
      <4>. QED BY <3>1, <3>2, <4>2, <4>3, <4>4
    <3>4. Window'
      BY <1>0, <2>1, <2>2, <3>1, <3>3 DEF Window, Below, Above, store
    <3>5. (Mid - left) * (2 * span) <= count
      <4>1. (right - left) * span <= count
        BY <1>0 DEF Shrinks
      <4>2. right - left \in Int /\ (Mid - left) \in Int
        BY <2>1, <2>2
      <4>. QED BY ONLY <2>1, <2>2, <4>1, <4>2, Halving
    <3>. QED BY <1>0, <1>1, <2>1, <2>3, <2>4, <2>5, <3>1, <3>4, <3>5 DEF Shrinks, store
  <2>. QED BY <1>3, <2>6, <2>7, <2>8
<1>. QED BY <1>2, <1>3 DEF Search

-----------------------------------------------------------------------------
(* The step that ends a call.                                              *)

LEMMA ReturnStep ==
  ASSUME IInv, Act
  PROVE  /\ pc = "act" /\ created /\ created' = created /\ call \in Requests
         /\ UNCHANGED <<capacity, default_val>>
         /\ Window' /\ CallOK' /\ Shrinks'
<1>1. pc = "act" /\ created /\ call \in Requests
  BY DEF IInv, CallOK, Act, Return, SetUpdate, SetFull, SetInsert, Get, Exists,
         DeleteMissing, DeleteFound
<1>2. UNCHANGED <<created, capacity, default_val>>
  BY DEF Act, SetUpdate, SetFull, SetInsert, Get, Exists, DeleteMissing, DeleteFound, store
<1>3. \E op, r : Return(op, r)
  BY DEF Act, SetUpdate, SetFull, SetInsert, Get, Exists, DeleteMissing, DeleteFound
<1>4. /\ pc' = "idle" /\ call' = NoCall /\ left' = 0 /\ right' = 0 /\ idx' = 0
      /\ found' = FALSE /\ span' = 1
  BY <1>3 DEF Return
<1>5. Window' /\ CallOK' /\ Shrinks'
  BY <1>1, <1>2, <1>4 DEF Window, CallOK, Shrinks, LogSearch
<1>. QED BY <1>1, <1>2, <1>5

(* Where a new key goes: the array after the insertion.                    *)
LEMMA InsertedArray ==
  ASSUME IInv, pc = "act", ~found, count < capacity, call \in Requests, call.op = "set"
  PROVE  /\ Inserted \in [Slots -> Entry]
         /\ count + 1 \in 0 .. MaxElem
         /\ idx \in 0 .. count
         /\ \A i \in 0 .. idx - 1 : Inserted[i] = entries[i] /\ entries[i].key < call.key
         /\ Inserted[idx] = [key |-> call.key, value |-> call.value]
         /\ \A i \in idx + 1 .. count :
               Inserted[i] = entries[i - 1] /\ entries[i - 1].key > call.key
<1>. USE DEF IInv
<1>1. /\ count \in Int /\ count + 1 <= MaxElem /\ 0 <= idx /\ idx <= count
      /\ idx \in Int /\ MaxElem \in Int /\ 0 <= count
  BY Ints, MaxElemType DEF Window
<1>2. Below(idx) /\ Above(idx)
  BY DEF Window
<1>3. [key |-> call.key, value |-> call.value] \in Entry
  BY RequestTypes DEF Entry
<1>4. \A i \in Slots : entries[i] \in Entry
  BY DEF TypeOK
<1>5. ASSUME NEW i \in Slots, i \in idx + 1 .. count PROVE i - 1 \in Slots
  BY <1>1, <1>5 DEF Slots
<1>6. Inserted \in [Slots -> Entry]
  BY <1>3, <1>4, <1>5 DEF Inserted
<1>7. \A i \in 0 .. count : i \in Slots
  BY <1>1 DEF Slots
<1>8. ASSUME NEW i \in 0 .. idx - 1
      PROVE  Inserted[i] = entries[i] /\ entries[i].key < call.key
  <2>1. i \in Slots /\ i # idx /\ i \notin idx + 1 .. count
    BY <1>1, <1>7
  <2>. QED BY <1>2, <2>1 DEF Inserted, Below
<1>9. Inserted[idx] = [key |-> call.key, value |-> call.value]
  BY <1>1, <1>7 DEF Inserted
<1>10. ASSUME NEW i \in idx + 1 .. count
       PROVE  Inserted[i] = entries[i - 1] /\ entries[i - 1].key > call.key
  <2>1. i \in Slots /\ i # idx /\ i - 1 \in idx .. count - 1
    BY <1>1, <1>7
  <2>. QED BY <1>2, <2>1 DEF Inserted, Above
<1>. QED BY <1>1, <1>6, <1>8, <1>9, <1>10

LEMMA RemovedArray ==
  ASSUME IInv, pc = "act", found
  PROVE  /\ Removed \in [Slots -> Entry]
         /\ count - 1 \in 0 .. MaxElem
         /\ idx \in 0 .. count - 1
         /\ entries[idx].key = call.key
         /\ \A i \in 0 .. idx - 1 : Removed[i] = entries[i]
         /\ \A i \in idx .. count - 2 : Removed[i] = entries[i + 1]
<1>. USE DEF IInv
<1>1. /\ count \in Int /\ count <= MaxElem /\ 0 <= idx /\ idx < count
      /\ idx \in Int /\ MaxElem \in Int
      /\ entries[idx].key = call.key
  BY Ints, MaxElemType DEF Window
<1>2. \A i \in Slots : entries[i] \in Entry
  BY DEF TypeOK
<1>3. ASSUME NEW i \in Slots, i \in idx .. count - 2 PROVE i + 1 \in Slots
  BY <1>1, <1>3 DEF Slots
<1>4. Removed \in [Slots -> Entry]
  BY <1>2, <1>3 DEF Removed
<1>5. \A i \in 0 .. count - 1 : i \in Slots
  BY <1>1 DEF Slots
<1>6. ASSUME NEW i \in 0 .. idx - 1 PROVE Removed[i] = entries[i]
  <2>1. i \in Slots /\ i \notin idx .. count - 2
    BY <1>1, <1>5
  <2>. QED BY <2>1 DEF Removed
<1>7. ASSUME NEW i \in idx .. count - 2 PROVE Removed[i] = entries[i + 1]
  <2>1. i \in Slots
    BY <1>1, <1>5
  <2>. QED BY <2>1 DEF Removed
<1>. QED BY <1>1, <1>4, <1>6, <1>7

LEMMA SetUpdateStep ==
  ASSUME IInv, SetUpdate
  PROVE  /\ entries' \in [Slots -> Entry]
         /\ \A i \in 0 .. MaxElem - 1 : entries'[i].key = entries[i].key
         /\ idx \in 0 .. count - 1 /\ idx \in 0 .. MaxElem - 1
         /\ entries[idx].key = call.key
         /\ entries'[idx].value = call.value
         /\ \A i \in 0 .. MaxElem - 1 : i # idx => entries'[i].value = entries[i].value
<1>. USE DEF IInv
<1>1. /\ idx \in Int /\ 0 <= idx /\ idx < count /\ count <= MaxElem /\ count \in Int
      /\ MaxElem \in Int /\ entries[idx].key = call.key
  BY Ints, MaxElemType DEF SetUpdate, Return, Window
<1>2. idx \in Slots /\ idx \in 0 .. count - 1
  BY <1>1 DEF Slots
<1>3. call.value \in Values
  BY RequestTypes DEF SetUpdate, Return, CallOK
<1>4. entries \in [Slots -> Entry] /\ entries' = [entries EXCEPT ![idx].value = call.value]
  BY DEF TypeOK, SetUpdate
<1>5. ASSUME NEW i \in Slots
      PROVE  /\ entries'[i] \in Entry
             /\ entries'[i].key = entries[i].key
             /\ i # idx => entries'[i].value = entries[i].value
             /\ i = idx => entries'[i].value = call.value
  <2>1. entries[i] \in Entry
    BY <1>4
  <2>2. entries'[i] = IF i = idx THEN [entries[i] EXCEPT !.value = call.value] ELSE entries[i]
    BY <1>2, <1>4
  <2>. QED BY <1>3, <2>1, <2>2 DEF Entry
<1>6. entries' \in [Slots -> Entry]
  BY <1>4, <1>5
<1>. QED BY <1>1, <1>2, <1>5, <1>6 DEF Slots

LEMMA ActStep ==
  ASSUME IInv, Act
  PROVE  IInv'
<1>. USE DEF IInv
<1>0. /\ pc = "act" /\ created /\ created' = created /\ call \in Requests
      /\ UNCHANGED <<capacity, default_val>>
      /\ Window' /\ CallOK' /\ Shrinks'
  BY ReturnStep
<1>1. /\ count \in Int /\ capacity \in Int /\ capacity <= MaxElem /\ MaxElem \in Int
      /\ count <= capacity /\ 0 <= count
  BY Ints, MaxElemType DEF Sorted
<1>2. \A i \in 0 .. count - 1 : entries[i].key \in Int
  BY <1>1, KeyType
<1>3. call.key \in Int
  BY <1>0, RequestTypes
<1>4. /\ entries' \in [Slots -> Entry]
      /\ count' \in 0 .. MaxElem
      /\ ret' \in Values \cup {-1} \cup 0 .. MaxElem
      /\ Sorted'
  <2>0. 0 \in 0 .. MaxElem /\ 1 \in 0 .. MaxElem
    BY MaxElemType
  <2>1. CASE SetUpdate
    <3>1. count' = count /\ ret' = 0
      BY <2>1 DEF SetUpdate, Return
    <3>2. Sorted'
      BY <1>0, <1>1, <2>1, <3>1, SetUpdateStep DEF Sorted
    <3>. QED BY <2>0, <2>1, <3>1, <3>2, SetUpdateStep DEF TypeOK
  <2>2. CASE SetFull
    <3>1. UNCHANGED <<entries, count, capacity>> /\ ret' = -1
      BY <2>2 DEF SetFull, Return, store
    <3>. QED BY <3>1 DEF TypeOK, Sorted
  <2>3. CASE SetInsert
    <3>1. /\ ~found /\ count < capacity /\ call.op = "set" /\ ret' = 0
          /\ entries' = Inserted /\ count' = count + 1
      BY <2>3 DEF SetInsert, Return
    <3>2. /\ entries' \in [Slots -> Entry]
          /\ count' \in 0 .. MaxElem
          /\ idx \in 0 .. count
          /\ \A i \in 0 .. idx - 1 : entries'[i] = entries[i] /\ entries[i].key < call.key
          /\ entries'[idx] = [key |-> call.key, value |-> call.value]
          /\ \A i \in idx + 1 .. count :
                entries'[i] = entries[i - 1] /\ entries[i - 1].key > call.key
      BY <1>0, <3>1, InsertedArray
    <3>3. ASSUME NEW i \in 0 .. count, NEW j \in 0 .. count, i < j
          PROVE  entries'[i].key < entries'[j].key
      <4>1. CASE j < idx
        <5>1. i \in 0 .. idx - 1 /\ j \in 0 .. idx - 1 /\ i \in 0 .. count - 1 /\ j \in 0 .. count - 1
          BY ONLY <1>1, <3>2, <3>3, <4>1
        <5>. QED BY <3>2, <3>3, <5>1 DEF Sorted
      <4>2. CASE j = idx
        <5>1. i \in 0 .. idx - 1
          BY ONLY <1>1, <3>2, <3>3, <4>2
        <5>. QED BY <3>2, <4>2, <5>1
      <4>3. CASE j > idx /\ i < idx
        <5>1. /\ i \in 0 .. idx - 1 /\ j \in idx + 1 .. count
              /\ i \in 0 .. count - 1 /\ j - 1 \in 0 .. count - 1
          BY ONLY <1>1, <3>2, <3>3, <4>3
        <5>2. entries[i].key \in Int /\ entries[j - 1].key \in Int
          BY <1>2, <5>1
        <5>. QED BY <1>3, <3>2, <5>1, <5>2
      <4>4. CASE j > idx /\ i = idx
        <5>1. j \in idx + 1 .. count /\ j - 1 \in 0 .. count - 1
          BY ONLY <1>1, <3>2, <3>3, <4>4
        <5>2. entries[j - 1].key \in Int
          BY <1>2, <5>1
        <5>. QED BY <1>3, <3>2, <4>4, <5>1, <5>2
      <4>5. CASE j > idx /\ i > idx
        <5>1. /\ i \in idx + 1 .. count /\ j \in idx + 1 .. count
              /\ i - 1 \in 0 .. count - 1 /\ j - 1 \in 0 .. count - 1 /\ i - 1 < j - 1
          BY ONLY <1>1, <3>2, <3>3, <4>5
        <5>. QED BY <3>2, <5>1 DEF Sorted
      <4>. QED BY ONLY <3>2, <3>3, <4>1, <4>2, <4>3, <4>4, <4>5
    <3>4. Sorted'
      <4>1. count' - 1 = count /\ count' <= capacity'
        BY <1>0, <1>1, <3>1
      <4>. QED BY <3>3, <4>1 DEF Sorted
    <3>. QED BY <2>0, <3>1, <3>2, <3>4
  <2>4. CASE Get
    <3>1. UNCHANGED <<entries, count, capacity>>
      BY <2>4 DEF Get, store
    <3>2. ret' \in Values
      <4>1. ret' = IF found THEN entries[idx].value ELSE default_val
        BY <2>4 DEF Get, Return
      <4>2. CASE found
        <5>1. idx \in Int /\ 0 <= idx /\ idx < count
          BY <1>0, <4>2, Ints DEF Window
        <5>2. idx \in Slots
          BY <1>1, <5>1 DEF Slots
        <5>3. entries[idx] \in Entry
          BY <5>2 DEF TypeOK
        <5>. QED BY <4>1, <4>2, <5>3, EntryType
      <4>3. CASE ~found
        BY <4>1, <4>3 DEF TypeOK
      <4>. QED BY <4>2, <4>3
    <3>. QED BY <3>1, <3>2 DEF TypeOK, Sorted
  <2>5. CASE Exists \/ DeleteMissing
    <3>1. UNCHANGED <<entries, count, capacity>> /\ ret' \in {-1, 0, 1}
      BY <2>5 DEF Exists, DeleteMissing, Return, store
    <3>. QED BY <2>0, <3>1 DEF TypeOK, Sorted
  <2>6. CASE DeleteFound
    <3>1. found /\ ret' = 0 /\ entries' = Removed /\ count' = count - 1
      BY <2>6 DEF DeleteFound, Return
    <3>2. /\ entries' \in [Slots -> Entry]
          /\ count' \in 0 .. MaxElem
          /\ idx \in 0 .. count - 1
          /\ \A i \in 0 .. idx - 1 : entries'[i] = entries[i]
          /\ \A i \in idx .. count - 2 : entries'[i] = entries[i + 1]
      BY <1>0, <3>1, RemovedArray
    <3>3. ASSUME NEW i \in 0 .. count - 2, NEW j \in 0 .. count - 2, i < j
          PROVE  entries'[i].key < entries'[j].key
      <4>. DEFINE at(n) == IF n < idx THEN n ELSE n + 1
      <4>1. \A n \in 0 .. count - 2 : at(n) \in 0 .. count - 1 /\ entries'[n] = entries[at(n)]
        <5>. TAKE n \in 0 .. count - 2
        <5>1. CASE n < idx
          <6>1. n \in 0 .. idx - 1 /\ at(n) = n /\ n \in 0 .. count - 1
            BY <1>1, <3>2, <5>1
          <6>. QED BY <3>2, <6>1
        <5>2. CASE ~(n < idx)
          <6>1. n \in idx .. count - 2 /\ at(n) = n + 1 /\ n + 1 \in 0 .. count - 1
            BY <1>1, <3>2, <5>2
          <6>. QED BY <3>2, <6>1
        <5>. QED BY <5>1, <5>2
      <4>2. at(i) < at(j)
        BY <1>1, <3>2, <3>3
      <4>. HIDE DEF at
      <4>. QED BY <4>1, <4>2 DEF Sorted
    <3>4. Sorted'
      <4>1. count' - 1 = count - 2 /\ count' <= capacity'
        BY <1>0, <1>1, <3>1
      <4>. QED BY <3>3, <4>1 DEF Sorted
    <3>. QED BY <2>0, <3>1, <3>2, <3>4
  <2>. QED BY <2>1, <2>2, <2>3, <2>4, <2>5, <2>6 DEF Act
<1>5. TypeOK'
  <2>1. \E op, r : Return(op, r)
    BY DEF Act, SetUpdate, SetFull, SetInsert, Get, Exists, DeleteMissing, DeleteFound
  <2>2. /\ pc' = "idle" /\ call' = NoCall /\ left' = 0 /\ right' = 0 /\ idx' = 0
        /\ found' = FALSE /\ span' = 1
    BY <2>1 DEF Return
  <2>3. 0 \in 0 .. MaxElem
    BY MaxElemType
  <2>4. created' \in BOOLEAN /\ found' \in BOOLEAN
    BY <1>0, <2>2
  <2>5. /\ capacity' \in 0 .. MaxElem /\ default_val' \in Values
        /\ left' \in 0 .. MaxElem /\ right' \in 0 .. MaxElem /\ idx' \in 0 .. MaxElem
        /\ span' \in Nat \ {0}
    BY <1>0, <2>2, <2>3 DEF TypeOK
  <2>6. pc' \in {"idle", "search", "act"} /\ call' \in Requests \cup {NoCall}
    BY <2>2
  <2>. QED BY <1>4, <2>4, <2>5, <2>6 DEF TypeOK
<1>. QED BY <1>0, <1>4, <1>5

-----------------------------------------------------------------------------
THEOREM NextOK == IInv /\ [Next]_vars => IInv'
<1>. SUFFICES ASSUME IInv, [Next]_vars PROVE IInv'
  OBVIOUS
<1>1. CASE UNCHANGED vars
  BY <1>1 DEF IInv, vars, store, locals, TypeOK, Sorted, Window, Below, Above, CallOK,
              Shrinks, LogSearch
<1>2. CASE Next
  BY <1>2, BetweenCalls, EnterStep, SearchStep, ActStep DEF Next
<1>. QED BY <1>1, <1>2

THEOREM Invariance == Spec => []IInv
BY InitOK, NextOK, PTL DEF Spec

(* Positions and results have their types, uint16_t suffices for positions.*)
THEOREM TypeCorrect == Spec => []TypeOK
<1>1. IInv => TypeOK
  BY DEF IInv
<1>. QED BY <1>1, Invariance, PTL

(* The entries are in ascending order whenever kvs_bsearch relies on it.   *)
THEOREM OrderCorrect == Spec => []Sorted
<1>1. IInv => Sorted
  BY DEF IInv
<1>. QED BY <1>1, Invariance, PTL

(* kvs_bsearch finds the key, or the position where it has to be inserted. *)
THEOREM SearchCorrect == Spec => []Window
<1>1. IInv => Window
  BY DEF IInv
<1>. QED BY <1>1, Invariance, PTL

(* The number of iterations is logarithmic in the number of entries.       *)
THEOREM SearchFast == Spec => []LogSearch
<1>1. IInv => LogSearch
  BY DEF IInv, Shrinks
<1>. QED BY <1>1, Invariance, PTL

-----------------------------------------------------------------------------
(* The contents of an array e of n entries.                                *)
KeysOf(e, n) == {e[i].key : i \in 0 .. n - 1}
MapOf(e, n) ==
  [k \in KeysOf(e, n) |-> e[CHOOSE i \in 0 .. n - 1 : e[i].key = k].value]
Ascending(e, n) ==
  /\ \A i \in 0 .. n - 1 : e[i].key \in Int
  /\ \A i, j \in 0 .. n - 1 : i < j => e[i].key < e[j].key

LEMMA MapAt ==
  ASSUME NEW e, NEW n \in Nat, Ascending(e, n), NEW i \in 0 .. n - 1
  PROVE  e[i].key \in KeysOf(e, n) /\ MapOf(e, n)[e[i].key] = e[i].value
<1>1. e[i].key \in KeysOf(e, n)
  BY DEF KeysOf
<1>2. \A j \in 0 .. n - 1 : e[j].key = e[i].key => j = i
  <2>. TAKE j \in 0 .. n - 1
  <2>1. e[i].key \in Int /\ e[j].key \in Int
    BY DEF Ascending
  <2>2. (i < j => e[i].key < e[j].key) /\ (j < i => e[j].key < e[i].key)
    BY DEF Ascending
  <2>. QED BY <2>1, <2>2
<1>3. (CHOOSE j \in 0 .. n - 1 : e[j].key = e[i].key) = i
  BY <1>2
<1>. QED BY <1>1, <1>3 DEF MapOf

LEMMA MapIs ==
  ASSUME NEW e, NEW n \in Nat, Ascending(e, n), NEW f,
         f = [k \in KeysOf(e, n) |-> f[k]],
         \A i \in 0 .. n - 1 : f[e[i].key] = e[i].value
  PROVE  MapOf(e, n) = f
<1>1. ASSUME NEW k \in KeysOf(e, n) PROVE MapOf(e, n)[k] = f[k]
  <2>1. PICK i \in 0 .. n - 1 : k = e[i].key
    BY DEF KeysOf
  <2>. QED BY <2>1, MapAt
<1>2. MapOf(e, n) = [k \in KeysOf(e, n) |-> MapOf(e, n)[k]]
  BY DEF MapOf
<1>3. [k \in KeysOf(e, n) |-> MapOf(e, n)[k]] = [k \in KeysOf(e, n) |-> f[k]]
  BY <1>1
<1>. QED BY <1>2, <1>3

LEMMA KeysCount ==
  ASSUME NEW e, NEW n \in Nat, Ascending(e, n)
  PROVE  Cardinality(KeysOf(e, n)) = n
<1>. DEFINE b == [m \in 1 .. n |-> e[m - 1].key]
<1>1. b \in [1 .. n -> KeysOf(e, n)]
  BY DEF KeysOf
<1>2. ASSUME NEW l \in 1 .. n, NEW m \in 1 .. n, b[l] = b[m] PROVE l = m
  <2>1. e[l - 1].key = e[m - 1].key /\ l - 1 \in 0 .. n - 1 /\ m - 1 \in 0 .. n - 1
    BY <1>2
  <2>2. /\ e[l - 1].key \in Int /\ e[m - 1].key \in Int
        /\ l - 1 < m - 1 => e[l - 1].key < e[m - 1].key
        /\ m - 1 < l - 1 => e[m - 1].key < e[l - 1].key
    BY <2>1 DEF Ascending
  <2>. QED BY <2>1, <2>2
<1>3. ASSUME NEW k \in KeysOf(e, n) PROVE \E m \in 1 .. n : b[m] = k
  <2>1. PICK i \in 0 .. n - 1 : k = e[i].key
    BY DEF KeysOf
  <2>2. i + 1 \in 1 .. n /\ b[i + 1] = e[i].key
    OBVIOUS
  <2>. QED BY <2>1, <2>2
<1>4. b \in Bijection(1 .. n, KeysOf(e, n))
  BY <1>1, <1>2, <1>3 DEF Bijection, Injection, Surjection, IsInjective
<1>5. ExistsBijection(1 .. n, KeysOf(e, n))
  BY <1>4 DEF ExistsBijection
<1>. QED BY <1>5, FS_CountingElements

-----------------------------------------------------------------------------
(* The refinement.                                                         *)
AMap == MapOf(entries, count)

LEMMA AMapDef ==
  /\ AMap = [k \in Used |-> entries[SlotOf(k)].value]
  /\ DOMAIN AMap = Used
BY DEF AMap, MapOf, KeysOf, Used, SlotOf

LEMMA IsAscending ==
  ASSUME IInv
  PROVE  Ascending(entries, count) /\ count \in Nat
<1>1. count \in Int /\ 0 <= count /\ count <= MaxElem
  BY Ints DEF IInv
<1>2. \A i \in 0 .. count - 1 : entries[i].key \in Int
  BY <1>1, KeyType, MaxElemType DEF IInv
<1>. QED BY <1>1, <1>2 DEF IInv, Ascending, Sorted

LEMMA StaysAscending ==
  ASSUME IInv'
  PROVE  Ascending(entries', count')
<1>1. count' \in 0 .. MaxElem /\ entries' \in [Slots -> Entry]
  BY DEF IInv, TypeOK
<1>2. ASSUME NEW i \in 0 .. count' - 1 PROVE entries'[i].key \in Int
  <2>0. \A n \in 0 .. MaxElem : \A j \in 0 .. n - 1 : j \in Slots
    BY MaxElemType DEF Slots
  <2>1. i \in Slots
    BY <1>1, <2>0
  <2>2. entries'[i] \in Entry
    BY <1>1, <2>1
  <2>. QED BY <2>2, EntryType
<1>. QED BY <1>2 DEF IInv, Ascending, Sorted

LEMMA EmptyMap ==
  ASSUME NEW e PROVE MapOf(e, 0) = Abs!Empty
<1>1. KeysOf(e, 0) = {}
  BY DEF KeysOf
<1>. QED BY <1>1 DEF MapOf, Abs!Empty

(* What the search found, in terms of the mapping.                         *)
LEMMA SearchResult ==
  ASSUME IInv, pc = "act"
  PROVE  /\ found <=> call.key \in Used
         /\ found => AMap[call.key] = entries[idx].value
         /\ Cardinality(Used) = count
<1>1. Ascending(entries, count) /\ count \in Nat /\ call \in Requests
  BY IsAscending DEF IInv, CallOK
<1>2. Used = KeysOf(entries, count)
  BY DEF Used, KeysOf
<1>3. /\ idx \in Int /\ 0 <= idx /\ idx <= count /\ Below(idx)
      /\ found => idx < count /\ entries[idx].key = call.key
      /\ ~found => Above(idx)
  BY Ints DEF IInv, Window
<1>4. CASE found
  <2>1. idx \in 0 .. count - 1
    BY <1>1, <1>3, <1>4
  <2>. QED BY <1>1, <1>2, <1>3, <1>4, <2>1, MapAt, KeysCount DEF AMap
<1>5. CASE ~found
  <2>1. ASSUME NEW i \in 0 .. count - 1 PROVE entries[i].key # call.key
    <3>1. entries[i].key \in Int /\ call.key \in Int
      BY <1>1, RequestTypes DEF Ascending
    <3>2. i \in 0 .. idx - 1 \/ i \in idx .. count - 1
      BY <1>3
    <3>. QED BY <1>3, <1>5, <3>1, <3>2 DEF Below, Above
  <2>2. call.key \notin Used
    BY <2>1 DEF Used
  <2>. QED BY <1>1, <1>2, <1>5, <2>2, KeysCount
<1>. QED BY <1>4, <1>5

(* The mapping after each of the operations that change it.                *)
LEMMA UpdatedMap ==
  ASSUME IInv, IInv', SetUpdate
  PROVE  AMap' = [k \in Used \cup {call.key} |->
                    IF k = call.key THEN call.value ELSE AMap[k]]
<1>. DEFINE f == [k \in Used \cup {call.key} |->
                    IF k = call.key THEN call.value ELSE AMap[k]]
<1>1. Ascending(entries, count) /\ count \in Nat
  BY IsAscending
<1>2. Ascending(entries', count') /\ count' = count
  BY StaysAscending DEF SetUpdate
<1>3. /\ \A i \in 0 .. MaxElem - 1 : entries'[i].key = entries[i].key
      /\ idx \in 0 .. count - 1 /\ entries[idx].key = call.key
      /\ entries'[idx].value = call.value
      /\ \A i \in 0 .. MaxElem - 1 : i # idx => entries'[i].value = entries[i].value
  BY SetUpdateStep
<1>4. \A i \in 0 .. count - 1 : i \in 0 .. MaxElem - 1
  BY Ints, MaxElemType DEF IInv
<1>5. KeysOf(entries', count') = Used \cup {call.key}
  <2>1. KeysOf(entries', count') = Used
    BY <1>2, <1>3, <1>4 DEF KeysOf, Used
  <2>2. call.key \in Used
    BY <1>3 DEF Used
  <2>. QED BY <2>1, <2>2
<1>6. ASSUME NEW i \in 0 .. count' - 1 PROVE f[entries'[i].key] = entries'[i].value
  <2>1. entries'[i].key \in Used \cup {call.key}
    BY <1>5 DEF KeysOf
  <2>2. CASE i = idx
    BY <1>3, <1>4, <2>2, <2>1, <1>2
  <2>3. CASE i # idx
    <3>1. i \in 0 .. count - 1 /\ entries'[i].key = entries[i].key
          /\ entries'[i].value = entries[i].value
      BY <1>2, <1>3, <1>4, <2>3
    <3>2. entries[i].key # call.key
      <4>1. entries[i].key \in Int /\ entries[idx].key \in Int
        BY <1>1, <1>3, <3>1 DEF Ascending
      <4>2. (i < idx => entries[i].key < entries[idx].key)
            /\ (idx < i => entries[idx].key < entries[i].key)
        BY <1>1, <1>3, <3>1 DEF Ascending
      <4>. QED BY <1>3, <2>3, <3>1, <4>1, <4>2
    <3>3. AMap[entries[i].key] = entries[i].value
      BY <1>1, <3>1, MapAt DEF AMap
    <3>. QED BY <2>1, <3>1, <3>2, <3>3
  <2>. QED BY <2>2, <2>3
<1>7. f = [k \in KeysOf(entries', count') |-> f[k]]
  BY <1>5
<1>. HIDE DEF f
<1>8. MapOf(entries', count') = f
  BY <1>1, <1>2, <1>6, <1>7, MapIs
<1>. QED BY <1>8 DEF AMap, f

LEMMA InsertedMap ==
  ASSUME IInv, IInv', SetInsert
  PROVE  AMap' = [k \in Used \cup {call.key} |->
                    IF k = call.key THEN call.value ELSE AMap[k]]
<1>. DEFINE f == [k \in Used \cup {call.key} |->
                    IF k = call.key THEN call.value ELSE AMap[k]]
<1>1. Ascending(entries, count) /\ count \in Nat
  BY IsAscending
<1>2. Ascending(entries', count') /\ count' = count + 1
  BY StaysAscending DEF SetInsert
<1>3. /\ entries' = Inserted /\ pc = "act" /\ call.op = "set"
      /\ ~found /\ count < capacity /\ call \in Requests
  BY DEF SetInsert, Return, IInv, CallOK
<1>4. /\ idx \in 0 .. count
      /\ \A i \in 0 .. idx - 1 : entries'[i] = entries[i]
      /\ entries'[idx].key = call.key /\ entries'[idx].value = call.value
      /\ \A i \in idx + 1 .. count : entries'[i] = entries[i - 1]
  BY <1>3, InsertedArray
<1>5. call.key \notin Used
  BY <1>3, SearchResult
<1>6. ASSUME NEW i \in 0 .. count
      PROVE  i = idx \/ \E j \in 0 .. count - 1 : entries'[i] = entries[j]
  <2>1. CASE i < idx
    <3>1. i \in 0 .. idx - 1 /\ i \in 0 .. count - 1
      BY <1>1, <1>4, <2>1
    <3>. QED BY <1>4, <3>1
  <2>2. CASE i > idx
    <3>1. i \in idx + 1 .. count /\ i - 1 \in 0 .. count - 1
      BY <1>1, <1>4, <2>2
    <3>. QED BY <1>4, <3>1
  <2>. QED BY <1>1, <1>4, <2>1, <2>2
<1>7. ASSUME NEW j \in 0 .. count - 1
      PROVE  \E i \in 0 .. count : entries'[i] = entries[j]
  <2>1. CASE j < idx
    <3>1. j \in 0 .. idx - 1 /\ j \in 0 .. count
      BY <1>1, <1>4, <2>1
    <3>. QED BY <1>4, <3>1
  <2>2. CASE j >= idx
    <3>1. j + 1 \in idx + 1 .. count /\ j + 1 \in 0 .. count /\ (j + 1) - 1 = j
      BY <1>1, <1>4, <2>2
    <3>2. entries'[j + 1] = entries[(j + 1) - 1]
      BY <1>4, <3>1
    <3>. QED BY <3>1, <3>2
  <2>. QED BY <1>1, <1>4, <2>1, <2>2
<1>8. KeysOf(entries', count') = Used \cup {call.key}
  <2>1. count' - 1 = count
    BY <1>1, <1>2
  <2>2. KeysOf(entries', count') = {entries'[i].key : i \in 0 .. count}
    BY <2>1 DEF KeysOf
  <2>3. \A k \in KeysOf(entries', count') : k \in Used \cup {call.key}
    BY <1>4, <1>6, <2>2 DEF Used
  <2>4. \A k \in Used : k \in KeysOf(entries', count')
    BY <1>7, <2>2 DEF Used
  <2>5. call.key \in KeysOf(entries', count')
    BY <1>4, <2>2
  <2>. QED BY <2>3, <2>4, <2>5
<1>9. ASSUME NEW i \in 0 .. count' - 1 PROVE f[entries'[i].key] = entries'[i].value
  <2>1. entries'[i].key \in Used \cup {call.key} /\ i \in 0 .. count
    BY <1>1, <1>2, <1>8 DEF KeysOf
  <2>2. CASE i = idx
    BY <1>4, <2>1, <2>2
  <2>3. CASE i # idx
    <3>1. PICK j \in 0 .. count - 1 : entries'[i] = entries[j]
      BY <1>6, <2>1, <2>3
    <3>2. entries[j].key \in Used
      BY DEF Used
    <3>3. AMap[entries[j].key] = entries[j].value
      BY <1>1, MapAt DEF AMap
    <3>. QED BY <1>5, <2>1, <3>1, <3>2, <3>3
  <2>. QED BY <2>2, <2>3
<1>10. count' \in Nat
  BY <1>1, <1>2
<1>11. f = [k \in KeysOf(entries', count') |-> f[k]]
  BY <1>8
<1>. HIDE DEF f
<1>12. MapOf(entries', count') = f
  BY <1>2, <1>9, <1>10, <1>11, MapIs
<1>. QED BY <1>12 DEF AMap, f

LEMMA RemovedMap ==
  ASSUME IInv, IInv', DeleteFound
  PROVE  AMap' = [k \in Used \ {call.key} |-> AMap[k]]
<1>. DEFINE f == [k \in Used \ {call.key} |-> AMap[k]]
<1>1. Ascending(entries, count) /\ count \in Nat
  BY IsAscending
<1>2. Ascending(entries', count') /\ count' = count - 1
  BY StaysAscending DEF DeleteFound
<1>3. entries' = Removed /\ pc = "act" /\ found
  BY DEF DeleteFound, Return
<1>4. /\ idx \in 0 .. count - 1
      /\ entries[idx].key = call.key
      /\ \A i \in 0 .. idx - 1 : entries'[i] = entries[i]
      /\ \A i \in idx .. count - 2 : entries'[i] = entries[i + 1]
  BY <1>3, RemovedArray
<1>5. ASSUME NEW j \in 0 .. count - 1, j # idx PROVE entries[j].key # call.key
  <2>1. entries[j].key \in Int /\ entries[idx].key \in Int
    BY <1>1, <1>4 DEF Ascending
  <2>2. (j < idx => entries[j].key < entries[idx].key)
        /\ (idx < j => entries[idx].key < entries[j].key)
    BY <1>1, <1>4 DEF Ascending
  <2>. QED BY <1>4, <1>5, <2>1, <2>2
<1>6. ASSUME NEW i \in 0 .. count - 2
      PROVE  \E j \in 0 .. count - 1 : j # idx /\ entries'[i] = entries[j]
  <2>1. CASE i < idx
    <3>1. i \in 0 .. idx - 1 /\ i \in 0 .. count - 1 /\ i # idx
      BY <1>1, <1>4, <2>1
    <3>. QED BY <1>4, <3>1
  <2>2. CASE i >= idx
    <3>1. i \in idx .. count - 2 /\ i + 1 \in 0 .. count - 1 /\ i + 1 # idx
      BY <1>1, <1>4, <2>2
    <3>. QED BY <1>4, <3>1
  <2>. QED BY <1>1, <1>4, <2>1, <2>2
<1>7. ASSUME NEW j \in 0 .. count - 1, j # idx
      PROVE  \E i \in 0 .. count - 2 : entries'[i] = entries[j]
  <2>1. CASE j < idx
    <3>1. j \in 0 .. idx - 1 /\ j \in 0 .. count - 2
      BY <1>1, <1>4, <2>1
    <3>. QED BY <1>4, <3>1
  <2>2. CASE j > idx
    <3>1. j - 1 \in idx .. count - 2 /\ j - 1 \in 0 .. count - 2 /\ (j - 1) + 1 = j
      BY <1>1, <1>4, <2>2
    <3>2. entries'[j - 1] = entries[(j - 1) + 1]
      BY <1>4, <3>1
    <3>. QED BY <3>1, <3>2
  <2>. QED BY <1>1, <1>4, <1>7, <2>1, <2>2
<1>8. KeysOf(entries', count') = Used \ {call.key}
  <2>1. count' - 1 = count - 2
    BY <1>1, <1>2
  <2>2. KeysOf(entries', count') = {entries'[i].key : i \in 0 .. count - 2}
    BY <2>1 DEF KeysOf
  <2>3. \A k \in KeysOf(entries', count') : k \in Used \ {call.key}
    BY <1>5, <1>6, <2>2 DEF Used
  <2>4. \A k \in Used \ {call.key} : k \in KeysOf(entries', count')
    BY <1>4, <1>7, <2>2 DEF Used
  <2>. QED BY <2>3, <2>4
<1>9. ASSUME NEW i \in 0 .. count' - 1 PROVE f[entries'[i].key] = entries'[i].value
  <2>1. entries'[i].key \in Used \ {call.key} /\ i \in 0 .. count - 2
    BY <1>1, <1>2, <1>8 DEF KeysOf
  <2>2. PICK j \in 0 .. count - 1 : j # idx /\ entries'[i] = entries[j]
    BY <1>6, <2>1
  <2>3. AMap[entries[j].key] = entries[j].value
    BY <1>1, MapAt DEF AMap
  <2>. QED BY <2>1, <2>2, <2>3
<1>10. count' \in Nat
  BY <1>1, <1>2, <1>4
<1>11. f = [k \in KeysOf(entries', count') |-> f[k]]
  BY <1>8
<1>. HIDE DEF f
<1>12. MapOf(entries', count') = f
  BY <1>2, <1>9, <1>10, <1>11, MapIs
<1>. QED BY <1>12 DEF AMap, f

-----------------------------------------------------------------------------
(* Every step is a step of KvMap, or changes nothing that KvMap sees.      *)
THEOREM RefinementInit == Init => Abs!Init
<1>. SUFFICES ASSUME Init PROVE Abs!Init
  OBVIOUS
<1>1. AMap = Abs!Empty
  BY EmptyMap DEF Init, AMap
<1>. QED BY <1>1, AMapDef DEF Init, Abs!Init

LEMMA SameMap ==
  ASSUME UNCHANGED <<entries, count>>
  PROVE  AMap' = AMap
BY DEF AMap, MapOf, KeysOf

LEMMA SameCardinality ==
  ASSUME NEW S PROVE Abs!Cardinality(S) = Cardinality(S)
BY DEF Abs!Cardinality, Cardinality

LEMMA IdleRefines ==
  ASSUME IInv, pc = "idle", pc' = "idle", UNCHANGED locals
  PROVE  /\ Abs!Idle
         /\ (\E n \in 0 .. MaxElem, d \in Values : Create(n, d)) => Abs!Next
         /\ (\E op \in Ops : NullCall(op)) => Abs!Next
         /\ Count => Abs!Next
         /\ Clear => Abs!Next
<1>1. Abs!Idle
  BY DEF IInv, CallOK, Abs!Idle, locals
<1>2. ASSUME NEW n \in 0 .. MaxElem, NEW d \in Values, Create(n, d) PROVE Abs!Next
  <2>1. AMap' = Abs!Empty /\ capacity' = n /\ UNCHANGED ret
    BY <1>2, EmptyMap DEF Create, AMap
  <2>2. CASE n = 0
    BY <1>1, <1>2, <2>1, <2>2, AMapDef DEF Create, Abs!Refuse, Abs!Next, AMap, MapOf, KeysOf, Used, SlotOf
  <2>3. CASE n # 0
    <3>1. n \in 1 .. MaxElem
      BY <2>3, MaxElemType
    <3>2. Abs!Create(n, d)
      BY <1>1, <1>2, <2>1, <2>3 DEF Create, Abs!Create, AMap, MapOf, KeysOf, Used, SlotOf
    <3>. QED BY <3>1, <3>2 DEF Abs!Next
  <2>. QED BY <2>2, <2>3
<1>3. ASSUME NEW op \in Ops, NullCall(op) PROVE Abs!Next
  <2>1. Abs!OnNull
    BY <1>1, <1>3, SameMap DEF NullCall, Abs!OnNull, store, AMap, MapOf, KeysOf, Used, SlotOf
  <2>. QED BY <2>1 DEF Abs!Next
<1>4. ASSUME Count PROVE Abs!Next
  <2>1. Cardinality(DOMAIN AMap) = count
    BY KeysCount, IsAscending, AMapDef DEF Used, KeysOf
  <2>2. ret' = count /\ UNCHANGED store
    BY <1>4 DEF Count, IInv, CallOK
  <2>. DEFINE GMap == [k \in Used |-> entries[SlotOf(k)].value]
  <2>3. GMap = AMap /\ GMap' = AMap' /\ DOMAIN GMap = DOMAIN AMap
    BY DEF AMap, MapOf, KeysOf, Used, SlotOf
  <2>4. AMap' = AMap /\ UNCHANGED <<created, capacity, default_val>>
    BY <2>2, SameMap DEF store
  <2>5. ret' = Cardinality(DOMAIN GMap)
    BY <2>1, <2>2, <2>3
  <2>6. Abs!Count
    BY <1>1, <2>3, <2>4, <2>5, SameCardinality DEF Abs!Count
  <2>. QED BY <2>6 DEF Abs!Next
<1>5. ASSUME Clear PROVE Abs!Next
  <2>1. AMap' = Abs!Empty
    BY <1>5, EmptyMap DEF Clear, AMap
  <2>2. Abs!Clear
    BY <1>1, <1>5, <2>1 DEF Clear, Abs!Clear, AMap, MapOf, KeysOf, Used, SlotOf
  <2>. QED BY <2>2 DEF Abs!Next
<1>. QED BY <1>1, <1>2, <1>3, <1>4, <1>5

LEMMA ActRefines ==
  ASSUME IInv, IInv', Act
  PROVE  Abs!Next
<1>1. /\ pc = "act" /\ UNCHANGED <<created, capacity, default_val>>
      /\ call \in Requests
  BY ReturnStep
<1>2. /\ found <=> call.key \in Used
      /\ found => AMap[call.key] = entries[idx].value
      /\ Cardinality(Used) = count
      /\ DOMAIN AMap = Used
  BY <1>1, SearchResult, AMapDef
<1>3. /\ Abs!Has <=> call.key \in Used
      /\ Abs!Full <=> count >= capacity
  <2>1. DOMAIN [k \in Used |-> entries[SlotOf(k)].value] = Used
    OBVIOUS
  <2>. QED BY <1>2, <2>1, SameCardinality DEF Abs!Has, Abs!Full
<1>4. ASSUME NEW op, NEW r, Return(op, r) PROVE Abs!Return(op, r)
  BY <1>1, <1>4 DEF Return, Abs!Return
<1>. DEFINE GMap == [k \in Used |-> entries[SlotOf(k)].value]
<1>5. GMap = AMap /\ GMap' = AMap'
  BY DEF AMap, MapOf, KeysOf, Used, SlotOf
<1>6. CASE SetUpdate
  <2>1. Abs!Set
    BY <1>2, <1>3, <1>4, <1>5, <1>6, UpdatedMap DEF SetUpdate, Abs!Set
  <2>. QED BY <2>1 DEF Abs!Next
<1>7. CASE SetInsert
  <2>1. ~(count >= capacity)
    BY <1>7, Ints DEF SetInsert, IInv
  <2>2. Abs!Set
    BY <1>2, <1>3, <1>4, <1>5, <1>7, <2>1, InsertedMap DEF SetInsert, Abs!Set
  <2>. QED BY <2>2 DEF Abs!Next
<1>8. CASE SetFull
  <2>1. Abs!SetFull
    BY <1>2, <1>3, <1>4, <1>5, <1>8, SameMap DEF SetFull, Abs!SetFull, store
  <2>. QED BY <2>1 DEF Abs!Next
<1>9. CASE Get
  <2>1. Abs!Get
    BY <1>2, <1>3, <1>4, <1>5, <1>9, SameMap DEF Get, Abs!Get, store
  <2>. QED BY <2>1 DEF Abs!Next
<1>10. CASE Exists
  <2>1. Abs!Exists
    BY <1>2, <1>3, <1>4, <1>5, <1>10, SameMap DEF Exists, Abs!Exists, store
  <2>. QED BY <2>1 DEF Abs!Next
<1>11. CASE DeleteMissing
  <2>1. AMap = [k \in Used \ {call.key} |-> AMap[k]]
    <3>1. Used \ {call.key} = Used
      BY <1>2, <1>11 DEF DeleteMissing
    <3>. QED BY <3>1, AMapDef
  <2>2. Abs!Delete
    BY <1>2, <1>3, <1>4, <1>5, <1>11, <2>1, SameMap DEF DeleteMissing, Abs!Delete, store
  <2>. QED BY <2>2 DEF Abs!Next
<1>12. CASE DeleteFound
  <2>1. Abs!Delete
    BY <1>2, <1>3, <1>4, <1>5, <1>12, RemovedMap DEF DeleteFound, Abs!Delete
  <2>. QED BY <2>1 DEF Abs!Next
<1>. QED BY <1>6, <1>7, <1>8, <1>9, <1>10, <1>11, <1>12 DEF Act

LEMMA StepRefines ==
  ASSUME IInv, IInv', [Next]_vars
  PROVE  Abs!Next \/ UNCHANGED Abs!absvars
<1>. DEFINE GMap == [k \in Used |-> entries[SlotOf(k)].value]
<1>1. GMap = AMap /\ GMap' = AMap'
  BY DEF AMap, MapOf, KeysOf, Used, SlotOf
<1>2. ASSUME UNCHANGED <<store, call, ret>> PROVE UNCHANGED Abs!absvars
  BY <1>1, <1>2, SameMap DEF Abs!absvars, store
<1>3. CASE UNCHANGED vars
  BY <1>2, <1>3 DEF vars, locals
<1>4. CASE Search
  BY <1>2, <1>4 DEF Search, Hit, GoRight, GoLeft, Missed, Compare
<1>5. ASSUME NEW request \in Requests, Enter(request) PROVE Abs!Next
  <2>1. Abs!Begin(request)
    BY <1>1, <1>5, SameMap DEF Enter, Abs!Begin, IInv, CallOK, store
  <2>. QED BY <2>1 DEF Abs!Next
<1>6. CASE \/ \E n \in 0 .. MaxElem, d \in Values : Create(n, d)
           \/ \E op \in Ops : NullCall(op)
           \/ Count
           \/ Clear
  <2>1. pc = "idle" /\ pc' = "idle" /\ UNCHANGED locals
    BY <1>6 DEF Create, NullCall, Count, Clear
  <2>. QED BY <1>6, <2>1, IdleRefines
<1>. QED BY <1>3, <1>4, <1>5, <1>6, ActRefines DEF Next

(* The store implements the mapping.                                       *)
THEOREM StoreImplementsMap == Spec => Implements
<1>1. IInv /\ IInv' /\ [Next]_vars => [Abs!Next]_(Abs!absvars)
  BY StepRefines
<1>. QED BY <1>1, RefinementInit, Invariance, PTL DEF Spec, Implements, Abs!Spec

=============================================================================
