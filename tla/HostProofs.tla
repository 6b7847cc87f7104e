----------------------------- MODULE HostProofs -----------------------------
(***************************************************************************)
(* Proofs about Host, for every budget of cycles, every set of numbers and *)
(* of stores, and every program.                                           *)
(***************************************************************************)
EXTENDS Host, SequenceTheorems, FiniteSetTheorems, WellFoundedInduction, TLAPS

(* The cycle counter pays for the instructions: what has been spent and    *)
(* what is left add up to the budget at most, and nc_run is not entered    *)
(* with nothing left.  The host looks at its own counter, nc_run at its    *)
(* copy.                                                                   *)
SliceInv ==
  /\ spent \in Nat /\ spent < Budget
  /\ at = "vm" => left \in 1 .. Budget /\ spent + left <= Budget
  /\ at \in {"inner", "call"} => cycles \in 0 .. Budget /\ spent + cycles <= Budget

(* The slice fits the counter.                                             *)
LEMMA BudgetFits == Budget \in 1 .. MaxCycles
  BY HostAssumption DEF HostAssumption

(* The counters before the first slice.                                    *)
LEMMA SliceInit == Init => SliceInv
  BY BudgetFits DEF Init, SliceInv

(* An instruction costs one cycle, and one stays in the counter of nc_run. *)
LEMMA CostsOne ==
  ASSUME SliceInv, at = "vm", left > 1,
         left' = Minus1(left), spent' = spent + 1
  PROVE  /\ left' \in 1 .. Budget /\ spent' + left' <= Budget
         /\ spent' \in Nat /\ spent' < Budget
  <1>1. left \in 2 .. Budget /\ spent + left <= Budget /\ spent \in Nat
    BY DEF SliceInv
  <1>2. Budget \in 1 .. MaxCycles
    BY BudgetFits
  <1>3. Minus1(left) = left - 1
    BY ONLY <1>1, <1>2 DEF Minus1
  <1>4. left' = left - 1 /\ spent' = spent + 1
    BY <1>3
  <1> QED
    BY ONLY <1>1, <1>2, <1>4

(* What the host does with the answer of a call does not touch the         *)
(* counters.                                                               *)
LEMMA AnswerLeaves ==
  ASSUME Calls PROVE at' = "inner" /\ at = "call" /\ UNCHANGED <<cycles, spent>>
  BY DEF Calls, SetCur, Clear, Time, Sleep, Input, Cmd, Sgn, Payload, AtBreak,
         OnCan, Stores, Create, Set, Get, Back, Called

(* Every step keeps the balance.                                           *)
LEMMA SliceNext == SliceInv /\ [Next]_vars => SliceInv'
  <1> SUFFICES ASSUME SliceInv, [Next]_vars PROVE SliceInv'
    OBVIOUS
  <1>0. Budget \in 1 .. MaxCycles
    BY BudgetFits
  <1>1. CASE Outer
    BY <1>1, <1>0 DEF Outer, SliceInv
  <1>2. CASE Inner
    BY <1>2, <1>0 DEF Inner, MayRun, SliceInv
  <1>3. CASE Pause
    BY <1>3 DEF Pause, SliceInv
  <1>4. CASE Tick
    BY <1>4 DEF Tick, SliceInv
  <1>5. ASSUME NEW p, Instruction(p) PROVE SliceInv'
    <2>1. at = "vm" /\ at' = "vm" /\ left > 1 /\ left' = Minus1(left) /\ spent' = spent + 1
      BY <1>5 DEF Instruction
    <2>2. left' \in 1 .. Budget /\ spent' + left' <= Budget /\ spent' \in Nat /\ spent' < Budget
      BY <2>1, CostsOne
    <2> QED
      BY <2>1, <2>2 DEF SliceInv
  <1>6. ASSUME NEW x, NEW p, Stops(x, p) PROVE SliceInv'
    <2>1. /\ at = "vm" /\ at' \in {"call", "inner"} /\ left > 1
          /\ left' = Minus1(left) /\ spent' = spent + 1 /\ cycles' = left'
      BY <1>6 DEF Stops, Returned
    <2>2. left' \in 1 .. Budget /\ spent' + left' <= Budget /\ spent' \in Nat /\ spent' < Budget
      BY <2>1, CostsOne
    <2> QED
      BY <2>1, <2>2 DEF SliceInv
  <1>7. CASE Busy
    <2>1. /\ at = "vm" /\ at' = "inner" /\ left <= 1
          /\ left' = Minus1(left) /\ spent' = spent /\ cycles' = left'
      BY <1>7 DEF Busy, Returned
    <2>2. left = 1 /\ spent \in Nat /\ spent < Budget
      BY <2>1, <1>0 DEF SliceInv
    <2>3. left' = 0
      <3>1. Minus1(left) = left - 1
        BY ONLY <2>2 DEF Minus1
      <3> QED
        BY <2>1, <2>2, <3>1
    <2> QED
      BY <2>1, <2>2, <2>3, <1>0 DEF SliceInv
  <1>8. CASE Run
    BY <1>8, <1>5, <1>6, <1>7 DEF Run, Compute, PushParam, PopParam, Ends, Break, XFunc
  <1>9. CASE Answer
    <2>1. at' = "inner" /\ at = "call" /\ cycles' = cycles /\ spent' = spent
      BY <1>9, AnswerLeaves DEF Answer
    <2> QED
      BY <2>1 DEF SliceInv
  <1>10. CASE UNCHANGED vars
    BY <1>10 DEF vars, SliceInv
  <1> QED
    BY <1>1, <1>2, <1>3, <1>4, <1>8, <1>9, <1>10 DEF Next, Loops

(* A program never gets more than its slice, whatever it executes and      *)
(* calls, for every budget that fits the counter.                          *)
THEOREM SliceCorrect == Spec => []SliceBounded
  <1>1. SliceInv => SliceBounded
    BY DEF SliceInv, SliceBounded
  <1> QED
    BY <1>1, SliceInit, SliceNext, PTL DEF Spec

-----------------------------------------------------------------------------
(* The parameter stack and the stores.  The host looks for its arguments   *)
(* on top of the parameter stack, so the stack must hold them, and there   *)
(* must be room for the result; what the program takes its stores for is   *)
(* what the host has in kvs_stores.                                        *)
Careful == Habits = {}

Calling ==
  /\ Len(params) <= MaxPending + (IF at = "call" /\ res = "break" THEN 5 ELSE 4)
  /\ at = "call" =>
       /\ res \in XFuncs \cup {"break"}
       /\ res \in XFuncs => Len(params) \in Arity[res] .. Arity[res] + MaxPending
       /\ res = "break" => Len(params) >= 1
       /\ Careful => res # "clrline" /\ (res = "cmd" => Len(params) = 3)

(* A store is a record whose keys are few enough.                          *)
InOrder(s) == IsDict(s) /\ IsFiniteSet(Keys(s)) /\ "map" \in DOMAIN s

StoresOK ==
  /\ DOMAIN stores \subseteq Ids /\ stores = [i \in DOMAIN stores |-> stores[i]]
  /\ \A i \in DOMAIN stores : InOrder(stores[i])
  /\ book = stores

HostInv == TypeOK /\ SliceInv /\ Calling /\ StoresOK

(* What the host leaves for the arguments of a call.                       *)
Answers(r) ==
  /\ r \in Seq(Numbers) /\ Len(r) <= 4
  /\ params' = Popped(params, Arity[res]) \o r
  /\ Careful => r \in Promised(res, Args)

Parameters ==
  /\ ParamSlots \in Nat /\ MaxPending \in Nat /\ MaxPending + 4 < ParamSlots
  /\ MaxElem \in Nat /\ MaxElem >= 1 /\ MaxStores \in Nat
  /\ 0 \in Values /\ Values \subseteq Int

LEMMA ParametersOK == Parameters
  BY HostAssumption DEF HostAssumption, Parameters

LEMMA NumbersInt ==
  Numbers \subseteq Int /\ Values \subseteq Numbers /\ Ids \subseteq Numbers
  /\ {-3, -1, 0, 1} \subseteq Numbers /\ Ids \subseteq Nat
  BY ParametersOK DEF Parameters, Numbers, Ids

LEMMA ArityIs ==
  /\ XFuncs = {"setcur", "clrscr", "clrline", "time", "sleep", "input", "input_str", "cmd",
               "sgn", "kvs_create", "kvs_set", "kvs_get", "fire_on_can", "payload"}
  /\ Arity["setcur"] = 2 /\ Arity["clrscr"] = 0 /\ Arity["clrline"] = 1 /\ Arity["time"] = 0
  /\ Arity["sleep"] = 1 /\ Arity["input"] = 1 /\ Arity["input_str"] = 1
  /\ Arity["cmd"] = 3 /\ Arity["sgn"] = 1 /\ Arity["kvs_create"] = 2
  /\ Arity["kvs_set"] = 3 /\ Arity["kvs_get"] = 2 /\ Arity["fire_on_can"] = 4
  /\ Arity["payload"] = 3
  BY DEF Arity, XFuncs

LEMMA ArityRange == \A x \in XFuncs : Arity[x] \in 0 .. 4
  BY ArityIs

(* nc_pop_num and nc_push_num on the parameter stack.                      *)
LEMMA PoppedIs ==
  ASSUME NEW p \in Seq(Numbers), NEW n \in 0 .. Len(p)
  PROVE  Popped(p, n) \in Seq(Numbers) /\ Len(Popped(p, n)) = Len(p) - n
  <1>1. \A i \in 1 .. Len(p) - n : p[i] \in Numbers
    BY LenProperties
  <1>2. 1 \in Int /\ Len(p) - n \in Int /\ Len(p) \in Nat
    BY LenProperties
  <1>3. /\ SubSeq(p, 1, Len(p) - n) \in Seq(Numbers)
        /\ Len(SubSeq(p, 1, Len(p) - n)) =
             IF 1 <= Len(p) - n THEN Len(p) - n - 1 + 1 ELSE 0
    BY <1>1, <1>2, SubSeqProperties
  <1> QED
    BY <1>2, <1>3 DEF Popped

LEMMA PushedIs ==
  ASSUME NEW p \in Seq(Numbers), NEW v \in Numbers, Len(p) < ParamSlots
  PROVE  /\ PushNum(p, v) = p \o <<v>> /\ PushNum(p, v) \in Seq(Numbers)
         /\ Len(PushNum(p, v)) = Len(p) + 1 /\ Last(PushNum(p, v)) = v
         /\ <<v>> \in Seq(Numbers) /\ Len(<<v>>) = 1
  <1>1. PushNum(p, v) = Append(p, v)
    BY DEF PushNum
  <1>2. /\ Append(p, v) \in Seq(Numbers) /\ Len(Append(p, v)) = Len(p) + 1
        /\ Append(p, v)[Len(p) + 1] = v
    BY AppendProperties
  <1>3. Append(p, v) = p \o <<v>>
    BY AppendIsConcat
  <1> QED
    BY <1>1, <1>2, <1>3 DEF Last

LEMMA ArgsAre ==
  ASSUME HostInv, at = "call", res \in XFuncs
  PROVE  /\ params \in Seq(Numbers) /\ Len(params) \in Nat
         /\ Arity[res] \in 0 .. 4 /\ Arity[res] \in 0 .. Len(params)
         /\ Len(params) <= Arity[res] + MaxPending
         /\ Args \in Seq(Numbers) /\ Len(Args) = Arity[res]
         /\ \A n \in 1 .. Arity[res] : Arg(n) \in Numbers
         /\ Popped(params, Arity[res]) \in Seq(Numbers)
         /\ Len(Popped(params, Arity[res])) = Len(params) - Arity[res]
         /\ params = Popped(params, Arity[res]) \o Args
  <1>1. /\ params \in Seq(Numbers) /\ Len(params) \in Nat
        /\ Arity[res] \in 0 .. 4 /\ Arity[res] \in 0 .. Len(params)
        /\ Len(params) <= Arity[res] + MaxPending
    BY ArityRange, ParametersOK, LenProperties DEF HostInv, Calling, TypeOK, Parameters
  <1>2. /\ Popped(params, Arity[res]) \in Seq(Numbers)
        /\ Len(Popped(params, Arity[res])) = Len(params) - Arity[res]
    BY <1>1, PoppedIs
  <1>3. Args \in Seq(Numbers) /\ Len(Args) = Arity[res]
    <2> DEFINE m == Len(params) - Arity[res] + 1
    <2>1. m \in Int /\ m >= 1 /\ m <= Len(params) + 1 /\ Len(params) \in Int
      BY <1>1
    <2>2. \A i \in m .. Len(params) : params[i] \in Numbers
      BY <1>1, <2>1, LenProperties
    <2>3. /\ SubSeq(params, m, Len(params)) \in Seq(Numbers)
          /\ Len(SubSeq(params, m, Len(params))) =
               IF m <= Len(params) THEN Len(params) - m + 1 ELSE 0
      BY <2>1, <2>2, SubSeqProperties
    <2> QED
      BY <2>1, <2>3, <1>1 DEF Args
  <1>4. \A n \in 1 .. Arity[res] : Arg(n) \in Numbers
    BY <1>3, LenProperties DEF Arg
  <1>5. params = Popped(params, Arity[res]) \o Args
    <2>1. PICK k : k = Len(params) - Arity[res]
      OBVIOUS
    <2>2. 1 \in 1 .. Len(params) + 1 /\ k \in 1 - 1 .. Len(params)
          /\ Len(params) \in k .. Len(params)
      BY <1>1, <2>1
    <2>3. SubSeq(params, 1, k) \o SubSeq(params, k + 1, Len(params))
            = SubSeq(params, 1, Len(params))
      BY <1>1, <2>2, ConcatAdjacentSubSeq
    <2>4. SubSeq(params, 1, Len(params)) = params
      BY <1>1, SubSeqFull
    <2> QED
      BY <2>1, <2>3, <2>4 DEF Popped, Args
  <1> QED
    BY <1>1, <1>2, <1>3, <1>4, <1>5

LEMMA EmptyAnswer == <<>> \in Seq(Numbers) /\ Len(<<>>) = 0
  BY EmptySeq

(* The result is pushed where the arguments were.                          *)
LEMMA ResultPushed ==
  ASSUME HostInv, at = "call", res \in XFuncs, NEW v \in Numbers
  PROVE  /\ PushNum(Popped(params, Arity[res]), v) = Popped(params, Arity[res]) \o <<v>>
         /\ Last(PushNum(Popped(params, Arity[res]), v)) = v
         /\ <<v>> \in Seq(Numbers) /\ Len(<<v>>) <= 4
  <1>1. Len(Popped(params, Arity[res])) < ParamSlots /\ Popped(params, Arity[res]) \in Seq(Numbers)
    BY ArgsAre, ParametersOK DEF Parameters
  <1> QED
    BY <1>1, PushedIs

LEMMA NoResult ==
  ASSUME HostInv, at = "call",
         SetCur \/ Sleep \/ Payload \/ Set \/ (Clear /\ res = "clrscr")
  PROVE  \E r : Answers(r)
  <1>1. /\ res \in {"setcur", "sleep", "payload", "kvs_set", "clrscr"} /\ res \in XFuncs
        /\ Promised(res, Args) = {<<>>}
    BY ArityIs DEF SetCur, Sleep, Payload, Set, Clear, Called, Promised
  <1>2. params' = Popped(params, Arity[res])
    <2>1. CASE res = "clrscr"
      <3>1. params' = params
        BY <2>1 DEF SetCur, Sleep, Payload, Set, Clear, Called, Back
      <3>2. Popped(params, 0) = params
        <4>1. params \in Seq(Numbers) /\ Len(params) - 0 = Len(params)
          BY <1>1, ArgsAre
        <4>2. SubSeq(params, 1, Len(params)) = params
          BY <4>1, SubSeqFull
        <4> QED
          BY <4>1, <4>2 DEF Popped
      <3> QED
        BY <2>1, <3>1, <3>2, ArityIs
    <2>2. CASE res # "clrscr"
      BY <2>2, ArityIs DEF SetCur, Sleep, Payload, Set, Called, Back
    <2> QED
      BY <2>1, <2>2
  <1>3. Popped(params, Arity[res]) \o <<>> = Popped(params, Arity[res])
    BY <1>1, ArgsAre, ConcatEmptySeq
  <1>4. Answers(<<>>)
    BY <1>1, <1>2, <1>3, EmptyAnswer DEF Answers
  <1> QED
    BY <1>4

(* The arguments of clrline stay where they are.                           *)
LEMMA LineKept ==
  ASSUME HostInv, at = "call", Clear, res = "clrline"
  PROVE  \E r : Answers(r)
  <1>1. res \in XFuncs /\ ~Careful
    BY ArityIs DEF HostInv, Calling
  <1>2. params' = Popped(params, Arity[res]) \o Args /\ Args \in Seq(Numbers) /\ Len(Args) <= 4
    BY <1>1, ArgsAre DEF Clear, Back
  <1>3. Answers(Args)
    BY <1>1, <1>2 DEF Answers
  <1> QED
    BY <1>3

LEMMA NumberRead ==
  ASSUME HostInv, at = "call", Time \/ Input
  PROVE  \E r : Answers(r)
  <1>1. /\ res \in {"time", "input", "input_str"} /\ res \in XFuncs
        /\ Promised(res, Args) = {<<v>> : v \in Values}
    BY ArityIs DEF Time, Input, Called, Promised
  <1>2. PICK v \in Values : params' = PushNum(Popped(params, Arity[res]), v)
    <2>1. CASE Time
      <3>1. PICK v \in Values : params' = PushNum(params, v)
        BY <2>1 DEF Time, Back
      <3>2. Popped(params, 0) = params
        <4>1. params \in Seq(Numbers) /\ Len(params) - 0 = Len(params)
          BY <1>1, ArgsAre
        <4>2. SubSeq(params, 1, Len(params)) = params
          BY <4>1, SubSeqFull
        <4> QED
          BY <4>1, <4>2 DEF Popped
      <3>3. Arity[res] = 0
        BY <2>1, ArityIs DEF Time, Called
      <3> QED
        BY <3>1, <3>2, <3>3
    <2>2. CASE Input
      BY <2>2, ArityIs DEF Input, Back
    <2> QED
      BY <2>1, <2>2
  <1>3. v \in Numbers
    BY NumbersInt
  <1>4. Answers(<<v>>)
    BY <1>1, <1>2, <1>3, ResultPushed DEF Answers
  <1> QED
    BY <1>4

LEMMA SignGiven ==
  ASSUME HostInv, at = "call", Sgn
  PROVE  \E r : Answers(r)
  <1>1. res = "sgn" /\ res \in XFuncs /\ Arity[res] = 1
    BY ArityIs DEF Sgn, Called
  <1> DEFINE v == IF Arg(1) > 0 THEN 1 ELSE IF Arg(1) < 0 THEN -1 ELSE 0
  <1>2. Arg(1) \in Int /\ Arg(1) = Args[1]
    <2>1. 1 \in 1 .. Arity[res]
      BY <1>1
    <2> QED
      BY <1>1, <2>1, ArgsAre, NumbersInt DEF Arg
  <1>3. v \in {-1, 0, 1} /\ v * Arg(1) >= 0 /\ (v = 0 <=> Arg(1) = 0)
    BY <1>2
  <1>4. v \in Numbers
    BY <1>3, NumbersInt
  <1>5. params' = PushNum(Popped(params, Arity[res]), v)
    BY <1>1 DEF Sgn, Back
  <1> HIDE DEF v
  <1>6. <<v>> \in Promised(res, Args)
    <2>1. Promised(res, Args)
            = {<<u>> : u \in {w \in {-1, 0, 1} : w * Args[1] >= 0 /\ (w = 0 <=> Args[1] = 0)}}
      BY <1>1 DEF Promised
    <2> QED
      BY <2>1, <1>2, <1>3
  <1>7. Answers(<<v>>)
    BY <1>1, <1>4, <1>5, <1>6, ResultPushed DEF Answers
  <1> QED
    BY <1>7

(* cmd: inside of another call it takes itself for one without arguments.  *)
LEMMA CommandGiven ==
  ASSUME HostInv, at = "call", Cmd
  PROVE  \E r : Answers(r)
  <1>1. res = "cmd" /\ res \in XFuncs /\ Arity[res] = 3 /\ Arity.cmd = 3
    BY ArityIs DEF Cmd, Called
  <1>2. -1 \in Numbers /\ -3 \in Numbers
    BY NumbersInt
  <1>3. CASE Len(params) = 3
    <2>1. params' = PushNum(Popped(params, Arity[res]), -1)
      BY <1>1, <1>3 DEF Cmd, Back
    <2>2. <<-1>> \in Promised(res, Args)
      BY <1>1 DEF Promised
    <2>3. Answers(<<-1>>)
      BY <1>1, <1>2, <2>1, <2>2, ResultPushed DEF Answers
    <2> QED
      BY <2>3
  <1>4. CASE Len(params) # 3
    <2>1. params' = PushNum(params, -3) /\ ~Careful
      BY <1>1, <1>4 DEF Cmd, Back, HostInv, Calling
    <2>2. Len(params) < ParamSlots
      BY <1>1, ArgsAre, ParametersOK DEF Parameters
    <2>3. params' = params \o <<-3>> /\ <<-3>> \in Seq(Numbers) /\ Len(<<-3>>) = 1
      BY <1>1, <1>2, <2>1, <2>2, ArgsAre, PushedIs
    <2>4. params' = Popped(params, Arity[res]) \o (Args \o <<-3>>)
      <3>1. /\ Popped(params, Arity[res]) \in Seq(Numbers) /\ Args \in Seq(Numbers)
            /\ params = Popped(params, Arity[res]) \o Args
        BY <1>1, ArgsAre
      <3>2. (Popped(params, Arity[res]) \o Args) \o <<-3>>
              = Popped(params, Arity[res]) \o (Args \o <<-3>>)
        BY <3>1, <2>3, ConcatAssociative
      <3>3. params' = (Popped(params, Arity[res]) \o Args) \o <<-3>>
        BY <3>1, <2>3
      <3> QED
        BY <3>2, <3>3
    <2>5. Args \o <<-3>> \in Seq(Numbers) /\ Len(Args \o <<-3>>) = 4
      BY <1>1, <2>3, ArgsAre, ConcatProperties
    <2>6. Answers(Args \o <<-3>>)
      BY <2>1, <2>4, <2>5 DEF Answers
    <2> QED
      BY <2>6
  <1> QED
    BY <1>3, <1>4

LEMMA HandlerGiven ==
  ASSUME HostInv, at = "call", OnCan
  PROVE  \E r : Answers(r)
  <1>1. res = "fire_on_can" /\ res \in XFuncs /\ Arity[res] = 4
    BY ArityIs DEF OnCan, Called
  <1>2. Promised(res, Args) = {IF HasOnCan THEN Args ELSE <<>>}
    BY <1>1 DEF Promised
  <1>3. CASE HasOnCan
    <2>1. params' = Popped(params, Arity[res]) \o Args
      BY <1>1, <1>3 DEF OnCan, Back
    <2>2. Answers(Args)
      BY <1>1, <1>2, <1>3, <2>1, ArgsAre DEF Answers
    <2> QED
      BY <2>2
  <1>4. CASE ~HasOnCan
    <2>1. params' = Popped(params, Arity[res])
      BY <1>1, <1>4 DEF OnCan, Back
    <2>2. Popped(params, Arity[res]) \o <<>> = Popped(params, Arity[res])
      BY <1>1, ArgsAre, ConcatEmptySeq
    <2>3. Answers(<<>>)
      BY <1>2, <1>4, <2>1, <2>2, EmptyAnswer DEF Answers
    <2> QED
      BY <2>3
  <1> QED
    BY <1>3, <1>4

-----------------------------------------------------------------------------
(* The stores.                                                             *)
LEMMA FreeSlot == Free # {} => Slot \in Free
  <1> SUFFICES ASSUME Free # {} PROVE Slot \in Free
    OBVIOUS
  <1>1. Free \in SUBSET Nat
    BY NumbersInt DEF Free
  <1>2. \E i \in Free : \A j \in Free : i <= j
    <2>1. PICK i \in Free : \A j \in Free : ~ (<<j, i>> \in OpToRel(<, Nat))
      BY <1>1, NatLessThanWellFounded, WFMin
    <2>2. ASSUME NEW j \in Free PROVE i <= j
      <3>1. <<j, i>> \notin {p \in Nat \X Nat : p[1] < p[2]}
        BY <2>1 DEF OpToRel
      <3>2. i \in Nat /\ j \in Nat
        BY <1>1
      <3> QED
        BY <3>1, <3>2
    <2> QED
      BY <2>2
  <1> QED
    BY <1>2 DEF Slot

(* kvs_create: the size is clipped, the store is empty.                    *)
LEMMA NewIs ==
  ASSUME NEW n \in Numbers, NEW d \in Numbers
  PROVE  InOrder(New(n, d))
  <1>1. Clip(n) \in 1 .. MaxElem
    BY NumbersInt, ParametersOK DEF Clip, Parameters
  <1>2. /\ New(n, d).cap = Clip(n) /\ New(n, d).dflt = d /\ New(n, d).map = [k \in {} |-> 0]
        /\ Keys(New(n, d)) = {}
    BY DEF New, Keys
  <1>3. IsFiniteSet({}) /\ Cardinality({}) = 0
    BY FS_EmptySet
  <1>4. Cardinality(Keys(New(n, d))) <= New(n, d).cap
    BY <1>1, <1>2, <1>3
  <1>5. New(n, d).map \in [Keys(New(n, d)) -> Numbers]
    BY <1>2
  <1> QED
    BY <1>1, <1>2, <1>3, <1>4, <1>5 DEF IsDict, InOrder, New

(* kvs_set keeps a store within its size.                                  *)
LEMMA PutIs ==
  ASSUME NEW s, InOrder(s), NEW k \in Numbers, NEW v \in Numbers
  PROVE  InOrder(Put(s, k, v))
  <1>1. CASE ~Room(s, k)
    BY <1>1 DEF Put
  <1>2. CASE Room(s, k)
    <2> DEFINE f == [q \in Keys(s) \cup {k} |-> IF q = k THEN v ELSE s.map[q]]
               t == [s EXCEPT !.map = f]
    <2>1. Put(s, k, v) = t
      BY <1>2 DEF Put
    <2>2. t.cap = s.cap /\ t.dflt = s.dflt
      OBVIOUS
    <2>3. InOrder(t)
      <3>1. t.map = f
        BY DEF InOrder
      <3>2. Keys(t) = Keys(s) \cup {k}
        BY <3>1 DEF Keys
      <3>3. f \in [Keys(s) \cup {k} -> Numbers]
        BY DEF InOrder, IsDict
      <3>4. /\ IsFiniteSet(Keys(s) \cup {k})
            /\ Cardinality(Keys(s) \cup {k}) =
                 IF k \in Keys(s) THEN Cardinality(Keys(s)) ELSE Cardinality(Keys(s)) + 1
        BY FS_AddElement DEF InOrder
      <3>5. Cardinality(Keys(s)) \in Nat /\ s.cap \in 1 .. MaxElem
            /\ Cardinality(Keys(s)) <= s.cap
        BY FS_CardinalityType DEF InOrder, IsDict
      <3>6. Cardinality(Keys(s) \cup {k}) <= s.cap
        BY <1>2, <3>4, <3>5, ParametersOK DEF Room, Parameters
      <3> HIDE DEF f, t
      <3>7. IsDict(t)
        BY <2>2, <3>1, <3>2, <3>3, <3>5, <3>6 DEF IsDict, InOrder
      <3>8. "map" \in DOMAIN t
        BY DEF t, InOrder
      <3> QED
        BY <3>2, <3>4, <3>7, <3>8 DEF InOrder
    <2> QED
      BY <2>1, <2>3
  <1> QED
    BY <1>1, <1>2

(* The least that a step must do to the stores for them to stay in order.  *)
LEMMA StoresSame ==
  ASSUME StoresOK, stores' = stores, book' = book
  PROVE  StoresOK'
  BY DEF StoresOK

LEMMA StoreCreated ==
  ASSUME HostInv, at = "call", Create, Noted
  PROVE  StoresOK' /\ (\E r : Answers(r)) /\ UNCHANGED wait
  <1>1. res = "kvs_create" /\ res \in XFuncs /\ Arity[res] = 2 /\ wait' = wait
    BY ArityIs DEF Create, Called
  <1>2. Arg(1) \in Numbers /\ Arg(2) \in Numbers
    <2>1. 1 \in 1 .. Arity[res] /\ 2 \in 1 .. Arity[res]
      BY <1>1
    <2> QED
      BY <1>1, <2>1, ArgsAre
  <1>3. StoresOK /\ DOMAIN book = DOMAIN stores
    BY DEF HostInv, StoresOK
  <1>4. CASE Free # {} /\ stores' = [i \in DOMAIN stores \cup {Slot} |->
                                       IF i = Slot THEN New(Arg(1), Arg(2)) ELSE stores[i]]
             /\ Back(PushNum(Popped(params, 2), Slot))
    <2>1. Slot \in Ids /\ Slot \notin DOMAIN stores /\ Slot \in Numbers
      BY <1>4, FreeSlot, NumbersInt DEF Free
    <2>2. params' = PushNum(Popped(params, Arity[res]), Slot)
      BY <1>1, <1>4 DEF Back
    <2>3. Last(params') = Slot
      BY <1>1, <2>1, <2>2, ResultPushed
    <2>4. book' = [i \in DOMAIN book \cup {Slot} |->
                     IF i = Slot THEN New(Arg(1), Arg(2)) ELSE book[i]]
      BY <1>1, <2>1, <2>3 DEF Noted
    <2>5. book' = stores'
      BY <1>3, <1>4, <2>4 DEF StoresOK
    <2>6. InOrder(New(Arg(1), Arg(2)))
      BY <1>2, NewIs
    <2>7. /\ DOMAIN stores' = DOMAIN stores \cup {Slot}
          /\ stores' = [i \in DOMAIN stores' |-> stores'[i]]
          /\ \A i \in DOMAIN stores' :
               stores'[i] = IF i = Slot THEN New(Arg(1), Arg(2)) ELSE stores[i]
      BY <1>4
    <2>8. \A i \in DOMAIN stores' : InOrder(stores'[i])
      BY <1>3, <2>6, <2>7 DEF StoresOK
    <2>9. StoresOK'
      BY <1>3, <2>1, <2>5, <2>7, <2>8 DEF StoresOK
    <2>10. Promised(res, Args) = {<<i>> : i \in Ids \ DOMAIN book}
      <3>1. DOMAIN book # Ids
        BY <1>3, <2>1
      <3> QED
        BY <1>1, <3>1 DEF Promised
    <2>11. Answers(<<Slot>>)
      BY <1>1, <1>3, <2>1, <2>2, <2>10, ResultPushed DEF Answers
    <2> QED
      BY <1>1, <2>9, <2>11
  <1>5. CASE Free = {} /\ Back(PushNum(Popped(params, 2), -1)) /\ UNCHANGED stores
    <2>1. -1 \in Numbers /\ -1 \notin Ids
      BY NumbersInt
    <2>2. params' = PushNum(Popped(params, Arity[res]), -1)
      BY <1>1, <1>5 DEF Back
    <2>3. Last(params') = -1
      BY <1>1, <2>1, <2>2, ResultPushed
    <2>4. book' = book
      BY <1>1, <2>1, <2>3 DEF Noted
    <2>5. StoresOK'
      BY <1>3, <1>5, <2>4, StoresSame
    <2>6. <<-1>> \in Promised(res, Args)
      <3>1. DOMAIN book = Ids
        BY <1>3, <1>5 DEF Free, StoresOK
      <3>2. Promised(res, Args) = {<<-1>>}
        BY <1>1, <3>1 DEF Promised
      <3> QED
        BY <3>2
    <2>7. Answers(<<-1>>)
      BY <1>1, <2>1, <2>2, <2>6, ResultPushed DEF Answers
    <2> QED
      BY <1>1, <2>5, <2>7
  <1> QED
    BY <1>4, <1>5 DEF Create

LEMMA StoreSet ==
  ASSUME HostInv, at = "call", Set, Noted
  PROVE  StoresOK'
  <1>1. res = "kvs_set" /\ res \in XFuncs /\ Arity[res] = 3
    BY ArityIs DEF Set, Called
  <1>2. Arg(1) \in Numbers /\ Arg(2) \in Numbers /\ Arg(3) \in Numbers
    <2>1. 1 \in 1 .. Arity[res] /\ 2 \in 1 .. Arity[res] /\ 3 \in 1 .. Arity[res]
      BY <1>1
    <2> QED
      BY <1>1, <2>1, ArgsAre
  <1>3. StoresOK /\ book = stores /\ DOMAIN stores \subseteq Ids
    BY DEF HostInv, StoresOK
  <1>4. CASE Arg(1) \in DOMAIN stores
    <2> DEFINE s == Put(stores[Arg(1)], Arg(2), Arg(3))
    <2>1. stores' = [stores EXCEPT ![Arg(1)] = s]
      BY <1>3, <1>4 DEF Set, Exists
    <2>2. book' = [book EXCEPT ![Arg(1)] = s]
      BY <1>1, <1>3, <1>4 DEF Noted, Known
    <2>3. InOrder(stores[Arg(1)])
      BY <1>3, <1>4 DEF StoresOK
    <2>4. InOrder(s)
      BY <1>2, <2>3, PutIs
    <2> HIDE DEF s
    <2>5. /\ DOMAIN stores' = DOMAIN stores
          /\ stores' = [i \in DOMAIN stores' |-> stores'[i]]
          /\ \A i \in DOMAIN stores' : stores'[i] = IF i = Arg(1) THEN s ELSE stores[i]
      BY <2>1
    <2>6. \A i \in DOMAIN stores' : InOrder(stores'[i])
      BY <1>3, <2>4, <2>5 DEF StoresOK
    <2> QED
      BY <1>3, <2>1, <2>2, <2>5, <2>6 DEF StoresOK
  <1>5. CASE Arg(1) \notin DOMAIN stores
    BY <1>1, <1>3, <1>5, StoresSame DEF Set, Exists, Noted, Known
  <1> QED
    BY <1>4, <1>5

LEMMA StoreRead ==
  ASSUME HostInv, at = "call", Get
  PROVE  \E r : Answers(r)
  <1>1. res = "kvs_get" /\ res \in XFuncs /\ Arity[res] = 2
    BY ArityIs DEF Get, Called
  <1>2. Arg(1) = Args[1] /\ Arg(2) = Args[2] /\ Arg(1) \in Numbers
    <2>1. 1 \in 1 .. Arity[res]
      BY <1>1
    <2> QED
      BY <1>1, <2>1, ArgsAre DEF Arg
  <1>3. StoresOK
    BY DEF HostInv
  <1> DEFINE v == IF Exists(Arg(1)) THEN Value(stores[Arg(1)], Arg(2)) ELSE 0
  <1>4. v = IF Known(Args[1]) THEN Value(book[Args[1]], Args[2]) ELSE 0
    BY <1>2, <1>3 DEF StoresOK, Exists, Known
  <1>5. v \in Numbers
    <2>1. CASE Exists(Arg(1))
      <3>1. IsDict(stores[Arg(1)])
        BY <1>3, <2>1 DEF StoresOK, InOrder, Exists
      <3> QED
        BY <2>1, <3>1 DEF Value, IsDict
    <2>2. CASE ~Exists(Arg(1))
      BY <2>2, NumbersInt
    <2> QED
      BY <2>1, <2>2
  <1>6. params' = PushNum(Popped(params, Arity[res]), v)
    BY <1>1 DEF Get, Back
  <1> HIDE DEF v
  <1>7. Promised(res, Args) = {<<v>>}
    BY <1>1, <1>4 DEF Promised
  <1>8. Answers(<<v>>)
    BY <1>1, <1>5, <1>6, <1>7, ResultPushed DEF Answers
  <1> QED
    BY <1>8

(* Every call is answered.                                                 *)
LEMMA AnswerGives ==
  ASSUME HostInv, Answer
  PROVE  /\ at = "call" /\ at' = "inner" /\ UNCHANGED <<res, cycles, left, spent>>
         /\ res \in XFuncs => \E r : Answers(r)
         /\ res = "break" => params' = Popped(params, 1)
         /\ wait' \in Nat /\ StoresOK'
  <1>1. Calls /\ Noted
    BY DEF Answer
  <1>2. /\ at = "call" /\ at' = "inner" /\ UNCHANGED <<res, cycles, left, spent>>
    BY <1>1 DEF Calls, SetCur, Clear, Time, Sleep, Input, Cmd, Sgn, Payload, AtBreak,
         OnCan, Stores, Create, Set, Get, Back, Called
  <1>3. StoresOK /\ wait \in Nat
    BY DEF HostInv, TypeOK
  <1>4. ASSUME res \notin {"kvs_create", "kvs_set"}, stores' = stores PROVE StoresOK'
    BY <1>1, <1>3, <1>4, StoresSame DEF Noted
  <1>5. CASE Create
    BY <1>1, <1>2, <1>3, <1>5, StoreCreated DEF Create, Called
  <1>6. CASE Set
    BY <1>1, <1>2, <1>3, <1>6, StoreSet, NoResult DEF Set, Called
  <1>7. CASE Get
    BY <1>2, <1>3, <1>4, <1>7, StoreRead DEF Get, Called, Nothing
  <1>8. CASE SetCur
    BY <1>2, <1>3, <1>4, <1>8, NoResult DEF SetCur, Called, Nothing
  <1>9. CASE Clear
    BY <1>2, <1>3, <1>4, <1>9, NoResult, LineKept DEF Clear, Nothing
  <1>10. CASE Time \/ Input
    BY <1>2, <1>3, <1>4, <1>10, NumberRead DEF Time, Input, Called, Nothing
  <1>11. CASE Sleep
    <2>1. res = "sleep" /\ res \in XFuncs /\ 1 \in 1 .. Arity[res]
      BY <1>11, ArityIs DEF Sleep, Called
    <2>2. Arg(1) \in Int
      BY <1>2, <2>1, ArgsAre, NumbersInt
    <2>3. wait' \in Nat /\ stores' = stores
      BY <1>11, <2>2 DEF Sleep
    <2> QED
      BY <1>2, <1>4, <1>11, <2>1, <2>3, NoResult
  <1>12. CASE Cmd
    BY <1>2, <1>3, <1>4, <1>12, CommandGiven DEF Cmd, Called, Nothing
  <1>13. CASE Sgn
    BY <1>2, <1>3, <1>4, <1>13, SignGiven DEF Sgn, Called, Nothing
  <1>14. CASE Payload
    BY <1>2, <1>3, <1>4, <1>14, NoResult DEF Payload, Called, Nothing
  <1>15. CASE AtBreak
    <2>1. res = "break" /\ res \notin XFuncs /\ params' = Popped(params, 1)
          /\ wait' = wait /\ stores' = stores
      BY <1>15, ArityIs DEF AtBreak, Called, Back, Nothing
    <2> QED
      BY <1>2, <1>3, <1>4, <2>1
  <1>16. CASE OnCan
    BY <1>2, <1>3, <1>4, <1>16, HandlerGiven DEF OnCan, Called, Nothing
  <1> QED
    BY <1>1, <1>5, <1>6, <1>7, <1>8, <1>9, <1>10, <1>11, <1>12, <1>13, <1>14, <1>15, <1>16
       DEF Calls, Stores

-----------------------------------------------------------------------------
(* Where the counters stay in their range.                                 *)
LEMMA CountersNext ==
  ASSUME HostInv, [Next]_vars
  PROVE  cycles' \in 0 .. Budget /\ left' \in 0 .. Budget
  <1>0. cycles \in 0 .. Budget /\ left \in 0 .. Budget /\ Budget \in 1 .. MaxCycles
    BY BudgetFits DEF HostInv, TypeOK
  <1>1. CASE Outer
    BY <1>0, <1>1 DEF Outer
  <1>2. CASE Inner
    BY <1>0, <1>2 DEF Inner
  <1>3. CASE Pause \/ Tick \/ UNCHANGED vars
    BY <1>0, <1>3 DEF Pause, Tick, vars
  <1>4. ASSUME at = "vm", left > 1, left' = Minus1(left), spent' = spent + 1
        PROVE  left' \in 1 .. Budget
    BY <1>4, CostsOne DEF HostInv
  <1>5. CASE \E p : Instruction(p)
    BY <1>0, <1>4, <1>5 DEF Instruction
  <1>6. CASE \E r, p : Stops(r, p)
    BY <1>0, <1>4, <1>6 DEF Stops, Returned
  <1>7. CASE Busy
    <2>1. left = 1
      BY <1>7, <1>0 DEF Busy, HostInv, SliceInv
    <2>2. Minus1(left) = 0
      BY ONLY <2>1 DEF Minus1
    <2> QED
      BY <1>0, <1>7, <2>2 DEF Busy, Returned
  <1>8. CASE Run
    BY <1>8, <1>5, <1>6, <1>7 DEF Run, Compute, PushParam, PopParam, Ends, Break, XFunc
  <1>9. CASE Answer
    BY <1>0, <1>9, AnswerGives
  <1> QED
    BY <1>1, <1>2, <1>3, <1>8, <1>9 DEF Next, Loops

(* The parameter stack of a program within its frame.                      *)
LEMMA StackRoom ==
  ASSUME HostInv, NEW p \in Seq(Numbers), Len(p) <= MaxPending + 4
  PROVE  Len(p) <= ParamSlots /\ Len(p) \in Nat
  BY ParametersOK, LenProperties DEF Parameters

LEMMA HostNext == HostInv /\ [Next]_vars => HostInv'
  <1> SUFFICES ASSUME HostInv, [Next]_vars PROVE HostInv'
    OBVIOUS
  <1>1. SliceInv'
    BY SliceNext DEF HostInv
  <1>2. cycles' \in 0 .. Budget /\ left' \in 0 .. Budget
    BY CountersNext
  <1>3. /\ params \in Seq(Numbers) /\ Len(params) \in Nat /\ wait \in Nat /\ StoresOK
        /\ Len(params) <= ParamSlots
        /\ res \in XFuncs \cup Final \cup {"busy", "reti"}
        /\ at \in {"outer", "inner", "vm", "call", "pause", "done"}
    BY LenProperties DEF HostInv, TypeOK
  <1>4. at # "call" => Len(params) <= MaxPending + 4
    BY DEF HostInv, Calling
  <1>5. ASSUME params' \in Seq(Numbers), Len(params') <= ParamSlots, wait' \in Nat, StoresOK',
               res' \in XFuncs \cup Final \cup {"busy", "reti"},
               at' \in {"outer", "inner", "vm", "call", "pause", "done"}
        PROVE  TypeOK' /\ StoresOK'
    BY <1>2, <1>5 DEF TypeOK, StoresOK, InOrder
  <1>6. ASSUME at' # "call", Len(params') <= MaxPending + 4 PROVE Calling'
    BY <1>6 DEF Calling
  <1>7. CASE Loops \/ Tick
    <2>1. /\ params' = params /\ stores' = stores /\ book' = book /\ res' = res
          /\ wait' \in Nat
      BY <1>3, <1>7 DEF Loops, Outer, Inner, Pause, Tick
    <2>2. StoresOK'
      BY <1>3, <2>1, StoresSame
    <2>3. CASE Loops
      <3>1. at # "call" /\ at' \in {"inner", "done", "vm", "pause", "outer"}
        BY <2>3 DEF Loops, Outer, Inner, Pause
      <3>2. Calling'
        BY <1>4, <1>6, <2>1, <3>1
      <3>3. TypeOK'
        BY <1>3, <1>5, <2>1, <2>2, <3>1
      <3> QED
        BY <1>1, <2>2, <3>2, <3>3 DEF HostInv
    <2>4. CASE Tick
      <3>1. at' = at
        BY <2>4 DEF Tick
      <3>2. Calling'
        BY <2>1, <3>1 DEF Calling, HostInv
      <3>3. TypeOK'
        BY <1>3, <1>5, <2>1, <2>2, <3>1
      <3> QED
        BY <1>1, <2>2, <3>2, <3>3 DEF HostInv
    <2> QED
      BY <1>7, <2>3, <2>4
  <1>8. ASSUME NEW p, p \in Seq(Numbers), Len(p) <= MaxPending + 4, Instruction(p)
        PROVE  HostInv'
    <2>1. /\ params' = p /\ stores' = stores /\ book' = book /\ res' = res /\ wait' = wait
          /\ at' = "vm"
      BY <1>8 DEF Instruction
    <2>2. StoresOK'
      BY <1>3, <2>1, StoresSame
    <2>3. Calling'
      BY <1>6, <1>8, <2>1
    <2>4. TypeOK'
      BY <1>3, <1>5, <1>8, <2>1, <2>2, StackRoom
    <2> QED
      BY <1>1, <2>2, <2>3, <2>4 DEF HostInv
  <1>9. CASE Compute \/ PushParam \/ PopParam
    <2>1. at = "vm"
      BY <1>9 DEF Compute, PushParam, PopParam, Instruction
    <2>2. CASE Compute
      BY <1>3, <1>4, <1>8, <2>1, <2>2 DEF Compute
    <2>3. CASE PushParam
      <3>1. PICK v \in Values : Instruction(Append(params, v))
        BY <2>3 DEF PushParam
      <3>2. v \in Numbers
        BY NumbersInt
      <3>3. Append(params, v) \in Seq(Numbers) /\ Len(Append(params, v)) = Len(params) + 1
        BY <1>3, <3>2, AppendProperties
      <3>4. Len(Append(params, v)) <= MaxPending + 4
        BY <1>3, <2>3, <3>3, ParametersOK DEF PushParam, Parameters
      <3> QED
        BY <1>8, <3>1, <3>3, <3>4
    <2>4. CASE PopParam
      <3>1. Len(params) >= 1
        BY <1>3, <2>4, EmptySeq DEF PopParam
      <3>2. 1 \in 0 .. Len(params)
        BY <1>3, <3>1
      <3>3. Popped(params, 1) \in Seq(Numbers) /\ Len(Popped(params, 1)) = Len(params) - 1
        BY <1>3, <3>2, PoppedIs
      <3>4. Len(Popped(params, 1)) <= MaxPending + 4
        BY <1>3, <1>4, <2>1, <3>3, ParametersOK DEF Parameters
      <3>5. Instruction(Popped(params, 1))
        BY <2>4 DEF PopParam, Front, Popped
      <3> QED
        BY <1>8, <3>3, <3>4, <3>5
    <2> QED
      BY <1>9, <2>2, <2>3, <2>4
  <1>10. CASE Ends \/ Busy
    <2>1. /\ params' = params /\ stores' = stores /\ book' = book /\ wait' = wait
          /\ at = "vm" /\ at' = "inner" /\ res' \in {"end", "error", "reti", "busy"}
      BY <1>10, ArityIs DEF Ends, Stops, Busy
    <2>2. StoresOK'
      BY <1>3, <2>1, StoresSame
    <2>3. Calling'
      BY <1>4, <1>6, <2>1
    <2>4. TypeOK'
      BY <1>3, <1>5, <2>1, <2>2 DEF Final
    <2> QED
      BY <1>1, <2>2, <2>3, <2>4 DEF HostInv
  <1>11. CASE Break
    <2>1. /\ params' = Append(params, 0) /\ stores' = stores /\ book' = book /\ wait' = wait
          /\ at = "vm" /\ at' = "call" /\ res' = "break"
      BY <1>11 DEF Break, Stops
    <2>2. StoresOK'
      BY <1>3, <2>1, StoresSame
    <2>3. 0 \in Numbers
      BY NumbersInt
    <2>4. params' \in Seq(Numbers) /\ Len(params') = Len(params) + 1
      BY <1>3, <2>1, <2>3, AppendProperties
    <2>5. Len(params') <= MaxPending + 5 /\ Len(params') <= ParamSlots /\ Len(params') >= 1
      BY <1>3, <1>4, <2>1, <2>4, ParametersOK DEF Parameters
    <2>6. Calling'
      BY <2>1, <2>5, ArityIs DEF Calling
    <2>7. TypeOK'
      BY <1>3, <1>5, <2>1, <2>2, <2>4, <2>5 DEF Final
    <2> QED
      BY <1>1, <2>2, <2>6, <2>7 DEF HostInv
  <1>12. ASSUME NEW x \in XFuncs, XFunc(x) PROVE HostInv'
    <2>1. /\ params' = params /\ stores' = stores /\ book' = book /\ wait' = wait
          /\ at = "vm" /\ at' = "call" /\ res' = x
          /\ Len(params) \in Arity[x] .. Arity[x] + MaxPending
      BY <1>12 DEF XFunc, Stops
    <2>2. StoresOK'
      BY <1>3, <2>1, StoresSame
    <2>3. Len(params) <= MaxPending + 4 /\ x # "break"
      BY <1>4, <2>1, ArityIs
    <2>4. Careful => x # "clrline" /\ (x = "cmd" => Len(params) = 3)
      <3>1. /\ x = "clrline" => "clrline" \in Habits
            /\ x = "cmd" /\ Len(params) > Arity[x] => "nested" \in Habits
        BY <1>12 DEF XFunc
      <3>2. x = "cmd" => Arity[x] = 3
        BY ArityIs
      <3>3. ASSUME Careful, x = "cmd" PROVE Len(params) = 3
        <4>1. ~(Len(params) > Arity[x]) /\ Arity[x] = 3
          BY <3>1, <3>2, <3>3 DEF Careful
        <4>2. Len(params) >= Arity[x] /\ Len(params) \in Nat
          BY <1>3, <2>1, <4>1, ParametersOK DEF Parameters
        <4> QED
          BY <4>1, <4>2
      <3>4. Careful => x # "clrline"
        BY <3>1 DEF Careful
      <3> QED
        BY <3>3, <3>4
    <2>5. Calling'
      BY <2>1, <2>3, <2>4 DEF Calling
    <2>6. TypeOK'
      BY <1>3, <1>5, <2>1, <2>2
    <2> QED
      BY <1>1, <2>2, <2>5, <2>6 DEF HostInv
  <1>13. CASE Answer
    <2>1. /\ at = "call" /\ at' = "inner" /\ res' = res
          /\ res \in XFuncs => \E r : Answers(r)
          /\ res = "break" => params' = Popped(params, 1)
          /\ wait' \in Nat /\ StoresOK'
      BY <1>13, AnswerGives
    <2>2. params' \in Seq(Numbers) /\ Len(params') <= MaxPending + 4
      <3>1. CASE res \in XFuncs
        <4>1. PICK r : Answers(r)
          BY <2>1, <3>1
        <4>2. r \in Seq(Numbers) /\ Len(r) <= 4 /\ params' = Popped(params, Arity[res]) \o r
              /\ Len(r) \in Nat
          BY <4>1, LenProperties DEF Answers
        <4>3. /\ params' \in Seq(Numbers)
              /\ Len(params') = Len(Popped(params, Arity[res])) + Len(r)
          BY <2>1, <3>1, <4>2, ArgsAre, ConcatProperties
        <4>4. Len(Popped(params, Arity[res])) = Len(params) - Arity[res]
              /\ Len(params) <= Arity[res] + MaxPending /\ Arity[res] \in 0 .. 4
          BY <2>1, <3>1, ArgsAre
        <4> QED
          BY <1>3, <4>2, <4>3, <4>4, ParametersOK DEF Parameters
      <3>2. CASE res = "break"
        <4>1. Len(params) >= 1 /\ Len(params) <= MaxPending + 5
          BY <2>1, <3>2 DEF HostInv, Calling
        <4>2. 1 \in 0 .. Len(params)
          BY <1>3, <4>1
        <4>3. Popped(params, 1) \in Seq(Numbers) /\ Len(Popped(params, 1)) = Len(params) - 1
          BY <1>3, <4>2, PoppedIs
        <4> QED
          BY <1>3, <2>1, <3>2, <4>1, <4>3, ParametersOK DEF Parameters
      <3> QED
        BY <2>1, <3>1, <3>2 DEF HostInv, Calling
    <2>3. Calling'
      BY <1>6, <2>1, <2>2
    <2>4. TypeOK'
      BY <1>3, <1>5, <2>1, <2>2, StackRoom
    <2> QED
      BY <1>1, <2>1, <2>3, <2>4 DEF HostInv
  <1>14. CASE UNCHANGED vars
    <2>1. /\ at' = at /\ res' = res /\ wait' = wait /\ params' = params
          /\ stores' = stores /\ book' = book
      BY <1>14 DEF vars
    <2>2. StoresOK'
      BY <1>3, <2>1, StoresSame
    <2>3. Calling'
      BY <2>1 DEF Calling, HostInv
    <2>4. TypeOK'
      BY <1>3, <1>5, <2>1, <2>2
    <2> QED
      BY <1>1, <2>2, <2>3, <2>4 DEF HostInv
  <1>15. CASE Run
    BY <1>9, <1>10, <1>11, <1>12, <1>15 DEF Run
  <1> QED
    BY <1>7, <1>13, <1>14, <1>15 DEF Next

LEMMA HostInit == Init => HostInv
  <1> SUFFICES ASSUME Init PROVE HostInv
    OBVIOUS
  <1>1. SliceInv
    BY SliceInit
  <1>2. /\ at = "outer" /\ res = "busy" /\ params = <<>> /\ wait = 0 /\ cycles = 0 /\ left = 0
        /\ DOMAIN stores = {} /\ stores = [i \in {} |-> 0] /\ book = stores
    BY DEF Init
  <1>3. <<>> \in Seq(Numbers) /\ Len(<<>>) = 0
    BY EmptySeq
  <1>4. Calling
    BY <1>2, <1>3, ParametersOK DEF Calling, Parameters
  <1>5. StoresOK
    BY <1>2 DEF StoresOK
  <1>6. 0 \in 0 .. Budget /\ 0 <= ParamSlots
    BY BudgetFits, ParametersOK DEF Parameters
  <1>7. TypeOK
    BY <1>2, <1>3, <1>5, <1>6 DEF TypeOK, StoresOK
  <1> QED
    BY <1>1, <1>4, <1>5, <1>7 DEF HostInv

LEMMA HostAlways == Spec => []HostInv
  BY HostInit, HostNext, PTL DEF Spec

(* Every variable has its type: the parameter stack does not overflow, no  *)
(* store holds more entries than it has room for.                          *)
THEOREM TypeCorrect == Spec => []TypeOK
  <1>1. HostInv => TypeOK
    BY DEF HostInv
  <1> QED
    BY <1>1, HostAlways, PTL

(* Every external function takes its own arguments and leaves the result   *)
(* that its declaration and the program's record of its stores say, in     *)
(* programs that do not call clrline, nor cmd inside the arguments of      *)
(* another call (main of test/main.c; MCHostClrline, MCHostNested).        *)
THEOREM CallsCorrect ==
  ASSUME Careful
  PROVE  Spec => CallsAnswered
  <1>1. ASSUME HostInv, [Next]_vars, at = "call", at' = "inner", res \in XFuncs
        PROVE  \E r \in Promised(res, Args) : params' = Popped(params, Arity[res]) \o r
    <2>1. Answer
      BY <1>1 DEF Next, Loops, Outer, Inner, Pause, Tick, Run, Compute, PushParam, PopParam,
                  Instruction, Ends, Break, Stops, Busy, XFunc, vars
    <2> QED
      BY <1>1, <2>1, AnswerGives DEF Answers
  <1>2. HostInv /\ [Next]_vars =>
          [at = "call" /\ at' = "inner" /\ res \in XFuncs =>
             \E r \in Promised(res, Args) : params' = Popped(params, Arity[res]) \o r]_vars
    BY <1>1
  <1> QED
    BY <1>2, HostAlways, PTL DEF Spec, CallsAnswered
=============================================================================
