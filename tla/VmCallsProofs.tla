--------------------------- MODULE VmCallsProofs ----------------------------
(***************************************************************************)
(* What is proved of the two stacks of the virtual machine, for stacks of  *)
(* every size, and for every set of functions; and, at the end, of the     *)
(* counting of its for loops, whose model (ForLoop) shares nothing with    *)
(* that of the stacks.                                                     *)
(***************************************************************************)
EXTENDS VmCalls, ForLoop, SequenceTheorems, FiniteSetTheorems, TLAPS

(* Programs that fit on the two stacks, never pass fewer arguments than a  *)
(* function has parameters, and have reti only where no value is returned. *)
(* They may pass more arguments than there are parameters.                 *)
Bounded == {"deep", "args", "few", "reti"} \cap Habits = {}
(* Programs whose calls and events pass no more either.                    *)
Tight == {"arity", "event"} \cap Habits = {}

-----------------------------------------------------------------------------
(* The inductive invariant.                                                *)
ActRecord == [pc : Place, fp : 0 .. StackSize, sp : 0 .. StackSize,
              psp : 0 .. ParamStackSize, loops : 0 .. MaxForLoops]

(* What the places between two instructions have in common.                *)
Good(p) ==
  /\ p.at \in {"enter", "params", "local"} =>
       p.fn # Main /\ p.loops = 0 /\ ~p.header /\ p.temps = 0 /\ p.args <= Params[p.fn]
  /\ p.at = "params" => p.args > 0
  /\ p.at = "local" => p.args < Params[p.fn]
  /\ p.at \in {"ret", "xparam"} => p.temps < MaxTemps
  /\ p.at \in {"xparam", "xpop"} => p.args > 0

(* Where the frame of the activation above the i-th begins; the loops that *)
(* are open, and the arguments that are pushed, up to the i-th.            *)
BaseAt(s, i)  == IF i = 0 THEN 0 ELSE s[i].sp + 2
LoopsAt(s, i) == IF i = 0 THEN 0 ELSE s[i].loops
PspAt(s, i)   == IF i = 0 THEN 0 ELSE s[i].psp

FrameEnd(p) == FrameSize(p.fn) + 2 * p.loops + p.temps

(* An activation that waits begins above the one below it, ends where the  *)
(* compiler expects it, and adds its own loops and arguments.              *)
Waiter(s, i) ==
  /\ Good(s[i].pc) /\ s[i].pc.at \in {"code", "ret"}
  /\ s[i].pc.fn = Main <=> i = 1
  /\ s[i].fp = BaseAt(s, i - 1)
  /\ s[i].sp = s[i].fp + FrameEnd(s[i].pc)
  /\ s[i].sp < StackSize
  /\ s[i].loops = LoopsAt(s, i - 1) + OpenLoops(s[i].pc)
  /\ s[i].psp >= PspAt(s, i - 1) + s[i].pc.args
  /\ Tight => s[i].psp = PspAt(s, i - 1) + s[i].pc.args

Chained == \A i \in 1 .. Len(acts) : Waiter(acts, i)
Ordered == \A i, j \in 1 .. Len(acts) : i < j => acts[i].sp + 2 <= acts[j].sp

(* The two cells between two frames still hold what was put there.         *)
Saved ==
  /\ \A i \in 1 .. Len(acts) : stack[acts[i].sp] = Ret(acts[i].pc)
  /\ \A i \in 1 .. Len(acts) : (i < Len(acts) \/ pc.at # "enter") =>
       acts[i].sp + 1 < StackSize /\ stack[acts[i].sp + 1] = Link(acts[i].fp)

RunsAt ==
  /\ Good(pc)
  /\ acts = <<>> <=> pc.fn = Main
  /\ pc.at = "enter" => /\ fp = acts[Len(acts)].fp /\ sp = acts[Len(acts)].sp + 1
                        /\ res = "busy"
  /\ pc.at # "enter" => fp = BaseAt(acts, Len(acts))
  /\ StackCounted

LoopsOpen ==
  res # "error" => /\ nested_loop_idx = LoopsAt(acts, Len(acts)) + OpenLoops(pc)
                   /\ nested_loop_idx <= MaxForLoops

(* What the host still has to take from the parameter stack.               *)
Owed == IF res \in XFuncs THEN XArgs[res] - (IF res \in XValued THEN 1 ELSE 0) ELSE 0

ParamsOwned ==
  /\ res = "busy" \/ res \in XFuncs =>
       /\ psp >= PspAt(acts, Len(acts)) + pc.args + Owed
       /\ Tight => psp = PspAt(acts, Len(acts)) + pc.args + Owed
  /\ res \in XValued => psp - XArgs[res] + 1 <= ParamStackSize
  /\ res = Fire => pc.at = "code"
  /\ res \in XValued => pc.args > 0

Frames   == Chained /\ Ordered /\ Saved
CallsInv == TypeOK /\ Frames /\ RunsAt /\ LoopsOpen /\ ParamsOwned

-----------------------------------------------------------------------------
(* The cells of the stack.                                                 *)
LEMMA SlotIs ==
  ASSUME NEW n \in 0 .. StackSize - 1
  PROVE  Slot(n) = n
<1>1. StackSize \in Nat BY CallsAssumption
<1> QED BY <1>1, Z3 DEF Slot

LEMMA ParamSlotIs ==
  ASSUME NEW n \in 0 .. ParamStackSize - 1
  PROVE  ParamSlot(n) = n
<1>1. ParamStackSize \in Nat BY CallsAssumption
<1> QED BY <1>1, Z3 DEF ParamSlot

LEMMA CellTypes ==
  /\ \A v \in Values \cup {Stale} : Num(v) \in Cells
  /\ \A f \in Nat : Link(f) \in Cells /\ AsLink(Link(f)) = f
  /\ \A p \in Place : Ret(p) \in Cells /\ AsRet(Ret(p)) = p
  /\ \A c : AsNum(c) \in Values \cup {Stale}
<1>1. \A v \in Values \cup {Stale} : Num(v) \in Cells
  BY DEF Num, Cells, Numbers
<1>2. \A f \in Nat : Link(f) \in Cells /\ AsLink(Link(f)) = f
  BY DEF Link, AsLink, Cells
<1>3. \A p \in Place : Ret(p) \in Cells /\ AsRet(Ret(p)) = p
  <2> TAKE p \in Place
  <2>1. Ret(p) \in [ret : Place] /\ Ret(p).ret = p BY DEF Ret
  <2> QED BY <2>1 DEF AsRet, Cells
<1>4. \A c : AsNum(c) \in Values \cup {Stale}
  BY DEF AsNum, Numbers
<1> QED BY <1>1, <1>2, <1>3, <1>4

(* Cells that are popped may change, the ones below them do not.           *)
LEMMA DroppedCells ==
  ASSUME stack \in [Slots -> Cells], sp \in 0 .. StackSize, NEW lo \in 0 .. sp
  PROVE  /\ Dropped(lo) \in [Slots -> Cells]
         /\ \A k \in Slots : k < lo => Dropped(lo)[k] = stack[k]
<1>1. StackSize \in Nat BY CallsAssumption
<1>2. Num(Stale) \in Cells BY CellTypes
<1>3. Dropped(lo) \in [Slots -> Cells] BY <1>2 DEF Dropped
<1>4. ASSUME NEW k \in Slots, k < lo
      PROVE  Dropped(lo)[k] = stack[k]
  <2>1. ASSUME NEW n \in lo .. sp - 1
        PROVE  Slot(n) # k
    <3>1. n \in 0 .. StackSize - 1 BY <1>1
    <3>2. Slot(n) = n BY <3>1, SlotIs
    <3> QED BY <3>2, <1>1, <1>4 DEF Slots
  <2> QED BY <2>1 DEF Dropped
<1> QED BY <1>3, <1>4

LEMMA PoppedParams ==
  ASSUME paramstack \in [ParamSlots -> Values \cup {Stale}], NEW n
  PROVE  PopParams(n) \in [ParamSlots -> Values \cup {Stale}]
BY DEF PopParams

LEMMA PlaceTypes ==
  ASSUME NEW p \in Place
  PROVE  /\ p.fn \in Funcs \cup {Main} /\ p.header \in BOOLEAN
         /\ p.loops \in Nat /\ p.temps \in Nat /\ p.args \in Nat
         /\ p.loops <= MaxForLoops /\ p.temps <= MaxTemps /\ p.args <= MaxArgs
         /\ FrameSize(p.fn) \in Nat /\ FrameEnd(p) \in Nat /\ OpenLoops(p) \in Nat
<1>1. /\ p.fn \in Funcs \cup {Main} /\ p.header \in BOOLEAN
      /\ p.loops \in Nat /\ p.temps \in Nat /\ p.args \in Nat
      /\ p.loops <= MaxForLoops /\ p.temps <= MaxTemps /\ p.args <= MaxArgs
  BY CallsAssumption DEF Place
<1>2. FrameSize(p.fn) \in Nat BY <1>1, CallsAssumption DEF FrameSize
<1>3. FrameEnd(p) \in Nat BY ONLY <1>1, <1>2 DEF FrameEnd
<1>4. OpenLoops(p) \in Nat BY ONLY <1>1 DEF OpenLoops
<1> QED BY <1>1, <1>2, <1>3, <1>4

LEMMA FrameSum ==
  ASSUME NEW p \in Place, NEW b \in Nat
  PROVE  b + FrameEnd(p) = b + FrameSize(p.fn) + 2 * p.loops + p.temps + 0
<1>1. p.loops \in Nat /\ p.temps \in Nat /\ FrameSize(p.fn) \in Nat
  BY PlaceTypes
<1> DEFINE l == p.loops  t == p.temps  z == FrameSize(p.fn)
<1>2. b + (z + 2 * l + t) = b + z + 2 * l + t + 0
  <2> HIDE DEF l, t, z
  <2>1. l \in Nat /\ t \in Nat /\ z \in Nat BY <1>1 DEF l, t, z
  <2> QED BY <2>1
<1> QED BY <1>2 DEF FrameEnd

LEMMA EntryPlace ==
  ASSUME NEW f \in Funcs
  PROVE  /\ Entry(f) \in Place /\ Entry(f).fn = f /\ Entry(f).at = "enter" /\ f # Main
         /\ Entry(f).args = Params[f] /\ Good(Entry(f)) /\ OpenLoops(Entry(f)) = 0
         /\ Params[f] \in Nat
<1>1. /\ Entry(f).fn = f /\ Entry(f).at = "enter" /\ Entry(f).loops = 0
      /\ Entry(f).header = FALSE /\ Entry(f).temps = 0 /\ Entry(f).args = Params[f]
  BY DEF Entry, Start
<1>2. f # Main /\ Params[f] \in 0 .. MaxArgs /\ Params[f] \in Nat
  BY CallsAssumption
<1>3. 0 \in 0 .. MaxForLoops /\ 0 \in 0 .. MaxTemps
  BY CallsAssumption
<1>4. Entry(f) \in Place BY <1>2, <1>3 DEF Place, Entry, Start
<1> QED BY ONLY <1>1, <1>2, <1>4 DEF Good, OpenLoops

(* What is known of the youngest activation that waits.                    *)
LEMMA LastWaiter ==
  ASSUME TypeOK, Frames, acts # <<>>
  PROVE  /\ Len(acts) \in 1 .. Len(acts) /\ Len(acts) \in Nat \ {0}
         /\ acts[Len(acts)] \in ActRecord
         /\ Waiter(acts, Len(acts))
         /\ stack[acts[Len(acts)].sp] = Ret(acts[Len(acts)].pc)
         /\ \A i \in 1 .. Len(acts) : acts[i].sp <= acts[Len(acts)].sp
<1>1. acts \in Seq(ActRecord) BY DEF TypeOK, ActRecord
<1>2. Len(acts) \in Nat \ {0} BY <1>1, EmptySeq, LenProperties
<1>3. Len(acts) \in 1 .. Len(acts) BY <1>2
<1>4. \A i \in 1 .. Len(acts) : acts[i] \in ActRecord BY <1>1, ElementOfSeq
<1>5. \A i \in 1 .. Len(acts) : acts[i].sp \in Nat
  BY <1>4, CallsAssumption DEF ActRecord
<1>6. \A i \in 1 .. Len(acts) : acts[i].sp <= acts[Len(acts)].sp
  BY <1>2, <1>3, <1>5 DEF Frames, Ordered
<1> QED BY <1>2, <1>3, <1>4, <1>6 DEF Frames, Chained, Saved

(* Where the running activation is.                                        *)
LEMMA Bases ==
  ASSUME TypeOK, Frames
  PROVE  /\ Len(acts) \in Nat /\ (acts = <<>> <=> Len(acts) = 0)
         /\ BaseAt(acts, Len(acts)) \in Nat
         /\ LoopsAt(acts, Len(acts)) \in 0 .. MaxForLoops
         /\ PspAt(acts, Len(acts)) \in 0 .. ParamStackSize
         /\ \A i \in 1 .. Len(acts) : acts[i].sp \in Nat
                                      /\ acts[i].sp + 2 <= BaseAt(acts, Len(acts))
<1>1. acts \in Seq(ActRecord) BY DEF TypeOK, ActRecord
<1>2. Len(acts) \in Nat /\ (acts = <<>> <=> Len(acts) = 0)
  BY <1>1, EmptySeq, LenProperties
<1>3. \A i \in 1 .. Len(acts) : acts[i] \in ActRecord BY <1>1, ElementOfSeq
<1>4. \A i \in 1 .. Len(acts) : acts[i].sp \in Nat
  BY <1>3, CallsAssumption DEF ActRecord
<1>5. CASE acts = <<>>
  BY <1>2, <1>5, CallsAssumption DEF BaseAt, LoopsAt, PspAt
<1>6. CASE acts # <<>>
  <2>1. acts[Len(acts)] \in ActRecord /\ Len(acts) # 0
    BY <1>6, LastWaiter
  <2>2. \A i \in 1 .. Len(acts) : acts[i].sp <= acts[Len(acts)].sp
    BY <1>6, LastWaiter
  <2>3. acts[Len(acts)].sp \in Nat BY <2>1, CallsAssumption DEF ActRecord
  <2>4. BaseAt(acts, Len(acts)) = acts[Len(acts)].sp + 2 BY <2>1 DEF BaseAt
  <2>5. \A i \in 1 .. Len(acts) : acts[i].sp + 2 <= BaseAt(acts, Len(acts))
    BY <2>2, <2>3, <2>4, <1>4
  <2> QED BY <1>2, <1>4, <2>1, <2>3, <2>4, <2>5 DEF LoopsAt, PspAt, ActRecord
<1> QED BY <1>5, <1>6

-----------------------------------------------------------------------------
(* A step inside the running activation.                                   *)
LEMMA Moved ==
  ASSUME CallsInv, acts' = acts, fp' = fp,
         pc.at # "enter", pc'.at # "enter", pc' \in Place, pc'.fn = pc.fn, Good(pc'),
         stack' \in [Slots -> Cells],
         \A k \in Slots : k < fp => stack'[k] = stack[k],
         sp' \in 0 .. StackSize,
         sp' = fp + FrameEnd(pc') + (IF pc'.at = "local" THEN 1 ELSE 0),
         paramstack' \in [ParamSlots -> Values \cup {Stale}],
         psp' \in 0 .. ParamStackSize,
         ret_val' \in Values \cup {Stale},
         nested_loop_idx' \in 0 .. MaxForLoops + 1,
         res' \in {"busy", "error", "end"} \cup XFuncs
  PROVE  TypeOK' /\ Frames' /\ RunsAt'
<1>1. TypeOK /\ Frames /\ RunsAt BY DEF CallsInv
<1>2. fp = BaseAt(acts, Len(acts)) BY <1>1 DEF RunsAt
<1>3. /\ Len(acts) \in Nat
      /\ fp \in Nat
      /\ \A i \in 1 .. Len(acts) : acts[i].sp \in Nat /\ acts[i].sp + 2 <= fp
  BY <1>1, <1>2, Bases
<1>4. /\ FrameEnd(pc') \in Nat /\ FrameSize(pc'.fn) \in Nat
      /\ pc'.loops \in Nat /\ pc'.temps \in Nat
  <2>1. \A p \in Place : /\ FrameEnd(p) \in Nat /\ FrameSize(p.fn) \in Nat
                         /\ p.loops \in Nat /\ p.temps \in Nat
    BY PlaceTypes
  <2> QED BY <2>1
<1>5. sp' \in Nat /\ fp <= sp'
  BY <1>3, <1>4
<1>6. TypeOK' BY <1>1, <1>3, <1>5 DEF TypeOK
<1>7. Chained' /\ Ordered' BY <1>1 DEF Frames, Chained, Ordered, Waiter
<1>8. Saved'
  <2>1. fp <= StackSize /\ StackSize \in Nat BY <1>3, <1>5, CallsAssumption
  <2>2. ASSUME NEW i \in 1 .. Len(acts)
        PROVE  stack'[acts[i].sp] = Ret(acts[i].pc)
               /\ acts[i].sp + 1 < StackSize /\ stack'[acts[i].sp + 1] = Link(acts[i].fp)
    <3>1. acts[i].sp \in Slots /\ acts[i].sp + 1 \in Slots
          /\ acts[i].sp < fp /\ acts[i].sp + 1 < fp
      BY <1>3, <2>1 DEF Slots
    <3> QED BY <3>1, <1>1 DEF Frames, Saved
  <2> QED BY <2>2 DEF Saved
<1>9. RunsAt'
  <2>1. StackCounted'
    <3>1. sp' = fp + FrameEnd(pc') + (IF pc'.at = "local" THEN 1 ELSE 0) /\ fp' = fp
      OBVIOUS
    <3> QED BY ONLY <3>1, <1>3, <1>4 DEF StackCounted, FrameEnd
  <2> QED BY <2>1, <1>1, <1>2 DEF RunsAt
<1> QED BY <1>6, <1>7, <1>8, <1>9 DEF Frames

(* Steps that open or close no loop; steps that take or leave an argument. *)
LEMMA SameLoops ==
  ASSUME CallsInv, res # "error", acts' = acts, nested_loop_idx' = nested_loop_idx,
         OpenLoops(pc') = OpenLoops(pc)
  PROVE  LoopsOpen'
BY DEF CallsInv, LoopsOpen, LoopsAt

LEMMA SameParams ==
  ASSUME CallsInv, res = "busy", res' = "busy", acts' = acts,
         NEW d \in Int, pc'.args = pc.args + d, psp' = psp + d
  PROVE  ParamsOwned'
<1>1. PspAt(acts, Len(acts)) \in Nat /\ psp \in Nat /\ pc.args \in Nat
  BY Bases, CallsAssumption DEF CallsInv, TypeOK, Place
<1>2. PspAt(acts, Len(acts))' = PspAt(acts, Len(acts)) BY DEF PspAt
<1>3. Owed = 0 /\ Owed' = 0 /\ "busy" \notin XValued /\ "busy" # Fire
  BY CallsAssumption DEF Owed
<1>4. /\ psp >= PspAt(acts, Len(acts)) + pc.args
      /\ Tight => psp = PspAt(acts, Len(acts)) + pc.args
  BY <1>1, <1>3 DEF CallsInv, ParamsOwned
<1>5. /\ psp' >= PspAt(acts, Len(acts)) + pc'.args
      /\ Tight => psp' = PspAt(acts, Len(acts)) + pc'.args
  BY <1>1, <1>4
<1> QED BY <1>1, <1>2, <1>3, <1>5 DEF ParamsOwned, Tight

(* A call: the caller will go on at p, with its frame up to s and its      *)
(* arguments up to q; f is entered with the arguments above them.          *)
LEMMA Called ==
  ASSUME CallsInv, pc.at # "enter", res # "error",
         NEW p \in Place, Good(p), p.fn = pc.fn, p.at \in {"code", "ret"},
         OpenLoops(p) = OpenLoops(pc),
         NEW s \in 0 .. StackSize - 1, s = fp + FrameEnd(p),
         NEW q \in 0 .. ParamStackSize,
         q >= PspAt(acts, Len(acts)) + p.args,
         Tight => q = PspAt(acts, Len(acts)) + p.args,
         acts' = Append(acts, [pc |-> p, fp |-> fp, sp |-> s, psp |-> q,
                               loops |-> nested_loop_idx]),
         stack' = [stack EXCEPT ![s] = Ret(p)],
         NEW f \in Funcs, pc' = Entry(f), sp' = s + 1, fp' = fp, res' = "busy",
         nested_loop_idx' = nested_loop_idx, ret_val' = ret_val,
         paramstack' = paramstack, psp' \in 0 .. ParamStackSize,
         psp' >= q + Params[f], Tight => psp' = q + Params[f]
  PROVE  CallsInv'
<1> DEFINE a == [pc |-> p, fp |-> fp, sp |-> s, psp |-> q, loops |-> nested_loop_idx]
           n == Len(acts)
<1>1. TypeOK /\ Frames /\ RunsAt /\ LoopsOpen BY DEF CallsInv
<1>2. /\ n \in Nat /\ (acts = <<>> <=> n = 0)
      /\ fp = BaseAt(acts, n) /\ fp \in Nat
      /\ LoopsAt(acts, n) \in 0 .. MaxForLoops
      /\ PspAt(acts, n) \in Nat
      /\ \A i \in 1 .. n : acts[i].sp \in Nat /\ acts[i].sp + 2 <= fp
  BY <1>1, Bases DEF RunsAt
<1>3. StackSize \in Nat /\ ParamStackSize \in Nat /\ MaxForLoops \in Nat
  BY CallsAssumption
<1>4. acts \in Seq(ActRecord) BY <1>1 DEF TypeOK, ActRecord
<1>5. nested_loop_idx = LoopsAt(acts, n) + OpenLoops(p) /\ nested_loop_idx \in 0 .. MaxForLoops
  BY <1>1, <1>3 DEF LoopsOpen, TypeOK
<1>6. FrameEnd(p) \in Nat BY PlaceTypes
<1>7. fp <= s /\ s \in Nat /\ s < StackSize
  <2>1. s = fp + FrameEnd(p) /\ s \in 0 .. StackSize - 1 OBVIOUS
  <2> QED BY ONLY <2>1, <1>2, <1>3, <1>6
<1>8. a \in ActRecord
  <2>1. fp \in 0 .. StackSize /\ s \in 0 .. StackSize BY <1>2, <1>3, <1>7
  <2> QED BY <2>1, <1>5 DEF ActRecord
<1>9. /\ acts' \in Seq(ActRecord) /\ Len(acts') = n + 1 /\ acts'[n + 1] = a
      /\ \A i \in 1 .. n : acts'[i] = acts[i]
  BY <1>4, <1>8, AppendProperties
<1>10. Entry(f) \in Place /\ Entry(f).fn = f /\ Entry(f).at = "enter" /\ f # Main
       /\ Entry(f).args = Params[f] /\ Good(Entry(f)) /\ OpenLoops(Entry(f)) = 0
  BY EntryPlace
<1>11. TypeOK'
  <2>1. Ret(p) \in Cells BY CellTypes
  <2>2. stack' \in [Slots -> Cells] BY <1>1, <2>1 DEF TypeOK
  <2>3. sp' \in 0 .. StackSize /\ fp' \in 0 .. sp' BY <1>2, <1>3, <1>7
  <2> QED BY <1>1, <1>9, <1>10, <2>2, <2>3 DEF TypeOK, ActRecord
<1>12. Chained'
  <2>1. ASSUME NEW i \in 1 .. n
        PROVE  Waiter(acts', i)
    <3>1. acts'[i] = acts[i] /\ (i - 1 # 0 => acts'[i - 1] = acts[i - 1])
      BY <1>2, <1>9
    <3>2. Waiter(acts, i) BY <1>1 DEF Frames, Chained
    <3>3. /\ BaseAt(acts', i - 1) = BaseAt(acts, i - 1)
          /\ LoopsAt(acts', i - 1) = LoopsAt(acts, i - 1)
          /\ PspAt(acts', i - 1) = PspAt(acts, i - 1)
      BY ONLY <3>1 DEF BaseAt, LoopsAt, PspAt
    <3> QED BY ONLY <3>1, <3>2, <3>3 DEF Waiter
  <2>2. Waiter(acts', n + 1)
    <3>1. BaseAt(acts', n) = fp
      BY <1>2, <1>9 DEF BaseAt
    <3>2. LoopsAt(acts', n) = LoopsAt(acts, n) /\ PspAt(acts', n) = PspAt(acts, n)
      BY <1>2, <1>9 DEF LoopsAt, PspAt
    <3>3. p.fn = Main <=> n + 1 = 1 BY <1>1, <1>2 DEF RunsAt
    <3>4. n + 1 - 1 = n BY <1>2
    <3>5. a.pc = p /\ a.fp = fp /\ a.sp = s /\ a.psp = q /\ a.loops = nested_loop_idx
      OBVIOUS
    <3>6. s < StackSize BY <1>3
    <3> HIDE DEF a
    <3> QED BY <1>5, <1>9, <3>1, <3>2, <3>3, <3>4, <3>5, <3>6 DEF Waiter
  <2>3. 1 .. n + 1 = (1 .. n) \cup {n + 1} BY <1>2
  <2> QED BY <1>9, <2>1, <2>2, <2>3 DEF Chained, Waiter
<1>13. Ordered'
  <2>1. ASSUME NEW i \in 1 .. n + 1, NEW j \in 1 .. n + 1, i < j
        PROVE  acts'[i].sp + 2 <= acts'[j].sp
    <3>1. i \in 1 .. n /\ acts'[i] = acts[i] BY <1>2, <1>9, <2>1
    <3>2. CASE j \in 1 .. n
      BY <1>1, <1>9, <2>1, <3>1, <3>2 DEF Frames, Ordered
    <3>3. CASE j = n + 1
      BY <1>2, <1>7, <1>9, <3>1, <3>3
    <3> QED BY <1>2, <3>2, <3>3
  <2> QED BY <1>9, <2>1 DEF Ordered
<1>14. Saved'
  <2>1. ASSUME NEW i \in 1 .. n
        PROVE  stack'[acts'[i].sp] = Ret(acts'[i].pc)
               /\ acts'[i].sp + 1 < StackSize /\ stack'[acts'[i].sp + 1] = Link(acts'[i].fp)
    <3>1. /\ acts[i].sp \in Slots /\ acts[i].sp + 1 \in Slots
          /\ acts[i].sp # s /\ acts[i].sp + 1 # s
      BY ONLY <1>2, <1>3, <1>7 DEF Slots
    <3>2. stack'[acts[i].sp] = stack[acts[i].sp] /\ stack'[acts[i].sp + 1] = stack[acts[i].sp + 1]
      BY <1>1, <3>1 DEF TypeOK
    <3>3. acts[i].sp + 1 < StackSize BY ONLY <1>2, <1>3, <1>7
    <3> QED BY <1>1, <1>9, <3>2, <3>3 DEF Frames, Saved
  <2>2. stack'[acts'[n + 1].sp] = Ret(acts'[n + 1].pc)
    <3>1. s \in Slots BY DEF Slots
    <3> QED BY <1>1, <1>9, <3>1 DEF TypeOK
  <2>3. 1 .. n + 1 = (1 .. n) \cup {n + 1} /\ ~(n + 1 < n + 1) BY <1>2
  <2> QED BY <1>9, <1>10, <2>1, <2>2, <2>3 DEF Saved
<1>15. RunsAt'
  <2>1. acts' # <<>> BY <1>2, <1>4, <1>8, AppendProperties
  <2> QED BY <1>9, <1>10, <2>1 DEF RunsAt, StackCounted
<1>16. LoopsOpen'
  <2>1. LoopsAt(acts, Len(acts))' = nested_loop_idx BY <1>2, <1>9 DEF LoopsAt
  <2> QED BY <1>5, <1>10, <2>1, <1>3 DEF LoopsOpen
<1>17. ParamsOwned'
  <2>1. PspAt(acts, Len(acts))' = q BY <1>2, <1>9 DEF PspAt
  <2>2. Owed' = 0 /\ "busy" \notin XValued /\ "busy" # Fire
    BY CallsAssumption DEF Owed
  <2>3. Params[f] \in Nat BY CallsAssumption
  <2> QED BY <1>10, <2>1, <2>2, <2>3 DEF ParamsOwned, Tight
<1> QED BY <1>11, <1>12, <1>13, <1>14, <1>15, <1>16, <1>17 DEF CallsInv, Frames

LEMMA FrontProperties ==
  ASSUME NEW S, NEW s \in Seq(S), NEW m \in Nat, Len(s) = m + 1
  PROVE  /\ Front(s) \in Seq(S) /\ Len(Front(s)) = m
         /\ \A i \in 1 .. m : Front(s)[i] = s[i]
         /\ m # 0 => s[m] \in S
<1>1. Front(s) = SubSeq(s, 1, m) BY DEF Front
<1>2. \A i \in 1 .. m : i \in 1 .. Len(s) OBVIOUS
<1>3. SubSeq(s, 1, m) \in Seq(S) BY <1>2, SubSeqProperties
<1>4. Len(SubSeq(s, 1, m)) = m BY <1>2, SubSeqProperties
<1>5. \A i \in 1 .. m : SubSeq(s, 1, m)[i] = s[i] BY <1>2, SubSeqProperties
<1>6. m # 0 => s[m] \in S BY <1>2, ElementOfSeq
<1> QED BY <1>1, <1>3, <1>4, <1>5, <1>6

(* Two cells that end below a frame are cells of the stack below it.       *)
LEMMA PairBelow ==
  ASSUME NEW size \in Nat, NEW top \in Nat, NEW k \in Nat,
         k + 2 <= top, top + 1 < size
  PROVE  /\ k \in 0 .. size - 1 /\ k < top
         /\ k + 1 \in 0 .. size - 1 /\ k + 1 < top
  OBVIOUS

(* A return: the caller goes on with the frame that it has had, and with   *)
(* its own loops and arguments.                                            *)
LEMMA Unwound ==
  ASSUME CallsInv, res = "busy", pc.fn # Main, pc.at # "enter", ~pc.header, pc.args = 0,
         nested_loop_idx' = nested_loop_idx - pc.loops, Unwind,
         psp' = psp, paramstack' = paramstack, res' = res,
         ret_val' \in Values \cup {Stale}
  PROVE  CallsInv'
<1> DEFINE n == Len(acts)
           a == acts[n]
<1>1. TypeOK /\ Frames /\ RunsAt /\ LoopsOpen BY DEF CallsInv
<1>2. acts # <<>> BY <1>1 DEF RunsAt
<1>3. acts \in Seq(ActRecord) BY <1>1 DEF TypeOK, ActRecord
<1>4. /\ n \in Nat \ {0} /\ n \in 1 .. n /\ a \in ActRecord /\ Waiter(acts, n)
      /\ stack[a.sp] = Ret(a.pc)
  BY <1>1, <1>2, LastWaiter
<1>5. fp = a.sp + 2
  <2>1. fp = BaseAt(acts, n) BY <1>1 DEF RunsAt
  <2> QED BY <2>1, <1>4 DEF BaseAt
<1>6. /\ StackSize \in Nat /\ ParamStackSize \in Nat /\ MaxForLoops \in Nat
      /\ a.pc \in Place /\ a.fp \in Nat /\ a.sp \in Nat
      /\ a.psp \in Nat /\ a.loops \in 0 .. MaxForLoops
  BY <1>4, CallsAssumption DEF ActRecord
<1>7. a.sp + 1 < StackSize /\ stack[a.sp + 1] = Link(a.fp)
  BY <1>1, <1>4 DEF Frames, Saved
<1>8. sp \in 0 .. StackSize /\ a.sp \in 0 .. sp
  <2>1. sp \in 0 .. StackSize /\ fp \in 0 .. sp BY <1>1 DEF TypeOK
  <2> QED BY ONLY <2>1, <1>5, <1>6
<1>9. sp' = a.sp /\ fp' = a.fp /\ pc' = a.pc /\ stack' = Dropped(a.sp)
  <2>1. a.sp \in 0 .. StackSize - 1 /\ a.sp + 1 \in 0 .. StackSize - 1
    BY ONLY <1>6, <1>7
  <2>2. Slot(a.sp) = a.sp /\ Slot(a.sp + 1) = a.sp + 1 BY <2>1, SlotIs
  <2>3. fp - 2 = a.sp /\ fp - 1 = a.sp + 1 BY ONLY <1>5, <1>6
  <2>4. AsLink(Link(a.fp)) = a.fp /\ AsRet(Ret(a.pc)) = a.pc
    BY <1>6, CellTypes
  <2> QED BY <2>2, <2>3, <2>4, <1>4, <1>7 DEF Unwind
<1>10. /\ Dropped(a.sp) \in [Slots -> Cells]
       /\ \A k \in Slots : k < a.sp => Dropped(a.sp)[k] = stack[k]
  <2>1. stack \in [Slots -> Cells] BY <1>1 DEF TypeOK
  <2> QED BY <2>1, <1>8, DroppedCells
<1>11. /\ acts' \in Seq(ActRecord) /\ Len(acts') = n - 1
       /\ \A i \in 1 .. n - 1 : acts'[i] = acts[i]
  <2>1. acts' = Front(acts) BY DEF Unwind
  <2>2. n - 1 \in Nat /\ Len(acts) = (n - 1) + 1 BY ONLY <1>4
  <2>3. /\ Front(acts) \in Seq(ActRecord) /\ Len(Front(acts)) = n - 1
        /\ \A i \in 1 .. n - 1 : Front(acts)[i] = acts[i]
    BY ONLY <2>2, <1>3, FrontProperties
  <2> QED BY ONLY <2>1, <2>3
<1>12. /\ n - 1 \in Nat /\ (n - 1 = 0 <=> n = 1)
       /\ \A i \in 1 .. n - 1 : i \in 1 .. n /\ i < n
  BY ONLY <1>4
<1>13. /\ BaseAt(acts', n - 1) = BaseAt(acts, n - 1)
       /\ LoopsAt(acts', n - 1) = LoopsAt(acts, n - 1)
       /\ PspAt(acts', n - 1) = PspAt(acts, n - 1)
  BY <1>11, <1>12 DEF BaseAt, LoopsAt, PspAt
<1>14. /\ FrameEnd(a.pc) \in Nat /\ FrameSize(a.pc.fn) \in Nat
       /\ a.pc.loops \in Nat /\ a.pc.temps \in Nat /\ a.pc.args \in Nat
       /\ OpenLoops(a.pc) \in Nat
  BY <1>6, PlaceTypes
<1>15. a.sp = a.fp + FrameEnd(a.pc) /\ a.fp = BaseAt(acts, n - 1)
       /\ Good(a.pc) /\ a.pc.at \in {"code", "ret"} /\ (a.pc.fn = Main <=> n = 1)
  BY <1>4 DEF Waiter
<1>16. TypeOK'
  <2>1. sp' \in 0 .. StackSize /\ fp' \in 0 .. sp'
    BY ONLY <1>6, <1>8, <1>9, <1>14, <1>15
  <2>2. nested_loop_idx' \in 0 .. MaxForLoops + 1
    <3>1. nested_loop_idx = LoopsAt(acts, n) + OpenLoops(pc) /\ pc.loops \in Nat
      BY <1>1, PlaceTypes DEF LoopsOpen, TypeOK
    <3>2. LoopsAt(acts, n) = a.loops BY <1>4 DEF LoopsAt
    <3> QED BY <3>1, <3>2, <1>6 DEF OpenLoops
  <2> QED BY <1>1, <1>6, <1>9, <1>10, <1>11, <2>1, <2>2 DEF TypeOK, ActRecord
<1>17. Chained'
  <2>1. ASSUME NEW i \in 1 .. n - 1
        PROVE  Waiter(acts', i)
    <3>1. acts'[i] = acts[i] /\ (i - 1 # 0 => acts'[i - 1] = acts[i - 1])
      BY <1>11, <1>4
    <3>2. Waiter(acts, i) BY <1>1, <1>12 DEF Frames, Chained
    <3>3. /\ BaseAt(acts', i - 1) = BaseAt(acts, i - 1)
          /\ LoopsAt(acts', i - 1) = LoopsAt(acts, i - 1)
          /\ PspAt(acts', i - 1) = PspAt(acts, i - 1)
      BY ONLY <3>1 DEF BaseAt, LoopsAt, PspAt
    <3> QED BY ONLY <3>1, <3>2, <3>3 DEF Waiter
  <2> QED BY <1>11, <2>1 DEF Chained, Waiter
<1>18. Ordered'
  BY <1>1, <1>11, <1>12 DEF Frames, Ordered
<1>19. Saved'
  <2>1. ASSUME NEW i \in 1 .. n - 1
        PROVE  stack'[acts'[i].sp] = Ret(acts'[i].pc)
               /\ acts'[i].sp + 1 < StackSize /\ stack'[acts'[i].sp + 1] = Link(acts'[i].fp)
    <3>1. i \in 1 .. n /\ i < n BY <1>12
    <3>2. acts[i].sp + 2 <= a.sp BY <1>1, <1>4, <3>1 DEF Frames, Ordered
    <3>3. acts[i].sp \in Nat BY <1>1, <3>1, Bases
    <3>4. acts[i].sp \in Slots /\ acts[i].sp < a.sp
          /\ acts[i].sp + 1 \in Slots /\ acts[i].sp + 1 < a.sp
      <4>1. a.sp \in Nat /\ StackSize \in Nat /\ a.sp + 1 < StackSize BY <1>6, <1>7
      <4> QED BY ONLY <4>1, <3>2, <3>3, PairBelow DEF Slots
    <3>5. stack'[acts[i].sp] = stack[acts[i].sp] /\ stack'[acts[i].sp + 1] = stack[acts[i].sp + 1]
      BY <1>9, <1>10, <3>4
    <3> QED BY <1>1, <1>11, <3>1, <3>5 DEF Frames, Saved
  <2> QED BY <1>11, <2>1 DEF Saved
<1>20. RunsAt'
  <2>1. acts' = <<>> <=> n - 1 = 0 BY <1>11, EmptySeq
  <2>2. StackCounted'
    <3>1. a.sp = a.fp + FrameSize(a.pc.fn) + 2 * a.pc.loops + a.pc.temps + 0
      BY <1>6, <1>15, FrameSum
    <3>2. a.pc.at # "local" BY <1>15
    <3> HIDE DEF a
    <3> QED BY ONLY <1>9, <3>1, <3>2 DEF StackCounted
  <2> QED BY <1>9, <1>11, <1>12, <1>13, <1>15, <2>1, <2>2 DEF RunsAt
<1>21. LoopsOpen'
  <2>1. nested_loop_idx = LoopsAt(acts, n) + OpenLoops(pc) /\ pc.loops \in Nat
    BY <1>1, PlaceTypes DEF LoopsOpen, TypeOK
  <2>2. LoopsAt(acts, n) = a.loops BY <1>4 DEF LoopsAt
  <2>3. nested_loop_idx' = a.loops BY <2>1, <2>2, <1>6 DEF OpenLoops
  <2>4. a.loops = LoopsAt(acts, n - 1) + OpenLoops(a.pc) BY <1>4 DEF Waiter
  <2> QED BY <1>6, <1>9, <1>11, <1>13, <2>3, <2>4 DEF LoopsOpen, OpenLoops
<1>22. ParamsOwned'
  <2>1. Owed = 0 /\ Owed' = 0 /\ "busy" \notin XValued /\ "busy" # Fire
    BY CallsAssumption DEF Owed
  <2>2. PspAt(acts, n) = a.psp BY <1>4 DEF PspAt
  <2>3. psp \in Nat BY <1>1, CallsAssumption DEF TypeOK
  <2>4. psp >= a.psp /\ (Tight => psp = a.psp)
    BY <1>6, <2>1, <2>2, <2>3 DEF CallsInv, ParamsOwned
  <2>5. /\ a.psp >= PspAt(acts, n - 1) + a.pc.args
        /\ Tight => a.psp = PspAt(acts, n - 1) + a.pc.args
    BY <1>4 DEF Waiter
  <2>6. PspAt(acts, n - 1) \in Nat
    <3>1. n - 1 # 0 => acts[n - 1] \in ActRecord
      <4>1. Len(acts) = (n - 1) + 1 BY ONLY <1>4
      <4> QED BY ONLY <4>1, <1>3, <1>12, FrontProperties
    <3> QED BY <3>1, CallsAssumption DEF PspAt, ActRecord
  <2>7. psp >= PspAt(acts, n - 1) + a.pc.args
    <3> HIDE DEF a
    <3> QED BY ONLY <1>6, <1>14, <2>3, <2>4, <2>5, <2>6
  <2>8. Tight => psp = PspAt(acts, n - 1) + a.pc.args BY ONLY <2>4, <2>5
  <2> QED BY <1>9, <1>11, <1>13, <1>14, <2>1, <2>6, <2>7, <2>8 DEF ParamsOwned, Tight
<1> QED BY <1>16, <1>17, <1>18, <1>19, <1>20, <1>21, <1>22 DEF CallsInv, Frames

-----------------------------------------------------------------------------
(* What every step may use.                                                *)
LEMMA Facts ==
  ASSUME CallsInv
  PROVE  /\ pc \in Place /\ Good(pc)
         /\ pc.loops \in Nat /\ pc.temps \in Nat /\ pc.args \in Nat
         /\ pc.loops <= MaxForLoops /\ pc.temps <= MaxTemps /\ pc.args <= MaxArgs
         /\ FrameSize(pc.fn) \in Nat
         /\ sp \in Nat /\ fp \in Nat /\ fp <= sp /\ sp <= StackSize
         /\ psp \in Nat /\ psp <= ParamStackSize
         /\ StackSize \in Nat /\ ParamStackSize \in Nat
         /\ MaxForLoops \in Nat /\ MaxTemps \in Nat /\ MaxArgs \in Nat
         /\ stack \in [Slots -> Cells]
         /\ paramstack \in [ParamSlots -> Values \cup {Stale}]
         /\ ret_val \in Values \cup {Stale}
<1>1. /\ StackSize \in Nat /\ ParamStackSize \in Nat
      /\ MaxForLoops \in Nat /\ MaxTemps \in Nat /\ MaxArgs \in Nat
  BY CallsAssumption
<1>2. /\ pc \in Place /\ Good(pc)
      /\ sp \in 0 .. StackSize /\ fp \in 0 .. sp /\ psp \in 0 .. ParamStackSize
      /\ stack \in [Slots -> Cells]
      /\ paramstack \in [ParamSlots -> Values \cup {Stale}]
      /\ ret_val \in Values \cup {Stale}
  BY DEF CallsInv, TypeOK, RunsAt
<1>3. sp \in Nat /\ fp \in Nat /\ fp <= sp /\ sp <= StackSize
      /\ psp \in Nat /\ psp <= ParamStackSize
  BY ONLY <1>1, <1>2
<1>4. /\ pc.loops \in Nat /\ pc.temps \in Nat /\ pc.args \in Nat
      /\ pc.loops <= MaxForLoops /\ pc.temps <= MaxTemps /\ pc.args <= MaxArgs
      /\ FrameSize(pc.fn) \in Nat
  BY <1>2, PlaceTypes
<1> QED BY <1>1, <1>2, <1>3, <1>4

(* The temporaries of the running activation are above its frame, and they *)
(* are on the stack; a parameter is above them while it is moved.          *)
Extra(p) == IF p.at = "local" THEN 1 ELSE 0

LEMMA Heights ==
  ASSUME CallsInv, pc.at # "enter"
  PROVE  sp = fp + FrameSize(pc.fn) + 2 * pc.loops + pc.temps + Extra(pc)
BY DEF CallsInv, RunsAt, StackCounted, Extra

LEMMA Room ==
  ASSUME CallsInv, pc.at # "enter"
  PROVE  /\ fp + FrameSize(pc.fn) + pc.temps + Extra(pc) <= sp
         /\ fp + FrameSize(pc.fn) + 2 * pc.loops + pc.temps <= sp
<1> DEFINE l == pc.loops  t == pc.temps  z == FrameSize(pc.fn)  e == Extra(pc)
<1>1. l \in Nat /\ t \in Nat /\ z \in Nat /\ fp \in Nat /\ sp \in Nat BY Facts
<1>2. e \in Nat BY DEF Extra
<1>3. sp = fp + z + 2 * l + t + e BY Heights
<1> HIDE DEF l, t, z, e
<1>4. fp + z + t + e <= sp BY ONLY <1>1, <1>2, <1>3
<1>5. fp + z + 2 * l + t <= sp BY ONLY <1>1, <1>2, <1>3
<1> QED BY <1>4, <1>5 DEF l, t, z, e

(* A step that opens no loop: the height of the stack follows the          *)
(* temporaries, that of the parameter stack the arguments.                 *)
LEMMA Stepped ==
  ASSUME CallsInv, res = "busy", res' = "busy", acts' = acts, fp' = fp,
         nested_loop_idx' = nested_loop_idx,
         pc.at # "enter", pc'.at # "enter", pc' \in Place, Good(pc'),
         pc'.fn = pc.fn, pc'.loops = pc.loops, pc'.header = pc.header,
         stack' \in [Slots -> Cells],
         \A k \in Slots : k < fp => stack'[k] = stack[k],
         sp' = sp + (pc'.temps + Extra(pc')) - (pc.temps + Extra(pc)), sp' <= StackSize,
         NEW d \in Int, pc'.args = pc.args + d, psp' = psp + d,
         psp' \in 0 .. ParamStackSize,
         paramstack' \in [ParamSlots -> Values \cup {Stale}],
         ret_val' \in Values \cup {Stale}
  PROVE  CallsInv'
<1>1. /\ pc.loops \in Nat /\ pc.temps \in Nat /\ FrameSize(pc.fn) \in Nat
      /\ fp \in Nat /\ StackSize \in Nat
  BY Facts
<1>2. sp = fp + FrameSize(pc.fn) + 2 * pc.loops + pc.temps + Extra(pc)
  BY Heights
<1>3. pc'.temps \in Nat
  <2>1. \A p \in Place : p.temps \in Nat BY PlaceTypes
  <2> QED BY <2>1
<1>4. Extra(pc) \in Nat /\ Extra(pc') \in {0, 1} BY DEF Extra
<1>5. sp' = fp + (FrameSize(pc.fn) + 2 * pc.loops + pc'.temps) + Extra(pc')
  <2> DEFINE l == pc.loops  t == pc.temps  z == FrameSize(pc.fn)  e == Extra(pc)
             u == pc'.temps  x == Extra(pc')
  <2>1. l \in Nat /\ t \in Nat /\ z \in Nat /\ e \in Nat /\ u \in Nat /\ x \in Nat
    BY <1>1, <1>3, <1>4
  <2>2. sp = fp + z + 2 * l + t + e BY <1>2
  <2>3. sp' = sp + (u + x) - (t + e) OBVIOUS
  <2> HIDE DEF l, t, z, e, u, x
  <2>4. sp' = fp + (z + 2 * l + u) + x BY ONLY <1>1, <2>1, <2>2, <2>3
  <2> QED BY <2>4 DEF l, t, z, e, u, x
<1>6. sp' = fp + FrameEnd(pc') + (IF pc'.at = "local" THEN 1 ELSE 0)
  BY <1>5 DEF FrameEnd, Extra
<1>7. sp' \in 0 .. StackSize
  <2>1. FrameEnd(pc') \in Nat
    <3>1. \A p \in Place : FrameEnd(p) \in Nat BY PlaceTypes
    <3> QED BY <3>1
  <2>2. sp' = fp + FrameEnd(pc') + Extra(pc') /\ sp' <= StackSize BY <1>6 DEF Extra
  <2> QED BY ONLY <1>1, <1>4, <2>1, <2>2
<1>8. nested_loop_idx' \in 0 .. MaxForLoops + 1 BY DEF CallsInv, TypeOK
<1>9. TypeOK' /\ Frames' /\ RunsAt' BY <1>6, <1>7, <1>8, Moved
<1>10. LoopsOpen'
  <2>1. OpenLoops(pc') = OpenLoops(pc) BY DEF OpenLoops
  <2> QED BY <2>1, SameLoops
<1>11. ParamsOwned'
  <2>1. pc'.args = pc.args + d /\ psp' = psp + d OBVIOUS
  <2> QED BY <2>1, SameParams
<1> QED BY <1>9, <1>10, <1>11 DEF CallsInv

(* The stack after PUSH, and after values have been dropped.               *)
LEMMA PushedCell ==
  ASSUME CallsInv, sp < StackSize, NEW c \in Cells, Push(c)
  PROVE  /\ stack' \in [Slots -> Cells]
         /\ \A k \in Slots : k < sp => stack'[k] = stack[k]
         /\ \A k \in Slots : k < fp => stack'[k] = stack[k]
         /\ sp' = sp + 1 /\ sp' <= StackSize
<1>1. /\ sp \in Nat /\ fp \in Nat /\ fp <= sp /\ StackSize \in Nat
      /\ stack \in [Slots -> Cells]
  BY Facts
<1>2. sp \in 0 .. StackSize - 1 BY <1>1
<1>3. Slot(sp) = sp BY <1>2, SlotIs
<1>4. stack' = [stack EXCEPT ![sp] = c] /\ sp' = sp + 1 BY <1>3 DEF Push
<1> QED BY <1>1, <1>4 DEF Slots

LEMMA DropTypes ==
  ASSUME CallsInv, NEW n \in Nat, n <= sp - fp
  PROVE  /\ Dropped(sp - n) \in [Slots -> Cells]
         /\ \A k \in Slots : k < fp => Dropped(sp - n)[k] = stack[k]
<1>1. /\ sp \in Nat /\ fp \in Nat /\ fp <= sp /\ StackSize \in Nat /\ sp <= StackSize
      /\ stack \in [Slots -> Cells]
  BY Facts
<1>2. sp - n \in 0 .. sp /\ fp <= sp - n /\ sp \in 0 .. StackSize BY <1>1
<1>3. /\ Dropped(sp - n) \in [Slots -> Cells]
      /\ \A k \in Slots : k < sp - n => Dropped(sp - n)[k] = stack[k]
  BY <1>1, <1>2, DroppedCells
<1> QED BY <1>1, <1>2, <1>3 DEF Slots

(* A value that is dropped, and one that is stored in the frame.           *)
LEMMA StoredCell ==
  ASSUME CallsInv, sp - 1 >= fp, NEW k \in Nat, fp <= k, NEW c \in Cells,
         stack' = [Dropped(sp - 1) EXCEPT ![k] = c]
  PROVE  /\ stack' \in [Slots -> Cells]
         /\ \A j \in Slots : j < fp => stack'[j] = stack[j]
<1>1. sp \in Nat /\ fp \in Nat /\ StackSize \in Nat BY Facts
<1>2. 1 \in Nat /\ 1 <= sp - fp BY <1>1
<1>3. /\ Dropped(sp - 1) \in [Slots -> Cells]
      /\ \A j \in Slots : j < fp => Dropped(sp - 1)[j] = stack[j]
  BY <1>2, DropTypes
<1>4. stack' \in [Slots -> Cells] BY <1>3
<1>5. ASSUME NEW j \in Slots, j < fp
      PROVE  stack'[j] = stack[j]
  <2>1. j # k BY ONLY <1>1, <1>5, fp <= k, k \in Nat, j \in Slots DEF Slots
  <2> QED BY <1>3, <1>5, <2>1
<1> QED BY <1>4, <1>5

LEMMA CodeIsGood ==
  ASSUME NEW p, p.at = "code"
  PROVE  Good(p) /\ Extra(p) = 0
BY DEF Good, Extra

LEMMA RoomToPush ==
  ASSUME CallsInv, Bounded, Fits(1)
  PROVE  sp < StackSize
BY Facts DEF Fits, Bounded

-----------------------------------------------------------------------------
(* Expressions and assignments.                                            *)
LEMMA PushOne ==
  ASSUME CallsInv, Bounded, pc.at \in {"code", "ret"}, res = "busy",
         pc.temps < MaxTemps, Fits(1), NEW c \in Cells, Push(c),
         pc' = [pc EXCEPT !.at = "code", !.temps = @ + 1],
         UNCHANGED <<fp, psp, paramstack, ret_val, nested_loop_idx, res, acts>>
  PROVE  CallsInv'
<1>1. sp < StackSize BY RoomToPush
<1>2. /\ stack' \in [Slots -> Cells]
      /\ \A k \in Slots : k < fp => stack'[k] = stack[k]
      /\ sp' = sp + 1 /\ sp' <= StackSize
  BY <1>1, PushedCell
<1>3. pc \in Place /\ pc.temps \in Nat /\ pc.temps + 1 \in 0 .. MaxTemps /\ sp \in Nat
      /\ psp \in 0 .. ParamStackSize /\ paramstack \in [ParamSlots -> Values \cup {Stale}]
      /\ ret_val \in Values \cup {Stale} /\ pc.args \in Nat /\ psp \in Nat
  BY Facts
<1>4. /\ pc' \in Place /\ pc'.at = "code" /\ pc'.fn = pc.fn /\ pc'.loops = pc.loops
      /\ pc'.header = pc.header /\ pc'.temps = pc.temps + 1 /\ pc'.args = pc.args
  BY <1>3 DEF Place
<1>5. Good(pc') /\ Extra(pc') = 0 BY <1>4, CodeIsGood
<1>6. Extra(pc) = 0 /\ pc.at # "enter" BY DEF Extra
<1>7. sp' = sp + (pc'.temps + Extra(pc')) - (pc.temps + Extra(pc))
  BY <1>2, <1>3, <1>4, <1>5, <1>6
<1>8. 0 \in Int /\ pc'.args = pc.args + 0 /\ psp' = psp + 0 BY <1>3, <1>4
<1>9. pc'.at # "enter" BY <1>4
<1> QED BY <1>2, <1>3, <1>4, <1>5, <1>6, <1>7, <1>8, <1>9, Stepped

LEMMA PushValueStep ==
  ASSUME CallsInv, Bounded, NEW v \in Values, PushValue(v)
  PROVE  CallsInv'
<1>1. /\ pc.at = "code" /\ res = "busy" /\ pc.temps < MaxTemps /\ Fits(1)
      /\ Push(Num(v)) /\ pc' = [pc EXCEPT !.temps = @ + 1]
      /\ UNCHANGED <<fp, psp, paramstack, ret_val, nested_loop_idx, res, acts>>
  BY DEF PushValue, At, Go
<1>2. pc' = [pc EXCEPT !.at = "code", !.temps = @ + 1]
  BY <1>1, Facts DEF Place
<1>3. Num(v) \in Cells BY CellTypes
<1> QED BY <1>1, <1>2, <1>3, PushOne

LEMMA PushLocalStep ==
  ASSUME CallsInv, Bounded, NEW i \in 0 .. FrameSize(pc.fn) - 1, PushLocal(i)
  PROVE  CallsInv'
<1>1. /\ pc.at = "code" /\ res = "busy" /\ pc.temps < MaxTemps /\ Fits(1)
      /\ Push(stack[fp + i]) /\ pc' = [pc EXCEPT !.temps = @ + 1]
      /\ UNCHANGED <<fp, psp, paramstack, ret_val, nested_loop_idx, res, acts>>
  BY DEF PushLocal, At, Go
<1>2. pc' = [pc EXCEPT !.at = "code", !.temps = @ + 1]
  BY <1>1, Facts DEF Place
<1>3. stack[fp + i] \in Cells
  <2>1. fp + FrameSize(pc.fn) + pc.temps + Extra(pc) <= sp BY <1>1, Room
  <2>2. sp < StackSize BY <1>1, RoomToPush
  <2>3. /\ fp \in Nat /\ sp \in Nat /\ pc.temps \in Nat /\ FrameSize(pc.fn) \in Nat
        /\ StackSize \in Nat /\ stack \in [Slots -> Cells]
    BY Facts
  <2>4. Extra(pc) = 0 BY <1>1 DEF Extra
  <2>5. fp + i \in Slots BY <2>1, <2>2, <2>3, <2>4 DEF Slots
  <2> QED BY <2>3, <2>5
<1> QED BY <1>1, <1>2, <1>3, PushOne

LEMMA PushRetStep ==
  ASSUME CallsInv, Bounded, PushRet
  PROVE  CallsInv'
<1>1. /\ pc.at = "ret" /\ res = "busy" /\ Fits(1) /\ Push(Num(ret_val))
      /\ pc' = [pc EXCEPT !.at = "code", !.temps = @ + 1]
      /\ UNCHANGED <<fp, psp, paramstack, ret_val, nested_loop_idx, res, acts>>
  BY DEF PushRet, At, Go
<1>2. pc.temps < MaxTemps BY <1>1, Facts DEF Good
<1>3. Num(ret_val) \in Cells BY Facts, CellTypes
<1> QED BY <1>1, <1>2, <1>3, PushOne

(* One temporary less: it is dropped, or stored where the next one is or   *)
(* in the frame.                                                           *)
LEMMA PopOne ==
  ASSUME CallsInv, pc.at = "code", res = "busy", pc.temps > 0,
         pc' = [pc EXCEPT !.temps = pc.temps - 1], sp' = sp - 1,
         stack' = Dropped(sp - 1) \/ (\E k \in Nat, c \in Cells :
             fp <= k /\ stack' = [Dropped(sp - 1) EXCEPT ![k] = c]),
         UNCHANGED <<fp, psp, paramstack, ret_val, nested_loop_idx, res, acts>>
  PROVE  CallsInv'
<1>1. pc \in Place /\ pc.temps \in Nat /\ pc.temps - 1 \in 0 .. MaxTemps /\ sp \in Nat
      /\ psp \in 0 .. ParamStackSize /\ paramstack \in [ParamSlots -> Values \cup {Stale}]
      /\ ret_val \in Values \cup {Stale} /\ pc.args \in Nat /\ psp \in Nat
      /\ fp \in Nat /\ sp <= StackSize /\ StackSize \in Nat /\ FrameSize(pc.fn) \in Nat
  BY Facts
<1>2. Extra(pc) = 0 BY DEF Extra
<1>3. fp + FrameSize(pc.fn) + pc.temps + Extra(pc) <= sp BY Room
<1>4. sp - 1 >= fp /\ 1 \in Nat /\ 1 <= sp - fp BY ONLY <1>1, <1>2, <1>3, pc.temps > 0
<1>5. /\ stack' \in [Slots -> Cells]
      /\ \A k \in Slots : k < fp => stack'[k] = stack[k]
  <2>1. CASE stack' = Dropped(sp - 1) BY <1>4, <2>1, DropTypes
  <2>2. ASSUME NEW k \in Nat, NEW c \in Cells, fp <= k,
               stack' = [Dropped(sp - 1) EXCEPT ![k] = c]
        PROVE  /\ stack' \in [Slots -> Cells]
               /\ \A j \in Slots : j < fp => stack'[j] = stack[j]
    BY <1>4, <2>2, StoredCell
  <2> QED BY <2>1, <2>2
<1>6. /\ pc' \in Place /\ pc'.at = "code" /\ pc'.fn = pc.fn /\ pc'.loops = pc.loops
      /\ pc'.header = pc.header /\ pc'.temps = pc.temps - 1 /\ pc'.args = pc.args
  BY <1>1 DEF Place
<1>7. Good(pc') /\ Extra(pc') = 0 BY <1>6, CodeIsGood
<1>8. sp' = sp + (pc'.temps + Extra(pc')) - (pc.temps + Extra(pc)) /\ sp' <= StackSize
  BY <1>1, <1>2, <1>6, <1>7
<1>9. 0 \in Int /\ pc'.args = pc.args + 0 /\ psp' = psp + 0 BY <1>1, <1>6
<1>10. pc'.at # "enter" BY <1>6
<1> QED BY <1>1, <1>5, <1>6, <1>7, <1>8, <1>9, <1>10, Stepped

LEMMA OperatorStep ==
  ASSUME CallsInv, Bounded, NEW v \in Values, Operator(v)
  PROVE  CallsInv'
<1>1. /\ pc.at = "code" /\ res = "busy" /\ pc.temps >= 2
      /\ stack' = [Dropped(sp - 1) EXCEPT ![Slot(sp - 2)] = Num(v)] /\ sp' = sp - 1
      /\ pc' = [pc EXCEPT !.temps = @ - 1]
      /\ UNCHANGED <<fp, psp, paramstack, ret_val, nested_loop_idx, res, acts>>
  BY DEF Operator, At, Go
<1>2. fp + FrameSize(pc.fn) + pc.temps + Extra(pc) <= sp BY <1>1, Room
<1>3. /\ sp \in Nat /\ fp \in Nat /\ pc.temps \in Nat /\ FrameSize(pc.fn) \in Nat
      /\ sp <= StackSize /\ StackSize \in Nat
  BY Facts
<1>4. Extra(pc) = 0 BY <1>1 DEF Extra
<1>5. pc.temps > 0 /\ sp - 2 \in 0 .. StackSize - 1 /\ sp - 2 \in Nat /\ fp <= sp - 2
  BY ONLY <1>1, <1>2, <1>3, <1>4
<1>6. Slot(sp - 2) = sp - 2 BY <1>5, SlotIs
<1>7. Num(v) \in Cells BY CellTypes
<1>8. \E k \in Nat, c \in Cells : fp <= k /\ stack' = [Dropped(sp - 1) EXCEPT ![k] = c]
  BY <1>1, <1>5, <1>6, <1>7
<1>9. pc' = [pc EXCEPT !.temps = pc.temps - 1] BY <1>1
<1> QED BY <1>1, <1>5, <1>8, <1>9, PopOne

LEMMA PopValueStep ==
  ASSUME CallsInv, Bounded, PopValue
  PROVE  CallsInv'
<1>1. /\ pc.at = "code" /\ res = "busy" /\ pc.temps = 1 /\ pc.temps > 0
      /\ stack' = Dropped(sp - 1) /\ sp' = sp - 1
      /\ pc' = [pc EXCEPT !.temps = pc.temps - 1]
      /\ UNCHANGED <<fp, psp, paramstack, ret_val, nested_loop_idx, res, acts>>
  BY DEF PopValue, Drop, At, Go
<1> QED BY <1>1, PopOne

LEMMA PopLocalStep ==
  ASSUME CallsInv, Bounded, NEW i \in 0 .. FrameSize(pc.fn) - 1, PopLocal(i)
  PROVE  CallsInv'
<1>1. /\ pc.at = "code" /\ res = "busy" /\ pc.temps = 1 /\ pc.temps > 0
      /\ stack' = [Dropped(sp - 1) EXCEPT ![fp + i] = Top(1)] /\ sp' = sp - 1
      /\ pc' = [pc EXCEPT !.temps = pc.temps - 1]
      /\ UNCHANGED <<fp, psp, paramstack, ret_val, nested_loop_idx, res, acts>>
  BY DEF PopLocal, At, Go
<1>2. fp + FrameSize(pc.fn) + pc.temps + Extra(pc) <= sp BY <1>1, Room
<1>3. /\ sp \in Nat /\ fp \in Nat /\ pc.temps \in Nat /\ FrameSize(pc.fn) \in Nat
      /\ sp <= StackSize /\ StackSize \in Nat /\ stack \in [Slots -> Cells]
  BY Facts
<1>4. Extra(pc) = 0 BY <1>1 DEF Extra
<1>5. sp - 1 \in 0 .. StackSize - 1 /\ fp + i \in Nat /\ fp <= fp + i
  BY <1>1, <1>2, <1>3, <1>4
<1>6. Top(1) \in Cells
  <2>1. Slot(sp - 1) = sp - 1 BY <1>5, SlotIs
  <2> QED BY <1>3, <1>5, <2>1 DEF Top, Slots
<1>7. \E k \in Nat, c \in Cells : fp <= k /\ stack' = [Dropped(sp - 1) EXCEPT ![k] = c]
  BY <1>1, <1>5, <1>6
<1> QED BY <1>1, <1>7, PopOne

LEMMA StepLocalStep ==
  ASSUME CallsInv, Bounded, NEW i \in 0 .. FrameSize(pc.fn) - 1, NEW v \in Values,
         StepLocal(i, v)
  PROVE  CallsInv'
<1>1. /\ pc.at = "code" /\ res = "busy" /\ stack' = [stack EXCEPT ![fp + i] = Num(v)]
      /\ pc' = pc /\ sp' = sp
      /\ UNCHANGED <<fp, psp, paramstack, ret_val, nested_loop_idx, res, acts>>
  BY DEF StepLocal, Statement, registers
<1>2. /\ pc \in Place /\ sp \in Nat /\ fp \in Nat /\ pc.temps \in Nat /\ FrameSize(pc.fn) \in Nat
      /\ sp <= StackSize /\ StackSize \in Nat /\ stack \in [Slots -> Cells]
      /\ psp \in 0 .. ParamStackSize /\ paramstack \in [ParamSlots -> Values \cup {Stale}]
      /\ ret_val \in Values \cup {Stale} /\ pc.args \in Nat /\ psp \in Nat
  BY Facts
<1>3. fp + i >= fp /\ Num(v) \in Cells BY <1>2, CellTypes
<1>4. /\ stack' \in [Slots -> Cells]
      /\ \A k \in Slots : k < fp => stack'[k] = stack[k]
  <2>1. \A k \in Slots : k < fp => k # fp + i BY ONLY <1>2, <1>3, i \in Int DEF Slots
  <2> QED BY <1>1, <1>2, <1>3, <2>1
<1>5. Good(pc') /\ Extra(pc') = 0 /\ Extra(pc) = 0 BY <1>1, CodeIsGood
<1>6. sp' = sp + (pc'.temps + Extra(pc')) - (pc.temps + Extra(pc)) /\ sp' <= StackSize
  BY <1>1, <1>2, <1>5
<1>7. 0 \in Int /\ pc'.args = pc.args + 0 /\ psp' = psp + 0 BY <1>1, <1>2
<1>8. /\ pc' \in Place /\ pc.at # "enter" /\ pc'.at # "enter" /\ pc'.fn = pc.fn
      /\ pc'.loops = pc.loops /\ pc'.header = pc.header
  BY <1>1, <1>2
<1> QED BY <1>1, <1>2, <1>4, <1>5, <1>6, <1>7, <1>8, Stepped

-----------------------------------------------------------------------------
(* Loops: two values are on the stack for each one whose body has been     *)
(* entered, and nested_loop_idx follows them.                              *)
LEMMA Looped ==
  ASSUME CallsInv, res = "busy", res' = "busy", pc.at = "code", pc'.at = "code",
         pc' \in Place, pc'.fn = pc.fn, pc'.args = pc.args,
         UNCHANGED <<acts, fp, psp, paramstack, ret_val>>,
         stack' \in [Slots -> Cells],
         \A k \in Slots : k < fp => stack'[k] = stack[k],
         sp' = sp + (2 * pc'.loops + pc'.temps) - (2 * pc.loops + pc.temps),
         sp' <= StackSize,
         nested_loop_idx' \in Int,
         nested_loop_idx' + OpenLoops(pc) = nested_loop_idx + OpenLoops(pc'),
         nested_loop_idx' <= MaxForLoops
  PROVE  CallsInv'
<1> DEFINE l == pc.loops  t == pc.temps  z == FrameSize(pc.fn)
           m == pc'.loops  u == pc'.temps
<1>1. /\ l \in Nat /\ t \in Nat /\ z \in Nat /\ fp \in Nat /\ sp \in Nat
      /\ StackSize \in Nat /\ MaxForLoops \in Nat /\ pc \in Place /\ psp \in Nat
      /\ pc.args \in Nat /\ psp \in 0 .. ParamStackSize
      /\ paramstack \in [ParamSlots -> Values \cup {Stale}]
      /\ ret_val \in Values \cup {Stale}
  BY Facts
<1>2. m \in Nat /\ u \in Nat /\ OpenLoops(pc) \in Nat /\ OpenLoops(pc') \in Nat
  <2>1. \A p \in Place : p.loops \in Nat /\ p.temps \in Nat /\ OpenLoops(p) \in Nat
    BY PlaceTypes
  <2> QED BY <2>1, <1>1
<1>3. sp' = fp + (z + 2 * m + u) + 0
  <2>1. sp = fp + z + 2 * l + t + 0
    <3>1. Extra(pc) = 0 BY DEF Extra
    <3> QED BY <3>1, Heights
  <2>2. sp' = sp + (2 * m + u) - (2 * l + t) OBVIOUS
  <2>3. l \in Nat /\ t \in Nat /\ z \in Nat /\ fp \in Nat /\ sp \in Nat
        /\ m \in Nat /\ u \in Nat
    BY <1>1, <1>2
  <2> HIDE DEF l, t, z, m, u
  <2> QED BY ONLY <2>1, <2>2, <2>3
<1>4. sp' = fp + FrameEnd(pc') + (IF pc'.at = "local" THEN 1 ELSE 0)
  BY <1>3 DEF FrameEnd
<1>5. sp' \in 0 .. StackSize
  <2>1. sp' <= StackSize OBVIOUS
  <2> HIDE DEF l, t, z, m, u
  <2> QED BY ONLY <1>1, <1>2, <1>3, <2>1
<1>6. LoopsAt(acts, Len(acts)) \in Nat
  BY Bases, CallsAssumption DEF CallsInv
<1>7. nested_loop_idx = LoopsAt(acts, Len(acts)) + OpenLoops(pc)
  BY DEF CallsInv, LoopsOpen
<1>8. nested_loop_idx' = LoopsAt(acts, Len(acts)) + OpenLoops(pc')
  <2>1. nested_loop_idx' + OpenLoops(pc) = nested_loop_idx + OpenLoops(pc')
        /\ nested_loop_idx' \in Int
    OBVIOUS
  <2> QED BY ONLY <1>2, <1>6, <1>7, <2>1
<1>9. nested_loop_idx' \in 0 .. MaxForLoops + 1
  <2>1. nested_loop_idx' <= MaxForLoops OBVIOUS
  <2> QED BY ONLY <1>1, <1>2, <1>6, <1>8, <2>1
<1>10. Good(pc') BY CodeIsGood
<1>11. TypeOK' /\ Frames' /\ RunsAt' BY <1>1, <1>4, <1>5, <1>9, <1>10, Moved
<1>12. LoopsOpen'
  <2>1. LoopsAt(acts, Len(acts))' = LoopsAt(acts, Len(acts)) BY DEF LoopsAt
  <2> QED BY <1>8, <2>1 DEF LoopsOpen
<1>13. ParamsOwned'
  <2>1. 0 \in Int /\ pc'.args = pc.args + 0 /\ psp' = psp + 0 BY <1>1
  <2> QED BY <2>1, SameParams
<1> QED BY <1>11, <1>12, <1>13 DEF CallsInv

(* The loops that are open are counted and within the limit.               *)
LEMMA Counting ==
  ASSUME CallsInv, res = "busy"
  PROVE  /\ nested_loop_idx \in Nat /\ nested_loop_idx <= MaxForLoops
         /\ OpenLoops(pc) <= nested_loop_idx
<1>1. LoopsAt(acts, Len(acts)) \in Nat
  BY Bases, CallsAssumption DEF CallsInv
<1>2. /\ nested_loop_idx = LoopsAt(acts, Len(acts)) + OpenLoops(pc)
      /\ nested_loop_idx <= MaxForLoops
  BY DEF CallsInv, LoopsOpen
<1>3. OpenLoops(pc) \in Nat BY Facts, PlaceTypes
<1> QED BY <1>1, <1>2, <1>3

LEMMA ForStep ==
  ASSUME CallsInv, Bounded, For
  PROVE  CallsInv'
<1>1. /\ pc.at = "code" /\ res = "busy" /\ ~pc.header
      /\ nested_loop_idx < MaxForLoops /\ nested_loop_idx' = nested_loop_idx + 1
      /\ pc' = [pc EXCEPT !.header = TRUE]
      /\ UNCHANGED <<sp, fp, stack, psp, paramstack, ret_val, res, acts>>
  BY DEF For, Statement, Go
<1>2. /\ pc \in Place /\ sp \in Nat /\ sp <= StackSize /\ stack \in [Slots -> Cells]
      /\ pc.loops \in Nat /\ pc.temps \in Nat /\ MaxForLoops \in Nat
  BY Facts
<1>3. nested_loop_idx \in Nat BY <1>1, Counting
<1>4. /\ pc' \in Place /\ pc'.at = "code" /\ pc'.fn = pc.fn /\ pc'.args = pc.args
      /\ pc'.loops = pc.loops /\ pc'.temps = pc.temps /\ pc'.header
  BY <1>1, <1>2 DEF Place
<1>5. OpenLoops(pc) = pc.loops /\ OpenLoops(pc') = pc.loops + 1
  BY <1>1, <1>2, <1>4 DEF OpenLoops
<1>6. sp' = sp + (2 * pc'.loops + pc'.temps) - (2 * pc.loops + pc.temps)
  BY <1>1, <1>2, <1>4
<1>7. /\ nested_loop_idx' \in Int /\ nested_loop_idx' <= MaxForLoops
      /\ nested_loop_idx' + OpenLoops(pc) = nested_loop_idx + OpenLoops(pc')
  BY ONLY <1>1, <1>2, <1>3, <1>5
<1> QED BY <1>1, <1>2, <1>4, <1>6, <1>7, Looped

LEMMA ForBodyStep ==
  ASSUME CallsInv, Bounded, ForBody
  PROVE  CallsInv'
<1>1. /\ pc.at = "code" /\ res = "busy" /\ pc.header /\ pc.temps = 2
      /\ pc' = [pc EXCEPT !.header = FALSE, !.temps = 0, !.loops = @ + 1]
      /\ UNCHANGED <<sp, fp, stack, psp, paramstack, ret_val, nested_loop_idx, res, acts>>
  BY DEF ForBody, At, Go
<1>2. /\ pc \in Place /\ sp \in Nat /\ sp <= StackSize /\ stack \in [Slots -> Cells]
      /\ pc.loops \in Nat /\ pc.temps \in Nat /\ MaxForLoops \in Nat
      /\ MaxTemps \in Nat
  BY Facts
<1>3. /\ nested_loop_idx \in Nat /\ nested_loop_idx <= MaxForLoops
      /\ OpenLoops(pc) <= nested_loop_idx
  BY <1>1, Counting
<1>4. OpenLoops(pc) = pc.loops + 1 BY <1>1 DEF OpenLoops
<1>5. pc.loops + 1 \in 0 .. MaxForLoops /\ 0 \in 0 .. MaxTemps
  BY ONLY <1>2, <1>3, <1>4
<1>6. /\ pc' \in Place /\ pc'.at = "code" /\ pc'.fn = pc.fn /\ pc'.args = pc.args
      /\ pc'.loops = pc.loops + 1 /\ pc'.temps = 0 /\ ~pc'.header
  BY <1>1, <1>2, <1>5 DEF Place
<1>7. OpenLoops(pc') = pc.loops + 1 BY <1>2, <1>6 DEF OpenLoops
<1>8. sp' = sp + (2 * pc'.loops + pc'.temps) - (2 * pc.loops + pc.temps)
  BY ONLY <1>1, <1>2, <1>6
<1>9. /\ nested_loop_idx' \in Int /\ nested_loop_idx' <= MaxForLoops
      /\ nested_loop_idx' + OpenLoops(pc) = nested_loop_idx + OpenLoops(pc')
  BY <1>1, <1>3, <1>4, <1>7
<1> QED BY <1>1, <1>2, <1>6, <1>8, <1>9, Looped

(* The two values of a loop are dropped.                                   *)
LEMMA ForSkipStep ==
  ASSUME CallsInv, Bounded, ForSkip
  PROVE  CallsInv'
<1>1. /\ pc.at = "code" /\ res = "busy" /\ pc.header /\ pc.temps = 2
      /\ stack' = Dropped(sp - 2) /\ sp' = sp - 2
      /\ nested_loop_idx' = nested_loop_idx - 1
      /\ pc' = [pc EXCEPT !.header = FALSE, !.temps = 0]
      /\ UNCHANGED <<fp, psp, paramstack, ret_val, res, acts>>
  BY DEF ForSkip, At, Go, Drop
<1>2. /\ pc \in Place /\ sp \in Nat /\ sp <= StackSize /\ FrameSize(pc.fn) \in Nat
      /\ pc.loops \in Nat /\ pc.temps \in Nat /\ MaxForLoops \in Nat
      /\ MaxTemps \in Nat /\ fp \in Nat /\ StackSize \in Nat
  BY Facts
<1>3. /\ nested_loop_idx \in Nat /\ nested_loop_idx <= MaxForLoops
      /\ OpenLoops(pc) <= nested_loop_idx
  BY <1>1, Counting
<1>4. OpenLoops(pc) = pc.loops + 1 BY <1>1 DEF OpenLoops
<1>5. 0 \in 0 .. MaxTemps BY <1>2
<1>6. /\ pc' \in Place /\ pc'.at = "code" /\ pc'.fn = pc.fn /\ pc'.args = pc.args
      /\ pc'.loops = pc.loops /\ pc'.temps = 0 /\ ~pc'.header
  BY <1>1, <1>2, <1>5 DEF Place
<1>7. OpenLoops(pc') = pc.loops BY <1>2, <1>6 DEF OpenLoops
<1>8. fp + FrameSize(pc.fn) + pc.temps + Extra(pc) <= sp /\ Extra(pc) = 0
  BY <1>1, Room DEF Extra
<1>9. 2 \in Nat /\ 2 <= sp - fp BY ONLY <1>1, <1>2, <1>8
<1>10. /\ stack' \in [Slots -> Cells]
       /\ \A k \in Slots : k < fp => stack'[k] = stack[k]
  BY <1>1, <1>9, DropTypes
<1>11. /\ sp' = sp + (2 * pc'.loops + pc'.temps) - (2 * pc.loops + pc.temps)
       /\ sp' <= StackSize
  BY ONLY <1>1, <1>2, <1>6
<1>12. /\ nested_loop_idx' \in Int /\ nested_loop_idx' <= MaxForLoops
       /\ nested_loop_idx' + OpenLoops(pc) = nested_loop_idx + OpenLoops(pc')
  BY ONLY <1>1, <1>2, <1>3, <1>4, <1>7
<1> QED BY <1>1, <1>6, <1>10, <1>11, <1>12, Looped

LEMMA LoopEndStep ==
  ASSUME CallsInv, Bounded, LoopEnd
  PROVE  CallsInv'
<1>1. /\ pc.at = "code" /\ res = "busy" /\ ~pc.header /\ pc.temps = 0 /\ pc.loops > 0
      /\ stack' = Dropped(sp - 2) /\ sp' = sp - 2
      /\ nested_loop_idx' = nested_loop_idx - 1
      /\ pc' = [pc EXCEPT !.loops = @ - 1]
      /\ UNCHANGED <<fp, psp, paramstack, ret_val, res, acts>>
  BY DEF LoopEnd, Statement, Go, Drop
<1>2. /\ pc \in Place /\ sp \in Nat /\ sp <= StackSize /\ FrameSize(pc.fn) \in Nat
      /\ pc.loops \in Nat /\ pc.temps \in Nat /\ MaxForLoops \in Nat
      /\ MaxTemps \in Nat /\ fp \in Nat /\ pc.loops <= MaxForLoops /\ StackSize \in Nat
  BY Facts
<1>3. /\ nested_loop_idx \in Nat /\ nested_loop_idx <= MaxForLoops
      /\ OpenLoops(pc) <= nested_loop_idx
  BY <1>1, Counting
<1>4. OpenLoops(pc) = pc.loops BY <1>1, <1>2 DEF OpenLoops
<1>5. pc.loops - 1 \in 0 .. MaxForLoops BY ONLY <1>1, <1>2
<1>6. /\ pc' \in Place /\ pc'.at = "code" /\ pc'.fn = pc.fn /\ pc'.args = pc.args
      /\ pc'.loops = pc.loops - 1 /\ pc'.temps = pc.temps /\ ~pc'.header
  BY <1>1, <1>2, <1>5 DEF Place
<1>7. OpenLoops(pc') = pc.loops - 1 BY <1>2, <1>6 DEF OpenLoops
<1>8. fp + FrameSize(pc.fn) + 2 * pc.loops + pc.temps <= sp BY <1>1, Room
<1>9. 2 \in Nat /\ 2 <= sp - fp BY ONLY <1>1, <1>2, <1>8
<1>10. /\ stack' \in [Slots -> Cells]
       /\ \A k \in Slots : k < fp => stack'[k] = stack[k]
  BY <1>1, <1>9, DropTypes
<1>11. /\ sp' = sp + (2 * pc'.loops + pc'.temps) - (2 * pc.loops + pc.temps)
       /\ sp' <= StackSize
  BY ONLY <1>1, <1>2, <1>6
<1>12. /\ nested_loop_idx' \in Int /\ nested_loop_idx' <= MaxForLoops
       /\ nested_loop_idx' + OpenLoops(pc) = nested_loop_idx + OpenLoops(pc')
  BY ONLY <1>1, <1>2, <1>3, <1>4, <1>7
<1> QED BY <1>1, <1>6, <1>10, <1>11, <1>12, Looped

-----------------------------------------------------------------------------
(* Arguments and parameters.                                               *)
LEMMA ParamsThere ==
  ASSUME CallsInv, res = "busy"
  PROVE  psp >= pc.args
<1>1. Owed = 0 BY CallsAssumption DEF Owed
<1>2. psp >= PspAt(acts, Len(acts)) + pc.args + Owed BY DEF CallsInv, ParamsOwned
<1>3. PspAt(acts, Len(acts)) \in Nat BY Bases, CallsAssumption DEF CallsInv
<1>4. psp \in Nat /\ pc.args \in Nat BY Facts
<1> QED BY ONLY <1>1, <1>2, <1>3, <1>4

LEMMA PushParamStep ==
  ASSUME CallsInv, Bounded, PushParam
  PROVE  CallsInv'
<1>1. /\ pc.at = "code" /\ res = "busy" /\ pc.temps > 0 /\ pc.args < MaxArgs
      /\ ParamsFit(1)
      /\ paramstack' = [paramstack EXCEPT ![ParamSlot(psp)] = AsNum(Top(1))]
      /\ psp' = psp + 1
      /\ stack' = Dropped(sp - 1) /\ sp' = sp - 1
      /\ pc' = [pc EXCEPT !.temps = @ - 1, !.args = @ + 1]
      /\ UNCHANGED <<fp, ret_val, nested_loop_idx, res, acts>>
  BY DEF PushParam, At, Go, Drop
<1>2. /\ pc \in Place /\ sp \in Nat /\ fp \in Nat /\ sp <= StackSize /\ StackSize \in Nat
      /\ pc.temps \in Nat /\ pc.temps <= MaxTemps /\ MaxTemps \in Nat
      /\ pc.args \in Nat /\ MaxArgs \in Nat /\ FrameSize(pc.fn) \in Nat
      /\ psp \in Nat /\ psp <= ParamStackSize /\ ParamStackSize \in Nat
      /\ paramstack \in [ParamSlots -> Values \cup {Stale}]
      /\ ret_val \in Values \cup {Stale}
  BY Facts
<1>3. psp + 1 <= ParamStackSize BY <1>1 DEF ParamsFit, Bounded
<1>4. psp' \in 0 .. ParamStackSize BY <1>1, <1>2, <1>3
<1>5. paramstack' \in [ParamSlots -> Values \cup {Stale}]
  <2>1. AsNum(Top(1)) \in Values \cup {Stale} BY CellTypes
  <2> QED BY <1>1, <1>2, <2>1
<1>6. pc.temps - 1 \in 0 .. MaxTemps /\ pc.args + 1 \in 0 .. MaxArgs
  BY ONLY <1>1, <1>2
<1>7. /\ pc' \in Place /\ pc'.at = "code" /\ pc'.fn = pc.fn /\ pc'.loops = pc.loops
      /\ pc'.header = pc.header /\ pc'.temps = pc.temps - 1 /\ pc'.args = pc.args + 1
  BY <1>1, <1>2, <1>6 DEF Place
<1>8. Good(pc') /\ Extra(pc') = 0 /\ Extra(pc) = 0 BY <1>1, <1>7, CodeIsGood
<1>9. fp + FrameSize(pc.fn) + pc.temps + Extra(pc) <= sp BY <1>1, Room
<1>10. 1 \in Nat /\ 1 <= sp - fp BY ONLY <1>1, <1>2, <1>8, <1>9
<1>11. /\ stack' \in [Slots -> Cells]
       /\ \A k \in Slots : k < fp => stack'[k] = stack[k]
  BY <1>1, <1>10, DropTypes
<1>12. sp' = sp + (pc'.temps + Extra(pc')) - (pc.temps + Extra(pc)) /\ sp' <= StackSize
  BY <1>1, <1>2, <1>7, <1>8
<1>13. 1 \in Int /\ pc.at # "enter" /\ pc'.at # "enter" BY <1>1, <1>7
<1> QED BY <1>1, <1>2, <1>4, <1>5, <1>7, <1>8, <1>11, <1>12, <1>13, Stepped

(* PARAM: an argument is moved to the data stack.                          *)
LEMMA TakeParam ==
  ASSUME CallsInv, Bounded, res = "busy", pc.args > 0, Fits(1), pc.at # "enter",
         Push(Num(IF psp > 0 THEN paramstack[ParamSlot(psp - 1)] ELSE 0)),
         IF psp > 0 THEN psp' = psp - 1 /\ paramstack' = PopParams(1)
                    ELSE UNCHANGED <<psp, paramstack>>,
         pc' \in Place, pc'.at # "enter", Good(pc'), pc'.fn = pc.fn,
         pc'.loops = pc.loops, pc'.header = pc.header, pc'.args = pc.args - 1,
         pc'.temps + Extra(pc') = pc.temps + Extra(pc) + 1,
         UNCHANGED <<fp, ret_val, nested_loop_idx, res, acts>>
  PROVE  CallsInv'
<1>1. /\ pc \in Place /\ sp \in Nat /\ fp \in Nat /\ sp <= StackSize /\ StackSize \in Nat
      /\ pc.temps \in Nat /\ pc.args \in Nat
      /\ psp \in Nat /\ psp <= ParamStackSize /\ ParamStackSize \in Nat
      /\ paramstack \in [ParamSlots -> Values \cup {Stale}]
      /\ ret_val \in Values \cup {Stale}
  BY Facts
<1>2. psp > 0 BY <1>1, ParamsThere
<1>3. psp' = psp - 1 /\ paramstack' = PopParams(1) BY <1>2
<1>4. psp' \in 0 .. ParamStackSize BY <1>1, <1>2, <1>3
<1>5. paramstack' \in [ParamSlots -> Values \cup {Stale}]
  BY <1>1, <1>3, PoppedParams
<1>6. paramstack[ParamSlot(psp - 1)] \in Values \cup {Stale}
  <2>1. psp - 1 \in 0 .. ParamStackSize - 1 BY ONLY <1>1, <1>2
  <2>2. ParamSlot(psp - 1) = psp - 1 BY <2>1, ParamSlotIs
  <2> QED BY <1>1, <2>1, <2>2 DEF ParamSlots
<1>7. sp < StackSize BY RoomToPush
<1>8. Num(paramstack[ParamSlot(psp - 1)]) \in Cells BY <1>6, CellTypes
<1>9. Push(Num(paramstack[ParamSlot(psp - 1)])) BY <1>2
<1>10. /\ stack' \in [Slots -> Cells]
       /\ \A k \in Slots : k < fp => stack'[k] = stack[k]
       /\ sp' = sp + 1 /\ sp' <= StackSize
  BY <1>7, <1>8, <1>9, PushedCell
<1>11. sp' = sp + (pc'.temps + Extra(pc')) - (pc.temps + Extra(pc))
  <2>1. Extra(pc) \in Nat BY DEF Extra
  <2>2. pc'.temps + Extra(pc') = pc.temps + Extra(pc) + 1 OBVIOUS
  <2> QED BY ONLY <1>1, <1>10, <2>1, <2>2
<1>12. -1 \in Int /\ pc'.args = pc.args + (-1) /\ psp' = psp + (-1)
  BY <1>1, <1>3
<1> QED BY <1>1, <1>4, <1>5, <1>10, <1>11, <1>12, Stepped

LEMMA ParamStep ==
  ASSUME CallsInv, Bounded, Param
  PROVE  CallsInv'
<1>1. /\ pc.at = "params" /\ res = "busy" /\ Fits(1)
      /\ Push(Num(IF psp > 0 THEN paramstack[ParamSlot(psp - 1)] ELSE 0))
      /\ IF psp > 0 THEN psp' = psp - 1 /\ paramstack' = PopParams(1)
                    ELSE UNCHANGED <<psp, paramstack>>
      /\ pc' = [pc EXCEPT !.at = "local", !.args = @ - 1]
      /\ UNCHANGED <<fp, ret_val, nested_loop_idx, res, acts>>
  BY DEF Param, At, Go
<1>2. /\ pc \in Place /\ pc.args \in Nat /\ pc.temps \in Nat /\ pc.args <= MaxArgs
      /\ MaxArgs \in Nat /\ Good(pc)
  BY Facts
<1>3. /\ pc.args > 0 /\ pc.fn # Main /\ pc.loops = 0 /\ ~pc.header /\ pc.temps = 0
      /\ pc.args <= Params[pc.fn]
  BY <1>1, <1>2 DEF Good
<1>4. Params[pc.fn] \in Nat BY <1>2, <1>3, EntryPlace DEF Place
<1>5. pc.args - 1 \in 0 .. MaxArgs /\ pc.args - 1 < Params[pc.fn] /\ pc.args - 1 <= Params[pc.fn]
  BY ONLY <1>2, <1>3, <1>4
<1>6. /\ pc' \in Place /\ pc'.at = "local" /\ pc'.fn = pc.fn /\ pc'.loops = pc.loops
      /\ pc'.header = pc.header /\ pc'.temps = pc.temps /\ pc'.args = pc.args - 1
  BY <1>1, <1>2, <1>5 DEF Place
<1>7. Good(pc') BY <1>3, <1>5, <1>6 DEF Good
<1>8. pc'.temps + Extra(pc') = pc.temps + Extra(pc) + 1
  BY <1>1, <1>2, <1>6 DEF Extra
<1>9. pc.at # "enter" /\ pc'.at # "enter" BY <1>1, <1>6
<1> QED BY <1>1, <1>3, <1>6, <1>7, <1>8, <1>9, TakeParam

LEMMA XParamStep ==
  ASSUME CallsInv, Bounded, XParam
  PROVE  CallsInv'
<1>1. /\ pc.at = "xparam" /\ res = "busy" /\ Fits(1)
      /\ Push(Num(IF psp > 0 THEN paramstack[ParamSlot(psp - 1)] ELSE 0))
      /\ IF psp > 0 THEN psp' = psp - 1 /\ paramstack' = PopParams(1)
                    ELSE UNCHANGED <<psp, paramstack>>
      /\ pc' = [pc EXCEPT !.at = "code", !.temps = @ + 1, !.args = @ - 1]
      /\ UNCHANGED <<fp, ret_val, nested_loop_idx, res, acts>>
  BY DEF XParam, At, Go
<1>2. /\ pc \in Place /\ pc.args \in Nat /\ pc.temps \in Nat /\ pc.args <= MaxArgs
      /\ MaxArgs \in Nat /\ MaxTemps \in Nat /\ Good(pc)
  BY Facts
<1>3. pc.args > 0 /\ pc.temps < MaxTemps BY <1>1, <1>2 DEF Good
<1>4. pc.args - 1 \in 0 .. MaxArgs /\ pc.temps + 1 \in 0 .. MaxTemps
  BY ONLY <1>2, <1>3
<1>5. /\ pc' \in Place /\ pc'.at = "code" /\ pc'.fn = pc.fn /\ pc'.loops = pc.loops
      /\ pc'.header = pc.header /\ pc'.temps = pc.temps + 1 /\ pc'.args = pc.args - 1
  BY <1>1, <1>2, <1>4 DEF Place
<1>6. Good(pc') BY <1>5, CodeIsGood
<1>7. pc'.temps + Extra(pc') = pc.temps + Extra(pc) + 1
  BY <1>1, <1>2, <1>5 DEF Extra
<1>8. pc.at # "enter" /\ pc'.at # "enter" BY <1>1, <1>5
<1> QED BY <1>1, <1>3, <1>5, <1>6, <1>7, <1>8, TakeParam

LEMMA XPopStep ==
  ASSUME CallsInv, Bounded, XPop
  PROVE  CallsInv'
<1>1. /\ pc.at = "xpop" /\ res = "busy"
      /\ IF psp > 0 THEN psp' = psp - 1 /\ paramstack' = PopParams(1)
                    ELSE UNCHANGED <<psp, paramstack>>
      /\ pc' = [pc EXCEPT !.at = "code", !.args = @ - 1]
      /\ UNCHANGED <<sp, fp, stack, ret_val, nested_loop_idx, res, acts>>
  BY DEF XPop, At, Go
<1>2. /\ pc \in Place /\ pc.args \in Nat /\ pc.temps \in Nat /\ pc.args <= MaxArgs
      /\ MaxArgs \in Nat /\ Good(pc) /\ sp \in Nat /\ sp <= StackSize
      /\ psp \in Nat /\ psp <= ParamStackSize /\ ParamStackSize \in Nat
      /\ paramstack \in [ParamSlots -> Values \cup {Stale}]
      /\ stack \in [Slots -> Cells] /\ ret_val \in Values \cup {Stale}
  BY Facts
<1>3. pc.args > 0 BY <1>1, <1>2 DEF Good
<1>4. psp > 0 BY <1>1, <1>2, <1>3, ParamsThere
<1>5. psp' = psp - 1 /\ psp' \in 0 .. ParamStackSize BY <1>1, <1>2, <1>4
<1>6. paramstack' \in [ParamSlots -> Values \cup {Stale}]
  BY <1>1, <1>2, <1>4, PoppedParams
<1>7. pc.args - 1 \in 0 .. MaxArgs BY ONLY <1>2, <1>3
<1>8. /\ pc' \in Place /\ pc'.at = "code" /\ pc'.fn = pc.fn /\ pc'.loops = pc.loops
      /\ pc'.header = pc.header /\ pc'.temps = pc.temps /\ pc'.args = pc.args - 1
  BY <1>1, <1>2, <1>7 DEF Place
<1>9. Good(pc') BY <1>8, CodeIsGood
<1>10. Extra(pc) = 0 /\ Extra(pc') = 0 BY <1>1, <1>8 DEF Extra
<1>11. sp' = sp + (pc'.temps + Extra(pc')) - (pc.temps + Extra(pc)) /\ sp' <= StackSize
  BY <1>1, <1>2, <1>8, <1>10
<1>12. -1 \in Int /\ pc'.args = pc.args + (-1) /\ psp' = psp + (-1)
  BY <1>2, <1>5, <1>8
<1>13. pc.at # "enter" /\ pc'.at # "enter" BY <1>1, <1>8
<1> QED BY <1>1, <1>2, <1>5, <1>6, <1>8, <1>9, <1>11, <1>12, <1>13, Stepped

LEMMA PopParamStep ==
  ASSUME CallsInv, Bounded, PopParam
  PROVE  CallsInv'
<1>1. /\ pc.at = "local" /\ res = "busy"
      /\ stack' = [Dropped(sp - 1) EXCEPT ![fp + pc.args] = Top(1)] /\ sp' = sp - 1
      /\ pc' = [pc EXCEPT !.at = IF pc.args > 0 THEN "params" ELSE "code"]
      /\ UNCHANGED <<fp, psp, paramstack, ret_val, nested_loop_idx, res, acts>>
  BY DEF PopParam, At, Go
<1>2. /\ pc \in Place /\ pc.args \in Nat /\ pc.temps \in Nat /\ FrameSize(pc.fn) \in Nat
      /\ Good(pc) /\ sp \in Nat /\ sp <= StackSize /\ fp \in Nat /\ StackSize \in Nat
      /\ psp \in Nat /\ psp <= ParamStackSize /\ ParamStackSize \in Nat
      /\ paramstack \in [ParamSlots -> Values \cup {Stale}]
      /\ stack \in [Slots -> Cells] /\ ret_val \in Values \cup {Stale}
  BY Facts
<1>3. /\ pc.fn # Main /\ pc.loops = 0 /\ ~pc.header /\ pc.temps = 0
      /\ pc.args <= Params[pc.fn]
  BY <1>1, <1>2 DEF Good
<1>4. fp + FrameSize(pc.fn) + pc.temps + Extra(pc) <= sp /\ Extra(pc) = 1
  BY <1>1, Room DEF Extra
<1>5. sp - 1 >= fp /\ sp - 1 \in 0 .. StackSize - 1 /\ fp + pc.args \in Nat /\ fp <= fp + pc.args
  BY ONLY <1>2, <1>4
<1>6. Top(1) \in Cells
  <2>1. Slot(sp - 1) = sp - 1 BY <1>5, SlotIs
  <2> QED BY <1>2, <1>5, <2>1 DEF Top, Slots
<1>7. /\ stack' \in [Slots -> Cells]
      /\ \A k \in Slots : k < fp => stack'[k] = stack[k]
  BY <1>1, <1>5, <1>6, StoredCell
<1>8. /\ pc' \in Place /\ pc'.at = (IF pc.args > 0 THEN "params" ELSE "code")
      /\ pc'.fn = pc.fn /\ pc'.loops = pc.loops
      /\ pc'.header = pc.header /\ pc'.temps = pc.temps /\ pc'.args = pc.args
  BY <1>1, <1>2 DEF Place
<1>9. Good(pc') /\ Extra(pc') = 0 /\ pc'.at # "enter" BY <1>3, <1>8 DEF Good, Extra
<1>10. sp' = sp + (pc'.temps + Extra(pc')) - (pc.temps + Extra(pc)) /\ sp' <= StackSize
  BY <1>1, <1>2, <1>4, <1>8, <1>9
<1>11. 0 \in Int /\ pc'.args = pc.args + 0 /\ psp' = psp + 0 /\ psp' \in 0 .. ParamStackSize
  BY <1>1, <1>2, <1>8
<1>12. pc.at # "enter" BY <1>1
<1> QED BY <1>1, <1>2, <1>7, <1>8, <1>9, <1>10, <1>11, <1>12, Stepped

-----------------------------------------------------------------------------
(* Calls and returns.                                                      *)
LEMMA EnterStep ==
  ASSUME CallsInv, Bounded, Enter
  PROVE  CallsInv'
<1> DEFINE n == Len(acts)
           size == Locals[pc.fn]
<1>1. /\ pc.at = "enter" /\ res = "busy" /\ Fits(1 + size)
      /\ stack' = [stack EXCEPT ![Slot(sp)] = Link(fp)]
      /\ fp' = sp + 1 /\ sp' = sp + 1 + size
      /\ pc' = [pc EXCEPT !.at = IF pc.args > 0 THEN "params" ELSE "code"]
      /\ UNCHANGED <<psp, paramstack, ret_val, nested_loop_idx, res, acts>>
  BY DEF Enter, At, Go
<1>2. TypeOK /\ Frames /\ RunsAt /\ LoopsOpen /\ ParamsOwned BY DEF CallsInv
<1>3. /\ pc \in Place /\ Good(pc) /\ sp \in Nat /\ fp \in Nat /\ fp <= sp
      /\ StackSize \in Nat /\ stack \in [Slots -> Cells]
  BY Facts
<1>4. /\ pc.fn # Main /\ pc.loops = 0 /\ ~pc.header /\ pc.temps = 0
      /\ pc.args <= Params[pc.fn]
  BY <1>1, <1>3 DEF Good
<1>5. pc.fn \in Funcs /\ size \in Nat /\ FrameSize(pc.fn) = size
  BY <1>3, <1>4, CallsAssumption DEF Place, FrameSize
<1>6. acts # <<>> /\ fp = acts[n].fp /\ sp = acts[n].sp + 1
  BY <1>1, <1>2, <1>4 DEF RunsAt
<1>7. /\ n \in Nat \ {0} /\ n \in 1 .. n /\ acts[n] \in ActRecord
      /\ \A i \in 1 .. n : acts[i].sp <= acts[n].sp
  BY <1>2, <1>6, LastWaiter
<1>8. \A i \in 1 .. n : acts[i].sp \in Nat BY <1>2, Bases
<1>9. sp + 1 + size <= StackSize
  <2>1. sp + (1 + size) <= StackSize BY <1>1 DEF Fits, Bounded
  <2> QED BY ONLY <1>3, <1>5, <2>1
<1>10. sp \in 0 .. StackSize - 1 BY ONLY <1>3, <1>5, <1>9
<1>11. stack' = [stack EXCEPT ![sp] = Link(fp)] BY <1>1, <1>10, SlotIs
<1>12. stack' \in [Slots -> Cells] /\ stack'[sp] = Link(fp)
  BY <1>3, <1>10, <1>11, CellTypes DEF Slots
<1>13. /\ pc' \in Place /\ pc'.at = (IF pc.args > 0 THEN "params" ELSE "code")
       /\ pc'.fn = pc.fn /\ pc'.loops = pc.loops
       /\ pc'.header = pc.header /\ pc'.temps = pc.temps /\ pc'.args = pc.args
  BY <1>1, <1>3 DEF Place
<1>14. Good(pc') /\ pc'.at # "enter" /\ pc'.at # "local" BY <1>4, <1>13 DEF Good
<1>15. TypeOK'
  <2>1. sp' \in 0 .. StackSize /\ fp' \in 0 .. sp' BY ONLY <1>1, <1>3, <1>5, <1>9
  <2> QED BY <1>1, <1>2, <1>12, <1>13, <2>1 DEF TypeOK
<1>16. Chained' /\ Ordered' BY <1>1, <1>2 DEF Frames, Chained, Ordered, Waiter
<1>17. Saved'
  <2>1. ASSUME NEW i \in 1 .. n
        PROVE  stack'[acts[i].sp] = Ret(acts[i].pc)
               /\ acts[i].sp + 1 < StackSize /\ stack'[acts[i].sp + 1] = Link(acts[i].fp)
    <3>1. acts[i].sp \in Nat /\ acts[i].sp <= acts[n].sp /\ acts[n].sp \in Nat
      BY <1>7, <1>8
    <3>2. acts[i].sp # sp /\ acts[i].sp \in Slots
          /\ acts[i].sp + 1 \in Slots /\ acts[i].sp + 1 < StackSize
      BY ONLY <1>3, <1>6, <1>10, <3>1 DEF Slots
    <3>3. stack'[acts[i].sp] = Ret(acts[i].pc)
      BY <1>2, <1>3, <1>11, <3>2 DEF Frames, Saved
    <3>4. CASE i = n BY <1>6, <1>12, <3>2, <3>3, <3>4
    <3>5. CASE i < n
      <4>1. acts[i].sp + 2 <= acts[n].sp BY <1>2, <1>7, <3>5 DEF Frames, Ordered
      <4>2. acts[i].sp + 1 # sp BY ONLY <1>6, <3>1, <4>1
      <4>3. stack[acts[i].sp + 1] = Link(acts[i].fp) BY <1>2, <3>5 DEF Frames, Saved
      <4> QED BY <1>3, <1>11, <3>2, <3>3, <4>2, <4>3
    <3> QED BY <1>7, <3>4, <3>5
  <2> QED BY <1>1, <2>1 DEF Saved
<1>18. RunsAt'
  <2>1. fp' = BaseAt(acts, n)
    <3>1. acts[n].sp \in Nat BY <1>7, <1>8
    <3> QED BY <1>1, <1>6, <1>7, <3>1 DEF BaseAt
  <2>2. StackCounted'
    <3>1. sp' = fp' + size + 2 * 0 + 0 + 0 BY ONLY <1>1, <1>3, <1>5
    <3> QED BY <1>4, <1>5, <1>13, <1>14, <3>1 DEF StackCounted
  <2>3. BaseAt(acts, Len(acts))' = BaseAt(acts, n) BY <1>1 DEF BaseAt
  <2> QED BY <1>1, <1>2, <1>13, <1>14, <2>1, <2>2, <2>3 DEF RunsAt
<1>19. LoopsOpen'
  <2>1. OpenLoops(pc') = OpenLoops(pc) BY <1>13 DEF OpenLoops
  <2> QED BY <1>1, <2>1, SameLoops
<1>20. ParamsOwned'
  <2>1. 0 \in Int /\ pc'.args = pc.args + 0 /\ psp' = psp + 0
    BY <1>1, <1>13, Facts
  <2> QED BY <1>1, <2>1, SameParams
<1> QED BY <1>15, <1>16, <1>17, <1>18, <1>19, <1>20 DEF CallsInv, Frames

(* What a call at p finds: the running frame ends at sp.                   *)
LEMMA EndOfFrame ==
  ASSUME CallsInv, pc.at = "code"
  PROVE  sp = fp + FrameEnd(pc)
<1>1. sp = fp + FrameSize(pc.fn) + 2 * pc.loops + pc.temps + 0
  <2>1. Extra(pc) = 0 BY DEF Extra
  <2> QED BY <2>1, Heights
<1> QED BY <1>1, Facts, FrameSum

LEMMA ParamsHeld ==
  ASSUME CallsInv, res = "busy" \/ res \in XFuncs
  PROVE  /\ psp \in Nat /\ psp <= ParamStackSize /\ Owed \in Int
         /\ pc.args \in Nat /\ PspAt(acts, Len(acts)) \in Nat
         /\ psp >= PspAt(acts, Len(acts)) + pc.args + Owed
         /\ Tight => psp = PspAt(acts, Len(acts)) + pc.args + Owed
         /\ res = "busy" => Owed = 0
<1>1. /\ psp >= PspAt(acts, Len(acts)) + pc.args + Owed
      /\ Tight => psp = PspAt(acts, Len(acts)) + pc.args + Owed
  BY DEF CallsInv, ParamsOwned
<1>2. PspAt(acts, Len(acts)) \in Nat BY Bases, CallsAssumption DEF CallsInv
<1>3. psp \in Nat /\ psp <= ParamStackSize /\ pc.args \in Nat BY Facts
<1>4. \A x \in XFuncs : XArgs[x] \in Nat BY CallsAssumption
<1>5. Owed \in Int BY <1>4 DEF Owed
<1>6. res = "busy" => Owed = 0 BY CallsAssumption DEF Owed
<1> QED BY <1>1, <1>2, <1>3, <1>5, <1>6

LEMMA GosubStep ==
  ASSUME CallsInv, Bounded, NEW f \in Funcs, NEW n \in 0 .. MaxArgs,
         NEW wanted \in BOOLEAN, Gosub(f, n, wanted)
  PROVE  CallsInv'
<1> DEFINE p == [pc EXCEPT !.args = @ - n, !.at = IF wanted THEN "ret" ELSE "code"]
<1>1. /\ pc.at = "code" /\ res = "busy" /\ pc.args >= n /\ Params[f] <= n
      /\ Params[f] < n => "arity" \in Habits
      /\ wanted => pc.temps < MaxTemps
      /\ sp < StackSize /\ Push(Ret(p)) /\ Suspend(p, n, 0) /\ pc' = Entry(f)
      /\ UNCHANGED <<fp, psp, paramstack, ret_val, nested_loop_idx, res>>
  <2>1. Params[f] > n => FALSE BY DEF Gosub, Callable, Bounded
  <2>2. Params[f] \in Nat /\ n \in Nat BY EntryPlace, Facts
  <2>3. Params[f] <= n BY ONLY <2>1, <2>2
  <2> QED BY <2>3 DEF Gosub, Callable, At, Go
<1>2. /\ pc \in Place /\ sp \in Nat /\ fp \in Nat /\ StackSize \in Nat
      /\ pc.args \in Nat /\ pc.args <= MaxArgs /\ MaxArgs \in Nat
      /\ pc.temps \in Nat /\ ParamStackSize \in Nat
  BY Facts
<1>3. n \in Nat /\ pc.args - n \in 0 .. MaxArgs BY ONLY <1>1, <1>2, n \in 0 .. MaxArgs
<1>4. /\ p \in Place /\ p.fn = pc.fn /\ p.at = (IF wanted THEN "ret" ELSE "code")
      /\ p.loops = pc.loops /\ p.header = pc.header /\ p.temps = pc.temps
      /\ p.args = pc.args - n
  BY <1>2, <1>3 DEF Place
<1>5. sp \in 0 .. StackSize - 1 BY ONLY <1>1, <1>2
<1>6. stack' = [stack EXCEPT ![sp] = Ret(p)] /\ sp' = sp + 1
  BY <1>1, <1>5, SlotIs DEF Push
<1>7. acts' = Append(acts, [pc |-> p, fp |-> fp, sp |-> sp, psp |-> psp - n,
                            loops |-> nested_loop_idx])
  <2>1. sp - 0 = sp BY <1>2
  <2> QED BY <1>1, <2>1 DEF Suspend
<1>8. /\ psp \in Nat /\ psp <= ParamStackSize
      /\ PspAt(acts, Len(acts)) \in Nat
      /\ psp >= PspAt(acts, Len(acts)) + pc.args + 0
      /\ Tight => psp = PspAt(acts, Len(acts)) + pc.args + 0
  BY <1>1, ParamsHeld
<1>9. Params[f] \in Nat BY EntryPlace
<1> HIDE DEF p
<1>10. /\ psp - n \in 0 .. ParamStackSize
       /\ psp - n >= PspAt(acts, Len(acts)) + p.args
       /\ psp' \in 0 .. ParamStackSize /\ psp' >= (psp - n) + Params[f]
  BY ONLY <1>1, <1>2, <1>3, <1>4, <1>8, <1>9
<1>11. ASSUME Tight
       PROVE  psp - n = PspAt(acts, Len(acts)) + p.args
  <2>1. psp = PspAt(acts, Len(acts)) + pc.args + 0 BY <1>8, <1>11
  <2> QED BY ONLY <2>1, <1>2, <1>3, <1>4, <1>8
<1>12. Tight => psp' = (psp - n) + Params[f]
  <2>1. Tight => Params[f] = n BY <1>1, <1>3, <1>9 DEF Tight
  <2> QED BY ONLY <1>1, <1>3, <1>8, <2>1
<1>13. sp = fp + FrameEnd(p)
  <2>1. sp = fp + FrameEnd(pc) BY <1>1, EndOfFrame
  <2> QED BY <1>4, <2>1 DEF FrameEnd
<1>14. Good(p) /\ OpenLoops(p) = OpenLoops(pc) /\ p.at \in {"code", "ret"}
  BY <1>1, <1>4 DEF Good, OpenLoops
<1>15. pc.at # "enter" /\ res # "error" /\ res' = "busy" BY <1>1
<1> QED BY <1>1, <1>4, <1>5, <1>6, <1>7, <1>10, <1>11, <1>12, <1>13, <1>14, <1>15, Called

LEMMA DispatchStep ==
  ASSUME CallsInv, Bounded, NEW f \in Funcs, Dispatch(f)
  PROVE  CallsInv'
<1> DEFINE p == [pc EXCEPT !.temps = 0]
<1>1. /\ pc.at = "code" /\ res = "busy" /\ ~pc.header /\ pc.temps = 1 /\ pc.args = 0
      /\ Params[f] = 0 /\ sp - 1 < StackSize
      /\ stack' = [stack EXCEPT ![Slot(sp - 1)] = Ret(p)]
      /\ Suspend(p, 0, 1) /\ pc' = Entry(f)
      /\ UNCHANGED <<sp, fp, psp, paramstack, ret_val, nested_loop_idx, res>>
  <2>1. Params[f] > 0 => FALSE BY DEF Dispatch, Bounded
  <2>2. Params[f] \in Nat BY EntryPlace
  <2>3. Params[f] = 0 BY ONLY <2>1, <2>2
  <2> QED BY <2>3 DEF Dispatch, Statement, Go
<1>2. /\ pc \in Place /\ sp \in Nat /\ fp \in Nat /\ StackSize \in Nat
      /\ MaxTemps \in Nat /\ ParamStackSize \in Nat /\ FrameSize(pc.fn) \in Nat
      /\ sp <= StackSize /\ pc.loops \in Nat
  BY Facts
<1>3. /\ p \in Place /\ p.fn = pc.fn /\ p.at = "code"
      /\ p.loops = pc.loops /\ p.header = pc.header /\ p.temps = 0 /\ p.args = 0
  <2>1. 0 \in 0 .. MaxTemps BY <1>2
  <2> QED BY <1>1, <1>2, <2>1 DEF Place
<1> HIDE DEF p
<1>4. sp - 1 = fp + FrameEnd(p)
  <2>1. sp = fp + FrameSize(pc.fn) + 2 * pc.loops + 1 + 0
    <3>1. Extra(pc) = 0 BY <1>1 DEF Extra
    <3> QED BY <1>1, <3>1, Heights
  <2> DEFINE l == pc.loops
  <2>2. l \in Nat BY <1>2
  <2>3. sp = fp + FrameSize(pc.fn) + 2 * l + 1 + 0 BY <2>1
  <2> HIDE DEF l
  <2>4. sp - 1 = fp + (FrameSize(pc.fn) + 2 * l + 0) BY ONLY <1>2, <2>2, <2>3
  <2> QED BY <1>3, <2>4 DEF FrameEnd, l
<1>5. sp - 1 \in 0 .. StackSize - 1
  <2>1. FrameEnd(p) \in Nat BY <1>3, PlaceTypes
  <2> QED BY ONLY <1>1, <1>2, <1>4, <2>1
<1>6. stack' = [stack EXCEPT ![sp - 1] = Ret(p)] BY <1>1, <1>5, SlotIs
<1>7. /\ psp \in Nat /\ psp <= ParamStackSize
      /\ PspAt(acts, Len(acts)) \in Nat
      /\ psp >= PspAt(acts, Len(acts)) + 0 + 0
      /\ Tight => psp = PspAt(acts, Len(acts)) + 0 + 0
  BY <1>1, ParamsHeld
<1>8. acts' = Append(acts, [pc |-> p, fp |-> fp, sp |-> sp - 1, psp |-> psp,
                            loops |-> nested_loop_idx])
  <2>1. psp - 0 = psp BY <1>7
  <2> QED BY <1>1, <2>1 DEF Suspend
<1>9. /\ psp \in 0 .. ParamStackSize
      /\ psp >= PspAt(acts, Len(acts)) + p.args
      /\ psp' \in 0 .. ParamStackSize /\ psp' >= psp + Params[f]
  BY ONLY <1>1, <1>2, <1>3, <1>7
<1>10. /\ Tight => psp = PspAt(acts, Len(acts)) + p.args
       /\ Tight => psp' = psp + Params[f]
  BY ONLY <1>1, <1>3, <1>7
<1>11. Good(p) /\ OpenLoops(p) = OpenLoops(pc) /\ p.at \in {"code", "ret"}
  BY <1>3 DEF Good, OpenLoops
<1>12. pc.at # "enter" /\ res # "error" /\ res' = "busy" /\ sp' = (sp - 1) + 1
  BY <1>1, <1>2
<1> QED BY <1>1, <1>3, <1>4, <1>5, <1>6, <1>8, <1>9, <1>10, <1>11, <1>12, Called

(* The arguments that the host takes are there.                            *)
LEMMA HostTakes ==
  ASSUME CallsInv, res \in XFuncs
  PROVE  XArgs[res] \in Nat /\ psp \in Nat /\ XArgs[res] <= psp
<1>1. /\ psp \in Nat /\ pc.args \in Nat /\ PspAt(acts, Len(acts)) \in Nat
      /\ psp >= PspAt(acts, Len(acts)) + pc.args + Owed
  BY ParamsHeld
<1>2. XArgs[res] \in Nat BY CallsAssumption
<1>3. CASE res \in XValued
  <2>1. Owed = XArgs[res] - 1 BY <1>3 DEF Owed
  <2>2. pc.args > 0 BY <1>3 DEF CallsInv, ParamsOwned
  <2> QED BY ONLY <1>1, <1>2, <2>1, <2>2
<1>4. CASE res \notin XValued
  <2>1. Owed = XArgs[res] - 0 BY <1>4 DEF Owed
  <2> QED BY ONLY <1>1, <1>2, <2>1
<1> QED BY <1>3, <1>4

LEMMA HostLeaves ==
  ASSUME CallsInv, res \in XFuncs
  PROVE  Larger(0, psp - XArgs[res]) = psp - XArgs[res]
<1>1. XArgs[res] \in Nat /\ psp \in Nat /\ XArgs[res] <= psp BY HostTakes
<1>2. psp - XArgs[res] \in Nat BY ONLY <1>1
<1>3. PICK d \in Nat : d = psp - XArgs[res] BY <1>2
<1>4. Larger(0, d) = d BY <1>3 DEF Larger
<1> QED BY <1>3, <1>4

(* So the handler gets what was passed to fire_on_can.                     *)
LEMMA FireRepushes ==
  ASSUME CallsInv, HostFire
  PROVE  psp' = psp /\ paramstack' = paramstack
<1>1. /\ res = Fire /\ paramstack' = Repushed
      /\ psp' = IF psp <= ParamStackSize THEN Larger(psp, XArgs[Fire])
                ELSE Larger(ParamStackSize, psp - XArgs[Fire])
  BY DEF HostFire
<1>2. Fire \in XFuncs BY CallsAssumption
<1>3. XArgs[Fire] \in Nat /\ psp \in Nat /\ XArgs[Fire] <= psp BY <1>1, <1>2, HostTakes
<1>4. psp <= ParamStackSize BY <1>1, <1>2, ParamsHeld
<1>5. PICK x \in Nat : x = XArgs[Fire] BY <1>3
<1>6. x - psp <= 0 BY ONLY <1>3, <1>5
<1>7. paramstack' = paramstack BY <1>1, <1>5, <1>6 DEF Repushed
<1>8. psp >= x BY ONLY <1>3, <1>5
<1>9. Larger(psp, x) = psp BY <1>3, <1>5, <1>8 DEF Larger
<1> QED BY <1>1, <1>4, <1>5, <1>7, <1>9

LEMMA HostFireStep ==
  ASSUME CallsInv, Bounded, HostFire
  PROVE  CallsInv'
<1>1. /\ res = Fire /\ Fits(1) /\ Push(Ret(pc)) /\ Suspend(pc, XArgs[Fire], 0)
      /\ psp' = psp /\ paramstack' = paramstack
      /\ pc' = Entry(Handler) /\ res' = "busy"
      /\ UNCHANGED <<fp, ret_val, nested_loop_idx>>
  BY FireRepushes DEF HostFire, Go
<1>2. /\ pc \in Place /\ sp \in Nat /\ fp \in Nat /\ StackSize \in Nat
      /\ pc.args \in Nat /\ ParamStackSize \in Nat
  BY Facts
<1>3. /\ Fire \in XFuncs /\ Fire \notin XValued /\ Fire # "error" /\ Handler \in Funcs
      /\ XArgs[Fire] \in Nat /\ Params[Handler] \in Nat
      /\ Params[Handler] <= XArgs[Fire]
      /\ Params[Handler] < XArgs[Fire] => "event" \in Habits
  BY CallsAssumption
<1>4. Owed = XArgs[Fire] BY <1>1, <1>3 DEF Owed
<1>5. pc.at = "code" BY <1>1 DEF CallsInv, ParamsOwned
<1>6. /\ psp \in Nat /\ psp <= ParamStackSize
      /\ PspAt(acts, Len(acts)) \in Nat
      /\ psp >= PspAt(acts, Len(acts)) + pc.args + XArgs[Fire]
      /\ Tight => psp = PspAt(acts, Len(acts)) + pc.args + XArgs[Fire]
  BY <1>1, <1>3, <1>4, ParamsHeld
<1>7. psp' = psp BY <1>1
<1>8. sp < StackSize BY <1>1, RoomToPush
<1>9. sp \in 0 .. StackSize - 1 BY ONLY <1>2, <1>8
<1>10. stack' = [stack EXCEPT ![sp] = Ret(pc)] /\ sp' = sp + 1
  BY <1>1, <1>9, SlotIs DEF Push
<1>11. acts' = Append(acts, [pc |-> pc, fp |-> fp, sp |-> sp, psp |-> psp - XArgs[Fire],
                             loops |-> nested_loop_idx])
  <2>1. sp - 0 = sp BY <1>2
  <2> QED BY <1>1, <2>1 DEF Suspend
<1>12. /\ psp - XArgs[Fire] \in 0 .. ParamStackSize
       /\ psp - XArgs[Fire] >= PspAt(acts, Len(acts)) + pc.args
       /\ psp' \in 0 .. ParamStackSize
       /\ psp' >= (psp - XArgs[Fire]) + Params[Handler]
  BY ONLY <1>2, <1>3, <1>6, <1>7
<1>13. Tight => psp - XArgs[Fire] = PspAt(acts, Len(acts)) + pc.args
  BY ONLY <1>2, <1>3, <1>6
<1>14. Tight => psp' = (psp - XArgs[Fire]) + Params[Handler]
  <2>1. Tight => Params[Handler] = XArgs[Fire] BY <1>3 DEF Tight
  <2> QED BY ONLY <1>3, <1>6, <1>7, <2>1
<1>15. sp = fp + FrameEnd(pc) BY <1>5, EndOfFrame
<1>16. Good(pc) /\ pc.at \in {"code", "ret"} /\ pc.at # "enter" /\ res # "error"
  BY <1>1, <1>3, <1>5, CodeIsGood
<1> QED BY <1>1, <1>2, <1>3, <1>9, <1>10, <1>11, <1>12, <1>13, <1>14, <1>15, <1>16, Called

LEMMA LeaveStep ==
  ASSUME CallsInv, Bounded, Leave
  PROVE  CallsInv'
<1>1. /\ res = "busy" /\ pc.fn # Main /\ pc.at = "code" /\ ~pc.header /\ pc.args = 0
      /\ nested_loop_idx' = nested_loop_idx - pc.loops /\ Unwind
      /\ ret_val' = IF sp > fp THEN AsNum(Top(1)) ELSE ret_val
      /\ UNCHANGED <<psp, paramstack, res>>
  BY DEF Leave, Statement
<1>2. ret_val' \in Values \cup {Stale} BY <1>1, Facts, CellTypes
<1> QED BY <1>1, <1>2, Unwound

LEMMA RetiStep ==
  ASSUME CallsInv, Bounded, Reti
  PROVE  CallsInv'
<1>1. /\ res = "busy" /\ pc.fn # Main /\ pc.at = "code" /\ ~pc.header /\ pc.args = 0
      /\ nested_loop_idx' = nested_loop_idx - pc.loops /\ Unwind
      /\ UNCHANGED <<psp, paramstack, ret_val, res>>
  BY CallsAssumption DEF Reti, Statement, Bounded
<1>2. ret_val' \in Values \cup {Stale} BY <1>1, Facts
<1> QED BY <1>1, <1>2, Unwound

-----------------------------------------------------------------------------
(* External functions.                                                     *)
LEMMA XFuncStep ==
  ASSUME CallsInv, Bounded, NEW x \in XFuncs, NEW next \in {"xparam", "xpop", "code"},
         XFunc(x, next)
  PROVE  CallsInv'
<1> DEFINE one == IF x \in XValued THEN 1 ELSE 0
<1>1. /\ pc.at = "code" /\ res = "busy" /\ pc.args >= XArgs[x]
      /\ next = "xparam" => x \in XValued /\ pc.temps < MaxTemps
      /\ next = "xpop" => x \in XValued
      /\ next = "code" => x \notin XValued
      /\ x \in XValued => pc.args - XArgs[x] < MaxArgs /\ ParamsFit(1 - XArgs[x])
      /\ res' = x
      /\ pc' = [pc EXCEPT !.at = next, !.args = @ - XArgs[x] + one]
      /\ UNCHANGED <<sp, fp, stack, psp, paramstack, ret_val, nested_loop_idx, acts>>
  BY DEF XFunc, At, Go
<1>2. /\ pc \in Place /\ pc.args \in Nat /\ pc.args <= MaxArgs /\ MaxArgs \in Nat
      /\ sp \in Nat /\ sp <= StackSize /\ StackSize \in Nat
      /\ stack \in [Slots -> Cells] /\ psp \in Nat /\ psp <= ParamStackSize
      /\ ParamStackSize \in Nat /\ paramstack \in [ParamSlots -> Values \cup {Stale}]
      /\ ret_val \in Values \cup {Stale} /\ pc.temps \in Nat
  BY Facts
<1>3. /\ XArgs[x] \in Nat /\ x \notin {"busy", "error", "end"} /\ XValued \subseteq XFuncs
      /\ Fire \notin XValued
  BY CallsAssumption
<1>4. one \in {0, 1} /\ (x \notin XValued => one = 0) /\ (x \in XValued => one = 1)
  OBVIOUS
<1> HIDE DEF one
<1>5. pc.args - XArgs[x] + one \in 0 .. MaxArgs
  BY ONLY <1>1, <1>2, <1>3, <1>4
<1>6. /\ pc' \in Place /\ pc'.at = next /\ pc'.fn = pc.fn /\ pc'.loops = pc.loops
      /\ pc'.header = pc.header /\ pc'.temps = pc.temps
      /\ pc'.args = pc.args - XArgs[x] + one
  BY <1>1, <1>2, <1>5 DEF Place
<1>7. Good(pc')
  <2>1. next # "code" => pc'.args > 0 BY ONLY <1>1, <1>2, <1>3, <1>4, <1>6, next \in {"xparam", "xpop", "code"}
  <2> QED BY <1>1, <1>6, <2>1 DEF Good
<1>8. TypeOK' /\ Frames' /\ RunsAt'
  <2>1. FrameEnd(pc') = FrameEnd(pc) BY <1>6 DEF FrameEnd
  <2>2. sp = fp + FrameEnd(pc) BY <1>1, EndOfFrame
  <2>3. pc'.at # "local" /\ pc'.at # "enter" /\ pc.at # "enter" BY <1>1, <1>6
  <2>4. FrameEnd(pc) \in Nat /\ fp \in Nat BY <1>2, PlaceTypes, Facts
  <2>5. sp' = fp + FrameEnd(pc') + (IF pc'.at = "local" THEN 1 ELSE 0)
    BY <1>1, <1>2, <2>1, <2>2, <2>3
  <2>6. sp' \in 0 .. StackSize /\ psp' \in 0 .. ParamStackSize BY <1>1, <1>2
  <2>7. nested_loop_idx' \in 0 .. MaxForLoops + 1 BY <1>1 DEF CallsInv, TypeOK
  <2> QED BY <1>1, <1>2, <1>6, <1>7, <2>3, <2>5, <2>6, <2>7, Moved
<1>9. LoopsOpen'
  <2>1. OpenLoops(pc') = OpenLoops(pc) BY <1>6 DEF OpenLoops
  <2> QED BY <1>1, <2>1, SameLoops
<1>10. ParamsOwned'
  <2>1. /\ PspAt(acts, Len(acts)) \in Nat
        /\ psp >= PspAt(acts, Len(acts)) + pc.args + 0
        /\ Tight => psp = PspAt(acts, Len(acts)) + pc.args + 0
    BY <1>1, ParamsHeld
  <2>2. PspAt(acts, Len(acts))' = PspAt(acts, Len(acts)) BY <1>1 DEF PspAt
  <2>3. Owed' = XArgs[x] - one BY <1>1 DEF Owed, one
  <2>4. psp' >= PspAt(acts, Len(acts)) + pc'.args + (XArgs[x] - one)
    BY ONLY <1>1, <1>2, <1>3, <1>4, <1>6, <2>1
  <2>5. ASSUME Tight
        PROVE  psp' = PspAt(acts, Len(acts)) + pc'.args + (XArgs[x] - one)
    <3>1. psp = PspAt(acts, Len(acts)) + pc.args + 0 BY <2>1, <2>5
    <3>2. psp' = psp BY <1>1
    <3> QED BY ONLY <1>2, <1>3, <1>4, <1>6, <2>1, <3>1, <3>2
  <2>6. x \in XValued => psp' - XArgs[x] + 1 <= ParamStackSize
    <3>1. x \in XValued => psp + (1 - XArgs[x]) <= ParamStackSize
      BY <1>1 DEF ParamsFit, Bounded
    <3>2. psp' = psp BY <1>1
    <3> QED BY ONLY <1>2, <1>3, <3>1, <3>2
  <2>7. x = Fire => pc'.at = "code" BY <1>1, <1>3, <1>6
  <2>8. x \in XValued => pc'.args > 0 BY ONLY <1>1, <1>2, <1>3, <1>4, <1>6
  <2> QED BY <1>1, <2>2, <2>3, <2>4, <2>5, <2>6, <2>7, <2>8 DEF ParamsOwned, Tight
<1> QED BY <1>8, <1>9, <1>10 DEF CallsInv

(* Steps of the host, and errors, that leave the frames alone.             *)
LEMMA FramesSame ==
  ASSUME CallsInv, UNCHANGED <<pc, sp, fp, stack, acts>>, pc.at # "enter",
         paramstack' \in [ParamSlots -> Values \cup {Stale}],
         psp' \in 0 .. ParamStackSize,
         ret_val' = ret_val,
         nested_loop_idx' \in 0 .. MaxForLoops + 1,
         res' \in {"busy", "error", "end"} \cup XFuncs
  PROVE  TypeOK' /\ Frames' /\ RunsAt'
<1>1. TypeOK' BY DEF CallsInv, TypeOK
<1>2. Frames' BY DEF CallsInv, Frames, Chained, Ordered, Waiter, Saved
<1>3. RunsAt' BY DEF CallsInv, RunsAt, StackCounted, BaseAt
<1> QED BY <1>1, <1>2, <1>3

LEMMA HostAnswerStep ==
  ASSUME CallsInv, Bounded, NEW x \in XFuncs, NEW v \in Values, HostAnswer(x, v)
  PROVE  CallsInv'
<1> DEFINE left == psp - XArgs[x]
<1>1. /\ res = x
      /\ IF x \in XValued /\ left < ParamStackSize
         THEN /\ psp' = left + 1
              /\ paramstack' = [PopParams(XArgs[x]) EXCEPT ![ParamSlot(left)] = v]
         ELSE /\ psp' = left
              /\ paramstack' = PopParams(XArgs[x])
      /\ res' = "busy"
      /\ UNCHANGED <<pc, sp, fp, stack, ret_val, nested_loop_idx, acts>>
  <2>1. res = x BY DEF HostAnswer
  <2>2. Larger(0, psp - XArgs[x]) = left BY <2>1, HostLeaves
  <2> QED BY <2>1, <2>2 DEF HostAnswer
<1>2. /\ XArgs[x] \in Nat /\ x \notin {"busy", "error", "end"} /\ XValued \subseteq XFuncs
      /\ "busy" \notin XValued /\ Fire # "busy"
  BY CallsAssumption
<1>3. /\ psp \in Nat /\ psp <= ParamStackSize /\ ParamStackSize \in Nat
      /\ pc.args \in Nat /\ nested_loop_idx \in 0 .. MaxForLoops + 1
      /\ paramstack \in [ParamSlots -> Values \cup {Stale}]
  BY Facts DEF CallsInv, TypeOK
<1>4. /\ PspAt(acts, Len(acts)) \in Nat
      /\ psp >= PspAt(acts, Len(acts)) + pc.args + Owed
      /\ Tight => psp = PspAt(acts, Len(acts)) + pc.args + Owed
  BY <1>1, ParamsHeld
<1>5. x \in XValued => left + 1 <= ParamStackSize
  BY <1>1 DEF CallsInv, ParamsOwned
<1>6. psp' = psp - Owed /\ psp' \in Int
  <2>1. CASE x \in XValued
    <3>1. left < ParamStackSize BY <1>2, <1>3, <1>5, <2>1
    <3>2. psp' = left + 1 BY <1>1, <2>1, <3>1
    <3>3. Owed = XArgs[x] - 1 BY <1>1, <2>1 DEF Owed
    <3> QED BY ONLY <1>2, <1>3, <3>2, <3>3
  <2>2. CASE x \notin XValued
    <3>1. psp' = left BY <1>1, <2>2
    <3>2. Owed = XArgs[x] - 0 BY <1>1, <2>2 DEF Owed
    <3> QED BY ONLY <1>2, <1>3, <3>1, <3>2
  <2> QED BY <2>1, <2>2
<1>7. Owed \in Int BY <1>1, ParamsHeld
<1>8. psp' >= PspAt(acts, Len(acts)) + pc.args BY ONLY <1>3, <1>4, <1>6, <1>7
<1>9. ASSUME Tight
      PROVE  psp' = PspAt(acts, Len(acts)) + pc.args
  <2>1. psp = PspAt(acts, Len(acts)) + pc.args + Owed BY <1>4, <1>9
  <2> QED BY ONLY <1>3, <1>4, <1>6, <1>7, <2>1
<1>10. psp' \in 0 .. ParamStackSize
  <2>1. psp' <= ParamStackSize
    <3>1. CASE x \in XValued BY <1>1, <1>2, <1>3, <1>5, <3>1
    <3>2. CASE x \notin XValued BY <1>1, <1>2, <1>3, <3>2
    <3> QED BY <3>1, <3>2
  <2> QED BY ONLY <1>3, <1>4, <1>6, <1>8, <2>1
<1>11. paramstack' \in [ParamSlots -> Values \cup {Stale}]
  BY <1>1, <1>3, PoppedParams
<1>12. pc.at # "enter" BY <1>1, <1>2 DEF CallsInv, RunsAt
<1>13. TypeOK' /\ Frames' /\ RunsAt' BY <1>1, <1>3, <1>10, <1>11, <1>12, FramesSame
<1>14. LoopsOpen'
  <2>1. res # "error" BY <1>1, <1>2
  <2> QED BY <1>1, <2>1, SameLoops
<1>15. ParamsOwned'
  <2>1. PspAt(acts, Len(acts))' = PspAt(acts, Len(acts)) BY <1>1 DEF PspAt
  <2>2. Owed' = 0 BY <1>1, <1>2, CallsAssumption DEF Owed
  <2>3. PspAt(acts, Len(acts)) + pc.args + 0 = PspAt(acts, Len(acts)) + pc.args
    BY <1>3, <1>4
  <2> QED BY <1>1, <1>2, <1>8, <1>9, <2>1, <2>2, <2>3 DEF ParamsOwned, Tight
<1> QED BY <1>13, <1>14, <1>15 DEF CallsInv

-----------------------------------------------------------------------------
(* The ends of a program: errors, END, and a reset.                        *)
LEMMA TooManyLoopsStep ==
  ASSUME CallsInv, Bounded, TooManyLoops
  PROVE  CallsInv'
<1>1. /\ res = "busy" /\ pc.at = "code" /\ nested_loop_idx >= MaxForLoops
      /\ nested_loop_idx' = nested_loop_idx + 1 /\ res' = "error"
      /\ UNCHANGED <<pc, sp, fp, stack, psp, paramstack, ret_val, acts>>
  BY DEF TooManyLoops, Statement
<1>2. nested_loop_idx \in Nat /\ nested_loop_idx <= MaxForLoops /\ MaxForLoops \in Nat
  BY <1>1, Counting, Facts
<1>3. nested_loop_idx' \in 0 .. MaxForLoops + 1 BY ONLY <1>1, <1>2
<1>4. /\ psp \in 0 .. ParamStackSize /\ paramstack \in [ParamSlots -> Values \cup {Stale}]
  BY DEF CallsInv, TypeOK
<1>5. pc.at # "enter" BY <1>1
<1>6. TypeOK' /\ Frames' /\ RunsAt' BY <1>1, <1>3, <1>4, <1>5, FramesSame
<1>7. LoopsOpen' BY <1>1 DEF LoopsOpen
<1>8. ParamsOwned'
  <2>1. "error" \notin XFuncs /\ XValued \subseteq XFuncs /\ Fire \in XFuncs
    BY CallsAssumption
  <2> QED BY <1>1, <2>1 DEF ParamsOwned
<1> QED BY <1>6, <1>7, <1>8 DEF CallsInv

LEMMA StackOverflowStep ==
  ASSUME CallsInv, Bounded, NEW d \in {0, 1}, StackOverflow(d)
  PROVE  CallsInv'
<1>1. /\ AtCall(d) /\ sp - d >= StackSize /\ stack' = Dropped(sp - d) /\ sp' = sp - d
      /\ res' = "error"
      /\ UNCHANGED <<pc, fp, psp, paramstack, ret_val, nested_loop_idx, acts>>
  BY DEF StackOverflow, Drop
<1>2. /\ sp \in Nat /\ sp <= StackSize /\ StackSize \in Nat /\ pc \in Place /\ Good(pc)
      /\ fp \in Nat /\ fp <= sp
  BY Facts
<1>3. d = 0 BY ONLY <1>1, <1>2, d \in {0, 1}
<1>4. pc.at = "code" BY <1>1, <1>3 DEF AtCall, Callable, At
<1>5. 0 \in Nat /\ 0 <= sp - fp BY <1>2
<1>6. /\ stack' \in [Slots -> Cells]
      /\ \A k \in Slots : k < fp => stack'[k] = stack[k]
  BY <1>1, <1>3, <1>5, DropTypes
<1>7. sp = fp + FrameEnd(pc) BY <1>4, EndOfFrame
<1>8. FrameEnd(pc) \in Nat BY <1>2, PlaceTypes
<1>9. sp' = fp + FrameEnd(pc') + (IF pc'.at = "local" THEN 1 ELSE 0)
  BY <1>1, <1>2, <1>3, <1>4, <1>7, <1>8
<1>10. sp' \in 0 .. StackSize BY <1>1, <1>2, <1>3
<1>11. /\ psp \in 0 .. ParamStackSize /\ paramstack \in [ParamSlots -> Values \cup {Stale}]
       /\ ret_val \in Values \cup {Stale} /\ nested_loop_idx \in 0 .. MaxForLoops + 1
  BY DEF CallsInv, TypeOK
<1>12. TypeOK' /\ Frames' /\ RunsAt'
  BY <1>1, <1>2, <1>4, <1>6, <1>9, <1>10, <1>11, Moved
<1>13. LoopsOpen' BY <1>1 DEF LoopsOpen
<1>14. ParamsOwned'
  <2>1. "error" \notin XFuncs /\ XValued \subseteq XFuncs /\ Fire \in XFuncs
    BY CallsAssumption
  <2> QED BY <1>1, <2>1 DEF ParamsOwned
<1> QED BY <1>12, <1>13, <1>14 DEF CallsInv

LEMMA EndStep ==
  ASSUME CallsInv, Bounded, End
  PROVE  CallsInv'
<1>1. /\ res = "busy" /\ pc.at = "code" /\ res' = "end"
      /\ UNCHANGED <<pc, sp, fp, stack, psp, paramstack, ret_val, nested_loop_idx, acts>>
  BY DEF End, Statement
<1>2. /\ psp \in 0 .. ParamStackSize /\ paramstack \in [ParamSlots -> Values \cup {Stale}]
      /\ nested_loop_idx \in 0 .. MaxForLoops + 1
  BY DEF CallsInv, TypeOK
<1>3. pc.at # "enter" /\ res # "error" BY <1>1
<1>4. TypeOK' /\ Frames' /\ RunsAt' BY <1>1, <1>2, <1>3, FramesSame
<1>5. LoopsOpen' BY <1>1, <1>3, SameLoops
<1>6. ParamsOwned'
  <2>1. "end" \notin XFuncs /\ XValued \subseteq XFuncs /\ Fire \in XFuncs
    BY CallsAssumption
  <2> QED BY <1>1, <2>1 DEF ParamsOwned
<1> QED BY <1>4, <1>5, <1>6 DEF CallsInv

(* The state after a reset; it is the first one too.                       *)
Fresh ==
  /\ pc = Start /\ sp = 0 /\ fp = 0 /\ psp = 0
  /\ ret_val = 0 /\ nested_loop_idx = 0
  /\ stack = [c \in Slots |-> Num(0)]
  /\ paramstack = [c \in ParamSlots |-> 0]
  /\ res = "busy" /\ acts = <<>>

LEMMA FreshInv == Fresh => CallsInv
<1> SUFFICES ASSUME Fresh PROVE CallsInv OBVIOUS
<1>1. /\ StackSize \in Nat /\ ParamStackSize \in Nat
      /\ MaxForLoops \in Nat /\ MaxTemps \in Nat /\ MaxArgs \in Nat /\ 0 \in Values
      /\ "busy" \notin XFuncs /\ XValued \subseteq XFuncs /\ Fire \in XFuncs
  BY CallsAssumption
<1>2. acts = <<>> /\ Len(acts) = 0 /\ acts \in Seq(ActRecord)
  BY EmptySeq DEF Fresh
<1>3. /\ pc.fn = Main /\ pc.at = "code" /\ pc.loops = 0 /\ pc.header = FALSE
      /\ pc.temps = 0 /\ pc.args = 0 /\ pc \in Place
  BY <1>1 DEF Fresh, Start, Place
<1>4. Num(0) \in Cells BY <1>1, CellTypes
<1>5. TypeOK BY <1>1, <1>2, <1>3, <1>4 DEF Fresh, TypeOK, ActRecord
<1>6. Frames BY <1>2 DEF Frames, Chained, Ordered, Saved
<1>7. RunsAt
  <2>1. Good(pc) BY <1>3, CodeIsGood
  <2>2. StackCounted BY <1>3 DEF Fresh, StackCounted, FrameSize
  <2>3. fp = BaseAt(acts, Len(acts)) BY <1>2 DEF Fresh, BaseAt
  <2> QED BY <1>2, <1>3, <2>1, <2>2, <2>3 DEF RunsAt
<1>8. LoopsOpen BY <1>1, <1>2, <1>3 DEF Fresh, LoopsOpen, LoopsAt, OpenLoops
<1>9. ParamsOwned BY <1>1, <1>2, <1>3 DEF Fresh, ParamsOwned, PspAt, Owed, Tight
<1> QED BY <1>5, <1>6, <1>7, <1>8, <1>9 DEF CallsInv

LEMMA StutterStep ==
  ASSUME CallsInv, UNCHANGED vars
  PROVE  CallsInv'
BY DEF CallsInv, vars, registers, TypeOK, Frames, Chained, Ordered, Saved, Waiter, RunsAt,
       StackCounted, LoopsOpen, ParamsOwned, Owed, BaseAt, LoopsAt, PspAt

-----------------------------------------------------------------------------
LEMMA CallsInvInductive ==
  ASSUME CallsInv, Bounded, [Next]_vars
  PROVE  CallsInv'
<1>1. CASE Expression
  BY <1>1, PushValueStep, OperatorStep, PushLocalStep, PushParamStep, PushRetStep,
     XParamStep, XPopStep DEF Expression
<1>2. CASE Assignment
  BY <1>2, PopValueStep, PopLocalStep, StepLocalStep DEF Assignment
<1>3. CASE Loop
  BY <1>3, ForStep, TooManyLoopsStep, ForBodyStep, ForSkipStep, LoopEndStep DEF Loop
<1>4. CASE Call
  BY <1>4, GosubStep, StackOverflowStep, DispatchStep, EnterStep, ParamStep, PopParamStep,
     LeaveStep, RetiStep DEF Call
<1>5. CASE Host
  <2>1. Reset => CallsInv'
    <3>1. Reset => Fresh' BY DEF Reset, Fresh
    <3>2. Fresh' => CallsInv' BY FreshInv, PTL
    <3> QED BY <3>1, <3>2
  <2> QED BY <1>5, <2>1, XFuncStep, HostAnswerStep, HostFireStep, EndStep DEF Host
<1>6. CASE UNCHANGED vars BY <1>6, StutterStep
<1> QED BY <1>1, <1>2, <1>3, <1>4, <1>5, <1>6 DEF Next

LEMMA InitCallsInv == Init => CallsInv
BY FreshInv DEF Init, Fresh

(* Programs that fit on the two stacks keep them, and every other variable,*)
(* within their bounds: each value that is saved on the stack and taken    *)
(* again is a frame pointer or a place of the program (nc_run).            *)
THEOREM TypeCorrect ==
  ASSUME Bounded
  PROVE  Spec => []TypeOK
<1>1. CallsInv /\ [Next]_vars => CallsInv' BY CallsInvInductive
<1>2. CallsInv => TypeOK BY DEF CallsInv
<1> QED BY InitCallsInv, <1>1, <1>2, PTL DEF Spec

(* nested_loop_idx counts the loops that are open in all activations: no   *)
(* return, break or call forgets to count (FOR, FOR_CHECK, NEXT, BREAK_FOR *)
(* and FOR_LEAVE of nc_run).                                               *)
THEOREM LoopsCorrect ==
  ASSUME Bounded
  PROVE  Spec => []LoopsCounted
<1>1. CallsInv /\ [Next]_vars => CallsInv' BY CallsInvInductive
<1>2. CallsInv => LoopsCounted
  <2> SUFFICES ASSUME CallsInv PROVE LoopsCounted OBVIOUS
  <2>1. TypeOK /\ Frames BY DEF CallsInv
  <2>2. Below.loops = LoopsAt(acts, Len(acts))
    BY <2>1, Bases DEF Below, LoopsAt, Last
  <2> QED BY <2>2 DEF CallsInv, LoopsOpen, LoopsCounted
<1> QED BY InitCallsInv, <1>1, <1>2, PTL DEF Spec

(* The stack pointer is where the compiler expects it at every place of    *)
(* the program, whatever was called and fired in between.                  *)
THEOREM StackCorrect ==
  ASSUME Bounded
  PROVE  Spec => []StackCounted
<1>1. CallsInv /\ [Next]_vars => CallsInv' BY CallsInvInductive
<1>2. CallsInv => StackCounted BY DEF CallsInv, RunsAt
<1> QED BY InitCallsInv, <1>1, <1>2, PTL DEF Spec

(* Nothing piles up on the parameter stack, if each call passes as many    *)
(* arguments as the function has parameters.                               *)
THEOREM ParamsCorrect ==
  ASSUME Bounded, Tight
  PROVE  Spec => []ParamsCounted
<1>1. CallsInv /\ [Next]_vars => CallsInv' BY CallsInvInductive
<1>2. CallsInv => ParamsCounted
  <2> SUFFICES ASSUME CallsInv, res = "busy" PROVE psp = Below.psp + pc.args
    BY DEF ParamsCounted
  <2>1. TypeOK /\ Frames BY DEF CallsInv
  <2>2. Below.psp = PspAt(acts, Len(acts))
    BY <2>1, Bases DEF Below, PspAt, Last
  <2>3. psp = PspAt(acts, Len(acts)) + pc.args + Owed /\ Owed = 0
        /\ pc.args \in Nat /\ PspAt(acts, Len(acts)) \in Nat
    BY ParamsHeld
  <2> QED BY <2>2, <2>3
<1> QED BY InitCallsInv, <1>1, <1>2, PTL DEF Spec

-----------------------------------------------------------------------------
(* Pieces of the two stacks, as sequences.                                 *)
Cut(f, lo, hi) == [i \in 1 .. hi - lo |-> f[lo + i - 1]]

LEMMA CutIs ==
  ASSUME NEW f, NEW lo \in Nat, NEW hi \in Nat, lo <= hi,
         NEW S, \A k \in lo .. hi - 1 : f[k] \in S
  PROVE  /\ Cut(f, lo, hi) \in Seq(S)
         /\ Len(Cut(f, lo, hi)) = hi - lo
         /\ \A i \in 1 .. hi - lo : Cut(f, lo, hi)[i] = f[lo + i - 1]
<1> DEFINE c == Cut(f, lo, hi)
<1>1. hi - lo \in Nat OBVIOUS
<1>2. \A i \in 1 .. hi - lo : lo + i - 1 \in lo .. hi - 1 OBVIOUS
<1>3. /\ c \in [1 .. hi - lo -> S] /\ DOMAIN c = 1 .. hi - lo
      /\ \A i \in 1 .. hi - lo : c[i] = f[lo + i - 1]
  BY <1>2 DEF Cut
<1>4. c \in Seq(S) BY <1>1, <1>3, SeqDef
<1>5. Len(c) = hi - lo
  <2>1. Len(c) \in Nat /\ DOMAIN c = 1 .. Len(c) BY <1>4, LenProperties
  <2> HIDE DEF c
  <2>2. 1 .. Len(c) = 1 .. hi - lo BY <1>3, <2>1
  <2> QED BY ONLY <1>1, <2>1, <2>2
<1> QED BY <1>3, <1>4, <1>5

LEMMA CutSame ==
  ASSUME NEW f, NEW g, NEW lo \in Nat, NEW hi \in Nat,
         \A k \in lo .. hi - 1 : f[k] = g[k]
  PROVE  Cut(f, lo, hi) = Cut(g, lo, hi)
<1>1. \A i \in 1 .. hi - lo : lo + i - 1 \in lo .. hi - 1 OBVIOUS
<1>2. \A i \in 1 .. hi - lo : f[lo + i - 1] = g[lo + i - 1] BY <1>1
<1> QED BY <1>2 DEF Cut

LEMMA CutNone ==
  ASSUME NEW f, NEW lo \in Nat
  PROVE  Cut(f, lo, lo) = <<>>
<1>1. Cut(f, lo, lo) \in Seq({}) /\ Len(Cut(f, lo, lo)) = 0
  <2>1. lo <= lo /\ \A k \in lo .. lo - 1 : f[k] \in {} OBVIOUS
  <2>2. lo - lo = 0 OBVIOUS
  <2> QED BY <2>1, <2>2, CutIs
<1> QED BY <1>1, EmptySeq

(* The lower part of a piece is a prefix of it.                            *)
LEMMA CutPrefix ==
  ASSUME NEW f, NEW g, NEW lo \in Nat, NEW h \in Nat, NEW hi \in Nat, lo <= h, h <= hi,
         \A k \in lo .. h - 1 : g[k] = f[k]
  PROVE  IsPrefix(Cut(g, lo, h), Cut(f, lo, hi))
<1> DEFINE S == {f[k] : k \in lo .. hi - 1}
           m == h - lo
<1>1. (\A k \in lo .. hi - 1 : f[k] \in S) /\ lo <= hi OBVIOUS
<1>2. \A k \in lo .. h - 1 : k \in lo .. hi - 1 OBVIOUS
<1>3. \A k \in lo .. h - 1 : g[k] \in S BY <1>1, <1>2
<1>4. m \in Nat /\ m <= hi - lo OBVIOUS
<1>5. \A i \in 1 .. m : i \in 1 .. hi - lo /\ lo + i - 1 \in lo .. h - 1 OBVIOUS
<1> HIDE DEF S
<1> HIDE DEF m
<1>6. PICK c : c = Cut(g, lo, h) OBVIOUS
<1>7. PICK d : d = Cut(f, lo, hi) OBVIOUS
<1>8. c \in Seq(S) /\ Len(c) = m /\ \A i \in 1 .. m : c[i] = g[lo + i - 1]
  BY <1>3, <1>6, CutIs DEF m
<1>9. d \in Seq(S) /\ Len(d) = hi - lo /\ \A i \in 1 .. hi - lo : d[i] = f[lo + i - 1]
  BY <1>1, <1>7, CutIs
<1>10. \A i \in 1 .. m : c[i] = d[i]
  BY <1>5, <1>8, <1>9
<1>11. \A i \in 1 .. m : c[i] \in S /\ d[i] \in S
  BY <1>8, <1>10, ElementOfSeq
<1>12. PICK u : u = SubSeq(c, 1, m) OBVIOUS
<1>13. PICK v : v = SubSeq(d, 1, m) OBVIOUS
<1>14. m - 1 + 1 = m /\ (\A i \in 1 .. m : 1 + i - 1 = i) /\ (~(1 <= m) => m = 0) BY <1>4
<1>15. u \in Seq(S) /\ Len(u) = m /\ \A i \in 1 .. m : u[i] = c[i]
  BY <1>4, <1>11, <1>12, <1>14, SubSeqProperties
<1>16. v \in Seq(S) /\ Len(v) = m /\ \A i \in 1 .. m : v[i] = d[i]
  BY <1>4, <1>11, <1>13, <1>14, SubSeqProperties
<1>17. u = v BY <1>10, <1>15, <1>16, SeqEqual
<1> QED BY <1>4, <1>6, <1>7, <1>8, <1>9, <1>12, <1>13, <1>17 DEF IsPrefix

(* Front and Last of a piece, and of what is put together by Append.       *)
LEMMA Ends ==
  ASSUME NEW S, NEW s \in Seq(S), NEW e \in S
  PROVE  /\ Front(Append(s, e)) = s /\ Last(Append(s, e)) = e
         /\ Len(Append(s, e)) = Len(s) + 1 /\ Append(s, e) # <<>>
<1> DEFINE n == Len(s)
<1>1. n \in Nat BY LenProperties
<1>2. PICK t : t = Append(s, e) OBVIOUS
<1>3. t \in Seq(S) /\ Len(t) = n + 1 /\ t # <<>> /\ t[n + 1] = e
      /\ \A i \in 1 .. n : t[i] = s[i]
  BY <1>2, AppendProperties
<1> HIDE DEF n
<1>4. Front(t) \in Seq(S) /\ Len(Front(t)) = n /\ \A i \in 1 .. n : Front(t)[i] = t[i]
  BY ONLY <1>1, <1>3, FrontProperties
<1>5. Front(t) = s BY <1>3, <1>4, SeqEqual DEF n
<1>6. Last(t) = e BY <1>3 DEF Last
<1> QED BY <1>2, <1>3, <1>5, <1>6 DEF n

LEMMA CutLonger ==
  ASSUME NEW f, NEW lo \in Nat, NEW hi \in Nat, lo <= hi
  PROVE  /\ Cut(f, lo, hi + 1) = Append(Cut(f, lo, hi), f[hi])
         /\ Front(Cut(f, lo, hi + 1)) = Cut(f, lo, hi)
         /\ Last(Cut(f, lo, hi + 1)) = f[hi]
         /\ Cut(f, lo, hi + 1) # <<>>
<1> DEFINE S == {f[k] : k \in lo .. hi}
           n == hi - lo
<1>1. /\ \A k \in lo .. hi : f[k] \in S
      /\ hi \in lo .. hi
      /\ \A k \in lo .. hi - 1 : k \in lo .. hi
      /\ lo <= hi + 1 /\ hi + 1 \in Nat /\ (hi + 1) - 1 = hi
      /\ n \in Nat /\ (hi + 1) - lo = n + 1
      /\ lo + (n + 1) - 1 = hi
      /\ \A i \in 1 .. n + 1 : i \in 1 .. n \/ i = n + 1
      /\ \A i \in 1 .. n : i \in 1 .. n + 1
      /\ n + 1 \in 1 .. n + 1
  OBVIOUS
<1> HIDE DEF S
<1>2. PICK c : c = Cut(f, lo, hi) OBVIOUS
<1>3. PICK d : d = Cut(f, lo, hi + 1) OBVIOUS
<1>4. PICK e : e = f[hi] OBVIOUS
<1>5. PICK t : t = Append(c, e) OBVIOUS
<1>6. c \in Seq(S) /\ Len(c) = n /\ \A i \in 1 .. n : c[i] = f[lo + i - 1]
  <2>1. \A k \in lo .. hi - 1 : f[k] \in S BY <1>1
  <2> QED BY <2>1, <1>2, CutIs
<1>7. d \in Seq(S) /\ Len(d) = n + 1 /\ \A i \in 1 .. n + 1 : d[i] = f[lo + i - 1]
  <2>1. PICK h \in Nat : h = hi + 1 BY <1>1
  <2>2. lo <= h /\ h - lo = n + 1 /\ \A k \in lo .. h - 1 : k \in lo .. hi
    BY <1>1, <2>1
  <2>3. \A k \in lo .. h - 1 : f[k] \in S BY <1>1, <2>2
  <2>4. d = Cut(f, lo, h) BY <1>3, <2>1
  <2>5. lo <= h BY <2>2
  <2>6. /\ Cut(f, lo, h) \in Seq(S) /\ Len(Cut(f, lo, h)) = h - lo
        /\ \A i \in 1 .. h - lo : Cut(f, lo, h)[i] = f[lo + i - 1]
    BY ONLY lo \in Nat, h \in Nat, <2>3, <2>5, CutIs
  <2>7. d \in Seq(S) /\ Len(d) = h - lo /\ \A i \in 1 .. h - lo : d[i] = f[lo + i - 1]
    BY ONLY <2>4, <2>6
  <2> QED BY <2>2, <2>7
<1> HIDE DEF n
<1>8. e \in S BY <1>1, <1>4
<1>9. t \in Seq(S) /\ Len(t) = n + 1 /\ t # <<>> /\ t[n + 1] = e
      /\ \A i \in 1 .. n : t[i] = c[i]
  BY <1>5, <1>6, <1>8, AppendProperties
<1>10. \A i \in 1 .. n + 1 : t[i] = d[i]
  <2> TAKE i \in 1 .. n + 1
  <2>1. CASE i \in 1 .. n
    <3>1. t[i] = c[i] /\ c[i] = f[lo + i - 1] BY <2>1, <1>6, <1>9
    <3> QED BY <3>1, <1>7
  <2>2. CASE i = n + 1
    <3>1. t[i] = e BY <2>2, <1>9
    <3>2. d[i] = f[lo + i - 1] BY <1>7
    <3>3. lo + i - 1 = hi BY <2>2, <1>1
    <3> QED BY <3>1, <3>2, <3>3, <1>4
  <2> QED BY <2>1, <2>2, <1>1
<1>11. t = d BY <1>7, <1>9, <1>10, SeqEqual
<1>12. Front(t) = c /\ Last(t) = e BY <1>5, <1>6, <1>8, Ends
<1> QED BY <1>2, <1>3, <1>4, <1>5, <1>9, <1>11, <1>12

LEMMA CutSplit ==
  ASSUME NEW f, NEW a \in Nat, NEW b \in Nat, NEW c \in Nat, a <= b, b <= c
  PROVE  Cut(f, a, b) \o Cut(f, b, c) = Cut(f, a, c)
<1> DEFINE S == {f[k] : k \in a .. c - 1}
<1>1. /\ a <= c
      /\ \A k \in a .. c - 1 : f[k] \in S
      /\ \A k \in a .. b - 1 : k \in a .. c - 1
      /\ \A k \in b .. c - 1 : k \in a .. c - 1
  OBVIOUS
<1> HIDE DEF S
<1>2. PICK x : x = Cut(f, a, b) OBVIOUS
<1>3. PICK y : y = Cut(f, b, c) OBVIOUS
<1>4. PICK z : z = Cut(f, a, c) OBVIOUS
<1>5. PICK t : t = x \o y OBVIOUS
<1>6. x \in Seq(S) /\ Len(x) = b - a /\ \A i \in 1 .. b - a : x[i] = f[a + i - 1]
  BY <1>1, <1>2, CutIs
<1>7. y \in Seq(S) /\ Len(y) = c - b /\ \A i \in 1 .. c - b : y[i] = f[b + i - 1]
  BY <1>1, <1>3, CutIs
<1>8. z \in Seq(S) /\ Len(z) = c - a /\ \A i \in 1 .. c - a : z[i] = f[a + i - 1]
  BY <1>1, <1>4, CutIs
<1>9. t \in Seq(S) /\ Len(t) = Len(x) + Len(y)
      /\ \A i \in 1 .. Len(x) + Len(y) : t[i] = IF i <= Len(x) THEN x[i] ELSE y[i - Len(x)]
  BY <1>5, <1>6, <1>7, ConcatProperties
<1>10. Len(x) + Len(y) = c - a BY <1>6, <1>7
<1>11. \A i \in 1 .. c - a : t[i] = z[i]
  <2> TAKE i \in 1 .. c - a
  <2>1. z[i] = f[a + i - 1] BY <1>8
  <2>2. t[i] = IF i <= b - a THEN x[i] ELSE y[i - (b - a)] BY <1>6, <1>9, <1>10
  <2>3. CASE i <= b - a
    <3>1. i \in 1 .. b - a BY <2>3
    <3> QED BY <3>1, <2>1, <2>2, <2>3, <1>6
  <2>4. CASE ~(i <= b - a)
    <3>1. i - (b - a) \in 1 .. c - b /\ b + (i - (b - a)) - 1 = a + i - 1 BY <2>4
    <3>2. PICK j : j = i - (b - a) OBVIOUS
    <3>3. y[j] = f[b + j - 1] /\ b + j - 1 = a + i - 1 BY <3>1, <3>2, <1>7
    <3> QED BY <3>2, <3>3, <2>1, <2>2, <2>4
  <2> QED BY <2>3, <2>4
<1>12. t = z BY <1>8, <1>9, <1>10, <1>11, SeqEqual
<1> QED BY <1>2, <1>3, <1>4, <1>5, <1>12

(* One cell of a piece is changed, and its end is moved by one at most up. *)
LEMMA CutSmallStep ==
  ASSUME NEW f, NEW g, NEW lo \in Nat, NEW h \in Nat, NEW hi \in Nat, lo <= h, lo <= hi,
         hi <= h + 1, NEW c \in Int,
         \A k \in lo .. h - 1 : k < hi /\ k # c => g[k] = f[k]
  PROVE  Abs!SmallStep(Cut(f, lo, h), Cut(g, lo, hi))
<1> DEFINE S == {f[k] : k \in lo .. h - 1} \cup {g[k] : k \in lo .. hi - 1}
           m == c - lo + 1
<1>1. PICK old : old = Cut(f, lo, h) OBVIOUS
<1>2. PICK new : new = Cut(g, lo, hi) OBVIOUS
<1>3. old \in Seq(S) /\ Len(old) = h - lo /\ \A i \in 1 .. h - lo : old[i] = f[lo + i - 1]
  <2>1. \A k \in lo .. h - 1 : f[k] \in S OBVIOUS
  <2> HIDE DEF S
  <2> QED BY <2>1, <1>1, CutIs
<1>4. new \in Seq(S) /\ Len(new) = hi - lo /\ \A i \in 1 .. hi - lo : new[i] = g[lo + i - 1]
  <2>1. \A k \in lo .. hi - 1 : g[k] \in S OBVIOUS
  <2> HIDE DEF S
  <2> QED BY <2>1, <1>2, CutIs
<1> HIDE DEF S
<1>5. Len(new) <= Len(old) + 1 BY <1>3, <1>4
<1> DEFINE D == {i \in (1 .. Len(old)) \cap (1 .. Len(new)) : new[i] # old[i]}
<1>6. D \subseteq {m}
  <2> SUFFICES ASSUME NEW i \in 1 .. h - lo, i \in 1 .. hi - lo, i # m
               PROVE  new[i] = old[i]
    BY <1>3, <1>4
  <2>1. PICK k : k = lo + i - 1 OBVIOUS
  <2>2. k \in lo .. h - 1 /\ k < hi /\ k # c BY <2>1
  <2>3. g[k] = f[k] BY <2>2
  <2> QED BY <2>1, <2>3, <1>3, <1>4
<1>7. Cardinality(D) <= 1
  <2> HIDE DEF D
  <2>1. IsFiniteSet({m}) /\ Cardinality({m}) = 1 BY FS_Singleton
  <2>2. D \in SUBSET {m} BY <1>6
  <2>3. Cardinality(D) <= Cardinality({m}) BY <2>1, <2>2, FS_Subset
  <2> QED BY <2>1, <2>3
<1>8. Abs!Cardinality(D) <= 1
  <2> HIDE DEF D
  <2> QED BY <1>7 DEF Abs!Cardinality, Cardinality
<1>9. Abs!SmallStep(old, new) BY <1>5, <1>8 DEF Abs!SmallStep
<1> QED BY <1>1, <1>2, <1>9

-----------------------------------------------------------------------------
(* What the refinement needs besides CallsInv: only the two cells between  *)
(* two frames hold anything but numbers; the arguments of an activation are*)
(* above those of the one below it; who is waited for has a value to give; *)
(* and external functions are called at places of their own.               *)
Marked ==
  \A k \in Slots : \/ stack[k] \in Numbers
                   \/ \E i \in 1 .. Len(acts) : k = acts[i].sp \/ k = acts[i].sp + 1
PspOrdered == \A i, j \in 1 .. Len(acts) : i < j => acts[i].psp <= acts[j].psp
PspKept       == PspAt(acts, Len(acts)) <= psp
CalledBy(i) == IF i < Len(acts) THEN acts[i + 1].pc.fn ELSE pc.fn
Answered ==
  \A i \in 1 .. Len(acts) : acts[i].pc.at = "ret" => CalledBy(i) \in Valued
HostAt ==
  /\ res \in XFuncs => pc.at \in {"xparam", "xpop", "code"}
  /\ res \in XValued => pc.at \in {"xparam", "xpop"}

Shown == CallsInv /\ Marked /\ PspOrdered /\ PspKept /\ Answered /\ HostAt

-----------------------------------------------------------------------------
(* The frames of CallStack, by means of pieces of the two stacks.          *)
Frame(code, vals, args, got) == [code |-> code, vals |-> vals, args |-> args, got |-> got]
Piece(s, st, ps, i) ==
  Frame(s[i].pc, Cut(st, s[i].fp, s[i].sp), Cut(ps, PspAt(s, i - 1), s[i].psp), Stale)
Row(w, n) == w = [i \in 1 .. n |-> w[i]]

Waiters == [i \in DOMAIN acts |-> Waiting(i)]
SeenFrames    == Append(Waiters, Running)

View ==
  /\ Row(Waiters, Len(acts))
  /\ \A i \in 1 .. Len(acts) : Waiters[i] = Piece(acts, stack, paramstack, i)
  /\ Running = Frame(pc, IF pc.at = "enter" THEN <<>> ELSE Cut(stack, fp, sp),
                     Cut(paramstack, PspAt(acts, Len(acts)), psp),
                     IF pc.at = "ret" THEN Num(ret_val) ELSE Stale)
  /\ Abs!Active = Running /\ Abs!Callers = Waiters
  /\ Len(SeenFrames) = Len(acts) + 1

LEMMA RowIs ==
  ASSUME NEW n \in Nat, NEW w, Row(w, n), NEW S, \A i \in 1 .. n : w[i] \in S
  PROVE  w \in Seq(S) /\ Len(w) = n
<1>1. w \in [1 .. n -> S] /\ DOMAIN w = 1 .. n BY DEF Row
<1>2. w \in Seq(S) BY <1>1, SeqDef
<1>3. Len(w) \in Nat /\ DOMAIN w = 1 .. Len(w) BY <1>2, LenProperties
<1>4. 1 .. Len(w) = 1 .. n BY <1>1, <1>3
<1>5. Len(w) = n
  <2>1. PICK m : m = Len(w) OBVIOUS
  <2>2. m \in Nat /\ 1 .. m = 1 .. n BY <1>3, <1>4, <2>1
  <2>3. n \in Nat OBVIOUS
  <2>4. m = n BY ONLY <2>2, <2>3
  <2> QED BY <2>1, <2>4
<1> QED BY <1>2, <1>5

LEMMA RowEnds ==
  ASSUME NEW n \in Nat, NEW w, Row(w, n), NEW e
  PROVE  /\ Front(Append(w, e)) = w /\ Last(Append(w, e)) = e
         /\ Len(Append(w, e)) = n + 1 /\ Len(w) = n
<1> DEFINE S == {w[i] : i \in 1 .. n} \cup {e}
<1>1. (\A i \in 1 .. n : w[i] \in S) /\ e \in S OBVIOUS
<1> HIDE DEF S
<1>2. w \in Seq(S) /\ Len(w) = n BY <1>1, RowIs
<1> QED BY <1>1, <1>2, Ends

(* A row and the same with one element more.                               *)
LEMMA RowFront ==
  ASSUME NEW n \in Nat, NEW w, Row(w, n), NEW v, Row(v, n + 1),
         \A i \in 1 .. n : v[i] = w[i]
  PROVE  /\ Front(v) = w /\ Last(v) = v[n + 1] /\ Len(v) = n + 1
<1> DEFINE S == {v[i] : i \in 1 .. n + 1}
<1>1. /\ n + 1 \in Nat /\ \A i \in 1 .. n : i \in 1 .. n + 1
      /\ \A i \in 1 .. n + 1 : v[i] \in S
  OBVIOUS
<1> HIDE DEF S
<1>2. \A i \in 1 .. n : w[i] \in S BY <1>1
<1>3. w \in Seq(S) /\ Len(w) = n BY <1>2, RowIs
<1>4. v \in Seq(S) /\ Len(v) = n + 1
  <2>1. PICK m \in Nat : m = n + 1 BY <1>1
  <2>2. Row(v, m) /\ \A i \in 1 .. m : v[i] \in S BY <1>1, <2>1
  <2>3. v \in Seq(S) /\ Len(v) = m BY <2>1, <2>2, RowIs
  <2> QED BY <2>1, <2>3
<1>5. Front(v) \in Seq(S) /\ Len(Front(v)) = n /\ \A i \in 1 .. n : Front(v)[i] = v[i]
  BY ONLY <1>4, n \in Nat, FrontProperties
<1>6. Front(v) = w BY <1>3, <1>5, SeqEqual
<1> QED BY <1>4, <1>6 DEF Last

LEMMA RowSame ==
  ASSUME NEW n, NEW w, Row(w, n), NEW v, Row(v, n), \A i \in 1 .. n : v[i] = w[i]
  PROVE  v = w
BY DEF Row

LEMMA StackCut ==
  ASSUME NEW f, NEW lo \in Nat, NEW hi \in 0 .. StackSize
  PROVE  [i \in 1 .. hi - lo |-> f[Slot(lo + i - 1)]] = Cut(f, lo, hi)
<1>1. StackSize \in Nat BY CallsAssumption
<1>2. \A i \in 1 .. hi - lo : lo + i - 1 \in 0 .. StackSize - 1 BY ONLY <1>1, lo \in Nat, hi \in 0 .. StackSize
<1>3. \A i \in 1 .. hi - lo : Slot(lo + i - 1) = lo + i - 1
  <2> TAKE i \in 1 .. hi - lo
  <2>1. PICK k \in 0 .. StackSize - 1 : k = lo + i - 1 BY <1>2
  <2>2. Slot(k) = k BY <2>1, SlotIs
  <2> QED BY <2>1, <2>2
<1> QED BY <1>3 DEF Cut

LEMMA ParamCut ==
  ASSUME NEW f, NEW lo \in Nat, NEW hi \in 0 .. ParamStackSize
  PROVE  [i \in 1 .. hi - lo |-> f[ParamSlot(lo + i - 1)]] = Cut(f, lo, hi)
<1>1. ParamStackSize \in Nat BY CallsAssumption
<1>2. \A i \in 1 .. hi - lo : lo + i - 1 \in 0 .. ParamStackSize - 1
  BY ONLY <1>1, lo \in Nat, hi \in 0 .. ParamStackSize
<1>3. \A i \in 1 .. hi - lo : ParamSlot(lo + i - 1) = lo + i - 1
  <2> TAKE i \in 1 .. hi - lo
  <2>1. PICK k \in 0 .. ParamStackSize - 1 : k = lo + i - 1 BY <1>2
  <2>2. ParamSlot(k) = k BY <2>1, ParamSlotIs
  <2> QED BY <2>1, <2>2
<1> QED BY <1>3 DEF Cut

LEMMA ActTypes ==
  ASSUME CallsInv
  PROVE  /\ Len(acts) \in Nat /\ DOMAIN acts = 1 .. Len(acts)
         /\ \A i \in 1 .. Len(acts) :
              /\ acts[i] \in ActRecord /\ PspAt(acts, i) \in 0 .. ParamStackSize
              /\ acts[i].fp \in Nat /\ acts[i].sp \in 0 .. StackSize /\ acts[i].sp \in Nat
              /\ acts[i].psp \in 0 .. ParamStackSize /\ acts[i].psp \in Nat
         /\ \A i \in 0 .. Len(acts) : PspAt(acts, i) \in 0 .. ParamStackSize
                                      /\ PspAt(acts, i) \in Nat
<1>1. acts \in Seq(ActRecord) BY DEF CallsInv, TypeOK, ActRecord
<1>2. Len(acts) \in Nat /\ DOMAIN acts = 1 .. Len(acts) BY <1>1, LenProperties
<1>3. \A i \in 1 .. Len(acts) : acts[i] \in ActRecord BY <1>1, ElementOfSeq
<1>4. \A i \in 1 .. Len(acts) :
         /\ acts[i].fp \in Nat /\ acts[i].sp \in 0 .. StackSize /\ acts[i].sp \in Nat
         /\ acts[i].psp \in 0 .. ParamStackSize /\ acts[i].psp \in Nat
  BY <1>3, CallsAssumption DEF ActRecord
<1>5. ParamStackSize \in Nat BY CallsAssumption
<1>6. \A i \in 0 .. Len(acts) : PspAt(acts, i) \in 0 .. ParamStackSize
                                /\ PspAt(acts, i) \in Nat
  <2> TAKE i \in 0 .. Len(acts)
  <2>1. CASE i = 0 BY <2>1, <1>5 DEF PspAt
  <2>2. CASE i # 0
    <3>1. i \in 1 .. Len(acts) BY <2>2, <1>2
    <3> QED BY <3>1, <2>2, <1>4 DEF PspAt
  <2> QED BY <2>1, <2>2
<1>7. \A i \in 1 .. Len(acts) : i \in 0 .. Len(acts) BY <1>2
<1> QED BY <1>2, <1>3, <1>4, <1>6, <1>7

LEMMA ViewIs == CallsInv => View
<1> SUFFICES ASSUME CallsInv PROVE View OBVIOUS
<1> DEFINE n == Len(acts)
<1>1. n \in Nat /\ DOMAIN acts = 1 .. n BY ActTypes
<1>2. Row(Waiters, n) BY <1>1 DEF Row, Waiters
<1>3. ASSUME NEW i \in 1 .. n
      PROVE  Waiters[i] = Piece(acts, stack, paramstack, i)
  <2>1. Waiters[i] = Waiting(i) BY <1>1 DEF Waiters
  <2>2. acts[i].fp \in Nat /\ acts[i].sp \in 0 .. StackSize /\ acts[i].psp \in 0 .. ParamStackSize
    BY ActTypes
  <2>3. CellsFrom(acts[i].fp, acts[i].sp) = Cut(stack, acts[i].fp, acts[i].sp)
    BY <2>2, StackCut DEF CellsFrom
  <2>4. ParamsBelow(i) = PspAt(acts, i - 1) BY <1>1 DEF ParamsBelow, PspAt
  <2>5. i - 1 \in 0 .. n BY <1>1
  <2>6. PspAt(acts, i - 1) \in Nat BY <2>5, ActTypes
  <2>7. ParamsFrom(ParamsBelow(i), acts[i].psp) = Cut(paramstack, PspAt(acts, i - 1), acts[i].psp)
    BY <2>2, <2>4, <2>6, ParamCut DEF ParamsFrom
  <2> QED BY <2>1, <2>3, <2>7 DEF Waiting, Piece, Frame
<1>4. Running = Frame(pc, IF pc.at = "enter" THEN <<>> ELSE Cut(stack, fp, sp),
                      Cut(paramstack, PspAt(acts, n), psp),
                      IF pc.at = "ret" THEN Num(ret_val) ELSE Stale)
  <2>1. fp \in Nat /\ sp \in 0 .. StackSize /\ psp \in 0 .. ParamStackSize
    BY Facts DEF CallsInv, TypeOK
  <2>2. CellsFrom(fp, sp) = Cut(stack, fp, sp) BY <2>1, StackCut DEF CellsFrom
  <2>3. TypeOK /\ Frames BY DEF CallsInv
  <2>4. Below.psp = PspAt(acts, n) /\ PspAt(acts, n) \in Nat
    BY <2>3, Bases DEF Below, PspAt, Last
  <2>5. ParamsFrom(Below.psp, psp) = Cut(paramstack, PspAt(acts, n), psp)
    BY <2>1, <2>4, ParamCut DEF ParamsFrom
  <2> QED BY <2>2, <2>5 DEF Running, Frame, WaitsAt
<1>5. /\ Front(SeenFrames) = Waiters /\ Last(SeenFrames) = Running /\ Len(SeenFrames) = n + 1
  BY <1>1, <1>2, RowEnds DEF SeenFrames
<1>6. Abs!Active = Running /\ Abs!Callers = Waiters
  BY <1>5 DEF Abs!Active, Abs!Callers, Abs!Last, Abs!Front, Last, Front, SeenFrames, Waiters
<1> QED BY <1>2, <1>3, <1>4, <1>5, <1>6 DEF View

-----------------------------------------------------------------------------
(* Steps inside the running activation: they change one of its values at   *)
(* most, add one at most, and take some arguments or add one.              *)
SameBelow(g, f, S, h) == \A k \in S : k < h => g[k] = f[k]

CellsMoved ==
  /\ sp' <= sp + 1
  /\ \A k \in Slots : stack'[k] = stack[k] \/ stack'[k] \in Numbers
  /\ SameBelow(stack', stack, Slots, fp)
  /\ \E c \in Int : \A k \in Slots : k < sp /\ k < sp' /\ k # c => stack'[k] = stack[k]

ArgsMoved ==
  \/ psp' <= psp /\ SameBelow(paramstack', paramstack, ParamSlots, psp')
  \/ /\ PspAt(acts, Len(acts)) < psp' /\ psp' - 1 <= psp
     /\ SameBelow(paramstack', paramstack, ParamSlots, psp' - 1)

ValueTaken ==
  /\ sp' = sp + 1 /\ psp' = psp /\ paramstack' = paramstack
  /\ stack' = [stack EXCEPT ![sp] = Num(ret_val)]

Inside ==
  /\ acts' = acts /\ fp' = fp /\ pc.at # "enter" /\ pc'.at # "enter" /\ pc'.fn = pc.fn
  /\ CellsMoved /\ ArgsMoved
  /\ pc.at = "ret" => ValueTaken
  /\ HostAt'

(* The arguments that have been pushed lie one above the other.            *)
LEMMA PspBelow ==
  ASSUME CallsInv, PspOrdered, NEW i \in 1 .. Len(acts)
  PROVE  acts[i].psp <= PspAt(acts, Len(acts))
<1> DEFINE n == Len(acts)
<1>1. n \in Nat /\ acts[i].psp \in Nat BY ActTypes
<1>2. n \in 1 .. n /\ n # 0 BY <1>1
<1>3. PspAt(acts, n) = acts[n].psp BY <1>2 DEF PspAt
<1>4. CASE i = n BY <1>1, <1>3, <1>4
<1>5. CASE i # n
  <2>1. i < n BY <1>1, <1>5
  <2> QED BY <2>1, <1>2, <1>3 DEF PspOrdered
<1> QED BY <1>4, <1>5

LEMMA SpBelow ==
  ASSUME CallsInv, pc.at # "enter", NEW i \in 1 .. Len(acts)
  PROVE  acts[i].sp + 2 <= fp /\ acts[i].sp \in Nat
<1>1. TypeOK /\ Frames /\ fp = BaseAt(acts, Len(acts)) BY DEF CallsInv, RunsAt
<1> QED BY <1>1, Bases

LEMMA SamePiece ==
  ASSUME CallsInv, NEW i \in 1 .. Len(acts), NEW st, NEW ps, NEW h \in Nat, NEW q \in Nat,
         acts[i].sp <= h, SameBelow(st, stack, Slots, h),
         acts[i].psp <= q, SameBelow(ps, paramstack, ParamSlots, q)
  PROVE  Piece(acts, st, ps, i) = Piece(acts, stack, paramstack, i)
<1>1. /\ acts[i].fp \in Nat /\ acts[i].sp \in 0 .. StackSize /\ acts[i].sp \in Nat
      /\ acts[i].psp \in 0 .. ParamStackSize /\ acts[i].psp \in Nat
  BY ActTypes
<1>2. StackSize \in Nat /\ ParamStackSize \in Nat BY CallsAssumption
<1>3. PspAt(acts, i - 1) \in Nat
  <2>1. Len(acts) \in Nat BY ActTypes
  <2>2. i - 1 \in 0 .. Len(acts) BY <2>1
  <2> QED BY <2>2, ActTypes
<1>4. \A k \in acts[i].fp .. acts[i].sp - 1 : st[k] = stack[k]
  <2> TAKE k \in acts[i].fp .. acts[i].sp - 1
  <2>1. k \in Slots /\ k < h BY <1>1, <1>2 DEF Slots
  <2> QED BY <2>1 DEF SameBelow
<1>5. \A k \in PspAt(acts, i - 1) .. acts[i].psp - 1 : ps[k] = paramstack[k]
  <2> TAKE k \in PspAt(acts, i - 1) .. acts[i].psp - 1
  <2>1. k \in ParamSlots /\ k < q BY <1>1, <1>2, <1>3 DEF ParamSlots
  <2> QED BY <2>1 DEF SameBelow
<1>6. Cut(st, acts[i].fp, acts[i].sp) = Cut(stack, acts[i].fp, acts[i].sp)
  <2>1. PICK lo \in Nat : lo = acts[i].fp BY <1>1
  <2>2. PICK hi \in Nat : hi = acts[i].sp BY <1>1
  <2>3. \A k \in lo .. hi - 1 : st[k] = stack[k] BY <1>4, <2>1, <2>2
  <2>4. Cut(st, lo, hi) = Cut(stack, lo, hi) BY <2>3, CutSame
  <2> QED BY <2>1, <2>2, <2>4
<1>7. Cut(ps, PspAt(acts, i - 1), acts[i].psp) = Cut(paramstack, PspAt(acts, i - 1), acts[i].psp)
  <2>1. PICK lo \in Nat : lo = PspAt(acts, i - 1) BY <1>3
  <2>2. PICK hi \in Nat : hi = acts[i].psp BY <1>1
  <2>3. \A k \in lo .. hi - 1 : ps[k] = paramstack[k] BY <1>5, <2>1, <2>2
  <2>4. Cut(ps, lo, hi) = Cut(paramstack, lo, hi) BY <2>3, CutSame
  <2> QED BY <2>1, <2>2, <2>4
<1> QED BY <1>6, <1>7 DEF Piece

LEMMA InsideShown ==
  ASSUME Shown, CallsInv', PspKept', Inside
  PROVE  Shown'
<1>1. Marked' BY DEF Shown, Marked, Inside, CellsMoved
<1>2. PspOrdered' BY DEF Shown, PspOrdered, Inside
<1>3. Answered' BY DEF Shown, Answered, CalledBy, Inside
<1> QED BY <1>1, <1>2, <1>3 DEF Shown, Inside

LEMMA StackedIs ==
  ASSUME NEW f, NEW g, NEW m \in Nat, NEW lo \in Nat, NEW h \in 0 .. m, NEW hi \in 0 .. m,
         lo <= h, lo <= hi,
         \/ hi <= h /\ SameBelow(g, f, 0 .. m - 1, hi)
         \/ lo < hi /\ hi - 1 <= h /\ SameBelow(g, f, 0 .. m - 1, hi - 1)
  PROVE  Abs!Stacked(Cut(f, lo, h), Cut(g, lo, hi))
<1>1. h \in Nat /\ hi \in Nat OBVIOUS
<1>2. CASE hi <= h /\ SameBelow(g, f, 0 .. m - 1, hi)
  <2>1. \A k \in lo .. hi - 1 : k \in 0 .. m - 1 /\ k < hi OBVIOUS
  <2>2. \A k \in lo .. hi - 1 : g[k] = f[k] BY <2>1, <1>2 DEF SameBelow
  <2>3. IsPrefix(Cut(g, lo, hi), Cut(f, lo, h)) BY <1>1, <1>2, <2>2, CutPrefix
  <2> QED BY <2>3 DEF Abs!Stacked, Abs!IsPrefix, IsPrefix
<1>3. CASE lo < hi /\ hi - 1 <= h /\ SameBelow(g, f, 0 .. m - 1, hi - 1)
  <2>1. PICK b \in Nat : b = hi - 1 BY <1>1, <1>3
  <2>2. b \in Nat /\ hi = b + 1 /\ lo <= b /\ b <= h BY <1>1, <1>3, <2>1
  <2>3. \A k \in lo .. b - 1 : k \in 0 .. m - 1 /\ k < hi - 1 BY <2>1, <2>2
  <2>4. \A k \in lo .. b - 1 : g[k] = f[k] BY <2>3, <1>3 DEF SameBelow
  <2>5. IsPrefix(Cut(g, lo, b), Cut(f, lo, h)) BY <1>1, <2>2, <2>4, CutPrefix
  <2>6. Front(Cut(g, lo, hi)) = Cut(g, lo, b) /\ Cut(g, lo, hi) # <<>>
    BY <2>2, CutLonger
  <2> QED BY <2>5, <2>6 DEF Abs!Stacked, Abs!IsPrefix, IsPrefix, Abs!Front, Front
<1> QED BY <1>2, <1>3

LEMMA InsideRuns ==
  ASSUME Shown, Shown', Inside
  PROVE  Abs!Run
<1> DEFINE n == Len(acts)
           lo == PspAt(acts, n)
<1>1. CallsInv /\ CallsInv' /\ PspOrdered /\ PspKept /\ PspKept' BY DEF Shown
<1>2. View /\ View' BY <1>1, ViewIs, PTL
<1>3. /\ acts' = acts /\ fp' = fp /\ pc.at # "enter" /\ pc'.at # "enter"
      /\ CellsMoved /\ ArgsMoved /\ (pc.at = "ret" => ValueTaken)
  BY DEF Inside
<1>4. /\ n \in Nat /\ lo \in Nat /\ lo <= psp /\ lo <= psp'
      /\ psp \in 0 .. ParamStackSize /\ psp' \in 0 .. ParamStackSize
      /\ ParamStackSize \in Nat /\ StackSize \in Nat
      /\ fp \in Nat /\ sp \in Nat /\ sp' \in Nat /\ fp <= sp /\ fp <= sp'
      /\ sp <= StackSize /\ sp' <= StackSize
  <2>1. /\ sp \in 0 .. StackSize /\ fp \in 0 .. sp /\ sp' \in 0 .. StackSize
        /\ fp \in 0 .. sp' /\ psp \in 0 .. ParamStackSize /\ psp' \in 0 .. ParamStackSize
    BY <1>1, <1>3 DEF CallsInv, TypeOK
  <2>2. StackSize \in Nat /\ ParamStackSize \in Nat BY CallsAssumption
  <2>3. n \in Nat /\ lo \in Nat
    <3>1. n \in Nat BY <1>1, ActTypes
    <3>2. n \in 0 .. n BY <3>1
    <3> QED BY <1>1, <3>1, <3>2, ActTypes
  <2>4. lo <= psp /\ lo <= psp' BY <1>1, <1>3 DEF PspKept
  <2>5. fp \in Nat /\ sp \in Nat /\ sp' \in Nat /\ fp <= sp /\ fp <= sp'
        /\ sp <= StackSize /\ sp' <= StackSize
    BY ONLY <2>1, <2>2
  <2> QED BY <2>1, <2>2, <2>3, <2>4, <2>5
<1>5. /\ Abs!Active = Running /\ Abs!Active' = Running'
      /\ Abs!Callers = Waiters /\ Abs!Callers' = Waiters'
      /\ Len(SeenFrames)' = Len(SeenFrames)
  BY <1>2, <1>3 DEF View
<1>6. Waiters' = Waiters
  <2>1. SameBelow(paramstack', paramstack, ParamSlots, lo)
    <3>1. \A k \in ParamSlots : k < lo => k < psp' BY <1>4 DEF ParamSlots
    <3>2. CASE psp' <= psp /\ SameBelow(paramstack', paramstack, ParamSlots, psp')
      BY <3>1, <3>2 DEF SameBelow
    <3>3. CASE /\ lo < psp' /\ psp' - 1 <= psp
               /\ SameBelow(paramstack', paramstack, ParamSlots, psp' - 1)
      <4>1. \A k \in ParamSlots : k < lo => k < psp' - 1
        <5>1. PICK q \in Nat : q = psp' BY <1>4
        <5>2. PICK l \in Nat : l = lo BY <1>4
        <5>3. l < q BY <3>3, <5>1, <5>2
        <5>4. \A k \in Int : k < l => k < q - 1 BY ONLY <5>3, l \in Nat, q \in Nat
        <5>5. \A k \in ParamSlots : k \in Int BY <1>4 DEF ParamSlots
        <5> QED BY <5>1, <5>2, <5>4, <5>5
      <4> QED BY <4>1, <3>3 DEF SameBelow
    <3> QED BY <1>3, <3>2, <3>3 DEF ArgsMoved
  <2>2. SameBelow(stack', stack, Slots, fp) BY <1>3 DEF CellsMoved
  <2>3. ASSUME NEW i \in 1 .. n
        PROVE  Waiters'[i] = Waiters[i]
    <3>1. acts[i].sp <= fp
      <4>1. acts[i].sp + 2 <= fp /\ acts[i].sp \in Nat BY <1>1, <1>3, SpBelow
      <4> QED BY <4>1, <1>4
    <3>2. acts[i].psp <= lo BY <1>1, PspBelow
    <3>3. Piece(acts, stack', paramstack', i) = Piece(acts, stack, paramstack, i)
      BY <1>1, <1>4, <2>1, <2>2, <3>1, <3>2, SamePiece
    <3> QED BY <1>2, <1>3, <3>3 DEF View
  <2>4. Row(Waiters, n) /\ Row(Waiters', n) BY <1>2, <1>3 DEF View
  <2> QED BY <2>3, <2>4, RowSame
<1>7. /\ Running.vals = Cut(stack, fp, sp) /\ Running'.vals = Cut(stack', fp, sp')
      /\ Running.args = Cut(paramstack, lo, psp) /\ Running'.args = Cut(paramstack', lo, psp')
      /\ Running.code = pc /\ Running.got = IF pc.at = "ret" THEN Num(ret_val) ELSE Stale
  BY <1>2, <1>3 DEF View, Frame
<1>8. Abs!SmallStep(Running.vals, Running'.vals)
  <2>1. PICK c \in Int : \A k \in Slots : k < sp /\ k < sp' /\ k # c => stack'[k] = stack[k]
    BY <1>3 DEF CellsMoved
  <2>2. sp' <= sp + 1 BY <1>3 DEF CellsMoved
  <2>3. \A k \in fp .. sp - 1 : k < sp' /\ k # c => stack'[k] = stack[k]
    <3> TAKE k \in fp .. sp - 1
    <3>1. k \in Slots /\ k < sp BY <1>4 DEF Slots
    <3> QED BY <2>1, <3>1
  <2> QED BY <1>4, <1>7, <2>2, <2>3, CutSmallStep
<1>9. Abs!Stacked(Running.args, Running'.args)
  <2>1. \/ psp' <= psp /\ SameBelow(paramstack', paramstack, 0 .. ParamStackSize - 1, psp')
        \/ /\ lo < psp' /\ psp' - 1 <= psp
           /\ SameBelow(paramstack', paramstack, 0 .. ParamStackSize - 1, psp' - 1)
    BY <1>3 DEF ArgsMoved, ParamSlots
  <2>2. PICK q \in 0 .. ParamStackSize : q = psp' BY <1>4
  <2>3. PICK g : g = paramstack' OBVIOUS
  <2>4. Abs!Stacked(Cut(paramstack, lo, psp), Cut(g, lo, q))
    BY <1>4, <2>1, <2>2, <2>3, StackedIs
  <2> QED BY <1>7, <2>2, <2>3, <2>4
<1>10. pc.at = "ret" => Running'.vals = Append(Running.vals, Running.got)
  <2> SUFFICES ASSUME pc.at = "ret" PROVE Running'.vals = Append(Running.vals, Running.got)
    OBVIOUS
  <2>1. sp' = sp + 1 /\ stack' = [stack EXCEPT ![sp] = Num(ret_val)] BY <1>3 DEF ValueTaken
  <2>2. sp \in Slots BY <1>4, <2>1 DEF Slots
  <2>3. stack'[sp] = Num(ret_val) /\ \A k \in Slots : k # sp => stack'[k] = stack[k]
    BY <1>1, <2>1, <2>2, Facts
  <2>4. Cut(stack', fp, sp + 1) = Append(Cut(stack', fp, sp), stack'[sp])
    BY <1>4, CutLonger
  <2>5. Cut(stack', fp, sp) = Cut(stack, fp, sp)
    <3>1. \A k \in fp .. sp - 1 : k \in Slots /\ k # sp BY <1>4 DEF Slots
    <3>2. \A k \in fp .. sp - 1 : stack'[k] = stack[k] BY <2>3, <3>1
    <3> QED BY <1>4, <3>2, CutSame
  <2> QED BY <1>7, <2>1, <2>3, <2>4, <2>5
<1>11. WaitsAt(Running.code) <=> pc.at = "ret" BY <1>7 DEF WaitsAt
<1> HIDE DEF n, lo
<1> QED BY <1>5, <1>6, <1>8, <1>9, <1>10, <1>11 DEF Abs!Run, SeenFrames, Waiters

-----------------------------------------------------------------------------
(* What is moved by the instructions.                                      *)
LEMMA FreeHost == res \in {"busy", "error", "end"} => HostAt
BY CallsAssumption DEF HostAt

LEMMA BusyKept == CallsInv /\ res = "busy" => PspKept
<1> SUFFICES ASSUME CallsInv, res = "busy" PROVE PspKept OBVIOUS
<1>1. /\ psp \in Nat /\ pc.args \in Nat /\ PspAt(acts, Len(acts)) \in Nat
      /\ psp >= PspAt(acts, Len(acts)) + pc.args + 0
  BY ParamsHeld
<1>2. PspAt(acts, Len(acts)) <= psp BY ONLY <1>1
<1> QED BY <1>2 DEF PspKept

(* Above the cells that link two frames there are only numbers.            *)
LEMMA NumbersAbove ==
  ASSUME Shown, pc.at # "enter", NEW k \in Slots, fp <= k
  PROVE  stack[k] \in Numbers
<1>1. CallsInv /\ Marked BY DEF Shown
<1>2. fp \in Nat /\ k \in Int BY <1>1, Facts DEF Slots
<1>3. ASSUME NEW i \in 1 .. Len(acts)
      PROVE  k # acts[i].sp /\ k # acts[i].sp + 1
  <2>1. acts[i].sp + 2 <= fp /\ acts[i].sp \in Nat BY <1>1, SpBelow
  <2> QED BY <2>1, <1>2
<1> QED BY <1>1, <1>3 DEF Marked

LEMMA DroppedMarks ==
  ASSUME NEW lo, NEW k \in Slots
  PROVE  Dropped(lo)[k] = stack[k] \/ Dropped(lo)[k] \in Numbers
BY DEF Dropped, Num, Numbers

LEMMA NumberIs ==
  ASSUME NEW c \in Numbers
  PROVE  Num(AsNum(c)) = c
<1>1. PICK v \in Values \cup {Stale} : c = [num |-> v] BY DEF Numbers
<1>2. AsNum(c) = v BY <1>1 DEF AsNum
<1> QED BY <1>1, <1>2 DEF Num

LEMMA CellsSame ==
  ASSUME CallsInv, sp' = sp, stack' = stack
  PROVE  CellsMoved
<1>1. sp \in Nat BY Facts
<1>2. sp' <= sp + 1 BY <1>1
<1>3. 0 \in Int OBVIOUS
<1> QED BY <1>2, <1>3 DEF CellsMoved, SameBelow

LEMMA CellsPushed ==
  ASSUME CallsInv, Bounded, Fits(1), NEW c \in Numbers, Push(c)
  PROVE  CellsMoved
<1>1. sp < StackSize BY RoomToPush
<1>2. /\ sp \in Nat /\ fp \in Nat /\ fp <= sp /\ StackSize \in Nat
      /\ stack \in [Slots -> Cells]
  BY Facts
<1>3. sp \in 0 .. StackSize - 1 BY <1>1, <1>2
<1>4. stack' = [stack EXCEPT ![sp] = c] /\ sp' = sp + 1 BY <1>3, SlotIs DEF Push
<1>5. \A k \in Slots : stack'[k] = IF k = sp THEN c ELSE stack[k] BY <1>2, <1>4
<1>6. sp' <= sp + 1 /\ sp \in Int /\ \A k \in Slots : k < fp => k # sp
  BY <1>2, <1>4 DEF Slots
<1>7. \A k \in Slots : k < sp /\ k < sp' /\ k # sp => stack'[k] = stack[k] BY <1>5
<1> QED BY <1>5, <1>6, <1>7 DEF CellsMoved, SameBelow

LEMMA CellsDropped ==
  ASSUME CallsInv, NEW n \in Nat, n <= sp - fp, Drop(n)
  PROVE  CellsMoved
<1>1. /\ sp \in Nat /\ fp \in Nat /\ fp <= sp /\ StackSize \in Nat /\ sp <= StackSize
      /\ stack \in [Slots -> Cells] /\ sp \in 0 .. StackSize
  BY Facts
<1>2. sp - n \in 0 .. sp /\ sp - n <= sp + 1 /\ fp <= sp - n BY <1>1
<1>3. stack' = Dropped(sp - n) /\ sp' = sp - n BY DEF Drop
<1>4. \A k \in Slots : k < sp - n => Dropped(sp - n)[k] = stack[k]
  BY <1>1, <1>2, DroppedCells
<1>5. \A k \in Slots : k < fp => k < sp - n BY <1>1, <1>2 DEF Slots
<1>6. \A k \in Slots : stack'[k] = stack[k] \/ stack'[k] \in Numbers
  BY <1>3, DroppedMarks
<1>7. \A k \in Slots : k < sp /\ k < sp' /\ k # 0 => stack'[k] = stack[k]
  BY <1>3, <1>4
<1>8. sp' <= sp + 1 BY <1>2, <1>3
<1>9. SameBelow(stack', stack, Slots, fp) BY <1>3, <1>4, <1>5 DEF SameBelow
<1>10. 0 \in Int OBVIOUS
<1> QED BY <1>6, <1>7, <1>8, <1>9, <1>10 DEF CellsMoved

(* A number is stored in the frame, after one or none has been dropped.    *)
LEMMA CellsStored ==
  ASSUME CallsInv, NEW n \in Nat, n <= sp - fp, NEW j \in Nat, fp <= j, NEW c \in Numbers,
         stack' = [Dropped(sp - n) EXCEPT ![j] = c], sp' = sp - n
  PROVE  CellsMoved
<1>1. /\ sp \in Nat /\ fp \in Nat /\ fp <= sp /\ StackSize \in Nat /\ sp <= StackSize
      /\ stack \in [Slots -> Cells] /\ sp \in 0 .. StackSize
  BY Facts
<1>2. sp - n \in 0 .. sp /\ sp - n <= sp + 1 /\ fp <= sp - n BY <1>1
<1>3. /\ Dropped(sp - n) \in [Slots -> Cells]
      /\ \A k \in Slots : k < sp - n => Dropped(sp - n)[k] = stack[k]
  BY <1>1, <1>2, DroppedCells
<1>4. \A k \in Slots : stack'[k] = IF k = j THEN c ELSE Dropped(sp - n)[k]
  <2>1. DOMAIN Dropped(sp - n) = Slots BY <1>3
  <2> QED BY <2>1
<1>5. \A k \in Slots : k < fp => k < sp - n /\ k # j BY <1>1, <1>2 DEF Slots
<1>6. \A k \in Slots : stack'[k] = stack[k] \/ stack'[k] \in Numbers
  BY <1>4, DroppedMarks
<1>7. \A k \in Slots : k < sp /\ k < sp' /\ k # j => stack'[k] = stack[k]
  BY <1>3, <1>4
<1>8. sp' <= sp + 1 BY <1>2
<1>9. SameBelow(stack', stack, Slots, fp) BY <1>3, <1>4, <1>5 DEF SameBelow
<1>10. j \in Int OBVIOUS
<1> QED BY <1>6, <1>7, <1>8, <1>9, <1>10 DEF CellsMoved

LEMMA ArgsSame ==
  ASSUME CallsInv, psp' = psp, paramstack' = paramstack
  PROVE  ArgsMoved
<1>1. psp' <= psp BY Facts
<1> QED BY <1>1 DEF ArgsMoved, SameBelow

(* The arguments below those that are popped stay as they are.             *)
LEMMA PoppedBelow ==
  ASSUME CallsInv, NEW n \in Nat, n <= psp
  PROVE  SameBelow(PopParams(n), paramstack, ParamSlots, psp - n)
<1>1. psp \in Nat /\ psp <= ParamStackSize /\ ParamStackSize \in Nat BY Facts
<1>2. SUFFICES ASSUME NEW c \in ParamSlots, c < psp - n
               PROVE  PopParams(n)[c] = paramstack[c]
  BY DEF SameBelow
<1>3. ASSUME NEW k \in psp - n .. psp - 1
      PROVE  ParamSlot(k) # c
  <2>1. k \in 0 .. ParamStackSize - 1 BY <1>1
  <2>2. ParamSlot(k) = k BY <2>1, ParamSlotIs
  <2>3. c \in Int BY <1>1 DEF ParamSlots
  <2> QED BY <1>1, <1>2, <2>2, <2>3
<1> QED BY <1>3 DEF PopParams

LEMMA ArgTaken ==
  ASSUME CallsInv, psp > 0, psp' = psp - 1, paramstack' = PopParams(1)
  PROVE  ArgsMoved
<1>1. psp \in Nat /\ 1 \in Nat BY Facts
<1>2. 1 <= psp /\ psp' <= psp BY <1>1
<1>3. SameBelow(PopParams(1), paramstack, ParamSlots, psp - 1) BY <1>1, <1>2, PoppedBelow
<1> QED BY <1>2, <1>3 DEF ArgsMoved

LEMMA InsideIs ==
  ASSUME acts' = acts, fp' = fp, pc.at \notin {"enter", "ret"}, pc'.at # "enter",
         pc'.fn = pc.fn, CellsMoved, ArgsMoved, res' \in {"busy", "error", "end"}
  PROVE  Inside
<1>1. HostAt'
  <2>1. (res \in {"busy", "error", "end"})' => HostAt' BY FreeHost, PTL
  <2> QED BY <2>1
<1> QED BY <1>1 DEF Inside

(* Heights of the running frame: its values, and its temporaries.          *)
LEMMA Inner ==
  ASSUME CallsInv, pc.at # "enter"
  PROVE  /\ pc \in Place /\ sp \in Nat /\ fp \in Nat /\ fp <= sp /\ sp <= StackSize
         /\ StackSize \in Nat /\ pc.temps \in Nat /\ pc.loops \in Nat
         /\ fp + pc.temps + Extra(pc) <= sp /\ fp + 2 * pc.loops <= sp
         /\ Extra(pc) \in {0, 1}
<1>1. /\ pc \in Place /\ sp \in Nat /\ fp \in Nat /\ fp <= sp /\ sp <= StackSize
      /\ StackSize \in Nat /\ pc.temps \in Nat /\ pc.loops \in Nat
      /\ FrameSize(pc.fn) \in Nat
  BY Facts
<1>2. /\ fp + FrameSize(pc.fn) + pc.temps + Extra(pc) <= sp
      /\ fp + FrameSize(pc.fn) + 2 * pc.loops + pc.temps <= sp
  BY Room
<1>3. Extra(pc) \in {0, 1} BY DEF Extra
<1> DEFINE z == FrameSize(pc.fn)  t == pc.temps  l == pc.loops  e == Extra(pc)
<1>4. z \in Nat /\ t \in Nat /\ l \in Nat /\ e \in Nat /\ fp + z + t + e <= sp
      /\ fp + z + 2 * l + t <= sp
  BY <1>1, <1>2, <1>3
<1> HIDE DEF z, t, l, e
<1>5. fp + t + e <= sp /\ fp + 2 * l <= sp BY ONLY <1>1, <1>4
<1> QED BY <1>1, <1>3, <1>5 DEF z, t, l, e

-----------------------------------------------------------------------------
(* The instructions that stay inside the running activation.               *)
LEMMA PushValueInside ==
  ASSUME Shown, Bounded, NEW v \in Values, PushValue(v)
  PROVE  Inside
<1>1. /\ pc.at = "code" /\ res = "busy" /\ Fits(1) /\ Push(Num(v))
      /\ pc' = [pc EXCEPT !.temps = @ + 1]
      /\ UNCHANGED <<fp, psp, paramstack, ret_val, nested_loop_idx, res, acts>>
  BY DEF PushValue, At, Go
<1>2. CallsInv /\ pc \in Place BY Facts DEF Shown
<1>3. Num(v) \in Numbers BY DEF Num, Numbers
<1>4. CellsMoved BY <1>1, <1>2, <1>3, CellsPushed
<1>5. ArgsMoved BY <1>1, <1>2, ArgsSame
<1>6. pc'.at = "code" /\ pc'.fn = pc.fn BY <1>1, <1>2 DEF Place
<1> QED BY <1>1, <1>4, <1>5, <1>6, InsideIs

LEMMA PushLocalInside ==
  ASSUME Shown, Bounded, NEW i \in 0 .. FrameSize(pc.fn) - 1, PushLocal(i)
  PROVE  Inside
<1>1. /\ pc.at = "code" /\ res = "busy" /\ Fits(1) /\ Push(stack[fp + i])
      /\ pc' = [pc EXCEPT !.temps = @ + 1]
      /\ UNCHANGED <<fp, psp, paramstack, ret_val, nested_loop_idx, res, acts>>
  BY DEF PushLocal, At, Go
<1>2. CallsInv /\ pc \in Place BY Facts DEF Shown
<1>3. stack[fp + i] \in Numbers
  <2>1. /\ fp + FrameSize(pc.fn) + pc.temps + Extra(pc) <= sp /\ Extra(pc) = 0
    BY <1>1, <1>2, Room DEF Extra
  <2>2. /\ sp \in Nat /\ fp \in Nat /\ sp <= StackSize /\ StackSize \in Nat
        /\ pc.temps \in Nat /\ FrameSize(pc.fn) \in Nat
    BY <1>2, Facts
  <2>3. fp + i \in Slots /\ fp <= fp + i BY <2>1, <2>2 DEF Slots
  <2> QED BY <1>1, <2>3, NumbersAbove
<1>4. CellsMoved BY <1>1, <1>2, <1>3, CellsPushed
<1>5. ArgsMoved BY <1>1, <1>2, ArgsSame
<1>6. pc'.at = "code" /\ pc'.fn = pc.fn BY <1>1, <1>2 DEF Place
<1> QED BY <1>1, <1>4, <1>5, <1>6, InsideIs

LEMMA OperatorInside ==
  ASSUME Shown, Bounded, NEW v \in Values, Operator(v)
  PROVE  Inside
<1>1. /\ pc.at = "code" /\ res = "busy" /\ pc.temps >= 2
      /\ stack' = [Dropped(sp - 1) EXCEPT ![Slot(sp - 2)] = Num(v)] /\ sp' = sp - 1
      /\ pc' = [pc EXCEPT !.temps = @ - 1]
      /\ UNCHANGED <<fp, psp, paramstack, ret_val, nested_loop_idx, res, acts>>
  BY DEF Operator, At, Go
<1>2. CallsInv BY DEF Shown
<1>3. /\ pc \in Place /\ sp \in Nat /\ fp \in Nat /\ sp <= StackSize /\ StackSize \in Nat
      /\ pc.temps \in Nat /\ fp + pc.temps + Extra(pc) <= sp /\ Extra(pc) \in {0, 1}
  BY <1>1, <1>2, Inner
<1>4. /\ sp - 2 \in 0 .. StackSize - 1 /\ sp - 2 \in Nat /\ fp <= sp - 2
      /\ 1 \in Nat /\ 1 <= sp - fp
  BY ONLY <1>1, <1>3
<1>5. stack' = [Dropped(sp - 1) EXCEPT ![sp - 2] = Num(v)] BY <1>1, <1>4, SlotIs
<1>6. Num(v) \in Numbers BY DEF Num, Numbers
<1>7. CellsMoved BY <1>1, <1>2, <1>4, <1>5, <1>6, CellsStored
<1>8. ArgsMoved BY <1>1, <1>2, ArgsSame
<1>9. pc'.at = "code" /\ pc'.fn = pc.fn BY <1>1, <1>3 DEF Place
<1> QED BY <1>1, <1>7, <1>8, <1>9, InsideIs

LEMMA PushRetInside ==
  ASSUME Shown, Bounded, PushRet
  PROVE  Inside
<1>1. /\ pc.at = "ret" /\ res = "busy" /\ Fits(1) /\ Push(Num(ret_val))
      /\ pc' = [pc EXCEPT !.at = "code", !.temps = @ + 1]
      /\ UNCHANGED <<fp, psp, paramstack, ret_val, nested_loop_idx, res, acts>>
  BY DEF PushRet, At, Go
<1>2. CallsInv /\ pc \in Place /\ ret_val \in Values \cup {Stale} BY Facts DEF Shown
<1>3. Num(ret_val) \in Numbers BY <1>2 DEF Num, Numbers
<1>4. CellsMoved BY <1>1, <1>2, <1>3, CellsPushed
<1>5. ArgsMoved BY <1>1, <1>2, ArgsSame
<1>6. pc'.at = "code" /\ pc'.fn = pc.fn BY <1>1, <1>2 DEF Place
<1>7. ValueTaken
  <2>1. sp < StackSize /\ sp \in Nat /\ StackSize \in Nat BY <1>1, <1>2, RoomToPush, Facts
  <2>2. sp \in 0 .. StackSize - 1 BY <2>1
  <2> QED BY <1>1, <2>2, SlotIs DEF Push, ValueTaken
<1>8. HostAt'
  <2>1. (res \in {"busy", "error", "end"})' => HostAt' BY FreeHost, PTL
  <2> QED BY <1>1, <2>1
<1> QED BY <1>1, <1>4, <1>5, <1>6, <1>7, <1>8 DEF Inside

LEMMA PopValueInside ==
  ASSUME Shown, Bounded, PopValue
  PROVE  Inside
<1>1. /\ pc.at = "code" /\ res = "busy" /\ pc.temps = 1 /\ Drop(1)
      /\ pc' = [pc EXCEPT !.temps = 0]
      /\ UNCHANGED <<fp, psp, paramstack, ret_val, nested_loop_idx, res, acts>>
  BY DEF PopValue, At, Go
<1>2. CallsInv BY DEF Shown
<1>3. /\ pc \in Place /\ sp \in Nat /\ fp \in Nat /\ sp <= StackSize /\ StackSize \in Nat
      /\ pc.temps \in Nat /\ fp + pc.temps + Extra(pc) <= sp /\ Extra(pc) \in {0, 1}
  BY <1>1, <1>2, Inner
<1>4. 1 \in Nat /\ 1 <= sp - fp BY ONLY <1>1, <1>3
<1>5. CellsMoved BY <1>1, <1>2, <1>4, CellsDropped
<1>6. ArgsMoved BY <1>1, <1>2, ArgsSame
<1>7. pc'.at = "code" /\ pc'.fn = pc.fn BY <1>1, <1>3 DEF Place
<1> QED BY <1>1, <1>5, <1>6, <1>7, InsideIs

LEMMA PopLocalInside ==
  ASSUME Shown, Bounded, NEW i \in 0 .. FrameSize(pc.fn) - 1, PopLocal(i)
  PROVE  Inside
<1>1. /\ pc.at = "code" /\ res = "busy" /\ pc.temps = 1
      /\ stack' = [Dropped(sp - 1) EXCEPT ![fp + i] = Top(1)] /\ sp' = sp - 1
      /\ pc' = [pc EXCEPT !.temps = 0]
      /\ UNCHANGED <<fp, psp, paramstack, ret_val, nested_loop_idx, res, acts>>
  BY DEF PopLocal, At, Go
<1>2. CallsInv BY DEF Shown
<1>3. /\ pc \in Place /\ sp \in Nat /\ fp \in Nat /\ sp <= StackSize /\ StackSize \in Nat
      /\ pc.temps \in Nat /\ fp + pc.temps + Extra(pc) <= sp /\ Extra(pc) \in {0, 1}
  BY <1>1, <1>2, Inner
<1>4. 1 \in Nat /\ 1 <= sp - fp /\ sp - 1 \in 0 .. StackSize - 1 /\ fp <= sp - 1
  BY ONLY <1>1, <1>3
<1>5. fp + i \in Nat /\ fp <= fp + i
  <2>1. FrameSize(pc.fn) \in Nat BY <1>2, Facts
  <2> QED BY <1>3, <2>1
<1>6. Top(1) \in Numbers
  <2>1. Slot(sp - 1) = sp - 1 BY <1>4, SlotIs
  <2>2. sp - 1 \in Slots BY <1>4 DEF Slots
  <2>3. stack[sp - 1] \in Numbers BY <1>1, <1>4, <2>2, NumbersAbove
  <2> QED BY <2>1, <2>3 DEF Top
<1>7. CellsMoved BY <1>1, <1>2, <1>4, <1>5, <1>6, CellsStored
<1>8. ArgsMoved BY <1>1, <1>2, ArgsSame
<1>9. pc'.at = "code" /\ pc'.fn = pc.fn BY <1>1, <1>3 DEF Place
<1> QED BY <1>1, <1>7, <1>8, <1>9, InsideIs

LEMMA StepLocalInside ==
  ASSUME Shown, Bounded, NEW i \in 0 .. FrameSize(pc.fn) - 1, NEW v \in Values,
         StepLocal(i, v)
  PROVE  Inside
<1>1. /\ pc.at = "code" /\ res = "busy" /\ stack' = [stack EXCEPT ![fp + i] = Num(v)]
      /\ pc' = pc /\ sp' = sp
      /\ UNCHANGED <<fp, psp, paramstack, ret_val, nested_loop_idx, res, acts>>
  BY DEF StepLocal, Statement, registers
<1>2. CallsInv BY DEF Shown
<1>3. sp \in Nat /\ fp \in Nat /\ FrameSize(pc.fn) \in Nat /\ stack \in [Slots -> Cells]
      /\ StackSize \in Nat
  BY <1>2, Facts
<1>4. fp + i \in Int /\ sp' <= sp + 1 BY <1>1, <1>3
<1>5. Num(v) \in Numbers BY DEF Num, Numbers
<1>6. \A k \in Slots : stack'[k] = IF k = fp + i THEN Num(v) ELSE stack[k]
  BY <1>1, <1>3
<1>7. \A k \in Slots : k < fp => k # fp + i BY ONLY <1>3, i \in 0 .. FrameSize(pc.fn) - 1 DEF Slots
<1>8. SameBelow(stack', stack, Slots, fp) BY <1>6, <1>7 DEF SameBelow
<1>9. \A k \in Slots : k < sp /\ k < sp' /\ k # fp + i => stack'[k] = stack[k] BY <1>6
<1>10. CellsMoved BY <1>4, <1>5, <1>6, <1>8, <1>9 DEF CellsMoved
<1>11. ArgsMoved BY <1>1, <1>2, ArgsSame
<1> QED BY <1>1, <1>10, <1>11, InsideIs

(* For, FOR_CHECK into the body, errors and the end move nothing.          *)
LEMMA StillInside ==
  ASSUME Shown, pc.at = "code", UNCHANGED <<sp, fp, stack, psp, paramstack, acts>>,
         pc'.at = "code", pc'.fn = pc.fn, res' \in {"busy", "error", "end"}
  PROVE  Inside
<1>1. CallsInv BY DEF Shown
<1>2. CellsMoved /\ ArgsMoved BY <1>1, CellsSame, ArgsSame
<1> QED BY <1>2, InsideIs

LEMMA LoopInside ==
  ASSUME Shown, Bounded, Loop
  PROVE  Inside
<1>1. CallsInv /\ pc \in Place BY Facts DEF Shown
<1>2. CASE For \/ TooManyLoops \/ ForBody
  <2>1. /\ pc.at = "code" /\ UNCHANGED <<sp, fp, stack, psp, paramstack, acts>>
        /\ res' \in {"busy", "error", "end"}
    BY <1>2 DEF For, TooManyLoops, ForBody, Statement, At
  <2>2. pc'.at = "code" /\ pc'.fn = pc.fn
    BY <1>1, <1>2 DEF For, TooManyLoops, ForBody, Statement, At, Go, Place
  <2> QED BY <2>1, <2>2, StillInside
<1>3. CASE ForSkip \/ LoopEnd
  <2>1. /\ pc.at = "code" /\ res = "busy" /\ Drop(2)
        /\ UNCHANGED <<fp, psp, paramstack, res, acts>>
        /\ pc.temps = 2 \/ pc.loops > 0
    BY <1>3 DEF ForSkip, LoopEnd, Statement, At
  <2>2. pc'.at = "code" /\ pc'.fn = pc.fn
    BY <1>1, <1>3 DEF ForSkip, LoopEnd, Statement, At, Go, Place
  <2>3. 2 \in Nat /\ 2 <= sp - fp
    <3>1. /\ sp \in Nat /\ fp \in Nat /\ pc.temps \in Nat /\ pc.loops \in Nat
          /\ fp + pc.temps + Extra(pc) <= sp /\ fp + 2 * pc.loops <= sp /\ Extra(pc) \in {0, 1}
      BY <1>1, <2>1, Inner
    <3> QED BY ONLY <2>1, <3>1
  <2>4. CellsMoved BY <1>1, <2>1, <2>3, CellsDropped
  <2>5. ArgsMoved BY <1>1, <2>1, ArgsSame
  <2> QED BY <2>1, <2>2, <2>4, <2>5, InsideIs
<1> QED BY <1>2, <1>3 DEF Loop

LEMMA PushParamInside ==
  ASSUME Shown, Bounded, PushParam
  PROVE  Inside
<1>1. /\ pc.at = "code" /\ res = "busy" /\ pc.temps > 0 /\ ParamsFit(1)
      /\ paramstack' = [paramstack EXCEPT ![ParamSlot(psp)] = AsNum(Top(1))]
      /\ psp' = psp + 1 /\ Drop(1)
      /\ pc' = [pc EXCEPT !.temps = @ - 1, !.args = @ + 1]
      /\ UNCHANGED <<fp, ret_val, nested_loop_idx, res, acts>>
  BY DEF PushParam, At, Go
<1>2. CallsInv /\ PspKept BY DEF Shown
<1>3. /\ pc \in Place /\ sp \in Nat /\ fp \in Nat /\ sp <= StackSize /\ StackSize \in Nat
      /\ pc.temps \in Nat /\ fp + pc.temps + Extra(pc) <= sp /\ Extra(pc) \in {0, 1}
  BY <1>1, <1>2, Inner
<1>4. 1 \in Nat /\ 1 <= sp - fp BY ONLY <1>1, <1>3
<1>5. CellsMoved BY <1>1, <1>2, <1>4, CellsDropped
<1>6. ArgsMoved
  <2>1. psp \in Nat /\ ParamStackSize \in Nat
        /\ paramstack \in [ParamSlots -> Values \cup {Stale}]
    BY <1>2, Facts
  <2>2. psp + 1 <= ParamStackSize BY <1>1 DEF ParamsFit, Bounded
  <2>3. psp \in 0 .. ParamStackSize - 1 BY ONLY <2>1, <2>2
  <2>4. paramstack' = [paramstack EXCEPT ![psp] = AsNum(Top(1))]
    BY <1>1, <2>3, ParamSlotIs
  <2>5. \A k \in ParamSlots : k < psp => paramstack'[k] = paramstack[k]
    <3>1. \A k \in ParamSlots : k < psp => k # psp BY <2>1 DEF ParamSlots
    <3> QED BY <2>1, <2>4, <3>1
  <2>6. psp' - 1 = psp /\ psp' - 1 <= psp BY <1>1, <2>1
  <2>7. PspAt(acts, Len(acts)) < psp'
    <3>1. PspAt(acts, Len(acts)) \in Nat
      BY <1>1, <1>2, ParamsHeld
    <3>2. PspAt(acts, Len(acts)) <= psp BY <1>2 DEF PspKept
    <3> QED BY ONLY <1>1, <2>1, <3>1, <3>2
  <2>8. SameBelow(paramstack', paramstack, ParamSlots, psp' - 1)
    BY <2>5, <2>6 DEF SameBelow
  <2> QED BY <2>6, <2>7, <2>8 DEF ArgsMoved
<1>7. pc'.at = "code" /\ pc'.fn = pc.fn BY <1>1, <1>3 DEF Place
<1> QED BY <1>1, <1>5, <1>6, <1>7, InsideIs

(* PARAM, wherever it stands.                                              *)
LEMMA TakeParamInside ==
  ASSUME Shown, Bounded, res = "busy", pc.args > 0, Fits(1), pc.at \in {"params", "xparam"},
         Push(Num(IF psp > 0 THEN paramstack[ParamSlot(psp - 1)] ELSE 0)),
         IF psp > 0 THEN psp' = psp - 1 /\ paramstack' = PopParams(1)
                    ELSE UNCHANGED <<psp, paramstack>>,
         pc'.at # "enter", pc'.fn = pc.fn,
         UNCHANGED <<fp, ret_val, nested_loop_idx, res, acts>>
  PROVE  Inside
<1>1. CallsInv BY DEF Shown
<1>2. /\ psp \in Nat /\ psp <= ParamStackSize /\ ParamStackSize \in Nat /\ pc.args \in Nat
      /\ paramstack \in [ParamSlots -> Values \cup {Stale}]
  BY <1>1, Facts
<1>3. psp > 0 BY <1>1, <1>2, ParamsThere
<1>4. psp' = psp - 1 /\ paramstack' = PopParams(1) BY <1>3
<1>5. ArgsMoved BY <1>1, <1>3, <1>4, ArgTaken
<1>6. Num(paramstack[ParamSlot(psp - 1)]) \in Numbers
  <2>1. psp - 1 \in 0 .. ParamStackSize - 1 BY ONLY <1>2, <1>3
  <2>2. ParamSlot(psp - 1) = psp - 1 BY <2>1, ParamSlotIs
  <2>3. paramstack[ParamSlot(psp - 1)] \in Values \cup {Stale}
    BY <1>2, <2>1, <2>2 DEF ParamSlots
  <2> QED BY <2>3 DEF Num, Numbers
<1>7. Push(Num(paramstack[ParamSlot(psp - 1)])) BY <1>3
<1>8. CellsMoved BY <1>1, <1>6, <1>7, CellsPushed
<1> QED BY <1>5, <1>8, InsideIs

LEMMA ParamInside ==
  ASSUME Shown, Bounded, Param
  PROVE  Inside
<1>1. /\ pc.at = "params" /\ res = "busy" /\ Fits(1)
      /\ Push(Num(IF psp > 0 THEN paramstack[ParamSlot(psp - 1)] ELSE 0))
      /\ IF psp > 0 THEN psp' = psp - 1 /\ paramstack' = PopParams(1)
                    ELSE UNCHANGED <<psp, paramstack>>
      /\ pc' = [pc EXCEPT !.at = "local", !.args = @ - 1]
      /\ UNCHANGED <<fp, ret_val, nested_loop_idx, res, acts>>
  BY DEF Param, At, Go
<1>2. pc \in Place /\ Good(pc) BY Facts DEF Shown
<1>3. pc.args > 0 BY <1>1, <1>2 DEF Good
<1>4. pc'.at = "local" /\ pc'.fn = pc.fn BY <1>1, <1>2 DEF Place
<1> QED BY <1>1, <1>3, <1>4, TakeParamInside

LEMMA XParamInside ==
  ASSUME Shown, Bounded, XParam
  PROVE  Inside
<1>1. /\ pc.at = "xparam" /\ res = "busy" /\ Fits(1)
      /\ Push(Num(IF psp > 0 THEN paramstack[ParamSlot(psp - 1)] ELSE 0))
      /\ IF psp > 0 THEN psp' = psp - 1 /\ paramstack' = PopParams(1)
                    ELSE UNCHANGED <<psp, paramstack>>
      /\ pc' = [pc EXCEPT !.at = "code", !.temps = @ + 1, !.args = @ - 1]
      /\ UNCHANGED <<fp, ret_val, nested_loop_idx, res, acts>>
  BY DEF XParam, At, Go
<1>2. pc \in Place /\ Good(pc) BY Facts DEF Shown
<1>3. pc.args > 0 BY <1>1, <1>2 DEF Good
<1>4. pc'.at = "code" /\ pc'.fn = pc.fn BY <1>1, <1>2 DEF Place
<1> QED BY <1>1, <1>3, <1>4, TakeParamInside

LEMMA XPopInside ==
  ASSUME Shown, Bounded, XPop
  PROVE  Inside
<1>1. /\ pc.at = "xpop" /\ res = "busy"
      /\ IF psp > 0 THEN psp' = psp - 1 /\ paramstack' = PopParams(1)
                    ELSE UNCHANGED <<psp, paramstack>>
      /\ pc' = [pc EXCEPT !.at = "code", !.args = @ - 1]
      /\ UNCHANGED <<sp, fp, stack, ret_val, nested_loop_idx, res, acts>>
  BY DEF XPop, At, Go
<1>2. CallsInv /\ pc \in Place BY Facts DEF Shown
<1>3. CellsMoved BY <1>1, <1>2, CellsSame
<1>4. ArgsMoved BY <1>1, <1>2, ArgsSame, ArgTaken
<1>5. pc'.at = "code" /\ pc'.fn = pc.fn BY <1>1, <1>2 DEF Place
<1> QED BY <1>1, <1>3, <1>4, <1>5, InsideIs

LEMMA PopParamInside ==
  ASSUME Shown, Bounded, PopParam
  PROVE  Inside
<1>1. /\ pc.at = "local" /\ res = "busy"
      /\ stack' = [Dropped(sp - 1) EXCEPT ![fp + pc.args] = Top(1)] /\ sp' = sp - 1
      /\ pc' = [pc EXCEPT !.at = IF pc.args > 0 THEN "params" ELSE "code"]
      /\ UNCHANGED <<fp, psp, paramstack, ret_val, nested_loop_idx, res, acts>>
  BY DEF PopParam, At, Go
<1>2. CallsInv BY DEF Shown
<1>3. /\ pc \in Place /\ sp \in Nat /\ fp \in Nat /\ sp <= StackSize /\ StackSize \in Nat
      /\ pc.temps \in Nat /\ fp + pc.temps + Extra(pc) <= sp /\ Extra(pc) = 1
      /\ pc.args \in Nat
  BY <1>1, <1>2, Inner, Facts DEF Extra
<1>4. /\ 1 \in Nat /\ 1 <= sp - fp /\ sp - 1 \in 0 .. StackSize - 1 /\ fp <= sp - 1
      /\ fp + pc.args \in Nat /\ fp <= fp + pc.args
  BY ONLY <1>1, <1>3
<1>5. Top(1) \in Numbers
  <2>1. Slot(sp - 1) = sp - 1 BY <1>4, SlotIs
  <2>2. sp - 1 \in Slots BY <1>4 DEF Slots
  <2>3. stack[sp - 1] \in Numbers BY <1>1, <1>4, <2>2, NumbersAbove
  <2> QED BY <2>1, <2>3 DEF Top
<1>6. CellsMoved BY <1>1, <1>2, <1>4, <1>5, CellsStored
<1>7. ArgsMoved BY <1>1, <1>2, ArgsSame
<1>8. pc'.at # "enter" /\ pc'.fn = pc.fn BY <1>1, <1>3 DEF Place
<1> QED BY <1>1, <1>6, <1>7, <1>8, InsideIs

-----------------------------------------------------------------------------
(* External functions, errors, and the end.                                *)
LEMMA XFuncInside ==
  ASSUME Shown, Bounded, NEW x \in XFuncs, NEW next \in {"xparam", "xpop", "code"},
         XFunc(x, next)
  PROVE  Inside
<1>1. /\ pc.at = "code" /\ res' = x
      /\ next = "code" => x \notin XValued
      /\ pc' = [pc EXCEPT !.at = next,
                !.args = @ - XArgs[x] + (IF x \in XValued THEN 1 ELSE 0)]
      /\ UNCHANGED <<sp, fp, stack, psp, paramstack, ret_val, nested_loop_idx, acts>>
  BY DEF XFunc, At, Go
<1>2. CallsInv /\ pc \in Place BY Facts DEF Shown
<1>3. CellsMoved /\ ArgsMoved BY <1>1, <1>2, CellsSame, ArgsSame
<1>4. pc'.at = next /\ pc'.fn = pc.fn BY <1>1, <1>2 DEF Place
<1>5. HostAt' BY <1>1, <1>4 DEF HostAt
<1> QED BY <1>1, <1>3, <1>4, <1>5 DEF Inside

Held ==
  /\ psp >= PspAt(acts, Len(acts)) + pc.args + Owed /\ Owed = 0
  /\ psp \in Nat /\ PspAt(acts, Len(acts)) \in Nat

LEMMA BusyHeld == CallsInv /\ res = "busy" => Held
BY ParamsHeld DEF Held

LEMMA HostAnswerInside ==
  ASSUME Shown, Bounded, CallsInv', NEW x \in XFuncs, NEW v \in Values, HostAnswer(x, v)
  PROVE  Inside
<1> DEFINE left == psp - XArgs[x]
           lo == PspAt(acts, Len(acts))
<1>1. /\ res = x
      /\ IF x \in XValued /\ left < ParamStackSize
         THEN /\ psp' = left + 1
              /\ paramstack' = [PopParams(XArgs[x]) EXCEPT ![ParamSlot(left)] = v]
         ELSE /\ psp' = left
              /\ paramstack' = PopParams(XArgs[x])
      /\ res' = "busy"
      /\ UNCHANGED <<pc, sp, fp, stack, ret_val, nested_loop_idx, acts>>
  <2>1. res = x BY DEF HostAnswer
  <2>2. Larger(0, psp - XArgs[x]) = left BY <2>1, HostLeaves DEF Shown
  <2> QED BY <2>1, <2>2 DEF HostAnswer
<1>2. CallsInv /\ HostAt BY DEF Shown
<1>3. pc \in Place /\ Good(pc) /\ psp \in Nat /\ psp <= ParamStackSize /\ ParamStackSize \in Nat
      /\ pc.args \in Nat /\ paramstack \in [ParamSlots -> Values \cup {Stale}]
  BY <1>2, Facts
<1>4. XArgs[x] \in Nat /\ XValued \subseteq XFuncs BY CallsAssumption
<1>5. /\ pc.at \in {"xparam", "xpop", "code"}
      /\ x \in XValued => pc.at \in {"xparam", "xpop"}
  BY <1>1, <1>2 DEF HostAt
<1>6. lo \in Nat /\ psp' >= lo + pc.args /\ psp' \in Nat
  <2>1. (res = "busy" \/ res \in XFuncs)' BY <1>1
  <2>2. /\ psp' >= PspAt(acts', Len(acts')) + pc'.args + Owed' /\ Owed' = 0
        /\ psp' \in Nat /\ PspAt(acts', Len(acts')) \in Nat
    <3>1. CallsInv' /\ (res = "busy")' => Held' BY BusyHeld, PTL
    <3>2. Held' BY <1>1, <3>1
    <3> QED BY <3>2 DEF Held
  <2> QED BY <1>1, <1>3, <2>2
<1>7. ArgsMoved
  <2>1. CASE x \in XValued /\ left < ParamStackSize
    <3>1. psp' = left + 1 /\ paramstack' = [PopParams(XArgs[x]) EXCEPT ![ParamSlot(left)] = v]
      BY <1>1, <2>1
    <3>2. pc.args > 0 BY <1>3, <1>5, <2>1 DEF Good
    <3>3. lo < psp' /\ psp' - 1 = left /\ left <= psp /\ left \in Nat
      BY <1>3, <1>4, <1>6, <3>1, <3>2
    <3>4. left \in 0 .. ParamStackSize - 1 /\ XArgs[x] <= psp BY <1>3, <1>4, <2>1, <3>3
    <3>5. ParamSlot(left) = left BY <3>4, ParamSlotIs
    <3>6. SameBelow(PopParams(XArgs[x]), paramstack, ParamSlots, left)
      BY <1>2, <1>4, <3>4, PoppedBelow
    <3>7. SameBelow(paramstack', paramstack, ParamSlots, left)
      <4>1. \A k \in ParamSlots : k < left => k # left BY <1>3, <3>3 DEF ParamSlots
      <4>2. PopParams(XArgs[x]) \in [ParamSlots -> Values \cup {Stale}]
        BY <1>3, PoppedParams
      <4>3. paramstack' = [PopParams(XArgs[x]) EXCEPT ![left] = v] BY <3>1, <3>5
      <4>4. \A k \in ParamSlots : k < left => paramstack'[k] = PopParams(XArgs[x])[k]
        BY <4>1, <4>2, <4>3
      <4> QED BY <3>6, <4>4 DEF SameBelow
    <3> QED BY <3>3, <3>7 DEF ArgsMoved
  <2>2. CASE ~(x \in XValued /\ left < ParamStackSize)
    <3>1. psp' = left /\ paramstack' = PopParams(XArgs[x]) BY <1>1, <2>2
    <3>2. XArgs[x] <= psp /\ left <= psp BY <1>3, <1>4, <1>6, <3>1
    <3>3. SameBelow(PopParams(XArgs[x]), paramstack, ParamSlots, left)
      BY <1>2, <1>4, <3>2, PoppedBelow
    <3> QED BY <3>1, <3>2, <3>3 DEF ArgsMoved
  <2> QED BY <2>1, <2>2
<1>8. CellsMoved BY <1>1, <1>2, CellsSame
<1> QED BY <1>1, <1>5, <1>7, <1>8, InsideIs

LEMMA StackOverflowInside ==
  ASSUME Shown, Bounded, NEW d \in {0, 1}, StackOverflow(d)
  PROVE  Inside
<1>1. /\ AtCall(d) /\ sp - d >= StackSize /\ Drop(d) /\ res' = "error"
      /\ UNCHANGED <<pc, fp, psp, paramstack, ret_val, nested_loop_idx, acts>>
  BY DEF StackOverflow
<1>2. CallsInv BY DEF Shown
<1>3. sp \in Nat /\ sp <= StackSize /\ StackSize \in Nat /\ fp \in Nat /\ fp <= sp
  BY <1>2, Facts
<1>4. d = 0 BY ONLY <1>1, <1>3, d \in {0, 1}
<1>5. pc.at = "code" BY <1>1, <1>4 DEF AtCall, Callable, At
<1>6. d \in Nat /\ d <= sp - fp BY <1>3, <1>4
<1>7. CellsMoved BY <1>1, <1>2, <1>6, CellsDropped
<1>8. ArgsMoved BY <1>1, <1>2, ArgsSame
<1> QED BY <1>1, <1>5, <1>7, <1>8, InsideIs

LEMMA EndInside ==
  ASSUME Shown, Bounded, End
  PROVE  Inside
<1>1. /\ pc.at = "code" /\ res' = "end"
      /\ UNCHANGED <<pc, sp, fp, stack, psp, paramstack, ret_val, nested_loop_idx, acts>>
  BY DEF End, Statement
<1> QED BY <1>1, StillInside

-----------------------------------------------------------------------------
(* A call.                                                                 *)
Entered(p, s, q, f) ==
  /\ acts' = Append(acts, [pc |-> p, fp |-> fp, sp |-> s, psp |-> q,
                           loops |-> nested_loop_idx])
  /\ stack' = [stack EXCEPT ![s] = Ret(p)]
  /\ pc' = Entry(f) /\ sp' = s + 1 /\ fp' = fp /\ res' = "busy"
  /\ psp' = psp /\ paramstack' = paramstack

LEMMA Appended ==
  ASSUME CallsInv, NEW a, acts' = Append(acts, a)
  PROVE  /\ Len(acts') = Len(acts) + 1 /\ acts'[Len(acts) + 1] = a
         /\ \A i \in 1 .. Len(acts) : acts'[i] = acts[i]
<1> DEFINE S == ActRecord \cup {a}
<1>1. acts \in Seq(ActRecord) BY DEF CallsInv, TypeOK, ActRecord
<1>2. ActRecord \subseteq S /\ a \in S OBVIOUS
<1> HIDE DEF S
<1>3. acts \in Seq(S) BY <1>1, <1>2, SeqMonotonic
<1> QED BY <1>2, <1>3, AppendProperties

LEMMA EnteredFacts ==
  ASSUME CallsInv, NEW p, NEW s, NEW q, NEW f, Entered(p, s, q, f)
  PROVE  /\ Len(acts) \in Nat /\ Len(acts') = Len(acts) + 1
         /\ \A i \in 1 .. Len(acts) : acts'[i] = acts[i]
         /\ acts'[Len(acts) + 1].pc = p /\ acts'[Len(acts) + 1].fp = fp
         /\ acts'[Len(acts) + 1].sp = s /\ acts'[Len(acts) + 1].psp = q
         /\ \A i \in 1 .. Len(acts) + 1 : i \in 1 .. Len(acts) \/ i = Len(acts) + 1
         /\ \A i \in 0 .. Len(acts) : PspAt(acts', i) = PspAt(acts, i)
         /\ PspAt(acts', Len(acts) + 1) = q
<1> DEFINE n == Len(acts)
<1>1. n \in Nat BY ActTypes
<1>2. PICK a : a = [pc |-> p, fp |-> fp, sp |-> s, psp |-> q, loops |-> nested_loop_idx]
  OBVIOUS
<1>3. acts' = Append(acts, a) BY <1>2 DEF Entered
<1>4. Len(acts') = n + 1 /\ acts'[n + 1] = a /\ \A i \in 1 .. n : acts'[i] = acts[i]
  BY <1>3, Appended
<1>5. a.pc = p /\ a.fp = fp /\ a.sp = s /\ a.psp = q BY <1>2
<1>6. \A i \in 1 .. n + 1 : i \in 1 .. n \/ i = n + 1 BY <1>1
<1>7. \A i \in 0 .. n : PspAt(acts', i) = PspAt(acts, i)
  <2> TAKE i \in 0 .. n
  <2>1. i # 0 => i \in 1 .. n BY <1>1
  <2> QED BY <2>1, <1>4 DEF PspAt
<1>8. PspAt(acts', n + 1) = q
  <2>1. n + 1 # 0 BY <1>1
  <2> QED BY <2>1, <1>4, <1>5 DEF PspAt
<1> QED BY <1>1, <1>4, <1>5, <1>6, <1>7, <1>8

LEMMA CallShown ==
  ASSUME Shown, CallsInv', pc.at # "enter", NEW p \in Place, p.fn = pc.fn,
         NEW f \in Funcs, p.at = "ret" => f \in Valued,
         NEW s \in Slots, NEW q \in Nat, PspAt(acts, Len(acts)) <= q, q <= psp,
         Entered(p, s, q, f)
  PROVE  Shown'
<1> DEFINE n == Len(acts)
<1>1. /\ CallsInv /\ Marked /\ PspOrdered /\ Answered BY DEF Shown
<1>2. /\ n \in Nat /\ Len(acts') = n + 1 /\ \A i \in 1 .. n : acts'[i] = acts[i]
      /\ acts'[n + 1].pc = p /\ acts'[n + 1].sp = s /\ acts'[n + 1].psp = q
      /\ \A i \in 1 .. n + 1 : i \in 1 .. n \/ i = n + 1
      /\ PspAt(acts', n + 1) = q
  BY <1>1, EnteredFacts
<1>3. /\ stack' = [stack EXCEPT ![s] = Ret(p)]
      /\ pc' = Entry(f) /\ res' = "busy" /\ psp' = psp
  BY DEF Entered
<1>4. \A i \in 1 .. n : i \in 1 .. n + 1 BY <1>2
<1>5. n + 1 \in 1 .. n + 1 BY <1>2
<1>6. Marked'
  <2> SUFFICES ASSUME NEW k \in Slots
               PROVE  \/ stack'[k] \in Numbers
                      \/ \E i \in 1 .. n + 1 : k = acts'[i].sp \/ k = acts'[i].sp + 1
    BY <1>2 DEF Marked
  <2>1. CASE k = s BY <2>1, <1>2, <1>5
  <2>2. CASE k # s
    <3>1. stack'[k] = stack[k]
      <4>1. stack \in [Slots -> Cells] BY <1>1, Facts
      <4> QED BY <4>1, <2>2, <1>3
    <3> QED BY <3>1, <1>1, <1>2, <1>4 DEF Marked
  <2> QED BY <2>1, <2>2
<1>7. PspOrdered'
  <2> SUFFICES ASSUME NEW i \in 1 .. n + 1, NEW j \in 1 .. n + 1, i < j
               PROVE  acts'[i].psp <= acts'[j].psp
    BY <1>2 DEF PspOrdered
  <2>1. i \in 1 .. n BY <1>2
  <2>2. CASE j \in 1 .. n BY <2>1, <2>2, <1>1, <1>2 DEF PspOrdered
  <2>3. CASE j = n + 1
    <3>1. acts[i].psp <= PspAt(acts, n) BY <2>1, <1>1, PspBelow
    <3>2. acts[i].psp \in Nat /\ PspAt(acts, n) \in Nat
      <4>1. n \in 0 .. n BY <1>2
      <4> QED BY <4>1, <2>1, <1>1, ActTypes
    <3>3. acts[i].psp <= q BY <3>1, <3>2
    <3> QED BY <3>3, <2>1, <2>3, <1>2
  <2> QED BY <2>2, <2>3, <1>2
<1>8. PspKept' BY <1>2, <1>3 DEF PspKept
<1>9. Answered'
  <2> SUFFICES ASSUME NEW i \in 1 .. n + 1, acts'[i].pc.at = "ret"
               PROVE  (IF i < n + 1 THEN acts'[i + 1].pc.fn ELSE pc'.fn) \in Valued
    BY <1>2 DEF Answered, CalledBy
  <2>1. CASE i = n + 1
    <3>1. pc'.fn = f BY <1>3, EntryPlace
    <3> QED BY <3>1, <2>1, <1>2
  <2>2. CASE i \in 1 .. n
    <3>1. i < n + 1 BY <1>2, <2>2
    <3>2. acts[i].pc.at = "ret" BY <1>2, <2>2
    <3>3. (IF i < n THEN acts[i + 1].pc.fn ELSE pc.fn) \in Valued
      BY <3>2, <2>2, <1>1 DEF Answered, CalledBy
    <3>4. CASE i < n
      <4>1. i + 1 \in 1 .. n BY <1>2, <2>2, <3>4
      <4> QED BY <4>1, <3>1, <3>3, <3>4, <1>2
    <3>5. CASE ~(i < n)
      <4>1. i = n BY <1>2, <2>2, <3>5
      <4> QED BY <4>1, <3>1, <3>3, <3>5, <1>2
    <3> QED BY <3>4, <3>5
  <2> QED BY <2>1, <2>2, <1>2
<1>10. HostAt'
  <2>1. (res \in {"busy", "error", "end"})' => HostAt' BY FreeHost, PTL
  <2> QED BY <1>3, <2>1
<1> QED BY <1>6, <1>7, <1>8, <1>9, <1>10 DEF Shown

LEMMA CallCalls ==
  ASSUME Shown, CallsInv', pc.at # "enter", NEW p \in Place, NEW f \in Funcs,
         NEW s \in Slots, fp <= s, s <= sp, sp <= s + 1,
         NEW q \in Nat, PspAt(acts, Len(acts)) <= q, q <= psp,
         Entered(p, s, q, f)
  PROVE  Abs!Call
<1> DEFINE n == Len(acts)
           lo == PspAt(acts, n)
<1>1. CallsInv /\ PspOrdered /\ View /\ View' BY ViewIs, PTL DEF Shown
<1>2. /\ n \in Nat /\ Len(acts') = n + 1 /\ \A i \in 1 .. n : acts'[i] = acts[i]
      /\ acts'[n + 1].pc = p /\ acts'[n + 1].fp = fp
      /\ acts'[n + 1].sp = s /\ acts'[n + 1].psp = q
      /\ \A i \in 0 .. n : PspAt(acts', i) = PspAt(acts, i)
      /\ PspAt(acts', n + 1) = q
  BY <1>1, EnteredFacts
<1>3. /\ stack' = [stack EXCEPT ![s] = Ret(p)]
      /\ pc' = Entry(f) /\ psp' = psp /\ paramstack' = paramstack
  BY DEF Entered
<1>4. /\ sp \in Nat /\ fp \in Nat /\ psp \in Nat /\ StackSize \in Nat /\ s \in Nat
      /\ stack \in [Slots -> Cells]
  BY <1>1, Facts DEF Slots
<1>5. lo \in Nat
  <2>1. n \in 0 .. n BY <1>2
  <2> QED BY <2>1, <1>1, ActTypes
<1>6. SameBelow(stack', stack, Slots, s)
  <2>1. \A k \in Slots : k < s => k # s BY <1>4 DEF Slots
  <2> QED BY <2>1, <1>3, <1>4 DEF SameBelow
<1>7. SameBelow(paramstack', paramstack, ParamSlots, q) BY <1>3 DEF SameBelow
<1>8. ASSUME NEW i \in 1 .. n
      PROVE  Waiters'[i] = Waiters[i]
  <2>1. acts[i].sp <= s
    <3>1. acts[i].sp + 2 <= fp /\ acts[i].sp \in Nat BY <1>1, SpBelow
    <3> QED BY <3>1, <1>4
  <2>2. acts[i].psp <= q
    <3>1. acts[i].psp <= lo /\ acts[i].psp \in Nat BY <1>1, PspBelow, ActTypes
    <3> QED BY <3>1, <1>5
  <2>3. Piece(acts, stack', paramstack', i) = Piece(acts, stack, paramstack, i)
    BY <1>1, <1>4, <1>6, <1>7, <2>1, <2>2, SamePiece
  <2>4. Piece(acts', stack', paramstack', i) = Piece(acts, stack', paramstack', i)
    <3>1. i - 1 \in 0 .. n BY <1>2
    <3> QED BY <3>1, <1>2 DEF Piece
  <2>5. i \in 1 .. n + 1 BY <1>2
  <2> QED BY <1>1, <1>2, <2>3, <2>4, <2>5 DEF View
<1>9. Waiters'[n + 1] = Frame(p, Cut(stack', fp, s), Cut(paramstack, lo, q), Stale)
  <2>1. n + 1 \in 1 .. n + 1 /\ (n + 1) - 1 = n /\ n \in 0 .. n BY <1>2
  <2>2. Waiters'[n + 1] = Piece(acts', stack', paramstack', n + 1)
    BY <1>1, <1>2, <2>1 DEF View
  <2>3. PspAt(acts', (n + 1) - 1) = lo BY <1>2, <2>1
  <2> QED BY <2>2, <2>3, <1>2, <1>3 DEF Piece
<1>10. /\ Front(Waiters') = Waiters /\ Last(Waiters') = Waiters'[n + 1]
  <2>1. Row(Waiters, n) /\ Row(Waiters', n + 1) BY <1>1, <1>2 DEF View
  <2> QED BY <2>1, <1>2, <1>8, RowFront
<1>11. /\ Running.vals = Cut(stack, fp, sp) /\ Running.args = Cut(paramstack, lo, psp)
  BY <1>1 DEF View, Frame
<1>12. /\ Running'.vals = <<>> /\ Running'.args = Cut(paramstack, q, psp)
  <2>1. pc'.at = "enter" BY <1>3, EntryPlace
  <2> QED BY <2>1, <1>1, <1>2, <1>3 DEF View, Frame
<1>13. Cut(paramstack, lo, q) \o Cut(paramstack, q, psp) = Cut(paramstack, lo, psp)
  BY <1>4, <1>5, CutSplit
<1>14. IsPrefix(Cut(stack', fp, s), Cut(stack, fp, sp))
  <2>1. \A k \in fp .. s - 1 : k \in Slots /\ k < s
    <3>1. s < StackSize BY <1>4 DEF Slots
    <3> QED BY <3>1, <1>4 DEF Slots
  <2>2. \A k \in fp .. s - 1 : stack'[k] = stack[k] BY <2>1, <1>6 DEF SameBelow
  <2> QED BY <2>2, <1>4, CutPrefix
<1>15. Len(Cut(stack', fp, s)) + 1 >= Len(Cut(stack, fp, sp))
  <2>1. ASSUME NEW g, NEW h \in Nat, fp <= h
        PROVE  Len(Cut(g, fp, h)) = h - fp
    <3> DEFINE S == {g[k] : k \in fp .. h - 1}
    <3>1. \A k \in fp .. h - 1 : g[k] \in S OBVIOUS
    <3> HIDE DEF S
    <3> QED BY <1>4, <2>1, <3>1, CutIs
  <2>2. fp <= sp BY <1>4
  <2>3. Len(Cut(stack', fp, s)) = s - fp BY <2>1, <1>4
  <2>4. Len(Cut(stack, fp, sp)) = sp - fp BY <2>1, <2>2, <1>4
  <2> QED BY <2>3, <2>4, <1>4
<1>16. /\ Abs!Active = Running /\ Abs!Active' = Running'
       /\ Abs!Callers = Waiters /\ Abs!Callers' = Waiters'
       /\ Len(SeenFrames) = n + 1 /\ Len(SeenFrames)' = n + 2
  BY <1>1, <1>2 DEF View
<1>17. PICK caller : caller = Frame(p, Cut(stack', fp, s), Cut(paramstack, lo, q), Stale)
  OBVIOUS
<1>18. /\ caller.vals = Cut(stack', fp, s) /\ caller.args = Cut(paramstack, lo, q)
       /\ caller.got = Stale /\ Last(Waiters') = caller
  BY <1>9, <1>10, <1>17 DEF Frame
<1>19. /\ caller.args \o Running'.args = Running.args
       /\ Abs!IsPrefix(caller.vals, Running.vals)
       /\ Len(caller.vals) + 1 >= Len(Running.vals)
  <2>1. IsPrefix(caller.vals, Running.vals) BY <1>11, <1>14, <1>18
  <2>2. Abs!IsPrefix(caller.vals, Running.vals) BY <2>1 DEF Abs!IsPrefix, IsPrefix
  <2>3. caller.args \o Running'.args = Running.args BY <1>11, <1>12, <1>13, <1>18
  <2>4. Len(caller.vals) + 1 >= Len(Running.vals) BY <1>11, <1>15, <1>18
  <2> QED BY <2>2, <2>3, <2>4
<1>20. Abs!Front(Waiters') = Waiters /\ Abs!Last(Waiters') = caller
  BY <1>10, <1>18 DEF Abs!Front, Front, Abs!Last, Last
<1>21. Len(SeenFrames)' = Len(SeenFrames) + 1 BY <1>2, <1>16
<1> HIDE DEF n, lo
<1> QED BY <1>12, <1>16, <1>18, <1>19, <1>20, <1>21 DEF Abs!Call, SeenFrames, Waiters

LEMMA CallIs ==
  ASSUME Shown, CallsInv', pc.at # "enter", NEW p \in Place, p.fn = pc.fn,
         NEW f \in Funcs, p.at = "ret" => f \in Valued,
         NEW s \in Slots, fp <= s, s <= sp, sp <= s + 1,
         NEW q \in Nat, PspAt(acts, Len(acts)) <= q, q <= psp,
         Entered(p, s, q, f)
  PROVE  Shown' /\ Abs!Call
BY CallShown, CallCalls

LEMMA GosubCalls ==
  ASSUME Shown, Bounded, CallsInv', NEW f \in Funcs, NEW n \in 0 .. MaxArgs,
         NEW wanted \in BOOLEAN, Gosub(f, n, wanted)
  PROVE  Shown' /\ Abs!Call
<1> DEFINE p == [pc EXCEPT !.args = @ - n, !.at = IF wanted THEN "ret" ELSE "code"]
<1>1. /\ pc.at = "code" /\ res = "busy" /\ pc.args >= n
      /\ wanted => f \in Valued
      /\ sp < StackSize /\ Push(Ret(p)) /\ Suspend(p, n, 0) /\ pc' = Entry(f)
      /\ UNCHANGED <<fp, psp, paramstack, ret_val, nested_loop_idx, res>>
  BY DEF Gosub, Callable, At, Go
<1>2. CallsInv BY DEF Shown
<1>3. /\ pc \in Place /\ sp \in Nat /\ fp \in Nat /\ fp <= sp /\ StackSize \in Nat
      /\ pc.args \in Nat /\ pc.args <= MaxArgs /\ MaxArgs \in Nat
  BY <1>2, Facts
<1>4. n \in Nat /\ pc.args - n \in 0 .. MaxArgs BY ONLY <1>1, <1>3, n \in 0 .. MaxArgs
<1>5. p \in Place /\ p.fn = pc.fn /\ p.at = (IF wanted THEN "ret" ELSE "code")
  BY <1>3, <1>4 DEF Place
<1>6. sp \in 0 .. StackSize - 1 /\ sp \in Slots BY <1>1, <1>3 DEF Slots
<1>7. stack' = [stack EXCEPT ![sp] = Ret(p)] /\ sp' = sp + 1
  BY <1>1, <1>6, SlotIs DEF Push
<1>8. PICK q : q = psp - n OBVIOUS
<1>9. q \in Nat /\ PspAt(acts, Len(acts)) <= q /\ q <= psp
  <2>1. /\ psp \in Nat /\ PspAt(acts, Len(acts)) \in Nat
        /\ psp >= PspAt(acts, Len(acts)) + pc.args + 0
    BY <1>1, <1>2, ParamsHeld
  <2> QED BY ONLY <2>1, <1>1, <1>3, <1>4, <1>8
<1>10. acts' = Append(acts, [pc |-> p, fp |-> fp, sp |-> sp, psp |-> q,
                             loops |-> nested_loop_idx])
  <2>1. sp - 0 = sp BY <1>3
  <2> QED BY <1>1, <1>8, <2>1 DEF Suspend
<1> HIDE DEF p
<1>11. Entered(p, sp, q, f) BY <1>1, <1>7, <1>10 DEF Entered
<1>12. sp <= sp /\ sp <= sp + 1 BY <1>3
<1>13. pc.at # "enter" /\ (p.at = "ret" => f \in Valued) BY <1>1, <1>5
<1> QED BY <1>3, <1>5, <1>6, <1>9, <1>11, <1>12, <1>13, CallIs

LEMMA DispatchCalls ==
  ASSUME Shown, Bounded, CallsInv', NEW f \in Funcs, Dispatch(f)
  PROVE  Shown' /\ Abs!Call
<1> DEFINE p == [pc EXCEPT !.temps = 0]
<1>1. /\ pc.at = "code" /\ res = "busy" /\ pc.temps = 1 /\ pc.args = 0
      /\ sp - 1 < StackSize
      /\ stack' = [stack EXCEPT ![Slot(sp - 1)] = Ret(p)]
      /\ Suspend(p, 0, 1) /\ pc' = Entry(f)
      /\ UNCHANGED <<sp, fp, psp, paramstack, ret_val, nested_loop_idx, res>>
  BY DEF Dispatch, Statement, Go
<1>2. CallsInv BY DEF Shown
<1>3. /\ pc \in Place /\ sp \in Nat /\ fp \in Nat /\ StackSize \in Nat /\ MaxTemps \in Nat
      /\ sp <= StackSize
  BY <1>2, Facts
<1>4. p \in Place /\ p.fn = pc.fn /\ p.at = "code"
  <2>1. 0 \in 0 .. MaxTemps BY <1>3
  <2> QED BY <1>1, <1>3, <2>1 DEF Place
<1>5. PICK s : s = sp - 1 OBVIOUS
<1>6. s \in 0 .. StackSize - 1 /\ s \in Slots /\ fp <= s /\ s <= sp /\ sp <= s + 1 /\ sp = s + 1
  <2>1. fp + pc.temps + Extra(pc) <= sp /\ Extra(pc) \in {0, 1} BY <1>1, <1>2, Inner
  <2>2. fp <= sp - 1 BY ONLY <1>1, <1>3, <2>1
  <2> QED BY <1>3, <1>5, <2>2 DEF Slots
<1>7. stack' = [stack EXCEPT ![s] = Ret(p)] BY <1>1, <1>5, <1>6, SlotIs
<1>8. psp \in Nat /\ PspAt(acts, Len(acts)) <= psp /\ psp <= psp
  <2>1. psp \in Nat /\ PspKept BY <1>2, Facts DEF Shown
  <2> QED BY <2>1 DEF PspKept
<1>9. acts' = Append(acts, [pc |-> p, fp |-> fp, sp |-> s, psp |-> psp,
                            loops |-> nested_loop_idx])
  <2>1. psp - 0 = psp BY <1>8
  <2> QED BY <1>1, <1>5, <2>1 DEF Suspend
<1> HIDE DEF p
<1>10. Entered(p, s, psp, f) BY <1>1, <1>6, <1>7, <1>9 DEF Entered
<1>11. pc.at # "enter" /\ (p.at = "ret" => f \in Valued) BY <1>1, <1>4
<1> QED BY <1>4, <1>6, <1>8, <1>10, <1>11, CallIs

LEMMA HostFireCalls ==
  ASSUME Shown, Bounded, CallsInv', HostFire
  PROVE  Shown' /\ Abs!Call
<1>1. /\ res = Fire /\ Fits(1) /\ Push(Ret(pc)) /\ Suspend(pc, XArgs[Fire], 0)
      /\ psp' = psp /\ paramstack' = paramstack
      /\ pc' = Entry(Handler) /\ res' = "busy"
      /\ UNCHANGED <<fp, ret_val, nested_loop_idx>>
  BY FireRepushes DEF HostFire, Go, Shown
<1>2. CallsInv BY DEF Shown
<1>3. /\ pc \in Place /\ sp \in Nat /\ fp \in Nat /\ fp <= sp /\ StackSize \in Nat
      /\ psp <= ParamStackSize
  BY <1>2, Facts
<1>4. Fire \in XFuncs /\ Fire \notin XValued /\ Handler \in Funcs /\ XArgs[Fire] \in Nat
  BY CallsAssumption
<1>5. pc.at = "code" BY <1>1, <1>2 DEF CallsInv, ParamsOwned
<1>6. sp < StackSize BY <1>1, <1>2, RoomToPush
<1>7. sp \in 0 .. StackSize - 1 /\ sp \in Slots BY <1>3, <1>6 DEF Slots
<1>8. stack' = [stack EXCEPT ![sp] = Ret(pc)] /\ sp' = sp + 1
  BY <1>1, <1>7, SlotIs DEF Push
<1>9. PICK q : q = psp - XArgs[Fire] OBVIOUS
<1>10. q \in Nat /\ PspAt(acts, Len(acts)) <= q /\ q <= psp
  <2>1. Owed = XArgs[Fire] BY <1>1, <1>4 DEF Owed
  <2>2. /\ psp \in Nat /\ PspAt(acts, Len(acts)) \in Nat /\ pc.args \in Nat
        /\ psp >= PspAt(acts, Len(acts)) + pc.args + XArgs[Fire]
    BY <1>1, <1>2, <1>4, <2>1, ParamsHeld
  <2> QED BY ONLY <2>2, <1>4, <1>9
<1>11. acts' = Append(acts, [pc |-> pc, fp |-> fp, sp |-> sp, psp |-> q,
                             loops |-> nested_loop_idx])
  <2>1. sp - 0 = sp BY <1>3
  <2> QED BY <1>1, <1>9, <2>1 DEF Suspend
<1>12. Entered(pc, sp, q, Handler) BY <1>1, <1>3, <1>8, <1>11 DEF Entered
<1>13. sp <= sp /\ sp <= sp + 1 /\ pc.at # "enter" /\ pc.at # "ret" BY <1>3, <1>5
<1> QED BY <1>3, <1>4, <1>7, <1>10, <1>12, <1>13, CallIs

LEMMA EnterEnters ==
  ASSUME Shown, Bounded, CallsInv', Enter
  PROVE  Shown' /\ Abs!Enter
<1> DEFINE n == Len(acts)
           size == Locals[pc.fn]
<1>1. /\ pc.at = "enter" /\ res = "busy" /\ Fits(1 + size)
      /\ stack' = [stack EXCEPT ![Slot(sp)] = Link(fp)]
      /\ fp' = sp + 1 /\ sp' = sp + 1 + size
      /\ pc' = [pc EXCEPT !.at = IF pc.args > 0 THEN "params" ELSE "code"]
      /\ UNCHANGED <<psp, paramstack, ret_val, nested_loop_idx, res, acts>>
  BY DEF Enter, At, Go
<1>2. CallsInv /\ Marked /\ PspOrdered /\ PspKept /\ Answered BY DEF Shown
<1>3. /\ pc \in Place /\ Good(pc) /\ sp \in Nat /\ fp \in Nat /\ fp <= sp
      /\ StackSize \in Nat /\ stack \in [Slots -> Cells]
      /\ psp \in Nat /\ psp <= ParamStackSize /\ ParamStackSize \in Nat
  BY <1>2, Facts
<1>4. pc.fn # Main /\ pc.fn \in Funcs /\ size \in Nat
  <2>1. pc.fn # Main BY <1>1, <1>3 DEF Good
  <2>2. pc.fn \in Funcs \cup {Main} BY <1>3, PlaceTypes
  <2> QED BY <2>1, <2>2, CallsAssumption
<1>5. acts # <<>> /\ sp = acts[n].sp + 1 BY <1>1, <1>2, <1>4 DEF CallsInv, RunsAt
<1>6. /\ n \in Nat \ {0} /\ n \in 1 .. n /\ \A i \in 1 .. n : acts[i].sp <= acts[n].sp
  BY <1>2, <1>5, LastWaiter DEF CallsInv
<1>7. sp \in 0 .. StackSize - 1 /\ sp \in Slots
  <2>1. sp + (1 + size) <= StackSize BY <1>1 DEF Fits, Bounded
  <2>2. sp \in 0 .. StackSize - 1 BY ONLY <1>3, <1>4, <2>1
  <2> QED BY <2>2 DEF Slots
<1>8. stack' = [stack EXCEPT ![sp] = Link(fp)] BY <1>1, <1>7, SlotIs
<1>9. SameBelow(stack', stack, Slots, sp)
  <2>1. \A k \in Slots : k < sp => k # sp BY <1>3 DEF Slots
  <2> QED BY <2>1, <1>3, <1>8 DEF SameBelow
<1>10. pc'.fn = pc.fn /\ pc'.at # "enter" /\ pc'.at # "ret" BY <1>1, <1>3 DEF Place
<1>11. Marked'
  <2> SUFFICES ASSUME NEW k \in Slots
               PROVE  \/ stack'[k] \in Numbers
                      \/ \E i \in 1 .. n : k = acts[i].sp \/ k = acts[i].sp + 1
    BY <1>1 DEF Marked
  <2>1. CASE k = sp BY <2>1, <1>5, <1>6
  <2>2. CASE k # sp
    <3>1. stack'[k] = stack[k] BY <2>2, <1>3, <1>8
    <3> QED BY <3>1, <1>2 DEF Marked
  <2> QED BY <2>1, <2>2
<1>12. PspOrdered' /\ PspKept' BY <1>1, <1>2 DEF PspOrdered, PspKept
<1>13. Answered' BY <1>1, <1>2, <1>10 DEF Answered, CalledBy
<1>14. HostAt'
  <2>1. (res \in {"busy", "error", "end"})' => HostAt' BY FreeHost, PTL
  <2> QED BY <1>1, <2>1
<1>15. Shown' BY <1>11, <1>12, <1>13, <1>14 DEF Shown
<1>16. View /\ View' BY <1>2, ViewIs, PTL
<1>17. ASSUME NEW i \in 1 .. n
       PROVE  Waiters'[i] = Waiters[i]
  <2>1. acts[i].sp <= sp
    <3>1. acts[i].sp <= acts[n].sp /\ acts[i].sp \in Nat /\ acts[n].sp \in Nat
      BY <1>2, <1>6, ActTypes
    <3> QED BY <3>1, <1>5
  <2>2. acts[i].psp <= ParamStackSize
    <3>1. acts[i].psp \in 0 .. ParamStackSize BY <1>2, ActTypes
    <3> QED BY <3>1, <1>3
  <2>3. SameBelow(paramstack', paramstack, ParamSlots, ParamStackSize)
    BY <1>1 DEF SameBelow
  <2>4. Piece(acts, stack', paramstack', i) = Piece(acts, stack, paramstack, i)
    BY <1>2, <1>3, <1>9, <2>1, <2>2, <2>3, SamePiece
  <2> QED BY <1>1, <1>16, <2>4 DEF View
<1>18. Waiters' = Waiters
  <2>1. Row(Waiters, n) /\ Row(Waiters', n) BY <1>1, <1>16 DEF View
  <2> QED BY <2>1, <1>17, RowSame
<1>19. /\ Abs!Active = Running /\ Abs!Active' = Running'
       /\ Abs!Callers = Waiters /\ Abs!Callers' = Waiters'
       /\ Len(SeenFrames)' = Len(SeenFrames)
       /\ Running.vals = <<>> /\ Running'.args = Running.args
  BY <1>1, <1>16 DEF View, Frame
<1>20. Abs!Enter BY <1>18, <1>19 DEF Abs!Enter, SeenFrames, Waiters
<1> QED BY <1>15, <1>20

-----------------------------------------------------------------------------
(* A return: a is the youngest activation that waits, m are the others.    *)
Unwinding(a, m) ==
  /\ Len(acts) = m + 1 /\ acts[m + 1] = a /\ Len(acts') = m
  /\ \A i \in 1 .. m : acts'[i] = acts[i]
  /\ sp' = a.sp /\ fp' = a.fp /\ pc' = a.pc /\ stack' = Dropped(a.sp)
  /\ fp = a.sp + 2 /\ a.sp + 1 < StackSize /\ a.fp <= a.sp
  /\ a.pc.at \in {"code", "ret"}

LEMMA UnwoundTo ==
  ASSUME CallsInv, pc.fn # Main, pc.at # "enter", Unwind
  PROVE  \E a \in ActRecord, m \in Nat : Unwinding(a, m)
<1> DEFINE n == Len(acts)
           a == acts[n]
<1>1. TypeOK /\ Frames /\ RunsAt BY DEF CallsInv
<1>2. acts # <<>> BY <1>1 DEF RunsAt
<1>3. acts \in Seq(ActRecord) BY <1>1 DEF TypeOK, ActRecord
<1>4. /\ n \in Nat \ {0} /\ a \in ActRecord /\ Waiter(acts, n) /\ n \in 1 .. n
      /\ stack[a.sp] = Ret(a.pc)
  BY <1>1, <1>2, LastWaiter
<1>5. fp = a.sp + 2
  <2>1. fp = BaseAt(acts, n) BY <1>1 DEF RunsAt
  <2> QED BY <2>1, <1>4 DEF BaseAt
<1>6. StackSize \in Nat /\ a.pc \in Place /\ a.fp \in Nat /\ a.sp \in Nat
  BY <1>4, CallsAssumption DEF ActRecord
<1>7. a.sp + 1 < StackSize /\ stack[a.sp + 1] = Link(a.fp)
  BY <1>1, <1>4 DEF Frames, Saved
<1>8. sp' = a.sp /\ fp' = a.fp /\ pc' = a.pc /\ stack' = Dropped(a.sp)
  <2>1. a.sp \in 0 .. StackSize - 1 /\ a.sp + 1 \in 0 .. StackSize - 1
    BY ONLY <1>6, <1>7
  <2>2. Slot(a.sp) = a.sp /\ Slot(a.sp + 1) = a.sp + 1 BY <2>1, SlotIs
  <2>3. fp - 2 = a.sp /\ fp - 1 = a.sp + 1 BY ONLY <1>5, <1>6
  <2>4. AsLink(Link(a.fp)) = a.fp /\ AsRet(Ret(a.pc)) = a.pc
    BY <1>6, CellTypes
  <2> QED BY <2>2, <2>3, <2>4, <1>4, <1>7 DEF Unwind
<1>9. PICK m \in Nat : m = n - 1 BY <1>4
<1>10. n = m + 1 BY <1>4, <1>9
<1>11. Len(acts') = m /\ \A i \in 1 .. m : acts'[i] = acts[i]
  <2>1. acts' = Front(acts) BY DEF Unwind
  <2>2. /\ Front(acts) \in Seq(ActRecord) /\ Len(Front(acts)) = m
        /\ \A i \in 1 .. m : Front(acts)[i] = acts[i]
    BY ONLY m \in Nat, <1>10, <1>3, FrontProperties
  <2> QED BY <2>1, <2>2
<1>12. a.fp <= a.sp
  <2>1. FrameEnd(a.pc) \in Nat BY <1>6, PlaceTypes
  <2>2. a.sp = a.fp + FrameEnd(a.pc) BY <1>4 DEF Waiter
  <2> QED BY <2>1, <2>2, <1>6
<1>13. a.pc.at \in {"code", "ret"} BY <1>4 DEF Waiter
<1>14. acts[m + 1] = a BY <1>10
<1> HIDE DEF n
<1>15. Len(acts) = m + 1 BY <1>10 DEF n
<1> HIDE DEF a
<1>16. Unwinding(a, m)
  BY <1>5, <1>7, <1>8, <1>11, <1>12, <1>13, <1>14, <1>15 DEF Unwinding
<1> QED BY <1>4, <1>16

LEMMA UnwindingFacts ==
  ASSUME CallsInv, NEW a \in ActRecord, NEW m \in Nat, Unwinding(a, m)
  PROVE  /\ a.sp \in Nat /\ a.fp \in Nat /\ a.psp \in Nat /\ a.pc \in Place
         /\ a.sp \in Slots /\ StackSize \in Nat /\ a.sp < sp /\ a.sp + 1 < sp
         /\ m + 1 \in 1 .. m + 1
         /\ \A i \in 1 .. m + 1 : i \in 1 .. m \/ i = m + 1
         /\ \A i \in 1 .. m : i \in 1 .. m + 1 /\ i + 1 \in 1 .. m + 1 /\ i < m + 1
         /\ \A i \in 1 .. m : acts[i].sp <= a.sp
         /\ \A k \in Slots : k < a.sp => stack'[k] = stack[k]
<1>1. /\ Len(acts) = m + 1 /\ acts[m + 1] = a /\ fp = a.sp + 2 /\ a.sp + 1 < StackSize
      /\ stack' = Dropped(a.sp)
  BY DEF Unwinding
<1>2. /\ a.sp \in Nat /\ a.fp \in Nat /\ a.psp \in Nat /\ a.pc \in Place
      /\ StackSize \in Nat /\ ParamStackSize \in Nat
  BY CallsAssumption DEF ActRecord
<1>3. a.sp \in Slots BY <1>1, <1>2 DEF Slots
<1>4. sp \in Nat /\ fp <= sp /\ sp <= StackSize /\ stack \in [Slots -> Cells]
  BY Facts
<1>5. a.sp < sp /\ a.sp + 1 < sp BY ONLY <1>1, <1>2, <1>4
<1>6. /\ m + 1 \in 1 .. m + 1
      /\ \A i \in 1 .. m + 1 : i \in 1 .. m \/ i = m + 1
      /\ \A i \in 1 .. m : i \in 1 .. m + 1 /\ i + 1 \in 1 .. m + 1 /\ i < m + 1
  OBVIOUS
<1>7. ASSUME NEW i \in 1 .. m
      PROVE  acts[i].sp <= a.sp
  <2>1. acts[i].sp + 2 <= a.sp
    <3>1. Ordered BY DEF CallsInv, Frames
    <3> QED BY <3>1, <1>1, <1>6 DEF Ordered
  <2>2. acts[i].sp \in Nat BY <1>1, <1>6, ActTypes
  <2> QED BY <2>1, <2>2, <1>2
<1>8. \A k \in Slots : k < a.sp => stack'[k] = stack[k]
  <2>1. sp \in 0 .. StackSize /\ a.sp \in 0 .. sp BY <1>2, <1>4, <1>5
  <2> QED BY <2>1, <1>1, <1>4, DroppedCells
<1> QED BY <1>2, <1>3, <1>5, <1>6, <1>7, <1>8

LEMMA ReturnShown ==
  ASSUME Shown, CallsInv', res' = "busy", pc.at # "enter",
         NEW a \in ActRecord, NEW m \in Nat, Unwinding(a, m)
  PROVE  Shown'
<1>1. CallsInv /\ Marked /\ PspOrdered /\ Answered BY DEF Shown
<1>2. /\ Len(acts) = m + 1 /\ acts[m + 1] = a /\ Len(acts') = m
      /\ \A i \in 1 .. m : acts'[i] = acts[i]
      /\ pc' = a.pc /\ stack' = Dropped(a.sp) /\ fp = a.sp + 2
  BY DEF Unwinding
<1>3. /\ a.sp \in Nat /\ StackSize \in Nat /\ a.sp + 1 < sp
      /\ \A i \in 1 .. m + 1 : i \in 1 .. m \/ i = m + 1
      /\ \A i \in 1 .. m : i \in 1 .. m + 1 /\ i + 1 \in 1 .. m + 1 /\ i < m + 1
      /\ \A k \in Slots : k < a.sp => stack'[k] = stack[k]
  BY <1>1, UnwindingFacts
<1>4. Marked'
  <2> SUFFICES ASSUME NEW k \in Slots
               PROVE  \/ stack'[k] \in Numbers
                      \/ \E i \in 1 .. m : k = acts'[i].sp \/ k = acts'[i].sp + 1
    BY <1>2 DEF Marked
  <2>1. k \in 0 .. StackSize - 1 BY DEF Slots
  <2>2. sp \in Nat BY <1>1, Facts
  <2>3. CASE k < a.sp
    <3>1. k # a.sp /\ k # a.sp + 1 BY <2>1, <2>3, <1>3
    <3>2. stack'[k] = stack[k] BY <2>3, <1>3
    <3>3. \/ stack[k] \in Numbers
          \/ \E i \in 1 .. m + 1 : k = acts[i].sp \/ k = acts[i].sp + 1
      BY <1>1, <1>2 DEF Marked
    <3>4. ASSUME NEW i \in 1 .. m + 1, k = acts[i].sp \/ k = acts[i].sp + 1
          PROVE  \E j \in 1 .. m : k = acts'[j].sp \/ k = acts'[j].sp + 1
      <4>1. i \in 1 .. m BY <3>1, <3>4, <1>2, <1>3
      <4> QED BY <4>1, <3>4, <1>2
    <3> QED BY <3>2, <3>3, <3>4
  <2>4. CASE ~(k < a.sp) /\ k < fp
    <3>1. k \in a.sp .. sp - 1 BY <2>1, <2>2, <2>4, <1>2, <1>3
    <3>2. Slot(k) = k BY <2>1, SlotIs
    <3>3. Dropped(a.sp)[k] = Num(Stale) BY <3>1, <3>2 DEF Dropped
    <3> QED BY <3>3, <1>2 DEF Num, Numbers
  <2>5. CASE ~(k < a.sp) /\ ~(k < fp)
    <3>1. fp <= k BY <2>1, <2>5, <1>2, <1>3
    <3>2. stack[k] \in Numbers BY <3>1, NumbersAbove
    <3> QED BY <3>2, <1>2, DroppedMarks
  <2> QED BY <2>3, <2>4, <2>5
<1>5. PspOrdered' BY <1>1, <1>2, <1>3 DEF PspOrdered
<1>6. PspKept'
  <2>1. CallsInv' /\ (res = "busy")' => PspKept' BY BusyKept, PTL
  <2> QED BY <2>1
<1>7. Answered'
  <2> SUFFICES ASSUME NEW i \in 1 .. m, acts'[i].pc.at = "ret"
               PROVE  (IF i < m THEN acts'[i + 1].pc.fn ELSE pc'.fn) \in Valued
    BY <1>2 DEF Answered, CalledBy
  <2>1. acts[i].pc.at = "ret" /\ i \in 1 .. m + 1 /\ i < m + 1 BY <1>2, <1>3
  <2>2. acts[i + 1].pc.fn \in Valued BY <2>1, <1>1, <1>2 DEF Answered, CalledBy
  <2>3. CASE i < m
    <3>1. i + 1 \in 1 .. m BY <2>3
    <3> QED BY <3>1, <2>2, <2>3, <1>2
  <2>4. CASE ~(i < m)
    <3>1. i = m BY <2>4
    <3> QED BY <3>1, <2>2, <2>4, <1>2
  <2> QED BY <2>3, <2>4
<1>8. HostAt'
  <2>1. (res \in {"busy", "error", "end"})' => HostAt' BY FreeHost, PTL
  <2> QED BY <2>1
<1> QED BY <1>4, <1>5, <1>6, <1>7, <1>8 DEF Shown

Given(a) ==
  a.pc.at = "ret" =>
    fp < sp /\ stack[sp - 1] \in Numbers /\ ret_val' = AsNum(stack[sp - 1])

LEMMA ReturnReturns ==
  ASSUME Shown, Shown', Tight, res = "busy", pc.at = "code", pc.args = 0,
         psp' = psp, paramstack' = paramstack,
         NEW a \in ActRecord, NEW m \in Nat, Unwinding(a, m), Given(a)
  PROVE  Abs!Return
<1> DEFINE lo == PspAt(acts, m)
<1>1. CallsInv /\ View /\ View' BY ViewIs, PTL DEF Shown
<1>2. /\ Len(acts) = m + 1 /\ acts[m + 1] = a /\ Len(acts') = m
      /\ \A i \in 1 .. m : acts'[i] = acts[i]
      /\ sp' = a.sp /\ fp' = a.fp /\ pc' = a.pc /\ fp = a.sp + 2
      /\ a.fp <= a.sp /\ a.pc.at \in {"code", "ret"}
  BY DEF Unwinding
<1>3. /\ a.sp \in Nat /\ a.fp \in Nat /\ a.psp \in Nat /\ StackSize \in Nat
      /\ a.sp \in Slots /\ m + 1 \in 1 .. m + 1
      /\ \A i \in 1 .. m : i \in 1 .. m + 1
      /\ \A i \in 1 .. m : acts[i].sp <= a.sp
      /\ \A k \in Slots : k < a.sp => stack'[k] = stack[k]
  BY <1>1, UnwindingFacts
<1>4. sp \in Nat /\ fp \in Nat /\ ParamStackSize \in Nat /\ psp \in Nat BY <1>1, Facts
<1>5. \A i \in 0 .. m : PspAt(acts', i) = PspAt(acts, i)
  <2> TAKE i \in 0 .. m
  <2>1. i # 0 => i \in 1 .. m OBVIOUS
  <2> QED BY <2>1, <1>2 DEF PspAt
<1>6. ASSUME NEW i \in 1 .. m
      PROVE  Waiters[i] = Waiters'[i]
  <2>1. acts[i].psp <= ParamStackSize
    <3>1. acts[i].psp \in 0 .. ParamStackSize BY <1>1, <1>2, <1>3, ActTypes
    <3> QED BY <3>1, <1>4
  <2>2. SameBelow(stack', stack, Slots, a.sp) BY <1>3 DEF SameBelow
  <2>3. SameBelow(paramstack', paramstack, ParamSlots, ParamStackSize) BY DEF SameBelow
  <2>4. Piece(acts, stack', paramstack', i) = Piece(acts, stack, paramstack, i)
    <3>1. i \in 1 .. Len(acts) /\ acts[i].sp <= a.sp BY <1>2, <1>3
    <3> QED BY <1>1, <1>3, <1>4, <2>1, <2>2, <2>3, <3>1, SamePiece
  <2>5. Piece(acts', stack', paramstack', i) = Piece(acts, stack', paramstack', i)
    <3>1. i - 1 \in 0 .. m OBVIOUS
    <3> QED BY <3>1, <1>2, <1>5 DEF Piece
  <2> QED BY <1>1, <1>2, <1>3, <2>4, <2>5 DEF View
<1>7. Front(Waiters) = Waiters' /\ Last(Waiters) = Waiters[m + 1]
  <2>1. Row(Waiters, m + 1) /\ Row(Waiters', m) BY <1>1, <1>2 DEF View
  <2> QED BY <2>1, <1>6, RowFront
<1>8. PICK v : v = Cut(stack, a.fp, a.sp) OBVIOUS
<1>9. PICK g : g = Cut(paramstack, lo, psp) OBVIOUS
<1>10. psp = a.psp
  <2>1. /\ psp = PspAt(acts, Len(acts)) + pc.args + Owed /\ Owed = 0
        /\ PspAt(acts, Len(acts)) \in Nat
    BY <1>1, ParamsHeld
  <2>2. PspAt(acts, Len(acts)) = a.psp
    <3>1. m + 1 # 0 OBVIOUS
    <3> QED BY <3>1, <1>2 DEF PspAt
  <2> QED BY <2>1, <2>2, <1>3
<1>11. Waiters[m + 1] = Frame(a.pc, v, g, Stale)
  <2>1. (m + 1) - 1 = m OBVIOUS
  <2>2. Waiters[m + 1] = Piece(acts, stack, paramstack, m + 1) BY <1>1, <1>2, <1>3 DEF View
  <2> QED BY <2>1, <2>2, <1>2, <1>8, <1>9, <1>10 DEF Piece
<1>12. Running' = Frame(a.pc, v, g, IF a.pc.at = "ret" THEN Num(ret_val') ELSE Stale)
  <2>1. pc'.at # "enter" BY <1>2
  <2>2. Running' = Frame(pc', Cut(stack', fp', sp'), Cut(paramstack', PspAt(acts', Len(acts')), psp'),
                         IF pc'.at = "ret" THEN Num(ret_val') ELSE Stale)
    BY <2>1, <1>1 DEF View
  <2>3. PspAt(acts', Len(acts')) = lo
    <3>1. m \in 0 .. m OBVIOUS
    <3> QED BY <3>1, <1>2, <1>5
  <2>4. Cut(stack', a.fp, a.sp) = v
    <3>1. \A k \in a.fp .. a.sp - 1 : k \in Slots /\ k < a.sp
      <4>1. a.sp < StackSize BY <1>3 DEF Slots
      <4> QED BY ONLY <4>1, <1>3 DEF Slots
    <3>2. \A k \in a.fp .. a.sp - 1 : stack'[k] = stack[k] BY <3>1, <1>3
    <3>3. PICK b \in Nat : b = a.fp BY <1>3
    <3>4. PICK h \in Nat : h = a.sp BY <1>3
    <3>5. \A k \in b .. h - 1 : stack'[k] = stack[k] BY <3>2, <3>3, <3>4
    <3>6. Cut(stack', b, h) = Cut(stack, b, h) BY <3>5, CutSame
    <3> QED BY <3>3, <3>4, <3>6, <1>8
  <2> QED BY <2>2, <2>3, <2>4, <1>2, <1>9
<1>13. Running.vals = Cut(stack, fp, sp) BY <1>1 DEF View, Frame
<1>14. ASSUME a.pc.at = "ret"
       PROVE  Running.vals # <<>> /\ Last(Running.vals) = Num(ret_val')
  <2>1. fp < sp /\ stack[sp - 1] \in Numbers /\ ret_val' = AsNum(stack[sp - 1])
    BY <1>14 DEF Given
  <2>2. PICK h \in Nat : h = sp - 1 BY <1>4, <2>1
  <2>3. sp = h + 1 /\ fp <= h BY <1>4, <2>1, <2>2
  <2>4. Last(Cut(stack, fp, h + 1)) = stack[h] /\ Cut(stack, fp, h + 1) # <<>>
    <3>1. h \in Nat /\ fp \in Nat /\ fp <= h BY <1>4, <2>3
    <3> QED BY ONLY <3>1, CutLonger
  <2>5. stack[h] = Num(ret_val')
    <3>1. stack[h] \in Numbers /\ ret_val' = AsNum(stack[h]) BY <2>1, <2>2
    <3> QED BY ONLY <3>1, NumberIs
  <2> QED BY <2>3, <2>4, <2>5, <1>13
<1>15. PICK caller : caller = Frame(a.pc, v, g, Stale) OBVIOUS
<1>16. /\ caller.code = a.pc
       /\ \A x : [caller EXCEPT !.got = x] = Frame(a.pc, v, g, x)
  BY <1>15 DEF Frame
<1>17. WaitsAt(caller.code) <=> a.pc.at = "ret" BY <1>16 DEF WaitsAt
<1>18. /\ Abs!Active = Running /\ Abs!Callers = Waiters
       /\ Len(SeenFrames) = (m + 1) + 1
  BY <1>1, <1>2 DEF View
<1>19. Len(SeenFrames) > 1 BY <1>18
<1>20. Abs!Front(Waiters) = Waiters' /\ Abs!Last(Waiters) = caller
  BY <1>7, <1>11, <1>15 DEF Abs!Front, Front, Abs!Last, Last
<1>21. CASE a.pc.at = "ret"
  <2>1. Running' = [caller EXCEPT !.got = Num(ret_val')] BY <1>12, <1>16, <1>21
  <2>2. Abs!Last(Running.vals) = Num(ret_val') /\ Running.vals # <<>>
    BY <1>14, <1>21 DEF Abs!Last, Last
  <2>3. Abs!Resumed(caller, Num(ret_val'))
    BY <2>1, <1>18, <1>20 DEF Abs!Resumed, SeenFrames, Waiters
  <2> QED BY <2>2, <2>3, <1>17, <1>18, <1>19, <1>20, <1>21 DEF Abs!Return, SeenFrames, Waiters
<1>22. CASE a.pc.at # "ret"
  <2>1. Running' = [caller EXCEPT !.got = Stale] BY <1>12, <1>16, <1>22
  <2>2. Abs!Resumed(caller, Stale)
    BY <2>1, <1>18, <1>20 DEF Abs!Resumed, SeenFrames, Waiters
  <2> QED BY <2>2, <1>17, <1>18, <1>19, <1>20, <1>22 DEF Abs!Return, SeenFrames, Waiters
<1> QED BY <1>21, <1>22

LEMMA LeaveReturns ==
  ASSUME Shown, Bounded, Tight, CallsInv', Leave \/ Reti
  PROVE  Shown' /\ Abs!Return
<1>1. /\ res = "busy" /\ pc.fn # Main /\ pc.at = "code" /\ pc.args = 0 /\ Unwind
      /\ \/ pc.fn \notin Valued
         \/ pc.temps = 1 /\ ret_val' = IF sp > fp THEN AsNum(Top(1)) ELSE ret_val
      /\ psp' = psp /\ paramstack' = paramstack /\ res' = res
  BY CallsAssumption DEF Leave, Reti, Statement, Bounded
<1>2. CallsInv /\ Answered BY DEF Shown
<1>3. PICK a \in ActRecord, m \in Nat : Unwinding(a, m) BY <1>1, <1>2, UnwoundTo
<1>4. Shown' BY <1>1, <1>3, ReturnShown
<1>5. Given(a)
  <2> SUFFICES ASSUME a.pc.at = "ret"
               PROVE  fp < sp /\ stack[sp - 1] \in Numbers /\ ret_val' = AsNum(stack[sp - 1])
    BY DEF Given
  <2>1. Len(acts) = m + 1 /\ acts[m + 1] = a /\ m + 1 \in 1 .. m + 1
    BY <1>2, <1>3, UnwindingFacts DEF Unwinding
  <2>2. pc.fn \in Valued BY <1>2, <2>1 DEF Answered, CalledBy
  <2>3. pc.temps = 1 /\ ret_val' = IF sp > fp THEN AsNum(Top(1)) ELSE ret_val
    BY <1>1, <2>2
  <2>4. /\ sp \in Nat /\ fp \in Nat /\ sp <= StackSize /\ StackSize \in Nat
        /\ fp + pc.temps + Extra(pc) <= sp /\ Extra(pc) \in {0, 1}
    BY <1>1, <1>2, Inner
  <2>5. fp < sp /\ fp <= sp - 1 /\ sp - 1 \in 0 .. StackSize - 1
    BY ONLY <2>3, <2>4
  <2>6. PICK h \in 0 .. StackSize - 1 : h = sp - 1 BY <2>5
  <2>7. stack[h] \in Numbers
    <3>1. h \in Slots /\ fp <= h BY <2>5, <2>6 DEF Slots
    <3> QED BY <3>1, <1>1, NumbersAbove
  <2>8. Top(1) = stack[h] BY <2>6, SlotIs DEF Top
  <2> QED BY <2>3, <2>4, <2>5, <2>6, <2>7, <2>8
<1>6. Abs!Return BY <1>1, <1>3, <1>4, <1>5, ReturnReturns
<1> QED BY <1>4, <1>6

-----------------------------------------------------------------------------
(* The beginning, and steps that change nothing.                           *)
LEMMA FreshShown == Fresh => Shown
<1> SUFFICES ASSUME Fresh PROVE Shown OBVIOUS
<1>1. CallsInv BY FreshInv
<1>2. acts = <<>> /\ Len(acts) = 0 /\ res = "busy" /\ psp = 0 BY EmptySeq DEF Fresh
<1>3. Marked BY CallsAssumption DEF Fresh, Marked, Num, Numbers
<1>4. PspOrdered /\ PspKept /\ Answered BY <1>2 DEF PspOrdered, PspKept, PspAt, Answered
<1>5. HostAt BY <1>2, FreeHost
<1> QED BY <1>1, <1>3, <1>4, <1>5 DEF Shown

FirstSeen == SeenFrames = <<[code |-> Start, vals |-> <<>>, args |-> <<>>, got |-> Stale]>>

LEMMA FreshSeen == Fresh => FirstSeen
<1> SUFFICES ASSUME Fresh PROVE FirstSeen OBVIOUS
<1>1. View BY FreshInv, ViewIs
<1>2. /\ acts = <<>> /\ Len(acts) = 0 /\ psp = 0 /\ sp = 0 /\ fp = 0
      /\ pc = Start /\ pc.at = "code"
  BY EmptySeq DEF Fresh, Start
<1>3. PspAt(acts, Len(acts)) = 0 BY <1>2 DEF PspAt
<1>4. Cut(stack, 0, 0) = <<>> /\ Cut(paramstack, 0, 0) = <<>> BY CutNone
<1>5. Running = Frame(Start, <<>>, <<>>, Stale) BY <1>1, <1>2, <1>3, <1>4 DEF View
<1>6. Waiters = <<>>
  <2>1. Row(Waiters, 0) BY <1>1, <1>2 DEF View
  <2>2. 0 \in Nat /\ \A i \in 1 .. 0 : Waiters[i] \in {} OBVIOUS
  <2>3. Waiters \in Seq({}) BY <2>1, <2>2, RowIs
  <2> QED BY <2>3, EmptySeq
<1> QED BY <1>5, <1>6 DEF FirstSeen, SeenFrames, Frame

LEMMA InitBegins == Init => Shown /\ Abs!Init
<1> SUFFICES ASSUME Init PROVE Shown /\ Abs!Init OBVIOUS
<1>1. Fresh BY DEF Init, Fresh
<1>2. FirstSeen BY <1>1, FreshSeen
<1>3. Abs!Init BY <1>2 DEF FirstSeen, SeenFrames, Waiters, Abs!Init, Abs!Begin
<1> QED BY <1>1, <1>3, FreshShown

LEMMA ResetResets == Reset => Shown' /\ Abs!Reset
<1> SUFFICES ASSUME Reset PROVE Shown' /\ Abs!Reset OBVIOUS
<1>1. Fresh' BY DEF Reset, Fresh
<1>2. Fresh' => Shown' /\ FirstSeen' BY FreshShown, FreshSeen, PTL
<1>3. Abs!Reset BY <1>1, <1>2 DEF FirstSeen, SeenFrames, Waiters, Abs!Reset, Abs!Begin
<1> QED BY <1>1, <1>2, <1>3

LEMMA StutterSame ==
  ASSUME Shown, CallsInv', UNCHANGED vars
  PROVE  Shown' /\ UNCHANGED SeenFrames
<1>1. /\ UNCHANGED <<pc, sp, fp, psp, ret_val, nested_loop_idx, res>>
      /\ UNCHANGED <<stack, paramstack, acts>>
  BY DEF vars, registers
<1>2. Shown'
  BY <1>1 DEF Shown, Marked, PspOrdered, PspKept, PspAt, Answered, CalledBy, HostAt
<1>3. UNCHANGED SeenFrames
  BY <1>1 DEF SeenFrames, Waiters, Waiting, Running, CellsFrom, ParamsFrom, ParamsBelow, Below,
              Last, WaitsAt
<1> QED BY <1>2, <1>3

-----------------------------------------------------------------------------
(* Steps inside an activation: what is left of the arguments stays above   *)
(* those of the others.                                                    *)
LEMMA InsideStep ==
  ASSUME Shown, CallsInv', Inside, res' = "busy" \/ psp' = psp
  PROVE  Shown' /\ Abs!Run
<1>1. PspKept'
  <2>1. CASE res' = "busy"
    <3>1. CallsInv' /\ (res = "busy")' => PspKept' BY BusyKept, PTL
    <3> QED BY <2>1, <3>1
  <2>2. CASE psp' = psp BY <2>2 DEF Shown, PspKept, Inside
  <2> QED BY <2>1, <2>2
<1>2. Shown' BY <1>1, InsideShown
<1> QED BY <1>2, InsideRuns

LEMMA ExpressionRuns ==
  ASSUME Shown, Bounded, CallsInv', Expression
  PROVE  Shown' /\ Abs!Run
<1>1. Inside
  BY PushValueInside, OperatorInside, PushLocalInside, PushParamInside, PushRetInside,
     XParamInside, XPopInside DEF Expression
<1>2. res' = "busy"
  BY DEF Expression, PushValue, Operator, PushLocal, PushParam, PushRet, XParam, XPop, At
<1> QED BY <1>1, <1>2, InsideStep

LEMMA AssignmentRuns ==
  ASSUME Shown, Bounded, CallsInv', Assignment
  PROVE  Shown' /\ Abs!Run
<1>1. Inside
  BY PopValueInside, PopLocalInside, StepLocalInside DEF Assignment
<1>2. res' = "busy"
  BY DEF Assignment, PopValue, PopLocal, StepLocal, At, registers
<1> QED BY <1>1, <1>2, InsideStep

LEMMA LoopRuns ==
  ASSUME Shown, Bounded, CallsInv', Loop
  PROVE  Shown' /\ Abs!Run
<1>1. Inside BY LoopInside
<1>2. psp' = psp BY DEF Loop, For, TooManyLoops, ForBody, ForSkip, LoopEnd
<1> QED BY <1>1, <1>2, InsideStep

LEMMA CallSteps ==
  ASSUME Shown, Bounded, Tight, CallsInv', Call
  PROVE  Shown' /\ Abs!Next
<1>1. ASSUME Param \/ PopParam
      PROVE  Shown' /\ Abs!Run
  <2>1. Inside BY <1>1, ParamInside, PopParamInside
  <2>2. res' = "busy" BY <1>1 DEF Param, PopParam, At
  <2> QED BY <2>1, <2>2, InsideStep
<1>2. ASSUME NEW d \in {0, 1}, StackOverflow(d)
      PROVE  Shown' /\ Abs!Run
  <2>1. Inside BY <1>2, StackOverflowInside
  <2>2. psp' = psp BY <1>2 DEF StackOverflow
  <2> QED BY <2>1, <2>2, InsideStep
<1>3. CASE \E f \in Funcs, n \in 0 .. MaxArgs, wanted \in BOOLEAN : Gosub(f, n, wanted)
  BY <1>3, GosubCalls DEF Abs!Next
<1>4. CASE \E f \in Funcs : Dispatch(f) BY <1>4, DispatchCalls DEF Abs!Next
<1>5. CASE Enter BY <1>5, EnterEnters DEF Abs!Next
<1>6. CASE Leave \/ Reti BY <1>6, LeaveReturns DEF Abs!Next
<1> QED BY <1>1, <1>2, <1>3, <1>4, <1>5, <1>6 DEF Call, Abs!Next

LEMMA HostSteps ==
  ASSUME Shown, Bounded, CallsInv', Host
  PROVE  Shown' /\ Abs!Next
<1>1. ASSUME NEW x \in XFuncs, NEW next \in {"xparam", "xpop", "code"}, XFunc(x, next)
      PROVE  Shown' /\ Abs!Run
  <2>1. Inside BY <1>1, XFuncInside
  <2>2. psp' = psp BY <1>1 DEF XFunc
  <2> QED BY <2>1, <2>2, InsideStep
<1>2. ASSUME NEW x \in XFuncs, NEW v \in Values, HostAnswer(x, v)
      PROVE  Shown' /\ Abs!Run
  <2>1. Inside BY <1>2, HostAnswerInside
  <2>2. res' = "busy" BY <1>2 DEF HostAnswer
  <2> QED BY <2>1, <2>2, InsideStep
<1>3. CASE HostFire BY <1>3, HostFireCalls DEF Abs!Next
<1>4. ASSUME End
      PROVE  Shown' /\ Abs!Run
  <2>1. Inside BY <1>4, EndInside
  <2>2. psp' = psp BY <1>4 DEF End
  <2> QED BY <2>1, <2>2, InsideStep
<1>5. CASE Reset BY <1>5, ResetResets DEF Abs!Next
<1> QED BY <1>1, <1>2, <1>3, <1>4, <1>5 DEF Host, Abs!Next

LEMMA StepImplements ==
  ASSUME Shown, Bounded, Tight, [Next]_vars
  PROVE  Shown' /\ [Abs!Next]_SeenFrames
<1>1. CallsInv' BY CallsInvInductive DEF Shown
<1>2. CASE Expression BY <1>1, <1>2, ExpressionRuns DEF Abs!Next
<1>3. CASE Assignment BY <1>1, <1>3, AssignmentRuns DEF Abs!Next
<1>4. CASE Loop BY <1>1, <1>4, LoopRuns DEF Abs!Next
<1>5. CASE Call BY <1>1, <1>5, CallSteps
<1>6. CASE Host BY <1>1, <1>6, HostSteps
<1>7. CASE UNCHANGED vars BY <1>1, <1>7, StutterSame
<1> QED BY <1>2, <1>3, <1>4, <1>5, <1>6, <1>7 DEF Next

(* The instructions on the two stacks are calls and returns of activations *)
(* that keep their own values, arguments and places in the code, for every *)
(* program that fits on the stacks and passes as many arguments as there   *)
(* are parameters (GOSUB, ENTER, LEAVE, RETI, PUSH_RET of nc_run).         *)
THEOREM CallsImplement ==
  ASSUME Bounded, Tight
  PROVE  Spec => Implements
<1>1. Shown /\ [Next]_vars => Shown' /\ [Abs!Next]_SeenFrames BY StepImplements
<1> QED BY InitBegins, <1>1, PTL DEF Spec, Implements, Abs!Spec, SeenFrames, Waiters

-----------------------------------------------------------------------------
(* The for loop (ForLoop), for integers of every width: arithmetic.        *)

LEMMA Times ==
  ASSUME NEW a \in Int, NEW b \in Int, NEW s \in Nat \ {0}, a <= b
  PROVE  a * s <= b * s
  OBVIOUS

LEMMA Quotient ==
  ASSUME NEW n \in Nat, NEW s \in Nat \ {0}, NEW q \in Nat,
         q * s <= n, n < (q + 1) * s
  PROVE  n \div s = q
  OBVIOUS

LEMMA Widths == Half \in Nat /\ Half >= 2 /\ Modulus \in Nat \ {0} /\ Modulus = 2 * Half
  BY HalfAssumption DEF Modulus

(* The conversions yield numbers of their type, and there and back again   *)
(* nothing is lost.                                                        *)
LEMMA Converted ==
  ASSUME NEW x \in Int
  PROVE  /\ AsUnsigned(x) \in Unsigned /\ AsSigned(x) \in Signed
         /\ x \in Signed => AsSigned(x) = x /\ AsSigned(AsUnsigned(x)) = x
  <1>0. x \in Int /\ Modulus \in Nat \ {0}
    BY Widths
  <1>1. x % Modulus \in 0 .. Modulus - 1
    BY ONLY <1>0
  <1>2. AsUnsigned(x) \in Unsigned /\ AsSigned(x) \in Signed
    BY <1>1, Widths DEF AsUnsigned, AsSigned, Unsigned, Signed
  <1>3. ASSUME x \in Signed
        PROVE  AsSigned(x) = x /\ AsSigned(AsUnsigned(x)) = x
    <2>1. x >= -Half /\ x < Half
      BY <1>3, Widths DEF Signed
    <2>2. x % Modulus = IF x >= 0 THEN x ELSE x + Modulus
      <3>1. (x >= 0 /\ x < Modulus) \/ (x < 0 /\ -Modulus <= x)
        BY <2>1, Widths
      <3> QED
        BY ONLY <3>1, <1>0
    <2>3. (x % Modulus) % Modulus = x % Modulus
      BY ONLY <1>1, <1>0
    <2> QED
      BY <2>1, <2>2, <2>3, Widths DEF AsSigned, AsUnsigned
  <1> QED
    BY <1>2, <1>3

-----------------------------------------------------------------------------
(* The inductive invariant.  In a regular loop whose body leaves the       *)
(* variable alone, the passes so far and the loop variable belong together *)
(* all the time, not only when the body begins, and the limit has not been *)
(* passed.                                                                 *)
InPass ==
  /\ passes >= 1
  /\ Seen = start + (passes - 1) * step
  /\ ~Empty

LoopInv ==
  Regular /\ ~assigned =>
    /\ at = "check" => passes = 0 /\ Seen = start
    /\ at \in {"body", "next"} => InPass
    /\ at = "left" /\ ~broken => passes = Promised

LoopIInv == LoopTypeOK /\ LoopInv

(* What the loop variable is kept as, and what is seen of it.              *)
LEMMA SeenAgain ==
  ASSUME scope \in {"global", "local"}, scope' = scope, NEW x \in Int, var' = Kept(x)
  PROVE  /\ var' \in IF scope = "global" THEN Unsigned ELSE Signed
         /\ x \in Signed => Seen' = x
  BY Converted DEF Kept, Seen

LEMMA SeenType == LoopTypeOK => Seen \in Signed /\ Seen \in Int
  BY Converted, Widths DEF LoopTypeOK, Seen, Unsigned, Signed

LEMMA InitInv == LoopInit => LoopIInv
  <1> SUFFICES ASSUME LoopInit PROVE LoopIInv
    OBVIOUS
  <1>1. start \in Int
    BY Widths DEF LoopInit, Signed
  <1>2. /\ var \in IF scope = "global" THEN Unsigned ELSE Signed
        /\ Seen = start
    BY <1>1, Converted DEF LoopInit, Kept, Seen
  <1>0. 0 \in 0 .. Modulus
    BY Widths
  <1>3. LoopTypeOK
    BY <1>2, <1>0 DEF LoopInit, LoopTypeOK
  <1>4. LoopInv
    BY <1>2 DEF LoopInit, LoopInv
  <1> QED
    BY <1>3, <1>4 DEF LoopIInv

-----------------------------------------------------------------------------
(* The number of passes.                                                   *)

(* n - 1 steps do not pass the limit, n steps do: n passes are promised.   *)
LEMMA PromisedUp ==
  ASSUME start \in Int, limit \in Int, step \in Nat \ {0}, NEW n \in Nat \ {0},
         start + (n - 1) * step <= limit, start + n * step > limit
  PROVE  Promised = n
  <1>1. 0 * step <= (n - 1) * step
    BY Times
  <1>2. limit - start \in Nat /\ n - 1 \in Nat
    BY <1>1
  <1>3. (n - 1) * step <= limit - start /\ limit - start < ((n - 1) + 1) * step
    OBVIOUS
  <1>4. (limit - start) \div step = n - 1
    BY ONLY <1>2, <1>3, step \in Nat \ {0}, Quotient
  <1>5. step > 0 /\ start <= limit
    BY <1>2
  <1> QED
    BY <1>4, <1>5 DEF Promised

LEMMA PromisedDown ==
  ASSUME start \in Int, limit \in Int, step \in Int, step < 0, NEW n \in Nat \ {0},
         start + (n - 1) * step >= limit, start + n * step < limit
  PROVE  Promised = n
  <1>0. -step \in Nat \ {0}
    OBVIOUS
  <1>1. 0 * (-step) <= (n - 1) * (-step)
    BY <1>0, Times
  <1>2. start - limit \in Nat /\ n - 1 \in Nat
    BY <1>1
  <1>3. (n - 1) * (-step) <= start - limit /\ start - limit < ((n - 1) + 1) * (-step)
    OBVIOUS
  <1>4. (start - limit) \div (-step) = n - 1
    BY ONLY <1>2, <1>3, <1>0, Quotient
  <1>5. step < 0 /\ ~(step > 0) /\ start >= limit
    BY <1>2
  <1> QED
    BY <1>4, <1>5 DEF Promised

(* The number of passes stays below the number of integers.                *)
LEMMA FewPasses ==
  ASSUME start \in Signed, limit \in Signed, step \in Int, step # 0,
         NEW n \in Nat,
         step > 0 => start + n * step <= limit,
         step < 0 => start + n * step >= limit
  PROVE  n < Modulus
  <1>1. start >= -Half /\ start < Half /\ limit >= -Half /\ limit < Half
        /\ start \in Int /\ limit \in Int
    BY Widths DEF Signed
  <1>2. CASE step > 0
    <2>1. n * 1 <= n * step
      BY <1>2
    <2> QED
      BY <1>1, <1>2, <2>1, Widths
  <1>3. CASE step < 0
    <2>1. n * 1 <= n * (-step)
      BY <1>3
    <2> QED
      BY <1>1, <1>3, <2>1, Widths
  <1> QED
    BY <1>2, <1>3

-----------------------------------------------------------------------------
(* The steps.                                                              *)

LEMMA CheckInv == LoopIInv /\ Check => LoopIInv'
  <1> SUFFICES ASSUME LoopIInv, Check PROVE LoopIInv'
    OBVIOUS
  <1>1. OneMore \in 0 .. Modulus
    BY Widths DEF LoopIInv, LoopTypeOK, OneMore
  <1>2. LoopTypeOK'
    BY <1>1 DEF LoopIInv, LoopTypeOK, Check, header
  <1>3. ASSUME Regular, ~assigned, at' = "left", ~broken
        PROVE  passes' = Promised
    <2>1. passes' = 0 /\ Seen = start /\ Empty
      BY <1>3 DEF LoopIInv, LoopInv, Check
    <2> QED
      BY <2>1, Widths DEF Empty, Promised, LoopIInv, LoopTypeOK, Signed
  <1>4. ASSUME Regular, ~assigned, at' = "body"
        PROVE  passes' = 1 /\ Seen = start /\ ~Empty
    BY <1>4, Widths DEF LoopIInv, LoopInv, Check, OneMore
  <1>5. UNCHANGED <<Seen, Empty, Regular, Promised>>
    BY DEF Check, header, Seen, Empty, Regular, Promised
  <1>6. at = "check" /\ at' \in {"body", "left"} /\ UNCHANGED <<start, step, assigned, broken>>
    BY DEF Check, header
  <1>7. start \in Int /\ step \in Int
    BY Widths DEF LoopIInv, LoopTypeOK, Signed
  <1>8. LoopInv'
    <2> SUFFICES ASSUME Regular', ~assigned'
                 PROVE  /\ at' = "body" => InPass'
                        /\ at' = "left" /\ ~broken' => passes' = Promised'
      BY <1>6 DEF LoopInv
    <2>1. ASSUME at' = "body" PROVE InPass'
      <3>1. start + (1 - 1) * step = start
        BY <1>7
      <3> QED
        BY <2>1, <3>1, <1>4, <1>5, <1>6 DEF InPass
    <2> QED
      BY <2>1, <1>3, <1>5, <1>6
  <1> QED
    BY <1>2, <1>8 DEF LoopIInv

LEMMA BodyInv ==
  ASSUME LoopIInv, (\E x \in Signed : Assign(x)) \/ BodyEnd \/ Break
  PROVE  LoopIInv'
  <1>1. CASE \E x \in Signed : Assign(x)
    <2>1. PICK x \in Signed : Assign(x)
      BY <1>1
    <2>2. x \in Int
      BY <2>1, Widths DEF Signed
    <2>3. var' \in IF scope = "global" THEN Unsigned ELSE Signed
      BY <2>1, <2>2, SeenAgain DEF Assign, header, LoopIInv, LoopTypeOK
    <2>4. 0 \in 0 .. Modulus
      BY Widths
    <2> QED
      BY <2>1, <2>3, <2>4 DEF Assign, header, LoopIInv, LoopTypeOK, LoopInv
  <1>2. CASE BodyEnd
    BY <1>2 DEF BodyEnd, header, LoopIInv, LoopTypeOK, LoopInv, Regular, InPass, Seen, Empty
  <1>3. CASE Break
    BY <1>3 DEF Break, header, LoopIInv, LoopTypeOK, LoopInv
  <1> QED
    BY <1>1, <1>2, <1>3

(* In a regular loop the sum does not wrap around, and both tests see it.  *)
LEMMA SumExact ==
  ASSUME LoopTypeOK, Regular, ~Empty, NEW x \in SumsSeen
  PROVE  Seen + step \in Signed /\ x = Seen + step
  <1>1. Seen \in Signed /\ step \in Signed /\ limit \in Signed /\ limit + step \in Signed
        /\ scope \in {"global", "local"}
    BY SeenType DEF LoopTypeOK, Regular
  <1>2. /\ Seen \in Int /\ step \in Int /\ limit \in Int
        /\ step > 0 => Seen <= limit
        /\ step < 0 => Seen >= limit
        /\ step # 0
    BY <1>1, Widths DEF Signed, Empty, Regular
  <1>3. Seen + step \in Signed
    BY <1>1, <1>2, Widths DEF Signed
  <1>4. AsSigned(Seen + step) = Seen + step /\ AsSigned(AsUnsigned(Seen + step)) = Seen + step
    BY <1>2, <1>3, Converted
  <1> QED
    BY <1>1, <1>3, <1>4 DEF SumsSeen, NextSum, Kept

(* One pass more, or the last one was the last.                            *)
LEMMA NextPassCounts ==
  ASSUME LoopIInv, NextPass, Regular, ~assigned
  PROVE  /\ at' = "body" => passes' = passes + 1 /\ Seen' = start + passes * step
                            /\ ~Empty' /\ passes >= 1
         /\ at' = "left" => passes' = Promised
  <1>1. InPass /\ LoopTypeOK /\ at = "next"
    BY DEF LoopIInv, LoopInv, NextPass
  <1>2. PICK x \in SumsSeen :
          IF Continues(x) THEN at' = "body" /\ passes' = OneMore
                          ELSE at' = "left" /\ UNCHANGED passes
    BY DEF NextPass
  <1>3. Seen + step \in Signed /\ x = Seen + step
    BY <1>1, SumExact DEF InPass
  <1>4. /\ start \in Signed /\ limit \in Signed
        /\ start \in Int /\ limit \in Int /\ step \in Int /\ step # 0
        /\ passes \in Nat /\ passes >= 1 /\ passes <= Modulus
    BY <1>1, Widths DEF LoopTypeOK, Signed, InPass, Regular
  <1>5. x = start + passes * step
    <2>1. Seen = start + (passes - 1) * step
      BY <1>1 DEF InPass
    <2>2. (passes - 1) * step + step = passes * step
      BY <1>4
    <2>3. (passes - 1) * step \in Int /\ passes * step \in Int
      BY <1>4
    <2> QED
      BY <2>1, <2>2, <2>3, <1>3, <1>4
  <1>6. Seen' = x /\ UNCHANGED <<start, limit, step, assigned>>
    <2>1. scope \in {"global", "local"} /\ scope' = scope /\ var' = Kept(Seen + step)
          /\ Seen + step \in Int
      BY <1>1, <1>3, Widths DEF LoopTypeOK, NextPass, header, NextSum, Signed
    <2> QED
      BY <2>1, <1>3, SeenAgain DEF NextPass, header
  <1>7. CASE Continues(x)
    <2>1. passes < Modulus
      BY <1>4, <1>5, <1>7, FewPasses DEF Continues
    <2>2. passes' = passes + 1
      BY <2>1, <1>2, <1>4, <1>7 DEF OneMore
    <2>3. ~Empty'
      BY <1>6, <1>7, <1>5, <1>4 DEF Empty, Continues
    <2> QED
      BY <2>2, <2>3, <1>2, <1>4, <1>5, <1>6, <1>7
  <1>8. CASE ~Continues(x)
    <2>1. Seen = start + (passes - 1) * step /\ ~Empty
      BY <1>1 DEF InPass
    <2>2. step > 0 => Promised = passes
      BY <1>4, <1>5, <1>8, <2>1, PromisedUp DEF Continues, Empty
    <2>3. step < 0 => Promised = passes
      BY <1>4, <1>5, <1>8, <2>1, PromisedDown DEF Continues, Empty
    <2> QED
      BY <2>2, <2>3, <1>2, <1>4, <1>8
  <1> QED
    BY <1>7, <1>8

LEMMA NextPassInv == LoopIInv /\ NextPass => LoopIInv'
  <1> SUFFICES ASSUME LoopIInv, NextPass PROVE LoopIInv'
    OBVIOUS
  <1>1. OneMore \in 0 .. Modulus
    BY Widths DEF LoopIInv, LoopTypeOK, OneMore
  <1>2. var' \in IF scope = "global" THEN Unsigned ELSE Signed
    <2>1. Seen + step \in Int /\ scope \in {"global", "local"} /\ scope' = scope
          /\ var' = Kept(Seen + step)
      BY SeenType, Widths DEF LoopIInv, LoopTypeOK, Signed, NextPass, header, NextSum
    <2> QED
      BY <2>1, SeenAgain
  <1>3. LoopTypeOK'
    BY <1>1, <1>2 DEF LoopIInv, LoopTypeOK, NextPass, header
  <1>4. LoopInv'
    <2> SUFFICES ASSUME Regular', ~assigned'
                 PROVE  /\ at' = "body" => InPass'
                        /\ at' = "left" /\ ~broken' => passes' = Promised'
      BY DEF LoopInv, NextPass
    <2>1. Regular /\ ~assigned /\ UNCHANGED <<start, limit, step, Promised>>
      BY DEF Regular, NextPass, header, Promised
    <2>2. ASSUME at' = "body" PROVE InPass'
      <3>1. passes' = passes + 1 /\ Seen' = start + passes * step /\ ~Empty' /\ passes >= 1
        BY <2>1, <2>2, NextPassCounts
      <3>2. passes \in Nat
        BY Widths DEF LoopIInv, LoopTypeOK
      <3>3. passes' - 1 = passes /\ passes' >= 1
        BY <3>1, <3>2
      <3> QED
        BY <3>1, <3>3, <2>1 DEF InPass
    <2> QED
      BY <2>1, <2>2, NextPassCounts
  <1> QED
    BY <1>3, <1>4 DEF LoopIInv

LEMMA StepInv == LoopIInv /\ [LoopNext]_loopVars => LoopIInv'
  <1>1. LoopIInv /\ UNCHANGED loopVars => LoopIInv'
    BY DEF LoopIInv, LoopTypeOK, LoopInv, InPass, Regular, Empty, Promised, Seen, loopVars, header
  <1> QED
    BY <1>1, CheckInv, BodyInv, NextPassInv DEF LoopNext, Instruction

LEMMA Invariance == LoopSpec => []LoopIInv
  BY InitInv, StepInv, PTL DEF LoopSpec

(* The loop variable is a 32-bit number of its kind, signed or unsigned,   *)
(* all the time.                                                           *)
THEOREM LoopTypeCorrect == LoopSpec => []LoopTypeOK
  BY Invariance, PTL DEF LoopIInv

(* A loop runs as often as its header says and its body sees the numbers   *)
(* the header says, for integers of any width, wherever the variable is    *)
(* kept.                                                                   *)
THEOREM CountCorrect == LoopSpec => []CountsRight
  <1>1. LoopIInv => CountsRight
    BY DEF LoopIInv, LoopInv, InPass, CountsRight
  <1> QED
    BY <1>1, Invariance, PTL
=============================================================================
