-------------------------------- MODULE Host --------------------------------
(***************************************************************************)
(* The host program (main of test/main.c): the loop that runs a compiled   *)
(* program in slices of cycles, lets it sleep and wake up, and answers its *)
(* external functions, among them the key-value stores.                    *)
(*                                                                         *)
(* Of the virtual machine (nc_run) there are the cycle counter and the     *)
(* parameter stack; a program is any sequence of instructions.  What it    *)
(* does inside its own stack frame is in VmCalls; how a store keeps its    *)
(* entries is in KvStore, here a store is the mapping that KvMap says.     *)
(***************************************************************************)
EXTENDS Integers, Sequences, FiniteSets, SequencesExt

CONSTANTS
  Budget,     \* the cycles of a slice, 5000
  ParamSlots, \* cfg_PARAMSTACK_SIZE
  MaxStores,  \* MAX_KVS_STORES
  MaxElem,    \* the largest store, 256 entries
  Values,     \* numbers that programs use
  MaxPending, \* bound: arguments of an outer call that wait
  HasOnCan,   \* the program has a function on_can
  Habits      \* what the programs do, of AllHabits

(* "nested":  cmd is called inside the arguments of another call;          *)
(* "clrline": clrline is called.                                           *)
AllHabits == {"nested", "clrline"}

(* cycles is a uint16_t.                                                   *)
MaxCycles == 65535

ASSUME HostAssumption ==
  /\ Budget \in 1 .. MaxCycles /\ ParamSlots \in Nat /\ MaxStores \in Nat
  /\ MaxElem \in Nat \ {0} /\ MaxPending \in Nat /\ MaxPending + 4 < ParamSlots
  /\ 0 \in Values /\ Values \subseteq Int
  /\ HasOnCan \in BOOLEAN /\ Habits \subseteq AllHabits

VARIABLES
  at,     \* where the host is
  res,    \* what nc_run has returned
  cycles, \* the cycles that are left, as the host sees them
  left,   \* nc_run: its copy of cycles
  wait,   \* seconds until timeout
  params, \* the parameter stack
  stores, \* kvs_stores: the stores at the indexes that are not NULL
  spent,  \* history: instructions in this slice
  book    \* history: the stores as the program has made and filled them

machine == <<left, params>>
vars    == <<at, res, cycles, left, wait, params, stores, spent, book>>

Final  == {"end", "error", "break"}   \* below NB_BUSY

(* The functions and the number of their arguments; the compiler adds the  *)
(* ones that are left out.                                                 *)
Arity == [setcur |-> 2, clrscr |-> 0, clrline |-> 1, time |-> 0, sleep |-> 1,
          input |-> 1, input_str |-> 1, cmd |-> 3, sgn |-> 1, kvs_create |-> 2,
          kvs_set |-> 3, kvs_get |-> 2, fire_on_can |-> 4, payload |-> 3]
XFuncs == DOMAIN Arity

Ids  == 0 .. MaxStores - 1

Init ==
  /\ at = "outer" /\ res = "busy" /\ cycles = 0 /\ left = 0 /\ wait = 0
  /\ params = <<>> /\ stores = [i \in {} |-> 0]
  /\ spent = 0 /\ book = [i \in {} |-> 0]

-----------------------------------------------------------------------------
(* The loops of main.                                                      *)
Outer ==
  /\ at = "outer"
  /\ \/ res \notin Final /\ cycles' = Budget /\ at' = "inner" /\ spent' = 0
     \/ res \in Final /\ at' = "done" /\ UNCHANGED <<cycles, spent>>
  /\ UNCHANGED <<res, left, wait, params, stores, book>>

(* Mutants: nc_run is called without cycles; or not again after a call.    *)
MutantNoCycles == res \notin Final /\ wait = 0
MutantBusyOnly == cycles > 0 /\ res = "busy" /\ wait = 0

MayRun == cycles > 0 /\ res \notin Final /\ wait = 0

(* nc_run is called with the cycles that are left, or msleep.              *)
Inner ==
  /\ at = "inner"
  /\ \/ MayRun /\ at' = "vm" /\ left' = cycles
     \/ ~MayRun /\ at' = "pause" /\ left' = left
  /\ UNCHANGED <<res, cycles, wait, params, stores, spent, book>>

Pause ==
  /\ at = "pause" /\ at' = "outer"
  /\ UNCHANGED <<res, cycles, left, wait, params, stores, spent, book>>

(* The clock comes a second closer to timeout.                             *)
Tick ==
  /\ wait > 0 /\ wait' = wait - 1
  /\ UNCHANGED <<at, res, cycles, left, params, stores, spent, book>>

-----------------------------------------------------------------------------
(* nc_run: while(cycles-- > 1), in sixteen bits.                           *)
Minus1(c) == IF c = 0 THEN MaxCycles ELSE c - 1

(* Mutant: RETURN_VM leaves the counter of the host as it is.              *)
MutantReturned(c) == cycles

(* RETURN_VM: what the host finds in cycles.                               *)
Returned(c) == c

(* An instruction that goes on, with the parameter stack p after it.       *)
Instruction(p) ==
  /\ at = "vm" /\ left > 1
  /\ left' = Minus1(left) /\ spent' = spent + 1
  /\ params' = p
  /\ UNCHANGED <<at, res, cycles, wait, stores, book>>

Compute   == Instruction(params)
PushParam == /\ Len(params) < MaxPending + 4
             /\ \E v \in Values : Instruction(Append(params, v))
PopParam  == params # <<>> /\ Instruction(Front(params))

(* An instruction that returns to the host.                                *)
Stops(r, p) ==
  /\ at = "vm" /\ left > 1
  /\ left' = Minus1(left) /\ spent' = spent + 1
  /\ cycles' = Returned(left')
  /\ res' = r /\ params' = p
  /\ at' = IF r \in XFuncs \cup {"break"} THEN "call" ELSE "inner"
  /\ UNCHANGED <<wait, stores, book>>

Ends  == \E r \in {"end", "error", "reti"} : Stops(r, params)
Break == Stops("break", Append(params, 0))   \* with the line

XFunc(x) ==
  /\ Len(params) \in Arity[x] .. Arity[x] + MaxPending
  /\ x = "cmd" /\ Len(params) > Arity[x] => "nested" \in Habits
  /\ x = "clrline" => "clrline" \in Habits
  /\ Stops(x, params)

(* No cycle is left.                                                       *)
Busy ==
  /\ at = "vm" /\ left <= 1
  /\ left' = Minus1(left)
  /\ cycles' = Returned(left') /\ res' = "busy" /\ at' = "inner"
  /\ UNCHANGED <<wait, params, stores, spent, book>>

-----------------------------------------------------------------------------
(* nc_pop_num, n times, and nc_push_num.                                   *)
Popped(p, n) == SubSeq(p, 1, Len(p) - n)
PushNum(p, v) == IF Len(p) < ParamSlots THEN Append(p, v) ELSE p

(* The n-th argument of the function that is called.                       *)
Args   == SubSeq(params, Len(params) - Arity[res] + 1, Len(params))
Arg(n) == Args[n]

Back(p) ==
  /\ at' = "inner" /\ params' = p
  /\ UNCHANGED <<res, cycles, left, spent>>
Called(x) == at = "call" /\ res = x
Nothing   == UNCHANGED <<wait, stores>>

SetCur    == Called("setcur") /\ Back(Popped(params, 2)) /\ Nothing
Clear     == at = "call" /\ res \in {"clrscr", "clrline"} /\ Back(params) /\ Nothing
Time      == /\ Called("time") /\ Nothing
             /\ \E v \in Values : Back(PushNum(params, v))
Sleep     == /\ Called("sleep") /\ Back(Popped(params, 1))
             /\ wait' = IF Arg(1) > 0 THEN Arg(1) ELSE 0
             /\ UNCHANGED stores
Input     == /\ at = "call" /\ res \in {"input", "input_str"} /\ Nothing
             /\ \E v \in Values : Back(PushNum(Popped(params, 1), v))
Cmd       == /\ Called("cmd") /\ Nothing
             /\ Back(IF Len(params) = Arity.cmd THEN PushNum(Popped(params, 3), -1)
                     ELSE PushNum(params, -3))
Sgn       == /\ Called("sgn") /\ Nothing
             /\ Back(PushNum(Popped(params, 1),
                  IF Arg(1) > 0 THEN 1 ELSE IF Arg(1) < 0 THEN -1 ELSE 0))
Payload   == Called("payload") /\ Back(Popped(params, 3)) /\ Nothing
AtBreak   == Called("break") /\ Back(Popped(params, 1)) /\ Nothing

(* The handler starts with the four values, or there is a warning.         *)
OnCan ==
  /\ Called("fire_on_can") /\ Nothing
  /\ Back(IF HasOnCan THEN Popped(params, 4) \o Args ELSE Popped(params, 4))

-----------------------------------------------------------------------------
(* Key-value stores.                                                       *)
Clip(n)    == IF n > MaxElem THEN MaxElem ELSE IF n < 1 THEN 1 ELSE n
New(n, d)  == [cap |-> Clip(n), dflt |-> d, map |-> [k \in {} |-> 0]]
Keys(s)    == DOMAIN s.map
Room(s, k) == k \in Keys(s) \/ Cardinality(Keys(s)) < s.cap
Put(s, k, v) == IF Room(s, k)
                THEN [s EXCEPT !.map = [q \in Keys(s) \cup {k} |->
                                          IF q = k THEN v ELSE s.map[q]]]
                ELSE s
Value(s, k)  == IF k \in Keys(s) THEN s.map[k] ELSE s.dflt
Exists(id)   == id \in Ids /\ id \in DOMAIN stores

(* Mutant: the slots are not looked at.                                    *)
MutantFree == Ids

Free == Ids \ DOMAIN stores
Slot == CHOOSE i \in Free : \A j \in Free : i <= j

Create ==
  /\ Called("kvs_create") /\ UNCHANGED wait
  /\ \/ /\ Free # {}
        /\ stores' = [i \in DOMAIN stores \cup {Slot} |->
                        IF i = Slot THEN New(Arg(1), Arg(2)) ELSE stores[i]]
        /\ Back(PushNum(Popped(params, 2), Slot))
     \/ Free = {} /\ Back(PushNum(Popped(params, 2), -1)) /\ UNCHANGED stores

Set ==
  /\ Called("kvs_set") /\ UNCHANGED wait
  /\ Back(Popped(params, 3))
  /\ stores' = IF Exists(Arg(1))
               THEN [stores EXCEPT ![Arg(1)] = Put(@, Arg(2), Arg(3))] ELSE stores

Get ==
  /\ Called("kvs_get") /\ Nothing
  /\ Back(PushNum(Popped(params, 2),
       IF Exists(Arg(1)) THEN Value(stores[Arg(1)], Arg(2)) ELSE 0))

(* History: what the program may take its stores for.                      *)
Known(id) == id \in DOMAIN book
Noted ==
  book' = CASE res = "kvs_create" /\ Last(params') \in Ids ->
                 [i \in DOMAIN book \cup {Last(params')} |->
                    IF i = Last(params') THEN New(Arg(1), Arg(2)) ELSE book[i]]
            [] res = "kvs_set" /\ Known(Arg(1)) ->
                 [book EXCEPT ![Arg(1)] = Put(@, Arg(2), Arg(3))]
            [] OTHER -> book

Stores == Create \/ Set \/ Get
Calls  == SetCur \/ Clear \/ Time \/ Sleep \/ Input \/ Cmd \/ Sgn \/ Payload
          \/ AtBreak \/ OnCan \/ Stores
Answer == Calls /\ Noted
Run    == Compute \/ PushParam \/ PopParam \/ Ends \/ Break \/ Busy
          \/ \E x \in XFuncs : XFunc(x)
Loops  == Outer \/ Inner \/ Pause

Next == Loops \/ Run \/ Answer \/ Tick

(* The host is a process, and time passes.                                 *)
Spec == Init /\ [][Next]_vars /\ WF_vars(Loops \/ Run \/ Answer) /\ WF_vars(Tick)

-----------------------------------------------------------------------------
Numbers == Values \cup Ids \cup {-3, -1, 0, 1}
IsDict(s) == /\ s.cap \in 1 .. MaxElem /\ s.dflt \in Numbers
             /\ Keys(s) \subseteq Numbers /\ s.map \in [Keys(s) -> Numbers]
             /\ Cardinality(Keys(s)) <= s.cap

TypeOK ==
  /\ at \in {"outer", "inner", "vm", "call", "pause", "done"}
  /\ res \in XFuncs \cup Final \cup {"busy", "reti"}
  /\ cycles \in 0 .. Budget /\ left \in 0 .. Budget /\ wait \in Nat
  /\ params \in Seq(Numbers) /\ Len(params) <= ParamSlots
  /\ DOMAIN stores \subseteq Ids /\ \A i \in DOMAIN stores : IsDict(stores[i])

(* The program cannot keep the processor: however its instructions and     *)
(* calls are mixed, it executes less instructions than the budget between  *)
(* two pauses of the host, whichever of the two counters is looked at.     *)
SliceBounded == spent < Budget

(* What a function gives back for its arguments, as its declaration and    *)
(* the program's own record of its stores say.                             *)
Promised(x, a) ==
  CASE x \in {"setcur", "clrscr", "clrline", "sleep", "kvs_set", "payload"} -> {<<>>}
    [] x \in {"time", "input", "input_str"} -> {<<v>> : v \in Values}
    [] x = "cmd" -> {<<-1>>}
    [] x = "sgn" -> {<<v>> : v \in {w \in {-1, 0, 1} : w * a[1] >= 0 /\ (w = 0 <=> a[1] = 0)}}
    [] x = "fire_on_can" -> {IF HasOnCan THEN a ELSE <<>>}
    [] x = "kvs_create" -> IF DOMAIN book = Ids THEN {<<-1>>}
                           ELSE {<<i>> : i \in Ids \ DOMAIN book}
    [] x = "kvs_get" -> {<<IF Known(a[1]) THEN Value(book[a[1]], a[2]) ELSE 0>>}

(* Every external function takes its arguments, all of them and none of an *)
(* outer call's, and leaves its result; a store is not given out twice, and*)
(* gives back what the program has put into this one.                      *)
CallsAnswered ==
  [][at = "call" /\ at' = "inner" /\ res \in XFuncs =>
       \E r \in Promised(res, Args) : params' = Popped(params, Arity[res]) \o r]_vars

(* A program that sleeps, has used up its cycles or waits for an answer    *)
(* runs on; only the end, an error or breakpoint() stops it, and then the  *)
(* host ends.                                                              *)
RunsOn == /\ []<>(at = "vm" \/ (at = "done" /\ res \in {"end", "error", "break"}))
          /\ res \in {"end", "error", "break"} ~> at = "done"
=============================================================================
