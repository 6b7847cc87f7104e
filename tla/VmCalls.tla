------------------------------ MODULE VmCalls -------------------------------
(***************************************************************************)
(* The data stack and the parameter stack of the virtual machine: calls,   *)
(* stack frames, for loops, arguments and return values (nc_run), external *)
(* functions and event handlers (the host program of test/main.c).         *)
(*                                                                         *)
(* One data stack holds, for each activation, the return address, the old  *)
(* frame pointer, the local variables, two values per open for loop, and   *)
(* the temporaries of an expression.  The instructions find them by sp and *)
(* fp alone.  Arguments and results go through a second stack.             *)
(*                                                                         *)
(* A code address is modelled by what the compiler knows at that place: the*)
(* function, its open loops, and the temporaries and arguments that belong *)
(* to the statement so far.  A program is any path through such places     *)
(* that the compiler's statements and expressions allow.                   *)
(***************************************************************************)
EXTENDS Integers, Sequences, SequencesExt

CONSTANTS
  StackSize,       \* cfg_STACK_SIZE
  ParamStackSize,  \* cfg_PARAMSTACK_SIZE
  MaxForLoops,     \* cfg_MAX_FOR_LOOPS
  Main, Funcs,     \* the main program; its functions
  Params,          \* number of parameters of a function
  Locals,          \* size of its frame: parameters and local variables
  Valued,          \* functions with a return type
  Handler,         \* the event handler, on_can
  XFuncs,          \* external functions
  XArgs,           \* number of their arguments
  XValued,         \* those with a result
  Fire,            \* the one that starts the handler, fire_on_can
  Values, Stale,   \* numbers; what is left where nothing has been stored
  MaxTemps,        \* bound: temporaries of one statement
  MaxArgs,         \* bound: pending arguments of one statement
  Habits           \* what the programs do, of AllHabits

(* "deep":  calls and expressions need more than the data stack;           *)
(* "args":  pending arguments need more than the parameter stack;          *)
(* "arity": a function is called with more arguments than it has parameters*)
(*          (the compiler counts them only if the function is complete);   *)
(* "few":   with fewer arguments, or with parameters by a dispatch;        *)
(* "event": the handler has fewer parameters than the host passes to it;   *)
(* "reti":  reti stands in the main program or in a function with a value. *)
AllHabits == {"deep", "args", "arity", "few", "event", "reti"}

ASSUME CallsAssumption ==
  /\ StackSize \in Nat \ {0} /\ ParamStackSize \in Nat \ {0}
  /\ MaxForLoops \in Nat /\ MaxTemps \in Nat /\ MaxArgs \in Nat
  /\ Main \notin Funcs
  /\ Params \in [Funcs -> 0 .. MaxArgs]
  /\ Locals \in [Funcs -> Nat]
  /\ \A f \in Funcs : Params[f] <= Locals[f]
  /\ Valued \subseteq Funcs /\ Handler \in Funcs
  /\ XArgs \in [XFuncs -> 0 .. MaxArgs]
  /\ XValued \subseteq XFuncs /\ Fire \in XFuncs \ XValued
  /\ 0 \in Values /\ Stale \notin Values
  /\ Params[Handler] <= XArgs[Fire] /\ XArgs[Fire] <= ParamStackSize
  /\ Params[Handler] < XArgs[Fire] => "event" \in Habits
  /\ Habits \subseteq AllHabits
  /\ {"busy", "error", "end"} \cap XFuncs = {}

VARIABLES
  pc, sp, fp, stack,
  psp, paramstack,
  ret_val,
  nested_loop_idx,
  res,    \* what nc_run has returned last: "busy", "error", "end", or the
          \* external function it asks the host to call
  acts    \* history: where the activations that wait will go on

registers == <<pc, sp, fp, psp, ret_val, nested_loop_idx, res>>
vars      == <<registers, stack, paramstack, acts>>

-----------------------------------------------------------------------------
(* Places in the code.  at: "enter": before ENTER; "params": before PARAM; *)
(* "local": before the POP_LOCAL that follows it; "code": elsewhere;       *)
(* "ret": before PUSH_RET; "xparam", "xpop": before the PARAM or POP that  *)
(* follows an external function.  header: between for and its body.        *)
Place == [fn : Funcs \cup {Main}, at : {"enter", "params", "local", "code",
                                        "ret", "xparam", "xpop"},
          loops : 0 .. MaxForLoops, header : BOOLEAN,
          temps : 0 .. MaxTemps, args : 0 .. MaxArgs]

Start    == [fn |-> Main, at |-> "code", loops |-> 0, header |-> FALSE,
             temps |-> 0, args |-> 0]
Entry(f) == [Start EXCEPT !.fn = f, !.at = "enter", !.args = Params[f]]

(* Between two statements, with n temporaries.                             *)
Statement(n) == pc.at = "code" /\ ~pc.header /\ pc.temps = n /\ pc.args = 0

FrameSize(f) == IF f = Main THEN 0 ELSE Locals[f]

-----------------------------------------------------------------------------
(* The stacks.  A cell of the data stack is a number, a saved frame        *)
(* pointer or a return address; the code does not tell them apart.  What   *)
(* has been popped is of no interest.                                      *)
Num(v)  == [num |-> v]
Link(f) == [link |-> f]
Ret(p)  == [ret |-> p]
Numbers == [num : Values \cup {Stale}]
Cells   == Numbers \cup [link : Nat] \cup [ret : Place]

(* A cell taken for what it is not: some other number, or place.           *)
AsNum(c)  == IF c \in Numbers THEN c.num ELSE Stale
AsLink(c) == IF c \in [link : Nat] THEN c.link ELSE 0
AsRet(c)  == IF c \in [ret : Place] THEN c.ret ELSE Start

Slots      == 0 .. StackSize - 1
Slot(n)    == n % StackSize
ParamSlots == 0 .. ParamStackSize - 1
ParamSlot(n) == n % ParamStackSize

Top(n)       == stack[Slot(sp - n)]
Push(c)      == stack' = [stack EXCEPT ![Slot(sp)] = c] /\ sp' = sp + 1
Dropped(lo)  == [c \in Slots |-> IF \E n \in lo .. sp - 1 : Slot(n) = c
                                 THEN Num(Stale) ELSE stack[c]]
Drop(n)      == stack' = Dropped(sp - n) /\ sp' = sp - n
Fits(n)      == sp + n <= StackSize \/ "deep" \in Habits
ParamsFit(n) == psp + n <= ParamStackSize \/ "args" \in Habits

Init ==
  /\ pc = Start /\ sp = 0 /\ fp = 0 /\ psp = 0
  /\ ret_val = 0 /\ nested_loop_idx = 0
  /\ stack = [c \in Slots |-> Num(0)]
  /\ paramstack = [c \in ParamSlots |-> 0]
  /\ res = "busy"
  /\ acts = <<>>

(* The next instruction stands at such a place; it goes on to p.           *)
At(place) == res = "busy" /\ pc.at = place
Go(p)     == pc' = p

-----------------------------------------------------------------------------
(* PUSH_NUM, PUSH_VAR, PUSH_STR and the like; PUSH_LOCAL.                  *)
PushValue(v) ==
  /\ At("code") /\ pc.temps < MaxTemps /\ Fits(1)
  /\ Push(Num(v))
  /\ Go([pc EXCEPT !.temps = @ + 1])
  /\ UNCHANGED <<fp, psp, paramstack, ret_val, nested_loop_idx, res, acts>>

PushLocal(i) ==
  /\ i < FrameSize(pc.fn)
  /\ At("code") /\ pc.temps < MaxTemps /\ Fits(1)
  /\ Push(stack[fp + i])
  /\ Go([pc EXCEPT !.temps = @ + 1])
  /\ UNCHANGED <<fp, psp, paramstack, ret_val, nested_loop_idx, res, acts>>

(* The binary operators: tmp2 = POP(); TOP() = TOP() op tmp2.  (Unary ones *)
(* change a value that can be any value already.)                          *)
Operator(v) ==
  /\ At("code") /\ pc.temps >= 2
  /\ stack' = [Dropped(sp - 1) EXCEPT ![Slot(sp - 2)] = Num(v)]
  /\ sp' = sp - 1
  /\ Go([pc EXCEPT !.temps = @ - 1])
  /\ UNCHANGED <<fp, psp, paramstack, ret_val, nested_loop_idx, res, acts>>

(* POP_VAR, IF, and the index of a dispatch that is out of range; in the   *)
(* header of a for loop the start value of its variable.                   *)
PopValue ==
  /\ At("code") /\ pc.temps = 1 /\ pc.args = 0
  /\ Drop(1)
  /\ Go([pc EXCEPT !.temps = 0])
  /\ UNCHANGED <<fp, psp, paramstack, ret_val, nested_loop_idx, res, acts>>

PopLocal(i) ==
  /\ i < FrameSize(pc.fn)
  /\ At("code") /\ pc.temps = 1 /\ pc.args = 0
  /\ stack' = [Dropped(sp - 1) EXCEPT ![fp + i] = Top(1)]
  /\ sp' = sp - 1
  /\ Go([pc EXCEPT !.temps = 0])
  /\ UNCHANGED <<fp, psp, paramstack, ret_val, nested_loop_idx, res, acts>>

(* INC_LOCAL, DEC_LOCAL, and NEXT_LOCAL when it goes back to the body.     *)
StepLocal(i, v) ==
  /\ i < FrameSize(pc.fn)
  /\ res = "busy" /\ Statement(0)
  /\ stack' = [stack EXCEPT ![fp + i] = Num(v)]
  /\ UNCHANGED <<registers, paramstack, acts>>

-----------------------------------------------------------------------------
(* for loops: FOR; then the end value and the step are pushed; FOR_CHECK   *)
(* enters the body or skips it; NEXT, when the loop is over, and BREAK_FOR *)
(* remove the two values.  Which way a check goes is up to the data.       *)
For ==
  /\ res = "busy" /\ Statement(0)
  /\ nested_loop_idx < MaxForLoops
  /\ nested_loop_idx' = nested_loop_idx + 1
  /\ Go([pc EXCEPT !.header = TRUE])
  /\ UNCHANGED <<sp, fp, stack, psp, paramstack, ret_val, res, acts>>

TooManyLoops ==
  /\ res = "busy" /\ Statement(0)
  /\ nested_loop_idx >= MaxForLoops
  /\ nested_loop_idx' = nested_loop_idx + 1
  /\ res' = "error"
  /\ UNCHANGED <<pc, sp, fp, stack, psp, paramstack, ret_val, acts>>

ForBody ==
  /\ At("code") /\ pc.header /\ pc.temps = 2 /\ pc.args = 0
  /\ Go([pc EXCEPT !.header = FALSE, !.temps = 0, !.loops = @ + 1])
  /\ UNCHANGED <<sp, fp, stack, psp, paramstack, ret_val, nested_loop_idx,
                 res, acts>>
(* Mutant of ForSkip: the end value and the step stay on the stack.         *)
ForSkipKeeps ==
  /\ At("code") /\ pc.header /\ pc.temps = 2 /\ pc.args = 0
  /\ nested_loop_idx' = nested_loop_idx - 1
  /\ Go([pc EXCEPT !.header = FALSE, !.temps = 0])
  /\ UNCHANGED <<sp, fp, stack, psp, paramstack, ret_val, res, acts>>

ForSkip ==
  /\ At("code") /\ pc.header /\ pc.temps = 2 /\ pc.args = 0
  /\ Drop(2)
  /\ nested_loop_idx' = nested_loop_idx - 1
  /\ Go([pc EXCEPT !.header = FALSE, !.temps = 0])
  /\ UNCHANGED <<fp, psp, paramstack, ret_val, res, acts>>

LoopEnd ==
  /\ res = "busy" /\ Statement(0) /\ pc.loops > 0
  /\ Drop(2)
  /\ nested_loop_idx' = nested_loop_idx - 1
  /\ Go([pc EXCEPT !.loops = @ - 1])
  /\ UNCHANGED <<fp, psp, paramstack, ret_val, res, acts>>

-----------------------------------------------------------------------------
(* PUSH_PARAM; it does not check whether there is room.                    *)
PushParam ==
  /\ At("code") /\ pc.temps > 0 /\ pc.args < MaxArgs /\ ParamsFit(1)
  /\ paramstack' = [paramstack EXCEPT ![ParamSlot(psp)] = AsNum(Top(1))]
  /\ psp' = psp + 1
  /\ Drop(1)
  /\ Go([pc EXCEPT !.temps = @ - 1, !.args = @ + 1])
  /\ UNCHANGED <<fp, ret_val, nested_loop_idx, res, acts>>

PopParams(n) == [c \in ParamSlots |-> IF \E k \in psp - n .. psp - 1 : ParamSlot(k) = c
                                      THEN Stale ELSE paramstack[c]]

(* The caller will go on at p; n arguments and d temporaries will be gone. *)
Suspend(p, n, d) ==
  acts' = Append(acts, [pc |-> p, fp |-> fp, sp |-> sp - d, psp |-> psp - n,
                        loops |-> nested_loop_idx])

(* GOSUB: a call with n arguments, in an expression (its value is wanted)  *)
(* or as a statement.                                                      *)
Callable(f, n, wanted) ==
  /\ At("code") /\ pc.args >= n
  /\ Params[f] < n => "arity" \in Habits
  /\ Params[f] > n => "few" \in Habits
  /\ IF wanted THEN f \in Valued /\ pc.temps < MaxTemps
               ELSE ~pc.header /\ pc.temps = 0 /\ pc.args = n
(* Mutant of Gosub: the stack is not checked.                               *)
GosubUnchecked(f, n, wanted) ==
  LET back == [pc EXCEPT !.args = @ - n, !.at = IF wanted THEN "ret" ELSE "code"]
  IN  /\ Callable(f, n, wanted)
      /\ Push(Ret(back))
      /\ Suspend(back, n, 0)
      /\ Go(Entry(f))
      /\ UNCHANGED <<fp, psp, paramstack, ret_val, nested_loop_idx, res>>

Gosub(f, n, wanted) ==
  LET back == [pc EXCEPT !.args = @ - n, !.at = IF wanted THEN "ret" ELSE "code"]
  IN  /\ Callable(f, n, wanted)
      /\ sp < StackSize
      /\ Push(Ret(back))
      /\ Suspend(back, n, 0)
      /\ Go(Entry(f))
      /\ UNCHANGED <<fp, psp, paramstack, ret_val, nested_loop_idx, res>>

(* "Error: Call stack overflow", of GOSUB, or of DISPATCH when the index   *)
(* has been popped.                                                        *)
AtCall(d) ==
  IF d = 1 THEN res = "busy" /\ Statement(1)
  ELSE \E f \in Funcs, n \in 0 .. MaxArgs, wanted \in BOOLEAN : Callable(f, n, wanted)

StackOverflow(d) ==
  /\ AtCall(d)
  /\ sp - d >= StackSize
  /\ Drop(d)
  /\ res' = "error"
  /\ UNCHANGED <<pc, fp, psp, paramstack, ret_val, nested_loop_idx, acts>>

(* DISPATCH: the index is popped, and a function is called.                *)
Dispatch(f) ==
  LET back == [pc EXCEPT !.temps = 0]
  IN  /\ res = "busy" /\ Statement(1)
      /\ Params[f] > 0 => "few" \in Habits
      /\ sp - 1 < StackSize
      /\ stack' = [stack EXCEPT ![Slot(sp - 1)] = Ret(back)]
      /\ Suspend(back, 0, 1)
      /\ Go(Entry(f))
      /\ UNCHANGED <<sp, fp, psp, paramstack, ret_val, nested_loop_idx, res>>

(* ENTER: only the cells of local variables are addressed without modulo,  *)
(* so they have to lie inside the stack in any case.                       *)
Enter ==
  LET size == Locals[pc.fn]
  IN  /\ At("enter")
      /\ Fits(1 + size)
      /\ size > 0 => sp + 1 + size <= StackSize
      /\ stack' = [stack EXCEPT ![Slot(sp)] = Link(fp)]
      /\ fp' = sp + 1
      /\ sp' = sp + 1 + size
      /\ Go([pc EXCEPT !.at = IF pc.args > 0 THEN "params" ELSE "code"])
      /\ UNCHANGED <<psp, paramstack, ret_val, nested_loop_idx, res, acts>>

(* PARAM and POP_LOCAL, for each parameter, the last one first.            *)
Param ==
  /\ At("params") /\ Fits(1)
  /\ Push(Num(IF psp > 0 THEN paramstack[ParamSlot(psp - 1)] ELSE 0))
  /\ IF psp > 0 THEN psp' = psp - 1 /\ paramstack' = PopParams(1)
                ELSE UNCHANGED <<psp, paramstack>>
  /\ Go([pc EXCEPT !.at = "local", !.args = @ - 1])
  /\ UNCHANGED <<fp, ret_val, nested_loop_idx, res, acts>>

PopParam ==
  /\ At("local")
  /\ stack' = [Dropped(sp - 1) EXCEPT ![fp + pc.args] = Top(1)]
  /\ sp' = sp - 1
  /\ Go([pc EXCEPT !.at = IF pc.args > 0 THEN "params" ELSE "code"])
  /\ UNCHANGED <<fp, psp, paramstack, ret_val, nested_loop_idx, res, acts>>

-----------------------------------------------------------------------------
(* sp = fp; fp = POP(); pc = POP()                                         *)
Unwind ==
  /\ stack' = Dropped(fp - 2)
  /\ sp' = fp - 2
  /\ fp' = AsLink(stack[Slot(fp - 1)])
  /\ pc' = AsRet(stack[Slot(fp - 2)])
  /\ acts' = Front(acts)

(* Mutants of Leave: no FOR_LEAVE; the value is taken when sp = fp already. *)
LeaveLoopsOpen ==
  /\ res = "busy" /\ pc.fn # Main
  /\ Statement(IF pc.fn \in Valued THEN 1 ELSE 0)
  /\ ret_val' = IF sp > fp THEN AsNum(Top(1)) ELSE ret_val
  /\ Unwind
  /\ UNCHANGED <<psp, paramstack, nested_loop_idx, res>>

LeaveTooLate ==
  /\ res = "busy" /\ pc.fn # Main
  /\ Statement(IF pc.fn \in Valued THEN 1 ELSE 0)
  /\ nested_loop_idx' = nested_loop_idx - pc.loops
  /\ ret_val' = AsNum(stack[Slot(fp - 1)])
  /\ Unwind
  /\ UNCHANGED <<psp, paramstack, res>>

(* return, and the end of the function: FOR_LEAVE for the loops that are   *)
(* still open, then LEAVE.                                                 *)
Leave ==
  /\ res = "busy" /\ pc.fn # Main
  /\ Statement(IF pc.fn \in Valued THEN 1 ELSE 0)
  /\ nested_loop_idx' = nested_loop_idx - pc.loops
  /\ ret_val' = IF sp > fp THEN AsNum(Top(1)) ELSE ret_val
  /\ Unwind
  /\ UNCHANGED <<psp, paramstack, res>>

(* reti: FOR_LEAVE, then RETI, which takes no value to ret_val.  nc_run     *)
(* returns NB_RETI; the host calls it again.                               *)
Reti ==
  /\ res = "busy"
  /\ pc.fn \in Funcs \ Valued \/ "reti" \in Habits
  /\ Statement(0)
  /\ nested_loop_idx' = nested_loop_idx - pc.loops
  /\ Unwind
  /\ UNCHANGED <<psp, paramstack, ret_val, res>>

PushRet ==
  /\ At("ret") /\ Fits(1)
  /\ Push(Num(ret_val))
  /\ Go([pc EXCEPT !.at = "code", !.temps = @ + 1])
  /\ UNCHANGED <<fp, psp, paramstack, ret_val, nested_loop_idx, res, acts>>

-----------------------------------------------------------------------------
(* XFUNC: nc_run returns the number of an external function.  What follows *)
(* is a PARAM in an expression, a POP in a statement, or nothing if the    *)
(* function has no result.                                                 *)
XFunc(x, at) ==
  /\ At("code") /\ pc.args >= XArgs[x]
  /\ at = "xparam" => x \in XValued /\ pc.temps < MaxTemps
  /\ at = "xpop"   => x \in XValued
  /\ at = "code"   => x \notin XValued
  /\ at # "xparam" => ~pc.header /\ pc.temps = 0 /\ pc.args = XArgs[x]
  /\ x \in XValued => pc.args - XArgs[x] < MaxArgs /\ ParamsFit(1 - XArgs[x])
  /\ res' = x
  /\ Go([pc EXCEPT !.at = at, !.args = @ - XArgs[x] + (IF x \in XValued THEN 1 ELSE 0)])
  /\ UNCHANGED <<sp, fp, stack, psp, paramstack, ret_val, nested_loop_idx, acts>>

Larger(m, n) == IF m > n THEN m ELSE n

(* The host pops the arguments (nc_pop_num, which pops nothing from an     *)
(* empty stack) and pushes the result, if there is room (nc_push_num).     *)
HostAnswer(x, v) ==
  LET left == Larger(0, psp - XArgs[x])
  IN  /\ res = x
      /\ IF x \in XValued /\ left < ParamStackSize
         THEN /\ psp' = left + 1
              /\ paramstack' = [PopParams(XArgs[x]) EXCEPT ![ParamSlot(left)] = v]
         ELSE /\ psp' = left
              /\ paramstack' = PopParams(XArgs[x])
      /\ res' = "busy"
      /\ UNCHANGED <<pc, sp, fp, stack, ret_val, nested_loop_idx, acts>>

(* fire_on_can: the host pops the arguments (0 for one that is missing),   *)
(* calls nc_set_pc, and pushes them in the same order for the handler, as  *)
(* far as there is room.                                                   *)
Repushed ==
  LET missing == XArgs[Fire] - psp
  IN  IF missing <= 0 THEN paramstack
      ELSE [c \in ParamSlots |-> IF c < missing THEN 0 ELSE paramstack[c - missing]]

HostFire ==
  /\ res = Fire /\ Fits(1)
  /\ Push(Ret(pc))
  /\ Suspend(pc, XArgs[Fire], 0)
  /\ psp' = IF psp <= ParamStackSize THEN Larger(psp, XArgs[Fire])
            ELSE Larger(ParamStackSize, psp - XArgs[Fire])
  /\ paramstack' = Repushed
  /\ Go(Entry(Handler))
  /\ res' = "busy"
  /\ UNCHANGED <<fp, ret_val, nested_loop_idx>>

(* PARAM in an expression; POP, which throws the result away.              *)
XParam ==
  /\ At("xparam") /\ Fits(1)
  /\ Push(Num(IF psp > 0 THEN paramstack[ParamSlot(psp - 1)] ELSE 0))
  /\ IF psp > 0 THEN psp' = psp - 1 /\ paramstack' = PopParams(1)
                ELSE UNCHANGED <<psp, paramstack>>
  /\ Go([pc EXCEPT !.at = "code", !.temps = @ + 1, !.args = @ - 1])
  /\ UNCHANGED <<fp, ret_val, nested_loop_idx, res, acts>>
(* Mutant of XPop: the result stays on the parameter stack.                 *)
XPopNothing ==
  /\ At("xpop")
  /\ Go([pc EXCEPT !.at = "code", !.args = @ - 1])
  /\ UNCHANGED <<sp, fp, stack, psp, paramstack, ret_val, nested_loop_idx, res, acts>>

XPop ==
  /\ At("xpop")
  /\ IF psp > 0 THEN psp' = psp - 1 /\ paramstack' = PopParams(1)
                ELSE UNCHANGED <<psp, paramstack>>
  /\ Go([pc EXCEPT !.at = "code", !.args = @ - 1])
  /\ UNCHANGED <<sp, fp, stack, ret_val, nested_loop_idx, res, acts>>

(* END; nc_reset.                                                          *)
End ==
  /\ res = "busy" /\ Statement(0)
  /\ res' = "end"
  /\ UNCHANGED <<pc, sp, fp, stack, psp, paramstack, ret_val, nested_loop_idx, acts>>

Reset ==
  /\ pc' = Start /\ sp' = 0 /\ fp' = 0 /\ psp' = 0
  /\ ret_val' = 0 /\ nested_loop_idx' = 0
  /\ stack' = [c \in Slots |-> Num(0)]
  /\ paramstack' = [c \in ParamSlots |-> 0]
  /\ res' = "busy"
  /\ acts' = <<>>

-----------------------------------------------------------------------------
Expression ==
  \/ \E v \in Values : PushValue(v) \/ Operator(v)
  \/ \E i \in 0 .. FrameSize(pc.fn) - 1 : PushLocal(i)
  \/ PushParam \/ PushRet \/ XParam \/ XPop

Assignment ==
  \/ PopValue
  \/ \E i \in 0 .. FrameSize(pc.fn) - 1 :
        PopLocal(i) \/ \E v \in Values : StepLocal(i, v)

Loop == For \/ TooManyLoops \/ ForBody \/ ForSkip \/ LoopEnd

Call ==
  \/ \E f \in Funcs, n \in 0 .. MaxArgs, wanted \in BOOLEAN : Gosub(f, n, wanted)
  \/ \E d \in {0, 1} : StackOverflow(d)
  \/ \E f \in Funcs : Dispatch(f)
  \/ Enter \/ Param \/ PopParam \/ Leave \/ Reti

Host ==
  \/ \E x \in XFuncs, at \in {"xparam", "xpop", "code"} : XFunc(x, at)
  \/ \E x \in XFuncs, v \in Values : HostAnswer(x, v)
  \/ HostFire \/ End \/ Reset

Next == Expression \/ Assignment \/ Loop \/ Call \/ Host

Spec == Init /\ [][Next]_vars

-----------------------------------------------------------------------------
Below == IF acts = <<>> THEN [psp |-> 0, loops |-> 0] ELSE Last(acts)

(* Every variable has its type; the stacks are never overrun.              *)
TypeOK ==
  /\ pc \in Place
  /\ stack \in [Slots -> Cells] /\ sp \in 0 .. StackSize /\ fp \in 0 .. sp
  /\ paramstack \in [ParamSlots -> Values \cup {Stale}]
  /\ psp \in 0 .. ParamStackSize
  /\ ret_val \in Values \cup {Stale}
  /\ nested_loop_idx \in 0 .. MaxForLoops + 1
  /\ res \in {"busy", "error", "end"} \cup XFuncs
  /\ acts \in Seq([pc : Place, fp : 0 .. StackSize, sp : 0 .. StackSize,
                   psp : 0 .. ParamStackSize, loops : 0 .. MaxForLoops])

(* nested_loop_idx counts the loops that are open in all activations, so   *)
(* that "too many nested 'for' loops" is reported exactly when there are:  *)
(* no way out of a loop or of a function forgets to count.                 *)
OpenLoops(p) == p.loops + (IF p.header THEN 1 ELSE 0)
LoopsCounted ==
  res # "error" => nested_loop_idx = Below.loops + OpenLoops(pc)

(* The parameter stack holds the arguments that the activations have       *)
(* pushed and the ones they have not taken yet, and nothing else: nothing  *)
(* piles up on it, whatever is called and fired.  (README.md: line 112 has *)
(* a handler for fire_on_can with three parameters, line 262 says that the *)
(* arguments of user functions are counted.)                               *)
ParamsCounted == res = "busy" => psp = Below.psp + pc.args

(* sp is where the compiler expects it: above the local variables, two     *)
(* values for each loop and the temporaries.                               *)
StackCounted ==
  pc.at # "enter" =>
    sp = fp + FrameSize(pc.fn) + 2 * pc.loops + pc.temps
         + (IF pc.at = "local" THEN 1 ELSE 0)

(* The instructions implement the call stack: no activation touches the    *)
(* values, loops or arguments of another one, arguments and return values  *)
(* arrive, and the caller goes on where it was, although the places of all *)
(* this are found by arithmetic on sp and fp.  (nanoc_reference.md lines   *)
(* 784 and 785 allow eight nested calls, with eight parameters each.)      *)
CellsFrom(lo, hi) == [i \in 1 .. hi - lo |-> stack[Slot(lo + i - 1)]]
ParamsFrom(lo, hi) == [i \in 1 .. hi - lo |-> paramstack[ParamSlot(lo + i - 1)]]

WaitsAt(p) == p.at = "ret"

ParamsBelow(i) == IF i = 1 THEN 0 ELSE acts[i - 1].psp

Waiting(i) ==
  [code |-> acts[i].pc, vals |-> CellsFrom(acts[i].fp, acts[i].sp),
   args |-> ParamsFrom(ParamsBelow(i), acts[i].psp), got |-> Stale]

Running ==
  [code |-> pc, vals |-> IF pc.at = "enter" THEN <<>> ELSE CellsFrom(fp, sp),
   args |-> ParamsFrom(Below.psp, psp),
   got  |-> IF WaitsAt(pc) THEN Num(ret_val) ELSE Stale]

Abs == INSTANCE CallStack WITH
         Waits <- WaitsAt, None <- Stale,
         frames <- Append([i \in DOMAIN acts |-> Waiting(i)], Running)
Implements == Abs!Spec

=============================================================================
