------------------------------ MODULE ForLoop ------------------------------
(***************************************************************************)
(* The counting of a for loop (compile_for, and the instructions FOR,      *)
(* FOR_CHECK, NEXT and BREAK_FOR of nc_run), in integers that wrap around. *)
(*                                                                         *)
(*   for i = start to limit step step { ... }                              *)
(*                                                                         *)
(* limit and step are evaluated once and lie on the data stack.  FOR_CHECK *)
(* tests once before the body; NEXT adds and tests after it.  A global     *)
(* loop variable is kept as an unsigned number, a local one as a signed    *)
(* number.                                                                 *)
(***************************************************************************)
EXTENDS Integers

CONSTANT Half   \* numbers that are not negative; 2^31 in the code

ASSUME HalfAssumption == Half \in Nat /\ Half >= 2

Modulus  == 2 * Half
Signed   == -Half .. Half - 1      \* int32_t
Unsigned == 0 .. Modulus - 1       \* uint32_t

(* The conversions between them: the bits stay.                            *)
AsUnsigned(x) == x % Modulus
AsSigned(x)   == IF x % Modulus < Half THEN x % Modulus ELSE (x % Modulus) - Modulus

VARIABLES
  start, limit, step,  \* what the three expressions of the loop yield
  scope,               \* the loop variable is "global" or "local"
  var,                 \* the loop variable
  at,                  \* the next instruction: "check", "body", "next", or
                       \* "left": the one behind the loop
  passes,              \* history: number of times the body was begun
  assigned, broken     \* history: the body has changed the loop variable,
                       \* left the loop by break
header   == <<start, limit, step, scope>>
loopVars == <<header, var, at, passes, assigned, broken>>

(* The loop variable as the body sees it; as it is kept.                   *)
Seen      == IF scope = "global" THEN AsSigned(var) ELSE var
Kept(x)   == IF scope = "global" THEN AsUnsigned(x) ELSE AsSigned(x)

(* The loop variable has been assigned, limit and step are on the stack.   *)
LoopInit ==
  /\ start \in Signed /\ limit \in Signed /\ step \in Signed
  /\ scope \in {"global", "local"}
  /\ var = Kept(start)
  /\ at = "check"
  /\ passes = 0 /\ assigned = FALSE /\ broken = FALSE

(* Bound: passes are counted up to the number of integers, and as long as  *)
(* the body has not changed the loop variable.                             *)
OneMore == IF assigned \/ passes = Modulus THEN passes ELSE passes + 1

Empty == (step > 0 /\ Seen > limit) \/ (step < 0 /\ Seen < limit)

Check ==
  /\ at = "check"
  /\ IF Empty THEN at' = "left" /\ UNCHANGED passes
              ELSE at' = "body" /\ passes' = OneMore
  /\ UNCHANGED <<header, var, assigned, broken>>

(* The body may change the loop variable, and comes to its end or to a     *)
(* break.                                                                  *)
Assign(x) ==
  /\ at = "body"
  /\ var' = Kept(x)
  /\ assigned' = TRUE /\ passes' = 0
  /\ UNCHANGED <<header, at, broken>>

BodyEnd ==
  /\ at = "body"
  /\ at' = "next"
  /\ UNCHANGED <<header, var, passes, assigned, broken>>

Break ==
  /\ at = "body"
  /\ at' = "left" /\ broken' = TRUE
  /\ UNCHANGED <<header, var, passes, assigned>>

(* The sum wraps around.  For a local variable the addition is one of      *)
(* signed numbers, whose overflow C leaves undefined: the test may see the *)
(* number that was stored or the exact sum.                                *)
NextSum  == Kept(Seen + step)
(* Mutant: the test takes the number of a global variable as unsigned.     *)
MutantSumsSeen == {NextSum}
SumsSeen == IF scope = "global" THEN {AsSigned(NextSum)} ELSE {NextSum, Seen + step}

(* Mutant: the loop ends only where it meets the limit.                    *)
MutantContinues(x) == x # limit
Continues(x) == IF step < 0 THEN x >= limit ELSE x <= limit

NextPass ==
  /\ at = "next"
  /\ var' = NextSum
  /\ \E x \in SumsSeen :
       IF Continues(x) THEN at' = "body" /\ passes' = OneMore
                       ELSE at' = "left" /\ UNCHANGED passes
  /\ UNCHANGED <<header, assigned, broken>>

Instruction == Check \/ BodyEnd \/ NextPass
LoopNext == Instruction \/ Break \/ \E x \in Signed : Assign(x)

(* The virtual machine goes on, and each pass of the body comes to an end. *)
Fairness == WF_loopVars(Instruction)
LoopSpec == LoopInit /\ [][LoopNext]_loopVars /\ Fairness

-----------------------------------------------------------------------------
(* The loops that the language means something by: a step that is not 0,   *)
(* and a limit that the loop variable can pass.                            *)
Regular == step # 0 /\ limit + step \in Signed

(* The number of passes that start, limit and step promise.                *)
Promised ==
  CASE step > 0 -> IF start > limit THEN 0 ELSE (limit - start) \div step + 1
    [] step < 0 -> IF start < limit THEN 0 ELSE (start - limit) \div (-step) + 1
    [] OTHER    -> 0

(* Every variable has its type, the loop variable that of its scope; the   *)
(* first part of the inductive invariant of VmCallsProofs.                 *)
LoopTypeOK ==
  /\ start \in Signed /\ limit \in Signed /\ step \in Signed
  /\ scope \in {"global", "local"}
  /\ var \in IF scope = "global" THEN Unsigned ELSE Signed
  /\ at \in {"check", "body", "next", "left"}
  /\ passes \in 0 .. Modulus
  /\ assigned \in BOOLEAN /\ broken \in BOOLEAN

(* Pass n of the body sees start + (n - 1) * step, never beyond the limit, *)
(* and a loop that is not left early has all its passes: negative numbers  *)
(* in a global variable, a last step that does not meet the limit, and     *)
(* empty ranges included.                                                  *)
CountsRight ==
  Regular /\ ~assigned =>
    /\ at = "body" => /\ Seen = start + (passes - 1) * step
                      /\ ~Empty
    /\ at = "left" /\ ~broken => passes = Promised

(* A loop whose body leaves the variable alone ends.                       *)
Terminates == Regular /\ [](~assigned) => <>(at = "left")
=============================================================================
