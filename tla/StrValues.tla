----------------------------- MODULE StrValues ------------------------------
(***************************************************************************)
(* What the language promises of its strings: they are values.  A string   *)
(* in an expression, in a parameter or in a variable stays what it was     *)
(* when it was put there, whatever else is computed meanwhile.  Numbers    *)
(* in expressions are not told apart.                                      *)
(***************************************************************************)
EXTENDS Integers, Sequences, SequencesExt

CONSTANTS Vars,      \* global str8 variables
          Chars,     \* characters of strings
          MaxLen,    \* bound: their length
          Literals   \* the string constants of the program

Strings == BoundedSeq(Chars, MaxLen)
Str(s)  == [num |-> FALSE, str |-> s]
Num     == [num |-> TRUE, str |-> <<>>]
IsNum(x) == x.num

VARIABLES
  vals,    \* the variables
  exp,     \* the operands of the expression so far
  params,  \* the parameters of the function that runs
  callers, \* what its callers wait with: operands and parameters
  out      \* the strings that the last step has made use of

vars == <<vals, exp, params, callers, out>>

Init ==
  /\ vals = [v \in Vars |-> <<>>]
  /\ exp = <<>> /\ params = <<>> /\ callers = <<>> /\ out = <<>>

Nth(n)   == exp[Len(exp) + 1 - n]          \* the n-th operand from the end
Without(n) == SubSeq(exp, 1, Len(exp) - n)
AreStrings(n) == Len(exp) >= n /\ \A i \in 1 .. n : ~IsNum(Nth(i))

Push ==
  /\ \E x \in {Num} \cup {Str(s) : s \in Literals} \cup {Str(vals[v]) : v \in Vars}
            \cup ToSet(params) : exp' = Append(exp, x)
  /\ out' = <<>> /\ UNCHANGED <<vals, params, callers>>

Concat ==
  /\ AreStrings(2)
  /\ exp' = Append(Without(2), Str(Nth(2).str \o Nth(1).str))
  /\ out' = <<>> /\ UNCHANGED <<vals, params, callers>>

(* left, right and mid: some part of the string, said by a number.         *)
Part ==
  /\ Len(exp) >= 2 /\ IsNum(Nth(1)) /\ ~IsNum(Nth(2))
  /\ \E t \in SubSeqs(Nth(2).str) : exp' = Append(Without(2), Str(t))
  /\ out' = <<>> /\ UNCHANGED <<vals, params, callers>>

(* str, hex, arr2str: a string from a number.                              *)
FromNum ==
  /\ Len(exp) >= 1 /\ IsNum(Nth(1))
  /\ \E t \in Strings : exp' = Append(Without(1), Str(t))
  /\ out' = <<>> /\ UNCHANGED <<vals, params, callers>>

(* An external function with a string and a string result.                 *)
FromHost ==
  /\ AreStrings(1)
  /\ out' = <<Nth(1).str>>
  /\ \E t \in Strings : exp' = Append(Without(1), Str(t))
  /\ UNCHANGED <<vals, params, callers>>

(* len, val; the comparisons and instr.                                    *)
Measure(n) ==
  /\ n \in {1, 2} /\ AreStrings(n)
  /\ out' = [i \in 1 .. n |-> Nth(n + 1 - i).str]
  /\ exp' = Append(Without(n), Num)
  /\ UNCHANGED <<vals, params, callers>>

(* printf, or a statement that uses a number.                              *)
Printf ==
  /\ exp # <<>>
  /\ out' = [i \in 1 .. Len(exp) |-> exp[i].str]
  /\ exp' = <<>>
  /\ UNCHANGED <<vals, params, callers>>

Assign(v) ==
  /\ Len(exp) = 1 /\ AreStrings(1)
  /\ vals' = [vals EXCEPT ![v] = Nth(1).str]
  /\ exp' = <<>>
  /\ out' = <<>> /\ UNCHANGED <<params, callers>>

Call(n) ==
  /\ n <= Len(exp)
  /\ callers' = Append(callers, [exp |-> Without(n), params |-> params])
  /\ params' = [i \in 1 .. n |-> exp[Len(exp) - n + i]]
  /\ exp' = <<>>
  /\ out' = <<>> /\ UNCHANGED vals

Return ==
  /\ callers # <<>> /\ Len(exp) <= 1
  /\ exp' = Last(callers).exp \o exp
  /\ params' = Last(callers).params
  /\ callers' = Front(callers)
  /\ out' = <<>> /\ UNCHANGED vals

Next == \/ Push \/ Concat \/ Part \/ FromNum \/ FromHost \/ Printf \/ Return
        \/ \E v \in Vars : Assign(v)
        \/ \E n \in 0 .. Len(exp) : Measure(n) \/ Call(n)

Spec == Init /\ [][Next]_vars
=============================================================================
