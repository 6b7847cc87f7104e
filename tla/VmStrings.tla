----------------------------- MODULE VmStrings ------------------------------
(***************************************************************************)
(* Strings in the virtual machine (nc_run, get_string, alloc_temp_string,  *)
(* realloc_string, nc_push_str, nc_pop_str).                               *)
(*                                                                         *)
(* On the data stack, in parameters and in variables a string is an        *)
(* address: of a constant in the code, of one of two temporary buffers, or *)
(* of a chunk of the heap that belongs to a variable.  Every instruction   *)
(* with a string result writes it into the buffer that was not used last.  *)
(* Only the assignment to a variable copies.                               *)
(*                                                                         *)
(* Which chunk the allocator hands out, and whether a string fits into the *)
(* chunk its variable has, is left open (VmHeap has it); here an           *)
(* allocation does not fail.                                               *)
(***************************************************************************)
EXTENDS Integers, Sequences, SequencesExt

CONSTANTS
  Vars,       \* global str8 variables
  Chunks,     \* chunks of the heap
  Chars,      \* characters of strings
  MaxLen,     \* k_MAX_LINE_LEN - 1; the programs keep to it
  Literals,   \* string constants in the code
  Made,       \* bound: the strings made of numbers or by the host
  MaxOperands,\* bound: operands of an expression
  MaxDepth,   \* bound: functions that call functions
  Habits      \* what the programs do, of AllHabits

(* "third":    a statement makes a third temporary string while it still   *)
(*             has strings to use (the documented limit is two);           *)
(* "argument": a temporary string is an argument, or waits while a         *)
(*             function runs;                                              *)
(* "reassign": a variable is assigned while its string waits as an operand *)
(*             or a parameter.                                             *)
AllHabits == {"third", "argument", "reassign"}
Strings   == BoundedSeq(Chars, MaxLen)

ASSUME StringsAssumption ==
  /\ MaxLen \in Nat /\ MaxOperands \in Nat /\ MaxDepth \in Nat
  /\ Literals \subseteq Strings /\ Made \subseteq Strings
  /\ Habits \subseteq AllHabits

VARIABLES
  variables,     \* addresses in the variables
  strbuf,        \* the contents of the buffers, strbuf1 and strbuf2
  strbuf1_used,
  heap,          \* the contents of the chunks
  owned,         \* the chunks that are allocated
  exp,           \* the part of the data stack that belongs to the expression
  params,        \* the parameters of the function that runs
  callers,       \* what its callers wait with
  temps,         \* history: temporary strings of the statement so far
  out            \* history: the strings that the last instruction has read

memory == <<strbuf, strbuf1_used, heap, owned>>
vars   == <<variables, memory, exp, params, callers, temps, out>>

-----------------------------------------------------------------------------
(* Addresses, and numbers among the operands.                              *)
Ref(seg, id, str) == [seg |-> seg, id |-> id, str |-> str]
Code(s)  == Ref("code", 0, s)      \* address 0 counts as the empty string
Buf(i)   == Ref("buf", i, <<>>)    \* STRBUF1, STRBUF2
Chunk(c) == Ref("heap", c, <<>>)
Num      == Ref("num", 0, <<>>)
Address  == {Code(s) : s \in Literals \cup {<<>>}} \cup {Buf(1), Buf(2)}
            \cup {Chunk(c) : c \in Chunks}
Operand  == Address \cup {Num}

IsTemp(r) == r.seg = "buf"
IsHeap(r) == r.seg = "heap"

get_string(r) == CASE r.seg = "buf"  -> strbuf[r.id]
                   [] r.seg = "heap" -> heap[r.id]
                   [] OTHER          -> r.str

Init ==
  /\ variables = [v \in Vars |-> Code(<<>>)]
  /\ strbuf = [i \in 1 .. 2 |-> <<>>] /\ strbuf1_used = FALSE
  /\ heap = [c \in Chunks |-> <<>>] /\ owned = {}
  /\ exp = <<>> /\ params = <<>> /\ callers = <<>>
  /\ temps = 0 /\ out = <<>>

Nth(n)        == exp[Len(exp) + 1 - n]
Without(n)    == SubSeq(exp, 1, Len(exp) - n)
AreStrings(n) == Len(exp) >= n /\ \A i \in 1 .. n : Nth(i) # Num

(* The strings that wait below the n last operands.                        *)
Waiting(n) == ToSet(Without(n)) \cup ToSet(params)
              \cup UNION {ToSet(callers[i].exp) \cup ToSet(callers[i].params) :
                            i \in DOMAIN callers}

-----------------------------------------------------------------------------
(* PUSH_STR, PUSH_NUM, PUSH_VAR, PUSH_LOCAL.                               *)
Push(r) ==
  /\ Len(exp) < MaxOperands
  /\ r \in {Num} \cup {Code(s) : s \in Literals} \cup {variables[v] : v \in Vars}
        \cup ToSet(params)
  /\ exp' = Append(exp, r)
  /\ out' = <<>> /\ UNCHANGED <<variables, memory, params, callers, temps>>

(* Mutant: strbuf1_used is not looked at.                                  *)
MutantNextBuf == 1

(* alloc_temp_string(): the buffer that the next string goes to.           *)
NextBuf == IF strbuf1_used THEN 2 ELSE 1

(* The n last operands are replaced by a temporary string; the statement   *)
(* has made t of them.                                                     *)
Temporary(n, s, t) ==
  /\ strbuf1_used' = ~strbuf1_used
  /\ strbuf' = [strbuf EXCEPT ![NextBuf] = s]
  /\ exp' = Append(Without(n), Buf(NextBuf))
  /\ t <= 2 \/ "third" \in Habits
  /\ temps' = IF t <= 2 THEN t ELSE 2
  /\ UNCHANGED <<variables, heap, owned, params, callers>>

(* ADD_STR copies the first string, then appends the second.  If the       *)
(* second one was in the buffer that is written, it is lost, and the end   *)
(* of the result is undefined.                                             *)
Joined == IF Nth(1) = Buf(NextBuf) THEN Strings
          ELSE {get_string(Nth(2)) \o get_string(Nth(1))} \cap Strings

(* The sum of two temporary strings takes the place of both.               *)
Concat ==
  /\ AreStrings(2)
  /\ \E s \in Joined :
       Temporary(2, s, IF IsTemp(Nth(1)) /\ IsTemp(Nth(2)) THEN 1 ELSE temps + 1)
  /\ out' = <<>>

(* LEFT_STR, RIGHT_STR, MID_STR.                                           *)
PartsOf(r) == IF r = Buf(NextBuf) THEN Strings ELSE SubSeqs(get_string(r))
Part ==
  /\ Len(exp) >= 2 /\ Nth(1) = Num /\ Nth(2) # Num
  /\ \E s \in PartsOf(Nth(2)) : Temporary(2, s, temps + 1)
  /\ out' = <<>>

(* VAL_TO_STR, VAL_TO_HEX, ARR2STR.                                        *)
FromNum(s) ==
  /\ Len(exp) >= 1 /\ Nth(1) = Num
  /\ Temporary(1, s, temps + 1)
  /\ out' = <<>>

(* PUSH_PARAM, XFUNC, nc_pop_str, nc_push_str, PARAM.                      *)
FromHost(s) ==
  /\ AreStrings(1)
  /\ out' = <<get_string(Nth(1))>>
  /\ Temporary(1, s, temps + 1)

(* A statement begins; or none of the strings of this one is needed.       *)
CountAfter(e) == IF \E i \in DOMAIN e : e[i] # Num THEN temps ELSE 0

(* STR_LEN, STR_TO_VAL (n = 1); the comparisons and INSTR (n = 2).         *)
Measure(n) ==
  /\ AreStrings(n)
  /\ out' = [i \in 1 .. n |-> get_string(Nth(n + 1 - i))]
  /\ exp' = Append(Without(n), Num)
  /\ temps' = CountAfter(Without(n))
  /\ UNCHANGED <<variables, memory, params, callers>>

(* PRINTF, or the end of a statement that uses a number.                   *)
Printf ==
  /\ exp # <<>>
  /\ out' = [i \in 1 .. Len(exp) |-> get_string(exp[i])]
  /\ exp' = <<>> /\ temps' = 0
  /\ UNCHANGED <<variables, memory, params, callers>>

-----------------------------------------------------------------------------
(* Mutants: an assignment stores the address of a temporary string, or of  *)
(* the string of another variable.                                         *)
MutantSharesTemps(r) == ~IsHeap(r)
MutantSharesHeap(r)  == ~IsTemp(r)

(* POP_STR with realloc_string().  A constant is shared; any other string  *)
(* is copied, into the chunk of the variable or into another one.  What a  *)
(* free chunk holds is of no interest.                                     *)
Shared(r) == ~IsTemp(r) /\ ~IsHeap(r)
Released(v) == IF IsHeap(variables[v]) THEN owned \ {variables[v].id} ELSE owned
Cleared(C)  == [c \in Chunks |-> IF c \in C THEN heap[c] ELSE <<>>]

(* The chunk for a copy of r: nc_mem_realloc keeps a chunk that is large   *)
(* enough, or frees it first.                                              *)
Room(v, r) == IF IsHeap(r) /\ variables[v] = r THEN {r.id}
              ELSE Chunks \ Released(v)

Assign(v) ==
  /\ Len(exp) = 1 /\ AreStrings(1)
  /\ "reassign" \in Habits \/ (IsHeap(variables[v]) => variables[v] \notin Waiting(1))
  /\ \/ /\ Shared(Nth(1))
        /\ variables' = [variables EXCEPT ![v] = Nth(1)]
        /\ owned' = Released(v)
        /\ heap' = Cleared(Released(v))
     \/ /\ ~Shared(Nth(1))
        /\ \E c \in Room(v, Nth(1)) :
             /\ heap' = [Cleared(Released(v)) EXCEPT ![c] = get_string(Nth(1))]
             /\ owned' = Released(v) \cup {c}
             /\ variables' = [variables EXCEPT ![v] = Chunk(c)]
  /\ exp' = <<>> /\ temps' = 0
  /\ out' = <<>> /\ UNCHANGED <<strbuf, strbuf1_used, params, callers>>

(* A call of a function with n string (or number) arguments: PUSH_PARAM,   *)
(* GOSUB, ENTER, PARAM and POP_LOCAL.  Its result is an operand of the     *)
(* caller: LEAVE, PUSH_RET.                                                *)
NoTemps(S) == \A r \in S : ~IsTemp(r)

Call(n) ==
  /\ n <= Len(exp) /\ Len(callers) < MaxDepth
  /\ "argument" \in Habits \/ NoTemps(ToSet(exp))
  /\ callers' = Append(callers, [exp |-> Without(n), params |-> params,
                                 temps |-> CountAfter(Without(n))])
  /\ params' = [i \in 1 .. n |-> exp[Len(exp) - n + i]]
  /\ exp' = <<>> /\ temps' = 0
  /\ out' = <<>> /\ UNCHANGED <<variables, memory>>

TempsBack == Last(callers).temps + (IF \E r \in ToSet(exp) : IsTemp(r) THEN 1 ELSE 0)

Return ==
  /\ callers # <<>> /\ Len(exp) <= 1
  /\ Len(Last(callers).exp) + Len(exp) <= MaxOperands
  /\ TempsBack <= 2 \/ "third" \in Habits
  /\ exp' = Last(callers).exp \o exp
  /\ params' = Last(callers).params
  /\ callers' = Front(callers)
  /\ temps' = IF TempsBack <= 2 THEN TempsBack ELSE 2
  /\ out' = <<>> /\ UNCHANGED <<variables, memory>>

Operators == Concat \/ Part \/ Measure(1) \/ Measure(2)
Sources   == \E s \in Made : FromNum(s) \/ FromHost(s)
Pushes    == \E r \in Operand : Push(r)
Uses      == Printf \/ \E v \in Vars : Assign(v)
Calls     == Return \/ \E n \in 0 .. MaxOperands : Call(n)

Next == Operators \/ Sources \/ Pushes \/ Uses \/ Calls
Spec == Init /\ [][Next]_vars

-----------------------------------------------------------------------------
TypeOK ==
  /\ variables \in [Vars -> {r \in Address : ~IsTemp(r)}]
  /\ strbuf \in [1 .. 2 -> Strings] /\ strbuf1_used \in BOOLEAN
  /\ heap \in [Chunks -> Strings] /\ owned \subseteq Chunks
  /\ ToSet(exp) \cup ToSet(params) \subseteq Operand
  /\ \A i \in DOMAIN callers : ToSet(callers[i].exp) \cup ToSet(callers[i].params)
                               \subseteq Operand
  /\ temps \in 0 .. 2

(* A chunk belongs to one variable, a chunk without a variable is free, and*)
(* no operand and no parameter is left with the address of a free one.     *)
ChunksOwned ==
  /\ owned = {variables[v].id : v \in {w \in Vars : IsHeap(variables[w])}}
  /\ \A v, w \in Vars : v # w /\ IsHeap(variables[v]) => variables[v] # variables[w]
  /\ \A r \in Waiting(0) : IsHeap(r) => r.id \in owned

(* Addresses behave as values: what they refer to does not change between  *)
(* the time a string is pushed and the time it is used, not by temporary   *)
(* strings, nor by assignments, nor by a function that runs in between.    *)
Value(r)    == [num |-> r = Num, str |-> get_string(r)]
Values(s)   == [i \in DOMAIN s |-> Value(s[i])]
ValueSpec == INSTANCE StrValues WITH
  vals    <- [v \in Vars |-> get_string(variables[v])],
  exp     <- Values(exp),
  params  <- Values(params),
  callers <- [i \in DOMAIN callers |-> [exp |-> Values(callers[i].exp),
                                        params |-> Values(callers[i].params)]]
Implements == ValueSpec!Spec
=============================================================================
