-------------------------- MODULE VmStringsProofs ---------------------------
(***************************************************************************)
(* Proofs about VmStrings: addresses of strings that behave as values.     *)
(*                                                                         *)
(*  - every variable keeps its type, whatever the programs do;             *)
(*  - a chunk of the heap has one owner and no address outlives it, for    *)
(*    programs that do not assign a variable whose string still waits;     *)
(*  - VmStrings implements StrValues, for programs that also keep to two   *)
(*    temporary strings and pass none of them to functions.                *)
(***************************************************************************)
EXTENDS VmStrings, SequenceTheorems, TLAPS

(* What a caller waits with.                                               *)
Frame == [exp : Seq(Operand), params : Seq(Operand), temps : 0 .. 2]

TypeInv ==
  /\ variables \in [Vars -> {r \in Address : ~IsTemp(r)}]
  /\ strbuf \in [1 .. 2 -> Strings] /\ strbuf1_used \in BOOLEAN
  /\ heap \in [Chunks -> Strings] /\ owned \subseteq Chunks
  /\ exp \in Seq(Operand) /\ params \in Seq(Operand)
  /\ callers \in Seq(Frame)
  /\ temps \in 0 .. 2

-----------------------------------------------------------------------------
(* Strings and addresses.                                                  *)

LEMMA StringIsSeq ==
  ASSUME NEW s \in Strings
  PROVE  s \in Seq(Chars) /\ Len(s) <= MaxLen /\ Len(s) \in Nat
<1>1. PICK m \in 0 .. MaxLen : s \in [1 .. m -> Chars]
  BY DEF Strings, BoundedSeq, SeqOf
<1>2. m \in Nat /\ m <= MaxLen
  BY StringsAssumption, <1>1
<1>3. s \in Seq(Chars) /\ DOMAIN s = 1 .. m
  BY <1>1, <1>2, SeqDef
<1>4. Len(s) = m
  BY <1>2, <1>3, LenProperties
<1> QED BY <1>2, <1>3, <1>4

LEMMA SeqIsString ==
  ASSUME NEW s \in Seq(Chars), Len(s) <= MaxLen
  PROVE  s \in Strings
<1>1. s \in [1 .. Len(s) -> Chars] /\ Len(s) \in Nat
  BY LenProperties
<1>2. Len(s) \in 0 .. MaxLen
  BY <1>1, StringsAssumption
<1> QED BY <1>1, <1>2 DEF Strings, BoundedSeq, SeqOf

LEMMA EmptyIsString == <<>> \in Strings
<1> DEFINE e == <<>>
<1>1. e \in Seq(Chars) /\ Len(e) = 0
  BY EmptySeq
<1>2. Len(e) <= MaxLen
  BY <1>1, StringsAssumption
<1> HIDE DEF e
<1>3. e \in Strings
  BY <1>1, <1>2, SeqIsString
<1> QED BY <1>3 DEF e

(* left, right and mid stay within a string.                               *)
LEMMA PartIsString ==
  ASSUME NEW s \in Strings
  PROVE  SubSeqs(s) \subseteq Strings
<1> SUFFICES ASSUME NEW t \in SubSeqs(s) PROVE t \in Strings
  OBVIOUS
<1>3. PICK i \in 0 .. Len(s), j \in 0 .. Len(s) : t = SubSeq(s, i + 1, j)
  BY SMT DEF SubSeqs
<1>1. s \in Seq(Chars) /\ Len(s) <= MaxLen /\ Len(s) \in Nat
  BY StringIsSeq
<1>2. /\ SubSeq(s, i + 1, j) \in Seq(Chars)
      /\ Len(SubSeq(s, i + 1, j)) = IF i + 1 <= j THEN j - (i + 1) + 1 ELSE 0
  BY <1>1, SubSeqProperties
<1>4. Len(SubSeq(s, i + 1, j)) <= MaxLen
  BY <1>1, <1>2, StringsAssumption
<1> QED BY <1>2, <1>3, <1>4, SeqIsString

(* An operand is a number, a constant, a buffer or a chunk.                *)
LEMMA OperandKinds ==
  ASSUME NEW r \in Operand
  PROVE  \/ r = Num
         \/ r.seg = "code" /\ r.str \in Strings
         \/ r = Buf(1) \/ r = Buf(2)
         \/ \E c \in Chunks : r = Chunk(c)
BY EmptyIsString, StringsAssumption DEF Operand, Address, Num, Code, Buf, Chunk, Ref

LEMMA Kinds ==
  /\ Num.seg = "num" /\ Num.str = <<>> /\ ~IsTemp(Num) /\ ~IsHeap(Num)
  /\ \A i : Buf(i).seg = "buf" /\ Buf(i).id = i /\ IsTemp(Buf(i)) /\ ~IsHeap(Buf(i))
  /\ \A i : Buf(i) # Num
  /\ \A c : Chunk(c).seg = "heap" /\ Chunk(c).id = c /\ IsHeap(Chunk(c)) /\ ~IsTemp(Chunk(c))
  /\ \A s : Code(s).seg = "code" /\ Code(s).str = s /\ ~IsHeap(Code(s)) /\ ~IsTemp(Code(s))
BY DEF Num, Buf, Chunk, Code, Ref, IsTemp, IsHeap

LEMMA HeapOperand ==
  ASSUME NEW r \in Operand, IsHeap(r)
  PROVE  r.id \in Chunks /\ r = Chunk(r.id)
BY OperandKinds, Kinds DEF IsHeap

LEMMA TempOperand ==
  ASSUME NEW r \in Operand, IsTemp(r)
  PROVE  r = Buf(1) \/ r = Buf(2)
BY OperandKinds, Kinds DEF IsTemp

LEMMA Members ==
  /\ Num \in Operand /\ Buf(1) \in Operand /\ Buf(2) \in Operand
  /\ \A c \in Chunks : Chunk(c) \in Operand /\ Chunk(c) \in Address
  /\ Code(<<>>) \in Address
BY DEF Operand, Address

LEMMA StringsRead ==
  ASSUME TypeInv, NEW r \in Operand
  PROVE  get_string(r) \in Strings
<1>1. CASE r = Num
  BY <1>1, Kinds, EmptyIsString DEF get_string
<1>2. CASE r.seg = "code" /\ r.str \in Strings
  BY <1>2 DEF get_string
<1>3. CASE r = Buf(1) \/ r = Buf(2)
  BY <1>3, Kinds DEF get_string, TypeInv
<1>4. CASE \E c \in Chunks : r = Chunk(c)
  BY <1>4, Kinds DEF get_string, TypeInv
<1> QED BY <1>1, <1>2, <1>3, <1>4, OperandKinds

-----------------------------------------------------------------------------
(* Sequences of operands.                                                  *)

LEMMA WithoutSeq ==
  ASSUME TypeInv, NEW n \in Nat, n <= Len(exp)
  PROVE  /\ Without(n) \in Seq(Operand)
         /\ Len(exp) \in Nat /\ Len(Without(n)) = Len(exp) - n
         /\ \A i \in 1 .. (Len(exp) - n) : Without(n)[i] = exp[i]
<1>1. exp \in Seq(Operand) /\ Len(exp) \in Nat
  BY LenProperties DEF TypeInv
<1>2. 1 \in 1 .. Len(exp) + 1 /\ Len(exp) - n \in 1 - 1 .. Len(exp)
  BY <1>1
<1>3. /\ SubSeq(exp, 1, Len(exp) - n) \in Seq(Operand)
      /\ Len(SubSeq(exp, 1, Len(exp) - n)) =
           IF 1 <= Len(exp) - n THEN Len(exp) - n - 1 + 1 ELSE 0
      /\ \A i \in 1 .. Len(exp) - n - 1 + 1 :
           SubSeq(exp, 1, Len(exp) - n)[i] = exp[1 + i - 1]
  BY <1>1, <1>2, SubSeqProperties
<1> QED BY <1>1, <1>3 DEF Without

LEMMA NthOperand ==
  ASSUME TypeInv, NEW n \in 1 .. Len(exp)
  PROVE  Nth(n) \in Operand /\ Len(exp) + 1 - n \in 1 .. Len(exp)
<1>1. exp \in Seq(Operand) /\ Len(exp) \in Nat
  BY LenProperties DEF TypeInv
<1>2. Len(exp) + 1 - n \in 1 .. Len(exp)
  BY <1>1
<1> QED BY <1>1, <1>2, ElementOfSeq DEF Nth

LEMMA AppendSeq ==
  ASSUME NEW S, NEW s \in Seq(S), NEW r \in S
  PROVE  /\ Append(s, r) \in Seq(S) /\ Len(Append(s, r)) = Len(s) + 1
         /\ Len(s) \in Nat
         /\ \A i \in 1 .. Len(s) : Append(s, r)[i] = s[i]
         /\ Append(s, r)[Len(s) + 1] = r
BY AppendProperties, LenProperties

LEMMA LastCaller ==
  ASSUME NEW S, NEW s \in Seq(S), s # <<>>
  PROVE  /\ Last(s) \in S /\ Front(s) \in Seq(S)
         /\ Len(s) \in Nat /\ Len(s) > 0 /\ Len(Front(s)) = Len(s) - 1
         /\ \A i \in 1 .. Len(s) - 1 : Front(s)[i] = s[i]
<1>1. Len(s) \in Nat /\ Len(s) > 0
  BY LenProperties, EmptySeq
<1>2. s[Len(s)] \in S
  BY <1>1, ElementOfSeq
<1>3. /\ SubSeq(s, 1, Len(s) - 1) \in Seq(S)
      /\ Len(SubSeq(s, 1, Len(s) - 1)) =
           IF 1 <= Len(s) - 1 THEN Len(s) - 1 - 1 + 1 ELSE 0
      /\ \A i \in 1 .. Len(s) - 1 - 1 + 1 : SubSeq(s, 1, Len(s) - 1)[i] = s[1 + i - 1]
  BY <1>1, SubSeqProperties
<1>4. Len(SubSeq(s, 1, Len(s) - 1)) = Len(s) - 1
  <2> DEFINE k == Len(s) - 1
             l == Len(SubSeq(s, 1, k))
  <2>1. k \in Nat /\ l = IF 1 <= k THEN k - 1 + 1 ELSE 0
    BY <1>1, <1>3
  <2> HIDE DEF k, l
  <2>2. l = k
    BY ONLY <2>1
  <2> QED BY <2>2 DEF k, l
<1>5. \A i \in 1 .. Len(s) - 1 : SubSeq(s, 1, Len(s) - 1)[i] = s[i]
  BY <1>1, <1>3
<1> QED BY <1>1, <1>2, <1>3, <1>4, <1>5 DEF Last, Front

-----------------------------------------------------------------------------
(* Types.                                                                  *)

LEMMA VariableOperand ==
  ASSUME TypeInv, NEW v \in Vars
  PROVE  variables[v] \in Operand /\ variables[v] \in Address /\ ~IsTemp(variables[v])
BY DEF TypeInv, Operand

LEMMA InMembers ==
  ASSUME NEW S, NEW s \in Seq(S)
  PROVE  \A r \in ToSet(s) : r \in S /\ \E i \in 1 .. Len(s) : r = s[i]
BY LenProperties, ElementOfSeq DEF ToSet

LEMMA InitTypes == Init => TypeInv
<1> SUFFICES ASSUME Init PROVE TypeInv
  OBVIOUS
<1>1. variables \in [Vars -> {r \in Address : ~IsTemp(r)}]
  BY Members, Kinds DEF Init
<1>2. strbuf \in [1 .. 2 -> Strings] /\ heap \in [Chunks -> Strings]
  BY EmptyIsString DEF Init
<1>3. exp \in Seq(Operand) /\ params \in Seq(Operand) /\ callers \in Seq(Frame)
  BY EmptySeq DEF Init
<1>4. owned \subseteq Chunks /\ temps = 0 /\ strbuf1_used = FALSE
  BY Zenon DEF Init
<1>5. strbuf1_used \in BOOLEAN
  BY ONLY <1>4
<1>6. temps \in 0 .. 2
  BY ONLY <1>4
<1> QED BY <1>1, <1>2, <1>3, <1>4, <1>5, <1>6 DEF TypeInv

LEMMA TemporaryTypes ==
  ASSUME TypeInv, NEW n \in Nat, n <= Len(exp), NEW s \in Strings, NEW t \in Nat,
         Temporary(n, s, t)
  PROVE  TypeInv'
<1>1. NextBuf \in 1 .. 2 /\ Buf(NextBuf) \in Operand
  BY Members DEF NextBuf
<1>2. strbuf' \in [1 .. 2 -> Strings] /\ strbuf1_used' \in BOOLEAN
  BY <1>1 DEF Temporary, TypeInv
<1>3. exp' \in Seq(Operand)
  BY <1>1, WithoutSeq, AppendSeq DEF Temporary
<1>4. temps' \in 0 .. 2
  BY DEF Temporary
<1> QED BY <1>2, <1>3, <1>4 DEF Temporary, TypeInv

LEMMA PushTypes ==
  ASSUME TypeInv, NEW r \in Operand, Push(r)
  PROVE  TypeInv'
<1>1. exp' \in Seq(Operand)
  BY AppendSeq DEF Push, TypeInv
<1> QED BY <1>1 DEF Push, TypeInv, memory

LEMMA JoinedStrings ==
  ASSUME NEW s \in Joined
  PROVE  s \in Strings
BY DEF Joined

LEMMA ConcatTypes ==
  ASSUME TypeInv, Concat
  PROVE  TypeInv'
<1>1. 2 <= Len(exp) /\ temps + 1 \in Nat
  BY DEF Concat, AreStrings, TypeInv
<1>2. PICK s \in Joined :
        Temporary(2, s, IF IsTemp(Nth(1)) /\ IsTemp(Nth(2)) THEN 1 ELSE temps + 1)
  BY DEF Concat
<1> QED BY <1>1, <1>2, TemporaryTypes, JoinedStrings

LEMMA PartTypes ==
  ASSUME TypeInv, Part
  PROVE  TypeInv'
<1>1. 2 <= Len(exp) /\ temps + 1 \in Nat /\ 2 \in 1 .. Len(exp)
  BY LenProperties DEF Part, TypeInv
<1>2. PICK s \in PartsOf(Nth(2)) : Temporary(2, s, temps + 1)
  BY DEF Part
<1>3. s \in Strings
  BY <1>1, <1>2, NthOperand, StringsRead, PartIsString DEF PartsOf
<1> QED BY <1>1, <1>2, <1>3, TemporaryTypes

LEMMA FromNumTypes ==
  ASSUME TypeInv, NEW s \in Made, FromNum(s)
  PROVE  TypeInv'
<1>1. s \in Strings /\ temps + 1 \in Nat
  BY StringsAssumption DEF TypeInv
<1> QED BY <1>1, TemporaryTypes DEF FromNum

LEMMA FromHostTypes ==
  ASSUME TypeInv, NEW s \in Made, FromHost(s)
  PROVE  TypeInv'
<1>1. s \in Strings /\ temps + 1 \in Nat
  BY StringsAssumption DEF TypeInv
<1> QED BY <1>1, TemporaryTypes DEF FromHost, AreStrings

LEMMA CountBounded ==
  ASSUME TypeInv, NEW e
  PROVE  CountAfter(e) \in 0 .. 2
BY DEF CountAfter, TypeInv

LEMMA MeasureTypes ==
  ASSUME TypeInv, NEW n \in 1 .. 2, Measure(n)
  PROVE  TypeInv'
<1>1. exp' \in Seq(Operand)
  BY WithoutSeq, AppendSeq, Members DEF Measure, AreStrings
<1>2. temps' \in 0 .. 2
  BY CountBounded DEF Measure
<1> QED BY <1>1, <1>2 DEF Measure, TypeInv, memory

LEMMA PrintfTypes ==
  ASSUME TypeInv, Printf
  PROVE  TypeInv'
BY EmptySeq DEF Printf, TypeInv, memory

LEMMA OneOperand ==
  ASSUME TypeInv, Len(exp) = 1
  PROVE  Nth(1) = exp[1] /\ Nth(1) \in Operand /\ Without(1) = <<>>
<1>1. 1 \in 1 .. Len(exp) /\ 1 <= Len(exp)
  OBVIOUS
<1>2. Len(Without(1)) = 0 /\ Without(1) \in Seq(Operand)
  BY <1>1, WithoutSeq
<1> QED BY <1>1, <1>2, NthOperand, EmptySeq DEF Nth

LEMMA AssignTypes ==
  ASSUME TypeInv, NEW v \in Vars, Assign(v)
  PROVE  TypeInv'
<1> DEFINE r == Nth(1)
<1>1. r \in Operand /\ r # Num /\ r \in Address
  BY OneOperand DEF Assign, AreStrings, Operand
<1>2. get_string(r) \in Strings
  BY <1>1, StringsRead
<1>3. \A C : Cleared(C) \in [Chunks -> Strings]
  BY EmptyIsString DEF Cleared, TypeInv
<1>4. Released(v) \subseteq Chunks
  BY DEF Released, TypeInv
<1>5. /\ heap' \in [Chunks -> Strings] /\ owned' \subseteq Chunks
      /\ variables' \in [Vars -> {a \in Address : ~IsTemp(a)}]
  <2>1. CASE Shared(r)
    BY <1>1, <1>3, <1>4, <2>1 DEF Assign, Shared, TypeInv
  <2>2. CASE ~Shared(r)
    <3>1. Room(v, r) \subseteq Chunks
      BY <1>1, HeapOperand DEF Room
    <3>2. PICK c \in Room(v, r) :
             /\ heap' = [Cleared(Released(v)) EXCEPT ![c] = get_string(r)]
             /\ owned' = Released(v) \cup {c}
             /\ variables' = [variables EXCEPT ![v] = Chunk(c)]
      BY <2>2 DEF Assign
    <3>3. Chunk(c) \in Address /\ ~IsTemp(Chunk(c)) /\ c \in Chunks
      BY <3>1, Members, Kinds
    <3>4. heap' \in [Chunks -> Strings]
      BY <1>2, <1>3, <3>2, <3>3
    <3> QED BY <1>4, <3>2, <3>3, <3>4 DEF TypeInv
  <2> QED BY <2>1, <2>2
<1>6. exp' \in Seq(Operand) /\ temps' \in 0 .. 2
  BY EmptySeq DEF Assign
<1> QED BY <1>5, <1>6 DEF Assign, TypeInv

LEMMA ArgumentsSeq ==
  ASSUME TypeInv, NEW n \in Nat, n <= Len(exp)
  PROVE  /\ [i \in 1 .. n |-> exp[Len(exp) - n + i]] \in Seq(Operand)
         /\ \A i \in 1 .. n : Len(exp) - n + i \in 1 .. Len(exp)
<1>1. exp \in Seq(Operand) /\ Len(exp) \in Nat
  BY LenProperties DEF TypeInv
<1>2. \A i \in 1 .. n : Len(exp) - n + i \in 1 .. Len(exp)
  BY <1>1
<1>3. \A i \in 1 .. n : exp[Len(exp) - n + i] \in Operand
  BY <1>1, <1>2, ElementOfSeq
<1> QED BY <1>2, <1>3, SeqDef

LEMMA CallTypes ==
  ASSUME TypeInv, NEW n \in Nat, Call(n)
  PROVE  TypeInv'
<1>1. n <= Len(exp)
  BY DEF Call
<1>2. [exp |-> Without(n), params |-> params, temps |-> CountAfter(Without(n))] \in Frame
  BY <1>1, WithoutSeq, CountBounded DEF Frame, TypeInv
<1>3. callers' \in Seq(Frame)
  BY <1>2, AppendSeq DEF Call, TypeInv
<1>4. params' \in Seq(Operand)
  BY <1>1, ArgumentsSeq DEF Call
<1>5. exp' \in Seq(Operand) /\ temps' \in 0 .. 2
  BY EmptySeq DEF Call
<1> QED BY <1>3, <1>4, <1>5 DEF Call, TypeInv, memory

LEMMA ReturnTypes ==
  ASSUME TypeInv, Return
  PROVE  TypeInv'
<1>1. Last(callers) \in Frame /\ Front(callers) \in Seq(Frame)
  BY LastCaller DEF Return, TypeInv
<1>2. Last(callers).exp \o exp \in Seq(Operand)
  BY <1>1, ConcatProperties DEF TypeInv, Frame
<1> DEFINE more == IF \E r \in ToSet(exp) : IsTemp(r) THEN 1 ELSE 0
<1>5. more \in 0 .. 1 /\ Last(callers).temps \in 0 .. 2
  BY <1>1 DEF Frame
<1>3. TempsBack \in Nat
  <2> HIDE DEF more
  <2>1. TempsBack = Last(callers).temps + more
    BY DEF TempsBack, more
  <2> QED BY <1>5, <2>1
<1>4. temps' \in 0 .. 2
  BY <1>3 DEF Return
<1> QED BY <1>1, <1>2, <1>4 DEF Return, TypeInv, memory, Frame

LEMMA StepTypes == TypeInv /\ [Next]_vars => TypeInv'
<1> SUFFICES ASSUME TypeInv, [Next]_vars PROVE TypeInv'
  OBVIOUS
<1>1. CASE Operators
  BY <1>1, ConcatTypes, PartTypes, MeasureTypes DEF Operators
<1>2. CASE Sources
  BY <1>2, FromNumTypes, FromHostTypes DEF Sources
<1>3. CASE Pushes
  BY <1>3, PushTypes DEF Pushes
<1>4. CASE Uses
  BY <1>4, PrintfTypes, AssignTypes DEF Uses
<1>5. CASE Calls
  <2>1. \A n \in 0 .. MaxOperands : n \in Nat
    BY StringsAssumption
  <2> QED BY <1>5, <2>1, CallTypes, ReturnTypes DEF Calls
<1>6. CASE UNCHANGED vars
  BY <1>6 DEF vars, memory, TypeInv
<1> QED BY <1>1, <1>2, <1>3, <1>4, <1>5, <1>6 DEF Next

LEMMA TypesAlways == Spec => []TypeInv
BY InitTypes, StepTypes, PTL DEF Spec

(* Whatever the programs do, addresses stay addresses of a constant, a     *)
(* buffer or a chunk, and what a buffer or a chunk holds fits into it.     *)
THEOREM TypeCorrect == Spec => []TypeOK
<1>1. TypeInv => TypeOK
  <2> SUFFICES ASSUME TypeInv PROVE TypeOK
    OBVIOUS
  <2>1. ToSet(exp) \cup ToSet(params) \subseteq Operand
    BY InMembers DEF TypeInv
  <2>2. \A i \in DOMAIN callers : callers[i] \in Frame
    BY LenProperties, ElementOfSeq DEF TypeInv
  <2>3. \A i \in DOMAIN callers :
          ToSet(callers[i].exp) \cup ToSet(callers[i].params) \subseteq Operand
    BY <2>2, InMembers DEF Frame
  <2> QED BY <2>1, <2>3 DEF TypeInv, TypeOK
<1> QED BY <1>1, TypesAlways, PTL

-----------------------------------------------------------------------------
(* The addresses on the stacks.                                            *)

Held == ToSet(params)
        \cup UNION {ToSet(callers[i].exp) \cup ToSet(callers[i].params) :
                      i \in DOMAIN callers}
OnStacks == ToSet(exp) \cup Held

LEMMA InToSet ==
  ASSUME NEW S, NEW s \in Seq(S)
  PROVE  \A r : r \in ToSet(s) <=> \E i \in 1 .. Len(s) : r = s[i]
BY LenProperties DEF ToSet

LEMMA SetOfEmpty == ToSet(<<>>) = {}
BY EmptySeq DEF ToSet

LEMMA SetOfAppend ==
  ASSUME NEW S, NEW s \in Seq(S), NEW r \in S
  PROVE  ToSet(Append(s, r)) = ToSet(s) \cup {r}
<1> DEFINE t == Append(s, r)
<1>1. /\ t \in Seq(S) /\ Len(t) = Len(s) + 1 /\ Len(s) \in Nat
      /\ \A i \in 1 .. Len(s) : t[i] = s[i]
      /\ t[Len(s) + 1] = r
  BY AppendSeq
<1> HIDE DEF t
<1>2. ASSUME NEW x \in ToSet(t) PROVE x \in ToSet(s) \cup {r}
  <2>1. PICK i \in 1 .. Len(t) : x = t[i]
    BY <1>1, <1>2, InToSet
  <2>2. i \in 1 .. Len(s) \/ i = Len(s) + 1
    BY <1>1
  <2> QED BY <1>1, <2>1, <2>2, InToSet
<1>3. ASSUME NEW x \in ToSet(s) PROVE x \in ToSet(t)
  <2>1. PICK i \in 1 .. Len(s) : x = s[i]
    BY <1>3, InToSet
  <2>2. i \in 1 .. Len(t) /\ x = t[i]
    BY <1>1, <2>1
  <2> QED BY <1>1, <2>2, InToSet
<1>4. r \in ToSet(t)
  <2>1. Len(s) + 1 \in 1 .. Len(t)
    BY <1>1
  <2> QED BY <1>1, <2>1, InToSet
<1>5. ToSet(t) = ToSet(s) \cup {r}
  BY <1>2, <1>3, <1>4
<1> QED BY <1>5 DEF t

LEMMA SetOfWithout ==
  ASSUME TypeInv, NEW n \in Nat, n <= Len(exp)
  PROVE  ToSet(Without(n)) \subseteq ToSet(exp)
<1> SUFFICES ASSUME NEW x \in ToSet(Without(n)) PROVE x \in ToSet(exp)
  OBVIOUS
<1>1. exp \in Seq(Operand)
  BY DEF TypeInv
<1>2. PICK i \in 1 .. Len(Without(n)) : x = Without(n)[i]
  BY WithoutSeq, InToSet
<1>3. i \in 1 .. Len(exp) /\ x = exp[i]
  BY <1>2, WithoutSeq
<1> QED BY <1>1, <1>3, InToSet

LEMMA SetOfConcat ==
  ASSUME NEW S, NEW s \in Seq(S), NEW t \in Seq(S)
  PROVE  ToSet(s \o t) \subseteq ToSet(s) \cup ToSet(t)
<1> DEFINE u == s \o t
<1>1. /\ u \in Seq(S) /\ Len(u) = Len(s) + Len(t)
      /\ Len(s) \in Nat /\ Len(t) \in Nat
      /\ \A i \in 1 .. Len(s) + Len(t) :
           u[i] = IF i <= Len(s) THEN s[i] ELSE t[i - Len(s)]
  BY ConcatProperties, LenProperties
<1> HIDE DEF u
<1>2. ASSUME NEW x \in ToSet(u) PROVE x \in ToSet(s) \cup ToSet(t)
  <2>1. PICK i \in 1 .. Len(s) + Len(t) : x = u[i]
    BY <1>1, <1>2, InToSet
  <2>2. CASE i <= Len(s)
    <3>1. i \in 1 .. Len(s) /\ x = s[i]
      BY <1>1, <2>1, <2>2
    <3> QED BY <3>1, InToSet
  <2>3. CASE ~(i <= Len(s))
    <3>1. i - Len(s) \in 1 .. Len(t) /\ x = t[i - Len(s)]
      BY <1>1, <2>1, <2>3
    <3> QED BY <3>1, InToSet
  <2> QED BY <2>2, <2>3
<1> QED BY <1>2 DEF u

LEMMA HeldIn ==
  ASSUME TypeInv
  PROVE  \A r : r \in Held <=>
           \/ r \in ToSet(params)
           \/ \E i \in 1 .. Len(callers) :
                r \in ToSet(callers[i].exp) \/ r \in ToSet(callers[i].params)
<1>1. DOMAIN callers = 1 .. Len(callers)
  BY LenProperties DEF TypeInv
<1> QED BY <1>1 DEF Held

LEMMA HeldNext ==
  ASSUME TypeInv'
  PROVE  \A r : r \in Held' <=>
           \/ r \in ToSet(params')
           \/ \E i \in 1 .. Len(callers') :
                r \in ToSet(callers'[i].exp) \/ r \in ToSet(callers'[i].params)
<1>1. callers' \in Seq(Frame)
  BY DEF TypeInv, Frame, Operand, Address, Num, Code, Buf, Chunk, Ref
<1>2. DOMAIN callers' = 1 .. Len(callers')
  BY <1>1, LenProperties
<1> QED BY <1>2 DEF Held, ToSet

LEMMA StackOperands ==
  ASSUME TypeInv
  PROVE  OnStacks \subseteq Operand
<1>1. \A i \in 1 .. Len(callers) : callers[i] \in Frame
  BY ElementOfSeq DEF TypeInv
<1>2. \A i \in 1 .. Len(callers) :
        callers[i].exp \in Seq(Operand) /\ callers[i].params \in Seq(Operand)
  BY <1>1 DEF Frame
<1>3. Held \subseteq Operand
  BY <1>2, HeldIn, InMembers DEF TypeInv
<1> QED BY <1>3, InMembers DEF OnStacks, TypeInv

LEMMA WaitingIs ==
  ASSUME TypeInv
  PROVE  /\ Waiting(0) = OnStacks
         /\ Len(exp) = 1 => Waiting(1) = Held
<1>1. Without(0) = exp
  <2>1. exp \in Seq(Operand) /\ Len(exp) \in Nat
    BY LenProperties DEF TypeInv
  <2>2. Len(exp) - 0 = Len(exp)
    BY <2>1
  <2>3. SubSeq(exp, 1, Len(exp)) = exp
    BY <2>1, SubSeqFull
  <2> QED BY <2>2, <2>3 DEF Without
<1>2. Len(exp) = 1 => ToSet(Without(1)) = {}
  BY OneOperand, SetOfEmpty
<1> QED BY <1>1, <1>2 DEF Waiting, OnStacks, Held

(* The addresses of the instructions that call no function and assign      *)
(* nothing: what was there, a constant, a buffer, or the string of a       *)
(* variable.                                                               *)
LEMMA ExpressionStacks ==
  ASSUME TypeInv, UNCHANGED <<params, callers>>,
         NEW r \in Operand, NEW n \in Nat, n <= Len(exp),
         exp' = Append(Without(n), r)
  PROVE  OnStacks' \subseteq OnStacks \cup {r}
<1>1. Held' = Held
  BY DEF Held
<1>2. ToSet(exp') = ToSet(Without(n)) \cup {r}
  BY WithoutSeq, SetOfAppend
<1> QED BY <1>1, <1>2, SetOfWithout DEF OnStacks

-----------------------------------------------------------------------------
(* Chunks.                                                                 *)

(* A chunk is allocated if and only if a variable has it; no two variables *)
(* have the same; and no address on the stacks is of a free one.           *)
ChunkInv ==
  /\ \A c : c \in owned <=> \E v \in Vars : variables[v] = Chunk(c)
  /\ \A v, w \in Vars : v # w => \A c : ~(variables[v] = Chunk(c) /\ variables[w] = Chunk(c))
  /\ \A r \in OnStacks : IsHeap(r) => r.id \in owned

LEMMA HeapVariable ==
  ASSUME TypeInv, NEW v \in Vars, IsHeap(variables[v])
  PROVE  variables[v] = Chunk(variables[v].id)
BY VariableOperand, HeapOperand

LEMMA SameChunk ==
  ASSUME NEW c, NEW d, Chunk(c) = Chunk(d)
  PROVE  c = d
BY Kinds

(* As long as no variable is assigned, an address on the stacks that is    *)
(* not new is of a chunk that still belongs to a variable.                 *)
LEMMA SameChunks ==
  ASSUME TypeInv, ChunkInv, UNCHANGED <<variables, owned>>,
         \A r \in OnStacks' : \/ r \in OnStacks \/ ~IsHeap(r)
                              \/ \E v \in Vars : r = variables[v]
  PROVE  ChunkInv'
<1>1. \A r \in OnStacks' : IsHeap(r) => r.id \in owned
  <2> SUFFICES ASSUME NEW r \in OnStacks', IsHeap(r) PROVE r.id \in owned
    OBVIOUS
  <2>1. CASE r \in OnStacks
    BY <2>1 DEF ChunkInv
  <2>2. CASE \E v \in Vars : r = variables[v]
    <3>1. PICK v \in Vars : r = variables[v]
      BY <2>2
    <3>2. variables[v] = Chunk(r.id)
      BY <3>1, HeapVariable
    <3> QED BY <3>2 DEF ChunkInv
  <2> QED BY <2>1, <2>2
<1>2. \A c : c \in owned <=> \E v \in Vars : variables[v] = Chunk(c)
  BY DEF ChunkInv
<1>3. \A v, w \in Vars : v # w =>
        \A c : ~(variables[v] = Chunk(c) /\ variables[w] = Chunk(c))
  BY DEF ChunkInv
<1>4. \A c : c \in owned' <=> \E v \in Vars : variables'[v] = Chunk(c)
  BY <1>2
<1>5. \A v, w \in Vars : v # w =>
        \A c : ~(variables'[v] = Chunk(c) /\ variables'[w] = Chunk(c))
  BY <1>3
<1>6. \A r \in OnStacks' : IsHeap(r) => r.id \in owned'
  BY <1>1
<1> QED BY <1>4, <1>5, <1>6 DEF ChunkInv, Chunk, Ref, IsHeap

LEMMA InitChunks == Init => ChunkInv
<1> SUFFICES ASSUME Init PROVE ChunkInv
  OBVIOUS
<1>1. \A v \in Vars : \A c : variables[v] # Chunk(c)
  <2>1. \A v \in Vars : variables[v] = Code(<<>>)
    BY DEF Init
  <2> QED BY <2>1, Kinds DEF IsHeap
<1>2. OnStacks = {}
  <2>1. TypeInv
    BY InitTypes
  <2>2. exp = <<>> /\ params = <<>> /\ callers = <<>>
    BY DEF Init
  <2>3. ToSet(exp) = {} /\ ToSet(params) = {}
    BY <2>2, SetOfEmpty
  <2>4. Len(callers) = 0
    BY <2>2, EmptySeq
  <2>5. \A i \in 1 .. Len(callers) : FALSE
    BY <2>4
  <2> QED BY <2>1, <2>3, <2>5, HeldIn DEF OnStacks
<1>3. owned = {}
  BY Zenon DEF Init
<1> QED BY <1>1, <1>2, <1>3 DEF ChunkInv

LEMMA TemporaryChunks ==
  ASSUME TypeInv, ChunkInv, NEW n \in Nat, n <= Len(exp), NEW s, NEW t,
         Temporary(n, s, t)
  PROVE  ChunkInv'
<1>1. Buf(NextBuf) \in Operand /\ ~IsHeap(Buf(NextBuf))
  BY Members, Kinds DEF NextBuf
<1>2. OnStacks' \subseteq OnStacks \cup {Buf(NextBuf)}
  BY <1>1, ExpressionStacks DEF Temporary
<1> QED BY <1>1, <1>2, SameChunks DEF Temporary

LEMMA PushChunks ==
  ASSUME TypeInv, ChunkInv, NEW r \in Operand, Push(r)
  PROVE  ChunkInv'
<1>1. Len(exp) - 0 = Len(exp) /\ Len(exp) \in Nat /\ exp \in Seq(Operand)
  BY LenProperties DEF TypeInv
<1>2. ToSet(exp') = ToSet(exp) \cup {r} /\ Held' = Held
  BY <1>1, SetOfAppend DEF Push, Held
<1>3. OnStacks' \subseteq OnStacks \cup {r}
  BY <1>2 DEF OnStacks
<1>4. \/ ~IsHeap(r) \/ r \in OnStacks
      \/ \E v \in Vars : r = variables[v]
  BY Kinds DEF Push, OnStacks, Held
<1>5. UNCHANGED <<variables, owned>>
  BY DEF Push, memory
<1> QED BY <1>3, <1>4, <1>5, SameChunks

LEMMA MeasureChunks ==
  ASSUME TypeInv, ChunkInv, NEW n \in 1 .. 2, Measure(n)
  PROVE  ChunkInv'
<1>1. OnStacks' \subseteq OnStacks \cup {Num}
  BY Members, ExpressionStacks DEF Measure, AreStrings
<1> QED BY <1>1, Kinds, SameChunks DEF Measure, memory

LEMMA PrintfChunks ==
  ASSUME TypeInv, ChunkInv, Printf
  PROVE  ChunkInv'
<1>1. ToSet(exp') = {} /\ Held' = Held
  BY SetOfEmpty DEF Printf, Held
<1>2. OnStacks' \subseteq OnStacks
  BY <1>1 DEF OnStacks
<1> QED BY <1>2, SameChunks DEF Printf, memory

LEMMA CallStacks ==
  ASSUME TypeInv, NEW n \in Nat, Call(n)
  PROVE  OnStacks' \subseteq OnStacks
<1>1. TypeInv' /\ n <= Len(exp)
  BY CallTypes DEF Call
<1> DEFINE f == [exp |-> Without(n), params |-> params, temps |-> CountAfter(Without(n))]
<1>2. f \in Frame /\ callers \in Seq(Frame)
  BY <1>1, WithoutSeq, CountBounded DEF Frame, TypeInv
<1>3. callers' = Append(callers, f) /\ f.exp = Without(n) /\ f.params = params
  BY DEF Call
<1>4. ToSet(exp') = {}
  BY SetOfEmpty DEF Call
<1>5. ToSet(params') \subseteq ToSet(exp)
  <2> SUFFICES ASSUME NEW x \in ToSet(params') PROVE x \in ToSet(exp)
    OBVIOUS
  <2>1. params' = [i \in 1 .. n |-> exp[Len(exp) - n + i]]
    BY DEF Call
  <2>2. PICK i \in 1 .. n : x = exp[Len(exp) - n + i]
    BY <2>1 DEF ToSet
  <2>3. Len(exp) - n + i \in 1 .. Len(exp) /\ exp \in Seq(Operand)
    BY <1>1, ArgumentsSeq DEF TypeInv
  <2> QED BY <2>2, <2>3, InToSet
<1> HIDE DEF f
<1>6. ASSUME NEW r \in OnStacks' PROVE r \in OnStacks
  <2>1. CASE r \in ToSet(params')
    BY <1>5, <2>1 DEF OnStacks
  <2>2. ASSUME NEW i \in 1 .. Len(callers'),
               r \in ToSet(callers'[i].exp) \/ r \in ToSet(callers'[i].params)
        PROVE  r \in OnStacks
    <3>1. (i \in 1 .. Len(callers) /\ callers'[i] = callers[i]) \/ callers'[i] = f
      BY <1>2, <1>3, AppendSeq
    <3>2. CASE callers'[i] = f
      BY <1>1, <1>3, <2>2, <3>2, SetOfWithout DEF OnStacks, Held
    <3>3. CASE i \in 1 .. Len(callers) /\ callers'[i] = callers[i]
      BY <2>2, <3>3, HeldIn DEF OnStacks
    <3> QED BY <3>1, <3>2, <3>3
  <2>3. r \in ToSet(exp') \/ r \in Held'
    BY <1>6 DEF OnStacks, ToSet
  <2> QED BY <1>1, <1>4, <2>1, <2>2, <2>3, HeldNext
<1> QED BY <1>6

LEMMA ReturnStacks ==
  ASSUME TypeInv, Return
  PROVE  /\ Held' \subseteq Held
         /\ ToSet(Last(callers).exp) \subseteq Held
         /\ Last(callers) \in Frame
         /\ Last(callers).exp \in Seq(Operand) /\ exp \in Seq(Operand)
<1>1. TypeInv' /\ callers \in Seq(Frame) /\ callers # <<>>
  BY ReturnTypes DEF Return, TypeInv
<1>2. /\ Last(callers) \in Frame /\ Len(callers) \in 1 .. Len(callers)
      /\ Last(callers) = callers[Len(callers)]
      /\ Len(callers') = Len(callers) - 1 /\ Len(callers) \in Nat
      /\ \A i \in 1 .. Len(callers) - 1 : callers'[i] = callers[i]
  BY <1>1, LastCaller DEF Return, Last
<1>3. ToSet(Last(callers).exp) \cup ToSet(Last(callers).params) \subseteq Held
  BY <1>2, HeldIn
<1>4. ToSet(params') \subseteq Held
  BY <1>3 DEF Return
<1>5. ASSUME NEW r \in Held' PROVE r \in Held
  <2>1. ASSUME NEW i \in 1 .. Len(callers'),
               r \in ToSet(callers'[i].exp) \/ r \in ToSet(callers'[i].params)
        PROVE  r \in Held
    <3>1. i \in 1 .. Len(callers) /\ callers'[i] = callers[i]
      BY <1>2
    <3> QED BY <2>1, <3>1, HeldIn
  <2> QED BY <1>1, <1>4, <1>5, <2>1, HeldNext
<1>6. Last(callers).exp \in Seq(Operand) /\ exp \in Seq(Operand)
  BY <1>2 DEF Frame, TypeInv
<1> QED BY <1>2, <1>3, <1>5, <1>6

LEMMA CallChunks ==
  ASSUME TypeInv, ChunkInv, NEW n \in Nat, Call(n)
  PROVE  ChunkInv'
<1>1. UNCHANGED <<variables, owned>>
  BY DEF Call, memory
<1> QED BY <1>1, CallStacks, SameChunks

LEMMA ReturnChunks ==
  ASSUME TypeInv, ChunkInv, Return
  PROVE  ChunkInv'
<1>1. ToSet(exp') \subseteq ToSet(Last(callers).exp) \cup ToSet(exp)
  BY ReturnStacks, SetOfConcat DEF Return
<1>2. OnStacks' \subseteq ToSet(exp') \cup Held'
  BY DEF OnStacks, ToSet
<1>3. OnStacks' \subseteq OnStacks
  BY <1>1, <1>2, ReturnStacks DEF OnStacks
<1>4. UNCHANGED <<variables, owned>>
  BY DEF Return, memory
<1> QED BY <1>3, <1>4, SameChunks

(* What is left allocated when a variable gives its chunk up belongs to    *)
(* the other variables, and everything on the stacks is of it, unless the  *)
(* string of that variable waits there.                                    *)
LEMMA ReleasedOthers ==
  ASSUME TypeInv, ChunkInv, NEW v \in Vars
  PROVE  \A c : c \in Released(v) <=> \E w \in Vars \ {v} : variables[w] = Chunk(c)
<1>1. CASE IsHeap(variables[v])
  <2>1. PICK d : variables[v] = Chunk(d)
    BY <1>1, HeapVariable
  <2>2. \A c : c \in Released(v) <=> c \in owned /\ c # d
    BY <1>1, <2>1, Kinds DEF Released
  <2>3. \A c : c # d => Chunk(c) # variables[v]
    BY <2>1, SameChunk
  <2>4. \A w \in Vars \ {v} : variables[w] # Chunk(d)
    BY <2>1 DEF ChunkInv
  <2>5. ASSUME NEW c, c \in Released(v)
        PROVE  \E w \in Vars \ {v} : variables[w] = Chunk(c)
    <3>1. c \in owned /\ c # d
      BY <2>2, <2>5
    <3>2. PICK w \in Vars : variables[w] = Chunk(c)
      BY <3>1 DEF ChunkInv
    <3>3. w # v
      BY <3>1, <3>2, <2>3
    <3> QED BY <3>2, <3>3
  <2>6. ASSUME NEW c, NEW w \in Vars \ {v}, variables[w] = Chunk(c)
        PROVE  c \in Released(v)
    <3>1. c \in owned
      BY <2>6 DEF ChunkInv
    <3>2. c # d
      BY <2>4, <2>6
    <3> QED BY <2>2, <3>1, <3>2
  <2> QED BY <2>5, <2>6
<1>2. CASE ~IsHeap(variables[v])
  <2>1. Released(v) = owned /\ \A c : variables[v] # Chunk(c)
    BY <1>2, Kinds DEF Released
  <2> QED BY <2>1 DEF ChunkInv
<1> QED BY <1>1, <1>2

LEMMA HeldKept ==
  ASSUME TypeInv, ChunkInv, NEW v \in Vars, Assign(v), "reassign" \notin Habits
  PROVE  \A x \in Held : IsHeap(x) => x.id \in Released(v)
<1> SUFFICES ASSUME NEW x \in Held, IsHeap(x) PROVE x.id \in Released(v)
  OBVIOUS
<1>1. Waiting(1) = Held
  BY WaitingIs DEF Assign
<1>2. x.id \in owned /\ x \in Operand
  BY StackOperands DEF ChunkInv, OnStacks
<1>3. x = Chunk(x.id)
  BY <1>2, HeapOperand
<1>4. CASE IsHeap(variables[v])
  <2>1. variables[v] # x
    BY <1>1, <1>4 DEF Assign
  <2>2. variables[v].id # x.id
    BY <1>3, <1>4, <2>1, HeapVariable
  <2> QED BY <1>2, <1>4, <2>2 DEF Released
<1> QED BY <1>2, <1>4 DEF Released

LEMMA RoomFree ==
  ASSUME TypeInv, NEW v \in Vars, NEW r \in Operand, NEW c \in Room(v, r)
  PROVE  c \in Chunks /\ c \notin Released(v)
<1>1. CASE IsHeap(r) /\ variables[v] = r
  BY <1>1, HeapOperand DEF Room, Released
<1>2. CASE ~(IsHeap(r) /\ variables[v] = r)
  BY <1>2 DEF Room
<1> QED BY <1>1, <1>2

LEMMA AssignStacks ==
  ASSUME NEW v \in Vars, Assign(v)
  PROVE  OnStacks' = Held /\ Held' = Held
<1>1. ToSet(exp') = {} /\ Held' = Held
  BY SetOfEmpty DEF Assign, Held
<1> QED BY <1>1 DEF OnStacks

LEMMA AssignChunks ==
  ASSUME TypeInv, ChunkInv, NEW v \in Vars, Assign(v), "reassign" \notin Habits
  PROVE  ChunkInv'
<1> DEFINE r == Nth(1)
<1>1. r \in Operand
  BY OneOperand DEF Assign
<1>2. \A c : c \in Released(v) <=> \E w \in Vars \ {v} : variables[w] = Chunk(c)
  BY ReleasedOthers
<1>3. \A x \in OnStacks' : IsHeap(x) => x.id \in Released(v)
  BY AssignStacks, HeldKept
<1>4. \A w, u \in Vars \ {v} : w # u =>
        \A c : ~(variables[w] = Chunk(c) /\ variables[u] = Chunk(c))
  BY DEF ChunkInv
<1>5. CASE Shared(r)
  <2>1. owned' = Released(v) /\ variables' = [variables EXCEPT ![v] = r]
    BY <1>5 DEF Assign
  <2>2. variables'[v] = r /\ \A w \in Vars \ {v} : variables'[w] = variables[w]
    BY <2>1 DEF TypeInv
  <2>3. \A c : r # Chunk(c)
    BY <1>5, Kinds DEF Shared
  <2>4. \A c : c \in owned' <=> \E w \in Vars : variables'[w] = Chunk(c)
    BY <1>2, <2>1, <2>2, <2>3
  <2>5. \A w, u \in Vars : w # u =>
          \A c : ~(variables'[w] = Chunk(c) /\ variables'[u] = Chunk(c))
    BY <1>4, <2>2, <2>3
  <2>6. \A x \in OnStacks' : IsHeap(x) => x.id \in owned'
    BY <1>3, <2>1
  <2> QED BY <2>4, <2>5, <2>6 DEF ChunkInv, Chunk, Ref, IsHeap
<1>6. CASE ~Shared(r)
  <2>1. PICK c \in Room(v, r) :
          /\ owned' = Released(v) \cup {c}
          /\ variables' = [variables EXCEPT ![v] = Chunk(c)]
    BY <1>6 DEF Assign
  <2>2. c \notin Released(v)
    BY <1>1, RoomFree
  <2>3. variables'[v] = Chunk(c) /\ \A w \in Vars \ {v} : variables'[w] = variables[w]
    BY <2>1 DEF TypeInv
  <2>4. \A w \in Vars \ {v} : variables[w] # Chunk(c)
    BY <1>2, <2>2
  <2>5. \A d : d \in owned' <=> \E w \in Vars : variables'[w] = Chunk(d)
    <3>1. \A d : Chunk(d) = Chunk(c) => d = c
      BY SameChunk
    <3> QED BY <1>2, <2>1, <2>3, <3>1
  <2>6. \A w, u \in Vars : w # u =>
          \A d : ~(variables'[w] = Chunk(d) /\ variables'[u] = Chunk(d))
    BY <1>4, <2>3, <2>4
  <2>7. \A x \in OnStacks' : IsHeap(x) => x.id \in owned'
    BY <1>3, <2>1
  <2> QED BY <2>5, <2>6, <2>7 DEF ChunkInv, Chunk, Ref, IsHeap
<1> QED BY <1>5, <1>6

LEMMA StepChunks ==
  ASSUME TypeInv, ChunkInv, [Next]_vars, "reassign" \notin Habits
  PROVE  ChunkInv'
<1>0. temps + 1 \in Nat /\ Len(exp) \in Nat
  BY LenProperties DEF TypeInv
<1>1. CASE Operators
  <2>1. ASSUME Concat PROVE ChunkInv'
    BY <1>0, <2>1, TemporaryChunks DEF Concat, AreStrings
  <2>2. ASSUME Part PROVE ChunkInv'
    BY <1>0, <2>2, TemporaryChunks DEF Part
  <2> QED BY <1>1, <2>1, <2>2, MeasureChunks DEF Operators
<1>2. CASE Sources
  <2>1. ASSUME NEW s \in Made, FromNum(s) PROVE ChunkInv'
    BY <1>0, <2>1, TemporaryChunks DEF FromNum
  <2>2. ASSUME NEW s \in Made, FromHost(s) PROVE ChunkInv'
    BY <1>0, <2>2, TemporaryChunks DEF FromHost, AreStrings
  <2> QED BY <1>2, <2>1, <2>2 DEF Sources
<1>3. CASE Pushes
  BY <1>3, PushChunks DEF Pushes
<1>4. CASE Uses
  BY <1>4, PrintfChunks, AssignChunks DEF Uses
<1>5. CASE Calls
  <2>1. \A n \in 0 .. MaxOperands : n \in Nat
    BY StringsAssumption
  <2> QED BY <1>5, <2>1, CallChunks, ReturnChunks DEF Calls
<1>6. CASE UNCHANGED vars
  <2>1. OnStacks' = OnStacks
    BY <1>6 DEF vars, OnStacks, Held
  <2> QED BY <1>6, <2>1, SameChunks DEF vars, memory
<1> QED BY <1>1, <1>2, <1>3, <1>4, <1>5, <1>6 DEF Next

LEMMA ChunksAlways ==
  ASSUME "reassign" \notin Habits
  PROVE  Spec => [](TypeInv /\ ChunkInv)
<1>1. TypeInv /\ ChunkInv /\ [Next]_vars => (TypeInv /\ ChunkInv)'
  BY StepTypes, StepChunks
<1> QED BY <1>1, InitTypes, InitChunks, PTL DEF Spec

(* As long as no variable is assigned while its string waits, each chunk   *)
(* belongs to one variable, realloc_string loses none and frees none twice,*)
(* and no address on the stacks is of a chunk that was freed.              *)
THEOREM ChunksCorrect ==
  ASSUME "reassign" \notin Habits
  PROVE  Spec => []ChunksOwned
<1>1. TypeInv /\ ChunkInv => ChunksOwned
  <2> SUFFICES ASSUME TypeInv, ChunkInv PROVE ChunksOwned
    OBVIOUS
  <2>1. \A c : c \in owned <=>
          \E v \in Vars : IsHeap(variables[v]) /\ c = variables[v].id
    <3>1. \A v \in Vars : \A c : variables[v] = Chunk(c) <=>
            IsHeap(variables[v]) /\ c = variables[v].id
      BY HeapVariable, Kinds
    <3> QED BY <3>1 DEF ChunkInv
  <2>2. \A v, w \in Vars : v # w /\ IsHeap(variables[v]) => variables[v] # variables[w]
    BY HeapVariable DEF ChunkInv
  <2>3. \A r \in Waiting(0) : IsHeap(r) => r.id \in owned
    BY WaitingIs DEF ChunkInv
  <2>4. owned = {variables[v].id : v \in {w \in Vars : IsHeap(variables[w])}}
    BY <2>1
  <2> QED BY <2>2, <2>3, <2>4 DEF ChunksOwned
<1> QED BY <1>1, ChunksAlways, PTL

-----------------------------------------------------------------------------
(* Temporary strings, for programs that keep to all the rules.             *)

Careful == Habits = {}
LastBuf == IF strbuf1_used THEN 1 ELSE 2

(* None waits while a function runs.  Among the operands there are only as *)
(* many as the statement has made, no buffer holds two of them, and the    *)
(* one in the buffer that comes next is not the last operand.              *)
TempInv ==
  /\ NoTemps(Held)
  /\ \A i \in 1 .. Len(exp) : IsTemp(exp[i]) =>
       /\ temps > 0
       /\ temps = 1 => exp[i] = Buf(LastBuf)
       /\ exp[i] = Buf(NextBuf) => i < Len(exp)
       /\ \A j \in 1 .. Len(exp) : i # j => exp[i] # exp[j]

LEMMA TwoBuffers ==
  ASSUME TypeInv
  PROVE  /\ NextBuf # LastBuf /\ Buf(NextBuf) # Buf(LastBuf)
         /\ \A r \in Operand : IsTemp(r) => r = Buf(NextBuf) \/ r = Buf(LastBuf)
         /\ NextBuf \in 1 .. 2 /\ LastBuf \in 1 .. 2
         /\ Buf(NextBuf) \in Operand /\ IsTemp(Buf(NextBuf)) /\ Buf(NextBuf) # Num
<1>1. NextBuf # LastBuf /\ NextBuf \in 1 .. 2 /\ LastBuf \in 1 .. 2
      /\ (NextBuf = 1 \/ NextBuf = 2) /\ (LastBuf = 1 \/ LastBuf = 2)
  BY DEF NextBuf, LastBuf
<1>2. Buf(NextBuf) # Buf(LastBuf)
  BY <1>1, Kinds
<1>3. \A r \in Operand : IsTemp(r) => r = Buf(NextBuf) \/ r = Buf(LastBuf)
  BY <1>1, TempOperand
<1> QED BY <1>1, <1>2, <1>3, Kinds, Members

LEMMA OperandAt ==
  ASSUME TypeInv
  PROVE  /\ exp \in Seq(Operand) /\ Len(exp) \in Nat
         /\ \A i \in 1 .. Len(exp) : exp[i] \in Operand
BY LenProperties, ElementOfSeq DEF TypeInv

LEMMA NewOperand ==
  ASSUME TypeInv, NEW n \in Nat, n <= Len(exp), NEW r \in Operand,
         exp' = Append(Without(n), r)
  PROVE  /\ Len(exp') = Len(exp) - n + 1 /\ exp'[Len(exp) - n + 1] = r
         /\ \A i \in 1 .. Len(exp) - n : exp'[i] = exp[i]
<1> DEFINE k == Len(exp) - n
<1>1. /\ Without(n) \in Seq(Operand) /\ Len(Without(n)) = k
      /\ \A i \in 1 .. k : Without(n)[i] = exp[i]
  BY WithoutSeq
<1> HIDE DEF k
<1>2. /\ Len(exp') = k + 1 /\ exp'[k + 1] = r
      /\ \A i \in 1 .. k : exp'[i] = exp[i]
  BY <1>1, AppendSeq
<1> QED BY <1>2 DEF k

(* The count of a statement that makes a temporary string: it is one more, *)
(* or the only one, when it takes the place of two.                        *)
NewCount(n, t) ==
  \/ t = temps + 1
  \/ n = 2 /\ t = 1 /\ 2 <= Len(exp) /\ IsTemp(Nth(1)) /\ IsTemp(Nth(2))

(* The string that is made does not overwrite an operand that stays.       *)
LEMMA BufferFree ==
  ASSUME Careful, TypeInv, TempInv, NEW n \in Nat, n <= Len(exp),
         NEW s, NEW t \in Nat, NewCount(n, t), Temporary(n, s, t)
  PROVE  /\ t \in 1 .. 2 /\ temps' = t
         /\ \A i \in 1 .. Len(exp) - n :
              exp[i] # Buf(NextBuf) /\ (t = 1 => ~IsTemp(exp[i]))
<1>1. t <= 2 /\ temps' = t /\ temps \in 0 .. 2
  BY DEF Careful, Temporary, TypeInv
<1>2. CASE t = temps + 1
  <2>1. t \in 1 .. 2 /\ temps <= 1
    BY <1>1, <1>2
  <2>2. ASSUME NEW i \in 1 .. Len(exp) - n, IsTemp(exp[i])
        PROVE  t # 1 /\ exp[i] = Buf(LastBuf)
    <3>1. i \in 1 .. Len(exp)
      BY OperandAt
    <3>2. temps > 0 /\ (temps = 1 => exp[i] = Buf(LastBuf))
      BY <2>2, <3>1 DEF TempInv
    <3> QED BY <1>1, <1>2, <2>1, <3>2
  <2>3. \A i \in 1 .. Len(exp) - n : exp[i] = Buf(NextBuf) => IsTemp(exp[i])
    BY TwoBuffers
  <2> QED BY <1>1, <2>1, <2>2, <2>3, TwoBuffers
<1>3. CASE n = 2 /\ t = 1 /\ 2 <= Len(exp) /\ IsTemp(Nth(1)) /\ IsTemp(Nth(2))
  <2> DEFINE k == Len(exp)
  <2>1. k \in Nat /\ k - 1 \in 1 .. k /\ k \in 1 .. k /\ k - 1 # k
    BY <1>3, OperandAt
  <2>2. k + 1 - 1 = k /\ k + 1 - 2 = k - 1
    BY <2>1
  <2>3. IsTemp(exp[k]) /\ IsTemp(exp[k - 1])
    BY <1>3, <2>2 DEF Nth
  <2> HIDE DEF k
  <2>4. exp[k] # exp[k - 1]
    BY <2>1, <2>3 DEF TempInv, k
  <2>5. ASSUME NEW i \in 1 .. k - 2, IsTemp(exp[i]) PROVE FALSE
    <3>1. i \in 1 .. k /\ i # k /\ i # k - 1
      BY <2>1
    <3>2. exp[i] # exp[k] /\ exp[i] # exp[k - 1]
      BY <2>1, <2>5, <3>1 DEF TempInv, k
    <3>3. exp[i] \in Operand /\ exp[k] \in Operand /\ exp[k - 1] \in Operand
      BY <2>1, <3>1, OperandAt DEF k
    <3> QED BY <2>3, <2>4, <2>5, <3>2, <3>3, TempOperand
  <2>6. \A i \in 1 .. k - 2 : exp[i] # Buf(NextBuf)
    BY <2>5, TwoBuffers
  <2> QED BY <1>1, <1>3, <2>5, <2>6 DEF k
<1> QED BY <1>2, <1>3 DEF NewCount

LEMMA TemporaryTemps ==
  ASSUME Careful, TypeInv, TempInv, NEW n \in Nat, n <= Len(exp),
         NEW s, NEW t \in Nat, NewCount(n, t), Temporary(n, s, t)
  PROVE  TempInv'
<1> DEFINE k == Len(exp) - n
<1>1. k \in Nat /\ k <= Len(exp) /\ Len(exp) \in Nat
  BY OperandAt
<1>2. /\ Len(exp') = k + 1 /\ exp'[k + 1] = Buf(NextBuf)
      /\ \A i \in 1 .. k : exp'[i] = exp[i]
  BY TwoBuffers, NewOperand DEF Temporary
<1>3. /\ t \in 1 .. 2 /\ temps' = t
      /\ \A i \in 1 .. k : exp[i] # Buf(NextBuf) /\ (t = 1 => ~IsTemp(exp[i]))
  BY BufferFree
<1>4. NextBuf' = LastBuf /\ LastBuf' = NextBuf
  BY DEF Temporary, NextBuf, LastBuf, TypeInv
<1>5. Held' = Held /\ NoTemps(Held)
  BY DEF Temporary, Held, TempInv
<1> HIDE DEF k
<1>6. ASSUME NEW i \in 1 .. k + 1, IsTemp(exp'[i])
      PROVE  /\ temps' > 0
             /\ temps' = 1 => exp'[i] = Buf(NextBuf)
             /\ exp'[i] = Buf(LastBuf) => i < k + 1
             /\ \A j \in 1 .. k + 1 : i # j => exp'[i] # exp'[j]
  <2>1. CASE i = k + 1
    <3>1. \A j \in 1 .. k + 1 : i # j => j \in 1 .. k
      BY <1>1, <2>1
    <3> QED BY <1>2, <1>3, <2>1, <3>1, TwoBuffers
  <2>2. CASE i \in 1 .. k
    <3>1. t = 2 /\ exp'[i] = exp[i] /\ IsTemp(exp[i]) /\ i < k + 1
      BY <1>1, <1>2, <1>3, <1>6, <2>2
    <3>2. i \in 1 .. Len(exp) /\ \A j \in 1 .. k : j \in 1 .. Len(exp)
      BY <1>1, <2>2
    <3>3. \A j \in 1 .. k : i # j => exp'[i] # exp'[j]
      BY <1>2, <3>1, <3>2 DEF TempInv
    <3>4. exp'[i] # exp'[k + 1]
      BY <1>2, <1>3, <2>2, <3>1
    <3>5. \A j \in 1 .. k + 1 : j \in 1 .. k \/ j = k + 1
      BY <1>1
    <3> QED BY <1>3, <3>1, <3>3, <3>4, <3>5
  <2> QED BY <1>1, <2>1, <2>2
<1> QED BY <1>2, <1>4, <1>5, <1>6 DEF TempInv, NoTemps, IsTemp, Buf, Ref

(* An instruction whose result is no temporary string.                     *)
LEMMA InheritedTemps ==
  ASSUME Careful, TypeInv, TempInv, UNCHANGED <<strbuf1_used, params, callers>>,
         \A i \in 1 .. Len(exp') : IsTemp(exp'[i]) =>
           /\ i \in 1 .. Len(exp) /\ exp'[i] = exp[i]
           /\ i < Len(exp') /\ temps' = temps
  PROVE  TempInv'
<1>1. NextBuf' = NextBuf /\ LastBuf' = LastBuf
  BY DEF NextBuf, LastBuf
<1>2. Held' = Held /\ NoTemps(Held)
  BY DEF Held, TempInv
<1>3. ASSUME NEW i \in 1 .. Len(exp'), IsTemp(exp'[i])
      PROVE  /\ temps' > 0
             /\ temps' = 1 => exp'[i] = Buf(LastBuf)
             /\ exp'[i] = Buf(NextBuf) => i < Len(exp')
             /\ \A j \in 1 .. Len(exp') : i # j => exp'[i] # exp'[j]
  <2>1. /\ i \in 1 .. Len(exp) /\ exp'[i] = exp[i] /\ IsTemp(exp[i])
        /\ i < Len(exp') /\ temps' = temps
    BY <1>3
  <2>2. ASSUME NEW j \in 1 .. Len(exp'), i # j PROVE exp'[i] # exp'[j]
    <3>1. CASE IsTemp(exp'[j])
      <4>1. j \in 1 .. Len(exp) /\ exp'[j] = exp[j]
        BY <3>1
      <4> QED BY <2>1, <2>2, <4>1 DEF TempInv
    <3>2. CASE ~IsTemp(exp'[j])
      BY <1>3, <3>2
    <3> QED BY <3>1, <3>2
  <2> QED BY <2>1, <2>2 DEF TempInv
<1> QED BY <1>1, <1>2, <1>3 DEF TempInv, NoTemps, IsTemp, Buf, Ref

LEMMA PushTemps ==
  ASSUME Careful, TypeInv, TempInv, NEW r \in Operand, Push(r)
  PROVE  TempInv'
<1>1. ~IsTemp(r)
  BY Kinds, VariableOperand DEF Push, TempInv, NoTemps, Held
<1>2. /\ Len(exp') = Len(exp) + 1 /\ exp'[Len(exp) + 1] = r
      /\ \A i \in 1 .. Len(exp) : exp'[i] = exp[i]
      /\ Len(exp) \in Nat
  BY OperandAt, AppendSeq DEF Push
<1>3. \A i \in 1 .. Len(exp') : (i \in 1 .. Len(exp) /\ i < Len(exp')) \/ i = Len(exp) + 1
  BY <1>2
<1>4. \A i \in 1 .. Len(exp') : IsTemp(exp'[i]) =>
        i \in 1 .. Len(exp) /\ exp'[i] = exp[i] /\ i < Len(exp')
  BY <1>1, <1>2, <1>3
<1> QED BY <1>4, InheritedTemps DEF Push, memory

LEMMA MeasureTemps ==
  ASSUME Careful, TypeInv, TempInv, NEW n \in 1 .. 2, Measure(n)
  PROVE  TempInv'
<1> DEFINE k == Len(exp) - n
<1>1. /\ Without(n) \in Seq(Operand) /\ Len(Without(n)) = k
      /\ \A i \in 1 .. k : Without(n)[i] = exp[i]
      /\ Len(exp) \in Nat /\ n <= Len(exp)
  BY WithoutSeq DEF Measure, AreStrings
<1>2. k \in Nat /\ k <= Len(exp)
  BY <1>1
<1> HIDE DEF k
<1>3. /\ Len(exp') = k + 1 /\ exp'[k + 1] = Num
      /\ \A i \in 1 .. k : exp'[i] = exp[i]
  BY <1>1, AppendSeq, Members DEF Measure
<1>4. ASSUME NEW i \in 1 .. Len(exp'), IsTemp(exp'[i])
      PROVE  /\ i \in 1 .. Len(exp) /\ exp'[i] = exp[i]
             /\ i < Len(exp') /\ temps' = temps
  <2>1. i \in 1 .. k \/ i = k + 1
    BY <1>2, <1>3
  <2>2. i # k + 1
    BY <1>3, <1>4, Kinds
  <2>3. i \in 1 .. k /\ exp'[i] = exp[i] /\ Without(n)[i] = exp[i]
    BY <1>1, <1>3, <2>1, <2>2
  <2>4. i \in DOMAIN Without(n) /\ Without(n)[i] # Num
    BY <1>1, <1>4, <2>3, Kinds, LenProperties
  <2>5. temps' = temps
    BY <2>4 DEF Measure, CountAfter
  <2> QED BY <1>2, <1>3, <2>3, <2>5
<1> QED BY <1>4, InheritedTemps DEF Measure, memory

(* A statement that ends, a function that begins.                          *)
LEMMA NoOperandsTemps ==
  ASSUME exp' = <<>>, NoTemps(Held')
  PROVE  TempInv'
<1>1. Len(exp') = 0
  BY EmptySeq
<1>2. \A i \in 1 .. Len(exp') : FALSE
  BY <1>1
<1>3. \A r \in Held' : ~IsTemp(r)
  BY DEF NoTemps
<1> QED BY <1>2, <1>3 DEF TempInv, NoTemps, IsTemp

LEMMA UseTemps ==
  ASSUME Careful, TypeInv, TempInv, Uses
  PROVE  TempInv'
<1>1. exp' = <<>> /\ UNCHANGED <<params, callers>>
  BY DEF Uses, Printf, Assign
<1>2. NoTemps(Held')
  BY <1>1 DEF Held, TempInv
<1> QED BY <1>1, <1>2, NoOperandsTemps

LEMMA CallTemps ==
  ASSUME Careful, TypeInv, TempInv, NEW n \in Nat, Call(n)
  PROVE  TempInv'
<1>1. \A r \in OnStacks : ~IsTemp(r)
  BY DEF Call, Careful, OnStacks, NoTemps, TempInv
<1>2. Held' \subseteq OnStacks'
  BY DEF OnStacks
<1>3. NoTemps(Held')
  BY <1>1, <1>2, CallStacks DEF NoTemps
<1> QED BY <1>3, NoOperandsTemps DEF Call

LEMMA ConcatMakes ==
  ASSUME TypeInv, Concat
  PROVE  \E s \in Joined, t \in Nat : Temporary(2, s, t) /\ NewCount(2, t)
<1>1. temps + 1 \in Nat /\ 2 <= Len(exp)
  BY DEF TypeInv, Concat, AreStrings
<1>2. CASE IsTemp(Nth(1)) /\ IsTemp(Nth(2))
  <2>1. PICK s \in Joined : Temporary(2, s, 1)
    BY <1>2 DEF Concat
  <2>2. NewCount(2, 1)
    BY <1>1, <1>2 DEF NewCount
  <2> QED BY <2>1, <2>2
<1>3. CASE ~(IsTemp(Nth(1)) /\ IsTemp(Nth(2)))
  <2>1. PICK s \in Joined : Temporary(2, s, temps + 1)
    BY <1>3 DEF Concat
  <2>2. NewCount(2, temps + 1)
    BY DEF NewCount
  <2> QED BY <1>1, <2>1, <2>2
<1> QED BY <1>2, <1>3

LEMMA ReturnTemps ==
  ASSUME Careful, TypeInv, TempInv, Return
  PROVE  TempInv'
<1> DEFINE e == Last(callers).exp
           more == IF \E r \in ToSet(exp) : IsTemp(r) THEN 1 ELSE 0
<1>1. /\ e \in Seq(Operand) /\ Len(e) \in Nat /\ Last(callers).temps \in Nat
      /\ \A i \in 1 .. Len(e) : ~IsTemp(e[i])
  <2>1. e \in Seq(Operand) /\ \A r \in ToSet(e) : ~IsTemp(r)
    BY ReturnStacks DEF TempInv, NoTemps
  <2>2. Last(callers).temps \in Nat
    BY ReturnStacks DEF Frame
  <2> QED BY <2>1, <2>2, InToSet, LenProperties
<1>2. /\ exp' = e \o exp /\ Len(exp) \in {0, 1} /\ Len(exp') = Len(e) + Len(exp)
      /\ \A i \in 1 .. Len(e) + Len(exp) :
           exp'[i] = IF i <= Len(e) THEN e[i] ELSE exp[i - Len(e)]
  <2>1. Len(exp) \in {0, 1}
    <3> DEFINE l == Len(exp)
    <3>1. l \in Nat /\ l <= 1
      BY OperandAt DEF Return
    <3> HIDE DEF l
    <3>2. l = 0 \/ l = 1
      BY ONLY <3>1
    <3> QED BY <3>2 DEF l
  <2> QED BY <1>1, <2>1, OperandAt, ConcatProperties DEF Return
<1>3. temps' = Last(callers).temps + more /\ temps' <= 2
  <2>1. TempsBack = Last(callers).temps + more
    BY DEF TempsBack
  <2>2. TempsBack <= 2
    BY DEF Return, Careful
  <2> QED BY <2>1, <2>2 DEF Return
<1>4. NextBuf' = NextBuf /\ LastBuf' = LastBuf
  BY DEF Return, memory, NextBuf, LastBuf
<1>5. \A r \in Held' : ~IsTemp(r)
  BY ReturnStacks DEF TempInv, NoTemps
<1> HIDE DEF e
<1>6. ASSUME NEW i \in 1 .. Len(exp'), IsTemp(exp'[i])
      PROVE  /\ temps' > 0
             /\ exp'[i] = Buf(LastBuf)
             /\ exp'[i] # Buf(NextBuf)
             /\ \A j \in 1 .. Len(exp') : i # j => exp'[i] # exp'[j]
  <2>1. ~(i <= Len(e))
    BY <1>1, <1>2, <1>6
  <2>2. Len(exp) = 1 /\ i = Len(e) + 1 /\ exp'[i] = exp[1] /\ IsTemp(exp[1])
    BY <1>1, <1>2, <1>6, <2>1
  <2>3. exp[1] \in Operand /\ exp[1] # Buf(NextBuf)
    BY <2>2, OperandAt DEF TempInv
  <2>4. more = 1
    <3>1. exp[1] \in ToSet(exp)
      BY <2>2, OperandAt, InToSet
    <3> QED BY <2>2, <3>1
  <2>5. temps' > 0
    <3> HIDE DEF more
    <3> QED BY <1>1, <1>3, <2>4
  <2>6. \A j \in 1 .. Len(exp') : i # j => ~IsTemp(exp'[j])
    <3>1. \A j \in 1 .. Len(exp') : i # j => j \in 1 .. Len(e) /\ exp'[j] = e[j]
      BY <1>1, <1>2, <2>2
    <3> QED BY <1>1, <3>1
  <2> QED BY <1>6, <2>2, <2>3, <2>5, <2>6, TwoBuffers
<1> QED BY <1>4, <1>5, <1>6 DEF TempInv, NoTemps, IsTemp, Buf, Ref

LEMMA StepTemps ==
  ASSUME Careful, TypeInv, TempInv, [Next]_vars
  PROVE  TempInv'
<1>0. temps + 1 \in Nat /\ Len(exp) \in Nat
  BY LenProperties DEF TypeInv
<1>1. CASE Operators
  <2>1. ASSUME Concat PROVE TempInv'
    <3>1. PICK s \in Joined, t \in Nat : Temporary(2, s, t) /\ NewCount(2, t)
      BY <2>1, ConcatMakes
    <3> QED BY <2>1, <3>1, TemporaryTemps DEF Concat, AreStrings
  <2>2. ASSUME Part PROVE TempInv'
    BY <1>0, <2>2, TemporaryTemps DEF Part, NewCount
  <2> QED BY <1>1, <2>1, <2>2, MeasureTemps DEF Operators
<1>2. CASE Sources
  <2>1. ASSUME NEW s \in Made, FromNum(s) PROVE TempInv'
    BY <1>0, <2>1, TemporaryTemps DEF FromNum, NewCount
  <2>2. ASSUME NEW s \in Made, FromHost(s) PROVE TempInv'
    BY <1>0, <2>2, TemporaryTemps DEF FromHost, AreStrings, NewCount
  <2> QED BY <1>2, <2>1, <2>2 DEF Sources
<1>3. CASE Pushes
  BY <1>3, PushTemps DEF Pushes
<1>4. CASE Uses
  BY <1>4, UseTemps
<1>5. CASE Calls
  <2>1. \A n \in 0 .. MaxOperands : n \in Nat
    BY StringsAssumption
  <2> QED BY <1>5, <2>1, CallTemps, ReturnTemps DEF Calls
<1>6. CASE UNCHANGED vars
  <2>1. /\ NextBuf' = NextBuf /\ LastBuf' = LastBuf /\ Held' = Held
        /\ exp' = exp /\ temps' = temps
    BY <1>6 DEF vars, memory, NextBuf, LastBuf, Held
  <2> QED BY <2>1 DEF TempInv, NoTemps, IsTemp, Buf, Ref
<1> QED BY <1>1, <1>2, <1>3, <1>4, <1>5, <1>6 DEF Next

LEMMA InitTemps == Init => TempInv
<1> SUFFICES ASSUME Init PROVE TempInv
  OBVIOUS
<1>1. TypeInv /\ exp = <<>> /\ params = <<>> /\ callers = <<>>
  BY InitTypes DEF Init
<1>2. Len(exp) = 0 /\ Len(callers) = 0 /\ ToSet(params) = {}
  BY <1>1, EmptySeq, SetOfEmpty
<1>3. \A i \in 1 .. Len(callers) : FALSE
  BY <1>2
<1>4. Held = {}
  BY <1>1, <1>2, <1>3, HeldIn
<1>5. \A i \in 1 .. Len(exp) : FALSE
  BY <1>2
<1> QED BY <1>4, <1>5 DEF TempInv, NoTemps

-----------------------------------------------------------------------------
(* Values, read from buffers b and a heap h.                               *)

StringIn(b, h, r) == CASE r.seg = "buf"  -> b[r.id]
                       [] r.seg = "heap" -> h[r.id]
                       [] OTHER          -> r.str
ValueIn(b, h, r)   == [num |-> r = Num, str |-> StringIn(b, h, r)]
ValuesIn(b, h, s)  == [i \in DOMAIN s |-> ValueIn(b, h, s[i])]
CallerIn(b, h, f)  == [exp |-> ValuesIn(b, h, f.exp), params |-> ValuesIn(b, h, f.params)]
CallersIn(b, h, s) == [i \in DOMAIN s |-> CallerIn(b, h, s[i])]
AllValues(b, h)    == {ValueIn(b, h, r) : r \in Operand}
AllCallers(b, h)   == {CallerIn(b, h, f) : f \in Frame}

(* The state of StrValues, and that after a step.                          *)
AbsVals    == [v \in Vars |-> get_string(variables[v])]
AbsExp     == ValuesIn(strbuf, heap, exp)
AbsParams  == ValuesIn(strbuf, heap, params)
AbsCallers == CallersIn(strbuf, heap, callers)

LEMMA Abstraction ==
  /\ Values(exp) = AbsExp /\ Values(params) = AbsParams
  /\ [i \in DOMAIN callers |-> [exp |-> Values(callers[i].exp),
                                params |-> Values(callers[i].params)]] = AbsCallers
  /\ Values(exp)' = AbsExp' /\ Values(params)' = AbsParams'
  /\ [i \in DOMAIN callers |-> [exp |-> Values(callers[i].exp),
                                params |-> Values(callers[i].params)]]' = AbsCallers'
BY DEF AbsExp, AbsParams, AbsCallers, CallersIn, CallerIn, ValuesIn, ValueIn, StringIn,
       Values, Value, get_string, Num, Ref

LEMMA ReadIs == \A r : get_string(r) = StringIn(strbuf, heap, r)
BY DEF get_string, StringIn

LEMMA ValuesSeq ==
  ASSUME NEW b, NEW h, NEW s \in Seq(Operand)
  PROVE  /\ ValuesIn(b, h, s) \in Seq(AllValues(b, h))
         /\ Len(ValuesIn(b, h, s)) = Len(s) /\ Len(s) \in Nat
         /\ \A i \in 1 .. Len(s) : ValuesIn(b, h, s)[i] = ValueIn(b, h, s[i])
<1>1. DOMAIN s = 1 .. Len(s) /\ Len(s) \in Nat /\ \A i \in 1 .. Len(s) : s[i] \in Operand
  BY LenProperties, ElementOfSeq
<1> DEFINE t == ValuesIn(b, h, s)
<1>2. t = [i \in 1 .. Len(s) |-> ValueIn(b, h, s[i])]
  BY <1>1 DEF ValuesIn
<1>3. \A i \in 1 .. Len(s) : ValueIn(b, h, s[i]) \in AllValues(b, h)
  BY <1>1 DEF AllValues
<1>4. t \in Seq(AllValues(b, h)) /\ DOMAIN t = 1 .. Len(s)
  BY <1>1, <1>2, <1>3, SeqDef
<1>5. Len(t) = Len(s)
  <2> HIDE DEF t
  <2> QED BY <1>1, <1>4, LenProperties
<1>6. \A i \in 1 .. Len(s) : t[i] = ValueIn(b, h, s[i])
  BY <1>2
<1> QED BY <1>1, <1>4, <1>5, <1>6

(* Sequences with the same elements.                                       *)
LEMMA SameSeq ==
  ASSUME NEW S, NEW s \in Seq(S), NEW T, NEW t \in Seq(T), Len(s) = Len(t),
         \A i \in 1 .. Len(s) : s[i] = t[i]
  PROVE  s = t
<1>1. s \in Seq(S \cup T) /\ t \in Seq(S \cup T)
  <2>1. \A i \in 1 .. Len(s) : s[i] \in S \cup T
    BY ElementOfSeq
  <2>2. \A i \in 1 .. Len(t) : t[i] \in S \cup T
    BY ElementOfSeq
  <2>3. s = [i \in 1 .. Len(s) |-> s[i]] /\ t = [i \in 1 .. Len(t) |-> t[i]]
        /\ Len(s) \in Nat /\ Len(t) \in Nat
    BY LenProperties
  <2>4. s \in [1 .. Len(s) -> S \cup T] /\ t \in [1 .. Len(t) -> S \cup T]
    BY <2>1, <2>2, <2>3
  <2> QED BY <2>3, <2>4, SeqDef
<1> QED BY <1>1, SeqEqual

LEMMA ValuesAppend ==
  ASSUME NEW b, NEW h, NEW s \in Seq(Operand), NEW r \in Operand
  PROVE  ValuesIn(b, h, Append(s, r)) = Append(ValuesIn(b, h, s), ValueIn(b, h, r))
<1> DEFINE t == Append(s, r)
           u == ValuesIn(b, h, s)
           w == Append(u, ValueIn(b, h, r))
           x == ValuesIn(b, h, t)
<1>1. /\ t \in Seq(Operand) /\ Len(t) = Len(s) + 1 /\ Len(s) \in Nat
      /\ \A i \in 1 .. Len(s) : t[i] = s[i]
      /\ t[Len(s) + 1] = r
  BY AppendSeq
<1>2. /\ u \in Seq(AllValues(b, h)) /\ Len(u) = Len(s)
      /\ \A i \in 1 .. Len(s) : u[i] = ValueIn(b, h, s[i])
  BY ValuesSeq
<1>3. ValueIn(b, h, r) \in AllValues(b, h)
  BY DEF AllValues
<1> HIDE DEF t, u
<1>4. /\ w \in Seq(AllValues(b, h)) /\ Len(w) = Len(s) + 1
      /\ \A i \in 1 .. Len(s) : w[i] = u[i]
      /\ w[Len(s) + 1] = ValueIn(b, h, r)
  BY <1>2, <1>3, AppendSeq
<1>5. /\ x \in Seq(AllValues(b, h)) /\ Len(x) = Len(t)
      /\ \A i \in 1 .. Len(t) : x[i] = ValueIn(b, h, t[i])
  BY <1>1, ValuesSeq
<1> HIDE DEF w, x
<1>6. \A i \in 1 .. Len(x) : x[i] = w[i]
  <2> SUFFICES ASSUME NEW i \in 1 .. Len(x) PROVE x[i] = w[i]
    OBVIOUS
  <2>1. i \in 1 .. Len(s) \/ i = Len(s) + 1
    BY <1>1, <1>5
  <2> QED BY <1>1, <1>2, <1>4, <1>5, <2>1
<1>7. x = w
  BY <1>1, <1>4, <1>5, <1>6, SameSeq
<1> QED BY <1>7 DEF t, u, w, x

LEMMA ConcatSeq ==
  ASSUME NEW S, NEW s \in Seq(S), NEW t \in Seq(S)
  PROVE  /\ s \o t \in Seq(S) /\ Len(s \o t) = Len(s) + Len(t)
         /\ \A i \in 1 .. Len(s) + Len(t) :
              (s \o t)[i] = IF i <= Len(s) THEN s[i] ELSE t[i - Len(s)]
BY ConcatProperties

LEMMA ValuesConcat ==
  ASSUME NEW b, NEW h, NEW s \in Seq(Operand), NEW t \in Seq(Operand)
  PROVE  ValuesIn(b, h, s \o t) = ValuesIn(b, h, s) \o ValuesIn(b, h, t)
<1> DEFINE V == AllValues(b, h)
           u == s \o t
           vs == ValuesIn(b, h, s)
           vt == ValuesIn(b, h, t)
           x == ValuesIn(b, h, u)
           w == vs \o vt
<1>1. /\ u \in Seq(Operand) /\ Len(u) = Len(s) + Len(t)
      /\ Len(s) \in Nat /\ Len(t) \in Nat
      /\ \A i \in 1 .. Len(s) + Len(t) :
           u[i] = IF i <= Len(s) THEN s[i] ELSE t[i - Len(s)]
  BY ConcatProperties, LenProperties
<1>2. /\ vs \in Seq(V) /\ Len(vs) = Len(s)
      /\ \A i \in 1 .. Len(s) : vs[i] = ValueIn(b, h, s[i])
  BY ValuesSeq
<1>3. /\ vt \in Seq(V) /\ Len(vt) = Len(t)
      /\ \A i \in 1 .. Len(t) : vt[i] = ValueIn(b, h, t[i])
  BY ValuesSeq
<1> HIDE DEF vs, vt, u
<1>4. /\ w \in Seq(V) /\ Len(w) = Len(s) + Len(t)
      /\ \A i \in 1 .. Len(s) + Len(t) :
           w[i] = IF i <= Len(s) THEN vs[i] ELSE vt[i - Len(s)]
  <2>1. /\ w \in Seq(V) /\ Len(w) = Len(vs) + Len(vt)
        /\ \A i \in 1 .. Len(vs) + Len(vt) :
             w[i] = IF i <= Len(vs) THEN vs[i] ELSE vt[i - Len(vs)]
    <3> HIDE DEF V, x
    <3>1. vs \in Seq(V) /\ vt \in Seq(V)
      BY <1>2, <1>3
    <3> QED BY ONLY <3>1, ConcatSeq
  <2> HIDE DEF w
  <2> QED BY <1>2, <1>3, <2>1
<1>5. /\ x \in Seq(V) /\ Len(x) = Len(u)
      /\ \A i \in 1 .. Len(u) : x[i] = ValueIn(b, h, u[i])
  BY <1>1, ValuesSeq
<1> HIDE DEF w, x, V
<1>6. \A i \in 1 .. Len(x) : x[i] = w[i]
  <2> SUFFICES ASSUME NEW i \in 1 .. Len(x) PROVE x[i] = w[i]
    OBVIOUS
  <2>1. CASE i <= Len(s)
    <3>1. i \in 1 .. Len(s)
      BY <1>1, <1>5, <2>1
    <3> QED BY <1>1, <1>2, <1>4, <1>5, <2>1, <3>1
  <2>2. CASE ~(i <= Len(s))
    <3>1. i - Len(s) \in 1 .. Len(t)
      BY <1>1, <1>5, <2>2
    <3> QED BY <1>1, <1>3, <1>4, <1>5, <2>2, <3>1
  <2> QED BY <2>1, <2>2
<1>7. x = w
  BY <1>1, <1>4, <1>5, <1>6, SameSeq
<1> QED BY <1>7 DEF u, vs, vt, w, x

(* The operands below the n last ones, and the n last ones.                *)
LEMMA ValuesWithout ==
  ASSUME TypeInv, NEW n \in Nat, n <= Len(exp), NEW b, NEW h
  PROVE  ValuesIn(b, h, Without(n)) =
           SubSeq(ValuesIn(b, h, exp), 1, Len(ValuesIn(b, h, exp)) - n)
<1> DEFINE V == AllValues(b, h)
           k == Len(exp) - n
           s == Without(n)
           u == ValuesIn(b, h, exp)
           x == ValuesIn(b, h, s)
           w == SubSeq(u, 1, k)
<1>1. /\ s \in Seq(Operand) /\ Len(s) = k /\ k \in Nat /\ k <= Len(exp)
      /\ Len(exp) \in Nat
      /\ \A i \in 1 .. k : s[i] = exp[i]
  BY WithoutSeq, OperandAt
<1>2. /\ u \in Seq(V) /\ Len(u) = Len(exp)
      /\ \A i \in 1 .. Len(exp) : u[i] = ValueIn(b, h, exp[i])
  BY OperandAt, ValuesSeq
<1> HIDE DEF s, u
<1>3. /\ x \in Seq(V) /\ Len(x) = Len(s)
      /\ \A i \in 1 .. Len(s) : x[i] = ValueIn(b, h, s[i])
  BY <1>1, ValuesSeq
<1> HIDE DEF V, x, k
<1>4. /\ w \in Seq(V)
      /\ Len(w) = IF 1 <= k THEN k - 1 + 1 ELSE 0
      /\ \A i \in 1 .. k - 1 + 1 : w[i] = u[1 + i - 1]
  <2>1. 1 \in 1 .. Len(u) + 1 /\ k \in 1 - 1 .. Len(u)
    BY <1>1, <1>2
  <2> QED BY <1>2, <2>1, SubSeqProperties
<1> HIDE DEF w
<1>5. Len(w) = k
  BY <1>1, <1>4
<1>6. \A i \in 1 .. k : w[i] = u[i]
  BY <1>1, <1>4
<1>7. \A i \in 1 .. k : x[i] = w[i]
  <2> SUFFICES ASSUME NEW i \in 1 .. k PROVE x[i] = w[i]
    OBVIOUS
  <2>1. i \in 1 .. Len(exp)
    BY <1>1
  <2> QED BY <1>1, <1>2, <1>3, <1>6, <2>1
<1>8. x = w
  BY <1>1, <1>3, <1>4, <1>5, <1>7, SameSeq
<1>9. Len(u) - n = k
  BY <1>2 DEF k
<1> QED BY <1>8, <1>9 DEF s, u, w, x

LEMMA Fields ==
  ASSUME NEW x, NEW r, NEW t, x = [num |-> r = Num, str |-> t]
  PROVE  (x.num <=> r = Num) /\ x.str = t
BY Zenon

LEMMA AbsNth ==
  ASSUME TypeInv, NEW n \in 1 .. Len(exp)
  PROVE  /\ Len(AbsExp) = Len(exp)
         /\ AbsExp[Len(AbsExp) + 1 - n].num <=> Nth(n) = Num
         /\ AbsExp[Len(AbsExp) + 1 - n].str = get_string(Nth(n))
<1>1. Len(AbsExp) = Len(exp) /\
      \A i \in 1 .. Len(exp) : AbsExp[i] = ValueIn(strbuf, heap, exp[i])
  BY OperandAt, ValuesSeq DEF AbsExp
<1>2. Len(exp) + 1 - n \in 1 .. Len(exp)
  BY NthOperand
<1> DEFINE x == AbsExp[Len(exp) + 1 - n]
<1>3. x = [num |-> Nth(n) = Num, str |-> get_string(Nth(n))]
  BY <1>1, <1>2, ReadIs DEF Nth, ValueIn
<1>4. (x.num <=> Nth(n) = Num) /\ x.str = get_string(Nth(n))
  <2> HIDE DEF x
  <2> QED BY <1>3, Fields
<1>5. x = AbsExp[Len(AbsExp) + 1 - n]
  BY <1>1
<1> HIDE DEF x
<1> QED BY <1>1, <1>4, <1>5

-----------------------------------------------------------------------------
(* Strings that nobody overwrites keep their values.                       *)

Unharmed(S, b, h, b2, h2) == \A r \in S : StringIn(b, h, r) = StringIn(b2, h2, r)

LEMMA SameValues ==
  ASSUME NEW b, NEW h, NEW b2, NEW h2, NEW s \in Seq(Operand),
         Unharmed(ToSet(s), b, h, b2, h2)
  PROVE  ValuesIn(b, h, s) = ValuesIn(b2, h2, s)
<1>1. \A i \in DOMAIN s : ValueIn(b, h, s[i]) = ValueIn(b2, h2, s[i])
  BY DEF Unharmed, ValueIn, ToSet
<1> QED BY <1>1 DEF ValuesIn

LEMMA SameCallers ==
  ASSUME TypeInv, NEW b, NEW h, NEW b2, NEW h2, Unharmed(Held, b, h, b2, h2)
  PROVE  /\ ValuesIn(b, h, params) = ValuesIn(b2, h2, params)
         /\ CallersIn(b, h, callers) = CallersIn(b2, h2, callers)
<1>1. ValuesIn(b, h, params) = ValuesIn(b2, h2, params)
  BY SameValues DEF TypeInv, Unharmed, Held
<1>2. \A i \in DOMAIN callers : CallerIn(b, h, callers[i]) = CallerIn(b2, h2, callers[i])
  <2> SUFFICES ASSUME NEW i \in DOMAIN callers
               PROVE  CallerIn(b, h, callers[i]) = CallerIn(b2, h2, callers[i])
    OBVIOUS
  <2>1. i \in 1 .. Len(callers)
    BY LenProperties DEF TypeInv
  <2>2. callers[i] \in Frame
    BY <2>1, ElementOfSeq DEF TypeInv
  <2>3. callers[i].exp \in Seq(Operand) /\ callers[i].params \in Seq(Operand)
    BY <2>2 DEF Frame
  <2>4. /\ Unharmed(ToSet(callers[i].exp), b, h, b2, h2)
        /\ Unharmed(ToSet(callers[i].params), b, h, b2, h2)
    BY <2>1, HeldIn DEF Unharmed
  <2> QED BY <2>3, <2>4, SameValues DEF CallerIn
<1> QED BY <1>1, <1>2 DEF CallersIn

(* An instruction replaces the n last operands by r.                       *)
LEMMA AbsReplace ==
  ASSUME TypeInv, NEW n \in Nat, n <= Len(exp), NEW r \in Operand,
         exp' = Append(Without(n), r), UNCHANGED <<params, callers>>,
         Unharmed(Held \cup ToSet(Without(n)), strbuf, heap, strbuf', heap')
  PROVE  /\ AbsExp' = Append(SubSeq(AbsExp, 1, Len(AbsExp) - n),
                             ValueIn(strbuf', heap', r))
         /\ AbsParams' = AbsParams /\ AbsCallers' = AbsCallers
<1>1. Without(n) \in Seq(Operand)
  BY WithoutSeq
<1>2. AbsExp' = ValuesIn(strbuf', heap', Append(Without(n), r))
  BY DEF AbsExp, ValuesIn, ValueIn, StringIn, Num, Ref
<1>3. AbsExp' = Append(ValuesIn(strbuf', heap', Without(n)), ValueIn(strbuf', heap', r))
  BY <1>1, <1>2, ValuesAppend
<1>4. ValuesIn(strbuf', heap', Without(n)) = ValuesIn(strbuf, heap, Without(n))
  BY <1>1, SameValues DEF Unharmed
<1>5. ValuesIn(strbuf, heap, Without(n)) = SubSeq(AbsExp, 1, Len(AbsExp) - n)
  BY ValuesWithout DEF AbsExp
<1>6. AbsParams' = ValuesIn(strbuf', heap', params) /\
      AbsCallers' = CallersIn(strbuf', heap', callers)
  BY DEF AbsParams, AbsCallers, CallersIn, CallerIn, ValuesIn, ValueIn, StringIn, Num, Ref
<1>7. Unharmed(Held, strbuf, heap, strbuf', heap')
  BY DEF Unharmed
<1>8. /\ ValuesIn(strbuf, heap, params) = ValuesIn(strbuf', heap', params)
      /\ CallersIn(strbuf, heap, callers) = CallersIn(strbuf', heap', callers)
  BY <1>7, SameCallers
<1> QED BY <1>3, <1>4, <1>5, <1>6, <1>8 DEF AbsParams, AbsCallers

-----------------------------------------------------------------------------
(* Each step is a step of StrValues.                                       *)

LEMMA TemporaryAbs ==
  ASSUME Careful, TypeInv, TempInv, NEW n \in Nat, n <= Len(exp),
         NEW s, NEW t \in Nat, NewCount(n, t), Temporary(n, s, t)
  PROVE  /\ AbsExp' = Append(SubSeq(AbsExp, 1, Len(AbsExp) - n),
                             [num |-> FALSE, str |-> s])
         /\ AbsParams' = AbsParams /\ AbsCallers' = AbsCallers
         /\ AbsVals' = AbsVals
<1>1. /\ strbuf' = [strbuf EXCEPT ![NextBuf] = s] /\ heap' = heap
      /\ exp' = Append(Without(n), Buf(NextBuf)) /\ variables' = variables
      /\ UNCHANGED <<params, callers>>
  BY DEF Temporary
<1>2. strbuf'[NextBuf] = s /\ \A i \in 1 .. 2 : i # NextBuf => strbuf'[i] = strbuf[i]
  BY <1>1, TwoBuffers DEF TypeInv
<1>3. ASSUME NEW r \in Operand, r # Buf(NextBuf)
      PROVE  StringIn(strbuf, heap, r) = StringIn(strbuf', heap', r)
  <2>1. CASE IsTemp(r)
    <3>1. r = Buf(LastBuf)
      BY <1>3, <2>1, TwoBuffers
    <3> QED BY <1>2, <3>1, TwoBuffers, Kinds DEF StringIn
  <2>2. CASE ~IsTemp(r)
    BY <1>1, <2>2 DEF StringIn, IsTemp
  <2> QED BY <2>1, <2>2
<1>4. ASSUME NEW r \in Held PROVE r \in Operand /\ r # Buf(NextBuf)
  BY StackOperands, TwoBuffers DEF OnStacks, TempInv, NoTemps
<1>5. ASSUME NEW r \in ToSet(Without(n)) PROVE r \in Operand /\ r # Buf(NextBuf)
  <2>1. PICK i \in 1 .. Len(exp) - n : r = exp[i]
    <3>1. PICK i \in 1 .. Len(Without(n)) : r = Without(n)[i]
      BY <1>5, WithoutSeq, InToSet
    <3> QED BY <3>1, WithoutSeq
  <2>2. i \in 1 .. Len(exp)
    BY OperandAt
  <2> QED BY <2>1, <2>2, OperandAt, BufferFree
<1>6. Unharmed(Held \cup ToSet(Without(n)), strbuf, heap, strbuf', heap')
  BY <1>3, <1>4, <1>5 DEF Unharmed
<1>7. ValueIn(strbuf', heap', Buf(NextBuf)) = [num |-> FALSE, str |-> s]
  BY <1>2, TwoBuffers, Kinds DEF ValueIn, StringIn
<1>8. \A v \in Vars : StringIn(strbuf, heap, variables[v]) = StringIn(strbuf', heap', variables[v])
  BY <1>3, VariableOperand, TwoBuffers
<1>9. AbsVals' = AbsVals
  BY <1>1, <1>8 DEF AbsVals, get_string, StringIn
<1> QED BY <1>1, <1>6, <1>7, <1>9, TwoBuffers, AbsReplace

(* The strings that an instruction takes from the stack.                   *)
LEMMA AbsStrings ==
  ASSUME TypeInv, NEW n \in Nat, AreStrings(n)
  PROVE  /\ Len(AbsExp) >= n
         /\ \A i \in 1 .. n : /\ ~AbsExp[Len(AbsExp) + 1 - i].num
                              /\ AbsExp[Len(AbsExp) + 1 - i].str = get_string(Nth(i))
<1>1. \A i \in 1 .. n : i \in 1 .. Len(exp) /\ Nth(i) # Num
  BY OperandAt DEF AreStrings
<1>2. Len(AbsExp) = Len(exp)
  BY OperandAt, ValuesSeq DEF AbsExp
<1>4. Len(AbsExp) >= n
  BY <1>2 DEF AreStrings
<1>5. ASSUME NEW i \in 1 .. n
      PROVE  /\ ~AbsExp[Len(AbsExp) + 1 - i].num
             /\ AbsExp[Len(AbsExp) + 1 - i].str = get_string(Nth(i))
  BY <1>1, AbsNth
<1> QED BY <1>4, <1>5

LEMMA ConcatRefines ==
  ASSUME Careful, TypeInv, TempInv, Concat
  PROVE  ValueSpec!Concat
<1>1. AreStrings(2) /\ 2 <= Len(exp) /\ Len(exp) \in Nat
  BY OperandAt DEF Concat, AreStrings
<1>2. PICK s \in Joined, t \in Nat : Temporary(2, s, t) /\ NewCount(2, t)
  BY ConcatMakes
<1>3. s = get_string(Nth(2)) \o get_string(Nth(1))
  <2>1. Nth(1) = exp[Len(exp)] /\ Len(exp) \in 1 .. Len(exp)
    BY <1>1 DEF Nth
  <2>2. Nth(1) # Buf(NextBuf)
    BY <2>1, TwoBuffers DEF TempInv
  <2> QED BY <2>2 DEF Joined
<1>4. /\ AbsExp' = Append(SubSeq(AbsExp, 1, Len(AbsExp) - 2), [num |-> FALSE, str |-> s])
      /\ AbsParams' = AbsParams /\ AbsCallers' = AbsCallers /\ AbsVals' = AbsVals
  BY <1>1, <1>2, TemporaryAbs
<1>5. /\ Len(AbsExp) >= 2
      /\ \A i \in 1 .. 2 : ~AbsExp[Len(AbsExp) + 1 - i].num
      /\ AbsExp[Len(AbsExp) + 1 - 2].str = get_string(Nth(2))
      /\ AbsExp[Len(AbsExp) + 1 - 1].str = get_string(Nth(1))
  BY <1>1, AbsStrings
<1>6. out' = <<>>
  BY DEF Concat
<1> QED BY <1>3, <1>4, <1>5, <1>6, Abstraction
    DEF ValueSpec!Concat, ValueSpec!AreStrings, ValueSpec!Nth, ValueSpec!IsNum,
        ValueSpec!Without, ValueSpec!Str, AbsVals

LEMMA SameOperators ==
  /\ ValueSpec!Strings = Strings
  /\ \A s : ValueSpec!SubSeqs(s) = SubSeqs(s)
  /\ \A s : ValueSpec!ToSet(s) = ToSet(s)
  /\ \A s : ValueSpec!Last(s) = Last(s) /\ ValueSpec!Front(s) = Front(s)
BY DEF ValueSpec!Strings, ValueSpec!BoundedSeq, ValueSpec!SeqOf, ValueSpec!SubSeqs,
       ValueSpec!ToSet, ValueSpec!Last, ValueSpec!Front,
       Strings, BoundedSeq, SeqOf, SubSeqs, ToSet, Last, Front

LEMMA PartRefines ==
  ASSUME Careful, TypeInv, TempInv, Part
  PROVE  ValueSpec!Part
<1>1. /\ Len(exp) >= 2 /\ Len(exp) \in Nat /\ 1 \in 1 .. Len(exp) /\ 2 \in 1 .. Len(exp)
      /\ Nth(1) = Num /\ Nth(2) # Num /\ temps + 1 \in Nat
  BY OperandAt DEF Part, TypeInv
<1>2. PICK s \in PartsOf(Nth(2)) : Temporary(2, s, temps + 1)
  BY DEF Part
<1>3. s \in SubSeqs(get_string(Nth(2)))
  <2>1. temps <= 1 /\ temps \in Nat
    BY <1>2 DEF Temporary, Careful, TypeInv
  <2>2. Nth(2) = exp[Len(exp) + 1 - 2] /\ Len(exp) + 1 - 2 \in 1 .. Len(exp)
    BY <1>1, NthOperand DEF Nth
  <2>3. Nth(2) # Buf(NextBuf)
    BY <2>1, <2>2, TwoBuffers DEF TempInv
  <2> QED BY <2>3 DEF PartsOf
<1>4. NewCount(2, temps + 1)
  BY DEF NewCount
<1>5. /\ AbsExp' = Append(SubSeq(AbsExp, 1, Len(AbsExp) - 2), [num |-> FALSE, str |-> s])
      /\ AbsParams' = AbsParams /\ AbsCallers' = AbsCallers /\ AbsVals' = AbsVals
  BY <1>1, <1>2, <1>4, TemporaryAbs
<1>6. /\ Len(AbsExp) >= 2
      /\ AbsExp[Len(AbsExp) + 1 - 1].num
      /\ ~AbsExp[Len(AbsExp) + 1 - 2].num
      /\ AbsExp[Len(AbsExp) + 1 - 2].str = get_string(Nth(2))
  BY <1>1, AbsNth
<1>7. out' = <<>>
  BY DEF Part
<1> QED BY <1>3, <1>5, <1>6, <1>7, Abstraction, SameOperators
    DEF ValueSpec!Part, ValueSpec!Nth, ValueSpec!IsNum, ValueSpec!Without,
        ValueSpec!Str, AbsVals

LEMMA FromNumRefines ==
  ASSUME Careful, TypeInv, TempInv, NEW s \in Made, FromNum(s)
  PROVE  ValueSpec!FromNum
<1>1. /\ Len(exp) >= 1 /\ Len(exp) \in Nat /\ 1 \in 1 .. Len(exp)
      /\ Nth(1) = Num /\ temps + 1 \in Nat /\ Temporary(1, s, temps + 1)
  BY OperandAt DEF FromNum, TypeInv
<1>2. NewCount(1, temps + 1)
  BY DEF NewCount
<1>3. /\ AbsExp' = Append(SubSeq(AbsExp, 1, Len(AbsExp) - 1), [num |-> FALSE, str |-> s])
      /\ AbsParams' = AbsParams /\ AbsCallers' = AbsCallers /\ AbsVals' = AbsVals
  BY <1>1, <1>2, TemporaryAbs
<1>4. Len(AbsExp) >= 1 /\ AbsExp[Len(AbsExp) + 1 - 1].num
  BY <1>1, AbsNth
<1>5. out' = <<>> /\ s \in ValueSpec!Strings
  BY StringsAssumption, SameOperators DEF FromNum
<1> QED BY <1>3, <1>4, <1>5, Abstraction
    DEF ValueSpec!FromNum, ValueSpec!Nth, ValueSpec!IsNum, ValueSpec!Without,
        ValueSpec!Str, AbsVals

LEMMA FromHostRefines ==
  ASSUME Careful, TypeInv, TempInv, NEW s \in Made, FromHost(s)
  PROVE  ValueSpec!FromHost
<1>1. /\ AreStrings(1) /\ 1 <= Len(exp) /\ temps + 1 \in Nat
      /\ Temporary(1, s, temps + 1)
  BY DEF FromHost, AreStrings, TypeInv
<1>2. NewCount(1, temps + 1)
  BY DEF NewCount
<1>3. /\ AbsExp' = Append(SubSeq(AbsExp, 1, Len(AbsExp) - 1), [num |-> FALSE, str |-> s])
      /\ AbsParams' = AbsParams /\ AbsCallers' = AbsCallers /\ AbsVals' = AbsVals
  BY <1>1, <1>2, TemporaryAbs
<1>4. /\ Len(AbsExp) >= 1
      /\ \A i \in 1 .. 1 : ~AbsExp[Len(AbsExp) + 1 - i].num
      /\ AbsExp[Len(AbsExp) + 1 - 1].str = get_string(Nth(1))
  BY <1>1, AbsStrings
<1>5. out' = <<AbsExp[Len(AbsExp) + 1 - 1].str>>
  BY <1>4 DEF FromHost
<1>6. s \in ValueSpec!Strings
  BY StringsAssumption, SameOperators
<1> QED BY <1>3, <1>4, <1>5, <1>6, Abstraction
    DEF ValueSpec!FromHost, ValueSpec!AreStrings, ValueSpec!Nth, ValueSpec!IsNum,
        ValueSpec!Without, ValueSpec!Str, AbsVals

(* When no memory changes.                                                 *)
LEMMA StillUnharmed ==
  ASSUME UNCHANGED <<strbuf, heap>>, NEW S
  PROVE  Unharmed(S, strbuf, heap, strbuf', heap')
BY DEF Unharmed

LEMMA StillVals ==
  ASSUME UNCHANGED <<variables, strbuf, heap>>
  PROVE  AbsVals' = AbsVals
BY DEF AbsVals, get_string

LEMMA MeasureRefines ==
  ASSUME Careful, TypeInv, TempInv, NEW n \in 1 .. 2, Measure(n)
  PROVE  ValueSpec!Measure(n)
<1>1. /\ AreStrings(n) /\ n <= Len(exp) /\ n \in Nat
      /\ exp' = Append(Without(n), Num)
      /\ UNCHANGED <<params, callers, variables, strbuf, heap>>
  BY DEF Measure, AreStrings, memory
<1>2. /\ AbsExp' = Append(SubSeq(AbsExp, 1, Len(AbsExp) - n), ValueIn(strbuf', heap', Num))
      /\ AbsParams' = AbsParams /\ AbsCallers' = AbsCallers
  BY <1>1, Members, StillUnharmed, AbsReplace
<1>3. ValueIn(strbuf', heap', Num) = [num |-> TRUE, str |-> <<>>]
  BY Kinds DEF ValueIn, StringIn
<1>4. AbsVals' = AbsVals
  BY <1>1, StillVals
<1>5. /\ Len(AbsExp) >= n
      /\ \A i \in 1 .. n : /\ ~AbsExp[Len(AbsExp) + 1 - i].num
                           /\ AbsExp[Len(AbsExp) + 1 - i].str = get_string(Nth(i))
  BY <1>1, AbsStrings
<1>6. out' = [i \in 1 .. n |-> AbsExp[Len(AbsExp) + 1 - (n + 1 - i)].str]
  <2>1. out' = [i \in 1 .. n |-> get_string(Nth(n + 1 - i))]
    BY DEF Measure
  <2>2. \A i \in 1 .. n : n + 1 - i \in 1 .. n
    OBVIOUS
  <2>3. \A i \in 1 .. n :
          get_string(Nth(n + 1 - i)) = AbsExp[Len(AbsExp) + 1 - (n + 1 - i)].str
    BY <1>5, <2>2
  <2> QED BY <2>1, <2>3
<1>7. n \in {1, 2}
  OBVIOUS
<1> QED BY <1>2, <1>3, <1>4, <1>5, <1>6, <1>7, Abstraction
    DEF ValueSpec!Measure, ValueSpec!AreStrings, ValueSpec!Nth, ValueSpec!IsNum,
        ValueSpec!Without, ValueSpec!Num, AbsVals

LEMMA NoValues == \A b, h : ValuesIn(b, h, <<>>) = <<>>
<1> SUFFICES ASSUME NEW b, NEW h PROVE ValuesIn(b, h, <<>>) = <<>>
  OBVIOUS
<1> DEFINE e == <<>>
<1>1. e \in Seq(Operand) /\ Len(e) = 0
  BY EmptySeq
<1> HIDE DEF e
<1>2. ValuesIn(b, h, e) \in Seq(AllValues(b, h)) /\ Len(ValuesIn(b, h, e)) = 0
  BY <1>1, ValuesSeq
<1>3. ValuesIn(b, h, e) = <<>>
  BY <1>2, EmptySeq
<1> QED BY <1>3 DEF e

LEMMA PushRefines ==
  ASSUME Careful, TypeInv, TempInv, NEW r \in Operand, Push(r)
  PROVE  ValueSpec!Push
<1> DEFINE x == ValueIn(strbuf, heap, r)
<1>1. /\ UNCHANGED <<variables, strbuf, heap, params, callers>>
      /\ exp' = Append(exp, r) /\ out' = <<>>
  BY DEF Push, memory
<1>2. AbsExp' = Append(AbsExp, x)
  <2>1. AbsExp' = ValuesIn(strbuf, heap, Append(exp, r))
    BY <1>1 DEF AbsExp
  <2> QED BY <2>1, OperandAt, ValuesAppend DEF AbsExp
<1>3. AbsParams' = AbsParams /\ AbsCallers' = AbsCallers /\ AbsVals' = AbsVals
  BY <1>1, StillVals DEF AbsParams, AbsCallers
<1>4. x \in {ValueSpec!Num} \cup {ValueSpec!Str(s) : s \in Literals}
            \cup {ValueSpec!Str(AbsVals[v]) : v \in Vars} \cup ToSet(AbsParams)
  <2>1. CASE r = Num
    BY <2>1, Kinds DEF ValueIn, StringIn, ValueSpec!Num
  <2>2. CASE r \in {Code(s) : s \in Literals}
    <3>1. PICK s \in Literals : r = Code(s)
      BY <2>2
    <3>2. r # Num /\ StringIn(strbuf, heap, r) = s
      BY <3>1, Kinds DEF StringIn, Code, Num, Ref
    <3>3. x = ValueSpec!Str(s)
      BY <3>2 DEF ValueIn, ValueSpec!Str
    <3> QED BY <3>3
  <2>3. CASE r \in {variables[v] : v \in Vars}
    <3>1. PICK v \in Vars : r = variables[v]
      BY <2>3
    <3>2. r # Num
      BY <3>1, VariableOperand, Kinds DEF Address, Num, Code, Buf, Chunk, Ref
    <3>3. x = ValueSpec!Str(AbsVals[v])
      BY <3>1, <3>2, ReadIs DEF ValueIn, ValueSpec!Str, AbsVals
    <3> QED BY <3>3
  <2>4. CASE r \in ToSet(params)
    <3>1. params \in Seq(Operand)
      BY DEF TypeInv
    <3>2. PICK i \in 1 .. Len(params) : r = params[i]
      BY <2>4, <3>1, InToSet
    <3>3. /\ AbsParams[i] = x /\ i \in 1 .. Len(AbsParams)
          /\ AbsParams \in Seq(AllValues(strbuf, heap))
      BY <3>1, <3>2, ValuesSeq DEF AbsParams
    <3>4. x \in ToSet(AbsParams)
      BY <3>3, InToSet
    <3> QED BY <3>4
  <2> QED BY <2>1, <2>2, <2>3, <2>4 DEF Push
<1> HIDE DEF x
<1> QED BY <1>1, <1>2, <1>3, <1>4, Abstraction, SameOperators DEF ValueSpec!Push, AbsVals

LEMMA PrintfRefines ==
  ASSUME Careful, TypeInv, TempInv, Printf
  PROVE  ValueSpec!Printf
<1>1. /\ UNCHANGED <<variables, strbuf, heap, params, callers>>
      /\ exp' = <<>> /\ exp # <<>>
      /\ out' = [i \in 1 .. Len(exp) |-> get_string(exp[i])]
  BY DEF Printf, memory
<1>2. /\ AbsExp \in Seq(AllValues(strbuf, heap)) /\ Len(AbsExp) = Len(exp)
      /\ \A i \in 1 .. Len(exp) : AbsExp[i] = ValueIn(strbuf, heap, exp[i])
  BY OperandAt, ValuesSeq DEF AbsExp
<1>3. AbsExp # <<>>
  <2>1. Len(exp) # 0
    BY <1>1, OperandAt, EmptySeq
  <2>2. AbsExp = <<>> => Len(AbsExp) = 0
    BY EmptySeq
  <2> QED BY <1>2, <2>1, <2>2
<1>4. AbsExp' = <<>>
  BY <1>1, NoValues DEF AbsExp
<1>5. AbsParams' = AbsParams /\ AbsCallers' = AbsCallers /\ AbsVals' = AbsVals
  BY <1>1, StillVals DEF AbsParams, AbsCallers
<1>6. \A i \in 1 .. Len(exp) : AbsExp[i].str = get_string(exp[i])
  <2>1. \A r : ValueIn(strbuf, heap, r).str = StringIn(strbuf, heap, r)
    BY Fields DEF ValueIn
  <2> QED BY <1>2, <2>1, ReadIs
<1>7. out' = [i \in 1 .. Len(AbsExp) |-> AbsExp[i].str]
  BY <1>1, <1>2, <1>6
<1> QED BY <1>3, <1>4, <1>5, <1>7, Abstraction DEF ValueSpec!Printf, AbsVals

(* An assignment moves only its own string: the chunks of the others and   *)
(* of everything that waits keep what they hold.                           *)
LEMMA AssignReads ==
  ASSUME Careful, TypeInv, ChunkInv, NEW v \in Vars, Assign(v)
  PROVE  /\ \A r \in Operand : (IsHeap(r) => r.id \in Released(v)) =>
              StringIn(strbuf, heap, r) = StringIn(strbuf', heap', r)
         /\ variables' = [variables EXCEPT ![v] = variables'[v]]
         /\ StringIn(strbuf', heap', variables'[v]) = get_string(Nth(1))
<1> DEFINE r == Nth(1)
<1>1. r \in Operand /\ strbuf' = strbuf
  BY OneOperand DEF Assign
<1>2. Released(v) \subseteq Chunks
  BY DEF Released, TypeInv
<1>3. \A c \in Released(v) : Cleared(Released(v))[c] = heap[c]
  BY <1>2 DEF Cleared
<1>4. CASE Shared(r)
  <2>1. heap' = Cleared(Released(v)) /\ variables' = [variables EXCEPT ![v] = r]
    BY <1>4 DEF Assign
  <2>2. variables'[v] = r
    BY <2>1 DEF TypeInv
  <2>3. StringIn(strbuf', heap', r) = get_string(r)
    BY <1>4 DEF Shared, StringIn, get_string, IsTemp, IsHeap
  <2> QED BY <1>1, <1>3, <2>1, <2>2, <2>3 DEF StringIn, IsHeap
<1>5. CASE ~Shared(r)
  <2>1. PICK c \in Room(v, r) :
          /\ heap' = [Cleared(Released(v)) EXCEPT ![c] = get_string(r)]
          /\ variables' = [variables EXCEPT ![v] = Chunk(c)]
    BY <1>5 DEF Assign
  <2>2. c \in Chunks /\ c \notin Released(v)
    BY <1>1, RoomFree
  <2>3. variables'[v] = Chunk(c)
    BY <2>1 DEF TypeInv
  <2>4. heap'[c] = get_string(r) /\ \A d \in Released(v) : heap'[d] = heap[d]
    BY <1>2, <1>3, <2>1, <2>2 DEF Cleared
  <2>5. StringIn(strbuf', heap', Chunk(c)) = get_string(r)
    BY <2>4, Kinds DEF StringIn
  <2> QED BY <1>1, <2>1, <2>3, <2>4, <2>5 DEF StringIn, IsHeap
<1> QED BY <1>4, <1>5

LEMMA AssignRefines ==
  ASSUME Careful, TypeInv, ChunkInv, TempInv, NEW v \in Vars, Assign(v)
  PROVE  ValueSpec!Assign(v)
<1>1. /\ Len(exp) = 1 /\ AreStrings(1) /\ exp' = <<>> /\ out' = <<>>
      /\ UNCHANGED <<params, callers>>
  BY DEF Assign
<1>2. "reassign" \notin Habits
  BY DEF Careful
<1>3. \A r \in Held : r \in Operand /\ (IsHeap(r) => r.id \in Released(v))
  BY <1>2, HeldKept, StackOperands DEF OnStacks
<1>4. Unharmed(Held, strbuf, heap, strbuf', heap')
  BY <1>3, AssignReads DEF Unharmed
<1>5. AbsParams' = AbsParams /\ AbsCallers' = AbsCallers
  <2>1. /\ AbsParams' = ValuesIn(strbuf', heap', params)
        /\ AbsCallers' = CallersIn(strbuf', heap', callers)
    BY <1>1 DEF AbsParams, AbsCallers, CallersIn, CallerIn, ValuesIn, ValueIn, StringIn, Num, Ref
  <2> QED BY <1>4, <2>1, SameCallers DEF AbsParams, AbsCallers
<1>6. AbsExp' = <<>>
  <2>1. AbsExp' = ValuesIn(strbuf', heap', <<>>)
    BY <1>1 DEF AbsExp, ValuesIn, ValueIn, StringIn, Num, Ref
  <2> QED BY <2>1, NoValues
<1>7. /\ Len(AbsExp) = 1 /\ Len(AbsExp) >= 1
      /\ \A i \in 1 .. 1 : ~AbsExp[Len(AbsExp) + 1 - i].num
      /\ AbsExp[Len(AbsExp) + 1 - 1].str = get_string(Nth(1))
  <2>1. Len(AbsExp) = 1
    BY <1>1, OperandAt, ValuesSeq DEF AbsExp
  <2> QED BY <1>1, <2>1, AbsStrings
<1>8. AbsVals' = [AbsVals EXCEPT ![v] = get_string(Nth(1))]
  <2>1. \A w \in Vars : AbsVals'[w] = StringIn(strbuf', heap', variables'[w])
    BY DEF AbsVals, get_string, StringIn
  <2>2. AbsVals'[v] = get_string(Nth(1))
    BY <2>1, AssignReads
  <2>3. ASSUME NEW w \in Vars \ {v} PROVE AbsVals'[w] = AbsVals[w]
    <3>1. variables'[w] = variables[w] /\ variables[w] \in Operand
      BY AssignReads, VariableOperand DEF TypeInv
    <3>2. IsHeap(variables[w]) => variables[w].id \in Released(v)
      <4>1. ASSUME IsHeap(variables[w]) PROVE variables[w].id \in Released(v)
        <5>1. variables[w] = Chunk(variables[w].id)
          BY <4>1, HeapVariable
        <5> QED BY <5>1, ReleasedOthers
      <4> QED BY <4>1
    <3>3. StringIn(strbuf', heap', variables[w]) = get_string(variables[w])
      BY <3>1, <3>2, AssignReads, ReadIs
    <3> QED BY <2>1, <3>1, <3>3 DEF AbsVals
  <2>4. AbsVals = [w \in Vars |-> AbsVals[w]] /\ AbsVals' = [w \in Vars |-> AbsVals'[w]]
    BY DEF AbsVals
  <2> QED BY <2>2, <2>3, <2>4
<1> QED BY <1>1, <1>5, <1>6, <1>7, <1>8, Abstraction
    DEF ValueSpec!Assign, ValueSpec!AreStrings, ValueSpec!Nth, ValueSpec!IsNum, AbsVals

-----------------------------------------------------------------------------
(* Calls and returns.                                                      *)

LEMMA CallersSeq ==
  ASSUME NEW b, NEW h, NEW s \in Seq(Frame)
  PROVE  /\ CallersIn(b, h, s) \in Seq(AllCallers(b, h))
         /\ Len(CallersIn(b, h, s)) = Len(s) /\ Len(s) \in Nat
         /\ \A i \in 1 .. Len(s) : CallersIn(b, h, s)[i] = CallerIn(b, h, s[i])
<1>1. DOMAIN s = 1 .. Len(s) /\ Len(s) \in Nat /\ \A i \in 1 .. Len(s) : s[i] \in Frame
  BY LenProperties, ElementOfSeq
<1> DEFINE t == CallersIn(b, h, s)
<1>2. t = [i \in 1 .. Len(s) |-> CallerIn(b, h, s[i])]
  BY <1>1 DEF CallersIn
<1>3. \A i \in 1 .. Len(s) : CallerIn(b, h, s[i]) \in AllCallers(b, h)
  BY <1>1 DEF AllCallers
<1>4. t \in Seq(AllCallers(b, h)) /\ DOMAIN t = 1 .. Len(s)
  BY <1>1, <1>2, <1>3, SeqDef
<1>5. Len(t) = Len(s)
  <2> HIDE DEF t
  <2> QED BY <1>1, <1>4, LenProperties
<1>6. \A i \in 1 .. Len(s) : t[i] = CallerIn(b, h, s[i])
  BY <1>2
<1> QED BY <1>1, <1>4, <1>5, <1>6

LEMMA CallersAppend ==
  ASSUME NEW b, NEW h, NEW s \in Seq(Frame), NEW f \in Frame
  PROVE  CallersIn(b, h, Append(s, f)) = Append(CallersIn(b, h, s), CallerIn(b, h, f))
<1> DEFINE t == Append(s, f)
           u == CallersIn(b, h, s)
           w == Append(u, CallerIn(b, h, f))
           x == CallersIn(b, h, t)
<1>1. /\ t \in Seq(Frame) /\ Len(t) = Len(s) + 1 /\ Len(s) \in Nat
      /\ \A i \in 1 .. Len(s) : t[i] = s[i]
      /\ t[Len(s) + 1] = f
  BY AppendSeq
<1>2. /\ u \in Seq(AllCallers(b, h)) /\ Len(u) = Len(s)
      /\ \A i \in 1 .. Len(s) : u[i] = CallerIn(b, h, s[i])
  BY CallersSeq
<1>3. CallerIn(b, h, f) \in AllCallers(b, h)
  BY DEF AllCallers
<1> HIDE DEF t, u
<1>4. /\ w \in Seq(AllCallers(b, h)) /\ Len(w) = Len(s) + 1
      /\ \A i \in 1 .. Len(s) : w[i] = u[i]
      /\ w[Len(s) + 1] = CallerIn(b, h, f)
  BY <1>2, <1>3, AppendSeq
<1>5. /\ x \in Seq(AllCallers(b, h)) /\ Len(x) = Len(t)
      /\ \A i \in 1 .. Len(t) : x[i] = CallerIn(b, h, t[i])
  BY <1>1, CallersSeq
<1> HIDE DEF w, x
<1>6. \A i \in 1 .. Len(x) : x[i] = w[i]
  <2> SUFFICES ASSUME NEW i \in 1 .. Len(x) PROVE x[i] = w[i]
    OBVIOUS
  <2>1. i \in 1 .. Len(s) \/ i = Len(s) + 1
    BY <1>1, <1>5
  <2> QED BY <1>1, <1>2, <1>4, <1>5, <2>1
<1>7. x = w
  BY <1>1, <1>4, <1>5, <1>6, SameSeq
<1> QED BY <1>7 DEF t, u, w, x

LEMMA CallersBack ==
  ASSUME NEW b, NEW h, NEW s \in Seq(Frame), s # <<>>
  PROVE  /\ CallersIn(b, h, s) # <<>>
         /\ Last(CallersIn(b, h, s)) = CallerIn(b, h, Last(s))
         /\ Front(CallersIn(b, h, s)) = CallersIn(b, h, Front(s))
<1> DEFINE u == CallersIn(b, h, s)
           t == Front(s)
           w == Front(u)
           x == CallersIn(b, h, t)
<1>1. /\ t \in Seq(Frame) /\ Len(s) \in Nat /\ Len(s) > 0 /\ Len(t) = Len(s) - 1
      /\ \A i \in 1 .. Len(s) - 1 : t[i] = s[i]
  BY LastCaller
<1>2. /\ u \in Seq(AllCallers(b, h)) /\ Len(u) = Len(s)
      /\ \A i \in 1 .. Len(s) : u[i] = CallerIn(b, h, s[i])
  BY CallersSeq
<1> HIDE DEF u, t
<1>3. u # <<>>
  <2>1. u = <<>> => Len(u) = 0
    BY EmptySeq
  <2> QED BY <1>1, <1>2, <2>1
<1>4. Last(u) = CallerIn(b, h, Last(s))
  BY <1>1, <1>2 DEF Last
<1>5. /\ w \in Seq(AllCallers(b, h)) /\ Len(w) = Len(u) - 1
      /\ \A i \in 1 .. Len(u) - 1 : w[i] = u[i]
  BY <1>2, <1>3, LastCaller
<1>6. /\ x \in Seq(AllCallers(b, h)) /\ Len(x) = Len(t)
      /\ \A i \in 1 .. Len(t) : x[i] = CallerIn(b, h, t[i])
  BY <1>1, CallersSeq
<1> HIDE DEF w, x
<1>7. \A i \in 1 .. Len(x) : x[i] = w[i]
  <2> SUFFICES ASSUME NEW i \in 1 .. Len(x) PROVE x[i] = w[i]
    OBVIOUS
  <2>1. i \in 1 .. Len(s) - 1 /\ i \in 1 .. Len(s)
    BY <1>1, <1>6
  <2> QED BY <1>1, <1>2, <1>5, <1>6, <2>1
<1>8. x = w
  BY <1>1, <1>2, <1>5, <1>6, <1>7, SameSeq
<1> QED BY <1>3, <1>4, <1>8 DEF u, t, w, x

LEMMA CallRefines ==
  ASSUME Careful, TypeInv, TempInv, NEW n \in Nat, Call(n)
  PROVE  ValueSpec!Call(n) /\ n <= Len(AbsExp)
<1> DEFINE f == [exp |-> Without(n), params |-> params, temps |-> CountAfter(Without(n))]
           a == [i \in 1 .. n |-> exp[Len(exp) - n + i]]
<1>1. /\ UNCHANGED <<variables, strbuf, heap>> /\ n <= Len(exp)
      /\ callers' = Append(callers, f) /\ params' = a
      /\ exp' = <<>> /\ out' = <<>>
  BY DEF Call, memory
<1>2. f \in Frame /\ f.exp = Without(n) /\ f.params = params /\ callers \in Seq(Frame)
  BY <1>1, WithoutSeq, CountBounded DEF Frame, TypeInv
<1>3. a \in Seq(Operand) /\ Len(a) = n /\ \A i \in 1 .. n : Len(exp) - n + i \in 1 .. Len(exp)
  <2>1. a \in Seq(Operand) /\ \A i \in 1 .. n : Len(exp) - n + i \in 1 .. Len(exp)
    BY <1>1, ArgumentsSeq
  <2>2. DOMAIN a = 1 .. n /\ DOMAIN a = 1 .. Len(a) /\ Len(a) \in Nat
    BY <2>1, LenProperties
  <2>3. Len(a) = n
    <3> DEFINE l == Len(a)
    <3>1. 1 .. l = 1 .. n /\ l \in Nat
      BY <2>2
    <3> HIDE DEF l
    <3>2. l = n
      BY <3>1
    <3> QED BY <3>2 DEF l
  <2> QED BY <2>1, <2>3
<1>4. \A i \in 1 .. n : a[i] = exp[Len(exp) - n + i]
  OBVIOUS
<1> HIDE DEF f, a
<1>5. /\ Len(AbsExp) = Len(exp)
      /\ \A i \in 1 .. Len(exp) : AbsExp[i] = ValueIn(strbuf, heap, exp[i])
  BY OperandAt, ValuesSeq DEF AbsExp
<1>6. AbsCallers' = Append(AbsCallers, [exp |-> SubSeq(AbsExp, 1, Len(AbsExp) - n),
                                        params |-> AbsParams])
  <2>1. AbsCallers' = CallersIn(strbuf, heap, Append(callers, f))
    BY <1>1 DEF AbsCallers
  <2>2. AbsCallers' = Append(AbsCallers, CallerIn(strbuf, heap, f))
    BY <1>2, <2>1, CallersAppend DEF AbsCallers
  <2>3. ValuesIn(strbuf, heap, Without(n)) = SubSeq(AbsExp, 1, Len(AbsExp) - n)
    BY <1>1, ValuesWithout DEF AbsExp
  <2>4. CallerIn(strbuf, heap, f) =
          [exp |-> SubSeq(AbsExp, 1, Len(AbsExp) - n), params |-> AbsParams]
    BY <1>2, <2>3 DEF CallerIn, AbsParams
  <2> QED BY <2>2, <2>4
<1>7. AbsParams' = [i \in 1 .. n |-> AbsExp[Len(AbsExp) - n + i]]
  <2>1. AbsParams' = ValuesIn(strbuf, heap, a)
    BY <1>1 DEF AbsParams
  <2>2. DOMAIN a = 1 .. n
    BY <1>3, LenProperties
  <2>3. \A i \in 1 .. n : ValueIn(strbuf, heap, a[i]) = AbsExp[Len(AbsExp) - n + i]
    BY <1>3, <1>4, <1>5
  <2> QED BY <2>1, <2>2, <2>3 DEF ValuesIn
<1>8. AbsExp' = <<>>
  BY <1>1, NoValues DEF AbsExp
<1>9. AbsVals' = AbsVals
  BY <1>1, StillVals
<1> QED BY <1>1, <1>5, <1>6, <1>7, <1>8, <1>9, Abstraction
    DEF ValueSpec!Call, ValueSpec!Without, AbsVals

LEMMA ReturnRefines ==
  ASSUME Careful, TypeInv, TempInv, Return
  PROVE  ValueSpec!Return
<1> DEFINE f == Last(callers)
<1>1. /\ UNCHANGED <<variables, strbuf, heap>> /\ callers # <<>> /\ Len(exp) <= 1
      /\ exp' = f.exp \o exp /\ params' = f.params /\ callers' = Front(callers)
      /\ out' = <<>>
  BY DEF Return, memory
<1>2. callers \in Seq(Frame) /\ f.exp \in Seq(Operand) /\ exp \in Seq(Operand)
  BY ReturnStacks DEF TypeInv
<1> HIDE DEF f
<1>3. /\ AbsCallers # <<>> /\ Last(AbsCallers) = CallerIn(strbuf, heap, f)
      /\ Front(AbsCallers) = CallersIn(strbuf, heap, Front(callers))
  BY <1>1, <1>2, CallersBack DEF AbsCallers, f
<1>4. Len(AbsExp) <= 1
  BY <1>1, <1>2, ValuesSeq DEF AbsExp
<1>5. /\ Last(AbsCallers).exp = ValuesIn(strbuf, heap, f.exp)
      /\ Last(AbsCallers).params = ValuesIn(strbuf, heap, f.params)
  BY <1>3 DEF CallerIn
<1>6. AbsExp' = Last(AbsCallers).exp \o AbsExp
  <2>1. AbsExp' = ValuesIn(strbuf, heap, f.exp \o exp)
    BY <1>1 DEF AbsExp
  <2> QED BY <1>2, <1>5, <2>1, ValuesConcat DEF AbsExp
<1>7. AbsParams' = Last(AbsCallers).params
  BY <1>1, <1>5 DEF AbsParams
<1>8. AbsCallers' = Front(AbsCallers)
  BY <1>1, <1>3 DEF AbsCallers
<1>9. AbsVals' = AbsVals
  BY <1>1, StillVals
<1> QED BY <1>1, <1>3, <1>4, <1>6, <1>7, <1>8, <1>9, Abstraction, SameOperators
    DEF ValueSpec!Return, AbsVals

LEMMA InitRefines == Init => ValueSpec!Init
<1> SUFFICES ASSUME Init PROVE ValueSpec!Init
  OBVIOUS
<1>1. exp = <<>> /\ params = <<>> /\ callers = <<>> /\ out = <<>>
  BY DEF Init
<1>2. AbsExp = <<>> /\ AbsParams = <<>>
  BY <1>1, NoValues DEF AbsExp, AbsParams
<1>3. AbsCallers = <<>>
  <2>1. callers \in Seq(Frame) /\ Len(callers) = 0
    BY <1>1, EmptySeq
  <2>2. AbsCallers \in Seq(AllCallers(strbuf, heap)) /\ Len(AbsCallers) = 0
    BY <2>1, CallersSeq DEF AbsCallers
  <2> QED BY <2>2, EmptySeq
<1>4. AbsVals = [v \in Vars |-> <<>>]
  <2>1. \A v \in Vars : variables[v] = Code(<<>>)
    BY DEF Init
  <2>2. \A v \in Vars : get_string(variables[v]) = <<>>
    BY <2>1, Kinds DEF get_string
  <2> QED BY <2>2 DEF AbsVals
<1> QED BY <1>1, <1>2, <1>3, <1>4, Abstraction DEF ValueSpec!Init, AbsVals

LEMMA StepRefines ==
  ASSUME Careful, TypeInv, ChunkInv, TempInv, [Next]_vars
  PROVE  ValueSpec!Next \/ UNCHANGED ValueSpec!vars
<1>0. /\ Len(AbsExp) = Len(exp) /\ Len(Values(exp)) = Len(exp) /\ Len(exp) \in Nat
  BY OperandAt, ValuesSeq, Abstraction DEF AbsExp
<1>1. CASE Operators
  <2>1. ASSUME NEW n \in 1 .. 2, Measure(n) PROVE ValueSpec!Next
    <3>1. n \in 0 .. Len(Values(exp))
      BY <1>0, <2>1 DEF Measure, AreStrings
    <3> QED BY <2>1, <3>1, MeasureRefines DEF ValueSpec!Next
  <2> QED BY <1>1, <2>1, ConcatRefines, PartRefines DEF Operators, ValueSpec!Next
<1>2. CASE Sources
  BY <1>2, FromNumRefines, FromHostRefines DEF Sources, ValueSpec!Next
<1>3. CASE Pushes
  BY <1>3, PushRefines DEF Pushes, ValueSpec!Next
<1>4. CASE Uses
  BY <1>4, PrintfRefines, AssignRefines DEF Uses, ValueSpec!Next
<1>5. CASE Calls
  <2>1. ASSUME NEW n \in 0 .. MaxOperands, Call(n) PROVE ValueSpec!Next
    <3>1. n \in Nat
      BY StringsAssumption
    <3>2. ValueSpec!Call(n) /\ n \in 0 .. Len(Values(exp))
      BY <1>0, <2>1, <3>1, CallRefines
    <3> QED BY <3>2 DEF ValueSpec!Next
  <2> QED BY <1>5, <2>1, ReturnRefines DEF Calls, ValueSpec!Next
<1>6. CASE UNCHANGED vars
  <2>1. AbsExp' = AbsExp /\ AbsParams' = AbsParams /\ AbsCallers' = AbsCallers
        /\ AbsVals' = AbsVals /\ out' = out
    BY <1>6, StillVals DEF vars, memory, AbsExp, AbsParams, AbsCallers
  <2> QED BY <2>1, Abstraction DEF ValueSpec!vars, AbsVals
<1> QED BY <1>1, <1>2, <1>3, <1>4, <1>5, <1>6 DEF Next

(* The addresses of nc_run, get_string and realloc_string are values: a    *)
(* string stays what it was when it was pushed, until it is used.  This is *)
(* so for programs with none of the three habits: no third temporary       *)
(* string (nanoc_reference.md line 791), no temporary string as an         *)
(* argument or waiting while a function runs, and no assignment to a       *)
(* variable whose string waits.  The last two are not documented limits:   *)
(* line 294 has parameters passed by value (MCStringsArgument and          *)
(* MCStringsReassign show otherwise).                                      *)
THEOREM ValuesCorrect ==
  ASSUME Careful
  PROVE  Spec => Implements
<1> DEFINE Inv == TypeInv /\ ChunkInv /\ TempInv
<1>1. Init => Inv
  BY InitTypes, InitChunks, InitTemps
<1>2. Inv /\ [Next]_vars => Inv'
  <2>1. "reassign" \notin Habits
    BY DEF Careful
  <2> QED BY <2>1, StepTypes, StepChunks, StepTemps
<1>3. Inv /\ [Next]_vars => [ValueSpec!Next]_(ValueSpec!vars)
  BY StepRefines
<1> HIDE DEF Inv
<1> QED BY <1>1, <1>2, <1>3, InitRefines, PTL DEF Spec, Implements, ValueSpec!Spec

=============================================================================
