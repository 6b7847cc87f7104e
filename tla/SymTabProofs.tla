---------------------------- MODULE SymTabProofs ----------------------------
(***************************************************************************)
(* Proofs about SymTab, for every set of names and every size of the       *)
(* symbol table.                                                           *)
(***************************************************************************)
EXTENDS SymTab, FiniteSetTheorems, WellFoundedInduction, TLAPS

-----------------------------------------------------------------------------
(* The shape of the variables, whatever the numbers are.                   *)
Entry == [name : Names \cup {NoName}, type : VarTypes \cup {"LABEL", "CNST"},
          is_local : BOOLEAN, value : Int]

Shape ==
  /\ sym \in [Slots -> Entry]
  /\ CurrVarIdx \in Nat /\ local_var_count \in Nat
  /\ phase \in {"idle", "top", "params", "body"}

(* A name has one entry for its global, one for its local meaning.         *)
Unique ==
  \A i, j \in Slots : sym[i].name # NoName /\ sym[i].name = sym[j].name
                      /\ sym[i].is_local = sym[j].is_local => i = j

(* What holds whatever the program does.                                   *)
NamesInv == Shape /\ Unique /\ FrameOK

-----------------------------------------------------------------------------
LEMMA SlotsFinite ==
  /\ NumSym \in Nat /\ NumSym <= 255
  /\ Slots \subseteq Nat /\ IsFiniteSet(Slots) /\ Cardinality(Slots) = NumSym
  <1>1. NumSym \in 1 .. 255
    BY SymAssumption DEF SymAssumption
  <1>2. NumSym \in Nat /\ NumSym - 1 \in Int
    BY <1>1
  <1>3. IsFiniteSet(Slots) /\ Cardinality(Slots) = NumSym
    BY <1>2, FS_Interval, <1>1 DEF Slots
  <1> QED
    BY <1>1, <1>2, <1>3 DEF Slots

LEMMA FirstFreeSlot == Free # {} => FirstFree \in Free /\ FirstFree \in Slots
  <1> SUFFICES ASSUME Free # {} PROVE FirstFree \in Free
    BY DEF Free, Named
  <1>1. Free \in SUBSET Nat
    BY SlotsFinite DEF Free, Named
  <1>2. \E i \in Free : \A j \in Free : i <= j
    <2>1. PICK i \in Free : \A j \in Free : ~ (<<j, i>> \in OpToRel(<, Nat))
      BY <1>1, NatLessThanWellFounded, WFMin
    <2>2. ASSUME NEW j \in Free PROVE i <= j
      <3>1. <<j, i>> \notin {p \in Nat \X Nat : p[1] < p[2]}
        BY <2>1 DEF OpToRel
      <3>2. i \in Nat /\ j \in Nat
        BY <1>1
      <3>3. ~(j < i)
        BY <3>1, <3>2
      <3> QED
        BY <3>2, <3>3
    <2> QED
      BY <2>2
  <1> QED
    BY <1>2 DEF FirstFree

(* sym_add: the entry of a token, found or new.                            *)
LEMMA TableOf ==
  ASSUME Shape, NEW n \in Names, IsNew(n) => Free # {}
  PROVE  /\ Slot(n) \in Slots /\ Table(n) \in [Slots -> Entry] /\ NextIdx(n) \in Nat
         /\ \A i \in Slots \ {Slot(n)} : Table(n)[i] = sym[i]
         /\ Table(n)[Slot(n)].name = n
         /\ IsNew(n) => /\ Slot(n) \in Free /\ Table(n)[Slot(n)] = NewSymbol(n)
         /\ ~IsNew(n) => /\ Table(n) = sym
                         /\ Local(n) # {} => sym[Slot(n)].is_local
  <1>1. NewSymbol(n) \in Entry
    BY DEF NewSymbol, Entry, Shape, VarTypes
  <1>2. NextIdx(n) \in Nat
    <2>1. (CurrVarIdx + 1) % 256 \in Nat
      BY DEF Shape
    <2> QED
      BY <2>1 DEF NextIdx, Byte, Shape
  <1>3. CASE IsNew(n)
    <2>1. Slot(n) = FirstFree /\ FirstFree \in Free /\ FirstFree \in Slots
      BY <1>3, FirstFreeSlot DEF Slot
    <2>2. Table(n) = [sym EXCEPT ![FirstFree] = NewSymbol(n)]
      BY <1>3 DEF Table
    <2>3. NewSymbol(n).name = n
      BY DEF NewSymbol
    <2> QED
      BY <1>1, <1>2, <1>3, <2>1, <2>2, <2>3 DEF Shape
  <1>4. CASE ~IsNew(n)
    <2>1. Slot(n) \in Named(n) /\ (Local(n) # {} => Slot(n) \in Local(n))
      BY <1>4 DEF Slot, IsNew, Local
    <2> QED
      BY <1>2, <1>4, <2>1 DEF Table, Named, Local, Shape
  <1> QED
    BY <1>3, <1>4

-----------------------------------------------------------------------------
(* What a token does to the names.  The entry k stands for n then: it did  *)
(* before, and may have become local as the only local one; or it was free *)
(* and n had no meaning, or no local one and k is local.                   *)
Stands(n, k) ==
  /\ n \in Names /\ k \in Slots
  /\ sym' \in [Slots -> Entry] /\ sym'[k].name = n
  /\ \A i \in Slots \ {k} : sym'[i] = sym[i]
  /\ \/ /\ sym[k].name = n
        /\ sym'[k].is_local = sym[k].is_local \/ (sym'[k].is_local /\ Local(n) = {})
     \/ /\ sym[k].name = NoName
        /\ IsNew(n) \/ (Local(n) = {} /\ sym'[k].is_local)

(* And to the frame: a local variable keeps its offset or gets the next.   *)
Placed(k) ==
  /\ phase' = phase /\ CurrVarIdx' \in Nat
  /\ local_var_count' \in {local_var_count, local_var_count + 1}
  /\ IsLocal(k)' => /\ in_func
                    /\ \/ IsLocal(k) /\ sym'[k].value = sym[k].value
                       \/ /\ sym'[k].value = local_var_count
                          /\ local_var_count' = local_var_count + 1

LEMMA StandsUnique ==
  ASSUME Shape, Unique, NEW n, NEW k, Stands(n, k)
  PROVE  Unique'
  <1>1. n # NoName
    BY SymAssumption DEF SymAssumption, Stands
  <1>2. ASSUME NEW i \in Slots, i # k,
               sym'[i].name = n, sym'[i].is_local = sym'[k].is_local
        PROVE  FALSE
    <2>1. sym[i].name = n /\ sym[i].is_local = sym'[k].is_local /\ i \in Named(n)
      BY <1>2 DEF Stands, Named
    <2>2. CASE sym[k].name = n /\ sym'[k].is_local = sym[k].is_local
      BY <1>1, <1>2, <2>1, <2>2 DEF Unique, Stands
    <2>3. CASE sym'[k].is_local /\ Local(n) = {}
      BY <2>1, <2>3 DEF Local
    <2>4. CASE IsNew(n)
      BY <2>1, <2>4 DEF IsNew
    <2> QED
      BY <2>2, <2>3, <2>4 DEF Stands
  <1>3. ASSUME NEW i \in Slots, NEW j \in Slots, sym'[i].name # NoName,
               sym'[i].name = sym'[j].name, sym'[i].is_local = sym'[j].is_local
        PROVE  i = j
    <2>1. CASE i = k \/ j = k
      BY <1>2, <1>3, <2>1 DEF Stands
    <2>2. CASE i # k /\ j # k
      BY <1>3, <2>2 DEF Unique, Stands
    <2> QED
      BY <2>1, <2>2
  <1> QED
    BY <1>3 DEF Unique

LEMMA PlacedFrame ==
  ASSUME NamesInv, NEW n, NEW k, Stands(n, k), Placed(k)
  PROVE  NamesInv'
  <1>1. Shape'
    BY DEF NamesInv, Shape, Stands, Placed
  <1>2. Unique'
    BY StandsUnique DEF NamesInv
  <1>3. \A i \in Slots \ {k} : IsLocal(i)' = IsLocal(i) /\ sym'[i] = sym[i]
    BY DEF Stands, IsLocal, IsVar
  <1>4. k \in Slots
    BY DEF Stands
  <1>5. local_var_count \in Nat /\ local_var_count' \in Nat
        /\ local_var_count <= local_var_count' /\ in_func' = in_func /\ phase' = phase
    BY DEF NamesInv, Shape, Placed, in_func
  <1>6. ASSUME in_func', NEW i \in Slots, IsLocal(i)'
        PROVE  sym'[i].value < local_var_count'
    <2>1. ASSUME NEW j \in Slots, IsLocal(j) PROVE sym[j].value < local_var_count
      BY <2>1, <1>5, <1>6 DEF NamesInv, FrameOK
    <2>2. sym[i].value \in Int /\ sym'[i].value \in Int
      BY <1>1 DEF NamesInv, Shape, Entry
    <2>3. CASE i # k
      BY <1>3, <1>5, <1>6, <2>1, <2>2, <2>3
    <2>4. CASE i = k
      BY <1>5, <1>6, <2>1, <2>2, <2>4 DEF Placed
    <2> QED
      BY <2>3, <2>4
  <1>7. ASSUME in_func', NEW i \in Slots, IsLocal(i)', NEW j \in Slots, i # j, IsLocal(j)'
        PROVE  sym'[i].value # sym'[j].value
    <2>1. \A a, b \in Slots : IsLocal(a) /\ IsLocal(b) /\ a # b
            => sym[a].value < local_var_count /\ sym[a].value # sym[b].value
      BY <1>5, <1>7 DEF NamesInv, FrameOK
    <2>2. ASSUME NEW a \in Slots \ {k}, IsLocal(a)', IsLocal(k)'
          PROVE  sym'[a].value # sym'[k].value
      <3>1. IsLocal(a) /\ sym'[a].value = sym[a].value
        BY <1>3, <2>2
      <3>2. sym[a].value < local_var_count
        BY <3>1, <1>5, <1>7 DEF NamesInv, FrameOK
      <3>3. sym[a].value \in Int
        BY DEF NamesInv, Shape, Entry
      <3> QED
        BY <1>4, <1>5, <2>1, <2>2, <3>1, <3>2, <3>3 DEF Placed
    <2> QED
      BY <1>3, <1>7, <2>1, <2>2
  <1>8. ASSUME phase' = "top", NEW i \in Slots PROVE ~IsLocal(i)'
    BY <1>3, <1>5, <1>8 DEF Placed, NamesInv, FrameOK, in_func
  <1>9. FrameOK'
    BY <1>6, <1>7, <1>8 DEF FrameOK
  <1> QED
    BY <1>1, <1>2, <1>9 DEF NamesInv

-----------------------------------------------------------------------------
(* Each use of a name does no more than that.                              *)

LEMMA SlotStands ==
  ASSUME Shape, NEW n \in Names, IsNew(n) => Free # {}, NEW k, k = Slot(n),
         NEW r \in Entry, r.name = n, sym' = [Table(n) EXCEPT ![k] = r],
         r.is_local = Table(n)[k].is_local \/ (r.is_local /\ Local(n) = {})
  PROVE  Stands(n, k)
  <1>1. CASE IsNew(n)
    BY <1>1, TableOf DEF Stands, Free, Named
  <1>2. CASE ~IsNew(n)
    BY <1>2, TableOf DEF Stands
  <1> QED
    BY <1>1, <1>2

(* The entry of a token before and after: a new one is no local variable.  *)
LEMMA EntryOf ==
  ASSUME NamesInv, NEW n \in Names, IsNew(n) => Free # {}
  PROVE  LET e == Table(n)[Slot(n)] IN
         /\ e \in Entry /\ e.name = n /\ n # NoName
         /\ e.is_local => e = sym[Slot(n)]
         /\ e.is_local /\ e.type \in VarTypes =>
              (IsLocal(Slot(n)) /\ in_func) \/ phase = "idle"
         /\ Local(n) = {} => ~e.is_local
  <1> DEFINE e == Table(n)[Slot(n)]
  <1>1. e \in Entry /\ e.name = n /\ n # NoName /\ Slot(n) \in Slots
    BY TableOf, SymAssumption DEF NamesInv, SymAssumption
  <1>2. e.is_local => ~IsNew(n) /\ e = sym[Slot(n)]
    <2>1. IsNew(n) => e = NewSymbol(n) /\ ~e.is_local
      BY TableOf DEF NamesInv, NewSymbol
    <2>2. ~IsNew(n) => e = sym[Slot(n)]
      BY TableOf DEF NamesInv
    <2> QED
      BY <2>1, <2>2
  <1>3. Local(n) = {} => ~e.is_local
    BY <1>1, <1>2 DEF Local, Named
  <1>4. e.is_local /\ e.type \in VarTypes => (IsLocal(Slot(n)) /\ in_func) \/ phase = "idle"
    BY <1>1, <1>2 DEF IsLocal, IsVar, NamesInv, FrameOK, Shape, in_func
  <1> QED
    BY <1>1, <1>2, <1>3, <1>4

LEMMA UsedName ==
  ASSUME NamesInv, NEW n \in Names, Token(n, {"top", "body"}), UNCHANGED frame,
         CurrVarIdx' \in Nat,
         NEW r \in Entry, r.name = n, sym' = [Table(n) EXCEPT ![Slot(n)] = r],
         r.is_local = Table(n)[Slot(n)].is_local,
         r.type \in VarTypes => /\ Table(n)[Slot(n)].type \in VarTypes
                                /\ r.value = Table(n)[Slot(n)].value
  PROVE  NamesInv'
  <1>0. PICK k : k = Slot(n)
    OBVIOUS
  <1>1. IsNew(n) => Free # {}
    BY DEF Token
  <1>2. Stands(n, k)
    BY <1>0, <1>1, SlotStands DEF NamesInv
  <1>3. sym'[k] = r /\ k \in Slots
    BY <1>0, <1>1, TableOf DEF NamesInv
  <1>4. Placed(k)
    <2>1. phase' = phase /\ phase # "idle" /\ local_var_count' = local_var_count
      BY DEF Token, frame
    <2>2. ASSUME IsLocal(k)'
          PROVE  in_func /\ IsLocal(k) /\ sym'[k].value = sym[k].value
      <3>1. r.is_local /\ r.type \in VarTypes
        BY <2>2, <1>3 DEF IsLocal, IsVar
      <3> QED
        BY <3>1, <2>1, <1>0, <1>1, <1>3, EntryOf
    <2> QED
      BY <2>1, <2>2 DEF Placed
  <1> QED
    BY <1>2, <1>4, PlacedFrame

LEMMA StatementsKeep ==
  ASSUME NamesInv, NEW n \in Names,
         \/ Read(n) \/ Call(n) \/ StrDecl(n) \/ ArrDecl(n) \/ Const(n, 0) \/ Label(n)
  PROVE  NamesInv'
  <1> DEFINE e == Table(n)[Slot(n)]
  <1>1. Token(n, {"top", "body"}) /\ UNCHANGED frame
    BY DEF Read, Call, StrDecl, ArrDecl, Const, Label, Token
  <1>2. (IsNew(n) => Free # {}) /\ Shape
    BY <1>1 DEF Token, NamesInv
  <1>3. /\ e \in Entry /\ e.name = n /\ NextIdx(n) \in Nat
        /\ Slot(n) \in Slots /\ Table(n) \in [Slots -> Entry]
    BY <1>2, EntryOf, TableOf
  <1>4. CurrVarIdx' \in Nat
    <2>1. (NextIdx(n) - 1) % 256 \in Nat
      BY <1>3
    <2> QED
      BY <2>1, <1>3 DEF Read, Call, StrDecl, ArrDecl, Const, Label, Byte
  <1>5. CASE Read(n) \/ Call(n)
    <2>1. sym' = [Table(n) EXCEPT ![Slot(n)] = e]
      BY <1>3, <1>5 DEF Read, Call
    <2>2. e.type \in VarTypes
      BY <1>5 DEF Read, Call, TypeOf, VarTypes
    <2> QED
      BY <1>1, <1>3, <1>4, <2>1, <2>2, UsedName
  <1>6. ASSUME NEW t \in {"STRID", "ARR"}, sym' = [Table(n) EXCEPT ![Slot(n)].type = t],
               e.type \in VarTypes
        PROVE  NamesInv'
    <2> DEFINE r == [e EXCEPT !.type = t]
    <2>1. r \in Entry /\ r.name = n /\ r.is_local = e.is_local /\ r.value = e.value
      BY <1>3 DEF Entry, VarTypes
    <2>2. sym' = [Table(n) EXCEPT ![Slot(n)] = r]
      BY <1>6
    <2> QED
      BY <1>1, <1>4, <1>6, <2>1, <2>2, UsedName
  <1>7. ASSUME NEW t \in {"LABEL", "CNST"},
               sym' = [Table(n) EXCEPT ![Slot(n)].type = t, ![Slot(n)].value = 0]
        PROVE  NamesInv'
    <2> DEFINE r == [e EXCEPT !.type = t, !.value = 0]
    <2>0. t \in VarTypes \cup {"LABEL", "CNST"} /\ 0 \in Int /\ e \in Entry /\ e.name = n
      BY <1>3
    <2> HIDE DEF e
    <2>1. r \in Entry /\ r.name = n /\ r.is_local = e.is_local /\ r.type = t
      BY <2>0 DEF Entry
    <2> USE DEF e
    <2>2. sym' = [Table(n) EXCEPT ![Slot(n)] = r]
      BY <1>3, <1>7
    <2> QED
      BY <1>1, <1>4, <2>1, <2>2, UsedName DEF VarTypes
  <1>8. CASE StrDecl(n) \/ ArrDecl(n)
    BY <1>8, <1>6 DEF StrDecl, ArrDecl, TypeOf, VarTypes
  <1>9. CASE Const(n, 0) \/ Label(n)
    BY <1>9, <1>7 DEF Const, Label
  <1> QED
    BY <1>5, <1>8, <1>9

LEMMA MakeLocalKeeps ==
  ASSUME NamesInv, NEW n \in Names, Token(n, {"top", "body"}), in_func,
         ~Table(n)[Slot(n)].is_local,
         MakeLocal(Slot(n), n), CurrVarIdx' = NextIdx(n)
  PROVE  NamesInv'
  <1> DEFINE e == Table(n)[Slot(n)]
             r == [e EXCEPT !.is_local = TRUE, !.value = local_var_count]
  <1>0. PICK k : k = Slot(n)
    OBVIOUS
  <1>1. (IsNew(n) => Free # {}) /\ Shape
    BY DEF Token, NamesInv
  <1>2. /\ e \in Entry /\ e.name = n /\ NextIdx(n) \in Nat
        /\ Slot(n) \in Slots /\ Table(n) \in [Slots -> Entry]
    BY <1>1, EntryOf, TableOf
  <1>3. local_var_count \in Int /\ local_var_count \in Nat
    BY <1>1 DEF Shape
  <1>4. /\ r \in Entry /\ r.name = n /\ r.is_local /\ r.value = local_var_count
        /\ r.is_local = TRUE
    <2> HIDE DEF e
    <2> QED
      BY <1>2, <1>3 DEF Entry
  <1>5. sym' = [Table(n) EXCEPT ![k] = r]
    BY <1>0, <1>2 DEF MakeLocal
  <1>6. Local(n) = {}
    <2>1. IsNew(n) => Local(n) = {}
      BY DEF IsNew, Local
    <2>2. ~IsNew(n) /\ Local(n) # {} => e.is_local
      BY <1>1, TableOf
    <2> QED
      BY <2>1, <2>2
  <1> HIDE DEF r
  <1>7. Stands(n, k)
    BY <1>0, <1>1, <1>4, <1>5, <1>6, SlotStands
  <1>8. Placed(k)
    <2>1. sym'[k] = r
      BY <1>0, <1>2, <1>5
    <2> QED
      BY <2>1, <1>2, <1>4 DEF Placed, MakeLocal, Token
  <1> QED
    BY <1>7, <1>8, PlacedFrame

(* The two kinds of assignment.                                            *)
VarAssigned(n)   == Assign(n) /\ AssignVar(n)
LabelAssigned(n) == Assign(n) /\ AssignLabel(n)

LEMMA Assignments ==
  ASSUME NEW n \in Names, Assign(n)
  PROVE  VarAssigned(n) \/ LabelAssigned(n)
  BY DEF Assign, VarAssigned, LabelAssigned

LEMMA AssignKeeps ==
  ASSUME NamesInv, NEW n \in Names, VarAssigned(n) \/ ForVar(n)
  PROVE  NamesInv'
  <1> DEFINE e == Table(n)[Slot(n)]
  <1>1. Token(n, {"top", "body"}) /\ CurrVarIdx' = NextIdx(n)
    BY DEF VarAssigned, Assign, AssignVar, ForVar
  <1>2. (IsNew(n) => Free # {}) /\ Shape
    BY <1>1 DEF Token, NamesInv
  <1>3. CASE sym' = Table(n) /\ UNCHANGED frame
    <2>1. /\ e \in Entry /\ e.name = n /\ NextIdx(n) \in Nat
          /\ Slot(n) \in Slots /\ Table(n) \in [Slots -> Entry]
      BY <1>2, EntryOf, TableOf
    <2>2. sym' = [Table(n) EXCEPT ![Slot(n)] = e]
      BY <2>1, <1>3
    <2>3. e.type \in VarTypes
      BY DEF VarAssigned, Assign, AssignVar, ForVar, TypeOf, VarTypes
    <2> QED
      BY <1>1, <1>3, <2>1, <2>2, <2>3, UsedName
  <1>4. CASE VarAssigned(n) /\ LooksNew(n) /\ MakeLocal(Slot(n), n)
    <2>1. in_func /\ ~e.is_local
      BY <1>4 DEF LooksNew
    <2> QED
      BY <1>1, <1>4, <2>1, MakeLocalKeeps
  <1>5. CASE ForVar(n) /\ in_func /\ IsNew(n) /\ MakeLocal(Slot(n), n)
    <2>1. e = NewSymbol(n)
      BY <1>2, <1>5, TableOf
    <2>2. ~e.is_local
      BY <2>1 DEF NewSymbol
    <2> QED
      BY <1>1, <1>5, <2>2, MakeLocalKeeps
  <1> QED
    BY <1>3, <1>4, <1>5 DEF VarAssigned, Assign, AssignVar, ForVar

LEMMA AssignLabelKeeps ==
  ASSUME NamesInv, NEW n \in Names, LabelAssigned(n)
  PROVE  NamesInv'
  <1> DEFINE e == Table(n)[Slot(n)]
  <1>1. Token(n, {"top", "body"}) /\ CurrVarIdx' = NextIdx(n) /\ e.type = "LABEL"
    BY DEF LabelAssigned, Assign, AssignLabel, TypeOf
  <1>2. (IsNew(n) => Free # {}) /\ Shape
    BY <1>1 DEF Token, NamesInv
  <1>3. CASE sym' = Table(n) /\ UNCHANGED frame
    <2>1. /\ e \in Entry /\ e.name = n /\ NextIdx(n) \in Nat
          /\ Slot(n) \in Slots /\ Table(n) \in [Slots -> Entry]
      BY <1>2, EntryOf, TableOf
    <2>2. sym' = [Table(n) EXCEPT ![Slot(n)] = e]
      BY <2>1, <1>3
    <2>3. e.type \notin VarTypes
      BY <1>1 DEF VarTypes
    <2> QED
      BY <1>1, <1>3, <2>1, <2>2, <2>3, UsedName
  <1>4. CASE in_func /\ ~sym[Slot(n)].is_local /\ MakeLocal(Slot(n), n)
    <2>1. ~IsNew(n)
      <3>1. IsNew(n) => e = NewSymbol(n)
        BY <1>2, TableOf
      <3> QED
        BY <3>1, <1>1 DEF NewSymbol
    <2>2. ~e.is_local
      BY <1>2, <1>4, <2>1, TableOf
    <2> QED
      BY <1>1, <1>4, <2>2, MakeLocalKeeps
  <1> QED
    BY <1>3, <1>4 DEF LabelAssigned, Assign, AssignLabel

LEMMA ParamKeeps ==
  ASSUME NamesInv, NEW n \in Names, NEW type \in VarTypes, Param(n, type)
  PROVE  NamesInv'
  <1>1. (IsNew(n) => Free # {}) /\ Shape /\ phase = "params" /\ phase' = phase
        /\ local_var_count' = local_var_count + 1
    BY DEF Token, NamesInv, Param
  <1>2. local_var_count \in Int /\ local_var_count \in Nat /\ CurrVarIdx \in Nat
        /\ type \in VarTypes \cup {"LABEL", "CNST"}
    BY <1>1 DEF Shape
  <1>3. ASSUME NEW s \in Entry
        PROVE  LET r == AsParam(s, type) IN
               r \in Entry /\ r.name = s.name /\ r.is_local = TRUE /\ r.is_local
               /\ r.value = local_var_count
    BY <1>2, <1>3 DEF AsParam, Entry
  <1>4. CASE Shadows(n)
    <2>0. PICK k : k = FirstFree
      OBVIOUS
    <2> DEFINE r == AsParam(NewSymbol(n), type)
    <2>1. NewSymbol(n) \in Entry /\ NewSymbol(n).name = n
      BY <1>2 DEF NewSymbol, Entry, VarTypes
    <2>2. k \in Slots /\ sym[k].name = NoName
      BY <2>0, <1>4, FirstFreeSlot DEF Param, ShadowGlobal, Free, Named
    <2>3. /\ r \in Entry /\ r.name = n /\ r.is_local /\ r.value = local_var_count
      BY <1>3, <2>1
    <2>4. sym' = [sym EXCEPT ![k] = r] /\ CurrVarIdx' = (CurrVarIdx + 1) % 256
      BY <1>4, <2>0 DEF Param, ShadowGlobal, Byte
    <2> HIDE DEF r
    <2>5. sym'[k] = r
      BY <2>2, <2>4, <1>1 DEF Shape
    <2>6. Stands(n, k)
      BY <1>1, <1>4, <2>2, <2>3, <2>4, <2>5 DEF Stands, Shape, Shadows
    <2>7. CurrVarIdx' \in Nat
      BY <1>2, <2>4
    <2>8. Placed(k)
      BY <1>1, <2>3, <2>5, <2>7 DEF Placed, in_func
    <2> QED
      BY <2>6, <2>8, PlacedFrame
  <1>5. CASE ~Shadows(n)
    <2>0. PICK k : k = Slot(n)
      OBVIOUS
    <2> DEFINE e == Table(n)[Slot(n)]
               r == AsParam(e, type)
    <2>1. /\ e \in Entry /\ e.name = n /\ NextIdx(n) \in Nat
          /\ Slot(n) \in Slots /\ Table(n) \in [Slots -> Entry]
      BY <1>1, EntryOf, TableOf
    <2>2. r \in Entry /\ r.name = n /\ r.is_local = TRUE /\ r.is_local
          /\ r.value = local_var_count
      BY <1>3, <2>1
    <2>3. sym' = [Table(n) EXCEPT ![k] = r] /\ CurrVarIdx' = NextIdx(n)
      BY <1>5, <2>0, <2>1 DEF Param
    <2>4. e.is_local \/ Local(n) = {}
      <3>1. CASE IsNew(n)
        BY <3>1 DEF IsNew, Local
      <3>2. CASE ~IsNew(n)
        BY <3>2, <1>1, <1>5, TableOf DEF Shadows
      <3> QED
        BY <3>1, <3>2
    <2>5. r.is_local = e.is_local \/ (r.is_local /\ Local(n) = {})
      <3>1. e.is_local \in BOOLEAN
        BY <2>1 DEF Entry
      <3> QED
        BY <3>1, <2>2, <2>4
    <2> HIDE DEF r
    <2>6. Stands(n, k)
      BY <2>0, <1>1, <2>2, <2>3, <2>5, SlotStands
    <2>7. sym'[k] = r
      BY <2>0, <2>1, <2>3
    <2>8. Placed(k)
      BY <1>1, <2>1, <2>2, <2>3, <2>7 DEF Placed, in_func
    <2> QED
      BY <2>6, <2>8, PlacedFrame
  <1> QED
    BY <1>4, <1>5

-----------------------------------------------------------------------------
(* Where the compiler enters and leaves functions and programs.            *)
LEMMA FuncBeginKeeps ==
  ASSUME NamesInv, NEW n \in Names, FuncBegin(n)
  PROVE  NamesInv'
  <1>0. PICK k : k = Slot(n)
    OBVIOUS
  <1> DEFINE e == Table(n)[Slot(n)]
             r == [e EXCEPT !.type = "LABEL", !.value = 0]
  <1>1. (IsNew(n) => Free # {}) /\ Shape /\ phase = "top" /\ phase' = "params"
        /\ local_var_count' = 0 /\ CurrVarIdx' = Released(n)
    BY DEF NamesInv, FuncBegin
  <1>2. /\ e \in Entry /\ e.name = n /\ NextIdx(n) \in Nat
        /\ Slot(n) \in Slots /\ Table(n) \in [Slots -> Entry]
    BY <1>1, EntryOf, TableOf
  <1>3. r \in Entry /\ r.name = n /\ r.is_local = e.is_local /\ r.type = "LABEL"
    <2>1. "LABEL" \in VarTypes \cup {"LABEL", "CNST"} /\ 0 \in Int
      OBVIOUS
    <2> HIDE DEF e
    <2> QED
      BY <1>2, <2>1 DEF Entry
  <1>4. sym' = [Table(n) EXCEPT ![k] = r]
    BY <1>0, <1>2 DEF FuncBegin
  <1> HIDE DEF r
  <1>5. Stands(n, k)
    BY <1>0, <1>1, <1>3, <1>4, SlotStands
  <1>6. sym'[k] = r
    BY <1>0, <1>2, <1>4
  <1>7. CurrVarIdx' \in Nat
    <2>1. (NextIdx(n) - 1) % 256 \in Nat
      BY <1>2
    <2> QED
      BY <1>1, <1>2, <2>1 DEF Released, Byte
  <1>8. Shape'
    BY <1>1, <1>5, <1>7 DEF Shape, Stands
  <1>9. \A i \in Slots : ~IsLocal(i)'
    <2>1. ~IsLocal(k)'
      BY <1>3, <1>6 DEF IsLocal, IsVar, VarTypes
    <2>2. \A i \in Slots \ {k} : IsLocal(i)' = IsLocal(i)
      BY <1>5 DEF Stands, IsLocal, IsVar
    <2> QED
      BY <2>1, <2>2, <1>1 DEF NamesInv, FrameOK
  <1>10. FrameOK'
    BY <1>9 DEF FrameOK
  <1>11. Unique'
    BY <1>1, <1>5, StandsUnique DEF NamesInv
  <1> QED
    BY <1>8, <1>10, <1>11 DEF NamesInv

LEMMA ClearedIs ==
  ASSUME Shape
  PROVE  /\ Cleared \in [Slots -> Entry]
         /\ \A i \in Slots : /\ i \in Locals => Cleared[i].name = NoName
                             /\ i \notin Locals => Cleared[i] = sym[i]
                             /\ ~Cleared[i].is_local
  <1>1. ASSUME NEW i \in Slots
        PROVE  LET c == [sym[i] EXCEPT !.name = NoName, !.is_local = FALSE] IN
               c \in Entry /\ c.name = NoName /\ c.is_local = FALSE
    BY <1>1 DEF Shape, Entry
  <1>2. ASSUME NEW i \in Slots PROVE sym[i] \in Entry /\ sym[i].is_local \in BOOLEAN
    BY <1>2 DEF Shape, Entry
  <1> QED
    BY <1>1, <1>2 DEF Cleared, Locals

LEMMA EnterLeaveKeeps ==
  ASSUME NamesInv,
         Body \/ FuncEnd \/ Compile \/ EndOfFile \/ Error \/ NcInit \/ UNCHANGED vars
  PROVE  NamesInv'
  <1> USE DEF NamesInv
  <1>1. CASE Body \/ EndOfFile \/ Error \/ UNCHANGED vars
    <2>1. sym' = sym /\ local_var_count' = local_var_count /\ CurrVarIdx' = CurrVarIdx
      BY <1>1 DEF Body, EndOfFile, Error, vars, frame
    <2>2. phase' \in {"idle", "top", "params", "body"}
          /\ (phase' = "top" => phase = "top") /\ (in_func' => in_func)
      BY <1>1 DEF Body, EndOfFile, Error, vars, Shape, in_func
    <2>3. \A i \in Slots : IsLocal(i)' = IsLocal(i)
      BY <2>1 DEF IsLocal, IsVar
    <2> QED
      BY <2>1, <2>2, <2>3 DEF Shape, Unique, FrameOK
  <1>2. CASE FuncEnd
    <2>1. /\ sym' = Cleared /\ phase' = "top" /\ local_var_count' = 0
      BY <1>2 DEF FuncEnd
    <2>2. CurrVarIdx' \in Nat
      <3>1. Cardinality(Locals) \in Nat
        BY SlotsFinite, FS_Subset, FS_CardinalityType DEF Locals
      <3>2. (CurrVarIdx - Cardinality(Locals)) % 256 \in Nat
        BY <3>1 DEF Shape
      <3> QED
        BY <1>2, <3>2 DEF FuncEnd, Byte
    <2>3. Shape'
      BY <2>1, <2>2, ClearedIs DEF Shape
    <2>4. Unique'
      BY <2>1, ClearedIs DEF Unique
    <2>5. FrameOK'
      BY <2>1, ClearedIs DEF FrameOK, IsLocal, in_func
    <2> QED
      BY <2>3, <2>4, <2>5
  <1>3. CASE Compile \/ NcInit
    <2>1. \A i \in Slots : sym'[i].name = NoName
      BY <1>3 DEF Compile, NcInit, NoSymbol
    <2>2. sym' \in [Slots -> Entry]
      <3>1. NoSymbol \in Entry /\ \A b \in BOOLEAN : [NoSymbol EXCEPT !.is_local = b] \in Entry
        BY DEF NoSymbol, Entry, VarTypes
      <3>2. \A i \in Slots : sym[i].is_local \in BOOLEAN
        BY DEF Shape, Entry
      <3> QED
        BY <1>3, <3>1, <3>2 DEF Compile, NcInit
    <2>3. CurrVarIdx' = 0 /\ (local_var_count' = 0 \/ local_var_count' = local_var_count)
          /\ phase' \in {"idle", "top"}
      BY <1>3 DEF Compile, NcInit, frame
    <2> QED
      BY <2>1, <2>2, <2>3 DEF Shape, Unique, FrameOK, IsLocal, IsVar, in_func
  <1> QED
    BY <1>1, <1>2, <1>3

LEMMA NamesInitial == Init => NamesInv
  <1> SUFFICES ASSUME Init PROVE NamesInv
    OBVIOUS
  <1>1. NoSymbol \in Entry
    BY DEF NoSymbol, Entry, VarTypes
  <1> QED
    BY <1>1 DEF Init, NamesInv, Shape, Unique, FrameOK, NoSymbol, IsLocal, IsVar, in_func

LEMMA NamesStep == NamesInv /\ [Next]_vars => NamesInv'
  <1> SUFFICES ASSUME NamesInv, [Next]_vars PROVE NamesInv'
    OBVIOUS
  <1>1. ASSUME NEW n \in Names, Statement(n) PROVE NamesInv'
    BY <1>1, StatementsKeep, Assignments, AssignKeeps, AssignLabelKeeps DEF Statement
  <1>2. ASSUME NEW n \in Names, Function(n) PROVE NamesInv'
    BY <1>2, FuncBeginKeeps, ParamKeeps DEF Function
  <1> QED
    BY <1>1, <1>2, EnterLeaveKeeps DEF Next

LEMMA NamesAlways == Spec => []NamesInv
  BY NamesInitial, NamesStep, PTL DEF Spec

(* In a function no two local variables share an offset and none is past   *)
(* the room that ENTER reserves; outside of functions there is none.       *)
THEOREM FrameCorrect == Spec => []FrameOK
  <1>1. NamesInv => FrameOK
    BY DEF NamesInv
  <1> QED
    BY <1>1, NamesAlways, PTL

(* sym_add and sym_add_local give a name one global and one local meaning. *)
THEOREM NamesCorrect == Spec => []OneMeaning
  <1>1. ASSUME NamesInv PROVE OneMeaning
    <2>1. ASSUME NEW S \in SUBSET Slots, \A i, j \in S : i = j PROVE Cardinality(S) <= 1
      <3>1. CASE S = {}
        BY <3>1, FS_EmptySet
      <3>2. CASE S # {}
        <4>1. PICK i \in S : TRUE
          BY <3>2
        <4>2. S = {i}
          BY <4>1, <2>1
        <4> QED
          BY <4>2, FS_Singleton
      <3> QED
        BY <3>1, <3>2
    <2>2. ASSUME NEW n \in Names
          PROVE  Cardinality(Local(n)) <= 1 /\ Cardinality(Named(n) \ Local(n)) <= 1
      <3>1. n # NoName
        BY SymAssumption DEF SymAssumption
      <3>2. \A i \in Slots : sym[i].is_local \in BOOLEAN
        BY <1>1 DEF NamesInv, Shape, Entry
      <3>3. Local(n) \subseteq Slots /\ \A i, j \in Local(n) : i = j
        BY <1>1, <3>1, <3>2 DEF NamesInv, Unique, Local, Named
      <3>4. Named(n) \ Local(n) \subseteq Slots /\ \A i, j \in Named(n) \ Local(n) : i = j
        BY <1>1, <3>1, <3>2 DEF NamesInv, Unique, Local, Named
      <3> QED
        BY <2>1, <3>3, <3>4
    <2> QED
      BY <2>2 DEF OneMeaning
  <1> QED
    BY <1>1, NamesAlways, PTL

-----------------------------------------------------------------------------
(* What GlobalsStay asks of a step.                                        *)
Stay ==
  phase # "idle" /\ phase' # "idle" =>
    \A i \in Slots : IsGlobal(i) =>
      /\ sym'[i].name = sym[i].name
      /\ IsVar(i)' => ~sym'[i].is_local /\ sym'[i].value = sym[i].value

(* The use of a name changes one entry.  If that is one of a global        *)
(* variable, it stays one or is no variable any more.                      *)
LEMMA EntryStays ==
  ASSUME Shape, NEW n \in Names, IsNew(n) => Free # {},
         NEW r, r.name = n, sym' = [Table(n) EXCEPT ![Slot(n)] = r],
         ~IsNew(n) /\ IsGlobal(Slot(n)) /\ r.type \in VarTypes =>
           ~r.is_local /\ r.value = sym[Slot(n)].value
  PROVE  Stay
  <1>0. PICK k : k = Slot(n)
    OBVIOUS
  <1>1. /\ k \in Slots /\ Table(n) \in [Slots -> Entry]
        /\ \A i \in Slots \ {k} : Table(n)[i] = sym[i]
        /\ Table(n)[k].name = n
        /\ IsNew(n) => sym[k].name = NoName
        /\ ~IsNew(n) => Table(n) = sym
    BY <1>0, TableOf DEF Free, Named
  <1>2. sym'[k] = r /\ \A i \in Slots \ {k} : sym'[i] = sym[i]
    BY <1>0, <1>1
  <1>3. ASSUME NEW i \in Slots, IsGlobal(i)
        PROVE  /\ sym'[i].name = sym[i].name
               /\ IsVar(i)' => ~sym'[i].is_local /\ sym'[i].value = sym[i].value
    <2>1. CASE i # k
      BY <1>2, <1>3, <2>1 DEF IsGlobal
    <2>2. CASE i = k
      <3>1. ~IsNew(n) /\ sym[k].name = n
        BY <1>1, <1>3, <2>2 DEF IsGlobal, IsVar
      <3> QED
        BY <1>0, <1>2, <1>3, <2>2, <3>1 DEF IsVar
    <2> QED
      BY <2>1, <2>2
  <1> QED
    BY <1>3 DEF Stay

LEMMA StatementsStay ==
  ASSUME NamesInv, "newest" \notin Habits, NEW n \in Names, Statement(n)
  PROVE  Stay
  <1> DEFINE e == Table(n)[Slot(n)]
  <1>1. (IsNew(n) => Free # {}) /\ Shape
    BY DEF Statement, Assign, ForVar, Read, Call, StrDecl, ArrDecl, Const, Label,
           Token, NamesInv
  <1>2. /\ e \in Entry /\ e.name = n /\ Slot(n) \in Slots /\ Table(n) \in [Slots -> Entry]
        /\ ~IsNew(n) => e = sym[Slot(n)]
        /\ IsNew(n) => e = NewSymbol(n)
    BY <1>1, EntryOf, TableOf
  <1>3. CASE sym' = Table(n)
    <2>1. sym' = [Table(n) EXCEPT ![Slot(n)] = e]
      BY <1>2, <1>3
    <2> HIDE DEF e
    <2>2. ~IsNew(n) /\ IsGlobal(Slot(n)) => ~e.is_local /\ e.value = sym[Slot(n)].value
      BY <1>2 DEF IsGlobal
    <2> QED
      BY <1>1, <1>2, <2>1, <2>2, EntryStays
  <1>4. CASE /\ MakeLocal(Slot(n), n)
             /\ ~IsNew(n) => ~IsGlobal(Slot(n))
    <2> DEFINE r == [e EXCEPT !.is_local = TRUE, !.value = local_var_count]
    <2>1. sym' = [Table(n) EXCEPT ![Slot(n)] = r]
      BY <1>2, <1>4 DEF MakeLocal
    <2>2. r.name = n
      <3> HIDE DEF e
      <3> QED
        BY <1>2 DEF Entry
    <2> HIDE DEF r
    <2> QED
      BY <1>1, <1>4, <2>1, <2>2, EntryStays
  <1>5. ASSUME NEW t, sym' = [Table(n) EXCEPT ![Slot(n)].type = t]
        PROVE  Stay
    <2> DEFINE r == [e EXCEPT !.type = t]
    <2>1. sym' = [Table(n) EXCEPT ![Slot(n)] = r]
      BY <1>5
    <2>2. r.name = n /\ r.is_local = e.is_local /\ r.value = e.value
      <3> HIDE DEF e
      <3> QED
        BY <1>2 DEF Entry
    <2> HIDE DEF r, e
    <2>3. ~IsNew(n) /\ IsGlobal(Slot(n)) => ~r.is_local /\ r.value = sym[Slot(n)].value
      BY <1>2, <2>2 DEF IsGlobal
    <2> QED
      BY <1>1, <2>1, <2>2, <2>3, EntryStays
  <1>6. ASSUME NEW t \in {"LABEL", "CNST"},
               sym' = [Table(n) EXCEPT ![Slot(n)].type = t, ![Slot(n)].value = 0]
        PROVE  Stay
    <2> DEFINE r == [e EXCEPT !.type = t, !.value = 0]
    <2>1. sym' = [Table(n) EXCEPT ![Slot(n)] = r]
      BY <1>2, <1>6
    <2>2. r.name = n /\ r.type = t
      <3> HIDE DEF e
      <3> QED
        BY <1>2 DEF Entry
    <2> HIDE DEF r, e
    <2>3. r.type \notin VarTypes
      BY <1>6, <2>2 DEF VarTypes
    <2> QED
      BY <1>1, <2>1, <2>2, <2>3, EntryStays
  <1>7. CASE VarAssigned(n) \/ ForVar(n)
    BY <1>3, <1>4, <1>7 DEF VarAssigned, Assign, AssignVar, ForVar
  <1>8. CASE LabelAssigned(n)
    <2>1. ~IsNew(n) => ~IsGlobal(Slot(n))
      BY <1>2, <1>8 DEF LabelAssigned, Assign, AssignLabel, TypeOf, IsGlobal, IsVar, VarTypes
    <2> QED
      BY <1>3, <1>4, <1>8, <2>1 DEF LabelAssigned, Assign, AssignLabel
  <1>9. CASE Read(n) \/ Call(n) \/ StrDecl(n) \/ ArrDecl(n) \/ Const(n, 0) \/ Label(n)
    BY <1>3, <1>5, <1>6, <1>9 DEF Read, Call, StrDecl, ArrDecl, Const, Label
  <1> QED
    BY <1>7, <1>8, <1>9, Assignments DEF Statement

LEMMA FunctionsStay ==
  ASSUME NamesInv, NEW n \in Names, Function(n)
  PROVE  Stay
  <1> DEFINE e == Table(n)[Slot(n)]
  <1>1. (IsNew(n) => Free # {}) /\ Shape
    BY DEF Function, FuncBegin, Param, Token, NamesInv
  <1>2. /\ e \in Entry /\ e.name = n /\ Slot(n) \in Slots /\ Table(n) \in [Slots -> Entry]
        /\ ~IsNew(n) => Table(n) = sym
        /\ ~IsNew(n) /\ Local(n) # {} => sym[Slot(n)].is_local
    BY <1>1, EntryOf, TableOf
  <1>3. CASE FuncBegin(n)
    <2> DEFINE r == [e EXCEPT !.type = "LABEL", !.value = 0]
    <2>1. sym' = [Table(n) EXCEPT ![Slot(n)] = r]
      BY <1>2, <1>3 DEF FuncBegin
    <2>2. r.name = n /\ r.type = "LABEL"
      <3> HIDE DEF e
      <3> QED
        BY <1>2 DEF Entry
    <2> HIDE DEF r, e
    <2>3. r.type \notin VarTypes
      BY <2>2 DEF VarTypes
    <2> QED
      BY <1>1, <2>1, <2>2, <2>3, EntryStays
  <1>4. ASSUME NEW type \in VarTypes, Param(n, type) PROVE Stay
    <2>1. CASE Shadows(n)
      <3>0. PICK k : k = FirstFree
        OBVIOUS
      <3>1. k \in Slots /\ sym[k].name = NoName
        BY <3>0, <1>4, <2>1, FirstFreeSlot DEF Param, ShadowGlobal, Free, Named
      <3>2. \A i \in Slots \ {k} : sym'[i] = sym[i]
        BY <3>0, <3>1, <1>1, <1>4, <2>1 DEF Param, ShadowGlobal, Shape
      <3> QED
        BY <3>1, <3>2 DEF Stay, IsGlobal, IsVar
    <2>2. CASE ~Shadows(n)
      <3> DEFINE r == AsParam(e, type)
      <3>1. sym' = [Table(n) EXCEPT ![Slot(n)] = r]
        BY <1>2, <1>4, <2>2 DEF Param
      <3>2. r.name = n
        <4> HIDE DEF e
        <4> QED
          BY <1>2 DEF Entry, AsParam
      <3> HIDE DEF r, e
      <3>3. ~IsNew(n) => ~IsGlobal(Slot(n))
        BY <1>2, <2>2 DEF Shadows, IsGlobal
      <3> QED
        BY <1>1, <3>1, <3>2, <3>3, EntryStays
    <2> QED
      BY <2>1, <2>2
  <1> QED
    BY <1>3, <1>4 DEF Function

(* Only a program that assigns, in a function, to the global created last  *)
(* makes a step that takes a global variable away.                         *)
LEMMA StayStep ==
  ASSUME "newest" \notin Habits, NamesInv, [Next]_vars
  PROVE  Stay
  <1>1. CASE FuncEnd
    <2>1. \A i \in Slots : IsGlobal(i) => sym'[i] = sym[i]
      BY <1>1, ClearedIs DEF FuncEnd, IsGlobal, Locals, NamesInv
    <2> QED
      BY <2>1 DEF Stay, IsGlobal
  <1>2. CASE Body \/ Compile \/ EndOfFile \/ Error \/ NcInit \/ UNCHANGED vars
    <2>1. sym' = sym \/ phase = "idle"
      BY <1>2 DEF Body, Compile, EndOfFile, Error, NcInit, vars
    <2> QED
      BY <2>1 DEF Stay, IsGlobal
  <1> QED
    BY <1>1, <1>2, StatementsStay, FunctionsStay DEF Next

-----------------------------------------------------------------------------
(* The indexes.  FuncEnd gives back one index for each local variable.     *)

(* Programs for which CurrVarIdx counts the variables: nobody gives an     *)
(* index back that is in use.                                              *)
Counting == Habits \subseteq {"newest", "forward", "unseen"}

(* Programs for which, in addition, no global variable is created in a     *)
(* function: the indexes a function gives back are those of its locals.    *)
Orderly == Habits \subseteq {"newest"}

Used == {i \in Slots : sym[i].name # NoName}

NoLocals ==
  phase = "top" \/ (phase = "idle" /\ ~failed) => Locals = {}

Counted ==
  /\ IndexesCounted
  /\ phase # "idle" => CurrVarIdx <= Cardinality(Used)

LocalsCounted ==
  in_func => /\ Locals \subseteq Used
             /\ local_var_count <= Cardinality(Locals) + param_count

(* Where CurrVarIdx will be after the function.                            *)
GlobalsEnd == CurrVarIdx - Cardinality(Locals)

GlobalsBelow ==
  phase # "idle" => \A i \in Slots : IsGlobal(i) => sym[i].value < GlobalsEnd

IndexInv ==
  /\ NamesInv /\ TypeOK
  /\ NoLocals /\ Counted /\ LocalsCounted
  /\ Orderly => GlobalsBelow /\ IndexesDistinct

LEMMA Bounds ==
  /\ NumSym \in Nat /\ MaxParams \in Nat
  /\ NumSym <= 255 /\ NumSym + MaxParams <= 255
  <1>1. NumSym \in 1 .. 255 /\ MaxParams \in 1 .. 8 /\ NumSym + MaxParams <= 255
    BY SymAssumption DEF SymAssumption
  <1> QED
    BY <1>1

LEMMA SlotSets ==
  ASSUME NEW S \in SUBSET Slots
  PROVE  /\ IsFiniteSet(S) /\ Cardinality(S) \in 0 .. NumSym
         /\ \A k \in Slots \ S : Cardinality(S \cup {k}) = Cardinality(S) + 1
  <1>1. IsFiniteSet(S) /\ Cardinality(S) <= NumSym
    BY SlotsFinite, FS_Subset
  <1>2. Cardinality(S) \in Nat
    BY <1>1, FS_CardinalityType
  <1>3. \A k \in Slots \ S : Cardinality(S \cup {k}) = Cardinality(S) + 1
    BY <1>1, FS_AddElement
  <1> QED
    BY <1>1, <1>2, <1>3, Bounds

(* The entry k changes while names are used.                               *)
Touched(k) ==
  /\ k \in Slots /\ sym' \in [Slots -> Symbol]
  /\ \A i \in Slots \ {k} : sym'[i] = sym[i]
  /\ phase # "idle" /\ UNCHANGED <<phase, failed, local_var_start_idx>>
  /\ param_count' \in 0 .. MaxParams

(* It had a name: it keeps its scope, and its value unless it is local.    *)
Reused(k) ==
  /\ Touched(k)
  /\ sym[k].name # NoName /\ sym'[k].name = sym[k].name
  /\ sym'[k].is_local = sym[k].is_local
  /\ IsVar(k)' => IsVar(k) /\ (sym'[k].value = sym[k].value \/ sym[k].is_local)
  /\ CurrVarIdx' = CurrVarIdx
  /\ local_var_count' = local_var_count + param_count' - param_count
  /\ param_count' # param_count => in_func

(* It was free.  A variable takes an index; in a function of an orderly    *)
(* program no global variable is created.                                  *)
Created(k) ==
  /\ Touched(k)
  /\ sym[k].name = NoName /\ sym'[k].name # NoName
  /\ \/ /\ sym'[k].is_local /\ in_func
        /\ CurrVarIdx' = CurrVarIdx + 1
        /\ local_var_count' = local_var_count + 1
        /\ param_count' >= param_count
     \/ /\ ~sym'[k].is_local
        /\ CurrVarIdx' \in {CurrVarIdx, CurrVarIdx + 1}
        /\ local_var_count' = local_var_count /\ param_count' = param_count
        /\ IsVar(k)' => /\ Orderly => ~in_func
                        /\ sym'[k].value = CurrVarIdx /\ CurrVarIdx' = CurrVarIdx + 1

(* It was the global variable with the last index, and becomes local.      *)
Taken(k) ==
  /\ Touched(k)
  /\ in_func /\ IsGlobal(k) /\ sym[k].value = CurrVarIdx - 1
  /\ sym'[k].name = sym[k].name /\ sym'[k].is_local
  /\ CurrVarIdx' = CurrVarIdx
  /\ local_var_count' = local_var_count + 1 /\ param_count' = param_count

(* The entries that hold an index, and the local ones, are sets of slots.  *)
LEMMA HeldBounds ==
  ASSUME IndexInv, phase # "idle"
  PROVE  /\ Held \in SUBSET Slots /\ Used \in SUBSET Slots /\ Locals \in SUBSET Slots
         /\ Locals \subseteq Held
         /\ Cardinality(Held) \in 0 .. NumSym /\ Cardinality(Used) \in 0 .. NumSym
         /\ Cardinality(Locals) \in 0 .. NumSym
         /\ Cardinality(Locals) <= Cardinality(Held)
         /\ Cardinality(Held) <= CurrVarIdx /\ CurrVarIdx <= Cardinality(Used)
         /\ CurrVarIdx \in 0 .. NumSym
  <1>0. IndexesCounted
    BY DEF IndexInv, Counted
  <1>1. Held \in SUBSET Slots /\ Used \in SUBSET Slots /\ Locals \in SUBSET Slots
    BY DEF Held, Used, Locals
  <1>2. Locals \subseteq Held
    <2>1. CASE in_func
      BY <2>1 DEF IndexInv, LocalsCounted, Held, Used, Locals
    <2>2. CASE ~in_func
      BY <2>2 DEF IndexInv, NoLocals, in_func, TypeOK
    <2> QED
      BY <2>1, <2>2
  <1>3. Cardinality(Locals) <= Cardinality(Held)
    BY <1>1, <1>2, SlotSets, FS_Subset
  <1> QED
    BY <1>0, <1>1, <1>2, <1>3, SlotSets DEF IndexInv, Counted, IndexesCounted, TypeOK

LEMMA ReusedKeeps ==
  ASSUME IndexInv, NamesInv', NEW k, Reused(k)
  PROVE  IndexInv'
  <1> USE DEF Touched
  <1>1. \A i \in Slots : /\ sym'[i].name = sym[i].name
                         /\ sym'[i].is_local = sym[i].is_local
    BY DEF Reused
  <1>2. Used' = Used /\ Locals' = Locals /\ Held' \subseteq Held
    <2>1. Used' = Used /\ Locals' = Locals
      BY <1>1 DEF Used, Locals
    <2>2. ASSUME NEW i \in Held' PROVE i \in Held
      <3>1. i \in Slots /\ i \in Used /\ (sym'[i].type \in VarTypes \/ sym'[i].is_local)
        BY <2>1, <2>2 DEF Held, Used
      <3>2. CASE i # k
        BY <3>1, <3>2, <2>2 DEF Reused, Held, Used
      <3>3. CASE i = k
        BY <3>1, <3>3, <1>1 DEF Reused, Held, IsVar, Used
      <3> QED
        BY <3>2, <3>3
    <2> QED
      BY <2>1, <2>2
  <1>3. \A i \in Slots : IsGlobal(i)' => IsGlobal(i) /\ sym'[i].value = sym[i].value
    BY <1>1 DEF Reused, IsGlobal, IsVar
  <1>4. /\ in_func' = in_func /\ phase' = phase /\ phase # "idle"
        /\ CurrVarIdx' = CurrVarIdx
    BY DEF Reused, in_func
  <1>5. /\ CurrVarIdx \in 0 .. NumSym
        /\ local_var_start_idx' = local_var_start_idx /\ local_var_start_idx \in 0 .. NumSym
        /\ local_var_count' = local_var_count + param_count' - param_count
        /\ local_var_count \in Nat /\ local_var_count' \in Nat
        /\ param_count \in 0 .. MaxParams /\ param_count' \in 0 .. MaxParams
    BY DEF Reused, IndexInv, TypeOK, NamesInv, Shape
  <1>6. LocalsCounted'
    <2>1. Cardinality(Locals) \in Nat
      BY <1>4, HeldBounds
    <2> QED
      BY <2>1, <1>2, <1>4, <1>5, Bounds DEF IndexInv, LocalsCounted
  <1>7. NoLocals'
    BY <1>2, <1>4 DEF IndexInv, NoLocals, Reused, Touched
  <1>8. Counted'
    <2>1. Cardinality(Held') <= Cardinality(Held) /\ Cardinality(Held') \in Nat
      BY <1>2, <1>4, HeldBounds, SlotSets, FS_Subset
    <2>2. Cardinality(Held) <= CurrVarIdx /\ CurrVarIdx <= Cardinality(Used)
          /\ Cardinality(Held) \in 0 .. NumSym
      BY <1>4, HeldBounds
    <2>3. Cardinality(Held') <= CurrVarIdx
      BY ONLY <2>1, <2>2, <1>5, Bounds
    <2> QED
      BY <2>2, <2>3, <1>2, <1>4 DEF Counted, IndexesCounted
  <1>9. ASSUME Orderly PROVE GlobalsBelow' /\ IndexesDistinct'
    BY <1>2, <1>3, <1>4, <1>9 DEF IndexInv, GlobalsBelow, IndexesDistinct, GlobalsEnd
  <1>10. TypeOK'
    <2>1. local_var_count' \in 0 .. NumSym + MaxParams
      <3>1. Cardinality(Locals') \in 0 .. NumSym
        BY <1>2, <1>4, HeldBounds
      <3>2. CASE in_func
        <4>1. local_var_count' <= Cardinality(Locals') + param_count'
          BY <3>2, <1>4, <1>6 DEF LocalsCounted
        <4>2. Cardinality(Locals') \in Nat /\ Cardinality(Locals') <= NumSym
              /\ param_count' \in Nat /\ param_count' <= MaxParams
          BY <3>1, <1>5, Bounds
        <4> QED
          <5>1. local_var_count' \in Nat
            BY <1>5
          <5>2. local_var_count' <= NumSym + MaxParams
            BY ONLY <4>1, <4>2, <5>1, Bounds
          <5> QED
            BY ONLY <5>1, <5>2, Bounds
      <3>3. CASE ~in_func
        <4>1. param_count' = param_count
          BY <3>3 DEF Reused
        <4>2. local_var_count' = local_var_count
          BY <4>1, <1>5
        <4> QED
          BY <4>2 DEF IndexInv, TypeOK
      <3> QED
        BY <3>2, <3>3
    <2> QED
      BY <1>4, <1>5, <2>1 DEF TypeOK, Reused, IndexInv
  <1> QED
    BY <1>6, <1>7, <1>8, <1>9, <1>10 DEF IndexInv

(* The taken variable is the last one: nothing else lies above the new end *)
(* of the globals, and there was no local variable yet.                    *)
LEMMA TakenKeeps ==
  ASSUME IndexInv, NamesInv', NEW k, Taken(k)
  PROVE  IndexInv'
  <1> USE DEF Touched
  <1>1. k \in Slots /\ (\A i \in Slots \ {k} : sym'[i] = sym[i])
        /\ sym[k].name # NoName /\ sym[k].type \in VarTypes /\ ~sym[k].is_local
    BY DEF Taken, IsGlobal, IsVar
  <1>2. Used' = Used /\ Locals' = Locals \cup {k} /\ Held' = Held
    BY <1>1 DEF Taken, Used, Locals, Held
  <1>3. /\ in_func /\ in_func' /\ phase' = phase /\ phase # "idle" /\ phase # "top"
        /\ CurrVarIdx' = CurrVarIdx
    BY DEF Taken, in_func
  <1>4. /\ k \notin Locals /\ k \in Held
        /\ Cardinality(Locals') = Cardinality(Locals) + 1
        /\ Cardinality(Locals) \in 0 .. NumSym /\ Cardinality(Locals') \in 0 .. NumSym
    <2>1. k \notin Locals /\ k \in Held
      BY <1>1 DEF Locals, Held, Used
    <2> QED
      BY <2>1, <1>1, <1>2, <1>3, HeldBounds, SlotSets
  <1>5. /\ local_var_count' = local_var_count + 1 /\ param_count' = param_count
        /\ local_var_count \in Nat /\ param_count \in 0 .. MaxParams
        /\ Locals \subseteq Used /\ local_var_count <= Cardinality(Locals) + param_count
        /\ CurrVarIdx \in 0 .. NumSym
    BY <1>3 DEF Taken, IndexInv, TypeOK, NamesInv, Shape, LocalsCounted
  <1>6. LocalsCounted'
    <2>1. Locals' \subseteq Used'
      BY <1>1, <1>2, <1>5 DEF Used
    <2>2. local_var_count' <= Cardinality(Locals') + param_count'
      BY <1>4, <1>5, Bounds
    <2> QED
      BY <2>1, <2>2 DEF LocalsCounted
  <1>7. NoLocals'
    <2>1. phase' # "top" /\ phase' # "idle"
      BY <1>3
    <2> QED
      BY <2>1 DEF NoLocals
  <1>8. Counted'
    BY <1>2, <1>3 DEF IndexInv, Counted, IndexesCounted
  <1>9. \A i \in Slots : IsGlobal(i)' => i # k /\ IsGlobal(i) /\ sym'[i].value = sym[i].value
    BY <1>1 DEF Taken, IsGlobal, IsVar
  <1>10. ASSUME Orderly PROVE GlobalsBelow' /\ IndexesDistinct'
    <2>1. /\ sym[k].value = CurrVarIdx - 1
          /\ sym[k].value < CurrVarIdx - Cardinality(Locals)
      BY <1>1, <1>3, <1>10 DEF Taken, IndexInv, GlobalsBelow, GlobalsEnd
    <2>2. Cardinality(Locals) = 0
      BY <2>1, <1>4, <1>5, Bounds
    <2>3. GlobalsEnd' = CurrVarIdx - 1
      BY <2>2, <1>3, <1>4 DEF GlobalsEnd
    <2>4. ASSUME NEW i \in Slots, IsGlobal(i)' PROVE sym'[i].value < GlobalsEnd'
      <3>1. i # k /\ IsGlobal(i) /\ sym'[i].value = sym[i].value
        BY <1>9, <2>4
      <3>2. sym[i].value < CurrVarIdx - 0 /\ sym[i].value \in 0 .. 255
        BY <3>1, <2>2, <1>3, <1>10 DEF IndexInv, GlobalsBelow, GlobalsEnd, TypeOK, Symbol
      <3>3. sym[i].value # CurrVarIdx - 1
        BY <3>1, <2>1, <1>1, <1>3, <1>10 DEF IndexInv, IndexesDistinct, Taken
      <3> QED
        BY ONLY <3>1, <3>2, <3>3, <2>3, <1>5, Bounds
    <2> QED
      BY <2>4, <1>3, <1>9, <1>10 DEF GlobalsBelow, IndexesDistinct, IndexInv
  <1>11. TypeOK'
    <2>1. local_var_count' \in 0 .. NumSym + MaxParams
      BY <1>4, <1>5, Bounds
    <2> QED
      BY <1>3, <1>5, <2>1 DEF TypeOK, Taken, IndexInv
  <1> QED
    BY <1>6, <1>7, <1>8, <1>10, <1>11 DEF IndexInv

LEMMA CreatedKeeps ==
  ASSUME IndexInv, NamesInv', NEW k, Created(k)
  PROVE  IndexInv'
  <1> USE DEF Touched
  <1>1. k \in Slots /\ \A i \in Slots \ {k} : sym'[i] = sym[i]
    BY DEF Created
  <1>2. in_func' = in_func /\ phase' = phase /\ phase # "idle" /\ failed' = failed
        /\ (~in_func => phase = "top")
    BY DEF Created, in_func, IndexInv, TypeOK
  <1>3. k \notin Used /\ Used' = Used \cup {k} /\ Used \subseteq Slots
    BY <1>1 DEF Created, Used
  <1>4. /\ Locals \subseteq Held /\ Held \subseteq Used /\ Held \subseteq Slots
        /\ k \notin Locals /\ k \notin Held
    <2>1. Locals \subseteq Held /\ Held \subseteq Used /\ Held \subseteq Slots
      BY <1>2, HeldBounds DEF Held, Used
    <2> QED
      BY <2>1, <1>3
  <1>5. Locals' = (IF sym'[k].is_local THEN Locals \cup {k} ELSE Locals)
    BY <1>1, <1>4 DEF Locals
  <1>6. /\ Cardinality(Used)' = Cardinality(Used) + 1
        /\ Cardinality(Used) \in Nat /\ Cardinality(Used)' \in 0 .. NumSym
    <2>1. Used \in SUBSET Slots /\ Used \cup {k} \in SUBSET Slots
      BY <1>1, <1>3
    <2>2. Cardinality(Used \cup {k}) = Cardinality(Used) + 1
          /\ Cardinality(Used) \in 0 .. NumSym /\ Cardinality(Used \cup {k}) \in 0 .. NumSym
      BY <2>1, <1>1, <1>3, SlotSets
    <2> QED
      BY <2>2, <1>3, Bounds
  <1>7. /\ Cardinality(Locals) \in 0 .. NumSym
        /\ Cardinality(Locals') = Cardinality(Locals) + (IF sym'[k].is_local THEN 1 ELSE 0)
        /\ Cardinality(Locals') \in 0 .. NumSym
    <2>0. Locals \in SUBSET Slots /\ Locals' \in SUBSET Slots /\ k \in Slots \ Locals
      BY <1>1, <1>4 DEF Locals
    <2>1. Cardinality(Locals) \in 0 .. NumSym /\ Cardinality(Locals') \in 0 .. NumSym
          /\ Cardinality(Locals \cup {k}) = Cardinality(Locals) + 1
      BY <2>0, SlotSets
    <2> QED
      BY <2>1, <1>5, Bounds
  <1>8. /\ CurrVarIdx \in 0 .. NumSym /\ CurrVarIdx' \in {CurrVarIdx, CurrVarIdx + 1}
        /\ CurrVarIdx <= Cardinality(Used)
        /\ local_var_start_idx' = local_var_start_idx /\ local_var_start_idx \in 0 .. NumSym
        /\ local_var_count \in 0 .. NumSym + MaxParams
        /\ param_count \in 0 .. MaxParams /\ param_count' \in 0 .. MaxParams
    BY <1>2 DEF Created, IndexInv, TypeOK, Counted
  <1>9. Counted'
    <2>1. CurrVarIdx' <= Cardinality(Used)'
      BY <1>6, <1>8, Bounds
    <2>2. CASE k \in Held'
      <3>1. Held' = Held \cup {k} /\ CurrVarIdx' = CurrVarIdx + 1
        BY <2>2, <1>1, <1>4 DEF Held, Created, IsVar
      <3>2. Cardinality(Held \cup {k}) = Cardinality(Held) + 1
            /\ Cardinality(Held) \in 0 .. NumSym /\ Cardinality(Held) <= CurrVarIdx
        BY <1>1, <1>2, <1>4, HeldBounds, SlotSets
      <3>3. Cardinality(Held') <= CurrVarIdx'
        BY ONLY <3>1, <3>2, <1>8, Bounds
      <3> QED
        BY <2>1, <3>3 DEF Counted, IndexesCounted
    <2>3. CASE k \notin Held'
      <3>1. Held' = Held
        BY <2>3, <1>1, <1>4 DEF Held
      <3>2. Cardinality(Held) \in 0 .. NumSym /\ Cardinality(Held) <= CurrVarIdx
        BY <1>2, HeldBounds
      <3>3. Cardinality(Held') <= CurrVarIdx'
        BY ONLY <3>1, <3>2, <1>8, Bounds
      <3> QED
        BY <2>1, <3>3 DEF Counted, IndexesCounted
    <2> QED
      BY <2>2, <2>3
  <1>10. NoLocals'
    <2>1. ~in_func => Locals' = Locals
      BY <1>5 DEF Created
    <2> QED
      BY <2>1, <1>2 DEF IndexInv, NoLocals, in_func
  <1>11. LocalsCounted'
    <2>1. ASSUME in_func
          PROVE  Locals' \subseteq Used' /\ local_var_count' <= Cardinality(Locals') + param_count'
      <3>1. local_var_count <= Cardinality(Locals) + param_count
        BY <2>1 DEF IndexInv, LocalsCounted
      <3>2. Locals' \subseteq Used'
        BY <1>3, <1>4, <1>5
      <3>3. CASE sym'[k].is_local
        <4>1. local_var_count' = local_var_count + 1 /\ param_count' >= param_count
          BY <3>3 DEF Created
        <4>2. Cardinality(Locals') = Cardinality(Locals) + 1
          BY <3>3, <1>7
        <4> QED
          BY <3>1, <3>2, <4>1, <4>2, <1>7, <1>8, Bounds
      <3>4. CASE ~sym'[k].is_local
        <4>1. local_var_count' = local_var_count /\ param_count' = param_count
          BY <3>4 DEF Created
        <4>2. Cardinality(Locals') = Cardinality(Locals)
          BY <3>4, <1>7
        <4> QED
          BY <3>1, <3>2, <4>1, <4>2
      <3> QED
        BY <3>3, <3>4
    <2> QED
      BY <2>1, <1>2 DEF LocalsCounted
  <1>12. ASSUME Orderly
         PROVE  \A i \in Slots : IsGlobal(i)' =>
             \/ i # k /\ IsGlobal(i) /\ sym'[i].value = sym[i].value
             \/ i = k /\ ~in_func /\ sym'[i].value = CurrVarIdx /\ CurrVarIdx' = CurrVarIdx + 1
    BY <1>1, <1>12 DEF Created, IsGlobal, IsVar
  <1>13. ASSUME Orderly
         PROVE  \A i \in Slots : IsGlobal(i) =>
                  sym[i].value \in 0 .. 255 /\ sym[i].value < GlobalsEnd
    BY <1>2, <1>13 DEF IndexInv, GlobalsBelow, TypeOK, Symbol
  <1>14. /\ GlobalsEnd \in Int /\ GlobalsEnd' \in Int /\ GlobalsEnd' >= GlobalsEnd
         /\ ~in_func => GlobalsEnd = CurrVarIdx /\ GlobalsEnd' = CurrVarIdx'
    <2>1. sym'[k].is_local => CurrVarIdx' = CurrVarIdx + 1
      BY DEF Created
    <2>2. GlobalsEnd \in Int /\ GlobalsEnd' \in Int /\ GlobalsEnd' >= GlobalsEnd
      BY <2>1, <1>7, <1>8, Bounds DEF GlobalsEnd
    <2>3. ASSUME ~in_func PROVE GlobalsEnd = CurrVarIdx /\ GlobalsEnd' = CurrVarIdx'
      <3>1. Locals = {} /\ Locals' = {}
        BY <2>3, <1>2, <1>10 DEF IndexInv, NoLocals
      <3>2. Cardinality(Locals) = 0 /\ Cardinality(Locals') = 0
        BY <3>1, FS_EmptySet
      <3> QED
        <4>1. CurrVarIdx \in Int /\ CurrVarIdx' \in Int
          BY <1>8, Bounds
        <4>2. GlobalsEnd = CurrVarIdx - 0 /\ GlobalsEnd' = CurrVarIdx' - 0
          BY <3>2 DEF GlobalsEnd
        <4>3. ASSUME NEW x \in Int PROVE x - 0 = x
          OBVIOUS
        <4> QED
          BY ONLY <4>1, <4>2, <4>3
    <2> QED
      BY <2>2, <2>3
  <1>15. ASSUME Orderly PROVE GlobalsBelow'
    <2>1. ASSUME NEW i \in Slots, IsGlobal(i)' PROVE sym'[i].value < GlobalsEnd'
      <3>1. CASE i # k /\ IsGlobal(i) /\ sym'[i].value = sym[i].value
        BY <3>1, <1>13, <1>14, <1>15
      <3>2. CASE ~in_func /\ sym'[i].value = CurrVarIdx /\ CurrVarIdx' = CurrVarIdx + 1
        BY <3>2, <1>8, <1>14
      <3> QED
        BY <2>1, <3>1, <3>2, <1>12, <1>15
    <2> QED
      BY <2>1 DEF GlobalsBelow
  <1>16. ASSUME Orderly PROVE IndexesDistinct'
    <2>1. ASSUME NEW i \in Slots, NEW j \in Slots, i # j, IsGlobal(i)', IsGlobal(j)'
          PROVE  sym'[i].value # sym'[j].value
      <3>1. ASSUME NEW a \in Slots, a # k, IsGlobal(a)', IsGlobal(k)'
            PROVE  sym'[a].value # sym'[k].value
        <4>1. ~in_func /\ sym'[k].value = CurrVarIdx
          BY <3>1, <1>1, <1>12, <1>16
        <4>2. sym'[a].value < CurrVarIdx /\ sym'[a].value \in 0 .. 255
          BY <3>1, <4>1, <1>12, <1>13, <1>14, <1>16
        <4> QED
          BY <4>1, <4>2, <1>8
      <3>2. CASE i # k /\ j # k
        BY <2>1, <3>2, <1>2, <1>12, <1>16 DEF IndexInv, IndexesDistinct
      <3> QED
        BY <2>1, <3>1, <3>2
    <2> QED
      BY <2>1 DEF IndexesDistinct
  <1>17. TypeOK'
    <2>1. CurrVarIdx' \in 0 .. NumSym
      BY <1>6, <1>8, Bounds
    <2>2. local_var_count' \in 0 .. NumSym + MaxParams
      <3>1. local_var_count' \in Nat
        BY DEF NamesInv, Shape
      <3>2. CASE in_func
        <4>1. local_var_count' <= Cardinality(Locals') + param_count'
          BY <3>2, <1>2, <1>11 DEF LocalsCounted
        <4> QED
          BY <4>1, <3>1, <1>7, <1>8, Bounds
      <3>3. CASE ~in_func
        BY <3>3, <1>8 DEF Created
      <3> QED
        BY <3>2, <3>3
    <2> QED
      BY <1>2, <1>8, <2>1, <2>2 DEF TypeOK, Created, IndexInv
  <1> QED
    BY <1>9, <1>10, <1>11, <1>15, <1>16, <1>17 DEF IndexInv

-----------------------------------------------------------------------------
(* Each use of a name reuses an entry, creates one, or takes the last one. *)
Uses == \E k : Reused(k) \/ Created(k) \/ Taken(k)

LEMMA RoomFor ==
  ASSUME IndexInv, phase # "idle", NEW k \in Slots, sym[k].name = NoName
  PROVE  CurrVarIdx + 1 <= NumSym /\ CurrVarIdx \in Nat
  <1>1. CurrVarIdx <= Cardinality(Used) /\ CurrVarIdx \in 0 .. NumSym
    BY DEF IndexInv, Counted, TypeOK
  <1>2. Used \in SUBSET Slots /\ Used \cup {k} \in SUBSET Slots /\ k \in Slots \ Used
    BY DEF Used
  <1>3. Cardinality(Used) + 1 \in 0 .. NumSym /\ Cardinality(Used) \in 0 .. NumSym
    BY <1>2, SlotSets
  <1> QED
    BY <1>1, <1>3, Bounds

LEMMA TokenEntry ==
  ASSUME IndexInv, phase # "idle", NEW n \in Names, IsNew(n) => Free # {}
  PROVE  /\ Slot(n) \in Slots /\ Table(n) \in [Slots -> Symbol]
         /\ Table(n)[Slot(n)] \in Symbol /\ Table(n)[Slot(n)].name = n /\ n # NoName
         /\ \A i \in Slots \ {Slot(n)} : Table(n)[i] = sym[i]
         /\ IsNew(n) => /\ sym[Slot(n)].name = NoName
                        /\ Table(n)[Slot(n)] = NewSymbol(n)
                        /\ NextIdx(n) = CurrVarIdx + 1
         /\ ~IsNew(n) => Table(n)[Slot(n)] = sym[Slot(n)] /\ NextIdx(n) = CurrVarIdx
  <1>1. Shape /\ sym \in [Slots -> Symbol] /\ CurrVarIdx \in 0 .. NumSym
    BY DEF IndexInv, NamesInv, TypeOK
  <1>2. /\ Slot(n) \in Slots /\ Table(n) \in [Slots -> Entry]
        /\ \A i \in Slots \ {Slot(n)} : Table(n)[i] = sym[i]
        /\ Table(n)[Slot(n)].name = n
        /\ IsNew(n) => Slot(n) \in Free /\ Table(n)[Slot(n)] = NewSymbol(n)
        /\ ~IsNew(n) => Table(n) = sym
    BY <1>1, TableOf
  <1>3. n # NoName
    BY SymAssumption DEF SymAssumption
  <1>4. ASSUME IsNew(n)
        PROVE  NextIdx(n) = CurrVarIdx + 1 /\ sym[Slot(n)].name = NoName
    <2>1. sym[Slot(n)].name = NoName
      BY <1>2, <1>4 DEF Free, Named
    <2>2. CurrVarIdx + 1 <= NumSym /\ CurrVarIdx \in Nat
      BY <2>1, <1>2, RoomFor
    <2>3. (CurrVarIdx + 1) % 256 = CurrVarIdx + 1
      BY <2>2, Bounds
    <2> QED
      BY <1>4, <2>1, <2>3 DEF NextIdx, Byte
  <1>5. ~IsNew(n) => NextIdx(n) = CurrVarIdx
    BY DEF NextIdx
  <1>6. NewSymbol(n) \in Symbol
    <2>1. CurrVarIdx \in 0 .. 255
      BY <1>1, Bounds
    <2> QED
      BY <2>1 DEF NewSymbol, Symbol, VarTypes
  <1>7. Table(n)[Slot(n)] \in Symbol
    BY <1>1, <1>2, <1>6
  <1>8. Table(n) \in [Slots -> Symbol]
    BY <1>1, <1>2, <1>7
  <1> QED
    BY <1>2, <1>3, <1>4, <1>5, <1>7, <1>8

LEMMA TokenTouched ==
  ASSUME IndexInv, phase # "idle", NEW n \in Names, IsNew(n) => Free # {},
         NEW k, k = Slot(n), NEW r \in Symbol, r.name = n,
         sym' = [Table(n) EXCEPT ![k] = r],
         UNCHANGED <<phase, failed, local_var_start_idx>>,
         param_count' \in 0 .. MaxParams
  PROVE  Touched(k) /\ sym'[k] = r /\ n # NoName
  BY TokenEntry DEF Touched

LEMMA UsedIndex ==
  ASSUME IndexInv, NEW n \in Names, Token(n, {"top", "body"}), UNCHANGED frame,
         NEW r \in Symbol, r.name = n, sym' = [Table(n) EXCEPT ![Slot(n)] = r],
         r.is_local = Table(n)[Slot(n)].is_local,
         ~IsNew(n) => CurrVarIdx' = CurrVarIdx,
         IsNew(n) => CurrVarIdx' \in {CurrVarIdx, CurrVarIdx + 1},
         r.type \in VarTypes =>
           /\ Table(n)[Slot(n)].type \in VarTypes
           /\ r.value = Table(n)[Slot(n)].value
           /\ IsNew(n) => /\ Orderly => ~in_func
                          /\ CurrVarIdx' = CurrVarIdx + 1
  PROVE  Uses
  <1>0. PICK k : k = Slot(n)
    OBVIOUS
  <1>1. (IsNew(n) => Free # {}) /\ phase # "idle"
    BY DEF Token
  <1>2. /\ UNCHANGED <<phase, failed, local_var_start_idx, local_var_count, param_count>>
        /\ param_count \in 0 .. MaxParams
        /\ local_var_count \in Nat
    BY DEF Token, frame, IndexInv, TypeOK
  <1>3. Touched(k) /\ sym'[k] = r /\ n # NoName
    <2>1. sym' = [Table(n) EXCEPT ![k] = r] /\ param_count' \in 0 .. MaxParams
      BY <1>0, <1>2
    <2>2. UNCHANGED <<phase, failed, local_var_start_idx>>
      BY <1>2
    <2>3. IndexInv /\ n \in Names /\ r \in Symbol /\ r.name = n
      OBVIOUS
    <2> QED
      BY ONLY <1>0, <1>1, <2>1, <2>2, <2>3, TokenTouched
  <1>4. CASE IsNew(n)
    <2>1. sym[k].name = NoName /\ Table(n)[k] = NewSymbol(n)
      BY <1>0, <1>1, <1>4, TokenEntry
    <2>2. ~r.is_local /\ (r.type \in VarTypes => r.value = CurrVarIdx)
      BY <2>1, <1>0 DEF NewSymbol
    <2>3. IsVar(k)' => r.type \in VarTypes
      BY <1>3 DEF IsVar
    <2>4. Created(k)
      BY <1>2, <1>3, <1>4, <2>1, <2>2, <2>3 DEF Created
    <2> QED
      BY <2>4 DEF Uses
  <1>5. CASE ~IsNew(n)
    <2>1. Table(n)[k] = sym[k] /\ sym[k].name = n
      BY <1>0, <1>1, <1>5, TokenEntry
    <2>2. IsVar(k)' => IsVar(k) /\ sym'[k].value = sym[k].value
      BY <2>1, <1>0, <1>3 DEF IsVar
    <2>3. local_var_count' = local_var_count + param_count' - param_count
      BY <1>2
    <2>4. Reused(k)
      BY <1>0, <1>2, <1>3, <1>5, <2>1, <2>2, <2>3 DEF Reused
    <2> QED
      BY <2>4 DEF Uses
  <1> QED
    BY <1>4, <1>5

LEMMA StatementsUse ==
  ASSUME Counting, IndexInv, NEW n \in Names,
         \/ Read(n) \/ Call(n) \/ StrDecl(n) \/ ArrDecl(n) \/ Const(n, 0) \/ Label(n)
  PROVE  Uses
  <1> DEFINE e == Table(n)[Slot(n)]
  <1>1. Token(n, {"top", "body"}) /\ UNCHANGED frame
    BY DEF Read, Call, StrDecl, ArrDecl, Const, Label, Token
  <1>2. (IsNew(n) => Free # {}) /\ phase # "idle"
    BY <1>1 DEF Token
  <1>3. /\ e \in Symbol /\ e.name = n /\ Slot(n) \in Slots /\ Table(n) \in [Slots -> Symbol]
        /\ IsNew(n) => NextIdx(n) = CurrVarIdx + 1
        /\ ~IsNew(n) => NextIdx(n) = CurrVarIdx
        /\ CurrVarIdx \in 0 .. NumSym
    BY <1>2, TokenEntry DEF IndexInv, TypeOK
  <1>4. ASSUME Read(n) \/ Call(n) \/ StrDecl(n) \/ ArrDecl(n)
        PROVE  /\ e.type \in VarTypes
               /\ CurrVarIdx' = NextIdx(n)
               /\ IsNew(n) => (Orderly => ~in_func)
    BY <1>4 DEF Orderly, Seen, Read, Call, StrDecl, ArrDecl, Token, TypeOf, VarTypes, in_func
  <1>5. CASE Read(n) \/ Call(n)
    <2>1. sym' = [Table(n) EXCEPT ![Slot(n)] = e]
      BY <1>3, <1>5 DEF Read, Call
    <2> QED
      BY <1>1, <1>3, <1>4, <1>5, <2>1, UsedIndex
  <1>6. CASE StrDecl(n) \/ ArrDecl(n)
    <2>1. PICK t \in {"STRID", "ARR"} : sym' = [Table(n) EXCEPT ![Slot(n)].type = t]
      BY <1>6 DEF StrDecl, ArrDecl
    <2> DEFINE r == [e EXCEPT !.type = t]
    <2>2. r \in Symbol /\ r.name = n /\ r.is_local = e.is_local /\ r.value = e.value
      <3>1. t \in VarTypes \cup {"LABEL", "CNST"} /\ e \in Symbol /\ e.name = n
        BY <1>3, <2>1 DEF VarTypes
      <3> HIDE DEF e
      <3> QED
        BY <3>1 DEF Symbol
    <2>3. sym' = [Table(n) EXCEPT ![Slot(n)] = r]
      BY <2>1
    <2> QED
      BY <1>1, <1>3, <1>4, <1>6, <2>2, <2>3, UsedIndex
  <1>7. CASE Const(n, 0) \/ Label(n)
    <2>1. PICK t \in {"LABEL", "CNST"} :
            sym' = [Table(n) EXCEPT ![Slot(n)].type = t, ![Slot(n)].value = 0]
      BY <1>7 DEF Const, Label
    <2> DEFINE r == [e EXCEPT !.type = t, !.value = 0]
    <2>2. r \in Symbol /\ r.name = n /\ r.is_local = e.is_local /\ r.type = t
      <3>1. /\ t \in VarTypes \cup {"LABEL", "CNST"} /\ e \in Symbol /\ e.name = n
            /\ 0 \in 0 .. 255
        BY <1>3, <2>1
      <3> HIDE DEF e
      <3> QED
        BY <3>1 DEF Symbol
    <2>3. sym' = [Table(n) EXCEPT ![Slot(n)] = r]
      BY <1>3, <2>1
    <2>4. r.type \notin VarTypes
      BY <2>1, <2>2 DEF VarTypes
    <2>5. /\ ~IsNew(n) => CurrVarIdx' = CurrVarIdx
          /\ IsNew(n) => CurrVarIdx' \in {CurrVarIdx, CurrVarIdx + 1}
      <3>1. CASE Const(n, 0)
        BY <3>1, <1>3 DEF Const
      <3>2. CASE Label(n)
        <4>1. IsNew(n) /\ CurrVarIdx' = (NextIdx(n) - 1) % 256
          <5>1. TypeOf(n) = "ID" /\ (IsNew(n) \/ "label" \in Habits)
            BY <3>2 DEF Label
          <5> QED
            BY <5>1, <3>2 DEF Label, Counting, Byte
        <4>2. NextIdx(n) - 1 = CurrVarIdx
          BY <4>1, <1>3, Bounds
        <4>3. CurrVarIdx % 256 = CurrVarIdx
          BY <1>3, Bounds
        <4> QED
          BY <4>1, <4>2, <4>3
      <3> QED
        BY <3>1, <3>2, <1>7
    <2> HIDE DEF r
    <2> QED
      BY <1>1, <2>2, <2>3, <2>4, <2>5, UsedIndex
  <1> QED
    BY <1>5, <1>6, <1>7

(* A new variable of a function: the entry and the offset in the frame.    *)
LEMMA OffsetRoom ==
  ASSUME IndexInv, in_func
  PROVE  local_var_count \in 0 .. 255 /\ local_var_count \in Nat
  BY Bounds DEF IndexInv, TypeOK

LEMMA AssignUses ==
  ASSUME IndexInv, NEW n \in Names, VarAssigned(n) \/ ForVar(n)
  PROVE  Uses
  <1> DEFINE e == Table(n)[Slot(n)]
             r == [e EXCEPT !.is_local = TRUE, !.value = local_var_count]
  <1>0. PICK k : k = Slot(n)
    OBVIOUS
  <1>1. Token(n, {"top", "body"}) /\ CurrVarIdx' = NextIdx(n)
    BY DEF VarAssigned, Assign, AssignVar, ForVar
  <1>2. (IsNew(n) => Free # {}) /\ phase # "idle"
    BY <1>1 DEF Token
  <1>3. /\ e \in Symbol /\ e.name = n /\ Slot(n) \in Slots /\ Table(n) \in [Slots -> Symbol]
        /\ IsNew(n) => /\ NextIdx(n) = CurrVarIdx + 1 /\ e = NewSymbol(n)
                       /\ sym[Slot(n)].name = NoName
        /\ ~IsNew(n) => e = sym[Slot(n)] /\ NextIdx(n) = CurrVarIdx
        /\ CurrVarIdx \in 0 .. NumSym
    BY <1>2, TokenEntry DEF IndexInv, TypeOK
  <1>4. CASE /\ MakeLocal(Slot(n), n) /\ in_func
             /\ IsNew(n) \/ (e.type = "ID" /\ LooksNew(n))
    <2>1. r \in Symbol /\ r.name = n /\ r.is_local
      <3>1. local_var_count \in 0 .. 255 /\ e \in Symbol /\ e.name = n
        BY <1>3, <1>4, OffsetRoom
      <3> HIDE DEF e
      <3> QED
        BY <3>1 DEF Symbol
    <2>2. sym' = [Table(n) EXCEPT ![k] = r]
      BY <1>0, <1>3, <1>4 DEF MakeLocal
    <2> HIDE DEF r
    <2>3. /\ UNCHANGED <<phase, failed, local_var_start_idx>>
          /\ param_count' = param_count /\ param_count \in 0 .. MaxParams
          /\ local_var_count' = local_var_count + 1
      BY <1>1, <1>4 DEF Token, MakeLocal, IndexInv, TypeOK
    <2>4. Touched(k) /\ sym'[k] = r /\ n # NoName
      <3>1. param_count' \in 0 .. MaxParams /\ UNCHANGED <<phase, failed, local_var_start_idx>>
        BY <2>3
      <3> QED
        BY <1>0, <1>2, <2>1, <2>2, <3>1, TokenTouched
    <2>5. CASE IsNew(n)
      <3>1. sym[k].name = NoName /\ CurrVarIdx' = CurrVarIdx + 1
        BY <1>0, <1>1, <1>3, <2>5
      <3>2. param_count' >= param_count
        BY <2>3
      <3>3. Created(k)
        BY <1>4, <2>1, <2>3, <2>4, <3>1, <3>2 DEF Created
      <3> QED
        BY <3>3 DEF Uses
    <2>6. CASE ~IsNew(n)
      <3>1. e = sym[k] /\ NextIdx(n) = CurrVarIdx
        BY <1>0, <1>3, <2>6
      <3>2. ~e.is_local /\ e.value = CurrVarIdx - 1 /\ e.type \in VarTypes
        BY <1>4, <2>6, <3>1 DEF LooksNew, VarTypes
      <3>3. IsGlobal(k) /\ sym[k].name = n
        BY <1>3, <2>4, <3>1, <3>2 DEF IsGlobal, IsVar
      <3>4. Taken(k)
        BY <1>1, <1>4, <2>1, <2>3, <2>4, <3>1, <3>2, <3>3 DEF Taken
      <3> QED
        BY <3>4 DEF Uses
    <2> QED
      BY <2>5, <2>6
  <1>5. ASSUME sym' = Table(n), UNCHANGED frame, IsNew(n) => ~in_func
        PROVE  Uses
    <2>1. sym' = [Table(n) EXCEPT ![Slot(n)] = e]
      BY <1>3, <1>5
    <2>2. e.type \in VarTypes
      BY DEF VarAssigned, Assign, AssignVar, ForVar, TypeOf, VarTypes
    <2> QED
      BY <1>1, <1>3, <1>5, <2>1, <2>2, UsedIndex
  <1>6. CASE ForVar(n)
    BY <1>4, <1>5, <1>6 DEF ForVar
  <1>7. CASE VarAssigned(n)
    <2>1. IsNew(n) /\ in_func => LooksNew(n)
      <3>1. IsNew(n) => ~e.is_local /\ e.value = CurrVarIdx
        BY <1>3 DEF NewSymbol
      <3> QED
        BY <1>3, <3>1 DEF LooksNew
    <2>2. LooksNew(n) => in_func /\ MakeLocal(Slot(n), n) /\ e.type = "ID"
      BY <1>7 DEF VarAssigned, Assign, AssignVar, LooksNew, TypeOf
    <2>3. ~LooksNew(n) => sym' = Table(n) /\ UNCHANGED frame
      BY <1>7 DEF VarAssigned, Assign, AssignVar
    <2> QED
      BY <2>1, <2>2, <2>3, <1>4, <1>5
  <1> QED
    BY <1>6, <1>7

LEMMA ParamUses ==
  ASSUME IndexInv, NEW n \in Names, NEW type \in VarTypes, Param(n, type)
  PROVE  Uses
  <1> DEFINE e == Table(n)[Slot(n)]
  <1>1. /\ phase = "params" /\ in_func /\ UNCHANGED <<phase, failed, local_var_start_idx>>
        /\ IsNew(n) => Free # {}
        /\ local_var_count' = local_var_count + 1 /\ param_count' = param_count + 1
    BY DEF Param, Token, in_func
  <1>2. /\ param_count \in Nat /\ param_count < MaxParams /\ MaxParams \in Nat
        /\ param_count' \in 0 .. MaxParams
        /\ local_var_count \in 0 .. 255 /\ local_var_count \in Nat
        /\ CurrVarIdx \in 0 .. NumSym /\ CurrVarIdx \in 0 .. 255
    BY <1>1, OffsetRoom, Bounds DEF Param, IndexInv, TypeOK
  <1>3. /\ e \in Symbol /\ e.name = n /\ Slot(n) \in Slots /\ Table(n) \in [Slots -> Symbol]
        /\ n # NoName
        /\ IsNew(n) => /\ NextIdx(n) = CurrVarIdx + 1
                       /\ sym[Slot(n)].name = NoName
        /\ ~IsNew(n) => NextIdx(n) = CurrVarIdx /\ e = sym[Slot(n)]
    BY <1>1, TokenEntry
  <1>4. ASSUME NEW s \in Symbol
        PROVE  LET r == AsParam(s, type) IN
               r \in Symbol /\ r.name = s.name /\ r.is_local = TRUE
    <2>1. type \in VarTypes \cup {"LABEL", "CNST"}
      OBVIOUS
    <2> QED
      BY <2>1, <1>2, <1>4 DEF AsParam, Symbol
  <1>5. CASE Shadows(n)
    <2>0. PICK k : k = FirstFree
      OBVIOUS
    <2> DEFINE r == AsParam(NewSymbol(n), type)
    <2>1. NewSymbol(n) \in Symbol /\ NewSymbol(n).name = n
      BY <1>2 DEF NewSymbol, Symbol, VarTypes
    <2>2. k \in Slots /\ sym[k].name = NoName
      BY <2>0, <1>5, FirstFreeSlot DEF Param, ShadowGlobal, Free, Named
    <2>3. r \in Symbol /\ r.name = n /\ r.is_local
      BY <1>4, <2>1
    <2>4. sym' = [sym EXCEPT ![k] = r] /\ CurrVarIdx' = (CurrVarIdx + 1) % 256
      BY <1>5, <2>0 DEF Param, ShadowGlobal, Byte
    <2> HIDE DEF r
    <2>5. CurrVarIdx' = CurrVarIdx + 1
      <3>1. CurrVarIdx + 1 <= NumSym /\ CurrVarIdx \in Nat
        BY <1>1, <2>2, RoomFor
      <3> QED
        BY <3>1, <2>4, Bounds
    <2>6. sym \in [Slots -> Symbol]
      BY DEF IndexInv, TypeOK
    <2>7. Touched(k) /\ sym'[k] = r
      BY <1>1, <1>2, <2>2, <2>3, <2>4, <2>6 DEF Touched
    <2>8. param_count' >= param_count
      BY <1>1, <1>2
    <2>9. Created(k)
      BY <1>1, <1>3, <2>2, <2>3, <2>5, <2>7, <2>8 DEF Created
    <2> QED
      BY <2>9 DEF Uses
  <1>6. CASE ~Shadows(n)
    <2>0. PICK k : k = Slot(n)
      OBVIOUS
    <2> DEFINE r == AsParam(e, type)
    <2>1. r \in Symbol /\ r.name = n /\ r.is_local = TRUE
      BY <1>3, <1>4
    <2>2. sym' = [Table(n) EXCEPT ![k] = r] /\ CurrVarIdx' = NextIdx(n)
      BY <1>6, <2>0, <1>3 DEF Param
    <2> HIDE DEF r
    <2>3. Touched(k) /\ sym'[k] = r
      BY <2>0, <1>1, <1>2, <2>1, <2>2, TokenTouched
    <2>4. param_count' >= param_count /\ param_count' # param_count
          /\ local_var_count' = local_var_count + param_count' - param_count
      BY <1>1, <1>2
    <2>5. CASE IsNew(n)
      <3>1. Created(k)
        BY <1>1, <1>3, <2>0, <2>1, <2>2, <2>3, <2>4, <2>5 DEF Created
      <3> QED
        BY <3>1 DEF Uses
    <2>6. CASE ~IsNew(n)
      <3>1. sym[k].is_local = TRUE
        <4>1. Local(n) # {} /\ Shape
          BY <1>6, <2>6 DEF Shadows, IndexInv, NamesInv
        <4>2. sym[k].is_local /\ sym[k].is_local \in BOOLEAN
          BY <4>1, <2>0, <2>6, <1>3, TableOf DEF Symbol
        <4> QED
          BY <4>2
      <3>2. sym[k].name = n /\ sym[k].type \in VarTypes
        BY <2>0, <2>6, <1>3 DEF Param, TypeOf, VarTypes
      <3>3. IsVar(k)
        BY <3>2, <1>3 DEF IsVar
      <3>4. Reused(k)
        BY <1>1, <1>3, <2>1, <2>2, <2>3, <2>4, <2>6, <3>1, <3>2, <3>3 DEF Reused
      <3> QED
        BY <3>4 DEF Uses
    <2> QED
      BY <2>5, <2>6
  <1> QED
    BY <1>5, <1>6

-----------------------------------------------------------------------------
(* The begin of a function: its name is no variable any more, and if it    *)
(* had the last index, no other global variable has it.                    *)
LEMMA FuncBeginIndex ==
  ASSUME IndexInv, NamesInv', NEW n \in Names, FuncBegin(n)
  PROVE  IndexInv'
  <1> DEFINE e == Table(n)[Slot(n)]
             r == [e EXCEPT !.type = "LABEL", !.value = 0]
  <1>0. PICK k : k = Slot(n)
    OBVIOUS
  <1>1. /\ phase = "top" /\ phase' = "params" /\ failed' = failed
        /\ ~in_func /\ in_func'
        /\ IsNew(n) => Free # {}
        /\ TypeOf(n) = "ID"
        /\ local_var_count' = 0 /\ param_count' = 0
        /\ CurrVarIdx' = Released(n) /\ local_var_start_idx' = Released(n)
    BY DEF FuncBegin, in_func
  <1>2. /\ e \in Symbol /\ e.name = n /\ Slot(n) \in Slots /\ Table(n) \in [Slots -> Symbol]
        /\ n # NoName /\ \A i \in Slots \ {Slot(n)} : Table(n)[i] = sym[i]
        /\ IsNew(n) => /\ NextIdx(n) = CurrVarIdx + 1 /\ e = NewSymbol(n)
                       /\ sym[Slot(n)].name = NoName
        /\ ~IsNew(n) => NextIdx(n) = CurrVarIdx /\ e = sym[Slot(n)]
    BY <1>1, TokenEntry
  <1>3. r \in Symbol /\ r.name = n /\ r.is_local = e.is_local /\ r.type = "LABEL"
    <2>1. /\ "LABEL" \in VarTypes \cup {"LABEL", "CNST"} /\ e \in Symbol /\ e.name = n
          /\ 0 \in 0 .. 255
      BY <1>2
    <2> HIDE DEF e
    <2> QED
      BY <2>1 DEF Symbol
  <1>4. sym' = [Table(n) EXCEPT ![k] = r]
    BY <1>0, <1>2 DEF FuncBegin
  <1> HIDE DEF r
  <1>5. /\ k \in Slots /\ sym' \in [Slots -> Symbol] /\ sym'[k] = r
        /\ \A i \in Slots \ {k} : sym'[i] = sym[i]
    BY <1>0, <1>2, <1>3, <1>4
  <1>6. /\ Locals = {}
        /\ CurrVarIdx \in 0 .. NumSym /\ CurrVarIdx \in Nat
        /\ CurrVarIdx <= Cardinality(Used)
    BY <1>1 DEF IndexInv, NoLocals, Counted, TypeOK
  <1>7. Locals' = {}
    <2>1. e.is_local = FALSE
      BY <1>2, <1>6 DEF NewSymbol, Locals, Symbol
    <2> QED
      BY <2>1, <1>3, <1>5, <1>6 DEF Locals
  <1>8. /\ IsNew(n) => Released(n) = CurrVarIdx
        /\ ~IsNew(n) => /\ IsGlobal(k)
                        /\ sym[k].value = CurrVarIdx - 1 => Released(n) = CurrVarIdx - 1
                        /\ sym[k].value # CurrVarIdx - 1 => Released(n) = CurrVarIdx
        /\ Released(n) \in 0 .. CurrVarIdx
    <2>1. CASE IsNew(n)
      <3>1. e.value = CurrVarIdx
        BY <1>2, <2>1 DEF NewSymbol
      <3>2. NextIdx(n) - 1 = CurrVarIdx
        BY <1>2, <1>6, <2>1
      <3>3. CurrVarIdx % 256 = CurrVarIdx
        BY <1>6, Bounds
      <3>4. Released(n) = CurrVarIdx
        BY <3>1, <3>2, <3>3 DEF Released, Byte
      <3> QED
        BY <3>4, <2>1, <1>6
    <2>2. CASE ~IsNew(n)
      <3>1. NextIdx(n) = CurrVarIdx /\ e = sym[k] /\ k \in Slots
        BY <1>0, <1>2, <2>2
      <3>2. IsGlobal(k) /\ sym[k].value \in 0 .. 255
        <4>1. sym[k].name # NoName /\ sym[k].type \in VarTypes
          BY <3>1, <1>1, <1>2, <1>0 DEF TypeOf, VarTypes
        <4>2. ~sym[k].is_local
          BY <1>5, <1>6 DEF Locals
        <4> QED
          BY <4>1, <4>2, <3>1 DEF IsGlobal, IsVar, IndexInv, TypeOK, Symbol
      <3>3. CASE sym[k].value = CurrVarIdx - 1
        <4>1. CurrVarIdx - 1 \in 0 .. 255 /\ (CurrVarIdx - 1) % 256 = CurrVarIdx - 1
          BY <1>6, <3>2, <3>3, Bounds
        <4>2. Released(n) = CurrVarIdx - 1
          BY <1>0, <3>1, <3>3, <4>1 DEF Released, Byte
        <4> QED
          BY <4>1, <4>2, <3>2, <3>3, <2>2, <1>6
      <3>4. CASE sym[k].value # CurrVarIdx - 1
        <4>1. Released(n) = CurrVarIdx
          BY <1>0, <3>1, <3>4 DEF Released
        <4> QED
          BY <4>1, <3>2, <3>4, <2>2, <1>6
      <3> QED
        BY <3>3, <3>4
    <2> QED
      BY <2>1, <2>2
  <1> HIDE DEF e
  <1>9. \A i \in Slots : IsGlobal(i)' => i # k /\ IsGlobal(i) /\ sym'[i].value = sym[i].value
    BY <1>3, <1>5 DEF IsGlobal, IsVar, VarTypes
  <1>10. Counted'
    <2>1. Used \subseteq Used' /\ Used' \in SUBSET Slots /\ Used \in SUBSET Slots
      BY <1>2, <1>3, <1>5 DEF Used
    <2>2. Cardinality(Used) <= Cardinality(Used')
      BY <2>1, SlotSets, FS_Subset
    <2>3. Cardinality(Used) \in Nat /\ Cardinality(Used') \in Nat
      BY <2>1, SlotSets
    <2>4. CurrVarIdx' <= Cardinality(Used')
      BY <1>1, <1>6, <1>8, <2>2, <2>3
    <2>5. Held' = Held \ {k}
      <3>1. k \notin Held'
        <4>1. ~sym'[k].is_local
          BY <1>5, <1>7 DEF Locals
        <4> QED
          BY <4>1, <1>3, <1>5 DEF Held, VarTypes
      <3> QED
        BY <3>1, <1>5 DEF Held
    <2>6. /\ Held \in SUBSET Slots /\ Cardinality(Held) \in 0 .. NumSym
          /\ Cardinality(Held) <= CurrVarIdx
      BY <1>1, HeldBounds
    <2>7. CASE IsNew(n)
      <3>1. k \notin Held
        BY <1>0, <1>2, <2>7 DEF Held
      <3>2. Held' = Held
        BY <2>5, <3>1
      <3>3. Cardinality(Held') <= CurrVarIdx'
        BY <1>1, <1>8, <2>6, <2>7, <3>2
      <3> QED
        BY <2>4, <3>3 DEF Counted, IndexesCounted
    <2>8. CASE ~IsNew(n)
      <3>1. k \in Held
        BY <1>5, <1>8, <2>8 DEF Held, IsGlobal, IsVar
      <3>2. Cardinality(Held') = Cardinality(Held) - 1
        <4>1. Held = Held' \cup {k} /\ k \in Slots \ Held' /\ Held' \in SUBSET Slots
          BY <2>5, <2>6, <3>1, <1>5
        <4>2. Cardinality(Held' \cup {k}) = Cardinality(Held') + 1
              /\ Cardinality(Held') \in 0 .. NumSym
          BY <4>1, SlotSets
        <4> QED
          BY <4>1, <4>2, Bounds
      <3>3. Released(n) = CurrVarIdx - 1 \/ Released(n) = CurrVarIdx
        BY <1>8, <2>8
      <3>4. Cardinality(Held') <= CurrVarIdx'
        BY <1>1, <1>6, <2>6, <3>2, <3>3, Bounds
      <3> QED
        BY <2>4, <3>4 DEF Counted, IndexesCounted
    <2> QED
      BY <2>7, <2>8
  <1>11. LocalsCounted'
    <2>1. Cardinality(Locals') = 0 /\ Locals' \subseteq Used'
      BY <1>7, FS_EmptySet
    <2>2. local_var_count' <= 0 + param_count'
      BY <1>1
    <2> QED
      BY <2>1, <2>2 DEF LocalsCounted
  <1>12. ASSUME Orderly PROVE GlobalsBelow' /\ IndexesDistinct'
    <2>1. GlobalsEnd' = Released(n) /\ GlobalsEnd = CurrVarIdx
      <3>1. Cardinality(Locals) = 0 /\ Cardinality(Locals') = 0
        BY <1>6, <1>7, FS_EmptySet
      <3> QED
        BY <3>1, <1>1, <1>6, <1>8 DEF GlobalsEnd
    <2>2. ASSUME NEW i \in Slots, IsGlobal(i)' PROVE sym'[i].value < GlobalsEnd'
      <3>1. i # k /\ IsGlobal(i) /\ sym'[i].value = sym[i].value
        BY <1>9, <2>2
      <3>2. sym[i].value < CurrVarIdx /\ sym[i].value \in 0 .. 255
        BY <3>1, <2>1, <1>1, <1>12 DEF IndexInv, GlobalsBelow, TypeOK, Symbol
      <3>3. CASE Released(n) = CurrVarIdx
        BY <3>1, <3>2, <3>3, <2>1
      <3>4. CASE IsGlobal(k) /\ sym[k].value = CurrVarIdx - 1 /\ Released(n) = CurrVarIdx - 1
        <4>1. sym[i].value # CurrVarIdx - 1
          BY <3>1, <3>4, <1>1, <1>5, <1>12 DEF IndexInv, IndexesDistinct
        <4> QED
          BY ONLY <4>1, <3>1, <3>2, <3>4, <2>1, <1>6
      <3> QED
        BY <3>3, <3>4, <1>8
    <2> QED
      BY <2>2, <1>1, <1>9, <1>12 DEF GlobalsBelow, IndexesDistinct, IndexInv
  <1>14. NoLocals'
    BY <1>7 DEF NoLocals
  <1>15. TypeOK'
    <2>1. Released(n) \in 0 .. NumSym
      BY <1>6, <1>8, Bounds
    <2>2. 0 \in 0 .. NumSym + MaxParams /\ 0 \in 0 .. MaxParams
      BY Bounds
    <2> QED
      BY <1>1, <1>5, <2>1, <2>2 DEF TypeOK, IndexInv
  <1> QED
    BY <1>10, <1>11, <1>12, <1>14, <1>15 DEF IndexInv

(* The end: the local variables held as many indexes as are given back.    *)
LEMMA FuncEndIndex ==
  ASSUME IndexInv, NamesInv', FuncEnd
  PROVE  IndexInv'
  <1>1. /\ phase = "body" /\ phase' = "top" /\ failed' = failed
        /\ in_func /\ ~in_func'
        /\ sym' = Cleared /\ CurrVarIdx' = Byte(CurrVarIdx - Cardinality(Locals))
        /\ local_var_count' = 0
        /\ local_var_start_idx' = local_var_start_idx /\ param_count' = param_count
    BY DEF FuncEnd, in_func
  <1>2. /\ \A i \in Slots : /\ i \in Locals => sym'[i].name = NoName
                            /\ i \notin Locals => sym'[i] = sym[i]
                            /\ ~sym'[i].is_local
    BY <1>1, ClearedIs DEF IndexInv, NamesInv
  <1>3. /\ Locals \subseteq Held /\ Held \subseteq Used /\ Used \subseteq Slots
        /\ Cardinality(Locals) \in 0 .. NumSym /\ Cardinality(Held) \in 0 .. NumSym
        /\ Cardinality(Used) \in 0 .. NumSym /\ Cardinality(Locals) <= Cardinality(Held)
        /\ Cardinality(Held) <= CurrVarIdx /\ CurrVarIdx <= Cardinality(Used)
        /\ CurrVarIdx \in 0 .. NumSym /\ local_var_start_idx \in 0 .. NumSym
    BY <1>1, HeldBounds DEF Held, Used, IndexInv, TypeOK
  <1>4. Used' = Used \ Locals /\ Held' = Held \ Locals /\ Locals' = {}
    BY <1>2, <1>3 DEF Used, Held, Locals
  <1>5. ASSUME NEW S \in SUBSET Slots, Locals \subseteq S
        PROVE  Cardinality(S \ Locals) = Cardinality(S) - Cardinality(Locals)
    <2>1. S \cap Locals = Locals /\ IsFiniteSet(S)
      BY <1>5, SlotSets
    <2>2. Cardinality(S \ Locals) = Cardinality(S) - Cardinality(S \cap Locals)
      BY <2>1, FS_Difference
    <2> QED
      BY <2>1, <2>2
  <1>6. /\ Cardinality(Used') = Cardinality(Used) - Cardinality(Locals)
        /\ Cardinality(Held') = Cardinality(Held) - Cardinality(Locals)
    <2>1. /\ Used \in SUBSET Slots /\ Held \in SUBSET Slots
          /\ Locals \subseteq Used /\ Locals \subseteq Held
      BY <1>3
    <2> QED
      BY <2>1, <1>4, <1>5
  <1>7. CurrVarIdx' = CurrVarIdx - Cardinality(Locals)
    <2>1. CurrVarIdx - Cardinality(Locals) \in 0 .. 255
      BY <1>3, Bounds
    <2>2. (CurrVarIdx - Cardinality(Locals)) % 256 = CurrVarIdx - Cardinality(Locals)
      BY <2>1
    <2> QED
      BY <1>1, <2>2 DEF Byte
  <1>8. /\ CurrVarIdx' \in 0 .. NumSym /\ CurrVarIdx' <= Cardinality(Used')
        /\ Cardinality(Held') <= CurrVarIdx'
    BY <1>3, <1>6, <1>7, Bounds
  <1>9. \A i \in Slots : IsGlobal(i)' => IsGlobal(i) /\ sym'[i].value = sym[i].value
    BY <1>2 DEF IsGlobal, IsVar, Locals
  <1>11. NoLocals' /\ LocalsCounted'
    BY <1>1, <1>2 DEF NoLocals, LocalsCounted, Locals
  <1>12. Counted'
    BY <1>8 DEF Counted, IndexesCounted
  <1>13. ASSUME Orderly PROVE GlobalsBelow' /\ IndexesDistinct'
    <2>1. GlobalsEnd' = GlobalsEnd
      <3>1. Cardinality(Locals') = 0
        BY <1>4, FS_EmptySet
      <3> QED
        BY <3>1, <1>3, <1>7, Bounds DEF GlobalsEnd
    <2> QED
      BY <2>1, <1>1, <1>9, <1>13 DEF IndexInv, GlobalsBelow, IndexesDistinct
  <1>15. TypeOK'
    <2>1. sym' \in [Slots -> Symbol]
      <3>1. ASSUME NEW i \in Slots
            PROVE  Cleared[i] \in Symbol
        <4>1. sym[i] \in Symbol
          BY DEF IndexInv, TypeOK
        <4> QED
          BY <4>1 DEF Cleared, Symbol
      <3> QED
        BY <3>1, <1>1 DEF Cleared
    <2>2. 0 \in 0 .. NumSym + MaxParams
      BY Bounds
    <2> QED
      BY <1>1, <1>8, <2>1, <2>2 DEF TypeOK, IndexInv
  <1> QED
    BY <1>11, <1>12, <1>13, <1>15 DEF IndexInv

(* A compilation begins or ends, and the steps that leave the table alone. *)
LEMMA CompileIndex ==
  ASSUME Counting, IndexInv, NamesInv',
         Body \/ Compile \/ EndOfFile \/ Error \/ NcInit \/ UNCHANGED vars
  PROVE  IndexInv'
  <1>1. CASE Compile \/ NcInit
    <2>1. /\ \A i \in Slots : sym'[i].name = NoName
          /\ CurrVarIdx' = 0 /\ failed' = FALSE /\ phase' \in {"idle", "top"}
          /\ phase = "idle"
          /\ local_var_count' \in {0, local_var_count}
          /\ local_var_start_idx' \in {0, local_var_start_idx}
          /\ param_count' \in {0, param_count}
      BY <1>1 DEF Compile, NcInit, NoSymbol, frame
    <2>2. Locals' = {}
      <3>1. CASE NcInit
        BY <3>1 DEF NcInit, Locals, NoSymbol
      <3>2. CASE Compile
        <4>1. ~failed
          BY <3>2 DEF Compile, Counting
        <4>2. Locals = {}
          BY <4>1, <2>1 DEF IndexInv, NoLocals
        <4> QED
          BY <4>2, <3>2 DEF Compile, Locals, NoSymbol
      <3> QED
        BY <3>1, <3>2, <1>1
    <2>3. sym' \in [Slots -> Symbol]
      <3>1. NoSymbol \in Symbol /\ \A b \in BOOLEAN : [NoSymbol EXCEPT !.is_local = b] \in Symbol
        <4>1. 0 \in 0 .. 255
          OBVIOUS
        <4> QED
          BY <4>1 DEF NoSymbol, Symbol, VarTypes
      <3>2. \A i \in Slots : sym[i].is_local \in BOOLEAN
        BY DEF IndexInv, TypeOK, Symbol
      <3> QED
        BY <1>1, <3>1, <3>2 DEF Compile, NcInit
    <2>4. /\ 0 \in 0 .. NumSym /\ 0 \in 0 .. NumSym + MaxParams /\ 0 \in 0 .. MaxParams
          /\ 0 <= Cardinality(Used') /\ Cardinality(Held') <= 0
      <3>1. Used' = {} /\ Held' = {}
        BY <2>1 DEF Used, Held
      <3> QED
        BY <3>1, FS_EmptySet, Bounds
    <2>5. TypeOK'
      BY <2>1, <2>3, <2>4 DEF IndexInv, TypeOK
    <2>6. \A i \in Slots : ~IsGlobal(i)'
      BY <2>1 DEF IsGlobal, IsVar
    <2>7. NoLocals' /\ Counted' /\ LocalsCounted'
      BY <2>1, <2>2, <2>4 DEF NoLocals, Counted, IndexesCounted, LocalsCounted, in_func
    <2>8. GlobalsBelow' /\ IndexesDistinct'
      BY <2>6 DEF GlobalsBelow, IndexesDistinct
    <2> QED
      BY <2>5, <2>7, <2>8 DEF IndexInv
  <1>2. CASE Body \/ EndOfFile \/ Error \/ UNCHANGED vars
    <2>1. /\ sym' = sym /\ CurrVarIdx' = CurrVarIdx /\ local_var_count' = local_var_count
          /\ local_var_start_idx' = local_var_start_idx /\ param_count' = param_count
      BY <1>2 DEF Body, EndOfFile, Error, vars, frame
    <2>2. Used' = Used /\ Locals' = Locals /\ Held' = Held /\ \A i \in Slots : IsGlobal(i)' = IsGlobal(i)
      BY <2>1 DEF Used, Locals, Held, IsGlobal, IsVar
    <2>3. /\ phase' \in {"idle", "top", "params", "body"} /\ failed' \in BOOLEAN
          /\ phase' = "top" => phase = "top"
          /\ phase' = "idle" /\ ~failed' => phase = "top" \/ (phase = "idle" /\ ~failed)
          /\ phase' # "idle" => phase # "idle" /\ in_func' = in_func
          /\ in_func' => in_func
      <3>1. failed \in BOOLEAN /\ phase \in {"idle", "top", "params", "body"}
        BY DEF IndexInv, TypeOK
      <3>2. CASE Body
        BY <3>1, <3>2 DEF Body, in_func
      <3>3. CASE EndOfFile
        BY <3>1, <3>3 DEF EndOfFile, in_func
      <3>4. CASE Error
        BY <3>1, <3>4 DEF Error, in_func
      <3>5. CASE UNCHANGED vars
        BY <3>1, <3>5 DEF vars, in_func
      <3> QED
        BY <1>2, <3>2, <3>3, <3>4, <3>5
    <2>4. TypeOK'
      BY <2>1, <2>3 DEF IndexInv, TypeOK
    <2>5. NoLocals' /\ LocalsCounted'
      BY <2>1, <2>2, <2>3 DEF IndexInv, NoLocals, LocalsCounted
    <2>6. Counted'
      BY <2>1, <2>2, <2>3 DEF IndexInv, Counted, IndexesCounted
    <2>7. Orderly => GlobalsBelow'
      BY <2>1, <2>2, <2>3 DEF IndexInv, GlobalsBelow, GlobalsEnd
    <2>8. Orderly => IndexesDistinct'
      BY <2>1, <2>2, <2>3 DEF IndexInv, IndexesDistinct
    <2> QED
      BY <2>4, <2>5, <2>6, <2>7, <2>8 DEF IndexInv
  <1> QED
    BY <1>1, <1>2

LEMMA IndexInitial == Init => IndexInv
  <1> SUFFICES ASSUME Init PROVE IndexInv
    OBVIOUS
  <1>1. NoSymbol \in Symbol /\ 0 \in 0 .. NumSym /\ 0 \in 0 .. NumSym + MaxParams
        /\ 0 \in 0 .. MaxParams
    <2>1. 0 \in 0 .. 255
      OBVIOUS
    <2> QED
      BY <2>1, Bounds DEF NoSymbol, Symbol, VarTypes
  <1>2. TypeOK
    BY <1>1 DEF Init, TypeOK
  <1>3. NoLocals /\ Counted /\ LocalsCounted /\ GlobalsBelow /\ IndexesDistinct
    BY DEF Init, NoLocals, Counted, IndexesCounted, LocalsCounted, GlobalsBelow,
           IndexesDistinct, Locals, NoSymbol, in_func
  <1> QED
    BY <1>2, <1>3, NamesInitial DEF IndexInv

LEMMA IndexStep ==
  ASSUME Counting, IndexInv, [Next]_vars
  PROVE  IndexInv'
  <1>1. NamesInv'
    BY NamesStep DEF IndexInv
  <1>2. ASSUME Uses PROVE IndexInv'
    BY <1>1, <1>2, ReusedKeeps, CreatedKeeps, TakenKeeps DEF Uses
  <1>3. ASSUME NEW n \in Names, Statement(n) PROVE IndexInv'
    <2>1. ~LabelAssigned(n)
      BY DEF LabelAssigned, AssignLabel, Counting
    <2> QED
      BY <1>2, <1>3, <2>1, Assignments, StatementsUse, AssignUses DEF Statement
  <1>4. ASSUME NEW n \in Names, Function(n) PROVE IndexInv'
    BY <1>1, <1>2, <1>4, FuncBeginIndex, ParamUses DEF Function
  <1> QED
    BY <1>1, <1>3, <1>4, FuncEndIndex, CompileIndex DEF Next

LEMMA IndexAlways ==
  ASSUME Counting
  PROVE  Spec => []IndexInv
  <1>1. IndexInv /\ [Next]_vars => IndexInv'
    BY IndexStep
  <1> QED
    BY <1>1, IndexInitial, PTL DEF Spec

(* CurrVarIdx and the counters of a function stay within the table: none   *)
(* of these bytes wraps around.  This is so whatever the functions call,   *)
(* read and assign to, as long as no label has the name of a variable, no  *)
(* statement assigns to a label, and nc_init runs after a compilation with *)
(* errors.                                                                 *)
THEOREM TypeCorrect ==
  ASSUME Counting
  PROVE  Spec => []TypeOK
  <1>1. IndexInv => TypeOK
    BY DEF IndexInv
  <1> QED
    BY <1>1, IndexAlways, PTL

(* For the same programs CurrVarIdx does not fall below the number of the  *)
(* entries that hold an index.                                             *)
THEOREM CountCorrect ==
  ASSUME Counting
  PROVE  Spec => []IndexesCounted
  <1>1. IndexInv => IndexesCounted
    BY DEF IndexInv, Counted
  <1> QED
    BY <1>1, IndexAlways, PTL

(* No two global variables share an index, if no function calls a function *)
(* that is defined later, and none reads or declares a name that is new:   *)
(* nanoc_reference.md allows forward calls (lines 260 and 357), and for    *)
(* them it is not so.                                                      *)
THEOREM DistinctCorrect ==
  ASSUME Orderly
  PROVE  Spec => []IndexesDistinct
  <1>1. Counting
    BY DEF Orderly, Counting
  <1>2. IndexInv => IndexesDistinct
    BY DEF IndexInv
  <1> QED
    BY <1>1, <1>2, IndexAlways, PTL

(* No function changes what a global name means, if none assigns to the    *)
(* variable that was created last: nanoc_reference.md allows this (lines   *)
(* 372 to 378), and for it it is not so.  Forward calls and the other      *)
(* habits make no difference.                                              *)
THEOREM GlobalsCorrect ==
  ASSUME "newest" \notin Habits
  PROVE  Spec => GlobalsStay
  <1>1. NamesInv /\ [Next]_vars => [Stay]_vars
    BY StayStep
  <1> QED
    BY <1>1, NamesAlways, PTL DEF Spec, GlobalsStay, Stay
=============================================================================
