------------------------------- MODULE SymTab -------------------------------
(***************************************************************************)
(* The symbol table of nc_compiler.c: which variable of the VM, or which   *)
(* offset in the stack frame, a name of the program stands for.            *)
(*                                                                         *)
(* The compiler is one pass.  Each identifier token goes through sym_add,  *)
(* which enters a name not seen before as a global variable with the index *)
(* CurrVarIdx; what the statement makes of the symbol comes after that.    *)
(* Parameters and the variables assigned in a function become local: they  *)
(* get an offset, and their index is taken back at the end of the function.*)
(*                                                                         *)
(* An action is the use of one name by the program text, together with     *)
(* what the handler of the statement does to the symbol.  Slots are the    *)
(* entries of a_Symbol from StartOfVars on.  Code addresses (the value of  *)
(* a LABEL) and the emitted code are left out.                             *)
(***************************************************************************)
EXTENDS Integers, FiniteSets

CONSTANTS
  Names,      \* the identifiers of the program
  NoName,     \* name[0] = '\0'
  NumSym,     \* entries of a_Symbol for the program
  MaxParams,  \* parameters of a function, 8 in the code
  Habits      \* what the programs do, of AllHabits

(* "newest": a function assigns to the global that was created last;       *)
(* "forward": a function calls a function that is defined later;           *)
(* "unseen": a function reads a name, or declares it as str8, that is new  *)
(*           at this place;                                                *)
(* "label":  a label has the name of a variable;                           *)
(* "address": a statement assigns to the name of a label or of a function; *)
(* "again":  after errors nc_compile is called again without nc_init.      *)
AllHabits == {"newest", "forward", "unseen", "label", "address", "again"}

(* a_Symbol has 256 entries, the first ones for the keywords, so that      *)
(* local_var_count, a uint8_t, does not wrap.                              *)
ASSUME SymAssumption ==
  /\ NoName \notin Names
  /\ NumSym \in 1 .. 255
  /\ MaxParams \in 1 .. 8
  /\ NumSym + MaxParams <= 255
  /\ Habits \subseteq AllHabits

VARIABLES
  sym,                  \* a_Symbol
  CurrVarIdx,           \* uint8_t: the index of the next new variable
  local_var_count,      \* local variables of the function
  local_var_start_idx,  \* CurrVarIdx at the beginning of the function
  param_count,          \* parameters of the function so far
  phase,                \* "idle": nc_compile is not running; "top": outside of
                        \* functions; "params", "body": in compile_func
  failed                \* the last nc_compile has found errors

frame == <<local_var_count, local_var_start_idx, param_count>>
vars  == <<sym, CurrVarIdx, frame, phase, failed>>

Slots    == 0 .. NumSym - 1
VarTypes == {"ID", "STRID", "ARR"}
Symbol   == [name : Names \cup {NoName}, type : VarTypes \cup {"LABEL", "CNST"},
             is_local : BOOLEAN, value : 0 .. 255]

NoSymbol == [name |-> NoName, type |-> "ID", is_local |-> FALSE, value |-> 0]

in_func  == phase \in {"params", "body"}
Byte(n)  == n % 256

Init ==
  /\ sym = [i \in Slots |-> NoSymbol]
  /\ CurrVarIdx = 0
  /\ local_var_count = 0 /\ local_var_start_idx = 0 /\ param_count = 0
  /\ phase = "idle"
  /\ failed = FALSE

-----------------------------------------------------------------------------
(* sym_add for the token n: a local symbol takes precedence over a global  *)
(* one; a new name takes the first free slot.                              *)
Named(n)  == {i \in Slots : sym[i].name = n}
Local(n)  == {i \in Named(n) : sym[i].is_local}
Free      == Named(NoName)
FirstFree == CHOOSE i \in Free : \A j \in Free : i <= j
IsNew(n)  == Named(n) = {}

Slot(n) ==
  IF IsNew(n) THEN FirstFree
  ELSE IF Local(n) # {} THEN CHOOSE i \in Local(n) : TRUE
  ELSE CHOOSE i \in Named(n) : TRUE

NewSymbol(n) == [name |-> n, type |-> "ID", is_local |-> FALSE, value |-> CurrVarIdx]

Table(n)   == IF IsNew(n) THEN [sym EXCEPT ![FirstFree] = NewSymbol(n)] ELSE sym
NextIdx(n) == IF IsNew(n) THEN Byte(CurrVarIdx + 1) ELSE CurrVarIdx

(* The name is a token of the program text in one of the phases, and there *)
(* is room for it ("symbol table full").                                   *)
Token(n, phases) ==
  /\ phase \in phases
  /\ IsNew(n) => Free # {}
  /\ UNCHANGED <<phase, failed>>

Seen(n, habit) == IsNew(n) /\ in_func => habit \in Habits

TypeOf(n) == Table(n)[Slot(n)].type

-----------------------------------------------------------------------------
(* A function called before its definition (compile_func_call), a variable *)
(* or an array in an expression (compile_factor): sym_add is all that      *)
(* happens to the table.                                                   *)
Call(n) ==
  /\ Token(n, {"top", "body"})
  /\ Seen(n, "forward")
  /\ TypeOf(n) = "ID"
  /\ sym' = Table(n)
  /\ CurrVarIdx' = NextIdx(n)
  /\ UNCHANGED frame

Read(n) ==
  /\ Token(n, {"top", "body"})
  /\ Seen(n, "unseen")
  /\ TypeOf(n) \in VarTypes
  /\ sym' = Table(n)
  /\ CurrVarIdx' = NextIdx(n)
  /\ UNCHANGED frame

(* The symbol at i becomes a local variable with the next offset.          *)
(* Mutant: the offset is used again.                                       *)
OffsetReused(i, n) ==
  /\ sym' = [Table(n) EXCEPT ![i].is_local = TRUE, ![i].value = local_var_count]
  /\ UNCHANGED frame

MakeLocal(i, n) ==
  /\ sym' = [Table(n) EXCEPT ![i].is_local = TRUE, ![i].value = local_var_count]
  /\ local_var_count' = local_var_count + 1
  /\ UNCHANGED <<local_var_start_idx, param_count>>

(* compile_var: n = e, int32 n = e, n++, n--.  In a function a symbol with *)
(* the index CurrVarIdx - 1 is taken for a new one and made local.         *)
(* Assigning to a local str8 is an error.                                  *)
LooksNew(n) == LET s == Table(n)[Slot(n)]
               IN  in_func /\ ~s.is_local /\ s.value = NextIdx(n) - 1

AssignVar(n) ==
  /\ TypeOf(n) = "ID" \/ (TypeOf(n) = "STRID" /\ ~Table(n)[Slot(n)].is_local /\ ~LooksNew(n))
  /\ LooksNew(n) => IsNew(n) \/ "newest" \in Habits
  /\ IF LooksNew(n)
     THEN MakeLocal(Slot(n), n)
     ELSE sym' = Table(n) /\ UNCHANGED frame

(* compile_stmt takes the name of a label, or of a function, for that of a *)
(* number.  The value of the symbol is a code address, which is not in the *)
(* model: it may happen to be CurrVarIdx - 1, and if it is not, the        *)
(* generated code stores into whatever variable has this index.            *)
AssignLabel(n) ==
  /\ "address" \in Habits
  /\ TypeOf(n) = "LABEL"
  /\ \/ in_func /\ ~sym[Slot(n)].is_local /\ MakeLocal(Slot(n), n)
     \/ sym' = Table(n) /\ UNCHANGED frame

Assign(n) ==
  /\ Token(n, {"top", "body"})
  /\ AssignVar(n) \/ AssignLabel(n)
  /\ CurrVarIdx' = NextIdx(n)

(* compile_for: only a symbol that has just been created becomes local.    *)
ForVar(n) ==
  /\ Token(n, {"top", "body"})
  /\ TypeOf(n) = "ID"
  /\ IF in_func /\ IsNew(n)
     THEN MakeLocal(Slot(n), n)
     ELSE sym' = Table(n) /\ UNCHANGED frame
  /\ CurrVarIdx' = NextIdx(n)

(* compile_str8_var (str8 n = e), the array declaration of                 *)
(* compile_int32_decl (int32 n[size]), compile_const (const n = number).   *)
StrDecl(n) ==
  /\ Token(n, {"top", "body"})
  /\ Seen(n, "unseen")
  /\ TypeOf(n) \in {"ID", "STRID"}
  /\ sym' = [Table(n) EXCEPT ![Slot(n)].type = "STRID"]
  /\ CurrVarIdx' = NextIdx(n)
  /\ UNCHANGED frame

ArrDecl(n) ==
  /\ Token(n, {"top"})
  /\ TypeOf(n) = "ID"
  /\ sym' = [Table(n) EXCEPT ![Slot(n)].type = "ARR"]
  /\ CurrVarIdx' = NextIdx(n)
  /\ UNCHANGED frame

Const(n, value) ==
  /\ Token(n, {"top", "body"})
  /\ sym' = [Table(n) EXCEPT ![Slot(n)].type = "CNST", ![Slot(n)].value = value]
  /\ CurrVarIdx' = NextIdx(n)
  /\ UNCHANGED frame

(* Mutant: it makes no difference whether the name is a label already.     *)
LabelTwice(n) ==
  /\ Token(n, {"top", "body"})
  /\ TypeOf(n) \in {"ID", "LABEL"}
  /\ IsNew(n) \/ TypeOf(n) = "LABEL" \/ "label" \in Habits
  /\ sym' = [Table(n) EXCEPT ![Slot(n)].type = "LABEL", ![Slot(n)].value = 0]
  /\ CurrVarIdx' = Byte(NextIdx(n) - 1)
  /\ UNCHANGED frame

(* label: the index is given back, whoever got it.                         *)
Label(n) ==
  /\ Token(n, {"top", "body"})
  /\ TypeOf(n) = "ID"
  /\ IsNew(n) \/ "label" \in Habits
  /\ sym' = [Table(n) EXCEPT ![Slot(n)].type = "LABEL", ![Slot(n)].value = 0]
  /\ CurrVarIdx' = Byte(NextIdx(n) - 1)
  /\ UNCHANGED frame

-----------------------------------------------------------------------------
(* compile_func.  A function called before got its index then; it is given *)
(* back only if it is the last one.                                        *)
(* Mutant: it is given back in any case.                                   *)
AlwaysReleased(n) == Byte(NextIdx(n) - 1)

Released(n) == IF Table(n)[Slot(n)].value = NextIdx(n) - 1
               THEN Byte(NextIdx(n) - 1) ELSE NextIdx(n)

FuncBegin(n) ==
  /\ phase = "top"
  /\ IsNew(n) => Free # {}
  /\ TypeOf(n) = "ID"
  /\ sym' = [Table(n) EXCEPT ![Slot(n)].type = "LABEL", ![Slot(n)].value = 0]
  /\ CurrVarIdx' = Released(n)
  /\ local_var_count' = 0
  /\ local_var_start_idx' = Released(n)
  /\ param_count' = 0
  /\ phase' = "params"
  /\ UNCHANGED failed

AsParam(s, type) == [s EXCEPT !.is_local = TRUE, !.value = local_var_count, !.type = type]

(* A parameter: a new name, the name of a global (sym_add_local gives the  *)
(* parameter a symbol of its own), or a parameter named twice.             *)
(* Mutant: the global itself becomes the parameter.                        *)
TakenGlobal(n, type) ==
  /\ sym' = [sym EXCEPT ![Slot(n)] = AsParam(@, type)]
  /\ UNCHANGED CurrVarIdx

ShadowGlobal(n, type) ==
  /\ Free # {}
  /\ sym' = [sym EXCEPT ![FirstFree] = AsParam(NewSymbol(n), type)]
  /\ CurrVarIdx' = Byte(CurrVarIdx + 1)

(* Mutant: a parameter named twice gets two symbols.                       *)
ShadowsAny(n) == ~IsNew(n)

Shadows(n) == ~IsNew(n) /\ Local(n) = {}

Param(n, type) ==
  /\ Token(n, {"params"})
  /\ param_count < MaxParams
  /\ TypeOf(n) \in {"ID", "STRID"}
  /\ IF Shadows(n)
     THEN ShadowGlobal(n, type)
     ELSE /\ sym' = [Table(n) EXCEPT ![Slot(n)] = AsParam(@, type)]
          /\ CurrVarIdx' = NextIdx(n)
  /\ local_var_count' = local_var_count + 1
  /\ param_count' = param_count + 1
  /\ UNCHANGED local_var_start_idx

Body ==
  /\ phase = "params"
  /\ phase' = "body"
  /\ UNCHANGED <<sym, CurrVarIdx, frame, failed>>

(* The end of the function: local symbols are removed, and as many indexes *)
(* given back.                                                             *)
Locals == {i \in Slots : sym[i].is_local}

Cleared == [i \in Slots |-> IF i \in Locals
                            THEN [sym[i] EXCEPT !.name = NoName, !.is_local = FALSE]
                            ELSE sym[i]]

FuncEnd ==
  /\ phase = "body"
  /\ sym' = Cleared
  /\ CurrVarIdx' = Byte(CurrVarIdx - Cardinality(Locals))
  /\ local_var_count' = 0
  /\ phase' = "top"
  /\ UNCHANGED <<local_var_start_idx, param_count, failed>>

-----------------------------------------------------------------------------
(* nc_compile begins: names, types and values are cleared, is_local is not.*)
Compile ==
  /\ phase = "idle"
  /\ failed => "again" \in Habits
  /\ sym' = [i \in Slots |-> [NoSymbol EXCEPT !.is_local = sym[i].is_local]]
  /\ CurrVarIdx' = 0
  /\ local_var_count' = 0 /\ local_var_start_idx' = 0 /\ param_count' = 0
  /\ phase' = "top"
  /\ failed' = FALSE

EndOfFile ==
  /\ phase = "top"
  /\ phase' = "idle"
  /\ UNCHANGED <<sym, CurrVarIdx, frame, failed>>

(* error(), at any token.  The lines that follow are compiled for more     *)
(* messages; the result is thrown away.                                    *)
Error ==
  /\ phase # "idle"
  /\ phase' = "idle"
  /\ failed' = TRUE
  /\ UNCHANGED <<sym, CurrVarIdx, frame>>

(* nc_init.                                                                *)
NcInit ==
  /\ phase = "idle"
  /\ sym' = [i \in Slots |-> NoSymbol]
  /\ CurrVarIdx' = 0
  /\ failed' = FALSE
  /\ UNCHANGED <<frame, phase>>

-----------------------------------------------------------------------------
Statement(n) ==
  \/ Assign(n) \/ ForVar(n) \/ Read(n) \/ Call(n)
  \/ StrDecl(n) \/ ArrDecl(n) \/ Const(n, 0) \/ Label(n)

Function(n) ==
  \/ FuncBegin(n)
  \/ \E type \in VarTypes : Param(n, type)

Next ==
  \/ \E n \in Names : Statement(n) \/ Function(n)
  \/ Body \/ FuncEnd
  \/ Compile \/ EndOfFile \/ Error \/ NcInit

Spec == Init /\ [][Next]_vars

-----------------------------------------------------------------------------
(* Every variable has its type; CurrVarIdx is not near its wrap around.    *)
TypeOK ==
  /\ sym \in [Slots -> Symbol]
  /\ CurrVarIdx \in 0 .. NumSym
  /\ local_var_count \in 0 .. NumSym + MaxParams
  /\ local_var_start_idx \in 0 .. NumSym
  /\ param_count \in 0 .. MaxParams
  /\ phase \in {"idle", "top", "params", "body"}
  /\ failed \in BOOLEAN

IsVar(i)    == sym[i].name # NoName /\ sym[i].type \in VarTypes
IsGlobal(i) == IsVar(i) /\ ~sym[i].is_local
IsLocal(i)  == IsVar(i) /\ sym[i].is_local

(* Two global variables never share an index into vm->variables.  The      *)
(* regression tests (regression.nc line 5, "a forward-called function must *)
(* not share its variable index with a later variable") look at one        *)
(* program; compile_func and compile_for have comments on the hazard.      *)
IndexesDistinct ==
  phase # "idle" =>
    \A i, j \in Slots : i # j /\ IsGlobal(i) /\ IsGlobal(j)
                          => sym[i].value # sym[j].value

(* The entries that have taken an index and not given it back: variables,  *)
(* and what is local until the function ends.                              *)
Held == {i \in Slots : sym[i].name # NoName /\ (sym[i].type \in VarTypes \/ sym[i].is_local)}

(* CurrVarIdx is given back by four handlers, two of which do not look at  *)
(* who has the index: it never falls below the number of entries that      *)
(* still hold one, or the next variables would get an index in use.        *)
IndexesCounted == phase # "idle" => Cardinality(Held) <= CurrVarIdx

(* In a function no two local variables share an offset in the frame, and  *)
(* ENTER reserves room for each of them; outside there are none.           *)
FrameOK ==
  /\ in_func =>
       \A i \in Slots : IsLocal(i) =>
         /\ sym[i].value < local_var_count
         /\ \A j \in Slots \ {i} : IsLocal(j) => sym[i].value # sym[j].value
  /\ phase = "top" => \A i \in Slots : ~IsLocal(i)

(* A name has at most one global meaning, and at most one local one.       *)
OneMeaning ==
  \A n \in Names : /\ Cardinality(Local(n)) <= 1
                   /\ Cardinality(Named(n) \ Local(n)) <= 1

(* nanoc_reference.md line 372, "Global variables remain accessible from   *)
(* within functions": a global variable keeps its name, its index and its  *)
(* scope until the compilation ends, whatever functions name their         *)
(* variables, unless the program makes the name a constant or a label.     *)
GlobalsStay ==
  [][phase # "idle" /\ phase' # "idle" =>
       \A i \in Slots : IsGlobal(i) =>
         /\ sym'[i].name = sym[i].name
         /\ IsVar(i)' => ~sym'[i].is_local /\ sym'[i].value = sym[i].value]_vars

=============================================================================
