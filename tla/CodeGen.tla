------------------------------ MODULE CodeGen ------------------------------
(***************************************************************************)
(* The jumps of the code generator (nc_compiler.c): loops, if and else,    *)
(* break, functions, calls of functions that are defined later, and the    *)
(* two forms of dispatch.  The compiler reads the program once.  A jump    *)
(* forward is written without its target and patched when the target is    *)
(* reached; until then its position is kept in a local variable of the     *)
(* compile function, in the list of breaks, or in the list of forward      *)
(* declarations.                                                           *)
(*                                                                         *)
(* A step is the token (or the few tokens) on which the compiler does      *)
(* something to the jumps; expressions and plain statements emit no jumps  *)
(* and are left out, except for the condition of a while loop, which the   *)
(* loop jumps back to.  An instruction takes one cell of the code.         *)
(***************************************************************************)
EXTENDS Integers, Sequences, SequencesExt, FiniteSets, FiniteSetsExt

CONSTANTS
  MaxBreaks,   \* k_MAX_BREAKS
  MaxFwDecls,  \* cfg_MAX_FW_DECL
  MaxCases,    \* case values are 0 .. MaxCases - 1
  Funcs,       \* names of functions
  MaxTokens    \* bound: length of a program

ASSUME CodeGenAssumption ==
  /\ MaxBreaks \in Nat /\ MaxFwDecls \in Nat /\ MaxCases \in Nat \ {0}
  /\ MaxTokens \in Nat

VARIABLES
  code,          \* p_code; its length is pc - 1
  blocks,        \* the compile functions that wait for the end of a block
  loop_type, for_depth, in_func,
  break_pos,     \* a_break_pos[0 .. num_breaks - 1]
  forward_decl,  \* a_forward_decl[0 .. num_fw_decls - 1]
  label,         \* value of a function's symbol, 0 if it is no LABEL yet
  err_count,
  result,        \* "compiling", "ok" or "refused"
  src            \* history: the program, up to its first error

context == <<loop_type, for_depth, in_func>>
lists   == <<break_pos, forward_decl, label>>
vars    == <<code, blocks, context, lists, err_count, result, src>>

-----------------------------------------------------------------------------
(* An instruction with its jump target; n is its other operand.            *)
Ins(op, to)     == [op |-> op, to |-> to, n |-> 0]
InsN(op, to, n) == [op |-> op, to |-> to, n |-> n]
Unpatched       == 0
Ops == {"RESERVED", "FOR", "FOR_CHECK", "NEXT", "EXPR", "IF", "GOTO",
        "BREAK_FOR", "GOSUB", "ENTER", "LEAVE", "FOR_LEAVE", "DISPATCH",
        "ADDR", "DISPATCH_JMP", "END"}

Here == Len(code) + 1
Patched(c, P, to) == [p \in DOMAIN c |-> IF p \in P THEN [c[p] EXCEPT !.to = to]
                                         ELSE c[p]]

(* What a compile function keeps in its local variables.                   *)
Block == [kind : {"for", "while", "if", "else", "func", "dispatch", "case",
                  "entries"},
          pos : Nat,             \* the jump to be patched at the end
          top : Nat,             \* where a loop begins
          ends : SUBSET Nat,     \* else-if: the jumps of the earlier branches
          outer_loop : {"none", "for", "while"}, outer_depth : Nat,
          first_break : Nat,
          case_addrs : [0 .. MaxCases - 1 -> Nat],
          gotos : SUBSET Nat]

NewBlock(kind, pos) ==
  [kind |-> kind, pos |-> pos, top |-> 0, ends |-> {},
   outer_loop |-> loop_type, outer_depth |-> for_depth,
   first_break |-> Len(break_pos),
   case_addrs |-> [v \in 0 .. MaxCases - 1 |-> 0], gotos |-> {}]

Kind    == IF blocks = <<>> THEN "none" ELSE Last(blocks).kind
Top     == Last(blocks)
Outer   == Front(blocks)

(* A place where a statement may begin.                                    *)
InBlock == Kind \notin {"dispatch", "entries"}

Init ==
  /\ code = <<Ins("RESERVED", 0)>>
  /\ blocks = <<>>
  /\ loop_type = "none" /\ for_depth = 0 /\ in_func = FALSE
  /\ break_pos = <<>> /\ forward_decl = <<>>
  /\ label = [f \in Funcs |-> 0]
  /\ err_count = 0 /\ result = "compiling"
  /\ src = <<>>

(* The compiler meets the tokens ts.  The bound leaves room for the braces *)
(* that are still missing.                                                 *)
Tok(t)        == [tok |-> t, fn |-> "none", at |-> Here, val |-> 0]
FnTok(t, f)   == [Tok(t) EXCEPT !.fn = f]
CaseTok(v)    == [Tok("case") EXCEPT !.val = v]
Openers == {"for", "while", "if", "else", "elseif", "func", "dispatch",
            "entries", "case"}
Opened(ts) == IF Len(ts) = 1 THEN (CASE ts[1].tok \in Openers -> 1
                                     [] ts[1].tok = "}"       -> -1
                                     [] OTHER                 -> 0) ELSE 0
Reads(ts) ==
  /\ result = "compiling" /\ err_count = 0
  /\ Len(src \o ts) + Len(blocks) + Opened(ts) <= MaxTokens
  /\ src' = src \o ts

(* error(): the rest of the line is dropped, and with it the compile       *)
(* functions that were waiting.  The compiler goes on with the next line   *)
(* to report more errors, which is left out: nobody will see its code.     *)
Fail ==
  /\ err_count' = 1
  /\ blocks' = <<>>
  /\ UNCHANGED <<code, context, lists, result>>

-----------------------------------------------------------------------------
For ==
  /\ InBlock /\ Reads(<<Tok("for")>>)
  /\ code' = code \o <<Ins("FOR", 0), Ins("FOR_CHECK", Unpatched)>>
  /\ blocks' = Append(blocks, [NewBlock("for", Here + 1) EXCEPT !.top = Here + 2])
  /\ loop_type' = "for" /\ for_depth' = for_depth + 1
  /\ UNCHANGED <<in_func, lists, err_count, result>>

While ==
  /\ InBlock /\ Reads(<<Tok("while")>>)
  /\ code' = code \o <<Ins("EXPR", 0), Ins("IF", Unpatched)>>
  /\ blocks' = Append(blocks, [NewBlock("while", Here + 1) EXCEPT !.top = Here])
  /\ loop_type' = "while"
  /\ UNCHANGED <<for_depth, in_func, lists, err_count, result>>

(* patch_breaks(): the breaks of the loop just compiled.                   *)
(* Mutants: the breaks of the outer loops are forgotten; those of the loop *)
(* are kept.                                                               *)
MutantNoBreaks(b) == <<>>
MutantAllBreaks(b) == break_pos
BreaksOf(b) == {break_pos[i] : i \in b.first_break + 1 .. Len(break_pos)}
KeptBreaks(b) == SubSeq(break_pos, 1, b.first_break)

LoopJump(b) == Ins(IF b.kind = "for" THEN "NEXT" ELSE "GOTO", b.top)

EndLoop ==
  /\ Kind \in {"for", "while"} /\ Reads(<<Tok("}")>>)
  /\ code' = Patched(Append(code, LoopJump(Top)), {Top.pos} \cup BreaksOf(Top), Here + 1)
  /\ break_pos' = KeptBreaks(Top)
  /\ loop_type' = Top.outer_loop
  /\ for_depth' = IF Top.kind = "for" THEN for_depth - 1 ELSE for_depth
  /\ blocks' = Outer
  /\ UNCHANGED <<in_func, forward_decl, label, err_count, result>>

BreakJump == Ins(IF loop_type = "for" THEN "BREAK_FOR" ELSE "GOTO", Unpatched)
(* Mutant: one break more than the list has room for.                      *)
MutantBreakRefused == loop_type = "none" \/ Len(break_pos) > MaxBreaks
BreakRefused == loop_type = "none" \/ Len(break_pos) >= MaxBreaks

Break ==
  /\ InBlock /\ Reads(<<Tok("break")>>)
  /\ \/ /\ BreakRefused
        /\ Fail
     \/ /\ ~BreakRefused
        /\ code' = Append(code, BreakJump)
        /\ break_pos' = Append(break_pos, Here)
        /\ UNCHANGED <<blocks, context, forward_decl, label, err_count, result>>

-----------------------------------------------------------------------------
If ==
  /\ InBlock /\ Reads(<<Tok("if")>>)
  /\ code' = Append(code, Ins("IF", Unpatched))
  /\ blocks' = Append(blocks, NewBlock("if", Here))
  /\ UNCHANGED <<context, lists, err_count, result>>

EndIf ==
  /\ Kind \in {"if", "else"} /\ Reads(<<Tok("}")>>)
  /\ code' = Patched(code, {Top.pos} \cup Top.ends, Here)
  /\ blocks' = Outer
  /\ UNCHANGED <<context, lists, err_count, result>>

(* A jump to the end follows the first branch; the condition of the if     *)
(* leads behind that jump.                                                 *)
ElseCode(b) == Patched(Append(code, Ins("GOTO", Unpatched)), {b.pos}, Here + 1)

Else ==
  /\ Kind = "if" /\ Reads(<<Tok("}"), Tok("else")>>)
  /\ code' = ElseCode(Top)
  /\ blocks' = Append(Outer, [NewBlock("else", Here) EXCEPT !.ends = Top.ends])
  /\ UNCHANGED <<context, lists, err_count, result>>

ElseIf ==
  /\ Kind = "if" /\ Reads(<<Tok("}"), Tok("elseif")>>)
  /\ code' = Append(ElseCode(Top), Ins("IF", Unpatched))
  /\ blocks' = Append(Outer, [NewBlock("if", Here + 1) EXCEPT
                                !.ends = Top.ends \cup {Here}])
  /\ UNCHANGED <<context, lists, err_count, result>>

(* A line that begins with else, or with a brace too many: compile_stmts   *)
(* takes it for the end of a block, and outside of a block that is the end *)
(* of the line.  (Inside a block it is a syntax error.)                    *)
LoseLine(t) ==
  /\ blocks = <<>> /\ Reads(<<Tok(t)>>)
  /\ UNCHANGED <<code, blocks, context, lists, err_count, result>>

-----------------------------------------------------------------------------
(* A function: a jump over it, its label, ENTER, its body, LEAVE.  A loop  *)
(* around the definition is none of the body's.                            *)
Func(f) ==
  /\ InBlock /\ Reads(<<FnTok("func", f)>>)
  /\ \/ /\ label[f] # 0
        /\ Fail
     \/ /\ label[f] = 0
        /\ code' = code \o <<Ins("GOTO", Unpatched), Ins("ENTER", 0)>>
        /\ label' = [label EXCEPT ![f] = Here + 1]
        /\ blocks' = Append(blocks, NewBlock("func", Here))
        /\ in_func' = TRUE /\ loop_type' = "none" /\ for_depth' = 0
        /\ UNCHANGED <<break_pos, forward_decl, err_count, result>>

EndFunc ==
  /\ Kind = "func" /\ Reads(<<Tok("}")>>)
  /\ code' = Patched(Append(code, Ins("LEAVE", 0)), {Top.pos}, Here + 1)
  /\ in_func' = FALSE
  /\ loop_type' = Top.outer_loop /\ for_depth' = Top.outer_depth
  /\ blocks' = Outer
  /\ UNCHANGED <<lists, err_count, result>>

(* Mutant: only the innermost loop is left.                                *)
MutantForLeave == IF loop_type = "for" THEN <<InsN("FOR_LEAVE", 0, 1)>> ELSE <<>>
ForLeave == IF for_depth > 0 THEN <<InsN("FOR_LEAVE", 0, for_depth)>> ELSE <<>>

Return ==
  /\ InBlock /\ Reads(<<Tok("return")>>)
  /\ \/ /\ ~in_func
        /\ Fail
     \/ /\ in_func
        /\ code' = code \o Append(ForLeave, Ins("LEAVE", 0))
        /\ UNCHANGED <<blocks, context, lists, err_count, result>>

(* forward_declaration(): the call at position p waits for f's label.      *)
ListFull      == Len(forward_decl) >= MaxFwDecls
(* Mutant: a function is noted once, for its first call.                   *)
MutantNoted(f, p) == IF \E d \in ToSet(forward_decl) : d.fn = f THEN forward_decl
                     ELSE Append(forward_decl, [fn |-> f, pos |-> p])
Noted(f, p)   == Append(forward_decl, [fn |-> f, pos |-> p])

Call(f) ==
  /\ InBlock /\ Reads(<<FnTok("call", f)>>)
  /\ \/ /\ label[f] = 0 /\ ListFull
        /\ Fail
     \/ /\ label[f] # 0 \/ ~ListFull
        /\ code' = Append(code, Ins("GOSUB", label[f]))
        /\ forward_decl' = IF label[f] # 0 THEN forward_decl ELSE Noted(f, Here)
        /\ UNCHANGED <<blocks, context, break_pos, label, err_count, result>>

-----------------------------------------------------------------------------
(* dispatch with functions: every entry is noted, defined or not.          *)
Entries ==
  /\ InBlock /\ Reads(<<Tok("entries")>>)
  /\ code' = Append(code, InsN("DISPATCH", 0, 0))
  /\ blocks' = Append(blocks, NewBlock("entries", Here))
  /\ UNCHANGED <<context, lists, err_count, result>>

Entry(f) ==
  /\ Kind = "entries" /\ Reads(<<FnTok("entry", f)>>)
  /\ \/ /\ ListFull
        /\ Fail
     \/ /\ ~ListFull
        /\ forward_decl' = Noted(f, Here)
        /\ code' = Append(code, Ins("ADDR", label[f]))
        /\ UNCHANGED <<blocks, context, break_pos, label, err_count, result>>

EndEntries ==
  /\ Kind = "entries" /\ Reads(<<Tok("}")>>)
  /\ code' = [code EXCEPT ![Top.pos].n = Len(code) - Top.pos]
  /\ blocks' = Outer
  /\ UNCHANGED <<context, lists, err_count, result>>

(* dispatch with code: the bodies first, each with a jump to the end, then *)
(* the table of their addresses; a value without a body leads to the end.  *)
Dispatch ==
  /\ InBlock /\ Reads(<<Tok("dispatch")>>)
  /\ code' = Append(code, InsN("DISPATCH_JMP", Unpatched, 0))
  /\ blocks' = Append(blocks, NewBlock("dispatch", Here))
  /\ UNCHANGED <<context, lists, err_count, result>>

CaseRefused(v) == v < MaxCases => Top.case_addrs[v] # 0

Case(v) ==
  /\ Kind = "dispatch" /\ Reads(<<CaseTok(v)>>)
  /\ \/ /\ CaseRefused(v)
        /\ Fail
     \/ /\ ~CaseRefused(v)
        /\ blocks' = Append(Append(Outer, [Top EXCEPT !.case_addrs[v] = Here]),
                            NewBlock("case", 0))
        /\ UNCHANGED <<code, context, lists, err_count, result>>

EndCase ==
  /\ Kind = "case" /\ Reads(<<Tok("}")>>)
  /\ code' = Append(code, Ins("GOTO", Unpatched))
  /\ blocks' = Append(Front(Outer), [Last(Outer) EXCEPT !.gotos = @ \cup {Here}])
  /\ UNCHANGED <<context, lists, err_count, result>>

CaseCount(b) == Max({v + 1 : v \in {w \in DOMAIN b.case_addrs : b.case_addrs[w] # 0}})
(* Mutant: a gap in the table is left 0.                                   *)
MutantJumpTable(b) == [i \in 1 .. CaseCount(b) |-> Ins("ADDR", b.case_addrs[i - 1])]
JumpTable(b) == [i \in 1 .. CaseCount(b) |->
                   Ins("ADDR", IF b.case_addrs[i - 1] # 0 THEN b.case_addrs[i - 1]
                               ELSE Here + CaseCount(b))]

EndDispatch ==
  /\ Kind = "dispatch" /\ Top.gotos # {} /\ Reads(<<Tok("}")>>)
  /\ code' = [Patched(code, Top.gotos, Here + CaseCount(Top)) EXCEPT
                ![Top.pos] = InsN("DISPATCH_JMP", Here, CaseCount(Top))]
             \o JumpTable(Top)
  /\ blocks' = Outer
  /\ UNCHANGED <<context, lists, err_count, result>>

-----------------------------------------------------------------------------
(* Any other error in a line.                                              *)
SyntaxError == Reads(<<Tok("bad")>>) /\ Fail

(* The end of the file, inside a block and outside.  With an error the     *)
(* program has no code; a forward declaration that cannot be resolved is   *)
(* an error as well, after which no line follows.                          *)
EndInBlock ==
  /\ result = "compiling" /\ err_count = 0 /\ blocks # <<>>
  /\ Fail
  /\ src' = Append(src, Tok("eof"))

Unresolved == {i \in DOMAIN forward_decl : label[forward_decl[i].fn] = 0}
Resolved(c) ==
  [p \in DOMAIN c |-> IF \E d \in ToSet(forward_decl) : d.pos = p
                      THEN [c[p] EXCEPT !.to =
                              label[(CHOOSE d \in ToSet(forward_decl) : d.pos = p).fn]]
                      ELSE c[p]]

EndOfFile ==
  /\ result = "compiling" /\ blocks = <<>>
  /\ \/ /\ err_count > 0
        /\ result' = "refused"
        /\ UNCHANGED <<code, forward_decl, err_count>>
     \/ /\ err_count = 0 /\ Unresolved # {}
        /\ result' = "refused" /\ err_count' = 1
        /\ code' = Append(code, Ins("END", 0))
        /\ UNCHANGED forward_decl
     \/ /\ err_count = 0 /\ Unresolved = {}
        /\ result' = "ok"
        /\ code' = Resolved(Append(code, Ins("END", 0)))
        /\ forward_decl' = <<>>
        /\ UNCHANGED err_count
  /\ src' = IF err_count > 0 THEN src ELSE Append(src, Tok("eof"))
  /\ UNCHANGED <<blocks, context, break_pos, label>>

(* nc_compile once more.                                                   *)
Restart ==
  /\ result # "compiling"
  /\ code' = <<Ins("RESERVED", 0)>>
  /\ blocks' = <<>>
  /\ loop_type' = "none" /\ for_depth' = 0 /\ in_func' = FALSE
  /\ break_pos' = <<>> /\ forward_decl' = <<>>
  /\ label' = [f \in Funcs |-> 0]
  /\ err_count' = 0 /\ result' = "compiling"
  /\ src' = <<>>

Loops     == For \/ While \/ EndLoop \/ Break
Branches  == If \/ EndIf \/ Else \/ ElseIf
             \/ \E t \in {"lost else", "lost brace"} : LoseLine(t)
Functions == EndFunc \/ Return \/ \E f \in Funcs : Func(f) \/ Call(f)
Tables    == \/ Entries \/ EndEntries \/ Dispatch \/ EndCase \/ EndDispatch
             \/ \E f \in Funcs : Entry(f)
             \/ \E v \in 0 .. MaxCases : Case(v)
Ends      == SyntaxError \/ EndInBlock \/ EndOfFile \/ Restart

Next == Loops \/ Branches \/ Functions \/ Tables \/ Ends
Spec == Init /\ [][Next]_vars

-----------------------------------------------------------------------------
(* What the program means, read from its braces.                           *)
Tokens(S) == {i \in DOMAIN src : src[i].tok \in S}
Level(i)  == Cardinality({j \in Tokens(Openers) : j <= i})
             - Cardinality({j \in Tokens({"}"}) : j <= i})

(* The brace that closes the block opened at i, and the last one of an     *)
(* if ... else if ... else.                                                *)
CloserOf(i) == Min({j \in Tokens({"}"}) : j > i /\ Level(j) = Level(i) - 1})
Continued(j) == j < Len(src) /\ src[j + 1].tok \in {"else", "elseif"}
LastCloserOf(i) == Min({j \in Tokens({"}"}) : /\ j > i /\ Level(j) = Level(i) - 1
                                              /\ ~Continued(j)})

(* The blocks around i that are open there; of the same function; the      *)
(* innermost one.                                                          *)
Around(i, S) == {k \in Tokens(S) : k < i /\ \A j \in k + 1 .. i - 1 : Level(j) >= Level(k)}
Innermost(I) == IF I = {} THEN 0 ELSE Max(I)
LoopsAround(i, S) == {k \in Around(i, S) : k > Innermost(Around(i, {"func"}))}

(* The code address behind token i; of function f.                         *)
After(i) == src[i + 1].at
EntryOf(f) == src[CHOOSE i \in Tokens({"func"}) : src[i].fn = f].at + 1

Compiled == result = "ok"
At(i)    == code[src[i].at]

TypeOK ==
  /\ \A p \in DOMAIN code : /\ code[p].op \in Ops
                            /\ code[p].to \in 0 .. Here /\ code[p].n \in Nat
  /\ ToSet(blocks) \subseteq Block
  /\ loop_type \in {"none", "for", "while"} /\ for_depth \in Nat /\ in_func \in BOOLEAN
  /\ break_pos \in Seq(DOMAIN code) /\ Len(break_pos) <= MaxBreaks
  /\ \A i \in DOMAIN forward_decl : forward_decl[i] \in [fn : Funcs, pos : DOMAIN code]
  /\ Len(forward_decl) <= MaxFwDecls
  /\ label \in [Funcs -> Nat]
  /\ err_count \in 0 .. 1
  /\ result \in {"compiling", "ok", "refused"}

(* A break goes behind the innermost loop of its function, and drops the   *)
(* two values of that loop if it is a for loop; breaks of inner loops, of  *)
(* functions and of dispatches inside the loop do not get in the way.      *)
BreaksLeave ==
  Compiled => \A i \in Tokens({"break"}) :
    LET k == Innermost(LoopsAround(i, {"for", "while"})) IN
    At(i) = Ins(IF src[k].tok = "for" THEN "BREAK_FOR" ELSE "GOTO", After(CloserOf(k)))

(* A loop: its end jumps back to the top, its condition behind the end.    *)
LoopMeant(i) ==
  LET head == IF src[i].tok = "for" THEN "FOR_CHECK" ELSE "IF"
      top  == IF src[i].tok = "for" THEN src[i].at + 2 ELSE src[i].at
      back == IF src[i].tok = "for" THEN "NEXT" ELSE "GOTO"
  IN /\ code[src[i].at + 1] = Ins(head, After(CloserOf(i)))
     /\ At(CloserOf(i)) = Ins(back, top)

IfMeant(i) ==
  At(i) = Ins("IF", After(CloserOf(i)) + (IF Continued(CloserOf(i)) THEN 1 ELSE 0))

(* The jump over the other branches comes first; else-if has a condition   *)
(* behind it.                                                              *)
ElseMeant(i) ==
  /\ At(i) = Ins("GOTO", After(LastCloserOf(i)))
  /\ src[i].tok = "elseif" =>
       code[src[i].at + 1] =
         Ins("IF", After(CloserOf(i)) + (IF Continued(CloserOf(i)) THEN 1 ELSE 0))

FuncMeant(i) ==
  /\ At(i) = Ins("GOTO", After(CloserOf(i)))
  /\ code[src[i].at + 1].op = "ENTER" /\ At(CloserOf(i)).op = "LEAVE"

(* A case value leads to its body, any other value below the count behind  *)
(* the dispatch, and so does the end of each body.                         *)
CasesOf(i) == {k \in Tokens({"case"}) : k > i /\ k < CloserOf(i) /\ Level(k) = Level(i) + 1}
BodyOf(i, v) == LET K == {k \in CasesOf(i) : src[k].val = v} IN
                IF K = {} THEN After(CloserOf(i)) ELSE src[Max(K)].at
DispatchMeant(i) ==
  /\ \A k \in CasesOf(i) : At(CloserOf(k)) = Ins("GOTO", After(CloserOf(i)))
  /\ At(i).n = Max({src[k].val + 1 : k \in CasesOf(i)})
  /\ \A v \in 0 .. At(i).n - 1 : code[At(i).to + v] = Ins("ADDR", BodyOf(i, v))

(* Each loop, branch, function and case of a dispatch is entered, repeated *)
(* and left where its braces say, gaps between the case values included.   *)
BlocksMeant ==
  Compiled =>
    /\ \A i \in Tokens({"for", "while"}) : LoopMeant(i)
    /\ \A i \in Tokens({"if"}) : IfMeant(i)
    /\ \A i \in Tokens({"else", "elseif"}) : ElseMeant(i)
    /\ \A i \in Tokens({"func"}) : FuncMeant(i)
    /\ \A i \in Tokens({"dispatch"}) : DispatchMeant(i)

(* Every call and every dispatch entry leads to the function of that name, *)
(* wherever it is defined: no call is lost when the list is full, and none *)
(* is left unpatched.                                                      *)
CallsArrive ==
  Compiled => /\ \A i \in Tokens({"call"}) : At(i) = Ins("GOSUB", EntryOf(src[i].fn))
              /\ \A i \in Tokens({"entry"}) : At(i) = Ins("ADDR", EntryOf(src[i].fn))

(* A return takes the loops of its function with it, all of them and no    *)
(* others: those that are open where it stands.                            *)
ReturnsUnwind ==
  Compiled => \A i \in Tokens({"return"}) :
    LET n == Cardinality(LoopsAround(i, {"for"})) IN
    /\ n > 0 => At(i) = InsN("FOR_LEAVE", 0, n)
    /\ code[src[i].at + (IF n > 0 THEN 1 ELSE 0)].op = "LEAVE"

(* The breaks of the loops that are open at i; the calls that the compiler *)
(* has to remember.                                                        *)
WaitingBreaks(i) == {k \in Tokens({"break"}) :
  /\ k < i
  /\ Innermost(LoopsAround(k, {"for", "while"})) \in Around(i, {"for", "while"})}
Forward == Tokens({"entry"}) \cup
  {k \in Tokens({"call"}) : \A j \in Tokens({"func"}) : src[j].fn = src[k].fn => j > k}

(* The program is refused for a reason that can be seen in it.  (After the *)
(* end of a function inside a function the compiler believes to be outside.)*)
Cause(i) ==
  CASE src[i].tok = "break"  -> \/ LoopsAround(i, {"for", "while"}) = {}
                                \/ Cardinality(WaitingBreaks(i)) >= MaxBreaks
    [] src[i].tok = "return" -> LET k == Innermost(Around(i, {"func"})) IN
                                k = 0 \/ \E j \in Tokens({"func"}) :
                                            k < j /\ j \notin Around(i, {"func"})
    [] src[i].tok = "func"   -> \E k \in Tokens({"func"}) : k < i /\ src[k].fn = src[i].fn
    [] src[i].tok \in {"call", "entry"} ->
         Cardinality({k \in Forward : k < i}) >= MaxFwDecls
    [] src[i].tok = "case" -> \/ src[i].val >= MaxCases
                              \/ \E k \in Tokens({"case"}) : k < i /\ src[k].val = src[i].val
    [] src[i].tok = "eof" -> \/ Around(i, Openers) # {}
                             \/ \E k \in Forward : \A j \in Tokens({"func"}) :
                                                    src[j].fn # src[k].fn
    [] src[i].tok = "bad" -> TRUE
    [] OTHER -> FALSE
RefusedForCause == err_count > 0 => Cause(Len(src))

(* An else that follows the end of an if, on the same line or not, is its  *)
(* other branch: "if (expr) { stmts } [else { stmts }]" (nc_compiler.c:804).*)
ElseBelongs ==
  Compiled => \A i \in Tokens({"lost else"}), k \in Tokens({"if"}) :
                CloserOf(k) # i - 1
=============================================================================
