---------------------------- MODULE CodeGenProofs ---------------------------
(***************************************************************************)
(* What is proved of the code generator, for programs of every length,     *)
(* every set of functions and lists of every size: the code and the lists  *)
(* of the compiler are well formed at every moment, what is patched at the *)
(* end of a block is a jump, and every call of a compiled program leads to *)
(* the function of its name.                                               *)
(***************************************************************************)
EXTENDS CodeGen, SequenceTheorems, WellFoundedInduction, TLAPS

-----------------------------------------------------------------------------
(* The inductive invariant.  It is made of operators of the code and the   *)
(* lists, so that a lemma can speak of them before and after a step.       *)
Instr == [op : Ops, to : Nat, n : Nat]
Words == Openers \cup {"}", "break", "return", "call", "entry", "bad", "eof",
                       "lost else", "lost brace"}
Token == [tok : Words, fn : Funcs \cup {"none"}, at : Nat, val : Nat]
Note  == [fn : Funcs, pos : Nat]

(* Instructions that lead to m at most.                                    *)
IsCode(c, m) ==
  /\ c \in Seq(Instr) /\ Len(c) > 0
  /\ \A p \in 1 .. Len(c) : c[p].to <= m
Whole(c) == IsCode(c, Len(c) + 1)
Leads(t, m)     == \A i \in 1 .. Len(t) : t[i].to <= m
Longer(c, t, d) == d = c \o t
Added(c, a, d)  == d = Append(c, a)
Rewritten(c, p, i, d) == d = [c EXCEPT ![p] = i]

(* The instructions that are patched at the end of their block.  From one  *)
(* code to the next they stay where they are; the other cells, with the    *)
(* calls and the entries of tables among them, are not touched.            *)
Jumps == {"FOR_CHECK", "IF", "GOTO", "BREAK_FOR", "DISPATCH", "DISPATCH_JMP"}
JumpAt(c, p) == p \in 1 .. Len(c) /\ c[p].op \in Jumps
JumpsKept(c, d) ==
  /\ Len(c) <= Len(d)
  /\ \A p \in 1 .. Len(c) : c[p].op \in Jumps => d[p].op \in Jumps
CellsKept(c, d) ==
  \A p \in 1 .. Len(c) : c[p].op \notin Jumps => d[p] = c[p]

(* A block knows its jumps and the list of breaks, which has m entries.    *)
HasCase(b) == \E v \in 0 .. MaxCases - 1 : b.case_addrs[v] # 0
BlockIn(c, m, b) ==
  /\ b.kind # "case" => JumpAt(c, b.pos)
  /\ b.top <= Len(c) + 1 /\ b.first_break <= m
  /\ \A p \in b.ends \cup b.gotos : JumpAt(c, p)
  /\ \A v \in 0 .. MaxCases - 1 : b.case_addrs[v] <= Len(c) + 1
  /\ b.gotos # {} => HasCase(b)

(* The depth of the for loops in a block, and what a block inside of       *)
(* others has saved of them.                                               *)
DepthIn(b) == CASE b.kind = "for"  -> b.outer_depth + 1
                [] b.kind = "func" -> 0
                [] OTHER           -> b.outer_depth
Fits(bs, b) ==
  /\ \A i \in 1 .. Len(bs) : bs[i].first_break <= b.first_break
  /\ bs # <<>> => b.outer_depth = DepthIn(Last(bs))
  /\ b.kind = "case" => bs # <<>> /\ HasCase(Last(bs))
Nested(bs) == \A k \in 1 .. Len(bs) : Fits(SubSeq(bs, 1, k - 1), bs[k])

AllIn(c, m, bs) ==
  /\ bs \in Seq(Block) /\ Nested(bs)
  /\ \A k \in 1 .. Len(bs) : BlockIn(c, m, bs[k])

(* The calls of a program: each has its label, or is noted and waits.      *)
Pending(fd, p) == \E k \in 1 .. Len(fd) : fd[k].pos = p
CallIn(c, fd, lab, t, op) ==
  /\ t.fn \in Funcs /\ t.at \in 1 .. Len(c)
  /\ c[t.at].op = op /\ c[t.at].n = 0
  /\ (lab[t.fn] # 0 /\ c[t.at].to = lab[t.fn]) \/ Pending(fd, t.at)
  /\ \A k \in 1 .. Len(fd) : fd[k].pos = t.at => fd[k].fn = t.fn
TokensIn(c, fd, lab, s) ==
  \A i \in 1 .. Len(s) :
    /\ s[i].tok = "call"  => CallIn(c, fd, lab, s[i], "GOSUB")
    /\ s[i].tok = "entry" => CallIn(c, fd, lab, s[i], "ADDR")
    /\ s[i].tok = "func"  => s[i].fn \in Funcs /\ lab[s[i].fn] = s[i].at + 1
Defined(s, f) == \E i \in 1 .. Len(s) : s[i].tok = "func" /\ s[i].fn = f
CallsIn(c, fd, lab, s) ==
  /\ TokensIn(c, fd, lab, s)
  /\ \A f \in Funcs : lab[f] # 0 => Defined(s, f)

EntryIn(s, f) ==
  s[CHOOSE i \in {j \in DOMAIN s : s[j].tok \in {"func"}} : s[i].fn = f].at + 1

(* Notes and labels are added, at the position p and for the tokens ts.    *)
NotesKept(fd, fe, p) ==
  /\ fd \in Seq(Note) /\ fe \in Seq(Note) /\ Len(fd) <= Len(fe)
  /\ \A i \in 1 .. Len(fd) : fe[i] = fd[i]
  /\ \A i \in 1 .. Len(fe) : i \in 1 .. Len(fd) \/ fe[i].pos = p
LabelsKept(lab, nlab, ts) ==
  /\ \A f \in Funcs : lab[f] # 0 => nlab[f] = lab[f]
  /\ \A f \in Funcs : nlab[f] # 0 => lab[f] # 0 \/ Defined(ts, f)

Typed ==
  /\ Whole(code)
  /\ loop_type \in {"none", "for", "while"} /\ for_depth \in Nat /\ in_func \in BOOLEAN
  /\ break_pos \in Seq(1 .. Len(code)) /\ Len(break_pos) <= MaxBreaks
  /\ forward_decl \in Seq(Note) /\ Len(forward_decl) <= MaxFwDecls
  /\ \A i \in 1 .. Len(forward_decl) : forward_decl[i].pos \in 1 .. Len(code)
  /\ label \in [Funcs -> 0 .. Here]
  /\ err_count \in 0 .. 1 /\ result \in {"compiling", "ok", "refused"}
  /\ src \in Seq(Token)

Structure ==
  /\ AllIn(code, Len(break_pos), blocks)
  /\ \A i \in 1 .. Len(break_pos) : JumpAt(code, break_pos[i])
  /\ blocks # <<>> => for_depth = DepthIn(Last(blocks))

Going  == result = "compiling" /\ err_count = 0
Calls  == Going => CallsIn(code, forward_decl, label, src)
GenInv == Typed /\ Structure /\ Calls /\ CallsArrive

-----------------------------------------------------------------------------
(* Sequences, and the greatest number of a set.                            *)
LEMMA LastOfAppend ==
  ASSUME NEW S, NEW s \in Seq(S), NEW e \in S
  PROVE  /\ Append(s, e) \in Seq(S) /\ Len(Append(s, e)) = Len(s) + 1
         /\ \A i \in 1 .. Len(s) : Append(s, e)[i] = s[i]
         /\ Append(s, e)[Len(s) + 1] = e
  BY AppendProperties

LEMMA Prefix ==
  ASSUME NEW S, NEW s \in Seq(S), NEW m \in 0 .. Len(s)
  PROVE  /\ SubSeq(s, 1, m) \in Seq(S) /\ Len(SubSeq(s, 1, m)) = m
         /\ \A i \in 1 .. m : SubSeq(s, 1, m)[i] = s[i]
<1>1. \A i \in 1 .. m : i \in 1 .. Len(s) /\ s[i] \in S
  BY LenProperties, ElementOfSeq
<1>2. SubSeq(s, 1, m) \in Seq(S) BY <1>1, SubSeqProperties
<1>3. Len(SubSeq(s, 1, m)) = m BY <1>1, SubSeqProperties
<1>4. \A i \in 1 .. m : SubSeq(s, 1, m)[i] = s[i] BY <1>1, SubSeqProperties
<1> QED BY <1>2, <1>3, <1>4

LEMMA FrontOf ==
  ASSUME NEW S, NEW s \in Seq(S), s # <<>>
  PROVE  /\ Front(s) = SubSeq(s, 1, Len(s) - 1) /\ Front(s) \in Seq(S)
         /\ Len(s) \in Nat \ {0} /\ Len(Front(s)) = Len(s) - 1
         /\ \A i \in 1 .. Len(s) - 1 : Front(s)[i] = s[i]
         /\ Last(s) = s[Len(s)] /\ Last(s) \in S
<1>1. Len(s) \in Nat \ {0} BY EmptySeq
<1>2. Len(s) - 1 \in 0 .. Len(s) /\ Len(s) \in 1 .. Len(s) BY <1>1
<1>3. Front(s) = SubSeq(s, 1, Len(s) - 1) /\ Last(s) = s[Len(s)] BY DEF Front, Last
<1>4. s[Len(s)] \in S BY <1>2, ElementOfSeq
<1>5. PICK m : m = Len(s) - 1 OBVIOUS
<1>6. /\ SubSeq(s, 1, m) \in Seq(S) /\ Len(SubSeq(s, 1, m)) = m
      /\ \A i \in 1 .. m : SubSeq(s, 1, m)[i] = s[i]
  BY <1>2, <1>5, Prefix
<1> QED BY <1>1, <1>3, <1>4, <1>5, <1>6

LEMMA SamePrefix ==
  ASSUME NEW S, NEW s \in Seq(S), NEW m \in 0 .. Len(s), NEW k \in 0 .. m
  PROVE  SubSeq(SubSeq(s, 1, m), 1, k) = SubSeq(s, 1, k)
<1>1. PICK t : t = SubSeq(s, 1, m) OBVIOUS
<1>2. t \in Seq(S) /\ Len(t) = m /\ \A i \in 1 .. m : t[i] = s[i] BY <1>1, Prefix
<1>3. k \in 0 .. Len(t) /\ k \in 0 .. Len(s) BY <1>2, LenProperties
<1>4. /\ SubSeq(t, 1, k) \in Seq(S) /\ Len(SubSeq(t, 1, k)) = k
      /\ \A i \in 1 .. k : SubSeq(t, 1, k)[i] = t[i]
  BY <1>2, <1>3, Prefix
<1>5. /\ SubSeq(s, 1, k) \in Seq(S) /\ Len(SubSeq(s, 1, k)) = k
      /\ \A i \in 1 .. k : SubSeq(s, 1, k)[i] = s[i]
  BY <1>3, Prefix
<1>6. \A i \in 1 .. k : i \in 1 .. m /\ SubSeq(t, 1, k)[i] = SubSeq(s, 1, k)[i]
  BY <1>2, <1>4, <1>5
<1>7. SubSeq(t, 1, k) = SubSeq(s, 1, k) BY <1>4, <1>5, <1>6, SeqEqual
<1> QED BY <1>1, <1>7

LEMMA PrefixOfAppend ==
  ASSUME NEW S, NEW s \in Seq(S), NEW e \in S, NEW k \in 0 .. Len(s)
  PROVE  SubSeq(Append(s, e), 1, k) = SubSeq(s, 1, k)
<1>1. PICK t : t = Append(s, e) OBVIOUS
<1>2. t \in Seq(S) /\ Len(t) = Len(s) + 1 /\ \A i \in 1 .. Len(s) : t[i] = s[i]
  BY <1>1, LastOfAppend
<1>3. Len(s) \in Nat /\ k \in 0 .. Len(t) BY <1>2, LenProperties
<1>4. /\ SubSeq(t, 1, k) \in Seq(S) /\ Len(SubSeq(t, 1, k)) = k
      /\ \A i \in 1 .. k : SubSeq(t, 1, k)[i] = t[i]
  BY <1>2, <1>3, Prefix
<1>5. /\ SubSeq(s, 1, k) \in Seq(S) /\ Len(SubSeq(s, 1, k)) = k
      /\ \A i \in 1 .. k : SubSeq(s, 1, k)[i] = s[i]
  BY Prefix
<1>6. \A i \in 1 .. k : i \in 1 .. Len(s) /\ SubSeq(t, 1, k)[i] = SubSeq(s, 1, k)[i]
  BY <1>2, <1>3, <1>4, <1>5
<1>7. SubSeq(t, 1, k) = SubSeq(s, 1, k) BY <1>4, <1>5, <1>6, SeqEqual
<1> QED BY <1>1, <1>7

LEMMA Least ==
  ASSUME NEW T, T \subseteq Nat, T # {}
  PROVE  \E x \in T : \A y \in T : x <= y
<1>1. PICK x \in T : \A y \in T : ~(<<y, x>> \in OpToRel(<, Nat))
  BY NatLessThanWellFounded, WFMin
<1>2. \A y \in T : ~(y < x)
  BY <1>1 DEF OpToRel
<1> QED BY <1>2

LEMMA Greatest ==
  ASSUME NEW m \in Nat, NEW T, T \subseteq 0 .. m, T # {}
  PROVE  Max(T) \in T
<1> DEFINE U == {m - y : y \in T}
<1>1. U \subseteq Nat
  <2>1. \A y \in T : m - y \in Nat OBVIOUS
  <2> QED BY <2>1
<1>2. U # {} OBVIOUS
<1>3. PICK k \in U : \A z \in U : k <= z BY <1>1, <1>2, Least
<1>4. PICK x \in T : k = m - x BY <1>3
<1>5. \A y \in T : x >= y
  <2> TAKE y \in T
  <2>1. y \in Int /\ x \in Int OBVIOUS
  <2>2. m - x <= m - y BY <1>3, <1>4
  <2> QED BY <2>1, <2>2
<1> QED BY <1>5 DEF Max

-----------------------------------------------------------------------------
(* What the instructions that a step writes have in common.                *)
LEMMA LongerCode ==
  ASSUME NEW m \in Nat, NEW c, IsCode(c, m), NEW k \in Nat,
         NEW t \in Seq(Instr), Leads(t, k), m <= k,
         NEW d, Longer(c, t, d)
  PROVE  /\ IsCode(d, k) /\ Len(d) = Len(c) + Len(t)
         /\ JumpsKept(c, d) /\ CellsKept(c, d)
         /\ \A i \in 1 .. Len(t) : d[Len(c) + i] = t[i]
<1>1. d = c \o t BY DEF Longer
<1>2. PICK l : l = Len(c) OBVIOUS
<1>3. PICK e : e = Len(t) OBVIOUS
<1>4. c \in Seq(Instr) /\ l \in Nat /\ e \in Nat /\ l > 0
  BY <1>2, <1>3, LenProperties DEF IsCode
<1>5. d \in Seq(Instr) /\ Len(d) = l + e
  BY <1>1, <1>2, <1>3, <1>4, ConcatProperties
<1>6. \A i \in 1 .. l + e : d[i] = IF i <= l THEN c[i] ELSE t[i - l]
  BY <1>1, <1>2, <1>3, <1>4, ConcatProperties
<1>7. \A i \in 1 .. l : i \in 1 .. l + e /\ d[i] = c[i] /\ c[i].to <= m /\ c[i] \in Instr
  BY <1>2, <1>4, <1>6, ElementOfSeq DEF IsCode
<1>8. \A i \in 1 .. e : d[l + i] = t[i] /\ t[i].to <= k /\ t[i] \in Instr
  <2> TAKE i \in 1 .. e
  <2>1. l + i \in 1 .. l + e /\ ~(l + i <= l) /\ (l + i) - l = i BY <1>4
  <2> QED BY <1>3, <1>6, <2>1, ElementOfSeq DEF Leads
<1>9. \A i \in 1 .. l + e : d[i].to <= k
  <2> TAKE i \in 1 .. l + e
  <2>1. CASE i \in 1 .. l
    <3>1. c[i].to \in Nat /\ c[i].to <= m BY <1>7, <2>1 DEF Instr
    <3> QED BY ONLY <1>7, <2>1, <3>1, m \in Nat, k \in Nat, m <= k
  <2>2. CASE i \notin 1 .. l
    <3>1. i - l \in 1 .. e /\ l + (i - l) = i BY ONLY <1>4, <2>2
    <3> QED BY <3>1, <1>8
  <2> QED BY <2>1, <2>2
<1>10. IsCode(d, k) BY ONLY <1>4, <1>5, <1>9 DEF IsCode
<1>11. JumpsKept(c, d) BY ONLY <1>2, <1>4, <1>5, <1>7 DEF JumpsKept
<1>12. CellsKept(c, d) BY ONLY <1>2, <1>7 DEF CellsKept
<1> QED BY <1>1, <1>2, <1>3, <1>5, <1>8, <1>10, <1>11, <1>12

LEMMA PatchedCode ==
  ASSUME NEW m \in Nat, NEW c, IsCode(c, m), NEW to \in 0 .. m,
         NEW P, \A p \in P : JumpAt(c, p)
  PROVE  /\ IsCode(Patched(c, P, to), m) /\ Len(Patched(c, P, to)) = Len(c)
         /\ JumpsKept(c, Patched(c, P, to)) /\ CellsKept(c, Patched(c, P, to))
<1>1. PICK d : d = Patched(c, P, to) OBVIOUS
<1>2. PICK l : l = Len(c) OBVIOUS
<1>3. c \in Seq(Instr) /\ l \in Nat /\ l > 0 /\ DOMAIN c = 1 .. l
  BY <1>2, LenProperties DEF IsCode
<1>4. \A p \in 1 .. l : c[p] \in Instr /\ c[p].to <= m
  BY <1>2, <1>3, ElementOfSeq DEF IsCode
<1>5. d = [p \in 1 .. l |-> IF p \in P THEN [c[p] EXCEPT !.to = to] ELSE c[p]]
  BY <1>1, <1>3 DEF Patched
<1>6. \A p \in 1 .. l : /\ d[p] \in Instr /\ d[p].to <= m /\ d[p].op = c[p].op
                        /\ p \notin P => d[p] = c[p]
  <2> TAKE p \in 1 .. l
  <2>1. CASE p \notin P BY <1>4, <1>5, <2>1
  <2>2. CASE p \in P
    <3>1. d[p] = [c[p] EXCEPT !.to = to] BY <1>5, <2>2
    <3>2. c[p] \in Instr /\ to \in Nat /\ to <= m BY <1>4
    <3> QED BY <3>1, <3>2, <2>2 DEF Instr
  <2> QED BY <2>1, <2>2
<1>7. d \in Seq(Instr) /\ Len(d) = l
  <2>1. d \in [1 .. l -> Instr] BY <1>5, <1>6
  <2> QED BY ONLY <1>3, <2>1
<1>8. IsCode(d, m) BY <1>3, <1>6, <1>7 DEF IsCode
<1>9. JumpsKept(c, d) BY <1>2, <1>3, <1>6, <1>7 DEF JumpsKept
<1>10. CellsKept(c, d)
  <2>1. \A p \in 1 .. l : p \in P => c[p].op \in Jumps BY DEF JumpAt
  <2> QED BY <1>2, <1>6, <2>1 DEF CellsKept
<1> QED BY <1>1, <1>2, <1>7, <1>8, <1>9, <1>10

(* A jump that is written once more.                                       *)
LEMMA RewrittenCode ==
  ASSUME NEW m \in Nat, NEW c, IsCode(c, m), NEW p, JumpAt(c, p),
         NEW i \in Instr, i.op \in Jumps, i.to <= m, NEW d, Rewritten(c, p, i, d)
  PROVE  /\ IsCode(d, m) /\ Len(d) = Len(c)
         /\ JumpsKept(c, d) /\ CellsKept(c, d)
<1>1. d = [c EXCEPT ![p] = i] BY DEF Rewritten
<1>2. PICK l : l = Len(c) OBVIOUS
<1>3. c \in Seq(Instr) /\ l \in Nat /\ l > 0 /\ p \in 1 .. Len(c)
  BY <1>2, LenProperties DEF IsCode, JumpAt
<1>4. \A q \in 1 .. l : c[q] \in Instr /\ c[q].to <= m
  BY <1>2, <1>3, ElementOfSeq DEF IsCode
<1>5. d \in Seq(Instr) /\ Len(d) = l /\ \A q \in 1 .. l : d[q] = IF q = p THEN i ELSE c[q]
  BY <1>1, <1>2, <1>3, ExceptSeq
<1>6. IsCode(d, m)
  <2>1. \A q \in 1 .. l : d[q].to <= m BY <1>4, <1>5
  <2> QED BY ONLY <1>3, <1>5, <2>1 DEF IsCode
<1>7. JumpsKept(c, d)
  <2>1. \A q \in 1 .. l : c[q].op \in Jumps => d[q].op \in Jumps BY <1>5
  <2> QED BY ONLY <1>2, <1>3, <1>5, <2>1 DEF JumpsKept
<1>8. CellsKept(c, d)
  <2>1. c[p].op \in Jumps BY DEF JumpAt
  <2>2. \A q \in 1 .. l : c[q].op \notin Jumps => d[q] = c[q] BY <1>5, <2>1
  <2> QED BY ONLY <1>2, <2>2 DEF CellsKept
<1> QED BY <1>1, <1>2, <1>5, <1>6, <1>7, <1>8

LEMMA ThenKept ==
  ASSUME NEW c \in Seq(Instr), NEW d \in Seq(Instr), NEW e \in Seq(Instr),
         JumpsKept(c, d), CellsKept(c, d), JumpsKept(d, e), CellsKept(d, e)
  PROVE  JumpsKept(c, e) /\ CellsKept(c, e)
<1>1. Len(c) \in Nat /\ Len(d) \in Nat /\ Len(e) \in Nat BY LenProperties
<1>2. Len(c) <= Len(d) /\ Len(d) <= Len(e) BY DEF JumpsKept
<1>3. \A p \in 1 .. Len(c) : p \in 1 .. Len(d) BY ONLY <1>1, <1>2
<1>4. Len(c) <= Len(e) BY ONLY <1>1, <1>2
<1> QED BY <1>3, <1>4 DEF JumpsKept, CellsKept

LEMMA JumpStays ==
  ASSUME NEW c, Whole(c), NEW d, Whole(d),
         JumpsKept(c, d), NEW p, JumpAt(c, p)
  PROVE  JumpAt(d, p)
<1>1. Len(c) \in Nat /\ Len(d) \in Nat BY LenProperties DEF Whole, IsCode
<1>2. Len(c) <= Len(d) /\ p \in 1 .. Len(c) /\ d[p].op \in Jumps BY DEF JumpsKept, JumpAt
<1>3. p \in 1 .. Len(d) BY ONLY <1>1, <1>2
<1> QED BY <1>2, <1>3 DEF JumpAt

-----------------------------------------------------------------------------
(* Blocks: what is known of them survives a step, and the end of a block   *)
(* finds the outer ones as they were.                                      *)
LEMMA BlockStays ==
  ASSUME NEW c, Whole(c), NEW d, Whole(d),
         JumpsKept(c, d), NEW i \in Nat, NEW j \in Nat, i <= j,
         NEW b \in Block, BlockIn(c, i, b)
  PROVE  BlockIn(d, j, b)
<1>1. \A p : JumpAt(c, p) => JumpAt(d, p) BY JumpStays
<1>2. Len(c) \in Nat /\ Len(d) \in Nat /\ Len(c) <= Len(d)
  BY LenProperties DEF Whole, IsCode, JumpsKept
<1>3. b.top <= Len(d) + 1 /\ b.first_break <= j
  <2>1. b.top \in Nat /\ b.first_break \in Nat BY DEF Block
  <2>2. b.top <= Len(c) + 1 /\ b.first_break <= i BY DEF BlockIn
  <2> QED BY ONLY <1>2, <2>1, <2>2, i \in Nat, j \in Nat, i <= j
<1>4. \A v \in 0 .. MaxCases - 1 : b.case_addrs[v] <= Len(d) + 1
  <2> TAKE v \in 0 .. MaxCases - 1
  <2>1. b.case_addrs[v] \in Nat BY DEF Block
  <2>2. b.case_addrs[v] <= Len(c) + 1 BY DEF BlockIn
  <2> QED BY ONLY <1>2, <2>1, <2>2
<1> QED BY <1>1, <1>3, <1>4 DEF BlockIn

LEMMA BlocksStay ==
  ASSUME NEW c, Whole(c), NEW d, Whole(d),
         JumpsKept(c, d), NEW i \in Nat, NEW j \in Nat, i <= j,
         NEW bs, AllIn(c, i, bs)
  PROVE  AllIn(d, j, bs)
<1>1. bs \in Seq(Block) /\ Nested(bs) BY DEF AllIn
<1>2. ASSUME NEW n \in 1 .. Len(bs) PROVE BlockIn(d, j, bs[n])
  <2>1. bs[n] \in Block /\ BlockIn(c, i, bs[n]) BY <1>1, ElementOfSeq DEF AllIn
  <2> QED BY <2>1, BlockStays
<1> QED BY <1>1, <1>2 DEF AllIn

LEMMA Opens ==
  ASSUME NEW c, NEW m, NEW bs, AllIn(c, m, bs),
         NEW b \in Block, BlockIn(c, m, b), Fits(bs, b)
  PROVE  AllIn(c, m, Append(bs, b)) /\ Last(Append(bs, b)) = b
<1>1. PICK l : l = Len(bs) OBVIOUS
<1>2. PICK cs : cs = Append(bs, b) OBVIOUS
<1>3. bs \in Seq(Block) /\ l \in Nat BY <1>1, LenProperties DEF AllIn
<1>4. /\ cs \in Seq(Block) /\ Len(cs) = l + 1 /\ cs[l + 1] = b
      /\ \A i \in 1 .. l : cs[i] = bs[i]
  BY <1>1, <1>2, <1>3, LastOfAppend
<1>5. \A n \in 0 .. l : SubSeq(cs, 1, n) = SubSeq(bs, 1, n)
  BY <1>1, <1>2, <1>3, PrefixOfAppend
<1>6. SubSeq(bs, 1, l) = bs
  <2>1. l \in 0 .. Len(bs) BY <1>1, <1>3
  <2>2. /\ SubSeq(bs, 1, l) \in Seq(Block) /\ Len(SubSeq(bs, 1, l)) = l
        /\ \A i \in 1 .. l : SubSeq(bs, 1, l)[i] = bs[i]
    BY <1>3, <2>1, Prefix
  <2> QED BY <1>1, <1>3, <2>2, SeqEqual
<1>7. \A n \in 1 .. l + 1 : (n \in 1 .. l /\ n - 1 \in 0 .. l) \/ (n = l + 1 /\ n - 1 = l /\ l \in 0 .. l)
  BY ONLY <1>3
<1>8. Nested(cs)
  <2>1. ASSUME NEW n \in 1 .. l + 1 PROVE Fits(SubSeq(cs, 1, n - 1), cs[n])
    <3>1. CASE n \in 1 .. l /\ n - 1 \in 0 .. l
      <4>1. Fits(SubSeq(bs, 1, n - 1), bs[n]) BY <1>1, <3>1 DEF AllIn, Nested
      <4> QED BY <1>4, <1>5, <3>1, <4>1
    <3>2. CASE n = l + 1 /\ n - 1 = l /\ l \in 0 .. l
      <4>1. SubSeq(cs, 1, n - 1) = bs BY <1>5, <1>6, <3>2
      <4> QED BY <1>4, <3>2, <4>1
    <3> QED BY <1>7, <3>1, <3>2
  <2> QED BY <1>4, <2>1 DEF Nested
<1>9. \A n \in 1 .. l + 1 : BlockIn(c, m, cs[n])
  BY <1>1, <1>4, <1>7 DEF AllIn
<1>10. AllIn(c, m, cs) BY ONLY <1>4, <1>8, <1>9 DEF AllIn
<1>11. Last(cs) = b BY <1>4 DEF Last
<1> QED BY <1>2, <1>10, <1>11

LEMMA Closes ==
  ASSUME NEW c, NEW m, NEW bs, AllIn(c, m, bs), bs # <<>>
  PROVE  /\ AllIn(c, m, Front(bs)) /\ Fits(Front(bs), Last(bs))
         /\ Last(bs) \in Block /\ BlockIn(c, m, Last(bs))
<1>1. PICK l : l = Len(bs) OBVIOUS
<1>2. PICK os : os = Front(bs) OBVIOUS
<1>3. bs \in Seq(Block) /\ bs # <<>> BY DEF AllIn
<1>4. /\ os = SubSeq(bs, 1, l - 1) /\ os \in Seq(Block)
      /\ l \in Nat \ {0} /\ Len(os) = l - 1
      /\ \A i \in 1 .. l - 1 : os[i] = bs[i]
      /\ Last(bs) = bs[l] /\ Last(bs) \in Block
  BY <1>1, <1>2, <1>3, FrontOf
<1>5. l \in 1 .. l /\ \A i \in 1 .. l - 1 : i \in 1 .. l BY ONLY <1>4
<1>6. Fits(os, bs[l]) /\ BlockIn(c, m, bs[l]) BY <1>1, <1>4, <1>5 DEF AllIn, Nested
<1>7. Nested(os)
  <2>1. ASSUME NEW n \in 1 .. l - 1 PROVE Fits(SubSeq(os, 1, n - 1), os[n])
    <3>1. Fits(SubSeq(bs, 1, n - 1), bs[n]) BY <1>1, <1>5 DEF AllIn, Nested
    <3>2. l - 1 \in 0 .. l /\ n - 1 \in 0 .. l - 1 BY ONLY <1>4
    <3>3. SubSeq(os, 1, n - 1) = SubSeq(bs, 1, n - 1)
      BY <1>1, <1>3, <1>4, <3>2, SamePrefix
    <3> QED BY <1>4, <3>1, <3>3
  <2> QED BY <1>4, <2>1 DEF Nested
<1>8. \A n \in 1 .. l - 1 : BlockIn(c, m, os[n]) BY <1>1, <1>4, <1>5 DEF AllIn
<1>9. AllIn(c, m, os) BY <1>4, <1>7, <1>8 DEF AllIn
<1> QED BY <1>2, <1>4, <1>6, <1>9

(* A loop leaves the breaks of the outer loops.                            *)
LEMMA Shortens ==
  ASSUME NEW c, NEW m, NEW bs, AllIn(c, m, bs), NEW k \in Nat,
         \A i \in 1 .. Len(bs) : bs[i].first_break <= k
  PROVE  AllIn(c, k, bs)
  BY DEF AllIn, BlockIn

-----------------------------------------------------------------------------
(* The calls of a program, when it and the lists become longer.            *)
LEMMA CallStays ==
  ASSUME NEW c, Whole(c), NEW d, Whole(d),
         JumpsKept(c, d), CellsKept(c, d),
         NEW fd, NEW fe, NotesKept(fd, fe, Len(c) + 1),
         NEW lab, NEW nlab, NEW ts, LabelsKept(lab, nlab, ts),
         NEW op, op \notin Jumps, NEW t, CallIn(c, fd, lab, t, op)
  PROVE  CallIn(d, fe, nlab, t, op)
<1>1. /\ Len(c) \in Nat /\ Len(d) \in Nat /\ Len(c) <= Len(d)
      /\ Len(fd) \in Nat /\ Len(fe) \in Nat
  BY LenProperties DEF Whole, IsCode, JumpsKept, NotesKept
<1>2. t.fn \in Funcs /\ t.at \in 1 .. Len(c) /\ c[t.at].op = op /\ c[t.at].n = 0
  BY DEF CallIn
<1>3. d[t.at] = c[t.at] BY <1>2 DEF CellsKept
<1>4. t.at \in 1 .. Len(d) /\ t.at # Len(c) + 1 BY ONLY <1>1, <1>2
<1>5. \A i \in 1 .. Len(fd) : i \in 1 .. Len(fe) /\ fe[i] = fd[i]
  <2>1. Len(fd) <= Len(fe) BY DEF NotesKept
  <2>2. \A i \in 1 .. Len(fd) : i \in 1 .. Len(fe) BY ONLY <1>1, <2>1
  <2> QED BY <2>2 DEF NotesKept
<1>6. Pending(fd, t.at) => Pending(fe, t.at) BY <1>5 DEF Pending
<1>7. (nlab[t.fn] # 0 /\ d[t.at].to = nlab[t.fn]) \/ Pending(fe, t.at)
  <2>1. CASE lab[t.fn] # 0 /\ c[t.at].to = lab[t.fn]
    BY <1>2, <1>3, <2>1 DEF LabelsKept
  <2>2. CASE Pending(fd, t.at) BY <1>6, <2>2
  <2> QED BY <2>1, <2>2 DEF CallIn
<1>8. ASSUME NEW i \in 1 .. Len(fe), fe[i].pos = t.at PROVE fe[i].fn = t.fn
  <2>1. i \in 1 .. Len(fd) /\ fe[i] = fd[i] BY <1>4, <1>8 DEF NotesKept
  <2> QED BY <2>1, <1>8 DEF CallIn
<1> QED BY ONLY <1>2, <1>3, <1>4, <1>7, <1>8 DEF CallIn

LEMMA CallsStay ==
  ASSUME NEW c, Whole(c), NEW d, Whole(d),
         JumpsKept(c, d), CellsKept(c, d),
         NEW fd, NEW fe, NotesKept(fd, fe, Len(c) + 1),
         NEW lab, NEW nlab, NEW ts \in Seq(Token), LabelsKept(lab, nlab, ts),
         NEW s \in Seq(Token), CallsIn(c, fd, lab, s), TokensIn(d, fe, nlab, ts)
  PROVE  s \o ts \in Seq(Token) /\ CallsIn(d, fe, nlab, s \o ts)
<1>1. PICK l : l = Len(s) OBVIOUS
<1>2. PICK n : n = Len(ts) OBVIOUS
<1>3. PICK ss : ss = s \o ts OBVIOUS
<1>4. l \in Nat /\ n \in Nat BY <1>1, <1>2, LenProperties
<1>5. ss \in Seq(Token) /\ Len(ss) = l + n
  BY <1>1, <1>2, <1>3, ConcatProperties
<1>6. \A i \in 1 .. l + n : ss[i] = IF i <= l THEN s[i] ELSE ts[i - l]
  BY <1>1, <1>2, <1>3, ConcatProperties
<1>7. \A i \in 1 .. l + n : \/ i \in 1 .. l /\ ss[i] = s[i]
                            \/ i - l \in 1 .. n /\ ss[i] = ts[i - l]
  BY ONLY <1>4, <1>6
<1>8. \A i \in 1 .. l : i \in 1 .. l + n /\ ss[i] = s[i]
  BY ONLY <1>4, <1>6
<1>9. \A i \in 1 .. n : l + i \in 1 .. l + n /\ ss[l + i] = ts[i]
  <2> TAKE i \in 1 .. n
  <2>1. l + i \in 1 .. l + n /\ ~(l + i <= l) /\ (l + i) - l = i BY ONLY <1>4
  <2> QED BY <1>6, <2>1
<1> DEFINE Told(t) == /\ t.tok = "call"  => CallIn(d, fe, nlab, t, "GOSUB")
                      /\ t.tok = "entry" => CallIn(d, fe, nlab, t, "ADDR")
                      /\ t.tok = "func"  => t.fn \in Funcs /\ nlab[t.fn] = t.at + 1
<1>10. "GOSUB" \notin Jumps /\ "ADDR" \notin Jumps BY DEF Jumps
<1>11. ASSUME NEW i \in 1 .. l PROVE Told(s[i])
  <2>1. s[i].tok = "call" => CallIn(c, fd, lab, s[i], "GOSUB") BY <1>1 DEF CallsIn, TokensIn
  <2>2. s[i].tok = "call" => CallIn(d, fe, nlab, s[i], "GOSUB") BY <1>10, <2>1, CallStays
  <2>3. s[i].tok = "entry" => CallIn(c, fd, lab, s[i], "ADDR") BY <1>1 DEF CallsIn, TokensIn
  <2>4. s[i].tok = "entry" => CallIn(d, fe, nlab, s[i], "ADDR") BY <1>10, <2>3, CallStays
  <2>5. s[i].tok = "func" => s[i].fn \in Funcs /\ nlab[s[i].fn] = s[i].at + 1
    <3>1. s[i] \in Token BY <1>1, ElementOfSeq
    <3>2. s[i].at \in Nat BY <3>1 DEF Token
    <3>3. s[i].at + 1 # 0 BY ONLY <3>2
    <3> QED BY <1>1, <3>3 DEF CallsIn, TokensIn, LabelsKept
  <2> QED BY <2>2, <2>4, <2>5
<1>12. \A i \in 1 .. l + n : Told(ss[i])
  <2> TAKE i \in 1 .. l + n
  <2>1. CASE i \in 1 .. l /\ ss[i] = s[i] BY <1>11, <2>1
  <2>2. CASE i - l \in 1 .. n /\ ss[i] = ts[i - l] BY <1>2, <2>2 DEF TokensIn
  <2> QED BY <1>7, <2>1, <2>2
<1>13. ASSUME NEW f \in Funcs, nlab[f] # 0 PROVE Defined(ss, f)
  <2>1. CASE lab[f] # 0
    <3>1. PICK i \in 1 .. l : s[i].tok = "func" /\ s[i].fn = f
      BY <1>1, <2>1 DEF CallsIn, Defined
    <3> QED BY <1>5, <1>8, <3>1 DEF Defined
  <2>2. CASE Defined(ts, f)
    <3>1. PICK i \in 1 .. n : ts[i].tok = "func" /\ ts[i].fn = f
      BY <1>2, <2>2 DEF Defined
    <3> QED BY <1>5, <1>9, <3>1 DEF Defined
  <2> QED BY <1>13, <2>1, <2>2 DEF LabelsKept
<1>14. TokensIn(d, fe, nlab, ss) BY <1>5, <1>12 DEF TokensIn
<1> QED BY <1>3, <1>5, <1>13, <1>14 DEF CallsIn

-----------------------------------------------------------------------------
(* The steps of a compiler that goes on: what it reads, and its lists.     *)
LEMMA TokenFacts ==
  ASSUME Typed, NEW t \in Words
  PROVE  /\ Tok(t) \in Token /\ Tok(t).tok = t /\ Tok(t).at = Here
         /\ \A f \in Funcs : /\ FnTok(t, f) \in Token /\ FnTok(t, f).tok = t
                             /\ FnTok(t, f).fn = f /\ FnTok(t, f).at = Here
<1>1. Here \in Nat BY LenProperties DEF Typed, Whole, IsCode, Here
<1>2. Tok(t) = [tok |-> t, fn |-> "none", at |-> Here, val |-> 0] BY DEF Tok
<1>3. \A f \in Funcs : FnTok(t, f) = [tok |-> t, fn |-> f, at |-> Here, val |-> 0]
  BY <1>2 DEF FnTok
<1> QED BY <1>1, <1>2, <1>3 DEF Token

LEMMA Facts ==
  ASSUME Typed
  PROVE  /\ Len(code) \in Nat /\ Here = Len(code) + 1 /\ Here \in Nat
         /\ Whole(code) /\ Len(code) > 0
         /\ Len(break_pos) \in Nat
  BY LenProperties DEF Typed, Whole, IsCode, Here

(* A step that does nothing to the calls.                                  *)
LEMMA PlainStep ==
  ASSUME GenInv, NEW ts \in Seq(Token), Reads(ts),
         \A i \in 1 .. Len(ts) : ts[i].tok \notin {"call", "entry", "func"},
         UNCHANGED <<forward_decl, label, err_count, result>>,
         Whole(code'), JumpsKept(code, code'), CellsKept(code, code'),
         loop_type' \in {"none", "for", "while"}, for_depth' \in Nat, in_func' \in BOOLEAN,
         break_pos' \in Seq(1 .. Len(code')), Len(break_pos') <= MaxBreaks, Structure'
  PROVE  GenInv'
<1>1. Typed /\ CallsIn(code, forward_decl, label, src) /\ result = "compiling" /\ err_count = 0
  BY DEF GenInv, Calls, Going, Reads
<1>2. /\ Len(code) \in Nat /\ Whole(code) /\ Len(code) + 1 \in Nat
      /\ Len(code') \in Nat /\ Len(code') + 1 \in Nat /\ Len(code) <= Len(code')
  BY <1>1, Facts, LenProperties DEF Whole, IsCode, JumpsKept
<1>3. /\ forward_decl \in Seq(Note) /\ src \in Seq(Token) /\ label \in [Funcs -> 0 .. Here]
      /\ \A i \in 1 .. Len(forward_decl) : forward_decl[i].pos \in 1 .. Len(code)
  BY <1>1 DEF Typed
<1>4. src' = src \o ts /\ forward_decl' = forward_decl /\ label' = label
  BY DEF Reads
<1>5. /\ NotesKept(forward_decl, forward_decl, Len(code) + 1)
      /\ LabelsKept(label, label, ts) /\ TokensIn(code', forward_decl, label, ts)
  <2>1. Len(forward_decl) <= Len(forward_decl) BY <1>3, LenProperties
  <2> QED BY <1>3, <2>1 DEF NotesKept, LabelsKept, TokensIn
<1>6. /\ src \o ts \in Seq(Token)
      /\ CallsIn(code', forward_decl, label, src \o ts)
  BY <1>1, <1>2, <1>3, <1>5, CallsStay
<1>7. Typed'
  <2>1. label' \in [Funcs -> 0 .. Here']
    <3>1. \A x \in 0 .. Len(code) + 1 : x \in 0 .. Len(code') + 1 BY ONLY <1>2
    <3> QED BY <1>3, <1>4, <3>1 DEF Here
  <2>2. \A i \in 1 .. Len(forward_decl') : forward_decl'[i].pos \in 1 .. Len(code')
    <3>1. \A x \in 1 .. Len(code) : x \in 1 .. Len(code') BY ONLY <1>2
    <3> QED BY <1>3, <1>4, <3>1
  <2> QED BY <1>1, <1>3, <1>4, <1>6, <2>1, <2>2 DEF Typed, Here
<1>8. Calls' BY <1>4, <1>6 DEF Calls
<1>9. CallsArrive' BY <1>1 DEF CallsArrive, Compiled
<1> QED BY <1>7, <1>8, <1>9 DEF GenInv

(* An error ends the line, and the code does not matter any more.          *)
LEMMA FailStep ==
  ASSUME GenInv, Fail, result = "compiling", src' \in Seq(Token)
  PROVE  GenInv'
<1>1. Typed /\ Structure BY DEF GenInv
<1>2. blocks' = <<>> /\ err_count' = 1 /\ code' = code /\ break_pos' = break_pos
      /\ result' = "compiling" /\ forward_decl' = forward_decl /\ label' = label
      /\ loop_type' = loop_type /\ for_depth' = for_depth /\ in_func' = in_func
  BY DEF Fail, context, lists
<1>3. Typed' BY <1>1, <1>2 DEF Typed, Here
<1>4. AllIn(code, Len(break_pos), <<>>)
  <2>1. <<>> \in Seq(Block) /\ Len(<<>>) = 0 BY EmptySeq
  <2>2. PICK e : e = <<>> OBVIOUS
  <2>3. e \in Seq(Block) /\ \A i \in 1 .. Len(e) : FALSE BY <2>1, <2>2
  <2>4. AllIn(code, Len(break_pos), e) BY ONLY <2>3 DEF AllIn, Nested
  <2> QED BY <2>2, <2>4
<1>5. Structure' BY <1>1, <1>2, <1>4 DEF Structure
<1>6. Calls' /\ CallsArrive' BY <1>2 DEF Calls, Going, CallsArrive, Compiled
<1> QED BY <1>3, <1>5, <1>6 DEF GenInv

(* The list of breaks, when it stays as it is.                             *)
LEMMA BreaksStay ==
  ASSUME Typed, Structure, break_pos' = break_pos,
         Whole(code'), JumpsKept(code, code')
  PROVE  /\ break_pos' \in Seq(1 .. Len(code')) /\ Len(break_pos') <= MaxBreaks
         /\ \A i \in 1 .. Len(break_pos') : JumpAt(code', break_pos'[i])
<1>1. /\ Len(code) \in Nat /\ Whole(code) /\ Here \in Nat BY Facts
<1>2. \A p : JumpAt(code, p) => JumpAt(code', p) BY <1>1, JumpStays
<1>3. Len(code) <= Len(code') /\ Len(code') \in Nat BY LenProperties DEF Whole, IsCode, JumpsKept
<1>4. 1 .. Len(code) \subseteq 1 .. Len(code') BY ONLY <1>1, <1>3
<1>5. break_pos \in Seq(1 .. Len(code)) /\ Len(break_pos) <= MaxBreaks BY DEF Typed
<1>6. break_pos \in Seq(1 .. Len(code')) BY ONLY <1>4, <1>5, SeqMonotonic
<1> QED BY <1>2, <1>5, <1>6 DEF Structure

-----------------------------------------------------------------------------
(* The blocks that wait, when one begins or ends.                          *)
LEMMA NewBlockFields ==
  ASSUME Typed, NEW kind, NEW pos
  PROVE  LET b == NewBlock(kind, pos) IN
         /\ b.kind = kind /\ b.pos = pos /\ b.top = 0 /\ b.ends = {} /\ b.gotos = {}
         /\ b.outer_depth = for_depth /\ b.first_break = Len(break_pos)
         /\ \A v \in 0 .. MaxCases - 1 : b.case_addrs[v] = 0
  BY DEF NewBlock

LEMMA NewBlockType ==
  ASSUME Typed, NEW pos \in Nat,
         NEW kind \in {"for", "while", "if", "else", "func", "dispatch", "case", "entries"}
  PROVE  NewBlock(kind, pos) \in Block
<1>1. Len(break_pos) \in Nat BY Facts
<1>2. [v \in 0 .. MaxCases - 1 |-> 0] \in [0 .. MaxCases - 1 -> Nat] OBVIOUS
<1>3. loop_type \in {"none", "for", "while"} /\ for_depth \in Nat BY DEF Typed
<1> QED BY ONLY <1>1, <1>2, <1>3, pos \in Nat,
          kind \in {"for", "while", "if", "else", "func", "dispatch", "case", "entries"}
    DEF NewBlock, Block

LEMMA NewFits ==
  ASSUME Typed, Structure, NEW b \in Block, b.kind # "case",
         b.first_break = Len(break_pos), b.outer_depth = for_depth
  PROVE  Fits(blocks, b)
<1>1. \A i \in 1 .. Len(blocks) : blocks[i].first_break <= Len(break_pos)
  BY DEF Structure, AllIn, BlockIn
<1> QED BY <1>1 DEF Fits, Structure

(* A block that takes the place of the innermost one.                      *)
LEMMA NextFits ==
  ASSUME Typed, Structure, blocks # <<>>, Top.kind \notin {"for", "func"},
         NEW b \in Block, b.kind # "case", b.first_break = Len(break_pos),
         b.outer_depth = for_depth
  PROVE  Fits(Outer, b)
<1>1. AllIn(code, Len(break_pos), Outer) /\ Fits(Outer, Top)
  BY Closes DEF Structure, Top, Outer
<1>2. \A i \in 1 .. Len(Outer) : Outer[i].first_break <= Len(break_pos)
  BY <1>1 DEF AllIn, BlockIn
<1>3. for_depth = Top.outer_depth BY DEF Structure, Top, DepthIn
<1> QED BY <1>1, <1>2, <1>3 DEF Fits

LEMMA BlocksKept ==
  ASSUME Typed, Whole(code'), JumpsKept(code, code'),
         NEW bs, AllIn(code, Len(break_pos), bs)
  PROVE  AllIn(code', Len(break_pos), bs)
<1>1. Here \in Nat /\ Whole(code) /\ Len(break_pos) \in Nat BY Facts
<1>2. Len(break_pos) <= Len(break_pos) BY <1>1
<1> QED BY <1>1, <1>2, BlocksStay

(* bs are the blocks around the new one.                                   *)
LEMMA OpenStep ==
  ASSUME Typed, Structure, Whole(code'), JumpsKept(code, code'),
         NEW bs, AllIn(code, Len(break_pos), bs), break_pos' = break_pos,
         NEW b \in Block, Fits(bs, b), BlockIn(code', Len(break_pos), b),
         blocks' = Append(bs, b), for_depth' = DepthIn(b)
  PROVE  Structure'
<1>1. AllIn(code', Len(break_pos), bs) BY BlocksKept
<1>2. AllIn(code', Len(break_pos), blocks') /\ Last(blocks') = b BY <1>1, Opens
<1>3. \A i \in 1 .. Len(break_pos') : JumpAt(code', break_pos'[i]) BY BreaksStay
<1> QED BY <1>2, <1>3 DEF Structure

LEMMA CloseStep ==
  ASSUME Typed, Structure, blocks # <<>>, Whole(code'),
         JumpsKept(code, code'), blocks' = Outer, for_depth' = Top.outer_depth,
         Len(break_pos') \in Nat, Top.first_break <= Len(break_pos'),
         \A i \in 1 .. Len(break_pos') : JumpAt(code', break_pos'[i])
  PROVE  Structure'
<1>1. /\ AllIn(code, Len(break_pos), Outer) /\ Fits(Outer, Top) /\ Top \in Block
  BY Closes DEF Structure, Top, Outer
<1>2. AllIn(code', Len(break_pos), Outer) BY <1>1, BlocksKept
<1>3. ASSUME NEW i \in 1 .. Len(Outer) PROVE Outer[i].first_break <= Len(break_pos')
  <2>1. Outer[i].first_break <= Top.first_break BY <1>1 DEF Fits
  <2>2. Outer[i] \in Block BY <1>1, ElementOfSeq DEF AllIn
  <2>3. Outer[i].first_break \in Nat /\ Top.first_break \in Nat BY <1>1, <2>2 DEF Block
  <2> QED BY ONLY <2>1, <2>3, Len(break_pos') \in Nat, Top.first_break <= Len(break_pos')
<1>4. AllIn(code', Len(break_pos'), Outer) BY <1>2, <1>3, Shortens
<1>5. Outer # <<>> => for_depth' = DepthIn(Last(Outer)) BY <1>1 DEF Fits
<1> QED BY <1>4, <1>5 DEF Structure

LEMMA SameBlocks ==
  ASSUME Typed, Structure, Whole(code'), JumpsKept(code, code'),
         blocks' = blocks, for_depth' = for_depth,
         Len(break_pos') \in Nat, Len(break_pos) <= Len(break_pos'),
         \A i \in 1 .. Len(break_pos') : JumpAt(code', break_pos'[i])
  PROVE  Structure'
<1>1. Here \in Nat /\ Whole(code) /\ Len(break_pos) \in Nat BY Facts
<1>2. AllIn(code', Len(break_pos'), blocks) BY <1>1, BlocksStay DEF Structure
<1> QED BY <1>2 DEF Structure

-----------------------------------------------------------------------------
(* The code that the steps write.                                          *)
LEMMA Short ==
  ASSUME NEW S, NEW a \in S, NEW b \in S
  PROVE  /\ <<a>> \in Seq(S) /\ Len(<<a>>) = 1 /\ <<a>>[1] = a
         /\ <<a, b>> \in Seq(S) /\ Len(<<a, b>>) = 2
         /\ <<a, b>>[1] = a /\ <<a, b>>[2] = b
  OBVIOUS

LEMMA InsFields ==
  ASSUME NEW op \in Ops, NEW to \in Nat, NEW n \in Nat
  PROVE  /\ InsN(op, to, n) \in Instr /\ InsN(op, to, n).op = op
         /\ InsN(op, to, n).to = to /\ InsN(op, to, n).n = n
         /\ Ins(op, to) \in Instr /\ Ins(op, to).op = op /\ Ins(op, to).to = to
         /\ Ins(op, to).n = 0 /\ Ins(op, to) = InsN(op, to, 0)
  BY DEF Ins, InsN, Instr

(* One instruction more, or some.                                          *)
LEMMA SomeMore ==
  ASSUME NEW c, Whole(c), NEW t \in Seq(Instr), NEW k, k = Len(c) + Len(t) + 1,
         Leads(t, k), NEW d, Longer(c, t, d)
  PROVE  /\ Whole(d) /\ Len(d) = Len(c) + Len(t)
         /\ \A i \in 1 .. Len(t) : d[Len(c) + i] = t[i]
         /\ JumpsKept(c, d) /\ CellsKept(c, d)
<1>1. Len(c) \in Nat /\ Len(t) \in Nat BY LenProperties DEF Whole, IsCode
<1>2. PICK m \in Nat : m = Len(c) + 1 BY <1>1
<1>3. IsCode(c, m) /\ m <= k /\ k \in Nat BY <1>1, <1>2 DEF Whole
<1>4. /\ IsCode(d, k) /\ Len(d) = Len(c) + Len(t)
      /\ JumpsKept(c, d) /\ CellsKept(c, d)
      /\ \A i \in 1 .. Len(t) : d[Len(c) + i] = t[i]
  BY <1>3, LongerCode
<1>5. k = Len(d) + 1 BY <1>4
<1> QED BY <1>4, <1>5 DEF Whole

LEMMA OneMore ==
  ASSUME NEW c, Whole(c), NEW a \in Instr, a.to <= Len(c) + 2, NEW d, Added(c, a, d)
  PROVE  /\ Whole(d) /\ Len(d) = Len(c) + 1 /\ d[Len(c) + 1] = a
         /\ JumpsKept(c, d) /\ CellsKept(c, d)
<1>1. Append(c, a) = c \o <<a>> BY AppendIsConcat DEF Whole, IsCode
<1>2. PICK t : t = <<a>> OBVIOUS
<1>3. t \in Seq(Instr) /\ Len(t) = 1 /\ t[1] = a BY <1>2, Short
<1>4. Longer(c, t, d) BY <1>1, <1>2 DEF Longer, Added
<1>5. Len(c) \in Nat BY LenProperties DEF Whole, IsCode
<1>6. PICK k : k = Len(c) + Len(t) + 1 OBVIOUS
<1>7. Leads(t, k) /\ 1 \in 1 .. Len(t)
  <2>1. k = Len(c) + 2 BY <1>3, <1>5, <1>6
  <2> QED BY <1>3, <2>1 DEF Leads
<1>8. /\ Whole(d) /\ Len(d) = Len(c) + Len(t)
      /\ \A i \in 1 .. Len(t) : d[Len(c) + i] = t[i]
      /\ JumpsKept(c, d) /\ CellsKept(c, d)
  BY <1>3, <1>4, <1>6, <1>7, SomeMore
<1> QED BY <1>3, <1>7, <1>8

LEMMA TwoMore ==
  ASSUME NEW c, Whole(c), NEW t \in Seq(Instr), Len(t) = 2,
         t[1].to <= Len(c) + 3, t[2].to <= Len(c) + 3, NEW d, Longer(c, t, d)
  PROVE  /\ Whole(d) /\ Len(d) = Len(c) + 2
         /\ d[Len(c) + 1] = t[1] /\ d[Len(c) + 2] = t[2]
         /\ JumpsKept(c, d) /\ CellsKept(c, d)
<1>1. Len(c) \in Nat BY LenProperties DEF Whole, IsCode
<1>2. PICK k : k = Len(c) + Len(t) + 1 OBVIOUS
<1>3. Leads(t, k) /\ 1 \in 1 .. Len(t) /\ 2 \in 1 .. Len(t)
  <2>1. k = Len(c) + 3 BY <1>1, <1>2
  <2>2. \A i \in 1 .. Len(t) : i = 1 \/ i = 2 OBVIOUS
  <2> QED BY <2>1, <2>2 DEF Leads
<1>4. /\ Whole(d) /\ Len(d) = Len(c) + Len(t)
      /\ \A i \in 1 .. Len(t) : d[Len(c) + i] = t[i]
      /\ JumpsKept(c, d) /\ CellsKept(c, d)
  BY <1>2, <1>3, SomeMore
<1> QED BY <1>3, <1>4

LEMMA PatchedWhole ==
  ASSUME NEW c, Whole(c), NEW to \in Nat, to <= Len(c) + 1,
         NEW P, \A p \in P : JumpAt(c, p), NEW d, d = Patched(c, P, to)
  PROVE  Whole(d) /\ Len(d) = Len(c) /\ JumpsKept(c, d) /\ CellsKept(c, d)
<1>1. PICK m \in Nat : m = Len(c) + 1 BY LenProperties DEF Whole, IsCode
<1>2. IsCode(c, m) /\ to \in 0 .. m BY <1>1 DEF Whole
<1>3. IsCode(d, m) /\ Len(d) = Len(c) /\ JumpsKept(c, d) /\ CellsKept(c, d)
  BY <1>2, PatchedCode
<1> QED BY <1>1, <1>3 DEF Whole

LEMMA SameCode ==
  ASSUME NEW c, Whole(c)
  PROVE  JumpsKept(c, c) /\ CellsKept(c, c)
<1>1. Len(c) \in Nat BY LenProperties DEF Whole, IsCode
<1> QED BY <1>1 DEF JumpsKept, CellsKept

(* A word that is neither a call nor a function.                           *)
LEMMA PlainWord ==
  ASSUME Typed, NEW t \in Words \ {"call", "entry", "func"}
  PROVE  /\ <<Tok(t)>> \in Seq(Token)
         /\ \A i \in 1 .. Len(<<Tok(t)>>) : <<Tok(t)>>[i].tok \notin {"call", "entry", "func"}
<1>1. Tok(t) \in Token /\ Tok(t).tok = t BY TokenFacts
<1>2. PICK ts : ts = <<Tok(t)>> OBVIOUS
<1>3. ts \in Seq(Token) /\ Len(ts) = 1 /\ ts[1] = Tok(t) BY <1>1, <1>2, Short
<1>4. \A i \in 1 .. Len(ts) : ts[i].tok \notin {"call", "entry", "func"}
  <2> TAKE i \in 1 .. Len(ts)
  <2>1. i = 1 BY <1>3
  <2> QED BY <1>1, <1>3, <2>1
<1> QED BY <1>2, <1>3, <1>4

-----------------------------------------------------------------------------
(* Loops.                                                                  *)
LEMMA OpeningWords ==
  ASSUME GenInv, NEW ts \in Seq(Token), Reads(ts),
         \A i \in 1 .. Len(ts) : ts[i].tok \notin {"call", "entry", "func"},
         Whole(code'), JumpsKept(code, code'), CellsKept(code, code'),
         NEW bs, AllIn(code, Len(break_pos), bs),
         NEW b \in Block, Fits(bs, b), BlockIn(code', Len(break_pos), b),
         blocks' = Append(bs, b), for_depth' = DepthIn(b), for_depth' \in Nat,
         loop_type' \in {"none", "for", "while"}, in_func' = in_func,
         break_pos' = break_pos, UNCHANGED <<forward_decl, label, err_count, result>>
  PROVE  GenInv'
<1>1. Typed /\ Structure BY DEF GenInv
<1>2. Structure' BY <1>1, OpenStep
<1>3. break_pos' \in Seq(1 .. Len(code')) /\ Len(break_pos') <= MaxBreaks
  BY <1>1, BreaksStay
<1>4. in_func' \in BOOLEAN BY <1>1 DEF Typed
<1> QED BY <1>2, <1>3, <1>4, PlainStep

LEMMA Opening ==
  ASSUME GenInv, NEW t \in Words \ {"call", "entry", "func"}, Reads(<<Tok(t)>>),
         Whole(code'), JumpsKept(code, code'), CellsKept(code, code'),
         NEW bs, AllIn(code, Len(break_pos), bs),
         NEW b \in Block, Fits(bs, b), BlockIn(code', Len(break_pos), b),
         blocks' = Append(bs, b), for_depth' = DepthIn(b), for_depth' \in Nat,
         loop_type' \in {"none", "for", "while"}, in_func' = in_func,
         break_pos' = break_pos, UNCHANGED <<forward_decl, label, err_count, result>>
  PROVE  GenInv'
<1>1. Typed BY DEF GenInv
<1>2. PICK ts : ts = <<Tok(t)>> OBVIOUS
<1>3. /\ ts \in Seq(Token) /\ Reads(ts)
      /\ \A i \in 1 .. Len(ts) : ts[i].tok \notin {"call", "entry", "func"}
  BY <1>1, <1>2, PlainWord
<1> QED BY <1>3, OpeningWords

(* A block that has just begun.                                            *)
Fresh(b, kind, pos) ==
  /\ b \in Block /\ b.kind = kind /\ b.pos = pos /\ b.gotos = {}
  /\ b.outer_depth = for_depth /\ b.first_break = Len(break_pos)
  /\ \A v \in 0 .. MaxCases - 1 : b.case_addrs[v] = 0
BlockKinds == {"for", "while", "if", "else", "func", "dispatch", "case", "entries"}

LEMMA FreshBlock ==
  ASSUME Typed, NEW kind \in BlockKinds, NEW pos \in Nat, NEW n, n = NewBlock(kind, pos)
  PROVE  Fresh(n, kind, pos) /\ n.top = 0 /\ n.ends = {}
<1>1. n \in Block BY NewBlockType DEF BlockKinds
<1>2. /\ n.kind = kind /\ n.pos = pos /\ n.top = 0 /\ n.ends = {} /\ n.gotos = {}
      /\ n.outer_depth = for_depth /\ n.first_break = Len(break_pos)
      /\ \A v \in 0 .. MaxCases - 1 : n.case_addrs[v] = 0
  BY NewBlockFields
<1> QED BY <1>1, <1>2 DEF Fresh

LEMMA FreshIn ==
  ASSUME Typed, NEW b, NEW kind, NEW pos, Fresh(b, kind, pos),
         NEW d, Whole(d), kind # "case" => JumpAt(d, pos),
         b.top <= Len(d) + 1, \A p \in b.ends : JumpAt(d, p)
  PROVE  b \in Block /\ BlockIn(d, Len(break_pos), b)
<1>1. Len(d) \in Nat BY LenProperties DEF Whole, IsCode
<1>2. Len(break_pos) <= Len(break_pos) BY Facts
<1>3. \A v \in 0 .. MaxCases - 1 : b.case_addrs[v] <= Len(d) + 1
  BY <1>1 DEF Fresh
<1> QED BY <1>2, <1>3 DEF Fresh, BlockIn

LEMMA ForStep ==
  ASSUME GenInv, For
  PROVE  GenInv'
<1>1. Typed /\ Structure /\ AllIn(code, Len(break_pos), blocks)
  BY DEF GenInv, Structure
<1>2. PICK l \in Nat : l = Len(code) /\ l > 0 /\ Here = l + 1 /\ Whole(code)
  BY <1>1, Facts
<1>3. PICK x : x = Ins("FOR", 0) OBVIOUS
<1>4. PICK y : y = Ins("FOR_CHECK", Unpatched) OBVIOUS
<1>5. x \in Instr /\ x.to = 0 /\ y \in Instr /\ y.to = 0 /\ y.op = "FOR_CHECK"
  BY <1>3, <1>4, InsFields DEF Ops, Unpatched
<1>6. /\ Whole(code') /\ Len(code') = l + 2 /\ code'[l + 2] = y
      /\ JumpsKept(code, code') /\ CellsKept(code, code')
  <2>1. PICK t : t = <<x, y>> OBVIOUS
  <2>2. t \in Seq(Instr) /\ Len(t) = 2 /\ t[1] = x /\ t[2] = y BY <1>5, <2>1, Short
  <2>3. Longer(code, t, code') BY <1>3, <1>4, <2>1 DEF For, Longer
  <2>4. t[1].to <= Len(code) + 3 /\ t[2].to <= Len(code) + 3 BY <1>2, <1>5, <2>2
  <2> QED BY <1>2, <2>2, <2>3, <2>4, TwoMore
<1>7. PICK n : n = NewBlock("for", Here + 1) OBVIOUS
<1>8. PICK b : b = [n EXCEPT !.top = Here + 2] OBVIOUS
<1>9. Fresh(b, "for", Here + 1) /\ b.top = Here + 2 /\ b.ends = {}
  <2>1. Here + 1 \in Nat /\ Here + 2 \in Nat /\ "for" \in BlockKinds BY <1>2 DEF BlockKinds
  <2>2. Fresh(n, "for", Here + 1) /\ n.ends = {} BY <1>1, <1>7, <2>1, FreshBlock
  <2> QED BY <1>8, <2>1, <2>2 DEF Fresh, Block
<1>10. JumpAt(code', Here + 1) BY <1>2, <1>5, <1>6 DEF JumpAt, Jumps
<1>11. b \in Block /\ BlockIn(code', Len(break_pos), b)
  <2>1. b.top <= Len(code') + 1 BY <1>2, <1>6, <1>9
  <2> QED BY <1>1, <1>6, <1>9, <1>10, <2>1, FreshIn
<1>12. Fits(blocks, b) BY <1>1, <1>9, NewFits DEF Fresh
<1>13. for_depth' = DepthIn(b) /\ for_depth' \in Nat
  BY <1>1, <1>9 DEF For, DepthIn, Typed, Fresh
<1>14. /\ blocks' = Append(blocks, b) /\ loop_type' = "for" /\ in_func' = in_func
       /\ break_pos' = break_pos /\ Reads(<<Tok("for")>>)
       /\ UNCHANGED <<forward_decl, label, err_count, result>>
  BY <1>7, <1>8 DEF For, lists
<1>15. "for" \in Words \ {"call", "entry", "func"} BY DEF Words, Openers
<1> QED BY <1>1, <1>6, <1>11, <1>12, <1>13, <1>14, <1>15, Opening

LEMMA WhileStep ==
  ASSUME GenInv, While
  PROVE  GenInv'
<1>1. Typed /\ Structure /\ AllIn(code, Len(break_pos), blocks)
  BY DEF GenInv, Structure
<1>2. PICK l \in Nat : l = Len(code) /\ l > 0 /\ Here = l + 1 /\ Whole(code)
  BY <1>1, Facts
<1>3. PICK x : x = Ins("EXPR", 0) OBVIOUS
<1>4. PICK y : y = Ins("IF", Unpatched) OBVIOUS
<1>5. x \in Instr /\ x.to = 0 /\ y \in Instr /\ y.to = 0 /\ y.op = "IF"
  BY <1>3, <1>4, InsFields DEF Ops, Unpatched
<1>6. /\ Whole(code') /\ Len(code') = l + 2 /\ code'[l + 2] = y
      /\ JumpsKept(code, code') /\ CellsKept(code, code')
  <2>1. PICK t : t = <<x, y>> OBVIOUS
  <2>2. t \in Seq(Instr) /\ Len(t) = 2 /\ t[1] = x /\ t[2] = y BY <1>5, <2>1, Short
  <2>3. Longer(code, t, code') BY <1>3, <1>4, <2>1 DEF While, Longer
  <2>4. t[1].to <= Len(code) + 3 /\ t[2].to <= Len(code) + 3 BY <1>2, <1>5, <2>2
  <2> QED BY <1>2, <2>2, <2>3, <2>4, TwoMore
<1>7. PICK n : n = NewBlock("while", Here + 1) OBVIOUS
<1>8. PICK b : b = [n EXCEPT !.top = Here] OBVIOUS
<1>9. Fresh(b, "while", Here + 1) /\ b.top = Here /\ b.ends = {}
  <2>1. Here + 1 \in Nat /\ Here \in Nat /\ "while" \in BlockKinds BY <1>2 DEF BlockKinds
  <2>2. Fresh(n, "while", Here + 1) /\ n.ends = {} BY <1>1, <1>7, <2>1, FreshBlock
  <2> QED BY <1>8, <2>1, <2>2 DEF Fresh, Block
<1>10. JumpAt(code', Here + 1) BY <1>2, <1>5, <1>6 DEF JumpAt, Jumps
<1>11. b \in Block /\ BlockIn(code', Len(break_pos), b)
  <2>1. b.top <= Len(code') + 1 BY <1>2, <1>6, <1>9
  <2> QED BY <1>1, <1>6, <1>9, <1>10, <2>1, FreshIn
<1>12. Fits(blocks, b) BY <1>1, <1>9, NewFits DEF Fresh
<1>13. for_depth' = DepthIn(b) /\ for_depth' \in Nat
  BY <1>1, <1>9 DEF While, DepthIn, Typed, Fresh
<1>14. /\ blocks' = Append(blocks, b) /\ loop_type' = "while" /\ in_func' = in_func
       /\ break_pos' = break_pos /\ Reads(<<Tok("while")>>)
       /\ UNCHANGED <<forward_decl, label, err_count, result>>
  BY <1>7, <1>8 DEF While, lists
<1>15. "while" \in Words \ {"call", "entry", "func"} BY DEF Words, Openers
<1> QED BY <1>1, <1>6, <1>11, <1>12, <1>13, <1>14, <1>15, Opening

(* The innermost block.                                                    *)
LEMMA TopFacts ==
  ASSUME Typed, Structure, blocks # <<>>
  PROVE  /\ Top \in Block /\ BlockIn(code, Len(break_pos), Top)
         /\ AllIn(code, Len(break_pos), Outer) /\ Fits(Outer, Top)
         /\ for_depth = DepthIn(Top) /\ Kind = Top.kind
         /\ Top.outer_depth \in Nat /\ Top.outer_loop \in {"none", "for", "while"}
<1>1. /\ Top \in Block /\ BlockIn(code, Len(break_pos), Top)
      /\ AllIn(code, Len(break_pos), Outer) /\ Fits(Outer, Top)
  BY Closes DEF Structure, Top, Outer
<1>2. for_depth = DepthIn(Top) /\ Kind = Top.kind BY DEF Structure, Top, Kind
<1>3. Top.outer_depth \in Nat /\ Top.outer_loop \in {"none", "for", "while"}
  BY <1>1 DEF Block
<1> QED BY <1>1, <1>2, <1>3

LEMMA Closing ==
  ASSUME GenInv, Reads(<<Tok("}")>>), blocks # <<>>,
         Whole(code'), JumpsKept(code, code'), CellsKept(code, code'),
         blocks' = Outer, for_depth' = Top.outer_depth,
         loop_type' \in {"none", "for", "while"}, in_func' \in BOOLEAN,
         break_pos' = break_pos, UNCHANGED <<forward_decl, label, err_count, result>>
  PROVE  GenInv'
<1>1. Typed /\ Structure BY DEF GenInv
<1>2. /\ break_pos' \in Seq(1 .. Len(code')) /\ Len(break_pos') <= MaxBreaks
      /\ \A i \in 1 .. Len(break_pos') : JumpAt(code', break_pos'[i])
  BY <1>1, BreaksStay
<1>3. Len(break_pos') \in Nat /\ Top.first_break <= Len(break_pos')
  BY <1>1, Facts, TopFacts DEF BlockIn
<1>4. Structure' BY <1>1, <1>2, <1>3, CloseStep
<1>5. for_depth' \in Nat BY <1>1, TopFacts
<1>6. "}" \in Words \ {"call", "entry", "func"} BY DEF Words, Openers
<1>7. /\ <<Tok("}")>> \in Seq(Token)
      /\ \A i \in 1 .. Len(<<Tok("}")>>) : <<Tok("}")>>[i].tok \notin {"call", "entry", "func"}
  BY <1>1, <1>6, PlainWord
<1> QED BY <1>2, <1>4, <1>5, <1>7, PlainStep

LEMMA EndLoopStep ==
  ASSUME GenInv, EndLoop
  PROVE  GenInv'
<1>1. Typed /\ Structure BY DEF GenInv
<1>2. blocks # <<>> /\ Kind \in {"for", "while"} BY DEF EndLoop, Kind
<1>3. /\ Top \in Block /\ BlockIn(code, Len(break_pos), Top)
      /\ for_depth = DepthIn(Top) /\ Kind = Top.kind
      /\ Top.outer_depth \in Nat /\ Top.outer_loop \in {"none", "for", "while"}
  BY <1>1, <1>2, TopFacts
<1>4. PICK l \in Nat : l = Len(code) /\ Here = l + 1 /\ Whole(code)
  BY <1>1, Facts
<1>5. PICK j : j = LoopJump(Top) OBVIOUS
<1>6. j \in Instr /\ j.to <= l + 2
  <2>1. Top.top \in Nat /\ Top.top <= l + 1 BY <1>3, <1>4 DEF Block, BlockIn
  <2>2. PICK op \in {"NEXT", "GOTO"} : j = Ins(op, Top.top) BY <1>5 DEF LoopJump
  <2>3. op \in Ops BY DEF Ops
  <2>4. j \in Instr /\ j.to = Top.top BY <2>1, <2>2, <2>3, InsFields
  <2> QED BY <2>1, <2>4
<1>7. PICK c : c = Append(code, j) OBVIOUS
<1>8. Whole(c) /\ Len(c) = l + 1 /\ JumpsKept(code, c) /\ CellsKept(code, c)
  <2>1. Added(code, j, c) BY <1>7 DEF Added
  <2>2. j.to <= Len(code) + 2 BY <1>4, <1>6
  <2> QED BY <1>4, <1>6, <2>1, <2>2, OneMore
<1>9. PICK P : P = {Top.pos} \cup BreaksOf(Top) OBVIOUS
<1>10. \A p \in P : JumpAt(c, p)
  <2>1. JumpAt(code, Top.pos) BY <1>2, <1>3 DEF BlockIn
  <2>2. \A p \in BreaksOf(Top) : JumpAt(code, p)
    <3>1. Top.first_break \in Nat /\ Len(break_pos) \in Nat BY <1>1, <1>3, Facts DEF Block
    <3>2. \A i \in Top.first_break + 1 .. Len(break_pos) : i \in 1 .. Len(break_pos)
      BY ONLY <3>1
    <3> QED BY <1>1, <3>2 DEF BreaksOf, Structure
  <2>3. \A p \in P : JumpAt(code, p) BY <1>9, <2>1, <2>2
  <2> QED BY <1>4, <1>8, <2>3, JumpStays
<1>11. Whole(code') /\ Len(code') = l + 1 /\ JumpsKept(c, code') /\ CellsKept(c, code')
  <2>1. code' = Patched(c, P, Here + 1) BY <1>5, <1>7, <1>9 DEF EndLoop
  <2>2. Here + 1 \in Nat /\ Here + 1 <= Len(c) + 1 BY <1>4, <1>8
  <2> QED BY <1>8, <1>10, <2>1, <2>2, PatchedWhole
<1>12. JumpsKept(code, code') /\ CellsKept(code, code')
  <2>1. code \in Seq(Instr) /\ c \in Seq(Instr) /\ code' \in Seq(Instr)
    BY <1>4, <1>8, <1>11 DEF Whole, IsCode
  <2> QED BY <1>8, <1>11, <2>1, ThenKept
<1>13. /\ break_pos' \in Seq(1 .. Len(code')) /\ Len(break_pos') = Top.first_break
       /\ Len(break_pos') \in Nat /\ Len(break_pos') <= MaxBreaks
       /\ \A i \in 1 .. Len(break_pos') : JumpAt(code', break_pos'[i])
  <2>1. Top.first_break \in 0 .. Len(break_pos)
    <3>1. Top.first_break \in Nat /\ Len(break_pos) \in Nat BY <1>1, <1>3, Facts DEF Block
    <3>2. Top.first_break <= Len(break_pos) BY <1>3 DEF BlockIn
    <3> QED BY <3>1, <3>2
  <2>2. break_pos \in Seq(1 .. Len(code)) /\ Len(break_pos) <= MaxBreaks BY <1>1 DEF Typed
  <2>3. break_pos' = SubSeq(break_pos, 1, Top.first_break) BY DEF EndLoop, KeptBreaks
  <2>4. /\ break_pos' \in Seq(1 .. Len(code)) /\ Len(break_pos') = Top.first_break
        /\ \A i \in 1 .. Top.first_break : break_pos'[i] = break_pos[i]
    BY <2>1, <2>2, <2>3, Prefix
  <2>5. 1 .. Len(code) \subseteq 1 .. Len(code') BY <1>4, <1>11
  <2>6. break_pos' \in Seq(1 .. Len(code')) BY <2>4, <2>5, SeqMonotonic
  <2>7. Len(break_pos') \in Nat /\ Len(break_pos') <= MaxBreaks
    <3>1. Len(break_pos) \in Nat /\ MaxBreaks \in Nat BY <1>1, Facts, CodeGenAssumption
    <3> QED BY ONLY <2>1, <2>2, <2>4, <3>1
  <2>8. ASSUME NEW i \in 1 .. Len(break_pos') PROVE JumpAt(code', break_pos'[i])
    <3>1. i \in 1 .. Len(break_pos) BY <2>1, <2>4
    <3>2. JumpAt(code, break_pos'[i]) BY <1>1, <2>4, <3>1 DEF Structure
    <3> QED BY <1>4, <1>11, <1>12, <3>2, JumpStays
  <2> QED BY <2>4, <2>6, <2>7, <2>8
<1>14. for_depth' = Top.outer_depth
  <2>1. CASE Top.kind = "for"
    <3>1. for_depth = Top.outer_depth + 1 /\ for_depth' = for_depth - 1
      BY <1>3, <2>1 DEF DepthIn, EndLoop
    <3> QED BY <1>3, <3>1
  <2>2. CASE Top.kind = "while"
    BY <1>3, <2>2 DEF DepthIn, EndLoop
  <2> QED BY <1>2, <1>3, <2>1, <2>2
<1>15. /\ Reads(<<Tok("}")>>) /\ blocks' = Outer /\ loop_type' = Top.outer_loop
       /\ in_func' = in_func /\ in_func \in BOOLEAN
       /\ UNCHANGED <<forward_decl, label, err_count, result>>
  BY <1>1 DEF EndLoop, Typed
<1>16. Structure'
  <2>1. Top.first_break <= Len(break_pos') BY <1>13
  <2> QED BY <1>1, <1>2, <1>11, <1>12, <1>13, <1>14, <1>15, <2>1, CloseStep
<1>17. "}" \in Words \ {"call", "entry", "func"} BY DEF Words, Openers
<1>18. /\ <<Tok("}")>> \in Seq(Token)
       /\ \A i \in 1 .. Len(<<Tok("}")>>) : <<Tok("}")>>[i].tok \notin {"call", "entry", "func"}
  BY <1>1, <1>17, PlainWord
<1> QED BY <1>3, <1>11, <1>12, <1>13, <1>14, <1>15, <1>16, <1>18, PlainStep

LEMMA BreakStep ==
  ASSUME GenInv, Break
  PROVE  GenInv'
<1>1. Typed /\ Structure /\ Reads(<<Tok("break")>>) BY DEF GenInv, Break
<1>2. "break" \in Words \ {"call", "entry", "func"} BY DEF Words, Openers
<1>3. /\ <<Tok("break")>> \in Seq(Token)
      /\ \A i \in 1 .. Len(<<Tok("break")>>) :
            <<Tok("break")>>[i].tok \notin {"call", "entry", "func"}
  BY <1>1, <1>2, PlainWord
<1>4. CASE BreakRefused /\ Fail
  <2>1. src' \in Seq(Token)
    <3>1. src \in Seq(Token) /\ src' = src \o <<Tok("break")>> BY <1>1 DEF Typed, Reads
    <3> QED BY <1>3, <3>1, ConcatProperties
  <2> QED BY <1>1, <1>4, <2>1, FailStep DEF Reads
<1>5. CASE /\ ~BreakRefused
           /\ code' = Append(code, BreakJump)
           /\ break_pos' = Append(break_pos, Here)
           /\ UNCHANGED <<blocks, context, forward_decl, label, err_count, result>>
  <2>1. PICK l \in Nat : l = Len(code) /\ Here = l + 1 /\ Whole(code) BY <1>1, Facts
  <2>2. PICK x : x = BreakJump OBVIOUS
  <2>3. x \in Instr /\ x.to = 0 /\ x.op \in Jumps
    <3>1. PICK op \in {"BREAK_FOR", "GOTO"} : x = Ins(op, 0)
      BY <2>2 DEF BreakJump, Unpatched
    <3>2. op \in Ops /\ op \in Jumps BY DEF Ops, Jumps
    <3> QED BY <3>1, <3>2, InsFields
  <2>4. /\ Whole(code') /\ Len(code') = l + 1 /\ code'[l + 1] = x
        /\ JumpsKept(code, code') /\ CellsKept(code, code')
    <3>1. Added(code, x, code') BY <1>5, <2>2 DEF Added
    <3>2. x.to <= Len(code) + 2 BY <2>1, <2>3
    <3> QED BY <2>1, <2>3, <3>1, <3>2, OneMore
  <2>5. JumpAt(code', Here) BY <2>1, <2>3, <2>4 DEF JumpAt
  <2>6. PICK n \in Nat : n = Len(break_pos) BY <1>1, Facts
  <2>7. PICK S : S = 1 .. Len(code') OBVIOUS
  <2>8. break_pos \in Seq(S) /\ Here \in S
    <3>1. break_pos \in Seq(1 .. Len(code)) BY <1>1 DEF Typed
    <3>2. 1 .. Len(code) \subseteq S /\ Here \in S BY <2>1, <2>4, <2>7
    <3> QED BY <3>1, <3>2, SeqMonotonic
  <2>9. /\ break_pos' \in Seq(S) /\ Len(break_pos') = n + 1
        /\ \A i \in 1 .. n : break_pos'[i] = break_pos[i]
        /\ break_pos'[n + 1] = Here
    BY <1>5, <2>6, <2>8, LastOfAppend
  <2>10. Len(break_pos') <= MaxBreaks
    <3>1. n <= MaxBreaks /\ ~(n >= MaxBreaks) BY <1>1, <1>5, <2>6 DEF BreakRefused, Typed
    <3> QED BY <2>9, <3>1, CodeGenAssumption
  <2>11. ASSUME NEW i \in 1 .. Len(break_pos') PROVE JumpAt(code', break_pos'[i])
    <3>1. i \in 1 .. n \/ i = n + 1 BY <2>9
    <3>2. CASE i \in 1 .. n
      <4>1. JumpAt(code, break_pos'[i]) BY <1>1, <2>6, <2>9, <3>2 DEF Structure
      <4> QED BY <2>1, <2>4, <4>1, JumpStays
    <3>3. CASE i = n + 1 BY <2>5, <2>9, <3>3
    <3> QED BY <3>1, <3>2, <3>3
  <2>12. /\ blocks' = blocks /\ for_depth' = for_depth /\ loop_type' = loop_type
         /\ in_func' = in_func /\ UNCHANGED <<forward_decl, label, err_count, result>>
    BY <1>5 DEF context
  <2>13. Structure'
    <3>1. Len(break_pos') \in Nat /\ Len(break_pos) <= Len(break_pos') BY <2>6, <2>9
    <3> QED BY <1>1, <2>4, <2>11, <2>12, <3>1, SameBlocks
  <2>14. /\ loop_type \in {"none", "for", "while"} /\ for_depth \in Nat /\ in_func \in BOOLEAN
    BY <1>1 DEF Typed
  <2>15. break_pos' \in Seq(1 .. Len(code')) BY <2>7, <2>9
  <2> QED BY <1>1, <1>3, <2>4, <2>10, <2>12, <2>13, <2>14, <2>15, PlainStep
<1> QED BY <1>4, <1>5 DEF Break

-----------------------------------------------------------------------------
(* Branches, and the heads of the two dispatches.                          *)
LEMMA OpenOne ==
  ASSUME GenInv, NEW t \in Words \ {"call", "entry", "func"}, Reads(<<Tok(t)>>),
         NEW x \in Instr, x.op \in Jumps, x.to = 0, Added(code, x, code'),
         NEW kind \in {"if", "entries", "dispatch"},
         blocks' = Append(blocks, NewBlock(kind, Here)),
         UNCHANGED <<context, lists, err_count, result>>
  PROVE  GenInv'
<1>1. Typed /\ Structure /\ AllIn(code, Len(break_pos), blocks)
  BY DEF GenInv, Structure
<1>2. PICK l \in Nat : l = Len(code) /\ Here = l + 1 /\ Whole(code) BY <1>1, Facts
<1>3. /\ Whole(code') /\ Len(code') = l + 1 /\ code'[l + 1] = x
      /\ JumpsKept(code, code') /\ CellsKept(code, code')
  <2>1. x.to <= Len(code) + 2 BY <1>2
  <2> QED BY <1>2, <2>1, OneMore
<1>4. PICK b : b = NewBlock(kind, Here) OBVIOUS
<1>5. Fresh(b, kind, Here) /\ b.top = 0 /\ b.ends = {}
  <2>1. Here \in Nat /\ kind \in BlockKinds BY <1>2 DEF BlockKinds
  <2> QED BY <1>1, <1>4, <2>1, FreshBlock
<1>6. JumpAt(code', Here) BY <1>2, <1>3 DEF JumpAt
<1>7. b \in Block /\ BlockIn(code', Len(break_pos), b)
  <2>1. b.top <= Len(code') + 1 BY <1>2, <1>3, <1>5
  <2> QED BY <1>1, <1>3, <1>5, <1>6, <2>1, FreshIn
<1>8. Fits(blocks, b) BY <1>1, <1>5, NewFits DEF Fresh
<1>9. for_depth' = DepthIn(b) /\ for_depth' \in Nat /\ in_func' = in_func
      /\ loop_type' \in {"none", "for", "while"} /\ break_pos' = break_pos
      /\ UNCHANGED <<forward_decl, label, err_count, result>>
  BY <1>1, <1>5 DEF DepthIn, Typed, Fresh, context, lists
<1>10. blocks' = Append(blocks, b) BY <1>4
<1> QED BY <1>1, <1>3, <1>7, <1>8, <1>9, <1>10, Opening

LEMMA IfStep ==
  ASSUME GenInv, If
  PROVE  GenInv'
<1>1. PICK x : x = Ins("IF", Unpatched) OBVIOUS
<1>2. x \in Instr /\ x.op \in Jumps /\ x.to = 0
  BY <1>1, InsFields DEF Ops, Jumps, Unpatched
<1>3. Added(code, x, code') BY <1>1 DEF If, Added
<1>4. /\ Reads(<<Tok("if")>>) /\ blocks' = Append(blocks, NewBlock("if", Here))
      /\ UNCHANGED <<context, lists, err_count, result>>
  BY DEF If
<1>5. "if" \in Words \ {"call", "entry", "func"} BY DEF Words, Openers
<1> QED BY <1>2, <1>3, <1>4, <1>5, OpenOne

LEMMA EntriesStep ==
  ASSUME GenInv, Entries
  PROVE  GenInv'
<1>1. PICK x : x = InsN("DISPATCH", 0, 0) OBVIOUS
<1>2. x \in Instr /\ x.op \in Jumps /\ x.to = 0
  BY <1>1, InsFields DEF Ops, Jumps
<1>3. Added(code, x, code') BY <1>1 DEF Entries, Added
<1>4. /\ Reads(<<Tok("entries")>>) /\ blocks' = Append(blocks, NewBlock("entries", Here))
      /\ UNCHANGED <<context, lists, err_count, result>>
  BY DEF Entries
<1>5. "entries" \in Words \ {"call", "entry", "func"} BY DEF Words, Openers
<1> QED BY <1>2, <1>3, <1>4, <1>5, OpenOne

LEMMA DispatchStep ==
  ASSUME GenInv, Dispatch
  PROVE  GenInv'
<1>1. PICK x : x = InsN("DISPATCH_JMP", Unpatched, 0) OBVIOUS
<1>2. x \in Instr /\ x.op \in Jumps /\ x.to = 0
  BY <1>1, InsFields DEF Ops, Jumps, Unpatched
<1>3. Added(code, x, code') BY <1>1 DEF Dispatch, Added
<1>4. /\ Reads(<<Tok("dispatch")>>) /\ blocks' = Append(blocks, NewBlock("dispatch", Here))
      /\ UNCHANGED <<context, lists, err_count, result>>
  BY DEF Dispatch
<1>5. "dispatch" \in Words \ {"call", "entry", "func"} BY DEF Words, Openers
<1> QED BY <1>2, <1>3, <1>4, <1>5, OpenOne

LEMMA EndIfStep ==
  ASSUME GenInv, EndIf
  PROVE  GenInv'
<1>1. Typed /\ Structure BY DEF GenInv
<1>2. blocks # <<>> /\ Kind \in {"if", "else"} BY DEF EndIf, Kind
<1>3. /\ BlockIn(code, Len(break_pos), Top) /\ Kind = Top.kind /\ for_depth = DepthIn(Top)
  BY <1>1, <1>2, TopFacts
<1>4. PICK P : P = {Top.pos} \cup Top.ends OBVIOUS
<1>5. \A p \in P : JumpAt(code, p) BY <1>2, <1>3, <1>4 DEF BlockIn
<1>6. Whole(code') /\ JumpsKept(code, code') /\ CellsKept(code, code')
  <2>1. code' = Patched(code, P, Here) BY <1>4 DEF EndIf
  <2>2. Whole(code) /\ Here \in Nat /\ Here <= Len(code) + 1 BY <1>1, Facts
  <2> QED BY <1>5, <2>1, <2>2, PatchedWhole
<1>7. /\ Reads(<<Tok("}")>>) /\ blocks' = Outer /\ for_depth' = for_depth
      /\ loop_type' = loop_type /\ in_func' = in_func /\ break_pos' = break_pos
      /\ UNCHANGED <<forward_decl, label, err_count, result>>
  BY DEF EndIf, context, lists
<1>8. for_depth' = Top.outer_depth BY <1>2, <1>3, <1>7 DEF DepthIn
<1>9. loop_type' \in {"none", "for", "while"} /\ in_func' \in BOOLEAN
  BY <1>1, <1>7 DEF Typed
<1> QED BY <1>2, <1>6, <1>7, <1>8, <1>9, Closing

(* The jump over the other branch.                                         *)
LEMMA ElseCodeFacts ==
  ASSUME Typed, Structure, blocks # <<>>, Kind = "if", NEW d, d = ElseCode(Top)
  PROVE  /\ Whole(d) /\ Len(d) = Len(code) + 1 /\ JumpAt(d, Here)
         /\ JumpsKept(code, d) /\ CellsKept(code, d)
         /\ \A p \in Top.ends : JumpAt(d, p)
<1>1. PICK l \in Nat : l = Len(code) /\ Here = l + 1 /\ Whole(code) BY Facts
<1>2. BlockIn(code, Len(break_pos), Top) /\ Kind = Top.kind BY TopFacts
<1>3. PICK x : x = Ins("GOTO", Unpatched) OBVIOUS
<1>4. x \in Instr /\ x.op \in Jumps /\ x.to = 0
  BY <1>3, InsFields DEF Ops, Jumps, Unpatched
<1>5. PICK c : c = Append(code, x) OBVIOUS
<1>6. /\ Whole(c) /\ Len(c) = l + 1 /\ c[l + 1] = x
      /\ JumpsKept(code, c) /\ CellsKept(code, c)
  <2>1. Added(code, x, c) /\ x.to <= Len(code) + 2 BY <1>1, <1>4, <1>5 DEF Added
  <2> QED BY <1>1, <1>4, <2>1, OneMore
<1>7. JumpAt(c, Here) BY <1>1, <1>4, <1>6 DEF JumpAt
<1>8. JumpAt(code, Top.pos) /\ \A p \in Top.ends : JumpAt(code, p)
  BY <1>2 DEF BlockIn
<1>9. PICK P : P = {Top.pos} OBVIOUS
<1>10. \A p \in P : JumpAt(c, p) BY <1>1, <1>6, <1>8, <1>9, JumpStays
<1>11. Whole(d) /\ Len(d) = l + 1 /\ JumpsKept(c, d) /\ CellsKept(c, d)
  <2>1. d = Patched(c, P, Here + 1) BY <1>3, <1>5, <1>9 DEF ElseCode
  <2>2. Here + 1 \in Nat /\ Here + 1 <= Len(c) + 1 BY <1>1, <1>6
  <2> QED BY <1>6, <1>10, <2>1, <2>2, PatchedWhole
<1>12. JumpsKept(code, d) /\ CellsKept(code, d)
  <2>1. code \in Seq(Instr) /\ c \in Seq(Instr) /\ d \in Seq(Instr)
    BY <1>1, <1>6, <1>11 DEF Whole, IsCode
  <2> QED BY <1>6, <1>11, <2>1, ThenKept
<1>13. JumpAt(d, Here) /\ \A p \in Top.ends : JumpAt(d, p)
  BY <1>1, <1>6, <1>7, <1>8, <1>11, <1>12, JumpStays
<1> QED BY <1>1, <1>11, <1>12, <1>13

LEMMA TwoWords ==
  ASSUME Typed, NEW t \in Words \ {"call", "entry", "func"},
         NEW u \in Words \ {"call", "entry", "func"}, NEW ts, ts = <<Tok(t), Tok(u)>>
  PROVE  /\ ts \in Seq(Token)
         /\ \A i \in 1 .. Len(ts) : ts[i].tok \notin {"call", "entry", "func"}
<1>1. Tok(t) \in Token /\ Tok(t).tok = t /\ Tok(u) \in Token /\ Tok(u).tok = u
  BY TokenFacts
<1>2. ts \in Seq(Token) /\ Len(ts) = 2 /\ ts[1] = Tok(t) /\ ts[2] = Tok(u)
  BY <1>1, Short
<1>3. \A i \in 1 .. Len(ts) : i = 1 \/ i = 2 BY <1>2
<1> QED BY <1>1, <1>2, <1>3

LEMMA ElseStep ==
  ASSUME GenInv, Else
  PROVE  GenInv'
<1>1. Typed /\ Structure BY DEF GenInv
<1>2. blocks # <<>> /\ Kind = "if" BY DEF Else, Kind
<1>3. /\ Top \in Block /\ Kind = Top.kind /\ AllIn(code, Len(break_pos), Outer)
  BY <1>1, <1>2, TopFacts
<1>4. PICK l \in Nat : l = Len(code) /\ Here = l + 1 BY <1>1, Facts
<1>5. /\ Whole(code') /\ Len(code') = l + 1 /\ JumpAt(code', Here)
      /\ JumpsKept(code, code') /\ CellsKept(code, code')
      /\ \A p \in Top.ends : JumpAt(code', p)
  <2>1. code' = ElseCode(Top) BY DEF Else
  <2> QED BY <1>1, <1>2, <1>4, <2>1, ElseCodeFacts
<1>6. PICK n : n = NewBlock("else", Here) OBVIOUS
<1>7. PICK b : b = [n EXCEPT !.ends = Top.ends] OBVIOUS
<1>8. Fresh(b, "else", Here) /\ b.top = 0 /\ b.ends = Top.ends
  <2>1. Here \in Nat /\ "else" \in BlockKinds BY <1>4 DEF BlockKinds
  <2>2. Fresh(n, "else", Here) /\ n.top = 0 BY <1>1, <1>6, <2>1, FreshBlock
  <2>3. Top.ends \in SUBSET Nat BY <1>3 DEF Block
  <2> QED BY <1>7, <2>2, <2>3 DEF Fresh, Block
<1>9. b \in Block /\ BlockIn(code', Len(break_pos), b)
  <2>1. b.top <= Len(code') + 1 BY <1>5, <1>8
  <2> QED BY <1>1, <1>5, <1>8, <2>1, FreshIn
<1>10. Fits(Outer, b)
  <2>1. Top.kind \notin {"for", "func"} BY <1>2, <1>3
  <2> QED BY <1>1, <1>2, <1>8, <2>1, NextFits DEF Fresh
<1>11. /\ blocks' = Append(Outer, b) /\ in_func' = in_func /\ break_pos' = break_pos
       /\ for_depth' = for_depth /\ loop_type' = loop_type
       /\ UNCHANGED <<forward_decl, label, err_count, result>>
  BY <1>6, <1>7 DEF Else, context, lists
<1>12. for_depth' = DepthIn(b) /\ for_depth' \in Nat
       /\ loop_type' \in {"none", "for", "while"}
  BY <1>1, <1>8, <1>11 DEF DepthIn, Fresh, Typed
<1>13. PICK ts : ts = <<Tok("}"), Tok("else")>> OBVIOUS
<1>14. /\ ts \in Seq(Token) /\ Reads(ts)
       /\ \A i \in 1 .. Len(ts) : ts[i].tok \notin {"call", "entry", "func"}
  <2>1. "}" \in Words \ {"call", "entry", "func"} /\ "else" \in Words \ {"call", "entry", "func"}
    BY DEF Words, Openers
  <2>2. Reads(ts) BY <1>13 DEF Else
  <2> QED BY <1>1, <1>13, <2>1, <2>2, TwoWords
<1> QED BY <1>3, <1>5, <1>9, <1>10, <1>11, <1>12, <1>14, OpeningWords

LEMMA ElseIfStep ==
  ASSUME GenInv, ElseIf
  PROVE  GenInv'
<1>1. Typed /\ Structure BY DEF GenInv
<1>2. blocks # <<>> /\ Kind = "if" BY DEF ElseIf, Kind
<1>3. /\ Top \in Block /\ Kind = Top.kind /\ AllIn(code, Len(break_pos), Outer)
  BY <1>1, <1>2, TopFacts
<1>4. PICK l \in Nat : l = Len(code) /\ Here = l + 1 /\ Whole(code) BY <1>1, Facts
<1>5. PICK c : c = ElseCode(Top) OBVIOUS
<1>6. /\ Whole(c) /\ Len(c) = l + 1 /\ JumpAt(c, Here)
      /\ JumpsKept(code, c) /\ CellsKept(code, c)
      /\ \A p \in Top.ends : JumpAt(c, p)
  BY <1>1, <1>2, <1>4, <1>5, ElseCodeFacts
<1>7. PICK x : x = Ins("IF", Unpatched) OBVIOUS
<1>8. x \in Instr /\ x.op \in Jumps /\ x.to = 0
  BY <1>7, InsFields DEF Ops, Jumps, Unpatched
<1>9. /\ Whole(code') /\ Len(code') = l + 2 /\ code'[l + 2] = x
      /\ JumpsKept(c, code') /\ CellsKept(c, code')
  <2>1. Added(c, x, code') BY <1>5, <1>7 DEF ElseIf, Added
  <2>2. x.to <= Len(c) + 2 BY <1>6, <1>8
  <2>3. Len(code') = (l + 1) + 1 /\ code'[(l + 1) + 1] = x /\ Whole(code')
        /\ JumpsKept(c, code') /\ CellsKept(c, code')
    BY <1>6, <1>8, <2>1, <2>2, OneMore
  <2>4. (l + 1) + 1 = l + 2 OBVIOUS
  <2> QED BY <2>3, <2>4
<1>10. JumpsKept(code, code') /\ CellsKept(code, code')
  <2>1. code \in Seq(Instr) /\ c \in Seq(Instr) /\ code' \in Seq(Instr)
    BY <1>4, <1>6, <1>9 DEF Whole, IsCode
  <2> QED BY <1>6, <1>9, <2>1, ThenKept
<1>11. PICK n : n = NewBlock("if", Here + 1) OBVIOUS
<1>12. PICK b : b = [n EXCEPT !.ends = Top.ends \cup {Here}] OBVIOUS
<1>13. Fresh(b, "if", Here + 1) /\ b.top = 0 /\ b.ends = Top.ends \cup {Here}
  <2>1. Here \in Nat /\ Here + 1 \in Nat /\ "if" \in BlockKinds BY <1>4 DEF BlockKinds
  <2>2. Fresh(n, "if", Here + 1) /\ n.top = 0 BY <1>1, <1>11, <2>1, FreshBlock
  <2>3. Top.ends \cup {Here} \in SUBSET Nat BY <1>3, <2>1 DEF Block
  <2> QED BY <1>12, <2>2, <2>3 DEF Fresh, Block
<1>14. JumpAt(code', Here + 1) BY <1>4, <1>8, <1>9 DEF JumpAt
<1>15. b \in Block /\ BlockIn(code', Len(break_pos), b)
  <2>1. b.top <= Len(code') + 1 BY <1>9, <1>13
  <2>2. \A p \in b.ends : JumpAt(c, p) BY <1>6, <1>13
  <2>3. \A p \in b.ends : JumpAt(code', p) BY <1>6, <1>9, <2>2, JumpStays
  <2> QED BY <1>1, <1>9, <1>13, <1>14, <2>1, <2>3, FreshIn
<1>16. Fits(Outer, b)
  <2>1. Top.kind \notin {"for", "func"} BY <1>2, <1>3
  <2> QED BY <1>1, <1>2, <1>13, <2>1, NextFits DEF Fresh
<1>17. /\ blocks' = Append(Outer, b) /\ in_func' = in_func /\ break_pos' = break_pos
       /\ for_depth' = for_depth /\ loop_type' = loop_type
       /\ UNCHANGED <<forward_decl, label, err_count, result>>
  BY <1>11, <1>12 DEF ElseIf, context, lists
<1>18. for_depth' = DepthIn(b) /\ for_depth' \in Nat
       /\ loop_type' \in {"none", "for", "while"}
  BY <1>1, <1>13, <1>17 DEF DepthIn, Fresh, Typed
<1>19. PICK ts : ts = <<Tok("}"), Tok("elseif")>> OBVIOUS
<1>20. /\ ts \in Seq(Token) /\ Reads(ts)
       /\ \A i \in 1 .. Len(ts) : ts[i].tok \notin {"call", "entry", "func"}
  <2>1. "}" \in Words \ {"call", "entry", "func"} /\ "elseif" \in Words \ {"call", "entry", "func"}
    BY DEF Words, Openers
  <2>2. Reads(ts) BY <1>19 DEF ElseIf
  <2> QED BY <1>1, <1>19, <2>1, <2>2, TwoWords
<1> QED BY <1>3, <1>9, <1>10, <1>15, <1>16, <1>17, <1>18, <1>20, OpeningWords

(* A step that only reads.                                                 *)
LEMMA OnlyReads ==
  ASSUME GenInv, NEW t \in Words \ {"call", "entry", "func"}, Reads(<<Tok(t)>>),
         Whole(code'), JumpsKept(code, code'), CellsKept(code, code'),
         UNCHANGED <<blocks, context, lists, err_count, result>>
  PROVE  GenInv'
<1>1. Typed /\ Structure BY DEF GenInv
<1>2. /\ blocks' = blocks /\ for_depth' = for_depth /\ loop_type' = loop_type
      /\ in_func' = in_func /\ break_pos' = break_pos
      /\ UNCHANGED <<forward_decl, label, err_count, result>>
  BY DEF context, lists
<1>3. /\ break_pos' \in Seq(1 .. Len(code')) /\ Len(break_pos') <= MaxBreaks
      /\ \A i \in 1 .. Len(break_pos') : JumpAt(code', break_pos'[i])
  BY <1>1, <1>2, BreaksStay
<1>4. Len(break_pos') \in Nat /\ Len(break_pos) <= Len(break_pos') BY <1>1, <1>2, Facts
<1>5. Structure' BY <1>1, <1>2, <1>3, <1>4, SameBlocks
<1>6. /\ <<Tok(t)>> \in Seq(Token)
      /\ \A i \in 1 .. Len(<<Tok(t)>>) : <<Tok(t)>>[i].tok \notin {"call", "entry", "func"}
  BY <1>1, PlainWord
<1>7. loop_type' \in {"none", "for", "while"} /\ for_depth' \in Nat /\ in_func' \in BOOLEAN
  BY <1>1, <1>2 DEF Typed
<1> QED BY <1>2, <1>3, <1>5, <1>6, <1>7, PlainStep

LEMMA LoseLineStep ==
  ASSUME GenInv, NEW t \in {"lost else", "lost brace"}, LoseLine(t)
  PROVE  GenInv'
<1>1. Whole(code) BY Facts DEF GenInv
<1>2. Whole(code') /\ JumpsKept(code, code') /\ CellsKept(code, code')
  BY <1>1, SameCode DEF LoseLine
<1>3. t \in Words \ {"call", "entry", "func"} BY DEF Words
<1>4. Reads(<<Tok(t)>>) /\ UNCHANGED <<blocks, context, lists, err_count, result>>
  BY DEF LoseLine
<1> QED BY <1>2, <1>3, <1>4, OnlyReads

-----------------------------------------------------------------------------
(* Functions and calls.                                                    *)
LEMMA EndFuncStep ==
  ASSUME GenInv, EndFunc
  PROVE  GenInv'
<1>1. Typed /\ Structure BY DEF GenInv
<1>2. blocks # <<>> /\ Kind = "func" BY DEF EndFunc, Kind
<1>3. /\ BlockIn(code, Len(break_pos), Top) /\ Kind = Top.kind
      /\ Top.outer_loop \in {"none", "for", "while"}
  BY <1>1, <1>2, TopFacts
<1>4. PICK l \in Nat : l = Len(code) /\ Here = l + 1 /\ Whole(code) BY <1>1, Facts
<1>5. PICK x : x = Ins("LEAVE", 0) OBVIOUS
<1>6. x \in Instr /\ x.to = 0 BY <1>5, InsFields DEF Ops
<1>7. PICK c : c = Append(code, x) OBVIOUS
<1>8. Whole(c) /\ Len(c) = l + 1 /\ JumpsKept(code, c) /\ CellsKept(code, c)
  <2>1. Added(code, x, c) /\ x.to <= Len(code) + 2 BY <1>4, <1>6, <1>7 DEF Added
  <2> QED BY <1>4, <1>6, <2>1, OneMore
<1>9. PICK P : P = {Top.pos} OBVIOUS
<1>10. \A p \in P : JumpAt(c, p)
  <2>1. JumpAt(code, Top.pos) BY <1>2, <1>3 DEF BlockIn
  <2> QED BY <1>4, <1>8, <1>9, <2>1, JumpStays
<1>11. Whole(code') /\ JumpsKept(c, code') /\ CellsKept(c, code')
  <2>1. code' = Patched(c, P, Here + 1) BY <1>5, <1>7, <1>9 DEF EndFunc
  <2>2. Here + 1 \in Nat /\ Here + 1 <= Len(c) + 1 BY <1>4, <1>8
  <2> QED BY <1>8, <1>10, <2>1, <2>2, PatchedWhole
<1>12. JumpsKept(code, code') /\ CellsKept(code, code')
  <2>1. code \in Seq(Instr) /\ c \in Seq(Instr) /\ code' \in Seq(Instr)
    BY <1>4, <1>8, <1>11 DEF Whole, IsCode
  <2> QED BY <1>8, <1>11, <2>1, ThenKept
<1>13. /\ Reads(<<Tok("}")>>) /\ blocks' = Outer /\ for_depth' = Top.outer_depth
       /\ loop_type' = Top.outer_loop /\ in_func' = FALSE /\ break_pos' = break_pos
       /\ UNCHANGED <<forward_decl, label, err_count, result>>
  BY DEF EndFunc, lists
<1>14. loop_type' \in {"none", "for", "while"} /\ in_func' \in BOOLEAN
  BY <1>3, <1>13
<1> QED BY <1>2, <1>11, <1>12, <1>13, <1>14, Closing

(* An error at a token.                                                    *)
LEMMA FailAt ==
  ASSUME GenInv, NEW t \in Token, Reads(<<t>>), Fail
  PROVE  GenInv'
<1>1. src \in Seq(Token) /\ src' = src \o <<t>> /\ result = "compiling"
  BY DEF GenInv, Typed, Reads
<1>2. PICK ts : ts = <<t>> OBVIOUS
<1>3. ts \in Seq(Token) /\ src' = src \o ts BY <1>1, <1>2, Short
<1>4. src' \in Seq(Token) BY <1>1, <1>3, ConcatProperties
<1> QED BY <1>1, <1>4, FailStep

LEMMA ReturnStep ==
  ASSUME GenInv, Return
  PROVE  GenInv'
<1>1. Typed /\ Reads(<<Tok("return")>>) BY DEF GenInv, Return
<1>2. "return" \in Words \ {"call", "entry", "func"} BY DEF Words, Openers
<1>3. CASE ~in_func /\ Fail
  <2>1. Tok("return") \in Token BY <1>1, <1>2, TokenFacts
  <2> QED BY <1>1, <1>3, <2>1, FailAt
<1>4. CASE /\ in_func
           /\ code' = code \o Append(ForLeave, Ins("LEAVE", 0))
           /\ UNCHANGED <<blocks, context, lists, err_count, result>>
  <2>1. Whole(code) BY <1>1, Facts
  <2>2. PICK x : x = Ins("LEAVE", 0) OBVIOUS
  <2>3. PICK y : y = InsN("FOR_LEAVE", 0, for_depth) OBVIOUS
  <2>4. x \in Instr /\ x.to = 0 /\ y \in Instr /\ y.to = 0
    <3>1. for_depth \in Nat BY <1>1 DEF Typed
    <3> QED BY <2>2, <2>3, <3>1, InsFields DEF Ops
  <2>5. PICK t : t = Append(ForLeave, x) OBVIOUS
  <2>6. t \in Seq(Instr) /\ \A i \in 1 .. Len(t) : t[i].to = 0
    <3>1. PICK u : u = ForLeave OBVIOUS
    <3>2. u \in Seq(Instr) /\ \A i \in 1 .. Len(u) : u[i].to = 0
      <4>1. CASE u = <<y>>
        <5>1. Len(u) = 1 /\ u[1] = y /\ u \in Seq(Instr) BY <2>4, <4>1, Short
        <5>2. \A i \in 1 .. Len(u) : i = 1 BY <5>1
        <5> QED BY <2>4, <5>1, <5>2
      <4>2. CASE u = <<>>
        <5>1. u \in Seq(Instr) /\ Len(u) = 0 BY <4>2, EmptySeq
        <5> QED BY <5>1
      <4> QED BY <2>3, <3>1, <4>1, <4>2 DEF ForLeave
    <3>3. /\ t \in Seq(Instr) /\ Len(t) = Len(u) + 1
          /\ \A i \in 1 .. Len(u) : t[i] = u[i]
          /\ t[Len(u) + 1] = x
      BY <2>4, <2>5, <3>1, <3>2, LastOfAppend
    <3>4. \A i \in 1 .. Len(t) : i \in 1 .. Len(u) \/ i = Len(u) + 1
      <4>1. Len(u) \in Nat BY <3>2, LenProperties
      <4> QED BY ONLY <3>3, <4>1
    <3> QED BY <2>4, <3>2, <3>3, <3>4
  <2>7. PICK k : k = Len(code) + Len(t) + 1 OBVIOUS
  <2>8. Leads(t, k)
    <3>1. Len(code) \in Nat /\ Len(t) \in Nat BY <1>1, <2>6, Facts, LenProperties
    <3> QED BY <2>6, <2>7, <3>1 DEF Leads
  <2>9. Whole(code') /\ JumpsKept(code, code') /\ CellsKept(code, code')
    <3>1. Longer(code, t, code') BY <1>4, <2>2, <2>5 DEF Longer
    <3> QED BY <2>1, <2>6, <2>7, <2>8, <3>1, SomeMore
  <2> QED BY <1>1, <1>2, <1>4, <2>9, OnlyReads
<1> QED BY <1>3, <1>4 DEF Return

(* A call, an entry of a table or the head of a function: what the rest of *)
(* the program has to know about it is in the lists.                       *)
LEMMA CallingStep ==
  ASSUME GenInv, NEW t \in {"call", "entry", "func"}, NEW f \in Funcs,
         NEW w, w = FnTok(t, f), Reads(<<w>>), UNCHANGED <<err_count, result>>,
         Whole(code'), Len(code') > Len(code),
         JumpsKept(code, code'), CellsKept(code, code'),
         loop_type' \in {"none", "for", "while"}, for_depth' \in Nat, in_func' \in BOOLEAN,
         break_pos' = break_pos, Structure',
         Len(forward_decl') <= MaxFwDecls,
         NotesKept(forward_decl, forward_decl', Len(code) + 1),
         label' \in [Funcs -> 0 .. Len(code') + 1],
         \A g \in Funcs : label[g] # 0 => label'[g] = label[g],
         \A g \in Funcs : label'[g] # 0 => label[g] # 0 \/ (t = "func" /\ g = f),
         t = "call"  => CallIn(code', forward_decl', label', w, "GOSUB"),
         t = "entry" => CallIn(code', forward_decl', label', w, "ADDR"),
         t = "func"  => label'[f] = Len(code) + 2
  PROVE  GenInv'
<1>1. Typed /\ Structure /\ CallsIn(code, forward_decl, label, src)
      /\ result = "compiling" /\ err_count = 0
  BY DEF GenInv, Calls, Going, Reads
<1>2. Whole(code) /\ Len(code) \in Nat /\ Here = Len(code) + 1 BY <1>1, Facts
<1>3. Len(code') \in Nat BY LenProperties DEF Whole, IsCode
<1>4. w \in Token /\ w.tok = t /\ w.fn = f /\ w.at = Len(code) + 1
  <2>1. t \in Words BY DEF Words, Openers
  <2> QED BY <1>1, <1>2, <2>1, TokenFacts
<1>5. PICK ts : ts = <<w>> OBVIOUS
<1>6. ts \in Seq(Token) /\ Len(ts) = 1 /\ ts[1] = w BY <1>4, <1>5, Short
<1>7. \A i \in 1 .. Len(ts) : i = 1 BY <1>6
<1>8. /\ forward_decl \in Seq(Note) /\ src \in Seq(Token)
      /\ \A i \in 1 .. Len(forward_decl) : forward_decl[i].pos \in 1 .. Len(code)
  BY <1>1 DEF Typed
<1>9. TokensIn(code', forward_decl', label', ts)
  <2>1. w.at + 1 = Len(code) + 2 BY <1>2, <1>4
  <2>2. ASSUME NEW i \in 1 .. Len(ts)
        PROVE /\ ts[i].tok = "call"  => CallIn(code', forward_decl', label', ts[i], "GOSUB")
              /\ ts[i].tok = "entry" => CallIn(code', forward_decl', label', ts[i], "ADDR")
              /\ ts[i].tok = "func"  => ts[i].fn \in Funcs /\ label'[ts[i].fn] = ts[i].at + 1
    BY <1>4, <1>6, <1>7, <2>1
  <2> QED BY <2>2 DEF TokensIn
<1>10. LabelsKept(label, label', ts)
  <2>1. t = "func" => Defined(ts, f)
    <3>1. 1 \in 1 .. Len(ts) BY <1>6
    <3> QED BY <1>4, <1>6, <3>1 DEF Defined
  <2> QED BY <2>1 DEF LabelsKept
<1>11. /\ src \o ts \in Seq(Token)
       /\ CallsIn(code', forward_decl', label', src \o ts)
  BY <1>1, <1>2, <1>6, <1>8, <1>9, <1>10, CallsStay
<1>12. src' = src \o ts BY <1>5 DEF Reads
<1>13. Typed'
  <2>1. break_pos' \in Seq(1 .. Len(code')) /\ Len(break_pos') <= MaxBreaks
    BY <1>1, BreaksStay
  <2>2. ASSUME NEW i \in 1 .. Len(forward_decl')
        PROVE  forward_decl'[i].pos \in 1 .. Len(code')
    <3>1. forward_decl'[i].pos \in 1 .. Len(code) \/ forward_decl'[i].pos = Len(code) + 1
      BY <1>8 DEF NotesKept
    <3> QED BY <1>2, <1>3, <3>1
  <2>3. label' \in [Funcs -> 0 .. Here'] BY DEF Here
  <2>4. err_count' \in 0 .. 1 /\ result' \in {"compiling", "ok", "refused"} BY <1>1
  <2>5. forward_decl' \in Seq(Note) BY DEF NotesKept
  <2> QED BY <1>11, <1>12, <2>1, <2>2, <2>3, <2>4, <2>5 DEF Typed
<1>14. Calls' BY <1>11, <1>12 DEF Calls
<1>15. CallsArrive' BY <1>1 DEF CallsArrive, Compiled
<1> QED BY <1>13, <1>14, <1>15 DEF GenInv

LEMMA FuncStep ==
  ASSUME GenInv, NEW f \in Funcs, Func(f)
  PROVE  GenInv'
<1>1. Typed /\ Structure /\ AllIn(code, Len(break_pos), blocks)
      /\ Reads(<<FnTok("func", f)>>)
  BY DEF GenInv, Structure, Func
<1>2. PICK w : w = FnTok("func", f) OBVIOUS
<1>3. CASE label[f] # 0 /\ Fail
  <2>1. "func" \in Words BY DEF Words, Openers
  <2>2. w \in Token BY <1>1, <1>2, <2>1, TokenFacts
  <2> QED BY <1>1, <1>2, <1>3, <2>2, FailAt
<1>4. CASE /\ label[f] = 0
           /\ code' = code \o <<Ins("GOTO", Unpatched), Ins("ENTER", 0)>>
           /\ label' = [label EXCEPT ![f] = Here + 1]
           /\ blocks' = Append(blocks, NewBlock("func", Here))
           /\ in_func' = TRUE /\ loop_type' = "none" /\ for_depth' = 0
           /\ UNCHANGED <<break_pos, forward_decl, err_count, result>>
  <2>1. PICK l \in Nat : l = Len(code) /\ Here = l + 1 /\ Whole(code) BY <1>1, Facts
  <2>2. PICK x : x = Ins("GOTO", Unpatched) OBVIOUS
  <2>3. PICK y : y = Ins("ENTER", 0) OBVIOUS
  <2>4. x \in Instr /\ x.to = 0 /\ x.op = "GOTO" /\ y \in Instr /\ y.to = 0
    BY <2>2, <2>3, InsFields DEF Ops, Unpatched
  <2>5. /\ Whole(code') /\ Len(code') = l + 2 /\ code'[l + 1] = x
        /\ JumpsKept(code, code') /\ CellsKept(code, code')
    <3>1. PICK t : t = <<x, y>> OBVIOUS
    <3>2. t \in Seq(Instr) /\ Len(t) = 2 /\ t[1] = x /\ t[2] = y BY <2>4, <3>1, Short
    <3>3. Longer(code, t, code') BY <1>4, <2>2, <2>3, <3>1 DEF Longer
    <3>4. t[1].to <= Len(code) + 3 /\ t[2].to <= Len(code) + 3 BY <2>1, <2>4, <3>2
    <3> QED BY <2>1, <3>2, <3>3, <3>4, TwoMore
  <2>6. PICK b : b = NewBlock("func", Here) OBVIOUS
  <2>7. Fresh(b, "func", Here) /\ b.top = 0 /\ b.ends = {}
    <3>1. Here \in Nat /\ "func" \in BlockKinds BY <2>1 DEF BlockKinds
    <3> QED BY <1>1, <2>6, <3>1, FreshBlock
  <2>8. JumpAt(code', Here) BY <2>1, <2>4, <2>5 DEF JumpAt, Jumps
  <2>9. b \in Block /\ BlockIn(code', Len(break_pos), b)
    <3>1. b.top <= Len(code') + 1 BY <2>5, <2>7
    <3> QED BY <1>1, <2>5, <2>7, <2>8, <3>1, FreshIn
  <2>10. Fits(blocks, b) BY <1>1, <2>7, NewFits DEF Fresh
  <2>11. for_depth' = DepthIn(b) BY <1>4, <2>7 DEF DepthIn, Fresh
  <2>12. Structure'
    <3>1. blocks' = Append(blocks, b) /\ break_pos' = break_pos BY <1>4, <2>6
    <3> QED BY <1>1, <2>5, <2>9, <2>10, <2>11, <3>1, OpenStep
  <2>13. NotesKept(forward_decl, forward_decl', Len(code) + 1)
         /\ Len(forward_decl') <= MaxFwDecls
    <3>1. forward_decl \in Seq(Note) /\ Len(forward_decl) <= MaxFwDecls
          /\ forward_decl' = forward_decl
      BY <1>1, <1>4 DEF Typed
    <3>2. Len(forward_decl) <= Len(forward_decl) BY <3>1, LenProperties
    <3> QED BY <3>1, <3>2 DEF NotesKept
  <2>14. /\ label' \in [Funcs -> 0 .. Len(code') + 1] /\ label'[f] = l + 2
         /\ \A g \in Funcs : g # f => label'[g] = label[g]
    <3>1. label \in [Funcs -> 0 .. l + 1] BY <1>1, <2>1 DEF Typed
    <3>2. Here + 1 = l + 2 /\ Len(code') + 1 = l + 3 BY <2>1, <2>5
    <3>3. l + 2 \in 0 .. l + 3 /\ \A z \in 0 .. l + 1 : z \in 0 .. l + 3 BY <2>1
    <3>4. label \in [Funcs -> 0 .. l + 3] BY ONLY <3>1, <3>3
    <3>5. label' = [label EXCEPT ![f] = l + 2] BY <1>4, <3>2
    <3> QED BY ONLY <3>2, <3>3, <3>4, <3>5, f \in Funcs
  <2>15. (\A g \in Funcs : label[g] # 0 => label'[g] = label[g])
         /\ (\A g \in Funcs : label'[g] # 0 => label[g] # 0 \/ g = f)
    BY <1>4, <2>14
  <2>16. Len(code') > Len(code) /\ label'[f] = Len(code) + 2 BY <2>1, <2>5, <2>14
  <2>17. /\ loop_type' \in {"none", "for", "while"} /\ for_depth' \in Nat
         /\ in_func' \in BOOLEAN /\ break_pos' = break_pos
         /\ UNCHANGED <<err_count, result>>
    BY <1>4
  <2>18. PICK t : t = "func" OBVIOUS
  <2>19. w = FnTok(t, f) /\ t \in {"call", "entry", "func"} /\ Reads(<<w>>)
    BY <1>1, <1>2, <2>18
  <2>20. /\ t = "call"  => CallIn(code', forward_decl', label', w, "GOSUB")
         /\ t = "entry" => CallIn(code', forward_decl', label', w, "ADDR")
    BY <2>18
  <2> QED BY <2>5, <2>12, <2>13, <2>14, <2>15, <2>16, <2>17, <2>18, <2>19, <2>20, CallingStep
<1> QED BY <1>3, <1>4 DEF Func

(* The list of forward declarations, with one more at the end.             *)
LEMMA NotedStep ==
  ASSUME Typed, NEW f \in Funcs, ~ListFull, NEW fe, fe = Noted(f, Here)
  PROVE  /\ NotesKept(forward_decl, fe, Len(code) + 1) /\ Len(fe) <= MaxFwDecls
         /\ Pending(fe, Here)
         /\ \A k \in 1 .. Len(fe) : fe[k].pos = Here => fe[k].fn = f
<1>1. forward_decl \in Seq(Note) /\ Len(forward_decl) <= MaxFwDecls
      /\ \A i \in 1 .. Len(forward_decl) : forward_decl[i].pos \in 1 .. Len(code)
  BY DEF Typed
<1>2. PICK n \in Nat : n = Len(forward_decl) BY <1>1, LenProperties
<1>3. PICK l \in Nat : l = Len(code) /\ Here = l + 1 BY Facts
<1>4. PICK e : e = [fn |-> f, pos |-> Here] OBVIOUS
<1>5. e \in Note /\ e.fn = f /\ e.pos = Here BY <1>3, <1>4 DEF Note
<1>6. /\ fe \in Seq(Note) /\ Len(fe) = n + 1 /\ fe[n + 1] = e
      /\ \A i \in 1 .. n : fe[i] = forward_decl[i]
  <2>1. fe = Append(forward_decl, e) BY <1>4 DEF Noted
  <2> QED BY <1>1, <1>2, <1>5, <2>1, LastOfAppend
<1>7. \A i \in 1 .. Len(fe) : i \in 1 .. n \/ i = n + 1 BY <1>6
<1>8. NotesKept(forward_decl, fe, Len(code) + 1)
  <2>1. n <= Len(fe) BY <1>6
  <2> QED BY <1>1, <1>2, <1>3, <1>5, <1>6, <1>7, <2>1 DEF NotesKept
<1>9. Len(fe) <= MaxFwDecls
  <2>1. ~(n >= MaxFwDecls) BY <1>2 DEF ListFull
  <2> QED BY <1>6, <2>1, CodeGenAssumption
<1>10. Pending(fe, Here)
  <2>1. n + 1 \in 1 .. Len(fe) BY <1>6
  <2> QED BY <1>5, <1>6, <2>1 DEF Pending
<1>11. ASSUME NEW k \in 1 .. Len(fe), fe[k].pos = Here PROVE fe[k].fn = f
  <2>1. CASE k = n + 1 BY <1>5, <1>6, <2>1
  <2>2. CASE k \in 1 .. n
    <3>1. fe[k].pos \in 1 .. l BY <1>1, <1>2, <1>3, <1>6, <2>2
    <3> QED BY <1>3, <1>11, <3>1
  <2> QED BY <1>7, <2>1, <2>2
<1> QED BY <1>8, <1>9, <1>10, <1>11

(* The cell that a call or an entry has written.                           *)
LEMMA WrittenCall ==
  ASSUME Typed, NEW f \in Funcs, NEW op \in {"GOSUB", "ADDR"},
         Added(code, Ins(op, label[f]), code')
  PROVE  /\ Whole(code') /\ Len(code') = Len(code) + 1 /\ Here = Len(code) + 1
         /\ JumpsKept(code, code') /\ CellsKept(code, code')
         /\ code'[Here].op = op /\ code'[Here].n = 0 /\ code'[Here].to = label[f]
         /\ Here \in 1 .. Len(code')
         /\ label \in [Funcs -> 0 .. Len(code') + 1]
<1>1. PICK l \in Nat : l = Len(code) /\ Here = l + 1 /\ Whole(code) BY Facts
<1>2. label \in [Funcs -> 0 .. l + 1] BY <1>1 DEF Typed
<1>3. PICK x : x = Ins(op, label[f]) OBVIOUS
<1>4. x \in Instr /\ x.op = op /\ x.to = label[f] /\ x.n = 0 /\ x.to <= Len(code) + 2
  <2>1. label[f] \in 0 .. l + 1 BY <1>2
  <2>2. label[f] \in Nat /\ label[f] <= Len(code) + 2 BY <1>1, <2>1
  <2>3. op \in Ops BY DEF Ops
  <2> QED BY <1>3, <2>2, <2>3, InsFields
<1>5. /\ Whole(code') /\ Len(code') = Len(code) + 1 /\ code'[Len(code) + 1] = x
      /\ JumpsKept(code, code') /\ CellsKept(code, code')
  BY <1>1, <1>3, <1>4, OneMore
<1>6. label \in [Funcs -> 0 .. Len(code') + 1]
  <2>1. \A z \in 0 .. l + 1 : z \in 0 .. Len(code') + 1 BY <1>1, <1>5
  <2> QED BY <1>2, <2>1
<1> QED BY <1>1, <1>4, <1>5, <1>6

LEMMA CallStep ==
  ASSUME GenInv, NEW f \in Funcs, Call(f)
  PROVE  GenInv'
<1>1. Typed /\ Structure /\ Reads(<<FnTok("call", f)>>)
  BY DEF GenInv, Call
<1>2. PICK w : w = FnTok("call", f) OBVIOUS
<1>3. w \in Token /\ w.fn = f /\ w.at = Here
  <2>1. "call" \in Words BY DEF Words
  <2> QED BY <1>1, <1>2, <2>1, TokenFacts
<1>4. CASE label[f] = 0 /\ ListFull /\ Fail
  BY <1>1, <1>2, <1>3, <1>4, FailAt
<1>5. CASE /\ label[f] # 0 \/ ~ListFull
           /\ code' = Append(code, Ins("GOSUB", label[f]))
           /\ forward_decl' = IF label[f] # 0 THEN forward_decl ELSE Noted(f, Here)
           /\ UNCHANGED <<blocks, context, break_pos, label, err_count, result>>
  <2>1. Added(code, Ins("GOSUB", label[f]), code') BY <1>5 DEF Added
  <2>2. /\ Whole(code') /\ Len(code') = Len(code) + 1 /\ Here = Len(code) + 1
        /\ JumpsKept(code, code') /\ CellsKept(code, code')
        /\ code'[Here].op = "GOSUB" /\ code'[Here].n = 0 /\ code'[Here].to = label[f]
        /\ Here \in 1 .. Len(code')
        /\ label \in [Funcs -> 0 .. Len(code') + 1]
    BY <1>1, <2>1, WrittenCall
  <2>3. /\ NotesKept(forward_decl, forward_decl', Len(code) + 1)
        /\ Len(forward_decl') <= MaxFwDecls
        /\ label[f] # 0 \/ Pending(forward_decl', Here)
        /\ \A k \in 1 .. Len(forward_decl') :
              forward_decl'[k].pos = Here => forward_decl'[k].fn = f
    <3>1. CASE label[f] # 0
      <4>1. forward_decl' = forward_decl BY <1>5, <3>1
      <4>2. forward_decl \in Seq(Note) /\ Len(forward_decl) <= MaxFwDecls
            /\ \A i \in 1 .. Len(forward_decl) : forward_decl[i].pos \in 1 .. Len(code)
        BY <1>1 DEF Typed
      <4>3. Len(forward_decl) <= Len(forward_decl) BY <4>2, LenProperties
      <4>4. Here \notin 1 .. Len(code) BY <1>1, Facts
      <4>5. \A k \in 1 .. Len(forward_decl) : forward_decl[k].pos # Here BY <4>2, <4>4
      <4> QED BY <3>1, <4>1, <4>2, <4>3, <4>5 DEF NotesKept
    <3>2. CASE label[f] = 0
      <4>1. ~ListFull /\ forward_decl' = Noted(f, Here) BY <1>5, <3>2
      <4> QED BY <1>1, <4>1, NotedStep
    <3> QED BY <3>1, <3>2
  <2>4. label' = label BY <1>5
  <2>5. CallIn(code', forward_decl', label', w, "GOSUB")
    BY <1>3, <2>2, <2>3, <2>4 DEF CallIn
  <2>6. /\ blocks' = blocks /\ for_depth' = for_depth /\ loop_type' = loop_type
        /\ in_func' = in_func /\ break_pos' = break_pos /\ UNCHANGED <<err_count, result>>
    BY <1>5 DEF context
  <2>7. Structure'
    <3>1. \A i \in 1 .. Len(break_pos') : JumpAt(code', break_pos'[i])
      BY <1>1, <2>2, <2>6, BreaksStay
    <3>2. Len(break_pos') \in Nat /\ Len(break_pos) <= Len(break_pos') BY <1>1, <2>6, Facts
    <3> QED BY <1>1, <2>2, <2>6, <3>1, <3>2, SameBlocks
  <2>8. loop_type' \in {"none", "for", "while"} /\ for_depth' \in Nat /\ in_func' \in BOOLEAN
    BY <1>1, <2>6 DEF Typed
  <2>9. Len(code') > Len(code) BY <1>1, <2>2, Facts
  <2>10. /\ label' \in [Funcs -> 0 .. Len(code') + 1]
         /\ \A g \in Funcs : label[g] # 0 => label'[g] = label[g]
         /\ \A g \in Funcs : label'[g] # 0 => label[g] # 0
    BY <2>2, <2>4
  <2>11. PICK t : t = "call" OBVIOUS
  <2>12. /\ w = FnTok(t, f) /\ t \in {"call", "entry", "func"} /\ Reads(<<w>>)
         /\ t = "call"  => CallIn(code', forward_decl', label', w, "GOSUB")
         /\ t = "entry" => CallIn(code', forward_decl', label', w, "ADDR")
         /\ t = "func"  => label'[f] = Len(code) + 2
    BY <1>1, <1>2, <2>5, <2>11
  <2> QED BY <2>2, <2>3, <2>6, <2>7, <2>8, <2>9, <2>10, <2>12, CallingStep
<1> QED BY <1>4, <1>5 DEF Call

LEMMA EntryStep ==
  ASSUME GenInv, NEW f \in Funcs, Entry(f)
  PROVE  GenInv'
<1>1. Typed /\ Structure /\ Reads(<<FnTok("entry", f)>>)
  BY DEF GenInv, Entry
<1>2. PICK w : w = FnTok("entry", f) OBVIOUS
<1>3. w \in Token /\ w.fn = f /\ w.at = Here
  <2>1. "entry" \in Words BY DEF Words
  <2> QED BY <1>1, <1>2, <2>1, TokenFacts
<1>4. CASE ListFull /\ Fail
  BY <1>1, <1>2, <1>3, <1>4, FailAt
<1>5. CASE /\ ~ListFull
           /\ forward_decl' = Noted(f, Here)
           /\ code' = Append(code, Ins("ADDR", label[f]))
           /\ UNCHANGED <<blocks, context, break_pos, label, err_count, result>>
  <2>1. Added(code, Ins("ADDR", label[f]), code') BY <1>5 DEF Added
  <2>2. /\ Whole(code') /\ Len(code') = Len(code) + 1 /\ Here = Len(code) + 1
        /\ JumpsKept(code, code') /\ CellsKept(code, code')
        /\ code'[Here].op = "ADDR" /\ code'[Here].n = 0 /\ code'[Here].to = label[f]
        /\ Here \in 1 .. Len(code')
        /\ label \in [Funcs -> 0 .. Len(code') + 1]
    BY <1>1, <2>1, WrittenCall
  <2>3. /\ NotesKept(forward_decl, forward_decl', Len(code) + 1)
        /\ Len(forward_decl') <= MaxFwDecls
        /\ Pending(forward_decl', Here)
        /\ \A k \in 1 .. Len(forward_decl') :
              forward_decl'[k].pos = Here => forward_decl'[k].fn = f
    BY <1>1, <1>5, NotedStep
  <2>4. label' = label BY <1>5
  <2>5. CallIn(code', forward_decl', label', w, "ADDR")
    BY <1>3, <2>2, <2>3, <2>4 DEF CallIn
  <2>6. /\ blocks' = blocks /\ for_depth' = for_depth /\ loop_type' = loop_type
        /\ in_func' = in_func /\ break_pos' = break_pos /\ UNCHANGED <<err_count, result>>
    BY <1>5 DEF context
  <2>7. Structure'
    <3>1. \A i \in 1 .. Len(break_pos') : JumpAt(code', break_pos'[i])
      BY <1>1, <2>2, <2>6, BreaksStay
    <3>2. Len(break_pos') \in Nat /\ Len(break_pos) <= Len(break_pos') BY <1>1, <2>6, Facts
    <3> QED BY <1>1, <2>2, <2>6, <3>1, <3>2, SameBlocks
  <2>8. loop_type' \in {"none", "for", "while"} /\ for_depth' \in Nat /\ in_func' \in BOOLEAN
    BY <1>1, <2>6 DEF Typed
  <2>9. Len(code') > Len(code) BY <1>1, <2>2, Facts
  <2>10. /\ label' \in [Funcs -> 0 .. Len(code') + 1]
         /\ \A g \in Funcs : label[g] # 0 => label'[g] = label[g]
         /\ \A g \in Funcs : label'[g] # 0 => label[g] # 0
    BY <2>2, <2>4
  <2>11. PICK t : t = "entry" OBVIOUS
  <2>12. /\ w = FnTok(t, f) /\ t \in {"call", "entry", "func"} /\ Reads(<<w>>)
         /\ t = "call"  => CallIn(code', forward_decl', label', w, "GOSUB")
         /\ t = "entry" => CallIn(code', forward_decl', label', w, "ADDR")
         /\ t = "func"  => label'[f] = Len(code) + 2
    BY <1>1, <1>2, <2>5, <2>11
  <2> QED BY <2>2, <2>3, <2>6, <2>7, <2>8, <2>9, <2>10, <2>12, CallingStep
<1> QED BY <1>4, <1>5 DEF Entry

-----------------------------------------------------------------------------
(* Tables.                                                                 *)
LEMMA EndEntriesStep ==
  ASSUME GenInv, EndEntries
  PROVE  GenInv'
<1>1. Typed /\ Structure BY DEF GenInv
<1>2. blocks # <<>> /\ Kind = "entries" BY DEF EndEntries, Kind
<1>3. /\ BlockIn(code, Len(break_pos), Top) /\ Kind = Top.kind /\ for_depth = DepthIn(Top)
  BY <1>1, <1>2, TopFacts
<1>4. PICK l \in Nat : l = Len(code) /\ Whole(code) BY <1>1, Facts
<1>5. PICK p : p = Top.pos OBVIOUS
<1>6. JumpAt(code, p) /\ p \in 1 .. l BY <1>2, <1>3, <1>4, <1>5 DEF BlockIn, JumpAt
<1>7. PICK m \in Nat : m = l + 1 BY <1>4
<1>8. IsCode(code, m) BY <1>4, <1>7 DEF Whole
<1>9. code[p] \in Instr /\ code[p].op \in Jumps /\ code[p].to <= m
  BY <1>4, <1>6, <1>8, ElementOfSeq DEF IsCode, JumpAt
<1>10. PICK n : n = l - p OBVIOUS
<1>11. PICK i : i = [code[p] EXCEPT !.n = n] OBVIOUS
<1>12. i \in Instr /\ i.op \in Jumps /\ i.to <= m
  <2>1. n \in Nat BY <1>6, <1>10
  <2> QED BY <1>9, <1>11, <2>1 DEF Instr
<1>13. Rewritten(code, p, i, code')
  BY <1>4, <1>5, <1>10, <1>11 DEF EndEntries, Rewritten
<1>14. IsCode(code', m) /\ Len(code') = l /\ JumpsKept(code, code') /\ CellsKept(code, code')
  BY <1>4, <1>6, <1>8, <1>12, <1>13, RewrittenCode
<1>15. Whole(code') BY <1>7, <1>14 DEF Whole
<1>16. /\ Reads(<<Tok("}")>>) /\ blocks' = Outer /\ for_depth' = for_depth
       /\ loop_type' = loop_type /\ in_func' = in_func /\ break_pos' = break_pos
       /\ UNCHANGED <<forward_decl, label, err_count, result>>
  BY DEF EndEntries, context, lists
<1>17. for_depth' = Top.outer_depth BY <1>2, <1>3, <1>16 DEF DepthIn
<1>18. loop_type' \in {"none", "for", "while"} /\ in_func' \in BOOLEAN
  BY <1>1, <1>16 DEF Typed
<1> QED BY <1>2, <1>14, <1>15, <1>16, <1>17, <1>18, Closing

LEMMA CaseStep ==
  ASSUME GenInv, NEW v \in 0 .. MaxCases, Case(v)
  PROVE  GenInv'
<1>1. Typed /\ Structure /\ Reads(<<CaseTok(v)>>) BY DEF GenInv, Case
<1>2. blocks # <<>> /\ Kind = "dispatch" BY DEF Case, Kind
<1>3. PICK w : w = CaseTok(v) OBVIOUS
<1>4. w \in Token /\ w.tok = "case"
  <2>1. "case" \in Words /\ v \in Nat BY CodeGenAssumption DEF Words, Openers
  <2>2. Tok("case") \in Token /\ Tok("case").tok = "case" BY <1>1, <2>1, TokenFacts
  <2> QED BY <1>3, <2>1, <2>2 DEF CaseTok, Token
<1>5. CASE CaseRefused(v) /\ Fail
  BY <1>1, <1>3, <1>4, <1>5, FailAt
<1>6. CASE /\ ~CaseRefused(v)
           /\ blocks' = Append(Append(Outer, [Top EXCEPT !.case_addrs[v] = Here]),
                               NewBlock("case", 0))
           /\ UNCHANGED <<code, context, lists, err_count, result>>
  <2>1. PICK l \in Nat : l = Len(code) /\ Here = l + 1 /\ Whole(code) BY <1>1, Facts
  <2>2. PICK h \in Nat : h = Here BY <2>1
  <2>3. /\ Top \in Block /\ BlockIn(code, Len(break_pos), Top)
        /\ AllIn(code, Len(break_pos), Outer) /\ Fits(Outer, Top)
        /\ for_depth = DepthIn(Top) /\ Kind = Top.kind
    BY <1>1, <1>2, TopFacts
  <2>4. v \in 0 .. MaxCases - 1 BY <1>6, CodeGenAssumption DEF CaseRefused
  <2>5. PICK a : a = [Top.case_addrs EXCEPT ![v] = h] OBVIOUS
  <2>6. PICK t : t = [Top EXCEPT !.case_addrs[v] = h] OBVIOUS
  <2>7. Top.case_addrs \in [0 .. MaxCases - 1 -> Nat] BY <2>3 DEF Block
  <2>8. a \in [0 .. MaxCases - 1 -> Nat] /\ a[v] = h
        /\ \A u \in 0 .. MaxCases - 1 : a[u] = IF u = v THEN h ELSE Top.case_addrs[u]
    BY ONLY <2>4, <2>5, <2>7, h \in Nat
  <2>9. /\ t \in Block /\ t.case_addrs = a /\ t.kind = Top.kind /\ t.pos = Top.pos
        /\ t.top = Top.top /\ t.ends = Top.ends /\ t.gotos = Top.gotos
        /\ t.first_break = Top.first_break /\ t.outer_depth = Top.outer_depth
    <3>1. t = [Top EXCEPT !.case_addrs = a] BY <2>5, <2>6
    <3> QED BY <2>3, <2>8, <3>1 DEF Block
  <2>10. HasCase(t)
    <3>1. t.case_addrs[v] # 0 BY <2>1, <2>2, <2>8, <2>9
    <3> QED BY <2>4, <3>1 DEF HasCase
  <2>11. BlockIn(code, Len(break_pos), t)
    <3>1. \A u \in 0 .. MaxCases - 1 : t.case_addrs[u] <= Len(code) + 1
      <4> TAKE u \in 0 .. MaxCases - 1
      <4>1. h <= Len(code) + 1 BY <2>1, <2>2
      <4>2. Top.case_addrs[u] <= Len(code) + 1 BY <2>3 DEF BlockIn
      <4> QED BY <2>8, <2>9, <4>1, <4>2
    <3> QED BY <2>3, <2>9, <2>10, <3>1 DEF BlockIn
  <2>12. Fits(Outer, t) BY <2>3, <2>9 DEF Fits
  <2>13. PICK bs : bs = Append(Outer, t) OBVIOUS
  <2>14. AllIn(code, Len(break_pos), bs) /\ Last(bs) = t
    BY <2>3, <2>9, <2>11, <2>12, <2>13, Opens
  <2>15. PICK b : b = NewBlock("case", 0) OBVIOUS
  <2>16. Fresh(b, "case", 0) /\ b.top = 0 /\ b.ends = {}
    <3>1. "case" \in BlockKinds BY DEF BlockKinds
    <3> QED BY <1>1, <2>15, <3>1, FreshBlock
  <2>17. code' = code /\ Whole(code') /\ JumpsKept(code, code') /\ CellsKept(code, code')
    BY <1>6, <2>1, SameCode
  <2>18. b \in Block /\ BlockIn(code', Len(break_pos), b)
    <3>1. b.top <= Len(code') + 1 BY <2>1, <2>16, <2>17
    <3>2. \A p \in b.ends : JumpAt(code', p) BY <2>16
    <3> QED BY <1>1, <2>16, <2>17, <3>1, <3>2, FreshIn
  <2>19. Fits(bs, b)
    <3>1. bs # <<>>
      <4>1. Outer \in Seq(Block) BY <2>3 DEF AllIn
      <4> QED BY <2>9, <2>13, <4>1, AppendProperties
    <3>2. \A i \in 1 .. Len(bs) : bs[i].first_break <= b.first_break
      BY <2>14, <2>16 DEF AllIn, BlockIn, Fresh
    <3>3. b.outer_depth = DepthIn(Last(bs))
      <4>1. t.kind = "dispatch" BY <1>2, <2>3, <2>9
      <4>2. DepthIn(t) = t.outer_depth /\ DepthIn(Top) = Top.outer_depth
        BY <2>9, <4>1 DEF DepthIn
      <4> QED BY <2>3, <2>9, <2>14, <2>16, <4>2 DEF Fresh
    <3> QED BY <2>10, <2>14, <3>1, <3>2, <3>3 DEF Fits
  <2>20. /\ blocks' = Append(bs, b) /\ for_depth' = for_depth /\ loop_type' = loop_type
         /\ in_func' = in_func /\ break_pos' = break_pos
         /\ UNCHANGED <<forward_decl, label, err_count, result>>
    BY <1>6, <2>2, <2>6, <2>13, <2>15 DEF context, lists
  <2>21. for_depth' = DepthIn(b) /\ for_depth' \in Nat
         /\ loop_type' \in {"none", "for", "while"}
    BY <1>1, <2>16, <2>20 DEF DepthIn, Fresh, Typed
  <2>22. PICK ts : ts = <<w>> OBVIOUS
  <2>23. /\ ts \in Seq(Token) /\ Reads(ts)
         /\ \A i \in 1 .. Len(ts) : ts[i].tok \notin {"call", "entry", "func"}
    <3>1. ts \in Seq(Token) /\ Len(ts) = 1 /\ ts[1] = w BY <1>4, <2>22, Short
    <3>2. \A i \in 1 .. Len(ts) : i = 1 BY <3>1
    <3> QED BY <1>1, <1>3, <1>4, <2>22, <3>1, <3>2
  <2> QED BY <2>14, <2>17, <2>18, <2>19, <2>20, <2>21, <2>23, OpeningWords
<1> QED BY <1>5, <1>6 DEF Case

LEMMA EndCaseStep ==
  ASSUME GenInv, EndCase
  PROVE  GenInv'
<1>1. Typed /\ Structure BY DEF GenInv
<1>2. blocks # <<>> /\ Kind = "case" BY DEF EndCase, Kind
<1>3. /\ AllIn(code, Len(break_pos), Outer) /\ Fits(Outer, Top)
      /\ for_depth = DepthIn(Top) /\ Kind = Top.kind
  BY <1>1, <1>2, TopFacts
<1>4. PICK l \in Nat : l = Len(code) /\ Here = l + 1 /\ Whole(code) BY <1>1, Facts
<1>5. PICK o : o = Last(Outer) OBVIOUS
<1>6. Outer # <<>> /\ HasCase(o) /\ for_depth = DepthIn(o)
  BY <1>2, <1>3, <1>5 DEF Fits, DepthIn
<1>7. PICK bs : bs = Front(Outer) OBVIOUS
<1>8. /\ AllIn(code, Len(break_pos), bs) /\ Fits(bs, o) /\ o \in Block
      /\ BlockIn(code, Len(break_pos), o)
  BY <1>3, <1>5, <1>6, <1>7, Closes
<1>9. PICK x : x = Ins("GOTO", Unpatched) OBVIOUS
<1>10. x \in Instr /\ x.op \in Jumps /\ x.to = 0
  BY <1>9, InsFields DEF Ops, Jumps, Unpatched
<1>11. /\ Whole(code') /\ Len(code') = l + 1 /\ code'[l + 1] = x
       /\ JumpsKept(code, code') /\ CellsKept(code, code')
  <2>1. Added(code, x, code') BY <1>9 DEF EndCase, Added
  <2>2. x.to <= Len(code) + 2 BY <1>4, <1>10
  <2> QED BY <1>4, <1>10, <2>1, <2>2, OneMore
<1>12. PICK b : b = [o EXCEPT !.gotos = o.gotos \cup {Here}] OBVIOUS
<1>13. /\ b \in Block /\ b.gotos = o.gotos \cup {Here} /\ b.case_addrs = o.case_addrs
       /\ b.kind = o.kind /\ b.pos = o.pos /\ b.top = o.top /\ b.ends = o.ends
       /\ b.first_break = o.first_break /\ b.outer_depth = o.outer_depth
  <2>1. o.gotos \cup {Here} \in SUBSET Nat BY <1>4, <1>8 DEF Block
  <2> QED BY <1>8, <1>12, <2>1 DEF Block
<1>14. BlockIn(code', Len(break_pos), b)
  <2>1. JumpAt(code', Here) BY <1>4, <1>10, <1>11 DEF JumpAt
  <2>2. Len(break_pos) \in Nat /\ Len(break_pos) <= Len(break_pos) BY <1>1, Facts
  <2>3. BlockIn(code', Len(break_pos), o) BY <1>4, <1>8, <1>11, <2>2, BlockStays
  <2>4. HasCase(b) BY <1>6, <1>13 DEF HasCase
  <2> QED BY <1>13, <2>1, <2>3, <2>4 DEF BlockIn
<1>15. Fits(bs, b) BY <1>8, <1>13 DEF Fits
<1>16. /\ Reads(<<Tok("}")>>) /\ blocks' = Append(bs, b) /\ for_depth' = for_depth
       /\ loop_type' = loop_type /\ in_func' = in_func /\ break_pos' = break_pos
       /\ UNCHANGED <<forward_decl, label, err_count, result>>
  BY <1>5, <1>7, <1>12 DEF EndCase, context, lists
<1>17. for_depth' = DepthIn(b) /\ for_depth' \in Nat /\ loop_type' \in {"none", "for", "while"}
  BY <1>1, <1>6, <1>13, <1>16 DEF DepthIn, Typed
<1>18. "}" \in Words \ {"call", "entry", "func"} BY DEF Words, Openers
<1> QED BY <1>8, <1>11, <1>13, <1>14, <1>15, <1>16, <1>17, <1>18, Opening

(* The table of a dispatch has room for the greatest case value that the   *)
(* program has, and there is one: a table is written only behind a body.   *)
LEMMA TableFacts ==
  ASSUME Typed, NEW b \in Block, BlockIn(code, Len(break_pos), b), b.gotos # {}
  PROVE  /\ CaseCount(b) \in 0 .. MaxCases
         /\ JumpTable(b) \in Seq(Instr) /\ Len(JumpTable(b)) = CaseCount(b)
         /\ Leads(JumpTable(b), Here + CaseCount(b))
<1>1. HasCase(b) BY DEF BlockIn
<1>2. b.case_addrs \in [0 .. MaxCases - 1 -> Nat] BY DEF Block
<1>3. PICK T : T = {v + 1 : v \in {w \in DOMAIN b.case_addrs : b.case_addrs[w] # 0}}
  OBVIOUS
<1>4. T \subseteq 0 .. MaxCases /\ T # {}
  <2>1. DOMAIN b.case_addrs = 0 .. MaxCases - 1 BY <1>2
  <2>2. \A v \in 0 .. MaxCases - 1 : v + 1 \in 0 .. MaxCases BY CodeGenAssumption
  <2>3. T \subseteq 0 .. MaxCases BY <1>3, <2>1, <2>2
  <2>4. PICK v \in 0 .. MaxCases - 1 : b.case_addrs[v] # 0 BY <1>1 DEF HasCase
  <2>5. v + 1 \in T BY <1>3, <2>1, <2>4
  <2> QED BY <2>3, <2>5
<1>5. PICK n : n = CaseCount(b) OBVIOUS
<1>6. n \in 0 .. MaxCases
  <2>1. Max(T) \in T BY <1>4, Greatest, CodeGenAssumption
  <2> QED BY <1>3, <1>4, <1>5, <2>1 DEF CaseCount
<1>7. PICK l \in Nat : l = Len(code) /\ Here = l + 1 BY Facts
<1>8. PICK m \in Nat : m = Here + n BY <1>6, <1>7
<1>9. PICK t : t = JumpTable(b) OBVIOUS
<1>10. t = [i \in 1 .. n |-> Ins("ADDR", IF b.case_addrs[i - 1] # 0 THEN b.case_addrs[i - 1]
                                         ELSE m)]
  BY <1>5, <1>8, <1>9 DEF JumpTable
<1>11. ASSUME NEW i \in 1 .. n PROVE t[i] \in Instr /\ t[i].to <= m
  <2>1. i - 1 \in 0 .. MaxCases - 1 BY <1>6, CodeGenAssumption
  <2>2. PICK a : a = b.case_addrs[i - 1] OBVIOUS
  <2>3. a \in Nat /\ a <= m
    <3>1. a \in Nat BY <1>2, <2>1, <2>2
    <3>2. a <= Len(code) + 1 BY <2>1, <2>2 DEF BlockIn
    <3>3. n \in Nat BY <1>6
    <3> QED BY <1>7, <1>8, <3>1, <3>2, <3>3
  <2>4. PICK z \in Nat : z = IF a # 0 THEN a ELSE m BY <2>3
  <2>5. z <= m BY <2>3, <2>4
  <2>6. t[i] = Ins("ADDR", z) BY <1>10, <2>2, <2>4
  <2>7. "ADDR" \in Ops BY DEF Ops
  <2> QED BY <2>5, <2>6, <2>7, InsFields
<1>12. t \in Seq(Instr) /\ Len(t) = n
  <2>1. n \in Nat /\ DOMAIN t = 1 .. n BY <1>6, <1>10
  <2>2. t \in [1 .. n -> Instr]
    <3>1. t = [i \in 1 .. n |-> t[i]] BY <1>10
    <3> QED BY <1>11, <3>1
  <2> QED BY ONLY <2>1, <2>2
<1>13. Leads(t, m) BY <1>11, <1>12 DEF Leads
<1> QED BY <1>5, <1>6, <1>8, <1>9, <1>12, <1>13

LEMMA EndDispatchStep ==
  ASSUME GenInv, EndDispatch
  PROVE  GenInv'
<1>1. Typed /\ Structure BY DEF GenInv
<1>2. blocks # <<>> /\ Kind = "dispatch" /\ Top.gotos # {} BY DEF EndDispatch, Kind
<1>3. /\ Top \in Block /\ BlockIn(code, Len(break_pos), Top)
      /\ Kind = Top.kind /\ for_depth = DepthIn(Top)
  BY <1>1, <1>2, TopFacts
<1>4. PICK l \in Nat : l = Len(code) /\ Here = l + 1 /\ Whole(code) /\ l > 0 BY <1>1, Facts
<1>5. PICK n : n = CaseCount(Top) OBVIOUS
<1>6. PICK t : t = JumpTable(Top) OBVIOUS
<1>7. PICK m : m = Here + CaseCount(Top) OBVIOUS
<1>8. n \in Nat /\ t \in Seq(Instr) /\ Len(t) = n /\ Leads(t, m)
  <2>1. /\ n \in 0 .. MaxCases /\ t \in Seq(Instr) /\ Len(t) = n /\ Leads(t, m)
    BY <1>1, <1>2, <1>3, <1>5, <1>6, <1>7, TableFacts
  <2> QED BY <2>1
<1>9. m = l + n + 1 /\ m \in Nat /\ m \in 0 .. m /\ Here <= m /\ m <= m
  BY <1>4, <1>5, <1>7, <1>8
<1>10. IsCode(code, m)
  <2>1. code \in Seq(Instr) /\ \A p \in 1 .. l : code[p].to <= l + 1
    BY <1>4 DEF Whole, IsCode
  <2>2. \A p \in 1 .. l : code[p].to <= m
    <3> TAKE p \in 1 .. l
    <3>1. code[p] \in Instr BY <1>4, <2>1, ElementOfSeq
    <3>2. code[p].to \in Nat BY <3>1 DEF Instr
    <3> QED BY <1>8, <1>9, <2>1, <3>2
  <2> QED BY <1>4, <2>1, <2>2 DEF IsCode
<1>11. PICK P : P = Top.gotos OBVIOUS
<1>12. PICK p : p = Top.pos OBVIOUS
<1>13. (\A q \in P : JumpAt(code, q)) /\ JumpAt(code, p)
  BY <1>2, <1>3, <1>11, <1>12 DEF BlockIn
<1>14. PICK c : c = Patched(code, P, m) OBVIOUS
<1>15. IsCode(c, m) /\ Len(c) = l /\ JumpsKept(code, c) /\ CellsKept(code, c)
  BY <1>4, <1>9, <1>10, <1>13, <1>14, PatchedCode
<1>16. JumpAt(c, p)
  BY <1>4, <1>13, <1>15 DEF JumpsKept, JumpAt
<1>17. PICK i : i = InsN("DISPATCH_JMP", Here, n) OBVIOUS
<1>18. i \in Instr /\ i.op \in Jumps /\ i.to <= m
  <2>1. Here \in Nat /\ "DISPATCH_JMP" \in Ops BY <1>4 DEF Ops
  <2>2. i \in Instr /\ i.op = "DISPATCH_JMP" /\ i.to = Here BY <1>8, <1>17, <2>1, InsFields
  <2> QED BY <1>9, <2>2 DEF Jumps
<1>19. PICK d : d = [c EXCEPT ![p] = i] OBVIOUS
<1>20. IsCode(d, m) /\ Len(d) = l /\ JumpsKept(c, d) /\ CellsKept(c, d)
  <2>1. Rewritten(c, p, i, d) BY <1>19 DEF Rewritten
  <2>2. IsCode(d, m) /\ Len(d) = Len(c) /\ JumpsKept(c, d) /\ CellsKept(c, d)
    BY <1>9, <1>15, <1>16, <1>18, <2>1, RewrittenCode
  <2> QED BY <1>15, <2>2
<1>21. IsCode(code', m) /\ Len(code') = l + n /\ JumpsKept(d, code') /\ CellsKept(d, code')
  <2>1. Longer(d, t, code')
    BY <1>5, <1>6, <1>7, <1>11, <1>12, <1>14, <1>17, <1>19 DEF EndDispatch, Longer
  <2>2. IsCode(code', m) /\ Len(code') = Len(d) + Len(t)
        /\ JumpsKept(d, code') /\ CellsKept(d, code')
    BY <1>8, <1>9, <1>20, <2>1, LongerCode
  <2> QED BY <1>8, <1>20, <2>2
<1>22. Whole(code') BY <1>9, <1>21 DEF Whole
<1>23. JumpsKept(code, code') /\ CellsKept(code, code')
  <2>1. /\ code \in Seq(Instr) /\ c \in Seq(Instr) /\ d \in Seq(Instr)
        /\ code' \in Seq(Instr)
    BY <1>10, <1>15, <1>20, <1>21 DEF IsCode
  <2>2. JumpsKept(code, d) /\ CellsKept(code, d) BY <1>15, <1>20, <2>1, ThenKept
  <2> QED BY <1>21, <2>1, <2>2, ThenKept
<1>24. /\ Reads(<<Tok("}")>>) /\ blocks' = Outer /\ for_depth' = for_depth
       /\ loop_type' = loop_type /\ in_func' = in_func /\ break_pos' = break_pos
       /\ UNCHANGED <<forward_decl, label, err_count, result>>
  BY DEF EndDispatch, context, lists
<1>25. for_depth' = Top.outer_depth BY <1>2, <1>3, <1>24 DEF DepthIn
<1>26. loop_type' \in {"none", "for", "while"} /\ in_func' \in BOOLEAN
  BY <1>1, <1>24 DEF Typed
<1> QED BY <1>2, <1>22, <1>23, <1>24, <1>25, <1>26, Closing

-----------------------------------------------------------------------------
(* The end of a line with an error, and the end of the file.               *)
LEMMA SyntaxErrorStep ==
  ASSUME GenInv, SyntaxError
  PROVE  GenInv'
<1>1. Typed BY DEF GenInv
<1>2. "bad" \in Words BY DEF Words
<1>3. Tok("bad") \in Token BY <1>1, <1>2, TokenFacts
<1>4. Reads(<<Tok("bad")>>) /\ Fail BY DEF SyntaxError
<1> QED BY <1>3, <1>4, FailAt

(* The program with the end of the file behind it.                         *)
LEMMA EofFacts ==
  ASSUME Typed, NEW s, s = Append(src, Tok("eof"))
  PROVE  /\ s \in Seq(Token) /\ Len(src) \in Nat /\ Len(s) = Len(src) + 1
         /\ \A i \in 1 .. Len(src) : s[i] = src[i]
         /\ s[Len(src) + 1].tok = "eof"
<1>1. src \in Seq(Token) BY DEF Typed
<1>2. PICK e : e = Tok("eof") OBVIOUS
<1>3. e \in Token /\ e.tok = "eof"
  <2>1. "eof" \in Words BY DEF Words
  <2> QED BY <1>2, <2>1, TokenFacts
<1>4. Len(src) \in Nat BY <1>1, LenProperties
<1> QED BY <1>1, <1>2, <1>3, <1>4, LastOfAppend

LEMMA EndInBlockStep ==
  ASSUME GenInv, EndInBlock
  PROVE  GenInv'
<1>1. Typed BY DEF GenInv
<1>2. src' \in Seq(Token) BY <1>1, EofFacts DEF EndInBlock
<1>3. Fail /\ result = "compiling" BY DEF EndInBlock
<1> QED BY <1>2, <1>3, FailStep

(* The code after the forward declarations are resolved: a noted cell has  *)
(* the label of its function, the others are as before.                    *)
LEMMA ResolvedCode ==
  ASSUME Typed, NEW m \in Nat, Here <= m, NEW c, IsCode(c, m), NEW d, d = Resolved(c)
  PROVE  /\ IsCode(d, m) /\ Len(d) = Len(c) /\ JumpsKept(c, d)
         /\ \A p \in 1 .. Len(c) : d[p].op = c[p].op /\ d[p].n = c[p].n /\ d[p] \in Instr
         /\ \A p \in 1 .. Len(c) : ~Pending(forward_decl, p) => d[p] = c[p]
         /\ \A p \in 1 .. Len(c), f \in Funcs :
              (/\ Pending(forward_decl, p)
               /\ \A k \in 1 .. Len(forward_decl) :
                    forward_decl[k].pos = p => forward_decl[k].fn = f)
              => d[p].to = label[f]
<1>1. PICK l : l = Len(c) OBVIOUS
<1>2. c \in Seq(Instr) /\ l \in Nat /\ l > 0 /\ DOMAIN c = 1 .. l
  BY <1>1, LenProperties DEF IsCode
<1>3. \A p \in 1 .. l : c[p] \in Instr /\ c[p].to <= m
  BY <1>1, <1>2, ElementOfSeq DEF IsCode
<1>4. PICK D : D = ToSet(forward_decl) OBVIOUS
<1>5. D = {forward_decl[i] : i \in 1 .. Len(forward_decl)} /\ D \subseteq Note
  <2>1. forward_decl \in Seq(Note) BY DEF Typed
  <2>2. DOMAIN forward_decl = 1 .. Len(forward_decl) BY <2>1
  <2>3. D = {forward_decl[i] : i \in 1 .. Len(forward_decl)} BY <1>4, <2>2 DEF ToSet
  <2>4. \A i \in 1 .. Len(forward_decl) : forward_decl[i] \in Note BY <2>1, ElementOfSeq
  <2> QED BY <2>3, <2>4
<1>6. \A p : (\E x \in D : x.pos = p) <=> Pending(forward_decl, p)
  BY <1>5 DEF Pending
<1> DEFINE Chosen(p) == CHOOSE x \in D : x.pos = p
<1>7. ASSUME NEW p, Pending(forward_decl, p)
      PROVE  Chosen(p) \in D /\ Chosen(p).pos = p /\ Chosen(p).fn \in Funcs
  <2>1. \E x \in D : x.pos = p BY <1>6, <1>7
  <2>2. Chosen(p) \in D /\ Chosen(p).pos = p BY <2>1
  <2> QED BY <1>5, <2>2 DEF Note
<1>8. d = [p \in 1 .. l |-> IF \E x \in D : x.pos = p
                             THEN [c[p] EXCEPT !.to = label[Chosen(p).fn]] ELSE c[p]]
  BY <1>2, <1>4 DEF Resolved
<1> HIDE DEF Chosen
<1>9. ASSUME NEW p \in 1 .. l, ~Pending(forward_decl, p) PROVE d[p] = c[p]
  BY <1>6, <1>8, <1>9
<1>10. ASSUME NEW p \in 1 .. l, Pending(forward_decl, p)
       PROVE  d[p] \in Instr /\ d[p].to <= m /\ d[p].to = label[Chosen(p).fn]
              /\ d[p].op = c[p].op /\ d[p].n = c[p].n
  <2>1. PICK z : z = label[Chosen(p).fn] OBVIOUS
  <2>2. d[p] = [c[p] EXCEPT !.to = z] BY <1>6, <1>8, <1>10, <2>1
  <2>3. z \in Nat /\ z <= m
    <3>1. Chosen(p).fn \in Funcs BY <1>7, <1>10
    <3>2. z \in 0 .. Here BY <2>1, <3>1 DEF Typed
    <3>3. Here \in Nat BY Facts
    <3> QED BY <3>2, <3>3
  <2>4. c[p] \in Instr BY <1>3
  <2> QED BY <2>1, <2>2, <2>3, <2>4 DEF Instr
<1>11. \A p \in 1 .. l : d[p] \in Instr /\ d[p].to <= m /\ d[p].op = c[p].op /\ d[p].n = c[p].n
  BY <1>3, <1>9, <1>10
<1>12. d \in Seq(Instr) /\ Len(d) = l
  <2>1. d = [p \in 1 .. l |-> d[p]] BY <1>8
  <2>2. d \in [1 .. l -> Instr] BY <1>11, <2>1
  <2> QED BY ONLY <1>2, <2>2, <2>1
<1>13. IsCode(d, m) BY <1>2, <1>11, <1>12 DEF IsCode
<1>14. JumpsKept(c, d) BY <1>1, <1>2, <1>11, <1>12 DEF JumpsKept
<1>15. ASSUME NEW p \in 1 .. l, NEW f \in Funcs, Pending(forward_decl, p),
              \A k \in 1 .. Len(forward_decl) :
                forward_decl[k].pos = p => forward_decl[k].fn = f
       PROVE  d[p].to = label[f]
  <2>1. Chosen(p) \in D /\ Chosen(p).pos = p BY <1>7, <1>15
  <2>2. Chosen(p).fn = f BY <1>5, <1>15, <2>1
  <2> QED BY <1>10, <1>15, <2>2
<1> QED BY <1>1, <1>9, <1>11, <1>12, <1>13, <1>14, <1>15

(* The lists are of no use to a compiler that has ended.                   *)
LEMMA Ended ==
  ASSUME GenInv, blocks' = blocks, UNCHANGED <<context, break_pos, label>>,
         Whole(code'), JumpsKept(code, code'),
         forward_decl' = forward_decl \/ forward_decl' = <<>>,
         src' \in Seq(Token), err_count' \in 0 .. 1, result' \in {"refused", "ok"}
  PROVE  Typed' /\ Structure' /\ Calls'
<1>1. Typed /\ Structure BY DEF GenInv
<1>2. /\ for_depth' = for_depth /\ loop_type' = loop_type /\ in_func' = in_func
      /\ break_pos' = break_pos /\ label' = label
  BY DEF context
<1>3. /\ break_pos' \in Seq(1 .. Len(code')) /\ Len(break_pos') <= MaxBreaks
      /\ \A i \in 1 .. Len(break_pos') : JumpAt(code', break_pos'[i])
  BY <1>1, <1>2, BreaksStay
<1>4. Structure'
  <2>1. Len(break_pos') \in Nat /\ Len(break_pos) <= Len(break_pos') BY <1>1, <1>2, Facts
  <2> QED BY <1>1, <1>2, <1>3, <2>1, SameBlocks
<1>5. PICK l \in Nat : l = Len(code) /\ Here = l + 1 BY <1>1, Facts
<1>6. PICK k \in Nat : k = Len(code') /\ l <= k
  BY <1>5, LenProperties DEF Whole, IsCode, JumpsKept
<1>7. label' \in [Funcs -> 0 .. Here']
  <2>1. label \in [Funcs -> 0 .. l + 1] BY <1>1, <1>5 DEF Typed
  <2>2. \A z \in 0 .. l + 1 : z \in 0 .. k + 1 BY ONLY <1>6, l \in Nat
  <2>3. label \in [Funcs -> 0 .. k + 1] BY ONLY <2>1, <2>2
  <2> QED BY <1>2, <1>6, <2>3 DEF Here
<1>8. /\ forward_decl' \in Seq(Note) /\ Len(forward_decl') <= MaxFwDecls
      /\ \A i \in 1 .. Len(forward_decl') : forward_decl'[i].pos \in 1 .. Len(code')
  <2>1. CASE forward_decl' = forward_decl
    <3>1. \A z \in 1 .. l : z \in 1 .. k BY ONLY <1>6, l \in Nat
    <3> QED BY <1>1, <1>5, <1>6, <2>1, <3>1 DEF Typed
  <2>2. CASE forward_decl' = <<>>
    <3>1. forward_decl' \in Seq(Note) /\ Len(forward_decl') = 0 BY <2>2, EmptySeq
    <3> QED BY <3>1, CodeGenAssumption
  <2> QED BY <2>1, <2>2
<1>9. Typed' BY <1>1, <1>2, <1>3, <1>7, <1>8 DEF Typed
<1>10. Calls' BY DEF Calls, Going
<1> QED BY <1>4, <1>9, <1>10

(* A cell that was a call in the list becomes a call of the label.         *)
LEMMA ArrivedCall ==
  ASSUME GenInv, Going, Unresolved = {}, NEW m \in Nat, Here <= m,
         NEW c, IsCode(c, m), Len(code) <= Len(c),
         \A p \in 1 .. Len(code) : c[p] = code[p],
         NEW d, d = Resolved(c), NEW op,
         NEW t, CallIn(code, forward_decl, label, t, op)
  PROVE  d[t.at] = Ins(op, label[t.fn]) /\ label[t.fn] # 0 /\ t.fn \in Funcs
<1>1. Typed BY DEF GenInv
<1>2. /\ t.fn \in Funcs /\ t.at \in 1 .. Len(code)
      /\ code[t.at].op = op /\ code[t.at].n = 0
      /\ (label[t.fn] # 0 /\ code[t.at].to = label[t.fn]) \/ Pending(forward_decl, t.at)
      /\ \A k \in 1 .. Len(forward_decl) :
            forward_decl[k].pos = t.at => forward_decl[k].fn = t.fn
  BY DEF CallIn
<1>3. PICK p : p = t.at OBVIOUS
<1>4. p \in 1 .. Len(c) /\ c[p] = code[p]
  <2>1. Len(code) \in Nat /\ Len(c) \in Nat BY <1>1, Facts, LenProperties DEF IsCode
  <2>2. p \in 1 .. Len(c) BY ONLY <1>2, <1>3, <2>1, Len(code) <= Len(c)
  <2> QED BY <1>2, <1>3, <2>2
<1>5. /\ d[p].op = c[p].op /\ d[p].n = c[p].n /\ d[p] \in Instr
      /\ ~Pending(forward_decl, p) => d[p] = c[p]
      /\ Pending(forward_decl, p) => d[p].to = label[t.fn]
  BY <1>1, <1>2, <1>3, <1>4, ResolvedCode
<1>6. d[p].to = label[t.fn] BY <1>2, <1>3, <1>4, <1>5
<1>7. label[t.fn] # 0
  <2>1. CASE Pending(forward_decl, p)
    <3>1. PICK k \in 1 .. Len(forward_decl) : forward_decl[k].pos = p
      BY <2>1 DEF Pending
    <3>2. forward_decl[k].fn = t.fn BY <1>2, <1>3, <3>1
    <3>3. DOMAIN forward_decl = 1 .. Len(forward_decl) BY <1>1 DEF Typed
    <3> QED BY <3>1, <3>2, <3>3 DEF Unresolved
  <2>2. CASE ~Pending(forward_decl, p) BY <1>2, <1>3, <2>2
  <2> QED BY <2>1, <2>2
<1>8. d[p] = Ins(op, label[t.fn])
  <2>1. PICK i : i = d[p] OBVIOUS
  <2>2. i \in Instr /\ i.op = op /\ i.to = label[t.fn] /\ i.n = 0
    BY <1>2, <1>3, <1>4, <1>5, <1>6, <2>1
  <2>3. i = Ins(op, label[t.fn]) BY <2>2 DEF Instr, Ins
  <2> QED BY <2>1, <2>3
<1> QED BY <1>2, <1>3, <1>7, <1>8

(* The label of a function is where the program defines it.                *)
LEMMA EntryOfLabel ==
  ASSUME Typed, CallsIn(code, forward_decl, label, src), src' = Append(src, Tok("eof")),
         NEW f \in Funcs, label[f] # 0
  PROVE  EntryIn(src', f) = label[f]
<1>1. PICK s : s = src' OBVIOUS
<1>2. /\ s \in Seq(Token) /\ Len(src) \in Nat /\ Len(s) = Len(src) + 1
      /\ \A i \in 1 .. Len(src) : s[i] = src[i]
      /\ s[Len(src) + 1].tok = "eof"
  BY <1>1, EofFacts
<1>3. DOMAIN s = 1 .. Len(s) /\ DOMAIN src = 1 .. Len(src) BY <1>2 DEF Typed
<1>4. PICK F : F = {i \in DOMAIN s : s[i].tok \in {"func"}} OBVIOUS
<1>5. PICK j : j = CHOOSE i \in F : s[i].fn = f OBVIOUS
<1>6. EntryIn(src', f) = s[j].at + 1 BY <1>1, <1>4, <1>5 DEF EntryIn
<1>7. j \in F /\ s[j].fn = f
  <2>1. PICK i \in 1 .. Len(src) : src[i].tok = "func" /\ src[i].fn = f
    BY DEF CallsIn, Defined
  <2>2. i \in DOMAIN s /\ s[i] = src[i] BY <1>2, <1>3, <2>1
  <2>3. i \in F /\ s[i].fn = f BY <1>4, <2>1, <2>2
  <2> QED BY <1>5, <2>3
<1>8. j \in 1 .. Len(src) /\ s[j] = src[j] /\ src[j].tok = "func"
  <2>1. j \in 1 .. Len(s) /\ s[j].tok = "func" BY <1>3, <1>4, <1>7
  <2>2. j \in 1 .. Len(src) \/ j = Len(src) + 1 BY <1>2, <2>1
  <2>3. j # Len(src) + 1 BY <1>2, <2>1
  <2> QED BY <1>2, <2>1, <2>2, <2>3
<1>9. label[src[j].fn] = src[j].at + 1 BY <1>8 DEF CallsIn, TokensIn
<1> QED BY <1>6, <1>7, <1>8, <1>9

LEMMA EndOfFileStep ==
  ASSUME GenInv, EndOfFile
  PROVE  GenInv'
<1>1. Typed /\ Structure /\ Calls BY DEF GenInv
<1>2. /\ blocks' = blocks /\ UNCHANGED <<context, break_pos, label>>
      /\ label' = label
  BY DEF EndOfFile
<1>3. src' \in Seq(Token)
  <2>1. src \in Seq(Token) BY <1>1 DEF Typed
  <2> QED BY <1>1, <2>1, EofFacts DEF EndOfFile
<1>4. PICK l \in Nat : l = Len(code) /\ Here = l + 1 /\ Whole(code) BY <1>1, Facts
<1>5. CASE /\ err_count > 0 /\ result' = "refused"
           /\ UNCHANGED <<code, forward_decl, err_count>>
  <2>1. Whole(code') /\ JumpsKept(code, code') BY <1>4, <1>5, SameCode
  <2>2. err_count' \in 0 .. 1 BY <1>1, <1>5 DEF Typed
  <2>3. Typed' /\ Structure' /\ Calls' BY <1>2, <1>3, <1>5, <2>1, <2>2, Ended
  <2>4. CallsArrive' BY <1>5 DEF CallsArrive, Compiled
  <2> QED BY <2>3, <2>4 DEF GenInv
<1>6. PICK x : x = Ins("END", 0) OBVIOUS
<1>7. PICK c : c = Append(code, x) OBVIOUS
<1>8. /\ Whole(c) /\ Len(c) = l + 1 /\ JumpsKept(code, c)
      /\ \A p \in 1 .. l : c[p] = code[p]
  <2>1. x \in Instr /\ x.to = 0 BY <1>6, InsFields DEF Ops
  <2>2. Added(code, x, c) /\ x.to <= Len(code) + 2 BY <1>4, <1>7, <2>1 DEF Added
  <2>3. Whole(c) /\ Len(c) = l + 1 /\ JumpsKept(code, c)
    BY <1>4, <2>1, <2>2, OneMore
  <2>4. code \in Seq(Instr) BY <1>4 DEF Whole, IsCode
  <2>5. \A p \in 1 .. Len(code) : c[p] = code[p] BY <1>7, <2>1, <2>4, LastOfAppend
  <2> QED BY <1>4, <2>3, <2>5
<1>9. CASE /\ err_count = 0 /\ Unresolved # {}
           /\ result' = "refused" /\ err_count' = 1
           /\ code' = Append(code, Ins("END", 0))
           /\ UNCHANGED forward_decl
  <2>1. code' = c BY <1>6, <1>7, <1>9
  <2>2. Typed' /\ Structure' /\ Calls'
    <3>1. Whole(code') /\ JumpsKept(code, code') BY <1>8, <2>1
    <3>2. err_count' \in 0 .. 1 /\ result' \in {"refused", "ok"} BY <1>9
    <3>3. forward_decl' = forward_decl BY <1>9
    <3> QED BY <1>2, <1>3, <3>1, <3>2, <3>3, Ended
  <2>3. CallsArrive' BY <1>9 DEF CallsArrive, Compiled
  <2> QED BY <2>2, <2>3 DEF GenInv
<1>10. CASE /\ err_count = 0 /\ Unresolved = {}
            /\ result' = "ok"
            /\ code' = Resolved(Append(code, Ins("END", 0)))
            /\ forward_decl' = <<>>
            /\ UNCHANGED err_count
  <2>1. PICK m \in Nat : m = l + 2 OBVIOUS
  <2>2. code' = Resolved(c) BY <1>6, <1>7, <1>10
  <2>3. IsCode(c, m) /\ Here <= m BY <1>4, <1>8, <2>1 DEF Whole
  <2>4. IsCode(code', m) /\ Len(code') = l + 1 /\ JumpsKept(c, code')
    BY <1>1, <1>8, <2>2, <2>3, ResolvedCode
  <2>5. Whole(code') BY <2>1, <2>4 DEF Whole
  <2>6. JumpsKept(code, code')
    <3>1. Len(code) \in Nat /\ Len(c) \in Nat /\ Len(code') \in Nat /\ Len(code) <= Len(code')
      BY <1>4, <1>8, <2>4
    <3>2. \A p \in 1 .. Len(code) : p \in 1 .. Len(c) BY <1>4, <1>8
    <3>3. \A p \in 1 .. Len(code) : code[p].op \in Jumps => c[p].op \in Jumps
      BY <1>8 DEF JumpsKept
    <3>4. \A p \in 1 .. Len(c) : c[p].op \in Jumps => code'[p].op \in Jumps
      BY <2>4 DEF JumpsKept
    <3> QED BY <3>1, <3>2, <3>3, <3>4 DEF JumpsKept
  <2>7. Typed' /\ Structure' /\ Calls'
    <3>1. err_count' \in 0 .. 1 BY <1>10
    <3> QED BY <1>2, <1>3, <1>10, <2>5, <2>6, <3>1, Ended
  <2>8. Going /\ CallsIn(code, forward_decl, label, src)
    BY <1>1, <1>10 DEF Calls, Going, EndOfFile
  <2>9. src' = Append(src, Tok("eof")) BY <1>10 DEF EndOfFile
  <2>10. /\ src' \in Seq(Token) /\ Len(src) \in Nat /\ Len(src') = Len(src) + 1
         /\ \A i \in 1 .. Len(src) : src'[i] = src[i]
         /\ src'[Len(src) + 1].tok = "eof"
         /\ DOMAIN src' = 1 .. Len(src')
    BY <1>1, <1>3, <2>9, EofFacts
  <2>11. ASSUME NEW i \in DOMAIN src', src'[i].tok # "eof"
         PROVE  i \in 1 .. Len(src) /\ src'[i] = src[i]
    <3>1. i \in 1 .. Len(src) \/ i = Len(src) + 1 BY <2>10
    <3>2. i # Len(src) + 1 BY <2>10, <2>11
    <3> QED BY <2>10, <3>1, <3>2
  <2>12. ASSUME NEW t, NEW op, CallIn(code, forward_decl, label, t, op)
         PROVE  code'[t.at] = Ins(op, EntryIn(src', t.fn))
    <3>1. Len(code) <= Len(c) /\ \A p \in 1 .. Len(code) : c[p] = code[p] BY <1>4, <1>8
    <3>2. code'[t.at] = Ins(op, label[t.fn]) /\ label[t.fn] # 0 /\ t.fn \in Funcs
      BY <1>10, <2>2, <2>3, <2>8, <2>12, <3>1, ArrivedCall
    <3>3. EntryIn(src', t.fn) = label[t.fn] BY <1>1, <2>8, <2>9, <3>2, EntryOfLabel
    <3> QED BY <3>2, <3>3
  <2>13. CallsArrive'
    <3>1. ASSUME NEW i \in DOMAIN src', src'[i].tok = "call"
          PROVE  code'[src'[i].at] = Ins("GOSUB", EntryIn(src', src'[i].fn))
      <4>1. i \in 1 .. Len(src) /\ src'[i] = src[i] BY <2>11, <3>1
      <4>2. CallIn(code, forward_decl, label, src[i], "GOSUB")
        BY <2>8, <3>1, <4>1 DEF CallsIn, TokensIn
      <4> QED BY <2>12, <4>1, <4>2
    <3>2. ASSUME NEW i \in DOMAIN src', src'[i].tok = "entry"
          PROVE  code'[src'[i].at] = Ins("ADDR", EntryIn(src', src'[i].fn))
      <4>1. i \in 1 .. Len(src) /\ src'[i] = src[i] BY <2>11, <3>2
      <4>2. CallIn(code, forward_decl, label, src[i], "ADDR")
        BY <2>8, <3>2, <4>1 DEF CallsIn, TokensIn
      <4> QED BY <2>12, <4>1, <4>2
    <3>3. (\A i \in Tokens({"call"}) : At(i) = Ins("GOSUB", EntryOf(src[i].fn)))'
      BY <3>1 DEF At, Tokens, EntryOf, EntryIn
    <3>4. (\A i \in Tokens({"entry"}) : At(i) = Ins("ADDR", EntryOf(src[i].fn)))'
      BY <3>2 DEF At, Tokens, EntryOf, EntryIn
    <3> QED BY <3>3, <3>4 DEF CallsArrive
  <2> QED BY <2>7, <2>13 DEF GenInv
<1> QED BY <1>5, <1>9, <1>10 DEF EndOfFile

-----------------------------------------------------------------------------
LEMMA InitGen == Init => GenInv
<1> SUFFICES ASSUME Init PROVE GenInv
  OBVIOUS
<1>1. PICK x : x = Ins("RESERVED", 0) OBVIOUS
<1>2. x \in Instr /\ x.to = 0 BY <1>1, InsFields DEF Ops
<1>3. code \in Seq(Instr) /\ Len(code) = 1 /\ code[1] = x
  BY <1>1, <1>2, Short DEF Init
<1>4. Whole(code)
  <2>1. \A p \in 1 .. Len(code) : p = 1 BY <1>3
  <2>2. \A p \in 1 .. Len(code) : code[p].to <= Len(code) + 1 BY <1>2, <1>3, <2>1
  <2> QED BY <1>3, <2>2 DEF Whole, IsCode
<1>5. PICK e : e = <<>> OBVIOUS
<1>6. \A S : e \in Seq(S) BY <1>5, EmptySeq
<1>7. Len(e) = 0 BY <1>5, EmptySeq
<1>8. blocks = e /\ break_pos = e /\ forward_decl = e /\ src = e /\ label = [f \in Funcs |-> 0]
      /\ loop_type = "none" /\ for_depth = 0 /\ in_func = FALSE
      /\ err_count = 0 /\ result = "compiling"
  BY <1>5 DEF Init
<1>9. \A i \in 1 .. Len(e) : FALSE BY <1>7
<1>10. Typed
  <2>1. Here = 2 BY <1>3 DEF Here
  <2>2. label \in [Funcs -> 0 .. Here] BY <1>8, <2>1
  <2>3. Len(break_pos) <= MaxBreaks /\ Len(forward_decl) <= MaxFwDecls
    BY <1>7, <1>8, CodeGenAssumption
  <2>4. /\ break_pos \in Seq(1 .. Len(code)) /\ forward_decl \in Seq(Note)
        /\ src \in Seq(Token)
    BY <1>6, <1>8
  <2>5. \A i \in 1 .. Len(forward_decl) : forward_decl[i].pos \in 1 .. Len(code)
    BY <1>8, <1>9
  <2>6. /\ loop_type \in {"none", "for", "while"} /\ for_depth \in Nat
        /\ err_count \in 0 .. 1 /\ result \in {"compiling", "ok", "refused"}
    BY <1>8
  <2>7. in_func \in BOOLEAN BY DEF Init
  <2> QED BY ONLY <1>4, <2>2, <2>3, <2>4, <2>5, <2>6, <2>7 DEF Typed
<1>11. Structure
  <2>1. AllIn(code, Len(break_pos), e) BY <1>6, <1>9 DEF AllIn, Nested
  <2> QED BY <1>5, <1>8, <1>9, <2>1 DEF Structure
<1>12. Calls
  <2>1. TokensIn(code, forward_decl, label, src) BY <1>8, <1>9 DEF TokensIn
  <2>2. \A f \in Funcs : label[f] = 0 BY <1>8
  <2> QED BY <2>1, <2>2 DEF Calls, CallsIn
<1>13. CallsArrive BY <1>8 DEF CallsArrive, Compiled
<1> QED BY <1>10, <1>11, <1>12, <1>13 DEF GenInv

LEMMA StutterStep ==
  ASSUME GenInv, UNCHANGED vars
  PROVE  GenInv'
<1>1. /\ code' = code /\ blocks' = blocks /\ loop_type' = loop_type
      /\ for_depth' = for_depth /\ in_func' = in_func /\ break_pos' = break_pos
      /\ forward_decl' = forward_decl /\ label' = label /\ err_count' = err_count
      /\ result' = result /\ src' = src
  BY DEF vars, context, lists
<1>2. Typed' BY <1>1 DEF GenInv, Typed, Here
<1>3. Structure' BY <1>1 DEF GenInv, Structure
<1>4. Calls' BY <1>1 DEF GenInv, Calls, Going
<1>5. CallsArrive' BY <1>1 DEF GenInv, CallsArrive, Compiled, At, Tokens, EntryOf
<1> QED BY <1>2, <1>3, <1>4, <1>5 DEF GenInv

(* A compiler that begins once more is as at the start.                    *)
LEMMA NextStep ==
  ASSUME GenInv, [Next]_vars
  PROVE  GenInv' \/ Init'
<1>1. CASE Loops
  BY <1>1, ForStep, WhileStep, EndLoopStep, BreakStep DEF Loops
<1>2. CASE Branches
  BY <1>2, IfStep, EndIfStep, ElseStep, ElseIfStep, LoseLineStep DEF Branches
<1>3. CASE Functions
  BY <1>3, EndFuncStep, ReturnStep, FuncStep, CallStep DEF Functions
<1>4. CASE Tables
  BY <1>4, EntriesStep, EndEntriesStep, DispatchStep, EndCaseStep, EndDispatchStep,
     EntryStep, CaseStep
     DEF Tables
<1>5. CASE Ends
  <2>1. CASE Restart BY <2>1 DEF Restart, Init
  <2>2. CASE SyntaxError BY <2>2, SyntaxErrorStep
  <2>3. CASE EndInBlock BY <2>3, EndInBlockStep
  <2>4. CASE EndOfFile BY <2>4, EndOfFileStep
  <2> QED BY <1>5, <2>1, <2>2, <2>3, <2>4 DEF Ends
<1>6. CASE UNCHANGED vars BY <1>6, StutterStep
<1> QED BY <1>1, <1>2, <1>3, <1>4, <1>5, <1>6 DEF Next

LEMMA GenInvType ==
  ASSUME GenInv
  PROVE  TypeOK
<1>1. Typed /\ AllIn(code, Len(break_pos), blocks) BY DEF GenInv, Structure
<1>2. code \in Seq(Instr) /\ \A p \in 1 .. Len(code) : code[p].to <= Len(code) + 1
  BY <1>1 DEF Typed, Whole, IsCode
<1>3. Len(code) \in Nat /\ DOMAIN code = 1 .. Len(code) /\ Here = Len(code) + 1
  BY <1>1, <1>2, Facts
<1>4. ASSUME NEW p \in DOMAIN code
      PROVE  code[p].op \in Ops /\ code[p].to \in 0 .. Here /\ code[p].n \in Nat
  <2>1. code[p] \in Instr /\ code[p].to <= Len(code) + 1
    BY <1>2, <1>3, ElementOfSeq
  <2>2. code[p].op \in Ops /\ code[p].to \in Nat /\ code[p].n \in Nat BY <2>1 DEF Instr
  <2> QED BY <1>3, <2>1, <2>2
<1>5. ToSet(blocks) \subseteq Block
  <2>1. blocks \in Seq(Block) BY <1>1 DEF AllIn
  <2>2. DOMAIN blocks = 1 .. Len(blocks) BY <2>1
  <2>3. \A i \in DOMAIN blocks : blocks[i] \in Block BY <2>1, <2>2, ElementOfSeq
  <2> QED BY <2>3 DEF ToSet
<1>6. ASSUME NEW i \in DOMAIN forward_decl
      PROVE  forward_decl[i] \in [fn : Funcs, pos : DOMAIN code]
  <2>1. forward_decl \in Seq(Note) /\ i \in 1 .. Len(forward_decl) BY <1>1 DEF Typed
  <2>2. forward_decl[i] \in Note /\ forward_decl[i].pos \in 1 .. Len(code)
    BY <1>1, <2>1, ElementOfSeq DEF Typed
  <2> QED BY <1>3, <2>2 DEF Note
<1>7. /\ break_pos \in Seq(DOMAIN code) /\ Len(break_pos) <= MaxBreaks
      /\ Len(forward_decl) <= MaxFwDecls
      /\ loop_type \in {"none", "for", "while"} /\ for_depth \in Nat /\ in_func \in BOOLEAN
      /\ err_count \in 0 .. 1 /\ result \in {"compiling", "ok", "refused"}
  BY <1>1, <1>3 DEF Typed
<1>8. label \in [Funcs -> Nat]
  <2>1. label \in [Funcs -> 0 .. Here] /\ Here \in Nat BY <1>1, Facts DEF Typed
  <2>2. 0 .. Here \subseteq Nat BY <2>1
  <2> QED BY ONLY <2>1, <2>2
<1> QED BY <1>4, <1>5, <1>6, <1>7, <1>8 DEF TypeOK

(* The invariant of the code generator holds at every moment: the code and *)
(* the lists have their types, what waits for the end of a block is a jump *)
(* of the code, and each call that the compiler has read is either written *)
(* with its label or noted as a forward declaration of that function.      *)
THEOREM GenCorrect == Spec => []GenInv
<1>1. Init => GenInv BY InitGen
<1>2. GenInv /\ [Next]_vars => GenInv' \/ Init' BY NextStep
<1> QED BY <1>1, <1>2, PTL DEF Spec

(* The code, the open blocks and the lists of breaks and of forward        *)
(* declarations are well formed at every moment: no jump leads out of the  *)
(* code, no list is longer than its array.                                 *)
THEOREM TypeCorrect == Spec => []TypeOK
<1>1. GenInv => TypeOK BY GenInvType
<1> QED BY <1>1, GenCorrect, PTL

(* Every call and every entry of a dispatch leads to the function of its   *)
(* name when a program has been compiled, wherever the function is         *)
(* defined, and however often the list of forward declarations was full.   *)
THEOREM CallsCorrect == Spec => []CallsArrive
<1>1. GenInv => CallsArrive BY DEF GenInv
<1> QED BY <1>1, GenCorrect, PTL

(* What the end of a block patches is a jump that was written for it and   *)
(* nothing else: no expression, no call and no entry of a table is         *)
(* overwritten, whatever is opened and closed in between; and the depth    *)
(* of the for loops, which a return takes off the stack, is that of the    *)
(* blocks that are open.                                                   *)
JumpsOnly ==
  /\ \A k \in 1 .. Len(blocks) :
       /\ blocks[k].kind # "case" => JumpAt(code, blocks[k].pos)
       /\ \A p \in blocks[k].ends \cup blocks[k].gotos : JumpAt(code, p)
  /\ \A i \in 1 .. Len(break_pos) : JumpAt(code, break_pos[i])
  /\ blocks # <<>> => for_depth = DepthIn(Last(blocks))
THEOREM JumpsCorrect == Spec => []JumpsOnly
<1>1. GenInv => JumpsOnly BY DEF GenInv, Structure, AllIn, BlockIn, JumpsOnly
<1> QED BY <1>1, GenCorrect, PTL
=============================================================================
