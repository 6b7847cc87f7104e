-------------------------- MODULE CodeMeaningProofs --------------------------
(***************************************************************************)
(* What is proved of the meaning of a program: the code of a compiled      *)
(* program enters, repeats and leaves each block where its braces say, its *)
(* breaks and returns leave the right loops, and a program is refused only *)
(* for a reason that can be seen in it; for programs of every length and   *)
(* depth, every set of functions and lists of every size.                  *)
(*                                                                         *)
(* The inductive invariant (MeaningInv) relates what the compiler keeps to *)
(* the braces of what it has read.  Each block that is open belongs to an  *)
(* open brace, in the same order (Nest, Shape); a token whose block is     *)
(* closed means what it says already (Told), and what it means is not      *)
(* touched by what is read later (the lemmas ...Stays); the branches of an *)
(* if, the breaks and the cases that still wait for an end are those that  *)
(* the blocks and the list of breaks hold (Elses, Breaks, Cases); the      *)
(* flags of the compiler are those of the place that it has come to        *)
(* (Where), and the calls it has noted those of the program (Noting).      *)
(***************************************************************************)
EXTENDS CodeGenProofs, FiniteSetTheorems

-----------------------------------------------------------------------------
(* The braces of a program s, as CodeGen reads them in src.                *)
InTokens(s, S) == {i \in DOMAIN s : s[i].tok \in S}
Brace == {"}"}
LevelIn(s, i)  == Cardinality({j \in InTokens(s, Openers) : j <= i})
                  - Cardinality({j \in InTokens(s, Brace) : j <= i})
AroundIn(s, i, S) ==
  {k \in InTokens(s, S) :
     k < i /\ \A j \in k + 1 .. i - 1 : LevelIn(s, j) >= LevelIn(s, k)}
LoopsIn(s, i, S) ==
  {k \in AroundIn(s, i, S) : k > Innermost(AroundIn(s, i, {"func"}))}
LoopWords == {"for", "while"}
LoopOf(s, i) == Innermost(LoopsIn(s, i, LoopWords))
ContinuedIn(s, j) == j < Len(s) /\ s[j + 1].tok \in {"else", "elseif"}

(* os are the tokens that have opened the blocks which are still open.     *)
OpenAt(s, i, k) ==
  /\ i \in 1 .. Len(s) /\ s[i].tok \in Openers /\ LevelIn(s, i) = k
  /\ \A j \in i .. Len(s) : LevelIn(s, j) >= k
Nest(s, os) ==
  /\ s \in Seq(Token) /\ os \in Seq(Nat)
  /\ LevelIn(s, Len(s)) = Len(os)
  /\ \A i \in 0 .. Len(s) : LevelIn(s, i) >= 0
  /\ \A k \in 1 .. Len(os) : OpenAt(s, os[k], k)
IsOpen(os, i) == \E k \in 1 .. Len(os) : os[k] = i

(* The context of token i: the innermost loop and the number of for loops. *)
ContextAt(s, i, lt, fd) ==
  /\ fd = Cardinality(LoopsIn(s, i, {"for"}))
  /\ lt = IF LoopOf(s, i) = 0 THEN "none" ELSE s[LoopOf(s, i)].tok

(* What a block keeps of the token t that has opened it.                   *)
Slot(t, b) ==
  \/ b.kind = "for" /\ t.tok = "for" /\ b.pos = t.at + 1 /\ b.top = t.at + 2
  \/ b.kind = "while" /\ t.tok = "while" /\ b.pos = t.at + 1 /\ b.top = t.at
  \/ b.kind = "if" /\ t.tok = "if" /\ b.pos = t.at /\ b.ends = {}
  \/ b.kind = "if" /\ t.tok = "elseif" /\ b.pos = t.at + 1 /\ t.at \in b.ends
  \/ b.kind = "else" /\ t.tok = "else" /\ b.pos = t.at
  \/ b.kind = "func" /\ t.tok = "func" /\ b.pos = t.at
  \/ b.kind = "entries" /\ t.tok = "entries" /\ b.pos = t.at
  \/ b.kind = "dispatch" /\ t.tok = "dispatch" /\ b.pos = t.at
  \/ b.kind = "case" /\ t.tok = "case" /\ b.ends = {} /\ b.gotos = {}

HeadOp(kind) == CASE kind = "for"             -> "FOR_CHECK"
                  [] kind \in {"while", "if"} -> "IF"
                  [] kind = "entries"         -> "DISPATCH"
                  [] kind = "dispatch"        -> "DISPATCH_JMP"
                  [] OTHER                    -> "GOTO"
CellAt(c, p, i) == p \in 1 .. Len(c) /\ c[p] = i
Cells(c, b) ==
  /\ b.kind # "case" => CellAt(c, b.pos, Ins(HeadOp(b.kind), 0))
  /\ \A p \in b.ends \cup b.gotos : CellAt(c, p, Ins("GOTO", 0))
  /\ b.kind = "func" => b.pos + 1 \in 1 .. Len(c) /\ c[b.pos + 1].op = "ENTER"

(* The cells that wait for the end of b; no cell waits for two ends.       *)
Holes(b) == b.ends \cup b.gotos \cup (IF b.kind = "case" THEN {} ELSE {b.pos})
Apart(bs, bp) ==
  /\ \A k, m \in 1 .. Len(bs) : k # m => Holes(bs[k]) \cap Holes(bs[m]) = {}
  /\ \A k \in 1 .. Len(bs) : bs[k].pos \notin bs[k].ends \cup bs[k].gotos
  /\ \A k \in 1 .. Len(bs), x \in 1 .. Len(bp) : bp[x] \notin Holes(bs[k])
  /\ \A x, y \in 1 .. Len(bp) : x # y => bp[x] # bp[y]

Placed(c, s) == \A i \in 1 .. Len(s) : s[i].at \in 1 .. Len(c) + 1
BlockOf(c, s, i, b) ==
  /\ Slot(s[i], b) /\ Cells(c, b) /\ ContextAt(s, i, b.outer_loop, b.outer_depth)
Shape(c, s, os, bs, bp) ==
  /\ Nest(s, os) /\ Len(os) = Len(bs) /\ Placed(c, s) /\ Apart(bs, bp)
  /\ \A k \in 1 .. Len(bs) : BlockOf(c, s, os[k], bs[k])

-----------------------------------------------------------------------------
(* What a block means once it is closed.                                   *)
NextAt(c, s, j) == IF j < Len(s) THEN s[j + 1].at ELSE Len(c) + 1
Closer(s, i, j) ==
  /\ j \in i + 1 .. Len(s) /\ s[j].tok = "}" /\ LevelIn(s, j) = LevelIn(s, i) - 1
  /\ \A x \in i .. j - 1 : LevelIn(s, x) >= LevelIn(s, i)
Exit(s, i, j) == Closer(s, i, j) /\ ~ContinuedIn(s, j)

LoopHead(t) == IF t.tok = "for" THEN "FOR_CHECK" ELSE "IF"
LoopTop(t)  == IF t.tok = "for" THEN t.at + 2 ELSE t.at
LoopBack(t) == IF t.tok = "for" THEN "NEXT" ELSE "GOTO"
LoopDone(c, s, i) == \E j \in 1 .. Len(s) :
  /\ Exit(s, i, j)
  /\ CellAt(c, s[i].at + 1, Ins(LoopHead(s[i]), NextAt(c, s, j)))
  /\ CellAt(c, s[j].at, Ins(LoopBack(s[i]), LoopTop(s[i])))

CondAt(t) == IF t.tok = "if" THEN t.at ELSE t.at + 1
CondDone(c, s, i) == \E j \in 1 .. Len(s) :
  /\ Closer(s, i, j)
  /\ CellAt(c, CondAt(s[i]),
            Ins("IF", NextAt(c, s, j) + (IF ContinuedIn(s, j) THEN 1 ELSE 0)))

FuncDone(c, s, i) == \E j \in 1 .. Len(s) :
  /\ Exit(s, i, j)
  /\ CellAt(c, s[i].at, Ins("GOTO", NextAt(c, s, j)))
  /\ s[i].at + 1 \in 1 .. Len(c) /\ c[s[i].at + 1].op = "ENTER"
  /\ CellAt(c, s[j].at, Ins("LEAVE", 0))

CasesIn(s, i, j) ==
  {k \in InTokens(s, {"case"}) : k > i /\ k < j /\ LevelIn(s, k) = LevelIn(s, i) + 1}
CasesOfVal(s, i, j, v) == {k \in CasesIn(s, i, j) : s[k].val = v}
BodyIn(c, s, i, j, v) == IF CasesOfVal(s, i, j, v) = {} THEN NextAt(c, s, j)
                         ELSE s[Max(CasesOfVal(s, i, j, v))].at
IsCount(s, K, n) == /\ \E k \in K : n = s[k].val + 1
                    /\ \A k \in K : s[k].val + 1 <= n
TableIn(c, s, i, j, h, n) ==
  \A v \in 0 .. n - 1 : CellAt(c, h + v, Ins("ADDR", BodyIn(c, s, i, j, v)))
DispatchDone(c, s, i) == \E j \in 1 .. Len(s) :
  /\ Exit(s, i, j) /\ s[i].at \in 1 .. Len(c)
  /\ c[s[i].at].op = "DISPATCH_JMP" /\ c[s[i].at].to # 0
  /\ IsCount(s, CasesIn(s, i, j), c[s[i].at].n)
  /\ TableIn(c, s, i, j, c[s[i].at].to, c[s[i].at].n)
  /\ \A k \in CasesIn(s, i, j) :
       \E m \in 1 .. Len(s) : /\ Closer(s, k, m)
                              /\ CellAt(c, s[m].at, Ins("GOTO", NextAt(c, s, j)))

ReturnDone(c, s, i) ==
  LET n == Cardinality(LoopsIn(s, i, {"for"})) IN
  /\ n > 0 => CellAt(c, s[i].at, InsN("FOR_LEAVE", 0, n))
  /\ CellAt(c, s[i].at + (IF n > 0 THEN 1 ELSE 0), Ins("LEAVE", 0))

Done(c, s, i) ==
  /\ s[i].tok \in LoopWords        => LoopDone(c, s, i)
  /\ s[i].tok \in {"if", "elseif"} => CondDone(c, s, i)
  /\ s[i].tok = "func"             => FuncDone(c, s, i)
  /\ s[i].tok = "dispatch"         => DispatchDone(c, s, i)
  /\ s[i].tok = "return"           => ReturnDone(c, s, i)
Told(c, s, os) == \A i \in 1 .. Len(s) : IsOpen(os, i) \/ Done(c, s, i)

(* The jumps over the other branches of an if.                             *)
LastCloser(s, i, j) ==
  /\ j \in i + 1 .. Len(s) /\ s[j].tok = "}" /\ LevelIn(s, j) = LevelIn(s, i) - 1
  /\ ~ContinuedIn(s, j)
  /\ \A x \in i + 1 .. j - 1 : /\ s[x].tok = "}" /\ LevelIn(s, x) = LevelIn(s, i) - 1
                               => ContinuedIn(s, x)
ElseDone(c, s, i) == \E j \in 1 .. Len(s) :
  LastCloser(s, i, j) /\ CellAt(c, s[i].at, Ins("GOTO", NextAt(c, s, j)))
Chain(b) == b.ends \cup (IF b.kind = "else" THEN {b.pos} ELSE {})
ElseWaits(s, bs, i, k) ==
  /\ k \in 1 .. Len(bs) /\ s[i].at \in Chain(bs[k]) /\ bs[k].kind \in {"if", "else"}
  /\ LevelIn(s, i) = k
  /\ \A x \in i + 1 .. Len(s) : s[x].tok = "}" /\ LevelIn(s, x) = k - 1 => ContinuedIn(s, x)
Elses(c, s, bs) == \A i \in 1 .. Len(s) : s[i].tok \in {"else", "elseif"} =>
  ElseDone(c, s, i) \/ \E k \in 1 .. Len(bs) : ElseWaits(s, bs, i, k)

(* A break goes behind its loop, or waits for the loop's end as number x   *)
(* of the list.                                                            *)
BreakOp(t) == IF t.tok = "for" THEN "BREAK_FOR" ELSE "GOTO"
BreakDone(c, s, i) == \E j \in 1 .. Len(s) :
  /\ LoopOf(s, i) # 0 /\ Exit(s, LoopOf(s, i), j)
  /\ CellAt(c, s[i].at, Ins(BreakOp(s[LoopOf(s, i)]), NextAt(c, s, j)))
BreakFor(s, os, bs, i, x, q) ==
  /\ q \in 1 .. Len(os) /\ os[q] = LoopOf(s, i) /\ bs[q].kind \in LoopWords
  /\ bs[q].first_break < x
  /\ \A r \in q + 1 .. Len(os) : bs[r].kind \in LoopWords => x <= bs[r].first_break
BreakWaits(c, s, os, bs, bp, i, x) ==
  /\ s[i].tok = "break" /\ bp[x] = s[i].at
  /\ LoopOf(s, i) # 0 /\ CellAt(c, bp[x], Ins(BreakOp(s[LoopOf(s, i)]), 0))
  /\ \E q \in 1 .. Len(os) : BreakFor(s, os, bs, i, x, q)
Breaks(c, s, os, bs, bp) ==
  /\ \A x \in 1 .. Len(bp) : \E i \in 1 .. Len(s) : BreakWaits(c, s, os, bs, bp, i, x)
  /\ \A i \in 1 .. Len(s) : s[i].tok = "break" =>
       BreakDone(c, s, i) \/ \E x \in 1 .. Len(bp) : BreakWaits(c, s, os, bs, bp, i, x)

(* The cases of an open dispatch.                                          *)
CaseIn(s, os, bs, q, k) ==
  /\ s[k].val \in 0 .. MaxCases - 1 /\ bs[q].case_addrs[s[k].val] = s[k].at
  /\ \/ IsOpen(os, k)
     \/ \E m \in 1 .. Len(s) : Closer(s, k, m) /\ s[m].at \in bs[q].gotos
CasesAt(s, os, bs, q) ==
  /\ \A k \in CasesIn(s, os[q], Len(s) + 1) : CaseIn(s, os, bs, q, k)
  /\ \A v \in 0 .. MaxCases - 1 : bs[q].case_addrs[v] # 0 =>
       \E k \in CasesIn(s, os[q], Len(s) + 1) : s[k].val = v
Cases(s, os, bs) ==
  \A q \in 1 .. Len(bs) : bs[q].kind = "dispatch" => CasesAt(s, os, bs, q)

(* The calls that wait, and where the compiler is.                         *)
NoteIn(c, s, lab, d) ==
  /\ d.pos \in 1 .. Len(c) /\ c[d.pos].op \in {"GOSUB", "ADDR"}
  /\ c[d.pos].to \in {0, lab[d.fn]}
  /\ \E i \in 1 .. Len(s) :
       /\ s[i].at = d.pos /\ s[i].fn = d.fn
       /\ \/ s[i].tok = "entry"
          \/ s[i].tok = "call" /\ \A j \in 1 .. Len(s) :
               s[j].tok = "func" /\ s[j].fn = d.fn => j > i
Notes(c, s, fd, lab) ==
  /\ \A x \in 1 .. Len(fd) : NoteIn(c, s, lab, fd[x])
  /\ \A x, y \in 1 .. Len(fd) : x # y => fd[x].pos # fd[y].pos
OutsideIn(s, i) ==
  LET k == Innermost(AroundIn(s, i, {"func"})) IN
  k = 0 \/ \E j \in 1 .. Len(s) : s[j].tok = "func" /\ k < j /\ j \notin AroundIn(s, i, {"func"})

ReadIn(c, s, os, bs, bp) ==
  /\ Shape(c, s, os, bs, bp) /\ Told(c, s, os) /\ Elses(c, s, bs)
  /\ Breaks(c, s, os, bs, bp) /\ Cases(s, os, bs)

-----------------------------------------------------------------------------
(* The level of the braces.                                                *)
Begins(s, ss) ==
  /\ s \in Seq(Token) /\ ss \in Seq(Token) /\ Len(s) <= Len(ss)
  /\ \A i \in 1 .. Len(s) : ss[i] = s[i]
Turn(t) == IF t.tok \in Openers THEN 1 ELSE IF t.tok = "}" THEN -1 ELSE 0

UpTo(s, S, i) == {j \in InTokens(s, S) : j <= i}

LEMMA TokenSets ==
  ASSUME NEW s \in Seq(Token), NEW S, NEW i \in Int
  PROVE  /\ IsFiniteSet(UpTo(s, S, i)) /\ Cardinality(UpTo(s, S, i)) \in Nat
         /\ DOMAIN s = 1 .. Len(s) /\ Len(s) \in Nat
<1>1. Len(s) \in Nat /\ DOMAIN s = 1 .. Len(s) BY LenProperties
<1>2. IsFiniteSet(1 .. Len(s)) BY <1>1, FS_Interval
<1>3. UpTo(s, S, i) \in SUBSET (1 .. Len(s)) BY <1>1 DEF InTokens, UpTo
<1>4. IsFiniteSet(UpTo(s, S, i)) BY <1>2, <1>3, FS_Subset
<1> QED BY <1>1, <1>4, FS_CardinalityType

LEMMA CountStep ==
  ASSUME NEW s \in Seq(Token), NEW S, NEW i \in 1 .. Len(s), NEW h, h = i - 1
  PROVE  Cardinality(UpTo(s, S, i))
           = IF s[i].tok \in S THEN Cardinality(UpTo(s, S, h)) + 1
                               ELSE Cardinality(UpTo(s, S, h))
<1>1. Len(s) \in Nat /\ DOMAIN s = 1 .. Len(s) BY LenProperties
<1>2. h \in Int /\ i \in Int OBVIOUS
<1>3. IsFiniteSet(UpTo(s, S, h)) BY <1>2, TokenSets
<1>4. i \notin UpTo(s, S, h) BY DEF UpTo
<1>5. \A j \in 1 .. Len(s) : j <= i <=> (j <= h \/ j = i) BY <1>1
<1>6. CASE s[i].tok \in S
  <2>1. UpTo(s, S, i) = UpTo(s, S, h) \cup {i}
    BY <1>1, <1>5, <1>6 DEF UpTo, InTokens
  <2> QED BY <1>3, <1>4, <1>6, <2>1, FS_AddElement
<1>7. CASE s[i].tok \notin S
  <2>1. UpTo(s, S, i) = UpTo(s, S, h) BY <1>1, <1>5, <1>7 DEF UpTo, InTokens
  <2> QED BY <1>7, <2>1
<1> QED BY <1>6, <1>7

LEMMA LevelCount ==
  ASSUME NEW s, NEW i
  PROVE  LevelIn(s, i) = Cardinality(UpTo(s, Openers, i)) - Cardinality(UpTo(s, Brace, i))
  BY DEF LevelIn, UpTo

LEMMA LevelType ==
  ASSUME NEW s \in Seq(Token), NEW i \in Int
  PROVE  LevelIn(s, i) \in Int
<1>1. /\ Cardinality(UpTo(s, Openers, i)) \in Nat
      /\ Cardinality(UpTo(s, Brace, i)) \in Nat
  BY TokenSets
<1> QED BY <1>1, LevelCount

LEMMA LevelStep ==
  ASSUME NEW s \in Seq(Token), NEW i \in 1 .. Len(s), NEW h, h = i - 1
  PROVE  LevelIn(s, i) = LevelIn(s, h) + Turn(s[i])
<1>1. h \in Int OBVIOUS
<1>2. PICK a \in Nat : a = Cardinality(UpTo(s, Openers, h)) BY <1>1, TokenSets
<1>3. PICK b \in Nat : b = Cardinality(UpTo(s, Brace, h)) BY <1>1, TokenSets
<1>4. PICK l : l = LevelIn(s, h) OBVIOUS
<1>5. l = a - b BY <1>2, <1>3, <1>4, LevelCount
<1>6. Cardinality(UpTo(s, Openers, i)) = IF s[i].tok \in Openers THEN a + 1 ELSE a
  BY <1>2, CountStep
<1>7. Cardinality(UpTo(s, Brace, i)) = IF s[i].tok \in Brace THEN b + 1 ELSE b
  BY <1>3, CountStep
<1>8. PICK n : n = LevelIn(s, i) OBVIOUS
<1>9. n = (IF s[i].tok \in Openers THEN a + 1 ELSE a) - (IF s[i].tok = "}" THEN b + 1 ELSE b)
  BY <1>6, <1>7, <1>8, LevelCount DEF Brace
<1>10. "}" \notin Openers BY DEF Openers
<1>11. n = l + Turn(s[i])
  <2>1. CASE s[i].tok \in Openers
    <3>1. n = (a + 1) - b /\ Turn(s[i]) = 1 BY <1>9, <1>10, <2>1 DEF Turn
    <3> QED BY ONLY <1>5, <3>1, a \in Nat, b \in Nat
  <2>2. CASE s[i].tok = "}"
    <3>1. n = a - (b + 1) /\ Turn(s[i]) = -1 BY <1>9, <1>10, <2>2 DEF Turn
    <3> QED BY ONLY <1>5, <3>1, a \in Nat, b \in Nat
  <2>3. CASE s[i].tok \notin Openers /\ s[i].tok # "}"
    <3>1. n = a - b /\ Turn(s[i]) = 0 BY <1>9, <2>3 DEF Turn
    <3> QED BY ONLY <1>5, <3>1, a \in Nat, b \in Nat
  <2> QED BY <2>1, <2>2, <2>3
<1> QED BY <1>4, <1>8, <1>11

(* What a program means so far is not changed by what is read next.        *)
LEMMA LevelSame ==
  ASSUME NEW s, NEW ss, Begins(s, ss), NEW i \in Int, i <= Len(s)
  PROVE  LevelIn(ss, i) = LevelIn(s, i)
<1>1. /\ Len(s) \in Nat /\ DOMAIN s = 1 .. Len(s) /\ Len(ss) \in Nat
      /\ DOMAIN ss = 1 .. Len(ss) /\ Len(s) <= Len(ss)
      /\ \A j \in 1 .. Len(s) : ss[j] = s[j]
  BY LenProperties DEF Begins
<1>2. ASSUME NEW S
      PROVE  UpTo(ss, S, i) = UpTo(s, S, i)
  <2>1. ASSUME NEW j, j \in InTokens(ss, S), j <= i PROVE j \in InTokens(s, S)
    <3>1. j \in 1 .. Len(ss) BY <1>1, <2>1 DEF InTokens
    <3>2. j \in 1 .. Len(s) BY ONLY <1>1, <2>1, <3>1, i \in Int, i <= Len(s)
    <3> QED BY <1>1, <2>1, <3>2 DEF InTokens
  <2>2. ASSUME NEW j, j \in InTokens(s, S) PROVE j \in InTokens(ss, S)
    <3>1. j \in 1 .. Len(s) BY <1>1, <2>2 DEF InTokens
    <3>2. j \in 1 .. Len(ss) BY ONLY <1>1, <3>1
    <3> QED BY <1>1, <2>2, <3>1, <3>2 DEF InTokens
  <2> QED BY <2>1, <2>2 DEF UpTo
<1> QED BY <1>2, LevelCount

LEMMA AroundSame ==
  ASSUME NEW s, NEW ss, Begins(s, ss), NEW i \in Int, i <= Len(s) + 1, NEW S
  PROVE  AroundIn(ss, i, S) = AroundIn(s, i, S)
<1>1. /\ Len(s) \in Nat /\ DOMAIN s = 1 .. Len(s) /\ Len(ss) \in Nat
      /\ DOMAIN ss = 1 .. Len(ss) /\ Len(s) <= Len(ss)
      /\ \A j \in 1 .. Len(s) : ss[j] = s[j]
  BY LenProperties DEF Begins
<1>2. ASSUME NEW k, k < i
      PROVE  k \in InTokens(ss, S) <=> k \in InTokens(s, S)
  <2>1. k \in InTokens(ss, S) => k \in 1 .. Len(ss) BY <1>1 DEF InTokens
  <2>2. k \in 1 .. Len(ss) => k \in 1 .. Len(s)
    BY ONLY <1>1, <1>2, i \in Int, i <= Len(s) + 1
  <2>3. k \in 1 .. Len(s) => k \in 1 .. Len(ss) BY ONLY <1>1
  <2> QED BY <1>1, <2>1, <2>2, <2>3 DEF InTokens
<1>3. ASSUME NEW k \in InTokens(s, S), k < i
      PROVE  (\A j \in k + 1 .. i - 1 : LevelIn(ss, j) >= LevelIn(ss, k))
               <=> (\A j \in k + 1 .. i - 1 : LevelIn(s, j) >= LevelIn(s, k))
  <2>1. k \in 1 .. Len(s) BY <1>1 DEF InTokens
  <2>2. \A j \in k + 1 .. i - 1 : j \in Int /\ j <= Len(s)
    BY ONLY <1>1, <2>1, i \in Int, i <= Len(s) + 1
  <2>3. k \in Int /\ k <= Len(s) BY <1>1, <2>1
  <2>4. LevelIn(ss, k) = LevelIn(s, k) BY <2>3, LevelSame
  <2>5. \A j \in k + 1 .. i - 1 : LevelIn(ss, j) = LevelIn(s, j) BY <2>2, LevelSame
  <2> QED BY <2>4, <2>5
<1> QED BY <1>2, <1>3 DEF AroundIn

-----------------------------------------------------------------------------
(* The open blocks.                                                        *)
LEMMA NestFacts ==
  ASSUME NEW s, NEW os, Nest(s, os)
  PROVE  /\ s \in Seq(Token) /\ Len(s) \in Nat /\ Len(os) \in Nat
         /\ LevelIn(s, Len(s)) = Len(os)
         /\ \A i \in 0 .. Len(s) : LevelIn(s, i) \in Nat
         /\ \A i, h \in 0 .. Len(s) : h = i - 1 =>
              LevelIn(s, i) = LevelIn(s, h) + Turn(s[i])
         /\ \A k \in 1 .. Len(os) :
              /\ os[k] \in 1 .. Len(s) /\ s[os[k]].tok \in Openers
              /\ LevelIn(s, os[k]) = k
              /\ \A j \in os[k] .. Len(s) : LevelIn(s, j) >= k
<1>1. s \in Seq(Token) /\ Len(s) \in Nat /\ Len(os) \in Nat
  BY LenProperties DEF Nest
<1>2. ASSUME NEW i \in 0 .. Len(s) PROVE LevelIn(s, i) \in Nat
  <2>1. LevelIn(s, i) \in Int BY <1>1, LevelType
  <2> QED BY <2>1 DEF Nest
<1>3. ASSUME NEW i \in 0 .. Len(s), NEW h \in 0 .. Len(s), h = i - 1
      PROVE  LevelIn(s, i) = LevelIn(s, h) + Turn(s[i])
  <2>1. i \in 1 .. Len(s) BY ONLY <1>1, <1>3
  <2> QED BY <1>1, <1>3, <2>1, LevelStep
<1> QED BY <1>1, <1>2, <1>3 DEF Nest, OpenAt

LEMMA OpenUnique ==
  ASSUME NEW s, NEW os, Nest(s, os), NEW k, NEW i, NEW j,
         OpenAt(s, i, k), OpenAt(s, j, k)
  PROVE  i = j
<1>1. /\ Len(s) \in Nat
      /\ \A x \in 0 .. Len(s) : LevelIn(s, x) \in Nat
      /\ \A x, h \in 0 .. Len(s) : h = x - 1 => LevelIn(s, x) = LevelIn(s, h) + Turn(s[x])
  BY NestFacts
<1>2. ASSUME NEW a, NEW b, OpenAt(s, a, k), OpenAt(s, b, k), a < b PROVE FALSE
  <2>1. /\ a \in 1 .. Len(s) /\ b \in 1 .. Len(s)
        /\ LevelIn(s, b) = k /\ s[b].tok \in Openers
        /\ \A x \in a .. Len(s) : LevelIn(s, x) >= k
    BY <1>2 DEF OpenAt
  <2>2. PICK h : h = b - 1 OBVIOUS
  <2>3. h \in 0 .. Len(s) /\ h \in a .. Len(s) /\ b \in 0 .. Len(s)
    BY ONLY <1>1, <1>2, <2>1, <2>2
  <2>4. LevelIn(s, b) = LevelIn(s, h) + 1 BY <1>1, <2>1, <2>2, <2>3 DEF Turn
  <2>5. LevelIn(s, h) \in Nat /\ LevelIn(s, h) >= k BY <1>1, <2>1, <2>3
  <2>6. PICK l : l = LevelIn(s, h) OBVIOUS
  <2> QED BY ONLY <2>1, <2>4, <2>5, <2>6
<1>3. i \in 1 .. Len(s) /\ j \in 1 .. Len(s) BY DEF OpenAt
<1>4. i < j \/ j < i \/ i = j BY ONLY <1>1, <1>3
<1> QED BY <1>2, <1>4

LEMMA OpenOrder ==
  ASSUME NEW s, NEW os, Nest(s, os), NEW j \in 1 .. Len(os), NEW k \in 1 .. Len(os), j < k
  PROVE  os[j] < os[k]
<1>1. /\ Len(s) \in Nat /\ Len(os) \in Nat
      /\ os[j] \in 1 .. Len(s) /\ os[k] \in 1 .. Len(s)
      /\ LevelIn(s, os[j]) = j /\ \A x \in os[k] .. Len(s) : LevelIn(s, x) >= k
  BY NestFacts
<1>2. PICK a : a = os[j] OBVIOUS
<1>3. PICK b : b = os[k] OBVIOUS
<1>4. b <= a => a \in b .. Len(s) BY ONLY <1>1, <1>2, <1>3
<1>5. b <= a => j >= k BY <1>1, <1>2, <1>3, <1>4
<1> QED BY ONLY <1>1, <1>2, <1>3, <1>5, j < k, j \in 1 .. Len(os), k \in 1 .. Len(os)

LEMMA AroundSome ==
  ASSUME NEW s, NEW i, NEW S \in SUBSET Openers, NEW k
  PROVE  k \in AroundIn(s, i, S) <=> k \in AroundIn(s, i, Openers) /\ s[k].tok \in S
  BY DEF AroundIn, InTokens

LEMMA AroundEnd ==
  ASSUME NEW s, NEW os, Nest(s, os), NEW e, e = Len(s) + 1, NEW k
  PROVE  k \in AroundIn(s, e, Openers) <=> IsOpen(os, k)
<1>1. /\ s \in Seq(Token) /\ Len(s) \in Nat /\ Len(os) \in Nat
      /\ LevelIn(s, Len(s)) = Len(os)
      /\ \A i \in 0 .. Len(s) : LevelIn(s, i) \in Nat
      /\ \A x, h \in 0 .. Len(s) : h = x - 1 => LevelIn(s, x) = LevelIn(s, h) + Turn(s[x])
      /\ \A i \in 1 .. Len(os) :
              /\ os[i] \in 1 .. Len(s) /\ s[os[i]].tok \in Openers
              /\ LevelIn(s, os[i]) = i
              /\ \A j \in os[i] .. Len(s) : LevelIn(s, j) >= i
  BY NestFacts
<1>2. DOMAIN s = 1 .. Len(s) BY <1>1
<1>3. ASSUME IsOpen(os, k) PROVE k \in AroundIn(s, e, Openers)
  <2>1. PICK i \in 1 .. Len(os) : os[i] = k BY <1>3 DEF IsOpen
  <2>2. k \in 1 .. Len(s) /\ s[k].tok \in Openers /\ LevelIn(s, k) = i BY <1>1, <2>1
  <2>3. k < e /\ \A j \in k + 1 .. e - 1 : j \in k .. Len(s) BY ONLY <1>1, <2>2, e = Len(s) + 1
  <2>4. \A j \in k + 1 .. e - 1 : LevelIn(s, j) >= i BY <1>1, <2>1, <2>3
  <2> QED BY <1>2, <2>2, <2>3, <2>4 DEF AroundIn, InTokens
<1>4. ASSUME k \in AroundIn(s, e, Openers) PROVE IsOpen(os, k)
  <2>1. k \in 1 .. Len(s) /\ s[k].tok \in Openers BY <1>2, <1>4 DEF AroundIn, InTokens
  <2>2. \A j \in k + 1 .. e - 1 : LevelIn(s, j) >= LevelIn(s, k) BY <1>4 DEF AroundIn
  <2>3. PICK h : h = k - 1 OBVIOUS
  <2>4. h \in 0 .. Len(s) /\ k \in 0 .. Len(s) BY ONLY <1>1, <2>1, <2>3
  <2>5. LevelIn(s, k) = LevelIn(s, h) + 1 BY <1>1, <2>1, <2>3, <2>4 DEF Turn
  <2>6. PICK l : l = LevelIn(s, k) OBVIOUS
  <2>7. l \in Nat /\ l >= 1
    <3>1. LevelIn(s, h) \in Nat /\ LevelIn(s, k) \in Nat BY <1>1, <2>4
    <3>2. PICK m : m = LevelIn(s, h) OBVIOUS
    <3> QED BY ONLY <2>5, <2>6, <3>1, <3>2
  <2>8. \A j \in k .. Len(s) : LevelIn(s, j) >= l
    <3> TAKE j \in k .. Len(s)
    <3>1. j = k \/ j \in k + 1 .. e - 1 BY ONLY <1>1, <2>1, e = Len(s) + 1
    <3>2. l >= l BY <2>7
    <3> QED BY <2>2, <2>6, <3>1, <3>2
  <2>9. Len(os) >= l
    <3>1. Len(s) \in k .. Len(s) BY ONLY <1>1, <2>1
    <3> QED BY <1>1, <2>8, <3>1
  <2>10. l \in 1 .. Len(os) BY ONLY <1>1, <2>7, <2>9
  <2>11. OpenAt(s, k, l) BY <2>1, <2>6, <2>8 DEF OpenAt
  <2>12. OpenAt(s, os[l], l) BY <2>10 DEF Nest
  <2>13. os[l] = k BY <2>11, <2>12, OpenUnique
  <2> QED BY <2>10, <2>13 DEF IsOpen
<1> QED BY <1>3, <1>4

Below(os, q, k) == \E j \in 1 .. q - 1 : os[j] = k

LEMMA AroundOpen ==
  ASSUME NEW s, NEW os, Nest(s, os), NEW q \in 1 .. Len(os), NEW k
  PROVE  k \in AroundIn(s, os[q], Openers) <=> Below(os, q, k)
<1>1. /\ s \in Seq(Token) /\ Len(s) \in Nat /\ Len(os) \in Nat
      /\ \A i \in 0 .. Len(s) : LevelIn(s, i) \in Nat
      /\ \A x, h \in 0 .. Len(s) : h = x - 1 => LevelIn(s, x) = LevelIn(s, h) + Turn(s[x])
      /\ \A i \in 1 .. Len(os) :
              /\ os[i] \in 1 .. Len(s) /\ s[os[i]].tok \in Openers
              /\ LevelIn(s, os[i]) = i
              /\ \A j \in os[i] .. Len(s) : LevelIn(s, j) >= i
  BY NestFacts
<1>2. DOMAIN s = 1 .. Len(s) BY <1>1
<1>3. PICK e : e = os[q] OBVIOUS
<1>4. e \in 1 .. Len(s) /\ s[e].tok \in Openers /\ LevelIn(s, e) = q BY <1>1, <1>3
<1>5. ASSUME NEW j \in 1 .. q - 1, os[j] = k PROVE k \in AroundIn(s, e, Openers)
  <2>1. j \in 1 .. Len(os) /\ j < q BY ONLY <1>1, <1>5, q \in 1 .. Len(os)
  <2>2. k < e BY <1>3, <1>5, <2>1, OpenOrder
  <2>3. k \in 1 .. Len(s) /\ s[k].tok \in Openers /\ LevelIn(s, k) = j BY <1>1, <1>5, <2>1
  <2>4. \A x \in k + 1 .. e - 1 : x \in k .. Len(s) BY ONLY <1>1, <1>4, <2>3
  <2>5. \A x \in k + 1 .. e - 1 : LevelIn(s, x) >= j BY <1>1, <1>5, <2>1, <2>4
  <2> QED BY <1>2, <2>2, <2>3, <2>5 DEF AroundIn, InTokens
<1>6. ASSUME k \in AroundIn(s, e, Openers) PROVE \E j \in 1 .. q - 1 : os[j] = k
  <2>1. k \in 1 .. Len(s) /\ s[k].tok \in Openers /\ k < e
    BY <1>2, <1>6 DEF AroundIn, InTokens
  <2>2. PICK l : l = LevelIn(s, k) OBVIOUS
  <2>3. \A j \in k + 1 .. e - 1 : LevelIn(s, j) >= l BY <1>6, <2>2 DEF AroundIn
  <2>4. PICK h : h = k - 1 OBVIOUS
  <2>5. PICK g : g = e - 1 OBVIOUS
  <2>6. /\ h \in 0 .. Len(s) /\ k \in 0 .. Len(s) /\ g \in 0 .. Len(s) /\ e \in 0 .. Len(s)
        /\ (g = k \/ g \in k + 1 .. e - 1)
    BY ONLY <1>1, <1>4, <2>1, <2>4, <2>5
  <2>7. LevelIn(s, k) = LevelIn(s, h) + 1 /\ LevelIn(s, e) = LevelIn(s, g) + 1
    BY <1>1, <1>4, <2>1, <2>4, <2>5, <2>6 DEF Turn
  <2>8. LevelIn(s, h) \in Nat /\ LevelIn(s, k) \in Nat /\ LevelIn(s, g) \in Nat
    BY <1>1, <2>6
  <2>9. LevelIn(s, g) >= l
    <3>1. l >= l BY <2>2, <2>8
    <3> QED BY <2>2, <2>3, <2>6, <3>1
  <2>10. l \in 1 .. q - 1
    <3>1. PICK m : m = LevelIn(s, h) OBVIOUS
    <3>2. PICK n : n = LevelIn(s, g) OBVIOUS
    <3> QED BY ONLY <1>4, <2>2, <2>7, <2>8, <2>9, <3>1, <3>2, q \in 1 .. Len(os), <1>1
  <2>11. l \in 1 .. Len(os) /\ q > l BY ONLY <1>1, <2>10, q \in 1 .. Len(os)
  <2>12. \A j \in k .. Len(s) : LevelIn(s, j) >= l
    <3> TAKE j \in k .. Len(s)
    <3>1. j = k \/ j \in k + 1 .. e - 1 \/ j \in e .. Len(s) BY ONLY <1>1, <1>4, <2>1
    <3>2. CASE j = k BY <2>2, <2>8, <3>2
    <3>3. CASE j \in k + 1 .. e - 1 BY <2>3, <3>3
    <3>4. CASE j \in e .. Len(s)
      <4>1. LevelIn(s, j) >= q BY <1>1, <1>3, <3>4
      <4>2. LevelIn(s, j) \in Nat
        <5>1. j \in 0 .. Len(s) BY ONLY <1>1, <1>4, <3>4
        <5> QED BY <1>1, <5>1
      <4> QED BY ONLY <4>1, <4>2, <2>11, <1>1, q \in 1 .. Len(os)
    <3> QED BY <3>1, <3>2, <3>3, <3>4
  <2>13. OpenAt(s, k, l) BY <2>1, <2>2, <2>12 DEF OpenAt
  <2>14. OpenAt(s, os[l], l) BY <2>11 DEF Nest
  <2>15. os[l] = k BY <2>13, <2>14, OpenUnique
  <2> QED BY <2>10, <2>15
<1> QED BY <1>3, <1>5, <1>6 DEF Below

-----------------------------------------------------------------------------
(* A program that is read on.                                              *)
Grown(s, t, ss) == ss = Append(s, t)
Rises(m, t, n)  == n = m + Turn(t)

LEMMA GrownFacts ==
  ASSUME NEW s \in Seq(Token), NEW t \in Token, NEW ss, Grown(s, t, ss),
         NEW e, e = Len(s) + 1
  PROVE  /\ Begins(s, ss) /\ ss \in Seq(Token) /\ Len(ss) = e /\ ss[e] = t
         /\ e \in Nat /\ e \in 1 .. Len(ss) /\ Len(s) \in Nat
         /\ Rises(LevelIn(s, Len(s)), t, LevelIn(ss, e))
         /\ \A i \in 0 .. Len(s) : LevelIn(ss, i) = LevelIn(s, i)
<1>1. /\ ss \in Seq(Token) /\ Len(ss) = Len(s) + 1
      /\ \A i \in 1 .. Len(s) : ss[i] = s[i]
      /\ ss[Len(s) + 1] = t
  BY LastOfAppend DEF Grown
<1>2. Len(s) \in Nat BY LenProperties
<1>3. Len(s) <= Len(ss) /\ e \in 1 .. Len(ss) BY <1>1, <1>2
<1>4. Begins(s, ss) BY <1>1, <1>3 DEF Begins
<1>5. ASSUME NEW i \in 0 .. Len(s) PROVE LevelIn(ss, i) = LevelIn(s, i)
  <2>1. i \in Int /\ i <= Len(s) BY <1>2
  <2> QED BY <1>4, <2>1, LevelSame
<1>6. PICK h : h = Len(s) OBVIOUS
<1>7. h \in 0 .. Len(s) /\ h = e - 1 BY <1>2, <1>6
<1>8. LevelIn(ss, e) = LevelIn(ss, h) + Turn(ss[e]) BY <1>1, <1>3, <1>7, LevelStep
<1>9. LevelIn(ss, h) = LevelIn(s, h) /\ ss[e] = t BY <1>1, <1>5, <1>7
<1>10. Rises(LevelIn(s, Len(s)), t, LevelIn(ss, e)) BY <1>6, <1>8, <1>9 DEF Rises
<1> QED BY <1>1, <1>2, <1>3, <1>4, <1>5, <1>10

(* The levels from i on.                                                   *)
LEMMA GrownOpen ==
  ASSUME NEW s \in Seq(Token), NEW t \in Token, NEW ss, Grown(s, t, ss),
         NEW e, e = Len(s) + 1, NEW i, NEW k, OpenAt(s, i, k), LevelIn(ss, e) >= k
  PROVE  OpenAt(ss, i, k)
<1>1. /\ Begins(s, ss) /\ Len(ss) = e /\ Len(s) \in Nat
      /\ \A x \in 0 .. Len(s) : LevelIn(ss, x) = LevelIn(s, x)
  BY GrownFacts
<1>2. /\ i \in 1 .. Len(s) /\ s[i].tok \in Openers /\ LevelIn(s, i) = k
      /\ \A j \in i .. Len(s) : LevelIn(s, j) >= k
  BY DEF OpenAt
<1>3. i \in 1 .. Len(ss) /\ i \in 0 .. Len(s) BY ONLY <1>1, <1>2, e = Len(s) + 1
<1>4. ss[i] = s[i] BY <1>1, <1>2 DEF Begins
<1>5. ASSUME NEW j \in i .. Len(ss) PROVE LevelIn(ss, j) >= k
  <2>1. j = e \/ (j \in i .. Len(s) /\ j \in 0 .. Len(s))
    BY ONLY <1>1, <1>2, e = Len(s) + 1
  <2> QED BY <1>1, <1>2, <2>1
<1> QED BY <1>1, <1>2, <1>3, <1>4, <1>5 DEF OpenAt

LEMMA GrownNest ==
  ASSUME NEW s, NEW os, Nest(s, os), NEW t \in Token, NEW ss, Grown(s, t, ss),
         NEW e, e = Len(s) + 1, NEW us \in Seq(Nat), LevelIn(ss, e) = Len(us),
         \A k \in 1 .. Len(us) : OpenAt(s, us[k], k) \/ OpenAt(ss, us[k], k)
  PROVE  Nest(ss, us)
<1>1. s \in Seq(Token) BY DEF Nest
<1>2. /\ ss \in Seq(Token) /\ Len(ss) = e /\ Len(s) \in Nat
      /\ \A x \in 0 .. Len(s) : LevelIn(ss, x) = LevelIn(s, x)
  BY <1>1, GrownFacts
<1>3. Len(us) \in Nat BY LenProperties
<1>4. ASSUME NEW k \in 1 .. Len(us) PROVE OpenAt(ss, us[k], k)
  <2>1. LevelIn(ss, e) >= k BY <1>3
  <2> QED BY <1>1, <2>1, GrownOpen
<1>5. ASSUME NEW i \in 0 .. Len(ss) PROVE LevelIn(ss, i) >= 0
  <2>1. i = e \/ i \in 0 .. Len(s) BY ONLY <1>2, e = Len(s) + 1
  <2>2. CASE i = e BY <1>3, <2>2
  <2>3. CASE i \in 0 .. Len(s) BY <1>2, <2>3 DEF Nest
  <2> QED BY <2>1, <2>2, <2>3
<1> QED BY <1>2, <1>4, <1>5 DEF Nest

LEMMA PlainNest ==
  ASSUME NEW s, NEW os, Nest(s, os), NEW t \in Token, NEW ss, Grown(s, t, ss),
         NEW e, e = Len(s) + 1, t.tok \notin Openers, t.tok # "}"
  PROVE  Nest(ss, os)
<1>1. s \in Seq(Token) /\ os \in Seq(Nat) /\ LevelIn(s, Len(s)) = Len(os)
      /\ \A k \in 1 .. Len(os) : OpenAt(s, os[k], k)
  BY DEF Nest
<1>2. Rises(LevelIn(s, Len(s)), t, LevelIn(ss, e)) BY <1>1, GrownFacts
<1>3. Turn(t) = 0 BY DEF Turn
<1>4. LevelIn(ss, e) = Len(os)
  <2>1. PICK n : n = Len(os) OBVIOUS
  <2>2. n \in Nat BY <1>1, <2>1, LenProperties
  <2>3. LevelIn(ss, e) = n + Turn(t) BY <1>1, <1>2, <2>1 DEF Rises
  <2>4. n + Turn(t) = n BY ONLY <1>3, <2>2
  <2> QED BY ONLY <2>1, <2>3, <2>4
<1> QED BY <1>1, <1>4, GrownNest

Pushed(os, e, us) == us = Append(os, e)
LEMMA OpenNest ==
  ASSUME NEW s, NEW os, Nest(s, os), NEW t \in Token, NEW ss, Grown(s, t, ss),
         NEW e, e = Len(s) + 1, t.tok \in Openers, NEW us, Pushed(os, e, us)
  PROVE  /\ Nest(ss, us) /\ Len(us) = Len(os) + 1 /\ us[Len(os) + 1] = e
         /\ \A k \in 1 .. Len(os) : us[k] = os[k]
<1>1. s \in Seq(Token) /\ os \in Seq(Nat) /\ LevelIn(s, Len(s)) = Len(os)
      /\ \A k \in 1 .. Len(os) : OpenAt(s, os[k], k)
  BY DEF Nest
<1>2. /\ Rises(LevelIn(s, Len(s)), t, LevelIn(ss, e)) /\ ss[e] = t
      /\ e \in Nat /\ e \in 1 .. Len(ss) /\ Len(ss) = e
  BY <1>1, GrownFacts
<1>3. Turn(t) = 1 BY DEF Turn
<1>4. /\ us \in Seq(Nat) /\ Len(us) = Len(os) + 1 /\ us[Len(os) + 1] = e
      /\ \A k \in 1 .. Len(os) : us[k] = os[k]
  BY <1>1, <1>2, LastOfAppend DEF Pushed
<1>5. PICK n : n = Len(os) OBVIOUS
<1>6. n \in Nat BY <1>1, <1>5, LenProperties
<1>7. LevelIn(ss, e) = n + 1 BY <1>1, <1>2, <1>3, <1>5 DEF Rises
<1>8. PICK m : m = n + 1 OBVIOUS
<1>9. OpenAt(ss, e, m)
  <2>1. \A j \in e .. Len(ss) : j = e BY <1>2
  <2>2. m >= m BY <1>6, <1>8
  <2> QED BY <1>2, <1>7, <1>8, <2>1, <2>2 DEF OpenAt
<1>10. ASSUME NEW k \in 1 .. Len(us) PROVE OpenAt(s, us[k], k) \/ OpenAt(ss, us[k], k)
  <2>1. k \in 1 .. n \/ k = m BY ONLY <1>4, <1>5, <1>6, <1>8
  <2>2. CASE k \in 1 .. n BY <1>1, <1>4, <1>5, <2>2
  <2>3. CASE k = m BY <1>4, <1>5, <1>8, <1>9, <2>3
  <2> QED BY <2>1, <2>2, <2>3
<1>11. LevelIn(ss, e) = Len(us) BY <1>4, <1>5, <1>7
<1>12. Nest(ss, us) BY <1>4, <1>10, <1>11, GrownNest
<1> QED BY <1>4, <1>12

Behind(q, e)   == e = Len(q) + 1
Popped(os, us) == us = Front(os)
ClosingTok(t)     == t.tok = "}"
Deep(os, n)    == n = Len(os) /\ n > 0

LEMMA CloseNest ==
  ASSUME NEW s, NEW os, Nest(s, os), NEW t \in Token, NEW ss, Grown(s, t, ss),
         NEW e, Behind(s, e), ClosingTok(t), NEW n, Deep(os, n), NEW us, Popped(os, us)
  PROVE  /\ Nest(ss, us) /\ n \in Nat /\ Len(us) = n - 1
         /\ \A k \in 1 .. n - 1 : us[k] = os[k]
         /\ LevelIn(ss, e) = n - 1
<1>0. e = Len(s) + 1 /\ us = Front(os) /\ n = Len(os) /\ n > 0 BY DEF Behind, Popped, Deep
<1>00. os # <<>>
  <2>1. Len(<<>>) = 0 BY ONLY TRUE
  <2>2. Len(os) # 0 BY ONLY <1>0
  <2> QED BY ONLY <2>1, <2>2
<1>1. s \in Seq(Token) /\ os \in Seq(Nat) /\ LevelIn(s, Len(s)) = Len(os)
      /\ \A k \in 1 .. Len(os) : OpenAt(s, os[k], k)
  BY DEF Nest
<1>2. Rises(LevelIn(s, Len(s)), t, LevelIn(ss, e)) BY <1>0, <1>1, GrownFacts
<1>3. Turn(t) = -1 BY DEF ClosingTok, Turn, Openers
<1>4. /\ us \in Seq(Nat) /\ Len(os) \in Nat \ {0} /\ Len(us) = Len(os) - 1
      /\ \A k \in 1 .. Len(os) - 1 : us[k] = os[k]
  BY ONLY <1>0, <1>00, <1>1, FrontOf
<1>5. n = Len(os) BY <1>0
<1>6. LevelIn(ss, e) = n - 1
  <2>1. LevelIn(ss, e) = n + -1 BY <1>1, <1>2, <1>3, <1>5 DEF Rises
  <2> QED BY <1>4, <1>5, <2>1
<1>7. ASSUME NEW k \in 1 .. Len(us) PROVE OpenAt(s, us[k], k)
  <2>1. k \in 1 .. Len(os) - 1 /\ k \in 1 .. Len(os)
    BY ONLY <1>4, k \in 1 .. Len(us)
  <2> QED BY <1>1, <1>4, <2>1
<1>8. LevelIn(ss, e) = Len(us) BY <1>4, <1>5, <1>6
<1>9. Nest(ss, us) BY <1>0, <1>4, <1>7, <1>8, GrownNest
<1> QED BY <1>4, <1>5, <1>6, <1>9

-----------------------------------------------------------------------------
(* The context: loops around a token, in its function.                     *)
LEMMA AroundIsSet ==
  ASSUME NEW s \in Seq(Token), NEW i \in Int, NEW S
  PROVE  /\ AroundIn(s, i, S) \subseteq 1 .. Len(s)
         /\ \A k \in AroundIn(s, i, S) : k < i /\ s[k].tok \in S
         /\ Len(s) \in Nat /\ IsFiniteSet(AroundIn(s, i, S))
<1>1. Len(s) \in Nat /\ DOMAIN s = 1 .. Len(s) BY LenProperties
<1>2. AroundIn(s, i, S) \in SUBSET (1 .. Len(s)) BY <1>1 DEF AroundIn, InTokens
<1>3. IsFiniteSet(1 .. Len(s)) BY <1>1, FS_Interval
<1>4. IsFiniteSet(AroundIn(s, i, S)) BY <1>2, <1>3, FS_Subset
<1> QED BY <1>1, <1>2, <1>4 DEF AroundIn, InTokens

LEMMA InnermostIn ==
  ASSUME NEW n \in Nat, NEW I, I \subseteq 1 .. n
  PROVE  /\ I = {} => Innermost(I) = 0
         /\ I # {} => Innermost(I) \in I
         /\ \A k \in I : k <= Innermost(I)
         /\ Innermost(I) \in 0 .. n
<1>1. I = {} => Innermost(I) = 0 BY DEF Innermost
<1>2. ASSUME I # {} PROVE Max(I) \in I /\ \A k \in I : k <= Max(I)
  <2>1. I \subseteq 0 .. n OBVIOUS
  <2>2. Max(I) \in I BY <1>2, <2>1, Greatest
  <2>3. PICK m \in I : \A y \in I : y <= m
    <3> DEFINE U == {n - y : y \in I}
    <3>1. U \subseteq Nat
      <4>1. \A y \in I : n - y \in Nat OBVIOUS
      <4> QED BY <4>1
    <3>2. U # {} BY <1>2
    <3>3. PICK k \in U : \A z \in U : k <= z BY <3>1, <3>2, Least
    <3>4. PICK x \in I : k = n - x BY <3>3
    <3>5. ASSUME NEW y \in I PROVE y <= x
      <4>1. n - x <= n - y BY <3>3, <3>4
      <4>2. x \in 1 .. n /\ y \in 1 .. n OBVIOUS
      <4> QED BY ONLY <4>1, <4>2, n \in Nat
    <3> QED BY <3>5
  <2>4. Max(I) = CHOOSE x \in I : \A y \in I : x >= y BY DEF Max
  <2>5. \A y \in I : m >= y
    <3>1. m \in 1 .. n /\ \A y \in I : y \in 1 .. n BY <2>3
    <3> QED BY <2>3, <3>1
  <2>6. \A y \in I : Max(I) >= y BY <2>3, <2>4, <2>5
  <2>7. Max(I) \in 1 .. n /\ \A y \in I : y \in 1 .. n BY <2>2
  <2> QED BY <2>2, <2>6, <2>7
<1>3. I # {} => Innermost(I) = Max(I) BY DEF Innermost
<1>4. I # {} => Innermost(I) \in I /\ \A k \in I : k <= Innermost(I)
  BY <1>2, <1>3
<1>5. ASSUME I # {} PROVE Innermost(I) \in 0 .. n
  <2>1. Innermost(I) \in 1 .. n BY <1>4, <1>5
  <2> QED BY <2>1
<1>6. 0 \in 0 .. n OBVIOUS
<1> QED BY <1>1, <1>4, <1>5, <1>6

LEMMA LoopsAreSet ==
  ASSUME NEW s \in Seq(Token), NEW i \in Int, NEW S
  PROVE  /\ LoopsIn(s, i, S) \subseteq 1 .. Len(s) /\ IsFiniteSet(LoopsIn(s, i, S))
         /\ Len(s) \in Nat
         /\ \A k \in LoopsIn(s, i, S) : k < i /\ s[k].tok \in S
         /\ Innermost(LoopsIn(s, i, S)) # 0
              => Innermost(LoopsIn(s, i, S)) \in LoopsIn(s, i, S)
         /\ Innermost(LoopsIn(s, i, S)) = 0 <=> LoopsIn(s, i, S) = {}
<1>1. /\ AroundIn(s, i, S) \subseteq 1 .. Len(s)
      /\ \A k \in AroundIn(s, i, S) : k < i /\ s[k].tok \in S
      /\ Len(s) \in Nat /\ IsFiniteSet(AroundIn(s, i, S))
  BY AroundIsSet
<1>2. LoopsIn(s, i, S) \in SUBSET AroundIn(s, i, S) BY DEF LoopsIn
<1>3. IsFiniteSet(LoopsIn(s, i, S)) BY <1>1, <1>2, FS_Subset
<1>4. LoopsIn(s, i, S) \subseteq 1 .. Len(s) BY <1>1, <1>2
<1>5. PICK I : I = LoopsIn(s, i, S) OBVIOUS
<1>6. I = {} => Innermost(I) = 0 BY DEF Innermost
<1>7. I # {} => Innermost(I) \in I BY <1>1, <1>4, <1>5, InnermostIn
<1>8. \A k \in I : k # 0 BY <1>1, <1>4, <1>5
<1> QED BY <1>1, <1>2, <1>3, <1>4, <1>5, <1>6, <1>7, <1>8

LEMMA LoopOfFacts ==
  ASSUME NEW s \in Seq(Token), NEW i \in Int, LoopOf(s, i) # 0
  PROVE  /\ LoopOf(s, i) \in LoopsIn(s, i, LoopWords) /\ LoopOf(s, i) \in 1 .. Len(s)
         /\ LoopOf(s, i) < i /\ s[LoopOf(s, i)].tok \in LoopWords
<1>1. LoopOf(s, i) \in LoopsIn(s, i, LoopWords) BY LoopsAreSet DEF LoopOf
<1> QED BY <1>1, LoopsAreSet

(* Two places with the same blocks around them.                            *)
SameAround(s, i, ss, j) == AroundIn(ss, j, Openers) = AroundIn(s, i, Openers)

LEMMA SameAroundAll ==
  ASSUME NEW s, NEW ss, Begins(s, ss), NEW i \in Int, NEW j \in Int,
         SameAround(s, i, ss, j), NEW S \in SUBSET Openers
  PROVE  /\ AroundIn(ss, j, S) = AroundIn(s, i, S)
         /\ LoopsIn(ss, j, S) = LoopsIn(s, i, S)
<1>1. s \in Seq(Token) /\ ss \in Seq(Token) BY DEF Begins
<1>2. ASSUME NEW T \in SUBSET Openers PROVE AroundIn(ss, j, T) = AroundIn(s, i, T)
  <2>1. \A k : k \in AroundIn(ss, j, T) <=> k \in AroundIn(ss, j, Openers) /\ ss[k].tok \in T
    BY AroundSome
  <2>2. \A k : k \in AroundIn(s, i, T) <=> k \in AroundIn(s, i, Openers) /\ s[k].tok \in T
    BY AroundSome
  <2>3. \A k \in AroundIn(s, i, Openers) : k \in 1 .. Len(s) BY <1>1, AroundIsSet
  <2>4. \A k \in AroundIn(s, i, Openers) : ss[k] = s[k] BY <2>3 DEF Begins
  <2>5. \A k : k \in AroundIn(ss, j, T) <=> k \in AroundIn(s, i, T)
    BY <2>1, <2>2, <2>4 DEF SameAround
  <2> QED BY <2>5 DEF AroundIn
<1>3. {"func"} \in SUBSET Openers BY DEF Openers
<1>4. AroundIn(ss, j, S) = AroundIn(s, i, S) BY <1>2
<1>5. AroundIn(ss, j, {"func"}) = AroundIn(s, i, {"func"}) BY <1>2, <1>3
<1> QED BY <1>4, <1>5 DEF LoopsIn

LEMMA SameContext ==
  ASSUME NEW s, NEW ss, Begins(s, ss), NEW i \in Int, NEW j \in Int,
         SameAround(s, i, ss, j)
  PROVE  /\ LoopOf(ss, j) = LoopOf(s, i)
         /\ LoopsIn(ss, j, {"for"}) = LoopsIn(s, i, {"for"})
         /\ \A lt, fd : ContextAt(ss, j, lt, fd) <=> ContextAt(s, i, lt, fd)
<1>1. {"for"} \in SUBSET Openers /\ LoopWords \in SUBSET Openers BY DEF LoopWords, Openers
<1>2. LoopsIn(ss, j, {"for"}) = LoopsIn(s, i, {"for"}) BY <1>1, SameAroundAll
<1>3. LoopsIn(ss, j, LoopWords) = LoopsIn(s, i, LoopWords) BY <1>1, SameAroundAll
<1>4. LoopOf(ss, j) = LoopOf(s, i) BY <1>3 DEF LoopOf
<1>5. LoopOf(s, i) # 0 => ss[LoopOf(s, i)] = s[LoopOf(s, i)]
  BY LoopOfFacts DEF Begins
<1> QED BY <1>2, <1>4, <1>5 DEF ContextAt

LEMMA EarlierContext ==
  ASSUME NEW s, NEW ss, Begins(s, ss), NEW i \in Int, i <= Len(s) + 1
  PROVE  SameAround(s, i, ss, i)
  BY AroundSame DEF SameAround

(* One block more is around j than around i.                               *)
OneAround(s, i, ss, j, o) ==
  /\ AroundIn(ss, j, Openers) = AroundIn(s, i, Openers) \cup {o}
  /\ o \in 1 .. Len(ss) /\ o >= i
Plus(A, o, yes) == IF yes THEN A \cup {o} ELSE A

LEMMA OneAroundSome ==
  ASSUME NEW s, NEW ss, Begins(s, ss), NEW i \in Int, NEW j \in Int, NEW o,
         OneAround(s, i, ss, j, o), NEW S \in SUBSET Openers
  PROVE  AroundIn(ss, j, S) = Plus(AroundIn(s, i, S), o, ss[o].tok \in S)
<1>1. s \in Seq(Token) /\ ss \in Seq(Token) BY DEF Begins
<1>2. \A k : k \in AroundIn(ss, j, S) <=> k \in AroundIn(ss, j, Openers) /\ ss[k].tok \in S
  BY AroundSome
<1>3. \A k : k \in AroundIn(s, i, S) <=> k \in AroundIn(s, i, Openers) /\ s[k].tok \in S
  BY AroundSome
<1>4. \A k \in AroundIn(s, i, Openers) : k \in 1 .. Len(s) BY <1>1, AroundIsSet
<1>5. \A k \in AroundIn(s, i, Openers) : ss[k] = s[k] BY <1>4 DEF Begins
<1>6. \A k : k \in AroundIn(ss, j, Openers) <=> k \in AroundIn(s, i, Openers) \/ k = o
  BY DEF OneAround
<1>7. CASE ss[o].tok \in S
  <2>1. \A k : k \in AroundIn(ss, j, S) <=> k \in AroundIn(s, i, S) \/ k = o
    BY <1>2, <1>3, <1>5, <1>6, <1>7
  <2>2. AroundIn(ss, j, S) = AroundIn(s, i, S) \cup {o} BY <2>1 DEF AroundIn
  <2> QED BY <1>7, <2>2 DEF Plus
<1>8. CASE ~(ss[o].tok \in S)
  <2>1. \A k : k \in AroundIn(ss, j, S) <=> k \in AroundIn(s, i, S)
    BY <1>2, <1>3, <1>5, <1>6, <1>8
  <2>2. AroundIn(ss, j, S) = AroundIn(s, i, S) BY <2>1 DEF AroundIn
  <2> QED BY <1>8, <2>2 DEF Plus
<1> QED BY <1>7, <1>8

LEMMA FuncLoops ==
  ASSUME NEW s, NEW ss, Begins(s, ss), NEW i \in Int, NEW j \in Int, NEW o,
         OneAround(s, i, ss, j, o), ss[o].tok = "func", NEW S \in SUBSET Openers,
         "func" \notin S
  PROVE  LoopsIn(ss, j, S) = {}
<1>1. s \in Seq(Token) /\ ss \in Seq(Token) /\ Len(ss) \in Nat
  BY LenProperties DEF Begins
<1>2. {"func"} \in SUBSET Openers BY DEF Openers
<1>3. PICK F : F = AroundIn(ss, j, {"func"}) OBVIOUS
<1>4. o \in F BY <1>2, <1>3, OneAroundSome DEF Plus
<1>5. F \subseteq 1 .. Len(ss) BY <1>1, <1>3, AroundIsSet
<1>6. o <= Innermost(F) /\ Innermost(F) \in 0 .. Len(ss)
  BY <1>1, <1>4, <1>5, InnermostIn
<1>7. AroundIn(ss, j, S) = AroundIn(s, i, S) BY OneAroundSome DEF Plus
<1>8. \A k \in AroundIn(s, i, S) : k < i /\ k \in 1 .. Len(s) BY <1>1, AroundIsSet
<1>9. ASSUME NEW k \in LoopsIn(ss, j, S) PROVE FALSE
  <2>1. k < i /\ k \in 1 .. Len(s) BY <1>7, <1>8 DEF LoopsIn
  <2>2. k > Innermost(F) BY <1>3 DEF LoopsIn
  <2>3. o \in 1 .. Len(ss) /\ o >= i BY DEF OneAround
  <2> QED BY ONLY <1>6, <2>1, <2>2, <2>3, i \in Int
<1> QED BY <1>9

LEMMA MoreLoops ==
  ASSUME NEW s, NEW ss, Begins(s, ss), NEW i \in Int, NEW j \in Int, NEW o,
         OneAround(s, i, ss, j, o), ss[o].tok # "func", NEW S \in SUBSET Openers
  PROVE  LoopsIn(ss, j, S) = Plus(LoopsIn(s, i, S), o, ss[o].tok \in S)
<1>1. s \in Seq(Token) /\ ss \in Seq(Token) /\ Len(s) \in Nat
  BY LenProperties DEF Begins
<1>2. {"func"} \in SUBSET Openers /\ ~(ss[o].tok \in {"func"}) BY DEF Openers
<1>3. PICK F : F = AroundIn(s, i, {"func"}) OBVIOUS
<1>4. AroundIn(ss, j, {"func"}) = F BY <1>2, <1>3, OneAroundSome DEF Plus
<1>5. F \subseteq 1 .. Len(s) /\ \A k \in F : k < i BY <1>1, <1>3, AroundIsSet
<1>6. o \in 1 .. Len(ss) /\ o >= i BY DEF OneAround
<1>7. o > Innermost(F)
  <2>1. CASE F = {}
    <3>1. Innermost(F) = 0 BY <1>1, <1>5, <2>1, InnermostIn
    <3> QED BY ONLY <1>6, <3>1
  <2>2. CASE F # {}
    <3>1. Innermost(F) \in F BY <1>1, <1>5, <2>2, InnermostIn
    <3>2. Innermost(F) < i /\ Innermost(F) \in 1 .. Len(s) BY <1>5, <3>1
    <3> QED BY ONLY <1>6, <3>2, i \in Int
  <2> QED BY <2>1, <2>2
<1>8. AroundIn(ss, j, S) = Plus(AroundIn(s, i, S), o, ss[o].tok \in S)
  BY OneAroundSome
<1>9. CASE ss[o].tok \in S
  <2>1. AroundIn(ss, j, S) = AroundIn(s, i, S) \cup {o} BY <1>8, <1>9 DEF Plus
  <2>2. LoopsIn(ss, j, S) = LoopsIn(s, i, S) \cup {o} BY <1>3, <1>4, <1>7, <2>1 DEF LoopsIn
  <2> QED BY <1>9, <2>2 DEF Plus
<1>10. CASE ~(ss[o].tok \in S)
  <2>1. AroundIn(ss, j, S) = AroundIn(s, i, S) BY <1>8, <1>10 DEF Plus
  <2>2. LoopsIn(ss, j, S) = LoopsIn(s, i, S) BY <1>3, <1>4, <2>1 DEF LoopsIn
  <2> QED BY <1>10, <2>2 DEF Plus
<1> QED BY <1>9, <1>10

LEMMA FuncContext ==
  ASSUME NEW s, NEW ss, Begins(s, ss), NEW i \in Int, NEW j \in Int, NEW o,
         OneAround(s, i, ss, j, o), ss[o].tok = "func"
  PROVE  ContextAt(ss, j, "none", 0)
<1>1. /\ {"for"} \in SUBSET Openers /\ LoopWords \in SUBSET Openers
      /\ "func" \notin {"for"} /\ "func" \notin LoopWords
  BY DEF LoopWords, Openers
<1>2. LoopsIn(ss, j, {"for"}) = {} /\ LoopsIn(ss, j, LoopWords) = {} BY <1>1, FuncLoops
<1>3. LoopOf(ss, j) = 0 BY <1>2 DEF LoopOf, Innermost
<1>4. Cardinality({}) = 0 BY FS_EmptySet
<1> QED BY <1>2, <1>3, <1>4 DEF ContextAt

LEMMA OtherContext ==
  ASSUME NEW s, NEW ss, Begins(s, ss), NEW i \in Int, NEW j \in Int, NEW o,
         OneAround(s, i, ss, j, o), ss[o].tok \notin {"for", "while", "func"}
  PROVE  /\ \A lt, fd : ContextAt(ss, j, lt, fd) <=> ContextAt(s, i, lt, fd)
         /\ LoopOf(ss, j) = LoopOf(s, i)
<1>1. {"for"} \in SUBSET Openers /\ LoopWords \in SUBSET Openers BY DEF LoopWords, Openers
<1>2. /\ LoopsIn(ss, j, {"for"}) = Plus(LoopsIn(s, i, {"for"}), o, ss[o].tok \in {"for"})
      /\ LoopsIn(ss, j, LoopWords) = Plus(LoopsIn(s, i, LoopWords), o, ss[o].tok \in LoopWords)
  BY <1>1, MoreLoops
<1>3. ~(ss[o].tok \in {"for"}) /\ ~(ss[o].tok \in LoopWords) BY DEF LoopWords
<1>4. /\ LoopsIn(ss, j, {"for"}) = LoopsIn(s, i, {"for"})
      /\ LoopsIn(ss, j, LoopWords) = LoopsIn(s, i, LoopWords)
  BY <1>2, <1>3 DEF Plus
<1>5. LoopOf(ss, j) = LoopOf(s, i) BY <1>4 DEF LoopOf
<1>6. s \in Seq(Token) BY DEF Begins
<1>7. LoopOf(s, i) # 0 => ss[LoopOf(s, i)] = s[LoopOf(s, i)]
  BY <1>6, LoopOfFacts DEF Begins
<1> QED BY <1>4, <1>5, <1>7 DEF ContextAt

LEMMA LoopContext ==
  ASSUME NEW s, NEW ss, Begins(s, ss), NEW i \in Int, NEW j \in Int, NEW o,
         OneAround(s, i, ss, j, o), ss[o].tok \in LoopWords, NEW lt, NEW fd,
         ContextAt(s, i, lt, fd)
  PROVE  /\ LoopOf(ss, j) = o
         /\ ss[o].tok = "for"   => ContextAt(ss, j, "for", fd + 1)
         /\ ss[o].tok = "while" => ContextAt(ss, j, "while", fd)
<1>1. /\ {"for"} \in SUBSET Openers /\ LoopWords \in SUBSET Openers
      /\ ss[o].tok # "func"
  BY DEF LoopWords, Openers
<1>2. s \in Seq(Token) /\ ss \in Seq(Token) /\ Len(ss) \in Nat /\ o \in 1 .. Len(ss) /\ o >= i
  BY LenProperties DEF Begins, OneAround
<1>3. /\ LoopsIn(ss, j, {"for"}) = Plus(LoopsIn(s, i, {"for"}), o, ss[o].tok \in {"for"})
      /\ LoopsIn(ss, j, LoopWords) = Plus(LoopsIn(s, i, LoopWords), o, ss[o].tok \in LoopWords)
  BY <1>1, MoreLoops
<1>4. LoopsIn(ss, j, LoopWords) = LoopsIn(s, i, LoopWords) \cup {o} BY <1>3 DEF Plus
<1>5. PICK I : I = LoopsIn(ss, j, LoopWords) OBVIOUS
<1>6. I \subseteq 1 .. Len(ss) /\ o \in I BY <1>2, <1>4, <1>5, LoopsAreSet
<1>7. Innermost(I) \in I /\ o <= Innermost(I) BY <1>2, <1>6, InnermostIn
<1>8. \A k \in LoopsIn(s, i, LoopWords) : k < i /\ k \in 1 .. Len(s) BY <1>2, LoopsAreSet
<1>9. Innermost(I) = o
  <2>1. Innermost(I) \in LoopsIn(s, i, LoopWords) \/ Innermost(I) = o BY <1>4, <1>5, <1>7
  <2>2. ASSUME Innermost(I) \in LoopsIn(s, i, LoopWords) PROVE FALSE
    <3>1. Innermost(I) < i /\ Innermost(I) \in 1 .. Len(s) BY <1>8, <2>2
    <3> QED BY ONLY <1>2, <1>7, <3>1, i \in Int
  <2> QED BY <2>1, <2>2
<1>10. LoopOf(ss, j) = o /\ o # 0 BY <1>2, <1>5, <1>9 DEF LoopOf
<1>11. PICK A : A = LoopsIn(s, i, {"for"}) OBVIOUS
<1>12. IsFiniteSet(A) /\ (\A k \in A : k < i /\ k \in 1 .. Len(s)) /\ fd = Cardinality(A)
  BY <1>2, <1>11, LoopsAreSet DEF ContextAt
<1>13. o \notin A
  <2>1. o \in A => o < i BY <1>12
  <2> QED BY ONLY <1>2, <2>1, i \in Int
<1>14. ASSUME ss[o].tok = "for" PROVE ContextAt(ss, j, "for", fd + 1)
  <2>1. LoopsIn(ss, j, {"for"}) = A \cup {o} BY <1>3, <1>11, <1>14 DEF Plus
  <2>2. Cardinality(A \cup {o}) = fd + 1 BY <1>12, <1>13, FS_AddElement
  <2> QED BY <1>10, <1>14, <2>1, <2>2 DEF ContextAt
<1>15. ASSUME ss[o].tok = "while" PROVE ContextAt(ss, j, "while", fd)
  <2>1. LoopsIn(ss, j, {"for"}) = A BY <1>3, <1>11, <1>15 DEF Plus
  <2> QED BY <1>10, <1>12, <1>15, <2>1 DEF ContextAt
<1> QED BY <1>10, <1>14, <1>15

(* What is read, or closed, changes the blocks that are open.              *)
LEMMA PlainAround ==
  ASSUME NEW s, NEW os, Nest(s, os), NEW ss, NEW us, Nest(ss, us),
         NEW e, e = Len(s) + 1, NEW f, f = Len(ss) + 1,
         \A k : IsOpen(us, k) <=> IsOpen(os, k)
  PROVE  SameAround(s, e, ss, f)
<1>1. \A k : k \in AroundIn(s, e, Openers) <=> IsOpen(os, k) BY AroundEnd
<1>2. \A k : k \in AroundIn(ss, f, Openers) <=> IsOpen(us, k) BY AroundEnd
<1>3. \A k : k \in AroundIn(ss, f, Openers) <=> k \in AroundIn(s, e, Openers)
  BY <1>1, <1>2
<1> QED BY <1>3 DEF SameAround, AroundIn

LEMMA OpenAround ==
  ASSUME NEW s, NEW os, Nest(s, os), NEW ss, NEW us, Nest(ss, us),
         NEW e, e = Len(s) + 1, NEW f, f = Len(ss) + 1, Len(ss) = e,
         Len(us) = Len(os) + 1, us[Len(os) + 1] = e,
         \A k \in 1 .. Len(os) : us[k] = os[k]
  PROVE  OneAround(s, e, ss, f, e)
<1>1. Len(s) \in Nat /\ Len(os) \in Nat BY NestFacts
<1>2. ASSUME NEW k PROVE IsOpen(us, k) <=> IsOpen(os, k) \/ k = e
  <2>1. PICK n : n = Len(os) + 1 OBVIOUS
  <2>2. \A x \in 1 .. Len(us) : x \in 1 .. Len(os) \/ x = n BY ONLY <1>1, <2>1, Len(us) = Len(os) + 1
  <2>3. n \in 1 .. Len(us) /\ \A x \in 1 .. Len(os) : x \in 1 .. Len(us)
    BY ONLY <1>1, <2>1, Len(us) = Len(os) + 1
  <2>4. us[n] = e BY <2>1
  <2> QED BY <2>2, <2>3, <2>4 DEF IsOpen
<1>3. \A k : k \in AroundIn(s, e, Openers) <=> IsOpen(os, k) BY AroundEnd
<1>4. \A k : k \in AroundIn(ss, f, Openers) <=> IsOpen(us, k) BY AroundEnd
<1>5. \A k : k \in AroundIn(ss, f, Openers) <=> k \in AroundIn(s, e, Openers) \/ k = e
  BY <1>2, <1>3, <1>4
<1>6. AroundIn(ss, f, Openers) = AroundIn(s, e, Openers) \cup {e} BY <1>5 DEF AroundIn
<1>7. e \in 1 .. Len(ss) /\ e >= e BY <1>1
<1> QED BY <1>6, <1>7 DEF OneAround

LEMMA CloseAround ==
  ASSUME NEW s, NEW os, Nest(s, os), NEW ss, NEW us, Nest(ss, us),
         NEW n, n = Len(os), n > 0, Len(us) = n - 1,
         NEW f, f = Len(ss) + 1, \A k \in 1 .. n - 1 : us[k] = os[k]
  PROVE  SameAround(s, os[n], ss, f)
<1>1. n \in Nat /\ n \in 1 .. Len(os) BY NestFacts
<1>2. \A k : k \in AroundIn(ss, f, Openers) <=> IsOpen(us, k) BY AroundEnd
<1>3. \A k : k \in AroundIn(s, os[n], Openers) <=> Below(os, n, k)
  BY <1>1, AroundOpen
<1>4. \A k : k \in AroundIn(ss, f, Openers) <=> k \in AroundIn(s, os[n], Openers)
  BY <1>2, <1>3 DEF IsOpen, Below
<1> QED BY <1>4 DEF SameAround, AroundIn

(* The innermost open block, seen from the end.                            *)
LEMMA TopAround ==
  ASSUME NEW s, NEW os, Nest(s, os), NEW n, n = Len(os), n > 0, NEW e, e = Len(s) + 1
  PROVE  OneAround(s, os[n], s, e, os[n])
<1>1. /\ n \in Nat /\ n \in 1 .. Len(os) /\ Len(s) \in Nat /\ os[n] \in 1 .. Len(s)
  BY NestFacts
<1>2. \A k : k \in AroundIn(s, e, Openers) <=> IsOpen(os, k) BY AroundEnd
<1>3. \A k : k \in AroundIn(s, os[n], Openers) <=> Below(os, n, k)
  BY <1>1, AroundOpen
<1>4. \A x \in 1 .. Len(os) : x \in 1 .. n - 1 \/ x = n BY <1>1
<1>5. \A x \in 1 .. n - 1 : x \in 1 .. Len(os) BY <1>1
<1>6. \A k : k \in AroundIn(s, e, Openers) <=> k \in AroundIn(s, os[n], Openers) \/ k = os[n]
  BY <1>1, <1>2, <1>3, <1>4, <1>5 DEF IsOpen, Below
<1>7. AroundIn(s, e, Openers) = AroundIn(s, os[n], Openers) \cup {os[n]}
  BY <1>6 DEF AroundIn
<1> QED BY <1>1, <1>7 DEF OneAround

-----------------------------------------------------------------------------
(* What a closed block means does not change.  The cells that lead         *)
(* somewhere, and those that lead nowhere, are written for good.           *)
FinalOps == {"ENTER", "LEAVE", "FOR_LEAVE"}
Firm(i)  == i.to # 0 \/ i.op \in FinalOps
FirmKept(c, d) ==
  Len(c) <= Len(d) /\ \A p \in 1 .. Len(c) : Firm(c[p]) => d[p] = c[p]
Extends(c, s, d, ss) ==
  /\ Begins(s, ss) /\ Whole(c) /\ Whole(d) /\ FirmKept(c, d) /\ Placed(c, s)
  /\ Len(s) < Len(ss)
  /\ ss[Len(s) + 1].at = Len(c) + 1 /\ ss[Len(s) + 1].tok \notin {"else", "elseif"}

LEMMA ExtendsFacts ==
  ASSUME NEW c, NEW s, NEW d, NEW ss, Extends(c, s, d, ss)
  PROVE  /\ Begins(s, ss) /\ s \in Seq(Token) /\ ss \in Seq(Token)
         /\ Len(s) \in Nat /\ Len(ss) \in Nat /\ Len(s) < Len(ss)
         /\ Len(c) \in Nat /\ Len(d) \in Nat /\ Len(c) <= Len(d)
         /\ \A i \in 1 .. Len(s) : /\ i \in 1 .. Len(ss) /\ ss[i] = s[i]
                                   /\ s[i] \in Token /\ s[i].at \in Nat /\ s[i].at # 0
         /\ \A i \in 0 .. Len(s) : LevelIn(ss, i) = LevelIn(s, i)
<1>1. /\ s \in Seq(Token) /\ ss \in Seq(Token) /\ Len(s) \in Nat /\ Len(ss) \in Nat
      /\ Len(c) \in Nat /\ Len(d) \in Nat
  BY LenProperties DEF Extends, Begins, Whole, IsCode
<1>2. Len(s) < Len(ss) /\ Len(c) <= Len(d) /\ Begins(s, ss) BY DEF Extends, FirmKept
<1>3. ASSUME NEW i \in 1 .. Len(s)
      PROVE  /\ i \in 1 .. Len(ss) /\ ss[i] = s[i]
             /\ s[i] \in Token /\ s[i].at \in Nat /\ s[i].at # 0
  <2>1. i \in 1 .. Len(ss) BY ONLY <1>1, <1>2, <1>3
  <2>2. s[i] \in Token BY <1>1, ElementOfSeq
  <2>3. s[i].at \in 1 .. Len(c) + 1 BY DEF Extends, Placed
  <2>4. s[i].at \in Nat /\ s[i].at # 0 BY <1>1, <2>3
  <2> QED BY <1>2, <2>1, <2>2, <2>4 DEF Begins
<1>4. ASSUME NEW i \in 0 .. Len(s) PROVE LevelIn(ss, i) = LevelIn(s, i)
  <2>1. i \in Int /\ i <= Len(s) BY <1>1
  <2> QED BY <1>2, <2>1, LevelSame
<1> QED BY <1>1, <1>2, <1>3, <1>4

LEMMA CellStays ==
  ASSUME NEW c, NEW d, FirmKept(c, d), Len(c) \in Nat, Len(d) \in Nat,
         NEW p, NEW i, CellAt(c, p, i), Firm(i)
  PROVE  CellAt(d, p, i)
<1>1. p \in 1 .. Len(c) /\ c[p] = i BY DEF CellAt
<1>2. Len(c) <= Len(d) BY DEF FirmKept
<1>3. p \in 1 .. Len(d) BY ONLY <1>1, <1>2, Len(c) \in Nat, Len(d) \in Nat
<1> QED BY <1>1, <1>3 DEF CellAt, FirmKept

LEMMA NextStays ==
  ASSUME NEW c, NEW s, NEW d, NEW ss, Extends(c, s, d, ss), NEW j \in 1 .. Len(s)
  PROVE  /\ NextAt(d, ss, j) = NextAt(c, s, j)
         /\ ContinuedIn(ss, j) <=> ContinuedIn(s, j)
         /\ NextAt(c, s, j) \in Nat /\ NextAt(c, s, j) # 0
<1>1. /\ Len(s) \in Nat /\ Len(ss) \in Nat /\ Len(s) < Len(ss) /\ Len(c) \in Nat
      /\ \A i \in 1 .. Len(s) : i \in 1 .. Len(ss) /\ ss[i] = s[i]
                                /\ s[i].at \in Nat /\ s[i].at # 0
  BY ExtendsFacts
<1>2. PICK n : n = Len(s) + 1 OBVIOUS
<1>3. ss[n].at = Len(c) + 1 /\ ss[n].tok \notin {"else", "elseif"} BY <1>2 DEF Extends
<1>4. j < Len(ss) BY ONLY <1>1, j \in 1 .. Len(s)
<1>5. CASE j < Len(s)
  <2>1. PICK m : m = j + 1 OBVIOUS
  <2>2. m \in 1 .. Len(s) BY ONLY <1>1, <1>5, <2>1, j \in 1 .. Len(s)
  <2>3. ss[m] = s[m] /\ s[m].at \in Nat /\ s[m].at # 0 BY <1>1, <2>2
  <2> QED BY <1>4, <1>5, <2>1, <2>3 DEF NextAt, ContinuedIn
<1>6. CASE ~(j < Len(s))
  <2>1. j + 1 = n BY ONLY <1>1, <1>2, <1>6, j \in 1 .. Len(s)
  <2>2. Len(c) + 1 \in Nat /\ Len(c) + 1 # 0 BY ONLY <1>1
  <2>3. NextAt(c, s, j) = Len(c) + 1 /\ NextAt(d, ss, j) = Len(c) + 1
    BY <1>3, <1>4, <1>6, <2>1 DEF NextAt
  <2>4. ~ContinuedIn(s, j) /\ ~ContinuedIn(ss, j)
    BY <1>3, <1>6, <2>1 DEF ContinuedIn
  <2> QED BY <2>2, <2>3, <2>4
<1> QED BY <1>5, <1>6

LEMMA CloserStays ==
  ASSUME NEW c, NEW s, NEW d, NEW ss, Extends(c, s, d, ss), NEW i \in 1 .. Len(s),
         NEW j, Closer(s, i, j)
  PROVE  Closer(ss, i, j) /\ j \in 1 .. Len(s)
<1>1. /\ Len(s) \in Nat /\ Len(ss) \in Nat /\ Len(s) < Len(ss)
      /\ \A x \in 1 .. Len(s) : x \in 1 .. Len(ss) /\ ss[x] = s[x]
      /\ \A x \in 0 .. Len(s) : LevelIn(ss, x) = LevelIn(s, x)
  BY ExtendsFacts
<1>2. /\ j \in i + 1 .. Len(s) /\ s[j].tok = "}"
      /\ LevelIn(s, j) = LevelIn(s, i) - 1
      /\ \A x \in i .. j - 1 : LevelIn(s, x) >= LevelIn(s, i)
  BY DEF Closer
<1>3. /\ j \in 1 .. Len(s) /\ j \in 0 .. Len(s) /\ i \in 0 .. Len(s) /\ j \in i + 1 .. Len(ss)
      /\ \A x \in i .. j - 1 : x \in 0 .. Len(s)
  <2>1. PICK n : n = Len(s) OBVIOUS
  <2>2. PICK m : m = Len(ss) OBVIOUS
  <2>3. n \in Nat /\ m \in Nat /\ n < m /\ j \in i + 1 .. n /\ i \in 1 .. n BY <1>1, <1>2, <2>1, <2>2
  <2>4. j \in 1 .. n /\ j \in 0 .. n /\ i \in 0 .. n /\ j \in i + 1 .. m BY ONLY <2>3
  <2>5. \A x \in i .. j - 1 : x \in 0 .. n BY ONLY <2>3
  <2> QED BY <2>1, <2>2, <2>4, <2>5
<1>4. LevelIn(ss, j) = LevelIn(ss, i) - 1 BY <1>1, <1>2, <1>3
<1>5. \A x \in i .. j - 1 : LevelIn(ss, x) >= LevelIn(ss, i) BY <1>1, <1>2, <1>3
<1> QED BY <1>1, <1>2, <1>3, <1>4, <1>5 DEF Closer

LEMMA ExitStays ==
  ASSUME NEW c, NEW s, NEW d, NEW ss, Extends(c, s, d, ss), NEW i \in 1 .. Len(s),
         NEW j \in 1 .. Len(s), Exit(s, i, j)
  PROVE  Exit(ss, i, j)
  BY CloserStays, NextStays DEF Exit

LEMMA LoopStays ==
  ASSUME NEW c, NEW s, NEW d, NEW ss, Extends(c, s, d, ss), NEW i \in 1 .. Len(s),
         LoopDone(c, s, i)
  PROVE  LoopDone(d, ss, i)
<1>1. /\ Len(c) \in Nat /\ Len(d) \in Nat /\ FirmKept(c, d)
      /\ \A x \in 1 .. Len(s) : x \in 1 .. Len(ss) /\ ss[x] = s[x]
                                /\ s[x].at \in Nat /\ s[x].at # 0
  BY ExtendsFacts DEF Extends
<1>2. PICK j \in 1 .. Len(s) :
        /\ Exit(s, i, j)
        /\ CellAt(c, s[i].at + 1, Ins(LoopHead(s[i]), NextAt(c, s, j)))
        /\ CellAt(c, s[j].at, Ins(LoopBack(s[i]), LoopTop(s[i])))
  BY DEF LoopDone
<1>3. Exit(ss, i, j) BY <1>2, ExitStays
<1>4. NextAt(d, ss, j) = NextAt(c, s, j) /\ NextAt(c, s, j) # 0 BY NextStays
<1>5. Firm(Ins(LoopHead(s[i]), NextAt(c, s, j))) BY <1>4 DEF Firm, Ins
<1>6. LoopTop(s[i]) # 0
  <2>1. s[i].at \in Nat /\ s[i].at # 0 BY <1>1
  <2> QED BY ONLY <2>1 DEF LoopTop
<1>7. Firm(Ins(LoopBack(s[i]), LoopTop(s[i]))) BY <1>6 DEF Firm, Ins
<1>8. CellAt(d, s[i].at + 1, Ins(LoopHead(s[i]), NextAt(c, s, j))) BY <1>1, <1>2, <1>5, CellStays
<1>9. CellAt(d, s[j].at, Ins(LoopBack(s[i]), LoopTop(s[i]))) BY <1>1, <1>2, <1>7, CellStays
<1>10. ss[i] = s[i] /\ ss[j] = s[j] /\ j \in 1 .. Len(ss) BY <1>1
<1> QED BY <1>3, <1>4, <1>8, <1>9, <1>10 DEF LoopDone

LEMMA CondStays ==
  ASSUME NEW c, NEW s, NEW d, NEW ss, Extends(c, s, d, ss), NEW i \in 1 .. Len(s),
         CondDone(c, s, i)
  PROVE  CondDone(d, ss, i)
<1>1. /\ Len(c) \in Nat /\ Len(d) \in Nat /\ FirmKept(c, d)
      /\ \A x \in 1 .. Len(s) : x \in 1 .. Len(ss) /\ ss[x] = s[x]
  BY ExtendsFacts DEF Extends
<1>2. PICK j \in 1 .. Len(s) :
        /\ Closer(s, i, j)
        /\ CellAt(c, CondAt(s[i]),
                  Ins("IF", NextAt(c, s, j) + (IF ContinuedIn(s, j) THEN 1 ELSE 0)))
  BY DEF CondDone
<1>3. Closer(ss, i, j) BY <1>2, CloserStays
<1>4. /\ NextAt(d, ss, j) = NextAt(c, s, j) /\ NextAt(c, s, j) \in Nat /\ NextAt(c, s, j) # 0
      /\ ContinuedIn(ss, j) <=> ContinuedIn(s, j)
  BY NextStays
<1>5. PICK to : to = NextAt(c, s, j) + (IF ContinuedIn(s, j) THEN 1 ELSE 0) OBVIOUS
<1>6. PICK z : z = NextAt(c, s, j) OBVIOUS
<1>7. to # 0 BY ONLY <1>4, <1>5, <1>6
<1>8. Firm(Ins("IF", to)) BY <1>7 DEF Firm, Ins
<1>9. CellAt(d, CondAt(s[i]), Ins("IF", to)) BY <1>1, <1>2, <1>5, <1>8, CellStays
<1>10. to = NextAt(d, ss, j) + (IF ContinuedIn(ss, j) THEN 1 ELSE 0) BY <1>4, <1>5
<1>11. ss[i] = s[i] /\ j \in 1 .. Len(ss) BY <1>1
<1> QED BY <1>3, <1>9, <1>10, <1>11 DEF CondDone

LEMMA FuncStays ==
  ASSUME NEW c, NEW s, NEW d, NEW ss, Extends(c, s, d, ss), NEW i \in 1 .. Len(s),
         FuncDone(c, s, i)
  PROVE  FuncDone(d, ss, i)
<1>1. /\ Len(c) \in Nat /\ Len(d) \in Nat /\ FirmKept(c, d) /\ Len(c) <= Len(d)
      /\ \A x \in 1 .. Len(s) : x \in 1 .. Len(ss) /\ ss[x] = s[x]
  BY ExtendsFacts DEF Extends
<1>2. PICK j \in 1 .. Len(s) :
        /\ Exit(s, i, j)
        /\ CellAt(c, s[i].at, Ins("GOTO", NextAt(c, s, j)))
        /\ s[i].at + 1 \in 1 .. Len(c) /\ c[s[i].at + 1].op = "ENTER"
        /\ CellAt(c, s[j].at, Ins("LEAVE", 0))
  BY DEF FuncDone
<1>3. Exit(ss, i, j) BY <1>2, ExitStays
<1>4. NextAt(d, ss, j) = NextAt(c, s, j) /\ NextAt(c, s, j) # 0 BY NextStays
<1>5. Firm(Ins("GOTO", NextAt(c, s, j))) BY <1>4 DEF Firm, Ins
<1>6. Firm(Ins("LEAVE", 0)) BY DEF Firm, Ins, FinalOps
<1>7. CellAt(d, s[i].at, Ins("GOTO", NextAt(c, s, j))) BY <1>1, <1>2, <1>5, CellStays
<1>8. CellAt(d, s[j].at, Ins("LEAVE", 0)) BY <1>1, <1>2, <1>6, CellStays
<1>9. PICK p : p = s[i].at + 1 OBVIOUS
<1>10. p \in 1 .. Len(d) /\ d[p].op = "ENTER"
  <2>1. p \in 1 .. Len(c) /\ c[p].op = "ENTER" BY <1>2, <1>9
  <2>2. p \in 1 .. Len(d) BY ONLY <1>1, <2>1
  <2>3. d[p] = c[p] BY <1>1, <2>1 DEF FirmKept, Firm, FinalOps
  <2> QED BY <2>1, <2>2, <2>3
<1>11. ss[i] = s[i] /\ ss[j] = s[j] /\ j \in 1 .. Len(ss) BY <1>1
<1> QED BY <1>3, <1>4, <1>7, <1>8, <1>9, <1>10, <1>11 DEF FuncDone

LEMMA ReturnStays ==
  ASSUME NEW c, NEW s, NEW d, NEW ss, Extends(c, s, d, ss), NEW i \in 1 .. Len(s),
         ReturnDone(c, s, i)
  PROVE  ReturnDone(d, ss, i)
<1>1. /\ Len(c) \in Nat /\ Len(d) \in Nat /\ FirmKept(c, d) /\ Begins(s, ss) /\ Len(s) \in Nat
      /\ \A x \in 1 .. Len(s) : ss[x] = s[x]
  BY ExtendsFacts DEF Extends
<1>2. i \in Int /\ i <= Len(s) + 1 BY <1>1
<1>3. LoopsIn(ss, i, {"for"}) = LoopsIn(s, i, {"for"}) BY <1>1, <1>2, EarlierContext, SameContext
<1>4. PICK n : n = Cardinality(LoopsIn(s, i, {"for"})) OBVIOUS
<1>5. Firm(InsN("FOR_LEAVE", 0, n)) /\ Firm(Ins("LEAVE", 0)) BY DEF Firm, Ins, InsN, FinalOps
<1>6. n > 0 => CellAt(c, s[i].at, InsN("FOR_LEAVE", 0, n)) BY <1>4 DEF ReturnDone
<1>7. n > 0 => CellAt(d, s[i].at, InsN("FOR_LEAVE", 0, n)) BY <1>1, <1>5, <1>6, CellStays
<1>8. CellAt(c, s[i].at + (IF n > 0 THEN 1 ELSE 0), Ins("LEAVE", 0)) BY <1>4 DEF ReturnDone
<1>9. PICK p : p = s[i].at + (IF n > 0 THEN 1 ELSE 0) OBVIOUS
<1>10. CellAt(d, p, Ins("LEAVE", 0)) BY <1>1, <1>5, <1>8, <1>9, CellStays
<1> QED BY <1>1, <1>3, <1>4, <1>7, <1>9, <1>10 DEF ReturnDone

-----------------------------------------------------------------------------
LEMMA CasesSame ==
  ASSUME NEW s, NEW ss, Begins(s, ss), NEW i \in 1 .. Len(s), NEW j \in Int, j <= Len(s) + 1
  PROVE  CasesIn(ss, i, j) = CasesIn(s, i, j)
<1>1. /\ s \in Seq(Token) /\ ss \in Seq(Token) /\ Len(s) \in Nat /\ Len(ss) \in Nat
      /\ DOMAIN s = 1 .. Len(s) /\ DOMAIN ss = 1 .. Len(ss) /\ Len(s) <= Len(ss)
  BY LenProperties DEF Begins
<1>2. i \in Int /\ i <= Len(s) BY <1>1
<1>3. LevelIn(ss, i) = LevelIn(s, i) BY <1>2, LevelSame
<1>4. ASSUME NEW k, k < j
      PROVE  /\ k \in InTokens(ss, {"case"}) <=> k \in InTokens(s, {"case"})
             /\ k \in InTokens(ss, {"case"}) => LevelIn(ss, k) = LevelIn(s, k)
  <2>1. k \in 1 .. Len(ss) => k \in 1 .. Len(s)
    BY ONLY <1>1, <1>4, j \in Int, j <= Len(s) + 1
  <2>2. k \in 1 .. Len(s) => k \in 1 .. Len(ss) BY ONLY <1>1
  <2>3. k \in 1 .. Len(s) => ss[k] = s[k] BY DEF Begins
  <2>4. k \in InTokens(ss, {"case"}) <=> k \in InTokens(s, {"case"})
    BY <1>1, <2>1, <2>2, <2>3 DEF InTokens
  <2>5. k \in InTokens(ss, {"case"}) => k \in Int /\ k <= Len(s)
    BY <1>1, <2>1 DEF InTokens
  <2>6. k \in InTokens(ss, {"case"}) => LevelIn(ss, k) = LevelIn(s, k) BY <2>5, LevelSame
  <2> QED BY <2>4, <2>6
<1>5. \A k : k \in CasesIn(ss, i, j) <=> k \in CasesIn(s, i, j)
  BY <1>3, <1>4 DEF CasesIn
<1> QED BY <1>5 DEF CasesIn

LEMMA CasesAreSet ==
  ASSUME NEW s \in Seq(Token), NEW i, NEW j
  PROVE  /\ CasesIn(s, i, j) \subseteq 1 .. Len(s) /\ Len(s) \in Nat
         /\ \A k \in CasesIn(s, i, j) : s[k].tok = "case" /\ i < k /\ k < j
<1>1. DOMAIN s = 1 .. Len(s) /\ Len(s) \in Nat BY LenProperties
<1> QED BY <1>1 DEF CasesIn, InTokens

LEMMA BodyStays ==
  ASSUME NEW c, NEW s, NEW d, NEW ss, Extends(c, s, d, ss), NEW i \in 1 .. Len(s),
         NEW j \in 1 .. Len(s), NEW v
  PROVE  BodyIn(d, ss, i, j, v) = BodyIn(c, s, i, j, v)
         /\ BodyIn(c, s, i, j, v) # 0
<1>1. /\ Begins(s, ss) /\ s \in Seq(Token) /\ Len(s) \in Nat
      /\ \A x \in 1 .. Len(s) : x \in 1 .. Len(ss) /\ ss[x] = s[x] /\ s[x].at # 0
  BY ExtendsFacts
<1>2. j \in Int /\ j <= Len(s) + 1 BY <1>1
<1>3. CasesIn(ss, i, j) = CasesIn(s, i, j) BY <1>1, <1>2, CasesSame
<1>4. CasesIn(s, i, j) \subseteq 1 .. Len(s) BY <1>1, CasesAreSet
<1>5. CasesOfVal(ss, i, j, v) = CasesOfVal(s, i, j, v) BY <1>1, <1>3, <1>4 DEF CasesOfVal
<1>6. NextAt(d, ss, j) = NextAt(c, s, j) /\ NextAt(c, s, j) # 0 BY NextStays
<1>7. ASSUME CasesOfVal(s, i, j, v) # {}
      PROVE  Max(CasesOfVal(s, i, j, v)) \in 1 .. Len(s)
  <2>1. CasesOfVal(s, i, j, v) \subseteq 0 .. Len(s) BY <1>1, <1>4 DEF CasesOfVal
  <2>2. Max(CasesOfVal(s, i, j, v)) \in CasesOfVal(s, i, j, v) BY <1>1, <1>7, <2>1, Greatest
  <2> QED BY <1>4, <2>2 DEF CasesOfVal
<1> QED BY <1>1, <1>5, <1>6, <1>7 DEF BodyIn

LEMMA DispatchStays ==
  ASSUME NEW c, NEW s, NEW d, NEW ss, Extends(c, s, d, ss), NEW i \in 1 .. Len(s),
         DispatchDone(c, s, i)
  PROVE  DispatchDone(d, ss, i)
<1>1. /\ Len(c) \in Nat /\ Len(d) \in Nat /\ FirmKept(c, d) /\ Len(c) <= Len(d)
      /\ Begins(s, ss) /\ s \in Seq(Token) /\ Len(s) \in Nat
      /\ \A x \in 1 .. Len(s) : x \in 1 .. Len(ss) /\ ss[x] = s[x] /\ s[x].at # 0
  BY ExtendsFacts DEF Extends
<1>2. PICK j \in 1 .. Len(s) :
        /\ Exit(s, i, j) /\ s[i].at \in 1 .. Len(c)
        /\ c[s[i].at].op = "DISPATCH_JMP" /\ c[s[i].at].to # 0
        /\ IsCount(s, CasesIn(s, i, j), c[s[i].at].n)
        /\ TableIn(c, s, i, j, c[s[i].at].to, c[s[i].at].n)
        /\ \A k \in CasesIn(s, i, j) :
             \E m \in 1 .. Len(s) : /\ Closer(s, k, m)
                                    /\ CellAt(c, s[m].at, Ins("GOTO", NextAt(c, s, j)))
  BY DEF DispatchDone
<1>3. Exit(ss, i, j) BY <1>2, ExitStays
<1>4. s[i].at \in 1 .. Len(d) BY ONLY <1>1, <1>2
<1>5. d[s[i].at] = c[s[i].at] BY <1>1, <1>2 DEF FirmKept, Firm
<1>6. j \in Int /\ j <= Len(s) + 1 BY <1>1
<1>7. CasesIn(ss, i, j) = CasesIn(s, i, j) BY <1>1, <1>6, CasesSame
<1>8. CasesIn(s, i, j) \subseteq 1 .. Len(s) BY <1>1, CasesAreSet
<1>9. IsCount(ss, CasesIn(ss, i, j), c[s[i].at].n)
  BY <1>1, <1>2, <1>7, <1>8 DEF IsCount
<1>10. PICK h : h = c[s[i].at].to OBVIOUS
<1>11. PICK n : n = c[s[i].at].n OBVIOUS
<1>12. TableIn(d, ss, i, j, h, n)
  <2>1. ASSUME NEW v \in 0 .. n - 1
        PROVE  CellAt(d, h + v, Ins("ADDR", BodyIn(d, ss, i, j, v)))
    <3>1. PICK p : p = h + v OBVIOUS
    <3>2. PICK a : a = BodyIn(c, s, i, j, v) OBVIOUS
    <3>3. BodyIn(d, ss, i, j, v) = a /\ a # 0 BY <3>2, BodyStays
    <3>4. CellAt(c, p, Ins("ADDR", a)) BY <1>2, <1>10, <1>11, <2>1, <3>1, <3>2 DEF TableIn
    <3>5. Firm(Ins("ADDR", a)) BY <3>3 DEF Firm, Ins
    <3>6. CellAt(d, p, Ins("ADDR", a)) BY <1>1, <3>4, <3>5, CellStays
    <3> QED BY <3>1, <3>3, <3>6
  <2> QED BY <2>1 DEF TableIn
<1>13. NextAt(d, ss, j) = NextAt(c, s, j) /\ NextAt(c, s, j) # 0 BY NextStays
<1>14. ASSUME NEW k \in CasesIn(ss, i, j)
       PROVE  \E m \in 1 .. Len(ss) : /\ Closer(ss, k, m)
                                      /\ CellAt(d, ss[m].at, Ins("GOTO", NextAt(d, ss, j)))
  <2>1. k \in 1 .. Len(s) BY <1>7, <1>8
  <2>2. PICK m \in 1 .. Len(s) : /\ Closer(s, k, m)
                                 /\ CellAt(c, s[m].at, Ins("GOTO", NextAt(c, s, j)))
    BY <1>2, <1>7
  <2>3. Closer(ss, k, m) BY <2>1, <2>2, CloserStays
  <2>4. Firm(Ins("GOTO", NextAt(c, s, j))) BY <1>13 DEF Firm, Ins
  <2>5. CellAt(d, s[m].at, Ins("GOTO", NextAt(c, s, j))) BY <1>1, <2>2, <2>4, CellStays
  <2>6. m \in 1 .. Len(ss) /\ ss[m] = s[m] BY <1>1
  <2> QED BY <1>13, <2>3, <2>5, <2>6
<1>15. j \in 1 .. Len(ss) /\ ss[i] = s[i] BY <1>1
<1> QED BY <1>2, <1>3, <1>4, <1>5, <1>9, <1>10, <1>11, <1>12, <1>14, <1>15 DEF DispatchDone

LEMMA DoneStays ==
  ASSUME NEW c, NEW s, NEW d, NEW ss, Extends(c, s, d, ss), NEW i \in 1 .. Len(s),
         Done(c, s, i)
  PROVE  Done(d, ss, i)
<1>1. ss[i] = s[i] BY ExtendsFacts
<1>2. LoopDone(c, s, i) => LoopDone(d, ss, i) BY LoopStays
<1>3. CondDone(c, s, i) => CondDone(d, ss, i) BY CondStays
<1>4. FuncDone(c, s, i) => FuncDone(d, ss, i) BY FuncStays
<1>5. DispatchDone(c, s, i) => DispatchDone(d, ss, i) BY DispatchStays
<1>6. ReturnDone(c, s, i) => ReturnDone(d, ss, i) BY ReturnStays
<1> QED BY <1>1, <1>2, <1>3, <1>4, <1>5, <1>6 DEF Done

LEMMA ElseStays ==
  ASSUME NEW c, NEW s, NEW d, NEW ss, Extends(c, s, d, ss), NEW i \in 1 .. Len(s),
         ElseDone(c, s, i)
  PROVE  ElseDone(d, ss, i)
<1>1. /\ Len(c) \in Nat /\ Len(d) \in Nat /\ FirmKept(c, d) /\ Len(s) \in Nat /\ Len(ss) \in Nat
      /\ Len(s) < Len(ss)
      /\ \A x \in 1 .. Len(s) : x \in 1 .. Len(ss) /\ ss[x] = s[x]
      /\ \A x \in 0 .. Len(s) : LevelIn(ss, x) = LevelIn(s, x)
  BY ExtendsFacts DEF Extends
<1>2. PICK j \in 1 .. Len(s) :
        LastCloser(s, i, j) /\ CellAt(c, s[i].at, Ins("GOTO", NextAt(c, s, j)))
  BY DEF ElseDone
<1>3. /\ NextAt(d, ss, j) = NextAt(c, s, j) /\ NextAt(c, s, j) # 0
      /\ ContinuedIn(ss, j) <=> ContinuedIn(s, j)
  BY NextStays
<1>4. Firm(Ins("GOTO", NextAt(c, s, j))) BY <1>3 DEF Firm, Ins
<1>5. CellAt(d, s[i].at, Ins("GOTO", NextAt(c, s, j))) BY <1>1, <1>2, <1>4, CellStays
<1>6. ss[i] = s[i] /\ ss[j] = s[j] /\ j \in 1 .. Len(ss) BY <1>1
<1>7. /\ j \in i + 1 .. Len(s) /\ s[j].tok = "}" /\ LevelIn(s, j) = LevelIn(s, i) - 1
      /\ ~ContinuedIn(s, j)
      /\ \A x \in i + 1 .. j - 1 : s[x].tok = "}" /\ LevelIn(s, x) = LevelIn(s, i) - 1
                                     => ContinuedIn(s, x)
  BY <1>2 DEF LastCloser
<1>8. PICK n : n = Len(s) OBVIOUS
<1>9. PICK m : m = Len(ss) OBVIOUS
<1>10. n \in Nat /\ m \in Nat /\ n < m /\ j \in i + 1 .. n /\ i \in 1 .. n BY <1>1, <1>7, <1>8, <1>9
<1>11. j \in 0 .. n /\ i \in 0 .. n /\ j \in i + 1 .. m BY ONLY <1>10
<1>12. \A x \in i + 1 .. j - 1 : x \in 0 .. n /\ x \in 1 .. n BY ONLY <1>10
<1>13. LevelIn(ss, j) = LevelIn(s, j) /\ LevelIn(ss, i) = LevelIn(s, i) BY <1>1, <1>8, <1>11
<1>14. \A x \in i + 1 .. j - 1 : ss[x].tok = "}" /\ LevelIn(ss, x) = LevelIn(ss, i) - 1
                                     => ContinuedIn(ss, x)
  <2> TAKE x \in i + 1 .. j - 1
  <2>1. x \in 1 .. Len(s) /\ ss[x] = s[x] /\ LevelIn(ss, x) = LevelIn(s, x) BY <1>1, <1>8, <1>12
  <2>2. ContinuedIn(ss, x) <=> ContinuedIn(s, x) BY <2>1, NextStays
  <2> QED BY <1>7, <1>13, <2>1, <2>2
<1>15. LastCloser(ss, i, j)
  BY <1>3, <1>6, <1>7, <1>9, <1>11, <1>13, <1>14 DEF LastCloser
<1> QED BY <1>3, <1>5, <1>6, <1>15 DEF ElseDone

LEMMA LoopOfStays ==
  ASSUME NEW s, NEW ss, Begins(s, ss), NEW i \in 1 .. Len(s)
  PROVE  /\ LoopOf(ss, i) = LoopOf(s, i)
         /\ LoopOf(s, i) # 0 => /\ ss[LoopOf(s, i)] = s[LoopOf(s, i)]
                                /\ LoopOf(s, i) \in 1 .. Len(s)
<1>1. s \in Seq(Token) /\ Len(s) \in Nat BY LenProperties DEF Begins
<1>2. i \in Int /\ i <= Len(s) + 1 BY <1>1
<1>3. LoopOf(ss, i) = LoopOf(s, i) BY <1>2, EarlierContext, SameContext
<1>4. LoopOf(s, i) # 0 => LoopOf(s, i) \in 1 .. Len(s) BY <1>1, <1>2, LoopOfFacts
<1> QED BY <1>3, <1>4 DEF Begins

LEMMA BreakStays ==
  ASSUME NEW c, NEW s, NEW d, NEW ss, Extends(c, s, d, ss), NEW i \in 1 .. Len(s),
         BreakDone(c, s, i)
  PROVE  BreakDone(d, ss, i)
<1>1. /\ Len(c) \in Nat /\ Len(d) \in Nat /\ FirmKept(c, d) /\ Begins(s, ss)
      /\ \A x \in 1 .. Len(s) : x \in 1 .. Len(ss) /\ ss[x] = s[x]
  BY ExtendsFacts DEF Extends
<1>2. PICK l : l = LoopOf(s, i) OBVIOUS
<1>3. PICK j \in 1 .. Len(s) :
        /\ l # 0 /\ Exit(s, l, j)
        /\ CellAt(c, s[i].at, Ins(BreakOp(s[l]), NextAt(c, s, j)))
  BY <1>2 DEF BreakDone
<1>4. LoopOf(ss, i) = l /\ ss[l] = s[l] /\ l \in 1 .. Len(s) BY <1>1, <1>2, <1>3, LoopOfStays
<1>5. Exit(ss, l, j) BY <1>3, <1>4, ExitStays
<1>6. NextAt(d, ss, j) = NextAt(c, s, j) /\ NextAt(c, s, j) # 0 BY NextStays
<1>7. Firm(Ins(BreakOp(s[l]), NextAt(c, s, j))) BY <1>6 DEF Firm, Ins
<1>8. CellAt(d, s[i].at, Ins(BreakOp(s[l]), NextAt(c, s, j))) BY <1>1, <1>3, <1>7, CellStays
<1>9. ss[i] = s[i] /\ j \in 1 .. Len(ss) BY <1>1
<1> QED BY <1>3, <1>4, <1>5, <1>6, <1>8, <1>9 DEF BreakDone

(* What is known of the blocks that are closed, after a step.              *)
LEMMA ToldStays ==
  ASSUME NEW c, NEW s, NEW d, NEW ss, Extends(c, s, d, ss), NEW os, NEW us,
         Told(c, s, os),
         \A i \in 1 .. Len(s) : IsOpen(os, i) => IsOpen(us, i) \/ Done(d, ss, i),
         \A i \in Len(s) + 1 .. Len(ss) : IsOpen(us, i) \/ Done(d, ss, i)
  PROVE  Told(d, ss, us)
<1>1. Len(s) \in Nat /\ Len(ss) \in Nat /\ Len(s) < Len(ss) BY ExtendsFacts
<1>2. ASSUME NEW i \in 1 .. Len(s) PROVE IsOpen(us, i) \/ Done(d, ss, i)
  <2>1. IsOpen(os, i) \/ Done(c, s, i) BY DEF Told
  <2>2. Done(c, s, i) => Done(d, ss, i) BY DoneStays
  <2> QED BY <2>1, <2>2
<1>3. \A i \in 1 .. Len(ss) : i \in 1 .. Len(s) \/ i \in Len(s) + 1 .. Len(ss) BY <1>1
<1> QED BY <1>2, <1>3 DEF Told

-----------------------------------------------------------------------------
(* A step patches the cells P, which wait, and adds others.                *)
Kept(c, d, P) ==
  Len(c) <= Len(d) /\ \A p \in 1 .. Len(c) : p \notin P => d[p] = c[p]
Spare(c, P) == \A p \in P : p \in 1 .. Len(c) /\ c[p].to = 0 /\ c[p].op \in Jumps

LEMMA SpareFirm ==
  ASSUME NEW c, NEW d, NEW P, Spare(c, P), Kept(c, d, P)
  PROVE  FirmKept(c, d)
<1>1. Jumps \cap FinalOps = {} BY DEF Jumps, FinalOps
<1>2. \A p \in P : ~Firm(c[p]) BY <1>1 DEF Spare, Firm
<1> QED BY <1>2 DEF Kept, FirmKept

LEMMA SpareHoles ==
  ASSUME NEW c, NEW b, Cells(c, b)
  PROVE  Spare(c, Holes(b))
<1>1. \A k : HeadOp(k) \in Jumps BY DEF HeadOp, Jumps
<1>2. "GOTO" \in Jumps BY DEF Jumps
<1>3. \A op \in Jumps : \A p : CellAt(c, p, Ins(op, 0)) => /\ p \in 1 .. Len(c)
                                                           /\ c[p].to = 0 /\ c[p].op \in Jumps
  BY DEF CellAt, Ins
<1>4. ASSUME NEW p \in Holes(b)
      PROVE  \/ p \in b.ends \cup b.gotos
             \/ b.kind # "case" /\ p = b.pos
  BY <1>4 DEF Holes
<1> QED BY <1>1, <1>2, <1>3, <1>4 DEF Cells, Spare

LEMMA CellKept ==
  ASSUME NEW c, NEW d, NEW P, Kept(c, d, P), Len(c) \in Nat, Len(d) \in Nat,
         NEW p, NEW i, CellAt(c, p, i), p \notin P
  PROVE  CellAt(d, p, i)
<1>1. p \in 1 .. Len(c) /\ c[p] = i BY DEF CellAt
<1>2. Len(c) <= Len(d) BY DEF Kept
<1>3. p \in 1 .. Len(d) BY ONLY <1>1, <1>2, Len(c) \in Nat, Len(d) \in Nat
<1> QED BY <1>1, <1>3 DEF CellAt, Kept

LEMMA CellsGo ==
  ASSUME NEW c, NEW d, NEW P, Kept(c, d, P), Spare(c, P), Len(c) \in Nat, Len(d) \in Nat,
         NEW b, Cells(c, b), Holes(b) \cap P = {}
  PROVE  Cells(d, b)
<1>1. b.kind # "case" => CellAt(d, b.pos, Ins(HeadOp(b.kind), 0))
  <2>1. b.kind # "case" => b.pos \notin P BY DEF Holes
  <2> QED BY <2>1, CellKept DEF Cells
<1>2. ASSUME NEW p \in b.ends \cup b.gotos PROVE CellAt(d, p, Ins("GOTO", 0))
  <2>1. p \notin P BY DEF Holes
  <2>2. CellAt(c, p, Ins("GOTO", 0)) BY DEF Cells
  <2> QED BY <2>1, <2>2, CellKept
<1>3. ASSUME b.kind = "func" PROVE b.pos + 1 \in 1 .. Len(d) /\ d[b.pos + 1].op = "ENTER"
  <2>1. PICK p : p = b.pos + 1 OBVIOUS
  <2>2. p \in 1 .. Len(c) /\ c[p].op = "ENTER" BY <1>3, <2>1 DEF Cells
  <2>3. p \notin P BY <2>2 DEF Spare, Jumps
  <2>4. CellAt(c, p, c[p]) BY <2>2 DEF CellAt
  <2>5. CellAt(d, p, c[p]) BY <2>3, <2>4, CellKept
  <2> QED BY <2>1, <2>2, <2>5 DEF CellAt
<1> QED BY <1>1, <1>2, <1>3 DEF Cells

LEMMA BlockOfStays ==
  ASSUME NEW c, NEW d, NEW P, Kept(c, d, P), Spare(c, P), Len(c) \in Nat, Len(d) \in Nat,
         NEW s, NEW ss, Begins(s, ss), NEW i \in 1 .. Len(s),
         NEW b, BlockOf(c, s, i, b), Holes(b) \cap P = {}
  PROVE  BlockOf(d, ss, i, b)
<1>1. s \in Seq(Token) /\ Len(s) \in Nat BY LenProperties DEF Begins
<1>2. i \in Int /\ i <= Len(s) + 1 BY <1>1
<1>3. ss[i] = s[i] BY DEF Begins
<1>4. SameAround(s, i, ss, i) BY <1>2, EarlierContext
<1>5. ContextAt(ss, i, b.outer_loop, b.outer_depth) BY <1>2, <1>4, SameContext DEF BlockOf
<1>6. Cells(d, b) BY CellsGo DEF BlockOf
<1> QED BY <1>3, <1>5, <1>6 DEF BlockOf

(* The open blocks after a step: those that are kept as they were, and     *)
(* those that the step has made or changed.                                *)
LEMMA ShapeStep ==
  ASSUME NEW c, NEW s, NEW os, NEW bs, NEW bp, Shape(c, s, os, bs, bp),
         NEW d, NEW P, Kept(c, d, P), Spare(c, P), Len(c) \in Nat, Len(d) \in Nat,
         NEW ss, Begins(s, ss), NEW us, Nest(ss, us), NEW cs, Len(us) = Len(cs),
         NEW bq, Apart(cs, bq),
         \A i \in Len(s) + 1 .. Len(ss) : ss[i].at \in 1 .. Len(d) + 1,
         \A k \in 1 .. Len(cs) :
           \/ /\ k \in 1 .. Len(bs) /\ us[k] = os[k] /\ cs[k] = bs[k]
              /\ Holes(bs[k]) \cap P = {}
           \/ BlockOf(d, ss, us[k], cs[k])
  PROVE  Shape(d, ss, us, cs, bq)
<1>1. Nest(s, os) /\ Len(os) = Len(bs) /\ Placed(c, s)
      /\ \A k \in 1 .. Len(bs) : BlockOf(c, s, os[k], bs[k])
  BY DEF Shape
<1>2. /\ Len(s) \in Nat /\ \A k \in 1 .. Len(os) : os[k] \in 1 .. Len(s)
  BY <1>1, NestFacts
<1>3. ASSUME NEW k \in 1 .. Len(cs) PROVE BlockOf(d, ss, us[k], cs[k])
  <2>1. CASE /\ k \in 1 .. Len(bs) /\ us[k] = os[k] /\ cs[k] = bs[k]
             /\ Holes(bs[k]) \cap P = {}
    <3>1. os[k] \in 1 .. Len(s) /\ BlockOf(c, s, os[k], bs[k]) BY <1>1, <1>2, <2>1
    <3>2. BlockOf(d, ss, os[k], bs[k]) BY <2>1, <3>1, BlockOfStays
    <3> QED BY <2>1, <3>2
  <2>2. CASE BlockOf(d, ss, us[k], cs[k]) BY <2>2
  <2> QED BY <2>1, <2>2
<1>4. Placed(d, ss)
  <2>1. ASSUME NEW i \in 1 .. Len(ss) PROVE ss[i].at \in 1 .. Len(d) + 1
    <3>1. Len(ss) \in Nat BY LenProperties DEF Begins
    <3>2. i \in 1 .. Len(s) \/ i \in Len(s) + 1 .. Len(ss) BY ONLY <1>2, <3>1, <2>1
    <3>3. ASSUME i \in 1 .. Len(s) PROVE ss[i].at \in 1 .. Len(d) + 1
      <4>1. s[i].at \in 1 .. Len(c) + 1 /\ ss[i] = s[i] BY <1>1, <3>3 DEF Placed, Begins
      <4>2. Len(c) <= Len(d) BY DEF Kept
      <4>3. s[i].at \in 1 .. Len(d) + 1 BY ONLY <4>1, <4>2, Len(c) \in Nat, Len(d) \in Nat
      <4> QED BY <4>1, <4>3
    <3> QED BY <3>2, <3>3
  <2> QED BY <2>1 DEF Placed
<1> QED BY <1>3, <1>4 DEF Shape

-----------------------------------------------------------------------------
(* No cell waits for two ends.                                             *)
Clear(bs, bp, b) ==
  /\ b.pos \notin b.ends \cup b.gotos
  /\ \A k \in 1 .. Len(bs) : Holes(bs[k]) \cap Holes(b) = {}
  /\ \A x \in 1 .. Len(bp) : bp[x] \notin Holes(b)
Starts(t, n, u) == Len(u) = n /\ n <= Len(t) /\ \A k \in 1 .. n : u[k] = t[k]

LEMMA ApartStart ==
  ASSUME NEW bs, NEW bp, Apart(bs, bp), Len(bs) \in Nat, Len(bp) \in Nat,
         NEW n \in Nat, NEW m \in Nat, NEW cs, Starts(bs, n, cs), NEW bq, Starts(bp, m, bq)
  PROVE  Apart(cs, bq)
<1>1. Len(cs) = n /\ \A k \in 1 .. n : k \in 1 .. Len(bs) /\ cs[k] = bs[k]
  <2>1. n <= Len(bs) BY DEF Starts
  <2>2. \A k \in 1 .. n : k \in 1 .. Len(bs) BY ONLY <2>1, n \in Nat, Len(bs) \in Nat
  <2> QED BY <2>2 DEF Starts
<1>2. Len(bq) = m /\ \A k \in 1 .. m : k \in 1 .. Len(bp) /\ bq[k] = bp[k]
  <2>1. m <= Len(bp) BY DEF Starts
  <2>2. \A k \in 1 .. m : k \in 1 .. Len(bp) BY ONLY <2>1, m \in Nat, Len(bp) \in Nat
  <2> QED BY <2>2 DEF Starts
<1> QED BY <1>1, <1>2 DEF Apart

(* Two blocks that differ in the addresses of their cases at most.         *)
Like(b, a) ==
  /\ a.kind = b.kind /\ a.pos = b.pos /\ a.top = b.top /\ a.ends = b.ends
  /\ a.outer_loop = b.outer_loop /\ a.outer_depth = b.outer_depth
  /\ a.first_break = b.first_break /\ a.gotos = b.gotos

LEMMA LikeBlock ==
  ASSUME NEW b, NEW a, Like(b, a)
  PROVE  /\ Holes(a) = Holes(b) /\ Chain(a) = Chain(b)
         /\ \A c, s, i : BlockOf(c, s, i, b) => BlockOf(c, s, i, a)
<1>1. Holes(a) = Holes(b) BY DEF Like, Holes
<1>2. Chain(a) = Chain(b) BY DEF Like, Chain
<1>3. ASSUME NEW c, NEW s, NEW i, BlockOf(c, s, i, b) PROVE BlockOf(c, s, i, a)
  <2>1. Slot(s[i], a) BY <1>3 DEF BlockOf, Like, Slot
  <2>2. Cells(c, a) BY <1>3 DEF BlockOf, Like, Cells
  <2>3. ContextAt(s, i, a.outer_loop, a.outer_depth) BY <1>3 DEF BlockOf, Like
  <2> QED BY <2>1, <2>2, <2>3 DEF BlockOf
<1> QED BY <1>1, <1>2, <1>3

LEMMA ApartMore ==
  ASSUME NEW bs, NEW bp, Apart(bs, bp), Len(bs) \in Nat, NEW b, Clear(bs, bp, b),
         NEW cs, NEW n, n = Len(bs) + 1, Len(cs) = n, cs[n] = b,
         \A k \in 1 .. Len(bs) : Like(bs[k], cs[k])
  PROVE  Apart(cs, bp)
<1>1. \A k \in 1 .. Len(cs) : k = n \/ k \in 1 .. Len(bs) BY ONLY Len(bs) \in Nat, n = Len(bs) + 1, Len(cs) = n
<1>0. \A k \in 1 .. Len(bs) : Holes(cs[k]) = Holes(bs[k]) BY LikeBlock
<1>2. ASSUME NEW k \in 1 .. Len(cs), NEW m \in 1 .. Len(cs), k # m
      PROVE  Holes(cs[k]) \cap Holes(cs[m]) = {}
  <2>1. CASE k = n /\ m \in 1 .. Len(bs)
    <3>1. Holes(bs[m]) \cap Holes(b) = {} BY <2>1 DEF Clear
    <3> QED BY <1>0, <2>1, <3>1
  <2>2. CASE m = n /\ k \in 1 .. Len(bs)
    <3>1. Holes(bs[k]) \cap Holes(b) = {} BY <2>2 DEF Clear
    <3> QED BY <1>0, <2>2, <3>1
  <2>3. CASE m \in 1 .. Len(bs) /\ k \in 1 .. Len(bs)
    BY <1>0, <1>2, <2>3 DEF Apart
  <2> QED BY <1>1, <1>2, <2>1, <2>2, <2>3
<1>3. ASSUME NEW k \in 1 .. Len(cs)
      PROVE  /\ cs[k].pos \notin cs[k].ends \cup cs[k].gotos
             /\ \A x \in 1 .. Len(bp) : bp[x] \notin Holes(cs[k])
  <2>1. CASE k = n BY <2>1 DEF Clear
  <2>2. CASE k \in 1 .. Len(bs) BY <1>0, <2>2 DEF Apart, Like
  <2> QED BY <1>1, <2>1, <2>2
<1>4. \A x, y \in 1 .. Len(bp) : x # y => bp[x] # bp[y] BY DEF Apart
<1> QED BY <1>2, <1>3, <1>4 DEF Apart

LEMMA ApartBreak ==
  ASSUME NEW bs, NEW bp, Apart(bs, bp), Len(bp) \in Nat, NEW p,
         \A k \in 1 .. Len(bs) : p \notin Holes(bs[k]),
         \A x \in 1 .. Len(bp) : bp[x] # p,
         NEW bq, NEW n, n = Len(bp) + 1, Len(bq) = n, bq[n] = p,
         \A x \in 1 .. Len(bp) : bq[x] = bp[x]
  PROVE  Apart(bs, bq)
<1>1. \A k \in 1 .. Len(bq) : k = n \/ k \in 1 .. Len(bp) BY ONLY Len(bp) \in Nat, n = Len(bp) + 1, Len(bq) = n
<1>2. ASSUME NEW k \in 1 .. Len(bs), NEW x \in 1 .. Len(bq) PROVE bq[x] \notin Holes(bs[k])
  BY <1>1 DEF Apart
<1>3. ASSUME NEW x \in 1 .. Len(bq), NEW y \in 1 .. Len(bq), x # y PROVE bq[x] # bq[y]
  BY <1>1, <1>3 DEF Apart
<1> QED BY <1>2, <1>3 DEF Apart

(* The cells of a block that are new, or were the last block's.            *)
LEMMA ClearNew ==
  ASSUME NEW c, NEW s, NEW os, NEW bs, NEW bp, Shape(c, s, os, bs, bp),
         Len(c) \in Nat, \A x \in 1 .. Len(bp) : bp[x] \in 1 .. Len(c),
         NEW b, b.pos \notin b.ends \cup b.gotos,
         \A p \in Holes(b) : p > Len(c)
  PROVE  Clear(bs, bp, b)
<1>1. ASSUME NEW k \in 1 .. Len(bs) PROVE Holes(bs[k]) \cap Holes(b) = {}
  <2>1. Spare(c, Holes(bs[k])) BY SpareHoles DEF Shape, BlockOf
  <2>2. \A p \in Holes(bs[k]) : p \in 1 .. Len(c) BY <2>1 DEF Spare
  <2> QED BY <2>2
<1> QED BY <1>1 DEF Clear

LEMMA ClearTop ==
  ASSUME NEW c, NEW s, NEW os, NEW bs, NEW bp, Shape(c, s, os, bs, bp),
         Len(c) \in Nat, \A x \in 1 .. Len(bp) : bp[x] \in 1 .. Len(c),
         Len(bs) \in Nat, NEW n \in Nat, n + 1 = Len(bs), NEW cs, Starts(bs, n, cs),
         NEW b, b.pos \notin b.ends \cup b.gotos,
         \A p \in Holes(b) : p > Len(c) \/ p \in Holes(bs[n + 1])
  PROVE  Clear(cs, bp, b)
<1>1. PICK m : m = n + 1 OBVIOUS
<1>2. m \in 1 .. Len(bs) /\ \A k \in 1 .. n : k \in 1 .. Len(bs) /\ k # m
  BY ONLY <1>1, n \in Nat, n + 1 = Len(bs)
<1>3. Len(cs) = n /\ \A k \in 1 .. n : cs[k] = bs[k] BY DEF Starts
<1>4. Apart(bs, bp) BY DEF Shape
<1>5. ASSUME NEW k \in 1 .. Len(bs) PROVE \A p \in Holes(bs[k]) : p \in 1 .. Len(c)
  <2>1. Spare(c, Holes(bs[k])) BY SpareHoles DEF Shape, BlockOf
  <2> QED BY <2>1 DEF Spare
<1>6. ASSUME NEW k \in 1 .. Len(cs) PROVE Holes(cs[k]) \cap Holes(b) = {}
  <2>1. k \in 1 .. Len(bs) /\ k # m /\ cs[k] = bs[k] BY <1>2, <1>3
  <2>2. Holes(bs[k]) \cap Holes(bs[m]) = {} BY <1>2, <1>4, <2>1 DEF Apart
  <2>3. \A p \in Holes(bs[k]) : p \in 1 .. Len(c) BY <1>5, <2>1
  <2> QED BY <1>1, <2>1, <2>2, <2>3
<1>7. ASSUME NEW x \in 1 .. Len(bp) PROVE bp[x] \notin Holes(b)
  <2>1. bp[x] \notin Holes(bs[m]) BY <1>2, <1>4 DEF Apart
  <2> QED BY <1>1, <2>1
<1> QED BY <1>6, <1>7 DEF Clear

-----------------------------------------------------------------------------
(* The branches, the breaks and the cases that wait, after a step.         *)
ElseWaitsOn(s, bs, i) == \E k \in 1 .. Len(bs) : ElseWaits(s, bs, i, k)

LEMMA ElsesStay ==
  ASSUME NEW c, NEW s, NEW d, NEW ss, Extends(c, s, d, ss), NEW bs, NEW cs,
         Elses(c, s, bs),
         \A i \in 1 .. Len(s), k \in 1 .. Len(bs) :
           ElseWaits(s, bs, i, k) => ElseDone(d, ss, i) \/ ElseWaitsOn(ss, cs, i),
         \A i \in Len(s) + 1 .. Len(ss) :
           ss[i].tok \in {"else", "elseif"} => ElseWaitsOn(ss, cs, i)
  PROVE  Elses(d, ss, cs)
<1>1. /\ Len(s) \in Nat /\ Len(ss) \in Nat /\ Len(s) < Len(ss)
      /\ \A x \in 1 .. Len(s) : ss[x] = s[x]
  BY ExtendsFacts
<1>2. ASSUME NEW i \in 1 .. Len(s), s[i].tok \in {"else", "elseif"}
      PROVE  ElseDone(d, ss, i) \/ ElseWaitsOn(ss, cs, i)
  <2>1. ElseDone(c, s, i) \/ \E k \in 1 .. Len(bs) : ElseWaits(s, bs, i, k) BY <1>2 DEF Elses
  <2>2. ElseDone(c, s, i) => ElseDone(d, ss, i) BY ElseStays
  <2> QED BY <2>1, <2>2
<1>3. \A i \in 1 .. Len(ss) : i \in 1 .. Len(s) \/ i \in Len(s) + 1 .. Len(ss) BY <1>1
<1> QED BY <1>1, <1>2, <1>3 DEF Elses, ElseWaitsOn

LEMMA ElseWaitsStays ==
  ASSUME NEW s, NEW ss, Begins(s, ss), NEW i \in 1 .. Len(s), NEW bs, NEW k,
         ElseWaits(s, bs, i, k), NEW cs, k \in 1 .. Len(cs),
         Chain(bs[k]) \subseteq Chain(cs[k]), cs[k].kind \in {"if", "else"},
         \A x \in Len(s) + 1 .. Len(ss) :
           ss[x].tok = "}" /\ LevelIn(ss, x) = k - 1 => ContinuedIn(ss, x)
  PROVE  ElseWaitsOn(ss, cs, i)
<1>1. /\ s \in Seq(Token) /\ Len(s) \in Nat /\ Len(ss) \in Nat /\ Len(s) <= Len(ss)
      /\ \A x \in 1 .. Len(s) : ss[x] = s[x]
  BY LenProperties DEF Begins
<1>2. \A x \in Int : x <= Len(s) => LevelIn(ss, x) = LevelIn(s, x) BY LevelSame
<1>3. i \in Int /\ i <= Len(s) BY ONLY <1>1, i \in 1 .. Len(s)
<1>4. /\ s[i].at \in Chain(bs[k]) /\ LevelIn(s, i) = k
      /\ \A x \in i + 1 .. Len(s) : s[x].tok = "}" /\ LevelIn(s, x) = k - 1 => ContinuedIn(s, x)
  BY DEF ElseWaits
<1>5. ASSUME NEW x \in i + 1 .. Len(ss), ss[x].tok = "}", LevelIn(ss, x) = k - 1
      PROVE  ContinuedIn(ss, x)
  <2>1. x \in Len(s) + 1 .. Len(ss) \/ (x \in i + 1 .. Len(s) /\ x \in 1 .. Len(s) /\ x \in Int /\ x <= Len(s))
    BY ONLY <1>1, i \in 1 .. Len(s), x \in i + 1 .. Len(ss)
  <2>2. CASE x \in i + 1 .. Len(s) /\ x \in 1 .. Len(s) /\ x \in Int /\ x <= Len(s)
    <3>1. ss[x] = s[x] /\ LevelIn(ss, x) = LevelIn(s, x) BY <1>1, <1>2, <2>2
    <3>2. ContinuedIn(s, x) BY <1>4, <1>5, <2>2, <3>1
    <3>3. x < Len(s) /\ s[x + 1].tok \in {"else", "elseif"} BY <3>2 DEF ContinuedIn
    <3>4. PICK y : y = x + 1 OBVIOUS
    <3>5. y \in 1 .. Len(s) /\ x < Len(ss) BY ONLY <1>1, <2>2, <3>3, <3>4
    <3> QED BY <1>1, <3>3, <3>4, <3>5 DEF ContinuedIn
  <2> QED BY <1>5, <2>1, <2>2
<1>6. LevelIn(ss, i) = k /\ ss[i] = s[i] BY <1>1, <1>2, <1>3, <1>4
<1>7. ElseWaits(ss, cs, i, k) BY <1>4, <1>5, <1>6 DEF ElseWaits
<1> QED BY <1>7 DEF ElseWaitsOn

BreakWaitsOn(c, s, os, bs, bp, i) ==
  \E x \in 1 .. Len(bp) : BreakWaits(c, s, os, bs, bp, i, x)

LEMMA BreaksGo ==
  ASSUME NEW c, NEW s, NEW d, NEW ss, Extends(c, s, d, ss),
         NEW os, NEW bs, NEW bp, Breaks(c, s, os, bs, bp), NEW us, NEW cs, NEW bq,
         \A i \in 1 .. Len(s), x \in 1 .. Len(bp) : BreakWaits(c, s, os, bs, bp, i, x) =>
           \/ x \in 1 .. Len(bq) /\ BreakWaits(d, ss, us, cs, bq, i, x)
           \/ x \notin 1 .. Len(bq) /\ BreakDone(d, ss, i),
         \A x \in 1 .. Len(bq) : x \in 1 .. Len(bp)
           \/ \E i \in 1 .. Len(ss) : BreakWaits(d, ss, us, cs, bq, i, x),
         \A i \in Len(s) + 1 .. Len(ss) :
           ss[i].tok = "break" => BreakWaitsOn(d, ss, us, cs, bq, i)
  PROVE  Breaks(d, ss, us, cs, bq)
<1>1. /\ Len(s) \in Nat /\ Len(ss) \in Nat /\ Len(s) < Len(ss)
      /\ \A x \in 1 .. Len(s) : x \in 1 .. Len(ss) /\ ss[x] = s[x]
  BY ExtendsFacts
<1>2. ASSUME NEW x \in 1 .. Len(bq)
      PROVE  \E i \in 1 .. Len(ss) : BreakWaits(d, ss, us, cs, bq, i, x)
  <2>1. CASE x \in 1 .. Len(bp)
    <3>1. PICK i \in 1 .. Len(s) : BreakWaits(c, s, os, bs, bp, i, x) BY <2>1 DEF Breaks
    <3>2. BreakWaits(d, ss, us, cs, bq, i, x) BY <1>2, <2>1, <3>1
    <3> QED BY <1>1, <3>2
  <2> QED BY <2>1
<1>3. ASSUME NEW i \in 1 .. Len(s), s[i].tok = "break"
      PROVE  BreakDone(d, ss, i) \/ BreakWaitsOn(d, ss, us, cs, bq, i)
  <2>1. BreakDone(c, s, i) \/ \E x \in 1 .. Len(bp) : BreakWaits(c, s, os, bs, bp, i, x)
    BY <1>3 DEF Breaks
  <2>2. BreakDone(c, s, i) => BreakDone(d, ss, i) BY BreakStays
  <2> QED BY <2>1, <2>2 DEF BreakWaitsOn
<1>4. \A i \in 1 .. Len(ss) : i \in 1 .. Len(s) \/ i \in Len(s) + 1 .. Len(ss) BY <1>1
<1> QED BY <1>1, <1>2, <1>3, <1>4 DEF Breaks, BreakWaitsOn

LEMMA BreakForStays ==
  ASSUME NEW s, NEW os, NEW bs, NEW i, NEW x, NEW q, BreakFor(s, os, bs, i, x, q),
         NEW ss, NEW us, NEW cs, LoopOf(ss, i) = LoopOf(s, i),
         q \in 1 .. Len(us), us[q] = os[q],
         cs[q].kind = bs[q].kind, cs[q].first_break = bs[q].first_break,
         \A r \in q + 1 .. Len(us) : cs[r].kind \in LoopWords =>
           \/ x <= cs[r].first_break
           \/ r \in q + 1 .. Len(os) /\ bs[r].kind \in LoopWords
              /\ cs[r].first_break = bs[r].first_break
  PROVE  BreakFor(ss, us, cs, i, x, q)
  BY DEF BreakFor

LEMMA BreakWaitsStays ==
  ASSUME NEW c, NEW s, NEW os, NEW bs, NEW bp, NEW i \in 1 .. Len(s), NEW x,
         BreakWaits(c, s, os, bs, bp, i, x), NEW ss, Begins(s, ss),
         NEW d, NEW P, Kept(c, d, P), Len(c) \in Nat, Len(d) \in Nat, bp[x] \notin P,
         NEW us, NEW cs, NEW bq, bq[x] = bp[x],
         \E q \in 1 .. Len(us) : BreakFor(ss, us, cs, i, x, q)
  PROVE  BreakWaits(d, ss, us, cs, bq, i, x)
<1>1. ss[i] = s[i] BY DEF Begins
<1>2. /\ s[i].tok = "break" /\ bp[x] = s[i].at
      /\ LoopOf(s, i) # 0 /\ CellAt(c, bp[x], Ins(BreakOp(s[LoopOf(s, i)]), 0))
  BY DEF BreakWaits
<1>3. LoopOf(ss, i) = LoopOf(s, i) /\ ss[LoopOf(s, i)] = s[LoopOf(s, i)]
  BY <1>2, LoopOfStays
<1>4. CellAt(d, bp[x], Ins(BreakOp(s[LoopOf(s, i)]), 0)) BY <1>2, CellKept
<1> QED BY <1>1, <1>2, <1>3, <1>4 DEF BreakWaits

-----------------------------------------------------------------------------
LEMMA CasesStay ==
  ASSUME NEW s, NEW os, Nest(s, os), NEW bs, NEW q \in 1 .. Len(os), CasesAt(s, os, bs, q),
         NEW ss, Begins(s, ss), NEW us, us[q] = os[q],
         NEW cs, cs[q].case_addrs = bs[q].case_addrs, bs[q].gotos \subseteq cs[q].gotos,
         \A x \in Len(s) + 1 .. Len(ss) : ss[x].tok = "case" => LevelIn(ss, x) # q + 1,
         \A k \in 1 .. Len(s) :
           s[k].tok = "case" /\ IsOpen(os, k) /\ LevelIn(s, k) = q + 1 =>
             \/ IsOpen(us, k)
             \/ \E m \in 1 .. Len(ss) : Closer(ss, k, m) /\ ss[m].at \in cs[q].gotos
  PROVE  CasesAt(ss, us, cs, q)
<1>1. /\ s \in Seq(Token) /\ ss \in Seq(Token) /\ Len(s) \in Nat /\ Len(ss) \in Nat
      /\ Len(s) <= Len(ss) /\ DOMAIN s = 1 .. Len(s) /\ DOMAIN ss = 1 .. Len(ss)
      /\ \A x \in 1 .. Len(s) : ss[x] = s[x]
  BY LenProperties DEF Begins
<1>2. PICK i : i = os[q] OBVIOUS
<1>3. i \in 1 .. Len(s) /\ LevelIn(s, i) = q BY <1>2, NestFacts
<1>4. PICK e : e = Len(s) + 1 OBVIOUS
<1>5. PICK f : f = Len(ss) + 1 OBVIOUS
<1>6. \A x \in Int : x <= Len(s) => LevelIn(ss, x) = LevelIn(s, x) BY LevelSame
<1>7. LevelIn(ss, i) = q
  <2>1. i \in Int /\ i <= Len(s) BY ONLY <1>1, <1>3
  <2> QED BY <1>3, <1>6, <2>1
<1>8. CasesIn(s, i, e) \subseteq 1 .. Len(s)
      /\ \A k \in CasesIn(s, i, e) : s[k].tok = "case" /\ LevelIn(s, k) = q + 1
  <2>1. CasesIn(s, i, e) \subseteq 1 .. Len(s) BY <1>1, CasesAreSet
  <2>2. \A k \in CasesIn(s, i, e) : s[k].tok = "case" BY <1>1, CasesAreSet
  <2>3. \A k \in CasesIn(s, i, e) : LevelIn(s, k) = q + 1 BY <1>3 DEF CasesIn
  <2> QED BY <2>1, <2>2, <2>3
<1>9. CasesIn(ss, i, f) = CasesIn(s, i, e)
  <2>1. ASSUME NEW k \in CasesIn(ss, i, f) PROVE k \in CasesIn(s, i, e)
    <3>1. k \in 1 .. Len(ss) /\ ss[k].tok = "case" /\ i < k BY <1>1, CasesAreSet
    <3>2. LevelIn(ss, k) = q + 1 BY <1>7 DEF CasesIn
    <3>3. k \notin Len(s) + 1 .. Len(ss) BY <3>1, <3>2
    <3>4. k \in 1 .. Len(s) /\ k \in Int /\ k <= Len(s) /\ k < e
      BY ONLY <1>1, <1>4, <3>1, <3>3
    <3>5. s[k].tok = "case" /\ LevelIn(s, k) = q + 1 BY <1>1, <1>6, <3>1, <3>2, <3>4
    <3> QED BY <1>1, <1>3, <3>1, <3>4, <3>5 DEF CasesIn, InTokens
  <2>2. ASSUME NEW k \in CasesIn(s, i, e) PROVE k \in CasesIn(ss, i, f)
    <3>1. k \in 1 .. Len(s) /\ i < k /\ s[k].tok = "case" /\ LevelIn(s, k) = q + 1
      BY <1>1, <1>8, CasesAreSet
    <3>2. k \in 1 .. Len(ss) /\ k < f /\ k \in Int /\ k <= Len(s) BY ONLY <1>1, <1>5, <3>1
    <3>3. ss[k].tok = "case" /\ LevelIn(ss, k) = q + 1 BY <1>1, <1>6, <3>1, <3>2
    <3> QED BY <1>1, <1>7, <3>1, <3>2, <3>3 DEF CasesIn, InTokens
  <2> QED BY <2>1, <2>2
<1>10. ASSUME NEW k \in CasesIn(s, i, e) PROVE CaseIn(ss, us, cs, q, k)
  <2>1. k \in 1 .. Len(s) /\ s[k].tok = "case" /\ LevelIn(s, k) = q + 1 /\ ss[k] = s[k]
    BY <1>1, <1>8
  <2>2. /\ s[k].val \in 0 .. MaxCases - 1 /\ bs[q].case_addrs[s[k].val] = s[k].at
        /\ \/ IsOpen(os, k)
           \/ \E m \in 1 .. Len(s) : Closer(s, k, m) /\ s[m].at \in bs[q].gotos
    BY <1>2, <1>4 DEF CasesAt, CaseIn
  <2>3. ASSUME NEW m \in 1 .. Len(s), Closer(s, k, m), s[m].at \in bs[q].gotos
        PROVE  m \in 1 .. Len(ss) /\ Closer(ss, k, m) /\ ss[m].at \in cs[q].gotos
    <3>1. m \in 1 .. Len(ss) BY ONLY <1>1, <2>3, m \in 1 .. Len(s)
    <3>2. ss[m] = s[m] BY <1>1
    <3>3. /\ m \in k + 1 .. Len(s) /\ s[m].tok = "}" /\ LevelIn(s, m) = LevelIn(s, k) - 1
          /\ \A x \in k .. m - 1 : LevelIn(s, x) >= LevelIn(s, k)
      BY <2>3 DEF Closer
    <3>4. PICK n : n = Len(s) OBVIOUS
    <3>5. PICK o : o = Len(ss) OBVIOUS
    <3>6. n \in Nat /\ o \in Nat /\ n <= o /\ m \in k + 1 .. n /\ k \in 1 .. n
      BY <1>1, <2>1, <3>3, <3>4, <3>5
    <3>7. m \in k + 1 .. o /\ m \in Int /\ m <= n /\ k \in Int /\ k <= n BY ONLY <3>6
    <3>8. \A x \in k .. m - 1 : x \in Int /\ x <= n BY ONLY <3>6
    <3>9. /\ LevelIn(ss, m) = LevelIn(s, m) /\ LevelIn(ss, k) = LevelIn(s, k)
          /\ \A x \in k .. m - 1 : LevelIn(ss, x) = LevelIn(s, x)
      BY <1>6, <3>4, <3>7, <3>8
    <3>10. Closer(ss, k, m) BY <3>2, <3>3, <3>5, <3>7, <3>9 DEF Closer
    <3> QED BY <2>3, <3>1, <3>2, <3>10
  <2>4. IsOpen(us, k) \/ \E m \in 1 .. Len(ss) : Closer(ss, k, m) /\ ss[m].at \in cs[q].gotos
    BY <2>1, <2>2, <2>3
  <2> QED BY <2>1, <2>2, <2>4 DEF CaseIn
<1>11. ASSUME NEW v \in 0 .. MaxCases - 1, cs[q].case_addrs[v] # 0
       PROVE  \E k \in CasesIn(s, i, e) : ss[k].val = v
  <2>1. PICK k \in CasesIn(s, i, e) : s[k].val = v BY <1>2, <1>4, <1>11 DEF CasesAt
  <2>2. ss[k] = s[k] BY <1>1, <1>8
  <2> QED BY <2>1, <2>2
<1>12. us[q] = i BY <1>2
<1> QED BY <1>5, <1>9, <1>10, <1>11, <1>12 DEF CasesAt

(* A dispatch that has just begun has no cases.                            *)
LEMMA CasesBegin ==
  ASSUME NEW ss \in Seq(Token), NEW us, NEW cs, NEW q, us[q] = Len(ss),
         \A v \in 0 .. MaxCases - 1 : cs[q].case_addrs[v] = 0
  PROVE  CasesAt(ss, us, cs, q)
<1>1. PICK f : f = Len(ss) + 1 OBVIOUS
<1>2. ASSUME NEW k \in CasesIn(ss, us[q], f) PROVE FALSE
  <2>1. k \in 1 .. Len(ss) /\ us[q] < k /\ Len(ss) \in Nat BY CasesAreSet
  <2> QED BY ONLY <2>1, us[q] = Len(ss)
<1> QED BY <1>1, <1>2 DEF CasesAt

-----------------------------------------------------------------------------
(* The compiler reads the token t and writes code.                         *)
Moves(c, s, d, t, ss) ==
  /\ s \in Seq(Token) /\ t \in Token /\ Grown(s, t, ss)
  /\ Whole(c) /\ Whole(d) /\ t.at = Len(c) + 1 /\ t.tok \notin {"else", "elseif"}

LEMMA MovesFacts ==
  ASSUME NEW c, NEW s, NEW d, NEW t, NEW ss, Moves(c, s, d, t, ss),
         NEW P, Kept(c, d, P), Spare(c, P), Placed(c, s), NEW e, e = Len(s) + 1
  PROVE  /\ Extends(c, s, d, ss) /\ Begins(s, ss) /\ Len(ss) = e /\ ss[e] = t
         /\ e \in 1 .. Len(ss) /\ Len(s) \in Nat
         /\ Len(c) \in Nat /\ Len(d) \in Nat /\ Len(c) <= Len(d)
         /\ \A x \in Len(s) + 1 .. Len(ss) : x = e /\ ss[x].at \in 1 .. Len(d) + 1
<1>1. /\ s \in Seq(Token) /\ t \in Token /\ Grown(s, t, ss) /\ Whole(c) /\ Whole(d)
      /\ t.at = Len(c) + 1 /\ t.tok \notin {"else", "elseif"}
  BY DEF Moves
<1>2. /\ Begins(s, ss) /\ ss \in Seq(Token) /\ Len(ss) = e /\ ss[e] = t
      /\ e \in Nat /\ e \in 1 .. Len(ss) /\ Len(s) \in Nat
  BY <1>1, GrownFacts
<1>3. Len(c) \in Nat /\ Len(d) \in Nat BY <1>1, LenProperties DEF Whole, IsCode
<1>4. Len(c) <= Len(d) BY DEF Kept
<1>5. FirmKept(c, d) BY SpareFirm
<1>6. Len(s) < Len(ss) BY ONLY <1>2, e = Len(s) + 1
<1>7. Extends(c, s, d, ss) BY <1>1, <1>2, <1>5, <1>6 DEF Extends
<1>8. \A x \in Len(s) + 1 .. Len(ss) : x = e BY ONLY <1>2, e = Len(s) + 1
<1>9. t.at \in 1 .. Len(d) + 1 BY ONLY <1>1, <1>3, <1>4
<1> QED BY <1>2, <1>3, <1>4, <1>7, <1>8, <1>9

NoCell == {}
LEMMA NoCells ==
  ASSUME NEW c
  PROVE  Spare(c, NoCell)
  BY DEF Spare, NoCell

(* A statement that is no block.                                           *)
LEMMA PlainRest ==
  ASSUME NEW c, NEW s, NEW os, NEW bs, NEW bp, ReadIn(c, s, os, bs, bp),
         NEW d, NEW t, NEW ss, Moves(c, s, d, t, ss), Kept(c, d, NoCell),
         t.tok \notin Openers, t.tok # "}", NEW e, e = Len(s) + 1, Done(d, ss, e),
         NEW bq, Apart(bs, bq)
  PROVE  Shape(d, ss, os, bs, bq) /\ Told(d, ss, os) /\ Elses(d, ss, bs) /\ Cases(ss, os, bs)
<1>0. Spare(c, NoCell) BY NoCells
<1>1. Shape(c, s, os, bs, bp) /\ Told(c, s, os) /\ Elses(c, s, bs) /\ Cases(s, os, bs)
  BY DEF ReadIn
<1>2. Nest(s, os) /\ Len(os) = Len(bs) /\ Placed(c, s) BY <1>1 DEF Shape
<1>3. /\ Extends(c, s, d, ss) /\ Begins(s, ss) /\ Len(ss) = e /\ ss[e] = t
      /\ e \in 1 .. Len(ss) /\ Len(s) \in Nat /\ Len(c) \in Nat /\ Len(d) \in Nat
      /\ \A x \in Len(s) + 1 .. Len(ss) : x = e /\ ss[x].at \in 1 .. Len(d) + 1
  BY ONLY <1>2, <1>0, Moves(c, s, d, t, ss), Kept(c, d, NoCell), e = Len(s) + 1, MovesFacts
<1>4. Nest(ss, os) BY <1>2, PlainNest DEF Moves
<1>5. Shape(d, ss, os, bs, bq)
  <2>1. \A i \in Len(s) + 1 .. Len(ss) : ss[i].at \in 1 .. Len(d) + 1 BY <1>3
  <2>2. \A k \in 1 .. Len(bs) :
           \/ /\ k \in 1 .. Len(bs) /\ os[k] = os[k] /\ bs[k] = bs[k]
              /\ Holes(bs[k]) \cap NoCell = {}
           \/ BlockOf(d, ss, os[k], bs[k])
    BY DEF NoCell
  <2> QED BY ONLY <1>0, <1>1, <1>2, <1>3, <1>4, <2>1, <2>2, Kept(c, d, NoCell), Apart(bs, bq), ShapeStep
<1>6. Told(d, ss, os)
  <2>1. \A i \in Len(s) + 1 .. Len(ss) : IsOpen(os, i) \/ Done(d, ss, i) BY <1>3
  <2> QED BY <1>1, <1>3, <2>1, ToldStays
<1>7. Elses(d, ss, bs)
  <2>1. t.tok \notin {"else", "elseif"} BY DEF Moves
  <2>2. ASSUME NEW i \in 1 .. Len(s), NEW k \in 1 .. Len(bs), ElseWaits(s, bs, i, k)
        PROVE  ElseWaitsOn(ss, bs, i)
    <3>1. bs[k].kind \in {"if", "else"} BY <2>2 DEF ElseWaits
    <3>2. \A x \in Len(s) + 1 .. Len(ss) : ss[x].tok # "}" BY <1>3
    <3>3. Chain(bs[k]) \subseteq Chain(bs[k]) OBVIOUS
    <3> QED BY <1>3, <2>2, <3>1, <3>2, <3>3, ElseWaitsStays
  <2>3. \A i \in Len(s) + 1 .. Len(ss) : ss[i].tok \notin {"else", "elseif"}
    BY <1>3, <2>1
  <2> QED BY <1>1, <1>3, <2>2, <2>3, ElsesStay
<1>8. Cases(ss, os, bs)
  <2>1. "case" \in Openers BY DEF Openers
  <2>2. \A x \in Len(s) + 1 .. Len(ss) : ss[x].tok # "case" BY <1>3, <2>1
  <2>3. ASSUME NEW q \in 1 .. Len(bs), bs[q].kind = "dispatch" PROVE CasesAt(ss, os, bs, q)
    <3>1. CasesAt(s, os, bs, q) BY <1>1, <2>3 DEF Cases
    <3>2. bs[q].gotos \subseteq bs[q].gotos OBVIOUS
    <3> QED BY <1>2, <1>3, <2>2, <3>1, <3>2, CasesStay
  <2> QED BY <2>3 DEF Cases
<1> QED BY <1>5, <1>6, <1>7, <1>8

LEMMA PlainRead ==
  ASSUME NEW c, NEW s, NEW os, NEW bs, NEW bp, ReadIn(c, s, os, bs, bp),
         NEW d, NEW t, NEW ss, Moves(c, s, d, t, ss), Kept(c, d, NoCell),
         t.tok \notin Openers, t.tok \notin {"}", "break"}, NEW e, e = Len(s) + 1, Done(d, ss, e)
  PROVE  ReadIn(d, ss, os, bs, bp)
<1>0. Spare(c, NoCell) BY NoCells
<1>1. Shape(c, s, os, bs, bp) /\ Breaks(c, s, os, bs, bp) BY DEF ReadIn
<1>2. Placed(c, s) /\ Apart(bs, bp) BY <1>1 DEF Shape
<1>3. /\ Extends(c, s, d, ss) /\ Begins(s, ss) /\ ss[e] = t
      /\ Len(c) \in Nat /\ Len(d) \in Nat
      /\ \A x \in Len(s) + 1 .. Len(ss) : x = e
  BY ONLY <1>2, <1>0, Moves(c, s, d, t, ss), Kept(c, d, NoCell), e = Len(s) + 1, MovesFacts
<1>4. Shape(d, ss, os, bs, bp) /\ Told(d, ss, os) /\ Elses(d, ss, bs) /\ Cases(ss, os, bs)
  BY <1>2, PlainRest
<1>5. Breaks(d, ss, os, bs, bp)
  <2>1. ASSUME NEW i \in 1 .. Len(s), NEW x \in 1 .. Len(bp), BreakWaits(c, s, os, bs, bp, i, x)
        PROVE  BreakWaits(d, ss, os, bs, bp, i, x)
    <3>1. PICK q \in 1 .. Len(os) : BreakFor(s, os, bs, i, x, q) BY <2>1 DEF BreakWaits
    <3>2. LoopOf(ss, i) = LoopOf(s, i)
      <4>1. Begins(s, ss) BY <1>3
      <4> QED BY ONLY <4>1, i \in 1 .. Len(s), LoopOfStays
    <3>3. BreakFor(ss, os, bs, i, x, q) BY <3>1, <3>2 DEF BreakFor
    <3>4. bp[x] \notin NoCell BY DEF NoCell
    <3> QED BY <1>3, <2>1, <3>3, <3>4, BreakWaitsStays
  <2>2. \A i \in Len(s) + 1 .. Len(ss) : ss[i].tok # "break" BY <1>3
  <2> QED BY <1>1, <1>3, <2>1, <2>2, BreaksGo
<1> QED BY <1>4, <1>5 DEF ReadIn

(* A break: its loop is the innermost one that is open.                    *)
LEMMA OpenLoop ==
  ASSUME NEW c, NEW s, NEW os, NEW bs, NEW bp, Shape(c, s, os, bs, bp),
         NEW e, e = Len(s) + 1, LoopOf(s, e) # 0,
         NEW x, \A k \in 1 .. Len(bs) : bs[k].first_break < x
  PROVE  \E q \in 1 .. Len(os) : BreakFor(s, os, bs, e, x, q)
<1>1. Nest(s, os) /\ Len(os) = Len(bs) /\ \A k \in 1 .. Len(bs) : BlockOf(c, s, os[k], bs[k])
  BY DEF Shape
<1>2. /\ s \in Seq(Token) /\ Len(s) \in Nat /\ Len(os) \in Nat
      /\ \A k \in 1 .. Len(os) : os[k] \in 1 .. Len(s) /\ s[os[k]].tok \in Openers
  BY <1>1, NestFacts
<1>3. e \in Int BY <1>2
<1>4. PICK l : l = LoopOf(s, e) OBVIOUS
<1>5. l \in LoopsIn(s, e, LoopWords) /\ l \in 1 .. Len(s) /\ s[l].tok \in LoopWords
  BY <1>2, <1>3, <1>4, LoopOfFacts
<1>6. l \in AroundIn(s, e, LoopWords) /\ l > Innermost(AroundIn(s, e, {"func"}))
  BY <1>5 DEF LoopsIn
<1>7. LoopWords \in SUBSET Openers BY DEF LoopWords, Openers
<1>8. l \in AroundIn(s, e, Openers) BY <1>6, <1>7, AroundSome
<1>9. PICK q \in 1 .. Len(os) : os[q] = l BY <1>1, <1>8, AroundEnd DEF IsOpen
<1>10. \A k \in 1 .. Len(bs) : bs[k].kind \in LoopWords <=> s[os[k]].tok \in LoopWords
  <2> TAKE k \in 1 .. Len(bs)
  <2>1. Slot(s[os[k]], bs[k]) BY <1>1 DEF BlockOf
  <2> QED BY <2>1 DEF Slot, LoopWords
<1>11. ASSUME NEW r \in q + 1 .. Len(os), bs[r].kind \in LoopWords PROVE FALSE
  <2>1. r \in 1 .. Len(os) /\ q < r BY ONLY <1>2, q \in 1 .. Len(os), r \in q + 1 .. Len(os)
  <2>2. l < os[r] BY <1>1, <1>9, <2>1, OpenOrder
  <2>3. s[os[r]].tok \in LoopWords BY <1>1, <1>10, <1>11, <2>1
  <2>4. os[r] \in AroundIn(s, e, Openers) BY <1>1, <2>1, AroundEnd DEF IsOpen
  <2>5. os[r] \in AroundIn(s, e, LoopWords) BY <1>7, <2>3, <2>4, AroundSome
  <2>6. Innermost(AroundIn(s, e, {"func"})) \in 0 .. Len(s)
    <3>1. AroundIn(s, e, {"func"}) \subseteq 1 .. Len(s) BY <1>2, <1>3, AroundIsSet
    <3> QED BY <1>2, <3>1, InnermostIn
  <2>7. os[r] > Innermost(AroundIn(s, e, {"func"}))
    <3>1. os[r] \in 1 .. Len(s) BY <1>2, <2>1
    <3> QED BY ONLY <1>2, <1>5, <1>6, <2>2, <2>6, <3>1
  <2>8. os[r] \in LoopsIn(s, e, LoopWords) BY <2>5, <2>7 DEF LoopsIn
  <2>9. LoopsIn(s, e, LoopWords) \subseteq 1 .. Len(s) BY <1>2, <1>3, LoopsAreSet
  <2>10. os[r] <= l BY <1>2, <1>4, <2>8, <2>9, InnermostIn DEF LoopOf
  <2>11. os[r] \in 1 .. Len(s) BY <1>2, <2>1
  <2> QED BY ONLY <1>5, <2>2, <2>10, <2>11, <1>2
<1>12. bs[q].kind \in LoopWords BY <1>1, <1>5, <1>9, <1>10
<1>13. BreakFor(s, os, bs, e, x, q) BY <1>1, <1>4, <1>9, <1>11, <1>12 DEF BreakFor
<1> QED BY <1>13

-----------------------------------------------------------------------------
LEMMA BreakRead ==
  ASSUME NEW c, NEW s, NEW os, NEW bs, NEW bp, ReadIn(c, s, os, bs, bp),
         NEW d, NEW t, NEW ss, Moves(c, s, d, t, ss), Kept(c, d, NoCell),
         t.tok = "break", NEW e, e = Len(s) + 1, LoopOf(s, e) # 0,
         CellAt(d, t.at, Ins(BreakOp(s[LoopOf(s, e)]), 0)),
         bp \in Seq(1 .. Len(c)),
         \A k \in 1 .. Len(bs) : bs[k].first_break \in Nat /\ bs[k].first_break <= Len(bp),
         NEW bq, bq = Append(bp, t.at)
  PROVE  ReadIn(d, ss, os, bs, bq)
<1>0. Spare(c, NoCell) BY NoCells
<1>1. Shape(c, s, os, bs, bp) /\ Breaks(c, s, os, bs, bp) BY DEF ReadIn
<1>2. /\ Placed(c, s) /\ Apart(bs, bp) /\ Nest(s, os) /\ Len(os) = Len(bs)
      /\ \A k \in 1 .. Len(bs) : Cells(c, bs[k])
  BY <1>1 DEF Shape, BlockOf
<1>3. /\ Extends(c, s, d, ss) /\ Begins(s, ss) /\ Len(ss) = e /\ ss[e] = t
      /\ e \in 1 .. Len(ss) /\ Len(s) \in Nat /\ Len(c) \in Nat /\ Len(d) \in Nat
      /\ \A x \in Len(s) + 1 .. Len(ss) : x = e
  BY ONLY <1>2, <1>0, Moves(c, s, d, t, ss), Kept(c, d, NoCell), e = Len(s) + 1, MovesFacts
<1>4. PICK p : p = t.at OBVIOUS
<1>5. p = Len(c) + 1 BY <1>4 DEF Moves
<1>6. PICK n : n = Len(bp) + 1 OBVIOUS
<1>7. /\ Len(bp) \in Nat /\ Len(bq) = n /\ bq[n] = p /\ n \in 1 .. Len(bq)
      /\ \A x \in 1 .. Len(bp) : bq[x] = bp[x] /\ bp[x] \in 1 .. Len(c)
      /\ \A x \in 1 .. Len(bq) : x = n \/ x \in 1 .. Len(bp)
      /\ \A x \in 1 .. Len(bp) : x \in 1 .. Len(bq)
  <2>1. Len(bp) \in Nat BY LenProperties
  <2>2. 1 .. Len(c) \subseteq Nat BY <1>3
  <2>3. bp \in Seq(Nat) BY <2>2, SeqMonotonic
  <2>4. p \in Nat BY <1>3, <1>5
  <2>5. /\ Len(bq) = n /\ bq[n] = p /\ \A x \in 1 .. Len(bp) : bq[x] = bp[x]
    BY <1>4, <1>6, <2>3, <2>4, LastOfAppend
  <2>6. \A x \in 1 .. Len(bp) : bp[x] \in 1 .. Len(c) BY ElementOfSeq
  <2>7. /\ n \in 1 .. Len(bq) /\ \A x \in 1 .. Len(bq) : x = n \/ x \in 1 .. Len(bp)
        /\ \A x \in 1 .. Len(bp) : x \in 1 .. Len(bq)
    BY ONLY <1>6, <2>1, <2>5
  <2> QED BY <2>1, <2>5, <2>6, <2>7
<1>8. Apart(bs, bq)
  <2>1. ASSUME NEW k \in 1 .. Len(bs) PROVE p \notin Holes(bs[k])
    <3>1. Cells(c, bs[k]) BY <1>2
    <3>2. Spare(c, Holes(bs[k])) BY ONLY <3>1, SpareHoles
    <3>3. p \notin 1 .. Len(c) BY ONLY <1>3, <1>5
    <3> QED BY <3>2, <3>3 DEF Spare
  <2>2. \A x \in 1 .. Len(bp) : bp[x] # p
    <3>1. p \notin 1 .. Len(c) BY ONLY <1>3, <1>5
    <3> QED BY <1>7, <3>1
  <2> QED BY ONLY <1>2, <1>6, <1>7, <2>1, <2>2, ApartBreak
<1>9. /\ Shape(d, ss, os, bs, bq) /\ Told(d, ss, os) /\ Elses(d, ss, bs) /\ Cases(ss, os, bs)
  <2>1. Done(d, ss, e) BY <1>3 DEF Done, LoopWords
  <2>2. t.tok \notin Openers /\ t.tok # "}" BY DEF Openers
  <2> QED BY ONLY <1>8, <2>1, <2>2, ReadIn(c, s, os, bs, bp), Moves(c, s, d, t, ss),
                  Kept(c, d, NoCell), e = Len(s) + 1, PlainRest
<1>10. ASSUME NEW i \in 1 .. Len(s), NEW x \in 1 .. Len(bp), BreakWaits(c, s, os, bs, bp, i, x)
       PROVE  x \in 1 .. Len(bq) /\ BreakWaits(d, ss, os, bs, bq, i, x)
  <2>1. PICK q \in 1 .. Len(os) : BreakFor(s, os, bs, i, x, q) BY <1>10 DEF BreakWaits
  <2>2. LoopOf(ss, i) = LoopOf(s, i)
    <3>1. Begins(s, ss) BY <1>3
    <3> QED BY ONLY <3>1, i \in 1 .. Len(s), LoopOfStays
  <2>3. BreakFor(ss, os, bs, i, x, q) BY <2>1, <2>2 DEF BreakFor
  <2>4. bp[x] \notin NoCell BY DEF NoCell
  <2>5. bq[x] = bp[x] /\ x \in 1 .. Len(bq) BY <1>7
  <2>6. BreakWaits(d, ss, os, bs, bq, i, x)
    BY ONLY <1>3, <1>10, <2>1, <2>3, <2>4, <2>5, i \in 1 .. Len(s), Kept(c, d, NoCell), BreakWaitsStays
  <2> QED BY <2>5, <2>6
<1>11. BreakWaits(d, ss, os, bs, bq, e, n)
  <2>1. SameAround(s, e, ss, e)
    <3>1. e \in Int /\ e <= Len(s) + 1 BY ONLY <1>3, e = Len(s) + 1
    <3> QED BY ONLY <1>3, <3>1, EarlierContext
  <2>2. e \in Int BY ONLY <1>3, e = Len(s) + 1
  <2>3. LoopOf(ss, e) = LoopOf(s, e) BY ONLY <1>3, <2>1, <2>2, SameContext
  <2>4. ss[LoopOf(s, e)] = s[LoopOf(s, e)]
    <3>1. s \in Seq(Token) BY DEF Moves
    <3>2. LoopOf(s, e) \in 1 .. Len(s) BY ONLY <2>2, <3>1, LoopOf(s, e) # 0, LoopOfFacts
    <3> QED BY <1>3, <3>2 DEF Begins
  <2>5. \A k \in 1 .. Len(bs) : bs[k].first_break < n BY <1>6, <1>7
  <2>6. PICK q \in 1 .. Len(os) : BreakFor(s, os, bs, e, n, q)
    BY ONLY <1>1, <2>5, e = Len(s) + 1, LoopOf(s, e) # 0, OpenLoop
  <2>7. BreakFor(ss, os, bs, e, n, q) BY <2>3, <2>6 DEF BreakFor
  <2>8. CellAt(d, bq[n], Ins(BreakOp(s[LoopOf(s, e)]), 0)) BY <1>4, <1>7
  <2> QED BY <1>3, <1>4, <1>7, <2>3, <2>4, <2>7, <2>8 DEF BreakWaits
<1>12. Breaks(d, ss, os, bs, bq)
  <2>1. \A x \in 1 .. Len(bq) : x \in 1 .. Len(bp)
          \/ \E i \in 1 .. Len(ss) : BreakWaits(d, ss, os, bs, bq, i, x)
    BY <1>3, <1>7, <1>11
  <2>2. \A i \in Len(s) + 1 .. Len(ss) :
           ss[i].tok = "break" => BreakWaitsOn(d, ss, os, bs, bq, i)
    BY <1>3, <1>7, <1>11 DEF BreakWaitsOn
  <2> QED BY ONLY <1>1, <1>3, <1>10, <2>1, <2>2, BreaksGo
<1> QED BY <1>9, <1>12 DEF ReadIn

-----------------------------------------------------------------------------
(* The beginning of a block.                                               *)
LEMMA OpenRest ==
  ASSUME NEW c, NEW s, NEW os, NEW bs, NEW bp, ReadIn(c, s, os, bs, bp),
         NEW d, NEW t, NEW ss, Moves(c, s, d, t, ss), Kept(c, d, NoCell),
         t.tok \in Openers, NEW e, e = Len(s) + 1,
         bp \in Seq(1 .. Len(c)), NEW n, n = Len(bs) + 1,
         NEW us, Pushed(os, e, us), NEW b, NEW cs, Len(cs) = n, cs[n] = b,
         \A k \in 1 .. Len(bs) : Like(bs[k], cs[k]),
         Slot(t, b), Cells(d, b), ContextAt(s, e, b.outer_loop, b.outer_depth),
         b.first_break = Len(bp), b.pos \notin b.ends \cup b.gotos,
         \A p \in Holes(b) : p > Len(c)
  PROVE  /\ Shape(d, ss, us, cs, bp) /\ Told(d, ss, us) /\ Elses(d, ss, cs)
         /\ Breaks(d, ss, us, cs, bp)
<1>0. Spare(c, NoCell) BY NoCells
<1>1. /\ Shape(c, s, os, bs, bp) /\ Told(c, s, os) /\ Elses(c, s, bs)
      /\ Breaks(c, s, os, bs, bp)
  BY DEF ReadIn
<1>2. /\ Nest(s, os) /\ Len(os) = Len(bs) /\ Placed(c, s) /\ Apart(bs, bp)
      /\ \A k \in 1 .. Len(bs) : BlockOf(c, s, os[k], bs[k])
  BY <1>1 DEF Shape
<1>3. /\ Extends(c, s, d, ss) /\ Begins(s, ss) /\ Len(ss) = e /\ ss[e] = t
      /\ e \in 1 .. Len(ss) /\ Len(s) \in Nat /\ Len(c) \in Nat /\ Len(d) \in Nat
      /\ \A x \in Len(s) + 1 .. Len(ss) : x = e /\ ss[x].at \in 1 .. Len(d) + 1
  BY ONLY <1>2, <1>0, Moves(c, s, d, t, ss), Kept(c, d, NoCell), e = Len(s) + 1, MovesFacts
<1>4. /\ Nest(ss, us) /\ Len(us) = n /\ us[n] = e
      /\ \A k \in 1 .. Len(bs) : us[k] = os[k]
  <2>1. t \in Token /\ Grown(s, t, ss) BY DEF Moves
  <2> QED BY ONLY <1>2, <2>1, t.tok \in Openers, e = Len(s) + 1, Pushed(os, e, us),
                  n = Len(bs) + 1, OpenNest
<1>5. /\ Len(bs) \in Nat /\ n \in 1 .. Len(us) /\ Len(us) = Len(cs)
      /\ \A k \in 1 .. Len(cs) : k = n \/ k \in 1 .. Len(bs)
      /\ \A k \in 1 .. Len(bs) : k \in 1 .. Len(cs) /\ k \in 1 .. Len(us) /\ k < n
      /\ \A k \in 1 .. Len(bs) : os[k] \in 1 .. Len(s)
  <2>1. Len(bs) \in Nat /\ \A k \in 1 .. Len(bs) : os[k] \in 1 .. Len(s) BY ONLY <1>2, NestFacts
  <2>2. /\ n \in 1 .. Len(us) /\ Len(us) = Len(cs)
        /\ \A k \in 1 .. Len(cs) : k = n \/ k \in 1 .. Len(bs)
        /\ \A k \in 1 .. Len(bs) : k \in 1 .. Len(cs) /\ k \in 1 .. Len(us) /\ k < n
    BY ONLY <1>4, <2>1, n = Len(bs) + 1, Len(cs) = n
  <2> QED BY <2>1, <2>2
<1>6. \A x \in 1 .. Len(bp) : bp[x] \in 1 .. Len(c) BY ElementOfSeq
<1>7. Apart(cs, bp)
  <2>1. Clear(bs, bp, b)
    BY ONLY <1>1, <1>3, <1>6, b.pos \notin b.ends \cup b.gotos, \A p \in Holes(b) : p > Len(c),
            ClearNew
  <2> QED BY ONLY <1>2, <1>5, <2>1, n = Len(bs) + 1, Len(cs) = n, cs[n] = b,
                  \A k \in 1 .. Len(bs) : Like(bs[k], cs[k]), ApartMore
<1>8. Shape(d, ss, us, cs, bp)
  <2>1. \A i \in Len(s) + 1 .. Len(ss) : ss[i].at \in 1 .. Len(d) + 1 BY <1>3
  <2>2. BlockOf(d, ss, us[n], cs[n])
    <3>1. e \in Int /\ e <= Len(s) + 1 BY ONLY <1>3, e = Len(s) + 1
    <3>2. SameAround(s, e, ss, e) BY ONLY <1>3, <3>1, EarlierContext
    <3>3. ContextAt(ss, e, b.outer_loop, b.outer_depth)
      BY ONLY <1>3, <3>1, <3>2, ContextAt(s, e, b.outer_loop, b.outer_depth), SameContext
    <3> QED BY <1>3, <1>4, <3>3 DEF BlockOf
  <2>3. ASSUME NEW k \in 1 .. Len(bs) PROVE BlockOf(d, ss, us[k], cs[k])
    <3>1. Holes(bs[k]) \cap NoCell = {} BY DEF NoCell
    <3>2. os[k] \in 1 .. Len(s) /\ BlockOf(c, s, os[k], bs[k]) BY <1>2, <1>5
    <3>3. BlockOf(d, ss, os[k], bs[k])
      BY ONLY <1>0, <1>3, <3>1, <3>2, Kept(c, d, NoCell), BlockOfStays
    <3>4. Like(bs[k], cs[k]) OBVIOUS
    <3>5. BlockOf(d, ss, os[k], cs[k]) BY ONLY <3>3, <3>4, LikeBlock
    <3> QED BY <1>4, <3>5
  <2>4. \A k \in 1 .. Len(cs) :
           \/ /\ k \in 1 .. Len(bs) /\ us[k] = os[k] /\ cs[k] = bs[k]
              /\ Holes(bs[k]) \cap NoCell = {}
           \/ BlockOf(d, ss, us[k], cs[k])
    BY <1>5, <2>2, <2>3
  <2>5. Begins(s, ss) /\ Len(c) \in Nat /\ Len(d) \in Nat BY <1>3
  <2>6. Nest(ss, us) /\ Len(us) = Len(cs) BY <1>4, <1>5
  <2> QED BY ONLY <1>0, <1>1, <1>7, <2>1, <2>4, <2>5, <2>6, Kept(c, d, NoCell), ShapeStep
<1>9. Told(d, ss, us)
  <2>1. ASSUME NEW i, IsOpen(os, i) PROVE IsOpen(us, i)
    <3>1. PICK k \in 1 .. Len(bs) : os[k] = i BY <1>2, <2>1 DEF IsOpen
    <3> QED BY <1>4, <1>5, <3>1 DEF IsOpen
  <2>2. \A i \in Len(s) + 1 .. Len(ss) : IsOpen(us, i) BY <1>3, <1>4, <1>5 DEF IsOpen
  <2> QED BY ONLY <1>1, <1>3, <2>1, <2>2, ToldStays
<1>10. Elses(d, ss, cs)
  <2>1. t.tok \notin {"else", "elseif"} BY DEF Moves
  <2>2. "}" \notin Openers BY DEF Openers
  <2>3. ASSUME NEW i \in 1 .. Len(s), NEW k \in 1 .. Len(bs), ElseWaits(s, bs, i, k)
        PROVE  ElseWaitsOn(ss, cs, i)
    <3>1. Like(bs[k], cs[k]) OBVIOUS
    <3>2. cs[k].kind \in {"if", "else"} BY <2>3, <3>1 DEF ElseWaits, Like
    <3>3. \A x \in Len(s) + 1 .. Len(ss) : ss[x].tok # "}" BY <1>3, <2>2
    <3>4. Chain(bs[k]) \subseteq Chain(cs[k]) BY <3>1, LikeBlock
    <3>5. k \in 1 .. Len(cs) BY <1>5
    <3> QED BY ONLY <1>3, <2>3, <3>2, <3>3, <3>4, <3>5, i \in 1 .. Len(s), ElseWaitsStays
  <2>4. \A i \in Len(s) + 1 .. Len(ss) : ss[i].tok \notin {"else", "elseif"}
    BY <1>3, <2>1
  <2> QED BY ONLY <1>1, <1>3, <2>3, <2>4, ElsesStay
<1>11. Breaks(d, ss, us, cs, bp)
  <2>1. ASSUME NEW i \in 1 .. Len(s), NEW x \in 1 .. Len(bp), BreakWaits(c, s, os, bs, bp, i, x)
        PROVE  BreakWaits(d, ss, us, cs, bp, i, x)
    <3>1. PICK q \in 1 .. Len(os) : BreakFor(s, os, bs, i, x, q) BY <2>1 DEF BreakWaits
    <3>2. LoopOf(ss, i) = LoopOf(s, i)
      <4>1. Begins(s, ss) BY <1>3
      <4> QED BY ONLY <4>1, i \in 1 .. Len(s), LoopOfStays
    <3>3. q \in 1 .. Len(bs) BY <1>2
    <3>4. Like(bs[q], cs[q]) BY <3>3
    <3>5. /\ q \in 1 .. Len(us) /\ us[q] = os[q]
          /\ cs[q].kind = bs[q].kind /\ cs[q].first_break = bs[q].first_break
      BY <1>4, <1>5, <3>3, <3>4 DEF Like
    <3>6. ASSUME NEW r \in q + 1 .. Len(us), cs[r].kind \in LoopWords
          PROVE  \/ x <= cs[r].first_break
                 \/ r \in q + 1 .. Len(os) /\ bs[r].kind \in LoopWords
                    /\ cs[r].first_break = bs[r].first_break
      <4>1. r = n \/ (r \in 1 .. Len(bs) /\ r \in q + 1 .. Len(os))
        BY ONLY <1>2, <1>4, <1>5, <3>3, r \in q + 1 .. Len(us), n = Len(bs) + 1
      <4>2. CASE r = n
        <5>1. x <= Len(bp) BY ONLY x \in 1 .. Len(bp)
        <5> QED BY <4>2, <5>1
      <4>3. CASE r \in 1 .. Len(bs) /\ r \in q + 1 .. Len(os)
        <5>1. Like(bs[r], cs[r]) BY <4>3
        <5> QED BY <3>6, <4>3, <5>1 DEF Like
      <4> QED BY <4>1, <4>2, <4>3
    <3>7. BreakFor(ss, us, cs, i, x, q) BY ONLY <3>1, <3>2, <3>5, <3>6, BreakForStays
    <3>8. bp[x] \notin NoCell BY DEF NoCell
    <3> QED BY ONLY <1>3, <2>1, <3>5, <3>7, <3>8, i \in 1 .. Len(s), Kept(c, d, NoCell), BreakWaitsStays
  <2>2. "break" \notin Openers BY DEF Openers
  <2>3. \A i \in Len(s) + 1 .. Len(ss) : ss[i].tok # "break" BY <1>3, <2>2
  <2> QED BY ONLY <1>1, <1>3, <2>1, <2>3, BreaksGo
<1> QED BY <1>8, <1>9, <1>10, <1>11

-----------------------------------------------------------------------------
LEMMA PushedFacts ==
  ASSUME NEW s, NEW os, Nest(s, os), NEW t, NEW ss, NEW c, NEW d, Moves(c, s, d, t, ss),
         t.tok \in Openers, NEW e, Behind(s, e), NEW us, Pushed(os, e, us),
         NEW n, Behind(os, n)
  PROVE  /\ Nest(ss, us) /\ Len(us) = n /\ us[n] = e /\ LevelIn(ss, e) = n /\ Len(ss) = e
         /\ ss \in Seq(Token) /\ ss[e] = t /\ Begins(s, ss) /\ e \in 1 .. Len(ss)
         /\ Len(s) \in Nat /\ Len(os) \in Nat
         /\ \A k \in 1 .. Len(os) : us[k] = os[k]
         /\ \A k : IsOpen(us, k) <=> IsOpen(os, k) \/ k = e
<1>0. e = Len(s) + 1 /\ n = Len(os) + 1 BY DEF Behind
<1>1. s \in Seq(Token) /\ t \in Token /\ Grown(s, t, ss) BY DEF Moves
<1>2. /\ Nest(ss, us) /\ Len(us) = n /\ us[n] = e
      /\ \A k \in 1 .. Len(os) : us[k] = os[k]
  BY ONLY <1>1, Nest(s, os), t.tok \in Openers, <1>0, Pushed(os, e, us), OpenNest
<1>3. /\ Len(ss) = e /\ ss \in Seq(Token) /\ ss[e] = t /\ Begins(s, ss) /\ e \in 1 .. Len(ss)
      /\ Len(s) \in Nat
  BY ONLY <1>0, <1>1, GrownFacts
<1>4. LevelIn(ss, e) = n /\ Len(os) \in Nat
  <2>1. LevelIn(ss, Len(ss)) = Len(us) BY <1>2 DEF Nest
  <2>2. Len(os) \in Nat BY ONLY Nest(s, os), NestFacts
  <2> QED BY <1>2, <1>3, <2>1, <2>2
<1>5. /\ \A x \in 1 .. Len(us) : x = n \/ x \in 1 .. Len(os)
      /\ n \in 1 .. Len(us) /\ \A x \in 1 .. Len(os) : x \in 1 .. Len(us)
  BY ONLY <1>0, <1>2, <1>4
<1>6. \A k : IsOpen(us, k) <=> IsOpen(os, k) \/ k = e BY <1>2, <1>5 DEF IsOpen
<1> QED BY <1>2, <1>3, <1>4, <1>6

LEMMA OpenRead ==
  ASSUME NEW c, NEW s, NEW os, NEW bs, NEW bp, ReadIn(c, s, os, bs, bp),
         NEW d, NEW t, NEW ss, Moves(c, s, d, t, ss), Kept(c, d, NoCell),
         t.tok \in Openers, t.tok # "case", NEW e, e = Len(s) + 1,
         bp \in Seq(1 .. Len(c)), NEW n, n = Len(bs) + 1,
         NEW us, Pushed(os, e, us), NEW b, NEW cs, Len(cs) = n, cs[n] = b,
         \A k \in 1 .. Len(bs) : cs[k] = bs[k],
         Slot(t, b), Cells(d, b), ContextAt(s, e, b.outer_loop, b.outer_depth),
         b.first_break = Len(bp), b.pos \notin b.ends \cup b.gotos,
         \A p \in Holes(b) : p > Len(c),
         \A v \in 0 .. MaxCases - 1 : b.case_addrs[v] = 0
  PROVE  ReadIn(d, ss, us, cs, bp)
<1>1. \A k \in 1 .. Len(bs) : Like(bs[k], cs[k]) BY DEF Like
<1>2. /\ Shape(d, ss, us, cs, bp) /\ Told(d, ss, us) /\ Elses(d, ss, cs)
      /\ Breaks(d, ss, us, cs, bp)
  BY ONLY <1>1, ReadIn(c, s, os, bs, bp), Moves(c, s, d, t, ss), Kept(c, d, NoCell),
          t.tok \in Openers, e = Len(s) + 1, bp \in Seq(1 .. Len(c)), n = Len(bs) + 1,
          Pushed(os, e, us), Len(cs) = n, cs[n] = b,
          Slot(t, b), Cells(d, b), ContextAt(s, e, b.outer_loop, b.outer_depth),
          b.first_break = Len(bp), b.pos \notin b.ends \cup b.gotos,
          \A p \in Holes(b) : p > Len(c), OpenRest
<1>3. Nest(s, os) /\ Len(os) = Len(bs) /\ Cases(s, os, bs) BY DEF ReadIn, Shape
<1>4. /\ Len(us) = n /\ us[n] = e /\ Len(ss) = e
      /\ ss \in Seq(Token) /\ ss[e] = t /\ Begins(s, ss)
      /\ Len(s) \in Nat /\ Len(bs) \in Nat
      /\ \A k \in 1 .. Len(bs) : us[k] = os[k]
      /\ \A k : IsOpen(os, k) => IsOpen(us, k)
  <2>1. Behind(os, n) /\ Behind(s, e) BY <1>3 DEF Behind
  <2> QED BY ONLY <1>3, <2>1, Moves(c, s, d, t, ss), t.tok \in Openers,
                  Pushed(os, e, us), PushedFacts
<1>5. ASSUME NEW q \in 1 .. Len(bs), bs[q].kind = "dispatch" PROVE CasesAt(ss, us, cs, q)
  <2>1. CasesAt(s, os, bs, q) BY <1>3, <1>5 DEF Cases
  <2>2. cs[q].case_addrs = bs[q].case_addrs /\ bs[q].gotos \subseteq cs[q].gotos OBVIOUS
  <2>3. \A x \in Len(s) + 1 .. Len(ss) : ss[x].tok # "case"
    <3>1. \A x \in Len(s) + 1 .. Len(ss) : x = e BY ONLY <1>4, e = Len(s) + 1
    <3> QED BY <1>4, <3>1
  <2>4. q \in 1 .. Len(os) /\ us[q] = os[q] BY <1>3, <1>4
  <2> QED BY ONLY <1>3, <1>4, <2>1, <2>2, <2>3, <2>4, CasesStay
<1>6. CasesAt(ss, us, cs, n)
  <2>1. us[n] = Len(ss) BY <1>4
  <2> QED BY <1>4, <2>1, CasesBegin
<1>7. \A q \in 1 .. Len(cs) : q = n \/ q \in 1 .. Len(bs) BY ONLY <1>4, n = Len(bs) + 1, Len(cs) = n
<1>8. Cases(ss, us, cs) BY <1>5, <1>6, <1>7 DEF Cases
<1> QED BY <1>2, <1>8 DEF ReadIn

(* A case: its dispatch notes the address.                                 *)
LEMMA CaseRead ==
  ASSUME NEW c, NEW s, NEW os, NEW bs, NEW bp, ReadIn(c, s, os, bs, bp),
         NEW d, NEW t, NEW ss, Moves(c, s, d, t, ss), Kept(c, d, NoCell),
         t.tok = "case", NEW e, e = Len(s) + 1,
         bp \in Seq(1 .. Len(c)), NEW n, n = Len(bs) + 1,
         NEW us, Pushed(os, e, us), NEW b, NEW cs, Len(cs) = n, cs[n] = b,
         NEW m, m = Len(bs), m > 0, bs[m].kind = "dispatch", Like(bs[m], cs[m]),
         \A k \in 1 .. m - 1 : cs[k] = bs[k],
         t.val \in 0 .. MaxCases - 1, bs[m].case_addrs[t.val] = 0, t.at # 0,
         \A v \in 0 .. MaxCases - 1 :
           cs[m].case_addrs[v] = IF v = t.val THEN t.at ELSE bs[m].case_addrs[v],
         Slot(t, b), Cells(d, b), ContextAt(s, e, b.outer_loop, b.outer_depth),
         b.first_break = Len(bp), b.pos \notin b.ends \cup b.gotos,
         \A p \in Holes(b) : p > Len(c)
  PROVE  ReadIn(d, ss, us, cs, bp)
<1>1. Nest(s, os) /\ Len(os) = Len(bs) /\ Cases(s, os, bs) /\ Placed(c, s) BY DEF ReadIn, Shape
<1>2. t.tok \in Openers BY DEF Openers
<1>3. /\ Nest(ss, us) /\ Len(us) = n /\ us[n] = e /\ Len(ss) = e /\ LevelIn(ss, e) = n
      /\ ss \in Seq(Token) /\ ss[e] = t /\ Begins(s, ss) /\ e \in 1 .. Len(ss)
      /\ Len(s) \in Nat /\ Len(bs) \in Nat
      /\ \A k \in 1 .. Len(bs) : us[k] = os[k]
      /\ \A k : IsOpen(us, k) <=> IsOpen(os, k) \/ k = e
  <2>1. Behind(os, n) /\ Behind(s, e) BY <1>1 DEF Behind
  <2>2. Nest(s, os) BY <1>1
  <2>3. /\ Nest(ss, us) /\ Len(us) = n /\ us[n] = e /\ Len(ss) = e /\ LevelIn(ss, e) = n
        /\ ss \in Seq(Token) /\ ss[e] = t /\ Begins(s, ss) /\ e \in 1 .. Len(ss)
        /\ Len(s) \in Nat /\ Len(os) \in Nat
        /\ \A k \in 1 .. Len(os) : us[k] = os[k]
        /\ \A k : IsOpen(us, k) <=> IsOpen(os, k) \/ k = e
    BY ONLY <2>1, <2>2, <1>2, Moves(c, s, d, t, ss), Pushed(os, e, us), PushedFacts
  <2> QED BY <1>1, <2>3
<1>4. /\ m \in Nat /\ m \in 1 .. Len(bs) /\ m \in 1 .. Len(os) /\ n = m + 1
      /\ \A k \in 1 .. Len(bs) : k = m \/ k \in 1 .. m - 1
      /\ \A k \in 1 .. m - 1 : k \in 1 .. Len(bs)
      /\ \A q \in 1 .. Len(cs) : q = n \/ q = m \/ q \in 1 .. m - 1
  BY ONLY <1>1, <1>3, m = Len(bs), m > 0, n = Len(bs) + 1, Len(cs) = n
<1>5. \A k \in 1 .. Len(bs) : Like(bs[k], cs[k])
  <2>1. \A k \in 1 .. m - 1 : Like(bs[k], cs[k]) BY DEF Like
  <2> QED BY <1>4, <2>1
<1>6. /\ Shape(d, ss, us, cs, bp) /\ Told(d, ss, us) /\ Elses(d, ss, cs)
      /\ Breaks(d, ss, us, cs, bp)
  BY ONLY <1>2, <1>5, ReadIn(c, s, os, bs, bp), Moves(c, s, d, t, ss), Kept(c, d, NoCell),
          e = Len(s) + 1, bp \in Seq(1 .. Len(c)), n = Len(bs) + 1,
          Pushed(os, e, us), Len(cs) = n, cs[n] = b,
          Slot(t, b), Cells(d, b), ContextAt(s, e, b.outer_loop, b.outer_depth),
          b.first_break = Len(bp), b.pos \notin b.ends \cup b.gotos,
          \A p \in Holes(b) : p > Len(c), OpenRest
<1>7. ASSUME NEW q \in 1 .. m - 1, bs[q].kind = "dispatch" PROVE CasesAt(ss, us, cs, q)
  <2>1. q \in 1 .. Len(bs) /\ q \in 1 .. Len(os) /\ us[q] = os[q] BY <1>1, <1>3, <1>4
  <2>2. CasesAt(s, os, bs, q) BY <1>1, <1>7, <2>1 DEF Cases
  <2>3. cs[q].case_addrs = bs[q].case_addrs /\ bs[q].gotos \subseteq cs[q].gotos OBVIOUS
  <2>4. \A x \in Len(s) + 1 .. Len(ss) : LevelIn(ss, x) # q + 1
    <3>1. \A x \in Len(s) + 1 .. Len(ss) : x = e BY ONLY <1>3, e = Len(s) + 1
    <3>2. n # q + 1 BY ONLY <1>4, q \in 1 .. m - 1
    <3> QED BY <1>3, <3>1, <3>2
  <2> QED BY ONLY <1>1, <1>3, <2>1, <2>2, <2>3, <2>4, CasesStay
<1>8. CasesAt(ss, us, cs, m)
  <2>1. PICK i : i = os[m] OBVIOUS
  <2>2. PICK f : f = Len(ss) + 1 OBVIOUS
  <2>3. i \in 1 .. Len(s) /\ LevelIn(s, i) = m BY <1>1, <1>4, <2>1, NestFacts
  <2>4. CasesAt(s, os, bs, m) BY <1>1, <1>4 DEF Cases
  <2>5. /\ \A k \in CasesIn(s, i, e) : CaseIn(s, os, bs, m, k)
        /\ \A v \in 0 .. MaxCases - 1 : bs[m].case_addrs[v] # 0 =>
             \E k \in CasesIn(s, i, e) : s[k].val = v
    BY <2>1, <2>4 DEF CasesAt
  <2>6. CasesIn(ss, i, e) = CasesIn(s, i, e)
    <3>1. e \in Int /\ e <= Len(s) + 1 BY ONLY <1>3, e = Len(s) + 1
    <3> QED BY ONLY <1>3, <2>3, <3>1, CasesSame
  <2>7. DOMAIN ss = 1 .. Len(ss) BY <1>3
  <2>8. LevelIn(ss, i) = m
    <3>1. i \in Int /\ i <= Len(s) BY ONLY <1>3, <2>3
    <3>2. LevelIn(ss, i) = LevelIn(s, i) BY ONLY <1>3, <3>1, LevelSame
    <3> QED BY <2>3, <3>2
  <2>9. e \in CasesIn(ss, i, f)
    <3>1. e < f /\ i < e BY ONLY <1>3, <2>2, <2>3, e = Len(s) + 1
    <3>2. LevelIn(ss, e) = LevelIn(ss, i) + 1 BY <1>3, <1>4, <2>8
    <3> QED BY <1>3, <2>7, <3>1, <3>2 DEF CasesIn, InTokens
  <2>10. \A k : k \in CasesIn(ss, i, f) <=> k \in CasesIn(ss, i, e) \/ k = e
    <3>1. \A k \in 1 .. Len(ss) : k < f <=> (k < e \/ k = e) BY ONLY <1>3, <2>2, e = Len(s) + 1
    <3>2. \A k \in CasesIn(ss, i, f) : k \in 1 .. Len(ss) BY <2>7 DEF CasesIn, InTokens
    <3>3. \A k \in CasesIn(ss, i, e) : k \in 1 .. Len(ss) BY <2>7 DEF CasesIn, InTokens
    <3> QED BY <2>9, <3>1, <3>2, <3>3 DEF CasesIn
  <2>11. ASSUME NEW k \in CasesIn(s, i, e) PROVE CaseIn(ss, us, cs, m, k)
    <3>1. k \in 1 .. Len(s)
      <4>1. s \in Seq(Token) BY DEF Moves
      <4> QED BY <4>1, CasesAreSet
    <3>2. ss[k] = s[k] BY <1>3, <3>1 DEF Begins
    <3>3. /\ s[k].val \in 0 .. MaxCases - 1 /\ bs[m].case_addrs[s[k].val] = s[k].at
          /\ \/ IsOpen(os, k)
             \/ \E j \in 1 .. Len(s) : Closer(s, k, j) /\ s[j].at \in bs[m].gotos
      BY <2>5 DEF CaseIn
    <3>4. Extends(c, s, d, ss)
      <4>1. Spare(c, NoCell) BY NoCells
      <4> QED BY ONLY <1>1, <4>1, Moves(c, s, d, t, ss), Kept(c, d, NoCell), e = Len(s) + 1, MovesFacts
    <3>5. /\ s[k].at # 0 /\ Len(s) \in Nat /\ Len(ss) \in Nat /\ Len(s) < Len(ss)
          /\ \A x \in 1 .. Len(s) : x \in 1 .. Len(ss) /\ ss[x] = s[x]
      BY ONLY <3>1, <3>4, ExtendsFacts
    <3>6. s[k].val # t.val BY <3>3, <3>5
    <3>7. cs[m].case_addrs[s[k].val] = s[k].at BY <3>3, <3>6
    <3>8. cs[m].gotos = bs[m].gotos BY DEF Like
    <3>9. \A j \in 1 .. Len(s) : Closer(s, k, j) => Closer(ss, k, j)
      BY ONLY <3>1, <3>4, CloserStays
    <3>10. IsOpen(us, k) \/ \E j \in 1 .. Len(ss) : Closer(ss, k, j) /\ ss[j].at \in cs[m].gotos
      BY <1>3, <3>3, <3>5, <3>8, <3>9
    <3> QED BY <3>2, <3>3, <3>7, <3>10 DEF CaseIn
  <2>12. CaseIn(ss, us, cs, m, e) BY <1>3 DEF CaseIn
  <2>13. \A k \in CasesIn(ss, i, f) : CaseIn(ss, us, cs, m, k) BY <2>6, <2>10, <2>11, <2>12
  <2>14. ASSUME NEW v \in 0 .. MaxCases - 1, cs[m].case_addrs[v] # 0
         PROVE  \E k \in CasesIn(ss, i, f) : ss[k].val = v
    <3>1. CASE v = t.val BY <1>3, <2>9, <3>1
    <3>2. CASE v # t.val
      <4>1. bs[m].case_addrs[v] # 0 BY <2>14, <3>2
      <4>2. PICK k \in CasesIn(s, i, e) : s[k].val = v BY <2>5, <4>1
      <4>3. k \in 1 .. Len(s)
        <5>1. s \in Seq(Token) BY DEF Moves
        <5> QED BY <5>1, CasesAreSet
      <4>4. ss[k] = s[k] BY <1>3, <4>3 DEF Begins
      <4> QED BY <2>6, <2>10, <4>2, <4>4
    <3> QED BY <3>1, <3>2
  <2>15. us[m] = i BY <1>3, <1>4, <2>1
  <2> QED BY <2>2, <2>13, <2>14, <2>15 DEF CasesAt
<1>9. cs[n].kind # "dispatch" BY DEF Slot
<1>10. Cases(ss, us, cs)
  <2>1. ASSUME NEW q \in 1 .. Len(cs), cs[q].kind = "dispatch" PROVE CasesAt(ss, us, cs, q)
    <3>1. q = m \/ q \in 1 .. m - 1 BY <1>4, <1>9, <2>1
    <3> QED BY <1>7, <1>8, <2>1, <3>1
  <2> QED BY <2>1 DEF Cases
<1> QED BY <1>6, <1>10 DEF ReadIn

-----------------------------------------------------------------------------
(* The end of the innermost block.                                         *)
Under(n, h) == h = n - 1
LEMMA CloseFacts ==
  ASSUME NEW s, NEW os, Nest(s, os), NEW t \in Token, NEW ss, Grown(s, t, ss),
         NEW e, Behind(s, e), ClosingTok(t), NEW n, Deep(os, n), NEW h, Under(n, h),
         NEW us, Popped(os, us)
  PROVE  /\ Nest(ss, us) /\ Len(us) = h /\ LevelIn(ss, e) = h
         /\ \A k \in 1 .. h : us[k] = os[k]
         /\ n \in 1 .. Len(os) /\ os[n] \in 1 .. Len(s) /\ LevelIn(ss, os[n]) = n
         /\ Closer(ss, os[n], e) /\ ~ContinuedIn(ss, e)
         /\ \A d : NextAt(d, ss, e) = Len(d) + 1
<1>0. e = Len(s) + 1 /\ n = Len(os) /\ n > 0 /\ h = n - 1 BY DEF Behind, Deep, Under
<1>1. /\ Begins(s, ss) /\ ss \in Seq(Token) /\ Len(ss) = e /\ ss[e] = t
      /\ e \in Nat /\ e \in 1 .. Len(ss) /\ Len(s) \in Nat
      /\ \A i \in 0 .. Len(s) : LevelIn(ss, i) = LevelIn(s, i)
  <2>1. s \in Seq(Token) BY NestFacts
  <2> QED BY <1>0, <2>1, GrownFacts
<1>3. /\ Nest(ss, us) /\ Len(us) = n - 1 /\ LevelIn(ss, e) = n - 1
      /\ \A k \in 1 .. n - 1 : us[k] = os[k]
  BY ONLY Behind(s, e), Deep(os, n), Popped(os, us), ClosingTok(t), Nest(s, os), t \in Token,
          Grown(s, t, ss), CloseNest
<1>4. n \in 1 .. Len(os)
  <2>1. Len(os) \in Nat BY NestFacts
  <2> QED BY ONLY <1>0, <2>1
<1>5. /\ os[n] \in 1 .. Len(s) /\ LevelIn(s, os[n]) = n
      /\ \A j \in os[n] .. Len(s) : LevelIn(s, j) >= n
  BY ONLY <1>4, Nest(s, os), NestFacts
<1>6. PICK o : o = os[n] OBVIOUS
<1>7. /\ o \in 0 .. Len(s) /\ e \in o + 1 .. Len(ss)
      /\ \A x \in o .. e - 1 : x \in o .. Len(s) /\ x \in 0 .. Len(s)
  BY ONLY <1>0, <1>1, <1>5, <1>6
<1>8. LevelIn(ss, o) = n BY <1>1, <1>5, <1>6, <1>7
<1>9. \A x \in o .. e - 1 : LevelIn(ss, x) >= n
  <2> TAKE x \in o .. e - 1
  <2>1. LevelIn(s, x) >= n BY <1>5, <1>6, <1>7
  <2>2. LevelIn(ss, x) = LevelIn(s, x) BY <1>1, <1>7
  <2> QED BY <2>1, <2>2
<1>10. Closer(ss, o, e)
  <2>1. ss[e].tok = "}" BY <1>1 DEF ClosingTok
  <2> QED BY <1>1, <1>3, <1>7, <1>8, <1>9, <2>1 DEF Closer
<1>11. ~(e < Len(ss)) BY ONLY <1>1
<1>12. ~ContinuedIn(ss, e) BY <1>11 DEF ContinuedIn
<1>13. \A d : NextAt(d, ss, e) = Len(d) + 1 BY <1>11 DEF NextAt
<1> QED BY <1>0, <1>3, <1>4, <1>5, <1>6, <1>8, <1>10, <1>12, <1>13

LEMMA CloseElse ==
  ASSUME NEW c, NEW s, NEW d, NEW ss, Extends(c, s, d, ss), NEW e, e = Len(s) + 1,
         Len(ss) = e, ss[e].tok = "}", ~ContinuedIn(ss, e),
         NEW n, LevelIn(ss, e) = n - 1, NextAt(d, ss, e) = Len(d) + 1,
         NEW i \in 1 .. Len(s), NEW bs, ElseWaits(s, bs, i, n),
         \A p \in Chain(bs[n]) : CellAt(d, p, Ins("GOTO", Len(d) + 1))
  PROVE  ElseDone(d, ss, i)
<1>1. /\ Len(s) \in Nat /\ Len(ss) \in Nat
      /\ \A x \in 1 .. Len(s) : ss[x] = s[x]
      /\ \A x \in 0 .. Len(s) : LevelIn(ss, x) = LevelIn(s, x)
  BY ONLY Extends(c, s, d, ss), ExtendsFacts
<1>2. /\ s[i].at \in Chain(bs[n]) /\ LevelIn(s, i) = n
      /\ \A x \in i + 1 .. Len(s) : s[x].tok = "}" /\ LevelIn(s, x) = n - 1 => ContinuedIn(s, x)
  BY DEF ElseWaits
<1>3. i \in 0 .. Len(s) /\ e \in i + 1 .. Len(ss) /\ e \in 1 .. Len(ss)
  BY ONLY <1>1, i \in 1 .. Len(s), e = Len(s) + 1, Len(ss) = e
<1>4. LevelIn(ss, i) = n BY <1>1, <1>2, <1>3
<1>5. ASSUME NEW x \in i + 1 .. e - 1, ss[x].tok = "}", LevelIn(ss, x) = n - 1
      PROVE  ContinuedIn(ss, x)
  <2>1. x \in i + 1 .. Len(s) /\ x \in 1 .. Len(s) /\ x \in 0 .. Len(s)
    BY ONLY <1>1, i \in 1 .. Len(s), e = Len(s) + 1, x \in i + 1 .. e - 1
  <2>2. ss[x] = s[x] /\ LevelIn(ss, x) = LevelIn(s, x) BY <1>1, <2>1
  <2>3. ContinuedIn(s, x) BY <1>2, <1>5, <2>1, <2>2
  <2>4. x \in 1 .. Len(s) BY <2>1
  <2>5. ContinuedIn(ss, x) <=> ContinuedIn(s, x) BY ONLY <2>4, Extends(c, s, d, ss), NextStays
  <2> QED BY <2>3, <2>5
<1>6. LastCloser(ss, i, e) BY <1>3, <1>4, <1>5 DEF LastCloser
<1>7. ss[i].at \in Chain(bs[n]) BY <1>1, <1>2
<1>8. CellAt(d, ss[i].at, Ins("GOTO", NextAt(d, ss, e))) BY <1>7
<1> QED BY <1>3, <1>6, <1>8 DEF ElseDone

BreakOps == {"BREAK_FOR", "GOTO"}
(* The breaks of a loop are patched at its end, other ones wait.           *)
BreaksEnd(c, d, b, bp, P, m) ==
  /\ Len(bp) \in Nat /\ m \in Nat
  /\ b.kind \in LoopWords => m = b.first_break
  /\ b.kind \notin LoopWords => m = Len(bp)
  /\ \A x \in 1 .. Len(bp) : x <= m => bp[x] \notin P
  /\ \A x \in 1 .. Len(bp), op \in BreakOps :
       x > m /\ CellAt(c, bp[x], Ins(op, 0)) => CellAt(d, bp[x], Ins(op, Len(d) + 1))
Alike(bs, cs, h) ==
  \A k \in 1 .. h : /\ cs[k].kind = bs[k].kind /\ cs[k].first_break = bs[k].first_break
                     /\ Chain(bs[k]) \subseteq Chain(cs[k])

LEMMA CloseBreaks ==
  ASSUME NEW c, NEW s, NEW os, NEW bs, NEW bp, Breaks(c, s, os, bs, bp),
         NEW d, NEW ss, Extends(c, s, d, ss), NEW e, Behind(s, e), Len(ss) = e,
         ss[e].tok = "}", NEW P, Kept(c, d, P),
         NEW n, Deep(os, n), NEW h, Under(n, h), NEW us, Len(us) = h,
         \A k \in 1 .. h : us[k] = os[k],
         NEW cs, Len(cs) = h, Alike(bs, cs, h),
         NEW bq, NEW m, Starts(bp, m, bq), BreaksEnd(c, d, bs[n], bp, P, m),
         Exit(ss, os[n], e), NextAt(d, ss, e) = Len(d) + 1
  PROVE  Breaks(d, ss, us, cs, bq)
<1>0. /\ e = Len(s) + 1 /\ n = Len(os) /\ n > 0 /\ h = n - 1
      /\ \A k \in 1 .. h : cs[k].kind = bs[k].kind /\ cs[k].first_break = bs[k].first_break
  BY DEF Behind, Deep, Under, Alike
<1>00. Len(bp) \in Nat /\ m \in Nat
      /\ (bs[n].kind \in LoopWords => m = bs[n].first_break)
      /\ (bs[n].kind \notin LoopWords => m = Len(bp))
      /\ \A x \in 1 .. Len(bp) : x <= m => bp[x] \notin P
  BY DEF BreaksEnd
<1>000. \A x \in 1 .. Len(bp), op \in BreakOps :
         x > m /\ CellAt(c, bp[x], Ins(op, 0)) => CellAt(d, bp[x], Ins(op, Len(d) + 1))
  BY DEF BreaksEnd
<1>1. /\ Begins(s, ss) /\ Len(s) \in Nat /\ Len(c) \in Nat /\ Len(d) \in Nat
      /\ \A x \in 1 .. Len(s) : ss[x] = s[x]
  BY ONLY Extends(c, s, d, ss), ExtendsFacts
<1>2. /\ Len(bq) = m /\ m <= Len(bp) /\ \A k \in 1 .. m : bq[k] = bp[k] BY DEF Starts
<1>3. \A x \in 1 .. Len(bp) : x \in 1 .. m <=> x <= m BY ONLY <1>00
<1>4. \A x \in 1 .. m : x \in 1 .. Len(bp) BY ONLY <1>2, <1>00
<1>5. ASSUME NEW i \in 1 .. Len(s), NEW x \in 1 .. Len(bp), BreakWaits(c, s, os, bs, bp, i, x)
      PROVE  \/ x \in 1 .. Len(bq) /\ BreakWaits(d, ss, us, cs, bq, i, x)
             \/ x \notin 1 .. Len(bq) /\ BreakDone(d, ss, i)
  <2>1. PICK q \in 1 .. Len(os) : BreakFor(s, os, bs, i, x, q) BY <1>5 DEF BreakWaits
  <2>2. /\ os[q] = LoopOf(s, i) /\ bs[q].kind \in LoopWords
        /\ bs[q].first_break < x
        /\ \A r \in q + 1 .. Len(os) : bs[r].kind \in LoopWords => x <= bs[r].first_break
    BY <2>1 DEF BreakFor
  <2>3. LoopOf(ss, i) = LoopOf(s, i) BY ONLY <1>1, i \in 1 .. Len(s), LoopOfStays
  <2>4. /\ LoopOf(s, i) # 0 /\ CellAt(c, bp[x], Ins(BreakOp(s[LoopOf(s, i)]), 0))
        /\ s[i].tok = "break" /\ bp[x] = s[i].at
    BY <1>5 DEF BreakWaits
  <2>5. ss[LoopOf(s, i)] = s[LoopOf(s, i)] BY ONLY <1>1, <2>4, i \in 1 .. Len(s), LoopOfStays
  <2>6. q = n \/ q \in 1 .. h BY ONLY <1>0, q \in 1 .. Len(os)
  <2>7. CASE x <= m
    <3>1. q # n
      <4>1. ASSUME q = n PROVE FALSE
        <5>1. m = bs[n].first_break BY <1>00, <2>2, <4>1
        <5>2. m < x BY <2>2, <4>1, <5>1
        <5> QED BY ONLY <1>00, <2>7, <5>2, x \in 1 .. Len(bp)
      <4> QED BY <4>1
    <3>2. q \in 1 .. h BY <2>6, <3>1
    <3>3. ASSUME NEW r \in q + 1 .. Len(us), cs[r].kind \in LoopWords
          PROVE  \/ x <= cs[r].first_break
                 \/ r \in q + 1 .. Len(os) /\ bs[r].kind \in LoopWords
                    /\ cs[r].first_break = bs[r].first_break
      <4>1. r \in 1 .. h /\ r \in q + 1 .. Len(os)
        BY ONLY <1>0, <3>2, r \in q + 1 .. Len(us), Len(us) = h, q \in 1 .. Len(os)
      <4> QED BY <1>0, <3>3, <4>1
    <3>4. /\ q \in 1 .. Len(us) /\ us[q] = os[q]
          /\ cs[q].kind = bs[q].kind /\ cs[q].first_break = bs[q].first_break
      BY <1>0, <3>2
    <3>5. BreakFor(ss, us, cs, i, x, q) BY ONLY <2>1, <2>3, <3>3, <3>4, BreakForStays
    <3>6. x \in 1 .. Len(bq) BY <1>2, <1>3, <2>7
    <3>7. bq[x] = bp[x] BY <1>2, <3>6
    <3>8. bp[x] \notin P BY <1>00, <2>7
    <3>9. BreakWaits(d, ss, us, cs, bq, i, x)
      BY ONLY <1>1, <1>5, <3>4, <3>5, <3>7, <3>8, i \in 1 .. Len(s), Kept(c, d, P), BreakWaitsStays
    <3> QED BY <3>6, <3>9
  <2>8. CASE ~(x <= m)
    <3>1. x > m BY ONLY <1>00, <2>8, x \in 1 .. Len(bp)
    <3>2. bs[n].kind \in LoopWords
      <4>1. m # Len(bp) BY ONLY <1>00, <3>1, x \in 1 .. Len(bp)
      <4> QED BY <1>00, <4>1
    <3>3. q = n
      <4>1. ASSUME q \in 1 .. h PROVE FALSE
        <5>1. n \in q + 1 .. Len(os) BY ONLY <1>0, <4>1, q \in 1 .. Len(os)
        <5>2. x <= m BY <1>00, <2>2, <3>2, <5>1
        <5> QED BY <2>8, <5>2
      <4> QED BY <2>6, <4>1
    <3>4. Exit(ss, LoopOf(ss, i), e) BY <2>2, <2>3, <3>3
    <3>5. BreakOp(s[LoopOf(s, i)]) \in BreakOps BY ONLY TRUE DEF BreakOp, BreakOps
    <3>6. CellAt(d, bp[x], Ins(BreakOp(s[LoopOf(s, i)]), Len(d) + 1)) BY <1>000, <2>4, <3>1, <3>5
    <3>7. ss[i].at = bp[x] BY <1>1, <2>4
    <3>8. CellAt(d, ss[i].at, Ins(BreakOp(ss[LoopOf(ss, i)]), NextAt(d, ss, e)))
      BY <2>3, <2>5, <3>6, <3>7
    <3>9. e \in 1 .. Len(ss) BY ONLY <1>0, <1>1, Len(ss) = e
    <3>10. BreakDone(d, ss, i) BY <2>3, <2>4, <3>4, <3>8, <3>9 DEF BreakDone
    <3>11. x \notin 1 .. Len(bq) BY <1>2, <1>3, <2>8
    <3> QED BY <3>10, <3>11
  <2> QED BY <2>7, <2>8
<1>6. \A x \in 1 .. Len(bq) : x \in 1 .. Len(bp) BY <1>2, <1>4
<1>7. \A i \in Len(s) + 1 .. Len(ss) : ss[i].tok # "break"
  <2>1. \A i \in Len(s) + 1 .. Len(ss) : i = e BY ONLY <1>0, <1>1, Len(ss) = e
  <2> QED BY <2>1
<1> QED BY ONLY <1>5, <1>6, <1>7, Extends(c, s, d, ss), Breaks(c, s, os, bs, bp), BreaksGo

-----------------------------------------------------------------------------
(* The branches that wait for the end of an if are patched with it.        *)
BranchesEnd(d, b) ==
  b.kind \in {"if", "else"} => \A p \in Chain(b) : CellAt(d, p, Ins("GOTO", Len(d) + 1))
(* The blocks that stay open.                                              *)
Others(d, ss, os, bs, P, cs, h) ==
  \A k \in 1 .. h : \/ cs[k] = bs[k] /\ Holes(bs[k]) \cap P = {}
                    \/ BlockOf(d, ss, os[k], cs[k])

LEMMA CloseRest ==
  ASSUME NEW c, NEW s, NEW os, NEW bs, NEW bp, ReadIn(c, s, os, bs, bp),
         NEW d, NEW t, NEW ss, Moves(c, s, d, t, ss), ClosingTok(t), NEW e, Behind(s, e),
         NEW P, Kept(c, d, P), Spare(c, P),
         NEW n, Deep(bs, n), NEW h, Under(n, h), NEW us, Popped(os, us),
         NEW cs, Len(cs) = h, NEW bq, Apart(cs, bq), NEW m, Starts(bp, m, bq),
         Alike(bs, cs, h), Others(d, ss, os, bs, P, cs, h),
         Done(d, ss, os[n]), BranchesEnd(d, bs[n]), BreaksEnd(c, d, bs[n], bp, P, m)
  PROVE  /\ Shape(d, ss, us, cs, bq) /\ Told(d, ss, us) /\ Elses(d, ss, cs)
         /\ Breaks(d, ss, us, cs, bq)
<1>0. /\ e = Len(s) + 1 /\ n = Len(bs) /\ n > 0 /\ h = n - 1
  BY DEF Behind, Deep, Under
<1>1. /\ Shape(c, s, os, bs, bp) /\ Told(c, s, os) /\ Elses(c, s, bs)
      /\ Breaks(c, s, os, bs, bp)
  BY DEF ReadIn
<1>2. Nest(s, os) /\ Len(os) = Len(bs) /\ Placed(c, s) BY <1>1 DEF Shape
<1>02. Deep(os, n) BY <1>2 DEF Deep
<1>3. /\ Extends(c, s, d, ss) /\ Begins(s, ss) /\ Len(ss) = e /\ ss[e] = t
      /\ e \in 1 .. Len(ss) /\ Len(s) \in Nat /\ Len(c) \in Nat /\ Len(d) \in Nat
      /\ \A x \in Len(s) + 1 .. Len(ss) : x = e /\ ss[x].at \in 1 .. Len(d) + 1
  BY ONLY <1>0, <1>2, Moves(c, s, d, t, ss), Kept(c, d, P), Spare(c, P), MovesFacts
<1>4. /\ Nest(ss, us) /\ Len(us) = h /\ LevelIn(ss, e) = h
      /\ \A k \in 1 .. h : us[k] = os[k]
      /\ n \in 1 .. Len(os) /\ os[n] \in 1 .. Len(s)
      /\ Closer(ss, os[n], e) /\ ~ContinuedIn(ss, e) /\ NextAt(d, ss, e) = Len(d) + 1
  <2>1. t \in Token /\ Grown(s, t, ss) BY DEF Moves
  <2> QED BY ONLY <1>2, <1>02, <2>1, ClosingTok(t), Behind(s, e), Under(n, h), Popped(os, us),
                  CloseFacts
<1>5. n \in Nat /\ h \in Nat /\ \A k \in 1 .. Len(os) : k = n \/ k \in 1 .. h
  <2>1. Len(os) \in Nat BY <1>2, NestFacts
  <2> QED BY ONLY <1>0, <1>2, <2>1
<1>6. Shape(d, ss, us, cs, bq)
  <2>1. \A i \in Len(s) + 1 .. Len(ss) : ss[i].at \in 1 .. Len(d) + 1 BY <1>3
  <2>2. \A k \in 1 .. Len(cs) : k \in 1 .. Len(bs) /\ k \in 1 .. h
    BY ONLY <1>0, <1>5, Len(cs) = h
  <2>3. ASSUME NEW k \in 1 .. Len(cs)
        PROVE  \/ /\ k \in 1 .. Len(bs) /\ us[k] = os[k] /\ cs[k] = bs[k]
                  /\ Holes(bs[k]) \cap P = {}
               \/ BlockOf(d, ss, us[k], cs[k])
    <3>1. k \in 1 .. Len(bs) /\ k \in 1 .. h BY <2>2
    <3>2. us[k] = os[k] BY <1>4, <3>1
    <3>3. \/ cs[k] = bs[k] /\ Holes(bs[k]) \cap P = {}
          \/ BlockOf(d, ss, os[k], cs[k])
      BY <3>1 DEF Others
    <3> QED BY <3>1, <3>2, <3>3
  <2>4. Begins(s, ss) /\ Len(c) \in Nat /\ Len(d) \in Nat BY <1>3
  <2>5. Nest(ss, us) /\ Len(us) = Len(cs) BY <1>4
  <2> QED BY ONLY <1>1, <2>1, <2>3, <2>4, <2>5, Kept(c, d, P), Spare(c, P), Apart(cs, bq), ShapeStep
<1>7. Told(d, ss, us)
  <2>1. ASSUME NEW i \in 1 .. Len(s), IsOpen(os, i) PROVE IsOpen(us, i) \/ Done(d, ss, i)
    <3>1. PICK k \in 1 .. Len(os) : os[k] = i BY <2>1 DEF IsOpen
    <3>2. CASE k = n BY <3>1, <3>2
    <3>3. CASE k \in 1 .. h
      <4>1. k \in 1 .. Len(us) /\ us[k] = i BY <1>4, <3>1, <3>3
      <4> QED BY <4>1 DEF IsOpen
    <3> QED BY <1>5, <3>2, <3>3
  <2>2. Done(d, ss, e) BY <1>3 DEF Done, LoopWords, ClosingTok
  <2>3. \A i \in Len(s) + 1 .. Len(ss) : IsOpen(us, i) \/ Done(d, ss, i) BY <1>3, <2>2
  <2> QED BY ONLY <1>1, <1>3, <2>1, <2>3, ToldStays
<1>8. Elses(d, ss, cs)
  <2>1. ASSUME NEW i \in 1 .. Len(s), NEW k \in 1 .. Len(bs), ElseWaits(s, bs, i, k)
        PROVE  ElseDone(d, ss, i) \/ ElseWaitsOn(ss, cs, i)
    <3>0. k = n \/ k \in 1 .. h BY <1>2, <1>5, <1>0
    <3>1. bs[k].kind \in {"if", "else"} BY <2>1 DEF ElseWaits
    <3>2. CASE k = n
      <4>1. \A p \in Chain(bs[n]) : CellAt(d, p, Ins("GOTO", Len(d) + 1)) BY <3>1, <3>2 DEF BranchesEnd
      <4>2. LevelIn(ss, e) = n - 1 BY <1>0, <1>4
      <4>3. ElseWaits(s, bs, i, n) BY <2>1, <3>2
      <4>4. ss[e].tok = "}" BY <1>3 DEF ClosingTok
      <4> QED BY ONLY <1>0, <1>3, <1>4, <4>1, <4>2, <4>3, <4>4, i \in 1 .. Len(s), CloseElse
    <3>3. CASE k \in 1 .. h
      <4>1. k \in 1 .. Len(cs) /\ Chain(bs[k]) \subseteq Chain(cs[k]) BY <3>3 DEF Alike
      <4>2. cs[k].kind \in {"if", "else"} BY <3>1, <3>3 DEF Alike
      <4>3. h # k - 1 BY ONLY <1>5, <3>3
      <4>4. ASSUME NEW x \in Len(s) + 1 .. Len(ss), ss[x].tok = "}" /\ LevelIn(ss, x) = k - 1
            PROVE  ContinuedIn(ss, x)
        BY <1>3, <1>4, <4>3, <4>4
      <4> QED BY ONLY <1>3, <2>1, <4>1, <4>2, <4>4, i \in 1 .. Len(s), ElseWaitsStays
    <3> QED BY <3>0, <3>2, <3>3
  <2>2. \A i \in Len(s) + 1 .. Len(ss) : ss[i].tok \notin {"else", "elseif"} BY <1>3 DEF ClosingTok
  <2> QED BY ONLY <1>1, <1>3, <2>1, <2>2, ElsesStay
<1>9. Breaks(d, ss, us, cs, bq)
  <2>1. Exit(ss, os[n], e) BY <1>4 DEF Exit
  <2>2. ss[e].tok = "}" BY <1>3 DEF ClosingTok
  <2> QED BY ONLY <1>02, <1>1, <1>3, <1>4, <2>1, <2>2, Behind(s, e), Kept(c, d, P), Under(n, h),
          Len(cs) = h, Alike(bs, cs, h), Starts(bp, m, bq), BreaksEnd(c, d, bs[n], bp, P, m),
          CloseBreaks
<1> QED BY <1>6, <1>7, <1>8, <1>9

(* The blocks around it stay as they are.                                  *)
LEMMA CloseRead ==
  ASSUME NEW c, NEW s, NEW os, NEW bs, NEW bp, ReadIn(c, s, os, bs, bp),
         NEW d, NEW t, NEW ss, Moves(c, s, d, t, ss), ClosingTok(t), NEW e, Behind(s, e),
         NEW P, Kept(c, d, P), Spare(c, P),
         NEW n, Deep(bs, n), NEW h, Under(n, h), bs[n].kind # "case",
         NEW us, Popped(os, us), NEW cs, Starts(bs, h, cs),
         NEW bq, NEW m, Starts(bp, m, bq), \A k \in 1 .. h : Holes(bs[k]) \cap P = {},
         Done(d, ss, os[n]), BranchesEnd(d, bs[n]), BreaksEnd(c, d, bs[n], bp, P, m)
  PROVE  ReadIn(d, ss, us, cs, bq)
<1>0. /\ e = Len(s) + 1 /\ n = Len(bs) /\ n > 0 /\ h = n - 1
  BY DEF Behind, Deep, Under
<1>00. Len(bp) \in Nat /\ m \in Nat BY DEF BreaksEnd
<1>1. Shape(c, s, os, bs, bp) /\ Cases(s, os, bs) BY DEF ReadIn
<1>2. /\ Nest(s, os) /\ n = Len(os) /\ Placed(c, s) /\ Apart(bs, bp)
      /\ \A k \in 1 .. n : Slot(s[os[k]], bs[k])
  BY <1>0, <1>1 DEF Shape, BlockOf
<1>02. Deep(os, n) BY <1>0, <1>2 DEF Deep
<1>03. n = Len(os) BY <1>2
<1>04. Len(cs) = h BY DEF Starts
<1>3. /\ Begins(s, ss) /\ Len(ss) = e /\ ss[e] = t /\ Len(s) \in Nat
      /\ \A x \in Len(s) + 1 .. Len(ss) : x = e
  BY ONLY <1>0, <1>2, Moves(c, s, d, t, ss), Kept(c, d, P), Spare(c, P), MovesFacts
<1>4. /\ Len(us) = h /\ \A k \in 1 .. h : us[k] = os[k]
  <2>1. t \in Token /\ Grown(s, t, ss) BY DEF Moves
  <2> QED BY ONLY <1>2, <1>02, <2>1, ClosingTok(t), Behind(s, e), Under(n, h), Popped(os, us),
                  CloseFacts
<1>5. n \in Nat /\ h \in Nat /\ \A k \in 1 .. Len(os) : k = n \/ k \in 1 .. h
  <2>1. Len(os) \in Nat BY <1>2, NestFacts
  <2> QED BY ONLY <1>0, <1>2, <2>1
<1>6. Len(cs) = h /\ \A k \in 1 .. h : cs[k] = bs[k] BY DEF Starts
<1>7. Apart(cs, bq)
  <2>1. Len(bs) \in Nat BY <1>0, <1>5
  <2> QED BY ONLY <1>00, <1>2, <1>5, <2>1, Starts(bs, h, cs),
                  Starts(bp, m, bq), ApartStart
<1>8. /\ Shape(d, ss, us, cs, bq) /\ Told(d, ss, us) /\ Elses(d, ss, cs)
      /\ Breaks(d, ss, us, cs, bq)
  <2>1. Alike(bs, cs, h) BY <1>6 DEF Alike
  <2>2. Others(d, ss, os, bs, P, cs, h) BY <1>6 DEF Others
  <2>3. Len(cs) = h BY <1>6
  <2> QED BY ONLY <1>7, <2>1, <2>2, <2>3, ReadIn(c, s, os, bs, bp), Moves(c, s, d, t, ss),
         ClosingTok(t), Behind(s, e), Kept(c, d, P), Spare(c, P), Deep(bs, n), Under(n, h),
         Popped(os, us), Starts(bp, m, bq), Done(d, ss, os[n]), BranchesEnd(d, bs[n]),
         BreaksEnd(c, d, bs[n], bp, P, m), CloseRest
<1>9. ASSUME NEW q \in 1 .. Len(cs), cs[q].kind = "dispatch" PROVE CasesAt(ss, us, cs, q)
  <2>1. /\ q \in 1 .. h /\ q \in 1 .. Len(os) /\ q \in 1 .. Len(bs) /\ q \in 1 .. n
    <3>1. n \in Nat /\ h \in Nat BY <1>5
    <3>2. q \in 1 .. h BY ONLY <1>04, q \in 1 .. Len(cs)
    <3>3. q \in 1 .. n BY ONLY <1>0, <3>1, <3>2
    <3> QED BY <1>0, <1>03, <3>2, <3>3
  <2>2. us[q] = os[q] /\ cs[q] = bs[q] BY <1>4, <1>6, <2>1
  <2>3. CasesAt(s, os, bs, q) BY <1>1, <1>9, <2>1, <2>2 DEF Cases
  <2>4. cs[q].case_addrs = bs[q].case_addrs /\ bs[q].gotos \subseteq cs[q].gotos BY <2>2
  <2>5. \A x \in Len(s) + 1 .. Len(ss) : ss[x].tok # "case" BY <1>3 DEF ClosingTok
  <2>6. ASSUME NEW k \in 1 .. Len(s), s[k].tok = "case", IsOpen(os, k) PROVE IsOpen(us, k)
    <3>1. PICK r \in 1 .. Len(os) : os[r] = k BY <2>6 DEF IsOpen
    <3>2. r # n
      <4>1. ASSUME r = n PROVE FALSE
        <5>1. r \in 1 .. n BY <1>2, <3>1
        <5>2. Slot(s[os[n]], bs[n]) BY <1>2, <4>1, <5>1
        <5> QED BY <2>6, <3>1, <4>1, <5>2 DEF Slot
      <4> QED BY <4>1
    <3>3. r \in 1 .. h BY <1>5, <3>2
    <3>4. r \in 1 .. Len(us) /\ us[r] = k BY <1>4, <3>1, <3>3
    <3> QED BY <3>4 DEF IsOpen
  <2> QED BY ONLY <1>2, <1>3, <2>1, <2>2, <2>3, <2>4, <2>5, <2>6, CasesStay
<1>10. Cases(ss, us, cs) BY <1>9 DEF Cases
<1> QED BY <1>8, <1>10 DEF ReadIn

-----------------------------------------------------------------------------
(* The end of the body of a case: its dispatch notes one jump more.        *)
Noted1(b, p, a) ==
  /\ a.kind = b.kind /\ a.pos = b.pos /\ a.top = b.top /\ a.ends = b.ends
  /\ a.outer_loop = b.outer_loop /\ a.outer_depth = b.outer_depth
  /\ a.first_break = b.first_break /\ a.case_addrs = b.case_addrs
  /\ \A x : x \in a.gotos <=> x \in b.gotos \/ x = p

LEMMA ApartGrow ==
  ASSUME NEW bs, NEW bp, Apart(bs, bp), NEW p, \A k \in 1 .. Len(bs) : p \notin Holes(bs[k]),
         \A x \in 1 .. Len(bp) : bp[x] # p,
         NEW cs, \A k \in 1 .. Len(cs) : k \in 1 .. Len(bs), NEW h,
         \A k \in 1 .. Len(cs) : k # h => cs[k] = bs[k], Noted1(bs[h], p, cs[h]),
         bs[h].pos # p
  PROVE  Apart(cs, bp)
<1>1. \A x : x \in Holes(cs[h]) => x \in Holes(bs[h]) \/ x = p BY DEF Noted1, Holes
<1>2. ASSUME NEW k \in 1 .. Len(cs), NEW m \in 1 .. Len(cs), k # m
      PROVE  Holes(cs[k]) \cap Holes(cs[m]) = {}
  <2>1. k \in 1 .. Len(bs) /\ m \in 1 .. Len(bs) OBVIOUS
  <2>2. Holes(bs[k]) \cap Holes(bs[m]) = {} BY <1>2, <2>1 DEF Apart
  <2>3. p \notin Holes(bs[k]) /\ p \notin Holes(bs[m]) BY <2>1
  <2>4. \A x : x \in Holes(cs[k]) => x \in Holes(bs[k]) \/ (x = p /\ k = h) BY <1>1
  <2>5. \A x : x \in Holes(cs[m]) => x \in Holes(bs[m]) \/ (x = p /\ m = h) BY <1>1
  <2> QED BY ONLY <1>2, <2>2, <2>3, <2>4, <2>5
<1>3. ASSUME NEW k \in 1 .. Len(cs)
      PROVE  /\ cs[k].pos \notin cs[k].ends \cup cs[k].gotos
             /\ \A x \in 1 .. Len(bp) : bp[x] \notin Holes(cs[k])
  <2>1. k \in 1 .. Len(bs) OBVIOUS
  <2>2. /\ bs[k].pos \notin bs[k].ends \cup bs[k].gotos
        /\ \A x \in 1 .. Len(bp) : bp[x] \notin Holes(bs[k]) /\ bp[x] # p
    BY <2>1 DEF Apart
  <2>3. CASE k = h BY <1>1, <2>2, <2>3 DEF Noted1
  <2>4. CASE k # h BY <2>2, <2>4
  <2> QED BY <2>3, <2>4
<1>4. \A x, y \in 1 .. Len(bp) : x # y => bp[x] # bp[y] BY DEF Apart
<1> QED BY <1>2, <1>3, <1>4 DEF Apart

LEMMA EndCaseRead ==
  ASSUME NEW c, NEW s, NEW os, NEW bs, NEW bp, ReadIn(c, s, os, bs, bp),
         NEW d, NEW t, NEW ss, Moves(c, s, d, t, ss), ClosingTok(t), NEW e, Behind(s, e),
         Kept(c, d, NoCell), bp \in Seq(1 .. Len(c)),
         NEW n, Deep(bs, n), NEW h, Under(n, h), h > 0,
         bs[n].kind = "case", bs[h].kind = "dispatch",
         NEW us, Popped(os, us), NEW cs, Len(cs) = h,
         \A k \in 1 .. h : k # h => cs[k] = bs[k], Noted1(bs[h], t.at, cs[h]),
         CellAt(d, t.at, Ins("GOTO", 0))
  PROVE  ReadIn(d, ss, us, cs, bp)
<1>0. /\ e = Len(s) + 1 /\ n = Len(bs) /\ n > 0 /\ h = n - 1
  BY DEF Behind, Deep, Under
<1>00. Spare(c, NoCell) BY NoCells
<1>1. Shape(c, s, os, bs, bp) /\ Cases(s, os, bs) BY DEF ReadIn
<1>2. Nest(s, os) /\ Len(os) = Len(bs) /\ Placed(c, s) /\ Apart(bs, bp)
  BY <1>1 DEF Shape
<1>3. Deep(os, n) /\ n = Len(os) BY <1>0, <1>2 DEF Deep
<1>4. \A k \in 1 .. Len(bs) : BlockOf(c, s, os[k], bs[k]) /\ os[k] \in 1 .. Len(s)
                              /\ LevelIn(s, os[k]) = k
  <2>1. \A k \in 1 .. Len(os) : os[k] \in 1 .. Len(s) /\ LevelIn(s, os[k]) = k
    BY ONLY <1>2, NestFacts
  <2> QED BY <1>1, <1>2, <2>1 DEF Shape
<1>5. /\ Begins(s, ss) /\ Len(ss) = e /\ ss[e] = t /\ Len(s) \in Nat
      /\ Len(c) \in Nat /\ Len(d) \in Nat /\ e \in 1 .. Len(ss)
      /\ \A x \in Len(s) + 1 .. Len(ss) : x = e
  BY ONLY <1>0, <1>00, <1>2, Moves(c, s, d, t, ss), Kept(c, d, NoCell), MovesFacts
<1>6. /\ Len(us) = h /\ \A k \in 1 .. h : us[k] = os[k]
      /\ Closer(ss, os[n], e)
  <2>1. t \in Token /\ Grown(s, t, ss) BY DEF Moves
  <2> QED BY ONLY <1>2, <1>3, <2>1, ClosingTok(t), Behind(s, e), Under(n, h), Popped(os, us),
                  CloseFacts
<1>7. n \in Nat /\ h \in Nat /\ \A k \in 1 .. Len(os) : k = n \/ k \in 1 .. h
  <2>1. Len(os) \in Nat BY <1>2, NestFacts
  <2> QED BY ONLY <1>0, <1>3, <2>1
<1>8. n \in 1 .. Len(bs) /\ h \in 1 .. Len(bs) /\ h \in 1 .. h
      /\ \A k \in 1 .. h : k \in 1 .. Len(bs)
  <2>1. n \in Nat /\ h \in Nat BY <1>7
  <2> QED BY ONLY <1>0, <2>1, h > 0
<1>9. /\ t.at \notin 1 .. Len(c)
      /\ \A k \in 1 .. Len(bs) : t.at \notin Holes(bs[k])
      /\ \A x \in 1 .. Len(bp) : bp[x] # t.at
  <2>1. t.at = Len(c) + 1 BY DEF Moves
  <2>2. t.at \notin 1 .. Len(c) BY ONLY <1>5, <2>1
  <2>3. ASSUME NEW k \in 1 .. Len(bs) PROVE t.at \notin Holes(bs[k])
    <3>1. Cells(c, bs[k]) BY <1>4 DEF BlockOf
    <3>2. Spare(c, Holes(bs[k])) BY ONLY <3>1, SpareHoles
    <3> QED BY <2>2, <3>2 DEF Spare
  <2>4. \A x \in 1 .. Len(bp) : bp[x] \in 1 .. Len(c) BY ElementOfSeq
  <2> QED BY <2>2, <2>3, <2>4
<1>10. Apart(cs, bp)
  <2>1. \A k \in 1 .. Len(cs) : k \in 1 .. Len(bs) BY <1>8
  <2>2. \A k \in 1 .. Len(cs) : k # h => cs[k] = bs[k] OBVIOUS
  <2>3. bs[h].pos # t.at
    <3>1. bs[h].pos \in Holes(bs[h]) BY DEF Holes
    <3> QED BY <1>8, <1>9, <3>1
  <2> QED BY ONLY <1>2, <1>9, <2>1, <2>2, <2>3, Noted1(bs[h], t.at, cs[h]), ApartGrow
<1>11. BlockOf(d, ss, os[h], cs[h])
  <2>1. BlockOf(c, s, os[h], bs[h]) /\ os[h] \in 1 .. Len(s) BY <1>4, <1>8
  <2>2. Holes(bs[h]) \cap NoCell = {} BY DEF NoCell
  <2>3. BlockOf(d, ss, os[h], bs[h])
    BY ONLY <1>00, <1>5, <2>1, <2>2, Kept(c, d, NoCell), BlockOfStays
  <2>4. Slot(ss[os[h]], cs[h]) BY <2>3 DEF BlockOf, Slot, Noted1
  <2>5. Cells(d, cs[h])
    <3>1. Cells(d, bs[h]) BY <2>3 DEF BlockOf
    <3>2. cs[h].kind # "case" => CellAt(d, cs[h].pos, Ins(HeadOp(cs[h].kind), 0))
      BY <3>1 DEF Cells, Noted1
    <3>3. \A p \in cs[h].ends \cup cs[h].gotos : CellAt(d, p, Ins("GOTO", 0))
      BY <3>1 DEF Cells, Noted1
    <3>4. cs[h].kind # "func" BY DEF Noted1
    <3> QED BY <3>2, <3>3, <3>4 DEF Cells
  <2>6. ContextAt(ss, os[h], cs[h].outer_loop, cs[h].outer_depth) BY <2>3 DEF BlockOf, Noted1
  <2> QED BY <2>4, <2>5, <2>6 DEF BlockOf
<1>12. s[os[n]].tok = "case" /\ ss[os[n]] = s[os[n]]
  <2>1. Slot(s[os[n]], bs[n]) /\ os[n] \in 1 .. Len(s) BY <1>4, <1>8 DEF BlockOf
  <2> QED BY <1>5, <2>1 DEF Slot, Begins
<1>13. /\ Shape(d, ss, us, cs, bp) /\ Told(d, ss, us) /\ Elses(d, ss, cs)
       /\ Breaks(d, ss, us, cs, bp)
  <2>1. Alike(bs, cs, h)
    <3>1. Chain(bs[h]) \subseteq Chain(cs[h]) BY DEF Noted1, Chain
    <3> QED BY <3>1 DEF Alike, Noted1
  <2>2. Others(d, ss, os, bs, NoCell, cs, h) BY <1>11 DEF Others, NoCell
  <2>3. Done(d, ss, os[n]) BY <1>12 DEF Done, LoopWords
  <2>4. BranchesEnd(d, bs[n]) BY DEF BranchesEnd
  <2>5. PICK m : m = Len(bp) OBVIOUS
  <2>6. m \in Nat BY <2>5, LenProperties
  <2>7. BreaksEnd(c, d, bs[n], bp, NoCell, m)
    <3>1. bs[n].kind \notin LoopWords BY DEF LoopWords
    <3>2. \A x \in 1 .. Len(bp) : ~(x > m) BY ONLY <2>5, <2>6
    <3>3. \A x \in 1 .. Len(bp) : bp[x] \notin NoCell BY DEF NoCell
    <3> QED BY <2>5, <2>6, <3>1, <3>2, <3>3 DEF BreaksEnd
  <2>8. Starts(bp, m, bp) BY <2>5, <2>6 DEF Starts
  <2> QED BY ONLY <1>00, <1>10, <2>1, <2>2, <2>3, <2>4, <2>7, <2>8, ReadIn(c, s, os, bs, bp),
         Moves(c, s, d, t, ss), ClosingTok(t), Behind(s, e), Kept(c, d, NoCell),
         Deep(bs, n), Under(n, h), Popped(os, us), Len(cs) = h, CloseRest
<1>14. ASSUME NEW q \in 1 .. Len(cs), cs[q].kind = "dispatch" PROVE CasesAt(ss, us, cs, q)
  <2>1. q \in 1 .. h /\ q \in 1 .. Len(os) /\ q \in 1 .. Len(bs) BY <1>2, <1>8
  <2>2. us[q] = os[q] BY <1>6, <2>1
  <2>3. /\ cs[q].kind = bs[q].kind /\ cs[q].case_addrs = bs[q].case_addrs
        /\ bs[q].gotos \subseteq cs[q].gotos
    <3>1. CASE q = h BY <3>1 DEF Noted1
    <3>2. CASE q # h BY <2>1, <3>2
    <3> QED BY <3>1, <3>2
  <2>4. CasesAt(s, os, bs, q) BY <1>1, <1>14, <2>1, <2>3 DEF Cases
  <2>5. \A x \in Len(s) + 1 .. Len(ss) : ss[x].tok # "case" BY <1>5 DEF ClosingTok
  <2>6. ASSUME NEW k \in 1 .. Len(s), s[k].tok = "case", IsOpen(os, k), LevelIn(s, k) = q + 1
        PROVE  \/ IsOpen(us, k)
               \/ \E m \in 1 .. Len(ss) : Closer(ss, k, m) /\ ss[m].at \in cs[q].gotos
    <3>1. PICK r \in 1 .. Len(os) : os[r] = k BY <2>6 DEF IsOpen
    <3>2. r = q + 1 BY <1>2, <1>4, <2>6, <3>1
    <3>3. CASE r = n
      <4>1. q = h
        <5>1. n \in Nat BY <1>7
        <5> QED BY ONLY <1>0, <2>1, <3>2, <3>3, <5>1
      <4>2. t.at \in cs[q].gotos BY <4>1 DEF Noted1
      <4>3. Closer(ss, k, e) BY <1>6, <3>1, <3>3
      <4> QED BY <1>5, <4>2, <4>3
    <3>4. CASE r \in 1 .. h
      <4>1. r \in 1 .. Len(us) /\ us[r] = k BY <1>6, <3>1, <3>4
      <4> QED BY <4>1 DEF IsOpen
    <3> QED BY <1>7, <3>3, <3>4
  <2>7. cs[q].case_addrs = bs[q].case_addrs /\ bs[q].gotos \subseteq cs[q].gotos BY <2>3
  <2> QED BY ONLY <1>2, <1>5, <2>1, <2>2, <2>4, <2>5, <2>6, <2>7, CasesStay
<1>15. Cases(ss, us, cs) BY <1>14 DEF Cases
<1> QED BY <1>13, <1>15 DEF ReadIn

-----------------------------------------------------------------------------
(* An else: the end of a branch and the beginning of the next one.         *)
Branching(u) == u.tok \in {"else", "elseif"}
LEMMA ElseTokens ==
  ASSUME NEW s, NEW os, Nest(s, os), NEW t \in Token, NEW s1, Grown(s, t, s1), ClosingTok(t),
         NEW u \in Token, NEW ss, Grown(s1, u, ss), Branching(u),
         NEW e, Behind(s, e), NEW f, Behind(s1, f), NEW n, Deep(os, n), NEW h, Under(n, h),
         NEW o1, Popped(os, o1), NEW us, Pushed(o1, f, us)
  PROVE  /\ Nest(ss, us) /\ Len(us) = n /\ us[n] = f /\ \A k \in 1 .. h : us[k] = os[k]
         /\ Nest(s1, o1) /\ Len(o1) = h /\ \A k \in 1 .. h : o1[k] = os[k]
         /\ Begins(s, ss) /\ Begins(s, s1) /\ Begins(s1, ss)
         /\ Len(s) \in Nat /\ e = Len(s) + 1 /\ f = Len(s) + 2 /\ Len(ss) = f /\ Len(s1) = e
         /\ ss[e] = t /\ ss[f] = u /\ LevelIn(ss, e) = h /\ LevelIn(ss, f) = n
         /\ n \in 1 .. Len(os) /\ os[n] \in 1 .. Len(s) /\ h \in Nat
         /\ Closer(ss, os[n], e) /\ ContinuedIn(ss, e) /\ \A d : NextAt(d, ss, e) = u.at
<1>0. e = Len(s) + 1 /\ f = Len(s1) + 1 BY DEF Behind
<1>1. s \in Seq(Token) BY NestFacts
<1>2. /\ Begins(s, s1) /\ s1 \in Seq(Token) /\ Len(s1) = e /\ s1[e] = t
      /\ e \in Nat /\ e \in 1 .. Len(s1) /\ Len(s) \in Nat
      /\ \A i \in 0 .. Len(s) : LevelIn(s1, i) = LevelIn(s, i)
  BY ONLY <1>0, <1>1, t \in Token, Grown(s, t, s1), GrownFacts
<1>3. /\ Begins(s1, ss) /\ ss \in Seq(Token) /\ Len(ss) = f /\ ss[f] = u
      /\ f \in Nat /\ f \in 1 .. Len(ss)
      /\ \A i \in 0 .. Len(s1) : LevelIn(ss, i) = LevelIn(s1, i)
  BY ONLY <1>0, <1>2, u \in Token, Grown(s1, u, ss), GrownFacts
<1>4. /\ Nest(s1, o1) /\ Len(o1) = h /\ LevelIn(s1, e) = h
      /\ \A k \in 1 .. h : o1[k] = os[k]
      /\ n \in 1 .. Len(os) /\ os[n] \in 1 .. Len(s) /\ LevelIn(s1, os[n]) = n
      /\ Closer(s1, os[n], e)
  BY ONLY Nest(s, os), t \in Token, Grown(s, t, s1), Behind(s, e), ClosingTok(t), Deep(os, n),
          Under(n, h), Popped(os, o1), CloseFacts
<1>5. n = h + 1 /\ n \in Nat /\ h \in Nat
  <2>1. h = n - 1 /\ n > 0 /\ n = Len(os) /\ Len(os) \in Nat BY NestFacts DEF Under, Deep
  <2> QED BY ONLY <2>1
<1>6. /\ Nest(ss, us) /\ Len(us) = n /\ us[n] = f /\ \A k \in 1 .. h : us[k] = os[k]
  <2>1. u.tok \in Openers BY DEF Openers, Branching
  <2>2. /\ Nest(ss, us) /\ Len(us) = Len(o1) + 1 /\ us[Len(o1) + 1] = f
        /\ \A k \in 1 .. Len(o1) : us[k] = o1[k]
    BY ONLY <1>0, <1>4, <2>1, u \in Token, Grown(s1, u, ss), Pushed(o1, f, us), OpenNest
  <2>3. Len(o1) = h BY <1>4
  <2>4. Len(o1) + 1 = n BY <1>5, <2>3
  <2>5. us[n] = f BY <2>2, <2>4
  <2> QED BY <1>4, <2>2, <2>3, <2>4, <2>5
<1>7. f = Len(s) + 2 BY ONLY <1>0, <1>2
<1>8. Begins(s, ss) /\ ss[e] = t
  <2>1. /\ s \in Seq(Token) /\ ss \in Seq(Token) /\ Len(s) <= Len(s1) /\ Len(s1) <= Len(ss)
        /\ \A i \in 1 .. Len(s) : s1[i] = s[i]
        /\ \A i \in 1 .. Len(s1) : ss[i] = s1[i]
    BY <1>2, <1>3 DEF Begins
  <2>2. Len(s) <= Len(ss) /\ \A i \in 1 .. Len(s) : i \in 1 .. Len(s1)
    BY ONLY <1>0, <1>2, <1>3
  <2>3. ss[e] = t BY <1>2, <2>1
  <2> QED BY <2>1, <2>2, <2>3 DEF Begins
<1>9. \A i \in 1 .. e : LevelIn(ss, i) = LevelIn(s1, i) /\ i \in 1 .. Len(ss)
  <2>1. \A i \in 1 .. e : i \in 0 .. Len(s1) /\ i \in 1 .. Len(ss) BY ONLY <1>0, <1>2, <1>3
  <2> QED BY <1>3, <2>1
<1>10. LevelIn(ss, e) = h
  <2>1. e \in 1 .. e BY ONLY <1>2
  <2> QED BY <1>4, <1>9, <2>1
<1>11. LevelIn(ss, f) = n
  <2>1. LevelIn(ss, Len(ss)) = Len(us) BY <1>6 DEF Nest
  <2> QED BY <1>3, <1>6, <2>1
<1>12. Closer(ss, os[n], e)
  <2>1. PICK o : o = os[n] OBVIOUS
  <2>2. o \in 1 .. Len(s) /\ LevelIn(s1, o) = n BY <1>4, <2>1
  <2>3. /\ e \in o + 1 .. Len(s1) /\ s1[e].tok = "}" /\ LevelIn(s1, e) = LevelIn(s1, o) - 1
        /\ \A x \in o .. e - 1 : LevelIn(s1, x) >= LevelIn(s1, o)
    BY <1>4, <2>1 DEF Closer
  <2>4. o \in 1 .. e /\ e \in 1 .. e /\ e \in o + 1 .. Len(ss) /\ \A x \in o .. e - 1 : x \in 1 .. e
    BY ONLY <1>0, <1>2, <1>3, <2>2
  <2>5. ss[e].tok = "}" BY <1>8 DEF ClosingTok
  <2>6. \A x \in o .. e - 1 : LevelIn(ss, x) >= LevelIn(ss, o) BY <1>9, <2>3, <2>4
  <2>7. LevelIn(ss, e) = LevelIn(ss, o) - 1 BY <1>9, <2>3, <2>4
  <2> QED BY <2>1, <2>4, <2>5, <2>6, <2>7 DEF Closer
<1>13. e < Len(ss) /\ e + 1 = f BY ONLY <1>0, <1>2, <1>3
<1>14. ss[e + 1] = u BY <1>3, <1>13
<1>15. ContinuedIn(ss, e) BY <1>13, <1>14 DEF ContinuedIn, Branching
<1>16. \A d : NextAt(d, ss, e) = u.at BY <1>13, <1>14 DEF NextAt
<1> QED BY <1>0, <1>2, <1>3, <1>4, <1>5, <1>6, <1>7, <1>8, <1>10, <1>11, <1>12, <1>15, <1>16

-----------------------------------------------------------------------------
(* The branch bs[n] ends, and the branch b begins.                         *)
BranchFrom(c, s, d, bs, cs, bp, e, n, h, u, b) ==
  /\ bs[n].kind = "if" /\ CellAt(d, bs[n].pos, Ins("IF", Len(c) + 1 + 1))
  /\ bp \in Seq(1 .. Len(c)) /\ Len(cs) = n /\ cs[n] = b
  /\ \A k \in 1 .. h : cs[k] = bs[k]
  /\ Slot(u, b) /\ Cells(d, b) /\ ContextAt(s, e, b.outer_loop, b.outer_depth)
  /\ b.first_break = Len(bp) /\ b.pos \notin b.ends \cup b.gotos
  /\ \A p \in Holes(b) : p > Len(c) \/ p \in Holes(bs[n])
  /\ Chain(bs[n]) \subseteq Chain(b) /\ u.at \in Chain(b)
OnlyPos(P, b) == \A p : p \in P <=> p = b.pos

LEMMA ElseRead ==
  ASSUME NEW c, NEW s, NEW os, NEW bs, NEW bp, ReadIn(c, s, os, bs, bp),
         NEW d, Whole(c), Whole(d),
         NEW t \in Token, NEW s1, Grown(s, t, s1), ClosingTok(t), t.at = Len(c) + 1,
         NEW u \in Token, NEW ss, Grown(s1, u, ss), Branching(u),
         u.at = Len(c) + 1, NEW e, Behind(s, e), NEW f, Behind(s1, f),
         NEW P, Kept(c, d, P), NEW n, Deep(bs, n), NEW h, Under(n, h), OnlyPos(P, bs[n]),
         NEW o1, Popped(os, o1), NEW us, Pushed(o1, f, us),
         NEW hs, Starts(bs, h, hs), NEW b, NEW cs,
         BranchFrom(c, s, d, bs, cs, bp, e, n, h, u, b)
  PROVE  ReadIn(d, ss, us, cs, bp)
<1>a. bs[n].kind = "if" BY DEF BranchFrom
<1>b. CellAt(d, bs[n].pos, Ins("IF", Len(c) + 1 + 1)) BY DEF BranchFrom
<1>c. bp \in Seq(1 .. Len(c)) BY DEF BranchFrom
<1>d. Len(cs) = n BY DEF BranchFrom
<1>e. cs[n] = b BY DEF BranchFrom
<1>f. \A k \in 1 .. h : cs[k] = bs[k] BY DEF BranchFrom
<1>g. Slot(u, b) /\ Cells(d, b) /\ ContextAt(s, e, b.outer_loop, b.outer_depth)
  BY DEF BranchFrom
<1>h. b.first_break = Len(bp) BY DEF BranchFrom
<1>i. b.pos \notin b.ends \cup b.gotos BY DEF BranchFrom
<1>j. \A p \in Holes(b) : p > Len(c) \/ p \in Holes(bs[n]) BY DEF BranchFrom
<1>k. Chain(bs[n]) \subseteq Chain(b) /\ u.at \in Chain(b) BY DEF BranchFrom
<1>l. \A p : p \in P <=> p = bs[n].pos BY DEF OnlyPos
<1>m. u.tok \in {"else", "elseif"} BY DEF Branching
<1> USE <1>a, <1>b, <1>c, <1>d, <1>e, <1>f, <1>g, <1>h, <1>i, <1>j, <1>k, <1>l, <1>m
<1>1. /\ Shape(c, s, os, bs, bp) /\ Told(c, s, os) /\ Elses(c, s, bs)
      /\ Breaks(c, s, os, bs, bp) /\ Cases(s, os, bs)
  BY DEF ReadIn
<1>2. Nest(s, os) /\ Len(os) = Len(bs) /\ Placed(c, s) /\ Apart(bs, bp)
  BY <1>1 DEF Shape
<1>3. Deep(os, n) /\ n = Len(os) /\ n = Len(bs) /\ n > 0 /\ h = n - 1
  BY <1>2 DEF Deep, Under
<1>4. \A k \in 1 .. Len(bs) : BlockOf(c, s, os[k], bs[k])
  BY <1>1 DEF Shape
<1>05. Branching(u) BY DEF Branching
<1>06. Nest(s, os) /\ Deep(os, n) BY <1>2, <1>3
<1>5. /\ Nest(ss, us) /\ Len(us) = n /\ us[n] = f /\ \A k \in 1 .. h : us[k] = os[k]
      /\ Nest(s1, o1) /\ Len(o1) = h /\ \A k \in 1 .. h : o1[k] = os[k]
      /\ Begins(s, ss) /\ Begins(s, s1) /\ Begins(s1, ss)
      /\ Len(s) \in Nat /\ e = Len(s) + 1 /\ f = Len(s) + 2 /\ Len(ss) = f /\ Len(s1) = e
      /\ ss[e] = t /\ ss[f] = u /\ LevelIn(ss, e) = h /\ LevelIn(ss, f) = n
      /\ n \in 1 .. Len(os) /\ os[n] \in 1 .. Len(s) /\ h \in Nat
      /\ Closer(ss, os[n], e) /\ ContinuedIn(ss, e) /\ \A x : NextAt(x, ss, e) = u.at
  BY ONLY <1>06, t \in Token, Grown(s, t, s1), ClosingTok(t), u \in Token, Grown(s1, u, ss),
          <1>05, Behind(s, e), Behind(s1, f), Under(n, h),
          Popped(os, o1), Pushed(o1, f, us), ElseTokens
<1>6. /\ \A x \in Len(s) + 1 .. Len(ss) : x = e \/ x = f
      /\ e \in 1 .. Len(ss) /\ f \in 1 .. Len(ss) /\ Len(s) < Len(ss)
  <2>1. Len(s) \in Nat /\ e = Len(s) + 1 /\ f = Len(s) + 2 /\ Len(ss) = f BY <1>5
  <2> QED BY ONLY <2>1
<1>7. n = h + 1 /\ \A k \in 1 .. n : k = n \/ (k \in 1 .. h /\ k < n)
  <2>1. h \in Nat BY <1>5
  <2>2. n = h + 1 BY ONLY <1>3, <2>1
  <2>3. \A k \in 1 .. n : k = n \/ (k \in 1 .. h /\ k < n) BY ONLY <2>1, <2>2
  <2> QED BY <2>2, <2>3
<1>8. n \in 1 .. Len(bs) /\ \A k \in 1 .. h : k \in 1 .. Len(bs) /\ k # n
  <2>1. h \in Nat BY <1>5
  <2> QED BY ONLY <1>3, <1>7, <2>1
<1>9. Len(c) \in Nat /\ Len(d) \in Nat BY LenProperties DEF Whole, IsCode
<1>10. Len(c) <= Len(d) BY DEF Kept
<1>11. /\ BlockOf(c, s, os[n], bs[n]) /\ Cells(c, bs[n]) /\ Slot(s[os[n]], bs[n])
       /\ ContextAt(s, os[n], bs[n].outer_loop, bs[n].outer_depth)
       /\ s[os[n]].tok \in {"if", "elseif"} /\ CondAt(s[os[n]]) = bs[n].pos
  <2>1. BlockOf(c, s, os[n], bs[n]) BY <1>4, <1>8
  <2>2. /\ Cells(c, bs[n]) /\ Slot(s[os[n]], bs[n])
        /\ ContextAt(s, os[n], bs[n].outer_loop, bs[n].outer_depth)
    BY <2>1 DEF BlockOf
  <2>3. s[os[n]].tok \in {"if", "elseif"} /\ CondAt(s[os[n]]) = bs[n].pos
    BY <2>2 DEF Slot, CondAt
  <2> QED BY <2>1, <2>2, <2>3
<1>12. /\ \A p \in P : p \in Holes(bs[n])
       /\ Spare(c, P)
  <2>1. \A p \in P : p \in Holes(bs[n]) BY DEF Holes
  <2>2. Spare(c, Holes(bs[n])) BY <1>11, SpareHoles
  <2> QED BY <2>1, <2>2 DEF Spare
<1>13. Extends(c, s, d, ss)
  <2>1. FirmKept(c, d) BY <1>12, SpareFirm
  <2>2. ss[Len(s) + 1] = t BY <1>5
  <2>3. t.tok \notin {"else", "elseif"} BY DEF ClosingTok
  <2> QED BY <1>2, <1>5, <1>6, <2>1, <2>2, <2>3 DEF Extends
<1>14. \A x \in 1 .. Len(bp) : bp[x] \in 1 .. Len(c) BY ElementOfSeq
<1>15. Apart(cs, bp)
  <2>1. Len(bs) \in Nat /\ Len(bp) \in Nat /\ h \in Nat
    <3>1. Len(os) \in Nat BY <1>2, NestFacts
    <3> QED BY <1>2, <1>5, <3>1, LenProperties
  <2>2. Len(hs) = h /\ \A k \in 1 .. h : hs[k] = bs[k] BY DEF Starts
  <2>3. Apart(hs, bp)
    <3>1. PICK m : m = Len(bp) OBVIOUS
    <3>2. m \in Nat /\ Starts(bp, m, bp) BY <2>1, <3>1 DEF Starts
    <3> QED BY ONLY <1>2, <2>1, <3>2, Starts(bs, h, hs), ApartStart
  <2>4. Clear(hs, bp, b)
    <3>1. h + 1 = Len(bs) BY <1>3, <1>7
    <3>2. \A p \in Holes(b) : p > Len(c) \/ p \in Holes(bs[h + 1]) BY <1>7
    <3> QED BY ONLY <1>1, <1>9, <1>14, <2>1, <3>1, <3>2, Starts(bs, h, hs),
                    b.pos \notin b.ends \cup b.gotos, ClearTop
  <2>5. \A k \in 1 .. Len(hs) : Like(hs[k], cs[k]) BY <2>2 DEF Like
  <2>6. n = Len(hs) + 1 /\ Len(hs) \in Nat BY <1>7, <2>1, <2>2
  <2> QED BY ONLY <2>3, <2>4, <2>5, <2>6, Len(cs) = n, cs[n] = b, ApartMore
<1>16. ContextAt(ss, f, b.outer_loop, b.outer_depth)
  <2>1. OneAround(s, os[n], s, e, os[n])
    <3>1. e = Len(s) + 1 BY <1>5
    <3> QED BY ONLY <1>2, <1>3, <3>1, TopAround
  <2>2. os[n] \in Int /\ e \in Int /\ f \in Int /\ f <= Len(s1) + 1 /\ Begins(s, s)
    <3>1. f = Len(s1) + 1 BY DEF Behind
    <3>2. Len(s) \in Nat /\ os[n] \in 1 .. Len(s) /\ e = Len(s) + 1 /\ f = Len(s) + 2 BY <1>5
    <3>3. os[n] \in Int BY <3>2
    <3>4. e \in Int /\ f \in Int BY ONLY <3>2
    <3>5. f <= Len(s1) + 1 BY ONLY <3>1, <3>4
    <3>6. Begins(s, s) BY <1>5 DEF Begins
    <3> QED BY <3>3, <3>4, <3>5, <3>6
  <2>3. s[os[n]].tok \notin {"for", "while", "func"} BY <1>11
  <2>4. ContextAt(s, os[n], b.outer_loop, b.outer_depth)
    BY ONLY <2>1, <2>2, <2>3, ContextAt(s, e, b.outer_loop, b.outer_depth), OtherContext
  <2>5. SameAround(s, os[n], s1, f)
    <3>1. f = Len(s1) + 1 BY DEF Behind
    <3>2. Len(o1) = n - 1 /\ \A k \in 1 .. n - 1 : o1[k] = os[k] BY <1>3, <1>5
    <3>3. Nest(s1, o1) BY <1>5
    <3> QED BY ONLY <1>2, <1>3, <3>1, <3>2, <3>3, CloseAround
  <2>6. ContextAt(s1, f, b.outer_loop, b.outer_depth)
    <3>1. Begins(s, s1) BY <1>5
    <3> QED BY ONLY <2>2, <2>4, <2>5, <3>1, SameContext
  <2>7. Begins(s1, ss) BY <1>5
  <2>8. SameAround(s1, f, ss, f) BY ONLY <2>2, <2>7, EarlierContext
  <2> QED BY ONLY <2>2, <2>6, <2>7, <2>8, SameContext
<1>17. Shape(d, ss, us, cs, bp)
  <2>1. \A i \in Len(s) + 1 .. Len(ss) : ss[i].at \in 1 .. Len(d) + 1
    <3>1. PICK p : p = Len(c) + 1 OBVIOUS
    <3>2. p \in 1 .. Len(d) + 1 BY ONLY <1>9, <1>10, <3>1
    <3> QED BY <1>5, <1>6, <3>1, <3>2
  <2>2. BlockOf(d, ss, us[n], cs[n]) BY <1>5, <1>16 DEF BlockOf
  <2>3. \A k \in 1 .. h : Holes(bs[k]) \cap P = {}
    <3>1. \A k \in 1 .. h : Holes(bs[k]) \cap Holes(bs[n]) = {} BY <1>2, <1>8 DEF Apart
    <3> QED BY <1>12, <3>1
  <2>4. \A k \in 1 .. Len(cs) :
           \/ /\ k \in 1 .. Len(bs) /\ us[k] = os[k] /\ cs[k] = bs[k]
              /\ Holes(bs[k]) \cap P = {}
           \/ BlockOf(d, ss, us[k], cs[k])
    BY <1>5, <1>7, <1>8, <2>2, <2>3
  <2>5. Nest(ss, us) /\ Len(us) = Len(cs) /\ Begins(s, ss) BY <1>5
  <2> QED BY ONLY <1>1, <1>9, <1>12, <1>15, <2>1, <2>4, <2>5, Kept(c, d, P), ShapeStep
<1>18. Told(d, ss, us)
  <2>1. Done(d, ss, os[n])
    <3>1. ss[os[n]] = s[os[n]] BY <1>5 DEF Begins
    <3>2. NextAt(d, ss, e) = Len(c) + 1 BY <1>5
    <3>3. CellAt(d, CondAt(ss[os[n]]),
                 Ins("IF", NextAt(d, ss, e) + (IF ContinuedIn(ss, e) THEN 1 ELSE 0)))
      BY <1>5, <1>11, <3>1, <3>2
    <3>4. CondDone(d, ss, os[n]) BY <1>5, <1>6, <3>3 DEF CondDone
    <3> QED BY <1>11, <3>1, <3>4 DEF Done, LoopWords
  <2>2. ASSUME NEW i \in 1 .. Len(s), IsOpen(os, i) PROVE IsOpen(us, i) \/ Done(d, ss, i)
    <3>1. PICK k \in 1 .. Len(os) : os[k] = i BY <2>2 DEF IsOpen
    <3>2. k = n \/ k \in 1 .. h BY <1>3, <1>7
    <3>3. CASE k = n BY <2>1, <3>1, <3>3
    <3>4. CASE k \in 1 .. h
      <4>1. k \in 1 .. Len(us) /\ us[k] = i BY <1>3, <1>5, <1>8, <3>1, <3>4
      <4> QED BY <4>1 DEF IsOpen
    <3> QED BY <3>2, <3>3, <3>4
  <2>3. Done(d, ss, e) BY <1>5 DEF Done, LoopWords, ClosingTok
  <2>4. IsOpen(us, f) BY <1>3, <1>5 DEF IsOpen
  <2>5. \A i \in Len(s) + 1 .. Len(ss) : IsOpen(us, i) \/ Done(d, ss, i) BY <1>6, <2>3, <2>4
  <2> QED BY ONLY <1>1, <1>13, <2>2, <2>5, ToldStays
<1>19. b.kind \in {"if", "else"} BY DEF Slot
<1>20. Elses(d, ss, cs)
  <2>1. ASSUME NEW i \in 1 .. Len(s), NEW k \in 1 .. Len(bs), ElseWaits(s, bs, i, k)
        PROVE  ElseWaitsOn(ss, cs, i)
    <3>1. k \in 1 .. Len(cs) BY <1>3
    <3>2. bs[k].kind \in {"if", "else"} BY <2>1 DEF ElseWaits
    <3>3. k = n \/ (k \in 1 .. h /\ k < n) BY <1>3, <1>7
    <3>4. Chain(bs[k]) \subseteq Chain(cs[k]) BY <3>3
    <3>5. cs[k].kind \in {"if", "else"} BY <1>19, <3>2, <3>3
    <3>6. \A x \in Len(s) + 1 .. Len(ss) :
             ss[x].tok = "}" /\ LevelIn(ss, x) = k - 1 => ContinuedIn(ss, x)
      <4>1. ContinuedIn(ss, e) /\ ss[f].tok # "}" BY <1>5
      <4> QED BY <1>6, <4>1
    <3>7. Begins(s, ss) BY <1>5
    <3> QED BY ONLY <2>1, <3>1, <3>4, <3>5, <3>6, <3>7, i \in 1 .. Len(s), ElseWaitsStays
  <2>2. ElseWaits(ss, cs, f, n)
    <3>1. ss[f].at \in Chain(cs[n]) /\ cs[n].kind \in {"if", "else"} BY <1>5, <1>19
    <3>2. n \in 1 .. Len(cs) BY <1>3, <1>5
    <3>3. \A x \in f + 1 .. Len(ss) : FALSE
      <4>1. Len(ss) = f /\ f = Len(s) + 2 /\ Len(s) \in Nat BY <1>5
      <4> QED BY ONLY <4>1
    <3>4. LevelIn(ss, f) = n BY <1>5
    <3> QED BY <3>1, <3>2, <3>3, <3>4 DEF ElseWaits
  <2>3. \A i \in Len(s) + 1 .. Len(ss) :
           ss[i].tok \in {"else", "elseif"} => ElseWaitsOn(ss, cs, i)
    <3>1. ss[e].tok \notin {"else", "elseif"} BY <1>5 DEF ClosingTok
    <3>2. ElseWaitsOn(ss, cs, f)
      <4>1. n \in 1 .. Len(cs) BY <1>3, <1>5
      <4> QED BY <2>2, <4>1 DEF ElseWaitsOn
    <3> QED BY <1>6, <3>1, <3>2
  <2> QED BY ONLY <1>1, <1>13, <2>1, <2>3, ElsesStay
<1>21. Breaks(d, ss, us, cs, bp)
  <2>1. ASSUME NEW i \in 1 .. Len(s), NEW x \in 1 .. Len(bp), BreakWaits(c, s, os, bs, bp, i, x)
        PROVE  BreakWaits(d, ss, us, cs, bp, i, x)
    <3>1. PICK q \in 1 .. Len(os) : BreakFor(s, os, bs, i, x, q) BY <2>1 DEF BreakWaits
    <3>2. bs[q].kind \in LoopWords BY <3>1 DEF BreakFor
    <3>3. q \in 1 .. h BY <1>3, <1>7, <3>2 DEF LoopWords
    <3>4. Begins(s, ss) BY <1>5
    <3>5. LoopOf(ss, i) = LoopOf(s, i) BY ONLY <3>4, i \in 1 .. Len(s), LoopOfStays
    <3>6. /\ q \in 1 .. Len(us) /\ us[q] = os[q]
          /\ cs[q].kind = bs[q].kind /\ cs[q].first_break = bs[q].first_break
      BY <1>3, <1>5, <3>3
    <3>7. ASSUME NEW r \in q + 1 .. Len(us), cs[r].kind \in LoopWords
          PROVE  \/ x <= cs[r].first_break
                 \/ r \in q + 1 .. Len(os) /\ bs[r].kind \in LoopWords
                    /\ cs[r].first_break = bs[r].first_break
      <4>1. r \in 1 .. n /\ r \in q + 1 .. Len(os)
        <5>1. Len(us) = n /\ h \in Nat BY <1>5
        <5>2. n = h + 1 /\ n = Len(os) BY <1>3, <1>7
        <5> QED BY ONLY <5>1, <5>2, r \in q + 1 .. Len(us), q \in 1 .. Len(os)
      <4>2. r # n BY <1>19, <3>7 DEF LoopWords
      <4>3. r \in 1 .. h BY <1>7, <4>1, <4>2
      <4> QED BY <3>7, <4>1, <4>3
    <3>8. BreakFor(ss, us, cs, i, x, q) BY ONLY <3>1, <3>5, <3>6, <3>7, BreakForStays
    <3>9. bp[x] \notin P
      <4>1. bp[x] \notin Holes(bs[n]) BY <1>2, <1>8 DEF Apart
      <4> QED BY <1>12, <4>1
    <3> QED BY ONLY <1>9, <2>1, <3>4, <3>6, <3>8, <3>9, i \in 1 .. Len(s), Kept(c, d, P), BreakWaitsStays
  <2>2. \A i \in Len(s) + 1 .. Len(ss) : ss[i].tok # "break" BY <1>5, <1>6 DEF ClosingTok
  <2> QED BY ONLY <1>1, <1>13, <2>1, <2>2, BreaksGo
<1>22. ASSUME NEW q \in 1 .. Len(cs), cs[q].kind = "dispatch" PROVE CasesAt(ss, us, cs, q)
  <2>1. q # n BY <1>19, <1>22
  <2>2. q \in 1 .. h /\ q \in 1 .. Len(bs) /\ q \in 1 .. Len(os) BY <1>3, <1>7, <2>1
  <2>3. us[q] = os[q] /\ cs[q] = bs[q] BY <1>5, <2>2
  <2>4. CasesAt(s, os, bs, q) BY <1>1, <1>22, <2>2, <2>3 DEF Cases
  <2>5. cs[q].case_addrs = bs[q].case_addrs /\ bs[q].gotos \subseteq cs[q].gotos BY <2>3
  <2>6. \A x \in Len(s) + 1 .. Len(ss) : ss[x].tok # "case" BY <1>5, <1>6 DEF ClosingTok
  <2>7. ASSUME NEW k \in 1 .. Len(s), s[k].tok = "case", IsOpen(os, k) PROVE IsOpen(us, k)
    <3>1. PICK r \in 1 .. Len(os) : os[r] = k BY <2>7 DEF IsOpen
    <3>2. r # n BY <1>11, <2>7, <3>1
    <3>3. r \in 1 .. h BY <1>3, <1>7, <3>2
    <3>4. r \in 1 .. Len(us) /\ us[r] = k BY <1>3, <1>5, <3>1, <3>3
    <3> QED BY <3>4 DEF IsOpen
  <2>8. Begins(s, ss) BY <1>5
  <2> QED BY ONLY <1>2, <2>2, <2>3, <2>4, <2>5, <2>6, <2>7, <2>8, CasesStay
<1>23. Cases(ss, us, cs) BY <1>22 DEF Cases
<1> QED BY <1>17, <1>18, <1>20, <1>21, <1>23 DEF ReadIn

-----------------------------------------------------------------------------
(* What the end of a block makes of it: the token t at e closes b, that    *)
(* the token at o has opened.                                              *)
Ending(c, s, o, b, d, t, ss, e) ==
  /\ o \in 1 .. Len(s) /\ o \in 1 .. Len(ss) /\ ss[o] = s[o] /\ Slot(ss[o], b)
  /\ ss[o] \in Token /\ Closer(ss, o, e) /\ ~ContinuedIn(ss, e)
  /\ NextAt(d, ss, e) = Len(d) + 1 /\ e \in 1 .. Len(ss) /\ ss[e] = t

LEMMA EndingIs ==
  ASSUME NEW c, NEW s, NEW os, NEW bs, NEW bp, ReadIn(c, s, os, bs, bp),
         NEW d, NEW t, NEW ss, Moves(c, s, d, t, ss), ClosingTok(t), NEW e, Behind(s, e),
         NEW P, Kept(c, d, P), Spare(c, P), NEW n, Deep(bs, n)
  PROVE  /\ Ending(c, s, os[n], bs[n], d, t, ss, e)
         /\ Cells(c, bs[n]) /\ ContextAt(s, os[n], bs[n].outer_loop, bs[n].outer_depth)
         /\ Extends(c, s, d, ss)
<1>1. /\ Nest(s, os) /\ Len(os) = Len(bs) /\ Placed(c, s)
      /\ \A k \in 1 .. Len(bs) : BlockOf(c, s, os[k], bs[k])
  BY DEF ReadIn, Shape
<1>2. Deep(os, n) BY <1>1 DEF Deep
<1>3. e = Len(s) + 1 BY DEF Behind
<1>4. t \in Token /\ Grown(s, t, ss) BY DEF Moves
<1>5. PICK us : Popped(os, us) BY DEF Popped
<1>6. PICK h : Under(n, h) BY DEF Under
<1>7. /\ n \in 1 .. Len(os) /\ os[n] \in 1 .. Len(s)
      /\ Closer(ss, os[n], e) /\ ~ContinuedIn(ss, e)
      /\ NextAt(d, ss, e) = Len(d) + 1
  BY ONLY <1>1, <1>2, <1>4, <1>5, <1>6, Nest(s, os), t \in Token, Grown(s, t, ss), Behind(s, e),
          ClosingTok(t), Deep(os, n), Under(n, h), Popped(os, us), CloseFacts
<1>8. /\ Extends(c, s, d, ss) /\ Len(ss) = e /\ ss[e] = t /\ e \in 1 .. Len(ss)
  BY ONLY <1>1, <1>3, Moves(c, s, d, t, ss), Kept(c, d, P), Spare(c, P), MovesFacts
<1>9. /\ os[n] \in 1 .. Len(ss) /\ ss[os[n]] = s[os[n]] /\ s[os[n]] \in Token
  BY ONLY <1>7, <1>8, ExtendsFacts
<1>10. BlockOf(c, s, os[n], bs[n]) BY ONLY <1>1, <1>7
<1> QED BY ONLY <1>7, <1>8, <1>9, <1>10 DEF Ending, BlockOf

LEMMA LoopEnds ==
  ASSUME NEW c, NEW s, NEW o, NEW b, NEW d, NEW t, NEW ss, NEW e,
         Ending(c, s, o, b, d, t, ss, e), b.kind \in LoopWords, NEW g, Behind(d, g),
         CellAt(d, b.pos, Ins(HeadOp(b.kind), g)), CellAt(d, t.at, LoopJump(b))
  PROVE  Done(d, ss, o)
<1>1. /\ ss[o].tok = b.kind /\ b.pos = ss[o].at + 1 /\ b.top = LoopTop(ss[o])
  BY DEF Ending, Slot, LoopWords, LoopTop
<1>2. /\ HeadOp(b.kind) = LoopHead(ss[o]) /\ LoopJump(b) = Ins(LoopBack(ss[o]), LoopTop(ss[o]))
  BY <1>1 DEF HeadOp, LoopHead, LoopJump, LoopBack, LoopWords
<1>3. NextAt(d, ss, e) = g BY DEF Ending, Behind
<1>4. e \in 1 .. Len(ss) /\ Exit(ss, o, e) /\ ss[e] = t BY DEF Ending, Exit
<1>5. /\ CellAt(d, ss[o].at + 1, Ins(LoopHead(ss[o]), NextAt(d, ss, e)))
      /\ CellAt(d, ss[e].at, Ins(LoopBack(ss[o]), LoopTop(ss[o])))
  BY <1>1, <1>2, <1>3, <1>4
<1>6. LoopDone(d, ss, o) BY ONLY <1>4, <1>5 DEF LoopDone
<1> QED BY ONLY <1>1, <1>6, b.kind \in LoopWords DEF Done, LoopWords

LEMMA CondEnds ==
  ASSUME NEW c, NEW s, NEW o, NEW b, NEW d, NEW t, NEW ss, NEW e,
         Ending(c, s, o, b, d, t, ss, e), b.kind = "if", NEW g, Behind(d, g), g \in Nat,
         CellAt(d, b.pos, Ins(HeadOp(b.kind), g))
  PROVE  Done(d, ss, o)
<1>1. ss[o].tok \in {"if", "elseif"} /\ b.pos = CondAt(ss[o])
  BY DEF Ending, Slot, CondAt
<1>2. HeadOp(b.kind) = "IF" BY DEF HeadOp
<1>3. /\ NextAt(d, ss, e) = g /\ ~ContinuedIn(ss, e) BY DEF Ending, Behind
<1>4. NextAt(d, ss, e) + (IF ContinuedIn(ss, e) THEN 1 ELSE 0) = g
  BY ONLY <1>3, g \in Nat
<1>5. e \in 1 .. Len(ss) /\ Closer(ss, o, e) BY DEF Ending
<1>6. CellAt(d, CondAt(ss[o]), Ins("IF", NextAt(d, ss, e) + (IF ContinuedIn(ss, e) THEN 1 ELSE 0)))
  BY <1>1, <1>2, <1>4
<1>7. CondDone(d, ss, o) BY ONLY <1>5, <1>6 DEF CondDone
<1> QED BY ONLY <1>1, <1>7 DEF Done, LoopWords

LEMMA BareEnds ==
  ASSUME NEW c, NEW s, NEW o, NEW b, NEW d, NEW t, NEW ss, NEW e,
         Ending(c, s, o, b, d, t, ss, e), b.kind \in {"else", "entries", "case"}
  PROVE  Done(d, ss, o)
<1>1. ss[o].tok \in {"else", "entries", "case"} BY DEF Ending, Slot
<1> QED BY ONLY <1>1 DEF Done, LoopWords

LEMMA FuncEnds ==
  ASSUME NEW c, NEW s, NEW o, NEW b, NEW d, NEW t, NEW ss, NEW e,
         Ending(c, s, o, b, d, t, ss, e), b.kind = "func", NEW g, Behind(d, g),
         CellAt(d, b.pos, Ins("GOTO", g)), CellAt(d, t.at, Ins("LEAVE", 0)),
         b.pos + 1 \in 1 .. Len(d), d[b.pos + 1].op = "ENTER"
  PROVE  Done(d, ss, o)
<1>1. ss[o].tok = "func" /\ b.pos = ss[o].at BY DEF Ending, Slot
<1>2. NextAt(d, ss, e) = g BY DEF Ending, Behind
<1>3. e \in 1 .. Len(ss) /\ Exit(ss, o, e) /\ ss[e] = t BY DEF Ending, Exit
<1>4. FuncDone(d, ss, o)
  <2>1. /\ CellAt(d, ss[o].at, Ins("GOTO", NextAt(d, ss, e)))
        /\ ss[o].at + 1 \in 1 .. Len(d) /\ d[ss[o].at + 1].op = "ENTER"
        /\ CellAt(d, ss[e].at, Ins("LEAVE", 0))
    BY <1>1, <1>2, <1>3
  <2> QED BY ONLY <1>3, <2>1 DEF FuncDone
<1> QED BY ONLY <1>1, <1>4 DEF Done, LoopWords

(* A return, where fd for loops are open.                                  *)
LEMMA ReturnEnds ==
  ASSUME NEW s, NEW ss, Begins(s, ss), NEW e, Behind(s, e), NEW lt, NEW fd,
         ContextAt(s, e, lt, fd), ss[e].tok = "return", NEW d, NEW p, ss[e].at = p,
         fd > 0 => CellAt(d, p, InsN("FOR_LEAVE", 0, fd)),
         CellAt(d, p + (IF fd > 0 THEN 1 ELSE 0), Ins("LEAVE", 0))
  PROVE  Done(d, ss, e)
<1>1. e \in Int /\ e <= Len(s) + 1 BY LenProperties DEF Begins, Behind
<1>2. SameAround(s, e, ss, e) BY ONLY <1>1, Begins(s, ss), EarlierContext
<1>3. LoopsIn(ss, e, {"for"}) = LoopsIn(s, e, {"for"})
  BY ONLY <1>1, <1>2, Begins(s, ss), SameContext
<1>4. fd = Cardinality(LoopsIn(ss, e, {"for"})) BY <1>3 DEF ContextAt
<1>5. ReturnDone(d, ss, e) BY <1>4 DEF ReturnDone
<1> QED BY ONLY <1>5, ss[e].tok = "return" DEF Done, LoopWords

(* The table of a dispatch: its m entries begin at h, and lead to g where  *)
(* there is no case.                                                       *)
EntryOr(b, v, g) == IF b.case_addrs[v] # 0 THEN b.case_addrs[v] ELSE g
TableAt(d, b, h, m, g) ==
  /\ CellAt(d, b.pos, InsN("DISPATCH_JMP", h, m))
  /\ \A v \in 0 .. m - 1 : CellAt(d, h + v, Ins("ADDR", EntryOr(b, v, g)))
  /\ \A p \in b.gotos : CellAt(d, p, Ins("GOTO", g))
CountOf(b, m) ==
  /\ m \in 0 .. MaxCases
  /\ \E v \in 0 .. MaxCases - 1 : b.case_addrs[v] # 0 /\ m = v + 1
  /\ \A v \in 0 .. MaxCases - 1 : b.case_addrs[v] # 0 => v + 1 <= m

LEMMA DispatchEnds ==
  ASSUME NEW c, NEW s, NEW os, NEW bs, NEW bp, ReadIn(c, s, os, bs, bp),
         NEW d, NEW t, NEW ss, Moves(c, s, d, t, ss), ClosingTok(t), NEW e, Behind(s, e),
         NEW P, Kept(c, d, P), Spare(c, P), NEW n, Deep(bs, n), bs[n].kind = "dispatch",
         NEW g, Behind(d, g), NEW h, h # 0, NEW m, TableAt(d, bs[n], h, m, g), CountOf(bs[n], m)
  PROVE  Done(d, ss, os[n])
<1>1. PICK o : o = os[n] OBVIOUS
<1>2. PICK b : b = bs[n] OBVIOUS
<1>3. Ending(c, s, o, b, d, t, ss, e) /\ Extends(c, s, d, ss)
  BY ONLY <1>1, <1>2, ReadIn(c, s, os, bs, bp), Moves(c, s, d, t, ss), ClosingTok(t), Behind(s, e),
          Kept(c, d, P), Spare(c, P), Deep(bs, n), EndingIs
<1>4. /\ Nest(s, os) /\ Len(os) = Len(bs) /\ Placed(c, s) /\ CasesAt(s, os, bs, n)
      /\ n \in 1 .. Len(os) /\ n \in 1 .. Len(bs)
  <2>1. /\ Nest(s, os) /\ Len(os) = Len(bs) /\ Placed(c, s) /\ Cases(s, os, bs)
    BY DEF ReadIn, Shape
  <2>2. Len(os) \in Nat BY ONLY <2>1, NestFacts
  <2>3. n \in 1 .. Len(bs) BY <2>1, <2>2 DEF Deep
  <2> QED BY <2>1, <2>3 DEF Cases
<1>5. /\ s \in Seq(Token) /\ Len(s) \in Nat /\ Len(os) \in Nat /\ LevelIn(s, o) = n
      /\ o \in 1 .. Len(s) /\ \A k \in 1 .. Len(os) : LevelIn(s, os[k]) = k
  BY ONLY <1>1, <1>4, NestFacts
<1>6. /\ Begins(s, ss) /\ \A k \in 1 .. Len(s) : ss[k] = s[k] /\ s[k].at \in Nat /\ s[k].at # 0
      /\ \A k \in 1 .. Len(s) : k \in 1 .. Len(ss)
  BY ONLY <1>3, ExtendsFacts
<1>7. PICK K : K = CasesIn(s, o, Len(s) + 1) OBVIOUS
<1>8. CasesIn(ss, o, e) = K
  <2>1. e \in Int /\ e <= Len(s) + 1 BY <1>5 DEF Behind
  <2>2. CasesIn(ss, o, e) = CasesIn(s, o, e) BY ONLY <1>5, <1>6, <2>1, CasesSame
  <2> QED BY <2>2, <1>7 DEF Behind
<1>9. \A k \in K : /\ k \in 1 .. Len(s) /\ s[k].val \in 0 .. MaxCases - 1
                   /\ b.case_addrs[s[k].val] = s[k].at /\ ~IsOpen(os, k)
                   /\ \E x \in 1 .. Len(s) : Closer(s, k, x) /\ s[x].at \in b.gotos
  <2> TAKE k \in K
  <2>1. k \in 1 .. Len(s) BY ONLY <1>5, <1>7, CasesAreSet
  <2>2. CaseIn(s, os, bs, n, k) BY <1>1, <1>4, <1>7 DEF CasesAt
  <2>3. LevelIn(s, k) = LevelIn(s, o) + 1 BY <1>7 DEF CasesIn
  <2>4. ~IsOpen(os, k)
    <3> SUFFICES ASSUME NEW j \in 1 .. Len(os), os[j] = k PROVE FALSE BY DEF IsOpen
    <3>1. LevelIn(s, k) = j /\ LevelIn(s, k) = n + 1 BY <1>5, <2>3
    <3>2. Len(os) = n BY <1>4 DEF Deep
    <3> QED BY ONLY <3>1, <3>2, j \in 1 .. Len(os), <1>5
  <2> QED BY <1>2, <2>1, <2>2, <2>4 DEF CaseIn
<1>10. \A v \in 0 .. MaxCases - 1 : b.case_addrs[v] # 0 => \E k \in K : s[k].val = v
  BY <1>1, <1>2, <1>4, <1>7 DEF CasesAt
<1>11. IsCount(ss, K, m)
  <2>1. \E k \in K : m = ss[k].val + 1
    <3>1. PICK v \in 0 .. MaxCases - 1 : b.case_addrs[v] # 0 /\ m = v + 1
      BY <1>2 DEF CountOf
    <3>2. PICK k \in K : s[k].val = v BY <1>10, <3>1
    <3> QED BY <1>6, <1>9, <3>1, <3>2
  <2>2. \A k \in K : ss[k].val + 1 <= m
    <3> TAKE k \in K
    <3>1. s[k].val \in 0 .. MaxCases - 1 /\ b.case_addrs[s[k].val] # 0 /\ ss[k] = s[k]
      BY <1>6, <1>9
    <3> QED BY <1>2, <3>1 DEF CountOf
  <2> QED BY <2>1, <2>2 DEF IsCount
<1>12. NextAt(d, ss, e) = g BY <1>3 DEF Ending, Behind
<1>13. TableIn(d, ss, o, e, h, m)
  <2> SUFFICES ASSUME NEW v \in 0 .. m - 1
               PROVE  CellAt(d, h + v, Ins("ADDR", BodyIn(d, ss, o, e, v)))
    BY DEF TableIn
  <2>1. v \in 0 .. MaxCases - 1
    <3>1. m \in 0 .. MaxCases BY DEF CountOf
    <3> QED BY ONLY <3>1, v \in 0 .. m - 1, CodeGenAssumption
  <2>2. PICK L : L = CasesOfVal(ss, o, e, v) OBVIOUS
  <2>3. \A k : k \in L <=> k \in K /\ s[k].val = v
    <3>1. \A k : k \in L <=> k \in K /\ ss[k].val = v BY <1>8, <2>2 DEF CasesOfVal
    <3> QED BY <3>1, <1>6, <1>9
  <2>4. BodyIn(d, ss, o, e, v) = EntryOr(b, v, g)
    <3>1. CASE L = {}
      <4>1. b.case_addrs[v] = 0 BY <1>10, <2>1, <2>3, <3>1
      <4> QED BY <1>12, <2>2, <3>1, <4>1 DEF BodyIn, EntryOr
    <3>2. CASE L # {}
      <4>1. L \subseteq 0 .. Len(s) BY <1>5, <1>9, <2>3
      <4>2. Max(L) \in L BY ONLY <1>5, <3>2, <4>1, Greatest
      <4>3. PICK x : x = Max(L) OBVIOUS
      <4>4. x \in K /\ s[x].val = v BY <2>3, <4>2, <4>3
      <4>5. b.case_addrs[v] = ss[x].at /\ ss[x].at # 0 BY <1>6, <1>9, <4>4
      <4> QED BY <2>2, <3>2, <4>3, <4>5 DEF BodyIn, EntryOr
    <3> QED BY <3>1, <3>2
  <2>5. CellAt(d, h + v, Ins("ADDR", EntryOr(b, v, g))) BY <1>2 DEF TableAt
  <2> QED BY <2>4, <2>5
<1>14. \A k \in K : \E x \in 1 .. Len(ss) :
         Closer(ss, k, x) /\ CellAt(d, ss[x].at, Ins("GOTO", NextAt(d, ss, e)))
  <2> TAKE k \in K
  <2>1. PICK x \in 1 .. Len(s) : Closer(s, k, x) /\ s[x].at \in b.gotos BY <1>9
  <2>2. k \in 1 .. Len(s) BY <1>9
  <2>3. Closer(ss, k, x) BY ONLY <1>3, <2>1, <2>2, CloserStays
  <2>4. CellAt(d, s[x].at, Ins("GOTO", g)) BY <1>2, <2>1 DEF TableAt
  <2>5. ss[x] = s[x] /\ x \in 1 .. Len(ss) BY <1>6, <2>1
  <2> QED BY <1>12, <2>3, <2>4, <2>5
<1>15. /\ e \in 1 .. Len(ss) /\ Exit(ss, o, e) /\ ss[o].tok = "dispatch" /\ b.pos = ss[o].at
  <2>1. b.kind = "dispatch" BY <1>2
  <2> QED BY <1>3, <2>1 DEF Ending, Exit, Slot
<1>16. /\ ss[o].at \in 1 .. Len(d) /\ d[ss[o].at].op = "DISPATCH_JMP"
       /\ d[ss[o].at].to = h /\ d[ss[o].at].n = m
  <2>1. CellAt(d, b.pos, InsN("DISPATCH_JMP", h, m)) BY <1>2 DEF TableAt
  <2> QED BY <1>15, <2>1 DEF CellAt, InsN
<1>17. DispatchDone(d, ss, o)
  BY ONLY <1>8, <1>11, <1>13, <1>14, <1>15, <1>16, h # 0 DEF DispatchDone
<1>18. Done(d, ss, o) BY ONLY <1>15, <1>17 DEF Done, LoopWords
<1> QED BY <1>18, <1>1

-----------------------------------------------------------------------------
(* The cells that a step writes, and those that it leaves as they are.     *)
LEMMA LongerKept ==
  ASSUME NEW c, Whole(c), NEW t \in Seq(Instr), NEW d, Longer(c, t, d)
  PROVE  /\ Kept(c, d, NoCell) /\ Len(c) \in Nat /\ Len(t) \in Nat
         /\ Len(d) = Len(c) + Len(t)
         /\ \A i \in 1 .. Len(t) : d[Len(c) + i] = t[i]
<1>1. d = c \o t BY DEF Longer
<1>2. PICK l : l = Len(c) OBVIOUS
<1>3. PICK e : e = Len(t) OBVIOUS
<1>4. c \in Seq(Instr) /\ l \in Nat /\ e \in Nat
  BY <1>2, <1>3, LenProperties DEF Whole, IsCode
<1>5. Len(d) = l + e
  BY <1>1, <1>2, <1>3, <1>4, ConcatProperties
<1>6. \A i \in 1 .. l + e : d[i] = IF i <= l THEN c[i] ELSE t[i - l]
  BY <1>1, <1>2, <1>3, <1>4, ConcatProperties
<1>7. \A i \in 1 .. l : d[i] = c[i]
  <2>1. \A i \in 1 .. l : i \in 1 .. l + e /\ i <= l BY ONLY <1>4
  <2> QED BY ONLY <2>1, <1>6
<1>8. \A i \in 1 .. e : d[l + i] = t[i]
  <2> TAKE i \in 1 .. e
  <2>1. l + i \in 1 .. l + e /\ ~(l + i <= l) /\ (l + i) - l = i BY ONLY <1>4, i \in 1 .. e
  <2> QED BY ONLY <1>6, <2>1
<1>9. l <= l + e BY ONLY <1>4
<1>10. Kept(c, d, NoCell) BY <1>2, <1>5, <1>7, <1>9 DEF Kept
<1> QED BY <1>2, <1>3, <1>4, <1>5, <1>8, <1>10

LEMMA OneMoreKept ==
  ASSUME NEW c, Whole(c), NEW a \in Instr, NEW d, Added(c, a, d), NEW p, Behind(c, p)
  PROVE  Kept(c, d, NoCell) /\ CellAt(d, p, a) /\ Len(d) = p
<1>1. Append(c, a) = c \o <<a>> BY AppendIsConcat DEF Whole, IsCode
<1>2. PICK t : t = <<a>> OBVIOUS
<1>3. t \in Seq(Instr) /\ Len(t) = 1 /\ t[1] = a BY <1>2, Short
<1>4. Longer(c, t, d) BY <1>1, <1>2 DEF Longer, Added
<1>5. /\ Kept(c, d, NoCell) /\ Len(c) \in Nat
      /\ Len(d) = Len(c) + Len(t) /\ \A i \in 1 .. Len(t) : d[Len(c) + i] = t[i]
  BY ONLY <1>3, <1>4, Whole(c), LongerKept
<1>6. 1 \in 1 .. Len(t) BY <1>3
<1>7. d[Len(c) + 1] = a BY ONLY <1>3, <1>5, <1>6
<1>8. p = Len(c) + 1 /\ Len(d) = Len(c) + 1 BY <1>3, <1>5 DEF Behind
<1>9. p \in 1 .. Len(d) BY ONLY <1>5, <1>8
<1> QED BY <1>5, <1>7, <1>8, <1>9 DEF CellAt

LEMMA TwoMoreKept ==
  ASSUME NEW c, Whole(c), NEW a \in Instr, NEW b \in Instr, NEW t, t = <<a, b>>,
         NEW d, Longer(c, t, d), NEW p, Behind(c, p)
  PROVE  Kept(c, d, NoCell) /\ CellAt(d, p, a) /\ CellAt(d, p + 1, b) /\ Len(d) = p + 1
<1>1. t \in Seq(Instr) /\ Len(t) = 2 /\ t[1] = a /\ t[2] = b BY Short
<1>2. /\ Kept(c, d, NoCell) /\ Len(c) \in Nat
      /\ Len(d) = Len(c) + Len(t) /\ \A i \in 1 .. Len(t) : d[Len(c) + i] = t[i]
  BY ONLY <1>1, Longer(c, t, d), Whole(c), LongerKept
<1>3. 1 \in 1 .. Len(t) /\ 2 \in 1 .. Len(t) BY <1>1
<1>4. d[Len(c) + 1] = a /\ d[Len(c) + 2] = b BY ONLY <1>1, <1>2, <1>3
<1>5. p = Len(c) + 1 /\ p + 1 = Len(c) + 2 /\ Len(d) = Len(c) + 2 BY <1>1, <1>2 DEF Behind
<1>6. p \in 1 .. Len(d) /\ p + 1 \in 1 .. Len(d) BY ONLY <1>2, <1>5
<1>7. Len(d) = p + 1 BY ONLY <1>5
<1> QED BY <1>2, <1>4, <1>5, <1>6, <1>7 DEF CellAt

LEMMA PatchedKept ==
  ASSUME NEW c, Whole(c), NEW P, NEW to, NEW d, d = Patched(c, P, to)
  PROVE  /\ Kept(c, d, P) /\ Len(d) = Len(c)
         /\ \A p \in P : \A op : CellAt(c, p, Ins(op, 0)) => CellAt(d, p, Ins(op, to))
<1>1. PICK l : l = Len(c) OBVIOUS
<1>2. c \in Seq(Instr) /\ l \in Nat /\ DOMAIN c = 1 .. l
  BY <1>1, LenProperties DEF Whole, IsCode
<1>3. d = [p \in 1 .. l |-> IF p \in P THEN [c[p] EXCEPT !.to = to] ELSE c[p]]
  BY <1>2 DEF Patched
<1>4. Len(d) = l BY ONLY <1>2, <1>3
<1>5. l <= l BY ONLY <1>2
<1>6. \A p \in 1 .. l : p \notin P => d[p] = c[p] BY ONLY <1>3
<1>7. \A p \in 1 .. l : p \in P => d[p] = [c[p] EXCEPT !.to = to] BY ONLY <1>3
<1>8. ASSUME NEW p \in P, NEW op, CellAt(c, p, Ins(op, 0)) PROVE CellAt(d, p, Ins(op, to))
  <2>1. p \in 1 .. l /\ c[p] = Ins(op, 0) BY <1>1, <1>8 DEF CellAt
  <2>2. d[p] = [c[p] EXCEPT !.to = to] BY <1>7, <2>1
  <2>3. d[p] = Ins(op, to) BY <2>1, <2>2 DEF Ins
  <2> QED BY <2>1, <2>3, <1>4 DEF CellAt
<1>9. Kept(c, d, P) BY <1>1, <1>4, <1>5, <1>6 DEF Kept
<1> QED BY <1>1, <1>4, <1>8, <1>9

LEMMA RewrittenKept ==
  ASSUME NEW c, Whole(c), NEW p \in 1 .. Len(c), NEW i \in Instr, NEW d, Rewritten(c, p, i, d),
         NEW P, p \in P
  PROVE  Kept(c, d, P) /\ Len(d) = Len(c) /\ CellAt(d, p, i)
<1>1. d = [c EXCEPT ![p] = i] BY DEF Rewritten
<1>2. PICK l : l = Len(c) OBVIOUS
<1>3. c \in Seq(Instr) /\ l \in Nat
  BY <1>2, LenProperties DEF Whole, IsCode
<1>4. d \in Seq(Instr) /\ Len(d) = l /\ \A q \in 1 .. l : d[q] = IF q = p THEN i ELSE c[q]
  BY <1>1, <1>2, <1>3, ExceptSeq
<1>5. l <= l BY ONLY <1>3
<1>6. Kept(c, d, P) BY <1>2, <1>4, <1>5 DEF Kept
<1>7. CellAt(d, p, i) BY <1>2, <1>4 DEF CellAt
<1> QED BY <1>2, <1>4, <1>6, <1>7

LEMMA KeptThen ==
  ASSUME NEW c, NEW d, NEW e, NEW P, NEW Q, NEW R, Kept(c, d, P), Kept(d, e, Q),
         Len(c) \in Nat, Len(d) \in Nat, Len(e) \in Nat,
         \A p : p \in P \/ p \in Q => p \in R
  PROVE  Kept(c, e, R)
<1>1. Len(c) <= Len(d) /\ Len(d) <= Len(e) BY DEF Kept
<1>2. Len(c) <= Len(e) BY ONLY <1>1, Len(c) \in Nat, Len(d) \in Nat, Len(e) \in Nat
<1>3. \A p \in 1 .. Len(c) : p \in 1 .. Len(d)
  BY ONLY <1>1, Len(c) \in Nat, Len(d) \in Nat
<1> QED BY <1>2, <1>3 DEF Kept

-----------------------------------------------------------------------------
(* Where the compiler is, at token e: the innermost loop, the number of    *)
(* the for loops, and whether it is in a function.                         *)
ContextIn(s, e, lt, fd, inf) == ContextAt(s, e, lt, fd) /\ (inf \/ OutsideIn(s, e))
Enters(w, lt, fd, inf, mt, gd, ing) ==
  \/ w = "for" /\ mt = "for" /\ gd = fd + 1 /\ ing = inf
  \/ w = "while" /\ mt = "while" /\ gd = fd /\ ing = inf
  \/ w = "func" /\ mt = "none" /\ gd = 0 /\ ing = TRUE
  \/ w \notin {"for", "while", "func"} /\ mt = lt /\ gd = fd /\ ing = inf
Leaves(w, lt, fd, inf, ot, od, mt, gd, ing) ==
  \/ w \in LoopWords /\ mt = ot /\ gd = od /\ ing = inf
  \/ w = "func" /\ mt = ot /\ gd = od /\ ing = FALSE
  \/ w \notin {"for", "while", "func"} /\ mt = lt /\ gd = fd /\ ing = inf
FuncWord == {"func"}
TopIs(os, n, o)  == o = os[n]
WordIs(s, o, w)  == w = s[o].tok

LEMMA OutsideSame ==
  ASSUME NEW s, NEW ss, Begins(s, ss), NEW i, NEW j,
         AroundIn(ss, j, FuncWord) = AroundIn(s, i, FuncWord), OutsideIn(s, i)
  PROVE  OutsideIn(ss, j)
<1>1. /\ Len(s) \in Nat /\ Len(ss) \in Nat /\ Len(s) <= Len(ss)
      /\ \A x \in 1 .. Len(s) : ss[x] = s[x]
  BY LenProperties DEF Begins
<1>2. \A x \in 1 .. Len(s) : x \in 1 .. Len(ss) BY ONLY <1>1
<1> QED BY <1>1, <1>2 DEF OutsideIn, FuncWord

LEMMA ContextPlain ==
  ASSUME NEW s, NEW os, Nest(s, os), NEW ss, Nest(ss, os), Begins(s, ss),
         NEW e, Behind(s, e), NEW f, Behind(ss, f), NEW lt, NEW fd, NEW inf,
         ContextIn(s, e, lt, fd, inf)
  PROVE  ContextIn(ss, f, lt, fd, inf)
<1>1. e = Len(s) + 1 /\ f = Len(ss) + 1 BY DEF Behind
<1>2. e \in Int /\ f \in Int BY <1>1, LenProperties DEF Begins
<1>3. \A k : IsOpen(os, k) <=> IsOpen(os, k) OBVIOUS
<1>4. SameAround(s, e, ss, f) BY ONLY <1>1, <1>3, Nest(s, os), Nest(ss, os), PlainAround
<1>5. ContextAt(ss, f, lt, fd)
  <2>1. ContextAt(s, e, lt, fd) BY DEF ContextIn
  <2> QED BY ONLY <1>2, <1>4, <2>1, Begins(s, ss), SameContext
<1>6. AroundIn(ss, f, FuncWord) = AroundIn(s, e, FuncWord)
  <2>1. FuncWord \in SUBSET Openers BY DEF FuncWord, Openers
  <2> QED BY ONLY <1>2, <1>4, <2>1, Begins(s, ss), SameAroundAll
<1>7. OutsideIn(s, e) => OutsideIn(ss, f) BY ONLY <1>6, Begins(s, ss), OutsideSame
<1> QED BY <1>5, <1>7 DEF ContextIn

LEMMA ContextOpen ==
  ASSUME NEW s, NEW os, Nest(s, os), NEW ss, NEW us, Nest(ss, us), Begins(s, ss),
         NEW e, Behind(s, e), NEW f, Behind(ss, f), Len(ss) = e,
         NEW n, Behind(os, n), Len(us) = n, us[n] = e, \A k \in 1 .. Len(os) : us[k] = os[k],
         NEW lt, NEW fd, NEW inf, ContextIn(s, e, lt, fd, inf),
         NEW mt, NEW gd, NEW ing, Enters(ss[e].tok, lt, fd, inf, mt, gd, ing)
  PROVE  ContextIn(ss, f, mt, gd, ing)
<1>1. e = Len(s) + 1 /\ f = Len(ss) + 1 /\ Len(us) = Len(os) + 1 /\ us[Len(os) + 1] = e
  BY DEF Behind
<1>2. e \in Int /\ f \in Int BY <1>1, LenProperties DEF Begins
<1>3. OneAround(s, e, ss, f, e)
  BY ONLY <1>1, Len(ss) = e, \A k \in 1 .. Len(os) : us[k] = os[k],
          Nest(s, os), Nest(ss, us), OpenAround
<1>4. ContextAt(s, e, lt, fd) /\ (inf \/ OutsideIn(s, e)) BY DEF ContextIn
<1>5. ContextAt(ss, f, mt, gd)
  <2>1. CASE ss[e].tok \in LoopWords
    <3>1. /\ ss[e].tok = "for"   => ContextAt(ss, f, "for", fd + 1)
          /\ ss[e].tok = "while" => ContextAt(ss, f, "while", fd)
      BY ONLY <1>2, <1>3, <1>4, <2>1, Begins(s, ss), LoopContext
    <3> QED BY <2>1, <3>1 DEF Enters, LoopWords
  <2>2. CASE ss[e].tok = "func"
    <3>1. ContextAt(ss, f, "none", 0)
      BY ONLY <1>2, <1>3, <2>2, Begins(s, ss), FuncContext
    <3> QED BY <2>2, <3>1 DEF Enters
  <2>3. CASE ss[e].tok \notin {"for", "while", "func"}
    <3>1. ContextAt(ss, f, lt, fd)
      BY ONLY <1>2, <1>3, <1>4, <2>3, Begins(s, ss), OtherContext
    <3> QED BY <2>3, <3>1 DEF Enters
  <2> QED BY <2>1, <2>2, <2>3 DEF LoopWords
<1>6. ing \/ OutsideIn(ss, f)
  <2>1. CASE ss[e].tok = "func" BY <2>1 DEF Enters
  <2>2. CASE ss[e].tok # "func"
    <3>1. FuncWord \in SUBSET Openers BY DEF FuncWord, Openers
    <3>2. AroundIn(ss, f, FuncWord) = Plus(AroundIn(s, e, FuncWord), e, ss[e].tok \in FuncWord)
      BY ONLY <1>2, <1>3, <3>1, Begins(s, ss), OneAroundSome
    <3>3. AroundIn(ss, f, FuncWord) = AroundIn(s, e, FuncWord)
      BY <2>2, <3>2 DEF Plus, FuncWord
    <3>4. OutsideIn(s, e) => OutsideIn(ss, f) BY ONLY <3>3, Begins(s, ss), OutsideSame
    <3>5. ing = inf BY <2>2 DEF Enters
    <3> QED BY <1>4, <3>4, <3>5
  <2> QED BY <2>1, <2>2
<1> QED BY <1>5, <1>6 DEF ContextIn

LEMMA ContextClose ==
  ASSUME NEW s, NEW os, Nest(s, os), NEW ss, NEW us, Nest(ss, us), Begins(s, ss),
         NEW e, Behind(s, e), NEW f, Behind(ss, f), NEW n, Deep(os, n), NEW h, Under(n, h),
         Len(us) = h, \A k \in 1 .. h : us[k] = os[k],
         NEW lt, NEW fd, NEW inf, ContextIn(s, e, lt, fd, inf),
         NEW a, TopIs(os, n, a), NEW w, WordIs(s, a, w),
         NEW ot, NEW od, ContextAt(s, a, ot, od),
         NEW mt, NEW gd, NEW ing, Leaves(w, lt, fd, inf, ot, od, mt, gd, ing)
  PROVE  ContextIn(ss, f, mt, gd, ing)
<1>1. e = Len(s) + 1 /\ f = Len(ss) + 1 BY DEF Behind
<1>2. n = Len(os) /\ n > 0 /\ Len(us) = n - 1 /\ \A k \in 1 .. n - 1 : us[k] = os[k]
  BY DEF Deep, Under
<1>3. e \in Int /\ f \in Int /\ Len(s) \in Nat BY <1>1, LenProperties DEF Begins
<1>4. SameAround(s, os[n], ss, f)
  BY ONLY <1>1, <1>2, Nest(s, os), Nest(ss, us), CloseAround
<1>5. OneAround(s, os[n], s, e, os[n])
  BY ONLY <1>1, <1>2, Nest(s, os), TopAround
<1>6. os[n] \in 1 .. Len(s)
  <2>1. Len(os) \in Nat /\ \A k \in 1 .. Len(os) : os[k] \in 1 .. Len(s)
    BY ONLY Nest(s, os), NestFacts
  <2>2. n \in 1 .. Len(os) BY <1>2, <2>1
  <2> QED BY <2>1, <2>2
<1>7. os[n] \in Int /\ Begins(s, s)
  <2>1. s \in Seq(Token) BY DEF Begins
  <2>2. Len(s) <= Len(s) BY ONLY <1>3
  <2> QED BY <1>6, <2>1, <2>2 DEF Begins
<1>8. PICK o \in Int : o = os[n] /\ o = a /\ w = s[o].tok BY <1>7 DEF TopIs, WordIs
<1>9. SameAround(s, o, ss, f) /\ OneAround(s, o, s, e, o) /\ ContextAt(s, o, ot, od)
  BY <1>4, <1>5, <1>8
<1>10. ContextAt(s, e, lt, fd) /\ (inf \/ OutsideIn(s, e)) BY DEF ContextIn
<1>11. ContextAt(ss, f, mt, gd)
  <2>1. CASE s[o].tok \in {"for", "while", "func"}
    <3>1. ContextAt(ss, f, ot, od)
      BY ONLY <1>3, <1>8, <1>9, Begins(s, ss), SameContext
    <3> QED BY <1>8, <2>1, <3>1 DEF Leaves
  <2>2. CASE s[o].tok \notin {"for", "while", "func"}
    <3>1. ContextAt(s, o, lt, fd)
      BY ONLY <1>3, <1>8, <1>9, <1>7, <1>10, <2>2, OtherContext
    <3>2. ContextAt(ss, f, lt, fd)
      BY ONLY <1>3, <1>8, <1>9, <3>1, Begins(s, ss), SameContext
    <3> QED BY <1>8, <2>2, <3>2 DEF Leaves, LoopWords
  <2> QED BY <2>1, <2>2
<1>12. FuncWord \in SUBSET Openers BY DEF FuncWord, Openers
<1>13. AroundIn(ss, f, FuncWord) = AroundIn(s, o, FuncWord)
  BY ONLY <1>3, <1>8, <1>9, <1>12, Begins(s, ss), SameAroundAll
<1>14. ing \/ OutsideIn(ss, f)
  <2>1. CASE s[o].tok = "func"
    <3>1. PICK A : A = AroundIn(s, o, FuncWord) OBVIOUS
    <3>2. A \subseteq 1 .. Len(s) /\ \A k \in A : k < o
      <4>1. s \in Seq(Token) BY DEF Begins
      <4> QED BY ONLY <3>1, <4>1, <1>8, AroundIsSet
    <3>3. Innermost(A) = 0 \/ (Innermost(A) < o /\ o \notin A)
      <4>1. A # {} => Innermost(A) \in A BY ONLY <1>3, <3>2, InnermostIn
      <4>2. A = {} => Innermost(A) = 0 BY ONLY <1>3, <3>2, InnermostIn
      <4>3. o \notin A BY ONLY <3>2, <1>8
      <4> QED BY ONLY <4>1, <4>2, <4>3, <3>2
    <3>4. o \in 1 .. Len(ss) /\ ss[o] = s[o]
      <4>1. Len(s) <= Len(ss) /\ Len(ss) \in Nat /\ \A x \in 1 .. Len(s) : ss[x] = s[x]
        BY LenProperties DEF Begins
      <4> QED BY <1>3, <1>6, <1>8, <4>1
    <3> QED BY <1>13, <2>1, <3>1, <3>3, <3>4 DEF OutsideIn, FuncWord
  <2>2. CASE s[o].tok # "func"
    <3>1. AroundIn(s, e, FuncWord) = Plus(AroundIn(s, o, FuncWord), o, s[o].tok \in FuncWord)
      BY ONLY <1>3, <1>7, <1>8, <1>9, <1>12, OneAroundSome
    <3>2. AroundIn(ss, f, FuncWord) = AroundIn(s, e, FuncWord)
      BY <1>13, <2>2, <3>1 DEF Plus, FuncWord
    <3>3. OutsideIn(s, e) => OutsideIn(ss, f) BY ONLY <3>2, Begins(s, ss), OutsideSame
    <3>4. ing = inf BY <1>8, <2>2 DEF Leaves, LoopWords
    <3> QED BY <1>10, <3>3, <3>4
  <2> QED BY <2>1, <2>2
<1> QED BY <1>11, <1>14 DEF ContextIn

-----------------------------------------------------------------------------
(* The calls that wait.                                                    *)
LabelsStay(lab, nlab) == \A f \in Funcs : lab[f] # 0 => nlab[f] = lab[f]
LEMMA NoteStays ==
  ASSUME NEW c, NEW s, NEW lab, NEW x \in Note, NoteIn(c, s, lab, x),
         NEW d, NEW P, Kept(c, d, P), Spare(c, P), Len(c) \in Nat, Len(d) \in Nat,
         NEW ss, Begins(s, ss), NEW nlab, LabelsStay(lab, nlab)
  PROVE  NoteIn(d, ss, nlab, x)
<1>1. /\ x.pos \in 1 .. Len(c) /\ c[x.pos].op \in {"GOSUB", "ADDR"}
      /\ c[x.pos].to \in {0, lab[x.fn]}
  BY DEF NoteIn
<1>2. x.pos \notin P BY <1>1 DEF Spare, Jumps
<1>3. x.pos \in 1 .. Len(d) /\ d[x.pos] = c[x.pos]
  <2>1. Len(c) <= Len(d) /\ d[x.pos] = c[x.pos] BY <1>1, <1>2 DEF Kept
  <2> QED BY ONLY <1>1, <2>1, Len(c) \in Nat, Len(d) \in Nat
<1>4. lab[x.fn] # 0 => nlab[x.fn] = lab[x.fn]
  <2>1. x.fn \in Funcs BY DEF Note
  <2> QED BY <2>1 DEF LabelsStay
<1>5. c[x.pos].to \in {0, nlab[x.fn]} BY <1>1, <1>4
<1>6. /\ Len(s) \in Nat /\ Len(ss) \in Nat /\ Len(s) <= Len(ss)
      /\ \A i \in 1 .. Len(s) : ss[i] = s[i]
  BY LenProperties DEF Begins
<1>7. PICK i \in 1 .. Len(s) :
        /\ s[i].at = x.pos /\ s[i].fn = x.fn
        /\ \/ s[i].tok = "entry"
           \/ s[i].tok = "call" /\ \A j \in 1 .. Len(s) :
                s[j].tok = "func" /\ s[j].fn = x.fn => j > i
  BY DEF NoteIn
<1>8. i \in 1 .. Len(ss) /\ ss[i] = s[i] BY ONLY <1>6, i \in 1 .. Len(s)
<1>9. ss[i].tok = "entry" \/ (ss[i].tok = "call" /\ \A j \in 1 .. Len(ss) :
        ss[j].tok = "func" /\ ss[j].fn = x.fn => j > i)
  <2>1. CASE s[i].tok = "entry" BY <1>8, <2>1
  <2>2. CASE s[i].tok = "call" /\ \A j \in 1 .. Len(s) :
               s[j].tok = "func" /\ s[j].fn = x.fn => j > i
    <3>1. ASSUME NEW j \in 1 .. Len(ss), ss[j].tok = "func", ss[j].fn = x.fn PROVE j > i
      <4>1. CASE j \in 1 .. Len(s) BY <1>6, <2>2, <3>1, <4>1
      <4>2. CASE j \notin 1 .. Len(s)
        BY ONLY <1>6, <4>2, i \in 1 .. Len(s), j \in 1 .. Len(ss)
      <4> QED BY <4>1, <4>2
    <3> QED BY <1>8, <2>2, <3>1
  <2> QED BY <1>7, <2>1, <2>2
<1> QED BY <1>1, <1>3, <1>5, <1>7, <1>8, <1>9 DEF NoteIn

LEMMA NotesStay ==
  ASSUME NEW c, NEW s, NEW fd \in Seq(Note), NEW lab, Notes(c, s, fd, lab),
         NEW d, NEW P, Kept(c, d, P), Spare(c, P), Len(c) \in Nat, Len(d) \in Nat,
         NEW ss, Begins(s, ss), NEW nlab, LabelsStay(lab, nlab)
  PROVE  Notes(d, ss, fd, nlab)
<1>1. ASSUME NEW x \in 1 .. Len(fd) PROVE NoteIn(d, ss, nlab, fd[x])
  <2>1. fd[x] \in Note BY ElementOfSeq
  <2>2. NoteIn(c, s, lab, fd[x]) BY DEF Notes
  <2> QED BY ONLY <2>1, <2>2, Kept(c, d, P), Spare(c, P), Len(c) \in Nat, Len(d) \in Nat,
                  Begins(s, ss), LabelsStay(lab, nlab), NoteStays
<1> QED BY <1>1 DEF Notes

(* One call more.                                                          *)
LEMMA NotesMore ==
  ASSUME NEW c, NEW s, NEW fd \in Seq(Note), NEW lab, Notes(c, s, fd, lab),
         NEW d, Kept(c, d, NoCell), Len(c) \in Nat, Len(d) \in Nat,
         NEW ss, Begins(s, ss), NEW x \in Note, x.pos \notin 1 .. Len(c), NoteIn(d, ss, lab, x),
         NEW fe, Added(fd, x, fe)
  PROVE  Notes(d, ss, fe, lab)
<1>1. Spare(c, NoCell) BY NoCells
<1>2. LabelsStay(lab, lab) BY DEF LabelsStay
<1>3. Notes(d, ss, fd, lab)
  BY ONLY <1>1, <1>2, fd \in Seq(Note), Notes(c, s, fd, lab), Kept(c, d, NoCell),
          Len(c) \in Nat, Len(d) \in Nat, Begins(s, ss), NotesStay
<1>4. PICK n \in Nat : n = Len(fd) BY LenProperties
<1>5. /\ Len(fe) = n + 1 /\ \A i \in 1 .. n : fe[i] = fd[i]
      /\ fe[n + 1] = x
  BY <1>4, LastOfAppend DEF Added
<1>6. \A i \in 1 .. n : fe[i].pos \in 1 .. Len(c)
  BY <1>4, <1>5 DEF Notes, NoteIn
<1>7. \A i \in 1 .. Len(fe) : i \in 1 .. n \/ i = n + 1 BY ONLY <1>4, <1>5
<1>8. \A i \in 1 .. Len(fe) : NoteIn(d, ss, lab, fe[i])
  BY <1>3, <1>4, <1>5, <1>7 DEF Notes
<1>9. \A i, j \in 1 .. n : i # j => fe[i].pos # fe[j].pos
  BY <1>3, <1>4, <1>5 DEF Notes
<1>10. \A i, j \in 1 .. Len(fe) : i # j => fe[i].pos # fe[j].pos
  BY ONLY <1>5, <1>6, <1>7, <1>9, x.pos \notin 1 .. Len(c)
<1> QED BY <1>8, <1>10 DEF Notes

-----------------------------------------------------------------------------
(* What the compiler knows of the program that it has read so far.         *)
Reading  == \E os : ReadIn(code, src, os, blocks, break_pos)
Where    == ContextIn(src, Len(src) + 1, loop_type, for_depth, in_func)
Noting   == Notes(code, src, forward_decl, label)
CaseInside(bs) ==
  \A k \in 1 .. Len(bs) : bs[k].kind = "case" => k > 1 /\ bs[k - 1].kind = "dispatch"
Followed == Reading /\ Where /\ Noting /\ CaseInside(blocks)

LEMMA InsideOpen ==
  ASSUME NEW bs \in Seq(Block), CaseInside(bs), NEW b \in Block, NEW cs, Added(bs, b, cs),
         b.kind = "case" => bs # <<>> /\ bs[Len(bs)].kind = "dispatch"
  PROVE  CaseInside(cs)
<1>1. PICK n \in Nat : n = Len(bs) BY LenProperties
<1>2. Len(cs) = n + 1 /\ cs[n + 1] = b /\ \A k \in 1 .. n : cs[k] = bs[k]
  BY <1>1, LastOfAppend DEF Added
<1>3. ASSUME NEW k \in 1 .. Len(cs), cs[k].kind = "case"
      PROVE  k > 1 /\ cs[k - 1].kind = "dispatch"
  <2>1. CASE k \in 1 .. n
    <3>1. k > 1 /\ bs[k - 1].kind = "dispatch" BY <1>1, <1>2, <1>3, <2>1 DEF CaseInside
    <3>2. k - 1 \in 1 .. n BY ONLY <1>1, <2>1, <3>1
    <3> QED BY <1>2, <3>1, <3>2
  <2>2. CASE k \notin 1 .. n
    <3>1. k = n + 1 BY ONLY <1>1, <1>2, <2>2, k \in 1 .. Len(cs)
    <3>2. n # 0
      <4>1. bs # <<>> BY <1>2, <1>3, <3>1
      <4> QED BY <1>1, <4>1, EmptySeq
    <3>3. k > 1 /\ k - 1 = n /\ n \in 1 .. n BY ONLY <1>1, <3>1, <3>2
    <3>4. bs[n].kind = "dispatch" BY <1>1, <1>2, <1>3, <3>1
    <3> QED BY <1>2, <3>3, <3>4
  <2> QED BY <2>1, <2>2
<1> QED BY <1>3 DEF CaseInside

LEMMA InsideStart ==
  ASSUME NEW bs, CaseInside(bs), Len(bs) \in Nat, NEW cs, NEW n \in Nat, Starts(bs, n, cs)
  PROVE  CaseInside(cs)
<1>1. Len(cs) = n /\ n <= Len(bs) /\ \A k \in 1 .. n : cs[k] = bs[k] BY DEF Starts
<1>2. ASSUME NEW k \in 1 .. Len(cs), cs[k].kind = "case"
      PROVE  k > 1 /\ cs[k - 1].kind = "dispatch"
  <2>1. k \in 1 .. n /\ k \in 1 .. Len(bs) BY ONLY <1>1, k \in 1 .. Len(cs), Len(bs) \in Nat, n \in Nat
  <2>2. k > 1 /\ bs[k - 1].kind = "dispatch" BY <1>1, <1>2, <2>1 DEF CaseInside
  <2>3. k - 1 \in 1 .. n BY ONLY <2>1, <2>2, n \in Nat
  <2> QED BY <1>1, <2>2, <2>3
<1> QED BY <1>2 DEF CaseInside

LEMMA OneToken ==
  ASSUME Typed, NEW t \in Token, NEW ts, ts = <<t>>, Reads(ts)
  PROVE  Grown(src, t, src') /\ Going
<1>1. src \in Seq(Token) BY DEF Typed
<1>2. src' = src \o <<t>> BY DEF Reads
<1>3. src' = Append(src, t) BY <1>1, <1>2, AppendIsConcat
<1> QED BY <1>3 DEF Grown, Going, Reads

LEMMA Moving ==
  ASSUME Typed, Typed', NEW t \in Token, Grown(src, t, src'), t.at = Here,
         t.tok \notin {"else", "elseif"}
  PROVE  /\ Moves(code, src, code', t, src') /\ Begins(src, src')
         /\ Len(code) \in Nat /\ Len(code') \in Nat
<1>1. src \in Seq(Token) /\ Whole(code) /\ Whole(code') BY DEF Typed
<1>2. Here = Len(code) + 1 BY DEF Here
<1>3. Len(code) \in Nat /\ Len(code') \in Nat BY <1>1, LenProperties DEF Whole, IsCode
<1>4. PICK e : e = Len(src) + 1 OBVIOUS
<1>5. Begins(src, src') BY ONLY <1>1, <1>4, t \in Token, Grown(src, t, src'), GrownFacts
<1> QED BY <1>1, <1>2, <1>3, <1>5 DEF Moves

LEMMA NotingStays ==
  ASSUME Typed, Typed', Noting, Begins(src, src'), NEW P, Kept(code, code', P), Spare(code, P),
         forward_decl' = forward_decl, LabelsStay(label, label')
  PROVE  Noting'
<1>1. forward_decl \in Seq(Note) /\ Whole(code) /\ Whole(code') BY DEF Typed
<1>2. Len(code) \in Nat /\ Len(code') \in Nat BY <1>1, LenProperties DEF Whole, IsCode
<1>3. Notes(code, src, forward_decl, label) BY DEF Noting
<1>4. Notes(code', src', forward_decl, label')
  BY ONLY <1>1, <1>2, <1>3, Begins(src, src'), Kept(code, code', P), Spare(code, P),
          LabelsStay(label, label'), NotesStay
<1> QED BY <1>4 DEF Noting

LEMMA FollowPlain ==
  ASSUME Reading, Where, NEW t, Moves(code, src, code', t, src'), Kept(code, code', NoCell),
         t.tok \notin Openers, t.tok \notin {"}", "break"}, Begins(src, src'),
         NEW e, Behind(src, e), Done(code', src', e), UNCHANGED <<blocks, context, break_pos>>
  PROVE  Reading' /\ Where'
<1>1. e = Len(src) + 1 BY DEF Behind
<1>2. PICK os : ReadIn(code, src, os, blocks, break_pos) BY DEF Reading
<1>3. ReadIn(code', src', os, blocks, break_pos)
  BY ONLY <1>1, <1>2, Moves(code, src, code', t, src'), Kept(code, code', NoCell),
          t.tok \notin Openers, t.tok \notin {"}", "break"}, Done(code', src', e), PlainRead
<1>4. Reading' BY <1>3 DEF Reading
<1>5. Nest(src, os) /\ Nest(src', os) BY <1>2, <1>3 DEF ReadIn, Shape
<1>6. PICK f : Behind(src', f) BY DEF Behind
<1>7. ContextIn(src, e, loop_type, for_depth, in_func) BY <1>1 DEF Where
<1>8. ContextIn(src', f, loop_type, for_depth, in_func)
  BY ONLY <1>5, <1>6, <1>7, Behind(src, e), Begins(src, src'), ContextPlain
<1>9. Where' BY <1>6, <1>8 DEF Where, Behind, context
<1> QED BY <1>4, <1>9

LEMMA FollowOpen ==
  ASSUME Typed, Reading, Where, NEW t, Moves(code, src, code', t, src'),
         Kept(code, code', NoCell), Begins(src, src'), t.tok \in Openers, t.tok # "case",
         NEW b \in Block, blocks \in Seq(Block), blocks' = Append(blocks, b), Slot(t, b), Cells(code', b),
         b.outer_loop = loop_type, b.outer_depth = for_depth, b.first_break = Len(break_pos),
         b.pos \notin b.ends \cup b.gotos, \A p \in Holes(b) : p > Len(code),
         \A v \in 0 .. MaxCases - 1 : b.case_addrs[v] = 0, break_pos' = break_pos,
         Enters(t.tok, loop_type, for_depth, in_func, loop_type', for_depth', in_func')
  PROVE  Reading' /\ Where'
<1>1. PICK e : e = Len(src) + 1 OBVIOUS
<1>2. PICK os : ReadIn(code, src, os, blocks, break_pos) BY DEF Reading
<1>3. PICK us : Pushed(os, e, us) BY DEF Pushed
<1>4. PICK n : n = Len(blocks) + 1 OBVIOUS
<1>5. break_pos \in Seq(1 .. Len(code)) BY DEF Typed
<1>6. Len(blocks') = n /\ blocks'[n] = b /\ \A k \in 1 .. Len(blocks) : blocks'[k] = blocks[k]
  BY <1>4, LastOfAppend
<1>7. ContextIn(src, e, loop_type, for_depth, in_func) BY <1>1 DEF Where
<1>8. ContextAt(src, e, b.outer_loop, b.outer_depth) BY <1>7 DEF ContextIn
<1>9. ReadIn(code', src', us, blocks', break_pos)
  BY ONLY <1>1, <1>2, <1>3, <1>4, <1>5, <1>6, <1>8, Moves(code, src, code', t, src'),
          Kept(code, code', NoCell), t.tok \in Openers, t.tok # "case", Slot(t, b),
          Cells(code', b), b.first_break = Len(break_pos), b.pos \notin b.ends \cup b.gotos,
          \A p \in Holes(b) : p > Len(code),
          \A v \in 0 .. MaxCases - 1 : b.case_addrs[v] = 0, OpenRead
<1>10. Reading' BY <1>9 DEF Reading
<1>11. Nest(src, os) BY <1>2 DEF ReadIn, Shape
<1>12. PICK m : Behind(os, m) BY DEF Behind
<1>13. Behind(src, e) BY <1>1 DEF Behind
<1>14. /\ Nest(src', us) /\ Len(us) = m /\ us[m] = e /\ Len(src') = e /\ src'[e] = t
       /\ \A k \in 1 .. Len(os) : us[k] = os[k]
  BY ONLY <1>11, <1>3, <1>12, <1>13, Moves(code, src, code', t, src'), t.tok \in Openers,
          PushedFacts
<1>15. PICK f : Behind(src', f) BY DEF Behind
<1>16. Enters(src'[e].tok, loop_type, for_depth, in_func, loop_type', for_depth', in_func')
  BY <1>14
<1>17. ContextIn(src', f, loop_type', for_depth', in_func')
  BY ONLY <1>7, <1>11, <1>12, <1>13, <1>14, <1>15, <1>16, Begins(src, src'), ContextOpen
<1>18. Where' BY <1>15, <1>17 DEF Where, Behind
<1> QED BY <1>10, <1>18

LEMMA FollowClose ==
  ASSUME Typed, NEW os, ReadIn(code, src, os, blocks, break_pos), Where,
         NEW t, Moves(code, src, code', t, src'), ClosingTok(t), Begins(src, src'),
         NEW P, Kept(code, code', P), Spare(code, P), blocks \in Seq(Block),
         NEW n, Deep(blocks, n), NEW b, b = blocks[n], b.kind # "case", blocks' = Front(blocks),
         NEW m, Starts(break_pos, m, break_pos'),
         \A k \in 1 .. Len(blocks) : k # n => Holes(blocks[k]) \cap P = {},
         Done(code', src', os[n]), BranchesEnd(code', b), BreaksEnd(code, code', b, break_pos, P, m),
         Leaves(b.kind, loop_type, for_depth, in_func, b.outer_loop, b.outer_depth,
                loop_type', for_depth', in_func')
  PROVE  Reading' /\ Where'
<1>1. PICK e : Behind(src, e) BY DEF Behind
<1>2. PICK us : Popped(os, us) BY DEF Popped
<1>3. PICK h : Under(n, h) BY DEF Under
<1>4. PICK cs : cs = blocks' OBVIOUS
<1>5. n = Len(blocks) /\ n > 0 /\ h = n - 1 BY <1>3 DEF Deep, Under
<1>6. /\ Len(blocks) \in Nat /\ Len(cs) = Len(blocks) - 1
      /\ \A i \in 1 .. Len(blocks) - 1 : cs[i] = blocks[i]
  <2>1. blocks # <<>> BY <1>5, EmptySeq
  <2> QED BY <1>4, <2>1, FrontOf
<1>7. n \in Nat /\ h \in Nat /\ n \in 1 .. n /\ \A k \in 1 .. h : k # n /\ k \in 1 .. n
  BY ONLY <1>5, <1>6
<1>8. Starts(blocks, h, cs)
  <2>1. Len(cs) = h /\ h <= Len(blocks) BY ONLY <1>5, <1>6
  <2>2. \A k \in 1 .. h : cs[k] = blocks[k] BY ONLY <1>5, <1>6
  <2> QED BY <2>1, <2>2 DEF Starts
<1>9. \A k \in 1 .. h : Holes(blocks[k]) \cap P = {} BY ONLY <1>5, <1>7,
       \A k \in 1 .. Len(blocks) : k # n => Holes(blocks[k]) \cap P = {}
<1>10. /\ blocks[n].kind # "case" /\ BranchesEnd(code', blocks[n])
       /\ BreaksEnd(code, code', blocks[n], break_pos, P, m)
  OBVIOUS
<1>11. ReadIn(code', src', us, cs, break_pos')
  BY ONLY <1>1, <1>2, <1>3, <1>8, <1>9, <1>10, ReadIn(code, src, os, blocks, break_pos),
          Moves(code, src, code', t, src'), ClosingTok(t), Kept(code, code', P),
          Spare(code, P), Deep(blocks, n), Starts(break_pos, m, break_pos'),
          Done(code', src', os[n]), CloseRead
<1>12. Reading' BY <1>4, <1>11 DEF Reading
<1>13. Nest(src, os) /\ Len(os) = Len(blocks) /\ BlockOf(code, src, os[n], b)
  BY <1>5, <1>7 DEF ReadIn, Shape
<1>14. Deep(os, n) BY <1>13 DEF Deep
<1>15. t \in Token /\ Grown(src, t, src') BY DEF Moves
<1>16. Nest(src', us) /\ Len(us) = h /\ \A k \in 1 .. h : us[k] = os[k]
  BY ONLY <1>1, <1>2, <1>3, <1>13, <1>14, <1>15, ClosingTok(t), CloseFacts
<1>17. PICK f : Behind(src', f) BY DEF Behind
<1>18. ContextIn(src, e, loop_type, for_depth, in_func) BY <1>1 DEF Where, Behind
<1>19. ContextAt(src, os[n], b.outer_loop, b.outer_depth) BY <1>13 DEF BlockOf
<1>20. Leaves(src[os[n]].tok, loop_type, for_depth, in_func, b.outer_loop, b.outer_depth,
              loop_type', for_depth', in_func')
  <2>1. Slot(src[os[n]], b) BY <1>13 DEF BlockOf
  <2> QED BY <2>1 DEF Slot, Leaves, LoopWords
<1>21. ContextIn(src', f, loop_type', for_depth', in_func')
  <2>1. Nest(src, os) BY <1>13
  <2>2. PICK a : TopIs(os, n, a) BY DEF TopIs
  <2>3. PICK w : WordIs(src, a, w) BY DEF WordIs
  <2>4. PICK ot : ot = b.outer_loop OBVIOUS
  <2>5. PICK od : od = b.outer_depth OBVIOUS
  <2>6. ContextAt(src, a, ot, od) BY <1>19, <2>2, <2>4, <2>5 DEF TopIs
  <2>7. Leaves(w, loop_type, for_depth, in_func, ot, od, loop_type', for_depth', in_func')
    BY <1>20, <2>2, <2>3, <2>4, <2>5 DEF TopIs, WordIs
  <2> QED BY ONLY <1>1, <1>3, <1>14, <1>16, <1>17, <1>18, <2>1, <2>2, <2>3, <2>6, <2>7,
             Begins(src, src'), ContextClose
<1>22. Where' BY <1>17, <1>21 DEF Where, Behind
<1> QED BY <1>12, <1>22

-----------------------------------------------------------------------------
(* A block begins.                                                         *)
LEMMA FollowNew ==
  ASSUME GenInv, GenInv', Followed, NEW t \in Token, t.at = Here,
         NEW ts, ts = <<t>>, Reads(ts), t.tok \in Openers \ {"case", "else", "elseif"},
         NEW b, NEW kind, kind # "case", NEW pos, Fresh(b, kind, pos),
         b.outer_loop = loop_type, b.ends = {}, pos > Len(code),
         blocks' = Append(blocks, b), Slot(t, b), Kept(code, code', NoCell),
         CellAt(code', pos, Ins(HeadOp(kind), 0)),
         kind = "func" => pos + 1 \in 1 .. Len(code') /\ code'[pos + 1].op = "ENTER",
         break_pos' = break_pos, forward_decl' = forward_decl, LabelsStay(label, label'),
         Enters(t.tok, loop_type, for_depth, in_func, loop_type', for_depth', in_func')
  PROVE  Followed'
<1>1. Typed /\ Typed' /\ blocks \in Seq(Block)
  BY DEF GenInv, Structure, AllIn
<1>2. Grown(src, t, src') BY <1>1, OneToken
<1>3. t.tok \notin {"else", "elseif"} /\ t.tok \in Openers /\ t.tok # "case" OBVIOUS
<1>4. Moves(code, src, code', t, src') /\ Begins(src, src')
  BY ONLY <1>1, <1>2, <1>3, t \in Token, t.at = Here, Moving
<1>5. /\ b \in Block /\ b.kind = kind /\ b.pos = pos /\ b.gotos = {}
      /\ b.outer_depth = for_depth /\ b.first_break = Len(break_pos)
      /\ \A v \in 0 .. MaxCases - 1 : b.case_addrs[v] = 0
  BY DEF Fresh
<1>6. b.pos \notin b.ends \cup b.gotos BY <1>5
<1>7. \A p \in Holes(b) : p > Len(code) BY <1>5 DEF Holes
<1>8. Cells(code', b) BY <1>5 DEF Cells
<1>9. Reading /\ Where /\ Noting /\ CaseInside(blocks) BY DEF Followed
<1>10. Reading' /\ Where'
  BY ONLY <1>1, <1>3, <1>4, <1>5, <1>6, <1>7, <1>8, <1>9, Kept(code, code', NoCell),
          blocks' = Append(blocks, b), Slot(t, b), b.outer_loop = loop_type,
          break_pos' = break_pos,
          Enters(t.tok, loop_type, for_depth, in_func, loop_type', for_depth', in_func'),
          FollowOpen
<1>11. Spare(code, NoCell) BY NoCells
<1>12. Noting'
  BY ONLY <1>1, <1>4, <1>9, <1>11, Kept(code, code', NoCell), forward_decl' = forward_decl,
          LabelsStay(label, label'), NotingStays
<1>13. CaseInside(blocks')
  <2>1. b.kind = "case" => blocks # <<>> /\ blocks[Len(blocks)].kind = "dispatch" BY <1>5
  <2>2. Added(blocks, b, blocks') BY DEF Added
  <2> QED BY ONLY <1>1, <1>5, <1>9, <2>1, <2>2, InsideOpen
<1> QED BY <1>10, <1>12, <1>13 DEF Followed

LEMMA SameLabels ==
  ASSUME label' = label
  PROVE  LabelsStay(label, label')
  BY DEF LabelsStay

LEMMA ForFollows ==
  ASSUME GenInv, GenInv', Followed, For
  PROVE  Followed'
<1>1. Typed BY DEF GenInv
<1>2. PICK l \in Nat : l = Len(code) /\ l > 0 /\ Here = l + 1 /\ Whole(code)
  BY <1>1, Facts
<1>3. PICK x : x = Ins("FOR", 0) OBVIOUS
<1>4. PICK y : y = Ins("FOR_CHECK", 0) OBVIOUS
<1>5. x \in Instr /\ y \in Instr BY <1>3, <1>4, InsFields DEF Ops
<1>6. PICK p : p = Here OBVIOUS
<1>7. Kept(code, code', NoCell) /\ CellAt(code', p + 1, y)
  <2>1. PICK q : q = <<x, y>> OBVIOUS
  <2>2. Longer(code, q, code') BY <1>3, <1>4, <2>1 DEF For, Longer, Unpatched
  <2>3. Behind(code, p) BY <1>6 DEF Behind, Here
  <2> QED BY ONLY <1>2, <1>5, <2>1, <2>2, <2>3, TwoMoreKept
<1>8. PICK n : n = NewBlock("for", Here + 1) OBVIOUS
<1>9. PICK b : b = [n EXCEPT !.top = Here + 2] OBVIOUS
<1>10. Fresh(b, "for", Here + 1) /\ b.top = Here + 2 /\ b.ends = {} /\ b.outer_loop = loop_type
  <2>1. Here + 1 \in Nat /\ Here + 2 \in Nat /\ "for" \in BlockKinds BY <1>2 DEF BlockKinds
  <2>2. Fresh(n, "for", Here + 1) /\ n.ends = {} BY <1>1, <1>8, <2>1, FreshBlock
  <2>3. n.outer_loop = loop_type BY <1>8 DEF NewBlock
  <2> QED BY <1>9, <2>1, <2>2, <2>3 DEF Fresh, Block
<1>11. PICK t : t = Tok("for") OBVIOUS
<1>12. t \in Token /\ t.tok = "for" /\ t.at = Here
  <2>1. "for" \in Words BY DEF Words, Openers
  <2> QED BY <1>1, <1>11, <2>1, TokenFacts
<1>13. PICK ts : ts = <<t>> OBVIOUS
<1>14. Reads(ts) BY <1>11, <1>13 DEF For
<1>15. Slot(t, b) BY <1>10, <1>12 DEF Slot, Fresh
<1>16. PICK pos : pos = Here + 1 OBVIOUS
<1>17. CellAt(code', pos, Ins(HeadOp("for"), 0)) BY <1>4, <1>6, <1>7, <1>16 DEF HeadOp
<1>18. pos > Len(code) BY <1>2, <1>16
<1>19. /\ blocks' = Append(blocks, b) /\ break_pos' = break_pos
       /\ forward_decl' = forward_decl /\ label' = label
  BY <1>8, <1>9 DEF For, lists
<1>20. LabelsStay(label, label') BY <1>19, SameLabels
<1>21. Enters("for", loop_type, for_depth, in_func, loop_type', for_depth', in_func')
  BY DEF For, Enters
<1>22. t.tok \in Openers \ {"case", "else", "elseif"} /\ "for" # "case" /\ "for" # "func"
  BY <1>12 DEF Openers
<1>23. Fresh(b, "for", pos) BY <1>10, <1>16
<1>24. Enters(t.tok, loop_type, for_depth, in_func, loop_type', for_depth', in_func')
  BY <1>12, <1>21
<1> QED BY ONLY GenInv, GenInv', Followed, <1>7, <1>10, <1>12, <1>13, <1>14, <1>15, <1>17, <1>18,
           <1>19, <1>20, <1>22, <1>23, <1>24, FollowNew

LEMMA WhileFollows ==
  ASSUME GenInv, GenInv', Followed, While
  PROVE  Followed'
<1>1. Typed BY DEF GenInv
<1>2. PICK l \in Nat : l = Len(code) /\ l > 0 /\ Here = l + 1 /\ Whole(code)
  BY <1>1, Facts
<1>3. PICK x : x = Ins("EXPR", 0) OBVIOUS
<1>4. PICK y : y = Ins("IF", 0) OBVIOUS
<1>5. x \in Instr /\ y \in Instr BY <1>3, <1>4, InsFields DEF Ops
<1>6. PICK p : p = Here OBVIOUS
<1>7. Kept(code, code', NoCell) /\ CellAt(code', p + 1, y)
  <2>1. PICK q : q = <<x, y>> OBVIOUS
  <2>2. Longer(code, q, code') BY <1>3, <1>4, <2>1 DEF While, Longer, Unpatched
  <2>3. Behind(code, p) BY <1>6 DEF Behind, Here
  <2> QED BY ONLY <1>2, <1>5, <2>1, <2>2, <2>3, TwoMoreKept
<1>8. PICK n : n = NewBlock("while", Here + 1) OBVIOUS
<1>9. PICK b : b = [n EXCEPT !.top = Here] OBVIOUS
<1>10. Fresh(b, "while", Here + 1) /\ b.top = Here /\ b.ends = {} /\ b.outer_loop = loop_type
  <2>1. Here + 1 \in Nat /\ Here \in Nat /\ "while" \in BlockKinds BY <1>2 DEF BlockKinds
  <2>2. Fresh(n, "while", Here + 1) /\ n.ends = {} BY <1>1, <1>8, <2>1, FreshBlock
  <2>3. n.outer_loop = loop_type BY <1>8 DEF NewBlock
  <2> QED BY <1>9, <2>1, <2>2, <2>3 DEF Fresh, Block
<1>11. PICK t : t = Tok("while") OBVIOUS
<1>12. t \in Token /\ t.tok = "while" /\ t.at = Here
  <2>1. "while" \in Words BY DEF Words, Openers
  <2> QED BY <1>1, <1>11, <2>1, TokenFacts
<1>13. PICK ts : ts = <<t>> OBVIOUS
<1>14. Reads(ts) BY <1>11, <1>13 DEF While
<1>15. Slot(t, b) BY <1>10, <1>12 DEF Slot, Fresh
<1>16. PICK pos : pos = Here + 1 OBVIOUS
<1>17. CellAt(code', pos, Ins(HeadOp("while"), 0)) BY <1>4, <1>6, <1>7, <1>16 DEF HeadOp
<1>18. pos > Len(code) BY <1>2, <1>16
<1>19. /\ blocks' = Append(blocks, b) /\ break_pos' = break_pos
       /\ forward_decl' = forward_decl /\ label' = label
  BY <1>8, <1>9 DEF While, lists
<1>20. LabelsStay(label, label') BY <1>19, SameLabels
<1>21. Enters("while", loop_type, for_depth, in_func, loop_type', for_depth', in_func')
  BY DEF While, Enters
<1>22. t.tok \in Openers \ {"case", "else", "elseif"} /\ "while" # "case" /\ "while" # "func"
  BY <1>12 DEF Openers
<1>23. Fresh(b, "while", pos) BY <1>10, <1>16
<1>24. Enters(t.tok, loop_type, for_depth, in_func, loop_type', for_depth', in_func')
  BY <1>12, <1>21
<1> QED BY ONLY GenInv, GenInv', Followed, <1>7, <1>10, <1>12, <1>13, <1>14, <1>15, <1>17, <1>18,
           <1>19, <1>20, <1>22, <1>23, <1>24, FollowNew

LEMMA FollowOne ==
  ASSUME GenInv, GenInv', Followed, NEW kind \in {"if", "entries", "dispatch"},
         Reads(<<Tok(kind)>>), NEW x, x = Ins(HeadOp(kind), 0), Added(code, x, code'),
         blocks' = Append(blocks, NewBlock(kind, Here)), UNCHANGED <<context, lists>>
  PROVE  Followed'
<1>1. Typed BY DEF GenInv
<1>2. PICK l \in Nat : l = Len(code) /\ l > 0 /\ Here = l + 1 /\ Whole(code)
  BY <1>1, Facts
<1>3. HeadOp(kind) \in {"IF", "DISPATCH", "DISPATCH_JMP"} BY DEF HeadOp
<1>4. x \in Instr BY <1>3, InsFields DEF Ops
<1>5. PICK pos : pos = Here OBVIOUS
<1>6. Kept(code, code', NoCell) /\ CellAt(code', pos, Ins(HeadOp(kind), 0))
  <2>1. Behind(code, pos) BY <1>5 DEF Behind, Here
  <2>2. Kept(code, code', NoCell) /\ CellAt(code', pos, x)
    BY ONLY <1>2, <1>4, <2>1, Added(code, x, code'), OneMoreKept
  <2> QED BY <2>2
<1>7. PICK b : b = NewBlock(kind, Here) OBVIOUS
<1>8. Fresh(b, kind, pos) /\ b.ends = {} /\ b.outer_loop = loop_type
  <2>1. Here \in Nat /\ kind \in BlockKinds BY <1>2 DEF BlockKinds
  <2>2. Fresh(b, kind, Here) /\ b.ends = {} BY <1>1, <1>7, <2>1, FreshBlock
  <2>3. b.outer_loop = loop_type BY <1>7 DEF NewBlock
  <2> QED BY <1>5, <2>2, <2>3
<1>9. PICK t : t = Tok(kind) OBVIOUS
<1>10. t \in Token /\ t.tok = kind /\ t.at = Here
  <2>1. kind \in Words BY DEF Words, Openers
  <2> QED BY <1>1, <1>9, <2>1, TokenFacts
<1>11. PICK ts : ts = <<t>> OBVIOUS
<1>12. Reads(ts) BY <1>9, <1>11
<1>13. Slot(t, b) BY <1>5, <1>8, <1>10 DEF Slot, Fresh
<1>14. pos > Len(code) BY <1>2, <1>5
<1>15. /\ blocks' = Append(blocks, b) /\ break_pos' = break_pos
       /\ forward_decl' = forward_decl /\ label' = label
  BY <1>7 DEF lists
<1>16. LabelsStay(label, label') BY <1>15, SameLabels
<1>17. kind \notin {"for", "while", "func", "case"} OBVIOUS
<1>18. Enters(t.tok, loop_type, for_depth, in_func, loop_type', for_depth', in_func')
  BY <1>10, <1>17 DEF Enters, context
<1>19. t.tok \in Openers \ {"case", "else", "elseif"} /\ kind # "case" /\ kind # "func"
  BY <1>10, <1>17 DEF Openers
<1> QED BY ONLY GenInv, GenInv', Followed, <1>6, <1>8, <1>10, <1>11, <1>12, <1>13, <1>14,
           <1>15, <1>16, <1>18, <1>19, FollowNew

LEMMA IfFollows ==
  ASSUME GenInv, GenInv', Followed, If
  PROVE  Followed'
<1>1. PICK x : x = Ins(HeadOp("if"), 0) OBVIOUS
<1>2. Added(code, x, code') BY <1>1 DEF If, Added, HeadOp, Unpatched
<1>3. /\ Reads(<<Tok("if")>>) /\ blocks' = Append(blocks, NewBlock("if", Here))
      /\ UNCHANGED <<context, lists>>
  BY DEF If
<1> QED BY <1>1, <1>2, <1>3, FollowOne

LEMMA EntriesFollows ==
  ASSUME GenInv, GenInv', Followed, Entries
  PROVE  Followed'
<1>1. PICK x : x = Ins(HeadOp("entries"), 0) OBVIOUS
<1>2. Added(code, x, code') BY <1>1 DEF Entries, Added, HeadOp, Ins, InsN
<1>3. /\ Reads(<<Tok("entries")>>) /\ blocks' = Append(blocks, NewBlock("entries", Here))
      /\ UNCHANGED <<context, lists>>
  BY DEF Entries
<1> QED BY <1>1, <1>2, <1>3, FollowOne

LEMMA DispatchFollows ==
  ASSUME GenInv, GenInv', Followed, Dispatch
  PROVE  Followed'
<1>1. PICK x : x = Ins(HeadOp("dispatch"), 0) OBVIOUS
<1>2. Added(code, x, code') BY <1>1 DEF Dispatch, Added, HeadOp, Unpatched, Ins, InsN
<1>3. /\ Reads(<<Tok("dispatch")>>) /\ blocks' = Append(blocks, NewBlock("dispatch", Here))
      /\ UNCHANGED <<context, lists>>
  BY DEF Dispatch
<1> QED BY <1>1, <1>2, <1>3, FollowOne

(* The definition of a function that has no label yet.                     *)
LEMMA FuncFollows ==
  ASSUME GenInv, GenInv', Followed, NEW f \in Funcs, Func(f), label[f] = 0
  PROVE  Followed'
<1>1. Typed /\ label \in [Funcs -> 0 .. Here] BY DEF GenInv, Typed
<1>2. PICK l \in Nat : l = Len(code) /\ l > 0 /\ Here = l + 1 /\ Whole(code)
  BY <1>1, Facts
<1>3. PICK x : x = Ins("GOTO", 0) OBVIOUS
<1>4. PICK y : y = Ins("ENTER", 0) OBVIOUS
<1>5. x \in Instr /\ y \in Instr BY <1>3, <1>4, InsFields DEF Ops
<1>6. PICK pos : pos = Here OBVIOUS
<1>7. Kept(code, code', NoCell) /\ CellAt(code', pos, x) /\ CellAt(code', pos + 1, y)
  <2>1. PICK q : q = <<x, y>> OBVIOUS
  <2>2. Longer(code, q, code') BY <1>3, <1>4, <2>1 DEF Func, Longer, Unpatched
  <2>3. Behind(code, pos) BY <1>6 DEF Behind, Here
  <2> QED BY ONLY <1>2, <1>5, <2>1, <2>2, <2>3, TwoMoreKept
<1>8. PICK b : b = NewBlock("func", Here) OBVIOUS
<1>9. Fresh(b, "func", pos) /\ b.ends = {} /\ b.outer_loop = loop_type
  <2>1. Here \in Nat /\ "func" \in BlockKinds BY <1>2 DEF BlockKinds
  <2>2. Fresh(b, "func", Here) /\ b.ends = {} BY <1>1, <1>8, <2>1, FreshBlock
  <2>3. b.outer_loop = loop_type BY <1>8 DEF NewBlock
  <2> QED BY <1>6, <2>2, <2>3
<1>10. PICK t : t = FnTok("func", f) OBVIOUS
<1>11. t \in Token /\ t.tok = "func" /\ t.at = Here
  <2>1. "func" \in Words BY DEF Words, Openers
  <2> QED BY <1>1, <1>10, <2>1, TokenFacts
<1>12. PICK ts : ts = <<t>> OBVIOUS
<1>13. Reads(ts) BY <1>10, <1>12 DEF Func
<1>14. Slot(t, b) BY <1>6, <1>9, <1>11 DEF Slot, Fresh
<1>15. CellAt(code', pos, Ins(HeadOp("func"), 0)) BY <1>3, <1>7 DEF HeadOp
<1>16. pos > Len(code) BY <1>2, <1>6
<1>17. pos + 1 \in 1 .. Len(code') /\ code'[pos + 1].op = "ENTER"
  BY <1>4, <1>7 DEF CellAt, Ins
<1>18. /\ blocks' = Append(blocks, b) /\ break_pos' = break_pos
       /\ forward_decl' = forward_decl /\ label' = [label EXCEPT ![f] = Here + 1]
       /\ in_func' = TRUE /\ loop_type' = "none" /\ for_depth' = 0
  BY <1>8 DEF Func
<1>19. LabelsStay(label, label')
  <2>1. \A g \in Funcs : g # f => label'[g] = label[g] BY <1>1, <1>18
  <2> QED BY <2>1 DEF LabelsStay
<1>20. Enters(t.tok, loop_type, for_depth, in_func, loop_type', for_depth', in_func')
  BY <1>11, <1>18 DEF Enters
<1>21. t.tok \in Openers \ {"case", "else", "elseif"} /\ "func" # "case"
  BY <1>11 DEF Openers
<1>22. /\ blocks' = Append(blocks, b) /\ break_pos' = break_pos /\ forward_decl' = forward_decl
  BY <1>18
<1> QED BY ONLY GenInv, GenInv', Followed, <1>7, <1>9, <1>11, <1>12, <1>13, <1>14, <1>15, <1>16,
           <1>17, <1>19, <1>20, <1>21, <1>22, FollowNew

LEMMA CaseFollows ==
  ASSUME GenInv, GenInv', Followed, NEW v \in 0 .. MaxCases, Case(v), ~CaseRefused(v)
  PROVE  Followed'
<1>1. Typed /\ Typed' /\ Structure /\ blocks # <<>> /\ blocks \in Seq(Block) /\ Kind = "dispatch"
  BY DEF GenInv, Case, Kind, Structure, AllIn
<1>2. /\ Reads(<<CaseTok(v)>>)
      /\ blocks' = Append(Append(Outer, [Top EXCEPT !.case_addrs[v] = Here]),
                          NewBlock("case", 0))
      /\ UNCHANGED <<code, context, lists>>
  BY DEF Case
<1>3. PICK l \in Nat : l = Len(code) /\ l > 0 /\ Here = l + 1 /\ Whole(code) BY <1>1, Facts
<1>4. v \in 0 .. MaxCases - 1 /\ Top.case_addrs[v] = 0
  BY CodeGenAssumption DEF CaseRefused
<1>5. PICK t : t = CaseTok(v) OBVIOUS
<1>6. t \in Token /\ t.tok = "case" /\ t.at = Here /\ t.val = v
  <2>1. "case" \in Words /\ v \in Nat BY CodeGenAssumption DEF Words, Openers
  <2>2. Tok("case") \in Token /\ Tok("case").tok = "case" /\ Tok("case").at = Here
    BY <1>1, <2>1, TokenFacts
  <2> QED BY <1>5, <2>1, <2>2 DEF CaseTok, Token
<1>7. PICK ts : ts = <<t>> OBVIOUS
<1>8. Grown(src, t, src')
  <2>1. Reads(ts) BY <1>2, <1>5, <1>7
  <2> QED BY ONLY <1>1, <1>6, <1>7, <2>1, OneToken
<1>9. Moves(code, src, code', t, src') /\ Begins(src, src')
  <2>1. t.tok \notin {"else", "elseif"} BY <1>6
  <2> QED BY ONLY <1>1, <1>6, <1>8, <2>1, Moving
<1>10. Kept(code, code', NoCell)
  <2>1. code' = code /\ Len(code) <= Len(code) BY <1>2, <1>3
  <2> QED BY <2>1 DEF Kept
<1>11. /\ Len(blocks) \in Nat \ {0} /\ Outer \in Seq(Block) /\ Len(Outer) = Len(blocks) - 1
       /\ \A i \in 1 .. Len(blocks) - 1 : Outer[i] = blocks[i]
       /\ Top = blocks[Len(blocks)] /\ Top \in Block
  BY <1>1, FrontOf DEF Outer, Top
<1>12. PICK m \in Nat : m = Len(blocks) /\ m > 0 BY <1>11
<1>13. PICK u : u = [Top EXCEPT !.case_addrs[v] = Here] OBVIOUS
<1>14. /\ u \in Block /\ Like(Top, u)
       /\ \A w \in 0 .. MaxCases - 1 : u.case_addrs[w] = IF w = v THEN Here ELSE Top.case_addrs[w]
  <2>1. Top.case_addrs \in [0 .. MaxCases - 1 -> Nat] /\ Here \in Nat BY <1>3, <1>11 DEF Block
  <2>2. PICK a : a = [Top.case_addrs EXCEPT ![v] = Here] OBVIOUS
  <2>3. a \in [0 .. MaxCases - 1 -> Nat]
        /\ \A w \in 0 .. MaxCases - 1 : a[w] = IF w = v THEN Here ELSE Top.case_addrs[w]
    BY ONLY <1>4, <2>1, <2>2
  <2>4. u = [Top EXCEPT !.case_addrs = a] BY <1>13, <2>2
  <2> QED BY <1>11, <2>3, <2>4 DEF Block, Like
<1>15. PICK bs : Added(Outer, u, bs) BY DEF Added
<1>16. PICK b : b = NewBlock("case", 0) OBVIOUS
<1>17. Fresh(b, "case", 0) /\ b.ends = {} /\ b.outer_loop = loop_type
  <2>1. "case" \in BlockKinds BY DEF BlockKinds
  <2>2. Fresh(b, "case", 0) /\ b.ends = {} BY <1>1, <1>16, <2>1, FreshBlock
  <2> QED BY <1>16, <2>2 DEF NewBlock
<1>18. /\ b \in Block /\ b.kind = "case" /\ b.gotos = {} /\ b.outer_depth = for_depth
       /\ b.first_break = Len(break_pos)
  BY <1>17 DEF Fresh
<1>19. /\ bs \in Seq(Block) /\ Len(bs) = m /\ bs[m] = u /\ \A k \in 1 .. m - 1 : bs[k] = blocks[k]
  <2>1. /\ bs \in Seq(Block) /\ Len(bs) = Len(Outer) + 1 /\ bs[Len(Outer) + 1] = u
        /\ \A i \in 1 .. Len(Outer) : bs[i] = Outer[i]
    BY <1>11, <1>14, <1>15, LastOfAppend DEF Added
  <2>2. Len(Outer) = m - 1 /\ Len(Outer) + 1 = m BY <1>11, <1>12
  <2> QED BY <1>11, <1>12, <2>1, <2>2
<1>20. Added(bs, b, blocks') BY <1>2, <1>13, <1>15, <1>16 DEF Added
<1>21. PICK n : n = Len(blocks) + 1 OBVIOUS
<1>22. /\ Len(blocks') = n /\ blocks'[n] = b /\ \A k \in 1 .. m : blocks'[k] = bs[k]
  BY <1>12, <1>18, <1>19, <1>20, <1>21, LastOfAppend DEF Added
<1>23. m \in 1 .. m /\ \A k \in 1 .. m - 1 : k \in 1 .. m BY ONLY <1>12
<1>24. blocks'[m] = u /\ \A k \in 1 .. m - 1 : blocks'[k] = blocks[k] BY <1>19, <1>22, <1>23
<1>25. blocks[m] = Top /\ blocks[m].kind = "dispatch" /\ Like(blocks[m], blocks'[m])
       /\ blocks[m].case_addrs[t.val] = 0 /\ t.val \in 0 .. MaxCases - 1 /\ t.at # 0
       /\ \A w \in 0 .. MaxCases - 1 :
            blocks'[m].case_addrs[w] = IF w = t.val THEN t.at ELSE blocks[m].case_addrs[w]
  <2>1. Top.kind = "dispatch" BY <1>1 DEF Kind, Top
  <2> QED BY <1>3, <1>4, <1>6, <1>11, <1>12, <1>14, <1>24, <2>1
<1>26. /\ Slot(t, b) /\ Cells(code', b) /\ b.pos \notin b.ends \cup b.gotos
       /\ \A p \in Holes(b) : p > Len(code)
  BY <1>6, <1>17, <1>18 DEF Slot, Cells, Holes
<1>27. /\ Reading /\ Where /\ CaseInside(blocks) /\ Noting BY DEF Followed
<1>28. PICK os : ReadIn(code, src, os, blocks, break_pos) BY <1>27 DEF Reading
<1>29. PICK e : e = Len(src) + 1 OBVIOUS
<1>30. PICK us : Pushed(os, e, us) BY DEF Pushed
<1>31. ContextIn(src, e, loop_type, for_depth, in_func) BY <1>27, <1>29 DEF Where
<1>32. ContextAt(src, e, b.outer_loop, b.outer_depth) BY <1>17, <1>18, <1>31 DEF ContextIn
<1>33. break_pos \in Seq(1 .. Len(code)) /\ break_pos' = break_pos BY <1>1, <1>2 DEF Typed, lists
<1>34. ReadIn(code', src', us, blocks', break_pos)
  BY ONLY <1>4, <1>6, <1>9, <1>10, <1>12, <1>18, <1>21, <1>22, <1>24, <1>25, <1>26, <1>28, <1>29,
          <1>30, <1>32, <1>33, CaseRead
<1>35. Reading' BY <1>33, <1>34 DEF Reading
<1>36. Where'
  <2>1. Nest(src, os) BY <1>28 DEF ReadIn, Shape
  <2>2. PICK k : Behind(os, k) BY DEF Behind
  <2>3. Behind(src, e) BY <1>29 DEF Behind
  <2>4. t.tok \in Openers BY <1>6 DEF Openers
  <2>5. /\ Nest(src', us) /\ Len(us) = k /\ us[k] = e /\ Len(src') = e /\ src'[e] = t
        /\ \A j \in 1 .. Len(os) : us[j] = os[j]
    BY ONLY <2>1, <2>2, <2>3, <2>4, <1>9, <1>30, PushedFacts
  <2>6. PICK f : Behind(src', f) BY DEF Behind
  <2>7. /\ loop_type' = loop_type /\ for_depth' = for_depth /\ in_func' = in_func
    BY <1>2 DEF context
  <2>8. Enters(src'[e].tok, loop_type, for_depth, in_func, loop_type, for_depth, in_func)
    BY <1>6, <2>5 DEF Enters
  <2>9. ContextIn(src', f, loop_type, for_depth, in_func)
    BY ONLY <1>9, <1>31, <2>1, <2>2, <2>3, <2>5, <2>6, <2>8, ContextOpen
  <2> QED BY <2>6, <2>7, <2>9 DEF Where, Behind
<1>37. Noting'
  <2>1. forward_decl' = forward_decl /\ label' = label BY <1>2 DEF lists
  <2>2. LabelsStay(label, label') BY <2>1, SameLabels
  <2>3. Spare(code, NoCell) BY NoCells
  <2> QED BY ONLY <1>1, <1>9, <1>10, <1>27, <2>1, <2>2, <2>3, NotingStays
<1>38. CaseInside(blocks')
  <2>1. m <= Len(blocks) /\ Starts(bs, m, bs) BY <1>12, <1>19 DEF Starts
  <2>2. CaseInside(bs)
    <3>1. ASSUME NEW k \in 1 .. Len(bs), bs[k].kind = "case"
          PROVE  k > 1 /\ bs[k - 1].kind = "dispatch"
      <4>1. k # m BY <1>14, <1>19, <1>25, <3>1 DEF Like
      <4>2. k \in 1 .. m - 1 /\ k \in 1 .. Len(blocks) BY ONLY <1>12, <1>19, <4>1, k \in 1 .. Len(bs)
      <4>3. k > 1 /\ blocks[k - 1].kind = "dispatch"
        BY <1>19, <1>27, <3>1, <4>2 DEF CaseInside
      <4>4. k - 1 \in 1 .. m - 1 BY ONLY <4>2, <4>3, <1>12
      <4> QED BY <1>19, <4>3, <4>4
    <3> QED BY <3>1 DEF CaseInside
  <2>3. bs # <<>> /\ bs[Len(bs)].kind = "dispatch"
    <3>1. bs # <<>> BY <1>12, <1>19, EmptySeq
    <3> QED BY <1>14, <1>19, <1>25, <3>1 DEF Like
  <2> QED BY ONLY <1>18, <1>19, <1>20, <2>2, <2>3, InsideOpen
<1> QED BY <1>35, <1>36, <1>37, <1>38 DEF Followed

-----------------------------------------------------------------------------
(* The statements that are no blocks.                                      *)
LEMMA BreakFollows ==
  ASSUME GenInv, GenInv', Followed, Break, ~BreakRefused
  PROVE  Followed'
<1>1. Typed /\ Typed' /\ Structure BY DEF GenInv
<1>2. /\ Reads(<<Tok("break")>>) /\ code' = Append(code, BreakJump)
      /\ break_pos' = Append(break_pos, Here)
      /\ UNCHANGED <<blocks, context, forward_decl, label>>
  BY DEF Break
<1>3. PICK l \in Nat : l = Len(code) /\ l > 0 /\ Here = l + 1 /\ Whole(code) BY <1>1, Facts
<1>4. PICK t : t = Tok("break") OBVIOUS
<1>5. t \in Token /\ t.tok = "break" /\ t.at = Here
  <2>1. "break" \in Words BY DEF Words, Openers
  <2> QED BY <1>1, <1>4, <2>1, TokenFacts
<1>6. PICK ts : ts = <<t>> OBVIOUS
<1>7. Grown(src, t, src')
  <2>1. Reads(ts) BY <1>2, <1>4, <1>6
  <2> QED BY ONLY <1>1, <1>5, <1>6, <2>1, OneToken
<1>8. Moves(code, src, code', t, src') /\ Begins(src, src')
  <2>1. t.tok \notin {"else", "elseif"} BY <1>5
  <2> QED BY ONLY <1>1, <1>5, <1>7, <2>1, Moving
<1>9. PICK x : x = BreakJump OBVIOUS
<1>10. x \in Instr
  <2>1. PICK op \in {"BREAK_FOR", "GOTO"} : x = Ins(op, 0)
    BY <1>9 DEF BreakJump, Unpatched
  <2> QED BY <2>1, InsFields DEF Ops
<1>11. PICK p : p = t.at OBVIOUS
<1>12. Kept(code, code', NoCell) /\ CellAt(code', t.at, x)
  <2>1. Added(code, x, code') BY <1>2, <1>9 DEF Added
  <2>2. Behind(code, p) BY <1>5, <1>11 DEF Behind, Here
  <2>3. Kept(code, code', NoCell) /\ CellAt(code', p, x)
    BY ONLY <1>3, <1>10, <2>1, <2>2, OneMoreKept
  <2> QED BY <2>3, <1>11
<1>13. Reading /\ Where /\ Noting /\ CaseInside(blocks) BY DEF Followed
<1>14. PICK os : ReadIn(code, src, os, blocks, break_pos) BY <1>13 DEF Reading
<1>15. PICK e : e = Len(src) + 1 OBVIOUS
<1>16. ContextIn(src, e, loop_type, for_depth, in_func) BY <1>13, <1>15 DEF Where
<1>17. loop_type # "none" BY DEF BreakRefused
<1>18. LoopOf(src, e) # 0 /\ loop_type = src[LoopOf(src, e)].tok
  BY <1>16, <1>17 DEF ContextIn, ContextAt
<1>19. CellAt(code', t.at, Ins(BreakOp(src[LoopOf(src, e)]), 0))
  BY <1>9, <1>12, <1>18 DEF BreakJump, BreakOp, Unpatched
<1>20. break_pos \in Seq(1 .. Len(code)) BY <1>1 DEF Typed
<1>21. \A k \in 1 .. Len(blocks) :
         blocks[k].first_break \in Nat /\ blocks[k].first_break <= Len(break_pos)
  <2>1. blocks \in Seq(Block) /\ \A k \in 1 .. Len(blocks) : BlockIn(code, Len(break_pos), blocks[k])
    BY <1>1 DEF Structure, AllIn
  <2>2. \A k \in 1 .. Len(blocks) : blocks[k] \in Block BY <2>1, ElementOfSeq
  <2> QED BY <2>1, <2>2 DEF BlockIn, Block
<1>22. PICK bq : bq = Append(break_pos, t.at) OBVIOUS
<1>23. ReadIn(code', src', os, blocks, bq)
  BY ONLY <1>5, <1>8, <1>12, <1>14, <1>15, <1>18, <1>19, <1>20, <1>21, <1>22, BreakRead
<1>24. Reading' BY <1>2, <1>5, <1>22, <1>23 DEF Reading
<1>25. Where'
  <2>1. Nest(src, os) /\ Nest(src', os) BY <1>14, <1>23 DEF ReadIn, Shape
  <2>2. Behind(src, e) BY <1>15 DEF Behind
  <2>3. PICK f : Behind(src', f) BY DEF Behind
  <2>4. ContextIn(src', f, loop_type, for_depth, in_func)
    BY ONLY <1>8, <1>16, <2>1, <2>2, <2>3, ContextPlain
  <2> QED BY <1>2, <2>3, <2>4 DEF Where, Behind, context
<1>26. Noting'
  <2>1. forward_decl' = forward_decl /\ label' = label BY <1>2
  <2>2. LabelsStay(label, label') BY <2>1, SameLabels
  <2>3. Spare(code, NoCell) BY NoCells
  <2> QED BY ONLY <1>1, <1>8, <1>12, <1>13, <2>1, <2>2, <2>3, NotingStays
<1>27. CaseInside(blocks') BY <1>2, <1>13
<1> QED BY <1>24, <1>25, <1>26, <1>27 DEF Followed

(* The code of a statement, but for the notes that are taken of it.        *)
LEMMA FollowWord ==
  ASSUME GenInv, GenInv', Followed, NEW t \in Token, t.at = Here, NEW ts, ts = <<t>>, Reads(ts),
         t.tok \notin Openers, t.tok \notin {"}", "break", "else", "elseif"},
         Kept(code, code', NoCell), NEW e, Behind(src, e),
         Begins(src, src') /\ src'[e] = t => Done(code', src', e),
         UNCHANGED <<blocks, context, break_pos>>
  PROVE  /\ Reading' /\ Where' /\ CaseInside(blocks') /\ Begins(src, src')
         /\ src'[e] = t /\ e \in 1 .. Len(src') /\ e \notin 1 .. Len(src) /\ Len(src') = e
<1>1. Typed /\ Typed' BY DEF GenInv
<1>2. Reading /\ Where /\ CaseInside(blocks) BY DEF Followed
<1>3. Grown(src, t, src') BY ONLY <1>1, t \in Token, ts = <<t>>, Reads(ts), OneToken
<1>4. t.tok \notin {"else", "elseif"} /\ t.tok \notin {"}", "break"} OBVIOUS
<1>5. Moves(code, src, code', t, src') /\ Begins(src, src')
  BY ONLY <1>1, <1>3, <1>4, t \in Token, t.at = Here, Moving
<1>6. /\ src'[e] = t /\ e \in 1 .. Len(src') /\ Len(src') = e /\ Len(src) \in Nat /\ e = Len(src) + 1
  <2>1. src \in Seq(Token) /\ e = Len(src) + 1 BY <1>1 DEF Typed, Behind
  <2>2. /\ src'[e] = t /\ e \in 1 .. Len(src') /\ Len(src') = e /\ Len(src) \in Nat
    BY ONLY <2>1, <1>3, t \in Token, GrownFacts
  <2> QED BY <2>1, <2>2
<1>7. e \notin 1 .. Len(src) BY ONLY <1>6
<1>8. Done(code', src', e) BY <1>5, <1>6
<1>9. UNCHANGED <<blocks, context, break_pos>> OBVIOUS
<1>10. Reading' /\ Where'
  BY ONLY <1>2, <1>4, <1>5, <1>8, <1>9, Kept(code, code', NoCell), t.tok \notin Openers,
          Behind(src, e), FollowPlain
<1> QED BY <1>2, <1>5, <1>6, <1>7, <1>10

LEMMA SameKept ==
  ASSUME NEW c, Len(c) \in Nat, NEW d, d = c
  PROVE  Kept(c, d, NoCell)
<1>1. PICK l \in Nat : l = Len(c) OBVIOUS
<1>2. l <= l BY ONLY l \in Nat
<1> QED BY <1>1, <1>2 DEF Kept

LEMMA LoseLineFollows ==
  ASSUME GenInv, GenInv', Followed, NEW w \in {"lost else", "lost brace"}, LoseLine(w)
  PROVE  Followed'
<1>1. Typed /\ Typed' /\ Len(code) \in Nat BY Facts DEF GenInv
<1>2. /\ Reads(<<Tok(w)>>) /\ UNCHANGED <<code, blocks, context, lists>> BY DEF LoseLine
<1>3. PICK t : t = Tok(w) OBVIOUS
<1>4. t \in Token /\ t.tok = w /\ t.at = Here
  <2>1. w \in Words BY DEF Words
  <2> QED BY <1>1, <1>3, <2>1, TokenFacts
<1>5. PICK ts : ts = <<t>> OBVIOUS
<1>6. Reads(ts) BY <1>2, <1>3, <1>5
<1>7. PICK e : Behind(src, e) BY DEF Behind
<1>8. Kept(code, code', NoCell)
  <2>1. PICK d : d = code' OBVIOUS
  <2>2. d = code BY <1>2, <2>1
  <2>3. Kept(code, d, NoCell) BY ONLY <1>1, <2>2, SameKept
  <2> QED BY <2>1, <2>3
<1>9. t.tok \notin Openers /\ t.tok \notin {"}", "break", "else", "elseif"} BY <1>4 DEF Openers
<1>10. Begins(src, src') /\ src'[e] = t => Done(code', src', e)
  <2>1. SUFFICES ASSUME src'[e] = t PROVE Done(code', src', e) OBVIOUS
  <2>2. src'[e].tok \in {"call", "entry", "lost else", "lost brace", "eof"}
    BY <1>4, <2>1, w \in {"lost else", "lost brace"}
  <2> QED BY <2>2 DEF Done, LoopWords
<1>11. UNCHANGED <<blocks, context, break_pos>> /\ forward_decl' = forward_decl /\ label' = label
  BY <1>2 DEF lists
<1>12. /\ Reading' /\ Where' /\ CaseInside(blocks') /\ Begins(src, src')
  BY ONLY GenInv, GenInv', Followed, <1>4, <1>5, <1>6, <1>7, <1>8, <1>9, <1>10, <1>11, FollowWord
<1>13. Noting'
  <2>1. LabelsStay(label, label') BY <1>11, SameLabels
  <2>2. Spare(code, NoCell) BY NoCells
  <2>3. Noting BY DEF Followed
  <2> QED BY ONLY <1>1, <1>8, <1>11, <1>12, <2>1, <2>2, <2>3, NotingStays
<1> QED BY <1>12, <1>13 DEF Followed

LEMMA ReturnFollows ==
  ASSUME GenInv, GenInv', Followed, Return, in_func
  PROVE  Followed'
<1>1. Typed /\ Typed' /\ for_depth \in Nat BY DEF GenInv, Typed
<1>2. PICK l \in Nat : l = Len(code) /\ l > 0 /\ Here = l + 1 /\ Whole(code) BY <1>1, Facts
<1>3. /\ Reads(<<Tok("return")>>) /\ code' = code \o Append(ForLeave, Ins("LEAVE", 0))
      /\ UNCHANGED <<blocks, context, lists>>
  BY DEF Return
<1>4. PICK x : x = Ins("LEAVE", 0) OBVIOUS
<1>5. PICK y : y = InsN("FOR_LEAVE", 0, for_depth) OBVIOUS
<1>6. x \in Instr /\ y \in Instr BY <1>1, <1>4, <1>5, InsFields DEF Ops
<1>7. PICK u : u = ForLeave OBVIOUS
<1>8. PICK k : k = IF for_depth > 0 THEN 1 ELSE 0 OBVIOUS
<1>9. u \in Seq(Instr) /\ Len(u) = k /\ (for_depth > 0 => u[1] = y)
  <2>1. CASE for_depth > 0
    <3>1. u = <<y>> /\ k = 1 BY <1>5, <1>7, <1>8, <2>1 DEF ForLeave
    <3> QED BY <1>6, <2>1, <3>1, Short
  <2>2. CASE ~(for_depth > 0)
    <3>1. u = <<>> /\ k = 0 BY <1>7, <1>8, <2>2 DEF ForLeave
    <3>2. u \in Seq(Instr) /\ Len(u) = 0 BY <3>1, EmptySeq
    <3> QED BY <2>2, <3>1, <3>2
  <2> QED BY <2>1, <2>2
<1>10. k \in {0, 1} BY <1>8
<1>11. PICK q : q = Append(u, x) OBVIOUS
<1>12. /\ q \in Seq(Instr) /\ Len(q) = k + 1 /\ q[k + 1] = x /\ \A i \in 1 .. k : q[i] = u[i]
  BY <1>6, <1>9, <1>11, LastOfAppend
<1>13. /\ Kept(code, code', NoCell) /\ Len(code') = l + k + 1
       /\ \A i \in 1 .. k + 1 : code'[l + i] = q[i]
  <2>1. Longer(code, q, code') BY <1>3, <1>4, <1>7, <1>11 DEF Longer
  <2>2. PICK d : d = code' OBVIOUS
  <2>3. Longer(code, q, d) BY <2>1, <2>2
  <2>4. q \in Seq(Instr) BY <1>12
  <2>5. /\ Kept(code, d, NoCell) /\ Len(d) = Len(code) + Len(q)
        /\ \A i \in 1 .. Len(q) : d[Len(code) + i] = q[i]
    BY ONLY <1>2, <2>3, <2>4, LongerKept
  <2>6. Len(code) + Len(q) = l + k + 1 BY <1>2, <1>10, <1>12
  <2> QED BY <1>2, <1>12, <2>2, <2>5, <2>6
<1>14. PICK p : p = Here OBVIOUS
<1>15. CellAt(code', p + k, x)
  <2>1. k + 1 \in 1 .. k + 1 /\ l + (k + 1) = p + k /\ p + k \in 1 .. l + k + 1
    BY <1>2, <1>10, <1>14
  <2> QED BY <1>12, <1>13, <2>1 DEF CellAt
<1>16. for_depth > 0 => CellAt(code', p, y)
  <2>1. SUFFICES ASSUME for_depth > 0 PROVE CellAt(code', p, y) OBVIOUS
  <2>2. k = 1 BY <1>8, <2>1
  <2>3. 1 \in 1 .. k /\ 1 \in 1 .. k + 1 /\ l + 1 = p /\ p \in 1 .. l + k + 1
    BY <1>2, <1>14, <2>2
  <2> QED BY <1>9, <1>12, <1>13, <2>1, <2>3 DEF CellAt
<1>17. PICK t : t = Tok("return") OBVIOUS
<1>18. t \in Token /\ t.tok = "return" /\ t.at = Here
  <2>1. "return" \in Words BY DEF Words
  <2> QED BY <1>1, <1>17, <2>1, TokenFacts
<1>19. PICK ts : ts = <<t>> OBVIOUS
<1>20. Reads(ts) BY <1>3, <1>17, <1>19
<1>21. PICK e : Behind(src, e) BY DEF Behind
<1>22. t.tok \notin Openers /\ t.tok \notin {"}", "break", "else", "elseif"} BY <1>18 DEF Openers
<1>23. Begins(src, src') /\ src'[e] = t => Done(code', src', e)
  <2>1. SUFFICES ASSUME Begins(src, src'), src'[e] = t PROVE Done(code', src', e) OBVIOUS
  <2>2. src'[e].tok = "return" /\ src'[e].at = p BY <1>14, <1>18, <2>1
  <2>3. ContextAt(src, e, loop_type, for_depth)
    BY <1>21 DEF Followed, Where, Behind, ContextIn
  <2>4. for_depth > 0 => CellAt(code', p, InsN("FOR_LEAVE", 0, for_depth)) BY <1>5, <1>16
  <2>5. CellAt(code', p + (IF for_depth > 0 THEN 1 ELSE 0), Ins("LEAVE", 0))
    BY <1>4, <1>8, <1>15
  <2> QED BY ONLY <1>21, <2>1, <2>2, <2>3, <2>4, <2>5, ReturnEnds
<1>24. UNCHANGED <<blocks, context, break_pos>> /\ forward_decl' = forward_decl /\ label' = label
  BY <1>3 DEF lists
<1>25. /\ Reading' /\ Where' /\ CaseInside(blocks') /\ Begins(src, src')
  BY ONLY GenInv, GenInv', Followed, <1>13, <1>18, <1>19, <1>20, <1>21, <1>22, <1>23, <1>24, FollowWord
<1>26. Noting'
  <2>1. LabelsStay(label, label') BY <1>24, SameLabels
  <2>2. Spare(code, NoCell) BY NoCells
  <2>3. Noting BY DEF Followed
  <2> QED BY ONLY <1>1, <1>13, <1>24, <1>25, <2>1, <2>2, <2>3, NotingStays
<1> QED BY <1>25, <1>26 DEF Followed

(* A call or an entry of a table, noted or not.                            *)
LEMMA CallingFollows ==
  ASSUME GenInv, GenInv', Followed, NEW w \in {"call", "entry"}, NEW f \in Funcs,
         NEW t, t = FnTok(w, f), NEW ts, ts = <<t>>, Reads(ts), NEW op \in {"GOSUB", "ADDR"},
         Added(code, Ins(op, label[f]), code'), UNCHANGED <<blocks, context, break_pos, label>>,
         \/ forward_decl' = forward_decl
         \/ forward_decl' = Noted(f, Here) /\ (w = "call" => label[f] = 0)
  PROVE  Followed'
<1>1. Typed /\ Typed' /\ Calls /\ label \in [Funcs -> 0 .. Here] /\ forward_decl \in Seq(Note)
  BY DEF GenInv, Typed
<1>2. PICK l \in Nat : l = Len(code) /\ l > 0 /\ Here = l + 1 /\ Whole(code) BY <1>1, Facts
<1>3. PICK x : x = Ins(op, label[f]) OBVIOUS
<1>4. x \in Instr /\ x.op = op /\ x.to = label[f]
  <2>1. label[f] \in Nat BY <1>1, <1>2
  <2>2. op \in Ops BY DEF Ops
  <2> QED BY <1>3, <2>1, <2>2, InsFields
<1>5. PICK p : p = Here OBVIOUS
<1>6. Kept(code, code', NoCell) /\ CellAt(code', p, x)
  <2>1. Added(code, x, code') BY <1>3
  <2>2. Behind(code, p) BY <1>5 DEF Behind, Here
  <2> QED BY ONLY <1>2, <1>4, <2>1, <2>2, OneMoreKept
<1>7. t \in Token /\ t.tok = w /\ t.at = p /\ t.fn = f
  <2>1. w \in Words BY DEF Words
  <2>2. t \in Token /\ t.fn = f /\ t.at = Here BY <1>1, <2>1, TokenFacts
  <2>3. t.tok = w BY DEF FnTok, Tok
  <2> QED BY <1>5, <2>2, <2>3
<1>8. PICK e : Behind(src, e) BY DEF Behind
<1>9. t.tok \notin Openers /\ t.tok \notin {"}", "break", "else", "elseif"} BY <1>7 DEF Openers
<1>10. Begins(src, src') /\ src'[e] = t => Done(code', src', e)
  <2>1. SUFFICES ASSUME src'[e] = t PROVE Done(code', src', e) OBVIOUS
  <2>2. src'[e].tok \in {"call", "entry"} BY <1>7, <2>1, w \in {"call", "entry"}
  <2> QED BY <2>2 DEF Done, LoopWords
<1>11. UNCHANGED <<blocks, context, break_pos>> /\ label' = label OBVIOUS
<1>12. t.at = Here BY <1>5, <1>7
<1>13. /\ Reading' /\ Where' /\ CaseInside(blocks') /\ Begins(src, src')
       /\ src'[e] = t /\ e \in 1 .. Len(src') /\ e \notin 1 .. Len(src) /\ Len(src') = e
  BY ONLY GenInv, GenInv', Followed, ts = <<t>>, Reads(ts), <1>6, <1>7, <1>8, <1>9, <1>10, <1>11,
          <1>12, FollowWord
<1>14. Noting BY DEF Followed
<1>15. CASE forward_decl' = forward_decl
  <2>1. LabelsStay(label, label') BY <1>11, SameLabels
  <2>2. Spare(code, NoCell) BY NoCells
  <2>3. Noting'
    BY ONLY <1>1, <1>6, <1>13, <1>14, <1>15, <2>1, <2>2, NotingStays
  <2> QED BY <1>13, <2>3 DEF Followed
<1>16. CASE forward_decl' = Noted(f, Here) /\ (w = "call" => label[f] = 0)
  <2>1. PICK d : d = [fn |-> f, pos |-> p] OBVIOUS
  <2>2. d \in Note /\ d.fn = f /\ d.pos = p BY <1>2, <1>5, <2>1 DEF Note
  <2>3. Added(forward_decl, d, forward_decl') BY <1>5, <1>16, <2>1 DEF Added, Noted
  <2>4. ASSUME NEW j \in 1 .. Len(src'), src'[j].tok = "func", src'[j].fn = f, w = "call"
        PROVE  j > e
    <3>1. Going BY DEF Reads, Going
    <3>2. TokensIn(code, forward_decl, label, src) BY <1>1, <3>1 DEF Calls, CallsIn
    <3>3. j # e BY <1>7, <1>13, <2>4
    <3>4. e = Len(src) + 1 /\ Len(src) \in Nat
      BY <1>1, <1>8, LenProperties DEF Behind, Typed
    <3>5. j \in 1 .. Len(src)
      BY ONLY <1>13, <3>3, <3>4, j \in 1 .. Len(src')
    <3>6. src[j].tok = "func" /\ src[j].fn = f BY <1>13, <2>4, <3>5 DEF Begins
    <3>7. label[f] = src[j].at + 1 BY <3>2, <3>5, <3>6 DEF TokensIn
    <3>8. src[j].at \in Nat
      <4>1. src \in Seq(Token) BY <1>1 DEF Typed
      <4>2. src[j] \in Token BY ONLY <3>5, <4>1, ElementOfSeq
      <4> QED BY <4>2 DEF Token
    <3> QED BY <1>16, <2>4, <3>7, <3>8
  <2>5. NoteIn(code', src', label, d)
    <3>1. d.pos \in 1 .. Len(code') /\ code'[d.pos] = x BY <1>6, <2>2 DEF CellAt
    <3>2. code'[d.pos].op \in {"GOSUB", "ADDR"} /\ code'[d.pos].to \in {0, label[d.fn]}
      BY <1>4, <2>2, <3>1
    <3>3. src'[e].at = d.pos /\ src'[e].fn = d.fn BY <1>7, <1>13, <2>2
    <3>4. \/ src'[e].tok = "entry"
          \/ src'[e].tok = "call" /\ \A j \in 1 .. Len(src') :
               src'[j].tok = "func" /\ src'[j].fn = d.fn => j > e
      BY <1>7, <1>13, <2>2, <2>4
    <3> QED BY <1>13, <3>1, <3>2, <3>3, <3>4 DEF NoteIn
  <2>6. Len(code) \in Nat /\ Len(code') \in Nat /\ d.pos \notin 1 .. Len(code)
    <3>1. Len(code') \in Nat BY <1>1, LenProperties DEF Typed, Whole, IsCode
    <3>2. p \notin 1 .. Len(code) /\ Len(code) \in Nat BY ONLY <1>2, <1>5
    <3> QED BY <2>2, <3>1, <3>2
  <2>7. Notes(code, src, forward_decl, label) BY <1>14 DEF Noting
  <2>8. PICK dd : dd = code' OBVIOUS
  <2>9. PICK ss : ss = src' OBVIOUS
  <2>10. PICK fe : fe = forward_decl' OBVIOUS
  <2>11. Notes(dd, ss, fe, label)
    <3>1. Kept(code, dd, NoCell) BY <1>6, <2>8
    <3>2. Len(code) \in Nat /\ Len(dd) \in Nat /\ d.pos \notin 1 .. Len(code) BY <2>6, <2>8
    <3>3. Begins(src, ss) /\ d \in Note BY <1>13, <2>2, <2>9
    <3>4. NoteIn(dd, ss, label, d) BY <2>5, <2>8, <2>9
    <3>5. Added(forward_decl, d, fe) BY <2>3, <2>10
    <3>6. forward_decl \in Seq(Note) BY <1>1
    <3> QED BY ONLY <2>7, <3>1, <3>2, <3>3, <3>4, <3>5, <3>6, NotesMore
  <2>12. Noting' BY <1>11, <2>8, <2>9, <2>10, <2>11 DEF Noting
  <2> QED BY <1>13, <2>12 DEF Followed
<1> QED BY <1>15, <1>16

LEMMA CallFollows ==
  ASSUME GenInv, GenInv', Followed, NEW f \in Funcs, Call(f), label[f] # 0 \/ ~ListFull
  PROVE  Followed'
<1>1. /\ Reads(<<FnTok("call", f)>>) /\ code' = Append(code, Ins("GOSUB", label[f]))
      /\ forward_decl' = IF label[f] # 0 THEN forward_decl ELSE Noted(f, Here)
      /\ UNCHANGED <<blocks, context, break_pos, label>>
  BY DEF Call
<1>2. PICK t : t = FnTok("call", f) OBVIOUS
<1>3. PICK ts : ts = <<t>> OBVIOUS
<1>4. Reads(ts) BY <1>1, <1>2, <1>3
<1>5. Added(code, Ins("GOSUB", label[f]), code') BY <1>1 DEF Added
<1>6. PICK w \in {"call", "entry"} : w = "call" OBVIOUS
<1>7. t = FnTok(w, f) BY <1>2, <1>6
<1>8. \/ forward_decl' = forward_decl
      \/ forward_decl' = Noted(f, Here) /\ (w = "call" => label[f] = 0)
  BY <1>1
<1> QED BY <1>1, <1>3, <1>4, <1>5, <1>7, <1>8, CallingFollows

LEMMA EntryFollows ==
  ASSUME GenInv, GenInv', Followed, NEW f \in Funcs, Entry(f), ~ListFull
  PROVE  Followed'
<1>1. /\ Reads(<<FnTok("entry", f)>>) /\ code' = Append(code, Ins("ADDR", label[f]))
      /\ forward_decl' = Noted(f, Here)
      /\ UNCHANGED <<blocks, context, break_pos, label>>
  BY DEF Entry
<1>2. PICK t : t = FnTok("entry", f) OBVIOUS
<1>3. PICK ts : ts = <<t>> OBVIOUS
<1>4. Reads(ts) BY <1>1, <1>2, <1>3
<1>5. Added(code, Ins("ADDR", label[f]), code') BY <1>1 DEF Added
<1>6. PICK w \in {"call", "entry"} : w = "entry" OBVIOUS
<1>7. t = FnTok(w, f) BY <1>2, <1>6
<1>8. \/ forward_decl' = forward_decl
      \/ forward_decl' = Noted(f, Here) /\ (w = "call" => label[f] = 0)
  BY <1>1, <1>6
<1> QED BY <1>1, <1>3, <1>4, <1>5, <1>7, <1>8, CallingFollows

-----------------------------------------------------------------------------
(* The innermost block ends: the token t at e closes b, number n, which    *)
(* was opened at o.                                                        *)
ClosesWith(c, s, bs, bp, d, ss, os, t, e, n, o, b) ==
  /\ ReadIn(c, s, os, bs, bp) /\ Moves(c, s, d, t, ss) /\ ClosingTok(t)
  /\ Begins(s, ss) /\ Behind(s, e) /\ Deep(bs, n) /\ TopIs(os, n, o) /\ b = bs[n]
  /\ t.at = Len(c) + 1 /\ Ending(c, s, o, b, d, t, ss, e)
Closed(c, s, bs, bp, d, ss, b) ==
  \E os, t, e, n, o : ClosesWith(c, s, bs, bp, d, ss, os, t, e, n, o, b)

LEMMA TopIsLast ==
  ASSUME Typed, Structure, blocks # <<>>, NEW n, n = Len(blocks)
  PROVE  /\ n \in Nat /\ n > 0 /\ n \in 1 .. Len(blocks) /\ Top = blocks[n] /\ Top \in Block
         /\ blocks \in Seq(Block) /\ Outer \in Seq(Block) /\ Outer = Front(blocks)
         /\ Kind = Top.kind /\ Top.kind \in BlockKinds
<1>1. blocks \in Seq(Block) BY DEF Structure, AllIn
<1>2. /\ Outer \in Seq(Block) /\ Len(blocks) \in Nat \ {0}
      /\ Top = blocks[Len(blocks)] /\ Top \in Block
  BY <1>1, FrontOf DEF Outer, Top
<1>3. Kind = Top.kind BY TopFacts
<1>4. Top.kind \in BlockKinds BY <1>2 DEF Block, BlockKinds
<1> QED BY <1>1, <1>2, <1>3, <1>4 DEF Outer

(* The cells that wait for the end of the innermost block.                 *)
LEMMA TopCells ==
  ASSUME GenInv, Followed, blocks # <<>>
  PROVE  /\ Cells(code, Top) /\ Spare(code, Holes(Top))
         /\ Top.pos \notin Top.ends \cup Top.gotos
         /\ \A k \in 1 .. Len(blocks) : k # Len(blocks) => Holes(blocks[k]) \cap Holes(Top) = {}
         /\ \A x \in 1 .. Len(break_pos) : break_pos[x] \notin Holes(Top)
         /\ Top.kind = "case" => Top.ends = {} /\ Top.gotos = {}
         /\ Top.kind = "if" => Chain(Top) = Top.ends
<1>1. PICK os : ReadIn(code, src, os, blocks, break_pos) BY DEF Followed, Reading
<1>2. PICK n : n = Len(blocks) OBVIOUS
<1>3. Typed /\ Structure BY DEF GenInv
<1>4. n \in 1 .. Len(blocks) /\ Top = blocks[n] BY <1>2, <1>3, TopIsLast
<1>5. BlockOf(code, src, os[n], Top) /\ Apart(blocks, break_pos)
  BY <1>1, <1>4 DEF ReadIn, Shape
<1>6. Cells(code, Top) BY <1>5 DEF BlockOf
<1>7. Spare(code, Holes(Top)) BY ONLY <1>6, SpareHoles
<1>8. Top.pos \notin Top.ends \cup Top.gotos BY <1>4, <1>5 DEF Apart
<1>9. \A k \in 1 .. Len(blocks) : k # n => Holes(blocks[k]) \cap Holes(Top) = {}
  BY <1>4, <1>5 DEF Apart
<1>10. \A x \in 1 .. Len(break_pos) : break_pos[x] \notin Holes(Top) BY <1>4, <1>5 DEF Apart
<1>11. Top.kind = "case" => Top.ends = {} /\ Top.gotos = {} BY <1>5 DEF BlockOf, Slot
<1>12. Top.kind = "if" => Chain(Top) = Top.ends BY DEF Chain
<1> QED BY <1>2, <1>6, <1>7, <1>8, <1>9, <1>10, <1>11, <1>12

LEMMA SpareSome ==
  ASSUME NEW c, NEW P, Spare(c, P), NEW Q, \A p \in Q : p \in P
  PROVE  Spare(c, Q)
  BY DEF Spare

LEMMA CloseBegins ==
  ASSUME GenInv, GenInv', Followed, Reads(<<Tok("}")>>), blocks # <<>>,
         NEW P, Kept(code, code', P), Spare(code, P)
  PROVE  Closed(code, src, blocks, break_pos, code', src', Top)
<1>1. Typed /\ Typed' /\ Structure BY DEF GenInv
<1>2. PICK t : t = Tok("}") OBVIOUS
<1>3. t \in Token /\ t.tok = "}" /\ t.at = Here
  <2>1. "}" \in Words BY DEF Words
  <2> QED BY <1>1, <1>2, <2>1, TokenFacts
<1>4. PICK ts : ts = <<t>> OBVIOUS
<1>5. Grown(src, t, src')
  <2>1. Reads(ts) BY <1>2, <1>4
  <2> QED BY ONLY <1>1, <1>3, <1>4, <2>1, OneToken
<1>6. Moves(code, src, code', t, src') /\ Begins(src, src')
  <2>1. t.tok \notin {"else", "elseif"} BY <1>3
  <2> QED BY ONLY <1>1, <1>3, <1>5, <2>1, Moving
<1>7. ClosingTok(t) BY <1>3 DEF ClosingTok
<1>8. PICK os : ReadIn(code, src, os, blocks, break_pos) BY DEF Followed, Reading
<1>9. PICK e : Behind(src, e) BY DEF Behind
<1>10. PICK n : n = Len(blocks) OBVIOUS
<1>11. Deep(blocks, n) /\ Top = blocks[n] BY <1>1, <1>10, TopIsLast DEF Deep
<1>12. Ending(code, src, os[n], blocks[n], code', t, src', e)
  BY ONLY <1>6, <1>7, <1>8, <1>9, <1>11, Kept(code, code', P), Spare(code, P), EndingIs
<1>13. PICK o : TopIs(os, n, o) BY DEF TopIs
<1>14. Ending(code, src, o, Top, code', t, src', e) BY <1>11, <1>12, <1>13 DEF TopIs
<1>15. t.at = Len(code) + 1 BY <1>3 DEF Here
<1>16. ClosesWith(code, src, blocks, break_pos, code', src', os, t, e, n, o, Top)
  BY <1>6, <1>7, <1>8, <1>9, <1>11, <1>13, <1>14, <1>15 DEF ClosesWith
<1> QED BY <1>16 DEF Closed

LEMMA CloseAll ==
  ASSUME GenInv, GenInv', Followed, blocks # <<>>, NEW P, Kept(code, code', P), Spare(code, P),
         NEW os, NEW t, NEW e, NEW n, NEW o,
         ClosesWith(code, src, blocks, break_pos, code', src', os, t, e, n, o, Top),
         blocks' = Outer, Top.kind # "case", NEW m, Starts(break_pos, m, break_pos'),
         \A k \in 1 .. Len(blocks) : k # Len(blocks) => Holes(blocks[k]) \cap P = {},
         Done(code', src', o), BranchesEnd(code', Top),
         BreaksEnd(code, code', Top, break_pos, P, m),
         Leaves(Top.kind, loop_type, for_depth, in_func, Top.outer_loop, Top.outer_depth,
                loop_type', for_depth', in_func'),
         forward_decl' = forward_decl, label' = label
  PROVE  Followed'
<1>1. Typed /\ Typed' /\ Structure BY DEF GenInv
<1>2. /\ ReadIn(code, src, os, blocks, break_pos) /\ Moves(code, src, code', t, src')
      /\ ClosingTok(t) /\ Begins(src, src') /\ Deep(blocks, n) /\ TopIs(os, n, o)
      /\ Top = blocks[n]
  BY DEF ClosesWith
<1>3. n = Len(blocks) BY <1>2 DEF Deep
<1>4. blocks \in Seq(Block) /\ blocks' = Front(blocks) BY <1>1, <1>3, TopIsLast
<1>5. PICK b : b = blocks[n] OBVIOUS
<1>6. /\ b.kind # "case" /\ BranchesEnd(code', b) /\ BreaksEnd(code, code', b, break_pos, P, m)
      /\ Leaves(b.kind, loop_type, for_depth, in_func, b.outer_loop, b.outer_depth,
                loop_type', for_depth', in_func')
  BY <1>2, <1>5
<1>7. Done(code', src', os[n]) BY <1>2 DEF TopIs
<1>8. \A k \in 1 .. Len(blocks) : k # n => Holes(blocks[k]) \cap P = {} BY <1>3
<1>9. Where /\ Noting /\ CaseInside(blocks) BY DEF Followed
<1>10. Reading' /\ Where'
  BY ONLY <1>1, <1>2, <1>4, <1>5, <1>6, <1>7, <1>8, <1>9, Kept(code, code', P), Spare(code, P),
          Starts(break_pos, m, break_pos'), FollowClose
<1>11. Noting'
  <2>1. LabelsStay(label, label') BY SameLabels
  <2> QED BY ONLY <1>1, <1>2, <1>9, <2>1, Kept(code, code', P), Spare(code, P),
             forward_decl' = forward_decl, NotingStays
<1>12. CaseInside(blocks')
  <2>1. /\ Len(blocks) \in Nat \ {0} /\ Len(blocks') = Len(blocks) - 1
        /\ \A i \in 1 .. Len(blocks) - 1 : blocks'[i] = blocks[i]
    BY <1>4, FrontOf
  <2>2. PICK k \in Nat : k = Len(blocks) - 1 BY <2>1
  <2>3. k <= Len(blocks) BY <2>1, <2>2
  <2>4. Starts(blocks, k, blocks') BY <2>1, <2>2, <2>3 DEF Starts
  <2>5. Len(blocks) \in Nat BY <2>1
  <2> QED BY ONLY <1>9, <2>2, <2>4, <2>5, InsideStart
<1> QED BY <1>9, <1>10, <1>11, <1>12 DEF Followed

(* The end of a block that is no loop.                                     *)
LEMMA CloseOther ==
  ASSUME GenInv, GenInv', Followed, blocks # <<>>, NEW P, Kept(code, code', P),
         \A p \in P : p \in Holes(Top), NEW os, NEW t, NEW e, NEW n, NEW o,
         ClosesWith(code, src, blocks, break_pos, code', src', os, t, e, n, o, Top),
         blocks' = Outer, Top.kind \notin {"case", "for", "while"}, break_pos' = break_pos,
         Done(code', src', o), BranchesEnd(code', Top),
         Leaves(Top.kind, loop_type, for_depth, in_func, Top.outer_loop, Top.outer_depth,
                loop_type', for_depth', in_func'),
         forward_decl' = forward_decl, label' = label
  PROVE  Followed'
<1>1. Typed BY DEF GenInv
<1>2. PICK m \in Nat : m = Len(break_pos) BY <1>1, Facts
<1>3. Starts(break_pos, m, break_pos')
  <2>1. m <= m BY ONLY m \in Nat
  <2> QED BY <1>2, <2>1 DEF Starts
<1>4. /\ Spare(code, Holes(Top))
      /\ \A k \in 1 .. Len(blocks) : k # Len(blocks) => Holes(blocks[k]) \cap Holes(Top) = {}
      /\ \A x \in 1 .. Len(break_pos) : break_pos[x] \notin Holes(Top)
  BY TopCells
<1>5. Spare(code, P) BY <1>4, SpareSome
<1>6. \A k \in 1 .. Len(blocks) : k # Len(blocks) => Holes(blocks[k]) \cap P = {} BY <1>4
<1>7. BreaksEnd(code, code', Top, break_pos, P, m)
  <2>1. \A x \in 1 .. Len(break_pos) : break_pos[x] \notin P BY <1>4
  <2>2. \A x \in 1 .. Len(break_pos) : ~(x > m) BY <1>2
  <2>3. Top.kind \notin LoopWords BY DEF LoopWords
  <2> QED BY <1>2, <2>1, <2>2, <2>3 DEF BreaksEnd
<1>8. Top.kind # "case" OBVIOUS
<1> QED BY ONLY GenInv, GenInv', Followed, blocks # <<>>, Kept(code, code', P), <1>3, <1>5, <1>6, <1>7,
           <1>8, ClosesWith(code, src, blocks, break_pos, code', src', os, t, e, n, o, Top),
           blocks' = Outer, Done(code', src', o), BranchesEnd(code', Top),
           Leaves(Top.kind, loop_type, for_depth, in_func, Top.outer_loop, Top.outer_depth,
                  loop_type', for_depth', in_func'),
           forward_decl' = forward_decl, label' = label, CloseAll

LEMMA EndIfFollows ==
  ASSUME GenInv, GenInv', Followed, EndIf
  PROVE  Followed'
<1>1. Typed /\ Structure /\ blocks # <<>> /\ Kind \in {"if", "else"}
  BY DEF GenInv, EndIf, Kind
<1>2. /\ Reads(<<Tok("}")>>) /\ code' = Patched(code, {Top.pos} \cup Top.ends, Here)
      /\ blocks' = Outer /\ UNCHANGED <<context, lists>>
  BY DEF EndIf
<1>3. PICK l \in Nat : l = Len(code) /\ l > 0 /\ Here = l + 1 /\ Whole(code) BY <1>1, Facts
<1>4. Top.kind \in {"if", "else"} BY <1>1, TopFacts
<1>5. /\ Cells(code, Top) /\ Spare(code, Holes(Top)) BY <1>1, TopCells
<1>6. PICK P : P = {Top.pos} \cup Top.ends OBVIOUS
<1>7. PICK g : g = Here OBVIOUS
<1>8. PICK d : d = code' OBVIOUS
<1>9. d = Patched(code, P, g) BY <1>2, <1>6, <1>7, <1>8
<1>10. /\ Kept(code, d, P) /\ Len(d) = Len(code)
       /\ \A p \in P : \A op : CellAt(code, p, Ins(op, 0)) => CellAt(d, p, Ins(op, g))
  BY ONLY <1>3, <1>9, PatchedKept
<1>11. Behind(code', g) /\ g \in Nat /\ g = Len(code') + 1
  BY <1>3, <1>7, <1>8, <1>10 DEF Behind
<1>12. \A p \in P : p \in Holes(Top) BY <1>4, <1>6 DEF Holes
<1>13. Kept(code, code', P) BY <1>8, <1>10
<1>14. Spare(code, P) BY <1>5, <1>12, SpareSome
<1>15. Closed(code, src, blocks, break_pos, code', src', Top)
  BY ONLY GenInv, GenInv', Followed, <1>1, <1>2, <1>13, <1>14, CloseBegins
<1>16. PICK os, t, e, n, o : ClosesWith(code, src, blocks, break_pos, code', src', os, t, e, n, o, Top)
  BY ONLY <1>15 DEF Closed
<1>17. Ending(code, src, o, Top, code', t, src', e) BY <1>16 DEF ClosesWith
<1>18. CellAt(code', Top.pos, Ins(HeadOp(Top.kind), g))
  <2>1. CellAt(code, Top.pos, Ins(HeadOp(Top.kind), 0)) BY <1>4, <1>5 DEF Cells
  <2>2. Top.pos \in P BY <1>6
  <2> QED BY <1>8, <1>10, <2>1, <2>2
<1>19. Done(code', src', o)
  <2>1. CASE Top.kind = "if"
    BY ONLY <1>11, <1>17, <1>18, <2>1, CondEnds
  <2>2. CASE Top.kind = "else"
    <3>1. Top.kind \in {"else", "entries", "case"} BY <2>2
    <3> QED BY ONLY <1>17, <3>1, BareEnds
  <2> QED BY <1>4, <2>1, <2>2
<1>20. BranchesEnd(code', Top)
  <2>1. ASSUME NEW p \in Chain(Top) PROVE CellAt(code', p, Ins("GOTO", g))
    <3>1. CASE p \in Top.ends
      <4>1. CellAt(code, p, Ins("GOTO", 0)) BY <1>5, <3>1 DEF Cells
      <4>2. p \in P BY <1>6, <3>1
      <4> QED BY <1>8, <1>10, <4>1, <4>2
    <3>2. CASE Top.kind = "else" /\ p = Top.pos
      BY <1>18, <3>2 DEF HeadOp
    <3> QED BY <3>1, <3>2, <2>1 DEF Chain
  <2> QED BY <1>11, <2>1 DEF BranchesEnd
<1>21. /\ Top.kind \notin {"case", "for", "while"} /\ break_pos' = break_pos
       /\ forward_decl' = forward_decl /\ label' = label
       /\ Leaves(Top.kind, loop_type, for_depth, in_func, Top.outer_loop, Top.outer_depth,
                 loop_type', for_depth', in_func')
  BY <1>2, <1>4 DEF lists, context, Leaves
<1> QED BY ONLY GenInv, GenInv', Followed, <1>1, <1>2, <1>12, <1>13, <1>16, <1>19, <1>20, <1>21, CloseOther

LEMMA EndFuncFollows ==
  ASSUME GenInv, GenInv', Followed, EndFunc
  PROVE  Followed'
<1>1. Typed /\ Typed' /\ Structure /\ blocks # <<>> /\ Kind = "func" BY DEF GenInv, EndFunc, Kind
<1>2. /\ Reads(<<Tok("}")>>)
      /\ code' = Patched(Append(code, Ins("LEAVE", 0)), {Top.pos}, Here + 1)
      /\ blocks' = Outer /\ UNCHANGED lists
      /\ in_func' = FALSE /\ loop_type' = Top.outer_loop /\ for_depth' = Top.outer_depth
  BY DEF EndFunc
<1>3. PICK l \in Nat : l = Len(code) /\ l > 0 /\ Here = l + 1 /\ Whole(code) BY <1>1, Facts
<1>4. Top.kind = "func" BY <1>1, TopFacts
<1>5. Cells(code, Top) /\ Spare(code, Holes(Top)) /\ Top.pos \in Holes(Top)
  BY <1>1, <1>4, TopCells DEF Holes
<1>6. CellAt(code, Top.pos, Ins("GOTO", 0)) /\ Top.pos + 1 \in 1 .. l
      /\ code[Top.pos + 1].op = "ENTER"
  BY <1>3, <1>4, <1>5 DEF Cells, HeadOp
<1>7. PICK x : x = Ins("LEAVE", 0) OBVIOUS
<1>8. x \in Instr /\ x.op = "LEAVE" /\ x.to = 0 BY <1>7, InsFields DEF Ops
<1>9. PICK c : Added(code, x, c) BY DEF Added
<1>10. PICK p : p = Here OBVIOUS
<1>11. Behind(code, p) BY <1>10 DEF Behind, Here
<1>12. Kept(code, c, NoCell) /\ CellAt(c, p, x) /\ Len(c) = p
  BY ONLY <1>3, <1>8, <1>9, <1>11, OneMoreKept
<1>13. Whole(c)
  <2>1. x.to <= Len(code) + 2 BY <1>3, <1>8
  <2> QED BY <1>3, <1>8, <1>9, <2>1, OneMore
<1>14. PICK P : P = {Top.pos} OBVIOUS
<1>15. PICK g : g = Here + 1 OBVIOUS
<1>16. PICK d : d = code' OBVIOUS
<1>17. d = Patched(c, P, g) BY <1>2, <1>7, <1>9, <1>14, <1>15, <1>16 DEF Added
<1>18. /\ Kept(c, d, P) /\ Len(d) = Len(c)
       /\ \A q \in P : \A op : CellAt(c, q, Ins(op, 0)) => CellAt(d, q, Ins(op, g))
  BY ONLY <1>13, <1>17, PatchedKept
<1>19. Len(code) \in Nat /\ Len(c) \in Nat /\ Len(d) \in Nat /\ Len(d) = l + 1
  BY <1>3, <1>10, <1>12, <1>18
<1>20. Kept(code, d, P)
  <2>1. \A q : q \in NoCell \/ q \in P => q \in P BY DEF NoCell
  <2> QED BY ONLY <1>12, <1>18, <1>19, <2>1, KeptThen
<1>21. Behind(code', g) BY <1>3, <1>15, <1>16, <1>19 DEF Behind
<1>22. Kept(code, code', P) /\ \A q \in P : q \in Holes(Top) BY <1>5, <1>14, <1>16, <1>20
<1>23. Spare(code, P) BY <1>5, <1>22, SpareSome
<1>24. Closed(code, src, blocks, break_pos, code', src', Top)
  BY ONLY GenInv, GenInv', Followed, <1>1, <1>2, <1>22, <1>23, CloseBegins
<1>25. PICK os, t, e, n, o : ClosesWith(code, src, blocks, break_pos, code', src', os, t, e, n, o, Top)
  BY ONLY <1>24 DEF Closed
<1>26. Ending(code, src, o, Top, code', t, src', e) /\ t.at = p
  BY <1>10, <1>25 DEF ClosesWith, Here
<1>27. Top.pos \in 1 .. l /\ Top.pos # p BY <1>3, <1>6, <1>10 DEF CellAt
<1>28. CellAt(code', Top.pos, Ins("GOTO", g))
  <2>1. Top.pos \notin NoCell BY DEF NoCell
  <2>2. PICK y : y = Ins("GOTO", 0) OBVIOUS
  <2>3. PICK q : q = Top.pos OBVIOUS
  <2>4. CellAt(code, q, y) /\ q \notin NoCell BY <1>6, <2>1, <2>2, <2>3
  <2>5. CellAt(c, q, y) BY ONLY <1>12, <1>19, <2>4, CellKept
  <2> QED BY <1>14, <1>16, <1>18, <2>2, <2>3, <2>5
<1>29. CellAt(code', p, Ins("LEAVE", 0))
  <2>1. p \notin P BY <1>14, <1>27
  <2>2. CellAt(d, p, x) BY ONLY <1>12, <1>18, <1>19, <2>1, CellKept
  <2> QED BY <1>7, <1>16, <2>2
<1>30. Top.pos + 1 \in 1 .. Len(code') /\ code'[Top.pos + 1].op = "ENTER"
  <2>1. PICK q : q = Top.pos + 1 OBVIOUS
  <2>2. q \in 1 .. l /\ q \notin P /\ q \in 1 .. l + 1 BY <1>6, <1>14, <1>27, <2>1
  <2>3. d[q] = code[q] BY <1>3, <1>20, <2>2 DEF Kept
  <2> QED BY <1>6, <1>16, <1>19, <2>1, <2>2, <2>3
<1>31. Done(code', src', o)
  <2>1. CellAt(code', t.at, Ins("LEAVE", 0)) BY <1>26, <1>29
  <2> QED BY ONLY <1>4, <1>21, <1>26, <1>28, <1>30, <2>1, FuncEnds
<1>32. BranchesEnd(code', Top) BY <1>4 DEF BranchesEnd
<1>33. /\ Top.kind \notin {"case", "for", "while"} /\ break_pos' = break_pos
       /\ forward_decl' = forward_decl /\ label' = label
       /\ Leaves(Top.kind, loop_type, for_depth, in_func, Top.outer_loop, Top.outer_depth,
                 loop_type', for_depth', in_func')
  BY <1>2, <1>4 DEF lists, Leaves
<1> QED BY ONLY GenInv, GenInv', Followed, <1>1, <1>2, <1>22, <1>25, <1>31, <1>32, <1>33, CloseOther

LEMMA EndEntriesFollows ==
  ASSUME GenInv, GenInv', Followed, EndEntries
  PROVE  Followed'
<1>1. Typed /\ Structure /\ blocks # <<>> /\ Kind = "entries" BY DEF GenInv, EndEntries, Kind
<1>2. /\ Reads(<<Tok("}")>>) /\ code' = [code EXCEPT ![Top.pos].n = Len(code) - Top.pos]
      /\ blocks' = Outer /\ UNCHANGED <<context, lists>>
  BY DEF EndEntries
<1>3. PICK l \in Nat : l = Len(code) /\ l > 0 /\ Here = l + 1 /\ Whole(code) BY <1>1, Facts
<1>4. Top.kind = "entries" BY <1>1, TopFacts
<1>5. Cells(code, Top) /\ Spare(code, Holes(Top)) /\ Top.pos \in Holes(Top)
  BY <1>1, <1>4, TopCells DEF Holes
<1>6. PICK p : p = Top.pos OBVIOUS
<1>7. p \in 1 .. l BY <1>3, <1>4, <1>5, <1>6 DEF Cells, CellAt
<1>8. PICK i : i = [code[p] EXCEPT !.n = l - p] OBVIOUS
<1>9. i \in Instr
  <2>1. code \in Seq(Instr) BY <1>3 DEF Whole, IsCode
  <2>2. code[p] \in Instr BY <1>3, <1>7, <2>1, ElementOfSeq
  <2>3. l - p \in Nat BY <1>7
  <2> QED BY <1>8, <2>2, <2>3 DEF Instr
<1>10. PICK d : d = code' OBVIOUS
<1>11. Rewritten(code, p, i, d) BY <1>2, <1>3, <1>6, <1>8, <1>10 DEF Rewritten
<1>12. PICK P : P = {p} OBVIOUS
<1>13. Kept(code, d, P)
  <2>1. p \in P /\ p \in 1 .. Len(code) BY <1>3, <1>7, <1>12
  <2> QED BY ONLY <1>3, <1>9, <1>11, <2>1, RewrittenKept
<1>14. Kept(code, code', P) /\ \A q \in P : q \in Holes(Top) BY <1>5, <1>6, <1>10, <1>12, <1>13
<1>15. Spare(code, P) BY <1>5, <1>14, SpareSome
<1>16. Closed(code, src, blocks, break_pos, code', src', Top)
  BY ONLY GenInv, GenInv', Followed, <1>1, <1>2, <1>14, <1>15, CloseBegins
<1>17. PICK os, t, e, n, o : ClosesWith(code, src, blocks, break_pos, code', src', os, t, e, n, o, Top)
  BY ONLY <1>16 DEF Closed
<1>18. Done(code', src', o)
  <2>1. Ending(code, src, o, Top, code', t, src', e) BY <1>17 DEF ClosesWith
  <2>2. Top.kind \in {"else", "entries", "case"} BY <1>4
  <2> QED BY ONLY <2>1, <2>2, BareEnds
<1>19. BranchesEnd(code', Top) BY <1>4 DEF BranchesEnd
<1>20. /\ Top.kind \notin {"case", "for", "while"} /\ break_pos' = break_pos
       /\ forward_decl' = forward_decl /\ label' = label
       /\ Leaves(Top.kind, loop_type, for_depth, in_func, Top.outer_loop, Top.outer_depth,
                 loop_type', for_depth', in_func')
  BY <1>2, <1>4 DEF lists, context, Leaves
<1> QED BY ONLY GenInv, GenInv', Followed, <1>1, <1>2, <1>14, <1>17, <1>18, <1>19, <1>20, CloseOther

(* The breaks that the end of a loop patches.                              *)
LEMMA LoopHoles ==
  ASSUME GenInv, Followed, blocks # <<>>, Top.kind \in LoopWords,
         NEW P, P = {Top.pos} \cup BreaksOf(Top), NEW m, m = Top.first_break
  PROVE  /\ Spare(code, P) /\ m \in Nat /\ m \in 0 .. Len(break_pos) /\ Len(break_pos) \in Nat
         /\ \A k \in 1 .. Len(blocks) : k # Len(blocks) => Holes(blocks[k]) \cap P = {}
         /\ \A x \in 1 .. Len(break_pos) : x <= m => break_pos[x] \notin P
         /\ \A x \in 1 .. Len(break_pos) : x > m => break_pos[x] \in P
<1>1. Typed /\ Structure BY DEF GenInv
<1>2. Top \in Block /\ BlockIn(code, Len(break_pos), Top) BY <1>1, TopFacts
<1>3. m \in Nat /\ Len(break_pos) \in Nat /\ m <= Len(break_pos)
  BY <1>1, <1>2, Facts DEF Block, BlockIn
<1>4. /\ Cells(code, Top) /\ Spare(code, Holes(Top))
      /\ \A k \in 1 .. Len(blocks) : k # Len(blocks) => Holes(blocks[k]) \cap Holes(Top) = {}
      /\ \A x \in 1 .. Len(break_pos) : break_pos[x] \notin Holes(Top)
  BY TopCells
<1>5. Top.pos \in Holes(Top) BY DEF Holes, LoopWords
<1>6. PICK os : ReadIn(code, src, os, blocks, break_pos) BY DEF Followed, Reading
<1>7. Apart(blocks, break_pos) /\ Breaks(code, src, os, blocks, break_pos)
  BY <1>6 DEF ReadIn, Shape
<1>8. \A p \in P : p = Top.pos \/ \E x \in m + 1 .. Len(break_pos) : p = break_pos[x]
  BY DEF BreaksOf
<1>9. \A x \in m + 1 .. Len(break_pos) : x \in 1 .. Len(break_pos) /\ x > m /\ break_pos[x] \in P
  <2> TAKE x \in m + 1 .. Len(break_pos)
  <2>1. x \in 1 .. Len(break_pos) /\ x > m BY ONLY <1>3, x \in m + 1 .. Len(break_pos)
  <2>2. break_pos[x] \in P BY DEF BreaksOf
  <2> QED BY <2>1, <2>2
<1>10. \A x \in 1 .. Len(break_pos) : x > m => x \in m + 1 .. Len(break_pos) BY ONLY <1>3
<1>11. ASSUME NEW p \in P PROVE p \in 1 .. Len(code) /\ code[p].to = 0 /\ code[p].op \in Jumps
  <2>1. CASE p = Top.pos BY <1>4, <1>5, <2>1 DEF Spare
  <2>2. CASE \E x \in m + 1 .. Len(break_pos) : p = break_pos[x]
    <3>1. PICK x \in 1 .. Len(break_pos) : p = break_pos[x] BY <1>9, <2>2
    <3>2. PICK i \in 1 .. Len(src) : BreakWaits(code, src, os, blocks, break_pos, i, x)
      BY <1>7, <3>1 DEF Breaks
    <3>3. PICK op : CellAt(code, p, Ins(op, 0)) BY <3>1, <3>2 DEF BreakWaits
    <3>4. p \in 1 .. Len(code) /\ code[p].to = 0 BY <3>3 DEF CellAt, Ins
    <3>5. code[p].op \in Jumps BY <1>1, <3>1 DEF Structure, JumpAt
    <3> QED BY <3>4, <3>5
  <2> QED BY <1>8, <2>1, <2>2
<1>12. Spare(code, P) BY <1>11 DEF Spare
<1>13. ASSUME NEW k \in 1 .. Len(blocks), k # Len(blocks), NEW p \in P PROVE p \notin Holes(blocks[k])
  <2>1. CASE p = Top.pos BY <1>4, <1>5, <1>13, <2>1
  <2>2. CASE \E x \in m + 1 .. Len(break_pos) : p = break_pos[x]
    <3>1. PICK x \in 1 .. Len(break_pos) : p = break_pos[x] BY <1>9, <2>2
    <3> QED BY <1>7, <3>1 DEF Apart
  <2> QED BY <1>8, <2>1, <2>2
<1>14. \A k \in 1 .. Len(blocks) : k # Len(blocks) => Holes(blocks[k]) \cap P = {} BY <1>13
<1>15. ASSUME NEW x \in 1 .. Len(break_pos), x <= m PROVE break_pos[x] \notin P
  <2>1. break_pos[x] # Top.pos BY <1>4, <1>5
  <2>2. ASSUME NEW y \in m + 1 .. Len(break_pos) PROVE break_pos[x] # break_pos[y]
    <3>1. y \in 1 .. Len(break_pos) /\ y > m BY <1>9
    <3>2. x # y BY ONLY <1>3, <1>15, <3>1
    <3> QED BY <1>7, <3>1, <3>2 DEF Apart
  <2> QED BY <1>8, <2>1, <2>2
<1>16. \A x \in 1 .. Len(break_pos) : x > m => break_pos[x] \in P BY <1>9, <1>10
<1>17. m \in 0 .. Len(break_pos) BY ONLY <1>3
<1> QED BY <1>3, <1>12, <1>14, <1>15, <1>16, <1>17

LEMMA EndLoopFollows ==
  ASSUME GenInv, GenInv', Followed, EndLoop
  PROVE  Followed'
<1>1. Typed /\ Structure /\ blocks # <<>> /\ Kind \in LoopWords
  BY DEF GenInv, EndLoop, Kind, LoopWords
<1>2. /\ Reads(<<Tok("}")>>)
      /\ code' = Patched(Append(code, LoopJump(Top)), {Top.pos} \cup BreaksOf(Top), Here + 1)
      /\ blocks' = Outer /\ forward_decl' = forward_decl /\ label' = label
      /\ break_pos' = KeptBreaks(Top) /\ in_func' = in_func
      /\ loop_type' = Top.outer_loop
      /\ for_depth' = IF Top.kind = "for" THEN for_depth - 1 ELSE for_depth
  BY DEF EndLoop
<1>3. PICK l \in Nat : l = Len(code) /\ l > 0 /\ Here = l + 1 /\ Whole(code) BY <1>1, Facts
<1>4. /\ Top.kind \in LoopWords /\ Top \in Block /\ BlockIn(code, Len(break_pos), Top)
      /\ for_depth = DepthIn(Top) /\ Top.outer_depth \in Nat
  BY <1>1, TopFacts
<1>5. Cells(code, Top) BY <1>1, TopCells
<1>6. PICK P : P = {Top.pos} \cup BreaksOf(Top) OBVIOUS
<1>7. PICK m : m = Top.first_break OBVIOUS
<1>8. /\ Spare(code, P) /\ m \in Nat /\ m \in 0 .. Len(break_pos) /\ Len(break_pos) \in Nat
      /\ \A k \in 1 .. Len(blocks) : k # Len(blocks) => Holes(blocks[k]) \cap P = {}
      /\ \A x \in 1 .. Len(break_pos) : x <= m => break_pos[x] \notin P
      /\ \A x \in 1 .. Len(break_pos) : x > m => break_pos[x] \in P
  BY ONLY GenInv, Followed, <1>1, <1>4, <1>6, <1>7, LoopHoles
<1>9. PICK x : x = LoopJump(Top) OBVIOUS
<1>10. x \in Instr /\ x.to <= l + 2
  <2>1. Top.top \in Nat /\ Top.top <= l + 1 BY <1>3, <1>4 DEF Block, BlockIn
  <2>2. PICK op \in {"NEXT", "GOTO"} : x = Ins(op, Top.top) BY <1>9 DEF LoopJump
  <2>3. op \in Ops BY DEF Ops
  <2>4. x \in Instr /\ x.to = Top.top BY <2>1, <2>2, <2>3, InsFields
  <2> QED BY <2>1, <2>4
<1>11. PICK c : Added(code, x, c) BY DEF Added
<1>12. PICK p : p = Here OBVIOUS
<1>13. Behind(code, p) BY <1>12 DEF Behind, Here
<1>14. Kept(code, c, NoCell) /\ CellAt(c, p, x) /\ Len(c) = p
  BY ONLY <1>3, <1>10, <1>11, <1>13, OneMoreKept
<1>15. Whole(c)
  <2>1. x.to <= Len(code) + 2 BY <1>3, <1>10
  <2> QED BY <1>3, <1>10, <1>11, <2>1, OneMore
<1>16. PICK g : g = Here + 1 OBVIOUS
<1>17. PICK d : d = code' OBVIOUS
<1>18. d = Patched(c, P, g) BY <1>2, <1>6, <1>9, <1>11, <1>16, <1>17 DEF Added
<1>19. /\ Kept(c, d, P) /\ Len(d) = Len(c)
       /\ \A q \in P : \A op : CellAt(c, q, Ins(op, 0)) => CellAt(d, q, Ins(op, g))
  BY ONLY <1>15, <1>18, PatchedKept
<1>20. Len(code) \in Nat /\ Len(c) \in Nat /\ Len(d) \in Nat /\ Len(d) = l + 1
  BY <1>3, <1>12, <1>14, <1>19
<1>21. Kept(code, d, P)
  <2>1. \A q : q \in NoCell \/ q \in P => q \in P BY DEF NoCell
  <2> QED BY ONLY <1>14, <1>19, <1>20, <2>1, KeptThen
<1>22. Behind(code', g) /\ g = Len(code') + 1 BY <1>3, <1>16, <1>17, <1>20 DEF Behind
<1>23. Kept(code, code', P) BY <1>17, <1>21
<1>24. Closed(code, src, blocks, break_pos, code', src', Top)
  BY ONLY GenInv, GenInv', Followed, <1>1, <1>2, <1>8, <1>23, CloseBegins
<1>25. PICK os, t, e, n, o : ClosesWith(code, src, blocks, break_pos, code', src', os, t, e, n, o, Top)
  BY ONLY <1>24 DEF Closed
<1>26. Ending(code, src, o, Top, code', t, src', e) /\ t.at = p
  BY <1>12, <1>25 DEF ClosesWith, Here
<1>27. ASSUME NEW q \in P, NEW op, CellAt(code, q, Ins(op, 0)) PROVE CellAt(code', q, Ins(op, g))
  <2>1. PICK y : y = Ins(op, 0) OBVIOUS
  <2>2. CellAt(code, q, y) /\ q \notin NoCell BY <1>27, <2>1 DEF NoCell
  <2>3. CellAt(c, q, y) BY ONLY <1>14, <1>20, <2>2, CellKept
  <2> QED BY <1>17, <1>19, <2>1, <2>3
<1>28. CellAt(code', Top.pos, Ins(HeadOp(Top.kind), g))
  <2>1. Top.pos \in P BY <1>6
  <2>2. CellAt(code, Top.pos, Ins(HeadOp(Top.kind), 0)) BY <1>4, <1>5 DEF Cells, LoopWords
  <2> QED BY <1>27, <2>1, <2>2
<1>29. CellAt(code', t.at, LoopJump(Top))
  <2>1. p \notin P
    <3>1. \A q \in P : q \in 1 .. l BY <1>3, <1>8 DEF Spare
    <3>2. p \notin 1 .. l BY ONLY <1>3, <1>12
    <3> QED BY <3>1, <3>2
  <2>2. CellAt(d, p, x) BY ONLY <1>14, <1>19, <1>20, <2>1, CellKept
  <2> QED BY <1>9, <1>17, <1>26, <2>2
<1>30. Done(code', src', o)
  BY ONLY <1>4, <1>22, <1>26, <1>28, <1>29, LoopEnds
<1>31. BranchesEnd(code', Top) BY <1>4 DEF BranchesEnd, LoopWords
<1>32. BreaksEnd(code, code', Top, break_pos, P, m)
  <2>1. ASSUME NEW y \in 1 .. Len(break_pos), NEW op \in BreakOps, y > m,
               CellAt(code, break_pos[y], Ins(op, 0))
        PROVE  CellAt(code', break_pos[y], Ins(op, Len(code') + 1))
    <3>1. break_pos[y] \in P BY <1>8, <2>1
    <3> QED BY <1>22, <1>27, <2>1, <3>1
  <2> QED BY <1>4, <1>7, <1>8, <2>1 DEF BreaksEnd
<1>33. Starts(break_pos, m, break_pos')
  <2>1. break_pos \in Seq(1 .. Len(code)) BY <1>1 DEF Typed
  <2>2. break_pos' = SubSeq(break_pos, 1, m) BY <1>2, <1>7 DEF KeptBreaks
  <2>3. Len(break_pos') = m /\ \A i \in 1 .. m : break_pos'[i] = break_pos[i]
    BY <1>8, <2>1, <2>2, Prefix
  <2>4. m <= Len(break_pos) BY ONLY <1>8
  <2> QED BY <2>3, <2>4 DEF Starts
<1>34. Leaves(Top.kind, loop_type, for_depth, in_func, Top.outer_loop, Top.outer_depth,
              loop_type', for_depth', in_func')
  <2>1. for_depth' = Top.outer_depth
    <3>1. CASE Top.kind = "for"
      <4>1. for_depth = Top.outer_depth + 1 BY <1>4, <3>1 DEF DepthIn
      <4>2. for_depth' = for_depth - 1 BY <1>2, <3>1
      <4>3. PICK y \in Nat : y = Top.outer_depth BY <1>4
      <4>4. for_depth' = (y + 1) - 1 BY <4>1, <4>2, <4>3
      <4> QED BY <4>3, <4>4
    <3>2. CASE Top.kind = "while"
      BY <1>2, <1>4, <3>2 DEF DepthIn
    <3> QED BY <1>4, <3>1, <3>2 DEF LoopWords
  <2> QED BY <1>2, <1>4, <2>1 DEF Leaves
<1>35. Top.kind # "case" BY <1>4 DEF LoopWords
<1> QED BY ONLY GenInv, GenInv', Followed, <1>1, <1>2, <1>8, <1>23, <1>25, <1>30, <1>31, <1>32, <1>33,
           <1>34, <1>35, CloseAll

(* The end of a dispatch: the jumps Q behind its cases, its head p, and    *)
(* the table t.                                                            *)
With(P, Q, p) == P = Q \cup {p}
TableWith(c, d, P, Q, p, i, to, t) ==
  /\ Kept(c, d, P) /\ Len(d) = Len(c) + Len(t) /\ CellAt(d, p, i)
  /\ \A q \in Q : \A op : CellAt(c, q, Ins(op, 0)) => CellAt(d, q, Ins(op, to))
  /\ \A k \in 1 .. Len(t) : CellAt(d, Len(c) + k, t[k])

LEMMA TableWritten ==
  ASSUME NEW c \in Seq(Instr), NEW Q, NEW p \in 1 .. Len(c), p \notin Q, NEW to \in Nat,
         NEW i \in Instr, NEW c1, c1 = Patched(c, Q, to), NEW c2, Rewritten(c1, p, i, c2),
         NEW t \in Seq(Instr), NEW d, Longer(c2, t, d), NEW P, With(P, Q, p)
  PROVE  TableWith(c, d, P, Q, p, i, to, t)
<1>1. PICK l \in Nat : l = Len(c) BY LenProperties
<1>2. PICK m \in Nat : m = Len(t) BY LenProperties
<1>3. DOMAIN c = 1 .. l /\ \A q \in 1 .. l : c[q] \in Instr
  <2>1. \A q \in 1 .. l : c[q] \in Instr BY <1>1, ElementOfSeq
  <2> QED BY <1>1, <2>1, LenProperties
<1>4. c1 = [q \in 1 .. l |-> IF q \in Q THEN [c[q] EXCEPT !.to = to] ELSE c[q]]
  BY <1>3 DEF Patched
<1>5. ASSUME NEW q \in 1 .. l
      PROVE  /\ c1[q] \in Instr /\ (q \notin Q => c1[q] = c[q])
             /\ (q \in Q => c1[q] = [c[q] EXCEPT !.to = to])
  <2>1. CASE q \in Q
    <3>1. c1[q] = [c[q] EXCEPT !.to = to] BY <1>4, <2>1
    <3>2. c1[q] \in Instr BY <1>3, <3>1 DEF Instr
    <3> QED BY <2>1, <3>1, <3>2
  <2>2. CASE q \notin Q
    <3>1. c1[q] = c[q] BY <1>4, <2>2
    <3> QED BY <1>3, <2>2, <3>1
  <2> QED BY <2>1, <2>2
<1>6. c1 \in Seq(Instr) /\ Len(c1) = l
  <2>1. c1 \in [1 .. l -> Instr]
    <3>1. c1 = [q \in 1 .. l |-> c1[q]] BY <1>4
    <3> QED BY <1>5, <3>1
  <2> QED BY ONLY <1>1, <2>1
<1>7. c2 \in Seq(Instr) /\ Len(c2) = l /\ \A q \in 1 .. l : c2[q] = IF q = p THEN i ELSE c1[q]
  <2>1. p \in 1 .. Len(c1) BY <1>1, <1>6
  <2>2. c2 = [c1 EXCEPT ![p] = i] BY DEF Rewritten
  <2> QED BY <1>6, <2>1, <2>2, ExceptSeq
<1>8. /\ Len(d) = l + m /\ \A q \in 1 .. l + m : d[q] = IF q <= l THEN c2[q] ELSE t[q - l]
  <2>1. d = c2 \o t BY DEF Longer
  <2> QED BY <1>2, <1>7, <2>1, ConcatProperties
<1>9. ASSUME NEW q \in 1 .. l PROVE d[q] = c2[q] /\ q \in 1 .. Len(d)
  <2>1. q \in 1 .. l + m /\ q <= l BY ONLY <1>1, <1>2, q \in 1 .. l
  <2> QED BY <1>8, <2>1
<1>10. ASSUME NEW k \in 1 .. m PROVE CellAt(d, l + k, t[k])
  <2>1. l + k \in 1 .. l + m /\ ~(l + k <= l) /\ (l + k) - l = k
    BY ONLY <1>1, <1>2, k \in 1 .. m
  <2> QED BY <1>8, <2>1 DEF CellAt
<1>11. Kept(c, d, P)
  <2>1. l <= l + m BY ONLY <1>1, <1>2
  <2>2. \A q \in 1 .. l : q \notin P => d[q] = c[q] BY <1>5, <1>7, <1>9 DEF With
  <2> QED BY <1>1, <1>8, <2>1, <2>2 DEF Kept
<1>12. CellAt(d, p, i) BY <1>1, <1>7, <1>9 DEF CellAt
<1>13. ASSUME NEW q \in Q, NEW op, CellAt(c, q, Ins(op, 0)) PROVE CellAt(d, q, Ins(op, to))
  <2>1. q \in 1 .. l /\ c[q] = Ins(op, 0) /\ q # p BY <1>1, <1>13 DEF CellAt
  <2>2. d[q] = [c[q] EXCEPT !.to = to] BY <1>5, <1>7, <1>9, <2>1
  <2>3. d[q] = Ins(op, to) BY <2>1, <2>2 DEF Ins
  <2> QED BY <1>9, <2>1, <2>3 DEF CellAt
<1> QED BY <1>1, <1>2, <1>8, <1>10, <1>11, <1>12, <1>13 DEF TableWith

LEMMA CountIs ==
  ASSUME NEW b \in Block, HasCase(b)
  PROVE  CountOf(b, CaseCount(b))
<1>1. b.case_addrs \in [0 .. MaxCases - 1 -> Nat] BY DEF Block
<1>2. PICK T : T = {v + 1 : v \in {w \in DOMAIN b.case_addrs : b.case_addrs[w] # 0}}
  OBVIOUS
<1>3. DOMAIN b.case_addrs = 0 .. MaxCases - 1 BY <1>1
<1>4. \A v \in 0 .. MaxCases - 1 : v + 1 \in 0 .. MaxCases BY CodeGenAssumption
<1>5. T \subseteq 0 .. MaxCases BY <1>2, <1>3, <1>4
<1>6. T # {}
  <2>1. PICK v \in 0 .. MaxCases - 1 : b.case_addrs[v] # 0 BY DEF HasCase
  <2>2. v + 1 \in T BY <1>2, <1>3, <2>1
  <2> QED BY <2>2
<1>7. PICK n : n = Max(T) OBVIOUS
<1>8. n \in T /\ \A y \in T : y <= n
  <2>1. T \subseteq 1 .. MaxCases /\ MaxCases \in Nat
    <3>1. \A v \in 0 .. MaxCases - 1 : v + 1 \in 1 .. MaxCases BY CodeGenAssumption
    <3> QED BY <1>2, <1>3, <3>1, CodeGenAssumption
  <2>2. Innermost(T) \in T /\ \A y \in T : y <= Innermost(T)
    BY ONLY <1>6, <2>1, InnermostIn
  <2>3. Innermost(T) = Max(T) BY <1>6 DEF Innermost
  <2> QED BY <1>7, <2>2, <2>3
<1>9. n = CaseCount(b) BY <1>2, <1>7 DEF CaseCount
<1>10. n \in 0 .. MaxCases BY <1>5, <1>8
<1>11. \E v \in 0 .. MaxCases - 1 : b.case_addrs[v] # 0 /\ n = v + 1 BY <1>2, <1>3, <1>8
<1>12. \A v \in 0 .. MaxCases - 1 : b.case_addrs[v] # 0 => v + 1 <= n BY <1>2, <1>3, <1>8
<1> QED BY <1>9, <1>10, <1>11, <1>12 DEF CountOf

LEMMA EndDispatchFollows ==
  ASSUME GenInv, GenInv', Followed, EndDispatch
  PROVE  Followed'
<1>1. /\ Typed /\ Structure /\ blocks # <<>> /\ Kind = "dispatch" /\ Top.gotos # {}
  BY DEF GenInv, EndDispatch, Kind
<1>2. /\ Reads(<<Tok("}")>>) /\ blocks' = Outer /\ UNCHANGED <<context, lists>>
      /\ code' = [Patched(code, Top.gotos, Here + CaseCount(Top)) EXCEPT
                     ![Top.pos] = InsN("DISPATCH_JMP", Here, CaseCount(Top))]
                  \o JumpTable(Top)
  BY DEF EndDispatch
<1>3. PICK l \in Nat : l = Len(code) /\ l > 0 /\ Here = l + 1 /\ Whole(code) BY <1>1, Facts
<1>4. Top.kind = "dispatch" /\ Top \in Block /\ BlockIn(code, Len(break_pos), Top)
  BY <1>1, TopFacts
<1>5. /\ Cells(code, Top) /\ Spare(code, Holes(Top))
      /\ Top.pos \notin Top.ends \cup Top.gotos
  BY <1>1, TopCells
<1>6. PICK n : n = CaseCount(Top) OBVIOUS
<1>7. PICK t : t = JumpTable(Top) OBVIOUS
<1>8. n \in 0 .. MaxCases /\ t \in Seq(Instr) /\ Len(t) = n
  BY <1>1, <1>4, <1>6, <1>7, TableFacts
<1>9. PICK h : h = Here OBVIOUS
<1>10. PICK g : g = h + n OBVIOUS
<1>11. n \in Nat /\ h \in Nat /\ h # 0 /\ g \in Nat /\ g = l + n + 1 /\ h = l + 1
  <2>1. n \in Nat BY <1>8, CodeGenAssumption
  <2> QED BY ONLY <1>3, <1>9, <1>10, <2>1
<1>12. PICK p : p = Top.pos OBVIOUS
<1>13. PICK Q : Q = Top.gotos OBVIOUS
<1>14. p \in 1 .. Len(code) /\ p \notin Q
  BY <1>4, <1>5, <1>12, <1>13 DEF Cells, CellAt
<1>15. PICK i : i = InsN("DISPATCH_JMP", h, n) OBVIOUS
<1>16. i \in Instr BY <1>11, <1>15, InsFields DEF Ops
<1>17. PICK c1 : c1 = Patched(code, Q, g) OBVIOUS
<1>18. PICK c2 : Rewritten(c1, p, i, c2) BY DEF Rewritten
<1>19. PICK d : d = code' OBVIOUS
<1>20. Longer(c2, t, d)
  BY <1>2, <1>6, <1>7, <1>9, <1>10, <1>12, <1>13, <1>15, <1>17, <1>18, <1>19 DEF Longer, Rewritten
<1>21. PICK P : P = Q \cup {p} OBVIOUS
<1>22. /\ Kept(code, d, P) /\ Len(d) = Len(code) + Len(t) /\ CellAt(d, p, i)
       /\ \A q \in Q : \A op : CellAt(code, q, Ins(op, 0)) => CellAt(d, q, Ins(op, g))
       /\ \A k \in 1 .. Len(t) : CellAt(d, Len(code) + k, t[k])
  <2>1. code \in Seq(Instr) BY <1>3 DEF Whole, IsCode
  <2>2. With(P, Q, p) BY <1>21 DEF With
  <2>3. g \in Nat /\ t \in Seq(Instr) BY <1>8, <1>11
  <2>4. TableWith(code, d, P, Q, p, i, g, t)
    BY ONLY <1>14, <1>16, <1>17, <1>18, <1>20, <2>1, <2>2, <2>3, TableWritten
  <2> QED BY <2>4 DEF TableWith
<1>23. Behind(code', g)
  <2>1. g = Len(d) + 1 BY <1>3, <1>8, <1>11, <1>22
  <2> QED BY <1>19, <2>1 DEF Behind
<1>24. TableAt(code', Top, h, n, g)
  <2>1. CellAt(code', Top.pos, InsN("DISPATCH_JMP", h, n)) BY <1>12, <1>15, <1>19, <1>22
  <2>2. ASSUME NEW v \in 0 .. n - 1
        PROVE  CellAt(code', h + v, Ins("ADDR", EntryOr(Top, v, g)))
    <3>1. v + 1 \in 1 .. n /\ l + (v + 1) = h + v /\ (v + 1) - 1 = v
      BY ONLY <1>3, <1>11, v \in 0 .. n - 1
    <3>2. PICK k : k = v + 1 OBVIOUS
    <3>3. k \in 1 .. n /\ l + k = h + v /\ k - 1 = v BY <3>1, <3>2
    <3>4. t[k] = Ins("ADDR", IF Top.case_addrs[k - 1] # 0 THEN Top.case_addrs[k - 1] ELSE g)
      BY <1>6, <1>7, <1>9, <1>10, <3>3 DEF JumpTable
    <3>5. t[k] = Ins("ADDR", EntryOr(Top, v, g)) BY <3>3, <3>4 DEF EntryOr
    <3>6. CellAt(d, l + k, t[k]) BY <1>3, <1>8, <1>22, <3>3
    <3> QED BY <1>19, <3>3, <3>5, <3>6
  <2>3. ASSUME NEW q \in Top.gotos PROVE CellAt(code', q, Ins("GOTO", g))
    <3>1. CellAt(code, q, Ins("GOTO", 0)) BY <1>5 DEF Cells
    <3> QED BY <1>13, <1>19, <1>22, <3>1
  <2> QED BY <2>1, <2>2, <2>3 DEF TableAt
<1>25. CountOf(Top, n)
  <2>1. HasCase(Top) BY <1>1, <1>4 DEF BlockIn
  <2> QED BY <1>4, <1>6, <2>1, CountIs
<1>26. Kept(code, code', P) /\ \A q \in P : q \in Holes(Top)
  BY <1>4, <1>12, <1>13, <1>19, <1>21, <1>22 DEF Holes
<1>27. Spare(code, P) BY <1>5, <1>26, SpareSome
<1>28. Closed(code, src, blocks, break_pos, code', src', Top)
  BY ONLY GenInv, GenInv', Followed, <1>1, <1>2, <1>26, <1>27, CloseBegins
<1>29. PICK os, w, e, k, o : ClosesWith(code, src, blocks, break_pos, code', src', os, w, e, k, o, Top)
  BY ONLY <1>28 DEF Closed
<1>30. /\ ReadIn(code, src, os, blocks, break_pos) /\ Moves(code, src, code', w, src')
       /\ ClosingTok(w) /\ Behind(src, e) /\ Deep(blocks, k) /\ TopIs(os, k, o)
       /\ Top = blocks[k]
  BY <1>29 DEF ClosesWith
<1>31. Done(code', src', o)
  <2>1. blocks[k].kind = "dispatch" /\ TableAt(code', blocks[k], h, n, g) /\ CountOf(blocks[k], n)
    BY <1>4, <1>24, <1>25, <1>30
  <2>2. h # 0 BY <1>11
  <2>3. Done(code', src', os[k])
    BY ONLY <1>23, <1>26, <1>27, <1>30, <2>1, <2>2, DispatchEnds
  <2> QED BY <1>30, <2>3 DEF TopIs
<1>32. BranchesEnd(code', Top) BY <1>4 DEF BranchesEnd
<1>33. /\ Top.kind \notin {"case", "for", "while"} /\ break_pos' = break_pos
       /\ forward_decl' = forward_decl /\ label' = label
       /\ Leaves(Top.kind, loop_type, for_depth, in_func, Top.outer_loop, Top.outer_depth,
                 loop_type', for_depth', in_func')
  BY <1>2, <1>4 DEF lists, context, Leaves
<1> QED BY ONLY GenInv, GenInv', Followed, <1>1, <1>2, <1>26, <1>29, <1>31, <1>32, <1>33, CloseOther

(* The dispatch bs[h] becomes cs[h].                                       *)
GotoNoted(c, d, bs, cs, bp, t, h) ==
  /\ bp \in Seq(1 .. Len(c)) /\ h > 0 /\ bs[h].kind = "dispatch" /\ Len(cs) = h
  /\ \A k \in 1 .. h : k # h => cs[k] = bs[k]
  /\ Noted1(bs[h], t.at, cs[h]) /\ CellAt(d, t.at, Ins("GOTO", 0))

LEMMA CaseEnds ==
  ASSUME NEW c, NEW s, NEW os, NEW bs, NEW bp, ReadIn(c, s, os, bs, bp),
         NEW d, NEW t, NEW ss, Moves(c, s, d, t, ss), ClosingTok(t), NEW e, Behind(s, e),
         Kept(c, d, NoCell), NEW n, Deep(bs, n), NEW h, Under(n, h), bs[n].kind = "case",
         NEW us, Popped(os, us), NEW cs, GotoNoted(c, d, bs, cs, bp, t, h)
  PROVE  ReadIn(d, ss, us, cs, bp)
<1>1. /\ bp \in Seq(1 .. Len(c)) /\ h > 0 /\ bs[h].kind = "dispatch" /\ Len(cs) = h
      /\ \A k \in 1 .. h : k # h => cs[k] = bs[k]
      /\ Noted1(bs[h], t.at, cs[h]) /\ CellAt(d, t.at, Ins("GOTO", 0))
  BY DEF GotoNoted
<1> QED BY <1>1, EndCaseRead

LEMMA EndCaseFollows ==
  ASSUME GenInv, GenInv', Followed, EndCase
  PROVE  Followed'
<1>1. Typed /\ Typed' /\ Structure /\ blocks # <<>> /\ Kind = "case" BY DEF GenInv, EndCase, Kind
<1>2. /\ Reads(<<Tok("}")>>) /\ code' = Append(code, Ins("GOTO", 0))
      /\ blocks' = Append(Front(Outer), [Last(Outer) EXCEPT !.gotos = @ \cup {Here}])
      /\ UNCHANGED <<context, lists>>
  BY DEF EndCase, Unpatched
<1>3. PICK l \in Nat : l = Len(code) /\ l > 0 /\ Here = l + 1 /\ Whole(code) BY <1>1, Facts
<1>4. PICK n : n = Len(blocks) OBVIOUS
<1>5. /\ n \in Nat /\ n > 0 /\ n \in 1 .. Len(blocks) /\ Top = blocks[n] /\ blocks \in Seq(Block)
      /\ Outer \in Seq(Block) /\ Outer = Front(blocks) /\ Top.kind = "case"
  BY <1>1, <1>4, TopIsLast
<1>6. CaseInside(blocks) /\ Reading /\ Where /\ Noting BY DEF Followed
<1>7. PICK h : h = n - 1 OBVIOUS
<1>8. h \in Nat /\ h > 0 /\ h \in 1 .. h /\ h \in 1 .. Len(blocks) /\ blocks[h].kind = "dispatch"
  <2>1. n > 1 /\ blocks[n - 1].kind = "dispatch" BY <1>5, <1>6 DEF CaseInside
  <2>2. h \in Nat /\ h > 0 /\ h \in 1 .. h /\ h \in 1 .. n BY ONLY <1>5, <1>7, <2>1
  <2> QED BY <1>4, <1>7, <2>1, <2>2
<1>9. Len(Outer) = h /\ \A k \in 1 .. h : Outer[k] = blocks[k]
  BY <1>1, <1>4, <1>5, <1>7, FrontOf
<1>10. /\ Front(Outer) \in Seq(Block) /\ Len(Front(Outer)) = h - 1 /\ Last(Outer) = blocks[h]
       /\ \A k \in 1 .. h - 1 : Front(Outer)[k] = blocks[k]
  <2>1. Outer # <<>> BY <1>8, <1>9, EmptySeq
  <2>2. /\ Front(Outer) \in Seq(Block) /\ Len(Front(Outer)) = h - 1 /\ Last(Outer) = Outer[h]
        /\ \A k \in 1 .. h - 1 : Front(Outer)[k] = Outer[k]
    BY <1>5, <1>9, <2>1, FrontOf
  <2>3. \A k \in 1 .. h - 1 : k \in 1 .. h BY <1>8
  <2> QED BY <1>8, <1>9, <2>2, <2>3
<1>11. PICK b : b = [blocks[h] EXCEPT !.gotos = @ \cup {Here}] OBVIOUS
<1>12. blocks[h] \in Block BY <1>5, <1>8, ElementOfSeq
<1>13. b \in Block /\ Noted1(blocks[h], Here, b)
  <2>1. Here \in Nat /\ blocks[h].gotos \in SUBSET Nat BY <1>3, <1>12 DEF Block
  <2>2. PICK G : G = blocks[h].gotos \cup {Here} OBVIOUS
  <2>3. b = [blocks[h] EXCEPT !.gotos = G] /\ G \in SUBSET Nat BY <1>11, <2>1, <2>2
  <2> QED BY <1>12, <2>2, <2>3 DEF Block, Noted1
<1>14. PICK cs : cs = blocks' OBVIOUS
<1>15. /\ Len(cs) = h /\ cs[h] = b /\ \A k \in 1 .. h : k # h => cs[k] = blocks[k]
  <2>1. cs = Append(Front(Outer), b) BY <1>2, <1>10, <1>11, <1>14
  <2>2. /\ Len(cs) = (h - 1) + 1 /\ cs[(h - 1) + 1] = b
        /\ \A k \in 1 .. h - 1 : cs[k] = Front(Outer)[k]
    BY <1>10, <1>13, <2>1, LastOfAppend
  <2>3. \A k \in 1 .. h : k # h => k \in 1 .. h - 1 BY <1>8
  <2> QED BY <1>8, <1>10, <2>2, <2>3
<1>16. PICK x : x = Ins("GOTO", 0) OBVIOUS
<1>17. x \in Instr BY <1>16, InsFields DEF Ops
<1>18. PICK p : p = Here OBVIOUS
<1>19. Kept(code, code', NoCell) /\ CellAt(code', p, x)
  <2>1. Added(code, x, code') BY <1>2, <1>16 DEF Added
  <2>2. Behind(code, p) BY <1>18 DEF Behind, Here
  <2> QED BY ONLY <1>3, <1>17, <2>1, <2>2, OneMoreKept
<1>20. Spare(code, NoCell) BY NoCells
<1>21. Closed(code, src, blocks, break_pos, code', src', Top)
  BY ONLY GenInv, GenInv', Followed, <1>1, <1>2, <1>19, <1>20, CloseBegins
<1>22. PICK os, t, e, k, o : ClosesWith(code, src, blocks, break_pos, code', src', os, t, e, k, o, Top)
  BY ONLY <1>21 DEF Closed
<1>23. /\ ReadIn(code, src, os, blocks, break_pos) /\ Moves(code, src, code', t, src')
       /\ ClosingTok(t) /\ Behind(src, e) /\ Deep(blocks, n) /\ Begins(src, src')
       /\ TopIs(os, n, o) /\ t.at = p
  BY <1>4, <1>18, <1>22 DEF ClosesWith, Deep, Here
<1>24. PICK us : Popped(os, us) BY DEF Popped
<1>25. Under(n, h) BY <1>7 DEF Under
<1>26. break_pos \in Seq(1 .. Len(code)) /\ break_pos' = break_pos BY <1>1, <1>2 DEF Typed, lists
<1>27. blocks[n].kind = "case" /\ Noted1(blocks[h], t.at, cs[h]) /\ CellAt(code', t.at, Ins("GOTO", 0))
  BY <1>5, <1>13, <1>15, <1>16, <1>18, <1>19, <1>23
<1>28. ReadIn(code', src', us, cs, break_pos)
  <2>1. GotoNoted(code, code', blocks, cs, break_pos, t, h)
    BY <1>8, <1>15, <1>26, <1>27 DEF GotoNoted
  <2>2. blocks[n].kind = "case" BY <1>27
  <2> QED BY ONLY <1>19, <1>23, <1>24, <1>25, <2>1, <2>2, CaseEnds
<1>29. Reading' BY <1>14, <1>26, <1>28 DEF Reading
<1>30. Where'
  <2>1. Nest(src, os) /\ Len(os) = Len(blocks) /\ BlockOf(code, src, os[n], Top)
    BY <1>4, <1>5, <1>23 DEF ReadIn, Shape
  <2>2. Deep(os, n) BY <1>4, <1>5, <2>1 DEF Deep
  <2>3. t \in Token /\ Grown(src, t, src') BY <1>23 DEF Moves
  <2>4. Nest(src', us) /\ Len(us) = h /\ \A j \in 1 .. h : us[j] = os[j]
    BY ONLY <1>23, <1>24, <1>25, <2>1, <2>2, <2>3, CloseFacts
  <2>5. PICK f : Behind(src', f) BY DEF Behind
  <2>6. ContextIn(src, e, loop_type, for_depth, in_func) BY <1>6, <1>23 DEF Where, Behind
  <2>7. PICK w : WordIs(src, o, w) BY DEF WordIs
  <2>8. w = "case" BY <1>5, <1>23, <2>1, <2>7 DEF WordIs, TopIs, BlockOf, Slot
  <2>9. PICK ot : ot = Top.outer_loop OBVIOUS
  <2>10. PICK od : od = Top.outer_depth OBVIOUS
  <2>11. ContextAt(src, o, ot, od) BY <1>23, <2>1, <2>9, <2>10 DEF BlockOf, TopIs
  <2>12. Leaves(w, loop_type, for_depth, in_func, ot, od, loop_type, for_depth, in_func)
    BY <2>8 DEF Leaves
  <2>13. ContextIn(src', f, loop_type, for_depth, in_func)
    BY ONLY <1>23, <1>25, <2>1, <2>2, <2>4, <2>5, <2>6, <2>7, <2>11, <2>12, ContextClose
  <2> QED BY <1>2, <2>5, <2>13 DEF Where, Behind, context
<1>31. Noting'
  <2>1. forward_decl' = forward_decl /\ label' = label BY <1>2 DEF lists
  <2>2. LabelsStay(label, label') BY <2>1, SameLabels
  <2> QED BY ONLY <1>1, <1>6, <1>19, <1>20, <1>23, <2>1, <2>2, NotingStays
<1>32. CaseInside(blocks')
  <2>1. \A j \in 1 .. h : cs[j].kind = blocks[j].kind /\ j \in 1 .. Len(blocks)
    <3>1. \A j \in 1 .. h : j \in 1 .. n BY <1>5, <1>7
    <3>2. cs[h].kind = blocks[h].kind BY <1>13, <1>15 DEF Noted1
    <3> QED BY <1>4, <1>15, <3>1, <3>2
  <2>2. ASSUME NEW j \in 1 .. Len(cs), cs[j].kind = "case"
        PROVE  j > 1 /\ cs[j - 1].kind = "dispatch"
    <3>1. j \in 1 .. h BY <1>15
    <3>2. j > 1 /\ blocks[j - 1].kind = "dispatch" BY <1>6, <2>1, <2>2, <3>1 DEF CaseInside
    <3>3. j - 1 \in 1 .. h BY ONLY <1>8, <3>1, <3>2
    <3> QED BY <2>1, <3>2, <3>3
  <2> QED BY <1>14, <2>2 DEF CaseInside
<1> QED BY <1>29, <1>30, <1>31, <1>32 DEF Followed

-----------------------------------------------------------------------------
LEMMA TwoTokens ==
  ASSUME NEW s \in Seq(Token), NEW t \in Token, NEW u \in Token, NEW ss, ss = s \o <<t, u>>,
         NEW s1, Grown(s, t, s1)
  PROVE  Grown(s1, u, ss)
<1>1. s1 = s \o <<t>> BY AppendIsConcat DEF Grown
<1>2. s1 \in Seq(Token) BY LastOfAppend DEF Grown
<1>3. Append(s1, u) = s1 \o <<u>> BY <1>2, AppendIsConcat
<1>4. <<t>> \in Seq(Token) /\ <<u>> \in Seq(Token) /\ <<t>> \o <<u>> = <<t, u>>
  <2>1. <<t>> \in Seq(Token) /\ <<u>> \in Seq(Token) BY Short
  <2>2. PICK w : w = <<t, u>> OBVIOUS
  <2>3. w \in Seq(Token) /\ Len(w) = 2 /\ w[1] = t /\ w[2] = u BY <2>2
  <2>4. PICK v : v = <<t>> \o <<u>> OBVIOUS
  <2>5. Len(<<t>>) = 1 /\ Len(<<u>>) = 1 /\ <<t>>[1] = t /\ <<u>>[1] = u BY Short
  <2>6. v \in Seq(Token) /\ Len(v) = 2 /\ v[1] = t /\ v[2] = u
    BY <2>1, <2>4, <2>5, ConcatProperties
  <2>7. \A i \in 1 .. 2 : w[i] = v[i] BY <2>3, <2>6
  <2>8. w = v BY ONLY <2>3, <2>6, <2>7, SeqEqual
  <2> QED BY <2>1, <2>2, <2>4, <2>8
<1>5. (s \o <<t>>) \o <<u>> = s \o (<<t>> \o <<u>>) BY <1>4, ConcatAssociative
<1> QED BY <1>1, <1>3, <1>4, <1>5 DEF Grown

-----------------------------------------------------------------------------
(* The block b of the token u, which comes behind the end of the block a.  *)
BranchMade(c, d, a, b, u, lt, fd, bp) ==
  /\ CellAt(d, a.pos, Ins("IF", Len(c) + 1 + 1)) /\ Slot(u, b) /\ Cells(d, b)
  /\ b.outer_loop = lt /\ b.outer_depth = fd
  /\ b.first_break = Len(bp) /\ b.pos \notin b.ends \cup b.gotos
  /\ \A p \in Holes(b) : p > Len(c) \/ p \in Holes(a)
  /\ Chain(a) \subseteq Chain(b) /\ u.at \in Chain(b)

LEMMA BranchFollows ==
  ASSUME GenInv, GenInv', Followed, blocks # <<>>, Top.kind = "if",
         NEW w, w \in {"else", "elseif"}, Reads(<<Tok("}"), Tok(w)>>),
         NEW b \in Block, blocks' = Append(Outer, b), UNCHANGED <<context, lists>>,
         NEW P, Kept(code, code', P), OnlyPos(P, Top),
         NEW u, u = Tok(w), BranchMade(code, code', Top, b, u, loop_type, for_depth, break_pos)
  PROVE  Followed'
<1>1. Typed /\ Typed' /\ Structure BY DEF GenInv
<1>2. /\ Slot(u, b) /\ Cells(code', b) /\ b.outer_loop = loop_type /\ b.outer_depth = for_depth
  BY DEF BranchMade
<1>3. PICK t : t = Tok("}") OBVIOUS
<1>4. /\ t \in Token /\ t.tok = "}" /\ t.at = Here
      /\ u \in Token /\ u.tok = w /\ u.at = Here
  <2>1. "}" \in Words /\ w \in Words BY DEF Words, Openers
  <2> QED BY <1>1, <1>3, <2>1, TokenFacts
<1>5. src \in Seq(Token) /\ src' = src \o <<t, u>> BY <1>1, <1>3 DEF Reads, Typed
<1>6. PICK s1 : Grown(src, t, s1) BY DEF Grown
<1>7. Grown(s1, u, src')
  <2>1. PICK ss : ss = src' OBVIOUS
  <2>2. ss = src \o <<t, u>> BY <1>5, <2>1
  <2>3. Grown(s1, u, ss) BY ONLY <1>4, <1>5, <1>6, <2>2, TwoTokens
  <2> QED BY <2>1, <2>3
<1>8. Whole(code) /\ Whole(code') BY <1>1 DEF Typed
<1>9. t.at = Len(code) + 1 /\ u.at = Len(code) + 1 BY <1>4 DEF Here
<1>10. ClosingTok(t) /\ Branching(u) BY <1>4 DEF ClosingTok, Branching
<1>11. PICK os : ReadIn(code, src, os, blocks, break_pos) BY DEF Followed, Reading
<1>12. PICK e : Behind(src, e) BY DEF Behind
<1>13. PICK f : Behind(s1, f) BY DEF Behind
<1>14. PICK n : n = Len(blocks) OBVIOUS
<1>15. /\ Deep(blocks, n) /\ Top = blocks[n] /\ n \in 1 .. Len(blocks)
       /\ blocks \in Seq(Block) /\ Outer \in Seq(Block) /\ Outer = Front(blocks)
  BY <1>1, <1>14, TopIsLast DEF Deep
<1>16. PICK h : Under(n, h) BY DEF Under
<1>17. Starts(blocks, h, Outer) /\ h \in Nat
  <2>1. /\ Len(blocks) \in Nat \ {0} /\ Len(Outer) = Len(blocks) - 1
        /\ \A i \in 1 .. Len(blocks) - 1 : Outer[i] = blocks[i]
    BY <1>15, FrontOf
  <2>2. h = Len(blocks) - 1 BY <1>14, <1>16 DEF Under
  <2>3. h \in Nat /\ h <= Len(blocks) BY ONLY <2>1, <2>2
  <2> QED BY <2>1, <2>2, <2>3 DEF Starts
<1>18. OnlyPos(P, blocks[n]) BY <1>15
<1>19. PICK o1 : Popped(os, o1) BY DEF Popped
<1>20. PICK us : Pushed(o1, f, us) BY DEF Pushed
<1>21. PICK cs : cs = blocks' OBVIOUS
<1>22. Len(cs) = n /\ cs[n] = b /\ \A k \in 1 .. h : cs[k] = blocks[k]
  <2>1. Len(Outer) = h /\ \A k \in 1 .. h : Outer[k] = blocks[k] BY <1>17 DEF Starts
  <2>2. /\ Len(cs) = Len(Outer) + 1 /\ cs[Len(Outer) + 1] = b
        /\ \A k \in 1 .. Len(Outer) : cs[k] = Outer[k]
    <3>1. Outer \in Seq(Block) /\ cs = Append(Outer, b) BY <1>15, <1>21
    <3> QED BY ONLY <3>1, b \in Block, LastOfAppend
  <2>3. n = h + 1
    <3>1. n \in Nat BY <1>14, <1>15, LenProperties
    <3>2. h = n - 1 BY <1>16 DEF Under
    <3> QED BY ONLY <3>1, <3>2
  <2> QED BY <2>1, <2>2, <2>3
<1>23. ContextIn(src, e, loop_type, for_depth, in_func) BY <1>12 DEF Followed, Where, Behind
<1>24. BranchFrom(code, src, code', blocks, cs, break_pos, e, n, h, u, b)
  <2>1. break_pos \in Seq(1 .. Len(code)) BY <1>1 DEF Typed
  <2>2. ContextAt(src, e, b.outer_loop, b.outer_depth) BY <1>2, <1>23 DEF ContextIn
  <2>3. /\ CellAt(code', blocks[n].pos, Ins("IF", Len(code) + 1 + 1))
        /\ b.first_break = Len(break_pos) /\ b.pos \notin b.ends \cup b.gotos
        /\ \A p \in Holes(b) : p > Len(code) \/ p \in Holes(blocks[n])
        /\ Chain(blocks[n]) \subseteq Chain(b) /\ u.at \in Chain(b)
    BY <1>15 DEF BranchMade
  <2>4. blocks[n].kind = "if" BY <1>15
  <2> QED BY <1>2, <1>22, <2>1, <2>2, <2>3, <2>4 DEF BranchFrom
<1>25. ReadIn(code', src', us, cs, break_pos)
  BY ONLY <1>4, <1>6, <1>7, <1>8, <1>9, <1>10, <1>11, <1>12, <1>13, <1>15, <1>16, <1>17, <1>18,
          <1>19, <1>20, <1>24, Kept(code, code', P), ElseRead
<1>26. break_pos' = break_pos /\ forward_decl' = forward_decl /\ label' = label
       /\ loop_type' = loop_type /\ for_depth' = for_depth /\ in_func' = in_func
  BY DEF context, lists
<1>27. Reading' BY <1>21, <1>25, <1>26 DEF Reading
<1>28. Nest(src, os) /\ Len(os) = Len(blocks) /\ BlockOf(code, src, os[n], Top)
  BY <1>11, <1>15 DEF ReadIn, Shape
<1>29. Deep(os, n) BY <1>14, <1>15, <1>28 DEF Deep
<1>30. /\ Nest(src', us) /\ Len(us) = n /\ us[n] = f /\ \A k \in 1 .. h : us[k] = os[k]
       /\ Nest(s1, o1) /\ Len(o1) = h /\ \A k \in 1 .. h : o1[k] = os[k]
       /\ Begins(src, src') /\ Begins(src, s1) /\ Begins(s1, src')
       /\ Len(src') = f /\ src'[f] = u
  <2>1. PICK ss : ss = src' OBVIOUS
  <2>2. Grown(s1, u, ss) BY <1>7, <2>1
  <2>3. /\ Nest(ss, us) /\ Len(us) = n /\ us[n] = f /\ \A k \in 1 .. h : us[k] = os[k]
        /\ Nest(s1, o1) /\ Len(o1) = h /\ \A k \in 1 .. h : o1[k] = os[k]
        /\ Begins(src, ss) /\ Begins(src, s1) /\ Begins(s1, ss)
        /\ Len(ss) = f /\ ss[f] = u
    <3>1. Nest(src, os) /\ t \in Token /\ u \in Token BY <1>4, <1>28
    <3> QED BY ONLY <3>1, <1>6, <1>10, <2>2, <1>12, <1>13, <1>29, <1>16, <1>19, <1>20, ElseTokens
  <2> QED BY <2>1, <2>3
<1>31. ContextIn(s1, f, loop_type, for_depth, in_func)
  <2>1. PICK a : TopIs(os, n, a) BY DEF TopIs
  <2>2. PICK v : WordIs(src, a, v) BY DEF WordIs
  <2>3. PICK ot : ot = Top.outer_loop OBVIOUS
  <2>4. PICK od : od = Top.outer_depth OBVIOUS
  <2>5. ContextAt(src, a, ot, od) BY <1>28, <2>1, <2>3, <2>4 DEF TopIs, BlockOf
  <2>6. Slot(src[a], Top) BY <1>28, <2>1 DEF TopIs, BlockOf
  <2>7. v \in {"if", "elseif"} BY <2>2, <2>6 DEF WordIs, Slot
  <2>8. Leaves(v, loop_type, for_depth, in_func, ot, od, loop_type, for_depth, in_func)
    BY <2>7 DEF Leaves
  <2> QED BY ONLY <1>28, <1>30, <1>12, <1>13, <1>29, <1>16, <1>23, <2>1, <2>2, <2>5, <2>8,
             ContextClose
<1>32. PICK g : Behind(src', g) BY DEF Behind
<1>33. ContextIn(src', g, loop_type, for_depth, in_func)
  <2>1. src'[f].tok \notin {"for", "while", "func"} BY <1>4, <1>30
  <2>2. Enters(src'[f].tok, loop_type, for_depth, in_func, loop_type, for_depth, in_func)
    BY <2>1 DEF Enters
  <2>3. Behind(o1, n)
    <3>1. n \in Nat /\ h = n - 1 BY <1>14, <1>15, <1>16, LenProperties DEF Under
    <3>2. Len(o1) = h BY <1>30
    <3>3. n = Len(o1) + 1 BY ONLY <3>1, <3>2
    <3> QED BY <3>3 DEF Behind
  <2>4. \A k \in 1 .. Len(o1) : us[k] = o1[k] BY <1>30
  <2> QED BY ONLY <1>13, <1>30, <1>31, <1>32, <2>2, <2>3, <2>4, ContextOpen
<1>34. Where' BY <1>26, <1>32, <1>33 DEF Where, Behind
<1>35. Noting'
  <2>1. LabelsStay(label, label') BY <1>26, SameLabels
  <2>2. Spare(code, Holes(Top)) BY TopCells
  <2>3. \A p \in P : p \in Holes(Top) BY DEF OnlyPos, Holes
  <2>4. Spare(code, P) BY ONLY <2>2, <2>3, SpareSome
  <2>5. Noting BY DEF Followed
  <2> QED BY ONLY <1>1, <1>26, <1>30, <2>1, <2>4, <2>5, Kept(code, code', P), NotingStays
<1>36. CaseInside(blocks')
  <2>1. CaseInside(blocks) BY DEF Followed
  <2>2. Len(blocks) \in Nat BY <1>15, LenProperties
  <2>3. CaseInside(Outer) BY ONLY <1>17, <2>1, <2>2, InsideStart
  <2>4. b.kind # "case" BY <1>2, <1>4 DEF Slot
  <2>5. Added(Outer, b, blocks') BY DEF Added
  <2> QED BY ONLY <1>15, b \in Block, <2>3, <2>4, <2>5, InsideOpen
<1> QED BY <1>27, <1>34, <1>35, <1>36 DEF Followed

-----------------------------------------------------------------------------
(* The code of the jump over the other branches.                           *)
LEMMA ElseCodeKept ==
  ASSUME GenInv, Followed, blocks # <<>>, Kind = "if", NEW d, d = ElseCode(Top),
         NEW P, OnlyPos(P, Top), NEW p, Behind(code, p)
  PROVE  /\ Kept(code, d, P) /\ Whole(d) /\ Len(d) = p /\ CellAt(d, p, Ins("GOTO", 0))
         /\ CellAt(d, Top.pos, Ins("IF", p + 1))
         /\ \A q \in Top.ends : CellAt(d, q, Ins("GOTO", 0))
<1>1. Typed /\ Structure BY DEF GenInv
<1>2. PICK l \in Nat : l = Len(code) /\ l > 0 /\ Here = l + 1 /\ Whole(code) BY <1>1, Facts
<1>3. p = l + 1 /\ p = Here BY <1>2 DEF Behind
<1>4. Top.kind = "if" BY <1>1, TopFacts
<1>5. Cells(code, Top) /\ Top.pos \notin Top.ends \cup Top.gotos BY TopCells
<1>6. CellAt(code, Top.pos, Ins("IF", 0)) /\ \A q \in Top.ends : CellAt(code, q, Ins("GOTO", 0))
  BY <1>4, <1>5 DEF Cells, HeadOp
<1>7. PICK x : x = Ins("GOTO", 0) OBVIOUS
<1>8. x \in Instr /\ x.to = 0 BY <1>7, InsFields DEF Ops
<1>9. PICK c : Added(code, x, c) BY DEF Added
<1>10. Kept(code, c, NoCell) /\ CellAt(c, p, x) /\ Len(c) = p
  BY ONLY <1>2, <1>8, <1>9, Behind(code, p), OneMoreKept
<1>11. Whole(c)
  <2>1. x.to <= Len(code) + 2 BY <1>2, <1>8
  <2> QED BY <1>2, <1>8, <1>9, <2>1, OneMore
<1>12. PICK g : g = p + 1 OBVIOUS
<1>13. d = Patched(c, P, g)
  <2>1. P = {Top.pos} BY DEF OnlyPos
  <2> QED BY <1>3, <1>7, <1>9, <1>12, <2>1 DEF ElseCode, Added, Unpatched
<1>14. /\ Kept(c, d, P) /\ Len(d) = Len(c)
       /\ \A q \in P : \A op : CellAt(c, q, Ins(op, 0)) => CellAt(d, q, Ins(op, g))
  BY ONLY <1>11, <1>13, PatchedKept
<1>15. Len(code) \in Nat /\ Len(c) \in Nat /\ Len(d) \in Nat
  BY <1>2, <1>3, <1>10, <1>14
<1>16. Kept(code, d, P)
  <2>1. \A q : q \in NoCell \/ q \in P => q \in P BY DEF NoCell
  <2> QED BY ONLY <1>10, <1>14, <1>15, <2>1, KeptThen
<1>17. Whole(d) BY <1>1, ElseCodeFacts
<1>18. Top.pos \in P /\ \A q \in P : q = Top.pos BY DEF OnlyPos
<1>19. Top.pos \in 1 .. l /\ p # Top.pos BY <1>2, <1>3, <1>6 DEF CellAt
<1>20. CellAt(d, p, x)
  <2>1. p \notin P BY <1>18, <1>19
  <2> QED BY ONLY <1>10, <1>14, <1>15, <2>1, CellKept
<1>21. CellAt(d, Top.pos, Ins("IF", g))
  <2>1. PICK y : y = Ins("IF", 0) OBVIOUS
  <2>2. PICK q : q = Top.pos OBVIOUS
  <2>3. CellAt(code, q, y) /\ q \notin NoCell BY <1>6, <2>1, <2>2 DEF NoCell
  <2>4. CellAt(c, q, y) BY ONLY <1>10, <1>15, <2>3, CellKept
  <2> QED BY <1>14, <1>18, <2>1, <2>2, <2>4
<1>22. ASSUME NEW q \in Top.ends PROVE CellAt(d, q, Ins("GOTO", 0))
  <2>1. CellAt(code, q, x) /\ q \notin P BY <1>5, <1>6, <1>7, <1>18
  <2>2. CellAt(d, q, x) BY ONLY <1>15, <1>16, <2>1, CellKept
  <2> QED BY <1>7, <2>2
<1> QED BY <1>7, <1>10, <1>12, <1>14, <1>16, <1>17, <1>20, <1>21, <1>22

LEMMA ElseFollows ==
  ASSUME GenInv, GenInv', Followed, Else
  PROVE  Followed'
<1>1. Typed /\ Structure /\ blocks # <<>> /\ Kind = "if" BY DEF GenInv, Else, Kind
<1>2. PICK l \in Nat : l = Len(code) /\ l > 0 /\ Here = l + 1 BY <1>1, Facts
<1>3. Top.kind = "if" /\ Top \in Block BY <1>1, TopFacts
<1>4. PICK p : p = Here OBVIOUS
<1>5. Behind(code, p) BY <1>4 DEF Behind, Here
<1>6. PICK P : OnlyPos(P, Top)
  <2>1. OnlyPos({Top.pos}, Top) BY DEF OnlyPos
  <2> QED BY <2>1
<1>7. PICK d : d = code' OBVIOUS
<1>8. d = ElseCode(Top) BY <1>7 DEF Else
<1>9. /\ Kept(code, d, P) /\ CellAt(d, p, Ins("GOTO", 0))
      /\ CellAt(d, Top.pos, Ins("IF", p + 1))
      /\ \A q \in Top.ends : CellAt(d, q, Ins("GOTO", 0))
  BY ONLY GenInv, Followed, <1>1, <1>5, <1>6, <1>8, ElseCodeKept
<1>10. PICK n : n = NewBlock("else", Here) OBVIOUS
<1>11. PICK b : b = [n EXCEPT !.ends = Top.ends] OBVIOUS
<1>12. Fresh(b, "else", p) /\ b.ends = Top.ends /\ b.outer_loop = loop_type
  <2>1. Here \in Nat /\ "else" \in BlockKinds BY <1>2 DEF BlockKinds
  <2>2. Fresh(n, "else", Here) BY <1>1, <1>10, <2>1, FreshBlock
  <2>3. Top.ends \in SUBSET Nat BY <1>3 DEF Block
  <2>4. n.outer_loop = loop_type BY <1>10 DEF NewBlock
  <2> QED BY <1>4, <1>11, <2>2, <2>3, <2>4 DEF Fresh, Block
<1>13. /\ b \in Block /\ b.kind = "else" /\ b.pos = p /\ b.gotos = {}
       /\ b.outer_depth = for_depth /\ b.first_break = Len(break_pos)
  BY <1>12 DEF Fresh
<1>14. \A q \in Top.ends : q \in 1 .. l
  <2>1. \A q \in Top.ends : CellAt(code, q, Ins("GOTO", 0)) BY <1>1, TopCells DEF Cells
  <2> QED BY <1>2, <2>1 DEF CellAt
<1>15. p \notin b.ends \cup b.gotos
  <2>1. p \notin 1 .. l BY <1>2, <1>4
  <2> QED BY <1>12, <1>13, <1>14, <2>1
<1>16. PICK u : u = Tok("else") OBVIOUS
<1>17. u.tok = "else" /\ u.at = p BY <1>4, <1>16 DEF Tok
<1>18. BranchMade(code, code', Top, b, u, loop_type, for_depth, break_pos)
  <2>1. Slot(u, b) BY <1>13, <1>17 DEF Slot
  <2>2. Cells(d, b) BY <1>9, <1>12, <1>13 DEF Cells, HeadOp
  <2>3. ASSUME NEW q \in Holes(b) PROVE q > Len(code) \/ q \in Holes(Top)
    <3>1. q \in b.ends \/ q = p BY <1>13 DEF Holes
    <3>2. CASE q \in b.ends BY <1>12, <3>2 DEF Holes
    <3>3. CASE q = p BY <1>2, <1>4, <3>3
    <3> QED BY <3>1, <3>2, <3>3
  <2>4. Chain(Top) \subseteq Chain(b) /\ u.at \in Chain(b) BY <1>3, <1>12, <1>13, <1>17 DEF Chain
  <2>5. CellAt(d, Top.pos, Ins("IF", Len(code) + 1 + 1)) BY <1>5, <1>9 DEF Behind
  <2> QED BY <1>7, <1>12, <1>13, <1>15, <2>1, <2>2, <2>3, <2>4, <2>5 DEF BranchMade
<1>19. PICK w : w = "else" OBVIOUS
<1>20. w \in {"else", "elseif"} /\ u = Tok(w) /\ Reads(<<Tok("}"), Tok(w)>>)
  BY <1>16, <1>19 DEF Else
<1>21. blocks' = Append(Outer, b) /\ UNCHANGED <<context, lists>> BY <1>10, <1>11 DEF Else
<1>22. Kept(code, code', P) BY <1>7, <1>9
<1> QED BY ONLY GenInv, GenInv', Followed, <1>1, <1>3, <1>6, <1>13, <1>18, <1>20, <1>21, <1>22,
           BranchFollows

LEMMA ElseIfFollows ==
  ASSUME GenInv, GenInv', Followed, ElseIf
  PROVE  Followed'
<1>1. Typed /\ Structure /\ blocks # <<>> /\ Kind = "if" BY DEF GenInv, ElseIf, Kind
<1>2. PICK l \in Nat : l = Len(code) /\ l > 0 /\ Here = l + 1 BY <1>1, Facts
<1>3. Top.kind = "if" /\ Top \in Block BY <1>1, TopFacts
<1>4. PICK p : p = Here OBVIOUS
<1>5. Behind(code, p) BY <1>4 DEF Behind, Here
<1>6. PICK P : OnlyPos(P, Top)
  <2>1. OnlyPos({Top.pos}, Top) BY DEF OnlyPos
  <2> QED BY <2>1
<1>7. PICK c : c = ElseCode(Top) OBVIOUS
<1>8. /\ Kept(code, c, P) /\ Whole(c) /\ Len(c) = p /\ CellAt(c, p, Ins("GOTO", 0))
      /\ CellAt(c, Top.pos, Ins("IF", p + 1))
      /\ \A q \in Top.ends : CellAt(c, q, Ins("GOTO", 0))
  BY ONLY GenInv, Followed, <1>1, <1>5, <1>6, <1>7, ElseCodeKept
<1>9. PICK d : d = code' OBVIOUS
<1>10. PICK x : x = Ins("IF", 0) OBVIOUS
<1>11. x \in Instr BY <1>10, InsFields DEF Ops
<1>12. PICK r : r = p + 1 OBVIOUS
<1>13. Kept(c, d, NoCell) /\ CellAt(d, r, x) /\ Len(d) = r
  <2>1. Added(c, x, d) BY <1>7, <1>9, <1>10 DEF ElseIf, Added, Unpatched
  <2>2. Behind(c, r) BY <1>8, <1>12 DEF Behind
  <2> QED BY ONLY <1>8, <1>11, <2>1, <2>2, OneMoreKept
<1>14. Len(code) \in Nat /\ Len(c) \in Nat /\ Len(d) \in Nat BY <1>2, <1>4, <1>8, <1>12, <1>13
<1>15. Kept(code, d, P)
  <2>1. \A q : q \in P \/ q \in NoCell => q \in P BY DEF NoCell
  <2> QED BY ONLY <1>8, <1>13, <1>14, <2>1, KeptThen
<1>16. /\ CellAt(d, p, Ins("GOTO", 0)) /\ CellAt(d, Top.pos, Ins("IF", p + 1))
       /\ \A q \in Top.ends : CellAt(d, q, Ins("GOTO", 0))
  <2>1. ASSUME NEW q, NEW y, CellAt(c, q, y) PROVE CellAt(d, q, y)
    <3>1. q \notin NoCell BY DEF NoCell
    <3> QED BY ONLY <1>13, <1>14, <2>1, <3>1, CellKept
  <2> QED BY <1>8, <2>1
<1>17. PICK n : n = NewBlock("if", Here + 1) OBVIOUS
<1>18. PICK b : b = [n EXCEPT !.ends = Top.ends \cup {Here}] OBVIOUS
<1>19. Fresh(b, "if", r) /\ b.ends = Top.ends \cup {p} /\ b.outer_loop = loop_type
  <2>1. Here + 1 \in Nat /\ Here \in Nat /\ "if" \in BlockKinds BY <1>2 DEF BlockKinds
  <2>2. Fresh(n, "if", Here + 1) BY <1>1, <1>17, <2>1, FreshBlock
  <2>3. Top.ends \cup {Here} \in SUBSET Nat BY <1>3, <2>1 DEF Block
  <2>4. n.outer_loop = loop_type BY <1>17 DEF NewBlock
  <2> QED BY <1>4, <1>12, <1>18, <2>2, <2>3, <2>4 DEF Fresh, Block
<1>20. /\ b \in Block /\ b.kind = "if" /\ b.pos = r /\ b.gotos = {}
       /\ b.outer_depth = for_depth /\ b.first_break = Len(break_pos)
  BY <1>19 DEF Fresh
<1>21. \A q \in Top.ends : q \in 1 .. l
  <2>1. \A q \in Top.ends : CellAt(code, q, Ins("GOTO", 0)) BY <1>1, TopCells DEF Cells
  <2> QED BY <1>2, <2>1 DEF CellAt
<1>22. r \notin b.ends \cup b.gotos
  <2>1. r \notin 1 .. l /\ r # p BY <1>2, <1>4, <1>12
  <2> QED BY <1>19, <1>20, <1>21, <2>1
<1>23. PICK u : u = Tok("elseif") OBVIOUS
<1>24. u.tok = "elseif" /\ u.at = p BY <1>4, <1>23 DEF Tok
<1>25. BranchMade(code, code', Top, b, u, loop_type, for_depth, break_pos)
  <2>1. Slot(u, b)
    <3>1. b.pos = u.at + 1 /\ u.at \in b.ends BY <1>12, <1>19, <1>20, <1>24
    <3> QED BY <1>20, <1>24, <3>1 DEF Slot
  <2>2. Cells(d, b)
    <3>1. CellAt(d, b.pos, Ins(HeadOp("if"), 0)) BY <1>10, <1>13, <1>20 DEF HeadOp
    <3>2. \A q \in b.ends \cup b.gotos : CellAt(d, q, Ins("GOTO", 0)) BY <1>16, <1>19, <1>20
    <3> QED BY <1>20, <3>1, <3>2 DEF Cells
  <2>3. ASSUME NEW q \in Holes(b) PROVE q > Len(code) \/ q \in Holes(Top)
    <3>1. q \in Top.ends \/ q = p \/ q = r BY <1>19, <1>20 DEF Holes
    <3>2. CASE q \in Top.ends BY <3>2 DEF Holes
    <3>3. CASE q = p \/ q = r BY <1>2, <1>4, <1>12, <3>3
    <3> QED BY <3>1, <3>2, <3>3
  <2>4. Chain(Top) \subseteq Chain(b) /\ u.at \in Chain(b) BY <1>3, <1>19, <1>20, <1>24 DEF Chain
  <2>5. CellAt(d, Top.pos, Ins("IF", Len(code) + 1 + 1)) BY <1>5, <1>16 DEF Behind
  <2> QED BY <1>9, <1>19, <1>20, <1>22, <2>1, <2>2, <2>3, <2>4, <2>5 DEF BranchMade
<1>26. PICK w : w = "elseif" OBVIOUS
<1>27. w \in {"else", "elseif"} /\ u = Tok(w) /\ Reads(<<Tok("}"), Tok(w)>>)
  BY <1>23, <1>26 DEF ElseIf
<1>28. blocks' = Append(Outer, b) /\ UNCHANGED <<context, lists>> BY <1>17, <1>18 DEF ElseIf
<1>29. Kept(code, code', P) BY <1>9, <1>15
<1> QED BY ONLY GenInv, GenInv', Followed, <1>1, <1>3, <1>6, <1>20, <1>25, <1>27, <1>28, <1>29,
           BranchFollows

-----------------------------------------------------------------------------
(* The end of the file: the program is read, and the calls are resolved.   *)
ReadWell(c, s, i) ==
  /\ Done(c, s, i)
  /\ s[i].tok \in {"else", "elseif"} => ElseDone(c, s, i)
  /\ s[i].tok = "break" => BreakDone(c, s, i)
Finished(c, s) ==
  /\ s \in Seq(Token) /\ Len(s) > 0 /\ s[Len(s)].tok = "eof"
  /\ \A i \in 1 .. Len(s) : ReadWell(c, s, i)

LEMMA AllRead ==
  ASSUME NEW c, NEW s, NEW os, NEW bs, NEW bp, ReadIn(c, s, os, bs, bp), Len(bs) = 0,
         NEW i \in 1 .. Len(s)
  PROVE  ReadWell(c, s, i)
<1>1. Len(os) = 0 BY DEF ReadIn, Shape
<1>2. \A k \in 1 .. 0 : FALSE OBVIOUS
<1>3. ~IsOpen(os, i) BY <1>1, <1>2 DEF IsOpen
<1>4. Done(c, s, i) BY <1>3 DEF ReadIn, Told
<1>5. s[i].tok \in {"else", "elseif"} => ElseDone(c, s, i) BY <1>2 DEF ReadIn, Elses
<1>6. \A x : ~BreakWaits(c, s, os, bs, bp, i, x) BY <1>1, <1>2 DEF BreakWaits
<1>7. s[i].tok = "break" => BreakDone(c, s, i) BY <1>6 DEF ReadIn, Breaks
<1> QED BY <1>4, <1>5, <1>7 DEF ReadWell

LEMMA WellStays ==
  ASSUME NEW c, NEW s, NEW d, NEW ss, Extends(c, s, d, ss), NEW i \in 1 .. Len(s),
         ReadWell(c, s, i)
  PROVE  ReadWell(d, ss, i)
<1>1. ss[i] = s[i] BY ExtendsFacts
<1>2. Done(c, s, i) BY DEF ReadWell
<1>3. Done(d, ss, i) BY ONLY Extends(c, s, d, ss), i \in 1 .. Len(s), <1>2, DoneStays
<1>4. ASSUME ss[i].tok \in {"else", "elseif"} PROVE ElseDone(d, ss, i)
  <2>1. ElseDone(c, s, i) BY <1>1, <1>4 DEF ReadWell
  <2> QED BY ONLY Extends(c, s, d, ss), i \in 1 .. Len(s), <2>1, ElseStays
<1>5. ASSUME ss[i].tok = "break" PROVE BreakDone(d, ss, i)
  <2>1. BreakDone(c, s, i) BY <1>1, <1>5 DEF ReadWell
  <2> QED BY ONLY Extends(c, s, d, ss), i \in 1 .. Len(s), <2>1, BreakStays
<1> QED BY <1>3, <1>4, <1>5 DEF ReadWell

(* A cell that is noted, and leads somewhere, leads where it will.         *)
LEMMA ResolvedKept ==
  ASSUME Typed, Noting, NEW m \in Nat, Here <= m, NEW c, IsCode(c, m), Len(code) <= Len(c),
         \A p \in 1 .. Len(code) : c[p] = code[p], NEW d, d = Resolved(c)
  PROVE  FirmKept(code, d)
<1>1. /\ Len(d) = Len(c)
      /\ \A p \in 1 .. Len(c) : d[p].op = c[p].op /\ d[p].n = c[p].n /\ d[p] \in Instr
      /\ \A p \in 1 .. Len(c) : ~Pending(forward_decl, p) => d[p] = c[p]
      /\ \A p \in 1 .. Len(c), f \in Funcs :
           (/\ Pending(forward_decl, p)
            /\ \A k \in 1 .. Len(forward_decl) :
                 forward_decl[k].pos = p => forward_decl[k].fn = f)
           => d[p].to = label[f]
  BY ResolvedCode
<1>2. Len(code) \in Nat /\ Len(c) \in Nat BY Facts, LenProperties DEF IsCode
<1>3. \A p \in 1 .. Len(code) : p \in 1 .. Len(c) BY ONLY <1>2, Len(code) <= Len(c)
<1>4. code \in Seq(Instr) BY Facts DEF Whole, IsCode
<1>5. ASSUME NEW p \in 1 .. Len(code), Firm(code[p]), Pending(forward_decl, p)
      PROVE  d[p] = code[p]
  <2>1. PICK k \in 1 .. Len(forward_decl) : forward_decl[k].pos = p BY <1>5 DEF Pending
  <2>2. PICK x : x = forward_decl[k] OBVIOUS
  <2>3. x \in Note /\ x.pos = p
    <3>1. forward_decl \in Seq(Note) BY DEF Typed
    <3>2. forward_decl[k] \in Note BY ONLY <3>1, k \in 1 .. Len(forward_decl), ElementOfSeq
    <3> QED BY <2>1, <2>2, <3>2
  <2>4. NoteIn(code, src, label, x) BY <2>2 DEF Noting, Notes
  <2>5. code[p].op \in {"GOSUB", "ADDR"} /\ code[p].to \in {0, label[x.fn]}
    BY <2>3, <2>4 DEF NoteIn
  <2>6. code[p].to = label[x.fn] BY <1>5, <2>5 DEF Firm, FinalOps
  <2>7. x.fn \in Funcs BY <2>3 DEF Note
  <2>8. \A j \in 1 .. Len(forward_decl) :
           forward_decl[j].pos = p => forward_decl[j].fn = x.fn
    BY <2>1, <2>2 DEF Noting, Notes
  <2>9. p \in 1 .. Len(c) BY <1>3
  <2>10. d[p].to = label[x.fn] BY <1>1, <1>5, <2>7, <2>8, <2>9
  <2>11. d[p].op = code[p].op /\ d[p].n = code[p].n /\ d[p] \in Instr BY <1>1, <2>9
  <2>12. code[p] \in Instr BY ONLY <1>4, p \in 1 .. Len(code), ElementOfSeq
  <2> QED BY ONLY <2>6, <2>10, <2>11, <2>12 DEF Instr
<1>6. ASSUME NEW p \in 1 .. Len(code), Firm(code[p]) PROVE d[p] = code[p]
  BY <1>1, <1>3, <1>5, <1>6
<1>7. Len(code) <= Len(d) BY <1>1
<1> QED BY <1>6, <1>7 DEF FirmKept

LEMMA FileFinished ==
  ASSUME GenInv, GenInv', Followed, EndOfFile, err_count = 0, Unresolved = {}
  PROVE  Finished(code', src')
<1>1. Typed /\ Typed' BY DEF GenInv
<1>2. /\ blocks = <<>> /\ code' = Resolved(Append(code, Ins("END", 0)))
      /\ src' = Append(src, Tok("eof"))
  BY DEF EndOfFile
<1>3. PICK l \in Nat : l = Len(code) /\ Here = l + 1 /\ Whole(code) BY <1>1, Facts
<1>4. PICK t : t = Tok("eof") OBVIOUS
<1>5. t \in Token /\ t.tok = "eof" /\ t.at = Here
  <2>1. "eof" \in Words BY DEF Words
  <2> QED BY <1>1, <1>4, <2>1, TokenFacts
<1>6. src \in Seq(Token) /\ Grown(src, t, src') BY <1>1, <1>2, <1>4 DEF Typed, Grown
<1>7. PICK e : e = Len(src) + 1 OBVIOUS
<1>8. /\ Begins(src, src') /\ src' \in Seq(Token) /\ Len(src') = e /\ src'[e] = t
      /\ e \in 1 .. Len(src') /\ Len(src) \in Nat
  <2>1. PICK ss : ss = src' OBVIOUS
  <2>2. Grown(src, t, ss) BY <1>6, <2>1
  <2>3. /\ Begins(src, ss) /\ ss \in Seq(Token) /\ Len(ss) = e /\ ss[e] = t
        /\ e \in 1 .. Len(ss) /\ Len(src) \in Nat
    BY ONLY <1>5, <1>6, <1>7, <2>2, GrownFacts
  <2> QED BY <2>1, <2>3
<1>9. PICK x : x = Ins("END", 0) OBVIOUS
<1>10. x \in Instr /\ x.to = 0 BY <1>9, InsFields DEF Ops
<1>11. PICK c : Added(code, x, c) BY DEF Added
<1>12. /\ Whole(c) /\ Len(c) = l + 1 /\ \A p \in 1 .. l : c[p] = code[p]
  <2>1. x.to <= Len(code) + 2 BY <1>3, <1>10
  <2>2. Whole(c) /\ Len(c) = l + 1 BY <1>3, <1>10, <1>11, <2>1, OneMore
  <2>3. code \in Seq(Instr) BY <1>3 DEF Whole, IsCode
  <2>4. \A p \in 1 .. Len(code) : c[p] = code[p] BY <1>10, <1>11, <2>3, LastOfAppend DEF Added
  <2> QED BY <1>3, <2>2, <2>4
<1>13. PICK d : d = code' OBVIOUS
<1>14. d = Resolved(c) BY <1>2, <1>9, <1>11, <1>13 DEF Added
<1>15. FirmKept(code, d)
  <2>1. PICK m \in Nat : m = l + 2 OBVIOUS
  <2>2. IsCode(c, m) /\ Here <= m /\ Len(code) <= Len(c) BY <1>3, <1>12, <2>1 DEF Whole
  <2>3. Noting BY DEF Followed
  <2>4. \A p \in 1 .. Len(code) : c[p] = code[p] BY <1>3, <1>12
  <2> QED BY ONLY <1>1, <1>14, m \in Nat, <2>2, <2>3, <2>4, ResolvedKept
<1>16. PICK os : ReadIn(code, src, os, blocks, break_pos) BY DEF Followed, Reading
<1>17. Extends(code, src, d, src')
  <2>1. Placed(code, src) BY <1>16 DEF ReadIn, Shape
  <2>2. Whole(code) /\ Whole(d) BY <1>1, <1>13 DEF Typed
  <2>3. Len(src) < Len(src') BY <1>7, <1>8
  <2>4. src'[Len(src) + 1].at = Len(code) + 1 BY <1>5, <1>7, <1>8 DEF Here
  <2>5. src'[Len(src) + 1].tok \notin {"else", "elseif"} BY <1>5, <1>7, <1>8
  <2> QED BY <1>8, <1>15, <2>1, <2>2, <2>3, <2>4, <2>5 DEF Extends
<1>18. Len(blocks) = 0 BY <1>2, EmptySeq
<1>19. ASSUME NEW i \in 1 .. Len(src) PROVE ReadWell(d, src', i)
  <2>1. ReadWell(code, src, i) BY ONLY <1>16, <1>18, i \in 1 .. Len(src), AllRead
  <2> QED BY ONLY <1>17, <2>1, i \in 1 .. Len(src), WellStays
<1>20. ReadWell(d, src', e) BY <1>5, <1>8 DEF ReadWell, Done, LoopWords
<1>21. \A i \in 1 .. Len(src') : i \in 1 .. Len(src) \/ i = e BY <1>7, <1>8
<1> QED BY <1>5, <1>7, <1>8, <1>13, <1>19, <1>20, <1>21 DEF Finished

-----------------------------------------------------------------------------
(* Why a program s is refused at token i: Cause, of any program.           *)
WaitingIn(s, i) == {k \in InTokens(s, {"break"}) :
                      k < i /\ LoopOf(s, k) \in AroundIn(s, i, LoopWords)}
ForwardIn(s) == InTokens(s, {"entry"}) \cup
  {k \in InTokens(s, {"call"}) : \A j \in InTokens(s, {"func"}) : s[j].fn = s[k].fn => j > k}
ForwardTo(s, i) == {k \in ForwardIn(s) : k < i}
CauseIn(s, i) ==
  \/ s[i].tok = "break" /\ LoopsIn(s, i, LoopWords) = {}
  \/ s[i].tok = "break" /\ Cardinality(WaitingIn(s, i)) >= MaxBreaks
  \/ s[i].tok = "return" /\ OutsideIn(s, i)
  \/ s[i].tok = "func" /\ \E k \in InTokens(s, {"func"}) : k < i /\ s[k].fn = s[i].fn
  \/ s[i].tok \in {"call", "entry"} /\ Cardinality(ForwardTo(s, i)) >= MaxFwDecls
  \/ s[i].tok = "case" /\ s[i].val >= MaxCases
  \/ s[i].tok = "case" /\ \E k \in InTokens(s, {"case"}) : k < i /\ s[k].val = s[i].val
  \/ s[i].tok = "eof" /\ AroundIn(s, i, Openers) # {}
  \/ s[i].tok = "eof" /\ \E k \in ForwardIn(s) :
       \A j \in InTokens(s, {"func"}) : s[j].fn # s[k].fn
  \/ s[i].tok = "bad"
Refusing(s) == Len(s) > 0 /\ CauseIn(s, Len(s))

LEMMA AtEnd ==
  ASSUME NEW s \in Seq(Token), NEW t \in Token, NEW ss, Grown(s, t, ss), NEW e, Behind(s, e)
  PROVE  /\ Begins(s, ss) /\ ss \in Seq(Token) /\ Len(ss) = e /\ ss[e] = t /\ e > 0
         /\ e \in Nat /\ \A k \in 1 .. Len(s) : k < e /\ k \in 1 .. Len(ss) /\ ss[k] = s[k]
         /\ \A k \in 1 .. Len(ss) : k \in 1 .. Len(s) \/ k = e
         /\ \A S \in SUBSET Openers : /\ AroundIn(ss, e, S) = AroundIn(s, e, S)
                                      /\ LoopsIn(ss, e, S) = LoopsIn(s, e, S)
<1>1. e = Len(s) + 1 BY DEF Behind
<1>2. /\ Begins(s, ss) /\ ss \in Seq(Token) /\ Len(ss) = e /\ ss[e] = t
      /\ e \in Nat /\ Len(s) \in Nat
  BY ONLY <1>1, s \in Seq(Token), t \in Token, Grown(s, t, ss), GrownFacts
<1>3. e > 0 /\ \A k \in 1 .. Len(s) : k < e /\ k \in 1 .. Len(ss) BY ONLY <1>1, <1>2
<1>4. \A k \in 1 .. Len(s) : ss[k] = s[k] BY <1>2 DEF Begins
<1>5. \A k \in 1 .. Len(ss) : k \in 1 .. Len(s) \/ k = e BY ONLY <1>1, <1>2
<1>6. e \in Int /\ e <= Len(s) + 1 BY ONLY <1>1, <1>2
<1>7. SameAround(s, e, ss, e) BY ONLY <1>2, <1>6, EarlierContext
<1>8. ASSUME NEW S \in SUBSET Openers
      PROVE  AroundIn(ss, e, S) = AroundIn(s, e, S) /\ LoopsIn(ss, e, S) = LoopsIn(s, e, S)
  BY ONLY <1>2, <1>6, <1>7, S \in SUBSET Openers, SameAroundAll
<1> QED BY <1>2, <1>3, <1>4, <1>5, <1>8

(* There are at least as many tokens as there are positions that they have.*)
LEMMA TokensAtLeast ==
  ASSUME NEW s \in Seq(Token), NEW W, W \subseteq 1 .. Len(s), NEW n \in Nat, NEW h,
         \A x \in 1 .. n : \E i \in W : s[i].at = h[x],
         \A x, y \in 1 .. n : x # y => h[x] # h[y]
  PROVE  Cardinality(W) >= n
<1>1. PICK f : f = [x \in 1 .. n |-> CHOOSE i \in W : s[i].at = h[x]] OBVIOUS
<1>2. \A x \in 1 .. n : f[x] \in W /\ s[f[x]].at = h[x] BY <1>1
<1>3. f \in [1 .. n -> W] BY <1>1, <1>2
<1>4. \A x, y \in 1 .. n : f[x] = f[y] => x = y BY <1>2
<1>5. f \in Injection(1 .. n, W) BY <1>3, <1>4 DEF Injection, IsInjective
<1>6. IsFiniteSet(W) /\ Cardinality(W) \in Nat
  <2>1. Len(s) \in Nat BY LenProperties
  <2>2. IsFiniteSet(1 .. Len(s)) BY <2>1, FS_Interval
  <2>3. IsFiniteSet(W) BY <2>2, FS_Subset
  <2> QED BY <2>3, FS_CardinalityType
<1>7. Cardinality(1 .. n) <= Cardinality(W) BY <1>5, <1>6, FS_Injection
<1>8. Cardinality(1 .. n) = n
  <2>1. Cardinality(1 .. n) = IF 1 > n THEN 0 ELSE n - 1 + 1 BY FS_Interval
  <2> QED BY ONLY <2>1, n \in Nat
<1> QED BY <1>6, <1>7, <1>8

-----------------------------------------------------------------------------
LEMMA BreakCause ==
  ASSUME GenInv, Followed, NEW t \in Token, NEW ss, Grown(src, t, ss), t.tok = "break",
         BreakRefused
  PROVE  Refusing(ss)
<1>1. src \in Seq(Token) /\ break_pos \in Seq(1 .. Len(code)) BY DEF GenInv, Typed
<1>2. PICK e : Behind(src, e) BY DEF Behind
<1>3. /\ Begins(src, ss) /\ ss \in Seq(Token) /\ Len(ss) = e /\ ss[e] = t /\ e > 0
      /\ e \in Nat /\ \A k \in 1 .. Len(src) : k < e /\ k \in 1 .. Len(ss) /\ ss[k] = src[k]
      /\ \A S \in SUBSET Openers : /\ AroundIn(ss, e, S) = AroundIn(src, e, S)
                                   /\ LoopsIn(ss, e, S) = LoopsIn(src, e, S)
  BY ONLY <1>1, <1>2, t \in Token, Grown(src, t, ss), AtEnd
<1>4. LoopWords \in SUBSET Openers BY DEF LoopWords, Openers
<1>5. CASE loop_type = "none"
  <2>1. ContextAt(src, e, loop_type, for_depth) BY <1>2 DEF Followed, Where, ContextIn, Behind
  <2>2. e \in Int BY <1>3
  <2>3. LoopOf(src, e) # 0 => src[LoopOf(src, e)].tok \in LoopWords
    BY ONLY <1>1, <2>2, LoopOfFacts
  <2>4. LoopOf(src, e) = 0 BY <1>5, <2>1, <2>3 DEF ContextAt, LoopWords
  <2>5. LoopsIn(src, e, LoopWords) = {}
    <3>1. Innermost(LoopsIn(src, e, LoopWords)) = 0 <=> LoopsIn(src, e, LoopWords) = {}
      BY ONLY <1>1, <2>2, LoopsAreSet
    <3> QED BY <2>4, <3>1 DEF LoopOf
  <2>6. LoopsIn(ss, e, LoopWords) = {} BY <1>3, <1>4, <2>5
  <2> QED BY <1>3, <2>6 DEF Refusing, CauseIn
<1>6. CASE Len(break_pos) >= MaxBreaks
  <2>1. PICK os : ReadIn(code, src, os, blocks, break_pos) BY DEF Followed, Reading
  <2>2. Nest(src, os) /\ Apart(blocks, break_pos) BY <2>1 DEF ReadIn, Shape
  <2>3. PICK W : W = WaitingIn(ss, e) OBVIOUS
  <2>4. ASSUME NEW x \in 1 .. Len(break_pos) PROVE \E i \in W : ss[i].at = break_pos[x]
    <3>1. PICK i \in 1 .. Len(src) : BreakWaits(code, src, os, blocks, break_pos, i, x)
      BY <2>1 DEF ReadIn, Breaks
    <3>2. src[i].tok = "break" /\ break_pos[x] = src[i].at /\ LoopOf(src, i) # 0
      BY <3>1 DEF BreakWaits
    <3>3. PICK q \in 1 .. Len(os) : os[q] = LoopOf(src, i)
      BY <3>1 DEF BreakWaits, BreakFor
    <3>4. IsOpen(os, LoopOf(src, i)) BY <3>3 DEF IsOpen
    <3>5. e = Len(src) + 1 BY <1>2 DEF Behind
    <3>6. LoopOf(src, i) \in AroundIn(src, e, Openers)
      BY ONLY <2>2, <3>4, <3>5, AroundEnd
    <3>7. src[LoopOf(src, i)].tok \in LoopWords
      <4>1. i \in Int OBVIOUS
      <4> QED BY ONLY <1>1, <3>2, <4>1, LoopOfFacts
    <3>8. LoopOf(src, i) \in AroundIn(src, e, LoopWords)
      BY ONLY <1>4, <3>6, <3>7, AroundSome
    <3>9. LoopOf(ss, i) = LoopOf(src, i)
      BY ONLY <1>3, i \in 1 .. Len(src), LoopOfStays
    <3>10. LoopOf(ss, i) \in AroundIn(ss, e, LoopWords) BY <1>3, <1>4, <3>8, <3>9
    <3>11. i \in InTokens(ss, {"break"}) /\ i < e /\ ss[i].at = break_pos[x]
      <4>1. i \in 1 .. Len(ss) /\ ss[i] = src[i] /\ i < e BY <1>3
      <4>2. DOMAIN ss = 1 .. Len(ss) BY <1>3
      <4> QED BY <3>2, <4>1, <4>2 DEF InTokens
    <3> QED BY <2>3, <3>10, <3>11 DEF WaitingIn
  <2>5. W \subseteq 1 .. Len(ss)
    <3>1. DOMAIN ss = 1 .. Len(ss) BY <1>3
    <3> QED BY <2>3, <3>1 DEF WaitingIn, InTokens
  <2>6. PICK n : n = Len(break_pos) OBVIOUS
  <2>7. n \in Nat BY <1>1, <2>6, LenProperties
  <2>8. PICK h : h = break_pos OBVIOUS
  <2>9. \A x, y \in 1 .. n : x # y => h[x] # h[y] BY <2>2, <2>6, <2>8 DEF Apart
  <2>10. \A x \in 1 .. n : \E i \in W : ss[i].at = h[x] BY <2>4, <2>6, <2>8
  <2>11. Cardinality(W) >= n BY ONLY <1>3, <2>5, <2>7, <2>9, <2>10, TokensAtLeast
  <2>12. Cardinality(W) >= MaxBreaks
    <3>1. Cardinality(W) \in Nat
      <4>1. IsFiniteSet(1 .. Len(ss)) BY <1>3, FS_Interval
      <4>2. IsFiniteSet(W) BY <2>5, <4>1, FS_Subset
      <4> QED BY <4>2, FS_CardinalityType
    <3> QED BY <1>6, <2>6, <2>7, <2>11, <3>1, CodeGenAssumption
  <2> QED BY <1>3, <2>3, <2>12 DEF Refusing, CauseIn
<1> QED BY <1>5, <1>6 DEF BreakRefused

LEMMA ReturnCause ==
  ASSUME GenInv, Followed, NEW t \in Token, NEW ss, Grown(src, t, ss), t.tok = "return", ~in_func
  PROVE  Refusing(ss)
<1>1. src \in Seq(Token) BY DEF GenInv, Typed
<1>2. PICK e : Behind(src, e) BY DEF Behind
<1>3. /\ Begins(src, ss) /\ Len(ss) = e /\ ss[e] = t /\ e > 0
      /\ \A S \in SUBSET Openers : /\ AroundIn(ss, e, S) = AroundIn(src, e, S)
                                   /\ LoopsIn(ss, e, S) = LoopsIn(src, e, S)
  BY ONLY <1>1, <1>2, t \in Token, Grown(src, t, ss), AtEnd
<1>4. OutsideIn(src, e) BY <1>2 DEF Followed, Where, ContextIn, Behind
<1>5. AroundIn(ss, e, FuncWord) = AroundIn(src, e, FuncWord)
  BY <1>3 DEF FuncWord, Openers
<1>6. OutsideIn(ss, e) BY ONLY <1>3, <1>4, <1>5, OutsideSame
<1> QED BY <1>3, <1>6 DEF Refusing, CauseIn

LEMMA FuncCause ==
  ASSUME GenInv, Going, NEW f \in Funcs, label[f] # 0,
         NEW t \in Token, NEW ss, Grown(src, t, ss), t.tok = "func", t.fn = f
  PROVE  Refusing(ss)
<1>1. src \in Seq(Token) BY DEF GenInv, Typed
<1>2. PICK e : Behind(src, e) BY DEF Behind
<1>3. /\ Len(ss) = e /\ ss[e] = t /\ e > 0 /\ ss \in Seq(Token)
      /\ \A k \in 1 .. Len(src) : k < e /\ k \in 1 .. Len(ss) /\ ss[k] = src[k]
  BY ONLY <1>1, <1>2, t \in Token, Grown(src, t, ss), AtEnd
<1>4. PICK k \in 1 .. Len(src) : src[k].tok = "func" /\ src[k].fn = f
  BY DEF GenInv, Calls, CallsIn, Defined
<1>5. k \in InTokens(ss, {"func"}) /\ k < e /\ ss[k].fn = f
  <2>1. DOMAIN ss = 1 .. Len(ss) BY <1>3
  <2> QED BY <1>3, <1>4, <2>1 DEF InTokens
<1> QED BY <1>3, <1>5 DEF Refusing, CauseIn

(* A token whose call is noted has to be remembered.                       *)
LEMMA NotedForward ==
  ASSUME Typed, NEW d, NoteIn(code, src, label, d),
         NEW t \in Token, NEW ss, Grown(src, t, ss), t.tok # "func", NEW e, Behind(src, e)
  PROVE  \E i \in ForwardTo(ss, e) : ss[i].at = d.pos /\ ss[i].fn = d.fn
<1>1. src \in Seq(Token) BY DEF Typed
<1>2. /\ Len(ss) = e /\ ss[e] = t /\ ss \in Seq(Token)
      /\ \A k \in 1 .. Len(src) : k < e /\ k \in 1 .. Len(ss) /\ ss[k] = src[k]
      /\ \A k \in 1 .. Len(ss) : k \in 1 .. Len(src) \/ k = e
  BY ONLY <1>1, t \in Token, Grown(src, t, ss), Behind(src, e), AtEnd
<1>3. DOMAIN ss = 1 .. Len(ss) BY <1>2
<1>4. PICK i \in 1 .. Len(src) :
        /\ src[i].at = d.pos /\ src[i].fn = d.fn
        /\ \/ src[i].tok = "entry"
           \/ src[i].tok = "call" /\ \A j \in 1 .. Len(src) :
                src[j].tok = "func" /\ src[j].fn = d.fn => j > i
  BY DEF NoteIn
<1>5. i \in 1 .. Len(ss) /\ ss[i] = src[i] /\ i < e BY <1>2
<1>6. i \in ForwardIn(ss)
  <2>1. CASE ss[i].tok = "entry" BY <1>3, <1>5, <2>1 DEF ForwardIn, InTokens
  <2>2. CASE ss[i].tok # "entry"
    <3>1. ss[i].tok = "call" BY <1>4, <1>5, <2>2
    <3>2. ASSUME NEW j \in InTokens(ss, {"func"}), ss[j].fn = ss[i].fn PROVE j > i
      <4>1. j \in 1 .. Len(ss) /\ ss[j].tok = "func" BY <1>3 DEF InTokens
      <4>2. j \in 1 .. Len(src) /\ ss[j] = src[j] BY <1>2, <4>1
      <4> QED BY <1>4, <1>5, <2>2, <3>2, <4>1, <4>2
    <3> QED BY <1>3, <1>5, <3>1, <3>2 DEF ForwardIn, InTokens
  <2> QED BY <2>1, <2>2
<1> QED BY <1>4, <1>5, <1>6 DEF ForwardTo

LEMMA ListCause ==
  ASSUME GenInv, Followed, NEW t \in Token, NEW ss, Grown(src, t, ss),
         t.tok \in {"call", "entry"}, ListFull
  PROVE  Refusing(ss)
<1>1. Typed /\ src \in Seq(Token) /\ forward_decl \in Seq(Note) BY DEF GenInv, Typed
<1>2. PICK e : Behind(src, e) BY DEF Behind
<1>3. /\ Len(ss) = e /\ ss[e] = t /\ e > 0 /\ ss \in Seq(Token) /\ e \in Nat
  BY ONLY <1>1, <1>2, t \in Token, Grown(src, t, ss), AtEnd
<1>4. PICK n : n = Len(forward_decl) OBVIOUS
<1>5. n \in Nat BY <1>1, <1>4, LenProperties
<1>6. PICK h : h = [x \in 1 .. n |-> forward_decl[x].pos] OBVIOUS
<1>7. PICK W : W = ForwardTo(ss, e) OBVIOUS
<1>8. ASSUME NEW x \in 1 .. n PROVE \E i \in W : ss[i].at = h[x]
  <2>1. PICK d : d = forward_decl[x] OBVIOUS
  <2>2. NoteIn(code, src, label, d) BY <1>4, <2>1 DEF Followed, Noting, Notes
  <2>3. t.tok # "func" OBVIOUS
  <2>4. \E i \in ForwardTo(ss, e) : ss[i].at = d.pos /\ ss[i].fn = d.fn
    BY ONLY <1>1, <1>2, t \in Token, Grown(src, t, ss), <2>2, <2>3, NotedForward
  <2> QED BY <1>6, <1>7, <2>1, <2>4
<1>9. \A x, y \in 1 .. n : x # y => h[x] # h[y]
  BY <1>4, <1>6 DEF Followed, Noting, Notes
<1>10. W \subseteq 1 .. Len(ss)
  <2>1. DOMAIN ss = 1 .. Len(ss) BY <1>3
  <2> QED BY <1>7, <2>1 DEF ForwardTo, ForwardIn, InTokens
<1>11. Cardinality(W) >= n BY ONLY <1>3, <1>5, <1>8, <1>9, <1>10, TokensAtLeast
<1>12. Cardinality(W) >= MaxFwDecls
  <2>1. Cardinality(W) \in Nat
    <3>1. IsFiniteSet(1 .. Len(ss)) BY <1>3, FS_Interval
    <3>2. IsFiniteSet(W) BY <1>10, <3>1, FS_Subset
    <3> QED BY <3>2, FS_CardinalityType
  <2>2. n >= MaxFwDecls BY <1>4 DEF ListFull
  <2> QED BY ONLY <1>5, <1>11, <2>1, <2>2, CodeGenAssumption
<1> QED BY <1>3, <1>7, <1>12 DEF Refusing, CauseIn

-----------------------------------------------------------------------------
LEMMA CaseCause ==
  ASSUME GenInv, Followed, blocks # <<>>, Kind = "dispatch", NEW v \in Nat, CaseRefused(v),
         NEW t \in Token, NEW ss, Grown(src, t, ss), t.tok = "case", t.val = v
  PROVE  Refusing(ss)
<1>1. Typed /\ Structure /\ src \in Seq(Token) BY DEF GenInv, Typed
<1>2. PICK e : Behind(src, e) BY DEF Behind
<1>3. /\ Len(ss) = e /\ ss[e] = t /\ e > 0 /\ ss \in Seq(Token)
      /\ \A k \in 1 .. Len(src) : k < e /\ k \in 1 .. Len(ss) /\ ss[k] = src[k]
  BY ONLY <1>1, <1>2, t \in Token, Grown(src, t, ss), AtEnd
<1>4. CASE v >= MaxCases BY <1>3, <1>4 DEF Refusing, CauseIn
<1>5. CASE ~(v >= MaxCases)
  <2>1. v < MaxCases /\ v \in 0 .. MaxCases - 1 BY <1>5, CodeGenAssumption
  <2>2. Top.case_addrs[v] # 0 BY <2>1 DEF CaseRefused
  <2>3. PICK n : n = Len(blocks) OBVIOUS
  <2>4. n \in 1 .. Len(blocks) /\ Top = blocks[n] /\ Kind = Top.kind
    BY <1>1, <2>3, TopIsLast
  <2>5. PICK os : ReadIn(code, src, os, blocks, break_pos) BY DEF Followed, Reading
  <2>6. CasesAt(src, os, blocks, n) BY <2>4, <2>5 DEF ReadIn, Cases
  <2>7. PICK k \in CasesIn(src, os[n], Len(src) + 1) : src[k].val = v
    BY <2>1, <2>2, <2>4, <2>6 DEF CasesAt
  <2>8. k \in 1 .. Len(src) /\ src[k].tok = "case"
    BY ONLY <1>1, <2>7, CasesAreSet
  <2>9. k \in InTokens(ss, {"case"}) /\ k < e /\ ss[k].val = v
    <3>1. DOMAIN ss = 1 .. Len(ss) BY <1>3
    <3> QED BY <1>3, <2>7, <2>8, <3>1 DEF InTokens
  <2> QED BY <1>3, <2>9 DEF Refusing, CauseIn
<1> QED BY <1>4, <1>5

LEMMA BadCause ==
  ASSUME Typed, NEW t \in Token, NEW ss, Grown(src, t, ss), t.tok = "bad"
  PROVE  Refusing(ss)
<1>1. src \in Seq(Token) BY DEF Typed
<1>2. PICK e : Behind(src, e) BY DEF Behind
<1>3. Len(ss) = e /\ ss[e] = t /\ e > 0
  BY ONLY <1>1, <1>2, t \in Token, Grown(src, t, ss), AtEnd
<1> QED BY <1>3 DEF Refusing, CauseIn

(* The file ends in a block.                                               *)
LEMMA BlockCause ==
  ASSUME GenInv, Followed, blocks # <<>>,
         NEW t \in Token, NEW ss, Grown(src, t, ss), t.tok = "eof"
  PROVE  Refusing(ss)
<1>1. Typed /\ Structure /\ src \in Seq(Token) BY DEF GenInv, Typed
<1>2. PICK e : Behind(src, e) BY DEF Behind
<1>3. /\ Len(ss) = e /\ ss[e] = t /\ e > 0
      /\ \A S \in SUBSET Openers : /\ AroundIn(ss, e, S) = AroundIn(src, e, S)
                                   /\ LoopsIn(ss, e, S) = LoopsIn(src, e, S)
  BY ONLY <1>1, <1>2, t \in Token, Grown(src, t, ss), AtEnd
<1>4. PICK n : n = Len(blocks) OBVIOUS
<1>5. n \in 1 .. Len(blocks) BY <1>1, <1>4, TopIsLast
<1>6. PICK os : ReadIn(code, src, os, blocks, break_pos) BY DEF Followed, Reading
<1>7. Nest(src, os) /\ Len(os) = Len(blocks) BY <1>6 DEF ReadIn, Shape
<1>8. PICK k : k = os[n] OBVIOUS
<1>9. IsOpen(os, k) BY <1>5, <1>7, <1>8 DEF IsOpen
<1>10. k \in AroundIn(src, e, Openers)
  <2>1. e = Len(src) + 1 BY <1>2 DEF Behind
  <2> QED BY ONLY <1>7, <1>9, <2>1, AroundEnd
<1>11. AroundIn(ss, e, Openers) # {} BY <1>3, <1>10
<1> QED BY <1>3, <1>11 DEF Refusing, CauseIn

(* A function is called and never defined.                                 *)
LEMMA MissingCause ==
  ASSUME GenInv, Going, Followed, Unresolved # {},
         NEW t \in Token, NEW ss, Grown(src, t, ss), t.tok = "eof"
  PROVE  Refusing(ss)
<1>1. Typed /\ src \in Seq(Token) /\ forward_decl \in Seq(Note) BY DEF GenInv, Typed
<1>2. PICK e : Behind(src, e) BY DEF Behind
<1>3. /\ Len(ss) = e /\ ss[e] = t /\ e > 0 /\ ss \in Seq(Token)
      /\ \A k \in 1 .. Len(src) : k < e /\ k \in 1 .. Len(ss) /\ ss[k] = src[k]
      /\ \A k \in 1 .. Len(ss) : k \in 1 .. Len(src) \/ k = e
  BY ONLY <1>1, <1>2, t \in Token, Grown(src, t, ss), AtEnd
<1>4. PICK x \in 1 .. Len(forward_decl) : label[forward_decl[x].fn] = 0
  <2>1. DOMAIN forward_decl = 1 .. Len(forward_decl) BY <1>1
  <2> QED BY <2>1 DEF Unresolved
<1>5. PICK d : d = forward_decl[x] OBVIOUS
<1>6. NoteIn(code, src, label, d) BY <1>5 DEF Followed, Noting, Notes
<1>7. PICK i \in ForwardTo(ss, e) : ss[i].at = d.pos /\ ss[i].fn = d.fn
  <2>1. t.tok # "func" OBVIOUS
  <2> QED BY ONLY <1>1, <1>2, <1>6, <2>1, t \in Token, Grown(src, t, ss), NotedForward
<1>8. ASSUME NEW j \in InTokens(ss, {"func"}) PROVE ss[j].fn # ss[i].fn
  <2>1. j \in 1 .. Len(ss) /\ ss[j].tok = "func"
    <3>1. DOMAIN ss = 1 .. Len(ss) BY <1>3
    <3> QED BY <3>1 DEF InTokens
  <2>2. j \in 1 .. Len(src) /\ ss[j] = src[j] BY <1>3, <2>1
  <2>3. CallsIn(code, forward_decl, label, src) BY DEF GenInv, Calls
  <2>4. label[src[j].fn] = src[j].at + 1 BY <2>1, <2>2, <2>3 DEF CallsIn, TokensIn
  <2>5. src[j].at \in Nat
    <3>1. src[j] \in Token BY ONLY <1>1, <2>2, ElementOfSeq
    <3> QED BY <3>1 DEF Token
  <2>6. label[src[j].fn] # 0 BY ONLY <2>4, <2>5
  <2> QED BY <1>4, <1>5, <1>7, <2>2, <2>6
<1>9. i \in ForwardIn(ss) BY DEF ForwardTo
<1> QED BY <1>3, <1>8, <1>9 DEF Refusing, CauseIn

-----------------------------------------------------------------------------
(* What the compiler knows of the program while it reads it, and what is   *)
(* true of the program when it has been compiled, or refused.              *)
MeaningInv ==
  /\ Going         => Followed
  /\ Compiled      => Finished(code, src)
  /\ err_count > 0 => Refusing(src)

LEMMA GoesOn ==
  ASSUME Going, UNCHANGED <<err_count, result>>, Followed'
  PROVE  MeaningInv'
<1>1. result' = "compiling" /\ err_count' = 0 BY DEF Going
<1>2. ~Compiled' BY <1>1 DEF Compiled
<1>3. ~(err_count' > 0) BY <1>1
<1> QED BY <1>2, <1>3 DEF MeaningInv

LEMMA Stops ==
  ASSUME err_count' = 1, result' # "ok", Refusing(src')
  PROVE  MeaningInv'
<1>1. ~Going' BY DEF Going
<1>2. ~Compiled' BY DEF Compiled
<1> QED BY <1>1, <1>2 DEF MeaningInv

LEMMA Fails ==
  ASSUME Typed, NEW t \in Token, NEW ts, ts = <<t>>, Reads(ts), Fail,
         \A ss : Grown(src, t, ss) => Refusing(ss)
  PROVE  MeaningInv'
<1>1. Grown(src, t, src') BY OneToken
<1>2. PICK ss : ss = src' OBVIOUS
<1>3. Refusing(ss) BY <1>1, <1>2
<1>4. Refusing(src') BY <1>2, <1>3
<1>5. err_count' = 1 /\ result' # "ok" BY DEF Fail, Reads
<1> QED BY ONLY <1>4, <1>5, Stops

LEMMA WordFails ==
  ASSUME Typed, NEW w \in Words, Reads(<<Tok(w)>>), Fail,
         \A t \in Token : \A ss : t.tok = w /\ Grown(src, t, ss) => Refusing(ss)
  PROVE  MeaningInv'
<1>1. PICK t : t = Tok(w) OBVIOUS
<1>2. t \in Token /\ t.tok = w BY <1>1, TokenFacts
<1>3. PICK ts : ts = <<t>> OBVIOUS
<1>4. Reads(ts) BY <1>1, <1>3
<1>5. \A ss : Grown(src, t, ss) => Refusing(ss) BY <1>2
<1> QED BY ONLY Typed, <1>2, <1>3, <1>4, <1>5, Fail, Fails

LEMMA NameFails ==
  ASSUME Typed, NEW w \in Words, NEW f \in Funcs, Reads(<<FnTok(w, f)>>), Fail,
         \A t \in Token : \A ss : t.tok = w /\ t.fn = f /\ Grown(src, t, ss) => Refusing(ss)
  PROVE  MeaningInv'
<1>1. PICK t : t = FnTok(w, f) OBVIOUS
<1>2. t \in Token /\ t.tok = w /\ t.fn = f BY <1>1, TokenFacts
<1>3. PICK ts : ts = <<t>> OBVIOUS
<1>4. Reads(ts) BY <1>1, <1>3
<1>5. \A ss : Grown(src, t, ss) => Refusing(ss) BY <1>2
<1> QED BY ONLY Typed, <1>2, <1>3, <1>4, <1>5, Fail, Fails

LEMMA LoopsMean ==
  ASSUME GenInv, GenInv', MeaningInv, Loops
  PROVE  MeaningInv'
<1>1. Typed /\ Going /\ Followed
  BY DEF GenInv, MeaningInv, Going, Loops, For, While, EndLoop, Break, Reads
<1>2. CASE For
  <2>1. Followed' BY <1>1, <1>2, ForFollows
  <2>2. UNCHANGED <<err_count, result>> BY <1>2 DEF For
  <2> QED BY ONLY <1>1, <2>1, <2>2, GoesOn
<1>3. CASE While
  <2>1. Followed' BY <1>1, <1>3, WhileFollows
  <2>2. UNCHANGED <<err_count, result>> BY <1>3 DEF While
  <2> QED BY ONLY <1>1, <2>1, <2>2, GoesOn
<1>4. CASE EndLoop
  <2>1. Followed' BY <1>1, <1>4, EndLoopFollows
  <2>2. UNCHANGED <<err_count, result>> BY <1>4 DEF EndLoop
  <2> QED BY ONLY <1>1, <2>1, <2>2, GoesOn
<1>5. CASE Break
  <2>1. CASE BreakRefused
    <3>1. Reads(<<Tok("break")>>) /\ Fail /\ "break" \in Words
      BY <1>5, <2>1 DEF Break, Words
    <3>2. PICK w : w = "break" OBVIOUS
    <3>3. ASSUME NEW t \in Token, NEW ss, t.tok = w, Grown(src, t, ss) PROVE Refusing(ss)
      BY <1>1, <2>1, <3>2, <3>3, BreakCause
    <3>4. w \in Words /\ Reads(<<Tok(w)>>) /\ Fail BY <3>1, <3>2
    <3> QED BY ONLY <1>1, <3>3, <3>4, WordFails
  <2>2. CASE ~BreakRefused
    <3>1. Followed' BY <1>1, <1>5, <2>2, BreakFollows
    <3>2. UNCHANGED <<err_count, result>> BY <1>5, <2>2 DEF Break
    <3> QED BY ONLY <1>1, <3>1, <3>2, GoesOn
  <2> QED BY <2>1, <2>2
<1> QED BY <1>2, <1>3, <1>4, <1>5 DEF Loops

LEMMA BranchesMean ==
  ASSUME GenInv, GenInv', MeaningInv, Branches
  PROVE  MeaningInv'
<1>1. Going /\ Followed
  BY DEF MeaningInv, Going, Branches, If, EndIf, Else, ElseIf, LoseLine, Reads
<1>2. Followed'
  <2>1. CASE If BY <1>1, <2>1, IfFollows
  <2>2. CASE EndIf BY <1>1, <2>2, EndIfFollows
  <2>3. CASE Else BY <1>1, <2>3, ElseFollows
  <2>4. CASE ElseIf BY <1>1, <2>4, ElseIfFollows
  <2>5. ASSUME NEW w \in {"lost else", "lost brace"}, LoseLine(w) PROVE Followed'
    BY <1>1, <2>5, LoseLineFollows
  <2> QED BY <2>1, <2>2, <2>3, <2>4, <2>5 DEF Branches
<1>3. UNCHANGED <<err_count, result>> BY DEF Branches, If, EndIf, Else, ElseIf, LoseLine
<1> QED BY ONLY <1>1, <1>2, <1>3, GoesOn

LEMMA FunctionsMean ==
  ASSUME GenInv, GenInv', MeaningInv, Functions
  PROVE  MeaningInv'
<1>1. Typed /\ Going /\ Followed
  BY DEF GenInv, MeaningInv, Going, Functions, EndFunc, Return, Func, Call, Reads
<1>2. CASE EndFunc
  <2>1. Followed' BY <1>1, <1>2, EndFuncFollows
  <2>2. UNCHANGED <<err_count, result>> BY <1>2 DEF EndFunc
  <2> QED BY ONLY <1>1, <2>1, <2>2, GoesOn
<1>3. CASE Return
  <2>1. CASE ~in_func
    <3>1. Reads(<<Tok("return")>>) /\ Fail /\ "return" \in Words
      BY <1>3, <2>1 DEF Return, Words
    <3>2. PICK w : w = "return" OBVIOUS
    <3>3. ASSUME NEW t \in Token, NEW ss, t.tok = w, Grown(src, t, ss) PROVE Refusing(ss)
      BY <1>1, <2>1, <3>2, <3>3, ReturnCause
    <3>4. w \in Words /\ Reads(<<Tok(w)>>) /\ Fail BY <3>1, <3>2
    <3> QED BY ONLY <1>1, <3>3, <3>4, WordFails
  <2>2. CASE in_func
    <3>1. Followed' BY <1>1, <1>3, <2>2, ReturnFollows
    <3>2. UNCHANGED <<err_count, result>> BY <1>3, <2>2 DEF Return
    <3> QED BY ONLY <1>1, <3>1, <3>2, GoesOn
  <2> QED BY <2>1, <2>2
<1>4. ASSUME NEW f \in Funcs, Func(f) PROVE MeaningInv'
  <2>1. CASE label[f] # 0
    <3>1. Reads(<<FnTok("func", f)>>) /\ Fail /\ "func" \in Words
      BY <1>4, <2>1 DEF Func, Words, Openers
    <3>2. PICK w : w = "func" OBVIOUS
    <3>3. ASSUME NEW t \in Token, NEW ss, t.tok = w, t.fn = f, Grown(src, t, ss)
          PROVE  Refusing(ss)
      BY <1>1, <2>1, <3>2, <3>3, FuncCause
    <3>4. w \in Words /\ Reads(<<FnTok(w, f)>>) /\ Fail BY <3>1, <3>2
    <3> QED BY ONLY <1>1, <3>3, <3>4, f \in Funcs, NameFails
  <2>2. CASE label[f] = 0
    <3>1. Followed' BY <1>1, <1>4, <2>2, FuncFollows
    <3>2. UNCHANGED <<err_count, result>> BY <1>4, <2>2 DEF Func
    <3> QED BY ONLY <1>1, <3>1, <3>2, GoesOn
  <2> QED BY <2>1, <2>2
<1>5. ASSUME NEW f \in Funcs, Call(f) PROVE MeaningInv'
  <2>1. CASE ~(label[f] # 0 \/ ~ListFull)
    <3>1. Reads(<<FnTok("call", f)>>) /\ Fail /\ "call" \in Words
      BY <1>5, <2>1 DEF Call, Words
    <3>2. PICK w : w = "call" OBVIOUS
    <3>3. ASSUME NEW t \in Token, NEW ss, t.tok = w, t.fn = f, Grown(src, t, ss)
          PROVE  Refusing(ss)
      BY <1>1, <2>1, <3>2, <3>3, ListCause
    <3>4. w \in Words /\ Reads(<<FnTok(w, f)>>) /\ Fail BY <3>1, <3>2
    <3> QED BY ONLY <1>1, <3>3, <3>4, f \in Funcs, NameFails
  <2>2. CASE label[f] # 0 \/ ~ListFull
    <3>1. Followed' BY <1>1, <1>5, <2>2, CallFollows
    <3>2. UNCHANGED <<err_count, result>> BY <1>5, <2>2 DEF Call
    <3> QED BY ONLY <1>1, <3>1, <3>2, GoesOn
  <2> QED BY <2>1, <2>2
<1> QED BY <1>2, <1>3, <1>4, <1>5 DEF Functions

-----------------------------------------------------------------------------
LEMMA TablesMean ==
  ASSUME GenInv, GenInv', MeaningInv, Tables
  PROVE  MeaningInv'
<1>1. Typed /\ Going /\ Followed
  BY DEF GenInv, MeaningInv, Going, Tables, Entries, EndEntries, Dispatch, EndCase, EndDispatch,
         Entry, Case, Reads
<1>2. CASE Entries \/ EndEntries \/ Dispatch \/ EndCase \/ EndDispatch
  <2>1. Followed'
    BY <1>1, <1>2, EntriesFollows, EndEntriesFollows, DispatchFollows, EndCaseFollows,
       EndDispatchFollows
  <2>2. UNCHANGED <<err_count, result>>
    BY <1>2 DEF Entries, EndEntries, Dispatch, EndCase, EndDispatch
  <2> QED BY ONLY <1>1, <2>1, <2>2, GoesOn
<1>3. ASSUME NEW f \in Funcs, Entry(f) PROVE MeaningInv'
  <2>1. CASE ListFull
    <3>1. Reads(<<FnTok("entry", f)>>) /\ Fail /\ "entry" \in Words
      BY <1>3, <2>1 DEF Entry, Words
    <3>2. PICK w : w = "entry" OBVIOUS
    <3>3. ASSUME NEW t \in Token, NEW ss, t.tok = w, t.fn = f, Grown(src, t, ss)
          PROVE  Refusing(ss)
      BY <1>1, <2>1, <3>2, <3>3, ListCause
    <3>4. w \in Words /\ Reads(<<FnTok(w, f)>>) /\ Fail BY <3>1, <3>2
    <3> QED BY ONLY <1>1, <3>3, <3>4, f \in Funcs, NameFails
  <2>2. CASE ~ListFull
    <3>1. Followed' BY <1>1, <1>3, <2>2, EntryFollows
    <3>2. UNCHANGED <<err_count, result>> BY <1>3, <2>2 DEF Entry
    <3> QED BY ONLY <1>1, <3>1, <3>2, GoesOn
  <2> QED BY <2>1, <2>2
<1>4. ASSUME NEW v \in 0 .. MaxCases, Case(v) PROVE MeaningInv'
  <2>1. CASE CaseRefused(v)
    <3>1. Reads(<<CaseTok(v)>>) /\ Fail /\ blocks # <<>> /\ Kind = "dispatch"
      BY <1>4, <2>1 DEF Case, Kind
    <3>2. PICK t : t = CaseTok(v) OBVIOUS
    <3>3. t \in Token /\ t.tok = "case" /\ t.val = v /\ v \in Nat
      <4>1. "case" \in Words /\ v \in Nat BY CodeGenAssumption DEF Words, Openers
      <4>2. Tok("case") \in Token /\ Tok("case").tok = "case" BY <1>1, <4>1, TokenFacts
      <4> QED BY <3>2, <4>1, <4>2 DEF CaseTok, Token
    <3>4. PICK ts : ts = <<t>> OBVIOUS
    <3>5. Reads(ts) BY <3>1, <3>2, <3>4
    <3>6. ASSUME NEW ss, Grown(src, t, ss) PROVE Refusing(ss)
      BY <1>1, <2>1, <3>1, <3>3, <3>6, CaseCause
    <3> QED BY ONLY <1>1, <3>1, <3>3, <3>4, <3>5, <3>6, Fails
  <2>2. CASE ~CaseRefused(v)
    <3>1. Followed' BY <1>1, <1>4, <2>2, CaseFollows
    <3>2. UNCHANGED <<err_count, result>> BY <1>4, <2>2 DEF Case
    <3> QED BY ONLY <1>1, <3>1, <3>2, GoesOn
  <2> QED BY <2>1, <2>2
<1> QED BY <1>2, <1>3, <1>4 DEF Tables

LEMMA EndMeans ==
  ASSUME GenInv, GenInv', MeaningInv, EndOfFile
  PROVE  MeaningInv'
<1>1. Typed BY DEF GenInv
<1>2. CASE err_count > 0
  <2>1. /\ result' = "refused" /\ err_count' = err_count /\ src' = src
    BY <1>1, <1>2 DEF EndOfFile, Typed
  <2>2. err_count = 1 BY <1>1, <1>2 DEF Typed
  <2>3. Refusing(src') BY <1>2, <2>1 DEF MeaningInv
  <2>4. err_count' = 1 /\ result' # "ok" BY <2>1, <2>2
  <2> QED BY ONLY <2>3, <2>4, Stops
<1>3. CASE ~(err_count > 0)
  <2>1. err_count = 0 BY <1>1, <1>3 DEF Typed
  <2>2. Going /\ Followed BY <2>1 DEF Going, EndOfFile, MeaningInv
  <2>3. src' = Append(src, Tok("eof")) BY <2>1 DEF EndOfFile
  <2>4. CASE Unresolved # {}
    <3>1. err_count' = 1 /\ result' # "ok" BY <2>1, <2>4 DEF EndOfFile
    <3>2. PICK t : t = Tok("eof") OBVIOUS
    <3>3. t \in Token /\ t.tok = "eof"
      <4>1. "eof" \in Words BY DEF Words
      <4> QED BY <1>1, <3>2, <4>1, TokenFacts
    <3>4. PICK ss : ss = src' OBVIOUS
    <3>5. Grown(src, t, ss) BY <2>3, <3>2, <3>4 DEF Grown
    <3>6. Refusing(ss) BY ONLY GenInv, <2>2, <2>4, <3>3, <3>5, MissingCause
    <3>7. Refusing(src') BY <3>4, <3>6
    <3> QED BY ONLY <3>1, <3>7, Stops
  <2>5. CASE Unresolved = {}
    <3>1. Finished(code', src') BY ONLY GenInv, GenInv', EndOfFile, <2>1, <2>2, <2>5, FileFinished
    <3>2. result' = "ok" /\ err_count' = 0 BY <2>1, <2>5 DEF EndOfFile
    <3>3. ~Going' /\ ~(err_count' > 0) BY <3>2 DEF Going
    <3> QED BY <3>1, <3>3 DEF MeaningInv
  <2> QED BY <2>4, <2>5
<1> QED BY <1>2, <1>3

LEMMA BadMeans ==
  ASSUME GenInv, MeaningInv, SyntaxError
  PROVE  MeaningInv'
<1>1. Typed BY DEF GenInv
<1>2. Reads(<<Tok("bad")>>) /\ Fail /\ "bad" \in Words BY DEF SyntaxError, Words
<1>3. PICK w : w = "bad" OBVIOUS
<1>4. ASSUME NEW t \in Token, NEW ss, t.tok = w, Grown(src, t, ss) PROVE Refusing(ss)
  BY <1>1, <1>3, <1>4, BadCause
<1>5. w \in Words /\ Reads(<<Tok(w)>>) /\ Fail BY <1>2, <1>3
<1> QED BY ONLY <1>1, <1>4, <1>5, WordFails

LEMMA InBlockMeans ==
  ASSUME GenInv, MeaningInv, EndInBlock
  PROVE  MeaningInv'
<1>1. Typed BY DEF GenInv
<1>2. /\ Followed /\ blocks # <<>> /\ src' = Append(src, Tok("eof"))
      /\ err_count' = 1 /\ result' # "ok"
  BY DEF EndInBlock, Fail, MeaningInv, Going
<1>3. PICK t : t = Tok("eof") OBVIOUS
<1>4. t \in Token /\ t.tok = "eof"
  <2>1. "eof" \in Words BY DEF Words
  <2> QED BY <1>1, <1>3, <2>1, TokenFacts
<1>5. PICK ss : ss = src' OBVIOUS
<1>6. Grown(src, t, ss) BY <1>2, <1>3, <1>5 DEF Grown
<1>7. Refusing(ss) BY ONLY GenInv, <1>2, <1>4, <1>6, BlockCause
<1>8. Refusing(src') BY <1>5, <1>7
<1> QED BY ONLY <1>2, <1>8, Stops

LEMMA MeaningStep ==
  ASSUME GenInv, GenInv', MeaningInv, Next
  PROVE  MeaningInv' \/ Init'
<1>1. CASE Loops BY ONLY <1>1, GenInv, GenInv', MeaningInv, LoopsMean
<1>2. CASE Branches BY ONLY <1>2, GenInv, GenInv', MeaningInv, BranchesMean
<1>3. CASE Functions BY ONLY <1>3, GenInv, GenInv', MeaningInv, FunctionsMean
<1>4. CASE Tables BY ONLY <1>4, GenInv, GenInv', MeaningInv, TablesMean
<1>5. CASE SyntaxError BY ONLY <1>5, GenInv, MeaningInv, BadMeans
<1>6. CASE EndInBlock BY ONLY <1>6, GenInv, MeaningInv, InBlockMeans
<1>7. CASE EndOfFile BY ONLY <1>7, GenInv, GenInv', MeaningInv, EndMeans
<1>8. CASE Restart BY <1>8 DEF Restart, Init
<1> QED BY <1>1, <1>2, <1>3, <1>4, <1>5, <1>6, <1>7, <1>8 DEF Next, Ends

-----------------------------------------------------------------------------
LEMMA NothingRead ==
  ASSUME NEW s, s = <<>>, NEW S, NEW i
  PROVE  /\ InTokens(s, S) = {} /\ LevelIn(s, i) = 0
         /\ AroundIn(s, i, S) = {} /\ LoopsIn(s, i, S) = {}
<1>1. DOMAIN s = {} OBVIOUS
<1>2. \A T : InTokens(s, T) = {} BY <1>1 DEF InTokens
<1>3. Cardinality({}) = 0 BY FS_EmptySet
<1>4. LevelIn(s, i) = 0
  <2>1. {j \in InTokens(s, Openers) : j <= i} = {} BY <1>2
  <2>2. {j \in InTokens(s, Brace) : j <= i} = {} BY <1>2
  <2>3. LevelIn(s, i) = Cardinality({}) - Cardinality({}) BY <2>1, <2>2 DEF LevelIn
  <2> QED BY <1>3, <2>3
<1>5. \A T : AroundIn(s, i, T) = {} BY <1>2 DEF AroundIn
<1>6. LoopsIn(s, i, S) = {} BY <1>5 DEF LoopsIn
<1> QED BY <1>2, <1>4, <1>5, <1>6

LEMMA InitMeaning == Init => MeaningInv
<1> SUFFICES ASSUME Init PROVE MeaningInv
  OBVIOUS
<1>1. /\ src = <<>> /\ blocks = <<>> /\ break_pos = <<>> /\ forward_decl = <<>>
      /\ loop_type = "none" /\ for_depth = 0 /\ result = "compiling" /\ err_count = 0
  BY DEF Init
<1>2. /\ Len(src) = 0 /\ Len(blocks) = 0 /\ Len(break_pos) = 0 /\ Len(forward_decl) = 0
      /\ \A k \in 1 .. 0 : FALSE
  BY <1>1, EmptySeq
<1>3. \A S, i : /\ InTokens(src, S) = {} /\ LevelIn(src, i) = 0
                /\ AroundIn(src, i, S) = {} /\ LoopsIn(src, i, S) = {}
  BY <1>1, NothingRead
<1>4. Innermost({}) = 0 /\ Cardinality({}) = 0 BY FS_EmptySet DEF Innermost
<1>5. PICK os : os = <<>> OBVIOUS
<1>6. os \in Seq(Nat) /\ Len(os) = 0 /\ src \in Seq(Token) BY <1>1, <1>5, EmptySeq
<1>7. Nest(src, os)
  <2>1. LevelIn(src, Len(src)) = Len(os) BY <1>3, <1>6
  <2>2. \A i \in 0 .. Len(src) : LevelIn(src, i) >= 0 BY <1>3
  <2>3. \A k \in 1 .. Len(os) : OpenAt(src, os[k], k) BY <1>2, <1>6
  <2> QED BY <1>6, <2>1, <2>2, <2>3 DEF Nest
<1>8. Shape(code, src, os, blocks, break_pos)
  <2>1. Placed(code, src) BY <1>2 DEF Placed
  <2>2. Apart(blocks, break_pos) BY <1>2 DEF Apart
  <2> QED BY <1>2, <1>6, <1>7, <2>1, <2>2 DEF Shape
<1>9. Told(code, src, os) BY <1>2 DEF Told
<1>10. Elses(code, src, blocks) BY <1>2 DEF Elses
<1>11. Breaks(code, src, os, blocks, break_pos) BY <1>2 DEF Breaks
<1>12. Cases(src, os, blocks) BY <1>2 DEF Cases
<1>13. Reading BY <1>8, <1>9, <1>10, <1>11, <1>12 DEF Reading, ReadIn
<1>14. Where
  <2>1. PICK i : i = Len(src) + 1 OBVIOUS
  <2>2. LoopOf(src, i) = 0 BY <1>3, <1>4 DEF LoopOf
  <2>3. for_depth = Cardinality(LoopsIn(src, i, {"for"})) BY <1>1, <1>3, <1>4
  <2>4. ContextAt(src, i, loop_type, for_depth) BY <1>1, <2>2, <2>3 DEF ContextAt
  <2>5. OutsideIn(src, i) BY <1>3, <1>4 DEF OutsideIn
  <2> QED BY <2>1, <2>4, <2>5 DEF Where, ContextIn
<1>15. Noting BY <1>2 DEF Noting, Notes
<1>16. CaseInside(blocks) BY <1>2 DEF CaseInside
<1>17. Followed BY <1>13, <1>14, <1>15, <1>16 DEF Followed
<1>18. ~Compiled /\ ~(err_count > 0) BY <1>1 DEF Compiled
<1> QED BY <1>17, <1>18 DEF MeaningInv

LEMMA StutterMeaning ==
  ASSUME MeaningInv, UNCHANGED vars
  PROVE  MeaningInv'
<1>1. /\ code' = code /\ blocks' = blocks /\ loop_type' = loop_type
      /\ for_depth' = for_depth /\ in_func' = in_func /\ break_pos' = break_pos
      /\ forward_decl' = forward_decl /\ label' = label /\ err_count' = err_count
      /\ result' = result /\ src' = src
  BY DEF vars, context, lists
<1>2. Reading => Reading' BY <1>1 DEF Reading
<1>3. Where => Where' BY <1>1 DEF Where
<1>4. Noting => Noting' BY <1>1 DEF Noting
<1>5. CaseInside(blocks) => CaseInside(blocks)' BY <1>1
<1>6. Followed => Followed' BY <1>2, <1>3, <1>4, <1>5 DEF Followed
<1>7. (Going' <=> Going) /\ (Compiled' <=> Compiled) BY <1>1 DEF Going, Compiled
<1>8. Finished(code, src) => Finished(code', src') BY <1>1
<1>9. Refusing(src) => Refusing(src') BY <1>1
<1> QED BY <1>1, <1>6, <1>7, <1>8, <1>9 DEF MeaningInv

LEMMA MeaningNext ==
  ASSUME GenInv, MeaningInv, [Next]_vars
  PROVE  (GenInv /\ MeaningInv)' \/ Init'
<1>1. CASE Next
  <2>1. GenInv' \/ Init' BY <1>1, NextStep
  <2>2. ASSUME GenInv' PROVE MeaningInv' \/ Init'
    BY ONLY GenInv, MeaningInv, <1>1, <2>2, MeaningStep
  <2> QED BY <2>1, <2>2
<1>2. CASE UNCHANGED vars BY <1>2, StutterStep, StutterMeaning
<1> QED BY <1>1, <1>2

(* While the compiler reads a program, it knows which of its blocks are    *)
(* open and what waits for the end of each; the program that it has        *)
(* compiled means what it says, and the one that it refuses has a reason.  *)
THEOREM MeaningCorrect == Spec => []MeaningInv
<1>1. Init => GenInv /\ MeaningInv BY InitGen, InitMeaning
<1>2. (GenInv /\ MeaningInv) /\ [Next]_vars => (GenInv /\ MeaningInv)' \/ Init'
  BY MeaningNext
<1>3. Spec => [](GenInv /\ MeaningInv) BY <1>1, <1>2, PTL DEF Spec
<1> QED BY <1>3, PTL

-----------------------------------------------------------------------------
(* The program as CodeGen reads it, and as the lemmas do.                  *)
LEMMA SameWords ==
  /\ \A S : Tokens(S) = InTokens(src, S)
  /\ \A i : Level(i) = LevelIn(src, i)
  /\ \A i, S : Around(i, S) = AroundIn(src, i, S) /\ LoopsAround(i, S) = LoopsIn(src, i, S)
  /\ \A j : Continued(j) <=> ContinuedIn(src, j)
<1>1. \A S : Tokens(S) = InTokens(src, S) BY DEF Tokens, InTokens
<1>2. ASSUME NEW i PROVE Level(i) = LevelIn(src, i) BY <1>1 DEF Level, LevelIn, Brace
<1>3. ASSUME NEW i, NEW S PROVE Around(i, S) = AroundIn(src, i, S)
  BY <1>1, <1>2 DEF Around, AroundIn
<1>4. ASSUME NEW i, NEW S PROVE LoopsAround(i, S) = LoopsIn(src, i, S)
  BY <1>3 DEF LoopsAround, LoopsIn
<1>5. \A j : Continued(j) <=> ContinuedIn(src, j) BY DEF Continued, ContinuedIn
<1> QED BY <1>1, <1>2, <1>3, <1>4, <1>5

LEMMA LeastIs ==
  ASSUME NEW T, T \subseteq Int, NEW j \in T, \A y \in T : j <= y
  PROVE  Min(T) = j
<1>1. \A x \in T : (\A y \in T : x <= y) => x = j OBVIOUS
<1>2. \E x \in T : \A y \in T : x <= y OBVIOUS
<1> QED BY <1>1, <1>2 DEF Min

LEMMA GreatestIs ==
  ASSUME NEW T, T \subseteq Int, NEW j \in T, \A y \in T : y <= j
  PROVE  Max(T) = j
<1>1. \A x \in T : (\A y \in T : x >= y) => x = j OBVIOUS
<1>2. \E x \in T : \A y \in T : x >= y OBVIOUS
<1> QED BY <1>1, <1>2 DEF Max

LEMMA CloserLeast ==
  ASSUME NEW s \in Seq(Token), NEW i \in 1 .. Len(s), NEW j, Closer(s, i, j),
         NEW y \in 1 .. Len(s), y > i, LevelIn(s, y) = LevelIn(s, i) - 1
  PROVE  j <= y
<1>1. Len(s) \in Nat BY LenProperties
<1>2. j \in i + 1 .. Len(s) /\ \A x \in i .. j - 1 : LevelIn(s, x) >= LevelIn(s, i)
  BY DEF Closer
<1>3. PICK a : a = LevelIn(s, i) OBVIOUS
<1>4. PICK b : b = LevelIn(s, y) OBVIOUS
<1>5. i \in Int BY <1>1
<1>6. LevelIn(s, i) \in Int BY ONLY s \in Seq(Token), <1>5, LevelType
<1>7. a \in Int /\ b = a - 1 BY <1>3, <1>4, <1>6
<1>8. ~(b >= a) BY ONLY <1>7
<1>9. y \notin i .. j - 1 BY <1>2, <1>3, <1>4, <1>8
<1>10. j \in Int BY ONLY <1>1, <1>2, <1>5
<1> QED BY ONLY <1>1, <1>5, <1>9, <1>10, y \in 1 .. Len(s), y > i

LEMMA LastLeast ==
  ASSUME NEW s \in Seq(Token), NEW i \in 1 .. Len(s), NEW j, LastCloser(s, i, j),
         NEW y \in 1 .. Len(s), y > i, LevelIn(s, y) = LevelIn(s, i) - 1, s[y].tok = "}",
         ~ContinuedIn(s, y)
  PROVE  j <= y
<1>1. Len(s) \in Nat BY LenProperties
<1>2. j \in i + 1 .. Len(s) BY DEF LastCloser
<1>3. y \notin i + 1 .. j - 1 BY DEF LastCloser
<1>4. i \in Int /\ j \in Int BY ONLY <1>1, <1>2, i \in 1 .. Len(s)
<1> QED BY ONLY <1>1, <1>3, <1>4, y \in 1 .. Len(s), y > i

(* The brace that a lemma knows to close a block is the one of the         *)
(* property.                                                               *)
LEMMA CloserIs ==
  ASSUME src \in Seq(Token), NEW i \in 1 .. Len(src), NEW j, Closer(src, i, j)
  PROVE  CloserOf(i) = j /\ j \in 1 .. Len(src) /\ src[j].tok = "}" /\ j > i
<1> DEFINE T == {x \in Tokens({"}"}) : x > i /\ Level(x) = Level(i) - 1}
<1>1. Len(src) \in Nat BY LenProperties
<1>2. DOMAIN src = 1 .. Len(src) BY LenProperties
<1>3. /\ j \in i + 1 .. Len(src) /\ src[j].tok = "}"
      /\ LevelIn(src, j) = LevelIn(src, i) - 1
      /\ \A x \in i .. j - 1 : LevelIn(src, x) >= LevelIn(src, i)
  BY DEF Closer
<1>4. j \in i + 1 .. Len(src) BY <1>3
<1>5. j \in 1 .. Len(src) /\ j > i BY ONLY <1>1, <1>4, i \in 1 .. Len(src)
<1>6. T \subseteq 1 .. Len(src) BY <1>2 DEF Tokens
<1>7. j \in T BY <1>2, <1>3, <1>5, SameWords DEF Tokens
<1>8. ASSUME NEW y \in T PROVE j <= y
  <2>1. y \in 1 .. Len(src) /\ y > i BY <1>6
  <2>2. LevelIn(src, y) = LevelIn(src, i) - 1 BY <1>6, SameWords
  <2> QED BY ONLY <2>1, <2>2, src \in Seq(Token), i \in 1 .. Len(src),
              Closer(src, i, j), CloserLeast
<1>9. T \subseteq Int
  <2>1. \A n \in Nat : 1 .. n \subseteq Int OBVIOUS
  <2> QED BY ONLY <1>1, <1>6, <2>1
<1>10. Min(T) = j BY ONLY <1>7, <1>8, <1>9, LeastIs
<1> QED BY <1>3, <1>5, <1>10 DEF CloserOf

LEMMA LastCloserIs ==
  ASSUME src \in Seq(Token), NEW i \in 1 .. Len(src), NEW j, LastCloser(src, i, j)
  PROVE  LastCloserOf(i) = j /\ j \in 1 .. Len(src) /\ src[j].tok = "}"
<1> DEFINE T == {x \in Tokens({"}"}) : x > i /\ Level(x) = Level(i) - 1 /\ ~Continued(x)}
<1>1. Len(src) \in Nat BY LenProperties
<1>2. DOMAIN src = 1 .. Len(src) BY LenProperties
<1>3. /\ j \in i + 1 .. Len(src) /\ src[j].tok = "}"
      /\ LevelIn(src, j) = LevelIn(src, i) - 1 /\ ~ContinuedIn(src, j)
      /\ \A x \in i + 1 .. j - 1 : src[x].tok = "}" /\ LevelIn(src, x) = LevelIn(src, i) - 1
                                   => ContinuedIn(src, x)
  BY DEF LastCloser
<1>4. j \in i + 1 .. Len(src) BY <1>3
<1>5. j \in 1 .. Len(src) /\ j > i BY ONLY <1>1, <1>4, i \in 1 .. Len(src)
<1>6. T \subseteq 1 .. Len(src) BY <1>2 DEF Tokens
<1>7. j \in T BY <1>2, <1>3, <1>5, SameWords DEF Tokens
<1>8. ASSUME NEW y \in T PROVE j <= y
  <2>1. /\ y \in 1 .. Len(src) /\ y > i /\ LevelIn(src, y) = LevelIn(src, i) - 1
        /\ ~ContinuedIn(src, y) /\ src[y].tok = "}"
    BY <1>6, SameWords DEF Tokens
  <2> QED BY ONLY <2>1, src \in Seq(Token), i \in 1 .. Len(src),
              LastCloser(src, i, j), LastLeast
<1>9. T \subseteq Int
  <2>1. \A n \in Nat : 1 .. n \subseteq Int OBVIOUS
  <2> QED BY ONLY <1>1, <1>6, <2>1
<1>10. Min(T) = j BY ONLY <1>7, <1>8, <1>9, LeastIs
<1> QED BY <1>3, <1>5, <1>10 DEF LastCloserOf

(* The program goes on behind a brace: it ends with "eof".                 *)
LEMMA NextIs ==
  ASSUME Finished(code, src), NEW j \in 1 .. Len(src), src[j].tok = "}"
  PROVE  NextAt(code, src, j) = After(j) /\ After(j) = src[j + 1].at
<1>1. Len(src) \in Nat /\ j # Len(src) BY LenProperties DEF Finished
<1>2. j < Len(src) BY ONLY <1>1, j \in 1 .. Len(src)
<1> QED BY <1>2 DEF NextAt, After

LEMMA WellRead ==
  ASSUME Finished(code, src)
  PROVE  /\ src \in Seq(Token) /\ Len(src) \in Nat /\ DOMAIN src = 1 .. Len(src)
         /\ \A i \in 1 .. Len(src) : ReadWell(code, src, i)
         /\ \A S, i : i \in Tokens(S) <=> i \in 1 .. Len(src) /\ src[i].tok \in S
BY LenProperties DEF Finished, Tokens

-----------------------------------------------------------------------------
(* What is known of a compiled program is what the properties say of it.   *)
LEMMA ReturnsAre ==
  ASSUME Finished(code, src), NEW i \in Tokens({"return"}),
         NEW n, n = Cardinality(LoopsAround(i, {"for"}))
  PROVE  /\ n > 0 => At(i) = InsN("FOR_LEAVE", 0, n)
         /\ code[src[i].at + (IF n > 0 THEN 1 ELSE 0)].op = "LEAVE"
<1>1. i \in 1 .. Len(src) /\ src[i].tok = "return" BY WellRead
<1>2. ReturnDone(code, src, i) BY <1>1, WellRead DEF ReadWell, Done
<1>3. n = Cardinality(LoopsIn(src, i, {"for"})) BY SameWords
<1>4. PICK p : p = src[i].at + (IF n > 0 THEN 1 ELSE 0) OBVIOUS
<1>5. /\ n > 0 => CellAt(code, src[i].at, InsN("FOR_LEAVE", 0, n))
      /\ CellAt(code, p, Ins("LEAVE", 0))
  BY <1>2, <1>3, <1>4 DEF ReturnDone
<1>6. code[p].op = "LEAVE" BY <1>5 DEF CellAt, Ins
<1>7. n > 0 => At(i) = InsN("FOR_LEAVE", 0, n) BY <1>5 DEF CellAt, At
<1> QED BY <1>4, <1>6, <1>7

LEMMA BreaksAre ==
  ASSUME Finished(code, src), NEW i \in Tokens({"break"}),
         NEW k, k = Innermost(LoopsAround(i, {"for", "while"}))
  PROVE  At(i) = Ins(IF src[k].tok = "for" THEN "BREAK_FOR" ELSE "GOTO", After(CloserOf(k)))
<1>1. i \in 1 .. Len(src) /\ src[i].tok = "break" /\ src \in Seq(Token) /\ Len(src) \in Nat
  BY WellRead
<1>2. BreakDone(code, src, i) BY <1>1, WellRead DEF ReadWell
<1>3. k = LoopOf(src, i) BY SameWords DEF LoopOf, LoopWords
<1>4. PICK j \in 1 .. Len(src) :
        /\ k # 0 /\ Exit(src, k, j)
        /\ CellAt(code, src[i].at, Ins(BreakOp(src[k]), NextAt(code, src, j)))
  BY <1>2, <1>3 DEF BreakDone
<1>5. i \in Int BY <1>1
<1>6. k \in 1 .. Len(src) BY ONLY <1>1, <1>3, <1>4, <1>5, LoopOfFacts
<1>7. Closer(src, k, j) BY <1>4 DEF Exit
<1>8. CloserOf(k) = j /\ src[j].tok = "}" BY ONLY <1>1, <1>6, <1>7, CloserIs
<1>9. NextAt(code, src, j) = After(j)
  BY ONLY Finished(code, src), <1>8, j \in 1 .. Len(src), NextIs
<1> QED BY <1>4, <1>8, <1>9 DEF CellAt, At, BreakOp

LEMMA LoopIs ==
  ASSUME Finished(code, src), NEW i \in Tokens({"for", "while"})
  PROVE  LoopMeant(i)
<1>1. i \in 1 .. Len(src) /\ src[i].tok \in LoopWords /\ src \in Seq(Token)
  BY WellRead DEF LoopWords
<1>2. LoopDone(code, src, i) BY <1>1, WellRead DEF ReadWell, Done
<1>3. PICK j \in 1 .. Len(src) :
        /\ Exit(src, i, j)
        /\ CellAt(code, src[i].at + 1, Ins(LoopHead(src[i]), NextAt(code, src, j)))
        /\ CellAt(code, src[j].at, Ins(LoopBack(src[i]), LoopTop(src[i])))
  BY <1>2 DEF LoopDone
<1>4. Closer(src, i, j) BY <1>3 DEF Exit
<1>5. CloserOf(i) = j /\ src[j].tok = "}" BY ONLY <1>1, <1>4, CloserIs
<1>6. NextAt(code, src, j) = After(j)
  BY ONLY Finished(code, src), <1>5, j \in 1 .. Len(src), NextIs
<1>7. /\ code[src[i].at + 1] = Ins(LoopHead(src[i]), After(j))
      /\ At(j) = Ins(LoopBack(src[i]), LoopTop(src[i]))
  BY <1>3, <1>6 DEF CellAt, At
<1> QED BY <1>5, <1>7 DEF LoopMeant, LoopHead, LoopBack, LoopTop

(* The condition of a branch.                                              *)
LEMMA CondIs ==
  ASSUME Finished(code, src), NEW i \in Tokens({"if", "elseif"})
  PROVE  code[CondAt(src[i])] =
           Ins("IF", After(CloserOf(i)) + (IF Continued(CloserOf(i)) THEN 1 ELSE 0))
<1>1. i \in 1 .. Len(src) /\ src[i].tok \in {"if", "elseif"} /\ src \in Seq(Token)
  BY WellRead
<1>2. CondDone(code, src, i) BY <1>1, WellRead DEF ReadWell, Done
<1>3. PICK j \in 1 .. Len(src) :
        /\ Closer(src, i, j)
        /\ CellAt(code, CondAt(src[i]),
                  Ins("IF", NextAt(code, src, j) + (IF ContinuedIn(src, j) THEN 1 ELSE 0)))
  BY <1>2 DEF CondDone
<1>4. CloserOf(i) = j /\ src[j].tok = "}" BY ONLY <1>1, <1>3, CloserIs
<1>5. NextAt(code, src, j) = After(j)
  BY ONLY Finished(code, src), <1>4, j \in 1 .. Len(src), NextIs
<1>6. Continued(j) <=> ContinuedIn(src, j) BY SameWords
<1> QED BY <1>3, <1>4, <1>5, <1>6 DEF CellAt

LEMMA IfIs ==
  ASSUME Finished(code, src), NEW i \in Tokens({"if"})
  PROVE  IfMeant(i)
<1>1. src[i].tok = "if" /\ i \in Tokens({"if", "elseif"}) BY WellRead
<1>2. CondAt(src[i]) = src[i].at BY <1>1 DEF CondAt
<1>3. code[CondAt(src[i])] =
        Ins("IF", After(CloserOf(i)) + (IF Continued(CloserOf(i)) THEN 1 ELSE 0))
  BY ONLY Finished(code, src), <1>1, CondIs
<1> QED BY <1>2, <1>3 DEF IfMeant, At

LEMMA ElseIs ==
  ASSUME Finished(code, src), NEW i \in Tokens({"else", "elseif"})
  PROVE  ElseMeant(i)
<1>1. i \in 1 .. Len(src) /\ src[i].tok \in {"else", "elseif"} /\ src \in Seq(Token)
  BY WellRead
<1>2. ElseDone(code, src, i) BY <1>1, WellRead DEF ReadWell
<1>3. PICK j \in 1 .. Len(src) :
        LastCloser(src, i, j) /\ CellAt(code, src[i].at, Ins("GOTO", NextAt(code, src, j)))
  BY <1>2 DEF ElseDone
<1>4. LastCloserOf(i) = j /\ src[j].tok = "}" BY ONLY <1>1, <1>3, LastCloserIs
<1>5. NextAt(code, src, j) = After(j)
  BY ONLY Finished(code, src), <1>4, j \in 1 .. Len(src), NextIs
<1>6. At(i) = Ins("GOTO", After(LastCloserOf(i))) BY <1>3, <1>4, <1>5 DEF CellAt, At
<1>7. ASSUME src[i].tok = "elseif"
      PROVE  code[src[i].at + 1] =
               Ins("IF", After(CloserOf(i)) + (IF Continued(CloserOf(i)) THEN 1 ELSE 0))
  <2>1. i \in Tokens({"if", "elseif"}) BY <1>1, <1>7, WellRead
  <2>2. CondAt(src[i]) = src[i].at + 1 BY <1>7 DEF CondAt
  <2>3. code[CondAt(src[i])] =
          Ins("IF", After(CloserOf(i)) + (IF Continued(CloserOf(i)) THEN 1 ELSE 0))
    BY ONLY Finished(code, src), <2>1, CondIs
  <2> QED BY ONLY <2>2, <2>3
<1> QED BY <1>6, <1>7 DEF ElseMeant

LEMMA FuncIs ==
  ASSUME Finished(code, src), NEW i \in Tokens({"func"})
  PROVE  FuncMeant(i)
<1>1. i \in 1 .. Len(src) /\ src[i].tok = "func" /\ src \in Seq(Token) BY WellRead
<1>2. FuncDone(code, src, i) BY <1>1, WellRead DEF ReadWell, Done
<1>3. PICK j \in 1 .. Len(src) :
        /\ Exit(src, i, j)
        /\ CellAt(code, src[i].at, Ins("GOTO", NextAt(code, src, j)))
        /\ code[src[i].at + 1].op = "ENTER"
        /\ CellAt(code, src[j].at, Ins("LEAVE", 0))
  BY <1>2 DEF FuncDone
<1>4. Closer(src, i, j) BY <1>3 DEF Exit
<1>5. CloserOf(i) = j /\ src[j].tok = "}" BY ONLY <1>1, <1>4, CloserIs
<1>6. NextAt(code, src, j) = After(j)
  BY ONLY Finished(code, src), <1>5, j \in 1 .. Len(src), NextIs
<1>7. At(j).op = "LEAVE" BY <1>3 DEF CellAt, At, Ins
<1> QED BY <1>3, <1>5, <1>6, <1>7 DEF FuncMeant, CellAt, At

LEMMA CaseValue ==
  ASSUME NEW s \in Seq(Token), NEW k \in 1 .. Len(s)
  PROVE  s[k].val \in Nat
<1>1. s[k] \in Token BY ONLY s \in Seq(Token), k \in 1 .. Len(s), ElementOfSeq
<1> QED BY ONLY <1>1 DEF Token

(* The count of a dispatch is that of its greatest case value.             *)
LEMMA CountIsMax ==
  ASSUME NEW s \in Seq(Token), NEW K, K \subseteq 1 .. Len(s), NEW n, IsCount(s, K, n)
  PROVE  n = Max({s[k].val + 1 : k \in K})
<1> DEFINE T == {s[k].val + 1 : k \in K}
<1>1. ASSUME NEW k \in K PROVE s[k].val + 1 \in Int
  <2>1. k \in 1 .. Len(s) OBVIOUS
  <2>2. s[k].val \in Nat BY ONLY s \in Seq(Token), <2>1, CaseValue
  <2> QED BY ONLY <2>2
<1>2. T \subseteq Int BY <1>1
<1>3. n \in T BY DEF IsCount
<1>4. \A y \in T : y <= n BY DEF IsCount
<1>5. Max(T) = n BY ONLY <1>2, <1>3, <1>4, GreatestIs
<1> QED BY <1>5

LEMMA DispatchIs ==
  ASSUME Finished(code, src), NEW i \in Tokens({"dispatch"})
  PROVE  DispatchMeant(i)
<1>1. i \in 1 .. Len(src) /\ src[i].tok = "dispatch" /\ src \in Seq(Token) BY WellRead
<1>2. DispatchDone(code, src, i) BY <1>1, WellRead DEF ReadWell, Done
<1>3. PICK j \in 1 .. Len(src) :
        /\ Exit(src, i, j) /\ src[i].at \in 1 .. Len(code)
        /\ code[src[i].at].op = "DISPATCH_JMP" /\ code[src[i].at].to # 0
        /\ IsCount(src, CasesIn(src, i, j), code[src[i].at].n)
        /\ TableIn(code, src, i, j, code[src[i].at].to, code[src[i].at].n)
        /\ \A k \in CasesIn(src, i, j) :
             \E m \in 1 .. Len(src) : /\ Closer(src, k, m)
                                      /\ CellAt(code, src[m].at, Ins("GOTO", NextAt(code, src, j)))
  BY <1>2 DEF DispatchDone
<1>4. Closer(src, i, j) BY <1>3 DEF Exit
<1>5. CloserOf(i) = j /\ src[j].tok = "}" BY ONLY <1>1, <1>4, CloserIs
<1>6. NextAt(code, src, j) = After(CloserOf(i))
  BY ONLY Finished(code, src), <1>5, j \in 1 .. Len(src), NextIs
<1>7. CasesOf(i) = CasesIn(src, i, j) BY <1>5, SameWords DEF CasesOf, CasesIn
<1>8. CasesOf(i) \subseteq 1 .. Len(src) BY WellRead DEF CasesOf
<1>9. ASSUME NEW k \in CasesOf(i) PROVE At(CloserOf(k)) = Ins("GOTO", After(CloserOf(i)))
  <2>1. PICK m \in 1 .. Len(src) :
          Closer(src, k, m) /\ CellAt(code, src[m].at, Ins("GOTO", NextAt(code, src, j)))
    BY <1>3, <1>7
  <2>2. k \in 1 .. Len(src) BY <1>8
  <2>3. CloserOf(k) = m BY ONLY <1>1, <2>1, <2>2, CloserIs
  <2> QED BY <1>6, <2>1, <2>3 DEF CellAt, At
<1>10. At(i).n = Max({src[k].val + 1 : k \in CasesOf(i)})
  <2>1. IsCount(src, CasesOf(i), At(i).n) BY <1>3, <1>7 DEF At
  <2> QED BY ONLY <1>1, <1>8, <2>1, CountIsMax
<1>11. ASSUME NEW v \in 0 .. At(i).n - 1
       PROVE  code[At(i).to + v] = Ins("ADDR", BodyOf(i, v))
  <2>1. CasesOfVal(src, i, j, v) = {k \in CasesOf(i) : src[k].val = v}
    BY <1>7 DEF CasesOfVal
  <2>2. BodyIn(code, src, i, j, v) = BodyOf(i, v) BY <1>6, <2>1 DEF BodyIn, BodyOf
  <2>3. CellAt(code, At(i).to + v, Ins("ADDR", BodyIn(code, src, i, j, v)))
    BY <1>3 DEF TableIn, At
  <2> QED BY <2>2, <2>3 DEF CellAt
<1> QED BY <1>9, <1>10, <1>11 DEF DispatchMeant

LEMMA MeantIs == MeaningInv => ReturnsUnwind /\ BreaksLeave /\ BlocksMeant
<1> SUFFICES ASSUME MeaningInv, Compiled PROVE ReturnsUnwind /\ BreaksLeave /\ BlocksMeant
  BY DEF ReturnsUnwind, BreaksLeave, BlocksMeant
<1>1. Finished(code, src) BY DEF MeaningInv
<1>2. ReturnsUnwind
  <2>1. ASSUME NEW i \in Tokens({"return"}), NEW n, n = Cardinality(LoopsAround(i, {"for"}))
        PROVE  /\ n > 0 => At(i) = InsN("FOR_LEAVE", 0, n)
               /\ code[src[i].at + (IF n > 0 THEN 1 ELSE 0)].op = "LEAVE"
    BY ONLY <1>1, <2>1, i \in Tokens({"return"}), ReturnsAre
  <2> QED BY <2>1 DEF ReturnsUnwind
<1>3. BreaksLeave
  <2>1. ASSUME NEW i \in Tokens({"break"}),
               NEW k, k = Innermost(LoopsAround(i, {"for", "while"}))
        PROVE  At(i) = Ins(IF src[k].tok = "for" THEN "BREAK_FOR" ELSE "GOTO",
                           After(CloserOf(k)))
    BY ONLY <1>1, <2>1, i \in Tokens({"break"}), BreaksAre
  <2> QED BY <2>1 DEF BreaksLeave
<1>4. BlocksMeant
  <2>1. \A i \in Tokens({"for", "while"}) : LoopMeant(i) BY <1>1, LoopIs
  <2>2. \A i \in Tokens({"if"}) : IfMeant(i) BY <1>1, IfIs
  <2>3. \A i \in Tokens({"else", "elseif"}) : ElseMeant(i) BY <1>1, ElseIs
  <2>4. \A i \in Tokens({"func"}) : FuncMeant(i) BY <1>1, FuncIs
  <2>5. \A i \in Tokens({"dispatch"}) : DispatchMeant(i) BY <1>1, DispatchIs
  <2> QED BY <2>1, <2>2, <2>3, <2>4, <2>5 DEF BlocksMeant
<1> QED BY <1>2, <1>3, <1>4

LEMMA CauseIs ==
  ASSUME NEW i \in 1 .. Len(src), CauseIn(src, i), src \in Seq(Token)
  PROVE  Cause(i)
<1>1. CASE src[i].tok = "break"
  <2>1. \A k : Innermost(LoopsAround(k, {"for", "while"})) = LoopOf(src, k)
    BY SameWords DEF LoopOf, LoopWords
  <2>2. WaitingBreaks(i) = WaitingIn(src, i)
    BY <2>1, SameWords DEF WaitingBreaks, WaitingIn, LoopWords
  <2>3. LoopsAround(i, {"for", "while"}) = LoopsIn(src, i, LoopWords)
    BY SameWords DEF LoopWords
  <2>4. \/ LoopsAround(i, {"for", "while"}) = {}
        \/ Cardinality(WaitingBreaks(i)) >= MaxBreaks
    BY <1>1, <2>2, <2>3 DEF CauseIn
  <2> QED BY ONLY <1>1, <2>4 DEF Cause
<1>2. CASE src[i].tok = "return"
  <2>1. OutsideIn(src, i) BY <1>2 DEF CauseIn
  <2>2. Around(i, {"func"}) = AroundIn(src, i, {"func"}) BY SameWords
  <2>3. \A j : j \in Tokens({"func"}) <=> j \in 1 .. Len(src) /\ src[j].tok = "func"
    BY DEF Tokens
  <2>4. \/ Innermost(Around(i, {"func"})) = 0
        \/ \E j \in Tokens({"func"}) :
             Innermost(Around(i, {"func"})) < j /\ j \notin Around(i, {"func"})
    BY <2>1, <2>2, <2>3 DEF OutsideIn
  <2> QED BY ONLY <1>2, <2>4 DEF Cause
<1>3. CASE src[i].tok = "func"
  <2>1. \E k \in Tokens({"func"}) : k < i /\ src[k].fn = src[i].fn
    BY <1>3, SameWords DEF CauseIn
  <2> QED BY ONLY <1>3, <2>1 DEF Cause
<1>4. ForwardIn(src) = Forward BY SameWords DEF Forward, ForwardIn
<1>5. CASE src[i].tok \in {"call", "entry"}
  <2>1. ForwardTo(src, i) = {k \in Forward : k < i} BY <1>4 DEF ForwardTo
  <2>2. Cardinality({k \in Forward : k < i}) >= MaxFwDecls BY <1>5, <2>1 DEF CauseIn
  <2> QED BY ONLY <1>5, <2>2 DEF Cause
<1>6. CASE src[i].tok = "case"
  <2>1. \/ src[i].val >= MaxCases
        \/ \E k \in Tokens({"case"}) : k < i /\ src[k].val = src[i].val
    BY <1>6, SameWords DEF CauseIn
  <2> QED BY ONLY <1>6, <2>1 DEF Cause
<1>7. CASE src[i].tok = "eof"
  <2>1. \/ Around(i, Openers) # {}
        \/ \E k \in Forward : \A j \in Tokens({"func"}) : src[j].fn # src[k].fn
    BY <1>4, <1>7, SameWords DEF CauseIn
  <2> QED BY ONLY <1>7, <2>1 DEF Cause
<1>8. CASE src[i].tok = "bad" BY ONLY <1>8 DEF Cause
<1> QED BY <1>1, <1>2, <1>3, <1>5, <1>6, <1>7, <1>8 DEF CauseIn

LEMMA RefusedIs == GenInv /\ MeaningInv => RefusedForCause
<1> SUFFICES ASSUME GenInv, MeaningInv, err_count > 0 PROVE Cause(Len(src))
  BY DEF RefusedForCause
<1>1. src \in Seq(Token) BY DEF GenInv, Typed
<1>2. Len(src) > 0 /\ CauseIn(src, Len(src)) BY DEF MeaningInv, Refusing
<1>3. Len(src) \in 1 .. Len(src) BY <1>1, <1>2, LenProperties
<1> QED BY ONLY <1>1, <1>2, <1>3, CauseIs

(* A return takes off the stack the values of the for loops of its         *)
(* function that are open where it stands, all of them and no others, in   *)
(* programs with loops and functions nested in one another to any depth.   *)
THEOREM ReturnsCorrect == Spec => []ReturnsUnwind
BY MeantIs, MeaningCorrect, PTL

(* A break of a compiled program goes behind the innermost loop of its     *)
(* function, with the instruction that this loop needs, whatever blocks    *)
(* and other breaks lie in between.                                        *)
THEOREM BreaksCorrect == Spec => []BreaksLeave
BY MeantIs, MeaningCorrect, PTL

(* Each loop, branch, function and case of a dispatch of a compiled        *)
(* program is entered, repeated and left where its braces say, and what    *)
(* has once been patched is not overwritten by what is compiled later.     *)
THEOREM BlocksCorrect == Spec => []BlocksMeant
BY MeantIs, MeaningCorrect, PTL

(* A program is refused only for a reason that can be seen in it: the      *)
(* compiler, which knows no more than its lists and its flags, does not    *)
(* refuse a program because of what it has forgotten or not reset.         *)
THEOREM RefusalsCorrect == Spec => []RefusedForCause
BY RefusedIs, GenCorrect, MeaningCorrect, PTL
=============================================================================
