---------------------------- MODULE VmHeapProofs ----------------------------
(***************************************************************************)
(* Proofs about VmHeap: for every heap size, every set of variables and    *)
(* every program that indexes its arrays within their size, the heap stays *)
(* partitioned into the chunks of the variables and free blocks, the       *)
(* search finds the first long enough run above the place it starts from,  *)
(* and the instructions implement the ownership of HeapAbs.                *)
(***************************************************************************)
EXTENDS VmHeap, TLAPS, FiniteSetTheorems, WellFoundedInduction

(* The programs the theorems are about have neither habit: the program     *)
(* itself keeps its indexes and offsets at 0 or more, and the elements it  *)
(* stores below the end of the array.  The code tests only a part of this  *)
(* (nc_runtime.c:598, 630, 651, 672, 693, 740, 763, 786).  And the byte    *)
(* length of an array fits 16 bits.                                        *)
Disciplined == Habits = {} /\ DimSizes \subseteq 0 .. 16382

-----------------------------------------------------------------------------
(* The inductive invariant.                                                *)

(* The locals of an instruction and of the search exist only while it runs.*)
CallOK ==
  /\ pc # "scan" => scan = NoScan
  /\ pc = "run" => call = NoCall
  /\ pc = "scan" => /\ call.op \in {"dim", "str"}
                    /\ call.var \in Vars
                    /\ call.fill \in 1 .. MaxBlockSize
                    /\ scan.need = NumBlocks(call.fill)
                    /\ scan.words = NumWords(call.fill)

(* Where the search is: between two chunks or at a known distance from the *)
(* end of one, with the free run that ends here measured in full.          *)
ScanOK ==
  pc = "scan" =>
    /\ scan.from <= scan.i
    /\ scan.i <= HeapBlocks
    /\ scan.count < scan.need
    /\ scan.blocked = 0 => ~Interior(scan.i)
    /\ scan.blocked > 0 =>
         /\ scan.count = 0
         /\ \E v \in Vars : /\ Live(v)
                            /\ scan.i \in Extent(v)
                            /\ scan.i + scan.blocked = Chunk(v) + Size(v)
    /\ scan.count > 0 =>
         /\ scan.start + scan.count = scan.i
         /\ scan.from <= scan.start
         /\ mem_start = scan.start
         /\ \A b \in scan.start .. scan.i - 1 : ~Covered(b)
    /\ \/ scan.i - scan.count = scan.from
       \/ Covered(scan.i - scan.count - 1)

IInv == TypeOK /\ HeapPartition /\ CallOK /\ ScanOK /\ FirstFit

-----------------------------------------------------------------------------
(* Addresses.                                                              *)
LEMMA BlockOfAddr ==
  ASSUME NEW b \in Blocks
  PROVE  /\ IsHeapAddr(Addr(b))
         /\ BlockOf(Addr(b)) = b
         /\ Addr(b) # 0 /\ Addr(b) # NB_ERROR
<1>1. b \in Nat /\ 8 * b < 32768
  BY HeapAssumption DEF Blocks, BlockSize
<1>2. (32768 + 8 * b + 2) % 32768 = 8 * b + 2
  BY <1>1
<1>3. (8 * b + 2 - 2) \div 8 = b
  BY <1>1
<1>. QED BY <1>1, <1>2, <1>3 DEF IsHeapAddr, Addr, BlockOf, BlockSize, HeaderSize, NB_ERROR

(* String constants are not in the heap, and neither is an error code.     *)
LEMMA LiteralsInCode ==
  /\ \A addr \in Literals : ~IsHeapAddr(addr)
  /\ ~IsHeapAddr(NB_ERROR) /\ ~IsHeapAddr(0)
<1>1. Literals \subseteq 1 .. STRBUF1 - 1
  BY VmHeapAssumption
<1>2. ASSUME NEW addr \in Literals PROVE ~(addr > 32767)
  <2>1. addr \in 1 .. STRBUF1 - 1
    BY <1>1
  <2>. QED BY <2>1 DEF STRBUF1
<1>. QED BY <1>2 DEF IsHeapAddr, NB_ERROR

(* A request fits its chunk, and so do all the bytes the chunk reports.    *)
LEMMA ChunkFits ==
  ASSUME NEW n \in Nat
  PROVE  /\ NumBlocks(n) \in Nat /\ NumWords(n) \in Nat
         /\ NumBlocks(n) >= 1
         /\ HeaderSize + n <= BlockSize * NumBlocks(n)
         /\ n <= NumWords(n) * WordSize - HeaderSize
         /\ NumWords(n) * WordSize <= BlockSize * NumBlocks(n)
         /\ NumBlocks(n) <= NumWords(n)
BY DEF NumBlocks, NumWords, BlockSize, WordSize, HeaderSize

LEMMA HeaderBytes ==
  ASSUME NEW n \in 0 .. MaxBlockSize
  PROVE  NumBlocks(n) \in 0 .. 255 /\ NumWords(n) \in 0 .. 255
BY HeapAssumption DEF NumBlocks, NumWords, BlockSize, WordSize

(* What the address of a live variable leads to.                           *)
LEMMA LiveChunk ==
  ASSUME TypeOK, HeadersOK, NEW v \in Vars, Live(v)
  PROVE  /\ Chunk(v) \in Blocks
         /\ Size(v) \in 1 .. 255
         /\ Extent(v) = Chunk(v) .. Chunk(v) + Size(v) - 1
         /\ Extent(v) \subseteq Blocks
         /\ Chunk(v) \in Extent(v)
<1>1. /\ Chunk(v) \in Blocks
      /\ Size(v) >= 1
      /\ Chunk(v) + Size(v) <= HeapBlocks
  BY DEF HeadersOK
<1>2. heap[Chunk(v)] \in Cell
  BY <1>1 DEF TypeOK
<1>3. Size(v) \in 1 .. 255
  BY <1>1, <1>2 DEF Size, Cell
<1>4. Extent(v) = Chunk(v) .. Chunk(v) + Size(v) - 1
  BY DEF Extent
<1>5. Chunk(v) \in Int /\ HeapBlocks \in Int /\ Size(v) \in Int /\ 0 <= Chunk(v)
  BY <1>1, <1>3, HeapAssumption DEF Blocks
<1>6. Extent(v) \subseteq Blocks /\ Chunk(v) \in Extent(v)
  BY <1>1, <1>3, <1>4, <1>5 DEF Blocks
<1>. QED BY <1>1, <1>3, <1>4, <1>6

(* Bytes stored in the data of a chunk leave all other blocks, and the     *)
(* header, as they are.                                                    *)
LEMMA StoredInChunk ==
  ASSUME NEW h \in [Blocks -> Cell], NEW d \in [Blocks -> Cell],
         NEW b \in Blocks, NEW lo \in Nat, NEW n \in Nat, NEW size \in Nat,
         HeaderSize + lo + n <= BlockSize * size
  PROVE  /\ Stored(h, b, lo, n, d) \in [Blocks -> Cell]
         /\ \A c \in Blocks \ (b + 1 .. b + size - 1) :
               Stored(h, b, lo, n, d)[c] = h[c]
<1>1. \A c \in Blocks : h[c] \in Cell /\ d[c] \in Cell
  OBVIOUS
<1>2. Stored(h, b, lo, n, d) \in [Blocks -> Cell]
  BY <1>1 DEF Stored, Cell
<1>3. ASSUME NEW c \in Blocks, c \notin b + 1 .. b + size - 1
      PROVE  Stored(h, b, lo, n, d)[c] = h[c]
  <2>1. c \in Int /\ b \in Int
    BY HeapAssumption DEF Blocks
  <2>2. /\ ~Hit(BlockSize * (c - b), lo, n)
        /\ ~Hit(BlockSize * (c - b) + 1, lo, n)
    BY <1>3, <2>1 DEF BlockSize, HeaderSize, Hit
  <2>3. Stored(h, b, lo, n, d)[c] = [tag |-> h[c].tag, words |-> h[c].words]
    BY <2>2 DEF Stored
  <2>4. h[c] = [tag |-> h[c].tag, words |-> h[c].words]
    BY <1>1 DEF Cell
  <2>. QED BY <2>3, <2>4
<1>. QED BY <1>2, <1>3

-----------------------------------------------------------------------------
(* The steps, as the variables see them.                                   *)

(* Of the chunks that stay with their variables, a step changes the data   *)
(* of u's at most, and no header.                                          *)
OnlyIn(u) ==
  \A v \in Vars :
    Live(v) /\ Live(v)' => /\ heap'[Chunk(v)] = heap[Chunk(v)]
                           /\ v # u => \A b \in Extent(v) : heap'[b] = heap[b]

LEMMA OnlyInApart ==
  ASSUME NEW u, OnlyIn(u)
  PROVE  DataApart
<1>. SUFFICES ASSUME NEW v \in Vars, NEW w \in Vars, Live(v), Live(v)'
              PROVE  /\ heap'[Chunk(v)] = heap[Chunk(v)]
                     /\ (/\ w # v /\ Live(w) /\ Live(w)'
                         /\ \E b \in Extent(w) : heap'[b] # heap[b])
                        => \A b \in Extent(v) : heap'[b] = heap[b]
  BY DEF DataApart
<1>1. CASE v # u
  BY <1>1 DEF OnlyIn
<1>2. CASE v = u
  BY <1>2 DEF OnlyIn
<1>. QED BY <1>1, <1>2

LEMMA SameHeapApart ==
  ASSUME heap' = heap
  PROVE  DataApart
BY DEF DataApart

(* The instruction gives up the chunk of its variable.                     *)
LEMMA DropStep ==
  ASSUME TypeOK, HeapPartition, call = NoCall,
         NEW v \in Vars, DropOld(v),
         \A u \in Vars \ {v} : ref'[u] = ref[u] /\ call'.var # u,
         ~Live(v)'
  PROVE  /\ heap' \in [Blocks -> Cell]
         /\ mem_start' \in Blocks
         /\ HeapPartition'
         /\ Owned' = [Owned EXCEPT ![v] = {}]
         /\ OnlyIn(v)
<1>1. \A u \in Vars : Live(u) <=> HasChunk(u)
  BY VmHeapAssumption DEF Live, NoCall
<1>2. \A u \in Vars \ {v} : Chunk(u)' = Chunk(u) /\ (Live(u)' <=> Live(u))
  BY <1>1 DEF Live, Chunk, HasChunk
<1>3. \A c \in Blocks : heap[c] \in Cell /\ [heap[c] EXCEPT !.tag = FreeTag] \in Cell
                        /\ [heap[c] EXCEPT !.tag = FreeTag].tag = FreeTag
  BY DEF TypeOK, Cell, FreeTag
<1>4. CASE HasChunk(v)
  <2>0. Live(v) /\ HeadersOK
    BY <1>1, <1>4 DEF HeapPartition
  <2>1. /\ Chunk(v) \in Blocks /\ Size(v) \in 1 .. 255
        /\ Extent(v) = Chunk(v) .. Chunk(v) + Size(v) - 1
        /\ Chunk(v) + Size(v) <= HeapBlocks
    BY <2>0, LiveChunk DEF HeadersOK
  <2>2. /\ heap' = [c \in Blocks |-> IF c \in Extent(v)
                        THEN [heap[c] EXCEPT !.tag = FreeTag] ELSE heap[c]]
        /\ mem_start' = IF Chunk(v) < mem_start THEN Chunk(v) ELSE mem_start
    BY <1>4, <2>1 DEF DropOld, FreedHeap, StartAfterFree, InsideHeap, Size
  <2>3. heap' \in [Blocks -> Cell] /\ mem_start' \in Blocks
    BY <1>3, <2>1, <2>2 DEF TypeOK
  <2>4. ASSUME NEW u \in Vars \ {v}, Live(u)
        PROVE  /\ heap'[Chunk(u)] = heap[Chunk(u)]
               /\ Size(u)' = Size(u)
               /\ Extent(u)' = Extent(u)
               /\ Capacity(Chunk(u))' = Capacity(Chunk(u))
               /\ Extent(u) \cap Extent(v) = {}
    <3>1. Chunk(u) \in Blocks /\ Chunk(u) \in Extent(u)
      BY <2>0, <2>4, LiveChunk
    <3>2. Extent(u) \cap Extent(v) = {}
      BY <2>0, <2>4 DEF HeapPartition, ChunksDisjoint
    <3>3. heap'[Chunk(u)] = heap[Chunk(u)]
      BY <2>2, <3>1, <3>2
    <3>. QED BY <1>2, <3>2, <3>3 DEF Size, Extent, Capacity
  <2>5. HeadersOK'
    BY <1>2, <2>0, <2>4 DEF HeadersOK
  <2>6. ChunksDisjoint'
    BY <1>2, <2>4 DEF HeapPartition, ChunksDisjoint
  <2>7. \A b \in Blocks : Covered(b)' <=> Covered(b) /\ b \notin Extent(v)
    BY <1>2, <2>0, <2>4 DEF Covered
  <2>8. OthersFree'
    BY <1>3, <2>2, <2>7 DEF HeapPartition, OthersFree
  <2>9. StartOnBoundary'
    <3>1. \A u \in Vars \ {v} : Live(u) => mem_start' \notin Extent(u) \ {Chunk(u)}
      <4>1. CASE Chunk(v) < mem_start
        BY <4>1, <2>0, <2>1, <2>2, <2>4, LiveChunk
      <4>2. CASE ~(Chunk(v) < mem_start)
        BY <4>2, <2>2 DEF HeapPartition, StartOnBoundary, Interior
      <4>. QED BY <4>1, <4>2
    <3>. QED BY <3>1, <1>2, <2>4 DEF StartOnBoundary, Interior
  <2>10. Owned' = [Owned EXCEPT ![v] = {}]
    BY <1>2, <2>4 DEF Owned
  <2>11. OnlyIn(v)
    <3>. SUFFICES ASSUME NEW u \in Vars \ {v}, Live(u)
                  PROVE  /\ heap'[Chunk(u)] = heap[Chunk(u)]
                         /\ \A b \in Extent(u) : heap'[b] = heap[b]
      BY DEF OnlyIn
    <3>1. Extent(u) \subseteq Blocks
      BY <2>0, LiveChunk
    <3>. QED BY <2>2, <2>4, <3>1
  <2>. QED BY <2>3, <2>5, <2>6, <2>8, <2>9, <2>10, <2>11 DEF HeapPartition
<1>5. CASE ~HasChunk(v)
  <2>1. UNCHANGED <<heap, mem_start>>
    BY <1>5 DEF DropOld
  <2>2. ~Live(v)
    BY <1>5 DEF Live
  <2>3. \A u \in Vars : /\ Live(u)' <=> Live(u)
                        /\ Live(u) => Chunk(u)' = Chunk(u) /\ Size(u)' = Size(u)
                                      /\ Extent(u)' = Extent(u)
                                      /\ Capacity(Chunk(u))' = Capacity(Chunk(u))
    BY <1>2, <2>1, <2>2 DEF Size, Extent, Capacity
  <2>4. HeadersOK'
    BY <1>2, <2>2, <2>3 DEF HeapPartition, HeadersOK
  <2>5. ChunksDisjoint' /\ OthersFree' /\ StartOnBoundary'
    BY <2>1, <2>3 DEF HeapPartition, ChunksDisjoint, OthersFree, Covered,
                      StartOnBoundary, Interior
  <2>6. Owned' = [Owned EXCEPT ![v] = {}]
    BY <2>2, <2>3 DEF Owned
  <2>7. OnlyIn(v)
    BY <2>1 DEF OnlyIn
  <2>. QED BY <2>1, <2>4, <2>5, <2>6, <2>7 DEF HeapPartition, TypeOK
<1>. QED BY <1>4, <1>5

(* A program stores into the chunk of one of its variables.                *)
LEMMA StoreStep ==
  ASSUME TypeOK, HeapPartition, NEW v \in Vars, Live(v),
         heap' \in [Blocks -> Cell],
         \A c \in Blocks \ (Chunk(v) + 1 .. Chunk(v) + Size(v) - 1) : heap'[c] = heap[c],
         UNCHANGED <<mem_start, ref, call>>
  PROVE  /\ HeapPartition'
         /\ Owned' = Owned
         /\ \A b \in Blocks : Covered(b)' <=> Covered(b)
         /\ OnlyIn(v)
<1>0. HeadersOK /\ ChunksDisjoint
  BY DEF HeapPartition
<1>1. \A u \in Vars : Chunk(u)' = Chunk(u) /\ (Live(u)' <=> Live(u))
  BY DEF Live, Chunk, HasChunk
<1>2. Chunk(v) + 1 .. Chunk(v) + Size(v) - 1 = Extent(v) \ {Chunk(v)}
  <2>1. Chunk(v) \in Blocks /\ Size(v) \in 1 .. 255
    BY <1>0, LiveChunk
  <2>. QED BY <2>1, HeapAssumption DEF Extent, Blocks
<1>3. ASSUME NEW u \in Vars, Live(u)
      PROVE  /\ heap'[Chunk(u)] = heap[Chunk(u)]
             /\ Size(u)' = Size(u)
             /\ Extent(u)' = Extent(u)
             /\ Capacity(Chunk(u))' = Capacity(Chunk(u))
  <2>1. Chunk(u) \in Blocks /\ Chunk(u) \in Extent(u)
    BY <1>0, <1>3, LiveChunk
  <2>2. Chunk(u) \notin Extent(v) \ {Chunk(v)}
    BY <1>0, <1>3, <2>1 DEF ChunksDisjoint
  <2>3. heap'[Chunk(u)] = heap[Chunk(u)]
    BY <1>2, <2>1, <2>2
  <2>. QED BY <1>1, <2>3 DEF Size, Extent, Capacity
<1>4. HeadersOK' /\ ChunksDisjoint'
  BY <1>0, <1>1, <1>3 DEF HeadersOK, ChunksDisjoint
<1>5. \A b : (Covered(b)' <=> Covered(b)) /\ (Interior(b)' <=> Interior(b))
  BY <1>1, <1>3 DEF Covered, Interior
<1>6. OthersFree'
  <2>. SUFFICES ASSUME NEW b \in Blocks, ~Covered(b) PROVE heap'[b].tag = FreeTag
    BY <1>5 DEF OthersFree
  <2>1. b \notin Extent(v)
    BY DEF Covered
  <2>. QED BY <1>2, <2>1 DEF HeapPartition, OthersFree
<1>7. StartOnBoundary'
  BY <1>5 DEF HeapPartition, StartOnBoundary
<1>8. Owned' = Owned
  BY <1>1, <1>3 DEF Owned
<1>9. OnlyIn(v)
  <2>1. ASSUME NEW u \in Vars, Live(u), u # v, NEW b \in Extent(u)
        PROVE  heap'[b] = heap[b]
    <3>1. b \in Blocks
      BY <1>0, <2>1, LiveChunk
    <3>2. b \notin Extent(v)
      BY <1>0, <2>1 DEF ChunksDisjoint
    <3>. QED BY <1>2, <3>1, <3>2
  <2>. QED BY <1>3, <2>1 DEF OnlyIn
<1>. QED BY <1>4, <1>5, <1>6, <1>7, <1>8, <1>9 DEF HeapPartition

(* The variable of the instruction in progress gets n free blocks.         *)
LEMMA PlaceStep ==
  ASSUME TypeOK, HeapPartition, NEW v \in Vars, call.var = v,
         NEW b \in Blocks, NEW n \in 1 .. 255, b + n <= HeapBlocks,
         \A c \in b .. b + n - 1 : ~Covered(c),
         heap' \in [Blocks -> Cell],
         heap'[b].tag = n,
         WordSize * heap'[b].words <= BlockSize * n,
         \A c \in Blocks \ (b .. b + n - 1) : heap'[c] = heap[c],
         mem_start' = b, ref' = [ref EXCEPT ![v] = Addr(b)], call' = NoCall
  PROVE  /\ HeapPartition'
         /\ Owned' = [Owned EXCEPT ![v] = b .. b + n - 1]
         /\ Owned[v] = {}
         /\ OnlyIn(v)
<1>0. HeadersOK /\ ChunksDisjoint
  BY DEF HeapPartition
<1>1. /\ \A u \in Vars \ {v} : Chunk(u)' = Chunk(u) /\ (Live(u)' <=> Live(u))
      /\ Live(v)' /\ ~Live(v) /\ Chunk(v)' = b /\ ref'[v] = Addr(b)
  <2>1. ref'[v] = Addr(b) /\ \A u \in Vars \ {v} : ref'[u] = ref[u]
    BY DEF TypeOK
  <2>2. \A u \in Vars : call'.var # u
    BY VmHeapAssumption DEF NoCall
  <2>3. \A u \in Vars \ {v} : call.var # u
    OBVIOUS
  <2>4. IsHeapAddr(ref'[v]) /\ BlockOf(ref'[v]) = b
    BY <2>1, BlockOfAddr
  <2>. QED BY <2>1, <2>2, <2>3, <2>4 DEF Live, HasChunk, Chunk
<1>2. Size(v)' = n /\ Extent(v)' = b .. b + n - 1
  BY <1>1 DEF Size, Extent
<1>3. ASSUME NEW u \in Vars \ {v}, Live(u)
      PROVE  /\ Extent(u) \cap (b .. b + n - 1) = {}
             /\ Size(u)' = Size(u)
             /\ Extent(u)' = Extent(u)
             /\ Capacity(Chunk(u))' = Capacity(Chunk(u))
  <2>1. Chunk(u) \in Blocks /\ Chunk(u) \in Extent(u)
    BY <1>0, <1>3, LiveChunk
  <2>2. Extent(u) \cap (b .. b + n - 1) = {}
    BY <1>3 DEF Covered
  <2>3. heap'[Chunk(u)] = heap[Chunk(u)]
    BY <2>1, <2>2
  <2>. QED BY <1>1, <2>2, <2>3 DEF Size, Extent, Capacity
<1>4. HeadersOK'
  <2>1. heap'[b] \in Cell
    OBVIOUS
  <2>2. HeaderSize + Capacity(Chunk(v))' <= BlockSize * n
    BY <1>1, <2>1 DEF Capacity, HeaderSize, WordSize, BlockSize, Cell
  <2>. QED BY <1>0, <1>1, <1>2, <1>3, <2>2 DEF HeadersOK
<1>. DEFINE R == b .. b + n - 1
<1>a. /\ ~Live(v) /\ Live(v)' /\ Extent(v)' = R
      /\ \A u \in Vars : Live(u) => /\ u # v
                                   /\ Extent(u) \cap R = {}
                                   /\ Extent(u)' = Extent(u)
      /\ \A u \in Vars : Live(u)' => u = v \/ Live(u)
      /\ \A u \in Vars : Live(u) => Live(u)'
  BY <1>1, <1>2, <1>3
<1>. HIDE DEF R
<1>5. ChunksDisjoint'
  BY ONLY <1>0, <1>a DEF ChunksDisjoint
<1>6. \A c \in Blocks : Covered(c)' <=> Covered(c) \/ c \in R
  BY ONLY v \in Vars, <1>a DEF Covered
<1>7. OthersFree'
  BY <1>6 DEF HeapPartition, OthersFree, R
<1>8. StartOnBoundary'
  <2>1. b \in b .. b + n - 1
    <3>1. b \in Int /\ n \in Int /\ 1 <= n
      BY ONLY b \in Blocks, n \in 1 .. 255, HeapAssumption DEF Blocks
    <3>. QED BY ONLY <3>1
  <2>. QED BY <1>1, <1>2, <1>3, <2>1 DEF StartOnBoundary, Interior
<1>9. Owned[v] = {} /\ Owned' = [Owned EXCEPT ![v] = R]
  BY ONLY v \in Vars, <1>a DEF Owned
<1>10. OnlyIn(v)
  <2>. SUFFICES ASSUME NEW u \in Vars, Live(u)
                PROVE  /\ heap'[Chunk(u)] = heap[Chunk(u)]
                       /\ \A c \in Extent(u) : heap'[c] = heap[c]
    BY DEF OnlyIn
  <2>1. Extent(u) \subseteq Blocks /\ Chunk(u) \in Extent(u) /\ Extent(u) \cap R = {}
    BY <1>0, <1>a, LiveChunk
  <2>2. \A c \in Blocks \ R : heap'[c] = heap[c]
    BY DEF R
  <2>. QED BY <2>1, <2>2
<1>. QED BY <1>4, <1>5, <1>7, <1>8, <1>9, <1>10 DEF HeapPartition, R

-----------------------------------------------------------------------------
(* The steps preserve the invariant, and are steps of HeapAbs.             *)

LEMMA InitInv == Init => IInv /\ Owned = [v \in Vars |-> {}]
<1>. SUFFICES ASSUME Init PROVE IInv /\ Owned = [v \in Vars |-> {}]
  OBVIOUS
<1>1. 0 \in Blocks
  BY HeapAssumption DEF Blocks
<1>2. TypeOK
  BY <1>1 DEF Init, TypeOK, ClearedHeap, Cell, FreeTag, NoScan, NoCall
<1>3. \A v \in Vars : ~Live(v)
  BY DEF Init, Live, HasChunk, IsHeapAddr
<1>4. HeapPartition
  BY <1>3 DEF Init, HeapPartition, HeadersOK, ChunksDisjoint, OthersFree, Covered,
              StartOnBoundary, Interior, ClearedHeap
<1>5. CallOK /\ ScanOK /\ FirstFit
  BY DEF Init, CallOK, ScanOK, FirstFit
<1>6. Owned = [v \in Vars |-> {}]
  BY <1>3 DEF Owned
<1>. QED BY <1>2, <1>4, <1>5, <1>6 DEF IInv

(* The search begins at a boundary, having seen nothing.                   *)
LEMMA SearchBegins ==
  ASSUME NEW n \in 1 .. MaxBlockSize, AllocStart(n, mem_start'),
         mem_start' \in Blocks, StartOnBoundary'
  PROVE  /\ scan' \in [need : Nat, words : Nat, i : Nat, start : Nat, count : Nat,
                       blocked : Nat, from : Blocks]
         /\ scan'.need = NumBlocks(n) /\ scan'.words = NumWords(n)
         /\ ScanOK' /\ FirstFit'
<1>1. /\ NumBlocks(n) \in Nat /\ NumWords(n) \in Nat /\ NumBlocks(n) >= 1
      /\ mem_start' \in Nat /\ mem_start' < HeapBlocks /\ HeapBlocks \in Nat
  BY ChunkFits, HeapAssumption DEF Blocks
<1>2. scan' = [need |-> NumBlocks(n), words |-> NumWords(n), i |-> mem_start',
               start |-> 0, count |-> 0, blocked |-> 0, from |-> mem_start']
  BY DEF AllocStart
<1>3. scan' \in [need : Nat, words : Nat, i : Nat, start : Nat, count : Nat,
                 blocked : Nat, from : Blocks]
  BY <1>1, <1>2
<1>4. ScanOK'
  <2>1. ~Interior(scan.i)'
    BY <1>2 DEF StartOnBoundary, Interior
  <2>2. /\ scan'.i = mem_start' /\ scan'.from = mem_start'
        /\ scan'.count = 0 /\ scan'.blocked = 0 /\ scan'.need = NumBlocks(n)
    BY <1>2
  <2>3. 0 < NumBlocks(n)
    BY ONLY <1>1
  <2>4. mem_start' \in Int /\ \A x \in Int : x - 0 = x
    BY ONLY <1>1
  <2>5. scan'.count < scan'.need /\ scan'.i - scan'.count = scan'.from
    BY ONLY <2>2, <2>3, <2>4
  <2>6. scan'.i <= HeapBlocks /\ scan'.from <= scan'.i
    BY ONLY <1>1, <2>2
  <2>. QED BY ONLY <2>1, <2>2, <2>5, <2>6 DEF ScanOK
<1>5. FirstFit'
  BY <1>1, <1>2 DEF FirstFit
<1>. QED BY <1>2, <1>3, <1>4, <1>5

LEMMA DimArrInv ==
  ASSUME Disciplined, IInv, NEW v \in ArrVars, NEW size \in DimSizes, DimArr(v, size)
  PROVE  IInv' /\ Owned' = [Owned EXCEPT ![v] = {}] /\ OnlyIn(v)
<1>1. v \in Vars /\ call = NoCall
  BY DEF Vars, IInv, CallOK, DimArr
<1>2. /\ DimFill(size) = DimBytes(size)
      /\ DimFill(size) \in 1 .. MaxBlockSize
  <2>1. size \in 0 .. 16382 /\ DimBytes(size) <= MaxBlockSize /\ MaxBlockSize \in Nat
    <3>1. size \in 0 .. 16382
      BY DEF Disciplined
    <3>2. DimBytes(size) <= MaxBlockSize
      BY Zenon DEF DimArr
    <3>. QED BY <3>1, <3>2, HeapAssumption
  <2>2. DimFill(size) \in Int /\ 1 <= DimFill(size) /\ DimFill(size) < 65536
    BY <2>1 DEF DimFill, WordSize
  <2>3. \A x \in Int : 1 <= x /\ x < 65536 => x % 65536 = x
    OBVIOUS
  <2>4. DimBytes(size) = DimFill(size)
    BY <2>2, <2>3 DEF DimBytes
  <2>. QED BY <2>1, <2>2, <2>4
<1>3. /\ ~Live(v)'
      /\ \A u \in Vars \ {v} : ref'[u] = ref[u] /\ call'.var # u
  BY DEF DimArr, Live
<1>4. /\ heap' \in [Blocks -> Cell] /\ mem_start' \in Blocks
      /\ HeapPartition' /\ Owned' = [Owned EXCEPT ![v] = {}] /\ OnlyIn(v)
  BY <1>1, <1>3, DropStep DEF DimArr, IInv
<1>5. /\ scan' \in [need : Nat, words : Nat, i : Nat, start : Nat, count : Nat,
                    blocked : Nat, from : Blocks]
      /\ scan'.need = NumBlocks(DimFill(size)) /\ scan'.words = NumWords(DimFill(size))
      /\ ScanOK' /\ FirstFit'
  BY <1>2, <1>4, SearchBegins DEF DimArr, HeapPartition
<1>6. TypeOK'
  BY <1>1, <1>2, <1>4, <1>5, HeapAssumption DEF DimArr, IInv, TypeOK
<1>7. CallOK'
  BY <1>1, <1>2, <1>5 DEF DimArr, CallOK
<1>. QED BY <1>4, <1>5, <1>6, <1>7 DEF IInv

LEMMA StrGrowInv ==
  ASSUME IInv, NEW v \in StrVars, NEW n \in StrLens, StrGrow(v, n)
  PROVE  IInv' /\ Owned' = [Owned EXCEPT ![v] = {}] /\ OnlyIn(v)
<1>1. v \in Vars /\ call = NoCall /\ n \in 1 .. MaxBlockSize
  BY VmHeapAssumption DEF Vars, IInv, CallOK, StrGrow
<1>2. /\ ~Live(v)'
      /\ \A u \in Vars \ {v} : ref'[u] = ref[u] /\ call'.var # u
  BY DEF StrGrow, Live
<1>3. /\ heap' \in [Blocks -> Cell] /\ mem_start' \in Blocks
      /\ HeapPartition' /\ Owned' = [Owned EXCEPT ![v] = {}] /\ OnlyIn(v)
  BY <1>1, <1>2, DropStep DEF StrGrow, IInv
<1>4. /\ scan' \in [need : Nat, words : Nat, i : Nat, start : Nat, count : Nat,
                    blocked : Nat, from : Blocks]
      /\ scan'.need = NumBlocks(n) /\ scan'.words = NumWords(n)
      /\ ScanOK' /\ FirstFit'
  BY <1>1, <1>3, SearchBegins DEF StrGrow, HeapPartition
<1>5. TypeOK'
  BY <1>1, <1>3, <1>4, HeapAssumption DEF StrGrow, IInv, TypeOK
<1>6. CallOK'
  BY <1>1, <1>4 DEF StrGrow, CallOK
<1>. QED BY <1>3, <1>4, <1>5, <1>6 DEF IInv

LEMMA DimTooLargeInv ==
  ASSUME IInv, NEW v \in ArrVars, NEW size \in DimSizes, DimTooLarge(v, size)
  PROVE  IInv' /\ Owned' = [Owned EXCEPT ![v] = {}] /\ OnlyIn(v)
<1>1. v \in Vars /\ call = NoCall /\ scan = NoScan /\ DimFill(size) \in Nat
  BY VmHeapAssumption DEF Vars, IInv, CallOK, DimTooLarge, DimFill, WordSize
<1>2. /\ ~Live(v)'
      /\ \A u \in Vars \ {v} : ref'[u] = ref[u] /\ call'.var # u
  BY DEF DimTooLarge, Live
<1>3. /\ heap' \in [Blocks -> Cell] /\ mem_start' \in Blocks
      /\ HeapPartition' /\ Owned' = [Owned EXCEPT ![v] = {}] /\ OnlyIn(v)
  BY <1>1, <1>2, DropStep DEF DimTooLarge, IInv
<1>4. TypeOK'
  BY <1>1, <1>3 DEF DimTooLarge, IInv, TypeOK
<1>5. CallOK' /\ ScanOK' /\ FirstFit'
  BY <1>1 DEF DimTooLarge, CallOK, ScanOK, FirstFit
<1>. QED BY <1>3, <1>4, <1>5 DEF IInv

LEMMA StrLiteralInv ==
  ASSUME IInv, NEW v \in StrVars, NEW addr \in Literals \cup {0, NB_ERROR}, StrLiteral(v, addr)
  PROVE  IInv' /\ Owned' = [Owned EXCEPT ![v] = {}] /\ OnlyIn(v)
<1>1. v \in Vars /\ call = NoCall /\ scan = NoScan
  BY DEF Vars, IInv, CallOK, StrLiteral
<1>2. ref'[v] = addr /\ ref' \in [Vars -> {0, NB_ERROR} \cup Literals \cup {Addr(b) : b \in Blocks}]
  BY <1>1 DEF StrLiteral, IInv, TypeOK
<1>3. /\ ~Live(v)'
      /\ \A u \in Vars \ {v} : ref'[u] = ref[u] /\ call'.var # u
  <2>1. ~IsHeapAddr(addr)
    BY LiteralsInCode
  <2>2. \A u \in Vars : call'.var # u
    BY <1>1, VmHeapAssumption DEF StrLiteral, NoCall
  <2>. QED BY <1>2, <2>1, <2>2 DEF StrLiteral, Live, HasChunk, IInv, TypeOK
<1>4. /\ heap' \in [Blocks -> Cell] /\ mem_start' \in Blocks
      /\ HeapPartition' /\ Owned' = [Owned EXCEPT ![v] = {}] /\ OnlyIn(v)
  BY <1>1, <1>3, DropStep DEF StrLiteral, IInv
<1>5. TypeOK'
  BY <1>2, <1>4 DEF StrLiteral, IInv, TypeOK
<1>6. CallOK' /\ ScanOK' /\ FirstFit'
  BY <1>1 DEF StrLiteral, CallOK, ScanOK, FirstFit, IInv
<1>. QED BY <1>4, <1>5, <1>6 DEF IInv

(* Bytes stored within the capacity of a variable's chunk.                 *)
LEMMA StoreInv ==
  ASSUME IInv, pc = "run", NEW v \in Vars, HasChunk(v),
         NEW lo \in Nat, NEW n \in Nat, NEW d \in [Blocks -> Cell],
         lo + n <= Capacity(Chunk(v)),
         heap' = Stored(heap, Chunk(v), lo, n, d),
         UNCHANGED <<mem_start, scan, ref, pc, call>>
  PROVE  IInv' /\ Owned' = Owned /\ OnlyIn(v)
<1>1. Live(v) /\ TypeOK /\ HeapPartition /\ HeadersOK
  BY VmHeapAssumption DEF IInv, CallOK, Live, NoCall, HeapPartition
<1>2. /\ Chunk(v) \in Blocks /\ Size(v) \in 1 .. 255
      /\ HeaderSize + Capacity(Chunk(v)) <= BlockSize * Size(v)
  BY <1>1, LiveChunk DEF HeadersOK
<1>3. Capacity(Chunk(v)) \in Int
  <2>1. heap[Chunk(v)] \in Cell
    BY <1>1, <1>2 DEF TypeOK
  <2>. QED BY <2>1 DEF Capacity, WordSize, HeaderSize, Cell
<1>4. HeaderSize + lo + n <= BlockSize * Size(v)
  BY <1>2, <1>3 DEF HeaderSize, BlockSize
<1>5. /\ heap' \in [Blocks -> Cell]
      /\ \A c \in Blocks \ (Chunk(v) + 1 .. Chunk(v) + Size(v) - 1) : heap'[c] = heap[c]
  <2>1. heap \in [Blocks -> Cell] /\ Size(v) \in Nat
    BY <1>1, <1>2 DEF TypeOK
  <2>. QED BY <1>2, <1>4, <2>1, StoredInChunk
<1>6. HeapPartition' /\ Owned' = Owned /\ OnlyIn(v)
  BY <1>1, <1>5, StoreStep
<1>7. TypeOK' /\ CallOK' /\ ScanOK' /\ FirstFit'
  BY <1>5 DEF IInv, TypeOK, CallOK, ScanOK, FirstFit
<1>. QED BY <1>6, <1>7 DEF IInv

LEMMA StrInPlaceInv ==
  ASSUME IInv, NEW v \in StrVars, NEW n \in StrLens,
         NEW d \in [Blocks -> DataCells], StrInPlace(v, n, d)
  PROVE  IInv' /\ Owned' = Owned /\ OnlyIn(v)
<1>1. v \in Vars /\ n \in Nat /\ d \in [Blocks -> Cell] /\ 0 + n = n
  BY VmHeapAssumption, HeapAssumption DEF Vars
<1>2. 0 + n <= Capacity(Chunk(v))
  <2>1. Live(v) /\ HeadersOK /\ TypeOK
    BY <1>1, VmHeapAssumption DEF IInv, CallOK, Live, NoCall, HeapPartition, StrInPlace
  <2>2. heap[Chunk(v)] \in Cell
    BY <1>1, <2>1, LiveChunk DEF TypeOK
  <2>3. Capacity(Chunk(v)) \in Int /\ Capacity(Chunk(v)) >= n
    BY <2>2 DEF StrInPlace, Capacity, Cell, WordSize, HeaderSize
  <2>. QED BY ONLY <1>1, <2>3
<1>. QED BY <1>1, <1>2, StoreInv DEF StrInPlace

LEMMA SetArrElemInv ==
  ASSUME Disciplined, IInv, NEW v \in ArrVars, NEW idx \in Int, NEW x \in DataCells,
         SetArrElem(v, idx, x)
  PROVE  IInv' /\ Owned' = Owned /\ OnlyIn(v)
<1>1. v \in Vars /\ [b \in Blocks |-> x] \in [Blocks -> Cell]
  BY VmHeapAssumption DEF Vars
<1>2. /\ WordSize * idx \in Nat /\ WordSize \in Nat
      /\ WordSize * idx + WordSize <= Capacity(Chunk(v))
  <2>1. Live(v) /\ HeadersOK /\ TypeOK
    BY <1>1, VmHeapAssumption DEF IInv, CallOK, Live, NoCall, HeapPartition, SetArrElem
  <2>0. Chunk(v) \in Blocks
    BY <1>1, <2>1, LiveChunk
  <2>2. heap[Chunk(v)].words \in Int
    BY <2>0, <2>1 DEF TypeOK, Cell
  <2>3. idx \in Nat /\ idx + 1 < heap[Chunk(v)].words
    BY DEF SetArrElem, Disciplined
  <2>. QED BY <2>2, <2>3 DEF Capacity, WordSize, HeaderSize
<1>. QED BY <1>1, <1>2, StoreInv DEF SetArrElem

LEMMA SetArrBytesInv ==
  ASSUME Disciplined, IInv, NEW v \in ArrVars, NEW offs \in Int, NEW n \in StoreSizes,
         NEW x \in DataCells, SetArrBytes(v, offs, n, x)
  PROVE  IInv' /\ Owned' = Owned /\ OnlyIn(v)
<1>1. v \in Vars /\ n \in Nat /\ [b \in Blocks |-> x] \in [Blocks -> Cell]
  BY VmHeapAssumption DEF Vars
<1>2. offs \in Nat
  BY DEF SetArrBytes, Disciplined
<1>. QED BY <1>1, <1>2, StoreInv DEF SetArrBytes

LEMMA IndexErrorInv ==
  ASSUME IInv, NEW v \in ArrVars, IndexError(v)
  PROVE  IInv' /\ Owned' = Owned
<1>1. UNCHANGED <<heap, mem_start, scan, ref, call>> /\ pc = "run" /\ pc' = "error"
  BY DEF IndexError
<1>2. TypeOK'
  BY <1>1 DEF IInv, TypeOK
<1>3. HeapPartition'
  BY <1>1 DEF IInv, HeapPartition, HeadersOK, ChunksDisjoint, OthersFree, StartOnBoundary,
      Covered, Interior, Extent, Size, Capacity, Chunk, Live, HasChunk
<1>4. CallOK' /\ ScanOK' /\ FirstFit'
  BY <1>1 DEF IInv, CallOK, ScanOK, FirstFit
<1>5. Owned' = Owned
  BY <1>1 DEF Owned, Extent, Size, Chunk, Live, HasChunk
<1>. QED BY <1>2, <1>3, <1>4, <1>5 DEF IInv

LEMMA ResetInv ==
  ASSUME IInv, Reset
  PROVE  IInv' /\ Owned' = [v \in Vars |-> {}] /\ DataApart
<1>1. 0 \in Blocks
  BY HeapAssumption DEF Blocks
<1>2. TypeOK'
  BY <1>1 DEF Reset, IInv, TypeOK, ClearedHeap, Cell, FreeTag, NoCall
<1>3. \A v \in Vars : ~Live(v)'
  BY DEF Reset, Live, HasChunk, IsHeapAddr
<1>4. HeapPartition'
  BY <1>3 DEF Reset, HeapPartition, HeadersOK, ChunksDisjoint, OthersFree, Covered,
              StartOnBoundary, Interior, ClearedHeap
<1>5. CallOK' /\ ScanOK' /\ FirstFit'
  BY DEF Reset, IInv, CallOK, ScanOK, FirstFit
<1>6. Owned' = [v \in Vars |-> {}]
  BY <1>3 DEF Owned
<1>7. DataApart
  BY <1>3 DEF DataApart
<1>. QED BY <1>2, <1>4, <1>5, <1>6, <1>7 DEF IInv

-----------------------------------------------------------------------------
(* The search.                                                             *)

(* Where a step of the search changes nothing but its position and the     *)
(* search address, the heap looks the same.                                *)
LEMMA SameView ==
  ASSUME UNCHANGED <<heap, ref, call>>
  PROVE  /\ \A v : /\ Live(v)' <=> Live(v)
                  /\ Chunk(v)' = Chunk(v)
                  /\ Size(v)' = Size(v)
                  /\ Extent(v)' = Extent(v)
         /\ \A b : (Covered(b)' <=> Covered(b)) /\ (Interior(b)' <=> Interior(b))
         /\ HeadersOK' <=> HeadersOK
         /\ ChunksDisjoint' <=> ChunksDisjoint
         /\ OthersFree' <=> OthersFree
         /\ Owned' = Owned
<1>1. \A v : /\ Live(v)' <=> Live(v)
            /\ Chunk(v)' = Chunk(v)
            /\ Size(v)' = Size(v)
            /\ Extent(v)' = Extent(v)
  BY DEF Live, HasChunk, Chunk, Size, Extent
<1>2. \A b : (Covered(b)' <=> Covered(b)) /\ (Interior(b)' <=> Interior(b))
  BY <1>1 DEF Covered, Interior
<1>3. \A v : Capacity(Chunk(v))' = Capacity(Chunk(v))
  BY <1>1 DEF Capacity
<1>4. HeadersOK' <=> HeadersOK
  BY <1>1, <1>3 DEF HeadersOK
<1>5. ChunksDisjoint' <=> ChunksDisjoint
  BY <1>1 DEF ChunksDisjoint
<1>6. OthersFree' <=> OthersFree
  BY <1>2 DEF OthersFree
<1>7. Owned' = Owned
  BY <1>1 DEF Owned
<1>. QED BY <1>1, <1>2, <1>4, <1>5, <1>6, <1>7

(* The locals of the search are numbers.                                   *)
LEMMA ScanTypes ==
  ASSUME TypeOK
  PROVE  /\ scan.need \in Nat /\ scan.words \in Nat /\ scan.i \in Nat
         /\ scan.start \in Nat /\ scan.count \in Nat /\ scan.blocked \in Nat
         /\ scan.from \in Blocks /\ scan.from \in Nat
         /\ HeapBlocks \in Nat
BY HeapAssumption DEF TypeOK, Blocks

(* A block that the search looks at is free or the first of a chunk: the   *)
(* byte it reads is a tag.                                                 *)
LEMMA TagRead ==
  ASSUME IInv, pc = "scan", InLoop, scan.blocked = 0
  PROVE  /\ scan.i \in Blocks
         /\ heap[scan.i].tag = FreeTag => ~Covered(scan.i) /\ ~Interior(scan.i + 1)
         /\ heap[scan.i].tag # FreeTag =>
              \E v \in Vars : Live(v) /\ Chunk(v) = scan.i /\ Size(v) = heap[scan.i].tag
<1>1. TypeOK /\ HeadersOK /\ OthersFree /\ ~Interior(scan.i)
  BY DEF IInv, HeapPartition, ScanOK
<1>2. scan.i \in Nat /\ scan.i \in Blocks
  BY <1>1, ScanTypes DEF InLoop, Blocks
<1>3. ASSUME NEW v \in Vars, Live(v), scan.i \in Extent(v)
      PROVE  /\ Chunk(v) = scan.i
             /\ Size(v) = heap[scan.i].tag
             /\ heap[scan.i].tag # FreeTag
  <2>1. Chunk(v) = scan.i
    BY <1>1, <1>3 DEF Interior
  <2>2. Size(v) \in 1 .. 255
    BY <1>1, <1>3, LiveChunk
  <2>. QED BY <2>1, <2>2 DEF Size, FreeTag
<1>4. heap[scan.i].tag = FreeTag => ~Covered(scan.i)
  BY <1>3 DEF Covered
<1>5. ASSUME Interior(scan.i + 1) PROVE Covered(scan.i)
  <2>1. PICK v \in Vars : Live(v) /\ scan.i + 1 \in Extent(v) \ {Chunk(v)}
    BY <1>5 DEF Interior
  <2>2. /\ Chunk(v) \in Nat /\ Size(v) \in Nat
        /\ Extent(v) = Chunk(v) .. Chunk(v) + Size(v) - 1
    <3>1. Chunk(v) \in Blocks /\ Size(v) \in 1 .. 255
      BY <1>1, <2>1, LiveChunk
    <3>. QED BY <3>1 DEF Blocks, Extent
  <2>3. scan.i \in Extent(v)
    BY <1>2, <2>1, <2>2
  <2>. QED BY <2>1, <2>3 DEF Covered
<1>6. heap[scan.i].tag # FreeTag => Covered(scan.i)
  BY <1>1, <1>2 DEF OthersFree
<1>. QED BY <1>2, <1>3, <1>4, <1>5, <1>6 DEF Covered

(* After a block that belongs to a chunk, no free run ends here.           *)
LEMMA FitAfterUsed ==
  ASSUME IInv, pc = "scan", Covered(scan.i), CallOK,
         UNCHANGED <<heap, ref, call>>,
         scan'.need = scan.need, scan'.from = scan.from, scan'.i = scan.i + 1
  PROVE  FirstFit'
<1>1. /\ scan.need \in Nat /\ scan.need >= 1 /\ scan.i \in Nat /\ scan.from \in Nat
  <2>1. call.fill \in Nat /\ scan.need = NumBlocks(call.fill)
    BY HeapAssumption DEF CallOK
  <2>. QED BY <2>1, ChunkFits, ScanTypes DEF IInv
<1>2. ASSUME NEW b \in scan.from .. scan.i + 1 - scan.need
      PROVE  ~IsFreeRun(b, scan.need)
  <2>1. CASE b = scan.i + 1 - scan.need
    <3>1. scan.i \in b .. b + scan.need - 1
      BY <1>1, <2>1
    <3>. QED BY <3>1 DEF IsFreeRun
  <2>2. CASE b # scan.i + 1 - scan.need
    <3>1. b \in scan.from .. scan.i - scan.need
      BY <1>1, <2>2
    <3>. QED BY <3>1 DEF IInv, FirstFit
  <2>. QED BY <2>1, <2>2
<1>3. SUFFICES ASSUME NEW b \in scan.from .. scan.i + 1 - scan.need,
                      b + scan.need <= HeapBlocks,
                      \A c \in b .. b + scan.need - 1 : ~Covered(c)'
               PROVE  FALSE
  BY <1>1 DEF FirstFit, IsFreeRun
<1>4. \A c : Covered(c)' <=> Covered(c)
  BY SameView
<1>5. IsFreeRun(b, scan.need)
  BY <1>3, <1>4 DEF IsFreeRun
<1>. QED BY <1>2, <1>5

LEMMA SkipBlockedInv ==
  ASSUME IInv, pc = "scan", SkipBlocked, UNCHANGED <<ref, pc, call>>
  PROVE  IInv' /\ Owned' = Owned
<1>1. /\ TypeOK /\ HeadersOK /\ ChunksDisjoint /\ ScanOK /\ CallOK
      /\ scan.i \in Nat /\ scan.blocked \in Nat /\ scan.blocked > 0
      /\ scan.i < HeapBlocks /\ HeapBlocks \in Nat /\ scan.from \in Nat
  BY ScanTypes DEF IInv, HeapPartition, SkipBlocked, InLoop
<1>2. /\ scan' = [scan EXCEPT !.i = scan.i + 1, !.blocked = scan.blocked - 1]
      /\ UNCHANGED <<heap, mem_start, ref, call>>
  BY DEF SkipBlocked
<1>3. /\ scan'.i = scan.i + 1 /\ scan'.blocked = scan.blocked - 1
      /\ scan'.need = scan.need /\ scan'.words = scan.words /\ scan'.start = scan.start
      /\ scan'.count = scan.count /\ scan'.from = scan.from
  BY <1>1, <1>2 DEF TypeOK
<1>4. PICK v \in Vars : /\ Live(v)
                       /\ scan.i \in Extent(v)
                       /\ scan.i + scan.blocked = Chunk(v) + Size(v)
  BY <1>1 DEF ScanOK
<1>5. /\ Chunk(v) \in Nat /\ Size(v) \in Nat
      /\ Extent(v) = Chunk(v) .. Chunk(v) + Size(v) - 1
  <2>1. Chunk(v) \in Blocks /\ Size(v) \in 1 .. 255
    BY <1>1, <1>4, LiveChunk
  <2>. QED BY <2>1 DEF Blocks, Extent
<1>6. TypeOK'
  <2>0. scan.i + 1 \in Nat /\ scan.blocked - 1 \in Nat
    BY <1>1
  <2>1. scan' \in [need : Nat, words : Nat, i : Nat, start : Nat, count : Nat,
                  blocked : Nat, from : Blocks]
    BY <1>1, <1>2, <2>0 DEF TypeOK
  <2>. QED BY <1>1, <1>2, <2>1 DEF TypeOK
<1>7. HeapPartition' /\ Owned' = Owned
  BY <1>2, SameView DEF IInv, HeapPartition, StartOnBoundary
<1>8. CallOK'
  BY <1>1, <1>2, <1>3 DEF CallOK
<1>9. ScanOK'
  <2>1. Covered(scan.i)
    BY <1>4 DEF Covered
  <2>2. scan'.blocked > 0 =>
          scan'.i \in Extent(v) /\ scan'.i + scan'.blocked = Chunk(v) + Size(v)
    BY <1>1, <1>3, <1>4, <1>5
  <2>3. scan'.blocked = 0 => ~Interior(scan.i + 1)
    <3>1. SUFFICES ASSUME scan.blocked = 1,
                          NEW w \in Vars, Live(w), scan.i + 1 \in Extent(w) \ {Chunk(w)}
                   PROVE  FALSE
      BY <1>1, <1>3 DEF Interior
    <3>2. Chunk(w) \in Blocks /\ Size(w) \in 1 .. 255
      BY <1>1, <3>1, LiveChunk
    <3>3. scan.i \in Extent(w)
      BY <1>1, <3>1, <3>2 DEF Extent, Blocks
    <3>4. scan.i + 1 \notin Extent(v)
      BY <1>1, <1>4, <1>5, <3>1
    <3>. QED BY <1>1, <1>4, <3>1, <3>3, <3>4 DEF ChunksDisjoint
  <2>4. scan.count = 0
    BY <1>1 DEF ScanOK
  <2>5. scan'.i - scan'.count - 1 = scan.i
    BY <1>1, <1>3, <2>4
  <2>6. Covered(scan.i - scan.count - 1)'
    BY <1>2, <2>1, <2>5, SameView DEF Covered
  <2>7. scan'.blocked > 0 =>
           \E u \in Vars : /\ Live(u)'
                          /\ scan'.i \in Extent(u)'
                          /\ scan'.i + scan'.blocked = Chunk(u)' + Size(u)'
    BY <1>2, <1>4, <2>2, SameView
  <2>8. scan'.blocked = 0 => ~Interior(scan.i)'
    BY <1>2, <1>3, <2>3, SameView DEF Interior
  <2>9. /\ scan'.from <= scan'.i /\ scan'.i <= HeapBlocks /\ scan'.count < scan'.need
    BY <1>1, <1>3 DEF ScanOK
  <2>. QED BY <1>3, <2>4, <2>6, <2>7, <2>8, <2>9 DEF ScanOK
<1>10. FirstFit'
  <2>1. Covered(scan.i)
    BY <1>4 DEF Covered
  <2>. QED BY <1>1, <1>2, <1>3, <2>1, FitAfterUsed
<1>. QED BY <1>6, <1>7, <1>8, <1>9, <1>10 DEF IInv

LEMMA SkipUsedInv ==
  ASSUME IInv, pc = "scan", SkipUsed, UNCHANGED <<ref, pc, call>>
  PROVE  IInv' /\ Owned' = Owned
<1>1. /\ TypeOK /\ HeadersOK /\ ChunksDisjoint /\ ScanOK /\ CallOK
      /\ scan.i \in Nat /\ scan.blocked = 0
      /\ scan.i < HeapBlocks /\ HeapBlocks \in Nat /\ scan.from \in Nat
  BY ScanTypes DEF IInv, HeapPartition, SkipUsed, InLoop
<1>2. PICK v \in Vars : Live(v) /\ Chunk(v) = scan.i /\ Size(v) = heap[scan.i].tag
  BY TagRead DEF SkipUsed
<1>3. /\ Size(v) \in Nat /\ Size(v) >= 1
      /\ Extent(v) = scan.i .. scan.i + Size(v) - 1
      /\ scan.i + Size(v) <= HeapBlocks
      /\ scan.i \in Extent(v)
  <2>1. Size(v) \in 1 .. 255 /\ scan.i \in Extent(v)
    BY <1>1, <1>2, LiveChunk
  <2>. QED BY <1>1, <1>2, <2>1 DEF Extent, HeadersOK
<1>4. /\ scan' = [scan EXCEPT !.i = scan.i + 1, !.blocked = Size(v) - 1,
                             !.start = 0, !.count = 0]
      /\ UNCHANGED <<heap, mem_start, ref, call>>
  BY <1>2 DEF SkipUsed
<1>5. /\ scan'.i = scan.i + 1 /\ scan'.blocked = Size(v) - 1
      /\ scan'.need = scan.need /\ scan'.words = scan.words
      /\ scan'.count = 0 /\ scan'.from = scan.from
  BY <1>1, <1>4 DEF TypeOK
<1>6. TypeOK'
  <2>0. scan.i + 1 \in Nat /\ Size(v) - 1 \in Nat
    BY <1>1, <1>3
  <2>1. scan' \in [need : Nat, words : Nat, i : Nat, start : Nat, count : Nat,
                  blocked : Nat, from : Blocks]
    BY <1>1, <1>4, <2>0 DEF TypeOK
  <2>. QED BY <1>1, <1>4, <2>1 DEF TypeOK
<1>7. HeapPartition' /\ Owned' = Owned
  BY <1>4, SameView DEF IInv, HeapPartition, StartOnBoundary
<1>8. CallOK'
  BY <1>1, <1>4, <1>5 DEF CallOK
<1>9. Covered(scan.i)
  BY <1>2, <1>3 DEF Covered
<1>10. ScanOK'
  <2>1. scan'.blocked > 0 =>
          scan'.i \in Extent(v) /\ scan'.i + scan'.blocked = Chunk(v) + Size(v)
    BY <1>1, <1>2, <1>3, <1>5
  <2>2. scan'.blocked = 0 => ~Interior(scan.i + 1)
    <3>1. SUFFICES ASSUME Size(v) = 1,
                          NEW w \in Vars, Live(w), scan.i + 1 \in Extent(w) \ {Chunk(w)}
                   PROVE  FALSE
      BY <1>3, <1>5 DEF Interior
    <3>2. Chunk(w) \in Blocks /\ Size(w) \in 1 .. 255
      BY <1>1, <3>1, LiveChunk
    <3>3. scan.i \in Extent(w)
      BY <1>1, <3>1, <3>2 DEF Extent, Blocks
    <3>4. scan.i + 1 \notin Extent(v)
      BY <1>1, <1>3, <3>1
    <3>. QED BY <1>1, <1>2, <1>3, <3>1, <3>3, <3>4 DEF ChunksDisjoint
  <2>3. scan'.i - scan'.count - 1 = scan.i
    BY <1>1, <1>5
  <2>4. Covered(scan.i - scan.count - 1)'
    BY <1>4, <1>9, <2>3, SameView DEF Covered
  <2>5. scan'.blocked > 0 =>
           \E u \in Vars : /\ Live(u)'
                          /\ scan'.i \in Extent(u)'
                          /\ scan'.i + scan'.blocked = Chunk(u)' + Size(u)'
    BY <1>2, <1>4, <2>1, SameView
  <2>6. scan'.blocked = 0 => ~Interior(scan.i)'
    BY <1>4, <1>5, <2>2, SameView DEF Interior
  <2>7. /\ scan'.from <= scan'.i /\ scan'.i <= HeapBlocks /\ scan'.count < scan'.need
    <3>1. scan.need \in Nat /\ scan.count \in Nat /\ scan.count < scan.need
      BY <1>1, ScanTypes DEF ScanOK, SkipUsed
    <3>2. scan.from <= scan.i
      BY <1>1 DEF ScanOK, SkipUsed
    <3>. QED BY <1>1, <1>5, <3>1, <3>2
  <2>. QED BY <1>5, <2>4, <2>5, <2>6, <2>7 DEF ScanOK
<1>11. FirstFit'
  BY <1>1, <1>4, <1>5, <1>9, FitAfterUsed
<1>. QED BY <1>6, <1>7, <1>8, <1>10, <1>11 DEF IInv

(* The run that ends at a free block, and the block before it.             *)
LEMMA RunOfBlocks ==
  ASSUME IInv, pc = "scan", AtFreeBlock
  PROVE  /\ scan.i \in Blocks /\ scan.i \in Nat /\ scan.from \in Nat
         /\ scan.count \in Nat /\ scan.need \in Nat /\ scan.count < scan.need
         /\ scan.from <= RunStart
         /\ RunStart \in Nat /\ RunStart \in Blocks
         /\ RunStart + scan.count = scan.i
         /\ StartAfterRun = RunStart
         /\ ~Interior(scan.i + 1)
         /\ \A b \in RunStart .. scan.i : ~Covered(b)
         /\ RunStart = scan.from \/ Covered(RunStart - 1)
<1>1. /\ TypeOK /\ ScanOK
      /\ scan.i \in Nat /\ scan.start \in Nat /\ scan.count \in Nat /\ scan.need \in Nat
      /\ scan.from \in Nat /\ HeapBlocks \in Nat
  BY ScanTypes DEF IInv
<1>2. scan.i \in Blocks /\ ~Covered(scan.i) /\ ~Interior(scan.i + 1)
  BY TagRead DEF AtFreeBlock
<1>3. /\ scan.from <= scan.i /\ scan.count < scan.need
      /\ scan.i - scan.count = scan.from \/ Covered(scan.i - scan.count - 1)
  BY <1>1 DEF ScanOK
<1>4. CASE scan.count = 0
  <2>1. RunStart = scan.i /\ StartAfterRun = scan.i /\ scan.i - scan.count = scan.i
    BY <1>1, <1>4 DEF RunStart, StartAfterRun
  <2>. QED BY <1>1, <1>2, <1>3, <1>4, <2>1
<1>5. CASE scan.count # 0
  <2>1. RunStart = scan.start /\ StartAfterRun = mem_start
    BY <1>5 DEF RunStart, StartAfterRun
  <2>2. /\ scan.start + scan.count = scan.i /\ scan.from <= scan.start
        /\ mem_start = scan.start
        /\ \A b \in scan.start .. scan.i - 1 : ~Covered(b)
    BY <1>1, <1>5 DEF ScanOK
  <2>3. scan.i - scan.count = scan.start
    BY <1>1, <2>2
  <2>4. scan.start \in Blocks
    BY <1>1, <1>2, <2>2 DEF Blocks
  <2>5. \A b \in scan.start .. scan.i : ~Covered(b)
    <3>1. \A b \in scan.start .. scan.i : b = scan.i \/ b \in scan.start .. scan.i - 1
      BY <1>1
    <3>. QED BY <1>2, <2>2, <3>1
  <2>. QED BY <1>1, <1>2, <1>3, <2>1, <2>2, <2>3, <2>4, <2>5
<1>. QED BY <1>4, <1>5

LEMMA ExtendRunInv ==
  ASSUME IInv, pc = "scan", ExtendRun, UNCHANGED <<ref, pc, call>>
  PROVE  IInv' /\ Owned' = Owned
<1>1. /\ TypeOK /\ ScanOK /\ CallOK /\ FirstFit /\ AtFreeBlock
      /\ scan.blocked = 0 /\ scan.i < HeapBlocks /\ HeapBlocks \in Nat
  BY HeapAssumption DEF IInv, ExtendRun, AtFreeBlock, InLoop
<1>2. /\ scan.i \in Blocks /\ scan.i \in Nat /\ scan.from \in Nat
      /\ scan.count \in Nat /\ scan.need \in Nat /\ scan.count + 1 < scan.need
      /\ scan.from <= RunStart
      /\ RunStart \in Nat /\ RunStart \in Blocks
      /\ RunStart + scan.count = scan.i
      /\ StartAfterRun = RunStart
      /\ ~Interior(scan.i + 1)
      /\ \A b \in RunStart .. scan.i : ~Covered(b)
      /\ RunStart = scan.from \/ Covered(RunStart - 1)
  BY <1>1, RunOfBlocks DEF ExtendRun
<1>3. /\ scan' = [scan EXCEPT !.i = scan.i + 1, !.start = RunStart, !.count = scan.count + 1]
      /\ mem_start' = RunStart
      /\ UNCHANGED <<heap, ref, call>>
  BY <1>2 DEF ExtendRun
<1>4. /\ scan'.i = scan.i + 1 /\ scan'.blocked = 0 /\ scan'.start = RunStart
      /\ scan'.need = scan.need /\ scan'.words = scan.words
      /\ scan'.count = scan.count + 1 /\ scan'.from = scan.from
  BY <1>1, <1>3 DEF TypeOK
<1>5. TypeOK'
  <2>0. scan.i + 1 \in Nat /\ scan.count + 1 \in Nat
    BY <1>2
  <2>1. scan' \in [need : Nat, words : Nat, i : Nat, start : Nat, count : Nat,
                  blocked : Nat, from : Blocks]
    BY <1>1, <1>2, <1>3, <2>0 DEF TypeOK
  <2>. QED BY <1>1, <1>2, <1>3, <2>1 DEF TypeOK
<1>6. HeapPartition' /\ Owned' = Owned
  <2>1. RunStart \in RunStart .. scan.i
    BY <1>2
  <2>2. ~Covered(RunStart)
    BY <1>2, <2>1
  <2>3. ~Interior(RunStart)
    BY <2>2 DEF Covered, Interior
  <2>4. StartOnBoundary'
    BY <1>3, <2>3, SameView DEF StartOnBoundary, Interior
  <2>. QED BY <1>3, <2>4, SameView DEF IInv, HeapPartition
<1>7. CallOK'
  BY <1>1, <1>3, <1>4 DEF CallOK
<1>8. ScanOK'
  <2>1. ~Interior(scan.i)'
    BY <1>2, <1>3, <1>4, SameView DEF Interior
  <2>2. /\ scan'.start + scan'.count = scan'.i
        /\ scan'.i - scan'.count = RunStart
        /\ scan'.i - 1 = scan.i
        /\ scan'.from <= scan'.i /\ scan'.i <= HeapBlocks
        /\ scan'.count < scan'.need
    BY <1>1, <1>2, <1>4
  <2>3. \A b \in scan'.start .. scan'.i - 1 : ~Covered(b)'
    BY <1>2, <1>3, <1>4, <2>2, SameView
  <2>4. scan'.i - scan'.count = scan'.from \/ Covered(scan.i - scan.count - 1)'
    BY <1>2, <1>3, <1>4, <2>2, SameView DEF Covered
  <2>. QED BY <1>2, <1>3, <1>4, <2>1, <2>2, <2>3, <2>4 DEF ScanOK
<1>9. FirstFit'
  <2>1. ASSUME NEW b \in scan.from .. scan.i + 1 - scan.need
        PROVE  ~IsFreeRun(b, scan.need)
    <3>1. CASE b \in scan.from .. scan.i - scan.need
      BY <1>1, <3>1 DEF FirstFit, ExtendRun
    <3>2. CASE b = scan.i + 1 - scan.need
      <4>1. b < RunStart /\ scan.from <= b
        BY <1>2, <3>2
      <4>2. Covered(RunStart - 1) /\ RunStart - 1 \in b .. b + scan.need - 1
        BY <1>2, <3>2, <4>1
      <4>. QED BY <4>2 DEF IsFreeRun
    <3>. QED BY <1>2, <3>1, <3>2
  <2>2. SUFFICES ASSUME NEW b \in scan.from .. scan.i + 1 - scan.need,
                        b + scan.need <= HeapBlocks,
                        \A c \in b .. b + scan.need - 1 : ~Covered(c)'
                 PROVE  FALSE
    BY <1>2, <1>4 DEF FirstFit, IsFreeRun
  <2>3. IsFreeRun(b, scan.need)
    BY <1>3, <2>2, SameView DEF IsFreeRun
  <2>. QED BY <2>1, <2>3
<1>. QED BY <1>5, <1>6, <1>7, <1>8, <1>9 DEF IInv

(* The chunk is placed and filled, and the variable assigned.              *)
LEMMA PlacedInv ==
  ASSUME IInv, pc = "scan", RunFound, NEW d \in [Blocks -> Cell],
         heap' = Stored(AllocatedHeap, RunStart, 0, call.fill, d),
         mem_start' = StartAfterRun,
         ref' = [ref EXCEPT ![call.var] = Addr(RunStart)],
         pc' = "run", scan' = NoScan, call' = NoCall
  PROVE  /\ IInv'
         /\ Owned' = [Owned EXCEPT ![call.var] = RunStart .. scan.i]
         /\ call.var \in Vars /\ Owned[call.var] = {}
         /\ RunStart \in Blocks /\ scan.i \in Blocks /\ RunStart <= scan.i
         /\ \A b \in RunStart .. scan.i : ~Covered(b)
         /\ call.fill <= heap'[RunStart].words * WordSize - HeaderSize
         /\ OnlyIn(call.var)
<1>1. /\ TypeOK /\ HeapPartition /\ AtFreeBlock
      /\ call.var \in Vars /\ call.fill \in 1 .. MaxBlockSize /\ call.fill \in Nat
      /\ scan.need = NumBlocks(call.fill) /\ scan.words = NumWords(call.fill)
      /\ scan.count + 1 = scan.need
  BY HeapAssumption DEF IInv, CallOK, RunFound
<1>2. /\ scan.i \in Blocks /\ scan.i \in Nat /\ scan.count \in Nat
      /\ RunStart \in Nat /\ RunStart \in Blocks
      /\ RunStart + scan.count = scan.i
      /\ StartAfterRun = RunStart
      /\ \A b \in RunStart .. scan.i : ~Covered(b)
  BY <1>1, RunOfBlocks
<1>3. /\ scan.need \in 1 .. 255 /\ scan.words \in 0 .. 255
      /\ HeaderSize + call.fill <= BlockSize * scan.need
      /\ call.fill <= scan.words * WordSize - HeaderSize
      /\ WordSize * scan.words <= BlockSize * scan.need
  <2>1. call.fill \in 0 .. MaxBlockSize
    BY <1>1, HeapAssumption
  <2>2. /\ NumBlocks(call.fill) \in 0 .. 255 /\ NumWords(call.fill) \in 0 .. 255
    BY <2>1, HeaderBytes
  <2>3. /\ NumBlocks(call.fill) >= 1
        /\ HeaderSize + call.fill <= BlockSize * NumBlocks(call.fill)
        /\ call.fill <= NumWords(call.fill) * WordSize - HeaderSize
        /\ NumWords(call.fill) * WordSize <= BlockSize * NumBlocks(call.fill)
    BY <1>1, ChunkFits
  <2>. QED BY <1>1, <2>2, <2>3 DEF WordSize
<1>4. /\ RunStart + scan.need - 1 = scan.i
      /\ RunStart + scan.need <= HeapBlocks
      /\ RunStart <= scan.i
  <2>1. scan.i < HeapBlocks /\ HeapBlocks \in Nat
    BY <1>2, HeapAssumption DEF Blocks
  <2>2. scan.count + 1 = scan.need /\ scan.need \in Nat
    BY <1>1, <1>3
  <2>. QED BY ONLY <1>2, <2>1, <2>2
<1>5. /\ AllocatedHeap \in [Blocks -> Cell]
      /\ AllocatedHeap[RunStart] = [tag |-> scan.need, words |-> scan.words]
      /\ \A c \in Blocks \ {RunStart} : AllocatedHeap[c] = heap[c]
  <2>1. [tag |-> scan.need, words |-> scan.words] \in Cell
    BY <1>3 DEF Cell
  <2>2. heap \in [Blocks -> Cell]
    BY <1>1 DEF TypeOK
  <2>. QED BY <1>2, <2>1, <2>2 DEF AllocatedHeap
<1>6. /\ heap' \in [Blocks -> Cell]
      /\ \A c \in Blocks \ (RunStart + 1 .. RunStart + scan.need - 1) :
            heap'[c] = AllocatedHeap[c]
  <2>1. 0 \in Nat /\ scan.need \in Nat /\ HeaderSize + 0 + call.fill <= BlockSize * scan.need
    BY <1>1, <1>3 DEF HeaderSize
  <2>2. Stored(AllocatedHeap, RunStart, 0, call.fill, d) \in [Blocks -> Cell]
    BY ONLY d \in [Blocks -> Cell], <1>1, <1>2, <1>5, <2>1, StoredInChunk
  <2>3. \A c \in Blocks \ (RunStart + 1 .. RunStart + scan.need - 1) :
           Stored(AllocatedHeap, RunStart, 0, call.fill, d)[c] = AllocatedHeap[c]
    BY ONLY d \in [Blocks -> Cell], <1>1, <1>2, <1>5, <2>1, StoredInChunk
  <2>. QED BY <2>2, <2>3
<1>7. /\ heap'[RunStart] = [tag |-> scan.need, words |-> scan.words]
      /\ \A c \in Blocks \ (RunStart .. RunStart + scan.need - 1) : heap'[c] = heap[c]
  <2>1. RunStart \notin RunStart + 1 .. RunStart + scan.need - 1
    BY <1>2, <1>3
  <2>2. \A c \in Blocks \ (RunStart .. RunStart + scan.need - 1) :
           c # RunStart /\ c \notin RunStart + 1 .. RunStart + scan.need - 1
    BY <1>2, <1>3
  <2>. QED BY <1>2, <1>5, <1>6, <2>1, <2>2
<1>8. /\ HeapPartition'
      /\ Owned' = [Owned EXCEPT ![call.var] = RunStart .. RunStart + scan.need - 1]
      /\ Owned[call.var] = {}
      /\ OnlyIn(call.var)
  <2>1. /\ heap'[RunStart].tag = scan.need
        /\ WordSize * heap'[RunStart].words <= BlockSize * scan.need
    BY <1>3, <1>7
  <2>2. \A c \in RunStart .. RunStart + scan.need - 1 : ~Covered(c)
    BY <1>2, <1>4
  <2>. QED BY <1>1, <1>2, <1>3, <1>4, <1>6, <1>7, <2>1, <2>2, PlaceStep
<1>9. TypeOK'
  <2>1. NoScan \in [need : Nat, words : Nat, i : Nat, start : Nat, count : Nat,
                   blocked : Nat, from : Blocks]
    BY HeapAssumption DEF NoScan, Blocks
  <2>2. NoCall \in [op : {"none", "dim", "str"}, var : Vars \cup {NoVar}, fill : Nat]
    BY DEF NoCall
  <2>3. ref' \in [Vars -> {0, NB_ERROR} \cup Literals \cup {Addr(b) : b \in Blocks}]
    BY <1>1, <1>2 DEF TypeOK
  <2>. QED BY <1>2, <1>6, <2>1, <2>2, <2>3 DEF TypeOK
<1>10. CallOK' /\ ScanOK' /\ FirstFit'
  BY DEF CallOK, ScanOK, FirstFit
<1>11. call.fill <= heap'[RunStart].words * WordSize - HeaderSize
  BY <1>3, <1>7
<1>. QED BY <1>1, <1>2, <1>4, <1>8, <1>9, <1>10, <1>11 DEF IInv

(* The search has failed.                                                  *)
LEMMA FailedInv ==
  ASSUME IInv, pc = "scan", DimFailed \/ StrFailed
  PROVE  IInv' /\ Owned' = Owned
<1>1. /\ TypeOK /\ HeapPartition /\ call.var \in Vars
  BY DEF IInv, CallOK
<1>2. NoScan \in [need : Nat, words : Nat, i : Nat, start : Nat, count : Nat,
                 blocked : Nat, from : Blocks]
  BY HeapAssumption DEF NoScan, Blocks
<1>3. CASE DimFailed
  <2>1. UNCHANGED <<heap, mem_start, ref, call>> /\ pc' = "error" /\ scan' = NoScan
    BY <1>3 DEF DimFailed
  <2>2. HeapPartition' /\ Owned' = Owned
    BY <1>1, <2>1, SameView DEF HeapPartition, StartOnBoundary
  <2>3. TypeOK'
    BY <1>1, <1>2, <2>1 DEF TypeOK
  <2>4. CallOK' /\ ScanOK' /\ FirstFit'
    BY <2>1 DEF CallOK, ScanOK, FirstFit
  <2>. QED BY <2>2, <2>3, <2>4 DEF IInv
<1>4. CASE StrFailed
  <2>1. /\ UNCHANGED <<heap, mem_start>> /\ pc' = "run" /\ scan' = NoScan /\ call' = NoCall
        /\ ref' = [ref EXCEPT ![call.var] = NB_ERROR]
    BY <1>4 DEF StrFailed
  <2>2. \A v \in Vars : /\ Live(v)' <=> Live(v)
                        /\ Live(v) => /\ ref'[v] = ref[v]
                                      /\ Chunk(v)' = Chunk(v) /\ Size(v)' = Size(v)
                                      /\ Extent(v)' = Extent(v)
                                      /\ Capacity(Chunk(v))' = Capacity(Chunk(v))
    <3>1. \A v \in Vars \ {call.var} : ref'[v] = ref[v]
      BY <1>1, <2>1 DEF TypeOK
    <3>2. \A v \in Vars : call'.var # v
      BY <2>1, VmHeapAssumption DEF NoCall
    <3>3. ref'[call.var] = NB_ERROR /\ ~IsHeapAddr(ref'[call.var])
      BY <1>1, <2>1, LiteralsInCode DEF TypeOK
    <3>. QED BY <2>1, <3>1, <3>2, <3>3 DEF Live, HasChunk, Chunk, Size, Extent, Capacity
  <2>3. HeadersOK' /\ ChunksDisjoint'
    BY <1>1, <2>2 DEF HeapPartition, HeadersOK, ChunksDisjoint
  <2>4. \A b : (Covered(b)' <=> Covered(b)) /\ (Interior(b)' <=> Interior(b))
    BY <2>2 DEF Covered, Interior
  <2>5. HeapPartition'
    BY <1>1, <2>1, <2>3, <2>4 DEF HeapPartition, OthersFree, StartOnBoundary
  <2>6. TypeOK'
    <3>1. NoCall \in [op : {"none", "dim", "str"}, var : Vars \cup {NoVar}, fill : Nat]
      BY DEF NoCall
    <3>. QED BY <1>1, <1>2, <2>1, <3>1 DEF TypeOK
  <2>7. CallOK' /\ ScanOK' /\ FirstFit'
    BY <2>1 DEF CallOK, ScanOK, FirstFit
  <2>8. Owned' = Owned
    BY <2>2 DEF Owned
  <2>. QED BY <2>5, <2>6, <2>7, <2>8 DEF IInv
<1>. QED BY <1>3, <1>4

-----------------------------------------------------------------------------
(* All steps together.                                                     *)

LEMMA DropIsAbstract ==
  ASSUME NEW v \in Vars, Owned' = [Owned EXCEPT ![v] = {}]
  PROVE  Abs!Next
BY DEF Abs!Next, Abs!Drop

LEMMA PlacedIsAbstract ==
  ASSUME IInv, NEW v \in Vars, NEW b \in Blocks, NEW c \in Blocks, b <= c,
         Owned[v] = {}, Owned' = [Owned EXCEPT ![v] = b .. c],
         \A x \in b .. c : ~Covered(x)
  PROVE  Abs!Next
<1>1. \A x \in b .. c : x \in Blocks
  BY HeapAssumption DEF Blocks
<1>2. \A x \in b .. c : x \notin UNION {Owned[u] : u \in Vars}
  BY DEF Owned, Covered
<1>3. b .. c \subseteq Blocks \ Abs!Taken
  BY <1>1, <1>2 DEF Abs!Taken
<1>4. Abs!Take(v, b, c)
  BY <1>3 DEF Abs!Take
<1>. QED BY <1>4 DEF Abs!Next

LEMMA AllocInv ==
  ASSUME IInv, Alloc
  PROVE  IInv' /\ (Abs!Next \/ Owned' = Owned) /\ ChunkSuffices /\ DataApart
<1>1. CASE Search
  <2>1. /\ pc = "scan" /\ UNCHANGED <<ref, pc, call>>
        /\ SkipBlocked \/ SkipUsed \/ ExtendRun
    BY <1>1 DEF Search
  <2>2. IInv' /\ Owned' = Owned
    BY <2>1, SkipBlockedInv, SkipUsedInv, ExtendRunInv
  <2>3. DataApart
    BY <2>1, SameHeapApart DEF SkipBlocked, SkipUsed, ExtendRun
  <2>. QED BY <2>1, <2>2, <2>3 DEF ChunkSuffices
<1>2. ASSUME NEW d \in [Blocks -> Cell], pc = "scan", RunFound,
             heap' = Stored(AllocatedHeap, RunStart, 0, call.fill, d),
             mem_start' = StartAfterRun,
             ref' = [ref EXCEPT ![call.var] = Addr(RunStart)],
             pc' = "run", scan' = NoScan, call' = NoCall
      PROVE  IInv' /\ Abs!Next /\ ChunkSuffices /\ DataApart
  <2>1. /\ IInv'
        /\ Owned' = [Owned EXCEPT ![call.var] = RunStart .. scan.i]
        /\ call.var \in Vars /\ Owned[call.var] = {}
        /\ RunStart \in Blocks /\ scan.i \in Blocks /\ RunStart <= scan.i
        /\ \A b \in RunStart .. scan.i : ~Covered(b)
        /\ call.fill <= heap'[RunStart].words * WordSize - HeaderSize
        /\ OnlyIn(call.var)
    BY <1>2, PlacedInv
  <2>2. Abs!Next
    BY <2>1, PlacedIsAbstract
  <2>3. ref'[call.var] = Addr(RunStart) /\ BlockOf(ref'[call.var]) = RunStart
    BY <1>2, <2>1, BlockOfAddr DEF IInv, TypeOK
  <2>4. heap'[RunStart].words * WordSize - HeaderSize >= call.fill
    <3>1. heap'[RunStart] \in Cell /\ call.fill \in Nat
      BY <2>1 DEF IInv, TypeOK
    <3>2. heap'[RunStart].words * WordSize - HeaderSize \in Int
      BY <3>1 DEF Cell, WordSize, HeaderSize
    <3>. QED BY <2>1, <3>1, <3>2
  <2>5. DataApart
    BY <2>1, OnlyInApart
  <2>. QED BY <2>1, <2>2, <2>3, <2>4, <2>5 DEF ChunkSuffices
<1>3. CASE DimDone
  <2>1. ClearedHeap \in [Blocks -> Cell]
    BY DEF ClearedHeap, Cell, FreeTag
  <2>. QED BY <1>2, <1>3, <2>1 DEF DimDone
<1>4. ASSUME NEW d \in [Blocks -> DataCells], StrDone(d)
      PROVE  IInv' /\ Abs!Next /\ ChunkSuffices /\ DataApart
  <2>1. d \in [Blocks -> Cell]
    BY VmHeapAssumption
  <2>. QED BY <1>2, <1>4, <2>1 DEF StrDone
<1>5. CASE DimFailed \/ StrFailed
  <2>1. pc = "scan"
    BY <1>5 DEF DimFailed, StrFailed
  <2>2. IInv' /\ Owned' = Owned
    BY <1>5, <2>1, FailedInv
  <2>3. CASE DimFailed
    BY <2>2, <2>3, SameHeapApart DEF DimFailed, ChunkSuffices
  <2>4. CASE StrFailed
    <3>1. ref'[call.var] = NB_ERROR
      BY <2>4 DEF StrFailed, IInv, TypeOK, CallOK
    <3>2. DataApart
      BY <2>4, SameHeapApart DEF StrFailed
    <3>. QED BY <2>2, <3>1, <3>2, LiteralsInCode DEF ChunkSuffices
  <2>. QED BY <1>5, <2>3, <2>4
<1>. QED BY <1>1, <1>3, <1>4, <1>5 DEF Alloc

LEMMA NextInv ==
  ASSUME Disciplined, IInv, [Next]_vars
  PROVE  IInv' /\ (Abs!Next \/ Owned' = Owned) /\ (ChunkSuffices \/ UNCHANGED vars) /\ DataApart
<1>1. CASE Alloc
  BY <1>1, AllocInv
<1>2. ASSUME NEW v \in ArrVars, ArrStep(v)
      PROVE  IInv' /\ (Abs!Next \/ Owned' = Owned) /\ pc # "scan" /\ DataApart
  <2>0. v \in Vars
    BY DEF Vars
  <2>1. ASSUME NEW size \in DimSizes, DimArr(v, size) \/ DimTooLarge(v, size)
        PROVE  IInv' /\ Abs!Next /\ pc # "scan" /\ DataApart
    <3>1. IInv' /\ Owned' = [Owned EXCEPT ![v] = {}] /\ OnlyIn(v)
      BY <2>1, DimArrInv, DimTooLargeInv
    <3>. QED BY <2>0, <2>1, <3>1, DropIsAbstract, OnlyInApart DEF DimArr, DimTooLarge
  <2>2. ASSUME NEW idx \in Int, NEW x \in DataCells, SetArrElem(v, idx, x)
        PROVE  IInv' /\ Owned' = Owned /\ pc # "scan" /\ DataApart
    BY <2>0, <2>2, SetArrElemInv, OnlyInApart DEF SetArrElem
  <2>3. ASSUME NEW offs \in Int, NEW n \in StoreSizes, NEW x \in DataCells,
               SetArrBytes(v, offs, n, x)
        PROVE  IInv' /\ Owned' = Owned /\ pc # "scan" /\ DataApart
    BY <2>0, <2>3, SetArrBytesInv, OnlyInApart DEF SetArrBytes
  <2>4. ASSUME IndexError(v)
        PROVE  IInv' /\ Owned' = Owned /\ pc # "scan" /\ DataApart
    BY <2>4, IndexErrorInv, SameHeapApart DEF IndexError
  <2>5. \A k : \/ k \in MinOffset \div WordSize .. MaxWords
               \/ k \in MinOffset .. WordSize * MaxWords
               => k \in Int
    OBVIOUS
  <2>. QED BY <1>2, <2>1, <2>2, <2>3, <2>4, <2>5 DEF ArrStep
<1>3. ASSUME NEW v \in StrVars, StrStep(v)
      PROVE  IInv' /\ (Abs!Next \/ Owned' = Owned) /\ pc # "scan" /\ DataApart
  <2>0. v \in Vars
    BY DEF Vars
  <2>1. ASSUME NEW addr \in Literals \cup {0, NB_ERROR}, StrLiteral(v, addr)
        PROVE  IInv' /\ Abs!Next /\ pc # "scan" /\ DataApart
    BY <2>0, <2>1, StrLiteralInv, DropIsAbstract, OnlyInApart DEF StrLiteral
  <2>2. ASSUME NEW n \in StrLens, StrGrow(v, n)
        PROVE  IInv' /\ Abs!Next /\ pc # "scan" /\ DataApart
    BY <2>0, <2>2, StrGrowInv, DropIsAbstract, OnlyInApart DEF StrGrow
  <2>3. ASSUME NEW n \in StrLens, NEW d \in [Blocks -> DataCells], StrInPlace(v, n, d)
        PROVE  IInv' /\ Owned' = Owned /\ pc # "scan" /\ DataApart
    BY <2>0, <2>3, StrInPlaceInv, OnlyInApart DEF StrInPlace
  <2>. QED BY <1>3, <2>1, <2>2, <2>3 DEF StrStep
<1>4. CASE Reset
  <2>1. IInv' /\ Owned' = [v \in Vars |-> {}] /\ DataApart
    BY <1>4, ResetInv
  <2>2. Abs!Next
    BY <2>1 DEF Abs!Next, Abs!DropAll
  <2>. QED BY <1>4, <2>1, <2>2 DEF Reset, ChunkSuffices
<1>5. CASE UNCHANGED vars
  <2>1. UNCHANGED <<heap, mem_start, scan, ref, pc, call>>
    BY <1>5 DEF vars
  <2>2. TypeOK' /\ HeapPartition' /\ Owned' = Owned
    BY <2>1, SameView DEF IInv, TypeOK, HeapPartition, StartOnBoundary
  <2>3. CallOK'
    BY <2>1 DEF IInv, CallOK
  <2>4. ScanOK'
    BY <2>1 DEF IInv, ScanOK, Covered, Interior, Live, HasChunk, Chunk, Size, Extent
  <2>5. FirstFit'
    BY <2>1 DEF IInv, FirstFit, IsFreeRun, Covered, Live, HasChunk, Chunk, Size, Extent
  <2>6. DataApart
    BY <2>1, SameHeapApart
  <2>. QED BY <1>5, <2>2, <2>3, <2>4, <2>5, <2>6 DEF IInv
<1>6. \A v : pc # "scan" => ChunkSuffices
  BY DEF ChunkSuffices
<1>. QED BY <1>1, <1>2, <1>3, <1>4, <1>5, <1>6 DEF Next

-----------------------------------------------------------------------------
(* The report of nc_mem_get_free.                                          *)

LEMMA Lowest ==
  ASSUME NEW T, T \subseteq Nat, T # {}
  PROVE  \E x \in T : \A y \in T : x <= y
<1>1. PICK x \in T : \A y \in T : ~(<<y, x>> \in OpToRel(<, Nat))
  BY NatLessThanWellFounded, WFMin
<1>2. \A y \in T : ~(y < x)
  BY <1>1 DEF OpToRel
<1>. QED BY <1>2

LEMMA Highest ==
  ASSUME NEW m \in Nat, NEW T, T \subseteq 0 .. m, T # {}
  PROVE  \E x \in T : \A y \in T : y <= x
<1>. DEFINE U == {m - y : y \in T}
<1>1. U \subseteq Nat /\ U # {}
  <2>1. \A y \in T : m - y \in Nat
    OBVIOUS
  <2>. QED BY <2>1
<1>2. PICK k \in U : \A z \in U : k <= z
  BY <1>1, Lowest
<1>3. PICK x \in T : k = m - x
  BY <1>2
<1>4. ASSUME NEW y \in T PROVE y <= x
  <2>1. m - x <= m - y
    BY <1>2, <1>3
  <2>2. x \in Int /\ y \in Int
    OBVIOUS
  <2>. QED BY ONLY <2>1, <2>2, m \in Nat
<1>. QED BY <1>4

(* One step of the walk, when f tells what it counts further on; and the   *)
(* functions that tell it from block m on.                                 *)
LastReach == HeapBlocks + 254

Walked(f, i) ==
  IF i >= HeapBlocks THEN 0
  ELSE IF heap[i].tag = FreeTag THEN BlockSize + f[i + 1]
  ELSE f[i + heap[i].tag]

IsWalk(f, m) == f = [i \in m .. LastReach |-> Walked(f, i)]

LEMMA ReachType == LastReach \in Nat /\ HeapBlocks \in Nat /\ HeapBlocks <= LastReach
BY HeapAssumption DEF LastReach

(* The walk goes up, and not beyond the domain of the function.            *)
LEMMA WalkGoesUp ==
  ASSUME TypeOK, NEW i \in Nat, i < HeapBlocks
  PROVE  /\ i + 1 \in i + 1 .. LastReach
         /\ heap[i].tag # FreeTag => i + heap[i].tag \in i + 1 .. LastReach
         /\ heap[i].tag \in 0 .. 255
<1>1. i \in Blocks /\ HeapBlocks \in Nat
  BY HeapAssumption DEF Blocks
<1>2. heap[i].tag \in 0 .. 255
  BY <1>1 DEF TypeOK, Cell
<1>. QED BY <1>1, <1>2 DEF LastReach, FreeTag

LEMMA WalkExtends ==
  ASSUME TypeOK, NEW m \in 0 .. LastReach, NEW f, IsWalk(f, m + 1)
  PROVE  \E g : IsWalk(g, m)
<1>. DEFINE g == [i \in m .. LastReach |-> IF i = m THEN Walked(f, m) ELSE f[i]]
<1>0. m \in Nat /\ LastReach \in Nat /\ HeapBlocks \in Nat
  BY ReachType
<1>1. \A j \in m + 1 .. LastReach : g[j] = f[j]
  BY <1>0
<1>2. g[m] = Walked(f, m)
  BY <1>0
<1>3. \A j \in m + 1 .. LastReach : f[j] = Walked(f, j)
  BY DEF IsWalk
<1>d. g = [i \in m .. LastReach |-> g[i]]
  OBVIOUS
<1>. HIDE DEF g
<1>4. ASSUME NEW i \in m .. LastReach
      PROVE  Walked(g, i) = Walked(f, i)
  <2>1. i \in Nat
    BY <1>0
  <2>2. CASE i >= HeapBlocks
    BY <2>2 DEF Walked
  <2>3. CASE ~(i >= HeapBlocks)
    <3>1. /\ i + 1 \in i + 1 .. LastReach
          /\ heap[i].tag # FreeTag => i + heap[i].tag \in i + 1 .. LastReach
      BY <1>0, <2>1, <2>3, WalkGoesUp
    <3>2. \A j \in i + 1 .. LastReach : j \in m + 1 .. LastReach
      BY <1>0, <2>1
    <3>3. /\ g[i + 1] = f[i + 1]
          /\ heap[i].tag # FreeTag => g[i + heap[i].tag] = f[i + heap[i].tag]
      BY <1>1, <3>1, <3>2
    <3>. QED BY <3>3 DEF Walked
  <2>. QED BY <2>2, <2>3
<1>5. ASSUME NEW i \in m .. LastReach
      PROVE  g[i] = Walked(g, i)
  <2>1. CASE i = m
    BY <1>2, <1>4, <2>1
  <2>2. CASE i # m
    <3>1. i \in m + 1 .. LastReach
      BY <1>0, <2>2
    <3>. QED BY <1>1, <1>3, <1>4, <3>1
  <2>. QED BY <2>1, <2>2
<1>6. [i \in m .. LastReach |-> g[i]] = [i \in m .. LastReach |-> Walked(g, i)]
  BY <1>5
<1>. QED BY <1>d, <1>6 DEF IsWalk

LEMMA WalkExists ==
  ASSUME TypeOK
  PROVE  \E f : IsWalk(f, 0)
<1>. DEFINE T == {m \in 0 .. LastReach + 1 : \E f : IsWalk(f, m)}
<1>0. LastReach \in Nat
  BY ReachType
<1>1. LastReach + 1 \in T
  <2>1. LastReach + 1 .. LastReach = {}
    BY <1>0
  <2>2. IsWalk([i \in {} |-> 0], LastReach + 1)
    BY <2>1 DEF IsWalk
  <2>. QED BY <1>0, <2>2
<1>2. PICK x \in T : \A y \in T : x <= y
  <2>1. T \subseteq Nat /\ T # {}
    BY <1>0, <1>1
  <2>. QED BY <2>1, Lowest
<1>3. x = 0
  <2>. SUFFICES ASSUME x # 0 PROVE FALSE
    OBVIOUS
  <2>1. /\ x - 1 \in 0 .. LastReach /\ (x - 1) + 1 = x /\ ~(x <= x - 1)
        /\ x - 1 \in 0 .. LastReach + 1
    BY <1>0
  <2>2. \E f : IsWalk(f, x)
    BY <1>2
  <2>3. \E g : IsWalk(g, x - 1)
    BY <2>1, <2>2, WalkExtends
  <2>4. x - 1 \in T
    BY <2>1, <2>3
  <2>. QED BY <1>2, <2>1, <2>4
<1>. QED BY <1>2, <1>3

(* The walk of the model satisfies its equation.                           *)
LEMMA ReportWalks ==
  ASSUME TypeOK, NEW i \in 0 .. LastReach
  PROVE  ReportFrom[i] = Walked(ReportFrom, i)
<1>1. ReportFrom = CHOOSE f : IsWalk(f, 0)
  BY DEF ReportFrom, IsWalk, Walked, LastReach
<1>2. IsWalk(ReportFrom, 0)
  BY <1>1, WalkExists
<1>. QED BY <1>2 DEF IsWalk

(* The free blocks from block i on.                                        *)
FreeFrom(i) == {b \in i .. HeapBlocks - 1 : ~Covered(b)}

LEMMA FreeFromFinite ==
  ASSUME NEW i \in Nat
  PROVE  IsFiniteSet(FreeFrom(i)) /\ Cardinality(FreeFrom(i)) \in Nat
<1>1. IsFiniteSet(i .. HeapBlocks - 1)
  BY HeapAssumption, FS_Interval
<1>2. FreeFrom(i) \subseteq i .. HeapBlocks - 1
  BY DEF FreeFrom
<1>. QED BY <1>1, <1>2, FS_Subset, FS_CardinalityType

LEMMA FreeFromLater ==
  ASSUME NEW i \in Nat, NEW j \in Nat, i <= j
  PROVE  Cardinality(FreeFrom(j)) <= Cardinality(FreeFrom(i))
<1>1. FreeFrom(j) \subseteq FreeFrom(i)
  BY HeapAssumption DEF FreeFrom
<1>. QED BY <1>1, FreeFromFinite, FS_Subset

LEMMA FreeFromNext ==
  ASSUME NEW i \in Blocks, ~Covered(i)
  PROVE  Cardinality(FreeFrom(i)) = Cardinality(FreeFrom(i + 1)) + 1
<1>1. i \in Nat /\ i + 1 \in Nat
  BY HeapAssumption DEF Blocks
<1>2. FreeFrom(i) = FreeFrom(i + 1) \cup {i}
  BY <1>1, HeapAssumption DEF FreeFrom, Blocks
<1>3. i \notin FreeFrom(i + 1)
  BY <1>1 DEF FreeFrom
<1>. QED BY <1>1, <1>2, <1>3, FreeFromFinite, FS_AddElement

LEMMA LastOfRun ==
  ASSUME NEW i \in Nat, NEW n \in 1 .. 255
  PROVE  /\ i + n - 1 \in Nat /\ i <= i + n - 1 /\ (i + n - 1) + 1 = i + n
         /\ i + n - 1 \in i .. i + n - 1 /\ i + n \notin i .. i + n - 1
<1>1. /\ n \in Int /\ 1 <= n
  OBVIOUS
<1>. QED BY ONLY <1>1, i \in Nat

(* From the first block of a chunk or a free block, the walk gets to the   *)
(* next one of these, or to the end of the heap.                           *)
LEMMA WalkOnBoundaries ==
  ASSUME TypeOK, HeapPartition, NEW i \in Blocks, ~Interior(i)
  PROVE  /\ heap[i].tag = FreeTag => ~Covered(i) /\ ~Interior(i + 1)
         /\ heap[i].tag # FreeTag =>
               i + heap[i].tag <= HeapBlocks /\ ~Interior(i + heap[i].tag)
<1>1. HeadersOK /\ ChunksDisjoint /\ OthersFree
  BY DEF HeapPartition
<1>2. i \in Nat /\ HeapBlocks \in Nat
  BY HeapAssumption DEF Blocks
<1>3. ASSUME NEW v \in Vars, Live(v), i \in Extent(v)
      PROVE  Chunk(v) = i /\ Size(v) = heap[i].tag /\ Size(v) \in 1 .. 255
  <2>1. Chunk(v) = i
    BY <1>3 DEF Interior
  <2>2. Size(v) \in 1 .. 255
    BY <1>1, <1>3, LiveChunk
  <2>. QED BY <2>1, <2>2 DEF Size
<1>4. ASSUME NEW w \in Vars, Live(w), NEW j \in Nat, i <= j,
             j + 1 \in Extent(w) \ {Chunk(w)}
      PROVE  j \in Extent(w)
  <2>1. /\ Chunk(w) \in Nat /\ Size(w) \in Nat
        /\ Extent(w) = Chunk(w) .. Chunk(w) + Size(w) - 1
    <3>1. Chunk(w) \in Blocks /\ Size(w) \in 1 .. 255
      BY <1>1, <1>4, LiveChunk
    <3>. QED BY <1>2, <3>1 DEF Blocks, Extent
  <2>2. i <= j /\ j \in Nat /\ j + 1 \in Extent(w) \ {Chunk(w)}
    BY <1>4
  <2>. QED BY ONLY <2>1, <2>2
<1>5. CASE heap[i].tag = FreeTag
  <2>1. ~Covered(i)
    BY <1>3, <1>5 DEF Covered, FreeTag
  <2>2. ~Interior(i + 1)
    BY <1>2, <1>4, <2>1 DEF Covered, Interior
  <2>. QED BY <1>5, <2>1, <2>2
<1>6. CASE heap[i].tag # FreeTag
  <2>1. PICK v \in Vars : Live(v) /\ i \in Extent(v)
    BY <1>1, <1>6 DEF OthersFree, Covered
  <2>2. Chunk(v) = i /\ Size(v) = heap[i].tag /\ Size(v) \in 1 .. 255
    BY <1>3, <2>1
  <2>3. i + Size(v) <= HeapBlocks /\ Extent(v) = i .. i + Size(v) - 1
    BY <1>1, <2>1, <2>2 DEF HeadersOK, Extent
  <2>4. /\ i + Size(v) - 1 \in Nat /\ i <= i + Size(v) - 1
        /\ (i + Size(v) - 1) + 1 = i + Size(v)
        /\ i + Size(v) - 1 \in Extent(v) /\ i + Size(v) \notin Extent(v)
    <3>1. i \in Nat /\ Size(v) \in 1 .. 255 /\ Extent(v) = i .. i + Size(v) - 1
      BY <1>2, <2>2, <2>3
    <3>. QED BY ONLY <3>1, LastOfRun
  <2>5. ASSUME NEW w \in Vars, Live(w), i + Size(v) \in Extent(w) \ {Chunk(w)}
        PROVE  FALSE
    <3>1. i + Size(v) - 1 \in Extent(w)
      BY <1>4, <2>4, <2>5
    <3>2. w # v
      BY <2>4, <2>5
    <3>. QED BY <1>1, <2>1, <2>4, <2>5, <3>1, <3>2 DEF ChunksDisjoint
  <2>. QED BY <1>6, <2>2, <2>3, <2>5 DEF Interior
<1>. QED BY <1>5, <1>6

(* What the walk counts from a boundary on is free.                        *)
Bounded(i) == /\ ReportFrom[i] \in Nat
              /\ ReportFrom[i] <= BlockSize * Cardinality(FreeFrom(i))

LEMMA BoundedFrom ==
  ASSUME TypeOK, HeapPartition, NEW i \in 0 .. HeapBlocks, ~Interior(i),
         \A k \in i + 1 .. HeapBlocks : ~Interior(k) => Bounded(k)
  PROVE  Bounded(i)
<1>1. i \in Nat /\ HeapBlocks \in Nat /\ i \in 0 .. LastReach
  BY ReachType
<1>2. ReportFrom[i] = Walked(ReportFrom, i)
  BY <1>1, ReportWalks
<1>3. Cardinality(FreeFrom(i)) \in Nat
  BY <1>1, FreeFromFinite
<1>4. CASE i = HeapBlocks
  <2>1. ReportFrom[i] = 0
    BY <1>1, <1>2, <1>4 DEF Walked
  <2>. QED BY <1>3, <2>1 DEF Bounded, BlockSize
<1>5. CASE i # HeapBlocks
  <2>1. i < HeapBlocks /\ i \in Blocks /\ ~(i >= HeapBlocks)
    BY <1>1, <1>5 DEF Blocks
  <2>2. CASE heap[i].tag = FreeTag
    <3>1. ~Covered(i) /\ ~Interior(i + 1)
      BY <2>1, <2>2, WalkOnBoundaries
    <3>2. Bounded(i + 1)
      BY <1>1, <2>1, <3>1
    <3>3. ReportFrom[i] = BlockSize + ReportFrom[i + 1]
      BY <1>2, <2>1, <2>2 DEF Walked
    <3>4. Cardinality(FreeFrom(i)) = Cardinality(FreeFrom(i + 1)) + 1
      BY <2>1, <3>1, FreeFromNext
    <3>5. Cardinality(FreeFrom(i + 1)) \in Nat
      BY <1>1, FreeFromFinite
    <3>. QED BY ONLY <3>2, <3>3, <3>4, <3>5 DEF Bounded, BlockSize
  <2>3. CASE heap[i].tag # FreeTag
    <3>1. i + heap[i].tag <= HeapBlocks /\ ~Interior(i + heap[i].tag)
      BY <2>1, <2>3, WalkOnBoundaries
    <3>2. heap[i].tag \in Nat /\ heap[i].tag >= 1
      <4>1. heap[i].tag \in 0 .. 255
        BY <1>1, <2>1, WalkGoesUp
      <4>. QED BY <2>3, <4>1 DEF FreeTag
    <3>3. /\ i + heap[i].tag \in i + 1 .. HeapBlocks
          /\ i + heap[i].tag \in Nat /\ i <= i + heap[i].tag
      BY <1>1, <3>1, <3>2
    <3>4. Bounded(i + heap[i].tag)
      BY <3>1, <3>3
    <3>5. ReportFrom[i] = ReportFrom[i + heap[i].tag]
      BY <1>2, <2>1, <2>3 DEF Walked
    <3>6. /\ Cardinality(FreeFrom(i + heap[i].tag)) <= Cardinality(FreeFrom(i))
          /\ Cardinality(FreeFrom(i + heap[i].tag)) \in Nat
      BY <1>1, <3>3, FreeFromLater, FreeFromFinite
    <3>. QED BY ONLY <1>3, <3>4, <3>5, <3>6 DEF Bounded, BlockSize
  <2>. QED BY <2>2, <2>3
<1>. QED BY <1>4, <1>5

LEMMA ReportBounded ==
  ASSUME TypeOK, HeapPartition, NEW i \in 0 .. HeapBlocks, ~Interior(i)
  PROVE  Bounded(i)
<1>. DEFINE T == {k \in 0 .. HeapBlocks : ~Interior(k) /\ ~Bounded(k)}
<1>. SUFFICES ASSUME T # {} PROVE FALSE
  OBVIOUS
<1>0. HeapBlocks \in Nat
  BY HeapAssumption
<1>1. PICK k \in T : \A y \in T : y <= k
  BY <1>0, Highest
<1>2. \A j \in k + 1 .. HeapBlocks : ~Interior(j) => Bounded(j)
  <2>. SUFFICES ASSUME NEW j \in k + 1 .. HeapBlocks, ~Interior(j), ~Bounded(j)
                PROVE  FALSE
    OBVIOUS
  <2>1. j \in 0 .. HeapBlocks /\ ~(j <= k)
    BY <1>0
  <2>. QED BY <1>1, <2>1
<1>3. k \in 0 .. HeapBlocks /\ ~Interior(k) /\ ~Bounded(k)
  BY <1>1
<1>. QED BY <1>2, <1>3, BoundedFrom

LEMMA ReportInv ==
  ASSUME IInv
  PROVE  ReportNotAbove
<1>1. TypeOK /\ HeapPartition /\ ~Interior(mem_start) /\ mem_start \in Blocks
  BY DEF IInv, HeapPartition, StartOnBoundary, TypeOK
<1>2. mem_start \in Nat /\ mem_start \in 0 .. HeapBlocks
  BY <1>1, HeapAssumption DEF Blocks
<1>3. Bounded(mem_start)
  BY <1>1, <1>2, ReportBounded
<1>4. Cardinality(FreeFrom(mem_start)) <= Cardinality(FreeFrom(0))
  BY <1>2, FreeFromLater
<1>5. Cardinality(FreeFrom(mem_start)) \in Nat /\ Cardinality(FreeFrom(0)) \in Nat
  BY <1>2, FreeFromFinite
<1>6. FreeBytes = BlockSize * Cardinality(FreeFrom(0))
  BY DEF FreeBytes, FreeFrom, Blocks
<1>7. ReportFrom[mem_start] <= BlockSize * Cardinality(FreeFrom(0))
  BY ONLY <1>3, <1>4, <1>5 DEF Bounded, BlockSize
<1>. QED BY <1>6, <1>7 DEF ReportNotAbove, FreeReport

-----------------------------------------------------------------------------
(* The theorems.                                                           *)

LEMMA Invariance == ASSUME Disciplined PROVE Spec => []IInv
<1>1. Init => IInv
  BY InitInv
<1>2. IInv /\ [Next]_vars => IInv'
  BY NextInv
<1>. QED BY <1>1, <1>2, PTL DEF Spec

(* Every variable keeps its type: in particular no header byte leaves      *)
(* 0 .. 255, and a variable never holds anything but an address of a       *)
(* block, of a string constant, 0 or NB_ERROR.                             *)
THEOREM TypeCorrect == ASSUME Disciplined PROVE Spec => []TypeOK
<1>1. IInv => TypeOK
  BY DEF IInv
<1>. QED BY <1>1, Invariance, PTL

(* In every heap the chunks of the variables lie in the heap and are       *)
(* disjoint, all other blocks are free, and a search never starts inside a *)
(* chunk: nc_mem_alloc, nc_mem_free and nc_mem_realloc keep each other's   *)
(* assumptions, whatever bytes the program stores.                         *)
THEOREM PartitionCorrect == ASSUME Disciplined PROVE Spec => []HeapPartition
<1>1. IInv => HeapPartition
  BY DEF IInv
<1>. QED BY <1>1, Invariance, PTL

(* The search of nc_mem_alloc passes over no long enough run at or above   *)
(* the address it starts from, mem_start_addr; of the free blocks below it *)
(* the theorem says nothing, and the code overlooks them.                  *)
THEOREM SearchCorrect == ASSUME Disciplined PROVE Spec => []FirstFit
<1>1. IInv => FirstFit
  BY DEF IInv
<1>. QED BY <1>1, Invariance, PTL

(* A chunk is large enough for what the instruction that asked for it      *)
(* writes into it.                                                         *)
THEOREM SizeCorrect == ASSUME Disciplined PROVE Spec => AllocSuffices
<1>1. IInv /\ [Next]_vars => [ChunkSuffices]_vars
  BY NextInv
<1>. QED BY <1>1, Invariance, PTL DEF Spec, AllocSuffices

(* The walk of nc_mem_get_free, which trusts the headers it meets, never   *)
(* counts a block of a chunk as free, nor a free block twice.              *)
THEOREM ReportCorrect == ASSUME Disciplined PROVE Spec => []ReportNotAbove
<1>1. IInv => ReportNotAbove
  BY ReportInv
<1>. QED BY <1>1, Invariance, PTL

(* A step changes data in the chunk of one variable at most, and no header *)
(* of a chunk that its variable keeps: neither an instruction that frees,  *)
(* clears and fills chunks nor a store reaches the data of another one, as *)
(* long as the program itself keeps its indexes and offsets within the     *)
(* declared arrays.  The checks of the code are not enough for this: with  *)
(* either habit the property is false.                                     *)
THEOREM DataCorrect == ASSUME Disciplined PROVE Spec => DataIsolated
<1>1. IInv /\ [Next]_vars => [DataApart]_vars
  BY NextInv
<1>. QED BY <1>1, Invariance, PTL DEF Spec, DataIsolated

(* The instructions implement the ownership of HeapAbs: every step takes a *)
(* run that nobody owns, gives up what a variable has, or changes nothing. *)
THEOREM OwnershipCorrect == ASSUME Disciplined PROVE Spec => Ownership
<1>1. Init => Abs!Init
  BY InitInv DEF Abs!Init
<1>2. IInv /\ [Next]_vars => [Abs!Next]_Owned
  BY NextInv
<1>. QED BY <1>1, <1>2, Invariance, PTL DEF Spec, Ownership, Abs!Spec

=============================================================================
