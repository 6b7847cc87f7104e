------------------------------- MODULE VmHeap -------------------------------
(***************************************************************************)
(* The byte-code instructions of nc_runtime.c that use the heap:           *)
(*   k_DIM_ARR_N2    declares (or declares again) an array variable;       *)
(*   k_POP_STR_N2    assigns to a string variable (realloc_string);        *)
(*   k_SET_ARR_ELEM, k_SET_ARR_nBYTE, k_COPY, k_STR2ARR store into arrays. *)
(* A variable holds 0 (never assigned), a heap address, or the address of  *)
(* a string constant in the code.  Nothing but the addresses in the        *)
(* variables says which chunks are in use.                                 *)
(*                                                                         *)
(* An instruction that allocates is a first step (free, enter the search), *)
(* the iterations of the search, and a last step (write the header, fill   *)
(* the chunk, assign the variable, or report the failure).                 *)
(***************************************************************************)
EXTENDS NcMemory

CONSTANTS
  ArrVars,     \* variables of type int32[]
  StrVars,     \* variables of type str8
  NoVar,       \* no variable: no instruction in progress
  Literals,    \* addresses of string constants in the code
  DimSizes,    \* declared array sizes, in elements
  StrLens,     \* lengths of assigned strings, '\0' included
  StoreSizes,  \* lengths of byte stores; a longer copy is a run of them
  DataCells,   \* what program data leaves in the first bytes of a block
  Habits       \* how programs index their arrays outside of them

Vars == ArrVars \cup StrVars

(* What the bound checks of the array instructions let pass:               *)
(*   "past"    an index behind the last element, whose first byte is still *)
(*             within the capacity of the chunk;                           *)
(*   "before"  a negative index or byte offset: the capacity is of an      *)
(*             unsigned type, but the comparison is one of int.            *)
AllHabits == {"past", "before"}

STRBUF1  == 32753   \* 0x7FF1, the first address that is not in the code
NB_ERROR == 1

ASSUME VmHeapAssumption ==
  /\ ArrVars \cap StrVars = {}
  /\ NoVar \notin Vars
  /\ Literals \subseteq 1 .. STRBUF1 - 1
  /\ DimSizes \subseteq Nat
  /\ StrLens \subseteq 1 .. MaxBlockSize   \* k_MAX_LINE_LEN < MaxBlockSize
  /\ StoreSizes \subseteq 1 .. 8
  /\ DataCells \subseteq Cell
  /\ Habits \subseteq AllHabits

VARIABLES
  ref,    \* vm->variables
  pc,     \* "run": between instructions; "scan": in nc_mem_alloc;
          \* "error": nc_run has returned NB_ERROR
  call    \* the instruction that called nc_mem_alloc

vars == <<heap, mem_start, scan, ref, pc, call>>

NoCall == [op |-> "none", var |-> NoVar, fill |-> 0]

Init ==
  /\ heap = ClearedHeap
  /\ mem_start = 0
  /\ scan = NoScan
  /\ ref = [v \in Vars |-> 0]
  /\ pc = "run"
  /\ call = NoCall

HasChunk(v) == IsHeapAddr(ref[v])
Chunk(v)    == BlockOf(ref[v])

-----------------------------------------------------------------------------
(* int32 v[size]: the argument of nc_mem_alloc is 16 bits wide, the one of *)
(* the memset after it is not.                                             *)
DimFill(size)  == WordSize * (size + 1)
DimBytes(size) == DimFill(size) % 65536

(* The old array is freed first.                                           *)
DropOld(v) ==
  IF HasChunk(v)
  THEN /\ heap' = FreedHeap(Chunk(v))
       /\ mem_start' = StartAfterFree(Chunk(v))
  ELSE UNCHANGED <<heap, mem_start>>

DimArr(v, size) ==
  /\ pc = "run"
  /\ DimBytes(size) <= MaxBlockSize
  /\ DropOld(v)
  /\ AllocStart(DimBytes(size), mem_start')
  /\ call' = [op |-> "dim", var |-> v, fill |-> DimFill(size)]
  /\ pc' = "scan"
  /\ UNCHANGED ref

(* nc_mem_alloc refuses the size at once: NB_ERROR, and the variable keeps *)
(* the address of the array that has been freed.                           *)
DimTooLarge(v, size) ==
  /\ pc = "run"
  /\ DimBytes(size) > MaxBlockSize
  /\ DropOld(v)
  /\ call' = [op |-> "dim", var |-> v, fill |-> DimFill(size)]
  /\ pc' = "error"
  /\ UNCHANGED <<scan, ref>>

(* The chunk is cleared, and the variable assigned.                        *)
DimDone ==
  /\ pc = "scan"
  /\ call.op = "dim"
  /\ RunFound
  /\ heap' = Stored(AllocatedHeap, RunStart, 0, call.fill, ClearedHeap)
  /\ mem_start' = StartAfterRun
  /\ ref' = [ref EXCEPT ![call.var] = Addr(RunStart)]
  /\ pc' = "run"
  /\ scan' = NoScan
  /\ call' = NoCall

(* "Error: Out of memory"                                                  *)
DimFailed ==
  /\ pc = "scan"
  /\ call.op = "dim"
  /\ Exhausted
  /\ pc' = "error"
  /\ scan' = NoScan
  /\ UNCHANGED <<heap, mem_start, ref, call>>

-----------------------------------------------------------------------------
(* v = "literal", or another variable that has no buffer (it refers to a   *)
(* literal, holds 0 or NB_ERROR): the buffer of v is freed, and v gets the *)
(* same address.                                                           *)
StrLiteral(v, addr) ==
  /\ pc = "run"
  /\ DropOld(v)
  /\ ref' = [ref EXCEPT ![v] = addr]
  /\ UNCHANGED <<scan, pc, call>>

(* A string from a temporary buffer or from the heap, of n bytes, that     *)
(* fits into the buffer of v (nc_mem_realloc returns the same address).    *)
StrInPlace(v, n, d) ==
  /\ pc = "run"
  /\ HasChunk(v)
  /\ Capacity(Chunk(v)) >= n
  /\ heap' = Stored(heap, Chunk(v), 0, n, d)
  /\ UNCHANGED <<mem_start, scan, ref, pc, call>>

(* It does not fit, or v has no buffer: nc_mem_realloc frees the old one   *)
(* before it searches.                                                     *)
StrGrow(v, n) ==
  /\ pc = "run"
  /\ HasChunk(v) => Capacity(Chunk(v)) < n
  /\ DropOld(v)
  /\ AllocStart(n, mem_start')
  /\ call' = [op |-> "str", var |-> v, fill |-> n]
  /\ pc' = "scan"
  /\ UNCHANGED ref

StrDone(d) ==
  /\ pc = "scan"
  /\ call.op = "str"
  /\ RunFound
  /\ heap' = Stored(AllocatedHeap, RunStart, 0, call.fill, d)
  /\ mem_start' = StartAfterRun
  /\ ref' = [ref EXCEPT ![call.var] = Addr(RunStart)]
  /\ pc' = "run"
  /\ scan' = NoScan
  /\ call' = NoCall

(* realloc_string prints "Out of memory" and returns NB_ERROR, which the   *)
(* instruction stores as the address: the program goes on.                 *)
StrFailed ==
  /\ pc = "scan"
  /\ call.op = "str"
  /\ Exhausted
  /\ ref' = [ref EXCEPT ![call.var] = NB_ERROR]
  /\ pc' = "run"
  /\ scan' = NoScan
  /\ call' = NoCall
  /\ UNCHANGED <<heap, mem_start>>

-----------------------------------------------------------------------------
(* v[idx] = x.  The check compares the offset of the element's first byte, *)
(* an int32_t, with the capacity, which is 6 bytes more than the elements  *)
(* 0 .. size-1 need.  idx is the index that is left of the one the program *)
(* writes when it is multiplied by 4 in 32 bits.  What a store writes      *)
(* below the heap is not part of the model.                                *)
SetArrElem(v, idx, x) ==
  /\ pc = "run"
  /\ HasChunk(v)
  /\ WordSize * idx < Capacity(Chunk(v))
  /\ "past" \in Habits \/ idx + 1 < heap[Chunk(v)].words
  /\ "before" \in Habits \/ idx >= 0
  /\ heap' = Stored(heap, Chunk(v), WordSize * idx, WordSize,
                    [b \in Blocks |-> x])
  /\ UNCHANGED <<mem_start, scan, ref, pc, call>>

(* The offset of set1, set2 and set4 is an int32_t, too; that of copy and  *)
(* str2arr a uint16_t, so that a negative one is refused.                  *)
SignedSizes == {1, 2, 4}

(* set1, set2, set4, copy, str2arr: n bytes from byte offs on.             *)
SetArrBytes(v, offs, n, x) ==
  /\ pc = "run"
  /\ HasChunk(v)
  /\ offs + n <= Capacity(Chunk(v))
  /\ offs >= 0 \/ ("before" \in Habits /\ n \in SignedSizes)
  /\ heap' = Stored(heap, Chunk(v), offs, n, [b \in Blocks |-> x])
  /\ UNCHANGED <<mem_start, scan, ref, pc, call>>

(* "Error: Array index out of bounds": the check of an access fails.       *)
IndexError(v) ==
  /\ pc = "run"
  /\ HasChunk(v)
  /\ pc' = "error"
  /\ UNCHANGED <<heap, mem_start, scan, ref, call>>

(* nc_reset, called by the host between two calls of nc_run.               *)
Reset ==
  /\ pc \in {"run", "error"}
  /\ heap' = ClearedHeap
  /\ mem_start' = 0
  /\ ref' = [v \in Vars |-> 0]
  /\ pc' = "run"
  /\ call' = NoCall
  /\ UNCHANGED scan

-----------------------------------------------------------------------------
(* One iteration of the search loop that does not end it.                  *)
Search ==
  /\ pc = "scan"
  /\ SkipBlocked \/ SkipUsed \/ ExtendRun
  /\ UNCHANGED <<ref, pc, call>>

Alloc ==
  \/ Search
  \/ DimDone
  \/ DimFailed
  \/ \E d \in [Blocks -> DataCells] : StrDone(d)
  \/ StrFailed

(* No chunk has more words than the largest request needs.                 *)
MaxWords == NumWords(MaxBlockSize)

(* A store further down than the whole heap touches none of its blocks.    *)
MinOffset == -(BlockSize * HeapBlocks)

ArrStep(v) ==
  \/ \E size \in DimSizes : DimArr(v, size) \/ DimTooLarge(v, size)
  \/ \E idx \in MinOffset \div WordSize .. MaxWords, x \in DataCells : SetArrElem(v, idx, x)
  \/ \E offs \in MinOffset .. WordSize * MaxWords, n \in StoreSizes,
        x \in DataCells : SetArrBytes(v, offs, n, x)
  \/ IndexError(v)

StrStep(v) ==
  \/ \E addr \in Literals \cup {0, NB_ERROR} : StrLiteral(v, addr)
  \/ \E n \in StrLens :
        \/ StrGrow(v, n)
        \/ \E d \in [Blocks -> DataCells] : StrInPlace(v, n, d)

Next ==
  \/ Alloc
  \/ \E v \in ArrVars : ArrStep(v)
  \/ \E v \in StrVars : StrStep(v)
  \/ Reset

(* An instruction, once begun, is executed to its end.                     *)
Spec == Init /\ [][Next]_vars /\ WF_vars(Alloc)

-----------------------------------------------------------------------------
(* What the heap looks like, as the variables see it.                      *)

(* The variable of the instruction in progress, or of the one that failed, *)
(* may hold an address that has been freed.                                *)
Live(v)  == HasChunk(v) /\ call.var # v
Size(v)  == heap[Chunk(v)].tag
Extent(v) == Chunk(v) .. Chunk(v) + Size(v) - 1

Covered(b)  == \E v \in Vars : Live(v) /\ b \in Extent(v)
Interior(b) == \E v \in Vars : Live(v) /\ b \in Extent(v) \ {Chunk(v)}
IsFreeRun(b, n) == /\ b + n <= HeapBlocks
                   /\ \A c \in b .. b + n - 1 : ~Covered(c)

(* Every variable has its type.                                            *)
TypeOK ==
  /\ heap \in [Blocks -> Cell]
  /\ mem_start \in Blocks
  /\ scan \in [need : Nat, words : Nat, i : Nat, start : Nat, count : Nat,
               blocked : Nat, from : Blocks]
  /\ ref \in [Vars -> {0, NB_ERROR} \cup Literals \cup {Addr(b) : b \in Blocks}]
  /\ pc \in {"run", "scan", "error"}
  /\ call \in [op : {"none", "dim", "str"}, var : Vars \cup {NoVar}, fill : Nat]

(* Each live address leads to a header whose chunk lies in the heap and    *)
(* whose usable bytes lie in the chunk.                                    *)
HeadersOK ==
  \A v \in Vars : Live(v) =>
    /\ Chunk(v) \in Blocks
    /\ ref[v] = Addr(Chunk(v))
    /\ Size(v) >= 1
    /\ Chunk(v) + Size(v) <= HeapBlocks
    /\ HeaderSize + Capacity(Chunk(v)) <= BlockSize * Size(v)

(* No two variables share a block of the heap.                             *)
ChunksDisjoint ==
  \A v, w \in Vars : v # w /\ Live(v) /\ Live(w) => Extent(v) \cap Extent(w) = {}

(* Blocks outside the chunks carry the free tag: none is lost.             *)
OthersFree == \A b \in Blocks : ~Covered(b) => heap[b].tag = FreeTag

(* A search never starts in the middle of a chunk, where it would take     *)
(* program data for a header.                                              *)
StartOnBoundary == ~Interior(mem_start)

(* The heap is partitioned into the chunks of the variables and free       *)
(* blocks, whatever the program stores, and the next search is safe.       *)
HeapPartition == HeadersOK /\ ChunksDisjoint /\ OthersFree /\ StartOnBoundary

(* nc_mem_alloc overlooks no free run that is long enough at or above the  *)
(* address its search started from; so the run it returns is the first     *)
(* there, and it fails only if there is none.                              *)
FirstFit ==
  pc = "scan" => \A b \in scan.from .. scan.i - scan.need : ~IsFreeRun(b, scan.need)

(* "Error: Out of memory" (nc_runtime.c:362): no run in the whole heap is  *)
(* long enough.  The code does not keep this, see MCHeapOverlooked.        *)
FailsWhenFull ==
  pc = "scan" /\ Exhausted => \A b \in Blocks : ~IsFreeRun(b, scan.need)

(* When an allocation ends well, the usable bytes of the chunk are enough  *)
(* for what the instruction then writes into it.                           *)
ChunkSuffices ==
  pc = "scan" /\ pc' = "run" /\ IsHeapAddr(ref'[call.var])
     => heap'[BlockOf(ref'[call.var])].words * WordSize - HeaderSize >= call.fill

AllocSuffices == [][ChunkSuffices]_vars

(* What a step leaves of the chunks that two variables have before and     *)
(* after it.                                                               *)
DataApart ==
  \A v, w \in Vars :
    /\ Live(v) /\ Live(v)' /\ ref'[v] = ref[v]
    => /\ heap'[Chunk(v)] = heap[Chunk(v)]
       /\ (/\ w # v /\ Live(w) /\ Live(w)'
           /\ \E b \in Extent(w) : heap'[b] # heap[b])
          => \A b \in Extent(v) : heap'[b] = heap[b]

(* No step but nc_reset changes bytes in the chunks of two variables, nor  *)
(* a header of a chunk that the variable keeps.                            *)
DataIsolated == [][DataApart]_vars

(* The instructions implement the ownership that HeapAbs promises: runs of *)
(* blocks are taken where nobody has any, never move, and are given up as  *)
(* a whole, although a search takes many steps and reads raw bytes.        *)
Owned == [v \in Vars |-> IF Live(v) THEN Extent(v) ELSE {}]
Abs == INSTANCE HeapAbs WITH own <- Owned
Ownership == Abs!Spec

(* Every call of nc_mem_alloc returns.                                     *)
SearchEnds == pc = "scan" ~> pc # "scan"

(* What nc_mem_get_free reports never exceeds the free blocks.             *)
FreeBytes == BlockSize * Cardinality({b \in Blocks : ~Covered(b)})
ReportNotAbove == pc = "run" => FreeReport <= FreeBytes

=============================================================================
