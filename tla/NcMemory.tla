------------------------------ MODULE NcMemory ------------------------------
(***************************************************************************)
(* The heap allocator of nc_memory.c (built with cfg_STRING_SUPPORT).      *)
(*                                                                         *)
(* The heap is an array of 8-byte blocks.  A chunk is a run of blocks; the *)
(* first two bytes of its first block hold its length in blocks (the tag,  *)
(* 0 = free) and in 32-bit words.  The rest of the chunk, the first two    *)
(* bytes of its other blocks included, is program data.  The allocator has *)
(* no other bookkeeping than mem_start_addr, the address its next search   *)
(* starts from, and finds its way by jumping from header to header.        *)
(*                                                                         *)
(* The module keeps of each block its first two bytes, and counts          *)
(* addresses of block starts in blocks: i, start and mem_start_addr are    *)
(* multiples of k_MEM_BLOCK_SIZE in the code.  The search loop of          *)
(* nc_mem_alloc is modelled one iteration per step, with the loop's local  *)
(* variables in "scan".                                                    *)
(***************************************************************************)
EXTENDS Integers, FiniteSets

CONSTANTS
  HeapBlocks,    \* cfg_MEM_HEAP_SIZE / k_MEM_BLOCK_SIZE
  MaxBlockSize   \* cfg_MAX_MEM_BLOCK_SIZE, in bytes

BlockSize  == 8  \* k_MEM_BLOCK_SIZE
WordSize   == 4  \* sizeof(uint32_t)
HeaderSize == 2  \* HEADER_SIZE
FreeTag    == 0  \* k_MEM_FREE_TAG

(* Mutants: the header is forgotten when the request is rounded up.        *)
NumBlocksNoHeader(bytes) == (bytes + BlockSize - 1) \div BlockSize
NumWordsNoHeader(bytes)  == (bytes + WordSize - 1) \div WordSize

NumBlocks(bytes) == (bytes + BlockSize + 1) \div BlockSize
NumWords(bytes)  == (bytes + WordSize + 1) \div WordSize

(***************************************************************************)
(* A heap address has bit 15 set and 15 bits for the offset; the length of *)
(* the longest chunk fits the two header bytes (512 bytes: 65 blocks, 129  *)
(* words).                                                                 *)
(***************************************************************************)
ASSUME HeapAssumption ==
  /\ HeapBlocks \in Nat \ {0}
  /\ BlockSize * HeapBlocks <= 32768
  /\ MaxBlockSize \in Nat
  /\ NumWords(MaxBlockSize) <= 255

VARIABLES
  heap,        \* first two bytes of each block
  mem_start,   \* mem_start_addr, in blocks
  scan         \* local variables of nc_mem_alloc

Blocks == 0 .. HeapBlocks - 1
Cell   == [tag : 0..255, words : 0..255]

Addr(b)          == 32768 + BlockSize * b + HeaderSize
IsHeapAddr(addr) == addr > 32767
BlockOf(addr)    == ((addr % 32768) - HeaderSize) \div BlockSize

(* nc_mem_get_blocksize: the number of usable bytes of the chunk at b.     *)
Capacity(b) == heap[b].words * WordSize - HeaderSize

(* No call of nc_mem_alloc in progress.                                    *)
NoScan == [need |-> 0, words |-> 0, i |-> 0, start |-> 0, count |-> 0,
           blocked |-> 0, from |-> 0]

(* nc_reset clears the heap and calls nc_mem_init.                         *)
ClearedHeap == [b \in Blocks |-> [tag |-> FreeTag, words |-> 0]]

(***************************************************************************)
(* nc_mem_free of the chunk at b: the tag of each of its blocks is         *)
(* cleared, whatever program data it holds, unless the length found in the *)
(* header leaves the heap; then the search address moves down to b.        *)
(***************************************************************************)
InsideHeap(b) == b + heap[b].tag <= HeapBlocks

(* Mutant: only the header is cleared.                                     *)
FreedHeader(b) == [heap EXCEPT ![b].tag = FreeTag]

FreedHeap(b) ==
  IF InsideHeap(b)
  THEN [c \in Blocks |-> IF c \in b .. b + heap[b].tag - 1
                         THEN [heap[c] EXCEPT !.tag = FreeTag]
                         ELSE heap[c]]
  ELSE heap

StartAfterFree(b) ==
  IF InsideHeap(b) /\ b < mem_start THEN b ELSE mem_start

(***************************************************************************)
(* nc_mem_alloc.  AllocStart enters the search loop for a request of bytes *)
(* (at most MaxBlockSize, checked by the caller of this operator) at block *)
(* from, the value of mem_start_addr; "from" is kept for the properties.   *)
(***************************************************************************)
AllocStart(bytes, from) ==
  scan' = [need |-> NumBlocks(bytes), words |-> NumWords(bytes), i |-> from,
           start |-> 0, count |-> 0, blocked |-> 0, from |-> from]

InLoop == scan.i < HeapBlocks

(* blocked > 0: the block belongs to the chunk found last.                 *)
SkipBlocked ==
  /\ InLoop
  /\ scan.blocked > 0
  /\ scan' = [scan EXCEPT !.i = @ + 1, !.blocked = @ - 1]
  /\ UNCHANGED <<heap, mem_start>>

(* Mutants of SkipUsed: one block too many is skipped; the index stays; the *)
(* run of free blocks goes on behind the used chunk.                       *)
SkipOneMore ==
  /\ InLoop /\ scan.blocked = 0 /\ heap[scan.i].tag # FreeTag
  /\ scan' = [scan EXCEPT !.i = @ + 1, !.blocked = heap[scan.i].tag,
                          !.start = 0, !.count = 0]
  /\ UNCHANGED <<heap, mem_start>>

SkipInPlace ==
  /\ InLoop /\ scan.blocked = 0 /\ heap[scan.i].tag # FreeTag
  /\ scan' = [scan EXCEPT !.blocked = heap[scan.i].tag - 1, !.start = 0, !.count = 0]
  /\ UNCHANGED <<heap, mem_start>>

SkipKeepsRun ==
  /\ InLoop /\ scan.blocked = 0 /\ heap[scan.i].tag # FreeTag
  /\ scan' = [scan EXCEPT !.i = @ + 1, !.blocked = heap[scan.i].tag - 1]
  /\ UNCHANGED <<heap, mem_start>>

(* The header of a used chunk: the run of free blocks ends here.           *)
SkipUsed ==
  /\ InLoop
  /\ scan.blocked = 0
  /\ heap[scan.i].tag # FreeTag
  /\ scan' = [scan EXCEPT !.i = @ + 1, !.blocked = heap[scan.i].tag - 1,
                          !.start = 0, !.count = 0]
  /\ UNCHANGED <<heap, mem_start>>

AtFreeBlock ==
  /\ InLoop
  /\ scan.blocked = 0
  /\ heap[scan.i].tag = FreeTag

(* The first block of a run moves mem_start_addr, found or not found.      *)
RunStart      == IF scan.count = 0 THEN scan.i ELSE scan.start

(* Mutant: the next search starts behind the block.                        *)
StartBehind   == scan.i + 1

StartAfterRun == IF scan.count = 0 THEN scan.i ELSE mem_start

(* A free block, and the run is still too short.                           *)
ExtendRun ==
  /\ AtFreeBlock
  /\ scan.count + 1 # scan.need
  /\ scan' = [scan EXCEPT !.i = @ + 1, !.start = RunStart, !.count = @ + 1]
  /\ mem_start' = StartAfterRun
  /\ UNCHANGED heap

(* The run is long enough: the chunk starts at RunStart.                   *)
RunFound ==
  /\ AtFreeBlock
  /\ scan.count + 1 = scan.need

AllocatedHeap ==
  [heap EXCEPT ![RunStart] = [tag |-> scan.need, words |-> scan.words]]

(* The loop ends without a run: nc_mem_alloc returns 0.                    *)
Exhausted == ~InLoop

(***************************************************************************)
(* Program data: n bytes written from byte lo of the chunk at b, in the    *)
(* heap h.  Byte 0 of the data follows the header, so the first two bytes  *)
(* of block c are bytes 8 * (c - b) - 2 and 8 * (c - b) - 1 of the data.   *)
(* d gives the bytes that are stored there.                                *)
(***************************************************************************)
Hit(offs, lo, n) == offs - HeaderSize \in lo .. lo + n - 1

Stored(h, b, lo, n, d) ==
  [c \in Blocks |->
     [tag   |-> IF Hit(BlockSize * (c - b), lo, n)
                THEN d[c].tag ELSE h[c].tag,
      words |-> IF Hit(BlockSize * (c - b) + 1, lo, n)
                THEN d[c].words ELSE h[c].words]]

(***************************************************************************)
(* nc_mem_get_free: walks from header to header, from mem_start_addr on,   *)
(* and counts the bytes of the free blocks.                                *)
(***************************************************************************)
(* Mutant: every block with a free tag counts, the data of chunks included.*)
FreeTags == BlockSize * Cardinality({b \in mem_start .. HeapBlocks - 1 :
                                       heap[b].tag = FreeTag})

(* What the walk counts from the header or free block i on.                *)
ReportFrom[i \in 0 .. HeapBlocks + 254] ==
  IF i >= HeapBlocks THEN 0
  ELSE IF heap[i].tag = FreeTag THEN BlockSize + ReportFrom[i + 1]
  ELSE ReportFrom[i + heap[i].tag]

FreeReport == ReportFrom[mem_start]

=============================================================================
