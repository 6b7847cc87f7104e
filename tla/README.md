# Formal verification of NanoC

NanoC compiles a C-like language, line by line, to byte code and runs it in a
small virtual machine that a host program drives in slices. This directory
holds TLA+ modules of its parts, TLC configurations that check them on small
instances, and TLAPS proofs about them. Every definition is translated from the
C code; `PROJECT.json` ("map") says from which lines. Paths below are relative
to the repository.

## 1. The system

| Component | Source | State it keeps | Operations |
|---|---|---|---|
| Heap of the VM | `src/nc_memory.c` | `heap` (raw bytes), `mem_start_addr` | init, alloc, free, realloc, block size, free bytes |
| VM: frames, loops, calls | `src/nc_runtime.c` | `pc`, `sp`, `fp`, `psp`, `stack`, `paramstack`, `ret_val`, `nested_loop_idx`, `variables` | the instructions; `nc_reset`, `nc_run`, `nc_set_pc`, push/pop/peek of parameters |
| VM: strings | `src/nc_runtime.c` | two temporary buffers, `strbuf1_used`; heap strings | string instructions, `realloc_string` |
| Symbol table | `src/nc_compiler.c` | `a_Symbol`, `CurrVarIdx`, `local_var_count`, `local_var_start_idx`, `in_func` | `sym_add`, `sym_add_local`, what each statement makes of its names |
| Statement compiler | `src/nc_compiler.c` | `p_code`, `pc`, `loop_type`, `for_depth`, break list, forward declarations, block stack | one function per statement, expressions by recursive descent |
| Scanner | `src/nc_scanner.c` | none between lines | `nc_scanner` |
| Key-value store | `src/nc_kvstore.c` | sorted `entries`, `num_entries`, `max_entries`, `default_value` | create, set, get, exists, count, clear, delete |
| Host program | `test/main.c` | `res`, `cycles`, `timeout`, `kvs_stores` | run loop, external functions, event handler |
| Debugger tables | `src/nc_compiler.c` (cfg_DEBUG_SUPPORT) | line and variable tables | read-only for an editor |
| Tools | `tools/nc_check.py`, `test/disasm.py` | none | one-pass scripts |

How they interact. `nc_compile` reads lines through a host callback, enters
every identifier in the symbol table while it tokenizes, and writes byte code
with variable indexes and frame offsets in it; nothing checks them again. The
host calls `nc_run` with a number of cycles; the VM executes instructions until
they are used up, or until an instruction returns to the host: the end, an
error, a break, the end of an event handler (RETI) or an external function.
Arguments and results of functions, of external functions and of event handlers
all pass through the one parameter stack. The host may start an event handler
(`nc_set_pc`) whenever `nc_run` has returned. Arrays and strings are chunks of
the heap, referred to by an address in a variable, on the stack or on the
parameter stack; there is no reference count: the variable that holds the
address is the owner, and declaring or assigning it again frees the chunk.

There are no threads; what is hard is this:

* **Data next to bookkeeping.** The heap has no list of chunks: a search jumps
  from header to header through memory the program writes.
* **One pass.** The compiler decides what a name is when it first meets it, and
  takes variable indexes back by counting down.
* **Order of nested things.** Frames, loops, pending arguments and return
  values share stacks; early exits (break, return, reti) have to unwind them.
* **Callbacks.** An event handler runs between two instructions, on the stacks of
  the program it interrupts.
* **Limits.** Stacks of 128 and 8 entries, 8 nested loops, 256 variables, 16-bit
  sizes: most are checked in some places only.
* **Partial failure.** A failed allocation happens after the old chunk is gone.

What makes each part correct:

* heap: chunks are disjoint, inside the heap, large enough, never lost; a search
  ends and overlooks nothing at or above the address it starts from; program
  data never matters, as long as stores stay inside their array.
* key-value store: it is a bounded dictionary with a default value.
* symbol table: two variables never share storage, a name keeps its meaning.
* frames and loops: a call returns to its caller with the caller's variables,
  loops and pending arguments as they were, whatever handlers ran meanwhile.
* host: every external call takes its arguments and leaves its result.

## 2. Modules

| Module | Models | Status |
|---|---|---|
| `NcMemory` | `nc_memory.c`: the allocator, one search iteration per step | done |
| `VmHeap` (extends `NcMemory`) | the instructions that use the heap, and who owns which chunk | done |
| `HeapAbs` | what the heap promises: ownership of runs of blocks | done |
| `VmHeapProofs` | proofs about `VmHeap` | done |
| `KvStore` | `nc_kvstore.c`: every call, one search iteration per step | done |
| `KvMap` | what the store promises: a bounded dictionary | done |
| `KvStoreProofs` | proofs about `KvStore` | done |
| `SymTab` | the symbol table and the variable indexes | done |
| `SymTabProofs` | proofs about `SymTab` | done |
| `CodeGen` | the jumps of the code generator: blocks, breaks, forward calls, dispatch | done |
| `CodeGenProofs` | proofs about `CodeGen`: the code, the lists and the calls | done |
| `CodeMeaningProofs` (extends `CodeGenProofs`) | proofs about `CodeGen`: what a program means, and why one is refused | done |
| `VmCalls` | the two stacks: frames, loops, arguments, results, event handlers | done |
| `VmCallsProofs` | proofs about `VmCalls`, and about `ForLoop` | done |
| `CallStack` | what calls promise: a stack of activations | done |
| `ForLoop` | the counting of a for loop in integers that wrap around | done |
| `VmStrings` | strings as addresses: two temporary buffers, chunks of variables | done |
| `StrValues` | what the language promises: strings are values | done |
| `VmStringsProofs` | proofs about `VmStrings` | done |
| `Host` | the run loop of the host, its external functions and stores | done |
| `HostProofs` | proofs about `Host` | done |

`MC*.tla` give constants that a `.cfg` cannot express; the `.cfg` of the same
name (or named for the question it asks) is a run, or one of the further
configurations of section 3.

### NcMemory and VmHeap

`heap` keeps of each 8-byte block its first two bytes, which is all that the
allocator ever reads: in the first block of a chunk they are its header (length
in blocks = the tag, length in words), in any other block they are program data.
Program data is therefore as dangerous in the model as it is in the code: data
may look like a free block (tag 0) or like a header (tag 2). `mem_start` is
`mem_start_addr` in blocks. `scan` holds the local variables of `nc_mem_alloc`;
`SkipBlocked`, `SkipUsed` and `ExtendRun` are the iterations of its loop,
`RunFound` and `Exhausted` its two ends. `ref` is `vm->variables`, `call` the
instruction that waits for the search.

`DimArr` .. `DimFailed` are `k_DIM_ARR_N2`: free the old chunk, allocate one
element more than declared (16-bit size), clear, assign, or fail and leave the
variable dangling. `StrLiteral` .. `StrFailed` are `realloc_string`, with the
address `NB_ERROR` stored when there is no memory. `SetArrElem` and `SetArrBytes`
are the stores. The check of the code compares a signed offset with the capacity
of the chunk, a `uint16_t` that C promotes to `int`, and so lets two things pass
that are not inside the array. Each is a member of the constant `Habits`:

* "past": an index behind the last declared element, whose first byte is still
  within the capacity;
* "before": a negative index, or a negative byte offset of the 1, 2 and 4-byte
  stores (`SignedSizes`). The offsets of `copy` and `str2arr` are of type
  `uint16_t` in the code, so that negative ones become large and are refused.

`ArrStep` tries every index and offset from `MinOffset`, below which no block of
the heap is touched, to behind the largest array. With either habit a store
rewrites headers (the run `heap_overrun` and `MCHeapBefore.cfg`); the other properties are
stated for programs that have neither. `IndexError` ends the program. `Reset` is
`nc_reset`.

`FirstFit` says what one search promises, `FailsWhenFull` what "Out of memory"
would mean to the program: no free run is long enough. The second does not hold
(`MCHeapOverlooked.cfg`), because a search moves `mem_start_addr` past holes that
are too small for it.

The model's `call.var` marks the variable of an instruction in progress or
failed: its address may be dangling. `nc_mem_free` of a string whose chunk has
been freed by a failed array declaration cannot happen, because that failure
ends the program until `nc_reset`.

### KvStore and KvMap

`entries`, `count`, `capacity`, `default_val` are the fields of `kvs_store_t`;
entries behind `count` keep what they had, and a new store has arbitrary
contents (`Garbage`). `Enter` begins a call, `Hit`, `GoRight`, `GoLeft` and
`Missed` are the iterations of `kvs_bsearch`, and one action per call and
outcome follows (`SetUpdate`, `SetFull`, `SetInsert`, `Get`, `Exists`,
`DeleteMissing`, `DeleteFound`); `Inserted` and `Removed` are the memmoves.
`KvMap` keeps a function from keys to values. Each of its operations is one
step, and the refinement mapping reads the function off the array.

### SymTab

`sym` is the program's part of `a_Symbol`. An action is the use of one name by
one kind of statement: `sym_add` (slot lookup, local before global, a new name
gets `CurrVarIdx`) together with what the statement does to the symbol.
`FuncBegin`, `Param`, `Body`, `FuncEnd` are the stages of `compile_func`.
`Compile`, `EndOfFile`, `Error` and `NcInit` are a compilation's begin and ends.
The constant `Habits` names six things a program (or host) may do which the
compiler does not handle; each is a guard on the action concerned, or a case of
its own (`AssignLabel`: an assignment to the name of a label or a function).
The passing run excludes them, and two of them, which the reference allows, are
runs of their own that show what goes wrong (`sym_newest`, `sym_forward`).
`IndexesCounted` compares `CurrVarIdx`, which four handlers give back, with the
number of entries that hold an index (`Held`). Left out: functions inside functions, code
addresses, and the lines that are still compiled after an error (their result
is thrown away).

### VmCalls and CallStack

`sp`, `fp`, `psp`, `stack`, `paramstack`, `ret_val`, `nested_loop_idx` are those
of `t_VM`, with the modulo of `PUSH`, `POP` and `PPUSH` (and without it where the
code addresses local variables). A code address is a `Place`: what the compiler
knows there, i.e. the function, its open loops, and the temporaries and arguments
of the statement so far. An action is an instruction (or the instructions that
do the same to the stacks: `PushValue`, `Operator`, `LoopEnd`); its guard is what
the compiler generates it for, so that the behaviours are the runs of all
programs that are structured the way the compiler's statements and expressions
are. Which way a condition or a loop goes is left open. `XFunc`, `HostAnswer`,
`HostFire` are a call of an external function, the host's answer, and
`fire_on_can`, for which the host calls `nc_set_pc` and pushes the parameters
again. `Leave` and `Reti` include the FOR_LEAVE before them. `acts` is a history
variable: where the activations that wait will go on.

The constant `Habits` names what a program may do that the code does not handle:
more than the data stack holds ("deep"), more pending arguments than the
parameter stack holds ("args"), more arguments than parameters ("arity": a call
that the compiler does not check), fewer arguments than parameters, in such a
call or by a dispatch ("few"), a handler with fewer parameters than the host
passes ("event"), and reti in the main program or in a function with a result
("reti"). The guards `Fits` and `ParamsFit` keep the programs of the passing run
inside the stacks; `Gosub` and `StackOverflow` are the one check that the code
has. Where arguments are missing, the host's pops find an empty stack and give
0, and it pushes four again (`HostAnswer`, `HostFire`, `Repushed`). Four habits
break what a document says, and have configurations of their own
(`MCCallsDeep.cfg`, `MCCallsArgs.cfg`, `MCCallsArity.cfg`, `MCCallsEvent.cfg`).

`CallStack` keeps one record per activation: its place, its values (locals, loop
values, temporaries), its arguments, and the value a call has returned. It says
that only the youngest activation changes, one value at a time, that a call
takes its arguments from the end of the caller's, in order, and that a return
leaves the caller as it was with the value it waits for. The refinement mapping
cuts the two stacks at the positions that `acts` notes.

### CodeGen

The compiler writes each jump when it meets the token that needs it, and patches
the target later. `code` is `p_code` with one cell per instruction; `blocks` are
the compile functions that wait for the end of a block, each with what it keeps
in local variables (`Block`): the recursion of the C code as a stack.
`break_pos`, `forward_decl`, `loop_type`, `for_depth`, `in_func` are the fields
of `comp_inst_t`, `label` the values of the functions' symbols. An action is a
token, with all that the compiler does to the jumps when it meets it: `For` ..
`EndLoop`, `Break`, `If`, `Else`, `ElseIf`, `EndIf`, `Func`, `EndFunc`, `Return`,
`Call`, the two forms of dispatch, and the end of the file. `Fail` is `error()`:
the longjmp abandons all blocks. `LoseLine` is what `compile_stmts` does with an
`else` or a brace outside of any block. `src`, a history variable, is the
program as text, with the code address at which each token was met; the
properties read from its braces what the jumps should be.

### ForLoop

`var` is the loop variable as it is stored: `uint32_t` for a global, `int32_t`
for a local variable. `Check` is FOR_CHECK, `NextPass` is NEXT in both variants;
`SumsSeen` says what its condition may see when a signed addition overflows,
which C leaves undefined. `Assign` and `Break` are what a body may do. The
properties are about loops whose limit can be passed (`Regular`): a loop up to
the largest integer never ends in the build that was tried, for global and for
local variables alike.

### VmStrings and StrValues

An operand is an address: of a constant, of a buffer, or of a chunk. `Concat`,
`Part`, `FromNum`, `FromHost` are the instructions that make a temporary string
in the buffer `alloc_temp_string` gives them; where an instruction writes into
the buffer of its own operand the result is left open (`Joined`, `PartsOf`).
`Measure` and `Printf` read strings, `Assign` is POP_STR with `realloc_string`
(any free chunk, or the one the variable has), `Call` and `Return` pass
addresses as arguments, parameters and results. `StrValues` has strings in place
of addresses; the refinement mapping looks every address up, so that it holds
only if no address in an expression, a parameter or a variable ever comes to
mean another string. Three habits break that: a third temporary string (the
reference documents the limit of two per statement; `temps` counts them), a
temporary string as an argument, and an assignment to a variable whose string
still waits as an operand or a parameter. Only the first is documented
(`docs/nanoc_reference.md:791`); line 294 says that parameters are passed by
value, which the other two contradict (`MCStringsArgument.cfg` and
`MCStringsReassign.cfg`).

### Host

`at` is the place in the loops of `main`, `cycles` the counter of the host and
`left` the copy that `nc_run` keeps in a register, `wait` the seconds until
`timeout`. `Outer`, `Inner` and `Pause` are the two loops and the `msleep`; the
actions of `Run` are instructions and the ways in which `nc_run` returns; one
action per external function takes its arguments from `params` and leaves its
result. The contents of a store are a mapping, as `KvMap` (which `KvStore`
implements) says. `book` is a history variable: the stores as the program knows
them from its own calls. `Tick` is time passing. `cmd` with a parameter stack of
two cannot be reached, because the compiler pushes the arguments that are left
out; that branch of `main` has no action. Two habits are excluded from
the passing run and have configurations of their own: `cmd` inside the arguments of another
call (`MCHostNested.cfg`), and `clrline` (`MCHostClrline.cfg`).

## 3. Runs

| Run | Instance | Shows |
|---|---|---|
| `heap` | 5 blocks; two arrays (1, 4, 6 words), a string (2 or 7 bytes), stores of 1 and 4 bytes | `TypeOK`, `HeapPartition`, `FirstFit`, `ReportNotAbove`, `AllocSuffices`, `DataIsolated`, `SearchEnds`, refinement of `HeapAbs` |
| `kvs` | capacity 0 to 3, 4 keys, 2 values | `TypeOK`, `Sorted`, `Window`, `LogSearch`, refinement of `KvMap`, `CallReturns` |
| `symtab` | 4 names, 5 slots, 2 parameters, no habit | `TypeOK`, `IndexesCounted`, `IndexesDistinct`, `FrameOK`, `OneMeaning`, `GlobalsStay` |
| `calls` | 7 cells, 2 parameters, 2 loops; a function with a parameter and a result, a handler with a local, a function for dispatch | `TypeOK`, `LoopsCounted`, `ParamsCounted`, `StackCounted`, refinement of `CallStack` |
| `heap_overrun` | as `heap`, habit "past" | violated (`DataIsolated`): an array has the declared elements only |
| `sym_newest` | habit "newest" | violated: globals stay accessible in functions |
| `sym_forward` | habit "forward" | violated: variables have indexes of their own |
| `codegen` | programs of 8 tokens, 2 functions, 2 pending breaks, 2 forward calls, 3 case values | `TypeOK`, `BreaksLeave`, `BlocksMeant`, `CallsArrive`, `ReturnsUnwind`, `RefusedForCause` |
| `codegen_else` | programs of 4 tokens | violated: an else belongs to the if before it |
| `forloop` | 4-bit integers (`Half = 8`), all headers | `CountsRight`, `Terminates` |
| `strings` | 2 variables, 2 chunks, strings of up to 2 characters, 2 operands, calls one deep, no habit | `TypeOK`, `ChunksOwned`, refinement of `StrValues` |
| `host` | slices of 3 cycles, 2 stores of one entry, one argument of an outer call, no habit | `TypeOK`, `SliceBounded`, `CallsAnswered`, `RunsOn` |

Further configurations. These are not among the runs of `PROJECT.json`; each is
violated by TLC within seconds, and shows what one of the excluded habits (or, for
`MCHeapOverlooked`, the code itself) leads to. The module is the one in brackets,
e.g. `tlc -config MCCallsDeep.cfg MCVmCalls`.

| Configuration | Instance | Shows |
|---|---|---|
| `MCHeapBefore.cfg` (`MCVmHeap`) | as `heap`, habit "before" | violated (`DataIsolated`): a negative index writes over headers |
| `MCHeapOverlooked.cfg` (`MCVmHeap`) | as `heap` | violated (`FailsWhenFull`): an allocation fails while a free run is long enough |
| `MCCallsDeep.cfg` (`MCVmCalls`) | 128 cells, a function with 40 locals, habit "deep" | violated (refinement of `CallStack`): three frames fill the stack, the fourth overwrites the first value |
| `MCCallsArgs.cfg` (`MCVmCalls`) | 8 parameters, habit "args" | violated (refinement of `CallStack`): the ninth argument that waits overwrites the first |
| `MCCallsEvent.cfg` (`MCVmCalls`) | a handler with 3 parameters, 4 passed, habit "event" | violated (`ParamsCounted`): one stays on the parameter stack |
| `MCCallsArity.cfg` (`MCVmCalls`) | as `calls`, habit "arity" | violated (`ParamsCounted`): an argument too many stays for the caller |
| `MCStringsArgument.cfg` (`MCVmStrings`) | as `strings`, habit "argument" | violated (refinement of `StrValues`): the function's own strings change its parameter |
| `MCStringsReassign.cfg` (`MCVmStrings`) | as `strings`, habit "reassign" | violated (refinement of `StrValues`): an assignment changes the parameter that was passed |
| `MCHostClrline.cfg` (`Host`) | as `host`, habit "clrline" | violated (`CallsAnswered`): `clrline` leaves its argument |
| `MCHostNested.cfg` (`Host`) | as `host`, habit "nested" | violated (`CallsAnswered`): `cmd` refuses and leaves its arguments |

Why the bounds are enough. Five blocks hold chunks of one, two, three and four
blocks, so that the heap can be empty, full, fragmented with a hole that is too
small and one that fits, and a request can fail; three variables are enough for
a used chunk on both sides of a hole. Sizes 0, 3 and 5 are those where a chunk
ends with its block and where it does not. The proofs remove the bounds. A
store of three entries has a first, a middle and a last position, with one key
more than it can hold. Four names are a function, its parameter, its local and
a global; five slots make the table overflow when a parameter shadows a global.
Seven cells hold two nested frames with a temporary above and below, two frames
above the two values of a loop, or three loops, so that the check of GOSUB fails
and passes at every kind of place; two parameters are one pending argument below
the argument of a nested call, or below the value of an event; two values tell
the caller's values from the callee's.

Eight tokens are three nested blocks, or two with two statements in them: a
break behind an inner loop, a return under two loops, an else-if chain with an
else, a dispatch with a gap; both lists overflow. Four bits give every sign,
wrap-around and remainder of start, limit and step. Two operands need both
buffers; with two chunks an assignment finds its own chunk, the other one, or
none but its own; a function can be called with an operand of the caller
waiting. Three cycles are an instruction, a call and none left, in any order;
two stores of one entry are full one after the other, and a fifth `kvs_create`
of the code is a third one here.

Fairness. The only fairness assumed is that the VM goes on with an instruction
it has begun (`WF_vars(Alloc)`) and that a store call goes on (`WF_vars(Search
\/ Act)`): both are plain loops in C that nothing interrupts. `ForLoop` assumes
that the VM goes on with the instructions of the loop and that each pass of the
body comes to its end, `Host` that the process goes on and that time passes (weak
fairness of `Loops \/ Run \/ Answer` and of `Tick`). What a program does, and
whether it ever sleeps, calls or ends, is not assumed.

Mutants. Definitions marked "Mutant" are plausible bugs of the definition that
follows them; each property of a passing run is violated under one of them.

## 4. Proofs

`VmHeapProofs`, for every heap size, block limit, set of variables and program
data, assuming `Disciplined`: indexes and offsets lie within the declared arrays
(`Habits = {}`), which the code checks only in part, and array sizes are at most
16382, so that the 16-bit byte count does not wrap.

* `TypeCorrect`, `PartitionCorrect`, `SearchCorrect`, `SizeCorrect`,
  `OwnershipCorrect`: `TypeOK`, `HeapPartition`, `FirstFit`, `AllocSuffices`,
  and the refinement of `HeapAbs`. `SearchCorrect` is about the heap at or above
  the address where the search starts; what lies below is overlooked.
* `DataCorrect`: the action property `DataIsolated`. Each action has one variable
  to whose chunk its writes are confined (`OnlyIn`): freeing, because chunks are
  disjoint; placing, because the run was free; storing, because the capacity in
  the header does not exceed the chunk. `Habits = {}` is needed here:
  with "past" the run `heap_overrun` violates the property, with "before"
  `MCHeapBefore.cfg`.
* `ReportCorrect`: `ReportNotAbove`. The walk of `nc_mem_get_free` is the recursive
  function `ReportFrom`. That a function with its equation exists is proved first,
  by extending it block by block from the end of the heap downwards
  (`WalkExtends`, `WalkExists`); then, by the highest block where it fails, that
  from every boundary it counts at most the free blocks above (`ReportBounded`).
  The library's induction theorems take operators as parameters and cannot be
  instantiated here; both inductions go by the least element of a set of numbers.

`HeapPartition` is not inductive: during a search nothing in it says that the
index of the loop is at a chunk boundary, or that the run counted so far is
free. `IInv` adds that the scan stands on a boundary (or `blocked` blocks before
one), that the run from `start` consists of free blocks, and that no long enough
run lies behind it.

`KvStoreProofs`, for every capacity, key set and value set: `TypeCorrect`,
`OrderCorrect` (`Sorted`), `SearchCorrect` (`Window`), `SearchFast`
(`LogSearch`), `StoreImplementsMap` (`Implements`). The invariant is
`TypeOK /\ Sorted /\ Window` with two facts about calls in progress: which
calls search a store that exists, and how the window shrinks.

`SymTabProofs`, for every set of names and every size of the table that leaves
the first variable index room in a byte:

* whatever the programs do, `FrameCorrect` (`FrameOK`) and `NamesCorrect`
  (`OneMeaning`). The invariant `NamesInv` adds which slots can be in use at all,
  that a name has at most one global and one local symbol, and in which state of
  `compile_func` a symbol may be of a function that is not finished.
* for programs without "label", "address" and "again" (`Counting`), `TypeCorrect` and
  `CountCorrect` (`IndexesCounted`): the counter neither wraps around nor falls
  below the entries that hold an index. Forward calls, names first met in a
  function and assignments to the newest global are included.
* if, in addition, no function calls a function defined later or reads a name that
  is new (`Orderly`), `DistinctCorrect` (`IndexesDistinct`). The reference allows
  forward calls (lines 260 and 357), and for them the property is false (run
  `sym_forward`).
* if no function assigns to the global created last before it, whatever else the
  program does, `GlobalsCorrect` (the action property `GlobalsStay`). The reference
  allows that assignment too (lines 372 to 378; run `sym_newest`).

  What makes `IndexesDistinct` inductive is an account of `CurrVarIdx`: it counts
  the symbols that have taken an index and not given it back (`Counted`,
  `LocalsCounted`), global indexes lie below the first one a function may give
  back (`GlobalsBelow`), and no local symbol is left outside of functions.

`VmCallsProofs`, for every stack size, set of functions and number of nested
loops, assuming that the program fits on the stacks, passes no fewer arguments
than there are parameters and has reti in handlers only (`Bounded`: none of "deep",
"args", "few", "reti"): `TypeCorrect`, `LoopsCorrect` (`LoopsCounted`), `StackCorrect`
(`StackCounted`), and, if calls and events pass no more arguments than the
function has parameters either (`Tight`: neither "arity" nor "event"), `ParamsCorrect` (`ParamsCounted`). None of
them is inductive, because a return takes `fp` and the place to go on from cells
of the stack. `CallsInv` says for every activation that waits where its frame
lies (`Chained`, `Ordered`), that the two cells below the next frame hold its
frame pointer and its return address (`Saved`), how high the stack is there for
the place it waits at (`RunsAt`), and how many loops (`LoopsOpen`) and parameters
(`ParamsOwned`) it has below the next one.

The same module proves `CallsImplement` (`Implements`: `VmCalls` refines
`CallStack`), for programs that are `Bounded` and `Tight`. `Shown` adds to
`CallsInv` what the mapping needs: nothing but numbers lies outside of the two cells
between frames (`Marked`), so that the value a function returns is one;
arguments of an activation lie above those of the one below it (`PspOrdered`,
`PspKept`); and only functions with a value are waited for (`Answered`). The frames
of `CallStack` are pieces of the two stacks (`Cut`). A step that stays in the
running activation changes one cell of its piece at most and adds one at most
(`Inside`); a call cuts the topmost piece in two (`Entered`), a return removes it
and finds the piece below it as it was (`Unwinding`). The assumption `Tight` is
needed for the return alone: arguments that a function does not take stay on
the parameter stack, and would be given to its caller.

`CodeGenProofs`, for programs of every length, every set of functions and lists of
every size: `TypeCorrect` (`TypeOK`), `CallsCorrect` (`CallsArrive`) and
`JumpsCorrect`, all from `GenCorrect`. `GenInv` speaks of the code while holes are
left in it: a position that a block, the list of breaks or a dispatch keeps is
always that of a jump (`BlockIn`, `JumpAt`), so that patching it leaves calls and
table entries alone; what a block has saved fits the blocks around it (`Fits`: its
first break, its depth of for loops, a body inside of a dispatch whose table has an
entry); and each call that was read either has its label or is on the list, under
the name it was written with (`CallIn`). That the greatest case value exists
(`CaseCount`) rests on the well-ordering of the numbers.

`CodeMeaningProofs`, for the same constants: `BreaksCorrect` (`BreaksLeave`),
`BlocksCorrect` (`BlocksMeant`), `ReturnsCorrect` (`ReturnsUnwind`) and
`RefusalsCorrect` (`RefusedForCause`), all from `MeaningCorrect`. The properties
compare the finished code with the nesting of the braces, and the compiler never
looks back at either; so the invariant `MeaningInv` says at every moment of the
compilation what is already decided and who keeps the rest:

* the open blocks correspond, in order, to the open braces, and each has what was
  in force where it was opened (`Nest`, `Shape`, `BlockOf`);
* a token whose block is closed has its meaning in the code (`Told`, `Done`), and
  keeps it: what is written later touches only cells that still wait (the lemmas
  `...Stays`, of a code that is extended and whose firm cells are kept);
* a jump over the other branches of an if waits in the block that will end the
  if (`Elses`), a break in the part of the list that belongs to its loop
  (`Breaks`), a case value and the end of its body in the dispatch (`Cases`), and
  no cell waits twice (`Apart`);
* `loop_type`, `for_depth` and `in_func` are those of the place that was reached
  (`Where`), and a noted call is a call of the program (`Noting`).

When the file ends with no block open, nothing waits, and the properties follow
(`Finished`). For the refusals the same invariant shows that a full list means that
many breaks or forward calls in the program (`TokensAtLeast`), and a flag that
is down a place outside of functions (`OutsideIn`).

`VmCallsProofs` also holds the proofs about `ForLoop`, for integers of any width of
two bits and more: `LoopTypeCorrect` (`LoopTypeOK`, which no run checks) and `CountCorrect`
(`CountsRight`). The invariant `LoopInv` has, besides the number of passes, the
value of the loop variable as `start + passes * step`, and that it lies within
the limit whenever the body runs.

`VmStringsProofs`, for any variables, chunks, constants, length of strings,
depth of calls and length of expressions:

* `TypeCorrect` (`TypeOK`), whatever the programs do;
* `ChunksCorrect` (`ChunksOwned`), if no variable is assigned while its string
  waits. `ChunkInv` is the property with the addresses of all stacks.
* `ValuesCorrect` (`Implements`: the refinement of `StrValues`), for programs
  without the three habits of the module. It needs `ChunkInv` (the copy of an assignment goes to no chunk
  that somebody reads) and `TempInv`: no temporary string waits while a function
  runs, an expression has no more of them than `temps` says, each in a buffer of
  its own, and the buffer that comes next never holds the last operand. With
  "third" or "argument" `TempInv` is false, and so is the theorem.

`HostProofs`, for every budget that fits the 16-bit counter and every bound on
pending arguments that leaves room for a call on the parameter stack:

* `SliceCorrect` (`SliceBounded`), whatever the program does. The property alone is
  not inductive: the host tests its own counter, `nc_run` its copy. `SliceInv`
  says that what is spent and what is left, in whichever counter is live, add up
  to the budget at most, and that `nc_run` is not entered with nothing left, so
  that the decrement before the comparison (`nc_runtime.c:245`) never wraps around.
* `TypeCorrect` (`TypeOK`), whatever the program does, and, for programs without
  "nested" and "clrline", `CallsCorrect` (the action property `CallsAnswered`). `HostInv` adds
  what lies on the parameter stack between a call and its answer, and that the
  stores are what the program knows of them.

Assumptions on constants are those of the modules (sizes are natural numbers, the
bounds of 8 and 16 bits hold) and the habits named above. Each habit is something
the code does not check. Where a document allows it, or promises what it breaks,
a run or a configuration beside the runs shows what happens; for the others section 5 says what is known.

Only model-checked: the liveness properties `SearchEnds`, `CallReturns`,
`Terminates` and `RunsOn` (fairness and ENABLED are out of the proof system's
reach). Every invariant and every action property of the passing runs is proved.

## 5. What the code does not handle, and what is not modelled

Deviations from the documents that a run or one of the further configurations of
section 3 shows:

* `VmHeap`: indexes behind the declared size (`heap_overrun`), negative indexes and
  offsets (`MCHeapBefore.cfg`: `nc_runtime.c:598`, `630`, `651`, `672`, `693`, and the same
  comparison in the loads and in the `cfg_DATA_ACCESS` forms), free blocks below
  `mem_start_addr` (`MCHeapOverlooked.cfg`; `free()` does not count them either; no document
  speaks of them).
* `SymTab`: the newest global (`sym_newest`), forward calls in functions
  (`sym_forward`).
* `VmCalls`: `docs/nanoc_reference.md:784` allows eight levels of calls, but only
  GOSUB and DISPATCH compare `sp` (`nc_runtime.c:496`), before the frame is entered
  (`MCCallsDeep.cfg`); line 785 allows eight parameters per function, but PUSH_PARAM
  wraps around (`nc_runtime.c:867`, `MCCallsArgs.cfg`); the handler of `README.md:112` has
  three parameters, the host passes four (`MCCallsEvent.cfg`); the parameter count
  checking that `README.md:262` announces leaves out calls compiled before the end
  of their function (`MCCallsArity.cfg`).
* `CodeGen`: an else on a line of its own (`codegen_else`).
* `VmStrings`: parameters are not passed by value (`MCStringsArgument.cfg`,
  `MCStringsReassign.cfg`).
* `Host`: `cmd` and `clrline` (`MCHostNested.cfg`, `MCHostClrline.cfg`).

What the models leave to a habit or to a bound, the passing runs exclude, and no
configuration shows:

* `VmHeap`: `README.md:70` allows 128 elements; `k_DIM_ARR_N2` asks for one element more
  than declared, 516 bytes, and `nc_mem_alloc` accepts 512.
* `SymTab`, "unseen": a name first met by a read or by str8 in a function takes its
  index as a forward call does. "label": a label with the name of a variable gives
  back an index (`nc_compiler.c:599`). "address": an assignment to the name of a
  label or function (`nc_compiler.c:656`) writes a variable whose index is a code
  address, or, in a function, may make the name local. "again": `nc_compile` does not
  clear `is_local`; the host calls `nc_init`, which does, before it compiles.
* `VmCalls`, "few": a call compiled before its function, or a dispatch to a function
  with parameters (`nc_compiler.c:1703`), takes the missing arguments from those of
  the caller. "reti": in the main program, or in a function whose value is wanted
  (`nc_compiler.c:1416`).
* `VmStrings`, "third": the limit of two temporary strings, as documented.
* `ForLoop`: a loop up to the largest integer, or with step 0, does not end.

The open issues that `README.md:177` lists (no checking of parameter types) are not
about what is modelled here: arguments have no type in `VmCalls`.

Not modelled. In `VmCalls`: the statements `param()`, `params()` and `breakpoint()`, which use
the parameter stack by themselves, and local variables beyond the end of the
stack array, where the behaviour of the C code is undefined. In `CodeGen`: the
sizes of instructions, and with them the check of the code size
(`nc_compiler.c:639`); lines compiled after an error. In `VmStrings`: strings that
are longer than a line.

The scanner (a pure function on text), the code of single expressions, the
formatting of `printf` and the math built-ins (pure functions of the stack
top), the debugger tables and the tools. The builds without
`cfg_STRING_SUPPORT` (another allocator of bump-pointer kind) and with line
numbers are other programs and left out.

## 6. Plan

The modules of the table in section 2 are written, checked and proved. What
could be added, in this order: the sizes of instructions and the check of the
code size in `CodeGen` (the hazard at `nc_compiler.c:639` has no property yet);
`param()` and `params()` in `VmCalls`; a module on the scanner's tokens, so that
the compiler starts from a line of characters.
