# A verification of the Animac runtime

Animac is a small Scheme system in C: a front end and a compiler to bytecode, a virtual machine
with many green processes, first-class continuations, queues between processes,
timers, `fork`, `exec` and `kill` for processes, evaluation of text at run time,
and a compacting garbage collector over a handle table in a memory pool of its own.
This directory holds TLA+ models of it from the tokens of a program to the blocks of the
pool, the TLC runs that check them on small instances, and TLAPS proofs
about the scheduler, dynamic-wind, the collector, the hash table and the pool for every instance.

    tlc -config MCRuntime_ipc.cfg MCRuntime       # one model-checking run
    tlapm RefinementProofs.tla                    # one module of proofs

## 1. Inventory

| Component | Source | State it keeps | Operations | Interacts through |
|---|---|---|---|---|
| Scheduler, event loop | `src/runtime.c` 2980-3195 | `process_pool`, `process_queue`, process states, PC | tick, event handler, start | calls instructions; scans queues and timers; the native functions below change its queue while a tick is under way |
| Process control | `native_System.c` 170-945, `runtime.c` 2593-2797 | whole `am_process_t` | exit, fork, exec, kill | run queue, timers, waiter lists, heap |
| IPC queues | `runtime.c` 85-341, `native_System.c` 948-1031 | `queue_list`: items, capacity, send and receive waiters | make_queue, write, read, timeout scan | block and wake processes |
| Timers | `runtime.c` 2433-2585, `native_System.c` 766-855 | `timer_list` | set, clear, fire | push callback frames on processes, queue stopped processes again |
| Continuations, dynamic-wind | `runtime.c` 660-1212, `process.c` 156-173, 711-968, `continuation.c` | wind stack, after stack, two registers, wind state machine, continuation objects | dynamicwind and its three successors, wind, capturecc, call | stacks of the process; fork copies them; timer callbacks come in between |
| Heap, handles | `heap.c`, `map.c`, `object.c` | handle table, object headers | allocate, bind, free, deep dump and load | everything that holds a handle |
| Collector | `process.c` 35-115, 1226-1594 | mark bits; static and keepalive bits | roots, mark, sweep | runs between computation phase and timeout scan |
| Allocator | `allocator.c` | one pool: the heap from below, with one first-fit list, and the VM area from above, with segregated lists | malloc, free, compact, move the border | heap; compaction moves objects of all processes |
| Closures and lists | `closure.c`, `list.c`, `process.c` 520-667 | bindings with dirty bits | make, copy, set, look up | instructions load and store |
| Instruction set | `runtime.c` 344-2285, 2800-2931 | stacks, PC, current closure | 60 opcodes | all of the above |
| eval | `native_System.c` 1036-1722, `runtime.c` 1600-1790 | code, vocabularies and AST tables appended to a live process, a clean-up record | eval, clean-up | heap, compiler, collector |
| Front end | `lexer.c`, `parser.c`, `macro.c`, `scope.c`, `ast.c` | AST, scopes, macro environment | parse, expand, resolve, rename | feeds linker and compiler |
| Linker, modules | `linker.c`, `module.c` | dependency graph, merged AST | load imports, order, merge, dump | file system |
| Compiler | `compiler.c` | code, labels | one function per node kind | fixes the sequences of instructions the machine relies on |
| Strings, vocabularies | `wstring.c`, `vocab.c` | interned strings, id tables | intern, look up | front end, runtime |
| Native libraries | `native*.c` | none, or an external model | pure functions | called by `op_callnative` |
| Shells | `main.c`, `main_repl.c`, `repl.c`, `js2scm.c`, `highlight.c`, `debug.c`, `utils.c` | terminal state | input and output | start the machine |

What makes the runtime hard.  There is one thread, but it is cut into slices:
a process can lose the processor between any two instructions, and between two
slices queues time out, timers push frames onto processes that know nothing of
it, and other processes kill, wake or copy it.  Seven operations take
processes out of the run queue or put them in (slice end, block, wake, timer on a
stopped process, fork, kill, stop).  Deadlines, peers and kills race for the
same waiter.  Continuations leave and re-enter procedure bodies at
any time, while part of the state that belongs to those bodies (wind stack,
registers, entries, trampoline) lives outside of what a continuation saves.

What makes the toolchain hard.  Ten passes rewrite one graph of nodes in place,
with handles, parents and numbered names that each pass must leave as the next one
expects them, and the machine then shares and reuses what looks private: a tail call
of the running closure keeps its bindings, evaluated code is appended to the code of a process
and cut off again.  A mistake shows as a wrong value of some program, far from its cause.

What makes the allocator hard.  Two areas with different disciplines share a border that
moves, boundary tags and free lists describe the same blocks twice, and compaction moves
objects behind the backs of all processes.

What makes each modelled component correct:

- scheduler: no process is lost or queued twice; ready processes run; the loop
  sleeps only to deadlines it will act on, and ends only when nothing is left;
- processes: a killed process leaves no trace that can act later, never runs
  again, and is released; a halted program runs callbacks, and goes on only if one of
  them calls a continuation captured before;
- queues: bounded FIFO for many producers and consumers, each call answered
  once; a blocked process has one waiter and is released in the end;
- timers: a process inside a queue operation is left alone; one-shot timers
  fire; callbacks exist when they are called;
- dynamic-wind: the wind stack follows the function stack wherever control
  jumps; extents are left and entered in order; each after gets its own entry
  back; a thunk's value is returned;
- collector: whatever a program can still get at, by a register, a variable, a
  continuation, a timer or the text of a string, exists; and nothing else
  outlives a collection;
- front end: the tree is the text; renaming keeps what each name is bound to; the
  tree is one tree after every pass; malformed programs are turned away, others are not;
- linker, compiler, machine: a program shows what its text means, with proper
  tail calls;
- eval: the text sees the top variables of the program, and its code, names and records
  are gone afterwards;
- allocator: both areas are tiled by their blocks, whoever was given a block
  keeps it, apart from all others, and nothing is refused that would fit.

`PROJECT.json` lists every component, and under `hazards` each place where one
of these can go wrong, with the properties that watch it.

## 2. Modules

| Module | Contents |
|---|---|
| `RuntimeState` | constants, variables and list helpers the next three share |
| `IPCQueue` | `make_queue`, `write`, `read`, the timeout scan |
| `Timer` | `set_timeout`, `set_interval`, `clear_*`, the firing scan |
| `Runtime` | process control, ticks, the event loop; composes `IPCQueue` and `Timer`; the properties |
| `MessageQueue` | abstract specification: bounded FIFO queues, nothing else |
| `RuntimeRefinement` | `Runtime` implements `MessageQueue` |
| `MCRuntime` | what TLC runs |
| `RuntimeTypes` | facts about the list helpers, and type correctness, proved |
| `RuntimeProofs` | the inductive invariant, five safety theorems and four action properties, proved |
| `RefinementProofs` | `RuntimeRefinement`, proved |
| `DynamicWind` | dynamic-wind, continuations, trampoline, callbacks and fork within one process |
| `MCDynamicWind` | the instance TLC runs it on |
| `DynamicWindProofs` | its invariants and action properties, proved |
| `Collector` | the heap of one process: mark and sweep, and everything that creates, moves or keeps a handle |
| `MCCollector` | the programs TLC runs it on |
| `CollectorProofs` | no handle dangles and garbage is freed, proved |
| `Code` | what front end, compiler and machine share: values, names, builtins, instructions |
| `Ast` | the tree as a heap of nodes: vocabularies, scopes, copying, merging, tail call analysis |
| `Parser` | tokens to tree; directives, module aliases, alpha-renaming |
| `Macro` | `define-syntax` and its kin: matching, hygiene by renaming, expansion |
| `Linker` | imports, their order, merging of the trees, references to other modules |
| `Compiler` | tree to instructions, labels |
| `Machine` | every instruction the compiler emits, but those of dynamic-wind |
| `Evaluation` | `System.eval` |
| `Execution` | the run of a process whose code is given, and what the compiler gives |
| `ExecutionProofs` | evaluated code is taken out, objects stay what they are, look-up is lexical, proved |
| `Reference` | abstract specification: what a program means |
| `Toolchain` | all passes, the machine and the reference, one after another; the properties |
| `SourcePrograms`, `SourceUnits`, `SourceEvals` | programs: the core language; macros, modules and malformed ones; evaluated text |
| `MCToolchain` | the programs TLC runs |
| `HashMap` | the hash table under the handles, the tables of trees and compiler, and those of programs |
| `Table` | abstract specification of it: a map that only calls change |
| `MCHashMap` | the keys TLC runs it on |
| `HashMapProofs` | its invariants and that it is a map, proved |
| `Allocator` | the memory pool: both areas, compaction, border |
| `Memory` | abstract specification of it: blocks that are given, moved and refused |
| `MCAllocator` | the pool TLC runs |
| `AllocatorProofs` | both areas stay tiled, everybody keeps their block, nothing is refused that would fit, and that the pool is a `Memory`, proved |

`Runtime` composes `IPCQueue` and `Timer`; `Toolchain` composes the chain
`Ast`, `Parser`, `Macro`, `Linker`, `Compiler` with `Execution`, which is
`Machine` and `Evaluation` step by step.
`DynamicWind`, `Collector`, `HashMap` and `Allocator` stand for themselves: `DynamicWind` and `Collector` leave open what a
program computes, so that one model covers every program, and `Machine` fixes
it, so that programs can be compared with what they mean.

### 2.1 Runtime

One variable per field of `am_runtime_t`, one function over pids per field
of `am_process_t` that the scheduler reads.  The correspondence that is not
one to one:

- `pc[p]` is `"halt"` when the next instruction stops the process (the program
  ended, or called `System.exit`, whose PC stays on the call), else `"code"`;
- `frames[p]` keeps, of the function stack, only the return targets of timer
  callbacks: ordinary calls return inside the program and do not matter here;
- `conts[p]` is the set of what continuations saved of `frames[p]` (they keep a copy of
  the whole function stack).  `Capture` and `CallContinuation` are `op_capturecc` and the
  restoring of the copy, in which a program and its callbacks can put the stack of one in
  the place of the other's.  Where continuations lie in the heap, and which are garbage,
  is left to `Collector`: here a continuation can be called until `System.exec` or a kill.
  What a jump does to winds is in `DynamicWind`.  `fork` copies the continuations with the heap;
- `image[p]` counts `System.exec`: it names the heap the process has now, so a
  timer remembers which heap its callback is from;
- deadlines are kept as the time left; `Pass` lets time go by.  The code
  compares absolute times with `<=`, which is the same test.  Inside a scan for
  due deadlines the clock is read once, so no time passes there;
- `timer_list` is kept newest first by the code, so it is a function from
  timer ids and the scan visits the due ones from the highest down;
- `cur` is the process inside `am_runtime_tick`.  The tick is not atomic: each
  native call is a step, the clock may move between them, and the slice
  may end after any of them, or before the first;
- what a program computes is left open: it may make any call, in any order.

`runtime_fire_expired_timers` is one step per timer, `runtime_queue_check_waiters`
one step per waiter woken, in the order of the loops.
A kill takes the target out of timers, waiter lists and run queue in one step,
as no other code runs in between.

`SLEEPING` is never assigned in the code, `SUSPENDED` only by an instruction
the compiler does not emit; both are left out.  Failing allocations are left out.

### 2.2 DynamicWind

The three stacks of one process, the two registers, the wind state machine and
the continuation objects, with one action per instruction.  A closure
body is a user that pushes operands, enters dynamic-winds, captures and calls
continuations and returns, in any order, so TLC tries every program.  Frames
keep the closure they return into and the instruction they return to (`body`,
or one of the dynamic-wind instructions).

- An entry object is a number, its creation order, and names its three
  closures; `entries[e]` holds what the object stores: operand base, saved value.
- `Push` has no matching pop, because the compiler emits none between the
  expressions of a body (`compiler.c` 699-703, commented out); the
  height of the operand stack is bounded by `MaxOperands`.
- A call of a continuation that is not in tail position pushes a frame first
  (`StartWind`, two alternatives).  When the continuation is restored at once,
  the frame is overwritten with the rest of the stack.
- `Fail` is an instruction that returns -1: the tick stops the process.
- `Fork` is followed into the child.  The parent only takes a step.
- `TimerCallback` is `am_runtime_call_async` between two instructions.

A continuation captured inside an after or before that the *trampoline* runs
(those that dynamic-wind itself runs are no problem) returns into a trampoline
that is idle, or in the middle of somebody else's wind (3.2).
`WindStackMatchesFrames` and `RestoredInItsExtents` fail after that and exempt
behaviours in which one was captured (`NoneCapturedInWind`), and so does
`BaseInBounds`: such a continuation brings back an instruction whose entry is no longer the one on
top of the wind stack, and cuts the operand stack at another entry's base.  The shortest
behaviour known that ends so has 63 steps, three dynamic-winds, four continuations and five
jumps, more than the run `wind` explores.  It came out of the proof, where the bases could not be shown to
go up (section 4), and TLC confirmed it on the steps given.  The other properties hold of all programs.  `AfterStackMatchesFrames` holds of the parent
of a fork, not of the child, for the reason given there too.

### 2.3 Collector

The handle table of one process as a graph: `heap[h]` is the object bound to
handle `h`, with its kind, the handles it holds (`items`: the elements of a
list, the bound and free variables of a closure), its parent closure, and the three bits of its header.
What only some lists hold is kept beside it: `env[k]` is what continuation
`k` saved, `entries[e]` the three fields of dynamic-wind entry `e`.  Handles
are never given out twice (`handle_counter` only grows), so a handle the
collector got wrong stays wrong, and the invariants see it.

- `Registers` are the places outside of the heap: current closure, both stacks,
  interned strings, dynamic-wind stack, after stack and the two registers, a wind
  under way.  Timers are not roots in the code: their callbacks
  carry the keepalive bit, so `timers` is compared with the heap by
  `NoDangling` only.
- Each instruction moves handles as its C function does, but for the order of
  elements and the names of variables.  `PopPush` lets what is popped be on the operand stack
  a second time; a variable that is stored to may have a twin that holds the same handle
  (`old = Nil`).  Which instruction comes next is left open, so every
  program over these handles is tried, and `Collect` may come between any two of
  its instructions: the event loop collects between two ticks, and a slice can end
  anywhere.
- `Marked` says what the depth-first search finds instead of how: all that no
  isolated set holds.  An object that still has the mark of an earlier collection is
  not visited, and neither is what only it refers to; this is where the static
  objects come in (3.2).
- `Fork` is followed into the child, which gets a copy of every object.  The code gives all handles
  new numbers and renames them wherever they occur, in objects, stacks and
  instructions; the model keeps the names, since nothing depends on them.  What is *not* the same in the
  child is modelled: closures lose their bits, continuations what they know of the
  registers and afters, and the process its registers, its timers and its table of interned
  strings.
- A program is a record: which groups of instructions it uses, and how many
  handles, closures and operands it may have.  `"set literals"` is apart
  because the collector does not support it.

Left out: element order, variable names, numbers and text; the `parent` field
of a list, which no instruction follows and the collector does not look at; handles in
the queues between processes (a handle means something in its own heap only, and the
documents leave it to the programs to keep what they send); instructions that fail.

Two things are never freed, and the model has it so: the closure of a timer
keeps its keepalive bit when the timer has fired or was cleared, and every continuation object
in the heap is a root, reachable or not.  The instruction
that captures a continuation also binds it in the closure that the continuation
saves, so each `call/cc` leaves an object behind for good.  No document promises
otherwise of these two; `GarbageIsFreed` is about everything that the roots do
not reach.

### 2.4 Toolchain

`am_ast_t` is a record: nodes by handle, names by varid, and the tables that passes fill in.
Each C function that changes a tree is an operator from a record to the next,
so a pass is a function, and `Toolchain` has one action per pass and
one step per instruction.  What a step can observe of a pass is its result or its failure
(`Fail`, which every later operator passes on), as in the code, where a pass returns -1 and
what it was about to write is thrown away.

- Programs are sequences of tokens; the lexer is not modelled.  A name is the
  sequence of the parts that its dots separate, because only that is ever asked of it.
- Hash tables are walked in ascending order.  The order decides the numbers of new
  names only, and no property depends on these.
- `Macro` renames the variables that a template binds as `macro.c` does, to names made of the number of
  the expansion, while it copies the template.
- `Linker` sorts the modules depth first from the main one; `ParseFile` is all
  that `am_parse` does with a file.
- `Compiler` emits exactly the sequences of the C functions, labels included.  The analysis that bounds
  the operand stack (`compiler.c` 1000-1230) is left out: it decides how large the stack is at first, and the stack grows
  when it is full.
- `Machine` keeps numbers as integers with the type the code gives them.  A closure is an object in the
  heap with bindings that are marked dirty when assigned, `Dereference` follows the chain
  with the dirty marks as `closure.c` does, and a tail call of the running function's own closure
  reuses it (`runtime.c` 807-834).
- `Evaluation` is `am_native_System_eval` from the text to the jump: compile, map the
  names, copy the objects, append the code with a clean-up instruction at its end, record
  what has to be taken out.  A text that does not compile, or names a variable that is no top variable, stops
  the process with an error, as in the code.
  `OpEvalCleanup` is the instruction that cuts code and vocabulary.

- `Execution` has the two actions of a running process, and takes its code, its heap and what
  the compiler makes of texts as parameters.  `Toolchain` gives it what its passes have made; `CompiledIsLoadable`
  says of all these programs and texts that they are what the theorems assume, and TLC evaluates it.

`Reference` is not a model of code.  It evaluates the source terms themselves with a
control, an environment, a store and a continuation, and says how deep the function
stack has to be, when tail calls are proper.  Programs with macros, modules or evaluated text
come with a core term written by hand, which is what the reference evaluates.

### 2.5 Allocator

One record per area: its blocks by address, each with size, tag, use and owner, its free lists
as sequences (first fit: one; VM area: one for each class and one for the rest), and `used`.
`slot` is what the handle tables say of the objects, `place` the plain pointers that
tables of the machine keep.  Addresses are in units of the alignment, headers take whole units.

- `New`, `Grow`, `Release` are `malloc`, `realloc` and `free` of the heap, `NewTable`,
  `GrowTable`, `FreeTable` those of the VM area; a call that finds no room is a step of its
  own that changes nothing but `refused`.
- `SafePoint` is what the event loop does after a phase: compaction of the heap, then
  `am_allocator_pool_auto_adjust`.  `Compacted` sorts what the handles refer to
  and moves it down; `NewBorder`, `HeapUpTo`, `VmDownTo`, `VmUpFrom` are the border.
- `Coalesce` is `vm_coalesce_and_insert` and its twin for the heap: the neighbours are found by the tags before
  anything changes, the free ones leave the lists of their sizes, and the joined block enters that of its own.
- When the border moved down by less than a block, the VM area begins with room that
  has no header (`HasGap`).  The code would read a size there the next time the border
  is to move while something in the area is in use; the model does not take that step (3.2).
- `slotSize` and `placeSize` say how many units the last request of each holder was for.  The code
  does not keep this and no action reads it; it is there to be compared with `Memory`.
- `Memory` knows no headers, tags, lists or classes.  `Seen` is what it is shown of an area: where
  everybody's block is, how large it is, and what was asked for.  In it a block is given in one step with the old
  one taken back, and the new one has to be apart from the old one too, since `realloc` copies from one to
  the other; a request is refused only if everywhere where it could lie somebody has a unit; and a safe
  point moves the objects, in their order, to the units from 0 on, with no unit between them, and no table.

### 2.6 HashMap

Slots by number, and the two counters.  `Search(k, d)` says where the probing for `k` ends,
without the loop: `LookupExact` then has to say that there is such a place at all, as the loop
of `am_map_find_slot` ends at a slot that was never used or not at all.

- `Set`, `Delete` and `SetStable` are `am_map_set`, `am_map_delete`, and `am_map_set_stable` as the handle
  table uses it, for a handle that exists.  A call that changes nothing is no step.
- A rebuild, larger or in place, puts one entry back a step (`Refill`).  Memory for it may be refused:
  then `Set` gives up and `Delete` goes on with its tombstones.
- `Hash` is a constant: which keys meet is all that matters of it.
- The map that `Table` speaks of is what the slots hold, together with what a rebuild has still to put back.
- `call` is the last call that changed something: its key, and the value the key is to have, or none.  The code
  does not keep it and no guard reads it; it is there for `Table`, whose every change is the effect of the last call, on
  the key of that call.  A `Set` that has to rebuild first is a call for which `Table` waits: the pairs stay
  what they are, step by step, until its own is put in.

Left out: what a value owns (a pointer is freed when it is replaced), and dumps.

## 3. Runs

### 3.1 What they show

| Run | Instance | Properties |
|---|---|---|
| `ipc` | 3 processes, 1 queue of length 2, 2 values, timeouts 0 and 1, kills, forks | `QueueDiscipline`, `BlockedHasOneWaiter`, and `ImplementsQueues`: seen by the programs, the runtime is a set of bounded FIFO queues |
| `timers` | 2 processes, 2 timers with delays 0 and 1, exec, continuations, 2 ticks per cycle | `TypeOK`, `KilledIsInert`, `IdleMeansDone`, `HaltIsFinal`, `KilledForever` |
| `live` | 2 processes, 1 queue of length 1, 1 timer | `RunQueueExact`, `BlockedSceneIntact`, `SleepIsUseful`; and `BlockedIsReleased`, `ReadyIsScheduled`, `OneShotFires`, under `FairSpec` |
| `wind` | 3 dynamic-winds, 2 continuations, operands, 2 jumps | `TypeOK`, `WindStackMatchesFrames`, `AfterStackMatchesFrames`, `BaseInBounds`, `ExtentsCrossedInOrder`, `RestoredInItsExtents` |
| `gc` | seven programs: lists and strings, timers, dynamic-wind, dynamic-wind with continuations, and three of these with a fork | `TypeOK`, `NoDangling`, `GarbageIsFreed` |
| `programs` | 588 programs | `ParsedAsWritten`, `RenamingKeepsBindings`, `TreeIsWhole`, `OnlyWellFormedRuns`, `RunsAsReference`, `StackHoldsWhatWaits`, `EvaluatedCodeIsTakenOut` |
| `memory` | 3 objects and 3 tables of two sizes each in 18 units | `TypeOK`, `AreasTiled`, `HoldersKept`, `RefusedOnlyWhenFull`, `SafePointKeepsAll`, and `ImplementsMemory`: seen by those who ask, the pool gives blocks that are apart and as large as asked, and refuses only what is not there in one piece |
| `table` | 6 keys, 2 values, 8 slots that may become 16 | `TypeOK`, `LookupExact`, `CountersExact`, and `ImplementsTable`: seen from outside the hash table is a map, which only calls change, each its own key and once |

Each property has in `PROJECT.json` a mutant of the code (a dropped clean-up, a
wrong order, an off-by-one) that makes its run fail.

### 3.2 Where the code and its documentation disagree

Four runs check a statement made by a comment or a document, and TLC finds a
behaviour of the code that contradicts it.

| Run | What happens |
|---|---|
| `kill` | a timer marks a process that waits in the run queue as RUNNING; when another process kills it then, `am_runtime_kill_process` takes it for the caller, defers the release to the end of its tick, and that tick never comes |
| `exec_timer` | `System.exec` destroys the heap but leaves the timers, whose callbacks are handles into it |
| `wind_escape` | escaping from two nested dynamic-winds at once takes the outer after first, and stops with an error |
| `gc_literal` | a program stores a new list into one of its literals (`set_item!` on a quoted list); literals are neither roots nor, once marked, ever visited again, because the sweep passes them by before it takes the mark off; the new list is freed and the literal keeps its handle |

`DynamicWind` states five more such promises, each next to the comment it comes
from.  They are in no configuration: each was added to `MCDynamicWind_wind.cfg` once by hand
(`ThunkValueReturned` with two values and `MaxOperands = 2`), and TLC refuted it.

| Property | What happens |
|---|---|
| `EntryKeptDuringBefore` | a dynamic-wind inside a `before` clears the register that holds the outer entry, and the outer one stops with an error |
| `ThunkValueReturned` | `(dynamic-wind b (lambda () 1 2) a)` returns 1 |
| `TrampolineHasAWind` | a continuation captured in an after that a wind ran cannot be called once the wind is over |
| `SavedValueKept` | entering a thunk again overwrites the value an earlier continuation was to return |
| `ChildFindsAfterEntry` | after `System.fork`, the child cannot call a continuation that was captured in an after |

`MCToolchain` names five more sets of programs.  They are in no configuration either: with one of them in
place of `AllPrograms`, put there by hand, TLC finds `RunsAsReference` violated:

| Programs | What happens |
|---|---|
| `Late` | a loop in tail position reuses its closure, so a variable that is assigned after a closure has captured it is asked for in the next round's bindings: 1 is shown instead of 11, against `doc/report.md` 614 |
| `Again` | a function that is a closure made by a call, and needs its parameter after it has called itself, finds the parameter of the inner call (`runtime.c` 843-851): 0 instead of 6 |
| `Leak` | a macro's user gives the name of a binder, and it hides the variable that a closure made outside refers to: 14 instead of 13, against "hygienic" in `include/macro.h` 10 |
| `NameKept` | evaluated text stores a builtin in a variable; the value is the number of a name that the clean-up takes out, and later means nothing or another builtin |
| `CodeKept` | evaluated text leaves a closure behind; the code it points to has been cut off |

All of these were also reproduced with short Scheme programs on the
compiled interpreter, and so was `gc_literal`: `(define box '(1 2 3))`, a fresh
list stored into it with `set_item!`, some work, and the program prints
`#<handle>` where the list was.  Where the code stops with an error, the properties of
the pass runs speak of the states before it.

Met while modelling, without a run of their own:

- evaluated code gets no tail call analysis, which only the linker does (`linker.c` 677): a
  loop of 3000 rounds overflows the function stack in evaluated text and not in a program
  (the depth in `StackHoldsWhatWaits` is therefore that of programs that evaluate no text);
- macros defined in evaluated text are not known in it, and a text sees the top variables of the main module
  only; `doc/prompt.md` (3447, 3480, 3767) says so too;
- after macro expansion the parents of nodes are stale (`macro.c` 1533-1653), which is why
  `TreeIsWhole` stops asking for them there;
- the programs of the passing run avoid what the code defines for itself: values left on the operand stack by
  bodies of several expressions in the middle of an application, `and` and `or` of
  values that are no booleans, `if` without an alternative, `cond` in which nothing holds,
  a closure made before a definition it uses, arithmetic on mixed types;
- `include/allocator.h` 129 lets the border go up only while the VM area is empty; `allocator.c`
  821-836 does it whenever its low end is free;
- `doc/report.md` 586 says that neither area gets less than a tenth of the pool; a rest too
  small for a block is given to the heap all the same (`allocator.c` 829-834), so `TypeOK`
  only asks for room for one block;
- `doc/report.md` 588 says that what the VM area gains becomes a free block; less than a block
  becomes nothing (`allocator.c` 772-781), and walking the area from its base is
  undefined then; `Memory` therefore allows up to `Lost`, a unit less than the smallest block, to be of no use above
  the border, and with `Lost <- 0` TLC refutes `ImplementsMemory`.

### 3.3 Bounds

`MaxProcs`, `MaxQueues`, `MaxTimers`, `MaxImages` bound how many are ever
created, and `MaxConts` how many different values of `frames` the continuations of all processes
have; `MaxEntries` and `MaxConts` bound how many are created in `DynamicWind`, `MaxOperands`
bounds the height of the stack a closure still pushes on, and `MaxJumps` the calls of continuations, timer
callbacks and forks together.  `FStackCap` is a limit of the code
(2048 frames) made small, so that the full stack is reached.

- Three processes on one queue of length two give two waiters on a side and a
  third process that serves, times out or kills, with the queue in each of its
  three fill levels; two values tell order and duplicates apart.  A second queue would
  only be a copy: the lists of different queues meet in the order of the scan
  alone, and the proofs cover any number of them.
- Two timers expire in one scan for the same or different processes.  In the runs the function
  stack has room for one callback, so that the second one of a process meets a full stack;
  callbacks inside callbacks, to any depth, are in the proofs.
- The continuations of `timers` all have the same `frames`, which is one of three: that of the program, or of a
  callback fired before the halt, either of which resumes the program when a callback calls it after the halt; or that of
  a callback fired after the halt, which only leads back to it.  Processes with continuations of several
  kinds are in the proofs.
- Timeouts of 1 and steps of 1 make a deadline be due exactly, past, or not yet.
- Two ticks per cycle (`timers`) instead of one let two processes run before the
  timers are looked at.
- `Affordable` in `MCDynamicWind` cuts off the states in which all three dynamic-winds and both
  continuations are there and something also lies on the operand stack below them: each two of the three
  are explored together, and all three together with at most one operand, on top.
- Three dynamic-winds are the least for which a jump leaves an extent,
  enters one, and keeps one; two continuations and two jumps go out and in, and
  interrupt a jump with another jump, a callback or a fork.  (With three jumps,
  and with three continuations, the smaller instance of two dynamic-winds was
  checked once by hand, 23 million states, with the same result.)
- The programs of `gc` have 4 or 5 handles, one of them the literal, and 1 or 2 closures:
  enough for a chain from a register through two objects and garbage beside it, of any
  kinds; the number of instructions and of collections is not bounded.  A continuation takes
  two handles and an entry one, so 5 leave room for a continuation captured
  inside a dynamic-wind.  `MaxFrames`, `MaxItems` and
  `MaxCallbacks` are 1: an object refers to at most one other besides its parent,
  which still gives chains, cycles and sharing, all that a marking can get wrong.
  With a fork the programs are one handle or one operand smaller where the state space requires it.

- `programs` has every term of a small grammar over two names that lambdas, definitions and
  assignments bind and shadow, every sequence of four steps that capture, assign and read one
  variable from two closures, a macro that binds each of three names used with arguments that mention them, three
  deep, import graphs (the same names in two modules, diamond, chain entered at both ends, cycle, missing file),
  17 malformed programs that different passes have to notice, and two evaluated texts one after another in four places of a program. Renaming
  and look-up go wrong with two names and two nested binders, if they ever do: the environments involved
  are compared pairwise.  The programs are run to their end, with no bound on steps.
- In `memory` a pool of 18 units with borders from 2 to 15 and steps of 4 lets both areas fill up, shrink
  to nothing and pass room to each other; sizes are below, at and above a class, and
  a split leaves a usable rest, none, or one too small.  Three objects and three tables are what joining a block on
  both sides takes.  Objects are symmetric, and so are tables: nothing orders them.

- In `table` three keys have the last of eight slots as their home, two of them also the last of sixteen, and
  two more are in their way.  A used slot stays used until the next rebuild, so six keys are needed
  to crowd eight slots; five tombstones, to be rid of them.  Values are symmetric.

The runs of `DynamicWind` and `Toolchain` turn the deadlock check off, because programs end
and errors stop them, and so do those of `Collector`, whose programs may use up their bounds.

### 3.4 Fairness

`FairSpec` asks for weak fairness of the loop as a whole and strong
fairness of the clock.

- `WF_vars(Loop)`: `am_runtime_start` is a loop that nothing suspends except
  its own sleep, which is finite; a tick runs at most `timeslice` instructions, so
  a slice ends.  Program steps carry no fairness: a process may do nothing.
- `SF_vars(Elapse)`: time passes whatever the machine does.  The step is
  strongly fair because the model allows it only between scans, so that it is
  disabled again and again, without the real clock being held up by a scan.

Nothing is assumed of programs: no process must ever read, write or stop.

## 4. Proofs

`RuntimeTypes`, `RuntimeProofs` and `RefinementProofs` prove, for all constants that satisfy
`BoundsAssumption` and `InputsAssumption` (the bounds are natural numbers, there
is room for one process and one tick, capacities are positive,
timeouts and delays are natural numbers):

- `TypeCorrect`: `Spec => []TypeOK`
- `RunQueueCorrect`, `BlockedCorrect`, `QueueCorrect`, `KillCorrect`,
  `IdleCorrect`: the safety invariants of the same names
- `Inductive`: `Spec => []IInv`, from which the five follow.
- `KilledForeverCorrect`, `BlockedSceneCorrect`, `HaltCorrect`, `SleepCorrect`: the action
  properties `KilledForever`, `BlockedSceneIntact`, `HaltIsFinal`, `SleepIsUseful`
- `Refinement`: `Spec => ImplementsQueues`

Why an invariant of its own.  None of the five is inductive alone.
`TypeOK` is broken by a timer scan that visits a timer of nobody, so
`LoopInv` says that timers still to be visited are set; this holds because only a
process inside its tick clears or kills, and none is inside one then.
`RunQueueExact` is broken by a wake-up of a process that is not blocked; that waiters stand
for blocked processes is `WaitInv`.  `WaitInv` in turn
needs that only processes inside a tick block, and that a process inside its
tick has no waiter (`RunInv`); a forked child must come from an
unused slot (`PoolInv`); `RunInv` has to say that a process that forks is queued already
while its tick is not over.  `IdleMeansDone` needs `KilledIsInert` (a
killed process has no timer) and `WaitInv` (no waiter, so nobody is blocked).

How.  One lemma per group of actions says what it does to the *scene*
(`state`, `runq`, `cur`, waiters): instructions, ticks, timer visits, time.  The
queue operations are reduced first to four effects (return, block, wake, block
with a waiter).  `Compact`, the removal loops of the C code, is shown in
`RuntimeTypes` to keep order, distinctness and exactly the entries wanted;
every kill and every timeout rests on it.

`BlockedHasOneWaiter` counts waiter nodes, `WaitInv` compares sets of pids:
`PlaceOf` connects the two.

The action properties.  `Lawful(p)` is the first three of them for one process and one
step; there is one lemma per action that derives it from `IInv`.  The
interesting cases: a timer visit calls no closure over a blocked process, because it skips the timer; a callback is pushed *above* the
halt of an ended program, and its return takes only its own frame
(`PushKeepsHalt`, `PopKeepsHalt`); a continuation that is called puts its own stack there (`JumpSteps`), so the halt
can only vanish with one that has none, which `HaltIsFinal` names as the one exception (`Resumes`), and never if all
continuations have one (`EndedForGood`), since what is captured after the halt has it (`CaptureSteps`); a fork writes to a slot nobody used (`PoolInv`); the
process at the head of the run queue is not killed (`RunInv`).  `SleepIsUseful`
follows from how the length of a sleep is chosen, and from `TypeOK`.

The refinement.  A waiter list is seen as the set of its
`Callers` (readers) or `Offers` (writers with their values); the lemmas on `Tail`, on a new waiter and on `Compact` say what each
change of a list does to the set.  Three facts of `IInv` carry the argument: a
process that executes waits nowhere, so a call never overlaps another call of
its process; readers wait only at an empty queue and writers only
at a full one, so that handing a value over, or admitting one, keeps the order; a waiter whose time is over
belongs to a blocked process, so that it is answered once.

### The hash table

`HashMapProofs` proves of `HashMap`, for all constants that satisfy `MapAssumption` (the two special keys differ and are
no keys, hashes are natural numbers, a new table has at least two slots):
`TypeCorrect`, `LookupCorrect`, `CountersCorrect` and `MapCorrect` (`Spec => ImplementsTable`).

The invariant `Inv` they rest on has four parts that the properties do not state.  `Reaches`: from the
home of each key its slot is reached over used slots only; this is what a tombstone is for, and it also
makes a second slot for the same key impossible (`KeysDiffer`).  `Room`: keys, tombstones and what
a rebuild has still to put back are at most three quarters of the slots, so that a slot is left
that was never used (`UnusedSlot`, counting with the library's facts on finite sets), and every search ends
(`SearchEnds`).  `NoneTwice`: what has still to come is not there yet.  And what waits for a rebuild to end is what the last call
asked for, so that it is that call whose effect the step after the rebuild has (`RefilledStep`), while a step
of the rebuild itself has none (`RefillStep`).  `Places` is the arithmetic of the
probing: going on from the home of a key, around the end, passes each slot once.

### The collector

`CollectorProofs` proves of `Collector`, for every set of programs and all bounds (`CollectorAssumption`: the
bounds are natural numbers): `TypeCorrect`, `NoDanglingCorrect` and `GarbageFreedCorrect`, from `Inductive`.

`HeldIn(X)` says that each handle the process holds, in the registers, the stacks, an object, a
continuation, an entry, a wind under way, the string table or a timer, is in the set `X`.
What an instruction holds afterwards it held before, or it is new: one lemma for each instruction, for
any `X`.  With `X = Handle` this is the type invariant; with `X = DOMAIN heap` it says that nothing
dangles.  `Collect` is the only step that takes handles away.  It keeps the
roots, and `RootsHeld` shows that every place that holds handles is a root, but for the timers, whose
callbacks have the keepalive bit.  It keeps what a survivor refers to, because a set that nothing
outside of it refers to cannot hold it (`RefsSurvive`).  Static objects survive unmarked, so two more facts are in the
invariant: a static object refers to static objects only (`StaticClosed`), and no other object has a mark
left from an earlier collection (`Flags`).

`StaticClosed` is where programs that store new objects into their literals have to be left out:
`NoDanglingCorrect` is `Spec => [](Clean => NoDangling)`, `Clean` says that the program does not, and the run
`gc_literal` shows a program that does and that the conclusion fails for it.  The types and
`GarbageIsFreed` need no such hypothesis.

`GarbageIsFreed` compares the collector, which keeps whatever no isolated set holds, with
`Reachable`, which climbs from the roots.  The handles not reached are an isolated set
(`MarkedReachable`).  `Reachable` is defined by a function on the numbers of steps; that such a function
exists is shown with the smallest number at which it would not (`FirstFailure`), since the library's induction
theorems cannot be used here.

### The allocator

`AllocatorProofs` proves of `Allocator`: `TypeCorrect`, `AreasTiledCorrect` (from `HeapTiledCorrect` and `VmTiledCorrect`), `HoldersKeptCorrect`,
`RefusedOnlyWhenFullCorrect`, the action property `SafePointKeepsAllCorrect` and the refinement `ImplementsMemoryCorrect`
(`Spec => ImplementsMemory`), from `Inductive`, that is all that the run `memory` checks, for a
pool of any size, any ascending size classes, any sizes of headers and of requests, any number of
objects and tables.  Assumed are `PoolAssumption` (sizes and shares are positive numbers, the shares leave room on both
sides) and `ScaleAssumption` (a step of the border is at least a block, and so are the two
minimal shares: with the sizes of the code these are 5 and 10 percent of a pool against some tens of
bytes).  The steps from a `HasGap` that the code does not define are the only ones left out (2.5).

The invariant `IInv` says of each area that it is `Whole`, and of the holders that they are `Owned`: every
holder names a used block that names it, and every used block is somebody's.  `Whole` has four parts.

- `Chain`: each block ends where another begins or where the area does, no two overlap, and the tag of each is the size
  of the one before.
- `Apart`: no two free blocks lie side by side.
- `Filed`: each list holds, once each, the free blocks of its class and no others.
- `Counted`: `used` is what the used blocks take together, stated as the number of units that some used block covers,
  so that changes are additions of disjoint intervals and no recursion over blocks is needed.

No helper of the allocator keeps this.  Inside an operation there are blocks *in hand*: taken out of their list but not
used yet, used but not counted, free and beside another free block.  `Loose` is
`Whole` with a set of blocks in hand left out of all counts and lists.  A lemma for each helper, and for splitting and joining
(`TakeOutLoose`, `InsertLoose`, `SplitLoose`, `JoinLoose`, `GiveLoose`, `ReclaimLoose`), says how an area with blocks in hand
changes, and the set with it; the lemmas of the operations chain them, and at the end of each the hand is empty.
`CoalesceLoose` joins at most three blocks, and none beside those is free, because two
free blocks side by side exist only in hand.

`Compacted` is built anew from the live blocks rather than changed step by step.  `Moved(b)` is what the live blocks below `b` take, so
the new places are apart and in order because sums over larger sets are larger, and the block that ends where another begins is
unique, which makes the `CHOOSE` in it a function.  `Moved(b) <= b` is because blocks below `b` lie
below it, apart.  After it `HeapUpTo` knows that the used blocks are the first ones.

For the border, `Given` has to end the heap where the VM area can begin: at a block's end, inside the first
free block with room for a rest, or at the first used one.  Downwards a new block is added or, if there is too little room, the gap is
shorter than a block; `VmTiled` says so with `first`.

`RefusedOnlyWhenFull` is part of the invariant since `refused` remembers a request
that was turned down in the step before.  For the VM area it rests on `ClassOf` going up with the size: a block
that is large enough is filed under the class of the request or a later one.

The refinement needs one fact more, `AskedCorrect`: whoever has a block has at least what was asked for.  `Handed`
is the step in which somebody's block is replaced: the area with the new block in use and the old one
still there, then without the old one; `SeenHanded` turns it into a step of `Memory`, because distinct blocks do
not overlap (`UnitInBlock`).  A refusal rests on `NoRoom`: no free block has n units and no two free ones meet, so among any n units in a row
one is in a used block, and used blocks have owners.  At a safe point, `PackedUnits` shows that the
units of the moved objects are those from 0 to the top and no others.  `SeparateCorrect` says of the blocks that
users see what the refinement gives step by step: in every state no two of them have a unit in common, and each is on its side of
the border.

### dynamic-wind

`DynamicWindProofs` proves of `DynamicWind`, for any number of dynamic-winds, continuations, operands and jumps:
`TypeCorrect`, `AfterStackCorrect`, `WindStackCorrect`, `BasesCorrect` and the action properties
`ExtentsInOrderCorrect` and `RestoredCorrect`, from `Inductive`.

The process is seen as the sequence `Now` of the instructions control will return to, with the one to
execute last.  Actions call, go on or return, and a lemma for each says what this does to the number of
times an instruction occurs in `Now`.  What the invariant says of the live process it says of each continuation
too, since calling one makes it the live process.  Its parts, none of which is a property the run states:

- `Registers`: a register that is not empty belongs to the last before that is running, both registers
  name the same entry, and no thunk runs above it.  `ExtentsCrossedInOrder` needs it: the entry pushed and the
  thunk called are the same dynamic-wind's.
- `Afters`: the after stack has one entry for each `done` in `Now`, above which that entry's after runs, or
  a callback.
- `Extents`: the same of the wind stack and the thunks where no wind is under way.  While one is, the
  wind stack and the function stack differ, and `WindFits` says by how much: the entries the trampoline has already
  entered are the lower part of the wind stack and the first of the continuation's; with the befores that are left they
  make up the continuation's; with the afters that are left, and the thunks above the
  trampoline, they are as many as the wind stack has.  Only this last count survives that a wind interrupts a
  wind and that an error leaves afters in the list.  `WindEnded` follows: with nothing left, the two stacks are equal.
- `Bases`: an entry has an instruction that will trim the operand stack to its base, found from the registers or by
  counting from the top of its stack.  Along `Now` these bases go up, and the last is within the operand
  stack.  Trimming to the last one therefore keeps all the others.  Thunks below a wind are
  left out until the wind is over, when the restored continuation brings its own.

`Extents` and `Bases` have the hypothesis `NoneCapturedInWind` that their properties have, `Afters` that there
was no fork; without them TLC refutes the properties (2.2, 3.2).

### The machine

`ExecutionProofs` proves of `Execution`, for every program that is `LoadableMachine` and every set of texts that are
`LoadableText` (code without clean-ups that names variables there are; a heap of lists, strings and
scopes; two instructions at least in a text):

- `EvaluatedCodeIsTakenOutHolds`: `Runs(...) => []EvaluatedCodeIsTakenOut`
- `ObjectsStayHolds`: no step changes what an object is; only records are taken away, and no handle is given twice
- `LookUpIsLexicalHolds`: `Binder` is the nearest of the enclosing closures that binds the variable, or none
- `ExecutionFits`: `Runs(...) => []IInv`, from which the three follow.

`Runs` quantifies over the machine a process starts with, so nothing is said of the compiler, except in these two
assumptions, which `CompiledIsLoadable` checks on the programs of the run.

The argument.  An instruction other than the clean-up is a composition of few operations on the machine.  Each of them `Moves` it: the
code and the names stay, every object stays what it is, what is added is no record, and the heap stays `Good`.  `Moves` is
transitive, so the lemma of an instruction follows the composition, and `ExecuteMoves` puts them
together.  Only the clean-up and `EvalText` change the code, and `CodeInv` is about them alone.

`EvaluatedCodeIsTakenOut` is not inductive: that each clean-up has a record does not say where the record cuts.
`CodeInv` says it: a clean-up is the second instruction of its piece and cuts in front of that piece; what remains names only variables that
remain; and the records of what remains keep no more names than are left.  The cut then hits the end of some piece
even if a continuation has skipped the clean-ups of the pieces behind it, which go with it (`CleanupKeepsCodeInv`).  A text that is appended
sees only names the process has, since its free variables are mapped to top variables of the program (`TopsKnown`) and the
others are entered (`MapVarsMaps`, by induction over its names; `AppendKeepsCodeInv`).

`Binder` is a recursive function on the closures of the heap.  It is well defined because a closure is younger than its parent, which is
part of `Good` and the reason that the loop in `am_process_dereference` ends: `LookUpTo` builds it for the closures up to each
handle, and what it finds is shown by a least counterexample.

## 5. What is only model-checked

- Liveness (`live`): temporal reasoning with fairness is beyond the
  prover used here.
- `Toolchain` but for `EvaluatedCodeIsTakenOut`: its passes are recursive functions over trees, written with
  RECURSIVE operators, and what a recursive definition computes for every input
  is out of the prover's reach.  This goes for `ParsedAsWritten`, `RenamingKeepsBindings`, `TreeIsWhole`
  and `OnlyWellFormedRuns`, which are about the passes, and for `RunsAsReference` and
  `StackHoldsWhatWaits`, which compare the machine with the reference.  The run checks them on the
  programs listed instead, and that the compiler gives what `ExecutionProofs` assumes.

## 6. What is not modelled, and the plan

Done, with proofs: scheduler, processes, queues and timers (2.1);
dynamic-wind and continuations (2.2); the collector (2.3); machine and eval (2.4); the allocator and what it promises (2.5); the hash table (2.6).
Done, model-checked: parser, macros, linker and compiler, and that the machine shows what a program means (2.4).

To do: the lexer; and an account of the memory that spans `Collector`, `HashMap` and `Allocator`, which today
meet only in that each promises what the next one assumes (a handle in use has an object, the object
a slot, the slot a block); `Memory` and `Table` are what it would be built on.

Not planned: the language model in `native_LLM.c` (numerical code), terminal
handling (`repl.c`, `highlight.c`), translation of JavaScript (`js2scm.c`), dumps
(`debug.c`, the dump and load of modules and processes), texts of strings (`wstring.c`), and the arithmetic of the native libraries.

Left out of the modules that exist: failing allocations; conversions of native
arguments; host callbacks; the garbage collection in the event handler,
which changes none of the scheduler's state; in `DynamicWind`, callbacks in a process that an error has stopped
and ordinary procedure calls, which leave all of this state as they found it (calls are in `Machine`);
in `Machine`, floating point numbers and the width of integers, strings beyond their identity, and
tables; in `Evaluation`, native libraries that a text declares, and the numbers of symbols; in `Allocator`, reports
and statistics.
