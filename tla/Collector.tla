------------------------------ MODULE Collector ------------------------------
(***************************************************************************)
(* The heap of one process and its mark-and-sweep collector                *)
(* (am_process_gc and what it calls, src/src/process.c), with the          *)
(* instructions and native functions that create objects, move handles     *)
(* between them, and keep handles where only the collector finds them: in  *)
(* continuations, dynamic-wind registers, timers, the table of interned    *)
(* strings.                                                                *)
(*                                                                         *)
(* To the collector an object is its references, and a stack the handles   *)
(* on it.  Order, variable names, numbers and text are left out, and so is *)
(* the parent field of a list, which no instruction follows.  Nil stands   *)
(* for any value that is no handle.  Control flow is left out too: a       *)
(* program may execute any instruction at any time.  A collection happens  *)
(* between two instructions, because the event loop collects between two   *)
(* computation phases.                                                     *)
(* Handles in the queues between processes are left out as well: the       *)
(* programs themselves have to keep what they send.                        *)
(***************************************************************************)
EXTENDS Naturals, Sequences, FiniteSets, SequencesExt

CONSTANTS
    Programs,      \* the programs considered: see Program
    MaxFrames,     \* bound: length of the function stack
    MaxItems,      \* bound: handles a list or the variables of a closure hold
    MaxCallbacks   \* bound: closures in the heap that were ever given to a timer

\* "set literals": the program stores new objects into its own literals.
Groups ==
    {"lists", "set literals", "strings", "continuations", "dynamic-wind", "timers", "fork"}

\* The groups of instructions a program uses, and its bounds: handles ever
\* allocated, closures at a time, different handles on the operand stack.
Program == [uses : SUBSET Groups, handles : Nat, closures : Nat, operands : Nat]

ASSUME CollectorAssumption ==
    /\ Programs \subseteq Program
    /\ \A n \in {MaxFrames, MaxItems, MaxCallbacks} : n \in Nat

VARIABLES
    program,    \* the one that runs
    heap,       \* the handle table: the objects that exist
    env,        \* what each continuation object saved
    entries,    \* what each dynamic-wind entry, itself a list, holds
    next,       \* handle_counter
    closure,    \* current_closure_handle
    operands,   \* the handles on the operand stack
    fstack,     \* the function stack: the closures to return to
    strindex,   \* the table of interned strings: <<>> or <<their set>>
    winds,      \* the dynamic-wind stacks and registers
    pending,    \* the wind under way: <<>> or one record
    timers      \* the callbacks of the timers that are set

regVars  == <<closure, operands, fstack>>
sideVars == <<strindex, winds, pending, timers>>
vars == <<program, heap, env, entries, next, regVars, sideVars>>

Nil    == 0
Handle == Nat \ {Nil}
Slot   == Handle \cup {Nil}
Kind   == {"closure", "list", "string", "continuation"}

Object == [kind : Kind, parent : Slot, items : SUBSET Handle,
           static : BOOLEAN, keepalive : BOOLEAN, alive : BOOLEAN]

Handles(S) == S \ {Nil}

\* am_heap_alloc_handle finds n new handles.
Free(n) == next + n - 1 <= program.handles

\* am_list_create, am_closure_create and the like: all flags are clear.
NewObject(k, p, S) ==
    [kind |-> k, parent |-> p, items |-> S,
     static |-> FALSE, keepalive |-> FALSE, alive |-> FALSE]

\* am_heap_set: handle h names object o.
Bind(h, o) == [x \in DOMAIN heap \cup {h} |-> IF x = h THEN o ELSE heap[x]]

IsKind(h, k) == h \in DOMAIN heap /\ heap[h].kind = k
IsClosure(h) == IsKind(h, "closure")
IsList(h) == IsKind(h, "list")
IsContinuation(h) == IsKind(h, "continuation")
IsEntry(h) == h \in DOMAIN entries

\* The module's AST nodes are loaded as static objects, which the code names
\* by their handles.  One list stands for them all.
Literal == 1

Init ==
    /\ program \in Programs
    /\ heap = [h \in {Literal} |-> [NewObject("list", Nil, {}) EXCEPT !.static = TRUE]]
    /\ env = <<>> /\ entries = <<>>
    /\ next = Literal + 1
    /\ closure = Nil /\ operands = {} /\ fstack = <<>>
    /\ winds = [stack |-> {}, entry |-> Nil, thunk |-> Nil, afters |-> {}]
    /\ strindex = <<{}>> /\ pending = <<>> /\ timers = {}

-----------------------------------------------------------------------------
(* Operand stack *)

\* The values S are popped, S2 pushed.  What is popped may be on the stack a
\* second time.
PopPush(S, S2) ==
    /\ Handles(S) \subseteq operands
    /\ \E twice \in SUBSET Handles(S) :
          operands' = (operands \ S) \cup twice \cup Handles(S2)
    /\ Cardinality(operands') <= program.operands

\* The values S are popped, and a new object's handle is pushed.
PushNew(S, o) ==
    /\ Free(1) /\ Cardinality(o.items) <= MaxItems
    /\ heap' = Bind(next, o)
    /\ next' = next + 1
    /\ PopPush(S, {next})
    /\ UNCHANGED <<program, env, entries, closure, fstack>>

-----------------------------------------------------------------------------
(* Variables and closures *)

\* The closures a variable look-up goes through, from the current one up.
Chain ==
    LET up[h \in Slot] == IF h \notin DOMAIN heap THEN {}
                          ELSE {h} \cup up[heap[h].parent]
    IN  up[closure] \cap DOMAIN heap

\* am_process_dereference: what the variables in scope can be bound to.
Visible == UNION {heap[c].items : c \in Chain}

\* Mutant: a value that is no handle is stored like a handle.
ReplacedUnchecked(h, old, v) == [heap EXCEPT ![h].items = (@ \ {old}) \cup {v}]

\* A binding of closure h, or an element of list h, that held old is now v;
\* old = Nil: it is new, or held no handle.
Replaced(h, old, v) == [heap EXCEPT ![h].items = Handles((@ \ {old}) \cup {v})]

Replace(h, old, v) ==
    /\ heap' = Replaced(h, old, v)
    /\ Cardinality(heap'[h].items) <= MaxItems

Slots(h) == {Nil} \cup IF h \in DOMAIN heap THEN heap[h].items ELSE {}

\* am_process_make_closure, copy_current_closure_bindings_as_free_vars
NewClosure ==
    NewObject("closure", closure,
              IF IsClosure(closure) THEN heap[closure].items ELSE {})

\* op_load, op_push
Load(h) ==
    /\ PopPush({}, {h})
    /\ UNCHANGED <<program, heap, env, entries, next, closure, fstack, sideVars>>

RoomForClosure == Cardinality({h \in DOMAIN heap : IsClosure(h)}) < program.closures

LoadClosure == RoomForClosure /\ PushNew({}, NewClosure) /\ UNCHANGED sideVars

\* op_store
Store(old, v) ==
    /\ IsClosure(closure)
    /\ Replace(closure, old, v)
    /\ PopPush({v}, {})
    /\ UNCHANGED <<program, env, entries, next, closure, fstack, sideVars>>

\* op_set: the variable where it is defined, in c, and the copy of it, if any,
\* in the current closure: <<>> or <<what the copy held>>.
Set(c, old, copy, v) ==
    /\ IsClosure(closure) /\ IsClosure(c)
    /\ heap' = [h \in DOMAIN heap |->
                  CASE h = c                                -> Replaced(h, old, v)[h]
                    [] h # c /\ h = closure /\ copy # <<>> -> Replaced(h, copy[1], v)[h]
                    [] OTHER                                -> heap[h]]
    /\ \A h \in {c, closure} : Cardinality(heap'[h].items) <= MaxItems
    /\ PopPush({v}, {})
    /\ UNCHANGED <<program, env, entries, next, closure, fstack, sideVars>>

-----------------------------------------------------------------------------
(* Calls *)

\* op_call pushes a frame, op_tailcall does not.
Enter(c, tail) ==
    /\ closure' = c
    /\ IF tail
       THEN UNCHANGED fstack
       ELSE /\ Len(fstack) < MaxFrames
            /\ fstack' = Append(fstack, closure)

\* A call of code by its address makes the closure first.
CallCode(tail) ==
    /\ RoomForClosure /\ Free(1)
    /\ heap' = Bind(next, NewClosure)
    /\ next' = next + 1
    /\ Enter(next, tail)
    /\ UNCHANGED <<program, env, entries, operands, sideVars>>

CallClosure(c, tail) ==
    /\ IsClosure(c)
    /\ Enter(c, tail)
    /\ UNCHANGED <<program, heap, env, entries, next, operands, sideVars>>

Return ==
    /\ fstack # <<>>
    /\ closure' = Last(fstack)
    /\ fstack' = Front(fstack)
    /\ UNCHANGED <<program, heap, env, entries, next, operands, sideVars>>

-----------------------------------------------------------------------------
(* Lists and strings *)

\* op_concat
Concat(S) == PushNew(S, NewObject("list", Nil, S)) /\ UNCHANGED sideVars

\* op_cons: a copy of l with v in front.
ListCons(l, v) ==
    /\ IsList(l)
    /\ PushNew({l, v}, NewObject("list", Nil, Handles(heap[l].items \cup {v})))
    /\ UNCHANGED sideVars

\* op_cdr: a copy of l without the first element.
ListCdr(l, first) ==
    /\ IsList(l)
    /\ PushNew({l}, NewObject("list", Nil, heap[l].items \ {first}))
    /\ UNCHANGED sideVars

\* op_car, op_get_item
GetItem(l, v) ==
    /\ IsList(l)
    /\ PopPush({l}, {v})
    /\ UNCHANGED <<program, heap, env, entries, next, closure, fstack, sideVars>>

\* op_set_item, op_list_push (old = Nil).  Neither looks at the static flag:
\* only programs that "set literals" store a new object into a literal.
SetItem(l, old, v) ==
    /\ IsList(l)
    /\ PopPush({l, v}, {})
    /\ heap[l].static /\ v # Nil => "set literals" \in program.uses \/ heap[v].static
    /\ Replace(l, old, v)
    /\ UNCHANGED <<program, env, entries, next, closure, fstack, sideVars>>

\* op_list_pop
ListPop(l, v) ==
    /\ IsList(l)
    /\ heap' = Replaced(l, v, Nil)
    /\ PopPush({l}, {v})
    /\ UNCHANGED <<program, env, entries, next, closure, fstack, sideVars>>

Interned == UNION Range(strindex)

\* am_process_make_wstring_handle: a short string is interned, if the process has
\* a table for it, ...
MakeString(short) ==
    /\ PushNew({}, NewObject("string", Nil, {}))
    /\ strindex' = IF short /\ strindex # <<>> THEN <<Interned \cup {next}>> ELSE strindex
    /\ UNCHANGED <<winds, pending, timers>>

\* ... and found again by its text.
FindString(s) ==
    /\ PopPush({}, {s})
    /\ UNCHANGED <<program, heap, env, entries, next, closure, fstack, sideVars>>

-----------------------------------------------------------------------------
(* Continuations *)

\* op_capturecc: am_process_capture_continuation copies the dynamic-wind stack
\* into a list of its own, and the continuation is bound to a variable of the
\* current closure.  (The copy of the stack of afters, another list, is kept
\* in the continuation here.)
Capture(old) ==
    /\ Free(2)
    /\ IsClosure(closure)
    /\ LET snapshot == next
           k == next + 1
       IN  /\ heap' = [h \in DOMAIN heap \cup {snapshot, k} |->
                  CASE h = snapshot -> NewObject("list", Nil, winds.stack)
                    [] h = k        -> NewObject("continuation", Nil, {})
                    [] OTHER        -> Replaced(closure, old, k)[h]]
           /\ env' = [h \in DOMAIN env \cup {k} |->
                  IF h = k THEN [closure |-> closure, operands |-> operands,
                                 fstack |-> fstack, snapshot |-> snapshot,
                                 entry |-> winds.entry, thunk |-> winds.thunk,
                                 afters |-> winds.afters]
                  ELSE env[h]]
    /\ next' = next + 2
    /\ UNCHANGED <<program, entries, regVars, sideVars>>

\* The dynamic-wind stack that continuation k was captured with.
Target(k) == heap[env[k].snapshot].items

\* am_process_restore_continuation_snapshot, then value v is pushed.  The
\* dynamic-wind stack is left as it is.
Restore(k, v) ==
    /\ operands' = env[k].operands \cup Handles({v})
    /\ Cardinality(operands') <= program.operands
    /\ fstack' = env[k].fstack
    /\ closure' = env[k].closure
    /\ winds' = [winds EXCEPT !.entry = env[k].entry, !.thunk = env[k].thunk,
                             !.afters = env[k].afters]

\* am_process_load_continuation when the dynamic-wind stack is the one k was
\* captured with, ...
CallContinuation(k, v) ==
    /\ IsContinuation(k)
    /\ winds.stack = Target(k)
    /\ Restore(k, v)
    /\ UNCHANGED <<program, heap, env, entries, next, strindex, pending, timers>>

\* ... and when it is not: the entries to leave and to enter are noted.  Two
\* stacks agree exactly on the entries below their common prefix.
StartWind(k, v, tail) ==
    /\ IsContinuation(k)
    /\ winds.stack # Target(k)
    /\ pending' = <<[cont |-> k, value |-> v, afters |-> winds.stack \ Target(k),
                     befores |-> Target(k) \ winds.stack]>>
    /\ PopPush({v}, {})
    /\ Enter(closure, tail)
    /\ UNCHANGED <<program, heap, env, entries, next, strindex, winds, timers>>

\* op_wind: leave an entry (it takes the outermost and fails unless that is on
\* top of the stack, so that it gets no further when there are two), ...
WindOut(e) ==
    /\ pending[1].afters = {e}
    /\ e \in winds.stack /\ IsEntry(e)
    /\ pending' = [pending EXCEPT ![1].afters = @ \ {e}]
    /\ winds' = [winds EXCEPT !.stack = @ \ {e}]
    /\ Enter(entries[e].after, FALSE)
    /\ UNCHANGED <<program, heap, env, entries, next, operands, strindex, timers>>

\* ... then enter one, ...
WindIn(e) ==
    /\ pending[1].afters = {} /\ IsEntry(e)
    /\ pending' = [pending EXCEPT ![1].befores = @ \ {e}]
    /\ winds' = [winds EXCEPT !.stack = @ \cup {e}]
    /\ Enter(entries[e].before, FALSE)
    /\ UNCHANGED <<program, heap, env, entries, next, operands, strindex, timers>>

\* ... and restore in the end.
WindRestore ==
    /\ pending # <<>> /\ pending[1].afters = {} /\ pending[1].befores = {}
    /\ IsContinuation(pending[1].cont)
    /\ Restore(pending[1].cont, pending[1].value)
    /\ pending' = <<>>
    /\ UNCHANGED <<program, heap, env, entries, next, strindex, timers>>

-----------------------------------------------------------------------------
(* dynamic-wind *)

\* op_dynamicwind makes the entry and calls before.
DynamicWind(before, thunk, after) ==
    /\ Free(1)
    /\ \A c \in {before, thunk, after} : IsClosure(c)
    /\ heap' = Bind(next, NewObject("list", Nil, {}))
    /\ entries' = [e \in DOMAIN entries \cup {next} |->
                      IF e = next THEN [before |-> before, after |-> after, saved |-> Nil]
                      ELSE entries[e]]
    /\ next' = next + 1
    /\ winds' = [winds EXCEPT !.entry = next, !.thunk = thunk]
    /\ PopPush({before, thunk, after}, {})
    /\ Enter(before, FALSE)
    /\ UNCHANGED <<program, env, strindex, pending, timers>>

\* op_dynamicwind_after_before puts the entry on the stack and calls thunk; the
\* values V of before are dropped.
WindThunk(V) ==
    /\ IsEntry(winds.entry) /\ winds.thunk # Nil
    /\ winds' = [winds EXCEPT !.entry = Nil, !.stack = @ \cup {winds.entry}]
    /\ PopPush(V, {})
    /\ Enter(winds.thunk, FALSE)
    /\ UNCHANGED <<program, heap, env, entries, next, strindex, pending, timers>>

\* op_dynamicwind_before_after keeps the thunk's value in the entry, moves the
\* entry to the stack of afters and calls after.
WindAfter(e, v) ==
    /\ IsEntry(e)
    /\ entries' = [entries EXCEPT ![e].saved = v]
    /\ winds' = [winds EXCEPT !.stack = @ \ {e}, !.afters = @ \cup {e}, !.thunk = Nil]
    /\ PopPush({v}, {})
    /\ Enter(entries[e].after, FALSE)
    /\ UNCHANGED <<program, heap, env, next, strindex, pending, timers>>

\* op_dynamicwind_done drops the values V of after and pushes the thunk's.
WindDone(e, V) ==
    /\ IsEntry(e)
    /\ winds' = [winds EXCEPT !.afters = @ \ {e}]
    /\ PopPush(V, {entries[e].saved})
    /\ UNCHANGED <<program, heap, env, entries, next, closure, fstack, strindex, pending, timers>>

-----------------------------------------------------------------------------
(* Timers *)

\* System.set_timeout, System.set_interval: native_keepalive_closure.
SetTimer(c) ==
    /\ IsClosure(c)
    /\ heap' = [heap EXCEPT ![c].keepalive = TRUE]
    /\ timers' = timers \cup {c}
    /\ Cardinality({h \in DOMAIN heap' : heap'[h].keepalive}) <= MaxCallbacks
    /\ PopPush({c}, {})
    /\ UNCHANGED <<program, env, entries, next, closure, fstack, strindex, winds, pending>>

\* am_runtime_call_async; a timer that repeats stays.
Fire(c, repeat) ==
    /\ Enter(c, FALSE)
    /\ timers' = IF repeat THEN timers ELSE timers \ {c}
    /\ UNCHANGED <<program, heap, env, entries, next, operands, strindex, winds, pending>>

\* System.clear_timeout: the callback keeps its flag.
ClearTimer(c) ==
    /\ timers' = timers \ {c}
    /\ UNCHANGED <<program, heap, env, entries, next, regVars, strindex, winds, pending>>

-----------------------------------------------------------------------------
(* Fork *)

\* am_fork_heap_copy_object, then am_fork_heap_remap_object: lists and strings keep
\* their flags, and a continuation its mark; a closure starts without any.
\* Handles are renamed throughout, which does not show here.
Copied(o) ==
    IF o.kind = "closure" THEN NewObject("closure", o.parent, o.items) ELSE o

\* am_continuation_copy, in the child: what am_continuation_create takes.
CopiedEnv(k) == [env[k] EXCEPT !.entry = Nil, !.thunk = Nil, !.afters = {}]

\* am_fork_process_copy, followed into the child, which has no timers, no table
\* of strings and no registers of dynamic-wind.  The parent takes a step.
Fork ==
    /\ heap' = [h \in DOMAIN heap |-> Copied(heap[h])]
    /\ env' = [k \in DOMAIN env |-> CopiedEnv(k)]
    /\ winds' = [winds EXCEPT !.entry = Nil, !.thunk = Nil]
    /\ strindex' = <<>> /\ pending' = <<>> /\ timers' = {}
    /\ UNCHANGED <<program, entries, next, regVars>>

-----------------------------------------------------------------------------
(* Garbage collection *)

EntryHandles(e) == Handles({entries[e].before, entries[e].after, entries[e].saved})

\* What an object refers to, but for continuations.
Refs(h) ==
    Handles(heap[h].items \cup {heap[h].parent})
        \cup IF IsEntry(h) THEN EntryHandles(h) ELSE {}

\* gc_root_helper: the handles in an environment, ...
EnvHandles(c, ops, frames) == Handles({c} \cup ops \cup Range(frames))

\* ... and those bound in its closures.
Bindings(c, frames) ==
    UNION {heap[x].items : x \in ({c} \cup Range(frames)) \cap DOMAIN heap}

ContinuationHandles(k) ==
    EnvHandles(env[k].closure, env[k].operands, env[k].fstack)
        \cup Handles({env[k].snapshot, env[k].entry, env[k].thunk} \cup env[k].afters)

\* Mutant: the entry whose before runs is forgotten.
WindHandlesWithoutEntry == Handles(winds.stack \cup {winds.thunk} \cup winds.afters)

WindHandles == Handles(winds.stack \cup {winds.entry, winds.thunk} \cup winds.afters)

PendingHandles ==
    UNION {Handles({w.cont, w.value} \cup w.afters \cup w.befores) : w \in Range(pending)}

Registers ==
    EnvHandles(closure, operands, fstack)
        \cup Interned \cup WindHandles \cup PendingHandles

\* am_process_gc_root: every continuation object in the heap counts, whether
\* it can be reached or not; am_process_gc adds the keepalive objects.
GCRoots ==
    Registers \cup Bindings(closure, fstack)
        \cup (UNION {ContinuationHandles(k) \cup Bindings(env[k].closure, env[k].fstack)
                       : k \in DOMAIN env})
        \cup {h \in DOMAIN heap : heap[h].keepalive}

\* am_process_gc_mark goes depth first from the roots.  An object that has a
\* mark is taken for visited.
Unmarked == {h \in DOMAIN heap : ~heap[h].alive}

\* Nothing outside M, of what is or will be visited, refers to one of M.
Isolated(M) == \A h \in Unmarked \ M : Refs(h) \cap M = {}

Marked ==
    LET others == Unmarked \ GCRoots
    IN  Unmarked \ UNION {M \in SUBSET others : Isolated(M)}

\* am_process_gc_sweep frees what has no mark, and takes the marks off except
\* from static objects, which it skips.
Freed(marked) ==
    {h \in Unmarked \ marked : ~heap[h].static /\ ~heap[h].keepalive}

\* Mutant: the mark stays on.
SweptMarked(h, marked) == [heap[h] EXCEPT !.alive = @ \/ h \in marked]

Swept(h, marked) ==
    [heap[h] EXCEPT !.alive = heap[h].static /\ (@ \/ h \in marked)]

Collect ==
    /\ UNCHANGED <<program, next, regVars, sideVars>>
    /\ \E marked \in {Marked} :
          /\ heap' = [h \in DOMAIN heap \ Freed(marked) |-> Swept(h, marked)]
          /\ env' = [k \in DOMAIN env \ Freed(marked) |-> env[k]]
          /\ entries' = [e \in DOMAIN entries \ Freed(marked) |-> entries[e]]

-----------------------------------------------------------------------------
ListInstruction ==
    \E l \in operands :
        \/ \E v \in Slots(l) : GetItem(l, v) \/ ListPop(l, v) \/ ListCdr(l, v)
        \/ \E v \in operands \cup {Nil} :
              ListCons(l, v) \/ \E old \in Slots(l) : SetItem(l, old, v)

StringInstruction ==
    \/ \E short \in BOOLEAN : MakeString(short)
    \/ \E s \in Interned : FindString(s)

ContinuationInstruction ==
    \/ \E old \in Slots(closure) : Capture(old)
    \/ \E k \in Visible, v \in operands \cup {Nil} :
          CallContinuation(k, v) \/ \E tail \in BOOLEAN : StartWind(k, v, tail)
    \/ WindRestore
    \/ \E w \in Range(pending) :
          (\E e \in w.afters : WindOut(e)) \/ \E e \in w.befores : WindIn(e)

WindInstruction ==
    \/ \E b, t, a \in operands : DynamicWind(b, t, a)
    \/ \E V \in SUBSET operands : WindThunk(V) \/ \E e \in winds.afters : WindDone(e, V)
    \/ \E e \in winds.stack, v \in operands \cup {Nil} : WindAfter(e, v)

TimerInstruction ==
    \/ \E c \in operands : SetTimer(c)
    \/ \E c \in timers : ClearTimer(c) \/ \E r \in BOOLEAN : Fire(c, r)

ClosureInstruction ==
    \/ LoadClosure \/ Return
    \/ \E h \in Visible \cup {Literal} : Load(h)
    \/ \E v \in operands \cup {Nil} :
          \/ \E old \in Slots(closure) : Store(old, v)
          \/ \E c \in Chain, copy \in {<<>>} \cup {<<x>> : x \in Slots(closure)} :
                \E old \in Slots(c) : Set(c, old, copy, v)
    \/ \E tail \in BOOLEAN : CallCode(tail) \/ \E c \in Visible : CallClosure(c, tail)

Next ==
    \/ ClosureInstruction
    \/ "lists" \in program.uses /\ (ListInstruction \/ \E S \in SUBSET operands : Concat(S))
    \/ "strings" \in program.uses /\ StringInstruction
    \/ "continuations" \in program.uses /\ ContinuationInstruction
    \/ "dynamic-wind" \in program.uses /\ WindInstruction
    \/ "timers" \in program.uses /\ TimerInstruction
    \/ "fork" \in program.uses /\ Fork
    \/ Collect

Spec == Init /\ [][Next]_vars

-----------------------------------------------------------------------------
\* Type invariant: flags, kinds and references of the objects; handles are
\* given out in order, and the registers hold what fits them.
TypeOK ==
    /\ program \in Programs
    /\ next \in Handle /\ DOMAIN heap \subseteq 1 .. next - 1
    /\ \A h \in DOMAIN heap : heap[h] \in Object
    /\ DOMAIN env = {h \in DOMAIN heap : IsContinuation(h)}
    /\ DOMAIN entries \subseteq {h \in DOMAIN heap : IsList(h)}
    /\ closure \in Slot /\ fstack \in Seq(Slot)
    /\ operands \subseteq Handle /\ Cardinality(operands) <= program.operands
    /\ winds \in [stack : SUBSET Handle, entry : Slot, thunk : Slot, afters : SUBSET Handle]

\* Everything a program can get at exists, whatever was collected: what it
\* holds in registers, what objects refer to, what a continuation will restore,
\* what a timer will call, what the text of a string will find.
NoDangling ==
    /\ Registers \cup {Literal} \cup timers \subseteq DOMAIN heap
    /\ \A h \in DOMAIN heap : Refs(h) \subseteq DOMAIN heap
    /\ \A k \in DOMAIN env : ContinuationHandles(k) \subseteq DOMAIN heap

\* What can be reached in the heap from the handles S.
Reachable(S) ==
    LET grow[n \in Nat] ==
            IF n = 0 THEN S \cap DOMAIN heap
            ELSE LET T == grow[n - 1] IN T \cup ((UNION {Refs(h) : h \in T}) \cap DOMAIN heap)
    IN  grow[Cardinality(DOMAIN heap)]

\* A collection leaves nothing but static objects and what can be reached from
\* the roots: no mark of an earlier collection keeps garbage.
GarbageIsFreed ==
    [][Collect => \E live \in {Reachable(GCRoots)} :
                    \A h \in DOMAIN heap' : heap[h].static \/ h \in live]_vars
=============================================================================
