--------------------------- MODULE CollectorProofs ---------------------------
(***************************************************************************)
(* No handle of a process dangles, and a collection frees all garbage.     *)
(*                                                                         *)
(* HeldIn(X) says that every handle the process holds, wherever it does,   *)
(* is one of X.  What an instruction holds afterwards it held before or    *)
(* got from the handle table, whatever X is: one lemma for each            *)
(* instruction.  With X = Handle this is the type invariant, and with X =  *)
(* DOMAIN heap it says that no handle dangles.                             *)
(*                                                                         *)
(* A collection is the step that takes handles out of X.  It keeps what is *)
(* a root, because every place that holds handles is one (RootsHeld), and  *)
(* what a survivor refers to, because nothing outside an isolated set      *)
(* refers into it (RefsSurvive).  Static objects survive without being     *)
(* visited.  Therefore they must not refer to others (StaticClosed), and   *)
(* no other object may have a mark left when a collection starts (Flags).  *)
(***************************************************************************)
EXTENDS Collector, FiniteSetTheorems, SequenceTheorems, TLAPS

\* Every handle the process holds, wherever it does, is one of X: ...
SlotOf(X) == X \cup {Nil}

\* ... in the registers and the stacks, ...
RegistersIn(X) ==
    closure \in SlotOf(X) /\ operands \in SUBSET X /\ fstack \in Seq(SlotOf(X))

\* ... in the registers of dynamic-wind, the wind under way, the string table
\* and the timers, ...
WindsIn(X) == [stack : SUBSET X, entry : SlotOf(X), thunk : SlotOf(X), afters : SUBSET X]

PendingIn(X) ==
    [cont : X, value : SlotOf(X), afters : SUBSET X, befores : SUBSET X]

SideIn(X) ==
    /\ strindex \in Seq(SUBSET X) /\ timers \in SUBSET X
    /\ winds \in WindsIn(X) /\ pending \in Seq(PendingIn(X))

\* ... and in the objects, with what continuations saved and what the entries
\* of dynamic-wind name.
ObjectIn(X) == [kind : Kind, parent : SlotOf(X), items : SUBSET X,
                static : BOOLEAN, keepalive : BOOLEAN, alive : BOOLEAN]

SavedIn(X) == [closure : SlotOf(X), operands : SUBSET X, fstack : Seq(SlotOf(X)),
               snapshot : X, entry : SlotOf(X), thunk : SlotOf(X), afters : SUBSET X]

EntryIn(X) == [before : X, after : X, saved : SlotOf(X)]

ObjectsIn(X) ==
    /\ \A h \in DOMAIN heap : heap[h] \in ObjectIn(X)
    /\ \A k \in DOMAIN env : env[k] \in SavedIn(X)
    /\ \A e \in DOMAIN entries : entries[e] \in EntryIn(X)

HeldIn(X) == RegistersIn(X) /\ SideIn(X) /\ ObjectsIn(X)

\* The handle table: handles given out in order, ...
Table ==
    /\ program \in Programs
    /\ next \in Handle /\ DOMAIN heap \subseteq 1 .. next - 1
    /\ DOMAIN env = {h \in DOMAIN heap : heap[h].kind = "continuation"}
    /\ DOMAIN entries \subseteq {h \in DOMAIN heap : heap[h].kind = "list"}
    /\ Cardinality(operands) <= program.operands

\* ... and what the collector goes by.
Flags ==
    /\ Literal \in DOMAIN heap /\ heap[Literal].static
    /\ \A h \in DOMAIN heap :
          /\ heap[h].alive => heap[h].static
          /\ heap[h].static => heap[h].kind = "list" /\ heap[h].parent = Nil /\ h \notin DOMAIN entries
    /\ \A c \in timers : c \in DOMAIN heap /\ heap[c].keepalive
    /\ \A k \in DOMAIN env : env[k].snapshot \in DOMAIN heap

\* The program leaves its literals alone, ...
Clean == "set literals" \notin program.uses

\* ... so that static objects refer to static objects only.
StaticClosed ==
    \A h \in DOMAIN heap : heap[h].static =>
        \A x \in heap[h].items : x \in DOMAIN heap /\ heap[x].static

\* The inductive invariant.
IInv ==
    /\ HeldIn(Handle) /\ Table /\ Flags
    /\ Clean => HeldIn(DOMAIN heap) /\ StaticClosed

-----------------------------------------------------------------------------
\* PopPush leaves handles that were there or are pushed.
LEMMA Pushed ==
    ASSUME NEW X, operands \in SUBSET X,
           NEW S, NEW S2 \in SUBSET SlotOf(X), PopPush(S, S2)
    PROVE  operands' \in SUBSET X /\ Cardinality(operands') <= program.operands
BY DEF PopPush, Handles, SlotOf

\* Enter keeps the closure it returns to.
LEMMA Entered ==
    ASSUME NEW X, RegistersIn(X), NEW c \in SlotOf(X), NEW tail \in BOOLEAN, Enter(c, tail)
    PROVE  closure' \in SlotOf(X) /\ fstack' \in Seq(SlotOf(X))
BY AppendProperties DEF Enter, RegistersIn

\* What a variable in scope is bound to is held.
LEMMA VisibleHeld ==
    ASSUME NEW X, HeldIn(X)
    PROVE  Chain \subseteq DOMAIN heap /\ Visible \subseteq X
<1>1. Chain \subseteq DOMAIN heap
  BY DEF Chain
<1> QED  BY <1>1 DEF Visible, HeldIn, ObjectsIn, ObjectIn

\* What is bound in a closure, or is in a list, is held.
LEMMA SlotsHeld ==
    ASSUME NEW X, HeldIn(X), NEW h
    PROVE  Slots(h) \subseteq SlotOf(X)
BY DEF Slots, HeldIn, ObjectsIn, ObjectIn, SlotOf

\* An instruction that leaves the objects alone.
Quiet ==
    /\ UNCHANGED <<program, heap, env, entries, next>>
    /\ timers' \subseteq timers
    /\ Cardinality(operands') <= program.operands

\* op_load and op_push push a handle the process holds, and do nothing else to
\* what it holds.
LEMMA LoadStep ==
    ASSUME NEW X, HeldIn(X), NEW h \in SlotOf(X), Load(h)
    PROVE  RegistersIn(X)' /\ SideIn(X)' /\ Quiet
<1>1. operands' \in SUBSET X /\ Cardinality(operands') <= program.operands
  BY Pushed DEF Load, HeldIn, RegistersIn
<1> QED  BY <1>1 DEF Load, sideVars, HeldIn, RegistersIn, SideIn, Quiet

\* op_call and op_tailcall enter a closure the process holds.
LEMMA CallStep ==
    ASSUME NEW X, HeldIn(X), Table, NEW c \in X, NEW tail \in BOOLEAN, CallClosure(c, tail)
    PROVE  RegistersIn(X)' /\ SideIn(X)' /\ Quiet
<1>1. closure' \in SlotOf(X) /\ fstack' \in Seq(SlotOf(X))
  BY Entered DEF CallClosure, HeldIn, SlotOf
<1> QED  BY <1>1 DEF CallClosure, sideVars, HeldIn, RegistersIn, SideIn, Quiet, Table

\* op_return goes back to a closure on the function stack.
LEMMA ReturnStep ==
    ASSUME NEW X, HeldIn(X), Table, Return
    PROVE  RegistersIn(X)' /\ SideIn(X)' /\ Quiet
<1>1. closure' \in SlotOf(X) /\ fstack' \in Seq(SlotOf(X))
  BY DEF Return, HeldIn, RegistersIn, Last, Front
<1> QED  BY <1>1 DEF Return, sideVars, HeldIn, RegistersIn, SideIn, Quiet, Table

\* op_car and op_get_item push what a list holds.
LEMMA GetItemStep ==
    ASSUME NEW X, HeldIn(X), NEW l, NEW v \in Slots(l), GetItem(l, v)
    PROVE  RegistersIn(X)' /\ SideIn(X)' /\ Quiet
<1>1. operands' \in SUBSET X /\ Cardinality(operands') <= program.operands
  BY Pushed, SlotsHeld DEF GetItem, HeldIn, RegistersIn
<1> QED  BY <1>1 DEF GetItem, sideVars, HeldIn, RegistersIn, SideIn, Quiet

\* am_process_make_wstring_handle pushes the handle it finds in the string table.
LEMMA FindStringStep ==
    ASSUME NEW X, HeldIn(X), NEW s \in Interned, FindString(s)
    PROVE  RegistersIn(X)' /\ SideIn(X)' /\ Quiet
<1>1. s \in X
  BY DEF HeldIn, SideIn, Interned, Range
<1>2. operands' \in SUBSET X /\ Cardinality(operands') <= program.operands
  BY <1>1, Pushed DEF FindString, HeldIn, RegistersIn, SlotOf
<1> QED  BY <1>2 DEF FindString, sideVars, HeldIn, RegistersIn, SideIn, Quiet

\* Restore takes handles from the continuation only.
LEMMA Restored ==
    ASSUME NEW X, HeldIn(X), NEW k \in DOMAIN env, NEW v \in SlotOf(X), Restore(k, v)
    PROVE  /\ RegistersIn(X)' /\ winds' \in WindsIn(X)
           /\ Cardinality(operands') <= program.operands
<1>1. env[k] \in SavedIn(X)
  BY DEF HeldIn, ObjectsIn
<1>2. RegistersIn(X)'
  BY <1>1 DEF Restore, RegistersIn, SavedIn, Handles, SlotOf
<1>3. winds' \in WindsIn(X)
  BY <1>1 DEF Restore, HeldIn, SideIn, WindsIn, SavedIn
<1> QED  BY <1>2, <1>3 DEF Restore

\* A continuation called where it was captured brings back what it saved.
LEMMA CallContinuationStep ==
    ASSUME NEW X, HeldIn(X), Table, NEW k, NEW v \in SlotOf(X), CallContinuation(k, v)
    PROVE  RegistersIn(X)' /\ SideIn(X)' /\ Quiet
<1>1. k \in DOMAIN env
  BY DEF CallContinuation, IsContinuation, IsKind, Table
<1>2. /\ RegistersIn(X)' /\ winds' \in WindsIn(X)
      /\ Cardinality(operands') <= program.operands
  BY <1>1, Restored DEF CallContinuation
<1> QED  BY <1>2 DEF CallContinuation, HeldIn, SideIn, Quiet

\* The entries to leave are on the dynamic-wind stack, those to enter in the
\* snapshot of it that the continuation has.
LEMMA StartWindStep ==
    ASSUME NEW X, HeldIn(X), Table, Flags, NEW k \in X, NEW v \in SlotOf(X),
           NEW tail \in BOOLEAN, StartWind(k, v, tail)
    PROVE  RegistersIn(X)' /\ SideIn(X)' /\ Quiet
<1>1. k \in DOMAIN env
  BY DEF StartWind, IsContinuation, IsKind, Table
<1>2. Target(k) \subseteq X
  BY <1>1 DEF Target, Flags, HeldIn, ObjectsIn, ObjectIn
<1>3. pending' \in Seq(PendingIn(X))
  BY <1>2 DEF StartWind, PendingIn, HeldIn, SideIn, WindsIn
<1>4. operands' \in SUBSET X /\ Cardinality(operands') <= program.operands
  BY Pushed DEF StartWind, HeldIn, RegistersIn
<1>5. closure' \in SlotOf(X) /\ fstack' \in Seq(SlotOf(X))
  BY Entered DEF StartWind, HeldIn, RegistersIn
<1> QED  BY <1>3, <1>4, <1>5 DEF StartWind, HeldIn, RegistersIn, SideIn, Quiet

\* op_wind takes an entry from the wind under way and calls what it names.
LEMMA WindOutStep ==
    ASSUME NEW X, HeldIn(X), Table, NEW w \in Range(pending), NEW e \in w.afters, WindOut(e)
    PROVE  RegistersIn(X)' /\ SideIn(X)' /\ Quiet
<1>1. 1 \in DOMAIN pending /\ pending[1] \in PendingIn(X)
  BY DEF HeldIn, SideIn, Range
<1>2. pending' \in Seq(PendingIn(X))
  BY <1>1, ExceptSeq DEF WindOut, PendingIn, HeldIn, SideIn
<1>3. entries[e] \in EntryIn(X)
  BY DEF WindOut, IsEntry, HeldIn, ObjectsIn
<1>4. closure' \in SlotOf(X) /\ fstack' \in Seq(SlotOf(X))
  BY <1>3, Entered DEF WindOut, EntryIn, HeldIn, SlotOf
<1>5. winds' \in WindsIn(X)
  BY DEF WindOut, HeldIn, SideIn, WindsIn
<1> QED  BY <1>2, <1>4, <1>5 DEF WindOut, HeldIn, RegistersIn, SideIn, Quiet, Table

\* op_wind enters an entry of the snapshot and calls its before.
LEMMA WindInStep ==
    ASSUME NEW X, HeldIn(X), Table, NEW w \in Range(pending), NEW e \in w.befores, WindIn(e)
    PROVE  RegistersIn(X)' /\ SideIn(X)' /\ Quiet
<1>1. 1 \in DOMAIN pending /\ pending[1] \in PendingIn(X) /\ w \in PendingIn(X)
  BY DEF HeldIn, SideIn, Range
<1>2. pending' \in Seq(PendingIn(X))
  BY <1>1, ExceptSeq DEF WindIn, PendingIn, HeldIn, SideIn
<1>3. entries[e] \in EntryIn(X)
  BY DEF WindIn, IsEntry, HeldIn, ObjectsIn
<1>4. closure' \in SlotOf(X) /\ fstack' \in Seq(SlotOf(X))
  BY <1>3, Entered DEF WindIn, EntryIn, HeldIn, SlotOf
<1>5. winds' \in WindsIn(X)
  BY <1>1 DEF WindIn, HeldIn, SideIn, WindsIn, PendingIn
<1> QED  BY <1>2, <1>4, <1>5 DEF WindIn, HeldIn, RegistersIn, SideIn, Quiet, Table

\* op_wind in the end brings back what the continuation saved.
LEMMA WindRestoreStep ==
    ASSUME NEW X, HeldIn(X), Table, WindRestore
    PROVE  RegistersIn(X)' /\ SideIn(X)' /\ Quiet
<1>1. pending[1] \in PendingIn(X)
  BY DEF WindRestore, HeldIn, SideIn
<1>2. pending[1].cont \in DOMAIN env
  BY DEF WindRestore, IsContinuation, IsKind, Table
<1>3. /\ RegistersIn(X)' /\ winds' \in WindsIn(X)
      /\ Cardinality(operands') <= program.operands
  BY <1>1, <1>2, Restored DEF WindRestore, PendingIn
<1>4. pending' \in Seq(PendingIn(X))
  BY DEF WindRestore
<1> QED  BY <1>3, <1>4 DEF WindRestore, HeldIn, SideIn, Quiet

\* op_dynamicwind_after_before moves the entry from its register to the stack.
LEMMA WindThunkStep ==
    ASSUME NEW X, HeldIn(X), Table, NEW V, WindThunk(V)
    PROVE  RegistersIn(X)' /\ SideIn(X)' /\ Quiet
<1>1. winds.thunk \in SlotOf(X)
  BY DEF HeldIn, SideIn, WindsIn
<1>2. closure' \in SlotOf(X) /\ fstack' \in Seq(SlotOf(X))
  BY <1>1, Entered DEF WindThunk, HeldIn
<1>3. operands' \in SUBSET X /\ Cardinality(operands') <= program.operands
  BY Pushed DEF WindThunk, HeldIn, RegistersIn
<1>4. winds.entry \in X
  <2>1. winds.entry \in DOMAIN entries
    BY DEF WindThunk, IsEntry
  <2>2. \A e \in DOMAIN entries : e # Nil
    BY DEF Table, Nil, Handle
  <2> QED  BY <2>1, <2>2 DEF HeldIn, SideIn, WindsIn, SlotOf
<1>5. winds' \in WindsIn(X)
  BY <1>4 DEF WindThunk, HeldIn, SideIn, WindsIn, SlotOf
<1> QED  BY <1>2, <1>3, <1>5 DEF WindThunk, HeldIn, RegistersIn, SideIn, Quiet

\* op_dynamicwind_done pushes the value the entry kept.
LEMMA WindDoneStep ==
    ASSUME NEW X, HeldIn(X), NEW e, NEW V, WindDone(e, V)
    PROVE  RegistersIn(X)' /\ SideIn(X)' /\ Quiet
<1>1. entries[e].saved \in SlotOf(X)
  BY DEF WindDone, IsEntry, HeldIn, ObjectsIn, EntryIn
<1>2. operands' \in SUBSET X /\ Cardinality(operands') <= program.operands
  BY <1>1, Pushed DEF WindDone, HeldIn, RegistersIn
<1>3. winds' \in WindsIn(X)
  BY DEF WindDone, HeldIn, SideIn, WindsIn
<1> QED  BY <1>2, <1>3 DEF WindDone, HeldIn, RegistersIn, SideIn, Quiet

\* am_runtime_call_async enters the callback of a timer.
LEMMA FireStep ==
    ASSUME NEW X, HeldIn(X), Table, NEW c \in timers, NEW r \in BOOLEAN, Fire(c, r)
    PROVE  RegistersIn(X)' /\ SideIn(X)' /\ Quiet
<1>1. closure' \in SlotOf(X) /\ fstack' \in Seq(SlotOf(X))
  BY Entered DEF Fire, HeldIn, SideIn, SlotOf
<1>2. timers' \subseteq timers
  BY DEF Fire
<1> QED  BY <1>1, <1>2 DEF Fire, HeldIn, RegistersIn, SideIn, Quiet, Table

\* System.clear_timeout forgets a callback.
LEMMA ClearTimerStep ==
    ASSUME NEW X, HeldIn(X), Table, NEW c, ClearTimer(c)
    PROVE  RegistersIn(X)' /\ SideIn(X)' /\ Quiet
BY DEF ClearTimer, regVars, HeldIn, RegistersIn, SideIn, Quiet, Table

-----------------------------------------------------------------------------
\* What no instruction does to the table: objects stay, with the flags the
\* collector goes by; new ones have no flags; a static object of a program
\* that leaves its literals alone gets no reference but to static ones.
Grows ==
    /\ UNCHANGED program /\ Cardinality(operands') <= program.operands
    /\ next' \in Handle /\ next <= next'
    /\ DOMAIN heap' = DOMAIN heap \cup next .. next' - 1
    /\ \A h \in DOMAIN heap :
          /\ heap'[h].kind = heap[h].kind /\ heap'[h].parent = heap[h].parent
          /\ heap'[h].static = heap[h].static /\ (heap'[h].alive => heap[h].alive)
          /\ Clean /\ heap[h].static => \A x \in heap'[h].items :
                x \in heap[h].items \/ (x \in operands /\ heap[x].static)
    /\ \A h \in next .. next' - 1 : ~heap'[h].static /\ ~heap'[h].alive
    /\ DOMAIN env' = {h \in DOMAIN heap' : heap'[h].kind = "continuation"}
    /\ DOMAIN entries' \subseteq {h \in DOMAIN heap' : heap'[h].kind = "list"}
    /\ DOMAIN entries' \subseteq DOMAIN entries \cup next .. next' - 1
    /\ \A c \in timers' : c \in DOMAIN heap' /\ heap'[c].keepalive
    /\ \A k \in DOMAIN env' : env'[k].snapshot \in DOMAIN heap'

\* What an instruction starts from: the objects are in X, and the handles it may
\* get from the handle table are too.
Given(X) ==
    /\ HeldIn(X) /\ Table /\ Flags
    /\ DOMAIN heap \subseteq X /\ {next, next + 1} \cap DOMAIN heap' \subseteq X

\* An instruction that leaves the objects alone leaves the table as Grows says.
LEMMA QuietGrows ==
    ASSUME NEW X, HeldIn(X), Table, Flags, RegistersIn(X)', SideIn(X)', Quiet
    PROVE  HeldIn(X)' /\ Grows
<1>1. ObjectsIn(X)'
  BY DEF Quiet, HeldIn, ObjectsIn
<1>2. next' = next /\ next .. next' - 1 = {}
  BY DEF Quiet, Table, Handle
<1>3. DOMAIN heap' = DOMAIN heap \cup next .. next' - 1
  BY <1>2 DEF Quiet
<1>4. next' \in Handle /\ next <= next'
  BY <1>2 DEF Table, Handle
<1>5. Grows
  <2>1. UNCHANGED program /\ Cardinality(operands') <= program.operands
    BY DEF Quiet
  <2>2. \A h \in DOMAIN heap :
          /\ heap'[h].kind = heap[h].kind /\ heap'[h].parent = heap[h].parent
          /\ heap'[h].static = heap[h].static /\ (heap'[h].alive => heap[h].alive)
    BY DEF Quiet
  <2>3. \A h \in DOMAIN heap : Clean /\ heap[h].static => \A x \in heap'[h].items :
                x \in heap[h].items \/ (x \in operands /\ heap[x].static)
    BY DEF Quiet
  <2>4. \A h \in next .. next' - 1 : ~heap'[h].static /\ ~heap'[h].alive
    BY <1>2, Zenon
  <2>5. DOMAIN env' = {h \in DOMAIN heap' : heap'[h].kind = "continuation"}
    BY DEF Quiet, Table
  <2>6. DOMAIN entries' \subseteq {h \in DOMAIN heap' : heap'[h].kind = "list"}
    BY DEF Quiet, Table
  <2>7. \A c \in timers' : c \in DOMAIN heap' /\ heap'[c].keepalive
    BY DEF Quiet, Flags
  <2>8. \A k \in DOMAIN env' : env'[k].snapshot \in DOMAIN heap'
    BY DEF Quiet, Flags
  <2>9. DOMAIN entries' \subseteq DOMAIN entries
    BY DEF Quiet
  <2> QED  BY <1>3, <1>4, <2>1, <2>2, <2>3, <2>4, <2>5, <2>6, <2>7, <2>8, <2>9 DEF Grows
<1> QED  BY <1>1, <1>5 DEF HeldIn

\* Bind adds one object to the table.
LEMMA BindGrows ==
    ASSUME NEW X, HeldIn(X), Table, Flags, next \in X,
           NEW o \in ObjectIn(X), ~o.static, ~o.alive, o.kind # "continuation",
           heap' = Bind(next, o), next' = next + 1, UNCHANGED <<program, env, entries>>,
           timers' = timers, Cardinality(operands') <= program.operands
    PROVE  ObjectsIn(X)' /\ Grows
<1>1. next .. next' - 1 = {next} /\ next' \in Handle /\ next <= next' /\ next \notin DOMAIN heap
  BY DEF Table, Handle, Nil
<1>2. /\ DOMAIN heap' = DOMAIN heap \cup {next} /\ heap'[next] = o
      /\ \A h \in DOMAIN heap : heap'[h] = heap[h]
  BY <1>1 DEF Bind
<1>3. ObjectsIn(X)'
  BY <1>2 DEF HeldIn, ObjectsIn
<1>4. Grows
  <2>1. DOMAIN env' = {h \in DOMAIN heap' : heap'[h].kind = "continuation"}
    BY <1>1, <1>2 DEF Table
  <2>2. DOMAIN entries' \subseteq {h \in DOMAIN heap' : heap'[h].kind = "list"}
    BY <1>1, <1>2 DEF Table
  <2>3. \A h \in next .. next' - 1 : ~heap'[h].static /\ ~heap'[h].alive
    BY <1>1, <1>2
  <2>4. \A c \in timers' : c \in DOMAIN heap' /\ heap'[c].keepalive
    BY <1>1, <1>2 DEF Flags
  <2>5. \A k \in DOMAIN env' : env'[k].snapshot \in DOMAIN heap'
    BY <1>1, <1>2 DEF Flags
  <2>6. UNCHANGED program /\ next' \in Handle /\ next <= next'
    BY <1>1
  <2>7. DOMAIN heap' = DOMAIN heap \cup next .. next' - 1
    BY <1>1, <1>2, Zenon
  <2>8. \A h \in DOMAIN heap :
          /\ heap'[h].kind = heap[h].kind /\ heap'[h].parent = heap[h].parent
          /\ heap'[h].static = heap[h].static /\ (heap'[h].alive => heap[h].alive)
          /\ Clean /\ heap[h].static => \A x \in heap'[h].items :
                x \in heap[h].items \/ (x \in operands /\ heap[x].static)
    BY <1>2
  <2>9. DOMAIN entries' \subseteq DOMAIN entries
    OBVIOUS
  <2> QED  BY <2>1, <2>2, <2>3, <2>4, <2>5, <2>6, <2>7, <2>8, <2>9 DEF Grows
<1> QED  BY <1>3, <1>4

\* PushNew adds one object and pushes its handle.
LEMMA PushNewGrows ==
    ASSUME NEW X, HeldIn(X), Table, Flags, {next, next + 1} \cap DOMAIN heap' \subseteq X,
           NEW o \in ObjectIn(X), ~o.static, ~o.alive, o.kind # "continuation",
           NEW S, PushNew(S, o), timers' = timers
    PROVE  RegistersIn(X)' /\ ObjectsIn(X)' /\ Grows /\ next \in X
<1>1. next \in X
  BY DEF PushNew, Bind
<1>2. operands' \in SUBSET X /\ Cardinality(operands') <= program.operands
  BY <1>1, Pushed DEF PushNew, HeldIn, RegistersIn, SlotOf
<1>3. ObjectsIn(X)' /\ Grows
  BY <1>1, <1>2, BindGrows DEF PushNew
<1> QED  BY <1>1, <1>2, <1>3 DEF PushNew, HeldIn, RegistersIn

\* op_load of code makes a closure that copies the bindings of the current one.
LEMMA LoadClosureStep ==
    ASSUME NEW X, Given(X), LoadClosure
    PROVE  HeldIn(X)' /\ Grows
<1>1. NewClosure \in ObjectIn(X) /\ ~NewClosure.static /\ ~NewClosure.alive /\ NewClosure.kind = "closure"
  BY DEF NewClosure, NewObject, IsClosure, IsKind, ObjectIn, Kind, Given, HeldIn, ObjectsIn, RegistersIn
<1>2. RegistersIn(X)' /\ ObjectsIn(X)' /\ Grows
  BY <1>1, PushNewGrows DEF LoadClosure, sideVars, Given
<1> QED  BY <1>2 DEF LoadClosure, sideVars, Given, HeldIn, SideIn

\* op_call of code by its address makes the closure, and enters it.
LEMMA CallCodeStep ==
    ASSUME NEW X, Given(X), NEW tail \in BOOLEAN, CallCode(tail)
    PROVE  HeldIn(X)' /\ Grows
<1>1. NewClosure \in ObjectIn(X) /\ ~NewClosure.static /\ ~NewClosure.alive /\ NewClosure.kind = "closure"
  BY DEF NewClosure, NewObject, IsClosure, IsKind, ObjectIn, Kind, Given, HeldIn, ObjectsIn, RegistersIn
<1>2. next \in X
  BY DEF CallCode, Bind, Given
<1>3. ObjectsIn(X)' /\ Grows
  BY <1>1, <1>2, BindGrows DEF CallCode, sideVars, Given, Table
<1>4. closure' \in SlotOf(X) /\ fstack' \in Seq(SlotOf(X))
  BY <1>2, Entered DEF CallCode, Given, HeldIn, SlotOf
<1> QED  BY <1>3, <1>4 DEF CallCode, sideVars, Given, HeldIn, RegistersIn, SideIn

\* op_concat makes a list of operands.
LEMMA ConcatStep ==
    ASSUME NEW X, Given(X), NEW S \in SUBSET operands, Concat(S)
    PROVE  HeldIn(X)' /\ Grows
<1> DEFINE o == NewObject("list", Nil, S)
<1>1. o \in ObjectIn(X) /\ ~o.static /\ ~o.alive /\ o.kind = "list"
  BY DEF NewObject, ObjectIn, Kind, SlotOf, Given, HeldIn, RegistersIn
<1>2. RegistersIn(X)' /\ ObjectsIn(X)' /\ Grows
  BY <1>1, PushNewGrows DEF Concat, sideVars, Given
<1> QED  BY <1>2 DEF Concat, sideVars, Given, HeldIn, SideIn

\* op_cons makes a list of another's elements and one operand.
LEMMA ListConsStep ==
    ASSUME NEW X, Given(X), NEW l, NEW v \in operands \cup {Nil}, ListCons(l, v)
    PROVE  HeldIn(X)' /\ Grows
<1> DEFINE o == NewObject("list", Nil, Handles(heap[l].items \cup {v}))
<1>1. heap[l] \in ObjectIn(X)
  BY DEF ListCons, IsList, IsKind, Given, HeldIn, ObjectsIn
<1>2. o \in ObjectIn(X) /\ ~o.static /\ ~o.alive /\ o.kind = "list"
  BY <1>1 DEF NewObject, Handles, ObjectIn, Kind, SlotOf, Given, HeldIn, RegistersIn
<1>3. RegistersIn(X)' /\ ObjectsIn(X)' /\ Grows
  BY <1>2, PushNewGrows DEF ListCons, sideVars, Given
<1> QED  BY <1>3 DEF ListCons, sideVars, Given, HeldIn, SideIn

\* op_cdr makes a list of another's elements.
LEMMA ListCdrStep ==
    ASSUME NEW X, Given(X), NEW l, NEW first, ListCdr(l, first)
    PROVE  HeldIn(X)' /\ Grows
<1> DEFINE o == NewObject("list", Nil, heap[l].items \ {first})
<1>1. heap[l] \in ObjectIn(X)
  BY DEF ListCdr, IsList, IsKind, Given, HeldIn, ObjectsIn
<1>2. o \in ObjectIn(X) /\ ~o.static /\ ~o.alive /\ o.kind = "list"
  BY <1>1 DEF NewObject, ObjectIn, Kind, SlotOf
<1>3. RegistersIn(X)' /\ ObjectsIn(X)' /\ Grows
  BY <1>2, PushNewGrows DEF ListCdr, sideVars, Given
<1> QED  BY <1>3 DEF ListCdr, sideVars, Given, HeldIn, SideIn

\* am_process_make_wstring_handle makes a string, and interns a short one.
LEMMA MakeStringStep ==
    ASSUME NEW X, Given(X), NEW short \in BOOLEAN, MakeString(short)
    PROVE  HeldIn(X)' /\ Grows
<1> DEFINE o == NewObject("string", Nil, {})
<1>1. o \in ObjectIn(X) /\ ~o.static /\ ~o.alive /\ o.kind = "string"
  BY DEF NewObject, ObjectIn, Kind, SlotOf
<1>2. RegistersIn(X)' /\ ObjectsIn(X)' /\ Grows /\ next \in X
  BY <1>1, PushNewGrows DEF MakeString, Given
<1>3. strindex' \in Seq(SUBSET X)
  <2>1. Interned \in SUBSET X
    BY DEF Interned, Range, Given, HeldIn, SideIn
  <2>2. <<Interned \cup {next}>> \in Seq(SUBSET X)
    BY <2>1, <1>2
  <2> QED  BY <2>2 DEF MakeString, Given, HeldIn, SideIn
<1> QED  BY <1>2, <1>3 DEF MakeString, Given, HeldIn, SideIn

\* Object o with other items.
WithItems(o, S) == [o EXCEPT !.items = S]

\* Instructions that change what is in objects.
LEMMA ItemsGrow ==
    ASSUME NEW X, HeldIn(X), Table, Flags,
           UNCHANGED <<program, env, entries, next>>, timers' = timers,
           Cardinality(operands') <= program.operands,
           DOMAIN heap' = DOMAIN heap,
           \A h \in DOMAIN heap : \E S \in SUBSET X :
              /\ heap'[h] = WithItems(heap[h], S)
              /\ Clean /\ heap[h].static => \A x \in S :
                    x \in heap[h].items \/ (x \in operands /\ heap[x].static)
    PROVE  ObjectsIn(X)' /\ Grows
<1>1. \A h \in DOMAIN heap : heap[h] \in ObjectIn(X)
  BY DEF HeldIn, ObjectsIn
<1>2. \A h \in DOMAIN heap :
          /\ heap'[h] \in ObjectIn(X)
          /\ heap'[h].kind = heap[h].kind /\ heap'[h].parent = heap[h].parent
          /\ heap'[h].static = heap[h].static /\ heap'[h].alive = heap[h].alive
          /\ heap'[h].keepalive = heap[h].keepalive
          /\ Clean /\ heap[h].static => \A x \in heap'[h].items :
                x \in heap[h].items \/ (x \in operands /\ heap[x].static)
  BY <1>1 DEF ObjectIn, WithItems
<1>3. ObjectsIn(X)'
  BY <1>2 DEF HeldIn, ObjectsIn
<1>4. next .. next' - 1 = {} /\ next' \in Handle /\ next <= next'
  BY DEF Table, Handle
<1>5. Grows
  <2>1. DOMAIN env' = {h \in DOMAIN heap' : heap'[h].kind = "continuation"}
    BY <1>2 DEF Table
  <2>2. DOMAIN entries' \subseteq {h \in DOMAIN heap' : heap'[h].kind = "list"}
    BY <1>2 DEF Table
  <2>3. \A h \in next .. next' - 1 : ~heap'[h].static /\ ~heap'[h].alive
    BY <1>4, Zenon
  <2>4. \A c \in timers' : c \in DOMAIN heap' /\ heap'[c].keepalive
    BY <1>2 DEF Flags
  <2>5. \A k \in DOMAIN env' : env'[k].snapshot \in DOMAIN heap'
    BY DEF Flags
  <2>6. UNCHANGED program /\ DOMAIN entries' \subseteq DOMAIN entries
    OBVIOUS
  <2>7. DOMAIN heap' = DOMAIN heap \cup next .. next' - 1
    BY <1>4, Zenon
  <2> QED  BY <1>2, <1>4, <2>1, <2>2, <2>3, <2>4, <2>5, <2>6, <2>7 DEF Grows
<1> QED  BY <1>3, <1>5

\* What Replaced puts into object h.
NewItems(h, old, v) == Handles((heap[h].items \ {old}) \cup {v})

\* A binding that is replaced leaves the other items and the new value.
LEMMA ReplacedItems ==
    ASSUME NEW X, HeldIn(X), NEW h \in DOMAIN heap, NEW old, NEW v \in SlotOf(X)
    PROVE  /\ NewItems(h, old, v) \in SUBSET X
           /\ NewItems(h, old, v) \subseteq heap[h].items \cup Handles({v})
BY DEF HeldIn, ObjectsIn, ObjectIn, Handles, SlotOf, NewItems

\* An object that is left alone keeps its items.
LEMMA SameItems ==
    ASSUME NEW X, HeldIn(X), NEW h \in DOMAIN heap
    PROVE  heap[h].items \in SUBSET X /\ heap[h] = WithItems(heap[h], heap[h].items)
BY DEF HeldIn, ObjectsIn, ObjectIn, WithItems

\* A closure is no literal, so that its variables can be bound to anything.
LEMMA BoundGrows ==
    ASSUME NEW X, HeldIn(X), Table, Flags,
           NEW h, NEW old, NEW v \in SlotOf(X),
           h \in DOMAIN heap, heap' = Replaced(h, old, v),
           Clean /\ heap[h].static => v = Nil \/ v \in heap[h].items \/ (v \in operands /\ heap[v].static),
           UNCHANGED <<program, env, entries, next>>, timers' = timers,
           Cardinality(operands') <= program.operands
    PROVE  ObjectsIn(X)' /\ Grows
<1>0. /\ DOMAIN Replaced(h, old, v) = DOMAIN heap
      /\ \A x \in DOMAIN heap \ {h} : Replaced(h, old, v)[x] = heap[x]
  BY DEF Replaced
<1>1. DOMAIN heap' = DOMAIN heap
  BY <1>0, Zenon
<1>2. ASSUME NEW g \in DOMAIN heap
      PROVE  \E S \in SUBSET X :
              /\ heap'[g] = WithItems(heap[g], S)
              /\ Clean /\ heap[g].static => \A x \in S :
                    x \in heap[g].items \/ (x \in operands /\ heap[x].static)
  <2>1. CASE g = h
    <3> DEFINE S == NewItems(h, old, v)
    <3>1. S \in SUBSET X /\ S \subseteq heap[h].items \cup Handles({v})
      BY ReplacedItems
    <3>2. heap'[h] = WithItems(heap[h], S)
      BY DEF Replaced, NewItems, WithItems
    <3> HIDE DEF S
    <3>3. Clean /\ heap[h].static => \A x \in S :
                    x \in heap[h].items \/ (x \in operands /\ heap[x].static)
      BY <3>1 DEF Handles
    <3> QED  BY <2>1, <3>1, <3>2, <3>3
  <2>2. CASE g # h
    <3>1. heap'[g] = heap[g]
      BY <1>0, <2>2, Zenon
    <3> QED  BY <3>1, SameItems
  <2> QED  BY <2>1, <2>2
<1> QED  BY <1>1, <1>2, ItemsGrow

\* op_store binds a variable in the current closure.
LEMMA StoreStep ==
    ASSUME NEW X, Given(X), NEW old, NEW v \in operands \cup {Nil}, Store(old, v)
    PROVE  HeldIn(X)' /\ Grows
<1>1. closure \in DOMAIN heap /\ heap[closure].kind = "closure" /\ v \in SlotOf(X)
  BY DEF Store, IsClosure, IsKind, Given, HeldIn, RegistersIn, SlotOf
<1>2. operands' \in SUBSET X /\ Cardinality(operands') <= program.operands
  BY Pushed DEF Store, Given, HeldIn, RegistersIn
<1>3. ~heap[closure].static
  BY <1>1 DEF Given, Flags
<1>4. ObjectsIn(X)' /\ Grows
  BY <1>1, <1>2, <1>3, BoundGrows DEF Store, Replace, sideVars, Given
<1> QED  BY <1>2, <1>4 DEF Store, sideVars, Given, HeldIn, RegistersIn, SideIn

\* op_set_item and op_list_push put an operand into a list; a program that
\* leaves its literals alone puts only static objects into static ones.
LEMMA SetItemStep ==
    ASSUME NEW X, Given(X), NEW l, NEW old, NEW v \in operands \cup {Nil}, SetItem(l, old, v)
    PROVE  HeldIn(X)' /\ Grows
<1>1. l \in DOMAIN heap /\ v \in SlotOf(X)
  BY DEF SetItem, IsList, IsKind, Given, HeldIn, RegistersIn, SlotOf
<1>2. operands' \in SUBSET X /\ Cardinality(operands') <= program.operands
  BY Pushed DEF SetItem, Given, HeldIn, RegistersIn
<1>3. Clean /\ heap[l].static => v = Nil \/ (v \in operands /\ heap[v].static)
  BY DEF SetItem, Clean
<1>4. ObjectsIn(X)' /\ Grows
  BY <1>1, <1>2, <1>3, BoundGrows DEF SetItem, Replace, sideVars, Given
<1> QED  BY <1>2, <1>4 DEF SetItem, sideVars, Given, HeldIn, RegistersIn, SideIn

\* op_list_pop takes an element out of a list.
LEMMA ListPopStep ==
    ASSUME NEW X, Given(X), NEW l, NEW v \in Slots(l), ListPop(l, v)
    PROVE  HeldIn(X)' /\ Grows
<1>1. l \in DOMAIN heap /\ v \in SlotOf(X) /\ Nil \in SlotOf(X)
  BY SlotsHeld DEF ListPop, IsList, IsKind, Given, SlotOf
<1>2. operands' \in SUBSET X /\ Cardinality(operands') <= program.operands
  BY <1>1, Pushed DEF ListPop, Given, HeldIn, RegistersIn
<1>3. ObjectsIn(X)' /\ Grows
  BY <1>1, <1>2, BoundGrows DEF ListPop, sideVars, Given
<1> QED  BY <1>2, <1>3 DEF ListPop, sideVars, Given, HeldIn, RegistersIn, SideIn

\* op_set binds a variable in the closure that defines it, and in the current
\* closure if that has a copy.
LEMMA SetStep ==
    ASSUME NEW X, Given(X), NEW c, NEW old, NEW copy, NEW v \in operands \cup {Nil},
           Set(c, old, copy, v)
    PROVE  HeldIn(X)' /\ Grows
<1>0. HeldIn(X)
  BY DEF Given
<1>1. /\ closure \in DOMAIN heap /\ heap[closure].kind = "closure"
      /\ c \in DOMAIN heap /\ heap[c].kind = "closure" /\ v \in SlotOf(X)
  BY DEF Set, IsClosure, IsKind, Given, HeldIn, RegistersIn, SlotOf
<1>2. operands' \in SUBSET X /\ Cardinality(operands') <= program.operands
  BY Pushed DEF Set, Given, HeldIn, RegistersIn
<1>3. ~heap[closure].static /\ ~heap[c].static
  BY <1>1 DEF Given, Flags
<1>4. DOMAIN heap' = DOMAIN heap
  BY DEF Set
<1>5. ASSUME NEW g \in DOMAIN heap
      PROVE  \E S \in SUBSET X :
              /\ heap'[g] = WithItems(heap[g], S)
              /\ Clean /\ heap[g].static => \A x \in S :
                    x \in heap[g].items \/ (x \in operands /\ heap[x].static)
  <2>1. CASE g = c
    <3>1. heap'[g] = Replaced(c, old, v)[c]
      BY <2>1 DEF Set
    <3>2. Replaced(c, old, v)[c] = WithItems(heap[c], NewItems(c, old, v))
      BY <1>1 DEF Replaced, NewItems, WithItems
    <3>3. NewItems(c, old, v) \in SUBSET X
      BY <1>0, <1>1, ReplacedItems
    <3> QED  BY <2>1, <1>3, <3>1, <3>2, <3>3
  <2>2. CASE g = closure /\ g # c /\ copy # <<>>
    <3>1. heap'[g] = Replaced(closure, copy[1], v)[closure]
      BY <2>2 DEF Set
    <3>2. Replaced(closure, copy[1], v)[closure] = WithItems(heap[closure], NewItems(closure, copy[1], v))
      BY <1>1 DEF Replaced, NewItems, WithItems
    <3>3. NewItems(closure, copy[1], v) \in SUBSET X
      BY <1>0, <1>1, ReplacedItems
    <3> QED  BY <2>2, <1>3, <3>1, <3>2, <3>3
  <2>3. CASE g # c /\ ~(g = closure /\ copy # <<>>)
    <3>1. heap'[g] = heap[g]
      BY <2>3 DEF Set
    <3> QED  BY <3>1, SameItems DEF Given
  <2> QED  BY <2>1, <2>2, <2>3
<1>6. ObjectsIn(X)' /\ Grows
  BY <1>2, <1>4, <1>5, ItemsGrow DEF Set, sideVars, Given
<1> QED  BY <1>2, <1>6 DEF Set, sideVars, Given, HeldIn, RegistersIn, SideIn

\* op_dynamicwind_before_after keeps the value of the thunk in the entry.
LEMMA WindAfterStep ==
    ASSUME NEW X, Given(X), NEW e \in winds.stack, NEW v \in operands \cup {Nil}, WindAfter(e, v)
    PROVE  HeldIn(X)' /\ Grows
<1>1. v \in SlotOf(X) /\ e \in X
  BY DEF Given, HeldIn, RegistersIn, SideIn, WindsIn, SlotOf
<1>2. operands' \in SUBSET X /\ Cardinality(operands') <= program.operands
  BY Pushed DEF WindAfter, Given, HeldIn, RegistersIn
<1>3. entries[e] \in EntryIn(X)
  BY DEF WindAfter, IsEntry, Given, HeldIn, ObjectsIn
<1>4. closure' \in SlotOf(X) /\ fstack' \in Seq(SlotOf(X))
  BY <1>3, Entered DEF WindAfter, EntryIn, Given, HeldIn, SlotOf
<1>5. winds' \in WindsIn(X)
  BY <1>1 DEF WindAfter, Given, HeldIn, SideIn, WindsIn, SlotOf
<1>6. DOMAIN entries' = DOMAIN entries /\ \A x \in DOMAIN entries : entries'[x] \in EntryIn(X)
  BY <1>1, <1>3 DEF WindAfter, Given, HeldIn, ObjectsIn, EntryIn
<1>7. ObjectsIn(X)'
  BY <1>6 DEF WindAfter, Given, HeldIn, ObjectsIn
<1>8. next .. next' - 1 = {} /\ next' \in Handle /\ next <= next'
  BY DEF WindAfter, Table, Handle, Given
<1>9. Grows
  <2>1. UNCHANGED <<program, heap, env, next>> /\ timers' = timers
    BY DEF WindAfter
  <2>2. DOMAIN env' = {h \in DOMAIN heap' : heap'[h].kind = "continuation"}
    BY <2>1 DEF Table, Given
  <2>3. DOMAIN entries' \subseteq {h \in DOMAIN heap' : heap'[h].kind = "list"}
    BY <1>6, <2>1 DEF Table, Given
  <2>4. \A h \in next .. next' - 1 : ~heap'[h].static /\ ~heap'[h].alive
    BY <1>8, Zenon
  <2>5. \A t \in timers' : t \in DOMAIN heap' /\ heap'[t].keepalive
    BY <2>1 DEF Flags, Given
  <2>6. \A k \in DOMAIN env' : env'[k].snapshot \in DOMAIN heap'
    BY <2>1 DEF Flags, Given
  <2>7. DOMAIN heap' = DOMAIN heap \cup next .. next' - 1
    BY <1>8, <2>1, Zenon
  <2> QED  BY <1>2, <1>6, <1>8, <2>1, <2>2, <2>3, <2>4, <2>5, <2>6, <2>7 DEF Grows
<1> QED  BY <1>2, <1>4, <1>5, <1>7, <1>9 DEF WindAfter, Given, HeldIn, RegistersIn, SideIn

\* The entry of a dynamic-wind is a new list that names its closures.
LEMMA DynamicWindStep ==
    ASSUME NEW X, Given(X), NEW b \in operands, NEW t \in operands, NEW a \in operands,
           DynamicWind(b, t, a)
    PROVE  HeldIn(X)' /\ Grows
<1> DEFINE o == NewObject("list", Nil, {})
<1>1. o \in ObjectIn(X) /\ ~o.static /\ ~o.alive /\ o.kind = "list"
  BY DEF NewObject, ObjectIn, Kind, SlotOf
<1>2. b \in X /\ t \in X /\ a \in X /\ next \in X
  BY DEF DynamicWind, Bind, Given, HeldIn, RegistersIn
<1>3. operands' \in SUBSET X /\ Cardinality(operands') <= program.operands
  BY Pushed DEF DynamicWind, Given, HeldIn, RegistersIn
<1>4. closure' \in SlotOf(X) /\ fstack' \in Seq(SlotOf(X))
  BY <1>2, Entered DEF DynamicWind, Given, HeldIn, SlotOf
<1>5. winds' \in WindsIn(X)
  BY <1>2 DEF DynamicWind, Given, HeldIn, SideIn, WindsIn, SlotOf
<1>6. next .. next' - 1 = {next} /\ next' \in Handle /\ next <= next' /\ next \notin DOMAIN heap
  BY DEF DynamicWind, Table, Handle, Nil, Given
<1>7. /\ DOMAIN heap' = DOMAIN heap \cup {next} /\ heap'[next] = o
      /\ \A h \in DOMAIN heap : heap'[h] = heap[h]
  BY <1>6 DEF DynamicWind, Bind
<1>8. DOMAIN entries' = DOMAIN entries \cup {next} /\ \A x \in DOMAIN entries' : entries'[x] \in EntryIn(X)
  BY <1>2 DEF DynamicWind, Given, HeldIn, ObjectsIn, EntryIn, SlotOf
<1>9. UNCHANGED <<program, env>> /\ timers' = timers
  BY DEF DynamicWind
<1>10. ObjectsIn(X)'
  BY <1>1, <1>7, <1>8, <1>9 DEF Given, HeldIn, ObjectsIn
<1>11. Grows
  <2>1. DOMAIN env' = {h \in DOMAIN heap' : heap'[h].kind = "continuation"}
    BY <1>1, <1>7, <1>9 DEF Table, Given
  <2>2. DOMAIN entries' \subseteq {h \in DOMAIN heap' : heap'[h].kind = "list"}
    BY <1>1, <1>7, <1>8 DEF Table, Given
  <2>3. \A h \in next .. next' - 1 : ~heap'[h].static /\ ~heap'[h].alive
    BY <1>1, <1>6, <1>7
  <2>4. \A c \in timers' : c \in DOMAIN heap' /\ heap'[c].keepalive
    BY <1>7, <1>9 DEF Flags, Given
  <2>5. \A k \in DOMAIN env' : env'[k].snapshot \in DOMAIN heap'
    BY <1>7, <1>9 DEF Flags, Given
  <2>6. DOMAIN heap' = DOMAIN heap \cup next .. next' - 1
    BY <1>6, <1>7, Zenon
  <2>7. DOMAIN entries' \subseteq DOMAIN entries \cup next .. next' - 1
    BY <1>6, <1>8, Zenon
  <2> QED  BY <1>3, <1>6, <1>7, <1>9, <2>1, <2>2, <2>3, <2>4, <2>5, <2>6, <2>7 DEF Grows
<1> QED  BY <1>3, <1>4, <1>5, <1>10, <1>11 DEF DynamicWind, Given, HeldIn, RegistersIn, SideIn

\* The snapshot holds what the dynamic-wind stack does, the continuation what
\* the registers do.
LEMMA CaptureStep ==
    ASSUME NEW X, Given(X), NEW old, Capture(old)
    PROVE  HeldIn(X)' /\ Grows
<1> DEFINE snapshot == next
           k == next + 1
           o == NewObject("list", Nil, winds.stack)
           c == NewObject("continuation", Nil, {})
<1>1. /\ snapshot \in Handle /\ k \in Handle /\ snapshot # k /\ next' \in Handle /\ next <= next'
      /\ next .. next' - 1 = {snapshot, k}
      /\ snapshot \notin DOMAIN heap /\ k \notin DOMAIN heap
  BY DEF Capture, Table, Handle, Nil, Given
<1>2. snapshot \in X /\ k \in X
  BY DEF Capture, Given
<1>3. closure \in DOMAIN heap /\ heap[closure].kind = "closure" /\ ~heap[closure].static
  BY DEF Capture, IsClosure, IsKind, Given, Flags
<1>4. o \in ObjectIn(X) /\ ~o.static /\ ~o.alive /\ o.kind = "list"
  BY DEF NewObject, ObjectIn, Kind, SlotOf, Given, HeldIn, SideIn, WindsIn
<1>5. c \in ObjectIn(X) /\ ~c.static /\ ~c.alive /\ c.kind = "continuation"
  BY DEF NewObject, ObjectIn, Kind, SlotOf
<1> HIDE DEF snapshot, k, o, c
<1>6. /\ DOMAIN heap' = DOMAIN heap \cup {snapshot, k}
      /\ heap'[snapshot] = o
      /\ heap'[k] = c
  BY <1>1 DEF Capture, snapshot, k, o, c
<1>7. \A h \in DOMAIN heap : heap'[h] = Replaced(closure, old, k)[h]
  BY <1>1 DEF Capture, snapshot, k
<1>8. \A h \in DOMAIN heap \ {closure} : heap'[h] = heap[h]
  BY <1>7 DEF Replaced
<1> DEFINE S == NewItems(closure, old, k)
<1>9. heap'[closure] = WithItems(heap[closure], S) /\ S \in SUBSET X
  <2>1. Replaced(closure, old, k)[closure] = WithItems(heap[closure], S)
    BY <1>3 DEF Replaced, NewItems, WithItems
  <2>2. HeldIn(X) /\ k \in SlotOf(X)
    BY <1>2 DEF Given, SlotOf
  <2>3. S \in SUBSET X
    BY <1>3, <2>2, ReplacedItems
  <2> QED  BY <1>3, <1>7, <2>1, <2>3
<1> HIDE DEF S
<1>10. \A h \in DOMAIN heap :
          /\ heap'[h] \in ObjectIn(X)
          /\ heap'[h].kind = heap[h].kind /\ heap'[h].parent = heap[h].parent
          /\ heap'[h].static = heap[h].static /\ heap'[h].alive = heap[h].alive
          /\ heap'[h].keepalive = heap[h].keepalive
  <2>1. \A h \in DOMAIN heap : heap[h] \in ObjectIn(X)
    BY DEF Given, HeldIn, ObjectsIn
  <2> QED  BY <1>3, <1>8, <1>9, <2>1 DEF ObjectIn, WithItems
<1>11. \A h \in DOMAIN heap : heap[h].static => heap'[h].items = heap[h].items
  BY <1>3, <1>8
<1>12. DOMAIN env' = DOMAIN env \cup {k} /\ \A x \in DOMAIN env \ {k} : env'[x] = env[x]
  BY DEF Capture, k
<1>13. env'[k] \in SavedIn(X) /\ env'[k].snapshot = snapshot
  BY <1>2 DEF Capture, k, snapshot, SavedIn, Given, HeldIn, RegistersIn, SideIn, WindsIn
<1>14. UNCHANGED <<program, entries, regVars, sideVars>>
  BY DEF Capture
<1>15. ObjectsIn(X)'
  BY <1>4, <1>5, <1>6, <1>10, <1>12, <1>13, <1>14 DEF ObjectsIn, Given, HeldIn
<1>16. Grows
  <2>1. DOMAIN env' = {h \in DOMAIN heap' : heap'[h].kind = "continuation"}
    BY <1>1, <1>4, <1>5, <1>6, <1>10, <1>12 DEF Table, Given
  <2>2. DOMAIN entries' \subseteq {h \in DOMAIN heap' : heap'[h].kind = "list"}
    BY <1>6, <1>10, <1>14 DEF Table, Given
  <2>3. \A h \in next .. next' - 1 : ~heap'[h].static /\ ~heap'[h].alive
    BY <1>1, <1>4, <1>5, <1>6
  <2>4. \A t \in timers' : t \in DOMAIN heap' /\ heap'[t].keepalive
    BY <1>6, <1>10, <1>14 DEF Flags, Given, sideVars
  <2>5. \A x \in DOMAIN env' : env'[x].snapshot \in DOMAIN heap'
    BY <1>6, <1>12, <1>13 DEF Flags, Given
  <2>6. DOMAIN heap' = DOMAIN heap \cup next .. next' - 1
    BY <1>1, <1>6, Zenon
  <2>7. UNCHANGED program /\ DOMAIN entries' \subseteq DOMAIN entries
    BY <1>14
  <2>8. Cardinality(operands') <= program.operands
    BY <1>14 DEF regVars, Table, Given
  <2> QED  BY <1>1, <1>10, <1>11, <2>1, <2>2, <2>3, <2>4, <2>5, <2>6, <2>7, <2>8 DEF Grows
<1> QED  BY <1>14, <1>15, <1>16 DEF regVars, sideVars, Given, HeldIn, RegistersIn, SideIn

\* A timer's closure gets the keepalive bit.
LEMMA SetTimerStep ==
    ASSUME NEW X, Given(X), NEW c \in operands, SetTimer(c)
    PROVE  HeldIn(X)' /\ Grows
<1>1. c \in X /\ c \in DOMAIN heap
  BY DEF SetTimer, IsClosure, IsKind, Given, HeldIn, RegistersIn
<1>2. operands' \in SUBSET X /\ Cardinality(operands') <= program.operands
  BY Pushed DEF SetTimer, Given, HeldIn, RegistersIn
<1>3. \A h \in DOMAIN heap : heap[h] \in ObjectIn(X)
  BY DEF Given, HeldIn, ObjectsIn
<1>4. DOMAIN heap' = DOMAIN heap
  BY DEF SetTimer
<1>5. \A h \in DOMAIN heap :
          /\ heap'[h] \in ObjectIn(X)
          /\ heap'[h].kind = heap[h].kind /\ heap'[h].parent = heap[h].parent
          /\ heap'[h].static = heap[h].static /\ heap'[h].alive = heap[h].alive
          /\ heap'[h].items = heap[h].items
          /\ h = c \/ heap[h].keepalive => heap'[h].keepalive
  BY <1>3 DEF SetTimer, ObjectIn
<1>6. UNCHANGED <<program, env, entries, next>> /\ timers' = timers \cup {c}
  BY DEF SetTimer
<1>7. ObjectsIn(X)'
  BY <1>4, <1>5, <1>6 DEF Given, HeldIn, ObjectsIn
<1>8. next .. next' - 1 = {} /\ next' \in Handle /\ next <= next'
  BY <1>6 DEF Table, Handle, Given
<1>9. Grows
  <2>1. DOMAIN env' = {h \in DOMAIN heap' : heap'[h].kind = "continuation"}
    BY <1>4, <1>5, <1>6 DEF Table, Given
  <2>2. DOMAIN entries' \subseteq {h \in DOMAIN heap' : heap'[h].kind = "list"}
    BY <1>4, <1>5, <1>6 DEF Table, Given
  <2>3. \A h \in next .. next' - 1 : ~heap'[h].static /\ ~heap'[h].alive
    BY <1>8, Zenon
  <2>4. \A t \in timers' : t \in DOMAIN heap' /\ heap'[t].keepalive
    BY <1>1, <1>4, <1>5, <1>6 DEF Flags, Given
  <2>5. \A k \in DOMAIN env' : env'[k].snapshot \in DOMAIN heap'
    BY <1>4, <1>6 DEF Flags, Given
  <2>6. DOMAIN heap' = DOMAIN heap \cup next .. next' - 1
    BY <1>4, <1>8, Zenon
  <2>7. UNCHANGED program /\ DOMAIN entries' \subseteq DOMAIN entries
    BY <1>6
  <2> QED  BY <1>2, <1>5, <1>8, <2>1, <2>2, <2>3, <2>4, <2>5, <2>6, <2>7 DEF Grows
<1>10. SideIn(X)'
  BY <1>1 DEF SetTimer, Given, HeldIn, SideIn
<1> QED  BY <1>2, <1>7, <1>9, <1>10 DEF SetTimer, Given, HeldIn, RegistersIn

\* The child of a fork has the objects of its parent.
LEMMA ForkStep ==
    ASSUME NEW X, Given(X), Fork
    PROVE  HeldIn(X)' /\ Grows
<1>1. \A h \in DOMAIN heap : heap[h] \in ObjectIn(X)
  BY DEF Given, HeldIn, ObjectsIn
<1>2. \A h \in DOMAIN heap :
          /\ heap[h].alive => heap[h].static
          /\ heap[h].static => heap[h].kind = "list"
  BY DEF Given, Flags
<1>3. DOMAIN heap' = DOMAIN heap /\ \A h \in DOMAIN heap : heap'[h] = Copied(heap[h])
  BY DEF Fork
<1>4. \A h \in DOMAIN heap :
          /\ heap'[h] \in ObjectIn(X)
          /\ heap'[h].kind = heap[h].kind /\ heap'[h].parent = heap[h].parent
          /\ heap'[h].static = heap[h].static /\ (heap'[h].alive => heap[h].alive)
          /\ heap'[h].items = heap[h].items
  <2> SUFFICES ASSUME NEW h \in DOMAIN heap
               PROVE  /\ heap'[h] \in ObjectIn(X)
                      /\ heap'[h].kind = heap[h].kind /\ heap'[h].parent = heap[h].parent
                      /\ heap'[h].static = heap[h].static /\ (heap'[h].alive => heap[h].alive)
                      /\ heap'[h].items = heap[h].items
    OBVIOUS
  <2>1. CASE heap[h].kind = "closure"
    <3>1. heap'[h] = NewObject("closure", heap[h].parent, heap[h].items)
      BY <1>3, <2>1 DEF Copied
    <3>2. heap[h] \in ObjectIn(X) /\ heap[h].static = FALSE
      BY <1>1, <1>2, <2>1 DEF ObjectIn
    <3>3. heap[h].parent \in SlotOf(X) /\ heap[h].items \in SUBSET X
      BY <3>2 DEF ObjectIn
    <3>4. heap'[h] \in ObjectIn(X)
      BY <3>1, <3>3 DEF NewObject, ObjectIn, Kind
    <3>5. /\ heap'[h].kind = "closure" /\ heap'[h].parent = heap[h].parent
          /\ heap'[h].static = FALSE /\ heap'[h].alive = FALSE
          /\ heap'[h].items = heap[h].items
      BY <3>1 DEF NewObject
    <3> QED  BY <2>1, <3>2, <3>4, <3>5
  <2>2. CASE heap[h].kind # "closure"
    <3>1. heap'[h] = heap[h]
      BY <1>3, <2>2 DEF Copied
    <3> QED  BY <1>1, <3>1
  <2> QED  BY <2>1, <2>2
<1>5. DOMAIN env' = DOMAIN env /\ \A k \in DOMAIN env : env'[k] = CopiedEnv(k)
  BY DEF Fork
<1>6. \A k \in DOMAIN env : env'[k] \in SavedIn(X) /\ env'[k].snapshot = env[k].snapshot
  <2>1. \A k \in DOMAIN env : env[k] \in SavedIn(X)
    BY DEF Given, HeldIn, ObjectsIn
  <2> SUFFICES ASSUME NEW k \in DOMAIN env
               PROVE  CopiedEnv(k) \in SavedIn(X) /\ CopiedEnv(k).snapshot = env[k].snapshot
    BY <1>5, Zenon
  <2>2. PICK saved \in SavedIn(X) : saved = env[k]
    BY <2>1
  <2>3. [saved EXCEPT !.entry = Nil, !.thunk = Nil, !.afters = {}] \in SavedIn(X)
    BY DEF SavedIn, SlotOf
  <2>4. [saved EXCEPT !.entry = Nil, !.thunk = Nil, !.afters = {}].snapshot = saved.snapshot
    BY DEF SavedIn
  <2> QED  BY <2>2, <2>3, <2>4, Zenon DEF CopiedEnv
<1>7. UNCHANGED <<program, entries, next, regVars>> /\ timers' = {}
  BY DEF Fork
<1>8. ObjectsIn(X)'
  BY <1>3, <1>4, <1>5, <1>6, <1>7 DEF Given, HeldIn, ObjectsIn
<1>9. next .. next' - 1 = {} /\ next' \in Handle /\ next <= next'
  BY <1>7 DEF Table, Handle, Given
<1>10. Grows
  <2>1. DOMAIN env' = {h \in DOMAIN heap' : heap'[h].kind = "continuation"}
    BY <1>3, <1>4, <1>5 DEF Table, Given
  <2>2. DOMAIN entries' \subseteq {h \in DOMAIN heap' : heap'[h].kind = "list"}
    BY <1>3, <1>4, <1>7 DEF Table, Given
  <2>3. \A h \in next .. next' - 1 : ~heap'[h].static /\ ~heap'[h].alive
    BY <1>9, Zenon
  <2>4. \A t \in timers' : t \in DOMAIN heap' /\ heap'[t].keepalive
    BY <1>7
  <2>5. \A k \in DOMAIN env' : env'[k].snapshot \in DOMAIN heap'
    BY <1>3, <1>5, <1>6 DEF Flags, Given
  <2>6. DOMAIN heap' = DOMAIN heap \cup next .. next' - 1
    BY <1>3, <1>9, Zenon
  <2>7. UNCHANGED program /\ DOMAIN entries' \subseteq DOMAIN entries
    BY <1>7
  <2>8. Cardinality(operands') <= program.operands
    BY <1>7 DEF regVars, Table, Given
  <2> QED  BY <1>4, <1>9, <2>1, <2>2, <2>3, <2>4, <2>5, <2>6, <2>7, <2>8 DEF Grows
<1>11. SideIn(X)'
  <2>1. winds' \in WindsIn(X)
    BY DEF Fork, Given, HeldIn, SideIn, WindsIn, SlotOf
  <2> QED  BY <2>1, <1>7 DEF Fork, SideIn
<1> QED  BY <1>7, <1>8, <1>10, <1>11 DEF regVars, Given, HeldIn, RegistersIn

-----------------------------------------------------------------------------
(* Every instruction *)

\* An instruction that leaves the objects alone, from what it is given.
LEMMA QuietStep ==
    ASSUME NEW X, Given(X), RegistersIn(X)', SideIn(X)', Quiet
    PROVE  HeldIn(X)' /\ Grows
BY QuietGrows DEF Given

\* The instructions on variables, closures and calls ...
LEMMA ClosureInstructionStep ==
    ASSUME NEW X, Given(X), ClosureInstruction
    PROVE  HeldIn(X)' /\ Grows
<1>1. HeldIn(X) /\ Table /\ Flags /\ Visible \subseteq X /\ Literal \in X
  BY VisibleHeld DEF Given, Flags
<1>2. \A h : Slots(h) \subseteq SlotOf(X)
  BY <1>1, SlotsHeld
<1>3. CASE LoadClosure
  BY <1>3, LoadClosureStep
<1>4. CASE Return
  BY <1>1, <1>4, ReturnStep, QuietStep
<1>5. ASSUME NEW h \in Visible \cup {Literal}, Load(h)
      PROVE  HeldIn(X)' /\ Grows
  <2>1. h \in SlotOf(X)
    BY <1>1 DEF SlotOf
  <2> QED  BY <1>1, <1>5, <2>1, LoadStep, QuietStep
<1>6. ASSUME NEW v \in operands \cup {Nil}, NEW old \in Slots(closure), Store(old, v)
      PROVE  HeldIn(X)' /\ Grows
  BY <1>6, StoreStep
<1>7. ASSUME NEW v \in operands \cup {Nil}, NEW c \in Chain,
             NEW copy \in {<<>>} \cup {<<x>> : x \in Slots(closure)},
             NEW old \in Slots(c), Set(c, old, copy, v)
      PROVE  HeldIn(X)' /\ Grows
  BY <1>7, SetStep
<1>8. ASSUME NEW tail \in BOOLEAN, CallCode(tail)
      PROVE  HeldIn(X)' /\ Grows
  BY <1>8, CallCodeStep
<1>9. ASSUME NEW tail \in BOOLEAN, NEW c \in Visible, CallClosure(c, tail)
      PROVE  HeldIn(X)' /\ Grows
  <2>1. c \in X
    BY <1>1
  <2> QED  BY <1>1, <1>9, <2>1, CallStep, QuietStep
<1> QED
  BY <1>3, <1>4, <1>5, <1>6, <1>7, <1>8, <1>9 DEF ClosureInstruction

\* ... on lists, ...
LEMMA ListInstructionStep ==
    ASSUME NEW X, Given(X),
           ListInstruction \/ (\E S \in SUBSET operands : Concat(S))
    PROVE  HeldIn(X)' /\ Grows
<1>1. HeldIn(X)
  BY DEF Given
<1>2. ASSUME NEW l \in operands, NEW v \in Slots(l),
             GetItem(l, v) \/ ListPop(l, v) \/ ListCdr(l, v)
      PROVE  HeldIn(X)' /\ Grows
  BY <1>1, <1>2, GetItemStep, QuietStep, ListPopStep, ListCdrStep
<1>3. ASSUME NEW l \in operands, NEW v \in operands \cup {Nil},
             ListCons(l, v) \/ (\E old \in Slots(l) : SetItem(l, old, v))
      PROVE  HeldIn(X)' /\ Grows
  BY <1>3, ListConsStep, SetItemStep
<1>4. ASSUME NEW S \in SUBSET operands, Concat(S)
      PROVE  HeldIn(X)' /\ Grows
  BY <1>4, ConcatStep
<1> QED  BY <1>2, <1>3, <1>4 DEF ListInstruction

\* ... on strings, ...
LEMMA StringInstructionStep ==
    ASSUME NEW X, Given(X), StringInstruction
    PROVE  HeldIn(X)' /\ Grows
<1>1. HeldIn(X)
  BY DEF Given
<1> QED  BY <1>1, MakeStringStep, FindStringStep, QuietStep DEF StringInstruction

\* ... on continuations, ...
LEMMA ContinuationInstructionStep ==
    ASSUME NEW X, Given(X), ContinuationInstruction
    PROVE  HeldIn(X)' /\ Grows
<1>1. HeldIn(X) /\ Table /\ Flags /\ Visible \subseteq X
  BY VisibleHeld DEF Given
<1>2. operands \cup {Nil} \subseteq SlotOf(X)
  BY <1>1 DEF HeldIn, RegistersIn, SlotOf
<1>3. ASSUME NEW old \in Slots(closure), Capture(old)
      PROVE  HeldIn(X)' /\ Grows
  BY <1>3, CaptureStep
<1>4. ASSUME NEW k \in Visible, NEW v \in operands \cup {Nil}, CallContinuation(k, v)
      PROVE  HeldIn(X)' /\ Grows
  <2>1. v \in SlotOf(X)
    BY <1>2
  <2> QED  BY <1>1, <1>4, <2>1, CallContinuationStep, QuietStep
<1>5. ASSUME NEW k \in Visible, NEW v \in operands \cup {Nil}, NEW tail \in BOOLEAN,
             StartWind(k, v, tail)
      PROVE  HeldIn(X)' /\ Grows
  <2>1. v \in SlotOf(X) /\ k \in X
    BY <1>1, <1>2
  <2> QED  BY <1>1, <1>5, <2>1, StartWindStep, QuietStep
<1>6. CASE WindRestore
  BY <1>1, <1>6, WindRestoreStep, QuietStep
<1>7. ASSUME NEW w \in Range(pending), NEW e \in w.afters, WindOut(e)
      PROVE  HeldIn(X)' /\ Grows
  BY <1>1, <1>7, WindOutStep, QuietStep
<1>8. ASSUME NEW w \in Range(pending), NEW e \in w.befores, WindIn(e)
      PROVE  HeldIn(X)' /\ Grows
  BY <1>1, <1>8, WindInStep, QuietStep
<1> QED
  BY <1>3, <1>4, <1>5, <1>6, <1>7, <1>8 DEF ContinuationInstruction

\* ... of dynamic-wind ...
LEMMA WindInstructionStep ==
    ASSUME NEW X, Given(X), WindInstruction
    PROVE  HeldIn(X)' /\ Grows
<1>1. HeldIn(X) /\ Table
  BY DEF Given
<1>2. ASSUME NEW b \in operands, NEW t \in operands, NEW a \in operands, DynamicWind(b, t, a)
      PROVE  HeldIn(X)' /\ Grows
  BY <1>2, DynamicWindStep
<1>3. ASSUME NEW V \in SUBSET operands, WindThunk(V) \/ (\E e \in winds.afters : WindDone(e, V))
      PROVE  HeldIn(X)' /\ Grows
  BY <1>1, <1>3, WindThunkStep, WindDoneStep, QuietStep
<1>4. ASSUME NEW e \in winds.stack, NEW v \in operands \cup {Nil}, WindAfter(e, v)
      PROVE  HeldIn(X)' /\ Grows
  BY <1>4, WindAfterStep
<1> QED  BY <1>2, <1>3, <1>4 DEF WindInstruction

\* ... and on timers hold nothing but what they were given.
LEMMA TimerInstructionStep ==
    ASSUME NEW X, Given(X), TimerInstruction
    PROVE  HeldIn(X)' /\ Grows
<1>1. HeldIn(X) /\ Table
  BY DEF Given
<1>2. ASSUME NEW c \in operands, SetTimer(c)
      PROVE  HeldIn(X)' /\ Grows
  BY <1>2, SetTimerStep
<1>3. ASSUME NEW c \in timers, ClearTimer(c) \/ (\E r \in BOOLEAN : Fire(c, r))
      PROVE  HeldIn(X)' /\ Grows
  BY <1>1, <1>3, ClearTimerStep, FireStep, QuietStep
<1> QED  BY <1>2, <1>3 DEF TimerInstruction

\* Whatever set the handles are from that a process holds: an instruction holds
\* no others, but those it was given by the handle table.
LEMMA InstructionStep ==
    ASSUME NEW X, Given(X), Next
    PROVE  Collect \/ (HeldIn(X)' /\ Grows)
BY ClosureInstructionStep, ListInstructionStep, StringInstructionStep,
   ContinuationInstructionStep, WindInstructionStep, TimerInstructionStep, ForkStep DEF Next

\* What is held in X is held in a larger set.
LEMMA HeldInLarger ==
    ASSUME NEW X, NEW Y, X \subseteq Y, HeldIn(X)
    PROVE  HeldIn(Y)
<1>1. SlotOf(X) \subseteq SlotOf(Y) /\ SUBSET X \subseteq SUBSET Y
  BY DEF SlotOf
<1>2. Seq(SlotOf(X)) \subseteq Seq(SlotOf(Y)) /\ Seq(SUBSET X) \subseteq Seq(SUBSET Y)
  BY <1>1, SeqMonotonic
<1>3. WindsIn(X) \subseteq WindsIn(Y) /\ EntryIn(X) \subseteq EntryIn(Y) /\ ObjectIn(X) \subseteq ObjectIn(Y)
  BY <1>1 DEF WindsIn, EntryIn, ObjectIn
<1>4. SavedIn(X) \subseteq SavedIn(Y)
  BY <1>1, <1>2 DEF SavedIn
<1>5. PendingIn(X) \subseteq PendingIn(Y)
  BY <1>1 DEF PendingIn
<1>6. Seq(PendingIn(X)) \subseteq Seq(PendingIn(Y))
  BY <1>5, SeqMonotonic
<1>7. RegistersIn(Y)
  BY <1>1, <1>2 DEF HeldIn, RegistersIn
<1>8. SideIn(Y)
  BY <1>1, <1>2, <1>3, <1>6 DEF HeldIn, SideIn
<1>9. ObjectsIn(Y)
  BY <1>3, <1>4 DEF HeldIn, ObjectsIn
<1> QED  BY <1>7, <1>8, <1>9 DEF HeldIn

\* Handles up to a later counter: those given out before, and the new ones.
LEMMA Intervals ==
    \A a, b \in Nat : a <= b => 1 .. a - 1 \subseteq 1 .. b - 1 /\ (1 <= a => a .. b - 1 \subseteq 1 .. b - 1)
OBVIOUS

\* The table keeps its shape, and marks stay on static objects.
LEMMA GrowsKeeps ==
    ASSUME Table, Flags, Grows
    PROVE  Table' /\ Flags'
<1>1. DOMAIN heap \subseteq 1 .. next - 1 /\ next \in Nat /\ next' \in Nat /\ next <= next' /\ next >= 1
  BY DEF Table, Grows, Handle, Nil
<1>2. DOMAIN heap' \subseteq 1 .. next' - 1
  <2>1. 1 <= next
    BY <1>1
  <2>2. next .. next' - 1 \subseteq 1 .. next' - 1 /\ 1 .. next - 1 \subseteq 1 .. next' - 1
    BY <1>1, <2>1, Intervals, Zenon
  <2> QED  BY <1>1, <2>2 DEF Grows
<1>3. \A h \in DOMAIN heap : h \notin next .. next' - 1
  BY <1>1
<1>4. Table'
  BY <1>2 DEF Table, Grows
<1>5. Literal \in DOMAIN heap' /\ heap'[Literal].static
  BY DEF Flags, Grows
<1>6. \A h \in DOMAIN heap' :
          /\ heap'[h].alive => heap'[h].static
          /\ heap'[h].static => heap'[h].kind = "list" /\ heap'[h].parent = Nil /\ h \notin DOMAIN entries'
  <2> SUFFICES ASSUME NEW h \in DOMAIN heap'
               PROVE  /\ heap'[h].alive => heap'[h].static
                      /\ heap'[h].static => heap'[h].kind = "list" /\ heap'[h].parent = Nil /\ h \notin DOMAIN entries'
    OBVIOUS
  <2>1. CASE h \in DOMAIN heap
    <3>1. h \in DOMAIN entries' => h \in DOMAIN entries
      BY <1>3, <2>1 DEF Grows
    <3> QED  BY <2>1, <3>1 DEF Flags, Grows
  <2>2. CASE h \in next .. next' - 1
    BY <2>2 DEF Grows
  <2> QED  BY <2>1, <2>2 DEF Grows
<1>7. (\A c \in timers' : c \in DOMAIN heap' /\ heap'[c].keepalive)
      /\ (\A k \in DOMAIN env' : env'[k].snapshot \in DOMAIN heap')
  BY DEF Grows
<1> QED  BY <1>4, <1>5, <1>6, <1>7 DEF Flags

\* In a program that leaves its literals alone, static objects go on referring
\* to static ones only.
LEMMA GrowsKeepsClosed ==
    ASSUME Clean, HeldIn(DOMAIN heap), StaticClosed, Table, Grows
    PROVE  StaticClosed'
<1> SUFFICES ASSUME NEW h \in DOMAIN heap', heap'[h].static, NEW x \in heap'[h].items
             PROVE  x \in DOMAIN heap' /\ heap'[x].static
  BY DEF StaticClosed
<1>1. h \in DOMAIN heap /\ heap[h].static
  BY DEF Grows
<1>2. x \in heap[h].items \/ (x \in operands /\ heap[x].static)
  BY <1>1 DEF Grows
<1>3. x \in DOMAIN heap /\ heap[x].static
  BY <1>1, <1>2 DEF StaticClosed, HeldIn, RegistersIn
<1> QED  BY <1>3 DEF Grows

-----------------------------------------------------------------------------
(* A collection *)

\* The roots am_process_gc_root and am_process_gc collect hold the registers,
\* what every continuation saved, and the closures with the keepalive bit.
LEMMA Roots ==
    /\ Registers \subseteq GCRoots
    /\ \A k \in DOMAIN env : ContinuationHandles(k) \subseteq GCRoots
    /\ \A h \in DOMAIN heap : heap[h].keepalive => h \in GCRoots
<1>1. Registers \subseteq GCRoots
  BY Zenon DEF GCRoots
<1>2. ASSUME NEW k \in DOMAIN env
      PROVE  ContinuationHandles(k) \subseteq GCRoots
  <2> SUFFICES ASSUME NEW x \in ContinuationHandles(k)
               PROVE  x \in GCRoots
    OBVIOUS
  <2>1. x \in ContinuationHandles(k) \cup Bindings(env[k].closure, env[k].fstack)
    OBVIOUS
  <2> QED  BY <2>1, Zenon DEF GCRoots
<1>3. ASSUME NEW h \in DOMAIN heap, heap[h].keepalive
      PROVE  h \in GCRoots
  BY <1>3, Zenon DEF GCRoots
<1> QED  BY <1>1, <1>2, <1>3

\* A root survives: it is in no isolated set.
LEMMA RootsSurvive ==
    ASSUME Flags, NEW h \in DOMAIN heap, h \in GCRoots \/ heap[h].static
    PROVE  h \notin Freed(Marked)
<1>1. h \in Unmarked /\ ~heap[h].static => h \in Marked
  BY DEF Marked
<1> QED  BY <1>1 DEF Freed, Unmarked

\* What a survivor refers to survives.  A marked object that referred to an
\* unmarked one in an isolated set would show that it is not isolated.
LEMMA RefsSurvive ==
    ASSUME HeldIn(DOMAIN heap), Flags, StaticClosed,
           NEW h \in DOMAIN heap \ Freed(Marked), NEW x \in Refs(h)
    PROVE  x \in DOMAIN heap \ Freed(Marked)
<1>1. x \in DOMAIN heap
  BY DEF Refs, Handles, SlotOf, EntryHandles, IsEntry, HeldIn, ObjectsIn, ObjectIn, EntryIn
<1>2. CASE heap[h].static
  <2>1. x \in heap[h].items
    BY <1>2 DEF Flags, Refs, Handles, IsEntry
  <2> QED  BY <1>1, <1>2, <2>1, RootsSurvive DEF StaticClosed
<1>3. CASE ~heap[h].static
  <2>1. h \in Unmarked
    BY <1>3 DEF Unmarked, Flags
  <2>2. h \in Marked
    <3>1. heap[h].keepalive => h \in GCRoots
      BY Roots
    <3>2. h \in GCRoots => h \in Marked
      BY <2>1 DEF Marked
    <3>3. h \in Marked \/ heap[h].keepalive
      BY <1>3, <2>1 DEF Freed
    <3> QED  BY <3>1, <3>2, <3>3
  <2>3. ASSUME NEW M \in SUBSET (Unmarked \ GCRoots), Isolated(M)
        PROVE  x \notin M
    <3>1. h \notin M
      BY <2>2, <2>3 DEF Marked
    <3> QED  BY <2>1, <2>3, <3>1 DEF Isolated
  <2>4. x \in Unmarked => x \in Marked
    BY <2>3 DEF Marked
  <2> QED  BY <1>1, <2>4 DEF Freed
<1> QED  BY <1>2, <1>3

\* Every place handles are held in is a root.
LEMMA RootsHeld ==
    ASSUME NEW X \in SUBSET Handle, HeldIn(X), NEW Y, GCRoots \cap X \subseteq Y
    PROVE  /\ RegistersIn(Y)
           /\ SideIn(X) /\ timers \subseteq Y => SideIn(Y)
           /\ \A k \in DOMAIN env : env[k] \in SavedIn(Y)
<1>1. \A x \in X : x \in Registers => x \in Y
  BY Roots
<1>2. \A x \in X : x # Nil
  BY DEF Handle
<1>3. RegistersIn(Y)
  <2>1. closure \in SlotOf(Y)
    BY <1>1 DEF Registers, EnvHandles, Handles, SlotOf, HeldIn, RegistersIn
  <2>2. operands \in SUBSET Y
    <3>1. operands \in SUBSET X
      BY DEF HeldIn, RegistersIn
    <3> QED  BY <1>1, <1>2, <3>1 DEF Registers, EnvHandles, Handles
  <2>3. fstack \in Seq(SlotOf(Y))
    <3>1. fstack \in Seq(SlotOf(X))
      BY DEF HeldIn, RegistersIn
    <3>2. \A i \in DOMAIN fstack : fstack[i] \in SlotOf(Y)
      BY <1>1, <3>1 DEF Registers, EnvHandles, Handles, Range, SlotOf
    <3> QED  BY <3>1, <3>2
  <2> QED  BY <2>1, <2>2, <2>3 DEF RegistersIn
<1>4. ASSUME timers \subseteq Y
      PROVE  SideIn(Y)
  <2>0. \A x \in X : x \in Interned \cup WindHandles \cup PendingHandles => x \in Y
    BY <1>1 DEF Registers
  <2>1. strindex \in Seq(SUBSET Y)
    <3>1. strindex \in Seq(SUBSET X)
      BY DEF HeldIn, SideIn
    <3>2. \A i \in DOMAIN strindex : strindex[i] \in SUBSET Y
      BY <2>0, <3>1 DEF Interned, Range
    <3> QED  BY <3>1, <3>2
  <2>2. winds \in WindsIn(Y)
    BY <1>2, <2>0 DEF WindHandles, Handles, HeldIn, SideIn, WindsIn, SlotOf
  <2>3. pending \in Seq(PendingIn(Y))
    <3>1. pending \in Seq(PendingIn(X))
      BY DEF HeldIn, SideIn
    <3>2. ASSUME NEW i \in DOMAIN pending
          PROVE  pending[i] \in PendingIn(Y)
      <4>1. pending[i] \in PendingIn(X) /\ pending[i] \in Range(pending)
        BY <3>1 DEF Range
      <4> DEFINE w == pending[i]
      <4>2. Handles({w.cont, w.value} \cup w.afters \cup w.befores) \subseteq PendingHandles
        BY <4>1, Zenon DEF PendingHandles
      <4>3. \A x \in X : x \in {w.cont, w.value} \cup w.afters \cup w.befores => x \in Y
        BY <1>2, <2>0, <4>2 DEF Handles
      <4> QED  BY <4>1, <4>3 DEF PendingIn, SlotOf
    <3> QED  BY <3>1, <3>2
  <2> QED  BY <1>4, <2>1, <2>2, <2>3 DEF SideIn
<1>5. ASSUME NEW k \in DOMAIN env
      PROVE  env[k] \in SavedIn(Y)
  <2>1. env[k] \in SavedIn(X)
    BY DEF HeldIn, ObjectsIn
  <2>2. \A x \in X : x \in ContinuationHandles(k) => x \in Y
    BY Roots
  <2>3. env[k].fstack \in Seq(SlotOf(Y))
    <3>1. env[k].fstack \in Seq(SlotOf(X))
      BY <2>1 DEF SavedIn
    <3>2. \A i \in DOMAIN env[k].fstack : env[k].fstack[i] \in SlotOf(Y)
      BY <1>2, <2>2, <3>1 DEF ContinuationHandles, EnvHandles, Handles, Range, SlotOf
    <3> QED  BY <3>1, <3>2
  <2>4. /\ env[k].closure \in SlotOf(Y) /\ env[k].operands \in SUBSET Y /\ env[k].snapshot \in Y
        /\ env[k].entry \in SlotOf(Y) /\ env[k].thunk \in SlotOf(Y) /\ env[k].afters \in SUBSET Y
    BY <1>2, <2>1, <2>2 DEF SavedIn, ContinuationHandles, EnvHandles, Handles, SlotOf
  <2> QED  BY <2>1, <2>3, <2>4 DEF SavedIn
<1> QED  BY <1>3, <1>4, <1>5

\* What a collection does to the table.
LEMMA CollectEffect ==
    ASSUME HeldIn(Handle), Collect
    PROVE  /\ DOMAIN heap' = DOMAIN heap \ Freed(Marked)
           /\ \A h \in DOMAIN heap' :
                 /\ heap'[h].kind = heap[h].kind /\ heap'[h].parent = heap[h].parent
                 /\ heap'[h].items = heap[h].items /\ heap'[h].static = heap[h].static
                 /\ heap'[h].keepalive = heap[h].keepalive /\ heap'[h].alive \in BOOLEAN
                 /\ heap'[h].alive => heap[h].static
           /\ DOMAIN env' = DOMAIN env \ Freed(Marked) /\ \A k \in DOMAIN env' : env'[k] = env[k]
           /\ DOMAIN entries' = DOMAIN entries \ Freed(Marked)
           /\ \A e \in DOMAIN entries' : entries'[e] = entries[e]
           /\ UNCHANGED <<program, next, regVars, sideVars>>
<1>1. /\ heap' = [h \in DOMAIN heap \ Freed(Marked) |-> Swept(h, Marked)]
      /\ env' = [k \in DOMAIN env \ Freed(Marked) |-> env[k]]
      /\ entries' = [e \in DOMAIN entries \ Freed(Marked) |-> entries[e]]
      /\ UNCHANGED <<program, next, regVars, sideVars>>
  BY DEF Collect
<1>2. ASSUME NEW h \in DOMAIN heap
      PROVE  /\ Swept(h, Marked).kind = heap[h].kind /\ Swept(h, Marked).parent = heap[h].parent
             /\ Swept(h, Marked).items = heap[h].items /\ Swept(h, Marked).static = heap[h].static
             /\ Swept(h, Marked).keepalive = heap[h].keepalive /\ Swept(h, Marked).alive \in BOOLEAN
             /\ Swept(h, Marked).alive => heap[h].static
  <2>1. heap[h] \in ObjectIn(Handle)
    BY DEF HeldIn, ObjectsIn
  <2> QED  BY <2>1 DEF Swept, ObjectIn
<1> QED  BY <1>1, <1>2

\* A collection leaves the types, the table and the flags right.
LEMMA CollectKeeps ==
    ASSUME HeldIn(Handle), Table, Flags, Collect
    PROVE  HeldIn(Handle)' /\ Table' /\ Flags'
<1> DEFINE gone == Freed(Marked)
<1>1. /\ DOMAIN heap' = DOMAIN heap \ gone
      /\ \A h \in DOMAIN heap' :
            /\ heap'[h].kind = heap[h].kind /\ heap'[h].parent = heap[h].parent
            /\ heap'[h].items = heap[h].items /\ heap'[h].static = heap[h].static
            /\ heap'[h].keepalive = heap[h].keepalive /\ heap'[h].alive \in BOOLEAN
            /\ heap'[h].alive => heap[h].static
      /\ DOMAIN env' = DOMAIN env \ gone /\ \A k \in DOMAIN env' : env'[k] = env[k]
      /\ DOMAIN entries' = DOMAIN entries \ gone
      /\ \A e \in DOMAIN entries' : entries'[e] = entries[e]
      /\ UNCHANGED <<program, next, regVars, sideVars>>
  BY CollectEffect
<1>2. \A h \in DOMAIN heap : h \in GCRoots \/ heap[h].static => h \notin gone
  BY RootsSurvive
<1> HIDE DEF gone
<1>3. HeldIn(Handle)'
  <2>1. \A h \in DOMAIN heap' : heap'[h] \in ObjectIn(Handle)
    <3> SUFFICES ASSUME NEW h \in DOMAIN heap'
                 PROVE  heap'[h] \in ObjectIn(Handle)
      OBVIOUS
    <3>1. heap[h] \in ObjectIn(Handle)
      BY <1>1 DEF HeldIn, ObjectsIn
    <3>2. heap'[h] = Swept(h, Marked)
      BY <1>1 DEF Collect
    <3> QED  BY <3>1, <3>2 DEF Swept, ObjectIn
  <2>2. ObjectsIn(Handle)'
    BY <1>1, <2>1 DEF HeldIn, ObjectsIn
  <2> QED  BY <1>1, <2>2 DEF HeldIn, RegistersIn, SideIn, regVars, sideVars
<1>4. Table'
  <2>1. DOMAIN env' = {h \in DOMAIN heap' : heap'[h].kind = "continuation"}
    BY <1>1 DEF Table
  <2>2. DOMAIN entries' \subseteq {h \in DOMAIN heap' : heap'[h].kind = "list"}
    BY <1>1 DEF Table
  <2> QED  BY <1>1, <2>1, <2>2 DEF Table, regVars
<1>5. Flags'
  <2>1. Literal \in DOMAIN heap' /\ heap'[Literal].static
    BY <1>1, <1>2 DEF Flags
  <2>2. \A h \in DOMAIN heap' :
          /\ heap'[h].alive => heap'[h].static
          /\ heap'[h].static => heap'[h].kind = "list" /\ heap'[h].parent = Nil /\ h \notin DOMAIN entries'
    BY <1>1 DEF Flags
  <2>3. \A c \in timers' : c \in DOMAIN heap' /\ heap'[c].keepalive
    BY <1>1, <1>2, Roots DEF Flags, sideVars
  <2>4. \A k \in DOMAIN env' : env'[k].snapshot \in DOMAIN heap'
    <3> SUFFICES ASSUME NEW k \in DOMAIN env'
                 PROVE  env[k].snapshot \in DOMAIN heap'
      BY <1>1
    <3>1. k \in DOMAIN env /\ env[k].snapshot \in Handle
      BY <1>1 DEF HeldIn, ObjectsIn, SavedIn
    <3>2. env[k].snapshot \in ContinuationHandles(k)
      BY <3>1 DEF ContinuationHandles, Handles, Handle
    <3>3. env[k].snapshot \in GCRoots /\ env[k].snapshot \in DOMAIN heap
      BY <3>1, <3>2, Roots DEF Flags
    <3> QED  BY <1>1, <1>2, <3>3
  <2> QED  BY <2>1, <2>2, <2>3, <2>4 DEF Flags
<1> QED  BY <1>3, <1>4, <1>5

\* After a collection every handle still held names an object.
LEMMA CollectSound ==
    ASSUME HeldIn(Handle), Table, Flags, HeldIn(DOMAIN heap), StaticClosed, Collect
    PROVE  HeldIn(DOMAIN heap)' /\ StaticClosed'
<1> DEFINE gone == Freed(Marked)
<1>1. /\ DOMAIN heap' = DOMAIN heap \ gone
      /\ \A h \in DOMAIN heap' :
            /\ heap'[h].kind = heap[h].kind /\ heap'[h].parent = heap[h].parent
            /\ heap'[h].items = heap[h].items /\ heap'[h].static = heap[h].static
            /\ heap'[h].keepalive = heap[h].keepalive /\ heap'[h].alive \in BOOLEAN
            /\ heap'[h].alive => heap[h].static
      /\ DOMAIN env' = DOMAIN env \ gone /\ \A k \in DOMAIN env' : env'[k] = env[k]
      /\ DOMAIN entries' = DOMAIN entries \ gone
      /\ \A e \in DOMAIN entries' : entries'[e] = entries[e]
      /\ UNCHANGED <<program, next, regVars, sideVars>>
  BY CollectEffect
<1>2. \A h \in DOMAIN heap : h \in GCRoots \/ heap[h].static => h \notin gone
  BY RootsSurvive
<1>3. \A h \in DOMAIN heap \ gone : \A x \in Refs(h) : x \in DOMAIN heap \ gone
  BY RefsSurvive
<1> HIDE DEF gone
<1>4. PICK Y : Y = DOMAIN heap'
  OBVIOUS
<1>5. DOMAIN heap \in SUBSET Handle /\ GCRoots \cap DOMAIN heap \subseteq Y
  BY <1>1, <1>2, <1>4 DEF Table, Handle, Nil
<1>6. timers \subseteq Y
  BY <1>1, <1>2, <1>4, Roots DEF Flags
<1>7. /\ RegistersIn(Y) /\ SideIn(Y)
      /\ \A k \in DOMAIN env : env[k] \in SavedIn(Y)
  <2>1. \A X \in SUBSET Handle : HeldIn(X) /\ GCRoots \cap X \subseteq Y =>
            /\ RegistersIn(Y)
            /\ SideIn(X) /\ timers \subseteq Y => SideIn(Y)
            /\ \A k \in DOMAIN env : env[k] \in SavedIn(Y)
    BY RootsHeld
  <2> QED  BY <1>5, <1>6, <2>1 DEF HeldIn
<1>8. RegistersIn(DOMAIN heap)' /\ SideIn(DOMAIN heap)'
  BY <1>1, <1>4, <1>7 DEF RegistersIn, SideIn, regVars, sideVars
<1>9. ASSUME NEW h \in DOMAIN heap'
      PROVE  heap'[h] \in ObjectIn(Y)
  <2>1. heap[h] \in ObjectIn(Handle)
    BY <1>1 DEF HeldIn, ObjectsIn
  <2>2. Handles(heap[h].items \cup {heap[h].parent}) \subseteq Y
    BY <1>1, <1>3, <1>4 DEF Refs
  <2>3. heap[h].items \in SUBSET Y /\ heap[h].parent \in SlotOf(Y)
    BY <2>1, <2>2 DEF Handles, ObjectIn, SlotOf, Handle
  <2>4. heap'[h] = Swept(h, Marked)
    BY <1>1 DEF Collect
  <2> QED  BY <2>1, <2>3, <2>4 DEF Swept, ObjectIn
<1>10. ASSUME NEW e \in DOMAIN entries'
       PROVE  entries'[e] \in EntryIn(Y)
  <2>1. e \in DOMAIN entries /\ e \in DOMAIN heap \ gone /\ entries[e] \in EntryIn(Handle)
    BY <1>1 DEF Table, HeldIn, ObjectsIn
  <2>2. EntryHandles(e) \subseteq Y
    BY <1>1, <1>3, <1>4, <2>1 DEF Refs, IsEntry
  <2>3. entries[e].before \in Y /\ entries[e].after \in Y /\ entries[e].saved \in SlotOf(Y)
    BY <2>1, <2>2 DEF EntryHandles, Handles, EntryIn, SlotOf, Handle
  <2> QED  BY <1>1, <2>1, <2>3 DEF EntryIn
<1>11. ObjectsIn(DOMAIN heap)'
  BY <1>1, <1>4, <1>7, <1>9, <1>10 DEF ObjectsIn
<1>12. StaticClosed'
  BY <1>1, <1>2 DEF StaticClosed
<1> QED  BY <1>8, <1>11, <1>12 DEF HeldIn

-----------------------------------------------------------------------------
\* The invariant holds of a process that was just loaded, ...
LEMMA InitInv == Init => IInv
<1> SUFFICES ASSUME Init PROVE IInv
  OBVIOUS
<1>1. /\ DOMAIN heap = {Literal} /\ heap[Literal].kind = "list" /\ heap[Literal].parent = Nil
      /\ heap[Literal].items = {} /\ heap[Literal].static = TRUE /\ heap[Literal].alive = FALSE
      /\ \A X : heap[Literal] \in ObjectIn(X)
  BY DEF Init, NewObject, ObjectIn, Kind, SlotOf
<1>2. /\ closure = Nil /\ operands = {} /\ fstack = <<>> /\ timers = {}
      /\ strindex = <<{}>> /\ pending = <<>> /\ DOMAIN env = {} /\ DOMAIN entries = {}
      /\ winds = [stack |-> {}, entry |-> Nil, thunk |-> Nil, afters |-> {}]
  BY DEF Init
<1>3. ASSUME NEW X
      PROVE  HeldIn(X)
  <2>1. RegistersIn(X)
    BY <1>2 DEF RegistersIn, SlotOf
  <2>2. SideIn(X)
    <3>1. <<{}>> \in Seq(SUBSET X)
      OBVIOUS
    <3> QED  BY <1>2, <3>1 DEF SideIn, WindsIn, SlotOf
  <2>3. ObjectsIn(X)
    BY <1>1, <1>2 DEF ObjectsIn
  <2> QED  BY <2>1, <2>2, <2>3 DEF HeldIn
<1>4. Table
  <2>1. program \in Program /\ Cardinality(operands) = 0
    BY <1>2, FS_EmptySet, CollectorAssumption DEF Init
  <2>2. 0 <= program.operands
    BY <2>1 DEF Program
  <2>3. next \in Handle /\ DOMAIN heap \subseteq 1 .. next - 1
    BY <1>1 DEF Init, Literal, Handle, Nil
  <2> QED  BY <1>1, <1>2, <2>1, <2>2, <2>3 DEF Init, Table
<1>5. Flags
  BY <1>1, <1>2 DEF Flags
<1>6. StaticClosed
  BY <1>1 DEF StaticClosed
<1> QED  BY <1>3, <1>4, <1>5, <1>6 DEF IInv

\* ... and every step keeps it.  An instruction is taken twice: with X all
\* handles for the types, with X the objects of its last state for the handles
\* that must not dangle.
LEMMA NextInv == IInv /\ [Next]_vars => IInv'
<1> SUFFICES ASSUME IInv, [Next]_vars PROVE IInv'
  OBVIOUS
<1>1. HeldIn(Handle) /\ Table /\ Flags /\ DOMAIN heap \subseteq Handle /\ next \in Handle
  BY DEF IInv, Table, Handle, Nil
<1>2. CASE UNCHANGED vars
  <2>1. UNCHANGED <<program, heap, env, entries, next, closure, operands, fstack,
                    strindex, winds, pending, timers>>
    BY <1>2 DEF vars, regVars, sideVars
  <2> QED  BY <2>1 DEF IInv, HeldIn, RegistersIn, SideIn, ObjectsIn, Table, Flags, Clean, StaticClosed
<1>3. CASE Collect
  <2>1. HeldIn(Handle)' /\ Table' /\ Flags'
    BY <1>1, <1>3, CollectKeeps
  <2>2. Clean' => Clean
    BY <1>3 DEF Collect, Clean
  <2>3. Clean => HeldIn(DOMAIN heap)' /\ StaticClosed'
    BY <1>1, <1>3, CollectSound DEF IInv
  <2> QED  BY <2>1, <2>2, <2>3 DEF IInv
<1>4. CASE Next /\ ~Collect
  <2>1. Given(Handle)
    BY <1>1 DEF Given, Handle, Nil
  <2>2. HeldIn(Handle)' /\ Grows
    BY <1>4, <2>1, InstructionStep
  <2>3. Table' /\ Flags'
    BY <1>1, <2>2, GrowsKeeps
  <2>4. ASSUME Clean
        PROVE  HeldIn(DOMAIN heap)' /\ StaticClosed'
    <3>1. HeldIn(DOMAIN heap) /\ StaticClosed
      BY <2>4 DEF IInv
    <3>2. PICK Y : Y = DOMAIN heap'
      OBVIOUS
    <3>3. DOMAIN heap \subseteq Y
      BY <2>2, <3>2 DEF Grows
    <3>4. HeldIn(Y)
      BY <3>1, <3>3, HeldInLarger
    <3>5. Given(Y)
      BY <1>1, <3>2, <3>3, <3>4 DEF Given
    <3>6. HeldIn(Y)'
      BY <1>4, <3>5, InstructionStep
    <3>7. HeldIn(DOMAIN heap)'
      BY <3>2, <3>6 DEF HeldIn, RegistersIn, SideIn, ObjectsIn
    <3>8. StaticClosed'
      BY <1>1, <2>2, <2>4, <3>1, GrowsKeepsClosed
    <3> QED  BY <3>7, <3>8
  <2>5. Clean' => Clean
    BY <2>2 DEF Grows, Clean
  <2> QED  BY <2>2, <2>3, <2>4, <2>5 DEF IInv
<1> QED  BY <1>2, <1>3, <1>4

\* The inductive invariant of a process and its collector, for every set of
\* programs and every bound.
THEOREM Inductive == Spec => []IInv
BY InitInv, NextInv, PTL DEF Spec

\* The invariant gives the types.
LEMMA InvImpliesTypes == IInv => TypeOK
<1> SUFFICES ASSUME IInv PROVE TypeOK
  OBVIOUS
<1>1. HeldIn(Handle) /\ Table
  BY DEF IInv
<1>2. Slot = SlotOf(Handle)
  BY DEF Slot, SlotOf
<1>3. \A h \in DOMAIN heap : heap[h] \in Object
  BY <1>1, <1>2 DEF HeldIn, ObjectsIn, ObjectIn, Object
<1>4. DOMAIN env = {h \in DOMAIN heap : IsContinuation(h)}
  BY <1>1 DEF Table, IsContinuation, IsKind
<1>5. DOMAIN entries \subseteq {h \in DOMAIN heap : IsList(h)}
  BY <1>1 DEF Table, IsList, IsKind
<1>6. closure \in Slot /\ fstack \in Seq(Slot) /\ operands \subseteq Handle
  BY <1>1, <1>2 DEF HeldIn, RegistersIn
<1>7. winds \in [stack : SUBSET Handle, entry : Slot, thunk : Slot, afters : SUBSET Handle]
  BY <1>1, <1>2 DEF HeldIn, SideIn, WindsIn
<1> QED  BY <1>1, <1>3, <1>4, <1>5, <1>6, <1>7 DEF TypeOK, Table

\* The type invariant: handles are given out in order, objects, registers and
\* stacks hold handles, and only lists are entries of dynamic-wind.
THEOREM TypeCorrect == Spec => []TypeOK
BY Inductive, InvImpliesTypes, PTL

\* The invariant gives that no handle dangles.
LEMMA InvImpliesNoDangling == IInv /\ Clean => NoDangling
<1> SUFFICES ASSUME IInv, Clean PROVE NoDangling
  OBVIOUS
<1>1. HeldIn(DOMAIN heap) /\ Literal \in DOMAIN heap
  BY DEF IInv, Flags
<1>2. Registers \subseteq DOMAIN heap
  <2>1. EnvHandles(closure, operands, fstack) \subseteq DOMAIN heap
    BY <1>1 DEF HeldIn, RegistersIn, EnvHandles, Handles, Range, SlotOf
  <2>2. Interned \subseteq DOMAIN heap
    BY <1>1 DEF HeldIn, SideIn, Interned, Range
  <2>3. WindHandles \subseteq DOMAIN heap
    BY <1>1 DEF HeldIn, SideIn, WindsIn, WindHandles, Handles, SlotOf
  <2>4. PendingHandles \subseteq DOMAIN heap
    <3>1. \A w \in Range(pending) : w \in PendingIn(DOMAIN heap)
      BY <1>1 DEF HeldIn, SideIn, Range
    <3> QED  BY <3>1 DEF PendingIn, PendingHandles, Handles, SlotOf
  <2> QED  BY <2>1, <2>2, <2>3, <2>4 DEF Registers
<1>3. timers \subseteq DOMAIN heap
  BY <1>1 DEF HeldIn, SideIn
<1>4. \A h \in DOMAIN heap : Refs(h) \subseteq DOMAIN heap
  BY <1>1 DEF HeldIn, ObjectsIn, ObjectIn, EntryIn, Refs, EntryHandles, IsEntry, Handles, SlotOf
<1>5. \A k \in DOMAIN env : ContinuationHandles(k) \subseteq DOMAIN heap
  <2> SUFFICES ASSUME NEW k \in DOMAIN env
               PROVE  ContinuationHandles(k) \subseteq DOMAIN heap
    OBVIOUS
  <2>1. env[k] \in SavedIn(DOMAIN heap)
    BY <1>1 DEF HeldIn, ObjectsIn
  <2>2. EnvHandles(env[k].closure, env[k].operands, env[k].fstack) \subseteq DOMAIN heap
    BY <2>1 DEF SavedIn, EnvHandles, Handles, Range, SlotOf
  <2> QED  BY <2>1, <2>2 DEF SavedIn, ContinuationHandles, Handles, SlotOf
<1> QED  BY <1>1, <1>2, <1>3, <1>4, <1>5 DEF NoDangling

\* Whatever instructions run, and whenever am_process_gc runs between two of
\* them, everything a program can get at exists - provided it does not store
\* new objects into its own literals, which the collector does not go through
\* (the run gc_literal shows what happens otherwise).
THEOREM NoDanglingCorrect == Spec => [](Clean => NoDangling)
BY Inductive, InvImpliesNoDangling, PTL
-----------------------------------------------------------------------------
(* What a collection leaves *)

\* What can be reached from T in one step more.
Grown(T) == T \cup ((UNION {Refs(h) : h \in T}) \cap DOMAIN heap)

\* The first n steps of Reachable.
Steps(A, n, g) ==
    /\ DOMAIN g = 0 .. n /\ g[0] = A
    /\ \A i \in 1 .. n : g[i] = Grown(g[i - 1])

\* Where something fails that holds of 0, it fails for the first time.
LEMMA FirstFailure ==
    ASSUME NEW T \in SUBSET Nat, T # {}, 0 \notin T
    PROVE  \E n \in Nat : n \notin T /\ n + 1 \in T
<1>1. PICK x \in T : \A y \in T : ~(<<y, x>> \in OpToRel(<, Nat))
  BY NatLessThanWellFounded, WFMin
<1>2. \A y \in T : ~(y < x)
  BY <1>1 DEF OpToRel
<1>3. x - 1 \in Nat /\ x - 1 \notin T /\ (x - 1) + 1 \in T
  BY <1>2
<1> QED  BY <1>3

\* The steps of Reachable can be taken, however many.
LEMMA StepsExist ==
    ASSUME NEW A, NEW n \in Nat
    PROVE  \E g : Steps(A, n, g)
<1> DEFINE T == {m \in Nat : ~\E g : Steps(A, m, g)}
<1>1. SUFFICES ASSUME T # {} PROVE FALSE
  OBVIOUS
<1>2. 0 \notin T
  <2> DEFINE g == [i \in 0 .. 0 |-> A]
  <2>1. Steps(A, 0, g)
    BY DEF Steps
  <2> QED  BY <2>1
<1>3. PICK m \in Nat : m \notin T /\ m + 1 \in T
  BY <1>1, <1>2, FirstFailure
<1>4. PICK g : Steps(A, m, g)
  BY <1>3
<1> DEFINE f == [i \in 0 .. m + 1 |-> IF i = m + 1 THEN Grown(g[m]) ELSE g[i]]
<1>5. DOMAIN f = 0 .. m + 1 /\ f[0] = A
  BY <1>4 DEF Steps
<1>6. ASSUME NEW i \in 1 .. m + 1
      PROVE  f[i] = Grown(f[i - 1])
  <2>1. i - 1 \in 0 .. m + 1 /\ i - 1 # m + 1 /\ f[i - 1] = g[i - 1]
    OBVIOUS
  <2>2. CASE i = m + 1
    BY <2>1, <2>2
  <2>3. CASE i # m + 1
    <3>1. i \in 1 .. m /\ f[i] = g[i]
      BY <2>3
    <3> QED  BY <1>4, <2>1, <3>1 DEF Steps
  <2> QED  BY <2>2, <2>3
<1>7. Steps(A, m + 1, f)
  <2> HIDE DEF f
  <2> QED  BY <1>5, <1>6 DEF Steps
<1> QED  BY <1>3, <1>7

\* They come out the same, however many follow.
LEMMA StepsAgree ==
    ASSUME NEW A, NEW m \in Nat, NEW n \in Nat, NEW f, NEW g,
           Steps(A, m, f), Steps(A, n, g), NEW k \in Nat, k <= m, k <= n
    PROVE  f[k] = g[k]
<1> DEFINE T == {i \in Nat : i <= m /\ i <= n /\ f[i] # g[i]}
<1>1. SUFFICES ASSUME T # {} PROVE FALSE
  OBVIOUS
<1>2. 0 \notin T
  BY DEF Steps
<1>3. PICK i \in Nat : i \notin T /\ i + 1 \in T
  BY <1>1, <1>2, FirstFailure
<1>4. f[i] = g[i] /\ i + 1 \in 1 .. m /\ i + 1 \in 1 .. n /\ (i + 1) - 1 = i
  BY <1>3
<1>5. f[i + 1] = g[i + 1]
  BY <1>4 DEF Steps
<1> QED  BY <1>3, <1>5

\* The chain of sets that Reachable climbs.
Climb(A) == [n \in Nat |-> (CHOOSE g : Steps(A, n, g))[n]]

\* It starts with A, and each set is grown from the one before.
LEMMA ClimbSteps ==
    ASSUME NEW A
    PROVE  Climb(A)[0] = A /\ \A n \in Nat : Climb(A)[n + 1] = Grown(Climb(A)[n])
<1>1. ASSUME NEW n \in Nat
      PROVE  Steps(A, n, CHOOSE g : Steps(A, n, g))
  BY StepsExist
<1>2. ASSUME NEW n \in Nat, NEW m \in Nat, n <= m
      PROVE  (CHOOSE g : Steps(A, m, g))[n] = Climb(A)[n]
  <2>1. Climb(A)[n] = (CHOOSE g : Steps(A, n, g))[n]
    BY DEF Climb
  <2>2. PICK f : f = CHOOSE g : Steps(A, m, g)
    OBVIOUS
  <2>3. PICK h : h = CHOOSE g : Steps(A, n, g)
    OBVIOUS
  <2>4. Steps(A, m, f) /\ Steps(A, n, h)
    BY <1>1, <2>2, <2>3
  <2>5. f[n] = h[n]
    BY <1>2, <2>4, StepsAgree
  <2> QED  BY <2>1, <2>2, <2>3, <2>5
<1>3. Climb(A)[0] = A
  <2>1. PICK f : f = CHOOSE g : Steps(A, 0, g)
    OBVIOUS
  <2>2. Steps(A, 0, f)
    BY <1>1, <2>1
  <2>3. f[0] = A
    BY <2>2 DEF Steps
  <2> QED  BY <2>1, <2>3 DEF Climb
<1>4. ASSUME NEW n \in Nat
      PROVE  Climb(A)[n + 1] = Grown(Climb(A)[n])
  <2>1. PICK f : f = CHOOSE g : Steps(A, n + 1, g)
    OBVIOUS
  <2>2. Steps(A, n + 1, f)
    BY <1>1, <2>1
  <2>3. f[n + 1] = Grown(f[n])
    BY <2>2 DEF Steps
  <2>4. f[n + 1] = Climb(A)[n + 1] /\ f[n] = Climb(A)[n]
    BY <1>2, <2>1
  <2> QED  BY <2>3, <2>4
<1> QED  BY <1>3, <1>4

\* Reachable is where the climb is after as many steps as there are objects.
LEMMA ReachableIsClimb ==
    ASSUME NEW S, Cardinality(DOMAIN heap) \in Nat
    PROVE  Reachable(S) = Climb(S \cap DOMAIN heap)[Cardinality(DOMAIN heap)]
<1> DEFINE A == S \cap DOMAIN heap
           def(g) == [n \in Nat |-> IF n = 0 THEN S \cap DOMAIN heap
                        ELSE LET T == g[n - 1] IN T \cup ((UNION {Refs(h) : h \in T}) \cap DOMAIN heap)]
           grow == CHOOSE g : g = def(g)
<1>1. Reachable(S) = grow[Cardinality(DOMAIN heap)]
  BY DEF Reachable
<1>2. Climb(A) = def(Climb(A))
  <2>1. ASSUME NEW n \in Nat
        PROVE  Climb(A)[n] = def(Climb(A))[n]
    <3>1. CASE n = 0
      BY <3>1, ClimbSteps
    <3>2. CASE n # 0
      <4>1. n - 1 \in Nat /\ (n - 1) + 1 = n
        BY <3>2
      <4>2. Climb(A)[n] = Grown(Climb(A)[n - 1])
        BY <4>1, ClimbSteps
      <4> QED  BY <3>2, <4>2 DEF Grown
    <3> QED  BY <3>1, <3>2
  <2> QED  BY <2>1 DEF Climb
<1>3. grow = def(grow)
  <2> HIDE DEF def
  <2> QED  BY <1>2
<1>4. grow[0] = Climb(A)[0] /\ \A n \in Nat : grow[n + 1] = Grown(grow[n])
  <2> HIDE DEF grow
  <2>1. grow[0] = A
    BY <1>3
  <2>2. ASSUME NEW n \in Nat
        PROVE  grow[n + 1] = Grown(grow[n])
    <3>1. n + 1 \in Nat /\ n + 1 # 0 /\ (n + 1) - 1 = n
      OBVIOUS
    <3>2. def(grow)[n + 1] = Grown(grow[n])
      BY <3>1 DEF Grown
    <3> QED  BY <1>3, <3>2
  <2> QED  BY <2>1, <2>2, ClimbSteps
<1>5. \A n \in Nat : grow[n] = Climb(A)[n]
  <2> HIDE DEF grow, A
  <2> DEFINE T == {i \in Nat : grow[i] # Climb(A)[i]}
  <2>1. SUFFICES ASSUME T # {} PROVE FALSE
    OBVIOUS
  <2>2. 0 \notin T
    BY <1>4
  <2>3. PICK n \in Nat : n \notin T /\ n + 1 \in T
    BY <2>1, <2>2, FirstFailure
  <2> QED  BY <1>4, <2>3, ClimbSteps
<1> QED  BY <1>1, <1>5

\* Reachable is closed: the climb only grows, so that it stops growing before
\* it runs out of objects.
LEMMA ReachableClosed ==
    ASSUME NEW S, IsFiniteSet(DOMAIN heap)
    PROVE  /\ S \cap DOMAIN heap \subseteq Reachable(S)
           /\ \A h \in Reachable(S) : Refs(h) \cap DOMAIN heap \subseteq Reachable(S)
<1> DEFINE A == S \cap DOMAIN heap
           c == Cardinality(DOMAIN heap)
           G == Climb(A)
<1>1. c \in Nat
  BY FS_CardinalityType
<1>2. G[0] = A /\ \A n \in Nat : G[n + 1] = Grown(G[n])
  BY ClimbSteps
<1>3. Reachable(S) = G[c]
  BY <1>1, ReachableIsClimb
<1>4. A \subseteq DOMAIN heap
  OBVIOUS
<1> HIDE DEF A, c, G
<1>5. \A n \in Nat : A \subseteq G[n] /\ G[n] \subseteq DOMAIN heap
  <2> DEFINE T == {n \in Nat : ~(A \subseteq G[n] /\ G[n] \subseteq DOMAIN heap)}
  <2>1. SUFFICES ASSUME T # {} PROVE FALSE
    OBVIOUS
  <2>2. 0 \notin T
    BY <1>2, <1>4
  <2>3. PICK n \in Nat : n \notin T /\ n + 1 \in T
    BY <2>1, <2>2, FirstFailure
  <2>4. G[n + 1] = Grown(G[n]) /\ A \subseteq G[n] /\ G[n] \subseteq DOMAIN heap
    BY <1>2, <2>3
  <2>5. A \subseteq G[n + 1] /\ G[n + 1] \subseteq DOMAIN heap
    BY <2>4 DEF Grown
  <2> QED  BY <2>3, <2>5
<1> DEFINE size(n) == Cardinality(G[n])
<1>6. ASSUME NEW n \in Nat
      PROVE  /\ size(n) \in Nat /\ size(n) <= c
             /\ size(n) = c => G[n] = DOMAIN heap
             /\ Grown(G[n]) = G[n] \/ size(n) < size(n + 1)
  <2>1. IsFiniteSet(G[n]) /\ size(n) <= c /\ (size(n) = c => G[n] = DOMAIN heap)
    BY <1>5, FS_Subset DEF c
  <2>2. IsFiniteSet(G[n + 1])
    BY <1>5, FS_Subset
  <2>3. G[n + 1] = Grown(G[n]) /\ G[n] \subseteq G[n + 1]
    BY <1>2 DEF Grown
  <2>4. size(n) <= size(n + 1) /\ (size(n) = size(n + 1) => G[n] = G[n + 1])
    BY <2>2, <2>3, FS_Subset
  <2>5. size(n) \in Nat /\ size(n + 1) \in Nat
    BY <2>1, <2>2, FS_CardinalityType
  <2> HIDE DEF size
  <2> QED  BY <2>1, <2>3, <2>4, <2>5
<1> HIDE DEF size
<1>7. \A n \in Nat : Grown(G[n]) = G[n] \/ size(n) >= n
  <2> DEFINE T == {n \in Nat : ~(Grown(G[n]) = G[n] \/ size(n) >= n)}
  <2>1. SUFFICES ASSUME T # {} PROVE FALSE
    OBVIOUS
  <2>2. 0 \notin T
    <3>1. size(0) >= 0
      BY <1>6
    <3> QED  BY <3>1
  <2>3. PICK n \in Nat : n \notin T /\ n + 1 \in T
    BY <2>1, <2>2, FirstFailure
  <2>4. Grown(G[n]) # G[n]
    BY <1>2, <2>3
  <2>5. size(n) \in Nat /\ size(n + 1) \in Nat /\ size(n) < size(n + 1) /\ size(n) >= n
    BY <1>6, <2>3, <2>4
  <2>6. size(n + 1) >= n + 1
    BY <2>5
  <2> QED  BY <2>3, <2>6
<1>8. Grown(G[c]) = G[c]
  <2>1. CASE size(c) >= c
    <3>1. G[c] = DOMAIN heap
      BY <1>1, <1>6, <2>1
    <3> QED  BY <3>1 DEF Grown
  <2> QED  BY <1>1, <1>7, <2>1
<1>9. ASSUME NEW h \in G[c]
      PROVE  Refs(h) \cap DOMAIN heap \subseteq G[c]
  BY <1>8 DEF Grown
<1> QED  BY <1>1, <1>3, <1>5, <1>9 DEF A

\* The mark phase reaches nothing else: what is out of reach is isolated.
LEMMA MarkedReachable ==
    ASSUME IsFiniteSet(DOMAIN heap)
    PROVE  Marked \subseteq Reachable(GCRoots)
<1> PICK R : R = Reachable(GCRoots)
  OBVIOUS
<1> DEFINE M == Unmarked \ R
<1>1. GCRoots \cap DOMAIN heap \subseteq R /\ \A h \in R : Refs(h) \cap DOMAIN heap \subseteq R
  BY ReachableClosed
<1>2. M \in SUBSET (Unmarked \ GCRoots)
  BY <1>1 DEF Unmarked
<1>3. Isolated(M)
  BY <1>1 DEF Isolated, Unmarked
<1> QED  BY <1>2, <1>3 DEF Marked

\* What a collection leaves is static or within reach.
LEMMA CollectFrees ==
    ASSUME IInv, Collect, NEW h \in DOMAIN heap'
    PROVE  heap[h].static \/ h \in Reachable(GCRoots)
<1>1. HeldIn(Handle) /\ Table /\ Flags
  BY DEF IInv
<1>2. IsFiniteSet(DOMAIN heap)
  <2>1. next - 1 \in Int /\ IsFiniteSet(1 .. next - 1)
    BY <1>1, FS_Interval DEF Table, Handle
  <2> QED  BY <1>1, <2>1, FS_Subset DEF Table
<1>3. h \in DOMAIN heap \ Freed(Marked)
  BY <1>1, CollectEffect
<1>4. CASE h \notin Unmarked
  BY <1>1, <1>3, <1>4 DEF Unmarked, Flags
<1>5. CASE h \in Marked
  BY <1>2, <1>5, MarkedReachable
<1>6. CASE heap[h].keepalive
  <2>1. h \in GCRoots \cap DOMAIN heap
    BY <1>3, <1>6, Roots
  <2> QED  BY <1>2, <2>1, ReachableClosed
<1> QED  BY <1>3, <1>4, <1>5, <1>6 DEF Freed

\* A collection frees all garbage but static objects.
THEOREM GarbageFreedCorrect == Spec => GarbageIsFreed
<1>1. IInv /\ [Next]_vars =>
        [Collect => \E live \in {Reachable(GCRoots)} :
                       \A h \in DOMAIN heap' : heap[h].static \/ h \in live]_vars
  BY CollectFrees
<1> QED  BY <1>1, Inductive, PTL DEF Spec, GarbageIsFreed
=============================================================================
