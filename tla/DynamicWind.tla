----------------------------- MODULE DynamicWind -----------------------------
(***************************************************************************)
(* dynamic-wind and first-class continuations of one process: the five     *)
(* instructions op_dynamicwind, op_dynamicwind_after_before,               *)
(* op_dynamicwind_before_after, op_dynamicwind_done and op_wind, and what  *)
(* capturing and calling a continuation, a timer callback and System.fork  *)
(* do to the state they use (src/src/runtime.c, process.c).                *)
(*                                                                         *)
(* A user's closure is anything that pushes operands, enters dynamic-wind, *)
(* captures, calls a continuation and returns, in any order.  Calls of     *)
(* other closures, which return before anything else here happens, are     *)
(* left out: they leave this state alone.  Entry e of a dynamic-wind is    *)
(* the e-th one created, e is its mark and names its three closures.       *)
(***************************************************************************)
EXTENDS Naturals, Sequences, SequencesExt

CONSTANTS
    Values,        \* values a program computes
    MaxEntries,    \* bound: dynamic-winds entered (dynamic_wind_mark_counter)
    MaxConts,      \* bound: continuations captured
    MaxOperands,   \* bound: operands on the stack when a closure pushes one
    MaxJumps       \* bound: calls of a continuation, timer callbacks and forks

ASSUME BoundsAssumption ==
    \A n \in {MaxEntries, MaxConts, MaxOperands, MaxJumps} : n \in Nat

VARIABLES
    pc,           \* "body" inside a closure, else the instruction to execute
    closure,      \* current_closure_handle
    fstack,       \* the function stack
    opstack,      \* the operand stack
    entries,      \* the entry objects: opstack base and saved value
    dwStack,      \* dynamic_wind_stack
    afterStack,   \* dynamic_wind_after_stack
    entryReg,     \* current_dynamic_wind_entry, 0 for AM_HANDLE_NULL
    thunkReg,     \* current_dynamic_wind_thunk: the entry it belongs to, or 0
    conts,        \* the continuation objects, oldest first
    windState,    \* wind_state
    pending,      \* pending_cont_handle, pending_cont_value and the entries
    forked,       \* this is the child of a System.fork
    jumps         \* continuations called, callbacks and forks so far

stackVars == <<opstack, entries, dwStack, afterStack, entryReg, thunkReg>>
windVars  == <<windState, pending>>
countVars == <<forked, jumps>>
vars == <<pc, closure, fstack, stackVars, conts, windVars, countVars>>

Undefined == "#undefined"
Value   == Values \cup {Undefined}
Entry   == 1 .. MaxEntries
Role    == {"before", "thunk", "after"}

Main     == [role |-> "main", entry |-> 0]
Callback == [role |-> "callback", entry |-> 0]
Before(e) == [role |-> "before", entry |-> e]
Thunk(e)  == [role |-> "thunk", entry |-> e]
After(e)  == [role |-> "after", entry |-> e]

NoPending == [cont |-> 0, value |-> Undefined, afters |-> <<>>, befores |-> <<>>]

Init ==
    /\ pc = "body" /\ closure = Main
    /\ fstack = <<>> /\ opstack = <<>> /\ entries = <<>>
    /\ dwStack = <<>> /\ afterStack = <<>>
    /\ entryReg = 0 /\ thunkReg = 0
    /\ conts = <<>>
    /\ windState = 0 /\ pending = NoPending
    /\ forked = FALSE /\ jumps = 0

-----------------------------------------------------------------------------
(* Helpers *)

\* dynamic_wind_call_closure, am_runtime_call_async: the closure runs and
\* returns to instruction ret.
Call(c, ret) ==
    /\ fstack' = Append(fstack, [closure |-> closure, ret |-> ret])
    /\ closure' = c
    /\ pc' = "body"

\* am_runtime_error: the instruction fails, the tick stops the process, and
\* the registers keep what the instruction has changed so far.
Fail ==
    /\ pc' = "failed"
    /\ UNCHANGED <<closure, fstack>>

\* dynamic_wind_trim_opstack_to_base
Trimmed(b) == IF Len(opstack) > b THEN SubSeq(opstack, 1, b) ELSE opstack

\* ... and what it returns: the value popped last.
LastPopped(b) == IF Len(opstack) > b THEN opstack[b + 1] ELSE Undefined

\* dynamic_wind_common_prefix: how many entries the two stacks share.
CommonPrefix(s, t) == Len(LongestCommonPrefix({s, t}))

-----------------------------------------------------------------------------
(* A user's closure *)

\* Statements leave their values on the operand stack: the compiler emits no
\* pop between the expressions of a body.
Push(v) ==
    /\ pc = "body"
    /\ Len(opstack) < MaxOperands
    /\ opstack' = Append(opstack, v)
    /\ UNCHANGED <<pc, closure, fstack, entries, dwStack, afterStack, entryReg,
                   thunkReg, conts, windVars, countVars>>

\* op_return; the main program ends in a halt instruction instead.
Return ==
    /\ pc = "body"
    /\ IF fstack = <<>>
       THEN pc' = "halt" /\ UNCHANGED <<closure, fstack>>
       ELSE /\ pc' = Last(fstack).ret
            /\ closure' = Last(fstack).closure
            /\ fstack' = Front(fstack)
    /\ UNCHANGED <<stackVars, conts, windVars, countVars>>

\* Mutant: the base is taken before the three closures are popped.
DynamicWindBaseTooHigh ==
    /\ pc = "body"
    /\ Len(entries) < MaxEntries
    /\ LET e == Len(entries) + 1
       IN  /\ entries' = Append(entries, [base |-> Len(opstack) + 3, saved |-> Undefined])
           /\ entryReg' = e
           /\ thunkReg' = e
           /\ Call(Before(e), "after_before")
    /\ UNCHANGED <<opstack, dwStack, afterStack, conts, windVars, countVars>>

\* op_dynamicwind: the three closures have been pushed and are popped again.
DynamicWind ==
    /\ pc = "body"
    /\ Len(entries) < MaxEntries
    /\ LET e == Len(entries) + 1
       IN  /\ entries' = Append(entries, [base |-> Len(opstack), saved |-> Undefined])
           /\ entryReg' = e
           /\ thunkReg' = e
           /\ Call(Before(e), "after_before")
    /\ UNCHANGED <<opstack, dwStack, afterStack, conts, windVars, countVars>>

\* op_capturecc, am_process_capture_continuation: the stacks and the two
\* registers are copied, the entry objects are not.
Capture ==
    /\ pc = "body"
    /\ Len(conts) < MaxConts
    /\ conts' = Append(conts, [closure    |-> closure,
                               fstack     |-> fstack,
                               opstack    |-> opstack,
                               dwStack    |-> dwStack,
                               afterStack |-> afterStack,
                               entryReg   |-> entryReg,
                               thunkReg   |-> thunkReg])
    /\ UNCHANGED <<pc, closure, fstack, stackVars, windVars, countVars>>

\* Mutant: the after stack is not part of the snapshot either.
RestoreKeepsAfters(k, v) ==
    /\ pc' = "body"
    /\ closure' = k.closure
    /\ fstack' = k.fstack
    /\ opstack' = Append(k.opstack, v)
    /\ entryReg' = k.entryReg
    /\ thunkReg' = k.thunkReg
    /\ UNCHANGED afterStack

\* am_process_restore_continuation_snapshot, and the value pushed: all but the
\* wind stack, which is not restored.
Restore(k, v) ==
    /\ pc' = "body"
    /\ closure' = k.closure
    /\ fstack' = k.fstack
    /\ opstack' = Append(k.opstack, v)
    /\ afterStack' = k.afterStack
    /\ entryReg' = k.entryReg
    /\ thunkReg' = k.thunkReg

\* Mutant: off by one, the first before is left out.
AdjustmentSkipsBefore(i, v, n) ==
    LET target == conts[i].dwStack
    IN  [cont    |-> i,
         value   |-> v,
         afters  |-> Reverse(SubSeq(dwStack, n + 1, Len(dwStack))),
         befores |-> SubSeq(target, n + 2, Len(target))]

\* am_process_load_continuation: what op_wind has to run, the afters of the
\* entries beyond the first n of this stack, and the befores of the target's.
Adjustment(i, v, n) ==
    LET target == conts[i].dwStack
    IN  [cont    |-> i,
         value   |-> v,
         afters  |-> Reverse(SubSeq(dwStack, n + 1, Len(dwStack))),
         befores |-> SubSeq(target, n + 1, Len(target))]

StartWind(adjustment) ==
    /\ pending' = adjustment
    /\ windState' = 1
    /\ pc' = "wind"
    /\ \/ fstack' = Append(fstack, [closure |-> closure, ret |-> "body"])
       \/ UNCHANGED fstack
    /\ UNCHANGED <<closure, opstack, afterStack, entryReg, thunkReg>>

\* Mutant: two wind stacks of the same length are taken for the same.
CallContinuationByLength(i, v) ==
    /\ pc = "body"
    /\ jumps < MaxJumps
    /\ jumps' = jumps + 1
    /\ IF Len(dwStack) = Len(conts[i].dwStack)
       THEN Restore(conts[i], v) /\ UNCHANGED windVars
       ELSE StartWind(Adjustment(i, v, CommonPrefix(dwStack, conts[i].dwStack)))
    /\ UNCHANGED <<entries, dwStack, conts, forked>>

\* op_call_async on a continuation: a call that is not in tail position has
\* pushed a frame, which stays below the afters and befores there are to run.
CallContinuation(i, v) ==
    /\ pc = "body"
    /\ jumps < MaxJumps
    /\ jumps' = jumps + 1
    /\ IF dwStack = conts[i].dwStack
       THEN Restore(conts[i], v) /\ UNCHANGED windVars
       ELSE StartWind(Adjustment(i, v, CommonPrefix(dwStack, conts[i].dwStack)))
    /\ UNCHANGED <<entries, dwStack, conts, forked>>

\* runtime_fire_expired_timers between two instructions, of a halted process
\* as well: the callback returns to where the process was.  (What callbacks do
\* in a process an error has stopped is left out.)
TimerCallback ==
    /\ pc # "failed"
    /\ jumps < MaxJumps
    /\ jumps' = jumps + 1
    /\ Call(Callback, pc)
    /\ UNCHANGED <<stackVars, conts, windVars, forked>>

\* am_fork_process_copy, seen from the child: the registers and the pending
\* wind are cleared, and am_continuation_copy copies no more of a continuation
\* than its two stacks and the wind stack.
Fork ==
    /\ pc = "body"
    /\ jumps < MaxJumps
    /\ jumps' = jumps + 1
    /\ forked' = TRUE
    /\ entryReg' = 0
    /\ thunkReg' = 0
    /\ windState' = 0
    /\ pending' = NoPending
    /\ conts' = [i \in DOMAIN conts |->
                   [conts[i] EXCEPT !.afterStack = <<>>, !.entryReg = 0, !.thunkReg = 0]]
    /\ UNCHANGED <<pc, closure, fstack, opstack, entries, dwStack, afterStack>>

-----------------------------------------------------------------------------
(* The instructions after op_dynamicwind *)

\* op_dynamicwind_after_before: the before has returned.
AfterBefore ==
    /\ pc = "after_before"
    /\ IF entryReg = 0
       THEN Fail /\ UNCHANGED <<opstack, entryReg, dwStack>>
       ELSE /\ opstack' = Trimmed(entries[entryReg].base)
            /\ entryReg' = 0
            /\ dwStack' = Append(dwStack, entryReg)
            /\ IF thunkReg = 0 THEN Fail ELSE Call(Thunk(thunkReg), "before_after")
    /\ UNCHANGED <<entries, afterStack, thunkReg, conts, windVars, countVars>>

\* op_dynamicwind_before_after: the thunk has returned.
BeforeAfter ==
    /\ pc = "before_after"
    /\ IF dwStack = <<>>
       THEN Fail /\ UNCHANGED stackVars
       ELSE LET e == Last(dwStack)
                b == entries[e].base
            IN  /\ dwStack' = Front(dwStack)
                /\ opstack' = Trimmed(b)
                /\ entries' = [entries EXCEPT ![e].saved = LastPopped(b)]
                /\ afterStack' = Append(afterStack, e)
                /\ thunkReg' = 0
                /\ Call(After(e), "done")
                /\ UNCHANGED entryReg
    /\ UNCHANGED <<conts, windVars, countVars>>

\* op_dynamicwind_done: the after has returned.
Done ==
    /\ pc = "done"
    /\ IF afterStack = <<>>
       THEN Fail /\ UNCHANGED <<afterStack, opstack>>
       ELSE LET e == entries[Last(afterStack)]
            IN  /\ afterStack' = Front(afterStack)
                /\ opstack' = Append(Trimmed(e.base), e.saved)
                /\ pc' = "body"
                /\ UNCHANGED <<closure, fstack>>
    /\ UNCHANGED <<entries, dwStack, entryReg, thunkReg, conts, windVars, countVars>>

-----------------------------------------------------------------------------
(* op_wind, the trampoline *)

\* wind_state 1: take the last of the pending afters and run it.
WindAfter ==
    /\ pc = "wind" /\ windState = 1
    /\ pending.afters # <<>>
    /\ LET e == Last(pending.afters)
       IN  /\ pending' = [pending EXCEPT !.afters = Front(@)]
           /\ IF dwStack = <<>> \/ Last(dwStack) # e
              THEN Fail /\ UNCHANGED dwStack
              ELSE /\ dwStack' = Front(dwStack)
                   /\ Call(After(e), "wind")
    /\ UNCHANGED <<opstack, entries, afterStack, entryReg, thunkReg, windState, conts, countVars>>

\* Mutant: the before of an entry that is entered again is not run.
WindBeforeSkipped ==
    /\ pc = "wind" /\ windState = 2
    /\ pending.befores # <<>>
    /\ pending' = [pending EXCEPT !.befores = Tail(@)]
    /\ dwStack' = Append(dwStack, Head(pending.befores))
    /\ UNCHANGED <<pc, closure, fstack, opstack, entries, afterStack, entryReg, thunkReg,
                   windState, conts, countVars>>

\* wind_state 2: enter the next dynamic-wind and run its before.
WindBefore ==
    /\ pc = "wind" /\ windState = 2
    /\ pending.befores # <<>>
    /\ LET e == Head(pending.befores)
       IN  /\ pending' = [pending EXCEPT !.befores = Tail(@)]
           /\ dwStack' = Append(dwStack, e)
           /\ Call(Before(e), "wind")
    /\ UNCHANGED <<opstack, entries, afterStack, entryReg, thunkReg, windState, conts, countVars>>

\* No after, or no before, is left.
WindNext ==
    /\ pc = "wind"
    /\ \/ windState = 1 /\ pending.afters = <<>>
       \/ windState = 2 /\ pending.befores = <<>>
    /\ windState' = windState + 1
    /\ UNCHANGED <<pc, closure, fstack, stackVars, pending, conts, countVars>>

\* Mutant: wind_state is not reset.
WindRestoreStaysInState ==
    /\ pc = "wind" /\ windState = 3
    /\ Restore(conts[pending.cont], pending.value)
    /\ pending' = NoPending
    /\ UNCHANGED <<windState, entries, dwStack, conts, countVars>>

\* wind_state 3: restore the continuation.
WindRestore ==
    /\ pc = "wind" /\ windState = 3
    /\ Restore(conts[pending.cont], pending.value)
    /\ windState' = 0
    /\ pending' = NoPending
    /\ UNCHANGED <<entries, dwStack, conts, countVars>>

\* Any other wind_state.
WindIllegal ==
    /\ pc = "wind" /\ windState = 0
    /\ Fail
    /\ UNCHANGED <<stackVars, conts, windVars, countVars>>

User ==
    \/ \E v \in Values : Push(v)
    \/ Return
    \/ DynamicWind
    \/ Capture
    \/ \E i \in DOMAIN conts, v \in Values : CallContinuation(i, v)
    \/ Fork

Instruction ==
    \/ AfterBefore \/ BeforeAfter \/ Done
    \/ WindAfter \/ WindBefore \/ WindNext \/ WindRestore \/ WindIllegal

Next == User \/ TimerCallback \/ Instruction

Spec == Init /\ [][Next]_vars
-----------------------------------------------------------------------------
(* Properties *)

TypeOK ==
    /\ pc \in {"body", "after_before", "before_after", "done", "wind", "halt", "failed"}
    /\ closure \in [role : Role \cup {"main", "callback"}, entry : 0 .. MaxEntries]
    /\ \A i \in DOMAIN fstack : fstack[i].closure.entry <= Len(entries)
    /\ opstack \in Seq(Value)
    /\ Len(entries) <= MaxEntries
    /\ Range(dwStack) \cup Range(afterStack) \subseteq DOMAIN entries
    /\ {entryReg, thunkReg} \subseteq {0} \cup DOMAIN entries
    /\ windState \in 0 .. 3
    /\ windState # 0 => pending.cont \in DOMAIN conts
    /\ jumps \in 0 .. MaxJumps

\* The closures control is inside, innermost last: the i+1st runs above frame i.
Above == Append([i \in DOMAIN fstack |-> fstack[i].closure], closure)
Pending(ret) == {i \in DOMAIN fstack : fstack[i].ret = ret}

\* The k-th of the frames that return to ret has the k-th entry of the stack s
\* running above it, or a timer callback that came when it had returned.
Matches(s, ret, Closure(_)) ==
    LET frames == Pending(ret)
        rank(i) == Cardinality({j \in frames : j <= i})
    IN  /\ Len(s) = Cardinality(frames) + (IF pc = ret THEN 1 ELSE 0)
        /\ \A i \in frames : Above[i + 1] \in {Closure(s[rank(i)]), Callback}

\* An after or before of a wind is on a function stack.
InWind(stack) == \E i \in DOMAIN stack : stack[i].ret = "wind"

\* No continuation was captured in the after or before of a wind.  One that was
\* goes back to a trampoline that knows nothing of it (TrampolineHasAWind).
NoneCapturedInWind == \A i \in DOMAIN conts : ~InWind(conts[i].fstack)

\* The entries on the wind stack are those of the thunks control is inside,
\* outermost first, however control came there: by calls, by continuations
\* or by both (dynamic_wind_stack against the function stack).  While a wind
\* runs, one of its afters or befores is on the function stack.
WindStackMatchesFrames ==
    NoneCapturedInWind /\ pc \notin {"failed", "wind"} /\ ~InWind(fstack) =>
        Matches(dwStack, "before_after", Thunk)

\* The entries on the after stack are those of the afters in progress, so that
\* each after that returns finds its own entry and gives back its own thunk's
\* value (dynamic_wind_after_stack against the function stack).  In the child of
\* a fork it does not hold (ChildFindsAfterEntry).
AfterStackMatchesFrames ==
    ~forked /\ pc # "failed" => Matches(afterStack, "done", After)

\* An instruction that trims the operand stack to the base of its entry never
\* finds it shorter, and takes nothing a caller has pushed.  (A continuation
\* captured in a wind brings its frames back over another operand stack.)
BaseInBounds ==
    NoneCapturedInWind =>
        /\ pc = "after_before" /\ entryReg # 0 => entries[entryReg].base <= Len(opstack)
        /\ pc = "before_after" /\ dwStack # <<>> => entries[Last(dwStack)].base <= Len(opstack)
        /\ pc = "done" /\ afterStack # <<>> => entries[Last(afterStack)].base <= Len(opstack)

\* Control enters and leaves the extent of a dynamic-wind one at a time, the
\* innermost one, and not without running its thunk or before, or its after
\* (the contract of dynamic-wind; op_wind never skips one).
ExtentsCrossedInOrder ==
    [][\/ dwStack' = dwStack
       \/ dwStack # <<>> /\ dwStack' = Front(dwStack) /\ closure' = After(Last(dwStack))
       \/ /\ dwStack' # <<>> /\ dwStack = Front(dwStack')
          /\ pc' # "failed" => closure' \in {Before(Last(dwStack')), Thunk(Last(dwStack'))}]_vars

\* When a continuation is restored, control is inside the very extents it was
\* captured in (op_wind, state 3: the wind stack is not part of the snapshot).
RestoredInItsExtents ==
    [][NoneCapturedInWind /\ pc = "wind" /\ pc' = "body" /\ windState = 3 => dwStack = conts[pending.cont].dwStack]_vars

-----------------------------------------------------------------------------
(* What the comments say, and the code does not do *)

\* A wind runs the afters from the inside outwards (runtime.c:1131,
\* process.c:925), so that the next one is always the top of the wind stack.
AftersRunInnermostFirst ==
    pc = "wind" /\ windState = 1 /\ pending.afters # <<>> =>
        dwStack # <<>> /\ Last(dwStack) = Last(pending.afters)

\* The entry is kept in its register between before and thunk (process.h:97),
\* so that it is there when the before returns.
EntryKeptDuringBefore == pc = "after_before" => entryReg # 0

\* The value the thunk returns, the last one it has pushed, is saved and given
\* back after the after (runtime.c:1061, 1076).
ThunkValueReturned ==
    [][pc = "before_after" /\ Len(afterStack') > Len(afterStack) =>
         LET e == Last(afterStack')
         IN  Len(opstack) > entries[e].base => entries'[e].saved = Last(opstack)]_vars

\* A continuation captured in a before or an after can be resumed
\* (process.c:784): when it returns to the trampoline, a wind is in progress.
TrampolineHasAWind == pc = "wind" => windState # 0

\* ... and gives back the value its thunk had returned when it was captured:
\* the entries of a continuation's after stack keep their saved values.
SavedValueKept ==
    [][\A i \in DOMAIN conts : \A e \in Range(conts[i].afterStack) :
         entries'[e].saved = entries[e].saved]_vars

\* System.fork keeps all of the process but pid and parent_pid
\* (native_System.c:900): the after of the child finds its entry.
ChildFindsAfterEntry == pc = "done" => afterStack # <<>>
=============================================================================
