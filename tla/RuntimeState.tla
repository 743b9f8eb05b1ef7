---------------------------- MODULE RuntimeState ----------------------------
(***************************************************************************)
(* The state of am_runtime_t (src/src/runtime.c, src/include/runtime.h)    *)
(* that the scheduler, the timers and the IPC queues share, and the few    *)
(* list operations all of them use.  IPCQueue, Timer and Runtime add the   *)
(* operations.                                                             *)
(*                                                                         *)
(* Time is kept relative: a deadline is the number of milliseconds left,   *)
(* 0 meaning that it is due.  The code compares absolute times             *)
(* (deadline_ms <= now), which is the same test.                           *)
(***************************************************************************)
EXTENDS Naturals, Sequences, FiniteSets, Functions

CONSTANTS
    MaxProcs,     \* bound: processes ever created (process_pool)
    MaxQueues,    \* bound: queues ever created (queue_list)
    MaxTimers,    \* bound: timers ever set (timer_next_id)
    MaxImages,    \* bound: System.exec calls per process
    MaxConts,     \* bound: different values of frames in all continuations
    FStackCap,    \* frames the function stack holds (2048 in the code)
    PhaseLength,  \* ticks per event cycle (AM_COMPUTATION_PHASE_LENGTH)
    Values,       \* values a program writes to a queue
    Capacities,   \* queue lengths a program asks for
    Timeouts,     \* timeouts a program passes to read and write
    Delays        \* delays a program passes to set_timeout and set_interval

ASSUME BoundsAssumption ==
    /\ MaxProcs \in Nat \ {0}
    /\ MaxQueues \in Nat
    /\ MaxTimers \in Nat
    /\ MaxImages \in Nat
    /\ MaxConts \in Nat
    /\ FStackCap \in Nat
    /\ PhaseLength \in Nat \ {0}

ASSUME InputsAssumption ==
    /\ Capacities \subseteq Nat \ {0}
    /\ Timeouts \subseteq Nat
    /\ Delays \subseteq Nat

VARIABLES
    nprocs,    \* process_poll_counter: the next pid
    state,     \* am_process_t.state, "FREE" for an empty slot of process_pool
    pc,        \* "code", or "halt" when the next instruction stops the process
    frames,    \* return targets of the timer callbacks on the function stack
    conts,     \* those on the stacks that the heap's continuations have saved
    image,     \* how often System.exec replaced the process
    pending,   \* am_process_t.pending_kill
    gutted,    \* runtime_process_gut has released heap, stacks and code
    result,    \* what the last read or write put on the operand stack
    runq,      \* process_queue
    cur,       \* pid the tick is executing, NoPid between ticks
    nqueues,   \* queue_next_id - 1
    capacity,  \* am_queue_t.capacity
    items,     \* am_queue_t.items
    sendq,     \* am_queue_t.send_waiters, head first
    recvq,     \* am_queue_t.recv_waiters, head first
    ntimers,   \* timer_next_id - 1
    timer,     \* the timers by id; timer_list is in decreasing order of id
    phase,     \* where am_runtime_start and am_runtime_event_handler are
    ticks,     \* ticks left in the computation phase of this event cycle
    due        \* expired timers runtime_fire_expired_timers has yet to visit

procVars  == <<nprocs, state, pc, frames, conts, image, pending, gutted>>
queueVars == <<nqueues, capacity, items, sendq, recvq>>
timerVars == <<ntimers, timer>>
loopVars  == <<phase, ticks, due>>
vars == <<procVars, result, runq, cur, queueVars, timerVars, loopVars>>

Pid     == 0 .. MaxProcs - 1
NoPid   == MaxProcs
QueueId == 1 .. MaxQueues
TimerId == 1 .. MaxTimers

\* SLEEPING is never assigned; SUSPENDED only by op_pause, which the compiler
\* never emits.
ProcState == {"FREE", "READY", "RUNNING", "STOPPED", "BLOCKED", "KILLED"}
Target    == {"code", "halt"}
Result    == {"none", "#t", "#f", "#undefined"} \cup Values
Phase     == {"ticks", "waiters", "timers", "decide", "idle"}

\* am_queue_waiter_t; a receiver's value is not used.
Sender   == [pid : Pid, value : Values, left : Nat]
Receiver == [pid : Pid, left : Nat]

\* A timer that was never set, or is unlinked and freed.
NoTimer == [pid |-> NoPid, left |-> 0, interval |-> 0, repeat |-> FALSE, image |-> 0]
Timer == [pid : Pid, left : Nat, interval : Nat, repeat : BOOLEAN, image : Nat]

-----------------------------------------------------------------------------
(* Lists *)

\* s without the entries outside keep, order kept: entry i moves to the place
\* that counts the kept entries up to i, the "write" index of the C loops.
Compact(s, keep) ==
    LET write(i) == Cardinality({j \in keep : j <= i})
    IN  [k \in 1 .. Cardinality(keep) |-> s[CHOOSE i \in keep : write(i) = k]]

WithoutPid(s, p) == Compact(s, {i \in DOMAIN s : s[i] # p})

WithoutWaiter(ws, p) == Compact(ws, {i \in DOMAIN ws : ws[i].pid # p})

WithoutIndex(s, i) == Compact(s, DOMAIN s \ {i})

-----------------------------------------------------------------------------
(* Processes *)

\* The tick is inside process p and p may run its next instruction.
Executing(p) == cur = p /\ state[p] = "RUNNING" /\ pc[p] = "code"

\* runtime_queue_wake_process: put the result on p's operand stack, step over
\* the native call, make p READY and append it to the run queue.  result0 is
\* the operand stacks as the caller leaves them.
Wake(p, r, result0) ==
    /\ result' = [result0 EXCEPT ![p] = r]
    /\ state' = [state EXCEPT ![p] = "READY"]
    /\ runq' = Append(runq, p)
=============================================================================
