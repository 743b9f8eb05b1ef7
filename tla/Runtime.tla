------------------------------ MODULE Runtime ------------------------------
(***************************************************************************)
(* The virtual machine of src/src/runtime.c: processes under a round-robin *)
(* scheduler, inside the event loop of am_runtime_start.  One event cycle  *)
(* runs PhaseLength ticks, times out queue waiters, fires timers, and then *)
(* goes on, sleeps until the next deadline, or goes IDLE for good.         *)
(*                                                                         *)
(* What a process computes is not modelled: inside a tick it may call any  *)
(* of the natives below, in any order, stop, or lose the processor.        *)
(***************************************************************************)
EXTENDS IPCQueue, Timer

Init ==
    /\ nprocs = 1
    /\ state = [p \in Pid |-> IF p = 0 THEN "READY" ELSE "FREE"]
    /\ pc = [p \in Pid |-> "code"]
    /\ frames = [p \in Pid |-> <<>>]
    /\ conts = [p \in Pid |-> {}]
    /\ image = [p \in Pid |-> 0]
    /\ pending = [p \in Pid |-> FALSE]
    /\ gutted = [p \in Pid |-> FALSE]
    /\ result = [p \in Pid |-> "none"]
    /\ runq = <<0>>
    /\ cur = NoPid
    /\ nqueues = 0
    /\ capacity = [q \in QueueId |-> 0]
    /\ items = [q \in QueueId |-> <<>>]
    /\ sendq = [q \in QueueId |-> <<>>]
    /\ recvq = [q \in QueueId |-> <<>>]
    /\ ntimers = 0
    /\ timer = [t \in TimerId |-> NoTimer]
    /\ phase = "ticks"
    /\ ticks = PhaseLength
    /\ due = {}

-----------------------------------------------------------------------------
(* What the current process does *)

\* System.exit, and op_halt at the end of the program.  The PC stays on the
\* instruction, so running the process again stops it again.
Halt(p) ==
    /\ cur = p
    /\ state[p] = "RUNNING"
    /\ state' = [state EXCEPT ![p] = "STOPPED"]
    /\ pc' = [pc EXCEPT ![p] = "halt"]
    /\ UNCHANGED <<nprocs, frames, conts, image, pending, gutted, result, runq, cur,
                   queueVars, timerVars, loopVars>>

\* An instruction fails; am_runtime_tick stops the process where it is.
Fail(p) ==
    /\ Executing(p)
    /\ state' = [state EXCEPT ![p] = "STOPPED"]
    /\ UNCHANGED <<nprocs, pc, frames, conts, image, pending, gutted, result, runq, cur,
                   queueVars, timerVars, loopVars>>

\* op_return at the end of a timer callback.
CallbackReturn(p) ==
    /\ Executing(p)
    /\ frames[p] # <<>>
    /\ pc' = [pc EXCEPT ![p] = frames[p][Len(frames[p])]]
    /\ frames' = [frames EXCEPT ![p] = SubSeq(@, 1, Len(@) - 1)]
    /\ UNCHANGED <<nprocs, state, conts, image, pending, gutted, result, runq, cur,
                   queueVars, timerVars, loopVars>>

\* op_capturecc: a copy of the function stack goes to the heap.
Capture(p) ==
    /\ Executing(p)
    /\ Cardinality(UNION Range(conts) \cup {frames[p]}) <= MaxConts
    /\ conts' = [conts EXCEPT ![p] = @ \cup {frames[p]}]
    /\ UNCHANGED <<nprocs, state, pc, frames, image, pending, gutted, result, runq, cur,
                   queueVars, timerVars, loopVars>>

\* A call of a continuation, once the afters and befores that it takes have run:
\* am_process_restore_continuation_snapshot puts the saved stack in the place
\* of the one there is, and the program goes on where it was captured.
CallContinuation(p) ==
    /\ Executing(p)
    /\ \E saved \in conts[p] : frames' = [frames EXCEPT ![p] = saved]
    /\ UNCHANGED <<nprocs, state, pc, conts, image, pending, gutted, result, runq, cur,
                   queueVars, timerVars, loopVars>>

\* System.fork: the child is a copy, without the parent's timers; parent and
\* child go to the end of the run queue, in this order.
Fork(p) ==
    LET c == nprocs IN
    /\ Executing(p)
    /\ nprocs < MaxProcs
    /\ nprocs' = nprocs + 1
    /\ state' = [state EXCEPT ![p] = "READY", ![c] = "READY"]
    /\ pc' = [pc EXCEPT ![c] = pc[p]]
    /\ frames' = [frames EXCEPT ![c] = frames[p]]
    /\ conts' = [conts EXCEPT ![c] = conts[p]]
    /\ runq' = Append(Append(runq, p), c)
    /\ UNCHANGED <<image, pending, gutted, result, cur, queueVars, timerVars, loopVars>>

\* System.exec: new code, stacks and heap under the old pid.  The timers of
\* the process stay in timer_list.
Exec(p) ==
    /\ Executing(p)
    /\ image[p] < MaxImages
    /\ image' = [image EXCEPT ![p] = @ + 1]
    /\ frames' = [frames EXCEPT ![p] = <<>>]
    /\ conts' = [conts EXCEPT ![p] = {}]
    /\ result' = [result EXCEPT ![p] = "none"]
    /\ UNCHANGED <<nprocs, state, pc, pending, gutted, runq, cur,
                   queueVars, timerVars, loopVars>>

\* runtime_process_gut releases the target at once, or, when its state is
\* RUNNING, is left to the end of the tick.
GutOrDefer(k) ==
    IF state[k] = "RUNNING"
    THEN /\ pending' = [pending EXCEPT ![k] = TRUE]
         /\ UNCHANGED <<gutted, pc, frames, conts>>
    ELSE /\ gutted' = [gutted EXCEPT ![k] = TRUE]
         /\ pc' = [pc EXCEPT ![k] = "code"]
         /\ frames' = [frames EXCEPT ![k] = <<>>]
         /\ conts' = [conts EXCEPT ![k] = {}]
         /\ UNCHANGED pending

\* Mutant: the target's timers stay.
KillKeepsTimers(p, k) ==
    /\ Executing(p)
    /\ k < nprocs
    /\ state[k] # "KILLED"
    /\ state' = [state EXCEPT ![k] = "KILLED"]
    /\ sendq' = [q \in QueueId |-> WithoutWaiter(sendq[q], k)]
    /\ recvq' = [q \in QueueId |-> WithoutWaiter(recvq[q], k)]
    /\ runq' = WithoutPid(runq, k)
    /\ GutOrDefer(k)
    /\ UNCHANGED <<nprocs, image, result, cur, nqueues, capacity, items, timerVars, loopVars>>

\* Mutant: the target's waiters stay.
KillKeepsWaiters(p, k) ==
    /\ Executing(p)
    /\ k < nprocs
    /\ state[k] # "KILLED"
    /\ state' = [state EXCEPT ![k] = "KILLED"]
    /\ timer' = [t \in TimerId |-> IF timer[t].pid = k THEN NoTimer ELSE timer[t]]
    /\ runq' = WithoutPid(runq, k)
    /\ GutOrDefer(k)
    /\ UNCHANGED <<nprocs, image, result, cur, queueVars, ntimers, loopVars>>

\* System.kill -> am_runtime_kill_process; killing a pid that does not exist
\* or is killed already returns #f and changes nothing.
Kill(p, k) ==
    /\ Executing(p)
    /\ k < nprocs
    /\ state[k] # "KILLED"
    /\ state' = [state EXCEPT ![k] = "KILLED"]
    /\ timer' = [t \in TimerId |-> IF timer[t].pid = k THEN NoTimer ELSE timer[t]]
    /\ sendq' = [q \in QueueId |-> WithoutWaiter(sendq[q], k)]
    /\ recvq' = [q \in QueueId |-> WithoutWaiter(recvq[q], k)]
    /\ runq' = WithoutPid(runq, k)
    /\ GutOrDefer(k)
    /\ UNCHANGED <<nprocs, image, result, cur, nqueues, capacity, items, ntimers, loopVars>>

Instruction(p) ==
    \/ Halt(p)
    \/ Fail(p)
    \/ CallbackReturn(p)
    \/ Capture(p)
    \/ CallContinuation(p)
    \/ Fork(p)
    \/ Exec(p)
    \/ \E k \in Pid : Kill(p, k)
    \/ \E len \in Capacities : MakeQueue(p, len)
    \/ \E q \in QueueId, v \in Values, t \in Timeouts : QueueWrite(p, q, v, t)
    \/ \E q \in QueueId, t \in Timeouts : QueueRead(p, q, t)
    \/ \E d \in Delays, repeat \in BOOLEAN : SetTimer(p, d, repeat)
    \/ \E t \in TimerId : ClearTimer(p, t)

-----------------------------------------------------------------------------
(* am_runtime_tick *)

TickBegin ==
    /\ phase = "ticks"
    /\ cur = NoPid
    /\ ticks > 0
    /\ runq # <<>>
    /\ cur' = Head(runq)
    /\ runq' = Tail(runq)
    /\ state' = [state EXCEPT ![Head(runq)] = "RUNNING"]
    /\ ticks' = ticks - 1
    /\ UNCHANGED <<nprocs, pc, frames, conts, image, pending, gutted, result,
                   queueVars, timerVars, phase, due>>

\* Mutant: whatever the process did in its slice, it is queued again.
SliceEndRequeuesAny ==
    /\ cur # NoPid
    /\ state' = [state EXCEPT ![cur] = "READY"]
    /\ runq' = Append(runq, cur)
    /\ cur' = NoPid
    /\ UNCHANGED <<nprocs, pc, frames, conts, image, pending, gutted, result,
                   queueVars, timerVars, loopVars>>

\* Mutant: the process goes to the front of the run queue.
SliceEndToFront ==
    /\ cur # NoPid
    /\ state[cur] = "RUNNING"
    /\ state' = [state EXCEPT ![cur] = "READY"]
    /\ runq' = <<cur>> \o runq
    /\ cur' = NoPid
    /\ UNCHANGED <<nprocs, pc, frames, conts, image, pending, gutted, result,
                   queueVars, timerVars, loopVars>>

\* The time slice is used up.
SliceEnd ==
    /\ cur # NoPid
    /\ state[cur] = "RUNNING"
    /\ state' = [state EXCEPT ![cur] = "READY"]
    /\ runq' = Append(runq, cur)
    /\ cur' = NoPid
    /\ UNCHANGED <<nprocs, pc, frames, conts, image, pending, gutted, result,
                   queueVars, timerVars, loopVars>>

\* The process stopped, blocked, forked or was killed inside its slice; a kill
\* that was deferred is completed here.
TickEnd ==
    /\ cur # NoPid
    /\ state[cur] # "RUNNING"
    /\ cur' = NoPid
    /\ IF state[cur] = "KILLED" /\ pending[cur]
       THEN /\ gutted' = [gutted EXCEPT ![cur] = TRUE]
            /\ pending' = [pending EXCEPT ![cur] = FALSE]
            /\ pc' = [pc EXCEPT ![cur] = "code"]
            /\ frames' = [frames EXCEPT ![cur] = <<>>]
            /\ conts' = [conts EXCEPT ![cur] = {}]
       ELSE UNCHANGED <<gutted, pending, pc, frames, conts>>
    /\ UNCHANGED <<nprocs, state, image, result, runq, queueVars, timerVars, loopVars>>

-----------------------------------------------------------------------------
(* am_runtime_event_handler and am_runtime_start *)

\* The computation phase ends; the garbage collection that follows touches
\* none of this state.
PhaseEnd ==
    /\ phase = "ticks"
    /\ cur = NoPid
    /\ ticks = 0 \/ runq = <<>>
    /\ phase' = "waiters"
    /\ UNCHANGED <<procVars, result, runq, cur, queueVars, timerVars, ticks, due>>

\* Mutant: the timers of processes that stopped are not looked at.
WaitersEndForRunning ==
    /\ phase = "waiters"
    /\ 0 \notin WaiterTimes
    /\ phase' = "timers"
    /\ due' = {t \in TimersOfRunning : timer[t].left = 0}
    /\ UNCHANGED <<procVars, result, runq, cur, queueVars, timerVars, ticks>>

WaitersEnd ==
    /\ phase = "waiters"
    /\ 0 \notin WaiterTimes
    /\ phase' = "timers"
    /\ due' = {t \in TimerId : IsSet(t) /\ timer[t].left = 0}
    /\ UNCHANGED <<procVars, result, runq, cur, queueVars, timerVars, ticks>>

TimersEnd ==
    /\ phase = "timers"
    /\ due = {}
    /\ phase' = "decide"
    /\ UNCHANGED <<procVars, result, runq, cur, queueVars, timerVars, ticks, due>>

\* Mutant: the time left is not cut off at 0.
LaterUnbounded(left, d) == left - d

\* d milliseconds pass.
Later(left, d) == IF left > d THEN left - d ELSE 0
LaterWaiters(wq, d) ==
    [q \in QueueId |-> [i \in DOMAIN wq[q] |-> [wq[q][i] EXCEPT !.left = Later(@, d)]]]
Pass(d) ==
    /\ sendq' = LaterWaiters(sendq, d)
    /\ recvq' = LaterWaiters(recvq, d)
    /\ timer' = [t \in TimerId |-> [timer[t] EXCEPT !.left = Later(@, d)]]

NextCycle == phase' = "ticks" /\ ticks' = PhaseLength

\* A process is ready.
GoOn ==
    /\ phase = "decide"
    /\ runq # <<>>
    /\ NextCycle
    /\ UNCHANGED <<procVars, result, runq, cur, queueVars, timerVars, due>>

\* No process is ready, but a waiter or a timer is: sleep to the nearest
\* deadline, not at all if that is past.
Deadlines == WaiterTimes \cup {timer[t].left : t \in NonblockedTimers}
IsNearest(d, S) == d \in S /\ \A e \in S : d <= e

Sleep ==
    /\ phase = "decide"
    /\ runq = <<>>
    /\ HasNonblockedTimer \/ HasWaiters
    /\ \E d \in Deadlines : IsNearest(d, Deadlines) /\ Pass(d)
    /\ NextCycle
    /\ UNCHANGED <<procVars, result, runq, cur, nqueues, capacity, items, ntimers, due>>

GoIdle ==
    /\ phase = "decide"
    /\ runq = <<>>
    /\ ~HasNonblockedTimer /\ ~HasWaiters
    /\ phase' = "idle"
    /\ UNCHANGED <<procVars, result, runq, cur, queueVars, timerVars, ticks, due>>

\* am_runtime_start has returned.
Idle == phase = "idle" /\ UNCHANGED vars

\* The clock goes on while the machine works.  Inside a scan for expired
\* deadlines it does not matter: the scan reads the clock once.
Elapse ==
    /\ phase \in {"ticks", "decide"}
    /\ \/ WaiterTimes \ {0} # {}
       \/ \E t \in TimerId : timer[t].left > 0
    /\ Pass(1)
    /\ UNCHANGED <<procVars, result, runq, cur, nqueues, capacity, items, ntimers, loopVars>>

-----------------------------------------------------------------------------
Loop ==
    \/ TickBegin \/ SliceEnd \/ TickEnd \/ PhaseEnd
    \/ \E q \in QueueId : TimeOutSender(q) \/ TimeOutReceiver(q)
    \/ WaitersEnd \/ VisitTimer \/ TimersEnd
    \/ GoOn \/ Sleep \/ GoIdle

Next ==
    \/ \E p \in Pid : Instruction(p)
    \/ Loop
    \/ Elapse
    \/ Idle

Spec == Init /\ [][Next]_vars
-----------------------------------------------------------------------------
(* Properties *)

TypeOK ==
    /\ nprocs \in 1 .. MaxProcs
    /\ state \in [Pid -> ProcState]
    /\ pc \in [Pid -> Target]
    /\ frames \in [Pid -> Seq(Target)]
    /\ conts \in [Pid -> SUBSET Seq(Target)]
    /\ image \in [Pid -> 0 .. MaxImages]
    /\ pending \in [Pid -> BOOLEAN]
    /\ gutted \in [Pid -> BOOLEAN]
    /\ result \in [Pid -> Result]
    /\ runq \in Seq(Pid)
    /\ cur \in Pid \cup {NoPid}
    /\ nqueues \in 0 .. MaxQueues
    /\ capacity \in [QueueId -> Nat]
    /\ items \in [QueueId -> Seq(Values)]
    /\ sendq \in [QueueId -> Seq(Sender)]
    /\ recvq \in [QueueId -> Seq(Receiver)]
    /\ ntimers \in 0 .. MaxTimers
    /\ timer \in [TimerId -> Timer \cup {NoTimer}]
    /\ phase \in Phase
    /\ ticks \in 0 .. PhaseLength
    /\ due \in SUBSET TimerId

\* The run queue holds exactly the processes that can run, each once, the one
\* inside its tick excepted: no wake-up, timer, fork or kill loses a process
\* or queues it twice (process_queue, runtime.c).
RunQueueExact ==
    /\ IsInjective(runq)
    /\ \A p \in Range(runq) : state[p] \in {"READY", "RUNNING"}
    /\ \A p \in Pid : state[p] \in {"READY", "RUNNING"} => p = cur \/ p \in Range(runq)
    /\ \A p \in Pid : p = cur /\ state[p] = "RUNNING" => p \notin Range(runq)

\* The waiter nodes of process p, over all queues and both lists.
WaitersOf(p) ==
    UNION {{<<q, "send", i>> : i \in {j \in DOMAIN sendq[q] : sendq[q][j].pid = p}}
           \cup {<<q, "recv", i>> : i \in {j \in DOMAIN recvq[q] : recvq[q][j].pid = p}} :
             q \in QueueId}

\* A process is BLOCKED exactly while one waiter stands for it, so that it is
\* woken once and by one queue, and can always be woken: by a peer, a timeout
\* or not at all after a kill (runtime_queue_wake_process, kill_process).
BlockedHasOneWaiter ==
    \A p \in Pid : Cardinality(WaitersOf(p)) = (IF state[p] = "BLOCKED" THEN 1 ELSE 0)

\* A sender waits only while the queue is full, a receiver only while it is
\* empty, and a queue never holds more than its capacity: no write or read
\* leaves behind a waiter it could have served (am_runtime_queue_write, _read).
QueueDiscipline ==
    \A q \in QueueId :
        /\ Len(items[q]) <= capacity[q]
        /\ sendq[q] # <<>> => Len(items[q]) = capacity[q]
        /\ recvq[q] # <<>> => items[q] = <<>>

\* A killed process has no timer and no place in the run queue, and its memory
\* is released or the release is pending (am_runtime_kill_process).
KilledIsInert ==
    \A p \in Pid :
        /\ state[p] = "KILLED" =>
              /\ \A t \in TimerId : timer[t].pid # p
              /\ p \notin Range(runq)
              /\ gutted[p] # pending[p]
        /\ gutted[p] \/ pending[p] => state[p] = "KILLED"

\* When the machine goes IDLE nothing is left to do: every process has stopped
\* or was killed, none waits, and no timer is set (am_runtime_event_handler).
IdleMeansDone ==
    phase = "idle" =>
        /\ \A p \in Pid : state[p] \in {"FREE", "STOPPED", "KILLED"}
        /\ \A t \in TimerId : ~IsSet(t)

\* kill_process releases the target's heap, stacks and tables; only a process
\* that kills itself is left to the end of its own tick (runtime.h:196-198).
KilledIsReleased ==
    \A p \in Pid : state[p] = "KILLED" /\ cur # p => gutted[p]

\* A killed process is never queued, woken or scheduled again
\* (doc/prompt.md: KILLED never enters the queue, never wakes).
KilledForever ==
    [][\A p \in Pid :
         state[p] = "KILLED" =>
             /\ state'[p] = "KILLED"
             /\ cur' = p => cur = p
             /\ gutted[p] => gutted'[p]]_vars

\* While a queue operation holds a process, no timer callback pushes a frame
\* on it or moves its PC; only a kill may (doc/report.md 6.5).
BlockedSceneIntact ==
    [][\A p \in Pid :
         state[p] = "BLOCKED" /\ state'[p] # "KILLED" =>
             frames'[p] = frames[p] /\ pc'[p] = pc[p]]_vars

\* A program that halted goes on in one way only: a callback calls a continuation
\* that was captured when it had not.  Otherwise the halt instruction lies below
\* every callback, and if it lies in every continuation too, in those that callbacks
\* capture later as well, until System.exec gives the process a new program or it is
\* killed (runtime_fire_expired_timers, return_target = 1; restore_continuation_snapshot).
Halts(saved) == "halt" \in Range(saved)
Ended(p)     == pc[p] = "halt" \/ Halts(frames[p])
EndedForGood(p) == Ended(p) /\ \A saved \in conts[p] : Halts(saved)

Resumes(p) ==
    Executing(p) /\ frames'[p] \in conts[p] /\ ~Halts(frames'[p]) /\ pc'[p] = "code"

HaltIsFinal ==
    [][\A p \in Pid :
         state'[p] # "KILLED" /\ image'[p] = image[p] =>
             /\ Ended(p) => Ended(p)' \/ Resumes(p)
             /\ EndedForGood(p) => EndedForGood(p)']_vars

\* The loop sleeps to a deadline it will act on in the next cycle, never to
\* that of a timer it would skip: no busy waiting (doc/report.md 6.5).
SleepIsUseful ==
    [][phase = "decide" /\ phase' = "ticks" /\ runq = <<>> =>
         \/ 0 \in WaiterTimes'
         \/ \E t \in TimerId : /\ IsSet(t) /\ IsSet(t)'
                               /\ timer'[t].left = 0
                               /\ state[timer[t].pid] # "BLOCKED"]_vars

\* A timer is set for a closure of the program its process runs, which set_timeout
\* keeps from being collected (native_System.c:779), so that there is a callback
\* to call when it fires.
TimerCallbackExists ==
    \A t \in TimerId : IsSet(t) => timer[t].image = image[timer[t].pid]

-----------------------------------------------------------------------------
(* Liveness.  The loop never stops of itself, a time slice is finite, and  *)
(* the clock goes on: it is strongly fair because no step of the machine   *)
(* can hold it back.                                                       *)

FairSpec == Spec /\ WF_vars(Loop) /\ SF_vars(Elapse)

\* No queue operation waits for ever: a peer serves it, it times out, or its
\* process is killed.
BlockedIsReleased ==
    \A p \in Pid : state[p] = "BLOCKED" ~> state[p] # "BLOCKED"

\* A one-shot timer is fired, cleared or dropped with its process: a process
\* that blocks over and over again does not hold it back
\* (runtime_fire_expired_timers; the scan for timeouts comes before it).
OneShotFires ==
    \A t \in TimerId : IsSet(t) /\ ~timer[t].repeat ~> ~IsSet(t)

\* Every ready process gets the processor, or is killed before.
ReadyIsScheduled ==
    \A p \in Pid : state[p] = "READY" ~> cur = p \/ state[p] = "KILLED"
=============================================================================
