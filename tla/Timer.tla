------------------------------- MODULE Timer -------------------------------
(***************************************************************************)
(* The user timers: am_runtime_set_timer, am_runtime_clear_timer, called   *)
(* by System.set_timeout, set_interval, clear_timeout and clear_interval,  *)
(* runtime_fire_expired_timers with am_runtime_call_async, and             *)
(* runtime_has_nonblocked_timer.                                           *)
(***************************************************************************)
EXTENDS RuntimeState

IsSet(t) == timer[t] # NoTimer

\* System.set_timeout (repeat FALSE) and System.set_interval (repeat TRUE).
\* The callback is a closure of the heap the process has now: image.
SetTimer(p, delay, repeat) ==
    /\ Executing(p)
    /\ ntimers < MaxTimers
    /\ ntimers' = ntimers + 1
    /\ timer' = [timer EXCEPT ![ntimers + 1] =
                   [pid |-> p, left |-> delay, repeat |-> repeat, image |-> image[p],
                    interval |-> IF repeat THEN delay ELSE 0]]
    /\ UNCHANGED <<procVars, result, runq, cur, queueVars, loopVars>>

\* System.clear_timeout and System.clear_interval: any process, any number; a
\* number no timer has changes nothing.
ClearTimer(p, t) ==
    /\ Executing(p)
    /\ IsSet(t)
    /\ timer' = [timer EXCEPT ![t] = NoTimer]
    /\ UNCHANGED <<procVars, result, runq, cur, queueVars, ntimers, loopVars>>

-----------------------------------------------------------------------------
(* runtime_fire_expired_timers.  due holds the expired timers the loop has *)
(* not reached; it goes through timer_list from its head, the newest one.  *)

IsNewest(t, T) == t \in T /\ \A u \in T : u <= t

\* A repeating timer is set again, another one is unlinked and freed.
Rearm(t) ==
    timer' = [timer EXCEPT ![t] =
                IF timer[t].repeat THEN [timer[t] EXCEPT !.left = timer[t].interval]
                                   ELSE NoTimer]

\* am_runtime_call_async: a frame that returns to target, then the callback.
\* It fails, and changes nothing, when the function stack is full or the
\* handle is no closure of the heap the process has now.  After System.exec
\* the handle was made in another heap: there it may or may not be a closure.
CallAsync(p, t, target) ==
    \/ /\ Len(frames[p]) < FStackCap
       /\ frames' = [frames EXCEPT ![p] = Append(@, target)]
       /\ pc' = [pc EXCEPT ![p] = "code"]
    \/ /\ Len(frames[p]) >= FStackCap \/ timer[t].image # image[p]
       /\ UNCHANGED <<frames, pc>>

\* The process is in a queue operation: not now.  The timer of a killed
\* process would be freed.
SkipTimer(t) ==
    /\ state[timer[t].pid] \in {"BLOCKED", "KILLED"}
    /\ timer' = IF state[timer[t].pid] = "KILLED" THEN [timer EXCEPT ![t] = NoTimer]
                                                  ELSE timer
    /\ UNCHANGED <<state, frames, pc, runq>>

\* The process ended: the callback returns to halt, and it is queued again.
FireStopped(t) ==
    LET p == timer[t].pid IN
    /\ state[p] = "STOPPED"
    /\ CallAsync(p, t, "halt")
    /\ runq' = Append(runq, p)
    /\ state' = [state EXCEPT ![p] = "RUNNING"]
    /\ Rearm(t)

\* Mutant: a process that is queued already is queued again.
FireQueuedAgain(t) ==
    LET p == timer[t].pid IN
    /\ state[p] \in {"READY", "RUNNING"}
    /\ CallAsync(p, t, pc[p])
    /\ state' = [state EXCEPT ![p] = "RUNNING"]
    /\ Rearm(t)
    /\ runq' = Append(runq, p)

\* Mutant: the timer of a blocked process fires.
FireBlocked(t) ==
    LET p == timer[t].pid IN
    /\ state[p] \in {"READY", "RUNNING", "BLOCKED"}
    /\ CallAsync(p, t, pc[p])
    /\ state' = [state EXCEPT ![p] = "RUNNING"]
    /\ Rearm(t)
    /\ UNCHANGED runq

\* Mutant: the callback returns into the program wherever the process was.
FireIntoProgram(t) ==
    LET p == timer[t].pid IN
    /\ state[p] \in {"READY", "RUNNING"}
    /\ CallAsync(p, t, "code")
    /\ state' = [state EXCEPT ![p] = "RUNNING"]
    /\ Rearm(t)
    /\ UNCHANGED runq

\* The process waits in the run queue: the callback returns to where it was.
FireQueued(t) ==
    LET p == timer[t].pid IN
    /\ state[p] \in {"READY", "RUNNING"}
    /\ CallAsync(p, t, pc[p])
    /\ state' = [state EXCEPT ![p] = "RUNNING"]
    /\ Rearm(t)
    /\ UNCHANGED runq

VisitTimer ==
    /\ phase = "timers"
    /\ \E t \in TimerId :
         /\ IsNewest(t, due)
         /\ due' = due \ {t}
         /\ SkipTimer(t) \/ FireStopped(t) \/ FireQueued(t)
    /\ UNCHANGED <<nprocs, conts, image, pending, gutted, result, cur, queueVars,
                   ntimers, phase, ticks>>

\* Mutant: the timers of stopped processes do not count.
TimersOfRunning ==
    {t \in TimerId : IsSet(t) /\ state[timer[t].pid] \in {"READY", "RUNNING"}}

\* Mutant: the timers of blocked processes count.
AllTimers == {t \in TimerId : IsSet(t) /\ state[timer[t].pid] # "KILLED"}

\* The timers of processes a queue does not block; a killed process has none.
NonblockedTimers ==
    {t \in TimerId : IsSet(t) /\ state[timer[t].pid] \notin {"BLOCKED", "KILLED"}}
HasNonblockedTimer == NonblockedTimers # {}
=============================================================================
