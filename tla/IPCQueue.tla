------------------------------ MODULE IPCQueue ------------------------------
(***************************************************************************)
(* The inter-process queues: am_runtime_queue_create, _write and _read,    *)
(* called by the natives System.make_queue, System.write and System.read,  *)
(* and the timeout scan runtime_queue_check_waiters.                       *)
(***************************************************************************)
EXTENDS RuntimeState

\* System.make_queue -> am_runtime_queue_create
MakeQueue(p, len) ==
    /\ Executing(p)
    /\ nqueues < MaxQueues
    /\ nqueues' = nqueues + 1
    /\ capacity' = [capacity EXCEPT ![nqueues + 1] = len]
    /\ UNCHANGED <<procVars, result, runq, cur, items, sendq, recvq, timerVars, loopVars>>

\* The current process returns from a native without blocking.
Return(p, r) ==
    /\ result' = [result EXCEPT ![p] = r]
    /\ UNCHANGED <<state, runq>>

Block(p) ==
    /\ state' = [state EXCEPT ![p] = "BLOCKED"]
    /\ result' = [result EXCEPT ![p] = "none"]
    /\ UNCHANGED runq

\* System.write with an unknown queue number: #f at once.
WriteNoQueue(p, q) ==
    /\ q > nqueues
    /\ Return(p, "#f")
    /\ UNCHANGED <<items, sendq, recvq>>

\* A receiver waits: hand the value over, past the items.
WriteHandOver(p, q, v) ==
    /\ q <= nqueues
    /\ recvq[q] # <<>>
    /\ recvq' = [recvq EXCEPT ![q] = Tail(@)]
    /\ Wake(Head(recvq[q]).pid, v, [result EXCEPT ![p] = "#t"])
    /\ UNCHANGED <<items, sendq>>

WriteItem(p, q, v) ==
    /\ q <= nqueues
    /\ recvq[q] = <<>>
    /\ Len(items[q]) < capacity[q]
    /\ items' = [items EXCEPT ![q] = Append(@, v)]
    /\ Return(p, "#t")
    /\ UNCHANGED <<sendq, recvq>>

WriteFull(p, q, v, timeout) ==
    /\ q <= nqueues
    /\ recvq[q] = <<>>
    /\ Len(items[q]) >= capacity[q]
    /\ \/ /\ timeout = 0
          /\ Return(p, "#f")
          /\ UNCHANGED sendq
       \/ /\ timeout > 0
          /\ sendq' = [sendq EXCEPT ![q] =
                         <<[pid |-> p, value |-> v, left |-> timeout]>> \o @]
          /\ Block(p)
    /\ UNCHANGED <<items, recvq>>

\* System.write -> am_runtime_queue_write
QueueWrite(p, q, v, timeout) ==
    /\ Executing(p)
    /\ \/ WriteNoQueue(p, q)
       \/ WriteHandOver(p, q, v)
       \/ WriteItem(p, q, v)
       \/ WriteFull(p, q, v, timeout)
    /\ UNCHANGED <<nprocs, pc, frames, conts, image, pending, gutted, cur,
                   nqueues, capacity, timerVars, loopVars>>

ReadNoQueue(p, q) ==
    /\ q > nqueues
    /\ Return(p, "#undefined")
    /\ UNCHANGED <<items, sendq, recvq>>

\* Mutant: the place an item leaves is not given to a waiting sender.
ReadItemLeavesSender(p, q) ==
    /\ q <= nqueues
    /\ items[q] # <<>>
    /\ items' = [items EXCEPT ![q] = Tail(@)]
    /\ Return(p, Head(items[q]))
    /\ UNCHANGED <<sendq, recvq>>

\* An item, and no sender waits for the place it leaves.
ReadItem(p, q) ==
    /\ q <= nqueues
    /\ items[q] # <<>>
    /\ sendq[q] = <<>>
    /\ items' = [items EXCEPT ![q] = Tail(@)]
    /\ Return(p, Head(items[q]))
    /\ UNCHANGED <<sendq, recvq>>

\* Mutant: the reader takes the value of the waiting sender, past the items.
ReadFromSender(p, q) ==
    LET w == Head(sendq[q]) IN
    /\ q <= nqueues
    /\ items[q] # <<>>
    /\ sendq[q] # <<>>
    /\ sendq' = [sendq EXCEPT ![q] = Tail(@)]
    /\ Wake(w.pid, "#t", [result EXCEPT ![p] = w.value])
    /\ UNCHANGED <<items, recvq>>

\* An item, and a sender waits: its value takes the place, it returns #t.
ReadItemAndAdmit(p, q) ==
    LET w == Head(sendq[q]) IN
    /\ q <= nqueues
    /\ items[q] # <<>>
    /\ sendq[q] # <<>>
    /\ items' = [items EXCEPT ![q] = Append(Tail(@), w.value)]
    /\ sendq' = [sendq EXCEPT ![q] = Tail(@)]
    /\ Wake(w.pid, "#t", [result EXCEPT ![p] = Head(items[q])])
    /\ UNCHANGED recvq

ReadEmpty(p, q, timeout) ==
    /\ q <= nqueues
    /\ items[q] = <<>>
    /\ \/ /\ timeout = 0
          /\ Return(p, "#undefined")
          /\ UNCHANGED recvq
       \/ /\ timeout > 0
          /\ recvq' = [recvq EXCEPT ![q] =
                         <<[pid |-> p, left |-> timeout]>> \o @]
          /\ Block(p)
    /\ UNCHANGED <<items, sendq>>

\* System.read -> am_runtime_queue_read
QueueRead(p, q, timeout) ==
    /\ Executing(p)
    /\ \/ ReadNoQueue(p, q)
       \/ ReadItem(p, q)
       \/ ReadItemAndAdmit(p, q)
       \/ ReadEmpty(p, q, timeout)
    /\ UNCHANGED <<nprocs, pc, frames, conts, image, pending, gutted, cur,
                   nqueues, capacity, timerVars, loopVars>>

-----------------------------------------------------------------------------
(* runtime_queue_check_waiters: queue by queue, senders before receivers,  *)
(* each list from its head.  One step per waiter woken; the clock is read  *)
(* once before the loop, so no deadline comes due inside it.               *)

DueSenders(q)   == {i \in DOMAIN sendq[q] : sendq[q][i].left = 0}
DueReceivers(q) == {i \in DOMAIN recvq[q] : recvq[q][i].left = 0}
NoneDueBefore(q) ==
    \A r \in 1 .. q - 1 : DueSenders(r) = {} /\ DueReceivers(r) = {}

IsFirst(i, I) == i \in I /\ \A j \in I : i <= j

\* A waiter of a killed process would be dropped without a wake.
TimeOutWaiter(w, r) ==
    IF state[w.pid] = "KILLED"
    THEN UNCHANGED <<result, state, runq>>
    ELSE Wake(w.pid, r, result)

TimeOutSender(q) ==
    /\ phase = "waiters"
    /\ q <= nqueues
    /\ NoneDueBefore(q)
    /\ \E i \in DOMAIN sendq[q] :
         /\ IsFirst(i, DueSenders(q))
         /\ sendq' = [sendq EXCEPT ![q] = WithoutIndex(@, i)]
         /\ TimeOutWaiter(sendq[q][i], "#f")
    /\ UNCHANGED <<nprocs, pc, frames, conts, image, pending, gutted, cur,
                   nqueues, capacity, items, recvq, timerVars, loopVars>>

TimeOutReceiver(q) ==
    /\ phase = "waiters"
    /\ q <= nqueues
    /\ NoneDueBefore(q)
    /\ DueSenders(q) = {}
    /\ \E i \in DOMAIN recvq[q] :
         /\ IsFirst(i, DueReceivers(q))
         /\ recvq' = [recvq EXCEPT ![q] = WithoutIndex(@, i)]
         /\ TimeOutWaiter(recvq[q][i], "#undefined")
    /\ UNCHANGED <<nprocs, pc, frames, conts, image, pending, gutted, cur,
                   nqueues, capacity, items, sendq, timerVars, loopVars>>

\* The times left of all waiters, and whether there are any
\* (runtime_queue_has_waiters).
WaiterTimes ==
    UNION {{w.left : w \in Range(sendq[q]) \cup Range(recvq[q])} :
             q \in 1 .. nqueues}
\* Mutant: only the senders are looked at.
HasSenders == \E q \in 1 .. nqueues : sendq[q] # <<>>
HasWaiters == WaiterTimes # {}
=============================================================================
