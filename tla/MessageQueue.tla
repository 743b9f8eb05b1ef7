---------------------------- MODULE MessageQueue ----------------------------
(***************************************************************************)
(* What the inter-process queues promise (doc/report.md, the chapter on    *)
(* the IPC queue; runtime.h, am_runtime_queue_write and _read), without    *)
(* schedulers, process states, waiter lists and clocks: bounded FIFO       *)
(* queues for many producers and many consumers.  A write answers #t once  *)
(* its value is in the queue or in a reader's hands, and #f only at a      *)
(* moment the queue is full; a read answers the oldest value, and          *)
(* #undefined only at a moment the queue is empty.  Which of several       *)
(* waiting processes is served is left open.                               *)
(***************************************************************************)
EXTENDS Naturals, Sequences

CONSTANTS Proc, Queue, Data, Sizes

VARIABLES
    exists,     \* the queues made so far
    size,       \* their capacities
    buf,        \* the values in each queue, oldest first
    senders,    \* <<process, value>> of the writes that wait
    receivers,  \* the processes whose read waits
    answer      \* what the last read or write of each process returned

vars == <<exists, size, buf, senders, receivers, answer>>

Waits(p) == \E q \in Queue : p \in receivers[q] \/ \E v \in Data : <<p, v>> \in senders[q]
Full(q)  == Len(buf[q]) = size[q]

Init ==
    /\ exists = {}
    /\ size = [q \in Queue |-> 0]
    /\ buf = [q \in Queue |-> <<>>]
    /\ senders = [q \in Queue |-> {}]
    /\ receivers = [q \in Queue |-> {}]
    /\ answer = [p \in Proc |-> "none"]

Create(q, n) ==
    /\ q \notin exists
    /\ exists' = exists \cup {q}
    /\ size' = [size EXCEPT ![q] = n]
    /\ UNCHANGED <<buf, senders, receivers, answer>>

\* A write whose value enters the queue: there is room, and nobody to take it.
Send(p, q, v) ==
    /\ ~Waits(p)
    /\ receivers[q] = {}
    /\ Len(buf[q]) < size[q]
    /\ buf' = [buf EXCEPT ![q] = Append(@, v)]
    /\ answer' = [answer EXCEPT ![p] = "#t"]
    /\ UNCHANGED <<exists, size, senders, receivers>>

\* A write that meets a waiting read; the queue is empty then.
HandOver(p, r, q, v) ==
    /\ ~Waits(p)
    /\ r \in receivers[q]
    /\ buf[q] = <<>>
    /\ receivers' = [receivers EXCEPT ![q] = @ \ {r}]
    /\ answer' = [answer EXCEPT ![p] = "#t", ![r] = v]
    /\ UNCHANGED <<exists, size, buf, senders>>

\* A read that takes the oldest value while no write waits.
Receive(p, q) ==
    /\ ~Waits(p)
    /\ buf[q] # <<>>
    /\ senders[q] = {}
    /\ buf' = [buf EXCEPT ![q] = Tail(@)]
    /\ answer' = [answer EXCEPT ![p] = Head(buf[q])]
    /\ UNCHANGED <<exists, size, senders, receivers>>

\* A read that takes the oldest value and lets a waiting write in.
ReceiveAndAdmit(p, w, q, v) ==
    /\ ~Waits(p)
    /\ <<w, v>> \in senders[q]
    /\ Full(q)
    /\ buf' = [buf EXCEPT ![q] = Append(Tail(@), v)]
    /\ senders' = [senders EXCEPT ![q] = @ \ {<<w, v>>}]
    /\ answer' = [answer EXCEPT ![p] = Head(buf[q]), ![w] = "#t"]
    /\ UNCHANGED <<exists, size, receivers>>

\* A write or a read begins to wait.
WaitToSend(p, q, v) ==
    /\ ~Waits(p)
    /\ q \in exists /\ Full(q)
    /\ senders' = [senders EXCEPT ![q] = @ \cup {<<p, v>>}]
    /\ answer' = [answer EXCEPT ![p] = "none"]
    /\ UNCHANGED <<exists, size, buf, receivers>>

WaitToReceive(p, q) ==
    /\ ~Waits(p)
    /\ q \in exists /\ buf[q] = <<>>
    /\ receivers' = [receivers EXCEPT ![q] = @ \cup {p}]
    /\ answer' = [answer EXCEPT ![p] = "none"]
    /\ UNCHANGED <<exists, size, buf, senders>>

\* A write or a read fails, at once or after it has waited.
SendFails(p, q) ==
    /\ q \in exists => Full(q)
    /\ Waits(p) => \E v \in Data : <<p, v>> \in senders[q]
    /\ senders' = [senders EXCEPT ![q] = {w \in @ : w[1] # p}]
    /\ answer' = [answer EXCEPT ![p] = "#f"]
    /\ UNCHANGED <<exists, size, buf, receivers>>

ReceiveFails(p, q) ==
    /\ q \in exists => buf[q] = <<>>
    /\ Waits(p) => p \in receivers[q]
    /\ receivers' = [receivers EXCEPT ![q] = @ \ {p}]
    /\ answer' = [answer EXCEPT ![p] = "#undefined"]
    /\ UNCHANGED <<exists, size, buf, senders>>

\* A process is killed while it waits, or its program is replaced: its call is
\* gone, and no value with it that a queue had taken.
Abandon(p) ==
    /\ senders' = [q \in Queue |-> {w \in senders[q] : w[1] # p}]
    /\ receivers' = [q \in Queue |-> receivers[q] \ {p}]
    /\ UNCHANGED <<exists, size, buf, answer>>

Forget(p) ==
    /\ ~Waits(p)
    /\ answer' = [answer EXCEPT ![p] = "none"]
    /\ UNCHANGED <<exists, size, buf, senders, receivers>>

Next ==
    \/ \E q \in Queue, n \in Sizes : Create(q, n)
    \/ \E p \in Proc, q \in Queue :
         \/ \E v \in Data : Send(p, q, v) \/ WaitToSend(p, q, v)
         \/ \E r \in Proc, v \in Data : HandOver(p, r, q, v) \/ ReceiveAndAdmit(p, r, q, v)
         \/ Receive(p, q) \/ WaitToReceive(p, q)
         \/ SendFails(p, q) \/ ReceiveFails(p, q)
    \/ \E p \in Proc : Abandon(p) \/ Forget(p)

Spec == Init /\ [][Next]_vars
=============================================================================
