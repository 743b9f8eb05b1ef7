------------------------- MODULE RuntimeRefinement -------------------------
(***************************************************************************)
(* The runtime implements the queues of module MessageQueue: its waiter    *)
(* lists, read as sets without deadlines, are the calls that wait.         *)
(***************************************************************************)
EXTENDS Runtime

\* Who waits in a list, and with which value.
Callers(ws) == {ws[i].pid : i \in DOMAIN ws}
Offers(ws)  == {<<ws[i].pid, ws[i].value>> : i \in DOMAIN ws}

Queues == INSTANCE MessageQueue WITH
    Proc      <- Pid,
    Queue     <- QueueId,
    Data      <- Values,
    Sizes     <- Capacities,
    exists    <- 1 .. nqueues,
    size      <- capacity,
    buf       <- items,
    senders   <- [q \in QueueId |-> Offers(sendq[q])],
    receivers <- [q \in QueueId |-> Callers(recvq[q])],
    answer    <- result

\* Every run of the runtime is, seen from its programs, a run of bounded FIFO
\* queues: no value is lost, duplicated or reordered, and a call fails only
\* when the queue is full or empty (am_runtime_queue_write, _read, timeouts,
\* kills).
ImplementsQueues == Queues!Spec
=============================================================================
