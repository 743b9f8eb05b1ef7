--------------------------- MODULE RuntimeProofs ---------------------------
(***************************************************************************)
(* The safety of the scheduler, the queues and the timers of module        *)
(* Runtime, for every number of processes, queues and timers and every set *)
(* of inputs.  IInv is the inductive invariant; each of its parts has a    *)
(* lemma with one step per action.  The action properties come last.       *)
(***************************************************************************)
EXTENDS RuntimeTypes

\* The pids handed out so far are those of the occupied slots of the pool,
\* and an empty slot has no history.
PoolInv ==
    \A p \in Pid : /\ p >= nprocs <=> state[p] = "FREE"
                   /\ state[p] = "FREE" => pc[p] = "code" /\ frames[p] = <<>>

\* RunQueueExact, and more: a READY process is queued even if its tick is not
\* over yet (System.fork queues the parent inside its own tick).
RunInv ==
    /\ IsInjective(runq)
    /\ \A p \in Range(runq) : state[p] \in {"READY", "RUNNING"}
    /\ \A p \in Pid : state[p] = "READY" => p \in Range(runq)
    /\ \A p \in Pid : state[p] = "RUNNING" => (p \in Range(runq) <=> p # cur)

\* No process stands in two lists, or twice in one, and those that stand in
\* one are the BLOCKED ones.
WaitInv ==
    /\ \A q \in QueueId : OneEach(sendq[q]) /\ OneEach(recvq[q])
    /\ \A q, r \in QueueId :
         /\ PidsOf(sendq[q]) \cap PidsOf(recvq[r]) = {}
         /\ q # r => /\ PidsOf(sendq[q]) \cap PidsOf(sendq[r]) = {}
                     /\ PidsOf(recvq[q]) \cap PidsOf(recvq[r]) = {}
    /\ \A p \in Pid :
         state[p] = "BLOCKED" <=> \E q \in QueueId : p \in PidsOf(sendq[q]) \cup PidsOf(recvq[q])

\* QueueDiscipline, and that a queue that is not made yet is empty.
QueuesInv ==
    /\ QueueDiscipline
    /\ \A q \in QueueId : q > nqueues => /\ capacity[q] = 0 /\ items[q] = <<>>
                                         /\ sendq[q] = <<>> /\ recvq[q] = <<>>

IInv ==
    /\ TypeOK
    /\ LoopInv
    /\ PoolInv
    /\ RunInv
    /\ WaitInv
    /\ QueuesInv
    /\ KilledIsInert
    /\ IdleMeansDone

USE BoundsAssumption, InputsAssumption

-----------------------------------------------------------------------------
(* The initial state *)

LEMMA InitIInv == Init => IInv
<1> SUFFICES ASSUME Init PROVE IInv
  OBVIOUS
<1>1. TypeOK /\ LoopInv
  BY TypeInit
<1>2. Range(runq) = {0} /\ IsInjective(runq) /\ 0 \in Pid
  <2>1. runq = <<0>> /\ DOMAIN runq = {1} /\ runq[1] = 0
    BY DEF Init
  <2> QED
    BY <2>1 DEF Range, IsInjective, Pid
<1>3. PoolInv
  BY DEF Init, PoolInv, Pid
<1>4. RunInv
  BY <1>2 DEF Init, RunInv, Pid
<1>5. WaitInv
  <2>1. OneEach(<<>>) /\ PidsOf(<<>>) = {}
    BY DEF OneEach, PidsOf
  <2>2. \A q \in QueueId : sendq[q] = <<>> /\ recvq[q] = <<>>
    BY DEF Init
  <2>3. \A p \in Pid : state[p] # "BLOCKED"
    BY DEF Init
  <2> QED
    BY <2>1, <2>2, <2>3 DEF WaitInv
<1>6. QueuesInv
  BY EmptySeq DEF Init, QueuesInv, QueueDiscipline
<1>7. KilledIsInert
  BY DEF Init, KilledIsInert
<1>8. IdleMeansDone
  BY DEF Init, IdleMeansDone
<1> QED
  BY <1>1, <1>3, <1>4, <1>5, <1>6, <1>7, <1>8 DEF IInv

-----------------------------------------------------------------------------
(* What the steps of the machine do to the lists it keeps, in the terms of *)
(* the invariant.                                                          *)

\* A step after which no list and no process waits in another way.
LEMMA WaitersKept ==
    ASSUME WaitInv,
           \A q \in QueueId : /\ OneEach(sendq'[q]) /\ OneEach(recvq'[q])
                              /\ PidsOf(sendq'[q]) = PidsOf(sendq[q])
                              /\ PidsOf(recvq'[q]) = PidsOf(recvq[q]),
           \A r \in Pid : state'[r] = "BLOCKED" <=> state[r] = "BLOCKED"
    PROVE  WaitInv'
<1>1. \A q, r \in QueueId :
        /\ PidsOf(sendq'[q]) \cap PidsOf(recvq'[r]) = {}
        /\ q # r => /\ PidsOf(sendq'[q]) \cap PidsOf(sendq'[r]) = {}
                    /\ PidsOf(recvq'[q]) \cap PidsOf(recvq'[r]) = {}
  BY DEF WaitInv
<1>2. ASSUME NEW p \in Pid
      PROVE  state'[p] = "BLOCKED" <=>
               \E q \in QueueId : p \in PidsOf(sendq'[q]) \cup PidsOf(recvq'[q])
  <2>1. \A q \in QueueId : PidsOf(sendq'[q]) \cup PidsOf(recvq'[q])
                           = PidsOf(sendq[q]) \cup PidsOf(recvq[q])
    OBVIOUS
  <2> QED
    BY <2>1 DEF WaitInv
<1> QED
  BY <1>1, <1>2 DEF WaitInv

\* A step that takes process p out of every list, and out of BLOCKED.
LEMMA WaiterLeaves ==
    ASSUME WaitInv, NEW p \in Pid,
           \A q \in QueueId : /\ OneEach(sendq'[q]) /\ OneEach(recvq'[q])
                              /\ PidsOf(sendq'[q]) = PidsOf(sendq[q]) \ {p}
                              /\ PidsOf(recvq'[q]) = PidsOf(recvq[q]) \ {p},
           state'[p] # "BLOCKED",
           \A r \in Pid : r # p => (state'[r] = "BLOCKED" <=> state[r] = "BLOCKED")
    PROVE  WaitInv'
<1>1. \A q, r \in QueueId :
        /\ PidsOf(sendq'[q]) \cap PidsOf(recvq'[r]) = {}
        /\ q # r => /\ PidsOf(sendq'[q]) \cap PidsOf(sendq'[r]) = {}
                    /\ PidsOf(recvq'[q]) \cap PidsOf(recvq'[r]) = {}
  BY DEF WaitInv
<1>2. ASSUME NEW r \in Pid
      PROVE  state'[r] = "BLOCKED" <=>
               \E q \in QueueId : r \in PidsOf(sendq'[q]) \cup PidsOf(recvq'[q])
  <2>1. \A q \in QueueId : PidsOf(sendq'[q]) \cup PidsOf(recvq'[q])
                           = (PidsOf(sendq[q]) \cup PidsOf(recvq[q])) \ {p}
    OBVIOUS
  <2>2. CASE r = p
    BY <2>1, <2>2
  <2>3. CASE r # p
    BY <2>1, <2>3 DEF WaitInv
  <2> QED
    BY <2>2, <2>3
<1> QED
  BY <1>1, <1>2 DEF WaitInv

\* A process that is in a list of queue n is in no other one.
LEMMA WaitsOnce ==
    ASSUME WaitInv, NEW n \in QueueId, NEW p
    PROVE  /\ p \in PidsOf(sendq[n]) =>
                 \A q \in QueueId : /\ p \notin PidsOf(recvq[q])
                                    /\ q # n => p \notin PidsOf(sendq[q])
           /\ p \in PidsOf(recvq[n]) =>
                 \A q \in QueueId : /\ p \notin PidsOf(sendq[q])
                                    /\ q # n => p \notin PidsOf(recvq[q])
  BY DEF WaitInv

\* A step that puts the current process p, which waits nowhere, into one list
\* of queue n and makes it BLOCKED.
LEMMA WaiterEnters ==
    ASSUME WaitInv, NEW p \in Pid, NEW n \in QueueId, state[p] # "BLOCKED",
           \A q \in QueueId : OneEach(sendq'[q]) /\ OneEach(recvq'[q]),
           \A q \in QueueId : q # n => /\ PidsOf(sendq'[q]) = PidsOf(sendq[q])
                                       /\ PidsOf(recvq'[q]) = PidsOf(recvq[q]),
           \/ /\ PidsOf(sendq'[n]) = PidsOf(sendq[n]) \cup {p}
              /\ PidsOf(recvq'[n]) = PidsOf(recvq[n])
           \/ /\ PidsOf(sendq'[n]) = PidsOf(sendq[n])
              /\ PidsOf(recvq'[n]) = PidsOf(recvq[n]) \cup {p},
           state'[p] = "BLOCKED",
           \A r \in Pid : r # p => (state'[r] = "BLOCKED" <=> state[r] = "BLOCKED")
    PROVE  WaitInv'
<1>1. \A q \in QueueId : p \notin PidsOf(sendq[q]) /\ p \notin PidsOf(recvq[q])
  BY DEF WaitInv
<1>2. \A q \in QueueId : /\ PidsOf(sendq'[q]) \subseteq PidsOf(sendq[q]) \cup {p}
                         /\ PidsOf(recvq'[q]) \subseteq PidsOf(recvq[q]) \cup {p}
                         /\ p \in PidsOf(sendq'[q]) => q = n /\ p \notin PidsOf(recvq'[q])
                         /\ p \in PidsOf(recvq'[q]) => q = n /\ p \notin PidsOf(sendq'[q])
  BY <1>1
<1>3. \A q, r \in QueueId :
        /\ PidsOf(sendq'[q]) \cap PidsOf(recvq'[r]) = {}
        /\ q # r => /\ PidsOf(sendq'[q]) \cap PidsOf(sendq'[r]) = {}
                    /\ PidsOf(recvq'[q]) \cap PidsOf(recvq'[r]) = {}
  <2> SUFFICES ASSUME NEW q \in QueueId, NEW r \in QueueId, NEW x
               PROVE  /\ ~(x \in PidsOf(sendq'[q]) /\ x \in PidsOf(recvq'[r]))
                      /\ q # r => /\ ~(x \in PidsOf(sendq'[q]) /\ x \in PidsOf(sendq'[r]))
                                  /\ ~(x \in PidsOf(recvq'[q]) /\ x \in PidsOf(recvq'[r]))
    OBVIOUS
  <2>1. CASE x = p
    BY <1>2, <2>1
  <2>2. CASE x # p
    <3>1. /\ x \in PidsOf(sendq'[q]) => x \in PidsOf(sendq[q])
          /\ x \in PidsOf(sendq'[r]) => x \in PidsOf(sendq[r])
          /\ x \in PidsOf(recvq'[q]) => x \in PidsOf(recvq[q])
          /\ x \in PidsOf(recvq'[r]) => x \in PidsOf(recvq[r])
      BY <1>2, <2>2
    <3>2. /\ ~(x \in PidsOf(sendq[q]) /\ x \in PidsOf(recvq[r]))
          /\ q # r => /\ ~(x \in PidsOf(sendq[q]) /\ x \in PidsOf(sendq[r]))
                      /\ ~(x \in PidsOf(recvq[q]) /\ x \in PidsOf(recvq[r]))
      BY DEF WaitInv
    <3> QED
      BY <3>1, <3>2
  <2> QED
    BY <2>1, <2>2
<1>4. ASSUME NEW r \in Pid
      PROVE  state'[r] = "BLOCKED" <=>
               \E q \in QueueId : r \in PidsOf(sendq'[q]) \cup PidsOf(recvq'[q])
  <2>1. CASE r = p
    BY <2>1
  <2>2. CASE r # p
    <3>1. \A q \in QueueId : r \in PidsOf(sendq'[q]) \cup PidsOf(recvq'[q])
                             <=> r \in PidsOf(sendq[q]) \cup PidsOf(recvq[q])
      BY <2>2
    <3> QED
      BY <2>2, <3>1 DEF WaitInv
  <2> QED
    BY <2>1, <2>2
<1> QED
  BY <1>3, <1>4 DEF WaitInv

-----------------------------------------------------------------------------
(* The queue operations and the timeouts, seen from the scheduler: nothing *)
(* happens, a waiting process is woken, or the current one starts to wait. *)

ListsKept ==
    \A q \in QueueId : OneEach(sendq'[q]) /\ OneEach(recvq'[q])

Leaves(w) ==
    /\ w \in Pid
    /\ state[w] = "BLOCKED"
    /\ state' = [state EXCEPT ![w] = "READY"]
    /\ runq' = Append(runq, w)
    /\ ListsKept
    /\ \A q \in QueueId : /\ PidsOf(sendq'[q]) = PidsOf(sendq[q]) \ {w}
                          /\ PidsOf(recvq'[q]) = PidsOf(recvq[q]) \ {w}

Enters(p, n) ==
    /\ cur = p /\ state[p] = "RUNNING"
    /\ state' = [state EXCEPT ![p] = "BLOCKED"]
    /\ runq' = runq
    /\ ListsKept
    /\ \A q \in QueueId : q # n => /\ PidsOf(sendq'[q]) = PidsOf(sendq[q])
                                   /\ PidsOf(recvq'[q]) = PidsOf(recvq[q])
    /\ \/ /\ PidsOf(sendq'[n]) = PidsOf(sendq[n]) \cup {p}
          /\ PidsOf(recvq'[n]) = PidsOf(recvq[n])
       \/ /\ PidsOf(sendq'[n]) = PidsOf(sendq[n])
          /\ PidsOf(recvq'[n]) = PidsOf(recvq[n]) \cup {p}

QueueEffect ==
    /\ \/ UNCHANGED <<state, runq, sendq, recvq>>
       \/ \E w \in Pid : Leaves(w)
       \/ \E p \in Pid, n \in QueueId : Enters(p, n)
    /\ UNCHANGED <<nprocs, pc, frames, conts, image, pending, gutted, cur, timer, phase>>

\* The head of a waiter list is served.
LEMMA ServeHead ==
    ASSUME TypeOK, WaitInv, NEW n \in QueueId, NEW r, NEW result0,
           \/ /\ sendq[n] # <<>>
              /\ sendq' = [sendq EXCEPT ![n] = Tail(@)]
              /\ recvq' = recvq
              /\ Wake(Head(sendq[n]).pid, r, result0)
           \/ /\ recvq[n] # <<>>
              /\ recvq' = [recvq EXCEPT ![n] = Tail(@)]
              /\ sendq' = sendq
              /\ Wake(Head(recvq[n]).pid, r, result0)
    PROVE  \E w \in Pid : Leaves(w)
<1>0. \A q \in QueueId : /\ sendq[q] \in Seq(Sender) /\ OneEach(sendq[q])
                         /\ recvq[q] \in Seq(Receiver) /\ OneEach(recvq[q])
  BY DEF TypeOK, WaitInv
<1>1. CASE /\ sendq[n] # <<>>
           /\ sendq' = [sendq EXCEPT ![n] = Tail(@)]
           /\ recvq' = recvq
           /\ Wake(Head(sendq[n]).pid, r, result0)
  <2> DEFINE w == Head(sendq[n]).pid
  <2>1. /\ Head(sendq[n]) \in Sender
        /\ w \in PidsOf(sendq[n])
        /\ PidsOf(Tail(sendq[n])) = PidsOf(sendq[n]) \ {w}
        /\ OneEach(Tail(sendq[n]))
    BY <1>0, <1>1, TailWaiters
  <2>2. w \in Pid
    BY <2>1 DEF Sender
  <2> HIDE DEF w
  <2>3. state[w] = "BLOCKED"
    BY <2>1, <2>2 DEF WaitInv
  <2>4. \A q \in QueueId : /\ w \notin PidsOf(recvq[q])
                           /\ q # n => w \notin PidsOf(sendq[q])
    BY <2>1, WaitsOnce
  <2>5. \A q \in QueueId : sendq'[q] = IF q = n THEN Tail(sendq[n]) ELSE sendq[q]
    BY <1>1 DEF TypeOK
  <2>6. ListsKept
    BY <1>0, <1>1, <2>1, <2>5 DEF ListsKept
  <2>7. \A q \in QueueId : /\ PidsOf(sendq'[q]) = PidsOf(sendq[q]) \ {w}
                           /\ PidsOf(recvq'[q]) = PidsOf(recvq[q]) \ {w}
    BY <1>1, <2>1, <2>4, <2>5
  <2> QED
    BY <1>1, <2>2, <2>3, <2>6, <2>7 DEF Leaves, Wake, w
<1>2. CASE /\ recvq[n] # <<>>
           /\ recvq' = [recvq EXCEPT ![n] = Tail(@)]
           /\ sendq' = sendq
           /\ Wake(Head(recvq[n]).pid, r, result0)
  <2> DEFINE w == Head(recvq[n]).pid
  <2>1. /\ Head(recvq[n]) \in Receiver
        /\ w \in PidsOf(recvq[n])
        /\ PidsOf(Tail(recvq[n])) = PidsOf(recvq[n]) \ {w}
        /\ OneEach(Tail(recvq[n]))
    BY <1>0, <1>2, TailWaiters
  <2>2. w \in Pid
    BY <2>1 DEF Receiver
  <2> HIDE DEF w
  <2>3. state[w] = "BLOCKED"
    BY <2>1, <2>2 DEF WaitInv
  <2>4. \A q \in QueueId : /\ w \notin PidsOf(sendq[q])
                           /\ q # n => w \notin PidsOf(recvq[q])
    BY <2>1, WaitsOnce
  <2>5. \A q \in QueueId : recvq'[q] = IF q = n THEN Tail(recvq[n]) ELSE recvq[q]
    BY <1>2 DEF TypeOK
  <2>6. ListsKept
    BY <1>0, <1>2, <2>1, <2>5 DEF ListsKept
  <2>7. \A q \in QueueId : /\ PidsOf(sendq'[q]) = PidsOf(sendq[q]) \ {w}
                           /\ PidsOf(recvq'[q]) = PidsOf(recvq[q]) \ {w}
    BY <1>2, <2>1, <2>4, <2>5
  <2> QED
    BY <1>2, <2>2, <2>3, <2>6, <2>7 DEF Leaves, Wake, w
<1> QED
  BY <1>1, <1>2

LEMMA WriteEffect ==
    ASSUME IInv, NEW p \in Pid, NEW q \in QueueId, NEW v \in Values,
           NEW t \in Timeouts, QueueWrite(p, q, v, t)
    PROVE  QueueEffect
<1>0. /\ TypeOK /\ WaitInv
      /\ UNCHANGED <<nprocs, pc, frames, conts, image, pending, gutted, cur, timer, phase>>
      /\ cur = p /\ state[p] = "RUNNING"
  BY DEF IInv, QueueWrite, timerVars, loopVars, Executing
<1>1. CASE WriteNoQueue(p, q)
  BY <1>0, <1>1 DEF WriteNoQueue, Return, QueueEffect
<1>2. CASE WriteHandOver(p, q, v)
  <2>1. \E w \in Pid : Leaves(w)
    BY <1>0, <1>2, ServeHead DEF WriteHandOver
  <2> QED
    BY <1>0, <2>1 DEF QueueEffect
<1>3. CASE WriteItem(p, q, v)
  BY <1>0, <1>3 DEF WriteItem, Return, QueueEffect
<1>4. CASE WriteFull(p, q, v, t)
  <2>1. CASE Return(p, "#f") /\ UNCHANGED sendq
    BY <1>0, <1>4, <2>1 DEF WriteFull, Return, QueueEffect
  <2>2. CASE Block(p) /\ sendq' = [sendq EXCEPT ![q] = <<[pid |-> p, value |-> v, left |-> t]>> \o @]
    <3> DEFINE w == [pid |-> p, value |-> v, left |-> t]
    <3>1. w \in Sender /\ w.pid = p
      BY DEF Sender
    <3> HIDE DEF w
    <3>2. p \notin PidsOf(sendq[q])
      BY <1>0 DEF WaitInv
    <3>3. sendq[q] \in Seq(Sender) /\ OneEach(sendq[q])
      BY <1>0 DEF TypeOK, WaitInv
    <3>4. PidsOf(<<w>> \o sendq[q]) = PidsOf(sendq[q]) \cup {p} /\ OneEach(<<w>> \o sendq[q])
      BY <3>1, <3>2, <3>3, PrependWaiter
    <3>5. \A n \in QueueId : sendq'[n] = IF n = q THEN <<w>> \o sendq[q] ELSE sendq[n]
      BY <1>0, <2>2 DEF TypeOK, w
    <3>6. recvq' = recvq
      BY <1>4 DEF WriteFull
    <3>7. ListsKept
      BY <1>0, <3>4, <3>5, <3>6 DEF ListsKept, WaitInv
    <3>8. /\ \A n \in QueueId : n # q => /\ PidsOf(sendq'[n]) = PidsOf(sendq[n])
                                         /\ PidsOf(recvq'[n]) = PidsOf(recvq[n])
          /\ PidsOf(sendq'[q]) = PidsOf(sendq[q]) \cup {p}
          /\ PidsOf(recvq'[q]) = PidsOf(recvq[q])
      BY <3>4, <3>5, <3>6
    <3>9. Enters(p, q)
      BY <1>0, <2>2, <3>7, <3>8 DEF Enters, Block
    <3> QED
      BY <1>0, <3>9 DEF QueueEffect
  <2> QED
    BY <1>4, <2>1, <2>2 DEF WriteFull
<1> QED
  BY <1>1, <1>2, <1>3, <1>4 DEF QueueWrite

LEMMA ReadEffect ==
    ASSUME IInv, NEW p \in Pid, NEW q \in QueueId, NEW t \in Timeouts, QueueRead(p, q, t)
    PROVE  QueueEffect
<1>0. /\ TypeOK /\ WaitInv
      /\ UNCHANGED <<nprocs, pc, frames, conts, image, pending, gutted, cur, timer, phase>>
      /\ cur = p /\ state[p] = "RUNNING"
  BY DEF IInv, QueueRead, timerVars, loopVars, Executing
<1>1. CASE ReadNoQueue(p, q)
  BY <1>0, <1>1 DEF ReadNoQueue, Return, QueueEffect
<1>2. CASE ReadItem(p, q)
  BY <1>0, <1>2 DEF ReadItem, Return, QueueEffect
<1>3. CASE ReadItemAndAdmit(p, q)
  <2>1. \E w \in Pid : Leaves(w)
    BY <1>0, <1>3, ServeHead DEF ReadItemAndAdmit
  <2> QED
    BY <1>0, <2>1 DEF QueueEffect
<1>4. CASE ReadEmpty(p, q, t)
  <2>1. CASE Return(p, "#undefined") /\ UNCHANGED recvq
    BY <1>0, <1>4, <2>1 DEF ReadEmpty, Return, QueueEffect
  <2>2. CASE Block(p) /\ recvq' = [recvq EXCEPT ![q] = <<[pid |-> p, left |-> t]>> \o @]
    <3> DEFINE w == [pid |-> p, left |-> t]
    <3>1. w \in Receiver /\ w.pid = p
      BY DEF Receiver
    <3> HIDE DEF w
    <3>2. p \notin PidsOf(recvq[q])
      BY <1>0 DEF WaitInv
    <3>3. recvq[q] \in Seq(Receiver) /\ OneEach(recvq[q])
      BY <1>0 DEF TypeOK, WaitInv
    <3>4. PidsOf(<<w>> \o recvq[q]) = PidsOf(recvq[q]) \cup {p} /\ OneEach(<<w>> \o recvq[q])
      BY <3>1, <3>2, <3>3, PrependWaiter
    <3>5. \A n \in QueueId : recvq'[n] = IF n = q THEN <<w>> \o recvq[q] ELSE recvq[n]
      BY <1>0, <2>2 DEF TypeOK, w
    <3>6. sendq' = sendq
      BY <1>4 DEF ReadEmpty
    <3>7. ListsKept
      BY <1>0, <3>4, <3>5, <3>6 DEF ListsKept, WaitInv
    <3>8. /\ \A n \in QueueId : n # q => /\ PidsOf(sendq'[n]) = PidsOf(sendq[n])
                                         /\ PidsOf(recvq'[n]) = PidsOf(recvq[n])
          /\ PidsOf(sendq'[q]) = PidsOf(sendq[q])
          /\ PidsOf(recvq'[q]) = PidsOf(recvq[q]) \cup {p}
      BY <3>4, <3>5, <3>6
    <3>9. Enters(p, q)
      BY <1>0, <2>2, <3>7, <3>8 DEF Enters, Block
    <3> QED
      BY <1>0, <3>9 DEF QueueEffect
  <2> QED
    BY <1>4, <2>1, <2>2 DEF ReadEmpty
<1> QED
  BY <1>1, <1>2, <1>3, <1>4 DEF QueueRead

\* A waiter that is unlinked by a timeout is of a process that is BLOCKED, so
\* that the check for killed processes in the scan never bites.
LEMMA TimeOutEffect ==
    ASSUME IInv, NEW n \in QueueId, TimeOutSender(n) \/ TimeOutReceiver(n)
    PROVE  QueueEffect
<1>0. /\ TypeOK /\ WaitInv
      /\ UNCHANGED <<nprocs, pc, frames, conts, image, pending, gutted, cur, timer, phase>>
  BY DEF IInv, TimeOutSender, TimeOutReceiver, timerVars, loopVars
<1>1. \A q \in QueueId : /\ sendq[q] \in Seq(Sender) /\ OneEach(sendq[q])
                         /\ recvq[q] \in Seq(Receiver) /\ OneEach(recvq[q])
  BY <1>0 DEF TypeOK, WaitInv
<1>2. CASE TimeOutSender(n)
  <2>1. PICK i \in DOMAIN sendq[n] :
          /\ sendq' = [sendq EXCEPT ![n] = WithoutIndex(@, i)]
          /\ TimeOutWaiter(sendq[n][i], "#f")
    BY <1>2 DEF TimeOutSender
  <2> DEFINE w == sendq[n][i].pid
  <2>2. w \in Pid /\ w \in PidsOf(sendq[n])
    <3>1. sendq[n][i] \in Sender
      BY <1>1, ElementOfSeq, LenProperties
    <3>2. w \in Pid
      BY <3>1 DEF Sender
    <3>3. w \in PidsOf(sendq[n])
      BY DEF PidsOf
    <3> QED
      BY <3>2, <3>3
  <2>3. /\ PidsOf(WithoutIndex(sendq[n], i)) = PidsOf(sendq[n]) \ {w}
        /\ OneEach(WithoutIndex(sendq[n], i))
    BY <1>1, WithoutIndexProps
  <2> HIDE DEF w
  <2>4. state[w] = "BLOCKED"
    BY <1>0, <2>2 DEF WaitInv
  <2>5. \A q \in QueueId : /\ w \notin PidsOf(recvq[q])
                           /\ q # n => w \notin PidsOf(sendq[q])
    BY <1>0, <2>2, WaitsOnce
  <2>6. recvq' = recvq
    BY <1>2 DEF TimeOutSender
  <2>7. \A q \in QueueId : sendq'[q] = IF q = n THEN WithoutIndex(sendq[n], i) ELSE sendq[q]
    BY <1>0, <2>1 DEF TypeOK
  <2>8. ListsKept
    BY <1>1, <2>3, <2>6, <2>7 DEF ListsKept
  <2>9. \A q \in QueueId : /\ PidsOf(sendq'[q]) = PidsOf(sendq[q]) \ {w}
                           /\ PidsOf(recvq'[q]) = PidsOf(recvq[q]) \ {w}
    BY <2>3, <2>5, <2>6, <2>7
  <2>10. Wake(w, "#f", result)
    BY <2>1, <2>4 DEF TimeOutWaiter, w
  <2> QED
    BY <1>0, <2>2, <2>4, <2>8, <2>9, <2>10 DEF QueueEffect, Leaves, Wake
<1>3. CASE TimeOutReceiver(n)
  <2>1. PICK i \in DOMAIN recvq[n] :
          /\ recvq' = [recvq EXCEPT ![n] = WithoutIndex(@, i)]
          /\ TimeOutWaiter(recvq[n][i], "#undefined")
    BY <1>3 DEF TimeOutReceiver
  <2> DEFINE w == recvq[n][i].pid
  <2>2. w \in Pid /\ w \in PidsOf(recvq[n])
    <3>1. recvq[n][i] \in Receiver
      BY <1>1, ElementOfSeq, LenProperties
    <3>2. w \in Pid
      BY <3>1 DEF Receiver
    <3>3. w \in PidsOf(recvq[n])
      BY DEF PidsOf
    <3> QED
      BY <3>2, <3>3
  <2>3. /\ PidsOf(WithoutIndex(recvq[n], i)) = PidsOf(recvq[n]) \ {w}
        /\ OneEach(WithoutIndex(recvq[n], i))
    BY <1>1, WithoutIndexProps
  <2> HIDE DEF w
  <2>4. state[w] = "BLOCKED"
    BY <1>0, <2>2 DEF WaitInv
  <2>5. \A q \in QueueId : /\ w \notin PidsOf(sendq[q])
                           /\ q # n => w \notin PidsOf(recvq[q])
    BY <1>0, <2>2, WaitsOnce
  <2>6. sendq' = sendq
    BY <1>3 DEF TimeOutReceiver
  <2>7. \A q \in QueueId : recvq'[q] = IF q = n THEN WithoutIndex(recvq[n], i) ELSE recvq[q]
    BY <1>0, <2>1 DEF TypeOK
  <2>8. ListsKept
    BY <1>1, <2>3, <2>6, <2>7 DEF ListsKept
  <2>9. \A q \in QueueId : /\ PidsOf(sendq'[q]) = PidsOf(sendq[q]) \ {w}
                           /\ PidsOf(recvq'[q]) = PidsOf(recvq[q]) \ {w}
    BY <2>3, <2>5, <2>6, <2>7
  <2>10. Wake(w, "#undefined", result)
    BY <2>1, <2>4 DEF TimeOutWaiter, w
  <2> QED
    BY <1>0, <2>2, <2>4, <2>8, <2>9, <2>10 DEF QueueEffect, Leaves, Wake
<1> QED
  BY <1>2, <1>3

\* The parts of the invariant that queue operations and timeouts keep; what
\* they do to the items is the subject of QueuesInv.
SceneInv == PoolInv /\ RunInv /\ WaitInv /\ KilledIsInert /\ IdleMeansDone

LEMMA EffectScene ==
    ASSUME IInv, QueueEffect
    PROVE  SceneInv'
<1>0. /\ TypeOK /\ LoopInv /\ PoolInv /\ RunInv /\ WaitInv /\ KilledIsInert /\ IdleMeansDone
      /\ UNCHANGED <<nprocs, pc, frames, conts, image, pending, gutted, cur, timer, phase>>
  BY DEF IInv, QueueEffect
<1>1. CASE UNCHANGED <<state, runq, sendq, recvq>>
  BY <1>0, <1>1 DEF SceneInv, PoolInv, RunInv, WaitInv, KilledIsInert, IdleMeansDone, IsSet
<1>2. ASSUME NEW w \in Pid, Leaves(w)
      PROVE  SceneInv'
  <2>1. /\ state[w] = "BLOCKED" /\ state' = [state EXCEPT ![w] = "READY"]
        /\ runq' = Append(runq, w)
    BY <1>2 DEF Leaves
  <2>2. \A p \in Pid : state'[p] = IF p = w THEN "READY" ELSE state[p]
    BY <1>0, <2>1 DEF TypeOK
  <2>3. PoolInv'
    BY <1>0, <2>1, <2>2 DEF PoolInv
  <2>4. w \notin Range(runq)
    BY <1>0, <2>1 DEF RunInv
  <2>5. Range(runq') = Range(runq) \cup {w} /\ IsInjective(runq')
    BY <1>0, <2>1, <2>4, AppendPid DEF RunInv, TypeOK
  <2>6. Range(runq) \subseteq Pid
    BY <1>0, ElementOfSeq, LenProperties DEF TypeOK, Range
  <2>7. RunInv'
    BY <1>0, <2>1, <2>2, <2>5, <2>6 DEF RunInv
  <2>8. WaitInv'
    <3>1. \A q \in QueueId : /\ OneEach(sendq'[q]) /\ OneEach(recvq'[q])
                             /\ PidsOf(sendq'[q]) = PidsOf(sendq[q]) \ {w}
                             /\ PidsOf(recvq'[q]) = PidsOf(recvq[q]) \ {w}
      BY <1>2 DEF Leaves, ListsKept
    <3>2. state'[w] # "BLOCKED"
      BY <2>2
    <3>3. \A r \in Pid : r # w => (state'[r] = "BLOCKED" <=> state[r] = "BLOCKED")
      BY <2>2
    <3> QED
      BY <1>0, <3>1, <3>2, <3>3, WaiterLeaves
  <2>9. KilledIsInert'
    BY <1>0, <2>1, <2>2, <2>5 DEF KilledIsInert
  <2>10. IdleMeansDone'
    BY <1>0, <2>1 DEF IdleMeansDone
  <2> QED
    BY <2>3, <2>7, <2>8, <2>9, <2>10 DEF SceneInv
<1>3. ASSUME NEW p \in Pid, NEW n \in QueueId, Enters(p, n)
      PROVE  SceneInv'
  <2>1. /\ cur = p /\ state[p] = "RUNNING" /\ state' = [state EXCEPT ![p] = "BLOCKED"]
        /\ runq' = runq
    BY <1>3 DEF Enters
  <2>2. \A r \in Pid : state'[r] = IF r = p THEN "BLOCKED" ELSE state[r]
    BY <1>0, <2>1 DEF TypeOK
  <2>3. PoolInv'
    BY <1>0, <2>1, <2>2 DEF PoolInv
  <2>4. p \notin Range(runq)
    BY <1>0, <2>1 DEF RunInv
  <2>5. Range(runq) \subseteq Pid
    BY <1>0, ElementOfSeq, LenProperties DEF TypeOK, Range
  <2>6. RunInv'
    BY <1>0, <2>1, <2>2, <2>4, <2>5 DEF RunInv
  <2>7. WaitInv'
    <3>1. \A r \in Pid : r # p => (state'[r] = "BLOCKED" <=> state[r] = "BLOCKED")
      BY <2>2
    <3>2. state'[p] = "BLOCKED" /\ state[p] # "BLOCKED"
      BY <2>1, <2>2
    <3> QED
      BY <1>0, <1>3, <3>1, <3>2, WaiterEnters DEF Enters, ListsKept
  <2>8. KilledIsInert'
    BY <1>0, <2>1, <2>2 DEF KilledIsInert
  <2>9. IdleMeansDone'
    BY <1>0, <2>1 DEF IdleMeansDone
  <2> QED
    BY <2>3, <2>6, <2>7, <2>8, <2>9 DEF SceneInv
<1> QED
  BY <1>1, <1>2, <1>3 DEF QueueEffect

-----------------------------------------------------------------------------
(* The items of the queues *)

\* A step that at most unlinks waiters leaves the discipline intact.
LEMMA WaitersOnlyLeave ==
    ASSUME QueuesInv, UNCHANGED <<nqueues, capacity, items>>,
           \A q \in QueueId : /\ sendq'[q] # <<>> => sendq[q] # <<>>
                              /\ recvq'[q] # <<>> => recvq[q] # <<>>
    PROVE  QueuesInv'
  BY DEF QueuesInv, QueueDiscipline

LEMMA WriteQueues ==
    ASSUME TypeOK, QueuesInv, NEW p \in Pid, NEW q \in QueueId, NEW v \in Values,
           NEW t \in Timeouts, QueueWrite(p, q, v, t)
    PROVE  QueuesInv'
<1>0. UNCHANGED <<nqueues, capacity>>
  BY DEF QueueWrite
<1>1. CASE WriteNoQueue(p, q)
  BY <1>0, <1>1, WaitersOnlyLeave DEF WriteNoQueue
<1>2. CASE WriteHandOver(p, q, v)
  <2>1. \A n \in QueueId : recvq'[n] # <<>> => recvq[n] # <<>>
    BY <1>2 DEF WriteHandOver, TypeOK
  <2> QED
    BY <1>0, <1>2, <2>1, WaitersOnlyLeave DEF WriteHandOver
<1>3. CASE WriteItem(p, q, v)
  <2>1. Len(Append(items[q], v)) = Len(items[q]) + 1
    BY AppendProperties DEF TypeOK
  <2>2. \A n \in QueueId : items'[n] = IF n = q THEN Append(items[q], v) ELSE items[n]
    BY <1>3 DEF WriteItem, TypeOK
  <2>3. Len(items[q]) \in Nat /\ capacity[q] \in Nat /\ Len(items[q]) < capacity[q]
    BY <1>3, LenProperties DEF WriteItem, TypeOK
  <2>4. sendq[q] = <<>> /\ recvq[q] = <<>> /\ q <= nqueues
    BY <1>3, <2>3 DEF WriteItem, QueuesInv, QueueDiscipline
  <2>5. UNCHANGED <<sendq, recvq>>
    BY <1>3 DEF WriteItem
  <2>6. nqueues \in Nat /\ q \in Nat
    BY DEF TypeOK, QueueId
  <2>7. /\ Len(items'[q]) <= capacity'[q] /\ sendq'[q] = <<>> /\ recvq'[q] = <<>>
        /\ ~(q > nqueues')
    <3>1. items'[q] = Append(items[q], v)
      BY <2>2
    <3>2. Len(items'[q]) <= capacity[q]
      BY <2>1, <2>3, <3>1
    <3> QED
      BY <1>0, <2>4, <2>5, <2>6, <3>2
  <2>8. \A n \in QueueId : n # q => items'[n] = items[n]
    BY <2>2
  <2> QED
    BY <1>0, <2>5, <2>7, <2>8 DEF QueuesInv, QueueDiscipline
<1>4. CASE WriteFull(p, q, v, t)
  <2>1. UNCHANGED <<items, recvq>> /\ recvq[q] = <<>> /\ q <= nqueues /\ Len(items[q]) >= capacity[q]
    BY <1>4 DEF WriteFull
  <2>2. Len(items[q]) \in Nat /\ capacity[q] \in Nat /\ Len(items[q]) <= capacity[q]
    BY LenProperties DEF TypeOK, QueuesInv, QueueDiscipline
  <2>3. Len(items[q]) = capacity[q]
    BY <2>1, <2>2
  <2>4. \A n \in QueueId : n # q => sendq'[n] = sendq[n]
    BY <1>4 DEF WriteFull, TypeOK
  <2>5. nqueues \in Nat /\ q \in Nat
    BY DEF TypeOK, QueueId
  <2> QED
    BY <1>0, <2>1, <2>3, <2>4, <2>5 DEF QueuesInv, QueueDiscipline
<1> QED
  BY <1>1, <1>2, <1>3, <1>4 DEF QueueWrite

LEMMA ReadQueues ==
    ASSUME TypeOK, QueuesInv, NEW p \in Pid, NEW q \in QueueId,
           NEW t \in Timeouts, QueueRead(p, q, t)
    PROVE  QueuesInv'
<1>0. UNCHANGED <<nqueues, capacity>>
  BY DEF QueueRead
<1>1. nqueues \in Nat /\ q \in Nat /\ items[q] \in Seq(Values) /\ capacity[q] \in Nat
  BY DEF TypeOK, QueueId
<1>2. items[q] # <<>> => /\ Len(items[q]) \in Nat \ {0}
                         /\ Tail(items[q]) \in Seq(Values)
                         /\ Len(Tail(items[q])) = Len(items[q]) - 1
  BY <1>1, HeadTailProperties, EmptySeq, LenProperties
<1>3. CASE ReadNoQueue(p, q)
  BY <1>0, <1>3, WaitersOnlyLeave DEF ReadNoQueue
<1>4. CASE ReadItem(p, q)
  <2>1. \A n \in QueueId : items'[n] = IF n = q THEN Tail(items[q]) ELSE items[n]
    BY <1>4 DEF ReadItem, TypeOK
  <2>2. sendq[q] = <<>> /\ recvq[q] = <<>> /\ q <= nqueues /\ UNCHANGED <<sendq, recvq>>
    BY <1>4 DEF ReadItem, QueuesInv, QueueDiscipline
  <2>3. Len(Tail(items[q])) <= capacity[q]
    BY <1>1, <1>2, <1>4 DEF ReadItem, QueuesInv, QueueDiscipline
  <2>4. /\ Len(items'[q]) <= capacity'[q] /\ sendq'[q] = <<>> /\ recvq'[q] = <<>>
        /\ ~(q > nqueues')
    <3>1. items'[q] = Tail(items[q])
      BY <2>1
    <3> QED
      BY <1>0, <1>1, <2>2, <2>3, <3>1
  <2>5. \A n \in QueueId : n # q => items'[n] = items[n]
    BY <2>1
  <2> QED
    BY <1>0, <2>2, <2>4, <2>5 DEF QueuesInv, QueueDiscipline
<1>5. CASE ReadItemAndAdmit(p, q)
  <2> DEFINE new == Append(Tail(items[q]), Head(sendq[q]).value)
  <2>1. Head(sendq[q]).value \in Values
    <3>1. sendq[q] \in Seq(Sender) /\ sendq[q] # <<>>
      BY <1>5 DEF ReadItemAndAdmit, TypeOK
    <3>2. Head(sendq[q]) \in Sender
      BY <3>1, HeadTailProperties
    <3> QED
      BY <3>2 DEF Sender
  <2>2. Len(new) = Len(items[q]) /\ Len(new) \in Nat
    BY <1>2, <1>5, <2>1, AppendProperties DEF ReadItemAndAdmit
  <2>3. \A n \in QueueId : /\ items'[n] = IF n = q THEN new ELSE items[n]
                           /\ sendq'[n] = IF n = q THEN Tail(sendq[q]) ELSE sendq[n]
    BY <1>5 DEF ReadItemAndAdmit, TypeOK
  <2>4. sendq[q] # <<>> /\ recvq[q] = <<>> /\ q <= nqueues /\ UNCHANGED recvq
    BY <1>5 DEF ReadItemAndAdmit, QueuesInv, QueueDiscipline
  <2> HIDE DEF new
  <2> QED
    BY <1>0, <1>1, <2>2, <2>3, <2>4 DEF QueuesInv, QueueDiscipline
<1>6. CASE ReadEmpty(p, q, t)
  <2>1. UNCHANGED <<items, sendq>> /\ items[q] = <<>> /\ q <= nqueues
    BY <1>6 DEF ReadEmpty
  <2>2. \A n \in QueueId : n # q => recvq'[n] = recvq[n]
    BY <1>6 DEF ReadEmpty, TypeOK
  <2> QED
    BY <1>0, <1>1, <2>1, <2>2 DEF QueuesInv, QueueDiscipline
<1> QED
  BY <1>3, <1>4, <1>5, <1>6 DEF QueueRead

\* Timeouts, kills and the passing of time only take waiters away.
LEMMA TimeOutQueues ==
    ASSUME IInv, NEW n \in QueueId, TimeOutSender(n) \/ TimeOutReceiver(n)
    PROVE  QueuesInv'
<1>1. TypeOK /\ QueuesInv /\ UNCHANGED <<nqueues, capacity, items>>
  BY DEF IInv, TimeOutSender, TimeOutReceiver
<1>2. \A q \in QueueId : sendq'[q] # <<>> => sendq[q] # <<>>
  <2>1. CASE TimeOutSender(n)
    <3>1. PICK i \in DOMAIN sendq[n] : sendq' = [sendq EXCEPT ![n] = WithoutIndex(@, i)]
      BY <2>1 DEF TimeOutSender
    <3>2. sendq[n] # <<>>
      OBVIOUS
    <3> QED
      BY <1>1, <3>1, <3>2 DEF TypeOK
  <2>2. CASE TimeOutReceiver(n)
    BY <2>2 DEF TimeOutReceiver
  <2> QED
    BY <2>1, <2>2
<1>3. \A q \in QueueId : recvq'[q] # <<>> => recvq[q] # <<>>
  <2>1. CASE TimeOutReceiver(n)
    <3>1. PICK i \in DOMAIN recvq[n] : recvq' = [recvq EXCEPT ![n] = WithoutIndex(@, i)]
      BY <2>1 DEF TimeOutReceiver
    <3>2. recvq[n] # <<>>
      OBVIOUS
    <3> QED
      BY <1>1, <3>1, <3>2 DEF TypeOK
  <2>2. CASE TimeOutSender(n)
    BY <2>2 DEF TimeOutSender
  <2> QED
    BY <2>1, <2>2
<1> QED
  BY <1>1, <1>2, <1>3, WaitersOnlyLeave

-----------------------------------------------------------------------------
(* The instructions                                                        *)

\* A step that leaves the lists of waiters alone and blocks or wakes nobody.
LEMMA NobodyMoves ==
    ASSUME WaitInv, UNCHANGED <<sendq, recvq>>,
           \A r \in Pid : state'[r] = "BLOCKED" <=> state[r] = "BLOCKED"
    PROVE  WaitInv'
<1>1. \A q \in QueueId : OneEach(sendq'[q]) /\ OneEach(recvq'[q])
  BY DEF WaitInv
<1> QED
  BY <1>1, WaitersKept

\* The current process stops: by System.exit, at op_halt, or on an error.
LEMMA StopScene ==
    ASSUME IInv, NEW p \in Pid, Halt(p) \/ Fail(p)
    PROVE  SceneInv'
<1>1. /\ cur = p /\ state[p] = "RUNNING" /\ state' = [state EXCEPT ![p] = "STOPPED"]
      /\ \A r \in Pid : r # p => pc'[r] = pc[r]
      /\ UNCHANGED <<nprocs, frames, pending, gutted, runq, cur, sendq, recvq, timer, phase>>
  BY DEF IInv, TypeOK, Halt, Fail, Executing, queueVars, timerVars, loopVars
<1>2. TypeOK /\ PoolInv /\ RunInv /\ WaitInv /\ KilledIsInert /\ phase = "ticks"
  BY <1>1, ExecutingInTicks DEF IInv
<1>3. \A r \in Pid : state'[r] = IF r = p THEN "STOPPED" ELSE state[r]
  BY <1>1, <1>2 DEF TypeOK
<1>4. Range(runq) \subseteq Pid
  BY <1>2, ElementOfSeq, LenProperties DEF TypeOK, Range
<1>5. PoolInv'
  BY <1>1, <1>2, <1>3 DEF PoolInv
<1>6. RunInv'
  BY <1>1, <1>2, <1>3, <1>4 DEF RunInv
<1>7. WaitInv'
  BY <1>1, <1>2, <1>3, NobodyMoves
<1>8. KilledIsInert'
  BY <1>1, <1>2, <1>3 DEF KilledIsInert
<1>9. IdleMeansDone'
  BY <1>1, <1>2 DEF IdleMeansDone
<1> QED
  BY <1>5, <1>6, <1>7, <1>8, <1>9 DEF SceneInv

\* The instructions that leave the states of all processes, the run queue and
\* the lists of waiters as they are.
LEMMA LocalScene ==
    ASSUME IInv, NEW p \in Pid,
           \/ CallbackReturn(p) \/ Capture(p) \/ CallContinuation(p) \/ Exec(p)
           \/ \E len \in Capacities : MakeQueue(p, len)
           \/ \E d \in Delays, repeat \in BOOLEAN : SetTimer(p, d, repeat)
           \/ \E t \in TimerId : ClearTimer(p, t)
    PROVE  SceneInv'
<1>1. /\ cur = p /\ state[p] = "RUNNING"
      /\ UNCHANGED <<nprocs, state, pending, gutted, runq, cur, sendq, recvq, phase>>
  BY DEF CallbackReturn, Capture, CallContinuation, Exec, MakeQueue, SetTimer, ClearTimer,
         Executing, procVars, queueVars, timerVars, loopVars
<1>2. TypeOK /\ PoolInv /\ RunInv /\ WaitInv /\ KilledIsInert /\ phase = "ticks"
  BY <1>1, ExecutingInTicks DEF IInv
<1>3. \A r \in Pid : r # p => pc'[r] = pc[r] /\ frames'[r] = frames[r]
  BY <1>2 DEF TypeOK, CallbackReturn, Capture, CallContinuation, Exec, MakeQueue, SetTimer,
              ClearTimer, procVars
<1>4. \A t \in TimerId : timer'[t].pid \in {timer[t].pid, p, NoPid}
  <2>1. CASE \/ CallbackReturn(p) \/ Capture(p) \/ CallContinuation(p) \/ Exec(p)
             \/ \E len \in Capacities : MakeQueue(p, len)
    BY <2>1 DEF CallbackReturn, Capture, CallContinuation, Exec, MakeQueue, timerVars
  <2>2. ASSUME NEW d \in Delays, NEW repeat \in BOOLEAN, SetTimer(p, d, repeat)
        PROVE  \A t \in TimerId : timer'[t].pid \in {timer[t].pid, p, NoPid}
    <3> DEFINE new == [pid |-> p, left |-> d, repeat |-> repeat, image |-> image[p],
                       interval |-> IF repeat THEN d ELSE 0]
    <3>1. new.pid = p
      OBVIOUS
    <3> HIDE DEF new
    <3>2. \A t \in TimerId : timer'[t] = IF t = ntimers + 1 THEN new ELSE timer[t]
      BY <1>2, <2>2 DEF SetTimer, TypeOK, new
    <3> QED
      BY <3>1, <3>2
  <2>3. ASSUME NEW u \in TimerId, ClearTimer(p, u)
        PROVE  \A t \in TimerId : timer'[t].pid \in {timer[t].pid, p, NoPid}
    <3>1. \A t \in TimerId : timer'[t] = IF t = u THEN NoTimer ELSE timer[t]
      BY <1>2, <2>3 DEF ClearTimer, TypeOK
    <3>2. NoTimer.pid = NoPid
      BY DEF NoTimer
    <3> QED
      BY <3>1, <3>2
  <2> QED
    BY <2>1, <2>2, <2>3
<1>5. PoolInv'
  BY <1>1, <1>2, <1>3 DEF PoolInv
<1>6. RunInv'
  BY <1>1, <1>2 DEF RunInv
<1>7. WaitInv'
  BY <1>1, <1>2, NobodyMoves
<1>8. KilledIsInert'
  <2>1. \A r \in Pid : r # NoPid
    BY DEF Pid, NoPid
  <2> QED
    BY <1>1, <1>2, <1>4, <2>1 DEF KilledIsInert
<1>9. IdleMeansDone'
  BY <1>1, <1>2 DEF IdleMeansDone
<1> QED
  BY <1>5, <1>6, <1>7, <1>8, <1>9 DEF SceneInv

\* Parent and child are two processes that were not queued before.
LEMMA ForkScene ==
    ASSUME IInv, NEW p \in Pid, Fork(p)
    PROVE  SceneInv'
<1>0. nprocs \in Pid
  BY DEF IInv, Fork, TypeOK, Pid
<1>c. PICK c \in Pid : c = nprocs
  BY <1>0
<1>1. /\ cur = p /\ state[p] = "RUNNING" /\ nprocs' = nprocs + 1
      /\ state' = [state EXCEPT ![p] = "READY", ![c] = "READY"]
      /\ pc' = [pc EXCEPT ![c] = pc[p]]
      /\ frames' = [frames EXCEPT ![c] = frames[p]]
      /\ runq' = Append(Append(runq, p), c)
      /\ UNCHANGED <<pending, gutted, cur, sendq, recvq, timer, phase>>
  BY <1>c DEF Fork, Executing, queueVars, timerVars, loopVars
<1>2. TypeOK /\ PoolInv /\ RunInv /\ WaitInv /\ KilledIsInert /\ phase = "ticks"
  BY <1>1, ExecutingInTicks DEF IInv
<1>3. c \in Pid /\ c \in Nat
  BY DEF Pid
<1>4. state[c] = "FREE" /\ c # p
  BY <1>c, <1>1, <1>2, <1>3 DEF PoolInv
<1>5. /\ \A r \in Pid : state'[r] = IF r = p \/ r = c THEN "READY" ELSE state[r]
      /\ \A r \in Pid : r # c => pc'[r] = pc[r] /\ frames'[r] = frames[r]
  BY <1>1, <1>2, <1>3 DEF TypeOK
<1>6. Range(runq) \subseteq Pid
  BY <1>2, ElementOfSeq, LenProperties DEF TypeOK, Range
<1>7. p \notin Range(runq) /\ c \notin Range(runq)
  BY <1>1, <1>2, <1>4 DEF RunInv
<1>8. Range(runq') = Range(runq) \cup {p, c} /\ IsInjective(runq')
  <2>1. /\ Append(runq, p) \in Seq(Pid)
        /\ Range(Append(runq, p)) = Range(runq) \cup {p}
        /\ IsInjective(Append(runq, p))
    BY <1>2, <1>7, AppendPid DEF TypeOK, RunInv
  <2>2. PICK s \in Seq(Pid) : s = Append(runq, p)
    BY <2>1
  <2>3. IsInjective(s) /\ c \notin Range(s)
    BY <1>4, <1>7, <2>1, <2>2
  <2>4. Range(Append(s, c)) = Range(s) \cup {c} /\ IsInjective(Append(s, c))
    BY <2>3, AppendPid
  <2>5. runq' = Append(s, c) /\ Range(s) = Range(runq) \cup {p}
    BY <1>1, <2>1, <2>2
  <2> QED
    BY <2>4, <2>5
<1>same. /\ cur = p /\ state[p] = "RUNNING"
         /\ UNCHANGED <<pending, gutted, cur, sendq, recvq, timer, phase>>
  BY <1>1
<1>9. PoolInv'
  <2>1. \A r \in Pid : r \in Nat
    BY DEF Pid
  <2>2. \A r \in Pid : r >= nprocs' <=> (r >= nprocs /\ r # c)
    BY <1>c, <1>1, <1>3, <2>1
  <2> QED
    BY <1>same, <1>2, <1>4, <1>5, <2>2 DEF PoolInv
<1>10. RunInv'
  BY <1>same, <1>2, <1>5, <1>6, <1>8 DEF RunInv
<1>11. WaitInv'
  BY <1>same, <1>2, <1>4, <1>5, NobodyMoves
<1>12. KilledIsInert'
  BY <1>same, <1>2, <1>4, <1>5, <1>8 DEF KilledIsInert
<1>13. IdleMeansDone'
  BY <1>1, <1>2 DEF IdleMeansDone
<1> QED
  BY <1>9, <1>10, <1>11, <1>12, <1>13 DEF SceneInv

\* The killed process leaves the run queue, every list of waiters and every
\* timer; its memory is released now or at the end of its tick.
LEMMA KillScene ==
    ASSUME IInv, NEW p \in Pid, NEW k \in Pid, Kill(p, k)
    PROVE  SceneInv'
<1>1. /\ cur = p /\ state[p] = "RUNNING" /\ k < nprocs /\ state[k] # "KILLED"
      /\ state' = [state EXCEPT ![k] = "KILLED"]
      /\ UNCHANGED <<nprocs, cur, phase>>
  BY DEF Kill, Executing, loopVars
<1>2. TypeOK /\ PoolInv /\ RunInv /\ WaitInv /\ KilledIsInert /\ phase = "ticks"
  BY <1>1, ExecutingInTicks DEF IInv
<1>3. \A r \in Pid : state'[r] = IF r = k THEN "KILLED" ELSE state[r]
  BY <1>1, <1>2 DEF TypeOK
<1>same. cur = p /\ state[p] = "RUNNING" /\ UNCHANGED <<nprocs, cur, phase>>
  BY <1>1
<1>4. state[k] # "FREE"
  <2>1. ~(k >= nprocs)
    BY <1>1, <1>2 DEF Pid, TypeOK
  <2> QED
    BY <1>2, <2>1 DEF PoolInv
<1>5. ~gutted[k] /\ ~pending[k]
  BY <1>1, <1>2 DEF KilledIsInert
<1>6. \A r \in Pid : r # k => /\ pc'[r] = pc[r] /\ frames'[r] = frames[r]
                              /\ gutted'[r] = gutted[r] /\ pending'[r] = pending[r]
  BY <1>2 DEF Kill, GutOrDefer, TypeOK
<1>7. gutted'[k] # pending'[k]
  <2>1. CASE state[k] = "RUNNING"
    <3>1. pending'[k] = TRUE /\ gutted' = gutted
      BY <1>2, <2>1 DEF Kill, GutOrDefer, TypeOK
    <3> QED
      BY <1>5, <3>1
  <2>2. CASE state[k] # "RUNNING"
    <3>1. gutted'[k] = TRUE /\ pending' = pending
      BY <1>2, <2>2 DEF Kill, GutOrDefer, TypeOK
    <3> QED
      BY <1>5, <3>1
  <2> QED
    BY <2>1, <2>2
<1>8. Range(runq') = Range(runq) \ {k} /\ IsInjective(runq')
  <2>1. runq' = WithoutPid(runq, k)
    BY DEF Kill
  <2> QED
    BY <1>2, <2>1, WithoutPidProps DEF TypeOK, RunInv
<1>9. Range(runq) \subseteq Pid
  BY <1>2, ElementOfSeq, LenProperties DEF TypeOK, Range
<1>10. PoolInv'
  BY <1>same, <1>2, <1>3, <1>4, <1>6 DEF PoolInv
<1>11. RunInv'
  BY <1>same, <1>2, <1>3, <1>8, <1>9 DEF RunInv
<1>12. WaitInv'
  <2>1. \A q \in QueueId : /\ sendq[q] \in Seq(Sender) /\ OneEach(sendq[q])
                           /\ recvq[q] \in Seq(Receiver) /\ OneEach(recvq[q])
    BY <1>2 DEF TypeOK, WaitInv
  <2>2. \A q \in QueueId : /\ sendq'[q] = WithoutWaiter(sendq[q], k)
                           /\ recvq'[q] = WithoutWaiter(recvq[q], k)
    BY DEF Kill
  <2>3. \A q \in QueueId : /\ PidsOf(sendq'[q]) = PidsOf(sendq[q]) \ {k}
                           /\ PidsOf(recvq'[q]) = PidsOf(recvq[q]) \ {k}
                           /\ OneEach(sendq'[q]) /\ OneEach(recvq'[q])
    BY <2>1, <2>2, WithoutWaiterProps
  <2>4. /\ state'[k] # "BLOCKED"
        /\ \A r \in Pid : r # k => (state'[r] = "BLOCKED" <=> state[r] = "BLOCKED")
    BY <1>3
  <2> QED
    BY <1>2, <2>3, <2>4, WaiterLeaves
<1>13. KilledIsInert'
  <2>1. \A t \in TimerId : timer'[t].pid \in {timer[t].pid, NoPid} \ {k}
    <3>1. NoTimer.pid = NoPid /\ k # NoPid
      BY DEF NoTimer, Pid, NoPid
    <3>2. \A t \in TimerId : timer'[t] = IF timer[t].pid = k THEN NoTimer ELSE timer[t]
      BY DEF Kill
    <3> QED
      BY <3>1, <3>2
  <2>2. \A r \in Pid : r # NoPid
    BY DEF Pid, NoPid
  <2>3. ASSUME NEW r \in Pid, r # k
        PROVE  /\ state'[r] = "KILLED" =>
                    /\ \A t \in TimerId : timer'[t].pid # r
                    /\ r \notin Range(runq')
                    /\ gutted'[r] # pending'[r]
               /\ gutted'[r] \/ pending'[r] => state'[r] = "KILLED"
    BY <1>2, <1>3, <1>6, <1>8, <2>1, <2>2, <2>3 DEF KilledIsInert
  <2>4. /\ state'[k] = "KILLED"
        /\ \A t \in TimerId : timer'[t].pid # k
        /\ k \notin Range(runq')
    BY <1>3, <1>8, <2>1
  <2> QED
    BY <1>7, <2>3, <2>4 DEF KilledIsInert
<1>14. IdleMeansDone'
  BY <1>same, <1>2 DEF IdleMeansDone
<1> QED
  BY <1>10, <1>11, <1>12, <1>13, <1>14 DEF SceneInv

LEMMA KillQueues ==
    ASSUME IInv, NEW p \in Pid, NEW k \in Pid, Kill(p, k)
    PROVE  QueuesInv'
<1>1. TypeOK /\ QueuesInv /\ UNCHANGED <<nqueues, capacity, items>>
  BY DEF IInv, Kill
<1>2. ASSUME NEW q \in QueueId
      PROVE  /\ sendq'[q] # <<>> => sendq[q] # <<>>
             /\ recvq'[q] # <<>> => recvq[q] # <<>>
  <2>1. sendq[q] \in Seq(Sender) /\ recvq[q] \in Seq(Receiver)
    BY <1>1 DEF TypeOK
  <2>2. sendq'[q] = WithoutWaiter(sendq[q], k) /\ recvq'[q] = WithoutWaiter(recvq[q], k)
    BY DEF Kill
  <2>3. /\ sendq'[q] \in Seq(Sender) /\ PidsOf(sendq'[q]) \subseteq PidsOf(sendq[q])
        /\ recvq'[q] \in Seq(Receiver) /\ PidsOf(recvq'[q]) \subseteq PidsOf(recvq[q])
    BY <2>1, <2>2, WithoutWaiterProps
  <2>4. /\ PidsOf(sendq'[q]) = {} <=> sendq'[q] = <<>>
        /\ PidsOf(sendq[q]) = {} <=> sendq[q] = <<>>
        /\ PidsOf(recvq'[q]) = {} <=> recvq'[q] = <<>>
        /\ PidsOf(recvq[q]) = {} <=> recvq[q] = <<>>
    BY <2>1, <2>3, NobodyWaits
  <2> QED
    BY <2>3, <2>4
<1> QED
  BY <1>1, <1>2, WaitersOnlyLeave

\* The new queue is empty, and nobody waits for it yet.
LEMMA MakeQueueQueues ==
    ASSUME IInv, NEW p \in Pid, NEW len \in Capacities, MakeQueue(p, len)
    PROVE  QueuesInv'
<1>1. /\ TypeOK /\ QueuesInv /\ nqueues < MaxQueues /\ nqueues' = nqueues + 1
      /\ capacity' = [capacity EXCEPT ![nqueues + 1] = len]
      /\ UNCHANGED <<items, sendq, recvq>>
  BY DEF IInv, MakeQueue
<1>2. nqueues \in Nat /\ nqueues + 1 \in QueueId /\ len \in Nat /\ \A q \in QueueId : q \in Nat
  BY <1>1 DEF TypeOK, QueueId
<1>3. \A q \in QueueId : capacity'[q] = IF q = nqueues + 1 THEN len ELSE capacity[q]
  BY <1>1, <1>2 DEF TypeOK
<1>4. \A q \in QueueId : q > nqueues => items[q] = <<>> /\ sendq[q] = <<>> /\ recvq[q] = <<>>
  BY <1>1 DEF QueuesInv
<1>5. Len(<<>>) = 0
  BY EmptySeq
<1> QED
  BY <1>1, <1>2, <1>3, <1>4, <1>5 DEF QueuesInv, QueueDiscipline

LEMMA InstructionIInv ==
    ASSUME IInv, NEW p \in Pid, Instruction(p)
    PROVE  SceneInv' /\ QueuesInv'
<1>0. TypeOK /\ QueuesInv
  BY DEF IInv
<1>1. CASE \/ Halt(p) \/ Fail(p) \/ CallbackReturn(p) \/ Capture(p) \/ CallContinuation(p)
           \/ Exec(p) \/ Fork(p)
           \/ \E d \in Delays, repeat \in BOOLEAN : SetTimer(p, d, repeat)
           \/ \E t \in TimerId : ClearTimer(p, t)
  <2>1. QueuesInv'
    <3>1. UNCHANGED queueVars
      BY <1>1 DEF Halt, Fail, CallbackReturn, Capture, CallContinuation, Exec, Fork, SetTimer,
                  ClearTimer
    <3> QED
      BY <1>0, <3>1 DEF queueVars, QueuesInv, QueueDiscipline
  <2> QED
    BY <1>1, <2>1, StopScene, LocalScene, ForkScene
<1>2. CASE \E k \in Pid : Kill(p, k)
  BY <1>2, KillScene, KillQueues
<1>3. CASE \E len \in Capacities : MakeQueue(p, len)
  BY <1>3, LocalScene, MakeQueueQueues
<1>4. CASE \E q \in QueueId, v \in Values, t \in Timeouts : QueueWrite(p, q, v, t)
  BY <1>0, <1>4, WriteEffect, EffectScene, WriteQueues
<1>5. CASE \E q \in QueueId, t \in Timeouts : QueueRead(p, q, t)
  BY <1>0, <1>5, ReadEffect, EffectScene, ReadQueues
<1> QED
  BY <1>1, <1>2, <1>3, <1>4, <1>5 DEF Instruction

-----------------------------------------------------------------------------
(* The loop                                                                *)

LEMMA TickScene ==
    ASSUME IInv, TickBegin \/ SliceEnd \/ TickEnd
    PROVE  SceneInv'
<1>0. TypeOK /\ LoopInv /\ PoolInv /\ RunInv /\ WaitInv /\ KilledIsInert
  BY DEF IInv
<1>1. /\ UNCHANGED <<nprocs, sendq, recvq, timer, phase>>
      /\ phase = "ticks"
  BY <1>0 DEF TickBegin, SliceEnd, TickEnd, LoopInv, queueVars, timerVars, loopVars
<1>2. Range(runq) \subseteq Pid
  BY <1>0, ElementOfSeq, LenProperties DEF TypeOK, Range
<1>3. IdleMeansDone'
  BY <1>1 DEF IdleMeansDone
<1>4. \A p \in Pid : p # NoPid
  BY DEF Pid, NoPid
<1>5. CASE TickBegin
  <2>1. PICK p : p = Head(runq)
    OBVIOUS
  <2>2. /\ p \in Pid /\ p \in Range(runq)
        /\ IsInjective(Tail(runq)) /\ Range(Tail(runq)) = Range(runq) \ {p}
    BY <1>0, <1>5, <2>1, TailPids DEF TickBegin, TypeOK, RunInv
  <2>3. /\ cur = NoPid /\ cur' = p /\ runq' = Tail(runq)
        /\ state' = [state EXCEPT ![p] = "RUNNING"]
        /\ UNCHANGED <<pc, frames, pending, gutted>>
    BY <1>5, <2>1 DEF TickBegin
  <2>4. \A r \in Pid : state'[r] = IF r = p THEN "RUNNING" ELSE state[r]
    BY <1>0, <2>2, <2>3 DEF TypeOK
  <2>5. state[p] \in {"READY", "RUNNING"}
    BY <1>0, <2>2 DEF RunInv
  <2>6. /\ cur = NoPid /\ cur' = p /\ UNCHANGED <<pc, frames, pending, gutted>>
        /\ Range(runq') = Range(runq) \ {p} /\ IsInjective(runq')
    BY <2>2, <2>3
  <2>7. PoolInv'
    BY <1>0, <1>1, <2>4, <2>5, <2>6 DEF PoolInv
  <2>8. RunInv'
    BY <1>0, <1>2, <1>4, <2>2, <2>4, <2>6 DEF RunInv
  <2>9. WaitInv'
    BY <1>0, <1>1, <2>4, <2>5, NobodyMoves
  <2>10. KilledIsInert'
    BY <1>0, <1>1, <2>4, <2>5, <2>6 DEF KilledIsInert
  <2> QED
    BY <1>3, <2>7, <2>8, <2>9, <2>10 DEF SceneInv
<1>6. CASE SliceEnd
  <2>1. PICK p \in Pid : p = cur
    BY <1>0, <1>6 DEF SliceEnd, TypeOK
  <2>2. /\ state[p] = "RUNNING" /\ cur' = NoPid /\ runq' = Append(runq, p)
        /\ state' = [state EXCEPT ![p] = "READY"]
        /\ UNCHANGED <<pc, frames, pending, gutted>>
    BY <1>6, <2>1 DEF SliceEnd
  <2>3. p \notin Range(runq)
    BY <1>0, <2>1, <2>2 DEF RunInv
  <2>4. Range(runq') = Range(runq) \cup {p} /\ IsInjective(runq')
    BY <1>0, <2>2, <2>3, AppendPid DEF TypeOK, RunInv
  <2>5. \A r \in Pid : state'[r] = IF r = p THEN "READY" ELSE state[r]
    BY <1>0, <2>2 DEF TypeOK
  <2>6. /\ state[p] = "RUNNING" /\ cur' = NoPid /\ UNCHANGED <<pc, frames, pending, gutted>>
    BY <2>2
  <2>7. PoolInv'
    BY <1>0, <1>1, <2>5, <2>6 DEF PoolInv
  <2>8. RunInv'
    BY <1>0, <1>2, <1>4, <2>1, <2>4, <2>5, <2>6 DEF RunInv
  <2>9. WaitInv'
    BY <1>0, <1>1, <2>5, <2>6, NobodyMoves
  <2>10. KilledIsInert'
    BY <1>0, <1>1, <2>4, <2>5, <2>6 DEF KilledIsInert
  <2> QED
    BY <1>3, <2>7, <2>8, <2>9, <2>10 DEF SceneInv
<1>7. CASE TickEnd
  <2>1. PICK p \in Pid : p = cur
    BY <1>0, <1>7 DEF TickEnd, TypeOK
  <2>2. state[p] # "RUNNING" /\ cur' = NoPid /\ UNCHANGED <<state, runq>>
    BY <1>7, <2>1 DEF TickEnd
  <2>3. \A r \in Pid : r # p => /\ pc'[r] = pc[r] /\ frames'[r] = frames[r]
                                /\ gutted'[r] = gutted[r] /\ pending'[r] = pending[r]
    BY <1>0, <1>7, <2>1 DEF TickEnd, TypeOK
  <2>4. \/ state[p] = "KILLED" /\ pending[p] /\ gutted'[p] /\ ~pending'[p]
        \/ UNCHANGED <<gutted, pending, pc, frames, conts>>
    <3>1. CASE state[p] = "KILLED" /\ pending[p]
      <4>1. gutted' = [gutted EXCEPT ![p] = TRUE] /\ pending' = [pending EXCEPT ![p] = FALSE]
        BY <1>7, <2>1, <3>1 DEF TickEnd
      <4>2. gutted'[p] = TRUE /\ pending'[p] = FALSE
        BY <1>0, <4>1 DEF TypeOK
      <4> QED
        BY <3>1, <4>2
    <3>2. CASE ~(state[p] = "KILLED" /\ pending[p])
      BY <1>7, <2>1, <3>2 DEF TickEnd
    <3> QED
      BY <3>1, <3>2
  <2>5. PoolInv'
    <3>1. CASE UNCHANGED <<gutted, pending, pc, frames, conts>>
      BY <1>0, <1>1, <2>2, <3>1 DEF PoolInv
    <3>2. CASE state[p] = "KILLED"
      BY <1>0, <1>1, <2>2, <2>3, <3>2 DEF PoolInv
    <3> QED
      BY <2>4, <3>1, <3>2
  <2>6. RunInv'
    BY <1>0, <1>2, <1>4, <2>1, <2>2 DEF RunInv
  <2>7. WaitInv'
    BY <1>0, <1>1, <2>2, NobodyMoves
  <2>8. KilledIsInert'
    <3>1. CASE UNCHANGED <<gutted, pending, pc, frames, conts>>
      BY <1>0, <1>1, <2>2, <3>1 DEF KilledIsInert
    <3>2. CASE state[p] = "KILLED" /\ pending[p] /\ gutted'[p] /\ ~pending'[p]
      <4>1. ASSUME NEW r \in Pid, r # p
            PROVE  /\ state'[r] = "KILLED" =>
                        /\ \A t \in TimerId : timer'[t].pid # r
                        /\ r \notin Range(runq')
                        /\ gutted'[r] # pending'[r]
                   /\ gutted'[r] \/ pending'[r] => state'[r] = "KILLED"
        BY <1>0, <1>1, <2>2, <2>3, <4>1 DEF KilledIsInert
      <4>2. /\ \A t \in TimerId : timer'[t].pid # p
            /\ p \notin Range(runq')
            /\ gutted'[p] # pending'[p]
            /\ state'[p] = "KILLED"
        BY <1>0, <1>1, <2>2, <3>2 DEF KilledIsInert
      <4> QED
        BY <4>1, <4>2 DEF KilledIsInert
    <3> QED
      BY <2>4, <3>1, <3>2
  <2> QED
    BY <1>3, <2>5, <2>6, <2>7, <2>8 DEF SceneInv
<1> QED
  BY <1>5, <1>6, <1>7

\* A timer fires for a process that is queued, or queues it; it is set again
\* for its own process, or gone.
LEMMA VisitScene ==
    ASSUME IInv, VisitTimer
    PROVE  SceneInv'
<1>0. /\ TypeOK /\ LoopInv /\ PoolInv /\ RunInv /\ WaitInv /\ KilledIsInert
      /\ UNCHANGED <<nprocs, pending, gutted, cur, sendq, recvq, phase>>
      /\ phase = "timers"
  BY DEF IInv, VisitTimer, queueVars
<1>1. PICK t \in TimerId : t \in due /\ (SkipTimer(t) \/ FireStopped(t) \/ FireQueued(t))
  BY DEF VisitTimer, IsNewest
<1>2. PICK p \in Pid : p = timer[t].pid
  BY <1>0, <1>1 DEF LoopInv
<1>3. cur = NoPid /\ \A r \in Pid : r # NoPid
  BY <1>0 DEF LoopInv, Pid, NoPid
<1>4. state[p] # "KILLED"
  BY <1>0, <1>2 DEF KilledIsInert
<1>5. CASE SkipTimer(t)
  <2>1. UNCHANGED <<state, pc, frames, runq, timer>>
    BY <1>2, <1>4, <1>5 DEF SkipTimer
  <2> QED
    BY <1>0, <2>1 DEF SceneInv, PoolInv, RunInv, WaitInv, KilledIsInert, IdleMeansDone
<1>6. CASE FireStopped(t) \/ FireQueued(t)
  <2>1. /\ state' = [state EXCEPT ![p] = "RUNNING"]
        /\ state[p] \in {"STOPPED", "READY", "RUNNING"}
    BY <1>2, <1>6 DEF FireStopped, FireQueued
  <2>2. \A r \in Pid : state'[r] = IF r = p THEN "RUNNING" ELSE state[r]
    BY <1>0, <2>1 DEF TypeOK
  <2>3. Range(runq') = Range(runq) \cup {p} /\ IsInjective(runq')
    <3>1. CASE FireStopped(t)
      <4>1. runq' = Append(runq, p) /\ state[p] = "STOPPED"
        BY <1>2, <3>1 DEF FireStopped
      <4>2. p \notin Range(runq)
        BY <1>0, <4>1 DEF RunInv
      <4> QED
        BY <1>0, <4>1, <4>2, AppendPid DEF TypeOK, RunInv
    <3>2. CASE FireQueued(t)
      <4>1. runq' = runq /\ state[p] \in {"READY", "RUNNING"}
        BY <1>2, <3>2 DEF FireQueued
      <4>2. p \in Range(runq)
        BY <1>0, <1>3, <4>1 DEF RunInv
      <4> QED
        BY <1>0, <4>1, <4>2 DEF RunInv
    <3> QED
      BY <1>6, <3>1, <3>2
  <2>4. \A r \in Pid : r # p => pc'[r] = pc[r] /\ frames'[r] = frames[r]
    BY <1>0, <1>2, <1>6 DEF FireStopped, FireQueued, CallAsync, TypeOK
  <2>5. \A u \in TimerId : timer'[u].pid \in {timer[u].pid, NoPid}
    <3>1. Rearm(t)
      BY <1>6 DEF FireStopped, FireQueued
    <3>2. \A u \in TimerId : u # t => timer'[u] = timer[u]
      BY <1>0, <3>1 DEF Rearm, TypeOK
    <3>3. timer'[t] = IF timer[t].repeat THEN [timer[t] EXCEPT !.left = timer[t].interval]
                                         ELSE NoTimer
      BY <1>0, <3>1 DEF Rearm, TypeOK
    <3>4. timer[t] \in Timer
      BY <1>0, <1>2, <1>3 DEF TypeOK, NoTimer
    <3>5. NoTimer.pid = NoPid
      BY DEF NoTimer
    <3>6. [timer[t] EXCEPT !.left = timer[t].interval].pid = timer[t].pid
      BY <3>4 DEF Timer
    <3>7. timer'[t].pid \in {timer[t].pid, NoPid}
      BY <3>3, <3>5, <3>6
    <3> QED
      BY <3>2, <3>7
  <2>6. Range(runq) \subseteq Pid
    BY <1>0, ElementOfSeq, LenProperties DEF TypeOK, Range
  <2>7. PoolInv'
    BY <1>0, <2>1, <2>2, <2>4 DEF PoolInv
  <2>8. RunInv'
    <3> QED
      BY <1>0, <1>3, <2>2, <2>3, <2>6 DEF RunInv
  <2>9. WaitInv'
    BY <1>0, <2>1, <2>2, NobodyMoves
  <2>10. KilledIsInert'
    BY <1>0, <1>3, <1>4, <2>2, <2>3, <2>5 DEF KilledIsInert
  <2>11. IdleMeansDone'
    BY <1>0 DEF IdleMeansDone
  <2> QED
    BY <2>7, <2>8, <2>9, <2>10, <2>11 DEF SceneInv
<1> QED
  BY <1>1, <1>5, <1>6

\* The steps that move the loop on and, apart from its own variables, change
\* nothing but the time left of timers and waiters.
LEMMA QuietScene ==
    ASSUME IInv,
           UNCHANGED <<nprocs, state, pc, frames, pending, gutted, runq>>,
           cur' = cur,
           \A t \in TimerId : timer'[t].pid = timer[t].pid,
           \A q \in QueueId : /\ OneEach(sendq'[q]) /\ OneEach(recvq'[q])
                              /\ PidsOf(sendq'[q]) = PidsOf(sendq[q])
                              /\ PidsOf(recvq'[q]) = PidsOf(recvq[q])
    PROVE  PoolInv' /\ RunInv' /\ WaitInv' /\ KilledIsInert'
<1>1. PoolInv /\ RunInv /\ WaitInv /\ KilledIsInert
  BY DEF IInv
<1>2. PoolInv'
  BY <1>1 DEF PoolInv
<1>3. RunInv'
  BY <1>1 DEF RunInv
<1>4. WaitInv'
  BY <1>1, WaitersKept
<1>5. KilledIsInert'
  BY <1>1 DEF KilledIsInert
<1> QED
  BY <1>2, <1>3, <1>4, <1>5

\* The passing of time moves no process and keeps every list.
LEMMA PassKeeps ==
    ASSUME TypeOK, WaitInv, QueuesInv, NEW d \in Nat, Pass(d),
           UNCHANGED <<nqueues, capacity, items>>
    PROVE  /\ QueuesInv'
           /\ \A t \in TimerId : timer'[t].pid = timer[t].pid
           /\ \A q \in QueueId : /\ OneEach(sendq'[q]) /\ OneEach(recvq'[q])
                                 /\ PidsOf(sendq'[q]) = PidsOf(sendq[q])
                                 /\ PidsOf(recvq'[q]) = PidsOf(recvq[q])
<1>1. ASSUME NEW q \in QueueId
      PROVE  /\ DOMAIN sendq'[q] = DOMAIN sendq[q]
             /\ \A i \in DOMAIN sendq[q] : sendq'[q][i].pid = sendq[q][i].pid
             /\ DOMAIN recvq'[q] = DOMAIN recvq[q]
             /\ \A i \in DOMAIN recvq[q] : recvq'[q][i].pid = recvq[q][i].pid
  BY PassType
<1>2. ASSUME NEW q \in QueueId
      PROVE  /\ OneEach(sendq'[q]) /\ OneEach(recvq'[q])
             /\ PidsOf(sendq'[q]) = PidsOf(sendq[q])
             /\ PidsOf(recvq'[q]) = PidsOf(recvq[q])
  <2>1. OneEach(sendq[q]) /\ OneEach(recvq[q])
    BY DEF WaitInv
  <2>2. OneEach(sendq'[q]) /\ OneEach(recvq'[q])
    BY <1>1, <2>1 DEF OneEach
  <2>3. PidsOf(sendq'[q]) = PidsOf(sendq[q])
    BY <1>1 DEF PidsOf
  <2>4. PidsOf(recvq'[q]) = PidsOf(recvq[q])
    BY <1>1 DEF PidsOf
  <2> QED
    BY <2>2, <2>3, <2>4
<1>3. ASSUME NEW q \in QueueId
      PROVE  /\ sendq'[q] # <<>> => sendq[q] # <<>>
             /\ recvq'[q] # <<>> => recvq[q] # <<>>
  <2>1. /\ sendq[q] \in Seq(Sender) /\ recvq[q] \in Seq(Receiver)
        /\ sendq'[q] \in Seq(Sender) /\ recvq'[q] \in Seq(Receiver)
    BY PassType DEF TypeOK
  <2>2. /\ PidsOf(sendq'[q]) = {} <=> sendq'[q] = <<>>
        /\ PidsOf(sendq[q]) = {} <=> sendq[q] = <<>>
        /\ PidsOf(recvq'[q]) = {} <=> recvq'[q] = <<>>
        /\ PidsOf(recvq[q]) = {} <=> recvq[q] = <<>>
    BY <2>1, NobodyWaits
  <2> QED
    BY <1>2, <2>2
<1>4. QueuesInv'
  BY <1>3, WaitersOnlyLeave
<1>5. \A t \in TimerId : timer'[t].pid = timer[t].pid
  BY PassType
<1> QED
  BY <1>2, <1>4, <1>5

\* Nobody is ready, nobody waits, and every timer belongs to a process that
\* waits or was killed: then there is no timer either.
LEMMA NothingLeft ==
    ASSUME IInv, GoIdle
    PROVE  IdleMeansDone'
<1>1. /\ TypeOK /\ LoopInv /\ PoolInv /\ RunInv /\ WaitInv /\ QueuesInv /\ KilledIsInert
      /\ phase = "decide" /\ runq = <<>> /\ ~HasNonblockedTimer /\ ~HasWaiters
      /\ UNCHANGED <<state, timer>>
  BY DEF IInv, GoIdle, procVars, timerVars
<1>2. cur = NoPid /\ Range(runq) = {} /\ \A p \in Pid : p # NoPid
  BY <1>1 DEF LoopInv, Range, Pid, NoPid
<1>3. \A p \in Pid : state[p] \notin {"READY", "RUNNING"}
  BY <1>1, <1>2 DEF RunInv
<1>4. \A q \in QueueId : PidsOf(sendq[q]) = {} /\ PidsOf(recvq[q]) = {}
  <2> SUFFICES ASSUME NEW q \in QueueId
               PROVE  PidsOf(sendq[q]) = {} /\ PidsOf(recvq[q]) = {}
    OBVIOUS
  <2>1. sendq[q] \in Seq(Sender) /\ recvq[q] \in Seq(Receiver)
    BY <1>1 DEF TypeOK
  <2>2. CASE q > nqueues
    <3>1. sendq[q] = <<>> /\ recvq[q] = <<>>
      BY <1>1, <2>2 DEF QueuesInv
    <3> QED
      BY <2>1, <3>1, NobodyWaits
  <2>3. CASE q <= nqueues
    <3>1. q \in 1 .. nqueues
      BY <1>1, <2>3 DEF TypeOK, QueueId
    <3>2. \A w \in Range(sendq[q]) \cup Range(recvq[q]) : w.left \in WaiterTimes
      BY <3>1 DEF WaiterTimes
    <3>3. Range(sendq[q]) = {} /\ Range(recvq[q]) = {}
      BY <1>1, <3>2 DEF HasWaiters
    <3>4. DOMAIN sendq[q] = {} /\ DOMAIN recvq[q] = {}
      BY <3>3 DEF Range
    <3> QED
      BY <3>4 DEF PidsOf
  <2> QED
    BY <1>1, <2>2, <2>3 DEF TypeOK, QueueId
<1>5. \A p \in Pid : state[p] # "BLOCKED"
  BY <1>1, <1>4 DEF WaitInv
<1>6. \A p \in Pid : state[p] \in {"FREE", "STOPPED", "KILLED"}
  BY <1>1, <1>3, <1>5 DEF TypeOK, ProcState
<1>7. \A t \in TimerId : ~IsSet(t)
  <2> SUFFICES ASSUME NEW t \in TimerId, IsSet(t)
               PROVE  FALSE
    OBVIOUS
  <2>1. timer[t].pid \in Pid
    BY <1>1 DEF IsSet, TypeOK, Timer
  <2>2. state[timer[t].pid] # "KILLED"
    BY <1>1, <2>1 DEF KilledIsInert
  <2>3. t \in NonblockedTimers
    BY <1>5, <2>1, <2>2 DEF NonblockedTimers
  <2> QED
    BY <1>1, <2>3 DEF HasNonblockedTimer
<1> QED
  BY <1>1, <1>6, <1>7 DEF IdleMeansDone, IsSet

LEMMA LoopIInv ==
    ASSUME IInv, Loop \/ Elapse
    PROVE  SceneInv' /\ QueuesInv'
<1>0. TypeOK /\ LoopInv /\ WaitInv /\ QueuesInv /\ KilledIsInert /\ IdleMeansDone
  BY DEF IInv
<1>1. CASE TickBegin \/ SliceEnd \/ TickEnd
  <2>1. UNCHANGED <<nqueues, capacity, items, sendq, recvq>>
    BY <1>1 DEF TickBegin, SliceEnd, TickEnd, queueVars
  <2> QED
    BY <1>0, <1>1, <2>1, TickScene, WaitersOnlyLeave
<1>2. CASE VisitTimer
  <2>1. UNCHANGED <<nqueues, capacity, items, sendq, recvq>>
    BY <1>2 DEF VisitTimer, queueVars
  <2> QED
    BY <1>0, <1>2, <2>1, VisitScene, WaitersOnlyLeave
<1>3. CASE \E q \in QueueId : TimeOutSender(q) \/ TimeOutReceiver(q)
  BY <1>3, TimeOutEffect, EffectScene, TimeOutQueues
<1>4. CASE PhaseEnd \/ WaitersEnd \/ TimersEnd \/ GoOn \/ GoIdle
  <2>1. /\ UNCHANGED <<nprocs, state, pc, frames, pending, gutted, runq, cur, timer>>
        /\ UNCHANGED <<nqueues, capacity, items, sendq, recvq>>
    BY <1>4 DEF PhaseEnd, WaitersEnd, TimersEnd, GoOn, GoIdle, procVars, queueVars, timerVars
  <2>2. \A q \in QueueId : OneEach(sendq[q]) /\ OneEach(recvq[q])
    BY <1>0 DEF WaitInv
  <2>3. PoolInv' /\ RunInv' /\ WaitInv' /\ KilledIsInert'
    BY <2>1, <2>2, QuietScene
  <2>4. QueuesInv'
    BY <1>0, <2>1, WaitersOnlyLeave
  <2>5. IdleMeansDone'
    <3>1. CASE GoIdle
      BY <3>1, NothingLeft
    <3>2. CASE PhaseEnd \/ WaitersEnd \/ TimersEnd \/ GoOn
      <4>1. phase' # "idle"
        BY <3>2 DEF PhaseEnd, WaitersEnd, TimersEnd, GoOn, NextCycle
      <4> QED
        BY <4>1 DEF IdleMeansDone
    <3> QED
      BY <1>4, <3>1, <3>2
  <2> QED
    BY <2>3, <2>4, <2>5 DEF SceneInv
<1>5. CASE Sleep \/ Elapse
  <2>1. PICK d \in Nat : Pass(d)
    <3>1. CASE Sleep
      BY <1>0, <3>1, DeadlineType DEF Sleep, IsNearest
    <3>2. CASE Elapse
      BY <3>2 DEF Elapse
    <3> QED
      BY <1>5, <3>1, <3>2
  <2>2. UNCHANGED <<nprocs, state, pc, frames, pending, gutted, runq, cur,
                    nqueues, capacity, items>>
    BY <1>5 DEF Sleep, Elapse, procVars
  <2>3. /\ QueuesInv'
        /\ \A t \in TimerId : timer'[t].pid = timer[t].pid
        /\ \A q \in QueueId : /\ OneEach(sendq'[q]) /\ OneEach(recvq'[q])
                              /\ PidsOf(sendq'[q]) = PidsOf(sendq[q])
                              /\ PidsOf(recvq'[q]) = PidsOf(recvq[q])
    BY <1>0, <2>1, <2>2, PassKeeps
  <2>4. PoolInv' /\ RunInv' /\ WaitInv' /\ KilledIsInert'
    BY <2>2, <2>3, QuietScene
  <2>5. phase' # "idle"
    BY <1>5 DEF Sleep, Elapse, NextCycle, loopVars
  <2> QED
    BY <2>3, <2>4, <2>5 DEF SceneInv, IdleMeansDone
<1> QED
  BY <1>1, <1>2, <1>3, <1>4, <1>5 DEF Loop

LEMMA NextIInv == IInv /\ [Next]_vars => IInv'
<1> SUFFICES ASSUME IInv, [Next]_vars PROVE IInv'
  OBVIOUS
<1>1. (TypeOK /\ LoopInv)'
  BY TypeNext DEF IInv
<1>2. SceneInv' /\ QueuesInv'
  <2>1. ASSUME NEW p \in Pid, Instruction(p)
        PROVE  SceneInv' /\ QueuesInv'
    BY <2>1, InstructionIInv
  <2>2. CASE Loop \/ Elapse
    BY <2>2, LoopIInv
  <2>3. CASE UNCHANGED vars
    <3>1. UNCHANGED <<nprocs, state, pc, frames, pending, gutted, runq, cur, timer, phase,
                      nqueues, capacity, items, sendq, recvq>>
      BY <2>3 DEF vars, procVars, queueVars, timerVars, loopVars
    <3> QED
      BY <3>1 DEF IInv, SceneInv, PoolInv, RunInv, WaitInv, KilledIsInert, IdleMeansDone,
                  IsSet, QueuesInv, QueueDiscipline
  <2> QED
    BY <2>1, <2>2, <2>3 DEF Next, Idle
<1> QED
  BY <1>1, <1>2 DEF IInv, SceneInv

-----------------------------------------------------------------------------
(* Theorems                                                                *)

\* IInv is inductive.
THEOREM Inductive == Spec => []IInv
<1>1. Init => IInv
  BY InitIInv
<1>2. IInv /\ [Next]_vars => IInv'
  BY NextIInv
<1> QED
  BY <1>1, <1>2, PTL DEF Spec

\* The run queue holds exactly the processes that can run, each once: no
\* wake-up, timer, fork or kill loses a process or queues it twice.
THEOREM RunQueueCorrect == Spec => []RunQueueExact
<1>1. IInv => RunQueueExact
  BY DEF IInv, RunInv, RunQueueExact
<1> QED
  BY <1>1, Inductive, PTL

\* A list of waiters in which every process occurs once has one place for each
\* of its processes.
LEMMA PlaceOf ==
    ASSUME NEW ws, NEW p, OneEach(ws)
    PROVE  /\ p \notin PidsOf(ws) => {j \in DOMAIN ws : ws[j].pid = p} = {}
           /\ p \in PidsOf(ws) =>
                \E i \in DOMAIN ws : {j \in DOMAIN ws : ws[j].pid = p} = {i}
<1>1. ASSUME p \in PidsOf(ws)
      PROVE  \E i \in DOMAIN ws : {j \in DOMAIN ws : ws[j].pid = p} = {i}
  <2>1. PICK i \in DOMAIN ws : ws[i].pid = p
    BY <1>1 DEF PidsOf
  <2>2. \A j \in DOMAIN ws : ws[j].pid = p => j = i
    BY <2>1 DEF OneEach
  <2>3. {j \in DOMAIN ws : ws[j].pid = p} = {i}
    BY <2>1, <2>2
  <2> QED
    BY <2>3
<1>2. ASSUME p \notin PidsOf(ws)
      PROVE  {j \in DOMAIN ws : ws[j].pid = p} = {}
  BY <1>2 DEF PidsOf
<1> QED
  BY <1>1, <1>2

\* A process is BLOCKED exactly while one waiter, in one list of one queue,
\* stands for it.
THEOREM BlockedCorrect == Spec => []BlockedHasOneWaiter
<1>1. ASSUME WaitInv, NEW p \in Pid
      PROVE  Cardinality(WaitersOf(p)) = (IF state[p] = "BLOCKED" THEN 1 ELSE 0)
  <2> DEFINE S(q) == {j \in DOMAIN sendq[q] : sendq[q][j].pid = p}
             R(q) == {j \in DOMAIN recvq[q] : recvq[q][j].pid = p}
  <2>0. \A x : x \in WaitersOf(p) <=>
           \E q \in QueueId : \/ \E i \in S(q) : x = <<q, "send", i>>
                              \/ \E i \in R(q) : x = <<q, "recv", i>>
    BY DEF WaitersOf
  <2>1. \A q \in QueueId : /\ p \notin PidsOf(sendq[q]) => S(q) = {}
                           /\ p \in PidsOf(sendq[q]) => \E i \in DOMAIN sendq[q] : S(q) = {i}
                           /\ p \notin PidsOf(recvq[q]) => R(q) = {}
                           /\ p \in PidsOf(recvq[q]) => \E i \in DOMAIN recvq[q] : R(q) = {i}
    BY <1>1, PlaceOf DEF WaitInv
  <2> HIDE DEF S, R
  <2>2. CASE state[p] # "BLOCKED"
    <3>1. \A q \in QueueId : p \notin PidsOf(sendq[q]) /\ p \notin PidsOf(recvq[q])
      BY <1>1, <2>2 DEF WaitInv
    <3>2. WaitersOf(p) = {}
      BY <2>0, <2>1, <3>1
    <3> QED
      BY <2>2, <3>2, FS_EmptySet
  <2>3. CASE state[p] = "BLOCKED"
    <3>1. PICK n \in QueueId : p \in PidsOf(sendq[n]) \/ p \in PidsOf(recvq[n])
      BY <1>1, <2>3 DEF WaitInv
    <3>2. \E x : WaitersOf(p) = {x}
      <4>1. CASE p \in PidsOf(sendq[n])
        <5>1. \A q \in QueueId : R(q) = {} /\ (q # n => S(q) = {})
          BY <1>1, <2>1, <4>1, WaitsOnce
        <5>2. PICK i : S(n) = {i}
          BY <2>1, <4>1
        <5>3. WaitersOf(p) = {<<n, "send", i>>}
          BY <2>0, <5>1, <5>2
        <5> QED
          BY <5>3
      <4>2. CASE p \in PidsOf(recvq[n])
        <5>1. \A q \in QueueId : S(q) = {} /\ (q # n => R(q) = {})
          BY <1>1, <2>1, <4>2, WaitsOnce
        <5>2. PICK i : R(n) = {i}
          BY <2>1, <4>2
        <5>3. WaitersOf(p) = {<<n, "recv", i>>}
          BY <2>0, <5>1, <5>2
        <5> QED
          BY <5>3
      <4> QED
        BY <3>1, <4>1, <4>2
    <3> QED
      BY <2>3, <3>2, FS_Singleton
  <2> QED
    BY <2>2, <2>3
<1>2. IInv => BlockedHasOneWaiter
  BY <1>1 DEF IInv, BlockedHasOneWaiter
<1> QED
  BY <1>2, Inductive, PTL

\* A sender waits only while the queue is full, a receiver only while it is
\* empty, and a queue never holds more than its capacity.
THEOREM QueueCorrect == Spec => []QueueDiscipline
<1>1. IInv => QueueDiscipline
  BY DEF IInv, QueuesInv
<1> QED
  BY <1>1, Inductive, PTL

\* A killed process has no timer and no place in the run queue, and its memory
\* is released or the release is pending.
THEOREM KillCorrect == Spec => []KilledIsInert
<1>1. IInv => KilledIsInert
  BY DEF IInv
<1> QED
  BY <1>1, Inductive, PTL

\* When the machine goes IDLE nothing is left to do.
THEOREM IdleCorrect == Spec => []IdleMeansDone
<1>1. IInv => IdleMeansDone
  BY DEF IInv
<1> QED
  BY <1>1, Inductive, PTL

-----------------------------------------------------------------------------
(* What a step may never do: the action properties KilledForever,          *)
(* BlockedSceneIntact, HaltIsFinal and SleepIsUseful follow from the       *)
(* inductive invariant, one action at a time.                              *)

\* The three properties, of one process and one step.
StaysKilled(p) ==
    state[p] = "KILLED" =>
        /\ state'[p] = "KILLED"
        /\ cur' = p => cur = p
        /\ gutted[p] => gutted'[p]

KeepsScene(p) ==
    state[p] = "BLOCKED" /\ state'[p] # "KILLED" =>
        frames'[p] = frames[p] /\ pc'[p] = pc[p]

StaysEnded(p) ==
    state'[p] # "KILLED" /\ image'[p] = image[p] =>
        /\ Ended(p) => Ended(p)' \/ Resumes(p)
        /\ EndedForGood(p) => EndedForGood(p)'

Lawful(p) == StaysKilled(p) /\ KeepsScene(p) /\ StaysEnded(p)

-----------------------------------------------------------------------------
(* The stack of callbacks *)

\* A frame more is below nothing that was there.
LEMMA PushKeepsHalt ==
    ASSUME NEW s \in Seq(Target), NEW x \in Target
    PROVE  Range(Append(s, x)) = Range(s) \cup {x}
<1>1. /\ Append(s, x) \in Seq(Target) /\ Len(Append(s, x)) = Len(s) + 1 /\ Len(s) \in Nat
      /\ DOMAIN s = 1 .. Len(s) /\ DOMAIN Append(s, x) = 1 .. Len(s) + 1
      /\ \A i \in 1 .. Len(s) : Append(s, x)[i] = s[i]
      /\ Append(s, x)[Len(s) + 1] = x
  BY AppendProperties, LenProperties
<1>2. \A y : y \in Range(s) <=> \E i \in 1 .. Len(s) : s[i] = y
  BY <1>1 DEF Range
<1>3. \A y : y \in Range(Append(s, x)) <=> \E i \in 1 .. Len(s) + 1 : Append(s, x)[i] = y
  BY <1>1 DEF Range
<1>4. 1 .. Len(s) + 1 = (1 .. Len(s)) \cup {Len(s) + 1}
  BY <1>1
<1> QED
  BY <1>1, <1>2, <1>3, <1>4

\* Taking the last frame off leaves a halt below, if it is not that frame itself.
LEMMA PopKeepsHalt ==
    ASSUME NEW s \in Seq(Target), s # <<>>, "halt" \in Range(s), s[Len(s)] # "halt"
    PROVE  "halt" \in Range(SubSeq(s, 1, Len(s) - 1))
<1>1. Len(s) \in Nat /\ DOMAIN s = 1 .. Len(s)
  BY LenProperties
<1>2. PICK i \in 1 .. Len(s) : s[i] = "halt"
  BY <1>1 DEF Range
<1>3. i \in 1 .. Len(s) - 1
  BY <1>1, <1>2
<1>4. SubSeq(s, 1, Len(s) - 1) = [j \in 1 .. Len(s) - 1 |-> s[j]]
  BY <1>1
<1> QED
  BY <1>2, <1>3, <1>4 DEF Range

-----------------------------------------------------------------------------
(* The instructions *)

\* What did not touch a process's stack, PC and continuations keeps its halt.
LEMMA EndedKept ==
    ASSUME NEW r \in Pid, pc'[r] = pc[r], frames'[r] = frames[r], conts'[r] = conts[r]
    PROVE  StaysEnded(r)
BY DEF StaysEnded, Ended, EndedForGood, Halts

\* A step that leaves stacks and images alone, or changes those of one process.
LEMMA QueueSteps ==
    ASSUME IInv, QueueEffect, NEW r \in Pid
    PROVE  Lawful(r)
<1>0. TypeOK /\ UNCHANGED <<pc, frames, conts, image, gutted, cur>>
  BY DEF IInv, QueueEffect
<1>1. KeepsScene(r) /\ StaysEnded(r)
  BY <1>0, EndedKept DEF KeepsScene
<1>2. state[r] = "KILLED" => state'[r] = "KILLED"
  <2>1. ASSUME NEW w \in Pid, Leaves(w)
        PROVE  state[r] = "KILLED" => state'[r] = "KILLED"
    BY <1>0, <2>1 DEF Leaves, TypeOK
  <2>2. ASSUME NEW p \in Pid, NEW n \in QueueId, Enters(p, n)
        PROVE  state[r] = "KILLED" => state'[r] = "KILLED"
    BY <1>0, <2>2 DEF Enters, TypeOK
  <2> QED
    BY <2>1, <2>2 DEF QueueEffect
<1> QED
  BY <1>0, <1>1, <1>2 DEF Lawful, StaysKilled

\* exit, op_halt and errors stop the process inside its tick.
LEMMA StopSteps ==
    ASSUME IInv, NEW p \in Pid, Halt(p) \/ Fail(p), NEW r \in Pid
    PROVE  Lawful(r)
<1>0. TypeOK
  BY DEF IInv
<1>1. /\ state[p] = "RUNNING" /\ state' = [state EXCEPT ![p] = "STOPPED"]
      /\ pc' = pc \/ pc' = [pc EXCEPT ![p] = "halt"]
      /\ UNCHANGED <<frames, conts, image, gutted, cur>>
  BY DEF Halt, Fail, Executing
<1>2. /\ r # p => state'[r] = state[r]
      /\ pc'[r] = "halt" \/ pc'[r] = pc[r]
      /\ r # p => pc'[r] = pc[r]
  BY <1>0, <1>1 DEF TypeOK
<1>3. StaysEnded(r)
  BY <1>1, <1>2 DEF StaysEnded, Ended, EndedForGood, Halts
<1> QED
  BY <1>1, <1>2, <1>3 DEF Lawful, StaysKilled, KeepsScene

\* The return of a callback takes one frame of the current process.
LEMMA ReturnSteps ==
    ASSUME IInv, NEW p \in Pid, CallbackReturn(p), NEW r \in Pid
    PROVE  Lawful(r)
<1>0. TypeOK /\ frames[p] \in Seq(Target) /\ frames[p] # <<>>
  BY DEF IInv, TypeOK, CallbackReturn
<1>1. /\ state[p] = "RUNNING" /\ pc[p] = "code"
      /\ UNCHANGED <<state, conts, image, gutted, cur>>
      /\ pc' = [pc EXCEPT ![p] = frames[p][Len(frames[p])]]
      /\ frames' = [frames EXCEPT ![p] = SubSeq(@, 1, Len(@) - 1)]
  BY DEF CallbackReturn, Executing
<1>2. CASE r # p
  <2>1. pc'[r] = pc[r] /\ frames'[r] = frames[r]
    BY <1>0, <1>1, <1>2 DEF TypeOK
  <2> QED
    BY <1>1, <2>1, EndedKept DEF Lawful, StaysKilled, KeepsScene
<1>3. CASE r = p
  <2>1. /\ pc'[p] = frames[p][Len(frames[p])]
        /\ frames'[p] = SubSeq(frames[p], 1, Len(frames[p]) - 1)
    BY <1>0, <1>1 DEF TypeOK
  <2>2. Ended(p) => Ended(p)'
    BY <1>0, <1>1, <2>1, PopKeepsHalt DEF Ended, Halts
  <2>3. StaysEnded(p)
    BY <1>1, <2>2 DEF StaysEnded, EndedForGood, Halts
  <2> QED
    BY <1>1, <1>3, <2>3 DEF Lawful, StaysKilled, KeepsScene
<1> QED
  BY <1>2, <1>3

\* What a callback captures lies above the halt that the callback returns to.
LEMMA CaptureSteps ==
    ASSUME IInv, NEW p \in Pid, Capture(p), NEW r \in Pid
    PROVE  Lawful(r)
<1>0. TypeOK
  BY DEF IInv
<1>1. /\ pc[p] = "code" /\ conts' = [conts EXCEPT ![p] = @ \cup {frames[p]}]
      /\ UNCHANGED <<state, pc, frames, image, gutted, cur>>
  BY DEF Capture, Executing
<1>2. CASE r # p
  <2>1. conts'[r] = conts[r]
    BY <1>0, <1>1, <1>2 DEF TypeOK
  <2> QED
    BY <1>1, <2>1, EndedKept DEF Lawful, StaysKilled, KeepsScene
<1>3. CASE r = p
  <2>1. conts'[p] = conts[p] \cup {frames[p]}
    BY <1>0, <1>1 DEF TypeOK
  <2>2. StaysEnded(p)
    BY <1>1, <2>1 DEF StaysEnded, EndedForGood, Ended, Halts
  <2> QED
    BY <1>1, <1>3, <2>2 DEF Lawful, StaysKilled, KeepsScene
<1> QED
  BY <1>2, <1>3

\* A jump resumes the program, or goes to a stack that has a halt in it.
LEMMA JumpSteps ==
    ASSUME IInv, NEW p \in Pid, CallContinuation(p), NEW r \in Pid
    PROVE  Lawful(r)
<1>0. TypeOK
  BY DEF IInv
<1>1. PICK saved \in conts[p] : frames' = [frames EXCEPT ![p] = saved]
  BY DEF CallContinuation
<1>2. Executing(p) /\ pc[p] = "code" /\ UNCHANGED <<state, pc, conts, image, gutted, cur>>
  BY DEF CallContinuation, Executing
<1>3. CASE r # p
  <2>1. frames'[r] = frames[r]
    BY <1>0, <1>1, <1>3 DEF TypeOK
  <2> QED
    BY <1>2, <2>1, EndedKept DEF Lawful, StaysKilled, KeepsScene
<1>4. CASE r = p
  <2>1. frames'[p] = saved /\ pc'[p] = "code"
    BY <1>0, <1>1, <1>2 DEF TypeOK
  <2>2. StaysEnded(p)
    BY <1>1, <1>2, <2>1 DEF StaysEnded, EndedForGood, Ended, Resumes, Halts
  <2> QED
    BY <1>2, <1>4, <2>2 DEF Lawful, StaysKilled, KeepsScene, Executing
<1> QED
  BY <1>3, <1>4

\* The child comes from an unused slot.
LEMMA ForkSteps ==
    ASSUME IInv, NEW p \in Pid, Fork(p), NEW r \in Pid
    PROVE  Lawful(r)
<1>0. TypeOK /\ PoolInv
  BY DEF IInv
<1>1. /\ state[p] = "RUNNING"
      /\ state' = [state EXCEPT ![p] = "READY", ![nprocs] = "READY"]
      /\ pc' = [pc EXCEPT ![nprocs] = pc[p]]
      /\ frames' = [frames EXCEPT ![nprocs] = frames[p]]
      /\ conts' = [conts EXCEPT ![nprocs] = conts[p]]
      /\ UNCHANGED <<image, gutted, cur>>
  BY DEF Fork, Executing
<1>2. nprocs \in Pid
  BY <1>0 DEF Fork, TypeOK, Pid
<1>3. state[nprocs] = "FREE" /\ pc[nprocs] = "code" /\ frames[nprocs] = <<>>
  BY <1>0, <1>2 DEF PoolInv, TypeOK
<1>4. CASE r = nprocs
  <2>1. ~Ended(r)
    BY <1>3, <1>4 DEF Ended, Halts, Range
  <2> QED
    BY <1>3, <1>4, <2>1 DEF Lawful, StaysKilled, KeepsScene, StaysEnded, EndedForGood
<1>5. CASE r # nprocs
  <2>1. /\ pc'[r] = pc[r] /\ frames'[r] = frames[r] /\ conts'[r] = conts[r]
        /\ r # p => state'[r] = state[r]
    BY <1>0, <1>1, <1>5 DEF TypeOK
  <2> QED
    BY <1>1, <2>1, EndedKept DEF Lawful, StaysKilled, KeepsScene
<1> QED
  BY <1>4, <1>5

\* exec empties the stacks of the current process and changes its image.
LEMMA ExecSteps ==
    ASSUME IInv, NEW p \in Pid, Exec(p), NEW r \in Pid
    PROVE  Lawful(r)
<1>0. TypeOK
  BY DEF IInv
<1>1. /\ state[p] = "RUNNING" /\ UNCHANGED <<state, pc, gutted, cur>>
      /\ image' = [image EXCEPT ![p] = @ + 1]
      /\ frames' = [frames EXCEPT ![p] = <<>>]
      /\ conts' = [conts EXCEPT ![p] = {}]
  BY DEF Exec, Executing
<1>2. CASE r = p
  <2>1. image'[r] # image[r]
    BY <1>0, <1>1, <1>2 DEF TypeOK
  <2> QED
    BY <1>1, <1>2, <2>1 DEF Lawful, StaysKilled, KeepsScene, StaysEnded
<1>3. CASE r # p
  <2>1. frames'[r] = frames[r] /\ conts'[r] = conts[r]
    BY <1>0, <1>1, <1>3 DEF TypeOK
  <2> QED
    BY <1>1, <2>1, EndedKept DEF Lawful, StaysKilled, KeepsScene
<1> QED
  BY <1>2, <1>3

\* A kill makes its victim KILLED, and releases it at most once.
LEMMA KillSteps ==
    ASSUME IInv, NEW p \in Pid, NEW k \in Pid, Kill(p, k), NEW r \in Pid
    PROVE  Lawful(r)
<1>0. TypeOK
  BY DEF IInv
<1>1. /\ state' = [state EXCEPT ![k] = "KILLED"] /\ UNCHANGED <<image, cur>>
      /\ GutOrDefer(k)
  BY DEF Kill
<1>2. CASE r = k
  <2>1. state'[r] = "KILLED" /\ state[k] # "KILLED"
    BY <1>0, <1>1, <1>2 DEF TypeOK, Kill
  <2> QED
    BY <1>2, <2>1 DEF Lawful, StaysKilled, KeepsScene, StaysEnded
<1>3. CASE r # k
  <2>1. /\ state'[r] = state[r] /\ gutted'[r] = gutted[r]
        /\ pc'[r] = pc[r] /\ frames'[r] = frames[r] /\ conts'[r] = conts[r]
    BY <1>0, <1>1, <1>3 DEF TypeOK, GutOrDefer
  <2> QED
    BY <1>1, <2>1, EndedKept DEF Lawful, StaysKilled, KeepsScene
<1> QED
  BY <1>2, <1>3

\* Every instruction is lawful for every process.
LEMMA InstructionSteps ==
    ASSUME IInv, NEW p \in Pid, Instruction(p), NEW r \in Pid
    PROVE  Lawful(r)
<1>1. CASE \E len \in Capacities : MakeQueue(p, len)
  <2>1. UNCHANGED <<state, pc, frames, conts, image, gutted, cur>>
    BY <1>1 DEF MakeQueue, procVars
  <2> QED
    BY <2>1, EndedKept DEF Lawful, StaysKilled, KeepsScene
<1>2. CASE \/ \E d \in Delays, repeat \in BOOLEAN : SetTimer(p, d, repeat)
           \/ \E t \in TimerId : ClearTimer(p, t)
  <2>1. UNCHANGED <<state, pc, frames, conts, image, gutted, cur>>
    BY <1>2 DEF SetTimer, ClearTimer, procVars
  <2> QED
    BY <2>1, EndedKept DEF Lawful, StaysKilled, KeepsScene
<1>3. CASE \/ \E q \in QueueId, v \in Values, t \in Timeouts : QueueWrite(p, q, v, t)
           \/ \E q \in QueueId, t \in Timeouts : QueueRead(p, q, t)
  BY <1>3, WriteEffect, ReadEffect, QueueSteps
<1> QED
  BY <1>1, <1>2, <1>3, StopSteps, ReturnSteps, CaptureSteps, JumpSteps, ForkSteps, ExecSteps, KillSteps
      DEF Instruction

-----------------------------------------------------------------------------
(* The loop *)

\* A tick begins with a process of the run queue, which is not KILLED.
LEMMA TickSteps ==
    ASSUME IInv, TickBegin \/ SliceEnd \/ TickEnd, NEW r \in Pid
    PROVE  Lawful(r)
<1>0. TypeOK /\ RunInv
  BY DEF IInv
<1>1. CASE TickBegin
  <2>1. Head(runq) \in Pid /\ Head(runq) \in Range(runq)
    BY <1>0, <1>1, TailPids DEF TickBegin, TypeOK, RunInv
  <2>2. state[Head(runq)] # "KILLED"
    BY <1>0, <2>1 DEF RunInv
  <2>3. /\ cur' = Head(runq) /\ UNCHANGED <<pc, frames, conts, image, gutted>>
        /\ state' = [state EXCEPT ![Head(runq)] = "RUNNING"]
    BY <1>1 DEF TickBegin
  <2>4. r # Head(runq) => state'[r] = state[r]
    BY <1>0, <2>3 DEF TypeOK
  <2> QED
    BY <2>2, <2>3, <2>4, EndedKept DEF Lawful, StaysKilled, KeepsScene
<1>2. CASE SliceEnd
  <2>1. /\ cur' = NoPid /\ state[cur] = "RUNNING" /\ UNCHANGED <<pc, frames, conts, image, gutted>>
        /\ state' = [state EXCEPT ![cur] = "READY"]
    BY <1>2 DEF SliceEnd
  <2>2. cur' # r
    BY <2>1 DEF Pid, NoPid
  <2>3. r # cur => state'[r] = state[r]
    BY <1>0, <2>1 DEF TypeOK
  <2> QED
    BY <2>1, <2>2, <2>3, EndedKept DEF Lawful, StaysKilled, KeepsScene
<1>3. CASE TickEnd
  <2>1. cur \in Pid /\ cur' # r /\ UNCHANGED <<state, image>>
    BY <1>0, <1>3 DEF TickEnd, TypeOK, Pid, NoPid
  <2>2. gutted[r] => gutted'[r]
    BY <1>0, <1>3 DEF TickEnd, TypeOK
  <2>3. state[r] # "KILLED" => pc'[r] = pc[r] /\ frames'[r] = frames[r] /\ conts'[r] = conts[r]
    BY <1>0, <1>3, <2>1 DEF TickEnd, TypeOK
  <2>4. StaysEnded(r)
    BY <2>1, <2>3, EndedKept DEF StaysEnded
  <2> QED
    BY <2>1, <2>2, <2>3, <2>4 DEF Lawful, StaysKilled, KeepsScene
<1> QED
  BY <1>1, <1>2, <1>3

\* A callback is pushed over what the process was doing; the halt of a stopped
\* process, and that of one about to halt, is in the frame below it.
LEMMA VisitSteps ==
    ASSUME IInv, VisitTimer, NEW r \in Pid
    PROVE  Lawful(r)
<1>0. /\ TypeOK /\ UNCHANGED <<conts, image, gutted, cur>>
      /\ \A p \in Pid : frames[p] \in Seq(Target) /\ pc[p] \in Target
  BY DEF IInv, VisitTimer, TypeOK
<1>1. PICK t \in TimerId : t \in due /\ (SkipTimer(t) \/ FireStopped(t) \/ FireQueued(t))
  BY DEF VisitTimer, IsNewest
<1>2. PICK p \in Pid : p = timer[t].pid
  BY <1>1 DEF IInv, LoopInv
<1>3. CASE SkipTimer(t)
  BY <1>0, <1>3, EndedKept DEF SkipTimer, Lawful, StaysKilled, KeepsScene
<1>4. CASE FireStopped(t) \/ FireQueued(t)
  <2>1. /\ state[p] \notin {"KILLED", "BLOCKED"}
        /\ state' = [state EXCEPT ![p] = "RUNNING"]
        /\ CallAsync(p, t, "halt") \/ CallAsync(p, t, pc[p])
    BY <1>2, <1>4 DEF FireStopped, FireQueued
  <2>2. PICK x \in Target : /\ CallAsync(p, t, x)
                            /\ pc[p] = "halt" => x = "halt"
    BY <1>0, <1>2, <2>1 DEF Target
  <2>3. CASE r # p
    <3>1. state'[r] = state[r] /\ pc'[r] = pc[r] /\ frames'[r] = frames[r]
      BY <1>0, <2>1, <2>2, <2>3 DEF CallAsync, TypeOK
    <3> QED
      BY <1>0, <3>1, EndedKept DEF Lawful, StaysKilled, KeepsScene
  <2>4. CASE r = p
    <3>1. Ended(p) => Ended(p)'
      <4>1. CASE UNCHANGED <<frames, pc>>
        BY <4>1 DEF Ended, Halts
      <4>2. CASE frames' = [frames EXCEPT ![p] = Append(@, x)]
        <5>1. frames'[p] = Append(frames[p], x)
          BY <1>0, <1>2, <4>2 DEF TypeOK
        <5>2. Range(frames'[p]) = Range(frames[p]) \cup {x}
          BY <1>0, <1>2, <5>1, PushKeepsHalt
        <5> QED
          BY <2>2, <5>2 DEF Ended, Halts
      <4> QED
        BY <2>2, <4>1, <4>2 DEF CallAsync
    <3>2. StaysEnded(p)
      BY <1>0, <3>1 DEF StaysEnded, EndedForGood, Halts
    <3> QED
      BY <2>1, <2>4, <3>2 DEF Lawful, StaysKilled, KeepsScene
  <2> QED
    BY <2>3, <2>4
<1> QED
  BY <1>1, <1>3, <1>4

\* The scans and the passing of time are lawful.
LEMMA LoopSteps ==
    ASSUME IInv, Loop \/ Elapse, NEW r \in Pid
    PROVE  Lawful(r)
<1>1. CASE \E q \in QueueId : TimeOutSender(q) \/ TimeOutReceiver(q)
  BY <1>1, TimeOutEffect, QueueSteps
<1>2. CASE PhaseEnd \/ WaitersEnd \/ TimersEnd \/ GoOn \/ Sleep \/ GoIdle \/ Elapse
  <2>1. UNCHANGED <<state, pc, frames, conts, image, gutted, cur>>
    BY <1>2 DEF PhaseEnd, WaitersEnd, TimersEnd, GoOn, Sleep, GoIdle, Elapse, procVars
  <2> QED
    BY <2>1, EndedKept DEF Lawful, StaysKilled, KeepsScene
<1> QED
  BY <1>1, <1>2, TickSteps, VisitSteps DEF Loop

\* Every step of the machine is lawful for every process.
LEMMA NextSteps ==
    ASSUME IInv, [Next]_vars, NEW r \in Pid
    PROVE  Lawful(r)
<1>1. CASE UNCHANGED vars
  BY <1>1, EndedKept DEF vars, procVars, Lawful, StaysKilled, KeepsScene
<1> QED
  BY <1>1, InstructionSteps, LoopSteps DEF Next, Idle

-----------------------------------------------------------------------------
(* Sleeping *)

\* Some deadline that counts in the next cycle has come after the sleep.
WakesForWork ==
    \/ 0 \in WaiterTimes'
    \/ \E t \in TimerId : /\ IsSet(t) /\ IsSet(t)'
                          /\ timer'[t].left = 0
                          /\ state[timer[t].pid] # "BLOCKED"

\* The waiter with the nearest deadline is due after the sleep.
LEMMA WaiterDue ==
    ASSUME TypeOK, NEW d \in Nat, d \in WaiterTimes, Pass(d), UNCHANGED nqueues
    PROVE  0 \in WaiterTimes'
<1>1. PICK q \in 1 .. nqueues : d \in {w.left : w \in Range(sendq[q]) \cup Range(recvq[q])}
  BY DEF WaiterTimes
<1>2. q \in QueueId /\ q \in 1 .. nqueues'
  BY <1>1 DEF TypeOK, QueueId
<1>3. CASE \E w \in Range(sendq[q]) : d = w.left
  <2>1. PICK i \in DOMAIN sendq[q] : sendq[q][i].left = d
    BY <1>3 DEF Range
  <2>2. sendq[q][i] \in Sender
    BY <1>2, <2>1, ElementOfSeq, LenProperties DEF TypeOK
  <2>3. i \in DOMAIN sendq'[q] /\ sendq'[q][i].left = 0
    BY <1>2, <2>1, <2>2 DEF Pass, LaterWaiters, Later, Sender
  <2>4. sendq'[q][i] \in Range(sendq'[q])
    BY <2>3 DEF Range
  <2> QED
    BY <1>2, <2>3, <2>4 DEF WaiterTimes
<1>4. CASE \E w \in Range(recvq[q]) : d = w.left
  <2>1. PICK i \in DOMAIN recvq[q] : recvq[q][i].left = d
    BY <1>4 DEF Range
  <2>2. recvq[q][i] \in Receiver
    BY <1>2, <2>1, ElementOfSeq, LenProperties DEF TypeOK
  <2>3. i \in DOMAIN recvq'[q] /\ recvq'[q][i].left = 0
    BY <1>2, <2>1, <2>2 DEF Pass, LaterWaiters, Later, Receiver
  <2>4. recvq'[q][i] \in Range(recvq'[q])
    BY <2>3 DEF Range
  <2> QED
    BY <1>2, <2>3, <2>4 DEF WaiterTimes
<1> QED
  BY <1>1, <1>3, <1>4

\* The nearest timer that does not belong to a blocked process is due after the sleep.
LEMMA TimerDue ==
    ASSUME TypeOK, NEW t \in NonblockedTimers, Pass(timer[t].left)
    PROVE  WakesForWork
<1>1. /\ t \in TimerId /\ timer[t] \in Timer /\ IsSet(t)
      /\ state[timer[t].pid] # "BLOCKED"
  BY DEF NonblockedTimers, IsSet, TypeOK
<1>2. timer'[t] = [timer[t] EXCEPT !.left = Later(@, timer[t].left)]
  BY <1>1 DEF Pass
<1>3. timer'[t].left = 0 /\ timer'[t].pid \in Pid
  BY <1>1, <1>2 DEF Later, Timer
<1>4. IsSet(t)'
  BY <1>3 DEF IsSet, NoTimer, Pid, NoPid
<1> QED
  BY <1>1, <1>3, <1>4 DEF WakesForWork

\* A sleep from an empty run queue ends at something that is due.
LEMMA SleepSteps ==
    ASSUME IInv, [Next]_vars, phase = "decide", phase' = "ticks", runq = <<>>
    PROVE  WakesForWork
<1>0. TypeOK /\ LoopInv
  BY DEF IInv
<1>1. Sleep
  <2>1. ASSUME NEW p \in Pid, Instruction(p)
        PROVE  FALSE
    <3>1. cur = p
      BY <2>1 DEF Instruction, Halt, Fail, CallbackReturn, Capture, CallContinuation, Fork, Exec, Kill,
                  MakeQueue, QueueWrite, QueueRead, SetTimer, ClearTimer, Executing
    <3> QED
      BY <1>0, <3>1, ExecutingInTicks
  <2>2. CASE UNCHANGED vars \/ Elapse
    BY <2>2 DEF vars, loopVars, Elapse
  <2>3. CASE Loop
    <3>1. cur = NoPid
      BY <1>0 DEF LoopInv
    <3> QED
      BY <2>3, <3>1 DEF Loop, TickBegin, SliceEnd, TickEnd, PhaseEnd, TimeOutSender, TimeOutReceiver,
                        WaitersEnd, VisitTimer, TimersEnd, GoOn, GoIdle
  <2> QED
    BY <2>1, <2>2, <2>3 DEF Next, Idle
<1>2. PICK d \in Deadlines : Pass(d)
  BY <1>1 DEF Sleep, IsNearest
<1>3. CASE d \in WaiterTimes
  <2>1. d \in Nat
    BY <1>0, <1>3, DeadlineType
  <2> QED
    BY <1>0, <1>1, <1>2, <1>3, <2>1, WaiterDue DEF Sleep, WakesForWork
<1>4. CASE \E t \in NonblockedTimers : d = timer[t].left
  BY <1>0, <1>2, <1>4, TimerDue
<1> QED
  BY <1>2, <1>3, <1>4 DEF Deadlines

-----------------------------------------------------------------------------
(* Theorems *)

\* A killed process stays killed, is never given a tick again, and stays
\* released: no wake-up, timer or fork brings it back.
THEOREM KilledForeverCorrect == Spec => KilledForever
<1>1. IInv /\ [Next]_vars =>
          [\A p \in Pid : state[p] = "KILLED" =>
              /\ state'[p] = "KILLED"
              /\ cur' = p => cur = p
              /\ gutted[p] => gutted'[p]]_vars
  BY NextSteps DEF Lawful, StaysKilled
<1> QED
  BY <1>1, Inductive, PTL DEF Spec, KilledForever

\* While a queue operation holds a process, no callback is pushed on it and its
\* PC does not move, unless it is killed.
THEOREM BlockedSceneCorrect == Spec => BlockedSceneIntact
<1>1. IInv /\ [Next]_vars =>
          [\A p \in Pid : state[p] = "BLOCKED" /\ state'[p] # "KILLED" =>
              frames'[p] = frames[p] /\ pc'[p] = pc[p]]_vars
  BY NextSteps DEF Lawful, KeepsScene
<1> QED
  BY <1>1, Inductive, PTL DEF Spec, BlockedSceneIntact

\* A program that halted goes on only when a callback calls a continuation captured
\* before the halt; without such a one it runs nothing but callbacks, however they
\* are nested and whatever they capture and call, until System.exec or a kill.
THEOREM HaltCorrect == Spec => HaltIsFinal
<1>1. IInv /\ [Next]_vars =>
          [\A p \in Pid :
              state'[p] # "KILLED" /\ image'[p] = image[p] =>
                  /\ Ended(p) => Ended(p)' \/ Resumes(p)
                  /\ EndedForGood(p) => EndedForGood(p)']_vars
  BY NextSteps DEF Lawful, StaysEnded
<1> QED
  BY <1>1, Inductive, PTL DEF Spec, HaltIsFinal

\* The loop sleeps to a deadline that it then acts on: that of a waiter, or of a
\* timer whose process is not inside a queue operation.
THEOREM SleepCorrect == Spec => SleepIsUseful
<1>1. IInv /\ [Next]_vars =>
          [phase = "decide" /\ phase' = "ticks" /\ runq = <<>> =>
              \/ 0 \in WaiterTimes'
              \/ \E t \in TimerId : /\ IsSet(t) /\ IsSet(t)'
                                    /\ timer'[t].left = 0
                                    /\ state[timer[t].pid] # "BLOCKED"]_vars
  BY SleepSteps DEF WakesForWork
<1> QED
  BY <1>1, Inductive, PTL DEF Spec, SleepIsUseful

=============================================================================
