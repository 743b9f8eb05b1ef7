-------------------------- MODULE RefinementProofs --------------------------
(***************************************************************************)
(* The runtime implements the bounded FIFO queues of module MessageQueue,  *)
(* for every number of processes, queues and timers and every set of       *)
(* inputs: every step is, seen through the refinement mapping, a step of   *)
(* the abstract queues or none.  The steps are taken from states that      *)
(* satisfy the inductive invariant of RuntimeProofs.                       *)
(***************************************************************************)
EXTENDS RuntimeRefinement, RuntimeProofs

USE BoundsAssumption, InputsAssumption

-----------------------------------------------------------------------------
(* Waiter lists, with the values of the senders *)

\* The callers of a list are the pids of its waiters.
LEMMA CallersArePids ==
    ASSUME NEW ws
    PROVE  Callers(ws) = PidsOf(ws)
  BY DEF Callers, PidsOf

\* A waiter put in front adds its offer.
LEMMA PrependOffer ==
    ASSUME NEW S, NEW ws \in Seq(S), NEW w \in S
    PROVE  Offers(<<w>> \o ws) = Offers(ws) \cup {<<w.pid, w.value>>}
<1> DEFINE c == <<w>> \o ws
<1>1. /\ Len(ws) \in Nat /\ DOMAIN ws = 1 .. Len(ws)
      /\ DOMAIN c = 1 .. Len(ws) + 1
      /\ c[1] = w /\ \A i \in 1 .. Len(ws) : c[i + 1] = ws[i]
  BY LenProperties, ConcatProperties
<1> HIDE DEF c
<1>2. \A i \in 1 .. Len(ws) + 1 : i = 1 \/ i - 1 \in 1 .. Len(ws)
  BY <1>1
<1>3. \A i \in 1 .. Len(ws) : i + 1 \in 1 .. Len(ws) + 1
  BY <1>1
<1>4. 1 \in 1 .. Len(ws) + 1
  BY <1>1
<1>5. \A i \in 1 .. Len(ws) + 1 : i # 1 => c[i] = ws[i - 1]
  BY <1>1
<1>6. ASSUME NEW x
      PROVE  x \in Offers(c) <=> x \in Offers(ws) \cup {<<w.pid, w.value>>}
  BY <1>1, <1>2, <1>3, <1>4, <1>5 DEF Offers
<1> QED
  BY <1>6 DEF c

\* Serving the head takes its offer away, and only that.
LEMMA TailOffer ==
    ASSUME NEW S, NEW ws \in Seq(S), ws # <<>>, OneEach(ws)
    PROVE  /\ <<Head(ws).pid, Head(ws).value>> \in Offers(ws)
           /\ Offers(Tail(ws)) = Offers(ws) \ {<<Head(ws).pid, Head(ws).value>>}
<1>1. /\ Len(ws) \in Nat \ {0} /\ DOMAIN ws = 1 .. Len(ws)
      /\ DOMAIN Tail(ws) = 1 .. Len(ws) - 1
      /\ \A i \in 1 .. Len(ws) - 1 : Tail(ws)[i] = ws[i + 1]
      /\ Head(ws) = ws[1]
  BY LenProperties, HeadTailProperties, EmptySeq
<1>2. 1 \in DOMAIN ws
  BY <1>1
<1>3. \A i \in DOMAIN ws : i # 1 => i - 1 \in 1 .. Len(ws) - 1 /\ Tail(ws)[i - 1] = ws[i]
  BY <1>1
<1>4. \A i \in 1 .. Len(ws) - 1 : i + 1 \in DOMAIN ws /\ i + 1 # 1
  BY <1>1
<1>5. ASSUME NEW x
      PROVE  x \in Offers(Tail(ws)) <=> x \in Offers(ws) \ {<<ws[1].pid, ws[1].value>>}
  <2>1. ASSUME x \in Offers(Tail(ws))
        PROVE  x \in Offers(ws) /\ x # <<ws[1].pid, ws[1].value>>
    BY <1>1, <1>2, <1>4, <2>1 DEF Offers, OneEach
  <2>2. ASSUME x \in Offers(ws), x # <<ws[1].pid, ws[1].value>>
        PROVE  x \in Offers(Tail(ws))
    BY <1>1, <1>3, <2>2 DEF Offers
  <2> QED
    BY <2>1, <2>2
<1> QED
  BY <1>1, <1>2, <1>5 DEF Offers

\* Removing all waiters of a process removes its offers, and only those.
LEMMA WithoutOffers ==
    ASSUME NEW S, NEW ws \in Seq(S), NEW keep \in SUBSET DOMAIN ws, NEW p,
           \A i \in DOMAIN ws : i \in keep <=> ws[i].pid # p
    PROVE  \A x : x \in Offers(Compact(ws, keep)) <=> x \in Offers(ws) /\ x[1] # p
<1> DEFINE c == Compact(ws, keep)
<1>1. PICK f \in [DOMAIN c -> keep] :
        /\ \A k \in DOMAIN c : c[k] = ws[f[k]]
        /\ \A i \in keep : \E k \in DOMAIN c : f[k] = i
  BY CompactProps
<1> HIDE DEF c
<1>2. ASSUME NEW x \in Offers(c)
      PROVE  x \in Offers(ws) /\ x[1] # p
  <2>1. PICK k \in DOMAIN c : x = <<c[k].pid, c[k].value>>
    BY DEF Offers
  <2>2. f[k] \in DOMAIN ws /\ c[k] = ws[f[k]] /\ ws[f[k]].pid # p
    BY <1>1, <2>1
  <2> QED
    BY <2>1, <2>2 DEF Offers
<1>3. ASSUME NEW x \in Offers(ws), x[1] # p
      PROVE  x \in Offers(c)
  <2>1. PICK i \in DOMAIN ws : x = <<ws[i].pid, ws[i].value>>
    BY DEF Offers
  <2>2. i \in keep
    BY <1>3, <2>1
  <2>3. PICK k \in DOMAIN c : f[k] = i
    BY <1>1, <2>2
  <2> QED
    BY <1>1, <2>1, <2>3 DEF Offers
<1> QED
  BY <1>2, <1>3 DEF c

\* What a kill leaves of the offers of a list.
LEMMA WaiterOffers ==
    ASSUME NEW S, NEW ws \in Seq(S), NEW k
    PROVE  Offers(WithoutWaiter(ws, k)) = {x \in Offers(ws) : x[1] # k}
<1> DEFINE keep == {i \in DOMAIN ws : ws[i].pid # k}
<1>1. /\ keep \in SUBSET DOMAIN ws
      /\ \A i \in DOMAIN ws : i \in keep <=> ws[i].pid # k
  OBVIOUS
<1>2. WithoutWaiter(ws, k) = Compact(ws, keep)
  BY DEF WithoutWaiter
<1> HIDE DEF keep
<1>3. \A x : x \in Offers(Compact(ws, keep)) <=> x \in Offers(ws) /\ x[1] # k
  BY <1>1, WithoutOffers
<1> QED
  BY <1>2, <1>3

-----------------------------------------------------------------------------
(* The refinement mapping *)

\* A step that changes no queue, no list and no answer is a stutter.
LEMMA Stutter ==
    ASSUME UNCHANGED <<nqueues, capacity, items, result>>,
           \A q \in QueueId : /\ Offers(sendq'[q]) = Offers(sendq[q])
                              /\ Callers(recvq'[q]) = Callers(recvq[q])
    PROVE  UNCHANGED Queues!vars
  BY DEF Queues!vars

\* A process that is not BLOCKED waits in no list.
LEMMA NotWaiting ==
    ASSUME IInv, NEW p \in Pid, state[p] # "BLOCKED"
    PROVE  /\ ~Queues!Waits(p)
           /\ \A q \in QueueId : /\ \A x \in Offers(sendq[q]) : x[1] # p
                                 /\ p \notin Callers(recvq[q])
<1>1. \A q \in QueueId : p \notin PidsOf(sendq[q]) /\ p \notin PidsOf(recvq[q])
  BY DEF IInv, WaitInv
<1>2. \A q \in QueueId : /\ \A x \in Offers(sendq[q]) : x[1] # p
                        /\ p \notin Callers(recvq[q])
  BY <1>1 DEF Offers, Callers, PidsOf
<1>3. \A q \in QueueId, v \in Values : <<p, v>> \notin Offers(sendq[q])
  BY <1>2
<1> QED
  BY <1>2, <1>3 DEF Queues!Waits

\* The first states are first states of the queues.
LEMMA InitSteps == Init => Queues!Init
<1> SUFFICES ASSUME Init PROVE Queues!Init
  OBVIOUS
<1>1. \A q \in QueueId : Offers(sendq[q]) = {} /\ Callers(recvq[q]) = {}
  BY DEF Init, Offers, Callers
<1>2. 1 .. nqueues = {}
  BY DEF Init
<1> QED
  BY <1>1, <1>2 DEF Init, Queues!Init

-----------------------------------------------------------------------------
(* Creating, writing, reading *)

\* make_queue gives the queue its number and its size.
LEMMA CreateSteps ==
    ASSUME IInv, NEW p \in Pid, NEW len \in Capacities, MakeQueue(p, len)
    PROVE  Queues!Next
<1>1. /\ nqueues \in Nat /\ nqueues + 1 \in QueueId
      /\ nqueues' = nqueues + 1
      /\ capacity' = [capacity EXCEPT ![nqueues + 1] = len]
      /\ UNCHANGED <<items, sendq, recvq, result>>
  BY DEF IInv, TypeOK, MakeQueue, QueueId
<1>2. /\ nqueues + 1 \notin 1 .. nqueues
      /\ 1 .. nqueues' = (1 .. nqueues) \cup {nqueues + 1}
  BY <1>1
<1>3. Queues!Create(nqueues + 1, len)
  BY <1>1, <1>2 DEF Queues!Create
<1> QED
  BY <1>1, <1>3 DEF Queues!Next

\* A call that fails at once; it waits in no list.
LEMMA FailSteps ==
    ASSUME IInv, NEW p \in Pid, state[p] # "BLOCKED", NEW q \in QueueId,
           UNCHANGED <<nqueues, capacity, items, sendq, recvq>>,
           \/ /\ q <= nqueues => Len(items[q]) = capacity[q]
              /\ result' = [result EXCEPT ![p] = "#f"]
           \/ /\ q <= nqueues => items[q] = <<>>
              /\ result' = [result EXCEPT ![p] = "#undefined"]
    PROVE  Queues!Next
<1>0. /\ ~Queues!Waits(p)
      /\ \A r \in QueueId : /\ Offers(sendq[r]) = {x \in Offers(sendq[r]) : x[1] # p}
                            /\ Callers(recvq[r]) = Callers(recvq[r]) \ {p}
      /\ q \in 1 .. nqueues => q <= nqueues
  BY NotWaiting DEF QueueId
<1>1. CASE /\ q <= nqueues => Len(items[q]) = capacity[q]
           /\ result' = [result EXCEPT ![p] = "#f"]
  <2>1. Queues!SendFails(p, q)
    BY <1>0, <1>1 DEF Queues!SendFails, Queues!Full
  <2> QED
    BY <2>1 DEF Queues!Next
<1>2. CASE /\ q <= nqueues => items[q] = <<>>
           /\ result' = [result EXCEPT ![p] = "#undefined"]
  <2>1. Queues!ReceiveFails(p, q)
    BY <1>0, <1>2 DEF Queues!ReceiveFails
  <2> QED
    BY <2>1 DEF Queues!Next
<1> QED
  BY <1>1, <1>2

\* A write delivers, hands its value to a reader, waits or fails.
LEMMA WriteSteps ==
    ASSUME IInv, NEW p \in Pid, NEW q \in QueueId, NEW v \in Values,
           NEW t \in Timeouts, QueueWrite(p, q, v, t)
    PROVE  Queues!Next
<1>0. /\ state[p] # "BLOCKED" /\ UNCHANGED <<nqueues, capacity>>
      /\ ~Queues!Waits(p)
      /\ sendq[q] \in Seq(Sender) /\ recvq[q] \in Seq(Receiver)
      /\ OneEach(sendq[q]) /\ OneEach(recvq[q])
      /\ Len(items[q]) \in Nat /\ capacity[q] \in Nat /\ Len(items[q]) <= capacity[q]
      /\ recvq[q] # <<>> => items[q] = <<>>
  BY NotWaiting, LenProperties, SMTT(20) DEF IInv, TypeOK, QueueWrite, Executing, WaitInv, QueuesInv, QueueDiscipline
<1>1. CASE WriteNoQueue(p, q)
  <2>1. ~(q <= nqueues) /\ UNCHANGED <<items, sendq, recvq>>
        /\ result' = [result EXCEPT ![p] = "#f"]
    BY <1>1 DEF WriteNoQueue, Return, IInv, TypeOK, QueueId
  <2> QED
    BY <1>0, <2>1, FailSteps
<1>2. CASE WriteHandOver(p, q, v)
  <2>1. PICK r : r = Head(recvq[q]).pid
    OBVIOUS
  <2>2. /\ recvq[q] # <<>> /\ UNCHANGED <<items, sendq>>
        /\ recvq' = [recvq EXCEPT ![q] = Tail(@)]
        /\ result' = [result EXCEPT ![p] = "#t", ![r] = v]
    BY <1>2, <2>1 DEF WriteHandOver, Wake
  <2>3. /\ Head(recvq[q]) \in Receiver /\ Head(recvq[q]).pid \in PidsOf(recvq[q])
        /\ PidsOf(Tail(recvq[q])) = PidsOf(recvq[q]) \ {Head(recvq[q]).pid}
    BY <1>0, <2>2, TailWaiters
  <2>4. /\ r \in Pid /\ r \in Callers(recvq[q])
        /\ Callers(Tail(recvq[q])) = Callers(recvq[q]) \ {r}
    BY <2>1, <2>3, CallersArePids DEF Receiver
  <2>5. \A u \in QueueId : Callers(recvq'[u]) = IF u = q THEN Callers(recvq[q]) \ {r} ELSE Callers(recvq[u])
    BY <2>2, <2>4 DEF IInv, TypeOK
  <2>6. Queues!HandOver(p, r, q, v)
    BY <1>0, <2>2, <2>4, <2>5 DEF Queues!HandOver
  <2> QED
    BY <2>4, <2>6 DEF Queues!Next
<1>3. CASE WriteItem(p, q, v)
  <2>1. Callers(recvq[q]) = {}
    BY <1>3 DEF WriteItem, Callers
  <2>2. Queues!Send(p, q, v)
    BY <1>0, <1>3, <2>1 DEF WriteItem, Return, Queues!Send
  <2> QED
    BY <2>2 DEF Queues!Next
<1>4. CASE WriteFull(p, q, v, t)
  <2>1. /\ q <= nqueues /\ Len(items[q]) = capacity[q] /\ UNCHANGED <<items, recvq>>
        /\ q \in 1 .. nqueues
    BY <1>0, <1>4 DEF WriteFull, QueueId, IInv, TypeOK
  <2>2. CASE t = 0
    <3>1. UNCHANGED sendq /\ result' = [result EXCEPT ![p] = "#f"]
      BY <1>4, <2>2 DEF WriteFull, Return
    <3> QED
      BY <1>0, <2>1, <3>1, FailSteps
  <2>3. CASE t # 0
    <3> DEFINE w == [pid |-> p, value |-> v, left |-> t]
    <3>1. /\ sendq' = [sendq EXCEPT ![q] = <<w>> \o @]
          /\ result' = [result EXCEPT ![p] = "none"]
      BY <1>4, <2>3 DEF WriteFull, Block
    <3>2. w \in Sender /\ w.pid = p /\ w.value = v
      BY DEF Sender
    <3> HIDE DEF w
    <3>3. Offers(<<w>> \o sendq[q]) = Offers(sendq[q]) \cup {<<p, v>>}
      BY <1>0, <3>2, PrependOffer
    <3>4. \A u \in QueueId : Offers(sendq'[u]) =
             IF u = q THEN Offers(sendq[q]) \cup {<<p, v>>} ELSE Offers(sendq[u])
      BY <3>1, <3>3 DEF IInv, TypeOK
    <3>5. Queues!WaitToSend(p, q, v)
      BY <1>0, <2>1, <3>1, <3>4 DEF Queues!WaitToSend, Queues!Full
    <3> QED
      BY <3>5 DEF Queues!Next
  <2> QED
    BY <2>2, <2>3
<1> QED
  BY <1>1, <1>2, <1>3, <1>4 DEF QueueWrite

\* A read takes the oldest value and admits a sender, waits or fails.
LEMMA ReadSteps ==
    ASSUME IInv, NEW p \in Pid, NEW q \in QueueId, NEW t \in Timeouts, QueueRead(p, q, t)
    PROVE  Queues!Next
<1>0. /\ state[p] # "BLOCKED" /\ UNCHANGED <<nqueues, capacity>>
      /\ ~Queues!Waits(p)
      /\ sendq[q] \in Seq(Sender) /\ recvq[q] \in Seq(Receiver)
      /\ OneEach(sendq[q])
      /\ sendq[q] # <<>> => Len(items[q]) = capacity[q]
  BY NotWaiting DEF IInv, TypeOK, QueueRead, Executing, WaitInv, QueuesInv, QueueDiscipline
<1>1. CASE ReadNoQueue(p, q)
  <2>1. ~(q <= nqueues) /\ UNCHANGED <<items, sendq, recvq>>
        /\ result' = [result EXCEPT ![p] = "#undefined"]
    BY <1>1 DEF ReadNoQueue, Return, IInv, TypeOK, QueueId
  <2> QED
    BY <1>0, <2>1, FailSteps
<1>2. CASE ReadItem(p, q)
  <2>1. Offers(sendq[q]) = {}
    BY <1>2 DEF ReadItem, Offers
  <2>2. Queues!Receive(p, q)
    BY <1>0, <1>2, <2>1 DEF ReadItem, Return, Queues!Receive
  <2> QED
    BY <2>2 DEF Queues!Next
<1>3. CASE ReadItemAndAdmit(p, q)
  <2>1. PICK w : w = Head(sendq[q])
    OBVIOUS
  <2>2. /\ sendq[q] # <<>> /\ UNCHANGED recvq
        /\ items' = [items EXCEPT ![q] = Append(Tail(@), w.value)]
        /\ sendq' = [sendq EXCEPT ![q] = Tail(@)]
        /\ result' = [result EXCEPT ![p] = Head(items[q]), ![w.pid] = "#t"]
    BY <1>3, <2>1 DEF ReadItemAndAdmit, Wake
  <2>3. w.pid \in Pid /\ w.value \in Values
    <3>1. Head(sendq[q]) \in Sender
      BY <1>0, <2>2, TailWaiters
    <3> QED
      BY <2>1, <3>1 DEF Sender
  <2>4. /\ <<w.pid, w.value>> \in Offers(sendq[q])
        /\ Offers(Tail(sendq[q])) = Offers(sendq[q]) \ {<<w.pid, w.value>>}
    BY <1>0, <2>1, <2>2, TailOffer
  <2>5. \A u \in QueueId : Offers(sendq'[u]) =
           IF u = q THEN Offers(sendq[q]) \ {<<w.pid, w.value>>} ELSE Offers(sendq[u])
    BY <2>2, <2>4 DEF IInv, TypeOK
  <2>6. Queues!ReceiveAndAdmit(p, w.pid, q, w.value)
    BY <1>0, <2>2, <2>4, <2>5 DEF Queues!ReceiveAndAdmit, Queues!Full
  <2> QED
    BY <2>3, <2>6 DEF Queues!Next
<1>4. CASE ReadEmpty(p, q, t)
  <2>1. /\ q <= nqueues /\ items[q] = <<>> /\ UNCHANGED <<items, sendq>>
        /\ q \in 1 .. nqueues
    BY <1>4 DEF ReadEmpty, QueueId, IInv, TypeOK
  <2>2. CASE t = 0
    <3>1. UNCHANGED recvq /\ result' = [result EXCEPT ![p] = "#undefined"]
      BY <1>4, <2>2 DEF ReadEmpty, Return
    <3> QED
      BY <1>0, <2>1, <3>1, FailSteps
  <2>3. CASE t # 0
    <3> DEFINE w == [pid |-> p, left |-> t]
    <3>1. /\ recvq' = [recvq EXCEPT ![q] = <<w>> \o @]
          /\ result' = [result EXCEPT ![p] = "none"]
      BY <1>4, <2>3 DEF ReadEmpty, Block
    <3>2. w \in Receiver /\ w.pid = p
      BY DEF Receiver
    <3> HIDE DEF w
    <3>3. Callers(<<w>> \o recvq[q]) = Callers(recvq[q]) \cup {p}
      <4>1. PidsOf(<<w>> \o recvq[q]) = PidsOf(recvq[q]) \cup {w.pid}
        BY <1>0, <3>2, PrependWaiter
      <4> QED
        BY <3>2, <4>1, CallersArePids
    <3>4. \A u \in QueueId : Callers(recvq'[u]) =
             IF u = q THEN Callers(recvq[q]) \cup {p} ELSE Callers(recvq[u])
      BY <3>1, <3>3 DEF IInv, TypeOK
    <3>5. Queues!WaitToReceive(p, q)
      BY <1>0, <2>1, <3>1, <3>4 DEF Queues!WaitToReceive
    <3> QED
      BY <3>5 DEF Queues!Next
  <2> QED
    BY <2>2, <2>3
<1> QED
  BY <1>1, <1>2, <1>3, <1>4 DEF QueueRead

-----------------------------------------------------------------------------
(* Calls that end without an answer, and timeouts *)

\* exec discards the answer its process got last.
LEMMA ExecForgets ==
    ASSUME IInv, NEW p \in Pid, Exec(p)
    PROVE  Queues!Next
<1>1. /\ state[p] # "BLOCKED" /\ UNCHANGED queueVars
      /\ result' = [result EXCEPT ![p] = "none"]
  BY DEF Exec, Executing
<1>2. Queues!Forget(p)
  BY <1>1, NotWaiting DEF queueVars, Queues!Forget
<1> QED
  BY <1>2 DEF Queues!Next

\* A kill takes the calls of its victim back, answering none.
LEMMA KillAbandons ==
    ASSUME IInv, NEW p \in Pid, NEW k \in Pid, Kill(p, k)
    PROVE  Queues!Next
<1>1. /\ sendq' = [q \in QueueId |-> WithoutWaiter(sendq[q], k)]
      /\ recvq' = [q \in QueueId |-> WithoutWaiter(recvq[q], k)]
      /\ UNCHANGED <<nqueues, capacity, items, result>>
  BY DEF Kill
<1>2. ASSUME NEW q \in QueueId
      PROVE  /\ Offers(sendq'[q]) = {x \in Offers(sendq[q]) : x[1] # k}
             /\ Callers(recvq'[q]) = Callers(recvq[q]) \ {k}
  <2>1. sendq[q] \in Seq(Sender) /\ recvq[q] \in Seq(Receiver)
    BY DEF IInv, TypeOK
  <2>2. Offers(WithoutWaiter(sendq[q], k)) = {x \in Offers(sendq[q]) : x[1] # k}
    BY <2>1, WaiterOffers
  <2>3. Callers(WithoutWaiter(recvq[q], k)) = Callers(recvq[q]) \ {k}
    <3>1. PidsOf(WithoutWaiter(recvq[q], k)) = PidsOf(recvq[q]) \ {k}
      BY <2>1, WithoutWaiterProps
    <3> QED
      BY <3>1, CallersArePids
  <2> QED
    BY <1>1, <2>2, <2>3
<1>3. Queues!Abandon(k)
  BY <1>1, <1>2 DEF Queues!Abandon
<1> QED
  BY <1>3 DEF Queues!Next

\* The waiter whose time is over is that of a BLOCKED process, so it is answered.
LEMMA TimeOutSteps ==
    ASSUME IInv, NEW q \in QueueId, TimeOutSender(q) \/ TimeOutReceiver(q)
    PROVE  Queues!Next
<1>0. /\ UNCHANGED <<nqueues, capacity, items>>
      /\ sendq[q] \in Seq(Sender) /\ recvq[q] \in Seq(Receiver)
      /\ OneEach(sendq[q]) /\ OneEach(recvq[q])
      /\ sendq[q] # <<>> => Len(items[q]) = capacity[q]
      /\ recvq[q] # <<>> => items[q] = <<>>
  BY DEF TimeOutSender, TimeOutReceiver, IInv, TypeOK, WaitInv, QueuesInv, QueueDiscipline
<1>1. CASE TimeOutSender(q)
  <2>1. PICK i \in DOMAIN sendq[q] :
          /\ sendq' = [sendq EXCEPT ![q] = WithoutIndex(@, i)]
          /\ TimeOutWaiter(sendq[q][i], "#f")
    BY <1>1 DEF TimeOutSender
  <2>2. PICK p : p = sendq[q][i].pid
    OBVIOUS
  <2>3. /\ p \in Pid /\ sendq[q][i].value \in Values
        /\ <<p, sendq[q][i].value>> \in Offers(sendq[q]) /\ p \in PidsOf(sendq[q])
    <3>1. sendq[q][i] \in Sender
      BY <1>0, ElementOfSeq, LenProperties
    <3> QED
      BY <2>2, <3>1 DEF Sender, Offers, PidsOf
  <2>4. state[p] = "BLOCKED"
    BY <2>3 DEF IInv, WaitInv
  <2>5. result' = [result EXCEPT ![p] = "#f"]
    BY <2>1, <2>2, <2>4 DEF TimeOutWaiter, Wake
  <2>6. Offers(WithoutIndex(sendq[q], i)) = {x \in Offers(sendq[q]) : x[1] # p}
    <3> DEFINE keep == DOMAIN sendq[q] \ {i}
    <3>1. /\ keep \in SUBSET DOMAIN sendq[q]
          /\ \A j \in DOMAIN sendq[q] : j \in keep <=> sendq[q][j].pid # p
      BY <1>0, <2>2 DEF OneEach
    <3>2. WithoutIndex(sendq[q], i) = Compact(sendq[q], keep)
      BY DEF WithoutIndex
    <3> HIDE DEF keep
    <3>3. \A x : x \in Offers(Compact(sendq[q], keep)) <=> x \in Offers(sendq[q]) /\ x[1] # p
      BY <1>0, <3>1, WithoutOffers
    <3> QED
      BY <3>2, <3>3
  <2>7. /\ \A u \in QueueId : Offers(sendq'[u]) =
             IF u = q THEN {x \in Offers(sendq[q]) : x[1] # p} ELSE Offers(sendq[u])
        /\ UNCHANGED recvq /\ sendq[q] # <<>>
    <3>1. sendq \in [QueueId -> Seq(Sender)]
      BY DEF IInv, TypeOK
    <3>2. \A u \in QueueId : sendq'[u] = IF u = q THEN WithoutIndex(sendq[q], i) ELSE sendq[u]
      BY <2>1, <3>1
    <3>3. UNCHANGED recvq /\ sendq[q] # <<>>
      BY <1>1, <2>1 DEF TimeOutSender
    <3> QED
      BY <2>6, <3>2, <3>3
  <2>8. Queues!SendFails(p, q)
    BY <1>0, <2>3, <2>5, <2>7 DEF Queues!SendFails, Queues!Full
  <2> QED
    BY <2>3, <2>8 DEF Queues!Next
<1>2. CASE TimeOutReceiver(q)
  <2>1. PICK i \in DOMAIN recvq[q] :
          /\ recvq' = [recvq EXCEPT ![q] = WithoutIndex(@, i)]
          /\ TimeOutWaiter(recvq[q][i], "#undefined")
    BY <1>2 DEF TimeOutReceiver
  <2>2. PICK p : p = recvq[q][i].pid
    OBVIOUS
  <2>3. p \in Pid /\ p \in Callers(recvq[q]) /\ p \in PidsOf(recvq[q])
    <3>1. recvq[q][i] \in Receiver
      BY <1>0, ElementOfSeq, LenProperties
    <3> QED
      BY <2>2, <3>1 DEF Receiver, Callers, PidsOf
  <2>4. state[p] = "BLOCKED"
    BY <2>3 DEF IInv, WaitInv
  <2>5. result' = [result EXCEPT ![p] = "#undefined"]
    BY <2>1, <2>2, <2>4 DEF TimeOutWaiter, Wake
  <2>6. Callers(WithoutIndex(recvq[q], i)) = Callers(recvq[q]) \ {p}
    <3>1. PidsOf(WithoutIndex(recvq[q], i)) = PidsOf(recvq[q]) \ {recvq[q][i].pid}
      BY <1>0, WithoutIndexProps
    <3> QED
      BY <2>2, <3>1, CallersArePids
  <2>7. /\ \A u \in QueueId : Callers(recvq'[u]) =
             IF u = q THEN Callers(recvq[q]) \ {p} ELSE Callers(recvq[u])
        /\ UNCHANGED sendq /\ recvq[q] # <<>>
    <3>1. recvq \in [QueueId -> Seq(Receiver)]
      BY DEF IInv, TypeOK
    <3>2. \A u \in QueueId : recvq'[u] = IF u = q THEN WithoutIndex(recvq[q], i) ELSE recvq[u]
      BY <2>1, <3>1
    <3>3. UNCHANGED sendq /\ recvq[q] # <<>>
      BY <1>2, <2>1 DEF TimeOutReceiver
    <3> QED
      BY <2>6, <3>2, <3>3
  <2>8. Queues!ReceiveFails(p, q)
    BY <1>0, <2>3, <2>5, <2>7 DEF Queues!ReceiveFails
  <2> QED
    BY <2>3, <2>8 DEF Queues!Next
<1> QED
  BY <1>1, <1>2

-----------------------------------------------------------------------------
(* Steps the queues do not see *)

\* Time moves deadlines only, which the queues do not have.
LEMMA PassStutters ==
    ASSUME IInv, NEW d \in Nat, Pass(d), UNCHANGED <<nqueues, capacity, items, result>>
    PROVE  UNCHANGED Queues!vars
<1>1. ASSUME NEW q \in QueueId
      PROVE  Offers(sendq'[q]) = Offers(sendq[q]) /\ Callers(recvq'[q]) = Callers(recvq[q])
  <2>1. /\ DOMAIN sendq'[q] = DOMAIN sendq[q]
        /\ \A i \in DOMAIN sendq[q] : sendq'[q][i].pid = sendq[q][i].pid
        /\ DOMAIN recvq'[q] = DOMAIN recvq[q]
        /\ \A i \in DOMAIN recvq[q] : recvq'[q][i].pid = recvq[q][i].pid
    BY PassType DEF IInv
  <2>2. \A i \in DOMAIN sendq[q] : sendq[q][i] \in Sender
    BY ElementOfSeq, LenProperties DEF IInv, TypeOK
  <2>3. \A i \in DOMAIN sendq[q] : sendq'[q][i].value = sendq[q][i].value
    BY <2>2 DEF Pass, LaterWaiters, Sender
  <2> QED
    BY <2>1, <2>3 DEF Offers, Callers
<1> QED
  BY <1>1, Stutter

\* Every step is a step of the queues or none.
LEMMA NextRefines ==
    ASSUME IInv, [Next]_vars
    PROVE  [Queues!Next]_Queues!vars
<1>1. ASSUME NEW p \in Pid, Instruction(p)
      PROVE  [Queues!Next]_Queues!vars
  <2>1. CASE \/ Halt(p) \/ Fail(p) \/ CallbackReturn(p) \/ Capture(p) \/ CallContinuation(p)
             \/ Fork(p)
             \/ \E d \in Delays, repeat \in BOOLEAN : SetTimer(p, d, repeat)
             \/ \E t \in TimerId : ClearTimer(p, t)
    <3>1. UNCHANGED <<nqueues, capacity, items, sendq, recvq, result>>
      BY <2>1 DEF Halt, Fail, CallbackReturn, Capture, CallContinuation, Fork, SetTimer,
                  ClearTimer, queueVars
    <3> QED
      BY <3>1, Stutter
  <2> QED
    BY <1>1, <2>1, CreateSteps, WriteSteps, ReadSteps, ExecForgets, KillAbandons DEF Instruction
<1>2. CASE \E q \in QueueId : TimeOutSender(q) \/ TimeOutReceiver(q)
  BY <1>2, TimeOutSteps
<1>3. CASE Sleep \/ Elapse
  <2>1. /\ \E d \in Nat : Pass(d)
        /\ UNCHANGED <<nqueues, capacity, items, result>>
    BY <1>3, DeadlineType DEF Sleep, Elapse, IsNearest, IInv
  <2> QED
    BY <2>1, PassStutters
<1>4. CASE \/ TickBegin \/ SliceEnd \/ TickEnd \/ PhaseEnd \/ WaitersEnd \/ VisitTimer \/ TimersEnd
           \/ GoOn \/ GoIdle \/ UNCHANGED vars
  <2>1. UNCHANGED <<nqueues, capacity, items, sendq, recvq, result>>
    BY <1>4 DEF TickBegin, SliceEnd, TickEnd, PhaseEnd, WaitersEnd, VisitTimer, TimersEnd,
                GoOn, GoIdle, vars, queueVars
  <2> QED
    BY <2>1, Stutter
<1> QED
  BY <1>1, <1>2, <1>3, <1>4 DEF Next, Loop, Idle

-----------------------------------------------------------------------------

\* Seen by its programs the runtime is a set of bounded FIFO queues: no value is
\* lost, duplicated or reordered, every call is answered once, and fails only
\* when its queue is full or empty.
THEOREM Refinement == Spec => ImplementsQueues
<1>1. Init => Queues!Init
  BY InitSteps
<1>2. IInv /\ [Next]_vars => [Queues!Next]_Queues!vars
  BY NextRefines
<1> QED
  BY <1>1, <1>2, Inductive, PTL DEF Spec, ImplementsQueues, Queues!Spec
=============================================================================
