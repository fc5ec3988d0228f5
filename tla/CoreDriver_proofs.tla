-------------------------- MODULE CoreDriver_proofs --------------------------
(***************************************************************************)
(* Theorems about the queues of a CoreDriver, its threads, and the driver  *)
(* manager with its scheduler and reader, for every set of threads, every  *)
(* sequence of limits, every number of starts and stops, every set of      *)
(* modules and every configuration.                                        *)
(***************************************************************************)
EXTENDS MCCoreDriver, SequenceLemmas

-----------------------------------------------------------------------------
(* A queue, however its messages are taken.                                *)

QueueInv == TypeOK /\ FifoInv /\ PermitsMatchQueue

\* A queue is numbered from what was taken on, when it is created.
LEMMA QueueInvInit == Init => QueueInv
  <1> SUFFICES ASSUME Init PROVE QueueInv
    OBVIOUS
  <1>1. queue = <<>> /\ taken = <<>> /\ Len(queue) = 0 /\ Len(taken) = 0
    BY DEF Init
  <1>2. FifoInv
    BY <1>1, NumberedEmpty DEF FifoInv, Init
  <1> QED BY <1>1, <1>2 DEF QueueInv, TypeOK, PermitsMatchQueue, Init

\* Taking the oldest message with a permit keeps the invariant.
LEMMA TakeOne ==
    ASSUME QueueInv, queue # <<>>,
           permits' = permits - 1,
           queue' = Tail(queue), taken' = Append(taken, Head(queue)),
           UNCHANGED <<direction, maxSize, pushing, pushed>>, waiting' \subseteq Receivers
    PROVE  QueueInv'
  <1> USE DEF QueueInv
  <1>1. /\ Len(queue) \in Nat \ {0} /\ Len(taken) \in Nat
        /\ Len(Tail(queue)) = Len(queue) - 1
        /\ Tail(queue) \in Seq(Nat)
        /\ Head(queue) = 0 + Len(taken) + 1
        /\ Numbered(Tail(queue), Len(taken) + 1)
    BY NumberedTail DEF TypeOK, FifoInv
  <1>2. /\ Len(taken') = Len(taken) + 1
        /\ taken' \in Seq(Nat)
        /\ Numbered(taken', 0)
    BY <1>1, NumberedAppend DEF TypeOK, FifoInv
  <1>3. TypeOK' /\ PermitsMatchQueue'
    BY <1>1, <1>2 DEF TypeOK, PermitsMatchQueue
  <1>4. FifoInv'
    BY <1>1, <1>2 DEF FifoInv
  <1> QED BY <1>3, <1>4

\* Every operation keeps the messages numbered and counted by the semaphore.
LEMMA QueueInvStep == QueueInv /\ [Next]_vars => QueueInv'
  <1> SUFFICES ASSUME QueueInv, [Next]_vars PROVE QueueInv'
    OBVIOUS
  <1> USE DEF QueueInv
  <1>0. Len(queue) \in Nat /\ Len(taken) \in Nat
    BY DEF TypeOK
  <1>1. ASSUME NEW p \in Pushers, PushCall(p)
        PROVE  QueueInv'
    BY <1>1 DEF PushCall, TypeOK, FifoInv, PermitsMatchQueue
  <1>2. ASSUME NEW p \in Pushers, Push(p)
        PROVE  QueueInv'
    <2>1. CASE Len(queue) < maxSize
      <3>1. /\ queue' = Append(queue, pushed + 1) /\ pushed' = pushed + 1
            /\ permits' = permits + 1 /\ taken' = taken /\ waiting' = waiting
            /\ maxSize' = maxSize /\ direction' = direction /\ pushing' = pushing \ {p}
        BY <1>2, <2>1 DEF Push
      <3>2. pushed + 1 = Len(taken) + Len(queue) + 1 /\ pushed + 1 \in Nat
        BY <1>0 DEF FifoInv
      <3>3. Len(queue') = Len(queue) + 1 /\ queue' \in Seq(Nat)
        BY <3>1, <3>2 DEF TypeOK
      <3>4. Numbered(queue', Len(taken))
        BY <1>0, <3>1, <3>2, NumberedAppend DEF TypeOK, FifoInv
      <3>5. TypeOK' /\ PermitsMatchQueue'
        BY <3>1, <3>2, <3>3, <1>0 DEF TypeOK, PermitsMatchQueue
      <3>6. FifoInv'
        BY <3>1, <3>2, <3>3, <3>4, <1>0 DEF FifoInv
      <3> QED BY <3>5, <3>6
    <2>2. CASE ~(Len(queue) < maxSize)
      BY <1>2, <2>2 DEF Push, TypeOK, FifoInv, PermitsMatchQueue
    <2> QED BY <2>1, <2>2
  <1>3. ASSUME NEW r \in Receivers, RecvLock(r)
        PROVE  QueueInv'
    BY <1>3 DEF RecvLock, TypeOK, FifoInv, PermitsMatchQueue
  <1>4. ASSUME NEW r \in Receivers, RecvAcquire(r)
        PROVE  QueueInv'
    <2>1. queue # <<>> /\ waiting' \subseteq Receivers
      BY <1>4 DEF RecvAcquire, PermitsMatchQueue, TypeOK
    <2> QED BY <1>4, <2>1, TakeOne DEF RecvAcquire
  <1>5. ASSUME NEW r \in Receivers, RecvTimeout(r)
        PROVE  QueueInv'
    BY <1>5 DEF RecvTimeout, TypeOK, FifoInv, PermitsMatchQueue
  <1>6. ASSUME RecvAll
        PROVE  QueueInv'
    <2>1. /\ taken' \in Seq(Nat) /\ Numbered(taken', 0)
          /\ Len(taken') = Len(taken) + Len(queue)
      BY <1>6, NumberedConcat DEF RecvAll, TypeOK, FifoInv
    <2>2. queue' = <<>> /\ Len(queue') = 0 /\ queue' \in Seq(Nat) /\ permits' = 0
      BY <1>6, <1>0 DEF RecvAll, PermitsMatchQueue
    <2>3. Numbered(queue', Len(taken'))
      BY <2>2, NumberedEmpty
    <2> QED BY <1>0, <1>6, <2>1, <2>2, <2>3 DEF RecvAll, TypeOK, FifoInv, PermitsMatchQueue
  <1>7. ASSUME PullSend
        PROVE  QueueInv'
    BY <1>7, TakeOne DEF PullSend, TypeOK
  <1>8. ASSUME NEW n \in Limits, SetMaxSize(n)
        PROVE  QueueInv'
    BY <1>8 DEF SetMaxSize, TypeOK, FifoInv, PermitsMatchQueue
  <1>9. CASE UNCHANGED vars
    BY <1>9 DEF vars, TypeOK, FifoInv, PermitsMatchQueue
  <1> QED BY <1>1, <1>2, <1>3, <1>4, <1>5, <1>6, <1>7, <1>8, <1>9 DEF Next, Receive

\* The invariant the theorems below are read from.
LEMMA QueueInvAlways == Spec => []QueueInv
  BY QueueInvInit, QueueInvStep, PTL DEF Spec
-----------------------------------------------------------------------------
\* Type correctness.
THEOREM Typing == Spec => []TypeOK
  BY QueueInvAlways, PTL DEF QueueInv

\* Messages leave the queue in the order of the pushes, each once.
THEOREM Fifo == Spec => []FifoInv
  BY QueueInvAlways, PTL DEF QueueInv

\* The semaphore always counts the messages of the queue.
THEOREM Permits == Spec => []PermitsMatchQueue
  BY QueueInvAlways, PTL DEF QueueInv

\* Queue, limit, users and semaphore are sound in every reachable state.
THEOREM Sound == Spec => []QueueSound
  <1>1. QueueInv => QueueSound
    BY DEF QueueInv, QueueSound
  <1> QED BY <1>1, QueueInvAlways, PTL

\* No push makes the queue longer than the limit in force.
THEOREM Limited == Spec => GrowsWithinLimit
  <1>1. ASSUME QueueInv, [Next]_vars
        PROVE  [Len(queue') > Len(queue) => Len(queue') <= maxSize]_vars
    <2>1. SUFFICES ASSUME Len(queue') > Len(queue)
                   PROVE  Len(queue') <= maxSize
      OBVIOUS
    <2>2. queue \in Seq(Nat) /\ Len(queue) \in Nat /\ maxSize \in Nat
      BY <1>1, QueueAssumption DEF QueueInv, TypeOK
    <2>3. queue # <<>> => Len(Tail(queue)) = Len(queue) - 1
      BY <2>2
    <2>4. Len(<<>>) = 0
      OBVIOUS
    <2>5. PICK p \in Pushers : Push(p) /\ Len(queue) < maxSize
      BY <1>1, <2>1, <2>2, <2>3, <2>4
         DEF Next, PushCall, Push, RecvLock, Receive, RecvAcquire, RecvTimeout, RecvAll,
             PullSend, SetMaxSize, vars
    <2> QED BY <2>2, <2>5 DEF Push
  <1> QED BY <1>1, QueueInvAlways, PTL DEF Spec, GrowsWithinLimit
-----------------------------------------------------------------------------
\* The queue implements the FIFO outbox: pushing accepts a message, taking one or
\* all delivers, the rest is invisible.
THEOREM ImplementsOutbox == Spec => OutboxSpec
  <1>1. Init => Out!Init
    BY DEF Init, Out!Init
  <1>2. ASSUME QueueInv, [Next]_vars
        PROVE  [Out!Next]_Out!vars
    <2> USE DEF QueueInv
    <2>0. Len(queue) \in Nat /\ Len(taken) \in Nat
      BY <1>2 DEF TypeOK
    <2>1. CASE \E p \in Pushers : Push(p)
      BY <1>2, <2>1 DEF Push, Out!Next, Out!Accept, Out!vars
    <2>2. CASE taken' = Append(taken, Head(queue)) /\ queue # <<>> /\ pushed' = pushed
      <3>1. Head(queue) = Len(taken) + 1
        BY <1>2, <2>0, <2>2, NumberedTail DEF FifoInv, TypeOK
      <3>2. Len(taken) < pushed
        BY <1>2, <2>0, <2>2 DEF FifoInv, TypeOK
      <3> QED BY <2>2, <3>1, <3>2 DEF Out!Next, Out!Deliver
    <2>3. CASE RecvAll
      <3>1. taken' = [i \in 1 .. pushed |-> i]
        BY <1>2, <2>3, NumberedConcat DEF RecvAll, FifoInv, TypeOK
      <3>2. Len(taken) < pushed /\ pushed' = pushed
        BY <1>2, <2>0, <2>3 DEF FifoInv, TypeOK, RecvAll
      <3> QED BY <3>1, <3>2 DEF Out!Next, Out!DeliverAll
    <2>4. CASE UNCHANGED <<pushed, taken>>
      BY <2>4 DEF Out!vars
    <2>5. CASE \E r \in Receivers : RecvAcquire(r)
      BY <2>2, <2>4, <2>5 DEF RecvAcquire
    <2> QED
      BY <1>2, <2>1, <2>2, <2>3, <2>4, <2>5
         DEF Next, PushCall, RecvLock, Receive, RecvTimeout, PullSend, SetMaxSize, vars
  <1> QED BY <1>1, <1>2, QueueInvAlways, PTL DEF Spec, OutboxSpec, Out!Spec

-----------------------------------------------------------------------------
(* The threads of a driver.                                                *)
(*                                                                         *)
(* The slot calls on their way are the end of one regular sequence: send   *)
(* and recv started, send and recv finished, and so on.  Counted from its  *)
(* end, each call is therefore determined by whether the driver is up now. *)

Up == driverPc \notin {"off", "starting"}

\* The signal of the last calls in the sequence, and the other one.
Latest == IF Up THEN "started" ELSE "finished"
Other(slot) == IF slot = "started" THEN "finished" ELSE "started"

\* The j-th call from the end of the sequence, the last one being the 0th, when the
\* last signal is slot.
SlotAt(slot, j) == IF j % 4 \in {0, 1} THEN slot ELSE Other(slot)
WorkerAt(j) == IF j % 2 = 0 THEN "recv" ELSE "send"

\* The last call for w that the creator has handled, when n are on their way.
LastOf(n, w) == IF WorkerAt(n) = w THEN n ELSE n + 1

Stopping(w) == creatorPc \in {"quitWorker", "joinWorker"} /\ joining = w

EventsInOrder ==
    \A k \in 1 .. Len(events) :
        /\ events[k].slot = SlotAt(Latest, Len(events) - k)
        /\ events[k].worker = WorkerAt(Len(events) - k)

\* A worker whose last call was to start runs and has not been told to quit.
WorkersInOrder ==
    \A w \in Threads!Workers :
        IF SlotAt(Latest, LastOf(Len(events), w)) = "started"
        THEN ~Stopping(w) /\ workerPc[w] # "off" /\ ~workerQuit[w]
        ELSE Stopping(w) \/ workerPc[w] = "off"

\* Calls that the sessions so far have still to queue.
Owed == IF driverPc = "starting" THEN 4 ELSE IF Up THEN 2 ELSE 0

ThreadsInv ==
    Threads!TypeOK /\ Len(events) + Owed <= 4 * sessions /\ EventsInOrder /\ WorkersInOrder

\* Two calls further from the end the worker is the same and the signal the other.
LEMMA Period ==
    ASSUME NEW j \in Nat
    PROVE  /\ (j + 2) % 4 \in {0, 1} <=> j % 4 \notin {0, 1}
           /\ (j + 2) % 2 = 0 <=> j % 2 = 0
           /\ (j + 1) % 2 = 0 <=> j % 2 # 0
  OBVIOUS

\* When the driver comes up or goes down and queues a call to each worker, the calls
\* before stay what they are.
LEMMA QueueCalls ==
    ASSUME ThreadsInv, NEW slot \in {"started", "finished"},
           events' = events \o Threads!Calls(slot),
           Latest' = slot, Latest = Other(slot),
           UNCHANGED <<Threads!creatorVars, Threads!workerVars>>
    PROVE  /\ EventsInOrder' /\ WorkersInOrder'
           /\ Len(events') = Len(events) + 2
           /\ events' \in Seq([slot : {"started", "finished"}, worker : Threads!Workers])
  <1> USE DEF ThreadsInv
  <1> DEFINE n == Len(events)
  <1>1. n \in Nat /\ Threads!Calls(slot) \in Seq([slot : {"started", "finished"}, worker : Threads!Workers])
        /\ Len(Threads!Calls(slot)) = 2
    BY DEF Threads!TypeOK, Threads!Calls, Threads!Workers
  <1>2. /\ Len(events') = n + 2
        /\ events' \in Seq([slot : {"started", "finished"}, worker : Threads!Workers])
        /\ \A k \in 1 .. n : events'[k] = events[k]
        /\ events'[n + 1] = Threads!Calls(slot)[1] /\ events'[n + 2] = Threads!Calls(slot)[2]
    <2>1. events \in Seq([slot : {"started", "finished"}, worker : Threads!Workers])
      BY DEF Threads!TypeOK
    <2> QED BY <1>1, <2>1, TwoMore
  <1>0. Len(events) = n
    OBVIOUS
  <1> HIDE DEF n
  <1>3. \A j \in Nat : SlotAt(Latest', j + 2) = SlotAt(Latest, j) /\ WorkerAt(j + 2) = WorkerAt(j)
    <2>1. Other(Other(slot)) = slot
      BY DEF Other
    <2>2. \A j \in Nat : SlotAt(slot, j + 2) = SlotAt(Other(slot), j)
      BY <2>1, Period DEF SlotAt
    <2>3. \A j \in Nat : WorkerAt(j + 2) = WorkerAt(j)
      BY Period DEF WorkerAt
    <2> QED BY <2>2, <2>3
  <1>4. /\ SlotAt(Latest', 0) = slot /\ SlotAt(Latest', 1) = slot
        /\ WorkerAt(0) = "recv" /\ WorkerAt(1) = "send"
    BY DEF SlotAt, WorkerAt
  <1>5. EventsInOrder'
    <2>1. ASSUME NEW k \in 1 .. n + 2
          PROVE  /\ events'[k].slot = SlotAt(Latest', n + 2 - k)
                 /\ events'[k].worker = WorkerAt(n + 2 - k)
      <3>1. CASE k \in 1 .. n
        <4>1. n - k \in Nat /\ n + 2 - k = (n - k) + 2
          BY <1>1, <3>1
        <4>2. events[k].slot = SlotAt(Latest, n - k) /\ events[k].worker = WorkerAt(n - k)
          BY <1>0, <3>1 DEF EventsInOrder
        <4> QED BY <1>2, <1>3, <3>1, <4>1, <4>2
      <3>2. CASE k = n + 1
        <4>1. n + 2 - k = 1
          BY <1>1, <3>2
        <4> QED BY <1>2, <1>4, <3>2, <4>1 DEF Threads!Calls
      <3>3. CASE k = n + 2
        <4>1. n + 2 - k = 0
          BY <1>1, <3>3
        <4>2. Threads!Calls(slot)[2] = [slot |-> slot, worker |-> "recv"]
          BY DEF Threads!Calls
        <4> QED BY <1>2, <1>4, <3>3, <4>1, <4>2
      <3>4. k \in 1 .. n \/ k = n + 1 \/ k = n + 2
        BY <1>1
      <3> QED BY <3>1, <3>2, <3>3, <3>4
    <2>2. ASSUME NEW k \in 1 .. Len(events')
          PROVE  /\ events'[k].slot = SlotAt(Latest', Len(events') - k)
                 /\ events'[k].worker = WorkerAt(Len(events') - k)
      <3>1. Len(events') = n + 2
        BY <1>2
      <3>2. k \in 1 .. n + 2
        BY <3>1
      <3>3. events'[k].slot = SlotAt(Latest', n + 2 - k) /\ events'[k].worker = WorkerAt(n + 2 - k)
        BY <2>1, <3>2
      <3> QED BY <1>1, <3>1, <3>2, <3>3
    <2> QED BY <2>2 DEF EventsInOrder
  <1>6. WorkersInOrder'
    <2>1. UNCHANGED <<creatorPc, joining, workerPc, workerQuit>>
      BY DEF Threads!creatorVars, Threads!workerVars
    <2>2. \A w \in Threads!Workers : LastOf(n + 2, w) = LastOf(n, w) + 2 /\ LastOf(n, w) \in Nat
      <3>1. n \in Nat /\ WorkerAt(n + 2) = WorkerAt(n) /\ n + 2 + 1 = n + 1 + 2
        BY <1>1, <1>3
      <3> QED BY <3>1 DEF LastOf
    <2>3. \A w \in Threads!Workers : SlotAt(Latest', LastOf(Len(events'), w)) = SlotAt(Latest, LastOf(n, w))
      BY <1>2, <1>3, <2>2
    <2>4. \A w \in Threads!Workers : Stopping(w)' <=> Stopping(w)
      BY <2>1 DEF Stopping
    <2>5. \A w \in Threads!Workers : SlotAt(Latest', LastOf(Len(events'), w))
                              = SlotAt(Latest, LastOf(Len(events), w))
      BY <1>0, <2>3
    <2> QED BY <2>1, <2>4, <2>5 DEF WorkersInOrder
  <1> QED BY <1>0, <1>2, <1>5, <1>6

\* When the creator takes the first call, it is for a worker whose last handled call
\* was the other one; for the other worker nothing changes.
LEMMA TakesCall ==
    ASSUME ThreadsInv, events # <<>>, events' = Tail(events),
           UNCHANGED driverPc
    PROVE  /\ Head(events).worker \in Threads!Workers
           /\ EventsInOrder'
           /\ Len(events') = Len(events) - 1 /\ Len(events) \in Nat
           /\ events' \in Seq([slot : {"started", "finished"}, worker : Threads!Workers])
           /\ \A w \in Threads!Workers :
                IF w = Head(events).worker
                THEN /\ SlotAt(Latest', LastOf(Len(events'), w)) = Head(events).slot
                     /\ SlotAt(Latest, LastOf(Len(events), w)) = Other(Head(events).slot)
                ELSE SlotAt(Latest', LastOf(Len(events'), w))
                        = SlotAt(Latest, LastOf(Len(events), w))
  <1> DEFINE n == Len(events)
  <1>1. events \in Seq([slot : {"started", "finished"}, worker : Threads!Workers])
    BY DEF ThreadsInv, Threads!TypeOK
  <1>2. n \in Nat /\ n # 0 /\ Head(events) = events[1]
    BY <1>1
  <1>3. /\ Head(events) \in [slot : {"started", "finished"}, worker : Threads!Workers]
        /\ events' \in Seq([slot : {"started", "finished"}, worker : Threads!Workers])
        /\ Len(events') = n - 1
        /\ \A k \in 1 .. Len(events') : events'[k] = events[k + 1]
    BY <1>1, HeadTailProperties
  <1>0. Len(events) = n
    OBVIOUS
  <1>4. Latest' = Latest
    BY DEF Latest, Up
  <1> HIDE DEF n
  <1>5. \A k \in 1 .. n : /\ events[k].slot = SlotAt(Latest, n - k)
                          /\ events[k].worker = WorkerAt(n - k)
    BY <1>0 DEF ThreadsInv, EventsInOrder
  <1>6. EventsInOrder'
    <2>1. ASSUME NEW k \in 1 .. n - 1
          PROVE  /\ events'[k].slot = SlotAt(Latest', n - 1 - k)
                 /\ events'[k].worker = WorkerAt(n - 1 - k)
      <3>1. k + 1 \in 1 .. n /\ n - (k + 1) = n - 1 - k
        BY <1>2
      <3> QED BY <1>3, <1>4, <1>5, <3>1
    <2>2. Len(events') = n - 1
      BY <1>3
    <2>3. ASSUME NEW k \in 1 .. Len(events')
          PROVE  /\ events'[k].slot = SlotAt(Latest', Len(events') - k)
                 /\ events'[k].worker = WorkerAt(Len(events') - k)
      <3>1. k \in 1 .. n - 1
        BY <2>2
      <3> QED BY <2>1, <2>2, <3>1
    <2> QED BY <2>3 DEF EventsInOrder
  <1>7. /\ Head(events).slot = SlotAt(Latest, n - 1)
        /\ Head(events).worker = WorkerAt(n - 1)
    <2>1. 1 \in 1 .. n
      BY <1>2
    <2> QED BY <1>2, <1>5, <2>1
  <1>8. \E m \in Nat : n = m + 1
    <2>1. n - 1 \in Nat /\ n = (n - 1) + 1
      BY <1>2
    <2> QED BY <2>1
  <1>9. PICK m \in Nat : n = m + 1
    BY <1>8
  <1>10. n - 1 = m /\ n + 1 = m + 2 /\ m + 1 \in Nat
    BY <1>9
  <1>11. WorkerAt(m + 1) # WorkerAt(m) /\ WorkerAt(m) \in Threads!Workers /\ WorkerAt(m + 1) \in Threads!Workers
    BY Period DEF WorkerAt, Threads!Workers
  <1>12. SlotAt(Latest, m + 2) = Other(SlotAt(Latest, m))
    <2>1. Latest \in {"started", "finished"}
      BY DEF Latest
    <2>2. Other(Other(Latest)) = Latest
      BY <2>1 DEF Other
    <2> QED BY <2>2, Period DEF SlotAt
  <1>13. ASSUME NEW w \in Threads!Workers, w = Head(events).worker
         PROVE  /\ SlotAt(Latest', LastOf(Len(events'), w)) = Head(events).slot
                /\ SlotAt(Latest, LastOf(n, w)) = Other(Head(events).slot)
    <2>1. w = WorkerAt(m) /\ w # WorkerAt(m + 1)
      BY <1>7, <1>10, <1>11, <1>13
    <2>2. LastOf(m, w) = m /\ LastOf(m + 1, w) = m + 2
      BY <1>9, <1>10, <2>1 DEF LastOf
    <2> QED BY <1>3, <1>4, <1>7, <1>9, <1>10, <1>12, <2>2
  <1>14. ASSUME NEW w \in Threads!Workers, w # Head(events).worker
         PROVE  SlotAt(Latest', LastOf(Len(events'), w)) = SlotAt(Latest, LastOf(n, w))
    <2>1. w # WorkerAt(m) /\ w = WorkerAt(m + 1)
      BY <1>7, <1>10, <1>11, <1>14 DEF Threads!Workers
    <2>2. LastOf(m, w) = m + 1 /\ LastOf(m + 1, w) = m + 1
      BY <1>9, <1>10, <2>1 DEF LastOf
    <2> QED BY <1>3, <1>4, <1>9, <1>10, <2>2
  <1> QED BY <1>0, <1>2, <1>3, <1>6, <1>13, <1>14

LEMMA InitThreads == ASSUME Threads!ThreadsAssumption, Threads!Init PROVE ThreadsInv
  <1> USE DEF Threads!Init, Threads!ThreadsAssumption
  <1>1. Len(events) = 0 /\ events \in Seq([slot : {"started", "finished"}, worker : Threads!Workers])
    OBVIOUS
  <1>2. Threads!TypeOK
    <2>1. sessions \in 0 .. MaxSessions /\ Len(events) <= 4 * sessions
      BY <1>1
    <2>2. /\ workerPc \in [Threads!Workers -> {"off", "entered", "loop", "call", "exec"}]
          /\ workerQuit \in [Threads!Workers -> BOOLEAN] /\ mRunning \in [Threads!Workers -> BOOLEAN]
      OBVIOUS
    <2> QED BY <1>1, <2>1, <2>2, Zenon DEF Threads!TypeOK
  <1>3. Len(events) + Owed <= 4 * sessions
    BY <1>1 DEF Owed, Up
  <1>4. EventsInOrder
    BY <1>1 DEF EventsInOrder
  <1>5. WorkersInOrder
    <2>1. \A w \in Threads!Workers : LastOf(Len(events), w) \in {0, 1}
      BY <1>1 DEF LastOf
    <2>2. Latest = "finished"
      BY DEF Latest, Up
    <2>3. \A w \in Threads!Workers : SlotAt(Latest, LastOf(Len(events), w)) = "finished"
      BY <2>1, <2>2 DEF SlotAt
    <2> QED BY <2>3 DEF WorkersInOrder
  <1> QED BY <1>2, <1>3, <1>4, <1>5 DEF ThreadsInv

\* A step that leaves the events and what Up says of the driver alone keeps every
\* expectation of a worker.
LEMMA SameCalls ==
    ASSUME ThreadsInv, UNCHANGED events, Latest' = Latest
    PROVE  /\ EventsInOrder'
           /\ \A w \in Threads!Workers : SlotAt(Latest', LastOf(Len(events'), w))
                                    = SlotAt(Latest, LastOf(Len(events), w))
  BY DEF ThreadsInv, EventsInOrder

LEMMA StepThreads ==
    ASSUME Threads!ThreadsAssumption, ThreadsInv, [Threads!Next]_threadVars PROVE ThreadsInv'
  <1> USE DEF Threads!ThreadsAssumption
  <1>0. Threads!TypeOK /\ Len(events) + Owed <= 4 * sessions /\ EventsInOrder /\ WorkersInOrder
        /\ Len(events) \in Nat
    BY DEF ThreadsInv, Threads!TypeOK
  <1>1. CASE Threads!DriverStart
    <2> USE <1>1 DEF Threads!DriverStart, Threads!creatorVars, Threads!workerVars
    <2>1. Latest' = Latest
      BY DEF Latest, Up
    <2>2. EventsInOrder' /\ WorkersInOrder'
      BY <1>0, <2>1, SameCalls DEF WorkersInOrder, Stopping
    <2>3. Owed = 0 /\ Owed' = 4
      BY DEF Owed, Up
    <2>4. Threads!TypeOK'
      <3>1. sessions' \in 0 .. MaxSessions /\ Len(events') <= 4 * sessions'
        BY <1>0 DEF Threads!TypeOK
      <3>2. UNCHANGED <<events, creatorPc, joining, workerPc, workerQuit, mRunning>>
        OBVIOUS
      <3> QED BY <1>0, <3>1, <3>2, Zenon DEF Threads!TypeOK
    <2>5. Len(events') + Owed' <= 4 * sessions'
      BY <1>0, <2>3 DEF Threads!TypeOK
    <2> QED BY <2>2, <2>4, <2>5 DEF ThreadsInv
  <1>2. ASSUME NEW then \in {"stop", "delete"}, Threads!DriverStop(then)
        PROVE  ThreadsInv'
    <2> USE <1>2 DEF Threads!DriverStop, Threads!workerVars
    <2>1. Latest' = Latest /\ Owed' = Owed
      BY DEF Latest, Up, Owed
    <2>2. EventsInOrder' /\ WorkersInOrder'
      BY <1>0, <2>1, SameCalls DEF WorkersInOrder, Stopping
    <2>3. Threads!TypeOK'
      BY <1>0 DEF Threads!TypeOK
    <2> QED BY <1>0, <2>1, <2>2, <2>3 DEF ThreadsInv
  <1>3. CASE Threads!DriverJoined
    <2> USE <1>3 DEF Threads!DriverJoined, Threads!driverVars, Threads!workerVars
    <2>1. Latest' = Latest /\ Owed' = Owed
      BY DEF Latest, Up, Owed
    <2>2. EventsInOrder' /\ WorkersInOrder'
      BY <1>0, <2>1, SameCalls DEF WorkersInOrder, Stopping
    <2>3. Threads!TypeOK'
      BY <1>0 DEF Threads!TypeOK
    <2> QED BY <1>0, <2>1, <2>2, <2>3 DEF ThreadsInv
  <1>4. CASE Threads!ParentStarted
    <2> USE <1>4 DEF Threads!ParentStarted, Threads!driverVars, Threads!creatorVars
    <2> DEFINE w == Head(events).worker
    <2>1. /\ w \in Threads!Workers /\ EventsInOrder' /\ Len(events') = Len(events) - 1
          /\ events' \in Seq([slot : {"started", "finished"}, worker : Threads!Workers])
          /\ SlotAt(Latest', LastOf(Len(events'), w)) = "started"
          /\ SlotAt(Latest, LastOf(Len(events), w)) = Other("started")
          /\ \A v \in Threads!Workers \ {w} : SlotAt(Latest', LastOf(Len(events'), v))
                                        = SlotAt(Latest, LastOf(Len(events), v))
      BY <1>0, TakesCall
    <2> HIDE DEF w
    <2>2. /\ workerPc' = [workerPc EXCEPT ![w] = IF @ = "off" THEN "entered" ELSE @]
          /\ workerQuit' = [workerQuit EXCEPT ![w] = @ /\ workerPc[w] # "off"]
      BY DEF w
    <2>3. workerPc[w] = "off"
      BY <1>0, <2>1 DEF WorkersInOrder, Stopping, Other
    <2>4. /\ workerPc' \in [Threads!Workers -> {"off", "entered", "loop", "call", "exec"}]
          /\ workerQuit' \in [Threads!Workers -> BOOLEAN]
          /\ workerPc'[w] = "entered" /\ ~workerQuit'[w]
          /\ \A v \in Threads!Workers \ {w} : workerPc'[v] = workerPc[v] /\ (workerQuit'[v] <=> workerQuit[v])
      BY <1>0, <2>1, <2>2, <2>3 DEF Threads!TypeOK
    <2>5. WorkersInOrder'
      BY <1>0, <2>1, <2>4 DEF WorkersInOrder, Stopping
    <2>6. Threads!TypeOK'
      BY <1>0, <2>1, <2>4 DEF Threads!TypeOK
    <2>7. Owed' = Owed /\ Owed \in Nat
      BY DEF Owed, Up
    <2>8. Len(events') + Owed' <= 4 * sessions'
      BY <1>0, <2>1, <2>7 DEF Threads!TypeOK
    <2> QED BY <2>1, <2>5, <2>6, <2>8 DEF ThreadsInv
  <1>5. CASE Threads!ParentFinished
    <2> USE <1>5 DEF Threads!ParentFinished, Threads!driverVars
    <2> DEFINE w == Head(events).worker
    <2>1. /\ w \in Threads!Workers /\ EventsInOrder' /\ Len(events') = Len(events) - 1
          /\ events' \in Seq([slot : {"started", "finished"}, worker : Threads!Workers])
          /\ SlotAt(Latest', LastOf(Len(events'), w)) = "finished"
          /\ \A v \in Threads!Workers \ {w} : SlotAt(Latest', LastOf(Len(events'), v))
                                        = SlotAt(Latest, LastOf(Len(events), v))
      BY <1>0, TakesCall
    <2> HIDE DEF w
    <2>2. joining' = w /\ mRunning' = [mRunning EXCEPT ![w] = FALSE]
      BY DEF w
    <2>3. WorkersInOrder'
      BY <1>0, <2>1, <2>2 DEF WorkersInOrder, Stopping
    <2>4. Threads!TypeOK'
      BY <1>0, <2>1, <2>2 DEF Threads!TypeOK
    <2>5. Owed' = Owed /\ Owed \in Nat
      BY DEF Owed, Up
    <2>6. Len(events') + Owed' <= 4 * sessions'
      BY <1>0, <2>1, <2>5 DEF Threads!TypeOK
    <2> QED BY <2>1, <2>3, <2>4, <2>6 DEF ThreadsInv
  <1>6. CASE Threads!QuitWorker
    <2> USE <1>6 DEF Threads!QuitWorker, Threads!driverVars
    <2>1. Latest' = Latest /\ Owed' = Owed
      BY DEF Latest, Up, Owed
    <2>2. /\ Stopping(joining) /\ Stopping(joining)'
          /\ \A w \in Threads!Workers \ {joining} : workerQuit'[w] <=> workerQuit[w]
      BY <1>0 DEF Stopping, Threads!TypeOK
    <2>3. EventsInOrder' /\ WorkersInOrder'
      BY <1>0, <2>1, <2>2, SameCalls DEF WorkersInOrder, Stopping
    <2>4. Threads!TypeOK'
      BY <1>0 DEF Threads!TypeOK
    <2> QED BY <1>0, <2>1, <2>3, <2>4 DEF ThreadsInv
  <1>7. CASE Threads!WorkerJoined
    <2> USE <1>7 DEF Threads!WorkerJoined, Threads!driverVars, Threads!workerVars
    <2>1. Latest' = Latest /\ Owed' = Owed
      BY DEF Latest, Up, Owed
    <2>2. EventsInOrder' /\ WorkersInOrder'
      BY <1>0, <2>1, SameCalls DEF WorkersInOrder, Stopping
    <2>3. Threads!TypeOK'
      BY <1>0 DEF Threads!TypeOK
    <2> QED BY <1>0, <2>1, <2>2, <2>3 DEF ThreadsInv
  <1>8. CASE Threads!DriverStarted
    <2> USE <1>8 DEF Threads!DriverStarted
    <2>1. Latest' = "started" /\ Latest = Other("started") /\ Owed = 4 /\ Owed' = 2
      BY DEF Latest, Up, Other, Owed
    <2>2. /\ EventsInOrder' /\ WorkersInOrder' /\ Len(events') = Len(events) + 2
          /\ events' \in Seq([slot : {"started", "finished"}, worker : Threads!Workers])
      BY <2>1, QueueCalls
    <2>3. Len(events') + Owed' <= 4 * sessions'
      BY <1>0, <2>1, <2>2 DEF Threads!TypeOK
    <2>4. Threads!TypeOK'
      BY <1>0, <2>1, <2>2, <2>3 DEF Threads!TypeOK, Threads!creatorVars, Threads!workerVars
    <2> QED BY <2>2, <2>3, <2>4 DEF ThreadsInv
  <1>9. CASE Threads!DriverStartup \/ Threads!DriverExec \/ Threads!DriverShutdown
    <2> USE <1>9 DEF Threads!DriverStartup, Threads!DriverExec, Threads!DriverShutdown, Threads!creatorVars, Threads!workerVars
    <2>1. Latest' = Latest /\ Owed' = Owed
      BY DEF Latest, Up, Owed
    <2>2. EventsInOrder' /\ WorkersInOrder'
      BY <1>0, <2>1, SameCalls DEF WorkersInOrder, Stopping
    <2>3. Threads!TypeOK'
      BY <1>0 DEF Threads!TypeOK
    <2> QED BY <1>0, <2>1, <2>2, <2>3 DEF ThreadsInv
  <1>10. CASE Threads!DriverFinished
    <2> USE <1>10 DEF Threads!DriverFinished
    <2>1. Latest' = "finished" /\ Latest = Other("finished") /\ Owed = 2 /\ Owed' = 0
      BY DEF Latest, Up, Other, Owed
    <2>2. /\ EventsInOrder' /\ WorkersInOrder' /\ Len(events') = Len(events) + 2
          /\ events' \in Seq([slot : {"started", "finished"}, worker : Threads!Workers])
      BY <2>1, QueueCalls
    <2>3. Len(events') + Owed' <= 4 * sessions'
      BY <1>0, <2>1, <2>2 DEF Threads!TypeOK
    <2>4. Threads!TypeOK'
      BY <1>0, <2>1, <2>2, <2>3 DEF Threads!TypeOK, Threads!creatorVars, Threads!workerVars
    <2> QED BY <2>2, <2>3, <2>4 DEF ThreadsInv
  <1>11. ASSUME NEW w \in Threads!Workers, Threads!Worker(w)
         PROVE  ThreadsInv'
    <2> USE <1>11 DEF Threads!Worker, Threads!WorkerEnter, Threads!WorkerLoop, Threads!WorkerCall, Threads!WorkerExec,
                      Threads!driverVars, Threads!creatorVars
    <2>1. Latest' = Latest /\ Owed' = Owed
      BY DEF Latest, Up, Owed
    <2>2. /\ Threads!TypeOK' /\ UNCHANGED <<creatorPc, joining, workerQuit>>
          /\ \A v \in Threads!Workers \ {w} : workerPc'[v] = workerPc[v]
          /\ workerPc[w] # "off"
          /\ workerPc'[w] # "off" \/ workerQuit[w]
      BY <1>0 DEF Threads!TypeOK
    <2>3. EventsInOrder' /\ \A v \in Threads!Workers : SlotAt(Latest', LastOf(Len(events'), v))
                                                = SlotAt(Latest, LastOf(Len(events), v))
      BY <2>1, SameCalls
    <2>4. WorkersInOrder'
      BY <1>0, <2>2, <2>3 DEF WorkersInOrder, Stopping
    <2> QED BY <1>0, <2>1, <2>2, <2>3, <2>4 DEF ThreadsInv
  <1>12. CASE UNCHANGED threadVars
    BY <1>0, <1>12 DEF threadVars, ThreadsInv, Threads!TypeOK, Owed, Up, Latest, EventsInOrder,
                       WorkersInOrder, Stopping
  <1>13. Threads!Deleted => UNCHANGED threadVars
    BY DEF Threads!Deleted, Threads!vars, Threads!driverVars, Threads!creatorVars,
           Threads!workerVars, threadVars
  <1> QED BY <1>1, <1>2, <1>3, <1>4, <1>5, <1>6, <1>7, <1>8, <1>9, <1>10, <1>11, <1>12, <1>13
          DEF Threads!Next, Threads!EventLoop, Threads!DriverThread

\* When the creator has handled every queued call, both workers run if the driver's
\* thread is up and neither if it is not.
LEMMA Follow == ThreadsInv => Threads!WorkersFollowDriver
  <1> SUFFICES ASSUME ThreadsInv, creatorPc = "loop", events = <<>>
               PROVE  \A w \in Threads!Workers : workerPc[w] # "off" <=> Up
    BY DEF Threads!WorkersFollowDriver, Up
  <1>1. \A w \in Threads!Workers : LastOf(Len(events), w) \in {0, 1} /\ ~Stopping(w)
    BY DEF LastOf, Stopping
  <1>2. \A w \in Threads!Workers : SlotAt(Latest, LastOf(Len(events), w)) = Latest
    BY <1>1 DEF SlotAt
  <1> QED BY <1>1, <1>2 DEF ThreadsInv, WorkersInOrder, Latest
-----------------------------------------------------------------------------
(* The threads of the manager.                                             *)
(*                                                                         *)
(* Again the signals on their way are the end of a regular sequence, of    *)
(* one started and one finished in turn; the reader obeys the last one     *)
(* that was handled.                                                       *)

ManagerUp == managerPc \notin {"off", "starting"}

LatestSignal == IF ManagerUp THEN "started" ELSE "finished"

\* The j-th signal from the end of the sequence, when the last one is signal.
SignalAt(signal, j) == IF j % 2 = 0 THEN signal ELSE Other(signal)

\* Signals that the sessions so far have still to emit.
OwedSignals == IF managerPc = "starting" THEN 2 ELSE IF ManagerUp THEN 1 ELSE 0

SignalsInOrder ==
    \A k \in 1 .. Len(signals) : signals[k] = SignalAt(LatestSignal, Len(signals) - k)

\* A reader that was last told to start runs on; one that was last told to stop has
\* ended, or the GUI thread waits for it.
Obeys(signal) ==
    IF signal = "started"
    THEN /\ guiPc = "loop"
         /\ readerPc # "off"
         /\ readerPc = "entered" \/ readerRunning
    ELSE guiPc = "wait" \/ readerPc = "off"

ManagerTypeOK ==
    /\ starts \in 0 .. MaxSessions
    /\ managerPc \in {"off", "starting", "startup", "exec", "shutdown", "finishing"}
    /\ quitting \in BOOLEAN
    /\ scheduler \in BOOLEAN
    /\ scheduler <=> managerPc \in {"exec", "shutdown"}
    /\ signals \in Seq({"started", "finished"})
    /\ guiPc \in {"loop", "wait"}
    /\ readerPc \in {"off", "entered", "loop", "recv", "process"}
    /\ readerRunning \in BOOLEAN

ManagerInv ==
    /\ ManagerTypeOK
    /\ Len(signals) + OwedSignals <= 2 * starts
    /\ SignalsInOrder
    /\ Obeys(SignalAt(LatestSignal, Len(signals)))

LEMMA OtherSignal ==
    ASSUME NEW signal \in {"started", "finished"}, NEW j \in Nat
    PROVE  /\ Other(Other(signal)) = signal /\ Other(signal) \in {"started", "finished"}
           /\ SignalAt(signal, j) \in {"started", "finished"}
           /\ SignalAt(Other(signal), j + 1) = SignalAt(signal, j)
           /\ SignalAt(signal, j + 1) = Other(SignalAt(signal, j))
           /\ SignalAt(signal, 0) = signal
  <1>1. Other(Other(signal)) = signal /\ Other(signal) \in {"started", "finished"}
    BY DEF Other
  <1>2. (j + 1) % 2 = 0 <=> j % 2 # 0
    BY Period
  <1>3. 0 % 2 = 0
    OBVIOUS
  <1> QED BY <1>1, <1>2, <1>3, Zenon DEF SignalAt

LEMMA OneMore ==
    ASSUME NEW signal \in {"started", "finished"}, NEW j \in Nat
    PROVE  SignalAt(signal, j + 1) = SignalAt(Other(signal), j)
  <1>1. PICK o \in {"started", "finished"} : o = Other(signal) /\ Other(o) = signal
    BY OtherSignal
  <1>2. SignalAt(Other(o), j + 1) = SignalAt(o, j)
    BY OtherSignal
  <1> QED BY <1>1, <1>2

\* When the manager comes up or goes down and emits the signal, those before stay what
\* they are, and so does what the reader obeys.
LEMMA EmitsSignal ==
    ASSUME ManagerInv, NEW signal \in {"started", "finished"},
           signals' = Append(signals, signal), LatestSignal = Other(signal),
           LatestSignal' = signal
    PROVE  /\ SignalsInOrder'
           /\ signals' \in Seq({"started", "finished"}) /\ Len(signals') = Len(signals) + 1
           /\ SignalAt(LatestSignal', Len(signals')) = SignalAt(LatestSignal, Len(signals))
  <1> DEFINE n == Len(signals)
  <1>1. /\ signals \in Seq({"started", "finished"}) /\ n \in Nat
        /\ signals' \in Seq({"started", "finished"}) /\ Len(signals') = n + 1
        /\ \A k \in 1 .. n : signals'[k] = signals[k]
        /\ signals'[n + 1] = signal
    BY AppendProperties, LenProperties DEF ManagerInv, ManagerTypeOK
  <1>2. \A k \in 1 .. n : signals[k] = SignalAt(Other(signal), n - k)
    BY DEF ManagerInv, SignalsInOrder
  <1> HIDE DEF n
  <1>3. ASSUME NEW k \in 1 .. n + 1
        PROVE  signals'[k] = SignalAt(signal, (n + 1) - k)
    <2>1. CASE k = n + 1
      <3>1. (n + 1) - k = 0
        BY <1>1, <2>1
      <3> QED BY <1>1, <2>1, <3>1, OtherSignal, SMTT(30)
    <2>2. CASE k # n + 1
      <3>1. k \in 1 .. n /\ n - k \in Nat /\ (n + 1) - k = (n - k) + 1
        BY <1>1, <2>2
      <3>2. SignalAt(signal, (n - k) + 1) = SignalAt(Other(signal), n - k)
        BY <3>1, OneMore
      <3> QED BY <1>1, <1>2, <3>1, <3>2
    <2> QED BY <2>1, <2>2
  <1>4. SignalsInOrder'
    BY <1>1, <1>3 DEF SignalsInOrder
  <1>5. SignalAt(signal, n + 1) = SignalAt(Other(signal), n)
    BY <1>1, OneMore
  <1> QED BY <1>1, <1>4, <1>5 DEF n

\* The first signal on its way is the other one than the last that was handled.
LEMMA TakesSignal ==
    ASSUME ManagerInv, signals # <<>>, signals' = Tail(signals), UNCHANGED managerPc
    PROVE  /\ SignalsInOrder'
           /\ signals' \in Seq({"started", "finished"}) /\ Len(signals') = Len(signals) - 1
           /\ SignalAt(LatestSignal', Len(signals')) = Head(signals)
           /\ SignalAt(LatestSignal, Len(signals)) = Other(Head(signals))
  <1> DEFINE n == Len(signals) - 1
             l == LatestSignal
  <1>1. /\ n \in Nat /\ Len(signals) = n + 1
        /\ signals' \in Seq({"started", "finished"}) /\ Len(signals') = n
        /\ \A k \in 1 .. n : signals'[k] = signals[k + 1]
        /\ Head(signals) = signals[1]
    BY HeadTailProperties DEF ManagerInv, ManagerTypeOK
  <1>2. LatestSignal' = l /\ l \in {"started", "finished"}
    BY DEF LatestSignal, ManagerUp
  <1>3. \A k \in 1 .. n + 1 : signals[k] = SignalAt(l, (n + 1) - k)
    BY <1>1 DEF ManagerInv, SignalsInOrder
  <1> HIDE DEF n, l
  <1>4. ASSUME NEW k \in 1 .. n
        PROVE  signals'[k] = SignalAt(l, n - k)
    <2>1. k + 1 \in 1 .. n + 1 /\ (n + 1) - (k + 1) = n - k
      BY <1>1
    <2> QED BY <1>1, <1>3, <2>1
  <1>5. SignalsInOrder'
    BY <1>1, <1>2, <1>4 DEF SignalsInOrder
  <1>6. signals[1] = SignalAt(l, n)
    <2>1. 1 \in 1 .. n + 1 /\ (n + 1) - 1 = n
      BY <1>1
    <2> QED BY <1>3, <2>1
  <1>7. SignalAt(l, n + 1) = Other(SignalAt(l, n))
    BY <1>1, <1>2, OtherSignal
  <1> QED BY <1>1, <1>2, <1>5, <1>6, <1>7 DEF n, l

LEMMA ManagerInit == ASSUME Manager!DriverManagerAssumption, Manager!Init PROVE ManagerInv
  <1> USE DEF Manager!Init, Manager!DriverManagerAssumption
  <1>1. Len(signals) = 0 /\ signals \in Seq({"started", "finished"})
    OBVIOUS
  <1>2. LatestSignal = "finished" /\ OwedSignals = 0
    BY DEF LatestSignal, OwedSignals, ManagerUp
  <1>3. Obeys(SignalAt(LatestSignal, Len(signals)))
    BY <1>1, <1>2, OtherSignal DEF Obeys
  <1>4. SignalsInOrder
    BY <1>1 DEF SignalsInOrder
  <1>5. ManagerTypeOK
    <2>1. starts \in 0 .. MaxSessions
      OBVIOUS
    <2>2. scheduler \in BOOLEAN /\ (scheduler <=> managerPc \in {"exec", "shutdown"})
      OBVIOUS
    <2> QED BY <1>1, <2>1, <2>2, Zenon DEF ManagerTypeOK
  <1> QED BY <1>1, <1>2, <1>3, <1>4, <1>5 DEF ManagerInv

LEMMA ManagerStep ==
    ASSUME Manager!DriverManagerAssumption, ManagerInv, [Manager!Next]_managerVars
    PROVE  ManagerInv'
  <1> DEFINE last == SignalAt(LatestSignal, Len(signals))
  <1>0. /\ ManagerTypeOK /\ Len(signals) + OwedSignals <= 2 * starts /\ SignalsInOrder
        /\ Obeys(last) /\ Len(signals) \in Nat /\ MaxSessions \in Nat /\ starts \in Nat
    BY DEF ManagerInv, ManagerTypeOK, Manager!DriverManagerAssumption
  <1> HIDE DEF last
  <1>1. ASSUME UNCHANGED signals, UNCHANGED LatestSignal
        PROVE  SignalsInOrder' /\ last' = last
    BY <1>0, <1>1 DEF SignalsInOrder, last
  <1>2. CASE Manager!Start
    <2> USE <1>2 DEF Manager!Start, Manager!guiVars, Manager!readerVars
    <2>1. UNCHANGED LatestSignal /\ OwedSignals = 0 /\ OwedSignals' = 2
      BY DEF LatestSignal, OwedSignals, ManagerUp
    <2>2. SignalsInOrder' /\ last' = last /\ Obeys(last)'
      BY <1>0, <1>1, <2>1 DEF Obeys
    <2>3. ManagerTypeOK'
      <3>1. starts' \in 0 .. MaxSessions
        BY <1>0
      <3>2. scheduler' \in BOOLEAN /\ (scheduler' <=> managerPc' \in {"exec", "shutdown"})
        BY <1>0 DEF ManagerTypeOK
      <3>3. UNCHANGED <<signals, guiPc, readerPc, readerRunning>>
        OBVIOUS
      <3> QED BY <1>0, <3>1, <3>2, <3>3, Zenon DEF ManagerTypeOK
    <2>4. Len(signals') + OwedSignals' <= 2 * starts'
      BY <1>0, <2>1
    <2> QED BY <2>2, <2>3, <2>4 DEF ManagerInv, last
  <1>3. CASE Manager!Stop \/ Manager!ReaderJoined \/ Manager!Startup \/ Manager!SchedulerUpdate
             \/ Manager!SchedulerWatchdog \/ Manager!Exec \/ Manager!Shutdown \/ Manager!Silence
             \/ Manager!ReaderEnter \/ Manager!ReaderLoop \/ Manager!ReaderRecv
             \/ Manager!ReaderProcess \/ UNCHANGED managerVars
    <2> USE <1>3 DEF Manager!Stop, Manager!ReaderJoined, Manager!Startup, Manager!SchedulerUpdate,
             Manager!SchedulerWatchdog, Manager!Exec, Manager!Shutdown, Manager!Silence,
             Manager!ReaderEnter, Manager!ReaderLoop, Manager!ReaderRecv, Manager!ReaderProcess,
             Manager!managerVars, Manager!guiVars, Manager!readerVars, managerVars
    <2>1. UNCHANGED <<signals, starts, LatestSignal, OwedSignals>>
      BY DEF LatestSignal, OwedSignals, ManagerUp
    <2>2. SignalsInOrder' /\ last' = last
      BY <1>1, <2>1
    <2>3. ManagerTypeOK'
      <3>1. scheduler' \in BOOLEAN /\ (scheduler' <=> managerPc' \in {"exec", "shutdown"})
        <4>1. \/ UNCHANGED <<scheduler, managerPc>>
              \/ scheduler' = TRUE /\ managerPc' = "exec"
              \/ scheduler' = FALSE /\ managerPc' = "finishing"
              \/ UNCHANGED scheduler /\ managerPc = "exec" /\ managerPc' = "shutdown"
          OBVIOUS
        <4> HIDE DEF Manager!Stop, Manager!ReaderJoined, Manager!Startup, Manager!SchedulerUpdate,
             Manager!SchedulerWatchdog, Manager!Exec, Manager!Shutdown, Manager!Silence,
             Manager!ReaderEnter, Manager!ReaderLoop, Manager!ReaderRecv, Manager!ReaderProcess
        <4>2. scheduler \in BOOLEAN /\ (scheduler <=> managerPc \in {"exec", "shutdown"})
          BY <1>0 DEF ManagerTypeOK
        <4>3. CASE UNCHANGED <<scheduler, managerPc>>
          BY <4>2, <4>3
        <4>4. CASE scheduler' = TRUE /\ managerPc' = "exec"
          BY <4>4
        <4>5. CASE scheduler' = FALSE /\ managerPc' = "finishing"
          BY <4>5
        <4>6. CASE UNCHANGED scheduler /\ managerPc = "exec" /\ managerPc' = "shutdown"
          BY <4>2, <4>6
        <4> QED BY <4>1, <4>3, <4>4, <4>5, <4>6
      <3>2. UNCHANGED <<starts, signals>>
        BY <2>1
      <3>3. managerPc' \in {"off", "starting", "startup", "exec", "shutdown", "finishing"}
        <4>1. managerPc' = managerPc \/ managerPc' \in {"exec", "shutdown", "finishing"}
          OBVIOUS
        <4> HIDE DEF Manager!Stop, Manager!ReaderJoined, Manager!Startup, Manager!SchedulerUpdate,
             Manager!SchedulerWatchdog, Manager!Exec, Manager!Shutdown, Manager!Silence,
             Manager!ReaderEnter, Manager!ReaderLoop, Manager!ReaderRecv, Manager!ReaderProcess
        <4>2. managerPc \in {"off", "starting", "startup", "exec", "shutdown", "finishing"}
          BY <1>0 DEF ManagerTypeOK
        <4> QED BY <4>1, <4>2
      <3>4. quitting' \in BOOLEAN
        <4>1. quitting' = quitting \/ quitting' = TRUE
          OBVIOUS
        <4> HIDE DEF Manager!Stop, Manager!ReaderJoined, Manager!Startup, Manager!SchedulerUpdate,
             Manager!SchedulerWatchdog, Manager!Exec, Manager!Shutdown, Manager!Silence,
             Manager!ReaderEnter, Manager!ReaderLoop, Manager!ReaderRecv, Manager!ReaderProcess
        <4>2. quitting \in BOOLEAN
          BY <1>0 DEF ManagerTypeOK
        <4> QED BY <4>1, <4>2
      <3>5. guiPc' \in {"loop", "wait"}
        <4>1. guiPc' = guiPc \/ guiPc' = "loop"
          OBVIOUS
        <4> HIDE DEF Manager!Stop, Manager!ReaderJoined, Manager!Startup, Manager!SchedulerUpdate,
             Manager!SchedulerWatchdog, Manager!Exec, Manager!Shutdown, Manager!Silence,
             Manager!ReaderEnter, Manager!ReaderLoop, Manager!ReaderRecv, Manager!ReaderProcess
        <4>2. guiPc \in {"loop", "wait"}
          BY <1>0 DEF ManagerTypeOK
        <4> QED BY <4>1, <4>2
      <3>6. readerPc' \in {"off", "entered", "loop", "recv", "process"}
        <4>1. readerPc' = readerPc \/ readerPc' \in {"off", "loop", "recv", "process"}
          OBVIOUS
        <4> HIDE DEF Manager!Stop, Manager!ReaderJoined, Manager!Startup, Manager!SchedulerUpdate,
             Manager!SchedulerWatchdog, Manager!Exec, Manager!Shutdown, Manager!Silence,
             Manager!ReaderEnter, Manager!ReaderLoop, Manager!ReaderRecv, Manager!ReaderProcess
        <4>2. readerPc \in {"off", "entered", "loop", "recv", "process"}
          BY <1>0 DEF ManagerTypeOK
        <4> QED BY <4>1, <4>2
      <3>7. readerRunning' \in BOOLEAN
        <4>1. readerRunning' = readerRunning \/ readerRunning' = TRUE
          OBVIOUS
        <4> HIDE DEF Manager!Stop, Manager!ReaderJoined, Manager!Startup, Manager!SchedulerUpdate,
             Manager!SchedulerWatchdog, Manager!Exec, Manager!Shutdown, Manager!Silence,
             Manager!ReaderEnter, Manager!ReaderLoop, Manager!ReaderRecv, Manager!ReaderProcess
        <4>2. readerRunning \in BOOLEAN
          BY <1>0 DEF ManagerTypeOK
        <4> QED BY <4>1, <4>2
      <3> QED BY <1>0, <3>1, <3>2, <3>3, <3>4, <3>5, <3>6, <3>7, Zenon DEF ManagerTypeOK
    <2>4. CASE last = "started"
      <3>1. guiPc = "loop" /\ readerPc # "off" /\ (readerPc = "entered" \/ readerRunning)
        BY <1>0, <2>4 DEF Obeys
      <3>2. guiPc' = "loop" /\ readerPc' # "off" /\ (readerPc' = "entered" \/ readerRunning')
        BY <3>1
      <3> QED BY <1>0, <2>1, <2>2, <2>3, <2>4, <3>2 DEF ManagerInv, Obeys, last
    <2>5. CASE last # "started"
      <3>1. guiPc = "wait" \/ readerPc = "off"
        BY <1>0, <2>5 DEF Obeys
      <3>2. guiPc' = "wait" \/ readerPc' = "off"
        BY <3>1
      <3> QED BY <1>0, <2>1, <2>2, <2>3, <2>5, <3>2 DEF ManagerInv, Obeys, last
    <2> QED BY <2>4, <2>5
  <1>4. CASE Manager!ManagerStarted
    <2> USE <1>4 DEF Manager!ManagerStarted, Manager!readerVars
    <2>1. LatestSignal = Other("started") /\ LatestSignal' = "started"
          /\ OwedSignals = 2 /\ OwedSignals' = 1
      BY DEF LatestSignal, OwedSignals, ManagerUp, Other
    <2>2. /\ SignalsInOrder' /\ last' = last /\ Len(signals') = Len(signals) + 1
          /\ signals' \in Seq({"started", "finished"})
      BY <2>1, EmitsSignal DEF last
    <2>3. ManagerTypeOK' /\ Obeys(last)'
      BY <1>0, <2>2 DEF ManagerTypeOK, Obeys
    <2> QED BY <1>0, <2>1, <2>2, <2>3 DEF ManagerInv, last
  <1>5. CASE Manager!ManagerFinished
    <2> USE <1>5 DEF Manager!ManagerFinished, Manager!readerVars
    <2>1. LatestSignal = Other("finished") /\ LatestSignal' = "finished"
          /\ OwedSignals = 1 /\ OwedSignals' = 0
      BY DEF LatestSignal, OwedSignals, ManagerUp, Other
    <2>2. /\ SignalsInOrder' /\ last' = last /\ Len(signals') = Len(signals) + 1
          /\ signals' \in Seq({"started", "finished"})
      BY <2>1, EmitsSignal DEF last
    <2>3. ManagerTypeOK' /\ Obeys(last)'
      BY <1>0, <2>2 DEF ManagerTypeOK, Obeys
    <2> QED BY <1>0, <2>1, <2>2, <2>3 DEF ManagerInv, last
  <1>6. CASE Manager!ManagerThreadStarted
    <2> USE <1>6 DEF Manager!ManagerThreadStarted, Manager!managerVars
    <2>1. /\ SignalsInOrder' /\ Len(signals') = Len(signals) - 1
          /\ signals' \in Seq({"started", "finished"})
          /\ last' = "started" /\ last = Other("started")
      BY TakesSignal DEF last
    <2>2. readerPc = "off" /\ guiPc = "loop"
      BY <1>0, <2>1 DEF Obeys, Other
    <2>3. ManagerTypeOK' /\ Obeys(last)'
      BY <1>0, <2>1, <2>2 DEF ManagerTypeOK, Obeys
    <2>4. UNCHANGED OwedSignals /\ OwedSignals \in Nat
      BY DEF OwedSignals, ManagerUp
    <2> QED BY <1>0, <2>1, <2>3, <2>4 DEF ManagerInv, last
  <1>7. CASE Manager!ManagerThreadFinished
    <2> USE <1>7 DEF Manager!ManagerThreadFinished, Manager!managerVars
    <2>1. /\ SignalsInOrder' /\ Len(signals') = Len(signals) - 1
          /\ signals' \in Seq({"started", "finished"})
          /\ last' = "finished"
      BY TakesSignal DEF last
    <2>2. ManagerTypeOK' /\ Obeys(last)'
      BY <1>0, <2>1 DEF ManagerTypeOK, Obeys
    <2>3. UNCHANGED OwedSignals /\ OwedSignals \in Nat
      BY DEF OwedSignals, ManagerUp
    <2> QED BY <1>0, <2>1, <2>2, <2>3 DEF ManagerInv, last
  <1> QED BY <1>2, <1>3, <1>4, <1>5, <1>6, <1>7
          DEF Manager!Next, Manager!Gui, Manager!Manager, Manager!Reader

\* Once the GUI thread has handled the signals the reader runs exactly if the manager's
\* thread does.
LEMMA ReaderFollows == ManagerInv => Manager!ReaderFollowsManager
  <1> SUFFICES ASSUME ManagerInv, guiPc = "loop", signals = <<>>
               PROVE  readerPc # "off" <=> ManagerUp
    BY DEF Manager!ReaderFollowsManager, ManagerUp
  <1>1. Len(signals) = 0 /\ LatestSignal \in {"started", "finished"}
    BY DEF LatestSignal
  <1>2. Obeys(LatestSignal)
    BY <1>1, OtherSignal DEF ManagerInv
  <1> QED BY <1>2 DEF Obeys, LatestSignal
-----------------------------------------------------------------------------
(* The schedule list of the manager.                                       *)

\* The instance's operators are those of the modules it extends.
LEMMA SameOperators ==
    ASSUME NEW list, NEW S
    PROVE  /\ Manager!Range(list) = Range(list)
           /\ Manager!IsInjective(list) <=> IsInjective(list)
           /\ Manager!Only(list, S) = Only(list, S)
  <1>1. Manager!Range(list) = Range(list)
    BY DEF Manager!Range, Range
  <1>2. Manager!IsInjective(list) <=> IsInjective(list)
    BY DEF Manager!IsInjective, IsInjective
  <1>3. Manager!Only(list, S) = Only(list, S)
    BY Zenon DEF Manager!Only, Only
  <1> QED BY <1>1, <1>2, <1>3

\* removeAll takes every occurrence out and leaves the rest.
LEMMA WithoutIs ==
    ASSUME NEW list \in Seq(Variables), NEW S
    PROVE  /\ Manager!Without(list, S) \in Seq(Variables)
           /\ Range(Manager!Without(list, S)) = Range(list) \ S
           /\ IsInjective(list) => IsInjective(Manager!Without(list, S))
  <1>1. Manager!Without(list, S) = Only(list, Range(list) \ S)
    BY SameOperators, Zenon DEF Manager!Without
  <1>2. /\ Only(list, Range(list) \ S) \in Seq(Variables)
        /\ Range(Only(list, Range(list) \ S)) = Range(list) \ S
        /\ IsInjective(list) => IsInjective(Only(list, Range(list) \ S))
    BY OnlyOutside
  <1> QED BY <1>1, <1>2, Zenon

\* addScheduledVariable adds what is not there, and no script variable.
LEMMA EnqueueIs ==
    ASSUME NEW list \in Seq(Variables), NEW new \in Seq(Variables)
    PROVE  /\ Manager!Enqueue(list, new) \in Seq(Variables)
           /\ Range(Manager!Enqueue(list, new)) = Range(list) \cup (Range(new) \ ScriptVariables)
           /\ IsInjective(list) /\ IsInjective(new) => IsInjective(Manager!Enqueue(list, new))
           /\ Manager!NewlyConnected(list, new) \subseteq Range(new)
  <1> DEFINE N == Manager!NewlyConnected(list, new)
  <1>1. N = Range(new) \ (Range(list) \cup ScriptVariables)
    BY SameOperators DEF Manager!NewlyConnected, Manager!Schedulable
  <1>2. Manager!Enqueue(list, new) = list \o Only(new, N)
    BY SameOperators, Zenon DEF Manager!Enqueue
  <1> HIDE DEF N
  <1>3. /\ list \o Only(new, N) \in Seq(Variables)
        /\ Range(list \o Only(new, N)) = Range(list) \cup N
        /\ IsInjective(list) /\ IsInjective(new) => IsInjective(list \o Only(new, N))
    BY <1>1, Joined
  <1>4. Range(list) \cup N = Range(list) \cup (Range(new) \ ScriptVariables)
    BY <1>1
  <1>5. N = Manager!NewlyConnected(list, new)
    BY DEF N
  <1> QED BY <1>1, <1>2, <1>3, <1>4, <1>5

SchedTypeOK ==
    /\ scheduleList \in Seq(Variables)
    /\ Range(scheduleList) \cap ScriptVariables = {}
    /\ connected \subseteq Variables
    /\ message \in Modules
    /\ modules \subseteq Modules /\ silent \subseteq Modules
    /\ missed \subseteq modules
    /\ active \in [Modules -> BOOLEAN]

VariablesIn(S) == UNION {Range(Configured[m]) : m \in S}

\* The scheduler has the active modules, apart from those that were found while there
\* was none, and the list has the variables of its modules.
SchedInv ==
    /\ SchedTypeOK
    /\ schedModules \subseteq {m \in modules : active[m]}
    /\ Range(scheduleList) = VariablesIn(schedModules) \ ScriptVariables
    /\ IsInjective(scheduleList)
    /\ IF scheduler THEN \A m \in modules \ missed : active[m] => m \in schedModules
                    ELSE schedModules = {} /\ modules \subseteq missed

LEMMA Files ==
    ASSUME Manager!DriverManagerAssumption
    PROVE  /\ \A m \in Modules : /\ Configured[m] \in Seq(Variables)
                                  /\ Range(Configured[m]) \subseteq Variables
                                  /\ IsInjective(Configured[m])
           /\ \A m, n \in Modules : m # n => Range(Configured[m]) \cap Range(Configured[n]) = {}
           /\ \A S : Manager!VariablesOf(S) = VariablesIn(S)
  <1>1. \A m \in Modules : Configured[m] \in Seq(Variables)
    BY DEF Manager!DriverManagerAssumption
  <1>2. \A m \in Modules : Range(Configured[m]) \subseteq Variables
    BY <1>1, InRange
  <1>3. \A m \in Modules : IsInjective(Configured[m])
    BY SameOperators DEF Manager!DriverManagerAssumption
  <1>4. \A m, n \in Modules : m # n => Range(Configured[m]) \cap Range(Configured[n]) = {}
    BY SameOperators DEF Manager!DriverManagerAssumption
  <1>5. \A S : Manager!VariablesOf(S) = VariablesIn(S)
    BY DEF Manager!VariablesOf, VariablesIn, Manager!Range, Range
  <1> QED BY <1>1, <1>2, <1>3, <1>4, <1>5

LEMMA SchedInvInit == ASSUME Manager!Init PROVE SchedInv
  <1> USE DEF Manager!Init, Manager!SchedInit
  <1>1. scheduleList \in Seq(Variables) /\ Range(scheduleList) = {} /\ IsInjective(scheduleList)
    BY RangeEmpty DEF IsInjective
  <1> QED BY <1>1 DEF SchedInv, SchedTypeOK, VariablesIn

\* process: a module that the scheduler does not have is found.
LEMMA FoundKeeps ==
    ASSUME Manager!DriverManagerAssumption, SchedInv, scheduler \in BOOLEAN,
           NEW m \in Modules, ~(m \in modules /\ active[m]),
           Manager!Found(m), modules' = modules \cup {m},
           silent' = silent \ {m}, UNCHANGED <<message, scheduler>>
    PROVE  SchedInv'
  <1> USE DEF SchedInv
  <1>1. /\ Configured[m] \in Seq(Variables) /\ IsInjective(Configured[m])
        /\ Range(Configured[m]) \subseteq Variables
    BY Files
  <1>2. /\ active' = [active EXCEPT ![m] = TRUE]
        /\ active' \in [Modules -> BOOLEAN] /\ active'[m]
        /\ \A n \in Modules \ {m} : active'[n] <=> active[n]
        /\ modules \subseteq Modules /\ m \notin schedModules
    BY DEF Manager!Found, SchedTypeOK
  <1>3. CASE scheduler
    <2>1. /\ scheduleList' = Manager!Enqueue(scheduleList, Configured[m])
          /\ connected' = connected \cup Manager!NewlyConnected(scheduleList, Configured[m])
          /\ schedModules' = schedModules \cup {m}
          /\ missed' = missed \ {m}
      BY <1>2, <1>3 DEF Manager!Found, Manager!SchedAddModule, Manager!AddScheduled
    <2>2. /\ scheduleList' \in Seq(Variables) /\ IsInjective(scheduleList')
          /\ Range(scheduleList')
                = Range(scheduleList) \cup (Range(Configured[m]) \ ScriptVariables)
          /\ connected' \subseteq Variables
      BY <1>1, <2>1, EnqueueIs DEF SchedTypeOK
    <2>3. VariablesIn(schedModules') = VariablesIn(schedModules) \cup Range(Configured[m])
      BY <2>1 DEF VariablesIn
    <2>4. SchedTypeOK'
      BY <1>2, <2>1, <2>2 DEF SchedTypeOK
    <2>5. schedModules' \subseteq {n \in modules' : active'[n]}
      BY <1>2, <2>1
    <2>6. \A n \in modules' \ missed' : active'[n] => n \in schedModules'
      BY <1>2, <1>3, <2>1
    <2> QED BY <1>3, <2>2, <2>3, <2>4, <2>5, <2>6
  <1>4. CASE ~scheduler
    <2>1. UNCHANGED <<scheduleList, schedModules, connected>> /\ missed' = missed \cup {m}
      BY <1>4 DEF Manager!Found, Manager!schedVars
    <2>2. SchedTypeOK'
      BY <1>2, <2>1 DEF SchedTypeOK
    <2> QED BY <1>2, <1>4, <2>1, <2>2
  <1> QED BY <1>3, <1>4

LEMMA SilentKeeps ==
    ASSUME Manager!DriverManagerAssumption, SchedInv, Manager!SchedulerWatchdog
    PROVE  SchedInv'
  <1> USE DEF SchedInv
  <1> DEFINE stale == modules \cap silent
             R == VariablesIn(stale)
  <1>1. /\ UNCHANGED <<modules, silent, missed, scheduler, message>>
        /\ active' = [m \in Modules |-> active[m] /\ m \notin stale]
        /\ scheduleList' = Manager!Without(scheduleList, R)
        /\ connected' \subseteq connected
        /\ schedModules' = schedModules \ stale
    BY Files DEF Manager!SchedulerWatchdog, Manager!SchedRemoveModules, Manager!managerVars,
                 Manager!guiVars, Manager!readerVars
  <1>2. /\ scheduleList' \in Seq(Variables) /\ IsInjective(scheduleList')
        /\ Range(scheduleList') = Range(scheduleList) \ R
    BY <1>1, WithoutIs DEF SchedTypeOK
  <1>3. stale \subseteq Modules /\ modules \subseteq Modules /\ schedModules \subseteq Modules
    BY DEF SchedTypeOK
  <1>4. VariablesIn(schedModules \ stale) = VariablesIn(schedModules) \ R
    <2>1. /\ \A x, S : x \in VariablesIn(S) <=> \E m \in S : x \in Range(Configured[m])
          /\ R = VariablesIn(stale)
      BY DEF VariablesIn
    <2>2. \A m \in schedModules \ stale, n \in stale :
             Range(Configured[m]) \cap Range(Configured[n]) = {}
      BY <1>3, Files
    <2> HIDE DEF R, stale
    <2>3. ASSUME NEW x
          PROVE  x \in VariablesIn(schedModules \ stale) <=> x \in VariablesIn(schedModules) \ R
      <3>1. ASSUME NEW m \in schedModules \ stale, x \in Range(Configured[m])
            PROVE  x \in VariablesIn(schedModules) /\ x \notin R
        BY <2>1, <2>2, <3>1
      <3>2. ASSUME NEW m \in schedModules, x \in Range(Configured[m]), x \notin R
            PROVE  x \in VariablesIn(schedModules \ stale)
        BY <2>1, <3>2
      <3> QED BY <2>1, <3>1, <3>2
    <2> QED BY <2>3
  <1>5. /\ active' \in [Modules -> BOOLEAN]
        /\ \A m \in Modules : active'[m] <=> active[m] /\ m \notin stale
    BY <1>1 DEF SchedTypeOK
  <1> HIDE DEF R, stale
  <1>6. SchedTypeOK'
    BY <1>1, <1>2, <1>5 DEF SchedTypeOK
  <1> QED BY <1>1, <1>2, <1>3, <1>4, <1>5, <1>6

LEMMA RoundKeeps ==
    ASSUME SchedInv, scheduleList # <<>>, Manager!NextRound(Variables),
           UNCHANGED <<schedModules, connected, message, modules, silent, missed, active, scheduler>>
    PROVE  SchedInv'
  <1> USE DEF SchedInv
  <1> DEFINE v == Head(scheduleList)
             rest == Tail(scheduleList)
  <1>1. /\ v \in Variables /\ rest \in Seq(Variables)
        /\ Range(scheduleList) = {v} \cup Range(rest)
        /\ IsInjective(rest) /\ v \notin Range(rest)
    BY HeadAndTail DEF SchedTypeOK
  <1>2. scheduleList' = Append(rest, v)
    BY <1>1 DEF Manager!NextRound
  <1> HIDE DEF v, rest
  <1>3. /\ Append(rest, v) \in Seq(Variables) /\ IsInjective(Append(rest, v))
        /\ Range(Append(rest, v)) = {v} \cup Range(rest)
    BY <1>1, RangeAppend, InjectiveAppend, AppendProperties
  <1>4. scheduleList' \in Seq(Variables) /\ IsInjective(scheduleList')
        /\ Range(scheduleList') = Range(scheduleList)
    BY <1>1, <1>2, <1>3
  <1> QED BY <1>4 DEF SchedTypeOK, VariablesIn

LEMMA SchedInvStep ==
    ASSUME Manager!DriverManagerAssumption, ManagerInv, SchedInv, [Manager!Next]_managerVars
    PROVE  SchedInv'
  <1>0. scheduler \in BOOLEAN /\ (scheduler <=> managerPc \in {"exec", "shutdown"})
    BY DEF ManagerInv, ManagerTypeOK
  <1>1. CASE Manager!SchedulerUpdate
    <2>1. /\ scheduleList # <<>> /\ Manager!NextRound(Variables)
          /\ UNCHANGED <<schedModules, connected, message, modules, silent, missed, active, scheduler>>
      BY <1>1 DEF Manager!SchedulerUpdate, Manager!managerVars, Manager!readerVars,
                  Manager!moduleVars
    <2> QED BY <2>1, RoundKeeps
  <1>2. CASE Manager!SchedulerWatchdog
    BY <1>2, SilentKeeps
  <1>3. CASE Manager!Startup
    <2>1. /\ ~scheduler /\ scheduler' = TRUE
          /\ UNCHANGED <<scheduleList, schedModules, connected, message, modules, silent, missed,
                         active>>
      BY <1>0, <1>3 DEF Manager!Startup, Manager!schedVars, Manager!readerVars, Manager!moduleVars
    <2>2. SchedTypeOK'
      BY <2>1 DEF SchedInv, SchedTypeOK
    <2> QED BY <2>1, <2>2 DEF SchedInv, VariablesIn
  <1>4. CASE Manager!Shutdown
    <2> USE <1>4 DEF Manager!Shutdown, Manager!readerVars
    <2>1. scheduleList' \in Seq(Variables) /\ Range(scheduleList') = {} /\ IsInjective(scheduleList')
      BY RangeEmpty DEF IsInjective
    <2>2. SchedTypeOK' /\ scheduler' = FALSE
      BY <2>1 DEF SchedInv, SchedTypeOK
    <2> QED BY <2>1, <2>2 DEF SchedInv, VariablesIn
  <1>5. CASE Manager!ReaderProcess
    <2>1. message \in Modules
      BY DEF SchedInv, SchedTypeOK
    <2>2. CASE message \in modules /\ active[message]
      <3>1. /\ UNCHANGED <<scheduleList, schedModules, connected, active, missed, scheduler, message>>
            /\ silent' = silent \ {message} /\ modules' = modules
        BY <1>5, <2>2 DEF Manager!ReaderProcess, Manager!schedVars, Manager!managerVars
      <3>2. SchedTypeOK'
        BY <3>1 DEF SchedInv, SchedTypeOK
      <3> QED BY <3>1, <3>2 DEF SchedInv, VariablesIn
    <2>3. CASE ~(message \in modules /\ active[message])
      <3>1. /\ Manager!Found(message) /\ modules' = modules \cup {message}
            /\ silent' = silent \ {message} /\ UNCHANGED <<message, scheduler>>
        BY <1>5, <2>3 DEF Manager!ReaderProcess, Manager!managerVars
      <3> QED BY <1>0, <2>1, <2>3, <3>1, FoundKeeps
    <2> QED BY <2>2, <2>3
  <1>6. CASE Manager!ReaderRecv \/ Manager!Silence
    <2>1. /\ UNCHANGED <<scheduleList, schedModules, connected, active, missed, scheduler, modules>>
          /\ silent' \subseteq silent \cup modules /\ message' \in Modules
      BY <1>6 DEF Manager!ReaderRecv, Manager!Silence, Manager!schedVars, Manager!managerVars,
                  Manager!readerVars, Manager!moduleVars, SchedInv, SchedTypeOK
    <2>2. SchedTypeOK'
      BY <2>1 DEF SchedInv, SchedTypeOK
    <2> QED BY <2>1, <2>2 DEF SchedInv, VariablesIn
  <1>7. CASE Manager!Gui \/ Manager!ManagerStarted \/ Manager!Exec \/ Manager!ManagerFinished
             \/ Manager!ReaderEnter \/ Manager!ReaderLoop \/ UNCHANGED managerVars
    <2>1. UNCHANGED <<scheduleList, schedModules, connected, active, missed, scheduler, modules,
                      silent, message>>
      BY <1>7 DEF Manager!Gui, Manager!Start, Manager!Stop, Manager!ManagerThreadStarted,
           Manager!ManagerThreadFinished, Manager!ReaderJoined, Manager!ManagerStarted,
           Manager!Exec, Manager!ManagerFinished, Manager!ReaderEnter, Manager!ReaderLoop,
           Manager!schedVars, Manager!managerVars, Manager!readerVars, Manager!moduleVars,
           Manager!guiVars, managerVars
    <2>2. SchedTypeOK'
      BY <2>1 DEF SchedInv, SchedTypeOK
    <2> QED BY <2>1, <2>2 DEF SchedInv, VariablesIn
  <1> QED BY <1>1, <1>2, <1>3, <1>4, <1>5, <1>6, <1>7
          DEF Manager!Next, Manager!Manager, Manager!Reader

\* What is in the list belongs to active modules and is there once; nothing of a module
\* that the scheduler heard of is missing.
LEMMA ListExact ==
    ASSUME Manager!DriverManagerAssumption, SchedInv, scheduler \in BOOLEAN
    PROVE  Manager!ScheduleSound /\ Manager!ActiveScheduled
  <1> USE DEF SchedInv
  <1>1. Manager!ScheduleSound
    BY SameOperators, Files DEF Manager!ScheduleSound
  <1>2. ASSUME scheduler, NEW m \in modules \ missed, active[m]
        PROVE  Range(Configured[m]) \ ScriptVariables \subseteq Range(scheduleList)
    BY <1>2 DEF VariablesIn
  <1>3. Manager!ActiveScheduled
    BY <1>2, SameOperators DEF Manager!ActiveScheduled
  <1> QED BY <1>1, <1>3

LEMMA ManagerTypes ==
    ASSUME Manager!DriverManagerAssumption, ManagerInv, SchedInv PROVE Manager!TypeOK
  <1>1. scheduleList \in Seq(Variables \ ScriptVariables)
    <2>1. /\ scheduleList \in Seq(Variables)
          /\ \A i \in 1 .. Len(scheduleList) : scheduleList[i] \in Range(scheduleList)
      BY InRange DEF SchedInv, SchedTypeOK
    <2>2. \A i \in 1 .. Len(scheduleList) : scheduleList[i] \in Variables \ ScriptVariables
      BY <2>1, ElementOfSeq DEF SchedInv, SchedTypeOK
    <2> QED BY <2>1, <2>2
  <1>2. schedModules \subseteq Modules
    BY DEF SchedInv, SchedTypeOK
  <1>3. Len(signals) <= 2 * starts
    BY DEF ManagerInv, ManagerTypeOK, OwedSignals
  <1> QED BY <1>1, <1>2, <1>3, Zenon
          DEF Manager!TypeOK, ManagerInv, ManagerTypeOK, SchedInv, SchedTypeOK
-----------------------------------------------------------------------------
(* The theorems.                                                           *)

DriverInv == ThreadsInv /\ ManagerInv /\ SchedInv

LEMMA DriverInvInit == DriverInit => DriverInv
  BY MCAssumption, InitThreads, ManagerInit, SchedInvInit DEF DriverInit, DriverInv

LEMMA DriverInvStep == DriverInv /\ [DriverNext]_driverVars => DriverInv'
  <1> SUFFICES ASSUME DriverInv, [DriverNext]_driverVars PROVE DriverInv'
    OBVIOUS
  <1>1. [Threads!Next]_threadVars /\ [Manager!Next]_managerVars
    BY DEF DriverNext, driverVars
  <1> QED BY <1>1, MCAssumption, StepThreads, ManagerStep, SchedInvStep DEF DriverInv

\* CoreDriver and NETVDriverManager: once all signals are handled both workers run
\* exactly if the driver's thread is up, and the reader exactly if the manager's is,
\* for any number of starts and stops at any time.
THEOREM Followed == DriverSpec => []ThreadsFollow
  <1>1. DriverInv => ThreadsFollow
    <2>1. ThreadsInv => Threads!TypeOK
      BY DEF ThreadsInv
    <2> QED BY <2>1, MCAssumption, Follow, ReaderFollows, ManagerTypes DEF DriverInv, ThreadsFollow
  <1> QED BY <1>1, DriverInvInit, DriverInvStep, PTL DEF DriverSpec

\* NETVScheduler: the schedule list has the variables of active modules, each once,
\* and all of those of the modules that were found while the scheduler existed,
\* wherever starts, stops, answers and silences of any modules fall.
THEOREM Scheduled == DriverSpec => []ScheduleExact
  <1>1. DriverInv => ScheduleExact
    <2> SUFFICES ASSUME DriverInv PROVE ScheduleExact
      OBVIOUS
    <2>1. scheduler \in BOOLEAN
      BY DEF DriverInv, ManagerInv, ManagerTypeOK
    <2> QED BY <2>1, MCAssumption, ListExact DEF DriverInv, ScheduleExact
  <1> QED BY <1>1, DriverInvInit, DriverInvStep, PTL DEF DriverSpec
=============================================================================
