----------------------- MODULE InterfaceHandler_proofs -----------------------
(***************************************************************************)
(* Theorems about InterfaceHandler, for every set of producers and         *)
(* observers, every device behaviour and every bound.                      *)
(***************************************************************************)
EXTENDS InterfaceHandler, FiniteSetTheorems, SequenceLemmas

SendTypeOK ==
    /\ running \in BOOLEAN
    /\ msgQueue \in Seq(Nat)
    /\ listSemaphore \in Nat
    /\ releasing \in SUBSET Producers
    /\ pushed \in Nat
    /\ wire \in Seq(Nat)
    /\ sendPc \in {"loop", "acquire", "lock", "critical", "device", "unlock", "finished"}
    /\ dtorPc \in {"alive", "wakeSend", "joinSend", "wakeRecv", "joinRecv", "deleted"}

\* The send thread calls the device with a message in the queue, and the
\* destructor has cleared m_running, exactly, when it runs.
ControlInv ==
    /\ sendPc = "device" => msgQueue # <<>>
    /\ running <=> dtorPc = "alive"
    /\ dtorPc # "alive" => releasing = {}
    /\ sendPc = "finished" => dtorPc # "alive"

SendInv == SendTypeOK /\ ControlInv /\ FifoInv

\* The destructor goes past a join only when that thread has ended.
JoinInv ==
    /\ dtorPc \in {"wakeRecv", "joinRecv", "deleted"} => sendPc = "finished"
    /\ dtorPc = "deleted" => recvPc = "finished"

\* Numbers of permits and producers are naturals.
LEMMA ReleasingFinite ==
    ASSUME releasing \in SUBSET Producers
    PROVE  IsFiniteSet(releasing) /\ Cardinality(releasing) \in Nat
  BY HandlerAssumption, FS_Subset, FS_CardinalityType

\* Steps that leave the send side alone.
SendUnchanged == UNCHANGED <<running, sendVars, dtorPc>>

LEMMA RecvSideSteps ==
    ASSUME RecvThread \/ (\E o \in Observers : Register(o) \/ Unregister(o))
    PROVE  SendUnchanged
  BY DEF RecvThread, RecvLoop, RecvMessage, RecvNothing, NotifyLock, NotifyOne, NotifyUnlock,
         Register, Unregister, SendUnchanged
-----------------------------------------------------------------------------
LEMMA SendInvInit == Init => SendInv
  <1> SUFFICES ASSUME Init PROVE SendInv
    OBVIOUS
  <1>1. msgQueue = <<>> /\ wire = <<>> /\ pushed = 0
    BY DEF Init
  <1>2. Len(msgQueue) = 0 /\ Len(wire) = 0
    BY <1>1
  <1>3. FifoInv
    BY <1>1, <1>2, NumberedEmpty DEF FifoInv
  <1>4. SendTypeOK /\ ControlInv
    BY <1>1 DEF Init, SendTypeOK, ControlInv
  <1> QED BY <1>3, <1>4 DEF SendInv

LEMMA SendInvStep == SendInv /\ [Next]_vars => SendInv'
  <1> SUFFICES ASSUME SendInv, [Next]_vars
               PROVE  SendInv'
    OBVIOUS
  <1> USE DEF SendInv
  <1>1. ASSUME NEW p \in Producers, Push(p)
        PROVE  SendInv'
    <2>1. /\ Len(msgQueue) \in Nat /\ Len(wire) \in Nat
          /\ pushed + 1 = Len(wire) + Len(msgQueue) + 1
      BY DEF SendTypeOK, FifoInv
    <2>2. FifoInv'
      <3>1. Numbered(Append(msgQueue, pushed + 1), Len(wire))
        BY <2>1, NumberedAppend DEF SendTypeOK, FifoInv
      <3>2. Len(Append(msgQueue, pushed + 1)) = Len(msgQueue) + 1
        BY DEF SendTypeOK
      <3> QED BY <1>1, <2>1, <3>1, <3>2 DEF FifoInv, Push, SendTypeOK
    <2>3. SendTypeOK' /\ ControlInv'
      BY <1>1 DEF Push, SendTypeOK, ControlInv, ListLocked
    <2> QED BY <2>2, <2>3
  <1>2. ASSUME NEW p \in Producers, PushRelease(p)
        PROVE  SendInv'
    BY <1>2 DEF PushRelease, SendTypeOK, ControlInv, FifoInv
  <1>3. CASE SendLoop
    BY <1>3 DEF SendLoop, SendTypeOK, ControlInv, FifoInv
  <1>4. CASE SendAcquire
    BY <1>4 DEF SendAcquire, SendTypeOK, ControlInv, FifoInv
  <1>5. CASE SendLock
    BY <1>5 DEF SendLock, SendTypeOK, ControlInv, FifoInv
  <1>6. CASE SendCheck
    BY <1>6 DEF SendCheck, SendTypeOK, ControlInv, FifoInv
  <1>7. ASSUME NEW r \in SendResults, DeviceSend(r)
        PROVE  SendInv'
    <2>1. CASE r = "OK"
      <3>1. /\ wire' = Append(wire, Head(msgQueue))
            /\ msgQueue' = Tail(msgQueue)
            /\ pushed' = pushed
            /\ msgQueue # <<>>
        BY <1>7, <2>1 DEF DeviceSend, Reliable, ControlInv
      <3>2. /\ Head(msgQueue) = Len(wire) + 1
            /\ Tail(msgQueue) \in Seq(Nat)
            /\ Len(Tail(msgQueue)) = Len(msgQueue) - 1
            /\ Numbered(Tail(msgQueue), Len(wire) + 1)
        BY <3>1, NumberedTail DEF SendTypeOK, FifoInv
      <3>3. /\ Numbered(Append(wire, Len(wire) + 1), 0)
            /\ Len(Append(wire, Len(wire) + 1)) = Len(wire) + 1
            /\ Append(wire, Len(wire) + 1) \in Seq(Nat)
        BY NumberedAppend DEF SendTypeOK, FifoInv
      <3>5. FifoInv'
        <4>1. wire' = Append(wire, Len(wire) + 1) /\ Len(wire) \in Nat /\ Len(msgQueue) \in Nat
              /\ pushed = Len(wire) + Len(msgQueue)
          BY <3>1, <3>2 DEF FifoInv, SendTypeOK
        <4>2. Len(wire') + Len(msgQueue') = pushed'
          BY <3>1, <3>2, <3>3, <4>1
        <4> QED BY <3>1, <3>2, <3>3, <4>1, <4>2 DEF FifoInv
      <3>4. SendTypeOK' /\ ControlInv'
        <4>1. wire' = Append(wire, Len(wire) + 1)
          BY <3>1, <3>2
        <4>2. wire' \in Seq(Nat) /\ msgQueue' \in Seq(Nat)
          BY <3>1, <3>2, <3>3, <4>1
        <4>3. UNCHANGED <<running, releasing, pushed, dtorPc, listSemaphore>> /\ sendPc' = "unlock"
          BY <1>7, <2>1 DEF DeviceSend, Reliable
        <4> QED BY <4>2, <4>3 DEF SendTypeOK, ControlInv
      <3> QED BY <3>4, <3>5
    <2>2. CASE r # "OK"
      BY <1>7, <2>2, SMTT(30) DEF DeviceSend, SendTypeOK, ControlInv, FifoInv
    <2> QED BY <2>1, <2>2
  <1>8. CASE SendUnlock
    BY <1>8 DEF SendUnlock, SendTypeOK, ControlInv, FifoInv
  <1>9. CASE SendUnchanged
    BY <1>9 DEF SendUnchanged, sendVars, SendTypeOK, ControlInv, FifoInv
  <1>10. CASE DtorStop
    BY <1>10 DEF DtorStop, sendVars, SendTypeOK, ControlInv, FifoInv
  <1>11. CASE Destructor
    BY <1>11 DEF Destructor, DtorWakeSend, DtorJoinSend, DtorWakeRecv, DtorJoinRecv, sendVars,
                 SendTypeOK, ControlInv, FifoInv
  <1>12. CASE Deleted \/ UNCHANGED vars
    BY <1>12, <1>9 DEF Deleted, vars, SendUnchanged
  <1> QED
    BY <1>1, <1>2, <1>3, <1>4, <1>5, <1>6, <1>7, <1>8, <1>9, <1>10, <1>11, <1>12, RecvSideSteps
    DEF Next, SendThread

\* Whatever the device answers, what it was given is exactly the first messages
\* pushed, in order, each once; the rest waits in the queue.
THEOREM Fifo == Spec => []FifoInv
  <1>1. SendInv => FifoInv
    BY DEF SendInv
  <1> QED
    BY <1>1, SendInvInit, SendInvStep, PTL DEF Spec

\* The handler implements the FIFO outbox: each step of its threads accepts a
\* message, delivers the oldest one, or is invisible.
THEOREM ImplementsOutbox == Spec => OutboxSpec
  <1>1. Init => Out!Init
    BY DEF Init, Out!Init
  <1>2. SendInv /\ [Next]_vars => [Out!Next]_(Out!vars)
    <2> SUFFICES ASSUME SendInv, [Next]_vars
                 PROVE  Out!Next \/ UNCHANGED <<pushed, wire>>
      BY DEF Out!vars
    <2>1. ASSUME NEW p \in Producers, Push(p)
          PROVE  Out!Next
      BY <2>1 DEF Push, Out!Next, Out!Accept
    <2>2. ASSUME NEW r \in SendResults, DeviceSend(r), r = "OK"
          PROVE  Out!Next
      <3>1. /\ msgQueue # <<>>
            /\ Head(msgQueue) = msgQueue[1]
            /\ Len(msgQueue) \in Nat \ {0}
        BY <2>2 DEF DeviceSend, SendInv, ControlInv, SendTypeOK
      <3>2. Head(msgQueue) = Len(wire) + 1 /\ Len(wire) < pushed
        BY <3>1, NumberedTail DEF SendInv, FifoInv, SendTypeOK
      <3> QED
        BY <2>2, <3>2 DEF DeviceSend, Reliable, Out!Next, Out!Deliver
    <2>3. ASSUME NEW r \in SendResults, DeviceSend(r), r # "OK"
          PROVE  UNCHANGED <<pushed, wire>>
      BY <2>3 DEF DeviceSend
    <2>4. ASSUME NEW p \in Producers, PushRelease(p)
          PROVE  UNCHANGED <<pushed, wire>>
      BY <2>4 DEF PushRelease
    <2>5. CASE SendLoop \/ SendAcquire \/ SendLock \/ SendCheck \/ SendUnlock
      BY <2>5 DEF SendLoop, SendAcquire, SendLock, SendCheck, SendUnlock
    <2>6. CASE SendUnchanged
      BY <2>6 DEF SendUnchanged, sendVars
    <2>7. CASE DtorStop \/ Destructor \/ Deleted \/ UNCHANGED vars
      BY <2>7 DEF DtorStop, Destructor, DtorWakeSend, DtorJoinSend, DtorWakeRecv, DtorJoinRecv,
                  Deleted, vars, sendVars
    <2> QED
      BY <2>1, <2>2, <2>3, <2>4, <2>5, <2>6, <2>7, RecvSideSteps DEF Next, SendThread
  <1> QED
    BY <1>1, <1>2, SendInvInit, SendInvStep, PTL DEF Spec, OutboxSpec, Out!Spec
-----------------------------------------------------------------------------
(* Permits.                                                                *)

LEMMA PermitsStep == SendInv /\ PermitsInv /\ [Next]_vars => PermitsInv'
  <1> SUFFICES ASSUME SendInv, PermitsInv, [Next]_vars, dtorPc' = "alive"
               PROVE  PermitsInv'
    BY DEF PermitsInv
  <1> USE DEF SendInv
  <1>0. /\ IsFiniteSet(releasing) /\ Cardinality(releasing) \in Nat
        /\ listSemaphore \in Nat /\ Len(msgQueue) \in Nat
    BY ReleasingFinite DEF SendTypeOK
  <1>a. ASSUME dtorPc = "alive"
        PROVE  /\ listSemaphore + Cardinality(releasing) + Held <= Len(msgQueue)
               /\ SendResults \subseteq Reliable =>
                    listSemaphore + Cardinality(releasing) + Held = Len(msgQueue)
    BY <1>a DEF PermitsInv
  <1>1. ASSUME NEW p \in Producers, Push(p)
        PROVE  PermitsInv'
    <2>1. Cardinality(releasing') = Cardinality(releasing) + 1
      BY <1>0, <1>1, FS_AddElement DEF Push
    <2>2. Len(msgQueue') = Len(msgQueue) + 1 /\ listSemaphore' = listSemaphore
          /\ dtorPc = "alive" /\ sendPc' = sendPc
      BY <1>1 DEF Push, SendTypeOK
    <2> QED BY <1>0, <1>a, <2>1, <2>2 DEF PermitsInv, Held
  <1>2. ASSUME NEW p \in Producers, PushRelease(p)
        PROVE  PermitsInv'
    <2>1. Cardinality(releasing') = Cardinality(releasing) - 1
      BY <1>0, <1>2, FS_RemoveElement DEF PushRelease
    <2>2. msgQueue' = msgQueue /\ listSemaphore' = listSemaphore + 1
          /\ dtorPc' = dtorPc /\ sendPc' = sendPc
      BY <1>2 DEF PushRelease
    <2> QED BY <1>0, <1>a, <2>1, <2>2 DEF PermitsInv, Held
  <1>3. CASE SendLoop
    BY <1>0, <1>3, <1>a DEF SendLoop, PermitsInv, Held
  <1>4. CASE SendAcquire
    BY <1>0, <1>4, <1>a DEF SendAcquire, PermitsInv, Held
  <1>5. CASE SendLock
    BY <1>0, <1>5, <1>a DEF SendLock, PermitsInv, Held
  <1>6. CASE SendCheck
    <2>1. dtorPc = "alive" /\ running = TRUE
      BY <1>6 DEF SendCheck, ControlInv
    <2>2. msgQueue # <<>>
      <3> SUFFICES ASSUME msgQueue = <<>> PROVE FALSE
        OBVIOUS
      <3>1. Len(msgQueue) = 0 /\ Held = 1
        BY <1>6 DEF SendCheck, Held
      <3> QED BY <1>0, <1>a, <2>1, <3>1
    <2>3. sendPc' = "device" /\ UNCHANGED <<msgQueue, listSemaphore, releasing, dtorPc>>
          /\ sendPc = "critical"
      BY <1>6, <2>1, <2>2 DEF SendCheck
    <2> QED BY <1>0, <1>a, <2>3 DEF PermitsInv, Held
  <1>7. ASSUME NEW r \in SendResults, DeviceSend(r)
        PROVE  PermitsInv'
    <2>0. sendPc = "device" /\ sendPc' = "unlock" /\ dtorPc = "alive" /\ releasing' = releasing
          /\ Held = 1 /\ Held' = 0
      BY <1>7 DEF DeviceSend, Held
    <2>1. CASE r = "OK"
      <3>1. Len(msgQueue') = Len(msgQueue) - 1 /\ listSemaphore' = listSemaphore
        BY <1>7, <2>1 DEF DeviceSend, Reliable, SendTypeOK, ControlInv
      <3> QED BY <1>0, <1>a, <2>0, <3>1 DEF PermitsInv
    <2>2. CASE r = "OVERFLOW"
      <3>1. msgQueue' = msgQueue /\ listSemaphore' = listSemaphore + 1
        BY <1>7, <2>2 DEF DeviceSend, Reliable
      <3> QED BY <1>0, <1>a, <2>0, <3>1 DEF PermitsInv
    <2>3. CASE r \notin Reliable
      <3>1. msgQueue' = msgQueue /\ listSemaphore' = listSemaphore
        BY <1>7, <2>3 DEF DeviceSend, Reliable
      <3>2. ~(SendResults \subseteq Reliable)
        BY <2>3
      <3> QED BY <1>0, <1>a, <2>0, <3>1, <3>2 DEF PermitsInv
    <2> QED BY <2>1, <2>2, <2>3 DEF Reliable
  <1>8. CASE SendUnlock
    BY <1>0, <1>8, <1>a DEF SendUnlock, PermitsInv, Held
  <1>9. CASE SendUnchanged
    BY <1>0, <1>9, <1>a DEF SendUnchanged, sendVars, PermitsInv, Held
  <1>10. CASE DtorStop \/ Destructor
    BY <1>10 DEF DtorStop, Destructor, DtorWakeSend, DtorJoinSend, DtorWakeRecv, DtorJoinRecv
  <1>12. CASE Deleted \/ UNCHANGED vars
    BY <1>12, <1>9 DEF Deleted, vars, SendUnchanged
  <1> QED
    BY <1>1, <1>2, <1>3, <1>4, <1>5, <1>6, <1>7, <1>8, <1>9, <1>10, <1>12, RecvSideSteps
    DEF Next, SendThread

\* The semaphore never holds more permits than there are queued messages; with a
\* device that only answers OK or OVERFLOW it accounts for every one.
THEOREM Permits == Spec => []PermitsInv
  <1>1. Init => PermitsInv
    BY FS_EmptySet DEF Init, PermitsInv, Held
  <1> QED
    BY <1>1, SendInvInit, SendInvStep, PermitsStep, PTL DEF Spec

\* A blocked send thread has a permit for each message, even when the
\* destructor has started: it consumed none since.
WakeInv ==
    dtorPc = "alive" \/ sendPc = "acquire" =>
        Len(msgQueue) <= listSemaphore + Cardinality(releasing) + Held

LEMMA WakeStep ==
    ASSUME SendResults \subseteq Reliable
    PROVE  SendInv /\ WakeInv /\ [Next]_vars => WakeInv'
  <1> SUFFICES ASSUME SendInv, WakeInv, [Next]_vars
               PROVE  WakeInv'
    OBVIOUS
  <1> USE DEF SendInv
  <1>0. /\ IsFiniteSet(releasing) /\ Cardinality(releasing) \in Nat
        /\ listSemaphore \in Nat /\ Len(msgQueue) \in Nat
    BY ReleasingFinite DEF SendTypeOK
  <1>1. ASSUME NEW p \in Producers, Push(p)
        PROVE  WakeInv'
    <2>1. Cardinality(releasing') = Cardinality(releasing) + 1
      BY <1>0, <1>1, FS_AddElement DEF Push
    <2>2. Len(msgQueue') = Len(msgQueue) + 1 /\ listSemaphore' = listSemaphore
          /\ dtorPc = "alive" /\ sendPc' = sendPc
      BY <1>1 DEF Push, SendTypeOK
    <2> QED BY <1>0, <2>1, <2>2 DEF WakeInv, Held
  <1>2. ASSUME NEW p \in Producers, PushRelease(p)
        PROVE  WakeInv'
    <2>1. Cardinality(releasing') = Cardinality(releasing) - 1
      BY <1>0, <1>2, FS_RemoveElement DEF PushRelease
    <2>2. msgQueue' = msgQueue /\ listSemaphore' = listSemaphore + 1
          /\ dtorPc' = dtorPc /\ sendPc' = sendPc
      BY <1>2 DEF PushRelease
    <2> QED BY <1>0, <2>1, <2>2 DEF WakeInv, Held
  <1>3. CASE SendLoop
    <2>1. running <=> dtorPc = "alive"
      BY DEF ControlInv
    <2>2. sendPc' = "acquire" => dtorPc = "alive"
      BY <1>3, <2>1 DEF SendLoop
    <2>3. UNCHANGED <<msgQueue, listSemaphore, releasing, dtorPc>> /\ Held = 0 /\ Held' = 0
      BY <1>3 DEF SendLoop, Held
    <2> QED BY <1>0, <2>2, <2>3 DEF WakeInv
  <1>4. CASE SendAcquire
    BY <1>0, <1>4 DEF SendAcquire, WakeInv, Held
  <1>5. CASE SendLock
    BY <1>0, <1>5 DEF SendLock, WakeInv, Held
  <1>6. CASE SendCheck
    <2>1. sendPc' # "acquire" /\ sendPc = "critical"
          /\ UNCHANGED <<msgQueue, listSemaphore, releasing, dtorPc>>
      BY <1>6 DEF SendCheck
    <2>2. CASE dtorPc = "alive" /\ msgQueue # <<>>
      <3>1. running
        BY <2>2 DEF ControlInv
      <3>2. sendPc' = "device"
        BY <1>6, <2>2, <3>1 DEF SendCheck
      <3> QED BY <1>0, <2>1, <2>2, <3>2 DEF WakeInv, Held
    <2>3. CASE msgQueue = <<>>
      <3>1. Len(msgQueue') = 0 /\ Held' \in Nat
        BY <2>1, <2>3 DEF Held
      <3> QED BY <1>0, <2>1, <3>1 DEF WakeInv
    <2>4. CASE dtorPc # "alive"
      BY <2>1, <2>4 DEF WakeInv
    <2> QED BY <2>2, <2>3, <2>4
  <1>7. ASSUME NEW r \in SendResults, DeviceSend(r)
        PROVE  WakeInv'
    <2>0. sendPc = "device" /\ sendPc' = "unlock" /\ dtorPc' = dtorPc /\ releasing' = releasing
          /\ Held = 1 /\ Held' = 0
      BY <1>7 DEF DeviceSend, Held
    <2>1. CASE r = "OK"
      <3>1. Len(msgQueue') = Len(msgQueue) - 1 /\ listSemaphore' = listSemaphore
        BY <1>7, <2>1 DEF DeviceSend, Reliable, SendTypeOK, ControlInv
      <3> QED BY <1>0, <2>0, <3>1 DEF WakeInv
    <2>2. CASE r = "OVERFLOW"
      <3>1. msgQueue' = msgQueue /\ listSemaphore' = listSemaphore + 1
        BY <1>7, <2>2 DEF DeviceSend, Reliable
      <3> QED BY <1>0, <2>0, <3>1 DEF WakeInv
    <2> QED BY <2>1, <2>2, SendResults \subseteq Reliable DEF Reliable
  <1>8. CASE SendUnlock
    BY <1>0, <1>8 DEF SendUnlock, WakeInv, Held
  <1>9. CASE SendUnchanged
    BY <1>0, <1>9 DEF SendUnchanged, sendVars, WakeInv, Held
  <1>10. CASE DtorStop \/ Destructor
    <2>1. /\ UNCHANGED <<msgQueue, releasing, sendPc>> /\ dtorPc' # "alive"
          /\ listSemaphore' \in {listSemaphore, listSemaphore + 1}
      BY <1>10 DEF DtorStop, Destructor, DtorWakeSend, DtorJoinSend, DtorWakeRecv, DtorJoinRecv,
                   sendVars
    <2>2. Held' = Held /\ Held \in Nat /\ Cardinality(releasing') = Cardinality(releasing)
      BY <2>1 DEF Held
    <2>3. listSemaphore <= listSemaphore' /\ listSemaphore' \in Nat
      BY <1>0, <2>1
    <2> QED BY <1>0, <2>1, <2>2, <2>3 DEF WakeInv
  <1>12. CASE Deleted \/ UNCHANGED vars
    BY <1>12, <1>9 DEF Deleted, vars, SendUnchanged
  <1> QED
    BY <1>1, <1>2, <1>3, <1>4, <1>5, <1>6, <1>7, <1>8, <1>9, <1>10, <1>12, RecvSideSteps
    DEF Next, SendThread

\* With such a device the send thread is never blocked with a message in the
\* queue, unless a push is about to wake it.
THEOREM NoStall ==
    ASSUME SendResults \subseteq Reliable
    PROVE  Spec => []BlockedOnlyWhenIdle
  <1>1. Init => WakeInv
    BY FS_EmptySet DEF Init, WakeInv, Held
  <1>2. SendInv /\ WakeInv => BlockedOnlyWhenIdle
    <2> SUFFICES ASSUME SendInv, WakeInv, sendPc = "acquire", listSemaphore = 0, releasing = {}
                 PROVE  msgQueue = <<>>
      BY DEF BlockedOnlyWhenIdle
    <2>1. Cardinality(releasing) = 0 /\ Held = 0
      BY FS_EmptySet DEF Held
    <2>2. Len(msgQueue) = 0
      BY <2>1 DEF WakeInv, SendInv, SendTypeOK
    <2> QED BY <2>2 DEF SendInv, SendTypeOK
  <1>3. SendInv /\ WakeInv /\ [Next]_vars => WakeInv'
    BY WakeStep
  <1> QED
    BY <1>1, <1>2, <1>3, SendInvInit, SendInvStep, PTL DEF Spec
-----------------------------------------------------------------------------
(* The destructor and the two threads.                                     *)

LEMMA JoinStep == JoinInv /\ [Next]_vars => JoinInv'
  <1> SUFFICES ASSUME JoinInv, [Next]_vars
               PROVE  JoinInv'
    OBVIOUS
  <1>1. CASE \E p \in Producers : Push(p) \/ PushRelease(p)
    BY <1>1 DEF Push, PushRelease, recvVars, JoinInv
  <1>2. CASE SendThread
    BY <1>2 DEF SendThread, SendLoop, SendAcquire, SendLock, SendCheck, SendUnlock, DeviceSend,
                recvVars, JoinInv
  <1>3. CASE RecvThread
    BY <1>3 DEF RecvThread, RecvLoop, RecvMessage, RecvNothing, NotifyLock, NotifyOne,
                NotifyUnlock, sendVars, JoinInv
  <1>4. CASE \E o \in Observers : Register(o) \/ Unregister(o)
    BY <1>4 DEF Register, Unregister, sendVars, JoinInv
  <1>5. CASE DtorStop \/ Destructor
    BY <1>5 DEF DtorStop, Destructor, DtorWakeSend, DtorJoinSend, DtorWakeRecv, DtorJoinRecv,
                sendVars, recvVars, JoinInv
  <1>6. CASE Deleted \/ UNCHANGED vars
    BY <1>6 DEF Deleted, vars, sendVars, recvVars, JoinInv
  <1> QED
    BY <1>1, <1>2, <1>3, <1>4, <1>5, <1>6 DEF Next

\* The device is deleted after both threads have left it for good.
THEOREM DeviceLifetime == Spec => []DeviceOutlivesThreads
  <1>1. Init => JoinInv
    BY DEF Init, JoinInv
  <1>2. JoinInv => DeviceOutlivesThreads
    BY DEF JoinInv, DeviceOutlivesThreads
  <1> QED
    BY <1>1, <1>2, JoinStep, PTL DEF Spec
-----------------------------------------------------------------------------
(* The receive thread and the observers.                                   *)

\* What the receive thread knows while it has a message: there is one, and its
\* iterator is not past the end of the list, which nobody changes meanwhile.
RecvTypeOK ==
    /\ result \in DeviceStates
    /\ pushed <= MaxPush
    /\ observers \in Seq(Observers)
    /\ received \in 0 .. MaxRecv
    /\ recvPc \in {"loop", "read", "lock", "notify", "finished"}
    /\ notifyIndex \in Nat \ {0}
    /\ calls \in Seq(Nat) /\ Len(calls) = Len(observers)
    /\ recvPc \in {"lock", "notify"} => received > 0
    /\ recvPc = "notify" => notifyIndex <= Len(observers) + 1

RecvInv == RecvTypeOK /\ OneCallEach

LEMMA NotifiedType == RecvTypeOK => Notified \in 0 .. MaxRecv
  BY HandlerAssumption DEF RecvTypeOK, Notified

\* The receive side does not depend on the send side.
LEMMA RecvInvStable ==
    ASSUME RecvInv, UNCHANGED recvVars, result' \in DeviceStates, pushed' <= MaxPush
    PROVE  RecvInv'
  BY DEF RecvInv, RecvTypeOK, OneCallEach, recvVars, Notified, ObserversLocked

LEMMA SendSideSteps ==
    ASSUME SendInv, RecvInv,
           \/ \E p \in Producers : Push(p) \/ PushRelease(p)
           \/ SendThread \/ DtorStop \/ Destructor \/ Deleted \/ UNCHANGED vars
    PROVE  UNCHANGED recvVars /\ result' \in DeviceStates /\ pushed' <= MaxPush
  <1> USE HandlerAssumption DEF SendInv, RecvInv, RecvTypeOK, SendTypeOK
  <1>1. CASE \E p \in Producers : Push(p) \/ PushRelease(p)
    BY <1>1 DEF Push, PushRelease
  <1>2. CASE SendThread
    BY <1>2 DEF SendThread, SendLoop, SendAcquire, SendLock, SendCheck, SendUnlock, DeviceSend
  <1>3. CASE DtorStop \/ Destructor
    BY <1>3 DEF DtorStop, Destructor, DtorWakeSend, DtorJoinSend, DtorWakeRecv, DtorJoinRecv,
                sendVars
  <1>4. CASE Deleted \/ UNCHANGED vars
    BY <1>4 DEF Deleted, vars, sendVars
  <1> QED BY <1>1, <1>2, <1>3, <1>4

LEMMA RecvInvInit == Init => RecvInv
  BY HandlerAssumption DEF Init, RecvInv, RecvTypeOK, OneCallEach

\* A list without one of its entries.
LEMMA WithoutEntry ==
    ASSUME NEW S, NEW s \in Seq(S), NEW k \in 1 .. Len(s)
    PROVE  RemoveAt(s, k) \in Seq(S) /\ Len(RemoveAt(s, k)) = Len(s) - 1
  <1> DEFINE front == SubSeq(s, 1, k - 1)
             rest == SubSeq(s, k + 1, Len(s))
  <1>1. /\ front \in Seq(S) /\ Len(front) = k - 1
        /\ rest \in Seq(S) /\ Len(rest) = Len(s) - k
    OBVIOUS
  <1>2. RemoveAt(s, k) = front \o rest
    BY DEF RemoveAt
  <1> HIDE DEF front, rest
  <1>3. front \o rest \in Seq(S) /\ Len(front \o rest) = Len(front) + Len(rest)
    BY <1>1, ConcatProperties
  <1> QED BY <1>1, <1>2, <1>3

LEMMA RecvInvStep == SendInv /\ RecvInv /\ [Next]_vars => RecvInv'
  <1> SUFFICES ASSUME SendInv, RecvInv, [Next]_vars
               PROVE  RecvInv'
    OBVIOUS
  <1> USE DEF RecvInv
  <1>0. /\ Len(observers) \in Nat /\ DOMAIN observers = 1 .. Len(observers)
        /\ MaxRecv \in Nat
    BY HandlerAssumption DEF RecvTypeOK
  <1>1. CASE RecvLoop \/ RecvNothing
    BY <1>1 DEF RecvLoop, RecvNothing, sendVars, RecvTypeOK, OneCallEach, Notified,
                ObserversLocked
  <1>2. CASE RecvMessage
    <2>1. RecvTypeOK'
      BY <1>0, <1>2 DEF RecvMessage, sendVars, RecvTypeOK
    <2>2. ~ObserversLocked /\ ~ObserversLocked' /\ Notified' = Notified
          /\ UNCHANGED <<observers, calls>>
      BY <1>0, <1>2 DEF RecvMessage, RecvTypeOK, ObserversLocked, Notified
    <2> QED BY <2>1, <2>2 DEF OneCallEach
  <1>3. CASE NotifyLock
    <2>1. RecvTypeOK'
      BY <1>0, <1>3 DEF NotifyLock, sendVars, RecvTypeOK
    <2>2. ~ObserversLocked /\ Notified' = Notified /\ UNCHANGED <<observers, calls>>
          /\ notifyIndex' = 1
      BY <1>3 DEF NotifyLock, ObserversLocked, Notified
    <2>3. \A k \in 1 .. Len(observers) : ~(k < 1)
      OBVIOUS
    <2> QED BY <1>0, <2>1, <2>2, <2>3 DEF OneCallEach
  <1>4. CASE NotifyOne
    <2>1. /\ notifyIndex \in 1 .. Len(observers)
          /\ UNCHANGED <<observers, received, recvPc>> /\ ObserversLocked /\ ObserversLocked'
          /\ calls' = [calls EXCEPT ![notifyIndex] = @ + 1] /\ notifyIndex' = notifyIndex + 1
          /\ Notified' = Notified /\ Notified = received - 1
      BY <1>0, <1>4 DEF NotifyOne, RecvTypeOK, ObserversLocked, Notified
    <2>2. DOMAIN calls = 1 .. Len(observers) /\ calls[notifyIndex] = received - 1
      BY <1>0, <2>1 DEF OneCallEach, RecvTypeOK
    <2>3. calls' \in Seq(Nat) /\ Len(calls') = Len(observers)
      <3>1. calls[notifyIndex] + 1 \in Nat
        BY <2>1, <2>2 DEF RecvTypeOK
      <3> QED BY <2>1, <2>2, <3>1, ExceptSeq DEF RecvTypeOK
    <2>4. RecvTypeOK'
      BY <1>0, <1>4, <2>1, <2>3 DEF NotifyOne, sendVars, RecvTypeOK
    <2>5. ASSUME NEW k \in 1 .. Len(observers)
          PROVE  calls'[k] = IF k < notifyIndex' THEN received' ELSE Notified'
      <3>1. calls[k] = IF k < notifyIndex THEN received ELSE Notified
        BY <1>0, <2>1 DEF OneCallEach
      <3>2. calls'[k] = IF k = notifyIndex THEN calls[k] + 1 ELSE calls[k]
        BY <2>1, <2>2
      <3>3. k < notifyIndex + 1 <=> k < notifyIndex \/ k = notifyIndex
        BY <2>1
      <3>4. received - 1 + 1 = received
        BY DEF RecvTypeOK
      <3> QED BY <2>1, <2>2, <3>1, <3>2, <3>3, <3>4
    <2> QED BY <1>0, <2>1, <2>4, <2>5 DEF OneCallEach
  <1>5. CASE NotifyUnlock
    <2>1. /\ ObserversLocked /\ ~ObserversLocked' /\ Notified' = received
          /\ UNCHANGED <<observers, calls, received>>
          /\ \A k \in 1 .. Len(observers) : k < notifyIndex
      BY <1>0, <1>5 DEF NotifyUnlock, RecvTypeOK, ObserversLocked, Notified
    <2>2. RecvTypeOK'
      BY <1>5 DEF NotifyUnlock, sendVars, RecvTypeOK
    <2> QED BY <1>0, <2>1, <2>2 DEF OneCallEach
  <1>6. ASSUME NEW o \in Observers, Register(o)
        PROVE  RecvInv'
    <2>1. /\ ~ObserversLocked /\ ~ObserversLocked' /\ Notified' = Notified
          /\ observers' = Append(observers, o) /\ calls' = Append(calls, Notified)
      BY <1>6 DEF Register, ObserversLocked, Notified
    <2>2. /\ observers' \in Seq(Observers) /\ Len(observers') = Len(observers) + 1
          /\ calls' \in Seq(Nat) /\ Len(calls') = Len(calls) + 1
      BY <1>0, <2>1, NotifiedType, AppendProperties DEF RecvTypeOK
    <2>3. RecvTypeOK'
      BY <1>6, <2>1, <2>2 DEF Register, sendVars, RecvTypeOK, ObserversLocked
    <2>4. \A k \in 1 .. Len(calls) : calls[k] = Notified
      BY <1>0, <2>1 DEF OneCallEach, RecvTypeOK
    <2>5. \A k \in 1 .. Len(calls) + 1 : calls'[k] = Notified
      BY <2>1, <2>4, NotifiedType DEF RecvTypeOK
    <2>6. DOMAIN observers' = 1 .. Len(calls) + 1
      BY <1>0, <2>2 DEF RecvTypeOK
    <2> QED BY <2>1, <2>3, <2>5, <2>6 DEF OneCallEach
  <1>7. ASSUME NEW o \in Observers, Unregister(o)
        PROVE  RecvInv'
    <2>1. PICK k \in 1 .. Len(observers) :
            observers' = RemoveAt(observers, k) /\ calls' = RemoveAt(calls, k)
      BY <1>0, <1>7 DEF Unregister
    <2>2. ~ObserversLocked /\ ~ObserversLocked' /\ Notified' = Notified
      BY <1>7 DEF Unregister, ObserversLocked, Notified
    <2>3. /\ observers' \in Seq(Observers) /\ Len(observers') = Len(observers) - 1
      BY <2>1, WithoutEntry DEF RecvTypeOK
    <2>4. calls \in Seq({Notified}) /\ k \in 1 .. Len(calls) /\ Notified \in Nat
      BY <1>0, <2>1, <2>2, NotifiedType DEF OneCallEach, RecvTypeOK
    <2>5. calls' \in Seq({Notified}) /\ Len(calls') = Len(calls) - 1
      BY <2>1, <2>4, WithoutEntry
    <2>6. calls' \in Seq(Nat)
      BY <2>4, <2>5
    <2>7. RecvTypeOK'
      BY <1>7, <2>2, <2>3, <2>5, <2>6 DEF Unregister, sendVars, RecvTypeOK, ObserversLocked
    <2>8. DOMAIN observers' = 1 .. Len(calls')
      BY <2>3, <2>5 DEF RecvTypeOK
    <2> QED BY <2>2, <2>5, <2>7, <2>8 DEF OneCallEach
  <1> QED
    BY <1>1, <1>2, <1>3, <1>4, <1>5, <1>6, <1>7, SendSideSteps, RecvInvStable
    DEF Next, RecvThread

\* Every registration gets exactly one call for each message from then on, however
\* registrations, removals, notifications and the destructor interleave; the state of
\* both threads is well typed.
THEOREM Observed == Spec => []HandlerSound
  <1>1. SendInv /\ RecvInv => HandlerSound
    <2> SUFFICES ASSUME SendInv, RecvInv PROVE HandlerSound
      OBVIOUS
    <2>1. pushed \in 0 .. MaxPush /\ MaxPush \in Nat /\ pushed = Len(wire) + Len(msgQueue)
      BY HandlerAssumption DEF SendInv, SendTypeOK, FifoInv, RecvInv, RecvTypeOK
    <2>2. Len(wire) \in Nat /\ Len(msgQueue) \in Nat
      BY DEF SendInv, SendTypeOK
    <2>3. wire \in Seq(1 .. MaxPush)
      <3>1. 0 + Len(wire) <= MaxPush
        BY <2>1, <2>2
      <3> QED BY <2>1, <3>1, NumberedBounded DEF SendInv, SendTypeOK, FifoInv
    <2>4. msgQueue \in Seq(1 .. MaxPush)
      <3>1. Len(wire) + Len(msgQueue) <= MaxPush
        BY <2>1, <2>2
      <3> QED BY <2>1, <2>2, <3>1, NumberedBounded DEF SendInv, SendTypeOK, FifoInv
    <2> QED BY <2>1, <2>3, <2>4 DEF HandlerSound, TypeOK, SendInv, SendTypeOK, RecvInv, RecvTypeOK
  <1> QED
    BY <1>1, SendInvInit, SendInvStep, RecvInvInit, RecvInvStep, PTL DEF Spec
=============================================================================
