-------------------------- MODULE InterfaceHandler --------------------------
(***************************************************************************)
(* NETVInterfaceHandler: the object that owns a legacy NETVDevice, its     *)
(* send thread and its receive thread.  Any thread may push a message; the *)
(* send thread takes them from m_msgQueue, woken by m_listSemaphore, under *)
(* m_listMutex; the receive thread calls every registered observer under   *)
(* m_observerMutex; the destructor stops and joins both threads, then      *)
(* deletes the device.                                                     *)
(*                                                                         *)
(* Each action is one step of one thread between two points where another  *)
(* thread may run.  A critical section that only touches the list it       *)
(* protects (push_back, erase) is one step, taken while the mutex is free. *)
(*                                                                         *)
(* Messages are the numbers 1, 2, ... in the order push_back queued them.  *)
(* m_messageSent is Len(wire).                                             *)
(***************************************************************************)
EXTENDS NumberedSequences, SequencesExt, FiniteSets

CONSTANTS Producers,   \* the callers of pushNETVMessage
          Observers,   \* the NETVMessageObserverIF objects
          SendResults, \* what NETVDevice::sendMessage of this device may return
          MaxPush,     \* bound: messages pushed in a behaviour
          MaxRecv,     \* bound: messages the device receives in a behaviour
          MaxRegs      \* bound: length of the list of observers

\* The NETVDevice::State values sendThreadFunction distinguishes; "FAIL" stands
\* for every state it does not name.
DeviceStates == {"OK", "OVERFLOW", "FAIL", "NOT_INITIALIZED"}

ASSUME HandlerAssumption ==
    /\ IsFiniteSet(Producers)
    /\ SendResults \subseteq DeviceStates
    /\ MaxPush \in Nat
    /\ MaxRecv \in Nat
    /\ MaxRegs \in Nat

VARIABLES
    running,       \* m_running
    msgQueue,      \* m_msgQueue
    listSemaphore, \* permits of m_listSemaphore
    releasing,     \* producers between unlock() and release(1) of pushNETVMessage
    pushed,        \* number of messages queued so far
    wire,          \* messages the device accepted, in order
    sendPc,        \* where the send thread is
    result,        \* sendThreadFunction's local variable
    observers,     \* m_observers, a list: an observer may be in it twice
    received,      \* m_messageReceived
    recvPc,        \* where the receive thread is
    notifyIndex,   \* notifyCANObservers' iterator
    calls,         \* per entry of observers, the messages before it was registered
                   \* and the calls made through it since           (history)
    dtorPc         \* where the destructor is

sendVars == <<msgQueue, listSemaphore, releasing, pushed, wire, sendPc, result>>
recvVars == <<observers, received, recvPc, notifyIndex, calls>>
vars == <<running, sendVars, recvVars, dtorPc>>

Reliable == {"OK", "OVERFLOW"}

\* The send thread owns m_listMutex; the receive thread owns m_observerMutex.
ListLocked == sendPc \in {"critical", "device", "unlock"}
ObserversLocked == recvPc = "notify"

\* The last message whose notification is complete.
Notified == IF recvPc \in {"lock", "notify"} THEN received - 1 ELSE received

\* The handler as its constructor leaves it when it was given a device.
Init ==
    /\ running = TRUE
    /\ msgQueue = <<>>
    /\ listSemaphore = 0
    /\ releasing = {}
    /\ pushed = 0
    /\ wire = <<>>
    /\ sendPc = "loop"
    /\ result \in DeviceStates
    /\ observers = <<>>
    /\ received = 0
    /\ recvPc = "loop"
    /\ notifyIndex = 1
    /\ calls = <<>>
    /\ dtorPc = "alive"
-----------------------------------------------------------------------------
(* pushNETVMessage: the message is queued under the mutex, the permit is   *)
(* released after the mutex.                                               *)

Push(p) ==
    /\ dtorPc = "alive"
    /\ p \notin releasing
    /\ ~ListLocked
    /\ pushed < MaxPush
    /\ msgQueue' = Append(msgQueue, pushed + 1)
    /\ pushed' = pushed + 1
    /\ releasing' = releasing \cup {p}
    /\ UNCHANGED <<running, listSemaphore, wire, sendPc, result, recvVars, dtorPc>>

\* Mutation of PushRelease: the permit is signalled only for an empty queue.
PushReleaseOnlyFirst(p) ==
    /\ p \in releasing
    /\ listSemaphore' = IF Len(msgQueue) <= 1 THEN listSemaphore + 1 ELSE listSemaphore
    /\ releasing' = releasing \ {p}
    /\ UNCHANGED <<running, msgQueue, pushed, wire, sendPc, result, recvVars, dtorPc>>

PushRelease(p) ==
    /\ p \in releasing
    /\ listSemaphore' = listSemaphore + 1
    /\ releasing' = releasing \ {p}
    /\ UNCHANGED <<running, msgQueue, pushed, wire, sendPc, result, recvVars, dtorPc>>
-----------------------------------------------------------------------------
(* The send thread: run() and sendThreadFunction().                        *)

\* while (m_handler->isRunning()); quit() at the end of the previous round has
\* no effect, as run() has no event loop.
SendLoop ==
    /\ sendPc = "loop"
    /\ sendPc' = IF running THEN "acquire" ELSE "finished"
    /\ UNCHANGED <<running, msgQueue, listSemaphore, releasing, pushed, wire, result,
                   recvVars, dtorPc>>

SendAcquire ==
    /\ sendPc = "acquire"
    /\ listSemaphore > 0
    /\ listSemaphore' = listSemaphore - 1
    /\ sendPc' = "lock"
    /\ UNCHANGED <<running, msgQueue, releasing, pushed, wire, result, recvVars, dtorPc>>

SendLock ==
    /\ sendPc = "lock"
    /\ sendPc' = "critical"
    /\ UNCHANGED <<running, msgQueue, listSemaphore, releasing, pushed, wire, result,
                   recvVars, dtorPc>>

\* size() > 0 && m_running; when it is false result keeps the arbitrary value
\* of an uninitialised local variable.
SendCheck ==
    /\ sendPc = "critical"
    /\ IF msgQueue # <<>> /\ running
       THEN sendPc' = "device" /\ UNCHANGED result
       ELSE sendPc' = "unlock" /\ result' \in DeviceStates
    /\ UNCHANGED <<running, msgQueue, listSemaphore, releasing, pushed, wire, recvVars,
                   dtorPc>>

\* Mutation of DeviceSend: a message the device refused for lack of room is dropped.
DeviceSendDropsOnOverflow(r) ==
    /\ sendPc = "device"
    /\ result' = r
    /\ \/ /\ r \in Reliable
          /\ wire' = IF r = "OK" THEN Append(wire, Head(msgQueue)) ELSE wire
          /\ msgQueue' = Tail(msgQueue)
       \/ /\ r \notin Reliable
          /\ UNCHANGED <<wire, msgQueue>>
    /\ sendPc' = "unlock"
    /\ UNCHANGED <<running, listSemaphore, releasing, pushed, recvVars, dtorPc>>

\* Mutation of DeviceSend: no permit is given back for the retry.
DeviceSendNoRetry(r) ==
    /\ sendPc = "device"
    /\ result' = r
    /\ \/ /\ r = "OK"
          /\ wire' = Append(wire, Head(msgQueue))
          /\ msgQueue' = Tail(msgQueue)
       \/ /\ r # "OK"
          /\ UNCHANGED <<wire, msgQueue>>
    /\ sendPc' = "unlock"
    /\ UNCHANGED <<running, listSemaphore, releasing, pushed, recvVars, dtorPc>>

\* Mutation of DeviceSend: the permit is given back whatever the device answers.
DeviceSendAlwaysRetries(r) ==
    /\ sendPc = "device"
    /\ result' = r
    /\ \/ /\ r = "OK"
          /\ wire' = Append(wire, Head(msgQueue))
          /\ msgQueue' = Tail(msgQueue)
       \/ /\ r # "OK"
          /\ UNCHANGED <<wire, msgQueue>>
    /\ listSemaphore' = listSemaphore + 1
    /\ sendPc' = "unlock"
    /\ UNCHANGED <<running, releasing, pushed, recvVars, dtorPc>>

\* m_device->sendMessage(front) returns r and the branch on r runs, all under
\* m_listMutex (the sleep of the overflow branch included).
DeviceSend(r) ==
    /\ sendPc = "device"
    /\ result' = r
    /\ \/ /\ r = "OK"
          /\ wire' = Append(wire, Head(msgQueue))
          /\ msgQueue' = Tail(msgQueue)
          /\ UNCHANGED listSemaphore
       \/ /\ r = "OVERFLOW"
          /\ listSemaphore' = listSemaphore + 1
          /\ UNCHANGED <<wire, msgQueue>>
       \/ /\ r \notin Reliable
          /\ UNCHANGED <<wire, msgQueue, listSemaphore>>
    /\ sendPc' = "unlock"
    /\ UNCHANGED <<running, releasing, pushed, recvVars, dtorPc>>

SendUnlock ==
    /\ sendPc = "unlock"
    /\ sendPc' = "loop"
    /\ UNCHANGED <<running, msgQueue, listSemaphore, releasing, pushed, wire, result,
                   recvVars, dtorPc>>
-----------------------------------------------------------------------------
(* The receive thread: run(), recvThreadFunction(), notifyCANObservers().  *)

RecvLoop ==
    /\ recvPc = "loop"
    /\ recvPc' = IF running THEN "read" ELSE "finished"
    /\ UNCHANGED <<running, sendVars, observers, received, notifyIndex, calls, dtorPc>>

\* recvMessage returns NETVDEVICE_OK.
RecvMessage ==
    /\ recvPc = "read"
    /\ received < MaxRecv
    /\ received' = received + 1
    /\ recvPc' = "lock"
    /\ UNCHANGED <<running, sendVars, observers, notifyIndex, calls, dtorPc>>

\* recvMessage returns any other state: sleep, then the loop again.
RecvNothing ==
    /\ recvPc = "read"
    /\ recvPc' = "loop"
    /\ UNCHANGED <<running, sendVars, observers, received, notifyIndex, calls, dtorPc>>

NotifyLock ==
    /\ recvPc = "lock"
    /\ recvPc' = "notify"
    /\ notifyIndex' = 1
    /\ UNCHANGED <<running, sendVars, observers, received, calls, dtorPc>>

\* (*iter)->notifyNETVMessage(msg)
NotifyOne ==
    /\ recvPc = "notify"
    /\ notifyIndex <= Len(observers)
    /\ calls' = [calls EXCEPT ![notifyIndex] = @ + 1]
    /\ notifyIndex' = notifyIndex + 1
    /\ UNCHANGED <<running, sendVars, observers, received, recvPc, dtorPc>>

NotifyUnlock ==
    /\ recvPc = "notify"
    /\ notifyIndex > Len(observers)
    /\ recvPc' = "loop"
    /\ UNCHANGED <<running, sendVars, observers, received, notifyIndex, calls, dtorPc>>
-----------------------------------------------------------------------------
(* registerObserver and unregisterObserver: critical sections of the       *)
(* observer mutex.  A registration starts with the next message.           *)

Register(o) ==
    /\ dtorPc = "alive"
    /\ ~ObserversLocked
    /\ Len(observers) < MaxRegs
    /\ observers' = Append(observers, o)
    /\ calls' = Append(calls, Notified)
    /\ UNCHANGED <<running, sendVars, received, recvPc, notifyIndex, dtorPc>>

\* Entry k is the first of observer o.
FirstEntry(o, k) == observers[k] = o /\ \A j \in 1 .. k - 1 : observers[j] # o

\* Mutation of Unregister: the list is changed without taking the mutex.
UnregisterUnlocked(o) ==
    /\ dtorPc = "alive"
    /\ \E k \in DOMAIN observers :
         /\ FirstEntry(o, k)
         /\ observers' = RemoveAt(observers, k)
         /\ calls' = RemoveAt(calls, k)
    /\ UNCHANGED <<running, sendVars, received, recvPc, notifyIndex, dtorPc>>

\* Only the first entry is erased; without one nothing happens.
Unregister(o) ==
    /\ dtorPc = "alive"
    /\ ~ObserversLocked
    /\ \E k \in DOMAIN observers :
         /\ FirstEntry(o, k)
         /\ observers' = RemoveAt(observers, k)
         /\ calls' = RemoveAt(calls, k)
    /\ UNCHANGED <<running, sendVars, received, recvPc, notifyIndex, dtorPc>>
-----------------------------------------------------------------------------
(* The destructor.  Its caller has let every push return (NetworkView      *)
(* deletes an interface from the thread that pushes).                      *)

\* Mutation of DtorStop: m_running is left true.
DtorStopKeepsRunning ==
    /\ dtorPc = "alive"
    /\ releasing = {}
    /\ dtorPc' = "wakeSend"
    /\ UNCHANGED <<running, sendVars, recvVars>>

DtorStop ==
    /\ dtorPc = "alive"
    /\ releasing = {}
    /\ running' = FALSE
    /\ dtorPc' = "wakeSend"
    /\ UNCHANGED <<sendVars, recvVars>>

DtorWakeSend ==
    /\ dtorPc = "wakeSend"
    /\ listSemaphore' = listSemaphore + 1
    /\ dtorPc' = "joinSend"
    /\ UNCHANGED <<running, msgQueue, releasing, pushed, wire, sendPc, result, recvVars>>

DtorJoinSend ==
    /\ dtorPc = "joinSend"
    /\ sendPc = "finished"
    /\ dtorPc' = "wakeRecv"
    /\ UNCHANGED <<running, sendVars, recvVars>>

DtorWakeRecv ==
    /\ dtorPc = "wakeRecv"
    /\ listSemaphore' = listSemaphore + 1
    /\ dtorPc' = "joinRecv"
    /\ UNCHANGED <<running, msgQueue, releasing, pushed, wire, sendPc, result, recvVars>>

\* Mutation of DtorJoinRecv: the device is deleted without waiting for the
\* receive thread, which the permit cannot wake.
DtorNoJoinRecv ==
    /\ dtorPc = "joinRecv"
    /\ dtorPc' = "deleted"
    /\ UNCHANGED <<running, sendVars, recvVars>>

\* The receive thread has ended; the device is deleted.
DtorJoinRecv ==
    /\ dtorPc = "joinRecv"
    /\ recvPc = "finished"
    /\ dtorPc' = "deleted"
    /\ UNCHANGED <<running, sendVars, recvVars>>

Deleted == dtorPc = "deleted" /\ UNCHANGED vars
-----------------------------------------------------------------------------
SendThread ==
    \/ SendLoop \/ SendAcquire \/ SendLock \/ SendCheck \/ SendUnlock
    \/ \E r \in SendResults : DeviceSend(r)

RecvThread ==
    RecvLoop \/ RecvMessage \/ RecvNothing \/ NotifyLock \/ NotifyOne \/ NotifyUnlock

Destructor == DtorWakeSend \/ DtorJoinSend \/ DtorWakeRecv \/ DtorJoinRecv

Next ==
    \/ \E p \in Producers : Push(p) \/ PushRelease(p)
    \/ SendThread
    \/ RecvThread
    \/ \E o \in Observers : Register(o) \/ Unregister(o)
    \/ DtorStop
    \/ Destructor
    \/ Deleted

\* Threads are scheduled, calls of the device return, and a call in progress
\* (a push, the destructor) goes on.  Nothing obliges anyone to make a call.
Fairness ==
    /\ WF_vars(SendThread)
    /\ WF_vars(RecvThread)
    /\ WF_vars(Destructor)
    /\ \A p \in Producers : WF_vars(PushRelease(p))

Spec == Init /\ [][Next]_vars /\ Fairness

\* A device that always refuses stops being full at some point.
DeviceDrains == SF_vars(DeviceSend("OK"))

DrainingSpec == Spec /\ DeviceDrains
-----------------------------------------------------------------------------
TypeOK ==
    /\ running \in BOOLEAN
    /\ msgQueue \in Seq(1 .. MaxPush)
    /\ listSemaphore \in Nat
    /\ releasing \in SUBSET Producers
    /\ pushed \in 0 .. MaxPush
    /\ wire \in Seq(1 .. MaxPush)
    /\ sendPc \in {"loop", "acquire", "lock", "critical", "device", "unlock", "finished"}
    /\ result \in DeviceStates
    /\ observers \in Seq(Observers)
    /\ received \in 0 .. MaxRecv
    /\ recvPc \in {"loop", "read", "lock", "notify", "finished"}
    /\ notifyIndex \in Nat \ {0}
    /\ calls \in Seq(Nat) /\ Len(calls) = Len(observers)
    /\ dtorPc \in {"alive", "wakeSend", "joinSend", "wakeRecv", "joinRecv", "deleted"}

\* No message is lost, duplicated or reordered between pushNETVMessage and the
\* device: the device took a prefix of what was pushed, the queue is the rest.
FifoInv ==
    /\ Len(wire) + Len(msgQueue) = pushed
    /\ Numbered(wire, 0)
    /\ Numbered(msgQueue, Len(wire))

\* The permit the send thread took and has not used yet.
Held == IF sendPc \in {"lock", "critical", "device"} THEN 1 ELSE 0

\* While the handler lives, the permits in the semaphore, those about to be
\* released and the one in use are at most one per queued message (the send
\* thread never wakes for nothing), and exactly one when sendMessage only returns
\* OK or OVERFLOW.
PermitsInv ==
    dtorPc = "alive" =>
        LET permits == listSemaphore + Cardinality(releasing) + Held
        IN  /\ permits <= Len(msgQueue)
            /\ SendResults \subseteq Reliable => permits = Len(msgQueue)

\* The comment of sendThreadFunction: it "will block on the semaphore until we
\* have something to send".  When it is blocked and no push is under way, the
\* queue is empty.
BlockedOnlyWhenIdle ==
    sendPc = "acquire" /\ listSemaphore = 0 /\ releasing = {} => msgQueue = <<>>

\* Every registration gets exactly one call for each message, none missed and none
\* repeated, whoever else registers or unregisters: it is one call behind only during
\* the notification, until the iterator reaches it.  (An observer that registered
\* twice is called twice.)
OneCallEach ==
    \A k \in DOMAIN observers :
        calls[k] = IF ObserversLocked /\ k < notifyIndex THEN received ELSE Notified

\* The handler's state, as its threads see it.
HandlerSound == TypeOK /\ OneCallEach

\* The device is not deleted while a worker thread may still use it or its
\* observers.
DeviceOutlivesThreads ==
    dtorPc = "deleted" => sendPc = "finished" /\ recvPc = "finished"

\* The destructor always ends, wherever the two threads are when it starts.
DestructorEnds == (dtorPc = "wakeSend") ~> (dtorPc = "deleted")

\* With a device that accepts messages again after an overflow, every message
\* pushed is sent, unless the handler is destroyed first.
EverythingSent ==
    \A n \in 1 .. MaxPush : (pushed >= n) ~> (Len(wire) >= n \/ ~running)

\* The handler implements a FIFO outbox.
Out == INSTANCE Outbox WITH accepted <- pushed
OutboxSpec == Out!Spec
=============================================================================
