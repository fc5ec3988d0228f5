-------------------------- MODULE CoreDriverQueue --------------------------
(***************************************************************************)
(* One message queue of netcore::CoreDriver: a QQueue, the semaphore that  *)
(* counts its messages and the mutex that every operation on either takes. *)
(* The receive queue is filled by the driver and read by recvMessage and   *)
(* recvAllMessages; the send queue is filled by sendMessage and emptied by *)
(* the driver with pullSendMessage.                                        *)
(*                                                                         *)
(* An operation that never waits inside the mutex is one action, taken     *)
(* while the mutex is free.  recvMessage is three: it may wait for the     *)
(* semaphore while it owns the mutex.                                      *)
(***************************************************************************)
EXTENDS NumberedSequences

CONSTANTS Pushers,   \* the threads that call pushRecvMessage or sendMessage
          Receivers, \* the threads that call recvMessage
          Limits,    \* the sizes given to the constructor or set...QueueMaxSize
          MaxPush    \* bound: messages queued in a behaviour

ASSUME QueueAssumption ==
    /\ Limits \subseteq Nat
    /\ MaxPush \in Nat

VARIABLES
    direction, \* which of the two queues this is: "recv" or "send"
    maxSize,   \* m_max...QueueSize
    queue,     \* m_...Queue, messages numbered in the order of push_back
    permits,   \* permits of m_...Semaphore
    pushing,   \* pushers that have entered the call and want the mutex
    waiting,   \* receivers in tryAcquire(1,100): they own the mutex
    pushed,    \* number of messages queued so far
    taken      \* messages that left the queue, in order

vars == <<direction, maxSize, queue, permits, pushing, waiting, pushed, taken>>

Locked == waiting # {}

Init ==
    /\ direction \in {"recv", "send"}
    /\ maxSize \in Limits
    /\ queue = <<>>
    /\ permits = 0
    /\ pushing = {}
    /\ waiting = {}
    /\ pushed = 0
    /\ taken = <<>>
-----------------------------------------------------------------------------
(* pushRecvMessage, pushSendMessage.                                       *)

PushCall(p) ==
    /\ p \notin pushing
    /\ pushed < MaxPush
    /\ pushing' = pushing \cup {p}
    /\ UNCHANGED <<direction, maxSize, queue, permits, waiting, pushed, taken>>

\* Mutation of Push: the size is compared the way recvQueueFull compares it.
PushOneMore(p) ==
    /\ p \in pushing
    /\ ~Locked
    /\ pushing' = pushing \ {p}
    /\ IF Len(queue) > maxSize
       THEN UNCHANGED <<queue, permits, pushed>>
       ELSE /\ permits' = permits + 1
            /\ queue' = Append(queue, pushed + 1)
            /\ pushed' = pushed + 1
    /\ UNCHANGED <<direction, maxSize, waiting, taken>>

\* Mutation of Push: the semaphore is released before the size is tested.
PushReleasesFirst(p) ==
    /\ p \in pushing
    /\ ~Locked
    /\ pushing' = pushing \ {p}
    /\ permits' = permits + 1
    /\ IF Len(queue) < maxSize
       THEN queue' = Append(queue, pushed + 1) /\ pushed' = pushed + 1
       ELSE UNCHANGED <<queue, pushed>>
    /\ UNCHANGED <<direction, maxSize, waiting, taken>>

\* The message is queued, or refused (it stays the caller's).
Push(p) ==
    /\ p \in pushing
    /\ ~Locked
    /\ pushing' = pushing \ {p}
    /\ IF Len(queue) < maxSize
       THEN /\ permits' = permits + 1
            /\ queue' = Append(queue, pushed + 1)
            /\ pushed' = pushed + 1
       ELSE UNCHANGED <<queue, permits, pushed>>
    /\ UNCHANGED <<direction, maxSize, waiting, taken>>
-----------------------------------------------------------------------------
(* recvMessage, pullRecvMessage.                                           *)

RecvLock(r) ==
    /\ direction = "recv"
    /\ ~Locked
    /\ waiting' = {r}
    /\ UNCHANGED <<direction, maxSize, queue, permits, pushing, pushed, taken>>

\* tryAcquire succeeds; a permit without a message would be spent on nothing.
RecvAcquire(r) ==
    /\ r \in waiting
    /\ permits > 0
    /\ permits' = permits - 1
    /\ waiting' = waiting \ {r}
    /\ IF queue # <<>>
       THEN queue' = Tail(queue) /\ taken' = Append(taken, Head(queue))
       ELSE UNCHANGED <<queue, taken>>
    /\ UNCHANGED <<direction, maxSize, pushing, pushed>>

\* Mutation of RecvTimeout: acquire(1) in place of tryAcquire(1,100).
RecvNeverTimesOut(r) ==
    /\ r \in waiting
    /\ permits = 0
    /\ UNCHANGED vars

\* The 100 ms have passed: NULL is returned.
RecvTimeout(r) ==
    /\ r \in waiting
    /\ permits = 0
    /\ waiting' = waiting \ {r}
    /\ UNCHANGED <<direction, maxSize, queue, permits, pushing, pushed, taken>>
-----------------------------------------------------------------------------
\* Mutation of RecvAll: the queue is copied and not cleared.
RecvAllKeepsQueue ==
    /\ direction = "recv"
    /\ ~Locked
    /\ queue # <<>>
    /\ permits >= Len(queue)
    /\ permits' = permits - Len(queue)
    /\ taken' = taken \o queue
    /\ UNCHANGED <<direction, maxSize, queue, pushing, waiting, pushed>>

\* recvAllMessages, when it returns messages: otherwise nothing changes.
RecvAll ==
    /\ direction = "recv"
    /\ ~Locked
    /\ queue # <<>>
    /\ permits >= Len(queue)
    /\ permits' = permits - Len(queue)
    /\ taken' = taken \o queue
    /\ queue' = <<>>
    /\ UNCHANGED <<direction, maxSize, pushing, waiting, pushed>>

\* Mutation of PullSend: the last message is taken.
PullSendLast ==
    /\ direction = "send"
    /\ ~Locked
    /\ queue # <<>>
    /\ permits > 0
    /\ permits' = permits - 1
    /\ queue' = SubSeq(queue, 1, Len(queue) - 1)
    /\ taken' = Append(taken, queue[Len(queue)])
    /\ UNCHANGED <<direction, maxSize, pushing, waiting, pushed>>

\* pullSendMessage, when it returns a message: otherwise nothing changes (without
\* a permit it would have waited 100 ms for it).
PullSend ==
    /\ direction = "send"
    /\ ~Locked
    /\ queue # <<>>
    /\ permits > 0
    /\ permits' = permits - 1
    /\ queue' = Tail(queue)
    /\ taken' = Append(taken, Head(queue))
    /\ UNCHANGED <<direction, maxSize, pushing, waiting, pushed>>

\* setRecvQueueMaxSize, setSendQueueMaxSize: the queue may now be too long.
SetMaxSize(n) ==
    /\ ~Locked
    /\ maxSize' = n
    /\ UNCHANGED <<direction, queue, permits, pushing, waiting, pushed, taken>>
-----------------------------------------------------------------------------
Receive(r) == RecvAcquire(r) \/ RecvTimeout(r)

Next ==
    \/ \E p \in Pushers : PushCall(p) \/ Push(p)
    \/ \E r \in Receivers : RecvLock(r) \/ Receive(r)
    \/ RecvAll
    \/ PullSend
    \/ \E n \in Limits : SetMaxSize(n)

Spec == Init /\ [][Next]_vars

\* Somebody who pushes, or calls recvMessage or pullSendMessage in a loop as the
\* reader and the send thread do, takes the mutex.
TakesMutex ==
    (\E p \in Pushers : Push(p)) \/ (\E r \in Receivers : RecvLock(r)) \/ PullSend

\* A free mutex is taken by one of those who want it, nobody knows which: a QMutex
\* keeps no order among them, and whoever gives it back may take it again at once.
\* A tryAcquire ends, with a permit or after 100 ms.
Fairness ==
    /\ WF_vars(TakesMutex)
    /\ \A r \in Receivers : WF_vars(Receive(r))

FairSpec == Spec /\ Fairness
-----------------------------------------------------------------------------
TypeOK ==
    /\ direction \in {"recv", "send"}
    /\ maxSize \in Limits
    /\ queue \in Seq(Nat)
    /\ permits \in Nat
    /\ pushing \subseteq Pushers
    /\ waiting \subseteq Receivers
    /\ pushed \in Nat
    /\ taken \in Seq(Nat)

\* Every message accepted leaves the queue once and in order, whichever of the
\* ways to take messages are mixed.
FifoInv ==
    /\ Len(taken) + Len(queue) = pushed
    /\ Numbered(taken, 0)
    /\ Numbered(queue, Len(taken))

\* The semaphore counts the messages exactly, so recvMessage never returns NULL
\* with a message in the queue, recvAllMessages always empties it, and
\* pullSendMessage never waits.
PermitsMatchQueue == permits = Len(queue)

\* Queue and semaphore at every unlock.
QueueSound == TypeOK /\ PermitsMatchQueue

\* The queue only grows within its limit, also when the limit was lowered under
\* the number of messages in it.
GrowsWithinLimit == [][Len(queue') > Len(queue) => Len(queue') <= maxSize]_vars

\* Each message accepted is taken in the end, unless pushes, refused ones for
\* instance, keep those who take messages from the mutex for ever.
EverythingTaken ==
    \A n \in 1 .. MaxPush :
        \/ (pushed >= n) ~> (Len(taken) >= n)
        \/ []<><<\E p \in Pushers : Push(p)>>_vars

\* Somebody other than p takes the mutex.
Overtakes(p) ==
    \/ \E q \in Pushers \ {p} : Push(q)
    \/ \E r \in Receivers : RecvLock(r)
    \/ RecvAll \/ PullSend
    \/ \E n \in Limits : SetMaxSize(n)

\* A push waits for nothing but the mutex, and nobody keeps that: a push that does
\* not return is overtaken again and again.  (The reader of an empty queue, which
\* sleeps with the mutex and relocks, may do so for ever.)
PushWaitsForTurn ==
    \A p \in Pushers : <>[](p \in pushing) => []<><<Overtakes(p)>>_vars

\* The queue implements a FIFO outbox.
Out == INSTANCE Outbox WITH accepted <- pushed, wire <- taken
OutboxSpec == Out!Spec
=============================================================================
