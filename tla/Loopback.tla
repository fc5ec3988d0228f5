----------------------------- MODULE Loopback ------------------------------
(***************************************************************************)
(* The loopback driver of the new stack: virtual modules behind the two    *)
(* queues of CoreDriver.  The send worker takes a request from one queue   *)
(* and puts the answers of all modules, one after the other, into the      *)
(* other, which the reader of the manager empties meanwhile.  The rest of  *)
(* processMessage is disabled in the source.                               *)
(***************************************************************************)
EXTENDS Integers, Sequences

CONSTANTS
    NbModules,             \* 5 in the code
    SendLimit, RecvLimit,  \* m_maxSendQueueSize, m_maxRecvQueueSize
    MaxSends               \* bound on the messages sent

LoopbackAssumption == {NbModules, SendLimit, RecvLimit, MaxSends} \subseteq Nat

VARIABLES
    m_sendQueue, m_recvQueue,
    message,   \* the message the send worker has in hand, in a sequence of one or none
    i,         \* m_moduleList[0 .. i-1] have answered it
    received,  \* answers the reader took, in order
    accepted,  \* messages the send queue took, in order             (history)
    wasFull    \* an answer met a full queue: it is lost, and leaks  (history)

vars == <<m_sendQueue, m_recvQueue, message, i, received, accepted, wasFull>>

\* Alive requests are events, the only kind that has an answer.
Types == {"events", "request_data"}
AliveRequest(m) == m.type = "events" /\ m.cmd = "alive"

VirtualModules == 0 .. NbModules - 1

Init ==
    /\ m_sendQueue = <<>> /\ m_recvQueue = <<>> /\ message = <<>> /\ i = 0
    /\ received = <<>> /\ accepted = <<>> /\ wasFull = FALSE

\* sendMessage of the manager: pushSendMessage, which refuses when it is full.
sendMessage(type, cmd) ==
    LET m == [number |-> Len(accepted) + 1, type |-> type, cmd |-> cmd,
              dest |-> 255, remote |-> TRUE, data |-> <<>>]
    IN /\ Len(accepted) < MaxSends /\ Len(m_sendQueue) < SendLimit
       /\ m_sendQueue' = Append(m_sendQueue, m) /\ accepted' = Append(accepted, m)
       /\ UNCHANGED <<m_recvQueue, message, i, received, wasFull>>

\* internalThreadSendFunction: takes a message; any but an alive request is deleted.
internalThreadSendFunction ==
    /\ message = <<>> /\ m_sendQueue /= <<>>
    /\ m_sendQueue' = Tail(m_sendQueue)
    /\ message' = IF AliveRequest(Head(m_sendQueue)) THEN <<Head(m_sendQueue)>> ELSE <<>>
    /\ i' = 0
    /\ UNCHANGED <<m_recvQueue, received, accepted, wasFull>>

\* A clone of the request with the data of the module; it is no request any more.
Answer(m, module) == [number |-> m.number, type |-> m.type, cmd |-> m.cmd,
                      dest |-> module, remote |-> FALSE, data |-> <<module>>]

\* processMessage: the next module answers; pushRecvMessage may refuse, which
\* nobody notices.
processMessage ==
    /\ message /= <<>> /\ i \in VirtualModules
    /\ IF Len(m_recvQueue) < RecvLimit
       THEN /\ m_recvQueue' = Append(m_recvQueue, Answer(message[1], i))
            /\ UNCHANGED wasFull
       ELSE wasFull' = TRUE /\ UNCHANGED m_recvQueue
    /\ i' = i + 1
    /\ message' = IF i' = NbModules THEN <<>> ELSE message
    /\ UNCHANGED <<m_sendQueue, received, accepted>>

\* recvMessage, called by the reader.
recvMessage ==
    /\ m_recvQueue /= <<>>
    /\ received' = Append(received, Head(m_recvQueue)) /\ m_recvQueue' = Tail(m_recvQueue)
    /\ UNCHANGED <<m_sendQueue, message, i, accepted, wasFull>>

Next ==
    \/ \E type \in Types, cmd \in {"alive", "other"} : sendMessage(type, cmd)
    \/ internalThreadSendFunction \/ processMessage \/ recvMessage

Spec == Init /\ [][Next]_vars

-----------------------------------------------------------------------------
Answers == received \o m_recvQueue

Before(a, b) == a.number < b.number \/ (a.number = b.number /\ a.dest < b.dest)

\* Requests that have been processed to the end.
Processed ==
    {accepted[n].number : n \in 1 .. Len(accepted) - Len(m_sendQueue) - Len(message)}

\* Each virtual module answers each alive request at most once, as itself, with a
\* message that is no request any more, in the order of requests and modules; and
\* unless the queue has been full, no module is missing once a request is processed.
AnswersExact ==
    /\ \A k \in DOMAIN Answers :
         LET a == Answers[k]
         IN /\ ~a.remote /\ AliveRequest(accepted[a.number])
            /\ a.dest \in VirtualModules /\ a.data = <<a.dest>>
            /\ k > 1 => Before(Answers[k - 1], a)
    /\ wasFull \/ \A n \in Processed :
         AliveRequest(accepted[n]) =>
           {Answers[k].dest : k \in {x \in DOMAIN Answers : Answers[x].number = n}} = VirtualModules
=============================================================================
