----------------------------- MODULE RemoteLink -----------------------------
(***************************************************************************)
(* netvconsole shares its interfaces over TCP: NETVRemoteServer sends what  *)
(* every interface receives to every client, and gives what the clients    *)
(* write to every interface.  A client is a TcpRemoteClient device of a    *)
(* NetworkViewer, with its NETVRemoteClient socket.                        *)
(*                                                                         *)
(* A TCP stream is a sequence of bytes: a serialized message is HeaderLen  *)
(* bytes of header and `length` bytes of data.  unserialize takes a message *)
(* when all of it has come, and nothing at all when its length is more     *)
(* than MaxData; the CAN bridges pass such lengths on (their DLC field has *)
(* four bits).                                                             *)
(***************************************************************************)
EXTENDS Integers, Selection, SequencesExt

CONSTANTS
    Clients, Managers,
    Lengths,         \* data lengths of the messages
    MaxData,         \* the eight bytes of msg_data
    MaxPending,      \* maxPendingConnections of the QTcpServer
    MaxMessages, MaxConnections   \* bounds of the model

ASSUME RemoteAssumption ==
    /\ Lengths \subseteq Nat
    /\ {MaxData, MaxPending, MaxMessages, MaxConnections} \subseteq Nat

VARIABLES
    \* netvconsole
    m_managerList,   \* managers that the server knows
    observing,       \* how many times it observes the handler of each
    running,         \* the event loop runs
    posted,          \* notifyNETVMessage events of the server
    m_socketList,    \* sockets of clients
    pending,         \* connections that nobody takes from the QTcpServer
    serverBuf,       \* bytes that have come from each client
    \* the clients
    conn,            \* "none", "connected", "closed"
    clientPosted,    \* sendMessage events of the socket
    clientBuf,       \* bytes that have come from the server
    m_msgList,       \* messages for recvMessage
    \* the TCP streams
    toClient, toServer,
    \* history
    count,           \* messages and connections made so far
    notified,        \* messages that each handler gave to its observers
    broadcast,       \* messages that the server sent to its sockets
    joined,          \* their number when a client was accepted
    got,             \* messages that recvMessage returned
    wrote,           \* writes that a client posted
    pushed           \* writes of each client given to the handlers

serverVars == <<m_managerList, observing, running, posted, m_socketList, pending, serverBuf>>
clientVars == <<conn, clientPosted, clientBuf, m_msgList>>
streams    == <<toClient, toServer>>
history    == <<count, notified, broadcast, joined, got, wrote, pushed>>
vars == <<serverVars, clientVars, streams, history>>

\* A message is <<number, data length>>.
Length(msg) == msg[2]

HeaderLen == 2

\* NETV_MESSAGE::serialize: the i-th byte of the message.
serialize(msg) == [i \in 1 .. HeaderLen + Length(msg) |-> <<msg, i>>]

\* NETV_MESSAGE::unserialize: the message at the front, or nothing.
unserialize(bytes) ==
    IF Len(bytes) >= HeaderLen /\ bytes[1][2] = 1
    THEN {msg \in {bytes[1][1]} : Length(msg) <= MaxData
                                  /\ Len(bytes) >= HeaderLen + Length(msg)}
    ELSE {}

\* The loop of readyReadSocket: messages until one fails.
Parse(bytes) ==
    LET from[p \in 0 .. Len(bytes)] ==
            LET rest == SubSeq(bytes, p + 1, Len(bytes))
                msg  == rest[1][1]
                then == from[p + HeaderLen + Length(msg)]
            IN  IF unserialize(rest) = {}
                THEN [rest |-> rest, messages |-> <<>>]
                ELSE [rest |-> then.rest, messages |-> <<msg>> \o then.messages]
    IN  from[0]

Bytes(messages) == FlattenSeq([i \in DOMAIN messages |-> serialize(messages[i])])

Empty == [c \in Clients |-> <<>>]

Init ==
    /\ m_managerList = <<>> /\ observing = [m \in Managers |-> 0]
    /\ running = FALSE /\ posted = <<>> /\ m_socketList = <<>> /\ pending = 0
    /\ serverBuf = Empty /\ conn = [c \in Clients |-> "none"]
    /\ clientPosted = Empty /\ clientBuf = Empty /\ m_msgList = Empty
    /\ toClient = Empty /\ toServer = Empty
    /\ count = [messages |-> 0, connections |-> 0]
    /\ notified = [m \in Managers |-> <<>>] /\ broadcast = <<>>
    /\ joined = [c \in Clients |-> 0] /\ got = Empty /\ wrote = Empty /\ pushed = Empty

CountMessage ==
    /\ count.messages < MaxMessages
    /\ count' = [count EXCEPT !.messages = @ + 1]

-----------------------------------------------------------------------------
(* netvconsole starts: the interfaces are added in its constructor, before *)
(* the event loop runs; their receive threads are at work already.         *)

\* Mutation of addInterface: the server registers with the known handlers again.
addInterfaceTwice(m) ==
    /\ ~Contains(m_managerList, m)
    /\ m_managerList' = Append(m_managerList, m)
    /\ observing' = [n \in Managers |->
                        IF Contains(m_managerList', n) THEN observing[n] + 1 ELSE 0]
    /\ UNCHANGED <<running, posted, m_socketList, pending, serverBuf, clientVars, streams,
                   history>>

\* NETVRemoteServer::addInterface, for a manager that it does not know yet.
addInterface(m) ==
    /\ ~Contains(m_managerList, m)
    /\ m_managerList' = Append(m_managerList, m)
    /\ observing' = [observing EXCEPT ![m] = @ + 1]
    /\ UNCHANGED <<running, posted, m_socketList, pending, serverBuf, clientVars, streams,
                   history>>

\* Every interface of the preferences is opened once and added.
loadUserPrefs == ~running /\ \E m \in Managers : addInterface(m)

\* The event loop starts; the number of interfaces is up to the preferences.
exec ==
    /\ ~running
    /\ running' = TRUE
    /\ UNCHANGED <<m_managerList, observing, posted, m_socketList, pending, serverBuf,
                   clientVars, streams, history>>

-----------------------------------------------------------------------------
(* From the interfaces to the clients.                                     *)

\* notifyNETVMessage, in the receive thread of a handler, once for every time
\* that the server is registered with it.
notifyNETVMessage(m, length) ==
    LET msg == <<count.messages + 1, length>>
    IN  /\ observing[m] > 0 /\ CountMessage
        /\ posted' = posted \o [i \in 1 .. observing[m] |-> msg]
        /\ notified' = [notified EXCEPT ![m] = Append(@, msg)]
        /\ UNCHANGED <<m_managerList, observing, running, m_socketList, pending, serverBuf,
                       clientVars, streams, broadcast, joined, got, wrote, pushed>>

\* Mutation of event: a message goes to the first socket only.
eventFirst ==
    /\ running /\ posted /= <<>>
    /\ posted' = Tail(posted) /\ broadcast' = Append(broadcast, Head(posted))
    /\ toClient' = [c \in Clients |->
                       IF m_socketList /= <<>> /\ conn[c] = "connected" /\ c = Head(m_socketList)
                       THEN toClient[c] \o serialize(Head(posted)) ELSE toClient[c]]
    /\ UNCHANGED <<m_managerList, observing, running, m_socketList, pending, serverBuf,
                   clientVars, toServer, count, notified, joined, got, wrote, pushed>>

\* event: the message is written to every socket; what goes to a closed one is lost.
event ==
    /\ running /\ posted /= <<>>
    /\ posted' = Tail(posted) /\ broadcast' = Append(broadcast, Head(posted))
    /\ toClient' = [c \in Clients |->
                       IF Contains(m_socketList, c) /\ conn[c] = "connected"
                       THEN toClient[c] \o serialize(Head(posted)) ELSE toClient[c]]
    /\ UNCHANGED <<m_managerList, observing, running, m_socketList, pending, serverBuf,
                   clientVars, toServer, count, notified, joined, got, wrote, pushed>>

\* NETVRemoteClient::readyReadSocket and TcpRemoteClient::messageReady.
ClientReads(c, n) ==
    LET read == Parse(clientBuf[c] \o SubSeq(toClient[c], 1, n))
    IN  /\ conn[c] = "connected" /\ n <= Len(toClient[c])
        /\ toClient' = [toClient EXCEPT ![c] = SubSeq(@, n + 1, Len(@))]
        /\ clientBuf' = [clientBuf EXCEPT ![c] = read.rest]
        /\ m_msgList' = [m_msgList EXCEPT ![c] = @ \o read.messages]
        /\ UNCHANGED <<serverVars, conn, clientPosted, toServer, history>>

\* TcpRemoteClient::recvMessage
recvMessage(c) ==
    /\ m_msgList[c] /= <<>>
    /\ got' = [got EXCEPT ![c] = Append(@, Head(m_msgList[c]))]
    /\ m_msgList' = [m_msgList EXCEPT ![c] = Tail(@)]
    /\ UNCHANGED <<serverVars, conn, clientPosted, clientBuf, streams, count, notified,
                   broadcast, joined, wrote, pushed>>

-----------------------------------------------------------------------------
(* From the clients to the interfaces.                                     *)

\* TcpRemoteClient::sendMessage: it sends writes and answers OK to all else.
sendMessage(c, length, isWrite) ==
    LET msg == <<count.messages + 1, length>>
    IN  /\ conn[c] = "connected" /\ CountMessage
        /\ clientPosted' = IF isWrite THEN [clientPosted EXCEPT ![c] = Append(@, msg)]
                                      ELSE clientPosted
        /\ wrote' = IF isWrite THEN [wrote EXCEPT ![c] = Append(@, msg)] ELSE wrote
        /\ UNCHANGED <<serverVars, conn, clientBuf, m_msgList, streams, notified, broadcast,
                       joined, got, pushed>>

\* NETVRemoteClient::event
ClientEvent(c) ==
    /\ clientPosted[c] /= <<>>
    /\ clientPosted' = [clientPosted EXCEPT ![c] = Tail(@)]
    /\ toServer' = IF conn[c] = "connected"
                   THEN [toServer EXCEPT ![c] = @ \o serialize(Head(clientPosted[c]))]
                   ELSE toServer
    /\ UNCHANGED <<serverVars, conn, clientBuf, m_msgList, toClient, history>>

\* Mutation of readyReadSocket: only the last client that was accepted is read.
readyReadSocketLast(c, n) ==
    LET d == Last(m_socketList)
        arrived == [serverBuf EXCEPT ![c] = @ \o SubSeq(toServer[c], 1, n)]
    IN  /\ running /\ Contains(m_socketList, c) /\ n <= Len(toServer[c])
        /\ toServer' = [toServer EXCEPT ![c] = SubSeq(@, n + 1, Len(@))]
        /\ serverBuf' = [arrived EXCEPT ![d] = Parse(@).rest]
        /\ pushed' = [pushed EXCEPT ![d] = @ \o Parse(arrived[d]).messages]
        /\ UNCHANGED <<m_managerList, observing, running, posted, m_socketList, pending,
                       clientVars, toClient, count, notified, broadcast, joined, got, wrote>>

\* NETVRemoteServer::readyReadSocket: all sockets are read, whichever has data;
\* a message is pushed to the handler of every manager.
readyReadSocket(c, n) ==
    LET arrived == [serverBuf EXCEPT ![c] = @ \o SubSeq(toServer[c], 1, n)]
        read == [d \in Clients |-> IF Contains(m_socketList, d) THEN Parse(arrived[d])
                                   ELSE [rest |-> arrived[d], messages |-> <<>>]]
    IN  /\ running /\ Contains(m_socketList, c) /\ n <= Len(toServer[c])
        /\ toServer' = [toServer EXCEPT ![c] = SubSeq(@, n + 1, Len(@))]
        /\ serverBuf' = [d \in Clients |-> read[d].rest]
        /\ pushed' = [d \in Clients |-> pushed[d] \o read[d].messages]
        /\ UNCHANGED <<m_managerList, observing, running, posted, m_socketList, pending,
                       clientVars, toClient, count, notified, broadcast, joined, got, wrote>>

-----------------------------------------------------------------------------
(* Connections.                                                            *)

\* TcpRemoteClient::initialize makes a NETVRemoteClient, which connects when it is
\* made, and never again; the user may open the device again when the server has
\* forgotten the old socket.
connectToHost(c) ==
    /\ conn[c] = "none" /\ count.connections < MaxConnections
    /\ count' = [count EXCEPT !.connections = @ + 1]
    /\ conn' = [conn EXCEPT ![c] = "connected"]
    /\ got' = [got EXCEPT ![c] = <<>>] /\ wrote' = [wrote EXCEPT ![c] = <<>>]
    /\ pushed' = [pushed EXCEPT ![c] = <<>>]
    /\ UNCHANGED <<serverVars, clientPosted, clientBuf, m_msgList, streams, notified,
                   broadcast, joined>>

\* Mutation of incomingConnection: one socket at a time.
incomingConnectionAlone(c) ==
    /\ running /\ conn[c] /= "none" /\ m_socketList = <<>> /\ pending < MaxPending
    /\ pending' = pending + 1
    /\ m_socketList' = Append(m_socketList, c)
    /\ joined' = [joined EXCEPT ![c] = Len(broadcast)]
    /\ UNCHANGED <<m_managerList, observing, running, posted, serverBuf, clientVars, streams,
                   count, notified, broadcast, got, wrote, pushed>>

\* incomingConnection: addPendingConnection counts the socket as one that
\* nextPendingConnection has not returned yet, and nothing ever calls that.
incomingConnection(c) ==
    /\ running /\ conn[c] /= "none" /\ ~Contains(m_socketList, c) /\ pending < MaxPending
    /\ pending' = pending + 1
    /\ m_socketList' = Append(m_socketList, c)
    /\ joined' = [joined EXCEPT ![c] = Len(broadcast)]
    /\ UNCHANGED <<m_managerList, observing, running, posted, serverBuf, clientVars, streams,
                   count, notified, broadcast, got, wrote, pushed>>

\* The client deletes its device.
close(c) ==
    /\ conn[c] = "connected"
    /\ conn' = [conn EXCEPT ![c] = "closed"]
    /\ clientPosted' = [clientPosted EXCEPT ![c] = <<>>]
    /\ clientBuf' = [clientBuf EXCEPT ![c] = <<>>]
    /\ m_msgList' = [m_msgList EXCEPT ![c] = <<>>]
    /\ toClient' = [toClient EXCEPT ![c] = <<>>]
    /\ UNCHANGED <<serverVars, toServer, history>>

\* socketDisconnected, when everything the client sent has been read: every
\* socket that is not connected leaves the list.
socketDisconnected(c) ==
    /\ running /\ Contains(m_socketList, c) /\ conn[c] = "closed" /\ toServer[c] = <<>>
    /\ LET gone == {d \in Clients : conn[d] = "closed" /\ toServer[d] = <<>>
                                    /\ Contains(m_socketList, d)}
       IN  /\ m_socketList' = Only(m_socketList, Clients \ gone)
           /\ serverBuf' = [d \in Clients |-> IF d \in gone THEN <<>> ELSE serverBuf[d]]
           /\ conn' = [d \in Clients |-> IF d \in gone THEN "none" ELSE conn[d]]
    /\ UNCHANGED <<m_managerList, observing, running, posted, pending, clientPosted, clientBuf,
                   m_msgList, streams, history>>

Next ==
    \/ exec \/ event \/ loadUserPrefs
    \/ \E m \in Managers, length \in Lengths : notifyNETVMessage(m, length)
    \/ \E c \in Clients :
          \/ recvMessage(c) \/ ClientEvent(c) \/ connectToHost(c) \/ incomingConnection(c)
          \/ close(c) \/ socketDisconnected(c)
          \/ \E n \in 1 .. Len(toClient[c]) : ClientReads(c, n)
          \/ \E n \in 1 .. Len(toServer[c]) : readyReadSocket(c, n)
          \/ \E length \in Lengths, isWrite \in BOOLEAN : sendMessage(c, length, isWrite)

\* Event loops and receive threads go on, and TCP delivers.
Fairness ==
    /\ WF_vars(exec) /\ WF_vars(event)
    /\ \A c \in Clients :
          /\ WF_vars(recvMessage(c)) /\ WF_vars(ClientEvent(c))
          /\ WF_vars(incomingConnection(c)) /\ WF_vars(socketDisconnected(c))
          /\ WF_vars(\E n \in 1 .. Len(toClient[c]) : ClientReads(c, n))
          /\ WF_vars(\E n \in 1 .. Len(toServer[c]) : readyReadSocket(c, n))

Spec == Init /\ [][Next]_vars /\ Fairness

-----------------------------------------------------------------------------
\* What the handlers notify is broadcast once each, the messages of a handler
\* in their order, whatever the interleaving of their threads.
NotifiedBroadcastOnce ==
    \A m \in Managers :
        Only(broadcast \o posted, Range(notified[m])) = notified[m]

\* A client gets every message that was broadcast since it was accepted, once
\* and in order, with the bytes cut anywhere by TCP.
ClientMissesNothing ==
    \A c \in Clients :
        conn[c] = "connected" /\ Contains(m_socketList, c) =>
            Bytes(got[c] \o m_msgList[c]) \o clientBuf[c] \o toClient[c]
                = Bytes(SubSeq(broadcast, joined[c] + 1, Len(broadcast)))

\* The writes of a client reach the handlers once each and in order, even
\* those sent just before it leaves, whichever socket had the server read.
WritesArriveInOrder ==
    \A c \in Clients :
        /\ conn[c] = "connected" =>
              Bytes(pushed[c]) \o serverBuf[c] \o toServer[c] \o Bytes(clientPosted[c])
                  = Bytes(wrote[c])
        /\ conn[c] = "closed" => IsPrefix(pushed[c], wrote[c])

Served(c) == conn[c] = "connected" /\ Contains(m_socketList, c)

\* A message with more than MaxData bytes is never taken from a stream, nor is
\* any that follows it.
Readable(messages) == \A i \in DOMAIN messages : Length(messages[i]) <= MaxData

\* Neither direction of a connection loses, repeats or reorders a message.
StreamsExact == ClientMissesNothing /\ WritesArriveInOrder

\* From the handlers to the clients, and back.
ClientsExact == NotifiedBroadcastOnce /\ StreamsExact

\* A client that stays gets everything, and everything it wrote is pushed,
\* as long as no message is too long to be read.
Delivered ==
    \A c \in Clients :
        <>[](Served(c) /\ Readable(broadcast) /\ Readable(wrote[c])) =>
            <>[](/\ got[c] = SubSeq(broadcast, joined[c] + 1, Len(broadcast))
                 /\ pushed[c] = wrote[c])

\* A client that stays connected is accepted, until MaxPending clients have
\* ever connected: the server listens to nobody afterwards.
Accepted ==
    \A c \in Clients : <>[](conn[c] = "connected") => <>[](Served(c) \/ pending = MaxPending)
=============================================================================
