------------------------------ MODULE Messages ------------------------------
(***************************************************************************)
(* A message of the netcore stack (NETVMessage, a CANMessage with named     *)
(* fields in its 29-bit identifier) and the way the drivers put the same   *)
(* fields on a CAN bus and take them off again.  Each driver packs them    *)
(* with masks of its own: SocketCAN, the two PCAN drivers, and the bridges, *)
(* whose box splits the identifier in a standard part (SID) and an         *)
(* extended part (EID).  Data bytes are left out, their number is not.     *)
(***************************************************************************)
EXTENDS Integers

CONSTANTS
    Given,     \* what the setters are given, per field: bytes
    Sizes      \* sizes of payloads

MessagesAssumption == Sizes \subseteq Nat

VARIABLES
    m_eid,
    m_flags,   \* a subset of {"RTR", "Extended", "Error", "Invalid"}
    m_data,    \* the size of the payload
    last,      \* what each field was set to last                  (history)
    tooLong    \* a payload was too long since flags were replaced (history)

vars == <<m_eid, m_flags, m_data, last, tooLong>>

\* Mutation of Fields: the mask of the type is one bit short.
FieldsNarrow == [priority |-> <<26, 3>>, type |-> <<18, 7>>, boot |-> <<16, 2>>,
                 cmd |-> <<8, 8>>, dest |-> <<0, 8>>]

\* The masks of NETVMessage: first bit and width of each field.
Fields == [priority |-> <<26, 3>>, type |-> <<18, 8>>, boot |-> <<16, 2>>,
           cmd |-> <<8, 8>>, dest |-> <<0, 8>>]

\* The getters: (m_eid & mask) >> first bit.
Get(eid, f) == (eid \div 2^Fields[f][1]) % 2^Fields[f][2]

\* (v << first bit) & mask
Masked(f, v) == (v % 2^Fields[f][2]) * 2^Fields[f][1]

\* The setters: clear the mask, then set what is given.
Set(eid, f, v) == eid - Masked(f, Get(eid, f)) + Masked(f, v)

\* The masks have no bit in common, so that or is a sum.
setEID(values) ==
    Masked("priority", values.priority) + Masked("type", values.type)
      + Masked("boot", values.boot) + Masked("cmd", values.cmd) + Masked("dest", values.dest)

MaxPayloadSize == 8

\* validityCheck marks a message; nothing but the caller takes the mark away.
validityCheck(flags, size) == IF size > MaxPayloadSize THEN flags \cup {"Invalid"} ELSE flags

isValid == "Invalid" \notin m_flags

Init ==
    /\ m_eid = 0 /\ m_flags = {"Extended"} /\ m_data = 0
    /\ last = [f \in DOMAIN Fields |-> 0] /\ tooLong = FALSE

-----------------------------------------------------------------------------
\* setPriority, setType, setBootFlags, setCommand, setDestination
SetField(f, v) ==
    /\ m_eid' = Set(m_eid, f, v)
    /\ last' = [last EXCEPT ![f] = v]
    /\ UNCHANGED <<m_flags, m_data, tooLong>>

\* A message made of fields, flags and a payload.
NETVMessage(values, flags, size) ==
    /\ m_eid' = setEID(values) /\ last' = values
    /\ m_flags' = validityCheck(flags \cup {"Extended"}, size)
    /\ m_data' = size
    /\ tooLong' = (size > MaxPayloadSize)

\* A copy (clone): the check is made again.
Copy ==
    /\ m_flags' = validityCheck(m_flags, m_data)
    /\ tooLong' = (tooLong \/ m_data > MaxPayloadSize)
    /\ UNCHANGED <<m_eid, m_data, last>>

setFlags(flags) ==
    /\ m_flags' = flags
    /\ tooLong' = ("Invalid" \in flags)
    /\ UNCHANGED <<m_eid, m_data, last>>

clearFlags(flags) ==
    /\ m_flags' = m_flags \ flags
    /\ tooLong' = (tooLong /\ "Invalid" \notin flags)
    /\ UNCHANGED <<m_eid, m_data, last>>

setPayload(size) ==
    /\ m_data' = size
    /\ m_flags' = validityCheck(m_flags, size)
    /\ tooLong' = (tooLong \/ size > MaxPayloadSize)
    /\ UNCHANGED <<m_eid, last>>

Next ==
    \/ \E f \in DOMAIN Fields : \E v \in Given[f] : SetField(f, v)
    \/ \E v \in Given["type"], size \in Sizes :
          NETVMessage([last EXCEPT !.type = v], {"RTR"}, size)
    \/ Copy
    \/ \E flags \in SUBSET {"RTR", "Invalid"} : setFlags(flags) \/ clearFlags(flags)
    \/ \E size \in Sizes : setPayload(size)

Spec == Init /\ [][Next]_vars

-----------------------------------------------------------------------------
(* The drivers: a NETV_MESSAGE goes to the bus and comes from it.           *)

\* A message as the legacy stack has it: a byte per field.
Message(fields, remote, size) ==
    [priority |-> fields.priority, type |-> fields.type, boot |-> fields.boot,
     cmd |-> fields.cmd, dest |-> fields.dest, remote |-> remote, data_length |-> size]

FieldsOf(id) == [f \in DOMAIN Fields |-> Get(id, f)]

NETV_MESSAGE == Message(FieldsOf(m_eid), "RTR" \in m_flags, m_data)

Identity(message) == setEID(message)

\* A default message, which recvMessage fills.
NoMessage == Message([f \in DOMAIN Fields |-> 0], FALSE, 0)

SocketCAN_sendMessage(message) ==
    [id |-> Identity(message), rtr |-> message.remote, dlc |-> message.data_length]

PCANDevice_sendMessage(message) ==
    [id |-> Identity(message), rtr |-> message.remote, dlc |-> message.data_length]

\* The registers of the box; what it puts on the bus is SID and EID.
SerialBridge_event(message) ==
    LET SID == Identity(message) \div 2^18
        EID == Identity(message) % 2^18
    IN  [id |-> SID * 2^18 + EID, rtr |-> message.remote, dlc |-> message.data_length]

EthernetBridge_event(message) == SerialBridge_event(message)

SocketCAN_recvMessage(frame) == Message(FieldsOf(frame.id), frame.rtr, frame.dlc)

\* The one for Linux: a remote request has no data.
PCANDeviceLinux_recvMessage(frame) ==
    Message(FieldsOf(frame.id), frame.rtr, IF frame.rtr THEN 0 ELSE frame.dlc)

\* The one for Windows looks for the type of frame "extended" alone: a remote
\* request leaves the message as it is.
PCANDevice_recvMessage(frame) ==
    IF frame.rtr THEN NoMessage ELSE PCANDeviceLinux_recvMessage(frame)

\* Fields are taken from SID and EID, each with its own shifts.
SerialBridge_recvMessage(frame) ==
    LET SID == frame.id \div 2^18
        EID == frame.id % 2^18
    IN  [priority |-> (SID \div 2^8) % 8, type |-> SID % 2^8, boot |-> (EID \div 2^16) % 4,
         cmd |-> (EID \div 2^8) % 2^8, dest |-> EID % 2^8,
         remote |-> frame.rtr, data_length |-> frame.dlc]

EthernetBridge_recvMessage(frame) == SerialBridge_recvMessage(frame)

Sent(message) ==
    {SocketCAN_sendMessage(message), PCANDevice_sendMessage(message),
     SerialBridge_event(message), EthernetBridge_event(message)}

-----------------------------------------------------------------------------
\* Every field has what it was set to last, cut to its width, whatever was done
\* to the others since.
FieldsKept ==
    \A f \in DOMAIN Fields :
        Get(m_eid, f) = last[f] % (CASE f = "priority" -> 8 [] f = "boot" -> 4 [] OTHER -> 256)

\* A message is invalid for ever once its payload was too long, even when it has
\* a short one again, until the caller replaces the flags.
InvalidSticks == tooLong => ~isValid

\* Messages that fit mean the same to every driver on the bus, whichever sent
\* them, and the same as the identifier of the netcore stack; only requests
\* that reach PCAN on Windows are lost: the message received is empty.
SameOnEveryDriver ==
    m_data <= MaxPayloadSize =>
        \A frame \in Sent(NETV_MESSAGE) :
            /\ frame.id = m_eid
            /\ SocketCAN_recvMessage(frame) = NETV_MESSAGE
            /\ SerialBridge_recvMessage(frame) = NETV_MESSAGE
            /\ EthernetBridge_recvMessage(frame) = NETV_MESSAGE
            /\ IF NETV_MESSAGE.remote
               THEN /\ PCANDevice_recvMessage(frame) = NoMessage
                    /\ PCANDeviceLinux_recvMessage(frame) = [NETV_MESSAGE EXCEPT !.data_length = 0]
               ELSE /\ PCANDevice_recvMessage(frame) = NETV_MESSAGE
                    /\ PCANDeviceLinux_recvMessage(frame) = NETV_MESSAGE

\* What a program puts in a message is what all others take out of it.
MessagesCarried == FieldsKept /\ InvalidSticks /\ SameOnEveryDriver
=============================================================================
