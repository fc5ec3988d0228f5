----------------------------- MODULE SerialLink -----------------------------
(***************************************************************************)
(* The devices that carry messages as a stream of bytes:                   *)
(*   "emulator"  SerialEmulator, talking to a board with NETVArduino;      *)
(*   "bridge"    SerialBridge, talking to a CAN box on a serial line;      *)
(*   "ethernet"  EthernetBridge, talking to a CAN box over TCP.            *)
(* The box is external: it sends back every message it gets.  A serial     *)
(* line may lose, change or add bytes (MaxFaults of them); a TCP stream    *)
(* does not, but is cut in pieces of any size.                             *)
(*                                                                         *)
(* A message is <<kind, cmd, value>>: the fields that select what the peer  *)
(* does with it are one byte (kind), the data is one byte (value).  A byte *)
(* is a number below Base; sums are modulo Base, 256 in the code.          *)
(***************************************************************************)
EXTENDS Integers, FiniteSetsExt, Selection, SequencesExt

CONSTANTS
    Base,        \* values of a byte
    Start,       \* START_BYTE
    Messages,    \* what the program sends
    MemSize,     \* m_size, bytes in the memory table of the board
    NoiseBytes,  \* what a fault may put on the line
    MaxFrames, MaxFaults   \* bounds of the model: frames on both lines, faults

Kinds == 0 .. 4
Alive == 0        \* EVENTS, CMD_ALIVE
Read  == 1        \* REQUEST_DATA, NETV_REQUEST_READ, with RTR
Write == 2        \* REQUEST_DATA, NETV_REQUEST_WRITE
Data  == 3        \* the answer to Read, and updateVariable
Here  == 4        \* the answer to Alive

\* START_BYTE shows up in no other place of a frame.
ASSUME LinkAssumption ==
    /\ Base \in Nat /\ Start \in 5 .. Base - 1
    /\ NoiseBytes \subseteq 0 .. Base - 1
    /\ MemSize \in Nat \ {0}
    /\ Messages \subseteq {Alive, Read, Write} \X Nat \X (0 .. Base - 1)
    /\ {MaxFrames, MaxFaults} \subseteq Nat

VARIABLES
    device,      \* the device that was opened
    clock,       \* m_openTime.elapsed(): it starts again from 0 every day
    sendEvents,  \* send events on their way to the GUI thread
    down, up,    \* bytes on the line to the peer, and back
    port,        \* bytes read from the line and not yet used, in the host
    boardPort,   \* the same in the peer
    memory,      \* m_table
    m_recvQueue, permits,  \* received frames and m_recvSemaphore
    acquired,    \* recvMessage is after its tryAcquire
    faults,      \* faults so far                                (history)
    reads,       \* reads of whole frames since the last fault   (history)
    aligned,     \* every TCP read ended at a message boundary   (history)
    sent,        \* messages written to the line                 (history)
    seen,        \* messages taken by the peer                   (history)
    answers,     \* messages written by the peer                 (history)
    received,    \* messages given to the caller of recvMessage  (history)
    updates      \* updateVariable calls: <<offset, result>>     (history)

hostVars    == <<clock, sendEvents, port, m_recvQueue, permits, acquired>>
boardVars   == <<boardPort, memory>>
lineHistory == <<faults, reads, aligned, sent, seen, answers, received, updates>>
lineVars    == <<device, down, up, hostVars, boardVars, lineHistory>>

\* Bounds of the model: a day of two ticks, messages sent in the second.
Delay == 0
Day   == 2

\* Bound of the model: the frames that the program's messages make, with their
\* answers, and those of updateVariable.
Frames(m) == IF device /= "emulator" \/ m[1] \in {Alive, Read} THEN 2 ELSE 1
Load == FoldSeq(LAMBDA m, n : n + Frames(m), Len(updates), sent \o sendEvents)

FrameLen == IF device = "emulator" THEN 5 ELSE 3

\* serial_calculate_checksum, of the host and of the board.
serial_calculate_checksum(bytes) ==
    (bytes[1] + bytes[2] + bytes[3] + bytes[4]) % Base

\* The bytes of a message (event of the devices, send of the board).
Frame(m) ==
    IF device = "emulator"
    THEN LET body == <<Start>> \o m IN body \o <<serial_calculate_checksum(body)>>
    ELSE m

\* Mutation of Valid: the checksum is not looked at.
ValidStart(bytes) == bytes[1] = Start

\* A frame is taken when it starts with START_BYTE and its sum is right.
Valid(bytes) == bytes[1] = Start /\ serial_calculate_checksum(bytes) = bytes[5]

\* The message of a frame (recvMessage).
Message(bytes) == IF device = "emulator" THEN SubSeq(bytes, 2, 4) ELSE bytes

\* The frames of messages, the messages of frames, and the bytes of messages.
Framed(messages)  == [i \in DOMAIN messages |-> Frame(messages[i])]
Unframed(frames)  == [i \in DOMAIN frames |-> Message(frames[i])]
Stream(messages)  == FlattenSeq(Framed(messages))

DropToStart(bytes) ==
    LET starts == {i \in DOMAIN bytes : bytes[i] = Start}
    IN  IF starts = {} THEN <<>> ELSE SubSeq(bytes, Min(starts), Len(bytes))

\* The bytes cut in frames of the given length, the last one short or empty.
Cut(bytes, length) ==
    [i \in 1 .. Len(bytes) \div length |->
        SubSeq(bytes, (i - 1) * length + 1, i * length)]
Rest(bytes, length) == SubSeq(bytes, (Len(bytes) \div length) * length + 1, Len(bytes))

\* A device that could be opened; m_openTime starts.
SerialEmulator_initialize == device = "emulator" /\ clock = 0
SerialBridge_initialize   == device = "bridge" /\ clock = 0
EthernetBridge_initialize == device = "ethernet" /\ clock = 0

LineInit ==
    /\ SerialEmulator_initialize \/ SerialBridge_initialize \/ EthernetBridge_initialize
    /\ sendEvents = <<>> /\ down = <<>> /\ up = <<>>
    /\ port = <<>> /\ boardPort = <<>>
    /\ memory = [i \in 0 .. MemSize - 1 |-> 0]
    /\ m_recvQueue = <<>> /\ permits = 0 /\ acquired = FALSE
    /\ faults = 0 /\ reads = 0 /\ aligned = TRUE
    /\ sent = <<>> /\ seen = <<>> /\ answers = <<>> /\ received = <<>> /\ updates = <<>>

-----------------------------------------------------------------------------
(* Sending: the send thread posts, the GUI thread writes.                  *)

\* QTime::elapsed goes back to 0 after 24 hours.
Tick ==
    /\ device = "emulator"
    /\ clock' = (clock + 1) % Day
    /\ UNCHANGED <<device, down, up, sendEvents, port, m_recvQueue, permits, acquired,
                   boardVars, lineHistory>>

\* SerialEmulator answers OK to messages that it discards.
SerialEmulator_sendMessage(m) ==
    /\ device = "emulator"
    /\ sendEvents' = IF clock <= Delay THEN sendEvents ELSE Append(sendEvents, m)

SerialBridge_sendMessage(m) == device = "bridge" /\ sendEvents' = Append(sendEvents, m)

EthernetBridge_sendMessage(m) == device = "ethernet" /\ sendEvents' = Append(sendEvents, m)

Device_sendMessage(m) ==
    /\ Load + Frames(m) <= MaxFrames
    /\ \/ SerialEmulator_sendMessage(m)
       \/ SerialBridge_sendMessage(m)
       \/ EthernetBridge_sendMessage(m)
    /\ UNCHANGED <<device, down, up, clock, port, m_recvQueue, permits, acquired,
                   boardVars, lineHistory>>

\* event: the frame is written and flushed.
Device_event ==
    /\ sendEvents /= <<>>
    /\ down' = down \o Frame(Head(sendEvents))
    /\ sent' = Append(sent, Head(sendEvents))
    /\ sendEvents' = Tail(sendEvents)
    /\ UNCHANGED <<device, up, clock, port, m_recvQueue, permits, acquired, boardVars,
                   faults, reads, aligned, seen, answers, received, updates>>

-----------------------------------------------------------------------------
(* The peer.                                                               *)

\* Mutation of transceiver: the whole rest of the buffer is dropped after a
\* bad checksum.
transceiverDropping(bytes) ==
    LET from[p \in 0 .. Len(bytes)] ==
            IF Len(bytes) - p < FrameLen
            THEN [rest |-> SubSeq(bytes, p + 1, Len(bytes)), frames |-> <<>>]
            ELSE IF bytes[p + 1] /= Start THEN from[p + 1]
            ELSE LET frame == SubSeq(bytes, p + 1, p + FrameLen)
                 IN  IF ~Valid(frame) THEN from[Len(bytes)]
                     ELSE LET then == from[p + FrameLen]
                          IN  [rest |-> then.rest, frames |-> <<frame>> \o then.frames]
    IN  from[0]

\* NETVArduino::transceiver: bytes are skipped to a START_BYTE; after a bad
\* checksum one more byte is read, which may be the next START_BYTE.
transceiver(bytes) ==
    LET from[p \in 0 .. Len(bytes)] ==
            IF Len(bytes) - p < FrameLen
            THEN [rest |-> SubSeq(bytes, p + 1, Len(bytes)), frames |-> <<>>]
            ELSE IF bytes[p + 1] /= Start THEN from[p + 1]
            ELSE LET frame == SubSeq(bytes, p + 1, p + FrameLen)
                 IN  IF ~Valid(frame) THEN from[Min({p + FrameLen + 1, Len(bytes)})]
                     ELSE LET then == from[p + FrameLen]
                          IN  [rest |-> then.rest, frames |-> <<frame>> \o then.frames]
    IN  from[0]

\* NETVArduino::process_message: board is [memory, out].
process_message(board, frame) ==
    LET m == Message(frame)
    IN  CASE m[1] = Alive -> [board EXCEPT !.out = Append(@, <<Here, m[2], 0>>)]
          [] m[1] = Read /\ m[2] < MemSize ->
                [board EXCEPT !.out = Append(@, <<Data, m[2], board.memory[m[2]]>>)]
          [] m[1] = Write /\ m[2] < MemSize -> [board EXCEPT !.memory[m[2]] = m[3]]
          [] OTHER -> board

\* The board after the frames that it took.
Processed(frames) ==
    LET board[n \in 0 .. Len(frames)] ==
            IF n = 0 THEN [memory |-> memory, out |-> <<>>]
            ELSE process_message(board[n - 1], frames[n])
    IN  board[Len(frames)]

\* One piece of the line arrives, with at most one fault in it: a byte lost,
\* changed or added.
Faulty(bytes) ==
    UNION { {RemoveAt(bytes, i)}
            \cup {ReplaceAt(bytes, i, b) : b \in NoiseBytes \ {bytes[i]}}
            \cup {InsertAt(bytes, i, b) : b \in NoiseBytes} : i \in DOMAIN bytes }

MayFail == faults < MaxFaults /\ device /= "ethernet"

\* The board reads a piece of the line and answers.
BoardReads(piece) ==
    LET taken == transceiver(boardPort \o piece)
        board == Processed(taken.frames)
    IN  /\ device = "emulator"
        /\ boardPort' = taken.rest
        /\ memory' = board.memory
        /\ seen' = seen \o Unframed(taken.frames)
        /\ up' = up \o Stream(board.out)
        /\ answers' = answers \o board.out

\* The box sends back what it gets.
BoxReads(piece) ==
    LET got == Cut(boardPort \o piece, FrameLen)
    IN  /\ device /= "emulator"
        /\ boardPort' = Rest(boardPort \o piece, FrameLen)
        /\ seen' = seen \o got
        /\ up' = up \o FlattenSeq(got)
        /\ answers' = answers \o got
        /\ UNCHANGED memory

PeerReads(n) ==
    /\ n <= Len(down)
    /\ down' = SubSeq(down, n + 1, Len(down))
    /\ LET piece == SubSeq(down, 1, n)
       IN  \/ BoardReads(piece) /\ UNCHANGED faults
           \/ BoxReads(piece) /\ UNCHANGED faults
           \/ /\ MayFail
              /\ faults' = faults + 1
              /\ \E bad \in Faulty(piece) : BoardReads(bad)
    /\ UNCHANGED <<device, hostVars, reads, aligned, sent, received, updates>>

\* NETVArduino::updateVariable, for the byte at an offset of the table that the
\* board's program just changed: it refuses every offset but the first.
updateVariable(offset, v) ==
    LET result == offset <= 0 /\ offset + 1 < MemSize
    IN  /\ device = "emulator" /\ Load < MaxFrames
        /\ memory' = [memory EXCEPT ![offset] = v]
        /\ updates' = Append(updates, <<offset, result>>)
        /\ up' = IF result THEN up \o Frame(<<Data, offset, v>>) ELSE up
        /\ answers' = IF result THEN Append(answers, <<Data, offset, v>>) ELSE answers
        /\ UNCHANGED <<device, down, hostVars, boardPort, faults, reads, aligned,
                       sent, seen, received>>

-----------------------------------------------------------------------------
(* Receiving: the GUI thread cuts the stream, the receive thread takes the *)
(* frames.                                                                 *)

OnlyValid(frames) == Only(frames, {bytes \in Range(frames) : Valid(bytes)})

\* Mutation of EmulatorReads: a frame with a bad sum is looked at again from
\* its second byte, but the bytes after the last whole frame are forgotten.
EmulatorReadsForgetting(bytes) ==
    [rest |-> <<>>, frames |-> OnlyValid(Cut(DropToStart(bytes), FrameLen))]

\* SerialEmulator::serialReadyRead: flush to START_BYTE, then cut in frames at
\* a fixed stride and drop the bad ones.
EmulatorReads(bytes) ==
    LET synced == DropToStart(bytes)
    IN  [rest |-> Rest(synced, FrameLen), frames |-> OnlyValid(Cut(synced, FrameLen))]

\* SerialBridge::serialReadyRead: whole frames, no synchronisation.
BridgeReads(bytes) ==
    [rest |-> Rest(bytes, FrameLen), frames |-> Cut(bytes, FrameLen)]

\* EthernetBridge::socketReadyRead: all bytes are taken; the last frame may be
\* short, its missing bytes are whatever follows the buffer.
EthernetReads(bytes, tail) ==
    [rest |-> <<>>,
     frames |-> Cut(bytes, FrameLen)
                \o IF tail = <<>> THEN <<>> ELSE <<Rest(bytes, FrameLen) \o tail>>]

\* Mutation of Queue: one permit for all the frames of a read.
QueueOnePermit(result) ==
    /\ port' = result.rest
    /\ m_recvQueue' = m_recvQueue \o result.frames
    /\ permits' = IF device = "ethernet" THEN permits ELSE permits + Min({1, Len(result.frames)})

\* The frames join the queue, with a permit each where there is a semaphore.
Queue(result) ==
    /\ port' = result.rest
    /\ m_recvQueue' = m_recvQueue \o result.frames
    /\ permits' = IF device = "ethernet" THEN permits ELSE permits + Len(result.frames)

HostReads(piece) ==
    \/ device = "emulator" /\ Queue(EmulatorReads(port \o piece)) /\ UNCHANGED aligned
    \/ device = "bridge" /\ Queue(BridgeReads(port \o piece)) /\ UNCHANGED aligned
    \/ /\ device = "ethernet"
       /\ aligned' = (aligned /\ Len(piece) % FrameLen = 0)
       /\ \E tail \in [1 .. (-Len(piece)) % FrameLen -> NoiseBytes] :
             Queue(EthernetReads(piece, tail))

serialReadyRead(n) ==
    /\ n <= Len(up)
    /\ up' = SubSeq(up, n + 1, Len(up))
    /\ LET piece == SubSeq(up, 1, n)
       IN  \/ /\ HostReads(piece)
              /\ reads' = IF faults > 0 /\ Len(port') < Len(port) + n THEN Min({2, reads + 1})
                                                                     ELSE reads
              /\ UNCHANGED faults
           \/ /\ MayFail
              /\ faults' = faults + 1 /\ reads' = 0
              /\ \E bad \in Faulty(piece) : HostReads(bad)
    /\ UNCHANGED <<device, down, clock, sendEvents, acquired, boardVars,
                   sent, seen, answers, received, updates>>

\* recvMessage takes a permit first, without the mutex; EthernetBridge has none.
SerialEmulator_recvMessage == device = "emulator" /\ permits > 0 /\ permits' = permits - 1
SerialBridge_recvMessage   == device = "bridge" /\ permits > 0 /\ permits' = permits - 1
EthernetBridge_recvMessage == device = "ethernet" /\ UNCHANGED permits

tryAcquire ==
    /\ ~acquired
    /\ acquired' = TRUE
    /\ SerialEmulator_recvMessage \/ SerialBridge_recvMessage \/ EthernetBridge_recvMessage
    /\ UNCHANGED <<device, down, up, clock, sendEvents, port, m_recvQueue, boardVars, lineHistory>>

\* Then it looks at the queue, under its mutex.  An empty queue gives OVERFLOW or UNDERFLOW.
Device_recvMessage ==
    /\ acquired
    /\ acquired' = FALSE
    /\ m_recvQueue' = IF m_recvQueue = <<>> THEN <<>> ELSE Tail(m_recvQueue)
    /\ received' = IF m_recvQueue = <<>> THEN received
                   ELSE Append(received, Message(Head(m_recvQueue)))
    /\ UNCHANGED <<device, down, up, clock, sendEvents, port, permits, boardVars,
                   faults, reads, aligned, sent, seen, answers, updates>>

LineNext ==
    \/ Tick \/ Device_event \/ tryAcquire \/ Device_recvMessage
    \/ \E m \in Messages : Device_sendMessage(m)
    \/ \E n \in 1 .. Len(down) : PeerReads(n)
    \/ \E n \in 1 .. Len(up) : serialReadyRead(n)
    \/ \E offset \in 0 .. MemSize - 1 : updateVariable(offset, 1)

\* The event loop, the board's loop and the receive thread go on.
LineFairness ==
    /\ WF_lineVars(Device_event) /\ WF_lineVars(tryAcquire) /\ WF_lineVars(Device_recvMessage)
    /\ WF_lineVars(\E n \in 1 .. Len(down) : PeerReads(n))
    /\ WF_lineVars(\E n \in 1 .. Len(up) : serialReadyRead(n))

LineSpec == LineInit /\ [][LineNext]_lineVars /\ LineFairness

-----------------------------------------------------------------------------
Undisturbed == faults = 0 /\ aligned

IsSubSequence(s, t) ==
    LET used[i \in 0 .. Len(s)] ==   \* how much of t the first i elements need
            IF i = 0 THEN 0
            ELSE LET later == {j \in used[i - 1] + 1 .. Len(t) : t[j] = s[i]}
                 IN  IF used[i - 1] > Len(t) \/ later = {} THEN Len(t) + 1 ELSE Min(later)
    IN  used[Len(s)] <= Len(t)

\* A semaphore permit stands for a queued frame, so recvMessage never finds the
\* queue empty after tryAcquire although it does both without the mutex.
PermitFindsFrame ==
    device /= "ethernet" =>
        Len(m_recvQueue) = permits + (IF acquired THEN 1 ELSE 0)

\* Frames damaged on the line are never taken for messages: with one fault at
\* most, what arrives is what was written, in order, with messages missing only.
NothingInvented ==
    device = "emulator" =>
        /\ IsSubSequence(seen, sent)
        /\ IsSubSequence(received, answers)

\* On a clean line nothing is lost, repeated or reordered on the way to the
\* peer and back, whatever the pieces the stream is cut in.
ExactWhenClean ==
    Undisturbed =>
        /\ Stream(seen) \o boardPort \o down = Stream(sent)
        /\ Stream(received \o Unframed(m_recvQueue))
              \o port \o up = Stream(answers)

\* What the threads, the framing and the buffers of the devices promise for any
\* messages and any number of faults.
LinkExact == PermitFindsFrame /\ ExactWhenClean

\* SerialEmulator finds the frames again: the second time that it uses bytes
\* after a fault, what it keeps and what follows is a run of whole frames.
Resynchronised ==
    faults > 0 /\ reads = 2 =>
        \E j \in 0 .. Len(answers) :
            DropToStart(port \o up) = Stream(SubSeq(answers, j + 1, Len(answers)))

\* A fault costs the board at most two messages: the damaged one, and the next
\* one, whose START_BYTE it may have read as part of the damaged one.
LossBounded ==
    LET pending == Len(boardPort \o down)
    IN  Len(sent) - Len(seen) - (pending + FrameLen - 1) \div FrameLen <= 2 * faults

\* After a fault both ends of the line to the board find the frames again, at
\* the cost of a bounded number of messages.
FaultContained == device = "emulator" => Resynchronised /\ LossBounded

\* Without faults every message that was not discarded reaches the peer, and
\* every answer the program.
AllArrives ==
    [](Undisturbed) => <>[](sendEvents = <<>> /\ seen = sent /\ received = answers)

\* socketReadyRead asserts that a TCP read ends at a message boundary
\* (EthernetBridge.cpp:138-140).
EthernetReadsAligned == aligned

\* A variable contained in the memory map is sent by updateVariable
\* (NETVArduino.h:106-111).
ContainedVariableSent == \A i \in DOMAIN updates : updates[i][2]
=============================================================================
