------------------------- MODULE Bootloader_proofs -------------------------
(***************************************************************************)
(* What the plugin sends and what the module gets, for every set of        *)
(* modules and documents and every interleaving of the user, the timers,   *)
(* the manager's modules and the bus.                                      *)
(*                                                                         *)
(* Both theorems follow the messages on the wire, first those on their way *)
(* back, then those on their way to the module: their places in the upload *)
(* ascend.  As long as nothing was sent again they ascend strictly and the *)
(* only one that is not the command that starts the bootloader is the      *)
(* front of the queue (OneAtATime).  When something was, they are the      *)
(* front of the queue and the message before it, and the module has got    *)
(* everything before the front (InStep): a late feedback of the message    *)
(* before the front is another message, unless two equal rows follow each  *)
(* other.                                                                  *)
(***************************************************************************)
EXTENDS Bootloader, SequenceLemmas

\* The places of the messages ascend, by k at least.
Spread(s, k) == \A i, j \in 1 .. Len(s) : i < j => s[i].pos + k <= s[j].pos
Before(S, T, k) == \A m \in S, n \in T : m.pos + k <= n.pos
Wire(back, there, k) ==
    Spread(back, k) /\ Spread(there, k) /\ Before(Range(back), Range(there), k)

\* The queue is what is left of an upload; its last message is not the first one.
QueueInOrder ==
    /\ \A i \in 1 .. Len(msgQueue) :
          /\ msgQueue[i].pos = msgQueue[1].pos + i - 1
          /\ msgQueue[i].cmd = "program" <=> msgQueue[i].pos = 0
    /\ msgQueue # <<>> => msgQueue[Len(msgQueue)].pos # 0

\* The command that starts the bootloader is the first message, and no module sends
\* it back.
Commands ==
    /\ \A m \in Range(toModule) : m.cmd = "program" <=> m.pos = 0
    /\ \A m \in Range(feedback) : m.pos # 0

OneAtATime ==
    /\ ~repeated
    /\ Wire(feedback, toModule, 1)
    /\ \A m \in Range(toModule) : m.pos = 0 \/ m.pos > received
    /\ msgQueue # <<>> =>
         /\ received <= Head(msgQueue).pos
         /\ \A m \in Range(toModule) \cup Range(feedback) : m.pos \in {0, Head(msgQueue).pos}

\* The message at place p of the upload of a document.
Part(doc, dest, p) == UploadQueue(doc, dest)[p + 1]

\* A message is the one at its place, but for the time it was received.
IsPart(m, doc, dest) ==
    /\ m.pos \in 0 .. Len(doc) + 4
    /\ m = [Part(doc, dest, m.pos) EXCEPT !.timestamp = m.timestamp]

InStepAt(front, dest) ==
    /\ front \in 0 .. Len(document) + 4
    /\ Len(msgQueue) = Len(document) + 5 - front
    /\ \A i \in 1 .. Len(msgQueue) : msgQueue[i] = Part(document, dest, front + i - 1)
    /\ received <= front /\ front <= received + 1
    /\ \A m \in Range(toModule) \cup Range(feedback) :
          IsPart(m, document, dest) /\ m.pos <= front /\ front <= m.pos + 1
    /\ \A m \in Range(feedback) : m.pos <= received
    /\ Wire(feedback, toModule, 0)

InStep ==
    /\ connected /\ observing
    /\ \E front \in Nat, dest \in Modules : InStepAt(front, dest)

\* The rows of a document differ from the next one: an erased page has equal ones.
NeighboursDiffer == \A doc \in Documents : \A i \in 1 .. Len(doc) - 1 : doc[i] # doc[i + 1]

StepInv ==
    /\ observing => uploading
    /\ uploading => InStep
-----------------------------------------------------------------------------
(* The messages on the wire.                                               *)

LEMMA SpreadEmpty == \A k : Spread(<<>>, k)
  BY DEF Spread

\* Without its head a sequence is spread as before, and the head is before the rest.
LEMMA SpreadTail ==
    ASSUME NEW s \in Seq(Messages), s # <<>>, NEW k \in {0, 1}, Spread(s, k)
    PROVE  Spread(Tail(s), k) /\ Before({Head(s)}, Range(Tail(s)), k)
  <1> DEFINE t == Tail(s)
             n == Len(t)
  <1>1. /\ Len(s) = n + 1 /\ n \in Nat /\ t \in Seq(Messages) /\ Head(s) = s[1]
        /\ \A i \in 1 .. n : t[i] = s[i + 1]
    OBVIOUS
  <1> HIDE DEF t
  <1>2. \A i \in 1 .. n : i + 1 \in 1 .. Len(s) /\ 1 \in 1 .. Len(s) /\ 1 < i + 1
    BY <1>1
  <1>3. ASSUME NEW i \in 1 .. n, NEW j \in 1 .. n, i < j
        PROVE  t[i].pos + k <= t[j].pos
    BY <1>1, <1>2, <1>3, SMTT(30) DEF Spread
  <1>4. ASSUME NEW m \in Range(t)
        PROVE  Head(s).pos + k <= m.pos
    <2>1. PICK i \in 1 .. n : t[i] = m
      BY <1>1, InRange
    <2> QED BY <1>1, <1>2, <2>1 DEF Spread
  <1> QED BY <1>3, <1>4 DEF Spread, Before, t

\* A message after all others can be appended.
LEMMA SpreadAppend ==
    ASSUME NEW s \in Seq(Messages), NEW e \in Messages, NEW k \in {0, 1}, Spread(s, k),
           Before(Range(s), {e}, k)
    PROVE  Spread(Append(s, e), k)
  <1> DEFINE t == Append(s, e)
             n == Len(s)
  <1>1. /\ Len(t) = n + 1 /\ n \in Nat /\ t[n + 1] = e
        /\ \A i \in 1 .. n : t[i] = s[i]
    OBVIOUS
  <1>2. \A i \in 1 .. n : s[i] \in Range(s)
    BY InRange
  <1> HIDE DEF t, n
  <1>3. ASSUME NEW i \in 1 .. Len(t), NEW j \in 1 .. Len(t), i < j
        PROVE  t[i].pos + k <= t[j].pos
    <2>1. i \in 1 .. n /\ (j \in 1 .. n \/ j = n + 1)
      BY <1>1, <1>3
    <2>2. CASE j \in 1 .. n
      BY <1>1, <1>3, <2>1, <2>2 DEF Spread, n
    <2>3. CASE j = n + 1
      BY <1>1, <1>2, <2>1, <2>3 DEF Before
    <2> QED BY <2>1, <2>2, <2>3
  <1> QED BY <1>3 DEF Spread, t

LEMMA WireEmpty == \A k : Wire(<<>>, <<>>, k)
  BY SpreadEmpty, RangeEmpty DEF Wire, Before

\* The first message on its way back comes, or is lost.
LEMMA WireFeedback ==
    ASSUME NEW back \in Seq(Messages), NEW there \in Seq(Messages), NEW k \in {0, 1},
           Wire(back, there, k), back # <<>>
    PROVE  /\ Wire(Tail(back), there, k)
           /\ Before({Head(back)}, Range(Tail(back)) \cup Range(there), k)
  <1>1. Spread(Tail(back), k) /\ Before({Head(back)}, Range(Tail(back)), k)
    BY SpreadTail DEF Wire
  <1>2. Range(back) = {Head(back)} \cup Range(Tail(back))
    BY HeadAndTail
  <1> QED BY <1>1, <1>2 DEF Wire, Before

\* The first message on its way to the module is lost, or not sent back.
LEMMA WireDrop ==
    ASSUME NEW back \in Seq(Messages), NEW there \in Seq(Messages), NEW k \in {0, 1},
           Wire(back, there, k), there # <<>>
    PROVE  /\ Wire(back, Tail(there), k)
           /\ Before({Head(there)}, Range(Tail(there)), k)
  <1>1. Spread(Tail(there), k) /\ Before({Head(there)}, Range(Tail(there)), k)
    BY SpreadTail DEF Wire
  <1>2. Range(there) = {Head(there)} \cup Range(Tail(there))
    BY HeadAndTail
  <1> QED BY <1>1, <1>2 DEF Wire, Before

\* The first message on its way to the module is sent back.
LEMMA WireBack ==
    ASSUME NEW back \in Seq(Messages), NEW there \in Seq(Messages), NEW k \in {0, 1},
           Wire(back, there, k), there # <<>>,
           NEW e \in Messages, e.pos = Head(there).pos
    PROVE  Wire(Append(back, e), Tail(there), k)
  <1>1. Spread(Tail(there), k) /\ Before({Head(there)}, Range(Tail(there)), k)
    BY SpreadTail DEF Wire
  <1>2. Range(there) = {Head(there)} \cup Range(Tail(there))
    BY HeadAndTail
  <1>3. Before(Range(back), {e}, k)
    BY <1>2 DEF Wire, Before
  <1>4. Spread(Append(back, e), k)
    BY <1>3, SpreadAppend DEF Wire
  <1>5. Range(Append(back, e)) = Range(back) \cup {e}
    BY RangeAppend
  <1> QED BY <1>1, <1>2, <1>4, <1>5 DEF Wire, Before

\* A message is sent after all others.
LEMMA WireSend ==
    ASSUME NEW back \in Seq(Messages), NEW there \in Seq(Messages), NEW k \in {0, 1},
           Wire(back, there, k), NEW e \in Messages,
           Before(Range(back) \cup Range(there), {e}, k)
    PROVE  Wire(back, Append(there, e), k)
  <1>1. Before(Range(there), {e}, k) /\ Before(Range(back), {e}, k)
    BY DEF Before
  <1>2. Spread(Append(there, e), k)
    BY <1>1, SpreadAppend DEF Wire
  <1>3. Range(Append(there, e)) = Range(there) \cup {e}
    BY RangeAppend
  <1> QED BY <1>1, <1>2, <1>3 DEF Wire, Before
-----------------------------------------------------------------------------
(* The messages of an upload.                                              *)

\* The documents: what a hex file defines, or none.
Loaded == Documents \cup {<<>>}

LEMMA LoadedType ==
    ASSUME NEW doc \in Loaded
    PROVE  /\ doc \in Seq(Nat) /\ Len(doc) \in Nat
           /\ \A i \in 1 .. Len(doc) : doc[i] \in {0} \cup UNION {Range(d) : d \in Documents}
  <1>1. doc \in Seq(Nat)
    <2>1. <<>> \in Seq(Nat)
      BY EmptySeq
    <2> QED BY <2>1, BootloaderAssumption DEF Loaded
  <1>2. ASSUME NEW i \in 1 .. Len(doc)
        PROVE  doc[i] \in {0} \cup UNION {Range(d) : d \in Documents}
    <2>1. doc # <<>>
      OBVIOUS
    <2>2. doc[i] \in Range(doc)
      BY <1>1, InRange
    <2> QED BY <2>1, <2>2 DEF Loaded
  <1> QED BY <1>1, <1>2

\* The messages by their places.
IsMessage(m, cmd, row, dest, pos) ==
    /\ m.cmd = cmd /\ m.row = row /\ m.dest = dest /\ m.pos = pos /\ m.timestamp = 0
    /\ m \in Messages

LEMMA MessageType ==
    ASSUME NEW cmd \in {"program", "setBase", "writeInc", "setState", "writeConfig", "reset",
                        "setAddress"},
           NEW row \in {0} \cup UNION {Range(d) : d \in Documents},
           NEW dest \in Modules, NEW pos \in Nat
    PROVE  IsMessage(Message(cmd, row, dest, pos), cmd, row, dest, pos)
  BY DEF IsMessage, Message, Messages

LEMMA Parts ==
    ASSUME NEW doc \in Loaded, NEW dest \in Modules
    PROVE  /\ UploadQueue(doc, dest) \in Seq(Messages)
           /\ Len(UploadQueue(doc, dest)) = Len(doc) + 5
           /\ IsMessage(Part(doc, dest, 0), "program", 0, dest, 0)
           /\ IsMessage(Part(doc, dest, 1), "setBase", 0, dest, 1)
           /\ \A i \in 1 .. Len(doc) :
                 IsMessage(Part(doc, dest, i + 1), "writeInc", doc[i], dest, i + 1)
           /\ IsMessage(Part(doc, dest, Len(doc) + 2), "setState", 0, dest, Len(doc) + 2)
           /\ IsMessage(Part(doc, dest, Len(doc) + 3), "writeConfig", 0, dest, Len(doc) + 3)
           /\ IsMessage(Part(doc, dest, Len(doc) + 4), "reset", 0, dest, Len(doc) + 4)
  <1> DEFINE n == Len(doc)
             a == <<Message("program", 0, dest, 0), Message("setBase", 0, dest, 1)>>
             b == [i \in 1 .. n |-> Message("writeInc", doc[i], dest, i + 1)]
             c == <<Message("setState", 0, dest, n + 2), Message("writeConfig", 0, dest, n + 3),
                    Message("reset", 0, dest, n + 4)>>
             q == (a \o b) \o c
  <1>1. n \in Nat
    BY LoadedType
  <1>2. q = UploadQueue(doc, dest)
    BY Zenon DEF UploadQueue
  <1>3. /\ IsMessage(Message("program", 0, dest, 0), "program", 0, dest, 0)
        /\ IsMessage(Message("setBase", 0, dest, 1), "setBase", 0, dest, 1)
        /\ IsMessage(Message("setState", 0, dest, n + 2), "setState", 0, dest, n + 2)
        /\ IsMessage(Message("writeConfig", 0, dest, n + 3), "writeConfig", 0, dest, n + 3)
        /\ IsMessage(Message("reset", 0, dest, n + 4), "reset", 0, dest, n + 4)
    BY <1>1, MessageType
  <1>4. ASSUME NEW i \in 1 .. n
        PROVE  IsMessage(Message("writeInc", doc[i], dest, i + 1), "writeInc", doc[i], dest, i + 1)
    BY LoadedType, MessageType
  <1>5. /\ Message("program", 0, dest, 0) \in Messages
        /\ Message("setBase", 0, dest, 1) \in Messages
        /\ Message("setState", 0, dest, n + 2) \in Messages
        /\ Message("writeConfig", 0, dest, n + 3) \in Messages
        /\ Message("reset", 0, dest, n + 4) \in Messages
        /\ \A i \in 1 .. n : Message("writeInc", doc[i], dest, i + 1) \in Messages
    BY <1>3, <1>4 DEF IsMessage
  <1>6. a \in Seq(Messages) /\ Len(a) = 2 /\ c \in Seq(Messages) /\ Len(c) = 3
        /\ b \in Seq(Messages) /\ Len(b) = n
        /\ a[1] = Message("program", 0, dest, 0) /\ a[2] = Message("setBase", 0, dest, 1)
        /\ c[1] = Message("setState", 0, dest, n + 2)
        /\ c[2] = Message("writeConfig", 0, dest, n + 3)
        /\ c[3] = Message("reset", 0, dest, n + 4)
        /\ \A i \in 1 .. n : b[i] = Message("writeInc", doc[i], dest, i + 1)
    BY <1>1, <1>5
  <1> HIDE DEF a, b, c
  <1> DEFINE ab == a \o b
  <1>7. ab \in Seq(Messages) /\ Len(ab) = n + 2 /\ ab[1] = a[1] /\ ab[2] = a[2]
        /\ \A i \in 1 .. n : ab[i + 2] = b[i]
    <2>1. /\ ab \in Seq(Messages) /\ Len(ab) = 2 + n
          /\ \A i \in 1 .. 2 : ab[i] = a[i]
          /\ \A i \in 1 .. n : ab[2 + i] = b[i]
      <3>1. /\ a \o b \in Seq(Messages) /\ Len(a \o b) = Len(a) + Len(b)
            /\ \A i \in 1 .. Len(a) : (a \o b)[i] = a[i]
            /\ \A i \in 1 .. Len(b) : (a \o b)[Len(a) + i] = b[i]
        <4>1. a \in Seq(Messages) /\ b \in Seq(Messages)
          BY <1>6
        <4> QED BY <4>1, ConcatIndex
      <3> QED BY <1>6, <3>1
    <2> HIDE DEF ab
    <2>2. 2 + n = n + 2 /\ 1 \in 1 .. 2 /\ 2 \in 1 .. 2 /\ \A i \in 1 .. n : 2 + i = i + 2
      BY <1>1
    <2> QED BY <2>1, <2>2
  <1> HIDE DEF ab
  <1>8. (ab \o c) \in Seq(Messages) /\ Len(ab \o c) = n + 5
        /\ (\A i \in 1 .. n + 2 : (ab \o c)[i] = ab[i])
        /\ (ab \o c)[n + 3] = c[1] /\ (ab \o c)[n + 4] = c[2] /\ (ab \o c)[n + 5] = c[3]
    <2>1. /\ ab \o c \in Seq(Messages) /\ Len(ab \o c) = (n + 2) + 3
          /\ \A i \in 1 .. n + 2 : (ab \o c)[i] = ab[i]
          /\ \A i \in 1 .. 3 : (ab \o c)[(n + 2) + i] = c[i]
      <3>1. /\ ab \o c \in Seq(Messages) /\ Len(ab \o c) = Len(ab) + Len(c)
            /\ \A i \in 1 .. Len(ab) : (ab \o c)[i] = ab[i]
            /\ \A i \in 1 .. Len(c) : (ab \o c)[Len(ab) + i] = c[i]
        <4>1. ab \in Seq(Messages) /\ c \in Seq(Messages)
          BY <1>6, <1>7
        <4> QED BY <4>1, ConcatIndex
      <3> QED BY <1>6, <1>7, <3>1
    <2>2. /\ (n + 2) + 3 = n + 5 /\ (n + 2) + 1 = n + 3 /\ (n + 2) + 2 = n + 4
          /\ 1 \in 1 .. 3 /\ 2 \in 1 .. 3 /\ 3 \in 1 .. 3
      BY <1>1
    <2> QED BY <2>1, <2>2
  <1>9. q = ab \o c
    BY DEF ab
  <1> HIDE DEF q
  <1>10. /\ 1 \in 1 .. n + 2 /\ 2 \in 1 .. n + 2 /\ \A i \in 1 .. n : i + 2 \in 1 .. n + 2
    BY <1>1
  <1>11. /\ q \in Seq(Messages) /\ Len(q) = n + 5
         /\ q[1] = a[1] /\ q[2] = a[2] /\ \A i \in 1 .. n : q[i + 2] = b[i]
         /\ q[n + 3] = c[1] /\ q[n + 4] = c[2] /\ q[n + 5] = c[3]
    BY <1>7, <1>8, <1>9, <1>10
  <1>12. /\ 0 + 1 = 1 /\ 1 + 1 = 2 /\ (\A i \in 1 .. n : (i + 1) + 1 = i + 2)
         /\ (n + 2) + 1 = n + 3 /\ (n + 3) + 1 = n + 4 /\ (n + 4) + 1 = n + 5
    BY <1>1
  <1>13. /\ Part(doc, dest, 0) = a[1] /\ Part(doc, dest, 1) = a[2]
         /\ \A i \in 1 .. n : Part(doc, dest, i + 1) = b[i]
         /\ Part(doc, dest, n + 2) = c[1] /\ Part(doc, dest, n + 3) = c[2]
         /\ Part(doc, dest, n + 4) = c[3]
    BY <1>2, <1>11, <1>12, Zenon DEF Part
  <1> QED BY <1>2, <1>3, <1>4, <1>6, <1>11, <1>13

LEMMA PartIs ==
    ASSUME NEW doc \in Loaded, NEW dest \in Modules, NEW p \in 0 .. Len(doc) + 4
    PROVE  LET m == Part(doc, dest, p)
           IN  /\ m \in Messages
               /\ m.pos = p /\ m.dest = dest /\ m.timestamp = 0
               /\ m.cmd = "program" <=> p = 0
  <1> DEFINE n == Len(doc)
             m == Part(doc, dest, p)
             Goal == /\ m \in Messages /\ m.pos = p /\ m.dest = dest /\ m.timestamp = 0
                     /\ m.cmd = "program" <=> p = 0
  <1>1. n \in Nat
    BY LoadedType
  <1>2. CASE p = 0
    <2>1. IsMessage(m, "program", 0, dest, 0)
      BY <1>2, Parts
    <2> HIDE DEF m
    <2>9. Goal
      BY <1>2, <2>1 DEF IsMessage
    <2> QED BY <2>9 DEF m
  <1>3. CASE p = 1
    <2>1. IsMessage(m, "setBase", 0, dest, 1)
      BY <1>3, Parts
    <2> HIDE DEF m
    <2>9. Goal
      BY <1>3, <2>1 DEF IsMessage
    <2> QED BY <2>9 DEF m
  <1>4. CASE p \in 2 .. n + 1
    <2>1. p - 1 \in 1 .. n /\ (p - 1) + 1 = p
      BY <1>1, <1>4
    <2>2. IsMessage(Part(doc, dest, (p - 1) + 1), "writeInc", doc[p - 1], dest, (p - 1) + 1)
      BY <2>1, Parts
    <2>3. IsMessage(m, "writeInc", doc[p - 1], dest, p)
      BY <2>1, <2>2
    <2> HIDE DEF m
    <2>9. Goal
      BY <1>4, <2>3 DEF IsMessage
    <2> QED BY <2>9 DEF m
  <1>5. CASE p = n + 2
    <2>1. IsMessage(m, "setState", 0, dest, n + 2)
      BY <1>5, Parts
    <2> HIDE DEF m
    <2>9. Goal
      BY <1>1, <1>5, <2>1 DEF IsMessage
    <2> QED BY <2>9 DEF m
  <1>6. CASE p = n + 3
    <2>1. IsMessage(m, "writeConfig", 0, dest, n + 3)
      BY <1>6, Parts
    <2> HIDE DEF m
    <2>9. Goal
      BY <1>1, <1>6, <2>1 DEF IsMessage
    <2> QED BY <2>9 DEF m
  <1>7. CASE p = n + 4
    <2>1. IsMessage(m, "reset", 0, dest, n + 4)
      BY <1>7, Parts
    <2> HIDE DEF m
    <2>9. Goal
      BY <1>1, <1>7, <2>1 DEF IsMessage
    <2> QED BY <2>9 DEF m
  <1>8. p = 0 \/ p = 1 \/ p \in 2 .. n + 1 \/ p = n + 2 \/ p = n + 3 \/ p = n + 4
    BY <1>1
  <1> QED BY <1>2, <1>3, <1>4, <1>5, <1>6, <1>7, <1>8

\* A message and the next one of an upload are not the same to the plugin.
LEMMA PartsDiffer ==
    ASSUME NeighboursDiffer, NEW doc \in Loaded, NEW dest \in Modules,
           NEW p \in 0 .. Len(doc) + 3
    PROVE  \/ Part(doc, dest, p).cmd # Part(doc, dest, p + 1).cmd
           \/ Part(doc, dest, p).row # Part(doc, dest, p + 1).row
  <1> DEFINE n == Len(doc)
             a == Part(doc, dest, p)
             b == Part(doc, dest, p + 1)
             Goal == a.cmd # b.cmd \/ a.row # b.row
  <1>1. n \in Nat
    BY LoadedType
  <1>2. p = 0 \/ p = 1 \/ p \in 2 .. n \/ (p # 1 /\ p = n + 1) \/ p = n + 2 \/ p = n + 3
    BY <1>1
  <1>3. CASE p = 0
    <2>1. a.cmd = "program" /\ b.cmd = "setBase"
      BY <1>3, Parts DEF IsMessage
    <2> HIDE DEF a, b
    <2>9. Goal
      BY <2>1
    <2> QED BY <2>9 DEF a, b
  <1>4. CASE p = 1
    <2>1. a.cmd = "setBase"
      BY <1>4, Parts DEF IsMessage
    <2>2. b.cmd = "writeInc" \/ b.cmd = "setState"
      <3>1. CASE n = 0
        <4>1. p + 1 = n + 2
          BY <1>4, <3>1
        <4> QED BY <4>1, Parts DEF IsMessage
      <3>2. CASE n # 0
        <4>1. 1 \in 1 .. n /\ p + 1 = 1 + 1
          BY <1>1, <1>4, <3>2
        <4> QED BY <4>1, Parts DEF IsMessage
      <3> QED BY <3>1, <3>2
    <2> HIDE DEF a, b
    <2>9. Goal
      BY <2>1, <2>2
    <2> QED BY <2>9 DEF a, b
  <1>5. CASE p \in 2 .. n
    <2>1. p - 1 \in 1 .. n /\ (p - 1) + 1 = p /\ p \in 1 .. n /\ p - 1 \in 1 .. n - 1
      BY <1>1, <1>5
    <2>2. IsMessage(Part(doc, dest, (p - 1) + 1), "writeInc", doc[p - 1], dest, (p - 1) + 1)
          /\ IsMessage(Part(doc, dest, p + 1), "writeInc", doc[p], dest, p + 1)
      BY <2>1, Parts
    <2>3. a.row = doc[p - 1] /\ b.row = doc[p]
      BY <2>1, <2>2 DEF IsMessage
    <2>4. doc # <<>>
      BY <2>1
    <2>5. doc[p - 1] # doc[(p - 1) + 1]
      BY <2>1, <2>4 DEF NeighboursDiffer, Loaded
    <2> HIDE DEF a, b
    <2>9. Goal
      BY <2>1, <2>3, <2>5
    <2> QED BY <2>9 DEF a, b
  <1>6. CASE p # 1 /\ p = n + 1
    <2>1. n \in 1 .. n
      BY <1>1, <1>6
    <2>2. IsMessage(Part(doc, dest, n + 1), "writeInc", doc[n], dest, n + 1)
      BY <2>1, Parts
    <2>3. p + 1 = n + 2
      BY <1>1, <1>6
    <2>4. IsMessage(Part(doc, dest, p + 1), "setState", 0, dest, n + 2)
      BY <2>3, Parts
    <2>5. a.cmd = "writeInc" /\ b.cmd = "setState"
      BY <1>6, <2>2, <2>4 DEF IsMessage
    <2> HIDE DEF a, b
    <2>9. Goal
      BY <2>5
    <2> QED BY <2>9 DEF a, b
  <1>7. CASE p = n + 2
    <2>1. p + 1 = n + 3
      BY <1>1, <1>7
    <2>2. a.cmd = "setState" /\ b.cmd = "writeConfig"
      BY <1>7, <2>1, Parts DEF IsMessage
    <2> HIDE DEF a, b
    <2>9. Goal
      BY <2>2
    <2> QED BY <2>9 DEF a, b
  <1>8. CASE p = n + 3
    <2>1. p + 1 = n + 4
      BY <1>1, <1>8
    <2>2. a.cmd = "writeConfig" /\ b.cmd = "reset"
      BY <1>8, <2>1, Parts DEF IsMessage
    <2> HIDE DEF a, b
    <2>9. Goal
      BY <2>2
    <2> QED BY <2>9 DEF a, b
  <1> QED BY <1>2, <1>3, <1>4, <1>5, <1>6, <1>7, <1>8
-----------------------------------------------------------------------------
(* Types.                                                                  *)

Flags ==
    /\ connected \in BOOLEAN /\ observing \in BOOLEAN /\ timer \in BOOLEAN
    /\ canUpload \in BOOLEAN /\ uploading \in BOOLEAN
    /\ repeated \in BOOLEAN /\ resent \in BOOLEAN /\ done \in BOOLEAN

Combo ==
    /\ known \in Seq(Modules)
    /\ selected \in Range(known) \cup {NoModule}
    /\ module \in Range(known) \cup {NoModule}

Queues == msgQueue \in Seq(Messages) /\ toModule \in Seq(Messages) /\ feedback \in Seq(Messages)

Rest ==
    /\ forgotten \in 0 .. MaxTimers
    /\ elapsed \in {"unset", "short", "over100", "over10000"}
    /\ document \in Loaded
    /\ bootMode \subseteq Modules
    /\ moduleState \in [Modules -> States]
    /\ received \in Nat

LEMMA TypeOKParts == TypeOK <=> Flags /\ Combo /\ Queues /\ Rest
  <1>1. TypeOK => Flags
    BY Zenon DEF TypeOK, Flags
  <1>2. TypeOK => Combo /\ Queues /\ Rest
    BY Zenon DEF TypeOK, Combo, Queues, Rest, Loaded
  <1>3. Flags /\ Combo /\ Queues /\ Rest => TypeOK
    BY Zenon DEF TypeOK, Flags, Combo, Queues, Rest, Loaded
  <1> QED BY <1>1, <1>2, <1>3

LEMMA FlagsStep ==
    ASSUME Flags, [Next]_vars
    PROVE  Flags'
  <1> USE DEF Flags
  <1>1. CASE LoadHEX
    <2>1. canUpload' \in BOOLEAN
      BY <1>1, Zenon DEF LoadHEX
    <2> QED BY <1>1, <2>1 DEF LoadHEX, historyVars
  <1>2. CASE \E m \in Modules : SelectModule(m)
    BY <1>2 DEF SelectModule, historyVars
  <1>3. CASE Upload
    BY <1>3 DEF Upload, NewTimer, NewUpload
  <1>4. CASE ChangeModuleID
    BY <1>4 DEF ChangeModuleID, NewTimer, NewUpload
  <1>5. ASSUME Stop, UNCHANGED <<repeated, resent>>, done' \in BOOLEAN
        PROVE  Flags'
    <2>1. canUpload' \in BOOLEAN /\ observing' \in BOOLEAN
      BY <1>5, Zenon DEF Stop
    <2> QED BY <1>5, <2>1 DEF Stop
  <1>6. CASE StopClicked
    BY <1>5, <1>6 DEF StopClicked, historyVars
  <1>7. CASE \E m \in Modules : ModuleAdded(m)
    BY <1>7 DEF ModuleAdded, historyVars
  <1>8. CASE \E m \in Modules : ModuleRemoved(m)
    <2>1. PICK m \in Modules : ModuleRemoved(m)
      BY <1>8
    <2>2. CASE module = m
      BY <1>5, <2>1, <2>2 DEF ModuleRemoved, historyVars
    <2>3. CASE module # m
      BY <2>1, <2>3 DEF ModuleRemoved, historyVars
    <2> QED BY <2>2, <2>3
  <1>9. CASE Feedback
    <2>1. UNCHANGED <<repeated, resent>>
      BY <1>9 DEF Feedback
    <2>2. SendNext \/ Finish \/ TransferError \/ UNCHANGED <<pluginVars, toModule, done>>
      BY <1>9, Zenon DEF Feedback
    <2>3. CASE SendNext
      BY <2>1, <2>3 DEF SendNext
    <2>4. CASE Finish
      BY <1>5, <2>1, <2>4 DEF Finish
    <2>5. CASE TransferError
      BY <1>5, <2>1, <2>5 DEF TransferError
    <2>6. CASE UNCHANGED <<pluginVars, toModule, done>>
      BY <2>1, <2>6 DEF pluginVars
    <2> QED BY <2>2, <2>3, <2>4, <2>5, <2>6
  <1>10. CASE Timeout
    <2>1. UNCHANGED <<repeated, done>>
      BY <1>10 DEF Timeout
    <2>2. \/ NotReady \/ Wait \/ Resend
          \/ Stop /\ UNCHANGED resent
      BY <1>10, Zenon DEF Timeout
    <2>3. CASE NotReady
      <3>1. (Stop \/ UNCHANGED pluginVars) /\ UNCHANGED resent
        BY <2>3, Zenon DEF NotReady
      <3>2. CASE Stop
        BY <1>5, <2>1, <3>1, <3>2
      <3>3. CASE UNCHANGED pluginVars
        BY <2>1, <3>1, <3>3 DEF pluginVars
      <3> QED BY <3>1, <3>2, <3>3
    <2>4. CASE Wait
      BY <2>1, <2>4 DEF Wait, pluginVars
    <2>5. CASE Resend
      <3>1. resent' \in BOOLEAN
        BY <2>5, Zenon DEF Resend
      <3> QED BY <2>1, <2>5, <3>1 DEF Resend
    <2>6. CASE Stop /\ UNCHANGED resent
      BY <1>5, <2>1, <2>6
    <2> QED BY <2>2, <2>3, <2>4, <2>5, <2>6
  <1>11. CASE Elapse
    BY <1>11 DEF Elapse, historyVars
  <1>12. CASE ModuleReceives
    <2>1. UNCHANGED <<pluginVars, resent, done>>
      BY <1>12 DEF ModuleReceives
    <2>2. repeated' \in BOOLEAN
      BY <1>12, Zenon DEF ModuleReceives
    <2> QED BY <2>1, <2>2 DEF pluginVars
  <1>13. CASE Lose
    BY <1>13 DEF Lose, pluginVars, historyVars
  <1>14. CASE \E m \in Modules : Alive(m)
    BY <1>14 DEF Alive, pluginVars, historyVars
  <1>15. CASE UNCHANGED vars
    BY <1>15 DEF vars, pluginVars, historyVars
  <1> QED BY <1>1, <1>2, <1>3, <1>4, <1>6, <1>7, <1>8, <1>9, <1>10, <1>11, <1>12, <1>13, <1>14,
             <1>15, Zenon DEF Next, User

\* The items of a combo rebuilt are modules the manager knows.
LEMMA ComboRebuilt ==
    ASSUME NEW modules \in Seq(Modules), NEW otherwise \in Range(modules) \cup {NoModule},
           RebuildCombo(modules, otherwise)
    PROVE  selected' \in Range(modules) \cup {NoModule} /\ module' \in Range(modules) \cup {NoModule}
  <1>1. CASE modules = <<>>
    BY <1>1, Zenon DEF RebuildCombo
  <1>2. CASE modules # <<>>
    <2>1. Head(modules) \in Range(modules) /\ Range(modules) \subseteq Modules
      BY <1>2, HeadAndTail, InRange
    <2>2. Range(modules) \in SUBSET Nat /\ Range(modules) # {}
      BY <2>1, BootloaderAssumption
    <2>3. Min(Range(modules)) \in Range(modules)
      BY <2>2, MinOfNats
    <2>4. selected' = Head(modules) /\ module' = Min(Range(modules))
      BY <1>2, Zenon DEF RebuildCombo
    <2> QED BY <2>1, <2>3, <2>4, Zenon
  <1> QED BY <1>1, <1>2

LEMMA ComboStep ==
    ASSUME Combo, [Next]_vars
    PROVE  Combo'
  <1> DEFINE Known == Range(known) \cup {NoModule}
             Kept == UNCHANGED known /\ selected' \in Known /\ module' \in Known
  <1>1. known \in Seq(Modules) /\ selected \in Known /\ module \in Known
    BY Zenon DEF Combo
  <1>2. ASSUME Kept
        PROVE  Combo'
    BY <1>1, <1>2, Zenon DEF Combo
  <1>3. UNCHANGED <<known, selected, module>> => Kept
    BY <1>1, Zenon
  <1>4. UNCHANGED <<known, pluginVars>> => UNCHANGED <<known, selected, module>>
    BY Zenon DEF pluginVars
  <1>5. NoModule \in Known
    BY Zenon
  <1>6. CASE LoadHEX \/ ChangeModuleID \/ Elapse
    <2>1. UNCHANGED <<known, selected, module>>
      BY <1>6, Zenon DEF LoadHEX, ChangeModuleID, Elapse
    <2> QED BY <1>2, <1>3, <2>1, Zenon
  <1>7. CASE \E m \in Modules : SelectModule(m)
    BY <1>2, <1>7, Zenon DEF SelectModule
  <1>8. CASE Upload
    BY <1>1, <1>2, <1>8, Zenon DEF Upload
  <1>9. CASE StopClicked
    BY <1>1, <1>2, <1>5, <1>9, Zenon DEF StopClicked
  <1>10. CASE \E m \in Modules : ModuleAdded(m)
    <2>1. PICK m \in Modules : ModuleAdded(m)
      BY <1>10, Zenon
    <2>2. known' \in Seq(Modules) /\ Range(known') = Range(known) \cup {m}
      BY <1>1, <2>1, RangeAppend, AppendProperties DEF ModuleAdded
    <2>3. module \in Range(known') \cup {NoModule}
      BY <1>1, <2>2
    <2>4. RebuildCombo(known', module)
      BY <2>1, Zenon DEF ModuleAdded
    <2> QED BY <2>2, <2>3, <2>4, ComboRebuilt, Zenon DEF Combo
  <1>11. CASE \E m \in Modules : ModuleRemoved(m)
    <2>1. PICK m \in Modules : ModuleRemoved(m)
      BY <1>11, Zenon
    <2>2. known' = Only(known, Modules \ {m})
      BY <2>1, Zenon DEF ModuleRemoved
    <2>3. known' \in Seq(Modules) /\ Range(known') = Range(known) \cap (Modules \ {m})
      BY <1>1, <2>2, OnlyRange
    <2>4. \/ RebuildCombo(known', NoModule)
          \/ module # m /\ RebuildCombo(known', module)
      BY <2>1, Zenon DEF ModuleRemoved
    <2>5. CASE RebuildCombo(known', NoModule)
      <3>1. NoModule \in Range(known') \cup {NoModule}
        OBVIOUS
      <3> QED BY <2>3, <2>5, <3>1, ComboRebuilt, Zenon DEF Combo
    <2>6. CASE module # m /\ RebuildCombo(known', module)
      <3>1. Range(known) \subseteq Modules
        BY <1>1, InRange
      <3>2. module \in Range(known') \cup {NoModule}
        BY <1>1, <2>3, <2>6, <3>1
      <3> QED BY <2>3, <2>6, <3>2, ComboRebuilt, Zenon DEF Combo
    <2> QED BY <2>4, <2>5, <2>6
  <1>12. CASE Feedback
    <2>1. UNCHANGED known
      BY <1>12 DEF Feedback
    <2>2. SendNext \/ Finish \/ TransferError \/ UNCHANGED <<pluginVars, toModule, done>>
      BY <1>12, Zenon DEF Feedback
    <2>3. CASE SendNext
      BY <1>2, <1>3, <2>1, <2>3, Zenon DEF SendNext
    <2>4. CASE Finish \/ TransferError
      BY <1>1, <1>2, <1>5, <2>1, <2>4, Zenon DEF Finish, TransferError
    <2>5. CASE UNCHANGED <<pluginVars, toModule, done>>
      BY <1>2, <1>3, <1>4, <2>1, <2>5
    <2> QED BY <2>2, <2>3, <2>4, <2>5
  <1>13. CASE Timeout
    <2>1. UNCHANGED known
      BY <1>13 DEF Timeout
    <2>2. \/ NotReady \/ Wait \/ Resend
          \/ module' = NoModule /\ UNCHANGED selected
      BY <1>13, Zenon DEF Timeout
    <2>3. CASE NotReady
      <3>1. UNCHANGED pluginVars \/ (module' = NoModule /\ UNCHANGED selected)
        BY <2>3, Zenon DEF NotReady
      <3> QED BY <1>1, <1>2, <1>3, <1>4, <1>5, <2>1, <3>1, Zenon
    <2>4. CASE Wait
      BY <1>2, <1>3, <1>4, <2>1, <2>4, Zenon DEF Wait
    <2>5. CASE Resend
      BY <1>2, <1>3, <2>1, <2>5, Zenon DEF Resend
    <2>6. CASE module' = NoModule /\ UNCHANGED selected
      BY <1>1, <1>2, <1>5, <2>1, <2>6, Zenon
    <2> QED BY <2>2, <2>3, <2>4, <2>5, <2>6
  <1>14. CASE ModuleReceives \/ Lose \/ (\E m \in Modules : Alive(m)) \/ UNCHANGED vars
    <2>1. UNCHANGED <<known, pluginVars>>
      BY <1>14, Zenon DEF ModuleReceives, Lose, Alive, vars
    <2> QED BY <1>2, <1>3, <1>4, <2>1, Zenon
  <1> QED BY <1>6, <1>7, <1>8, <1>9, <1>10, <1>11, <1>12, <1>13, <1>14, Zenon DEF Next, User

LEMMA RestStep ==
    ASSUME Rest, Queues, [Next]_vars
    PROVE  Rest'
  <1> DEFINE Kept == UNCHANGED <<forgotten, elapsed, document>>
             Bus == UNCHANGED <<bootMode, moduleState, received>>
  <1>1. Kept /\ Bus => Rest'
    BY Zenon DEF Rest
  <1>2. UNCHANGED pluginVars \/ Stop => Kept
    BY Zenon DEF pluginVars, Stop
  <1>3. UNCHANGED <<busVars, historyVars>> => Bus
    BY Zenon DEF busVars, historyVars
  <1>4. CASE LoadHEX
    <2>1. document' \in Loaded /\ UNCHANGED <<forgotten, elapsed>> /\ Bus
      BY <1>3, <1>4, Zenon DEF LoadHEX, Loaded
    <2> QED BY <2>1, Zenon DEF Rest
  <1>5. CASE \E m \in Modules : SelectModule(m) \/ ModuleAdded(m)
    BY <1>1, <1>3, <1>5, Zenon DEF SelectModule, ModuleAdded
  <1>6. CASE Upload \/ ChangeModuleID
    <2>1. NewTimer /\ NewUpload /\ UNCHANGED <<bootMode, moduleState, document>>
          /\ elapsed' \in {"short", elapsed}
      BY <1>6, Zenon DEF Upload, ChangeModuleID
    <2>2. forgotten' \in 0 .. MaxTimers
      BY <2>1, BootloaderAssumption DEF NewTimer, Rest
    <2>3. received' \in Nat
      BY <2>1 DEF NewUpload
    <2>4. elapsed' \in {"unset", "short", "over100", "over10000"}
      BY <2>1, Zenon DEF Rest
    <2> QED BY <2>1, <2>2, <2>3, <2>4, Zenon DEF Rest
  <1>7. CASE StopClicked
    BY <1>1, <1>2, <1>3, <1>7, Zenon DEF StopClicked
  <1>8. CASE \E m \in Modules : ModuleRemoved(m)
    <2>1. Kept /\ Bus
      BY <1>2, <1>3, <1>8, Zenon DEF ModuleRemoved
    <2> QED BY <1>1, <2>1
  <1>9. CASE Feedback
    <2>1. Bus
      <3>1. UNCHANGED <<bootMode, received>> /\ UNCHANGED moduleState
        BY <1>9, Zenon DEF Feedback
      <3> QED BY <3>1
    <2>2. SendNext \/ Finish \/ TransferError \/ UNCHANGED <<pluginVars, toModule, done>>
      BY <1>9, Zenon DEF Feedback
    <2>3. CASE SendNext
      <3>1. elapsed' = "short" /\ UNCHANGED <<forgotten, document>>
        BY <2>3, Zenon DEF SendNext
      <3> QED BY <2>1, <3>1, Zenon DEF Rest
    <2>4. CASE Finish \/ TransferError
      BY <1>1, <1>2, <2>1, <2>4, Zenon DEF Finish, TransferError
    <2>5. CASE UNCHANGED <<pluginVars, toModule, done>>
      BY <1>1, <1>2, <2>1, <2>5
    <2> QED BY <2>2, <2>3, <2>4, <2>5
  <1>10. CASE Timeout
    <2>1. Bus
      BY <1>10, Zenon DEF Timeout
    <2>2. NotReady \/ Wait \/ Resend \/ Stop
      BY <1>10, Zenon DEF Timeout
    <2>3. Kept
      BY <1>2, <2>2, Zenon DEF NotReady, Wait, Resend
    <2> QED BY <1>1, <2>1, <2>3
  <1>11. CASE Elapse
    <2>1. UNCHANGED <<forgotten, document>> /\ Bus
          /\ (elapsed' = "over100" \/ elapsed' = "over10000")
      BY <1>3, <1>11, Zenon DEF Elapse
    <2> QED BY <2>1, Zenon DEF Rest
  <1>12. CASE ModuleReceives
    <2>1. Kept /\ UNCHANGED moduleState
      BY <1>2, <1>12, Zenon DEF ModuleReceives
    <2>2. bootMode' \subseteq Modules /\ received' \in Nat
      <3>1. toModule # <<>> /\ Head(toModule) \in Messages
        BY <1>12 DEF ModuleReceives, Queues
      <3>2. Head(toModule).dest \in Modules /\ Head(toModule).pos \in Nat
        BY <3>1 DEF Messages
      <3>3. \/ bootMode' = bootMode \cup {Head(toModule).dest}
            \/ bootMode' = bootMode \ {Head(toModule).dest}
            \/ bootMode' = bootMode
        BY <1>12, Zenon DEF ModuleReceives
      <3>4. received' = Head(toModule).pos \/ received' = received
        BY <1>12, Zenon DEF ModuleReceives
      <3> QED BY <3>2, <3>3, <3>4 DEF Rest
    <2> QED BY <2>1, <2>2, Zenon DEF Rest
  <1>13. CASE Lose
    <2>1. UNCHANGED pluginVars /\ Bus
      BY <1>13, Zenon DEF Lose, historyVars
    <2> QED BY <1>1, <1>2, <2>1
  <1>14. CASE \E m \in Modules : Alive(m)
    <2>1. UNCHANGED <<bootMode, received>> /\ UNCHANGED pluginVars
      BY <1>14, Zenon DEF Alive, historyVars
    <2>2. moduleState' \in [Modules -> States]
      BY <1>14 DEF Alive, Rest, States
    <2> QED BY <1>2, <2>1, <2>2, Zenon DEF Rest
  <1>15. CASE UNCHANGED vars
    <2>1. UNCHANGED pluginVars /\ UNCHANGED <<busVars, historyVars>>
      BY <1>15, Zenon DEF vars
    <2> QED BY <1>1, <1>2, <1>3, <2>1
  <1> QED BY <1>4, <1>5, <1>6, <1>7, <1>8, <1>9, <1>10, <1>11, <1>12, <1>13, <1>14, <1>15, Zenon
          DEF Next, User
-----------------------------------------------------------------------------
(* The steps, by what they do to the queue and the wire.                   *)

Untouched ==
    /\ UNCHANGED <<msgQueue, toModule, feedback, received, repeated, resent, done>>
    /\ UNCHANGED <<connected, observing, uploading>>
    /\ uploading => UNCHANGED document

\* stop()
Stopped ==
    /\ msgQueue' = <<>>
    /\ ~connected' /\ ~uploading'
    /\ observing' => observing /\ ~connected
    /\ UNCHANGED <<toModule, received, repeated, resent>>

Comes == feedback # <<>> /\ feedback' = Tail(feedback)

\* Feedback that is ignored.
Ignored ==
    /\ Comes
    /\ UNCHANGED <<msgQueue, toModule, received, repeated, resent, done>>
    /\ UNCHANGED <<connected, observing, uploading, document>>

\* Feedback that is the front of the queue.
Answered ==
    /\ Comes
    /\ observing /\ connected
    /\ Same(Head(msgQueue), Head(feedback))
    /\ UNCHANGED <<received, repeated, resent>>

AnsweredNext ==
    /\ Answered
    /\ Len(msgQueue) > 1
    /\ msgQueue' = Tail(msgQueue)
    /\ toModule' = Append(toModule, msgQueue[2])
    /\ UNCHANGED <<connected, observing, uploading, document, done>>

AnsweredLast == Answered /\ Len(msgQueue) = 1 /\ Stopped

\* A time out that sends.
Resends ==
    /\ connected
    /\ Resend
    /\ UNCHANGED <<feedback, received, repeated, done>>

Steps ==
    \/ Untouched
    \/ Stopped /\ UNCHANGED <<feedback, done>>
    \/ Upload
    \/ ChangeModuleID
    \/ Ignored
    \/ Stopped /\ Comes /\ UNCHANGED done
    \/ AnsweredNext
    \/ AnsweredLast
    \/ Resends
    \/ ModuleReceives
    \/ Lose

LEMMA StepCases == ASSUME [Next]_vars PROVE Steps
  <1>1. ASSUME UNCHANGED <<pluginVars, toModule, feedback, historyVars>>
        PROVE  Untouched
    BY <1>1, Zenon DEF Untouched, pluginVars, historyVars
  <1>2. ASSUME Stop, UNCHANGED <<toModule, received, repeated, resent>>
        PROVE  Stopped
    <2>1. observing' = (observing /\ ~connected)
      BY <1>2, Zenon DEF Stop
    <2>2. observing' => observing /\ ~connected
      BY <2>1, Zenon
    <2>3. msgQueue' = <<>> /\ ~connected' /\ ~uploading'
      BY <1>2, Zenon DEF Stop
    <2> QED BY <1>2, <2>2, <2>3, Zenon DEF Stopped
  <1>3. UNCHANGED <<busVars, historyVars>> =>
          UNCHANGED <<toModule, feedback, historyVars>> /\ UNCHANGED <<toModule, received, repeated, resent>>
          /\ UNCHANGED <<feedback, done>>
    BY Zenon DEF busVars, historyVars
  <1>4. CASE LoadHEX
    <2>1. ~uploading /\ UNCHANGED <<toModule, feedback, historyVars>>
          /\ UNCHANGED <<connected, observing, uploading, msgQueue>>
      BY <1>3, <1>4, Zenon DEF LoadHEX
    <2>2. Untouched
      BY <2>1, Zenon DEF Untouched, historyVars
    <2> QED BY <2>2, Zenon DEF Steps
  <1>5. CASE \E m \in Modules : SelectModule(m) \/ ModuleAdded(m)
    <2>1. UNCHANGED <<toModule, feedback, historyVars>>
          /\ UNCHANGED <<connected, observing, uploading, msgQueue, document>>
      BY <1>3, <1>5, Zenon DEF SelectModule, ModuleAdded
    <2>2. Untouched
      BY <2>1, Zenon DEF Untouched, historyVars
    <2> QED BY <2>2, Zenon DEF Steps
  <1>6. CASE Upload \/ ChangeModuleID
    BY <1>6, Zenon DEF Steps
  <1>7. CASE StopClicked
    BY <1>2, <1>3, <1>7, Zenon DEF StopClicked, Steps
  <1>8. CASE \E m \in Modules : ModuleRemoved(m)
    <2>1. PICK m \in Modules : ModuleRemoved(m)
      BY <1>8, Zenon
    <2>2. UNCHANGED <<busVars, historyVars>>
      BY <2>1, Zenon DEF ModuleRemoved
    <2>3. CASE module = m
      BY <1>2, <1>3, <2>1, <2>2, <2>3, Zenon DEF ModuleRemoved, Steps
    <2>4. CASE module # m
      <3>1. UNCHANGED <<connected, observing, uploading, msgQueue, document>>
        BY <2>1, <2>4, Zenon DEF ModuleRemoved
      <3>2. Untouched
        BY <1>3, <2>2, <3>1, Zenon DEF Untouched, historyVars
      <3> QED BY <3>2, Zenon DEF Steps
    <2> QED BY <2>3, <2>4
  <1>9. CASE Feedback
    <2>1. Comes /\ UNCHANGED <<received, repeated, resent>>
      BY <1>9, Zenon DEF Feedback, Comes
    <2>2. CASE observing /\ connected /\ Head(feedback).dest = selected
               /\ Accepted(Head(feedback))
      <3>1. SendNext \/ Finish
        BY <1>9, <2>2, Zenon DEF Feedback
      <3>2. Answered
        BY <2>1, <2>2, Zenon DEF Answered, Accepted
      <3>3. CASE SendNext
        <4>1. AnsweredNext
          BY <3>2, <3>3, Zenon DEF SendNext, SendMessage, AnsweredNext
        <4> QED BY <4>1, Zenon DEF Steps
      <3>4. CASE Finish
        <4>1. UNCHANGED <<toModule, received, repeated, resent>>
          BY <2>1, <3>4, Zenon DEF Finish
        <4>2. AnsweredLast
          BY <1>2, <3>2, <3>4, <4>1, Zenon DEF Finish, AnsweredLast
        <4> QED BY <4>2, Zenon DEF Steps
      <3> QED BY <3>1, <3>3, <3>4
    <2>3. CASE TransferError
      <3>1. UNCHANGED <<toModule, received, repeated, resent>> /\ UNCHANGED done
        BY <2>1, <2>3, Zenon DEF TransferError
      <3> QED BY <1>2, <2>1, <2>3, <3>1, Zenon DEF TransferError, Steps
    <2>4. CASE UNCHANGED <<pluginVars, toModule, done>>
      <3>1. Ignored
        BY <2>1, <2>4, Zenon DEF Ignored, pluginVars
      <3> QED BY <3>1, Zenon DEF Steps
    <2> QED BY <1>9, <2>2, <2>3, <2>4, Zenon DEF Feedback
  <1>10. CASE Timeout
    <2>1. UNCHANGED <<feedback, received, repeated, done>>
      BY <1>10, Zenon DEF Timeout
    <2>2. CASE connected /\ Resend
      <3>1. Resends
        BY <2>1, <2>2, Zenon DEF Resends
      <3> QED BY <3>1, Zenon DEF Steps
    <2>3. CASE Stop /\ UNCHANGED <<toModule, resent>>
      <3>1. UNCHANGED <<toModule, received, repeated, resent>> /\ UNCHANGED <<feedback, done>>
        BY <2>1, <2>3, Zenon
      <3> QED BY <1>2, <2>3, <3>1, Zenon DEF Steps
    <2>4. CASE UNCHANGED pluginVars /\ UNCHANGED <<toModule, resent>>
      <3>1. Untouched
        BY <2>1, <2>4, Zenon DEF Untouched, pluginVars
      <3> QED BY <3>1, Zenon DEF Steps
    <2>5. CASE NotReady
      <3>1. Stop \/ UNCHANGED pluginVars
        BY <2>5, Zenon DEF NotReady
      <3>2. UNCHANGED <<toModule, resent>>
        BY <2>5, Zenon DEF NotReady
      <3> QED BY <2>3, <2>4, <3>1, <3>2, Zenon
    <2>6. CASE Wait
      <3>1. UNCHANGED pluginVars /\ UNCHANGED <<toModule, resent>>
        BY <2>6, Zenon DEF Wait
      <3> QED BY <2>4, <3>1, Zenon
    <2>7. \/ NotReady \/ Wait \/ (connected /\ Resend)
          \/ Stop /\ UNCHANGED <<toModule, resent>>
      <3>1. CASE module # NoModule /\ connected
        BY <1>10, <3>1, Zenon DEF Timeout
      <3>2. CASE ~(module # NoModule /\ connected)
        <4>1. Stop /\ UNCHANGED <<selected, toModule, resent>>
          BY <1>10, <3>2, Zenon DEF Timeout
        <4> QED BY <4>1, Zenon
      <3> QED BY <3>1, <3>2
    <2> QED BY <2>2, <2>3, <2>5, <2>6, <2>7
  <1>11. CASE Elapse \/ (\E m \in Modules : Alive(m))
    <2>1. UNCHANGED <<toModule, feedback, historyVars>>
          /\ UNCHANGED <<connected, observing, uploading, msgQueue, document>>
      BY <1>3, <1>11, Zenon DEF Elapse, Alive, pluginVars
    <2>2. Untouched
      BY <2>1, Zenon DEF Untouched, historyVars
    <2> QED BY <2>2, Zenon DEF Steps
  <1>12. CASE ModuleReceives \/ Lose
    BY <1>12, Zenon DEF Steps
  <1>13. CASE UNCHANGED vars
    <2>1. UNCHANGED pluginVars /\ UNCHANGED <<busVars, historyVars>>
      BY <1>13, Zenon DEF vars
    <2>2. UNCHANGED <<pluginVars, toModule, feedback, historyVars>>
      BY <1>3, <2>1, Zenon
    <2> QED BY <1>1, <2>2, Zenon DEF Steps
  <1> QED BY <1>4, <1>5, <1>6, <1>7, <1>8, <1>9, <1>10, <1>11, <1>12, <1>13, Zenon DEF Next, User
-----------------------------------------------------------------------------
(* One message at a time.                                                  *)

QueueInv ==
    /\ Queues
    /\ QueueReady
    /\ QueueInOrder
    /\ Commands
    /\ ~resent => OneAtATime

LEMMA UntouchedInv ==
    ASSUME QueueInv,
           UNCHANGED <<msgQueue, toModule, feedback, received, repeated, resent>>,
           UNCHANGED connected
    PROVE  QueueInv'
  BY DEF QueueInv, Queues, QueueReady, QueueInOrder, Commands, OneAtATime

\* Less on its way back changes nothing else.
LEMMA ComesInv ==
    ASSUME Queues, ~resent => OneAtATime, Commands, Comes, UNCHANGED <<toModule, received, repeated>>,
           resent' <=> resent, msgQueue' = <<>> \/ msgQueue' = msgQueue
    PROVE  Commands' /\ (~resent' => OneAtATime') /\ feedback' \in Seq(Messages)
  <1>1. feedback \in Seq(Messages) /\ toModule \in Seq(Messages) /\ feedback # <<>>
    BY DEF Queues, Comes
  <1>2. /\ Tail(feedback) \in Seq(Messages)
        /\ Range(feedback) = {Head(feedback)} \cup Range(Tail(feedback))
    BY <1>1, HeadAndTail
  <1>3. Range(feedback') \subseteq Range(feedback) /\ feedback' \in Seq(Messages)
    BY <1>2 DEF Comes
  <1>4. Commands'
    BY <1>3 DEF Commands
  <1>5. ASSUME ~resent
        PROVE  OneAtATime'
    <2>1. OneAtATime
      BY <1>5
    <2>2. Wire(Tail(feedback), toModule, 1)
      BY <1>1, <2>1, WireFeedback DEF OneAtATime
    <2>3. Wire(feedback', toModule', 1)
      BY <2>2 DEF Comes
    <2> QED BY <1>3, <2>1, <2>3 DEF OneAtATime
  <1> QED BY <1>3, <1>4, <1>5

\* stop(), and nothing comes.
LEMMA StoppedInv ==
    ASSUME QueueInv, Stopped, UNCHANGED feedback \/ Comes
    PROVE  QueueInv'
  <1>1. msgQueue' = <<>> /\ ~connected' /\ UNCHANGED <<toModule, received, repeated, resent>>
    BY Zenon DEF Stopped
  <1>2. msgQueue' \in Seq(Messages) /\ Len(msgQueue') = 0
    BY <1>1, EmptySeq
  <1>3. QueueReady' /\ QueueInOrder'
    BY <1>1, <1>2 DEF QueueReady, QueueInOrder
  <1>4. toModule' \in Seq(Messages)
    BY <1>1 DEF QueueInv, Queues
  <1>5. Commands' /\ (~resent' => OneAtATime') /\ feedback' \in Seq(Messages)
    <2>1. CASE UNCHANGED feedback
      BY <1>1, <2>1 DEF QueueInv, Queues, Commands, OneAtATime
    <2>2. CASE Comes
      BY <1>1, <2>2, ComesInv DEF QueueInv
    <2> QED BY <2>1, <2>2
  <1> QED BY <1>2, <1>3, <1>4, <1>5 DEF QueueInv, Queues

LEMMA IgnoredInv ==
    ASSUME QueueInv, Ignored
    PROVE  QueueInv'
  <1>1. UNCHANGED <<msgQueue, toModule, received, repeated, resent>> /\ UNCHANGED connected /\ Comes
    BY Zenon DEF Ignored
  <1>2. Commands' /\ (~resent' => OneAtATime') /\ feedback' \in Seq(Messages)
    BY <1>1, ComesInv DEF QueueInv
  <1>3. QueueReady' /\ QueueInOrder' /\ msgQueue' \in Seq(Messages) /\ toModule' \in Seq(Messages)
    BY <1>1 DEF QueueInv, QueueReady, QueueInOrder, Queues
  <1> QED BY <1>2, <1>3 DEF QueueInv, Queues

\* A queue that is sent from its start.
LEMMA StartedInv ==
    ASSUME QuietBus, NewUpload, UNCHANGED feedback,
           msgQueue' \in Seq(Messages), msgQueue' # <<>>, msgQueue'[1].pos = 0, QueueInOrder',
           toModule' = Append(toModule, msgQueue'[1])
    PROVE  QueueInv'
  <1> DEFINE m == msgQueue'[1]
  <1>1. m \in Messages /\ m.pos = 0 /\ m.cmd = "program" /\ Head(msgQueue') = m
        /\ 1 \in 1 .. Len(msgQueue')
    BY DEF QueueInOrder
  <1>2. toModule = <<>> /\ feedback' = <<>> /\ received' = 0 /\ ~repeated'
    BY DEF QuietBus, NewUpload
  <1>3. toModule' = Append(<<>>, m)
    BY <1>2
  <1> HIDE DEF m
  <1>4. <<>> \in Seq(Messages)
    BY EmptySeq
  <1>5. toModule' \in Seq(Messages) /\ Range(toModule') = {m}
    <2>1. toModule' = <<m>>
      BY <1>3
    <2> QED BY <1>1, <2>1, Singleton
  <1>6. feedback' \in Seq(Messages) /\ Range(feedback') = {}
    BY <1>2, <1>4, RangeEmpty
  <1>7. Before(Range(<<>>) \cup Range(<<>>), {m}, 1)
    BY RangeEmpty DEF Before
  <1>8. Wire(<<>>, Append(<<>>, m), 1)
    BY <1>1, <1>4, <1>7, WireEmpty, WireSend
  <1>9. Wire(feedback', toModule', 1)
    BY <1>2, <1>3, <1>8
  <1>10. Commands'
    BY <1>1, <1>5, <1>6 DEF Commands
  <1>11. OneAtATime'
    BY <1>1, <1>2, <1>5, <1>6, <1>9 DEF OneAtATime
  <1>12. QueueReady'
    BY DEF QueueReady
  <1> QED BY <1>5, <1>6, <1>10, <1>11, <1>12 DEF QueueInv, Queues

LEMMA ComboModules == ASSUME Combo PROVE Range(known) \subseteq Modules
  BY InRange DEF Combo

LEMMA UploadInv ==
    ASSUME Combo, Rest, Upload
    PROVE  QueueInv' /\ selected \in Modules /\ document \in Loaded
  <1> DEFINE queue == UploadQueue(document, selected)
             n == Len(document)
  <1>1. selected \in Modules /\ document \in Loaded
    BY ComboModules DEF Upload, Rest
  <1>2. QuietBus /\ NewUpload /\ UNCHANGED feedback /\ msgQueue' = queue
        /\ toModule' = Append(toModule, Head(queue))
    BY Zenon DEF Upload, SendMessage
  <1>3. queue \in Seq(Messages) /\ Len(queue) = n + 5 /\ n \in Nat
    BY <1>1, Parts, LoadedType
  <1>4. \A i \in 1 .. Len(queue) : queue[i].pos = i - 1 /\ (queue[i].cmd = "program" <=> i = 1)
    <2>1. ASSUME NEW i \in 1 .. Len(queue)
          PROVE  queue[i].pos = i - 1 /\ (queue[i].cmd = "program" <=> i = 1)
      <3>1. i - 1 \in 0 .. n + 4 /\ (i - 1) + 1 = i /\ (i - 1 = 0 <=> i = 1)
        BY <1>3
      <3>2. queue[i] = Part(document, selected, i - 1)
        BY <3>1 DEF Part
      <3> HIDE DEF queue, n
      <3>3. /\ Part(document, selected, i - 1).pos = i - 1
            /\ Part(document, selected, i - 1).cmd = "program" <=> i - 1 = 0
        BY <1>1, <3>1, PartIs DEF n
      <3> QED BY <3>1, <3>2, <3>3
    <2> QED BY <2>1
  <1> HIDE DEF queue
  <1>5. 1 \in 1 .. Len(queue) /\ Len(queue) \in 1 .. Len(queue) /\ Len(queue) # 1
        /\ queue # <<>> /\ Head(queue) = queue[1]
    BY <1>3
  <1>6. QueueInOrder'
    <2>1. queue[1].pos = 0 /\ queue[Len(queue)].pos # 0
      BY <1>3, <1>4, <1>5
    <2>2. \A i \in 1 .. Len(queue) : /\ queue[i].pos = queue[1].pos + i - 1
                                     /\ queue[i].cmd = "program" <=> queue[i].pos = 0
      BY <1>3, <1>4, <2>1
    <2> QED BY <1>2, <2>1, <2>2 DEF QueueInOrder
  <1>7. msgQueue'[1].pos = 0 /\ msgQueue' \in Seq(Messages) /\ msgQueue' # <<>>
        /\ toModule' = Append(toModule, msgQueue'[1])
    BY <1>2, <1>3, <1>4, <1>5
  <1> QED BY <1>1, <1>2, <1>6, <1>7, StartedInv

LEMMA ChangeModuleIDInv ==
    ASSUME Combo, ChangeModuleID
    PROVE  QueueInv'
  <1> DEFINE a == Message("program", 0, module, 0)
             b == Message("setAddress", 0, module, 1)
  <1>1. module \in Modules
    BY ComboModules DEF ChangeModuleID, Combo
  <1>2. IsMessage(a, "program", 0, module, 0) /\ IsMessage(b, "setAddress", 0, module, 1)
    BY <1>1, MessageType
  <1>3. QuietBus /\ NewUpload /\ UNCHANGED feedback /\ msgQueue' = <<a, b>>
        /\ toModule' = Append(toModule, a)
    BY Zenon DEF ChangeModuleID, SendMessage
  <1> HIDE DEF a, b
  <1>4. a \in Messages /\ b \in Messages /\ a.pos = 0 /\ b.pos = 1
        /\ a.cmd = "program" /\ b.cmd = "setAddress"
    BY <1>2 DEF IsMessage
  <1>5. /\ msgQueue' \in Seq(Messages) /\ msgQueue' # <<>> /\ Len(msgQueue') = 2
        /\ msgQueue'[1] = a /\ msgQueue'[2] = b
    BY <1>3, <1>4
  <1>6. QueueInOrder'
    <2>1. \A i \in 1 .. 2 : i = 1 \/ i = 2
      OBVIOUS
    <2>2. \A i \in 1 .. 2 : /\ msgQueue'[i].pos = msgQueue'[1].pos + i - 1
                            /\ msgQueue'[i].cmd = "program" <=> msgQueue'[i].pos = 0
      BY <1>4, <1>5, <2>1
    <2> QED BY <1>4, <1>5, <2>2 DEF QueueInOrder
  <1> QED BY <1>3, <1>4, <1>5, <1>6, StartedInv

\* The queue without its front.
LEMMA RestOfQueue ==
    ASSUME QueueInOrder, msgQueue \in Seq(Messages), Len(msgQueue) > 1,
           msgQueue' = Tail(msgQueue)
    PROVE  /\ msgQueue' \in Seq(Messages) /\ msgQueue' # <<>>
           /\ Head(msgQueue') = msgQueue[2] /\ msgQueue[2] \in Messages
           /\ msgQueue[2].pos = Head(msgQueue).pos + 1
           /\ msgQueue[2].cmd # "program"
           /\ QueueInOrder'
  <1> DEFINE q == msgQueue
             t == Tail(msgQueue)
             n == Len(t)
  <1>1. /\ n \in Nat /\ n > 0 /\ Len(q) = n + 1 /\ t \in Seq(Messages) /\ t # <<>>
        /\ Head(t) = t[1] /\ Head(q) = q[1]
        /\ q[1] \in Messages /\ q[2] \in Messages
        /\ \A i \in 1 .. n : t[i] = q[i + 1]
    <2>1. /\ n \in Nat /\ n > 0 /\ Len(q) = n + 1 /\ t \in Seq(Messages) /\ t # <<>>
          /\ \A i \in 1 .. n : t[i] = q[i + 1]
      <3>1. t \in Seq(Messages) /\ n = Len(q) - 1 /\ Len(q) \in Nat /\ q # <<>>
        OBVIOUS
      <3>2. \A i \in 1 .. n : t[i] = q[i + 1]
        BY <3>1
      <3>3. n \in Nat /\ n > 0 /\ Len(q) = n + 1
        <4> HIDE DEF n
        <4> QED BY <3>1
      <3>4. t # <<>>
        <4> HIDE DEF t
        <4> QED BY <3>3
      <3> QED BY <3>1, <3>2, <3>3, <3>4
    <2>2. 1 \in 1 .. Len(q) /\ 2 \in 1 .. Len(q) /\ Head(q) = q[1]
      OBVIOUS
    <2>3. Head(t) = t[1]
      <3> HIDE DEF t
      <3> QED BY <2>1
    <2> HIDE DEF t, q
    <2>4. q[1] \in Messages /\ q[2] \in Messages
      <3>1. q \in Seq(Messages)
        BY DEF q
      <3> QED BY <2>2, <3>1, ElementOfSeq
    <2> QED BY <2>1, <2>2, <2>3, <2>4
  <1>2. q[1].pos \in Nat
    BY <1>1 DEF Messages
  <1>3. \A i \in 1 .. Len(q) : /\ q[i].pos = q[1].pos + i - 1
                               /\ q[i].cmd = "program" <=> q[i].pos = 0
    BY DEF QueueInOrder
  <1>4. q[Len(q)].pos # 0
    BY <1>1 DEF QueueInOrder
  <1> HIDE DEF q, t
  <1>5. /\ \A i \in 1 .. n : i + 1 \in 1 .. Len(q)
        /\ 1 \in 1 .. n /\ n \in 1 .. n /\ 2 \in 1 .. Len(q) /\ 1 + 1 = 2 /\ n + 1 = Len(q)
    BY <1>1
  <1>6. t[1] = q[2] /\ t[n] = q[Len(q)]
    BY <1>1, <1>5
  <1>7. q[2].pos = q[1].pos + 1 /\ q[2].cmd # "program"
    BY <1>2, <1>3, <1>5
  <1>8. ASSUME NEW i \in 1 .. n
        PROVE  t[i].pos = t[1].pos + i - 1 /\ (t[i].cmd = "program" <=> t[i].pos = 0)
    <2>1. q[i + 1].pos = q[1].pos + (i + 1) - 1 /\ (q[i + 1].cmd = "program" <=> q[i + 1].pos = 0)
      BY <1>3, <1>5
    <2>2. i \in Nat /\ t[i] = q[i + 1]
      BY <1>1
    <2> DEFINE a == q[1].pos
               b == t[i].pos
               c == t[1].pos
    <2>3. c = a + 1 /\ b = a + (i + 1) - 1 /\ a \in Nat
      BY <1>2, <1>6, <1>7, <2>1, <2>2
    <2> HIDE DEF a, b, c
    <2>4. b = c + i - 1
      BY <2>2, <2>3
    <2>5. t[i].cmd = "program" <=> t[i].pos = 0
      BY <2>1, <2>2
    <2> QED BY <2>4, <2>5 DEF b, c
  <1>9. msgQueue' = t
    BY DEF t
  <1>10. QueueInOrder'
    BY <1>4, <1>6, <1>8, <1>9 DEF QueueInOrder
  <1> QED BY <1>1, <1>6, <1>7, <1>9, <1>10 DEF q

\* A message is sent that follows the front, after everything else.
LEMMA SentInv ==
    ASSUME Queues, Commands, NEW e \in Messages, toModule' = Append(toModule, e),
           e.cmd = "program" <=> e.pos = 0
    PROVE  /\ toModule' \in Seq(Messages)
           /\ Range(toModule') = Range(toModule) \cup {e}
           /\ \A m \in Range(toModule') : m.cmd = "program" <=> m.pos = 0
  <1>1. toModule \in Seq(Messages)
    BY DEF Queues
  <1>2. toModule' \in Seq(Messages)
    BY <1>1
  <1>3. Range(toModule') = Range(toModule) \cup {e}
    BY <1>1, RangeAppend
  <1> QED BY <1>2, <1>3 DEF Commands

LEMMA AnsweredNextInv ==
    ASSUME QueueInv, Rest, AnsweredNext
    PROVE  QueueInv'
  <1>1. Queues /\ QueueInOrder /\ Commands /\ (~resent => OneAtATime)
    BY DEF QueueInv
  <1>2. /\ Comes /\ Len(msgQueue) > 1 /\ msgQueue' = Tail(msgQueue)
        /\ toModule' = Append(toModule, msgQueue[2])
        /\ UNCHANGED <<received, repeated, resent>>
    BY Zenon DEF AnsweredNext, Answered
  <1>3. msgQueue \in Seq(Messages) /\ feedback \in Seq(Messages) /\ toModule \in Seq(Messages)
        /\ feedback # <<>> /\ received \in Nat
    BY <1>1, <1>2 DEF Queues, Comes, Rest
  <1> DEFINE e == msgQueue[2]
             h == Head(msgQueue).pos
             back == Tail(feedback)
  <1>4. /\ msgQueue' \in Seq(Messages) /\ msgQueue' # <<>> /\ Head(msgQueue') = e
        /\ e \in Messages /\ e.pos = h + 1 /\ e.cmd # "program" /\ QueueInOrder'
    BY <1>1, <1>2, <1>3, RestOfQueue
  <1>5. h \in Nat /\ e.pos # 0
    <2>1. Head(msgQueue) \in Messages
      BY <1>2, <1>3
    <2>2. h \in Nat
      BY <2>1 DEF Messages
    <2> HIDE DEF h, e
    <2> QED BY <1>4, <2>2
  <1>6. /\ toModule' \in Seq(Messages) /\ Range(toModule') = Range(toModule) \cup {e}
        /\ \A m \in Range(toModule') : m.cmd = "program" <=> m.pos = 0
    <2> HIDE DEF e, h
    <2>1. toModule' = Append(toModule, e)
      BY <1>2 DEF e
    <2> QED BY <1>1, <1>4, <1>5, <2>1, SentInv
  <1>7. back \in Seq(Messages) /\ Head(feedback) \in Range(feedback)
        /\ Range(back) \subseteq Range(feedback) /\ Head(feedback) \in Messages
    BY <1>3, HeadAndTail
  <1>8. feedback' = back
    BY <1>2 DEF Comes
  <1> HIDE DEF e, h, back
  <1>9. Commands'
    BY <1>1, <1>6, <1>7, <1>8 DEF Commands
  <1>10. QueueReady'
    BY <1>4 DEF QueueReady
  <1>11. ASSUME ~resent
         PROVE  OneAtATime'
    <2>1. /\ ~repeated /\ Wire(feedback, toModule, 1) /\ received <= h
          /\ \A m \in Range(toModule) : m.pos = 0 \/ m.pos > received
          /\ \A m \in Range(toModule) \cup Range(feedback) : m.pos \in {0, h}
      <3>1. msgQueue # <<>>
        BY <1>2, <1>3
      <3> QED BY <1>1, <1>11, <3>1 DEF OneAtATime, h
    <2>2. Head(feedback).pos = h /\ h # 0
      BY <1>1, <1>7, <2>1 DEF Commands
    <2>3. Wire(back, toModule, 1) /\ Before({Head(feedback)}, Range(back) \cup Range(toModule), 1)
      BY <1>3, <2>1, WireFeedback DEF back
    <2>4. Range(back) \cup Range(toModule) = {}
      <3>1. ASSUME NEW m \in Range(back) \cup Range(toModule)
            PROVE  FALSE
        <4>1. h + 1 <= m.pos
          BY <2>2, <2>3 DEF Before
        <4>2. m.pos \in {0, h}
          BY <1>7, <2>1
        <4> QED BY <1>5, <4>1, <4>2
      <3> QED BY <3>1
    <2>5. Before(Range(back) \cup Range(toModule), {e}, 1)
      BY <2>4 DEF Before
    <2>6. Wire(back, Append(toModule, e), 1)
      BY <1>3, <1>4, <1>7, <2>3, <2>5, WireSend
    <2>7. Wire(feedback', toModule', 1)
      BY <1>2, <1>8, <2>6 DEF e
    <2>8. Range(toModule') = {e} /\ Range(feedback') = {}
      BY <1>6, <1>8, <2>4
    <2>9. received' = received /\ ~repeated'
      BY <1>2, <2>1
    <2>10. e.pos > received /\ received <= e.pos
      BY <1>3, <1>4, <1>5, <2>1
    <2> QED BY <1>4, <2>7, <2>8, <2>9, <2>10 DEF OneAtATime
  <1>12. ~resent' => OneAtATime'
    BY <1>2, <1>11
  <1> QED BY <1>4, <1>6, <1>7, <1>8, <1>9, <1>10, <1>12 DEF QueueInv, Queues

LEMMA ResendsInv ==
    ASSUME QueueInv, Rest, Resends
    PROVE  QueueInv'
  <1> DEFINE h == Head(msgQueue)
  <1>1. Queues /\ QueueInOrder /\ Commands /\ (~resent => OneAtATime) /\ QueueReady
    BY DEF QueueInv
  <1>2. /\ connected /\ msgQueue' = IF h.cmd = "program" THEN Tail(msgQueue) ELSE msgQueue
        /\ toModule' = Append(toModule, Head(msgQueue'))
        /\ UNCHANGED <<feedback, received, repeated>>
        /\ resent' = (resent \/ ~(h.cmd = "program"))
    BY Zenon DEF Resends, Resend, SendMessage
  <1>3. msgQueue \in Seq(Messages) /\ feedback \in Seq(Messages) /\ toModule \in Seq(Messages)
        /\ msgQueue # <<>> /\ received \in Nat
    BY <1>1, <1>2 DEF Queues, Rest, QueueReady
  <1>4. h \in Messages /\ h = msgQueue[1] /\ Len(msgQueue) \in Nat /\ 1 \in 1 .. Len(msgQueue)
    BY <1>3
  <1>5. h.pos \in Nat /\ (h.cmd = "program" <=> h.pos = 0)
    <2>1. h.pos \in Nat
      BY <1>4 DEF Messages
    <2> HIDE DEF h
    <2> QED BY <1>1, <1>4, <2>1 DEF QueueInOrder
  <1> HIDE DEF h
  <1>6. CASE h.cmd = "program"
    <2> DEFINE e == msgQueue[2]
    <2>1. msgQueue' = Tail(msgQueue) /\ (resent' <=> resent)
      BY <1>2, <1>6, Zenon
    <2>2. Len(msgQueue) > 1
      <3>1. msgQueue[Len(msgQueue)].pos # 0
        BY <1>1, <1>3 DEF QueueInOrder
      <3>2. Len(msgQueue) # 1
        BY <1>4, <1>5, <1>6, <3>1
      <3>3. Len(msgQueue) \in Nat /\ Len(msgQueue) # 0
        BY <1>3
      <3>4. \A n \in Nat : n # 0 /\ n # 1 => n > 1
        OBVIOUS
      <3> QED BY <3>2, <3>3, <3>4, Zenon
    <2>3. /\ msgQueue' \in Seq(Messages) /\ msgQueue' # <<>> /\ Head(msgQueue') = e
          /\ e \in Messages /\ e.pos = Head(msgQueue).pos + 1 /\ e.cmd # "program" /\ QueueInOrder'
      BY <1>1, <1>3, <2>1, <2>2, RestOfQueue
    <2> HIDE DEF e
    <2>4. e.pos = 1
      BY <1>5, <1>6, <2>3 DEF h
    <2>5. /\ toModule' \in Seq(Messages) /\ Range(toModule') = Range(toModule) \cup {e}
          /\ \A m \in Range(toModule') : m.cmd = "program" <=> m.pos = 0
      <3>1. toModule' = Append(toModule, e) /\ (e.cmd = "program" <=> e.pos = 0)
        BY <1>2, <2>3, <2>4
      <3> QED BY <1>1, <2>3, <3>1, SentInv
    <2>6. Commands' /\ QueueReady'
      BY <1>1, <1>2, <2>3, <2>5 DEF Commands, QueueReady
    <2>7. ASSUME ~resent
          PROVE  OneAtATime'
      <3>1. /\ ~repeated /\ Wire(feedback, toModule, 1) /\ received <= h.pos
            /\ \A m \in Range(toModule) \cup Range(feedback) : m.pos \in {0, h.pos}
        BY <1>1, <1>3, <2>7 DEF OneAtATime, h
      <3>2. \A m \in Range(feedback) \cup Range(toModule) : m.pos = 0
        BY <1>5, <1>6, <3>1
      <3>3. Before(Range(feedback) \cup Range(toModule), {e}, 1)
        BY <2>4, <3>2 DEF Before
      <3>4. Wire(feedback, Append(toModule, e), 1)
        BY <1>3, <2>3, <3>1, <3>3, WireSend
      <3>5. Wire(feedback', toModule', 1)
        BY <1>2, <2>3, <3>4
      <3>6. received' = 0 /\ ~repeated'
        BY <1>2, <1>3, <1>5, <1>6, <3>1
      <3>7. \A m \in Range(toModule') \cup Range(feedback') : m.pos \in {0, 1}
        BY <1>2, <2>4, <2>5, <3>2
      <3>8. \A m \in Range(toModule') : m.pos = 0 \/ m.pos > 0
        BY <3>7
      <3> QED BY <2>3, <2>4, <3>5, <3>6, <3>7, <3>8 DEF OneAtATime
    <2>8. ~resent' => OneAtATime'
      BY <2>1, <2>7
    <2> QED BY <1>2, <1>3, <2>3, <2>5, <2>6, <2>8 DEF QueueInv, Queues
  <1>7. CASE h.cmd # "program"
    <2>1. UNCHANGED msgQueue /\ resent' /\ toModule' = Append(toModule, h)
      BY <1>2, <1>7, Zenon DEF h
    <2>2. /\ toModule' \in Seq(Messages)
          /\ \A m \in Range(toModule') : m.cmd = "program" <=> m.pos = 0
      BY <1>1, <1>4, <1>5, <2>1, SentInv
    <2>3. Commands' /\ QueueReady' /\ QueueInOrder'
      BY <1>1, <1>2, <1>3, <2>1, <2>2 DEF Commands, QueueReady, QueueInOrder
    <2> QED BY <1>2, <1>3, <2>1, <2>2, <2>3 DEF QueueInv, Queues
  <1> QED BY <1>6, <1>7

\* What the module does with the first message on its way to it.
SentBack(e) ==
    /\ e \in Messages /\ e.pos = Head(toModule).pos
    /\ e = [Head(toModule) EXCEPT !.timestamp = e.timestamp]
    /\ e.cmd # "program"
    /\ feedback' = Append(feedback, e)
    /\ received' = IF e.pos = received + 1 THEN e.pos ELSE received
    /\ repeated' <=> repeated \/ e.pos <= received

LEMMA ReceiveCases ==
    ASSUME Queues, ModuleReceives
    PROVE  /\ toModule # <<>> /\ toModule' = Tail(toModule)
           /\ Head(toModule) \in Messages /\ Tail(toModule) \in Seq(Messages)
           /\ Range(toModule) = {Head(toModule)} \cup Range(Tail(toModule))
           /\ UNCHANGED <<msgQueue, connected, observing, uploading, document, resent, done>>
           /\ UNCHANGED <<feedback, received, repeated>> \/ \E e : SentBack(e)
  <1> DEFINE m == Head(toModule)
             e == [m EXCEPT !.timestamp = IF Stamped THEN 1 ELSE 0]
  <1>1. toModule # <<>> /\ toModule' = Tail(toModule) /\ UNCHANGED <<pluginVars, resent, done>>
    BY DEF ModuleReceives
  <1>2. /\ m \in Messages /\ Tail(toModule) \in Seq(Messages)
        /\ Range(toModule) = {m} \cup Range(Tail(toModule))
    BY <1>1, HeadAndTail DEF Queues
  <1>3. \/ UNCHANGED <<feedback, received, repeated>>
        \/ /\ m.cmd # "program" /\ feedback' = Append(feedback, e)
           /\ received' = (IF m.pos = received + 1 THEN m.pos ELSE received)
           /\ repeated' = (repeated \/ m.pos <= received)
    BY Zenon DEF ModuleReceives
  <1> HIDE DEF m
  <1>4. /\ e \in Messages /\ e.pos = m.pos /\ e.cmd = m.cmd
        /\ e = [m EXCEPT !.timestamp = e.timestamp]
    <2>1. (IF Stamped THEN 1 ELSE 0) \in {0, 1}
      OBVIOUS
    <2> DEFINE t == IF Stamped THEN 1 ELSE 0
    <2> HIDE DEF t
    <2>2. t \in {0, 1}
      BY <2>1 DEF t
    <2>3. /\ [m EXCEPT !.timestamp = t] \in Messages
          /\ [m EXCEPT !.timestamp = t].pos = m.pos
          /\ [m EXCEPT !.timestamp = t].cmd = m.cmd
          /\ [m EXCEPT !.timestamp = t].timestamp = t
      BY <1>2, <2>2 DEF Messages
    <2> QED BY <2>3 DEF t
  <1> HIDE DEF e
  <1>5. ASSUME /\ m.cmd # "program" /\ feedback' = Append(feedback, e)
               /\ received' = (IF m.pos = received + 1 THEN m.pos ELSE received)
               /\ repeated' = (repeated \/ m.pos <= received)
        PROVE  SentBack(e)
    <2>1. repeated' <=> repeated \/ e.pos <= received
      BY <1>4, <1>5, Zenon
    <2>2. received' = IF e.pos = received + 1 THEN e.pos ELSE received
      BY <1>4, <1>5, Zenon
    <2> QED BY <1>4, <1>5, <2>1, <2>2, Zenon DEF SentBack, m
  <1>6. UNCHANGED <<feedback, received, repeated>> \/ \E x : SentBack(x)
    BY <1>3, <1>5, Zenon
  <1>7. UNCHANGED <<msgQueue, connected, observing, uploading, document, resent, done>>
    BY <1>1, Zenon DEF pluginVars
  <1> QED BY <1>1, <1>2, <1>6, <1>7, Zenon DEF m

\* The first message on its way to the module is lost, or is not sent back.
LEMMA DroppedInv ==
    ASSUME QueueInv, toModule # <<>>, toModule' = Tail(toModule),
           UNCHANGED <<msgQueue, feedback, received, repeated, resent>>, UNCHANGED connected
    PROVE  QueueInv'
  <1>1. toModule \in Seq(Messages) /\ feedback \in Seq(Messages)
    BY DEF QueueInv, Queues
  <1>2. toModule' \in Seq(Messages) /\ Range(toModule') \subseteq Range(toModule)
    BY <1>1, HeadAndTail
  <1>3. Commands' /\ QueueReady' /\ QueueInOrder'
    BY <1>2 DEF QueueInv, Commands, QueueReady, QueueInOrder
  <1>4. ASSUME ~resent
        PROVE  OneAtATime'
    <2>1. OneAtATime
      BY <1>4 DEF QueueInv
    <2>2. Wire(feedback, Tail(toModule), 1)
      BY <1>1, <2>1, WireDrop DEF OneAtATime
    <2>3. Wire(feedback', toModule', 1)
      BY <2>2
    <2> QED BY <1>2, <2>1, <2>3 DEF OneAtATime
  <1>5. ~resent' => OneAtATime'
    BY <1>4
  <1> QED BY <1>1, <1>2, <1>3, <1>5 DEF QueueInv, Queues

LEMMA ModuleReceivesInv ==
    ASSUME QueueInv, Rest, ModuleReceives
    PROVE  QueueInv'
  <1> DEFINE h == Head(toModule)
             rest == Tail(toModule)
  <1>1. Queues /\ QueueInOrder /\ Commands /\ (~resent => OneAtATime) /\ QueueReady
    BY DEF QueueInv
  <1>2. /\ toModule # <<>> /\ toModule' = rest
        /\ h \in Messages /\ rest \in Seq(Messages)
        /\ Range(toModule) = {h} \cup Range(rest)
        /\ UNCHANGED <<msgQueue, connected, observing, uploading, document, resent, done>>
        /\ UNCHANGED <<feedback, received, repeated>> \/ \E e : SentBack(e)
    BY <1>1, ReceiveCases
  <1>3. CASE UNCHANGED <<feedback, received, repeated>>
    BY <1>2, <1>3, DroppedInv
  <1>4. ASSUME NEW e, SentBack(e)
        PROVE  QueueInv'
    <2> HIDE DEF h, rest
    <2>1. /\ e \in Messages /\ e.pos = h.pos /\ e.cmd = h.cmd /\ e.cmd # "program"
          /\ feedback' = Append(feedback, e)
          /\ received' = IF e.pos = received + 1 THEN e.pos ELSE received
          /\ repeated' <=> repeated \/ e.pos <= received
      <3>1. e = [h EXCEPT !.timestamp = e.timestamp] /\ h \in Messages
        BY <1>2, <1>4 DEF SentBack, h
      <3>2. [h EXCEPT !.timestamp = e.timestamp].cmd = h.cmd
        BY <3>1 DEF Messages
      <3> QED BY <1>4, <3>1, <3>2, Zenon DEF SentBack, h
    <2>2. feedback \in Seq(Messages) /\ toModule \in Seq(Messages)
      BY <1>1 DEF Queues
    <2>3. feedback' \in Seq(Messages) /\ Range(feedback') = Range(feedback) \cup {e}
      BY <2>1, <2>2, RangeAppend, AppendProperties
    <2>4. h.pos # 0 /\ e.pos \in Nat /\ received \in Nat
      BY <1>1, <1>2, <2>1 DEF Commands, Messages, Rest
    <2>5. Commands'
      BY <1>1, <1>2, <2>1, <2>3, <2>4 DEF Commands
    <2>6. QueueReady' /\ QueueInOrder'
      BY <1>1, <1>2 DEF QueueReady, QueueInOrder
    <2>7. ASSUME ~resent
          PROVE  OneAtATime'
      <3>1. /\ ~repeated /\ Wire(feedback, toModule, 1)
            /\ \A m \in Range(toModule) : m.pos = 0 \/ m.pos > received
            /\ msgQueue # <<>> =>
                 /\ received <= Head(msgQueue).pos
                 /\ \A m \in Range(toModule) \cup Range(feedback) : m.pos \in {0, Head(msgQueue).pos}
        BY <1>1, <2>7 DEF OneAtATime
      <3>2. e.pos > received
        BY <1>2, <2>1, <2>4, <3>1
      <3>3. ~repeated'
        BY <2>1, <2>4, <3>1, <3>2
      <3>4. Wire(Append(feedback, e), rest, 1) /\ Before({h}, Range(rest), 1)
        BY <1>2, <2>1, <2>2, <3>1, WireBack, WireDrop DEF h, rest
      <3>5. Wire(feedback', toModule', 1)
        BY <1>2, <2>1, <3>4
      <3>6. received' <= e.pos
        BY <2>1, <2>4, <3>2
      <3>7. \A m \in Range(rest) : m.pos > received'
        <4>1. ASSUME NEW m \in Range(rest)
              PROVE  m.pos > received'
          <5>1. e.pos + 1 <= m.pos
            BY <2>1, <3>4 DEF Before
          <5>2. m.pos \in Nat /\ received' \in Nat
            <6>1. m \in Messages
              BY <1>2, InRange
            <6> QED BY <2>1, <2>4, <6>1 DEF Messages
          <5> QED BY <2>4, <3>6, <5>1, <5>2
        <4> QED BY <4>1
      <3>8. ASSUME msgQueue # <<>>
            PROVE  /\ received' <= Head(msgQueue).pos
                   /\ \A m \in Range(toModule') \cup Range(feedback') :
                         m.pos \in {0, Head(msgQueue).pos}
        <4>1. h.pos = Head(msgQueue).pos
          BY <1>2, <2>4, <3>1, <3>8
        <4>2. received' <= Head(msgQueue).pos
          BY <2>1, <3>6, <4>1
        <4> QED BY <1>2, <2>1, <2>3, <3>1, <3>8, <4>1, <4>2
      <3>9. \A m \in Range(toModule') : m.pos = 0 \/ m.pos > received'
        BY <1>2, <3>7
      <3>10. UNCHANGED msgQueue
        BY <1>2
      <3> QED BY <3>3, <3>5, <3>8, <3>9, <3>10 DEF OneAtATime
    <2>8. ~resent' => OneAtATime'
      BY <1>2, <2>7
    <2> QED BY <1>1, <1>2, <2>3, <2>5, <2>6, <2>8 DEF QueueInv, Queues
  <1> QED BY <1>2, <1>3, <1>4

LEMMA LoseInv ==
    ASSUME QueueInv, Lose
    PROVE  QueueInv'
  <1>1. /\ UNCHANGED <<msgQueue, received, repeated, resent>> /\ UNCHANGED connected
        /\ \/ toModule # <<>> /\ toModule' = Tail(toModule) /\ UNCHANGED feedback
           \/ Comes /\ UNCHANGED toModule
    BY Zenon DEF Lose, pluginVars, historyVars, Comes
  <1>2. CASE toModule # <<>> /\ toModule' = Tail(toModule) /\ UNCHANGED feedback
    BY <1>1, <1>2, DroppedInv
  <1>3. CASE Comes /\ UNCHANGED toModule
    <2>1. Commands' /\ (~resent' => OneAtATime') /\ feedback' \in Seq(Messages)
      BY <1>1, <1>3, ComesInv DEF QueueInv
    <2>2. QueueReady' /\ QueueInOrder' /\ msgQueue' \in Seq(Messages) /\ toModule' \in Seq(Messages)
      BY <1>1, <1>3 DEF QueueInv, QueueReady, QueueInOrder, Queues
    <2> QED BY <2>1, <2>2 DEF QueueInv, Queues
  <1> QED BY <1>1, <1>2, <1>3

LEMMA AnsweredLastInv ==
    ASSUME QueueInv, AnsweredLast
    PROVE  QueueInv'
  BY StoppedInv DEF AnsweredLast, Answered

LEMMA QueueStep ==
    ASSUME Combo, Rest, QueueInv, [Next]_vars
    PROVE  QueueInv'
  <1>1. Steps
    BY StepCases
  <1>2. CASE Untouched
    <2>1. UNCHANGED <<msgQueue, toModule, feedback, received, repeated, resent>> /\ UNCHANGED connected
      BY <1>2, Zenon DEF Untouched
    <2> QED BY <2>1, UntouchedInv
  <1>3. CASE Stopped /\ (UNCHANGED feedback \/ Comes)
    BY <1>3, StoppedInv
  <1>4. CASE Resends
    BY <1>4, ResendsInv
  <1>5. CASE AnsweredNext
    BY <1>5, AnsweredNextInv
  <1> QED BY <1>1, <1>2, <1>3, <1>4, <1>5, UploadInv, ChangeModuleIDInv, IgnoredInv,
             AnsweredLastInv, ModuleReceivesInv, LoseInv, Zenon DEF Steps
-----------------------------------------------------------------------------
(* What the run checks, for every value of the constants.                  *)

Sound == Flags /\ Combo /\ Rest /\ QueueInv

LEMMA SoundInit == Init => Sound
  <1> SUFFICES ASSUME Init PROVE Sound
    OBVIOUS
  <1>1. Flags
    BY DEF Init, Flags
  <1>2. known = <<>> /\ selected = NoModule /\ module = NoModule
    BY DEF Init
  <1>3. Combo
    BY <1>2, EmptySeq, Zenon DEF Combo
  <1>4. Rest
    <2>1. moduleState \in [Modules -> States]
      BY DEF Init, States
    <2> QED BY <2>1, BootloaderAssumption DEF Init, Rest, Loaded
  <1>5. msgQueue = <<>> /\ toModule = <<>> /\ feedback = <<>> /\ ~connected /\ received = 0
        /\ ~repeated
    BY DEF Init
  <1>6. Range(<<>>) = {} /\ Wire(<<>>, <<>>, 1)
    BY RangeEmpty, WireEmpty
  <1>7. Queues
    BY <1>5, EmptySeq, Zenon DEF Queues
  <1>8. QueueReady /\ QueueInOrder
    BY <1>5 DEF QueueReady, QueueInOrder
  <1>9. Commands /\ OneAtATime
    BY <1>5, <1>6 DEF Commands, OneAtATime
  <1> QED BY <1>1, <1>3, <1>4, <1>7, <1>8, <1>9 DEF QueueInv, Sound

LEMMA SoundStep == Sound /\ [Next]_vars => Sound'
  <1>1. QueueInv => Queues
    BY DEF QueueInv
  <1> QED BY <1>1, FlagsStep, ComboStep, RestStep, QueueStep, Zenon DEF Sound

\* The queue has a front whenever timeout() and event() take it (without a test), and
\* the module gets each message of an upload once, unless the plugin sent one again
\* after a time out.
THEOREM Uploaded == Spec => []UploadSound
  <1>1. Sound => UploadSound
    <2>1. QueueInv => Queues /\ QueueReady /\ (~resent => ~repeated)
      BY Zenon DEF QueueInv, OneAtATime
    <2> QED BY <2>1, TypeOKParts, Zenon DEF UploadSound, OnceUnlessResent, Sound
  <1> QED BY <1>1, SoundInit, SoundStep, PTL DEF Spec
-----------------------------------------------------------------------------
(* In step with the module.                                                *)

\* Messages that are the same to the plugin have the same command and row.
LEMMA SameFields ==
    ASSUME NEW m \in Messages, NEW n \in Messages, Same(m, n)
    PROVE  m.cmd = n.cmd /\ m.row = n.row
  <1>1. /\ [m EXCEPT !.pos = 0].cmd = m.cmd /\ [m EXCEPT !.pos = 0].row = m.row
        /\ [n EXCEPT !.pos = 0].cmd = n.cmd /\ [n EXCEPT !.pos = 0].row = n.row
    BY DEF Messages
  <1> QED BY <1>1, Zenon DEF Same

\* The front of the queue.
LEMMA FrontOf ==
    ASSUME Queues, Rest, NEW dest \in Modules, NEW front \in Nat, InStepAt(front, dest)
    PROVE  /\ msgQueue # <<>> /\ Len(msgQueue) \in Nat /\ Len(document) \in Nat
           /\ Head(msgQueue) = Part(document, dest, front)
           /\ Head(msgQueue) \in Messages /\ Head(msgQueue).pos = front
           /\ Head(msgQueue).cmd = "program" <=> front = 0
           /\ document \in Loaded
           /\ IsPart(Head(msgQueue), document, dest)
  <1>1. document \in Loaded /\ Len(document) \in Nat /\ msgQueue \in Seq(Messages)
    BY LoadedType DEF Rest, Queues
  <1>2. front \in 0 .. Len(document) + 4 /\ Len(msgQueue) = Len(document) + 5 - front
        /\ \A i \in 1 .. Len(msgQueue) : msgQueue[i] = Part(document, dest, front + i - 1)
    BY Zenon DEF InStepAt
  <1>3. 1 \in 1 .. Len(msgQueue) /\ front + 1 - 1 = front /\ Len(msgQueue) \in Nat
    BY <1>1, <1>2
  <1>4. msgQueue # <<>> /\ Head(msgQueue) = msgQueue[1]
    BY <1>1, <1>3
  <1>5. Head(msgQueue) = Part(document, dest, front)
    BY <1>2, <1>3, <1>4
  <1> DEFINE m == Part(document, dest, front)
  <1>6. m \in Messages /\ m.pos = front /\ (m.cmd = "program" <=> front = 0)
    BY <1>1, <1>2, PartIs
  <1> HIDE DEF m
  <1>7. m = [m EXCEPT !.timestamp = m.timestamp]
    BY <1>6 DEF Messages
  <1>8. m.pos \in 0 .. Len(document) + 4 /\ m = [Part(document, dest, m.pos) EXCEPT !.timestamp = m.timestamp]
    BY <1>2, <1>6, <1>7 DEF m
  <1>9. IsPart(m, document, dest)
    BY <1>8 DEF IsPart
  <1>10. Head(msgQueue) = m
    BY <1>5 DEF m
  <1> QED BY <1>1, <1>3, <1>4, <1>5, <1>6, <1>9, <1>10

\* What is sent back and is the same as the front of the queue is the front.
LEMMA SameIsFront ==
    ASSUME NeighboursDiffer, Queues, Rest, NEW dest \in Modules, NEW front \in Nat,
           InStepAt(front, dest), NEW m \in Range(feedback), Same(Head(msgQueue), m)
    PROVE  m.pos = front /\ received = front
  <1>1. /\ Head(msgQueue) = Part(document, dest, front) /\ Head(msgQueue) \in Messages
        /\ document \in Loaded /\ Len(document) \in Nat
    BY FrontOf
  <1>2. /\ IsPart(m, document, dest) /\ m.pos <= front /\ front <= m.pos + 1
        /\ m.pos <= received /\ received <= front /\ front \in 0 .. Len(document) + 4
    BY DEF InStepAt
  <1>3. m \in Messages /\ received \in Nat
    BY InRange DEF Queues, Rest
  <1>4. m.pos \in 0 .. Len(document) + 4 /\ m.cmd = Part(document, dest, m.pos).cmd
        /\ m.row = Part(document, dest, m.pos).row
    <2>1. m.pos \in 0 .. Len(document) + 4
          /\ m = [Part(document, dest, m.pos) EXCEPT !.timestamp = m.timestamp]
      BY <1>2, Zenon DEF IsPart
    <2> DEFINE a == Part(document, dest, m.pos)
    <2>2. a \in Messages
      BY <1>1, <2>1, PartIs
    <2> HIDE DEF a
    <2>3. m = [a EXCEPT !.timestamp = m.timestamp]
      BY <2>1 DEF a
    <2>4. [a EXCEPT !.timestamp = m.timestamp].cmd = a.cmd
          /\ [a EXCEPT !.timestamp = m.timestamp].row = a.row
      BY <2>2 DEF Messages
    <2>5. m.cmd = a.cmd /\ m.row = a.row
      BY <2>3, <2>4, Zenon
    <2> QED BY <2>1, <2>5 DEF a
  <1>5. m.pos = front
    <2> SUFFICES ASSUME m.pos # front PROVE FALSE
      OBVIOUS
    <2>1. m.pos \in 0 .. Len(document) + 3 /\ front = m.pos + 1
      BY <1>1, <1>2, <1>4
    <2>2. \/ Part(document, dest, m.pos).cmd # Part(document, dest, m.pos + 1).cmd
          \/ Part(document, dest, m.pos).row # Part(document, dest, m.pos + 1).row
      BY <1>1, <2>1, PartsDiffer
    <2>3. Head(msgQueue).cmd = m.cmd /\ Head(msgQueue).row = m.row
      BY <1>1, <1>3, SameFields
    <2> QED BY <1>1, <1>4, <2>1, <2>2, <2>3
  <1>6. received = front
    BY <1>2, <1>3, <1>5
  <1> QED BY <1>5, <1>6

\* What is left of the wire is in step as before.
LEMMA LessInStep ==
    ASSUME Queues, NEW dest \in Modules, NEW front \in Nat, InStepAt(front, dest),
           UNCHANGED <<msgQueue, received, document>>,
           \/ UNCHANGED <<toModule, feedback>>
           \/ Comes /\ UNCHANGED toModule
           \/ toModule # <<>> /\ toModule' = Tail(toModule) /\ UNCHANGED feedback
    PROVE  InStepAt(front, dest)'
  <1>1. toModule \in Seq(Messages) /\ feedback \in Seq(Messages)
    BY DEF Queues
  <1>2. Wire(feedback, toModule, 0)
    BY DEF InStepAt
  <1>3. Wire(feedback', toModule', 0) /\ Range(toModule') \subseteq Range(toModule)
        /\ Range(feedback') \subseteq Range(feedback)
    <2>1. CASE UNCHANGED <<toModule, feedback>>
      BY <1>2, <2>1
    <2>2. CASE Comes /\ UNCHANGED toModule
      <3>1. Wire(Tail(feedback), toModule, 0)
        BY <1>1, <1>2, <2>2, WireFeedback DEF Comes
      <3>2. Range(Tail(feedback)) \subseteq Range(feedback)
        BY <1>1, <2>2, HeadAndTail DEF Comes
      <3> QED BY <2>2, <3>1, <3>2 DEF Comes
    <2>3. CASE toModule # <<>> /\ toModule' = Tail(toModule) /\ UNCHANGED feedback
      <3>1. Wire(feedback, Tail(toModule), 0)
        BY <1>1, <1>2, <2>3, WireDrop
      <3>2. Range(Tail(toModule)) \subseteq Range(toModule)
        BY <1>1, <2>3, HeadAndTail
      <3> QED BY <2>3, <3>1, <3>2
    <2> QED BY <2>1, <2>2, <2>3
  <1>4. /\ front \in 0 .. Len(document') + 4
        /\ Len(msgQueue') = Len(document') + 5 - front
        /\ \A i \in 1 .. Len(msgQueue') : msgQueue'[i] = Part(document', dest, front + i - 1)
        /\ received' <= front /\ front <= received' + 1
    BY DEF InStepAt
  <1>5. /\ \A m \in Range(toModule') \cup Range(feedback') :
              IsPart(m, document', dest) /\ m.pos <= front /\ front <= m.pos + 1
        /\ \A m \in Range(feedback') : m.pos <= received'
    <2>1. /\ \A m \in Range(toModule) \cup Range(feedback) :
                IsPart(m, document, dest) /\ m.pos <= front /\ front <= m.pos + 1
          /\ \A m \in Range(feedback) : m.pos <= received
      BY DEF InStepAt
    <2> QED BY <1>3, <2>1
  <1> QED BY <1>3, <1>4, <1>5 DEF InStepAt

\* The front is popped and the next message sent, when the module has got the front
\* and everything on the wire is the front.
LEMMA NextInStep ==
    ASSUME Queues, Rest, NEW dest \in Modules, NEW front \in Nat, InStepAt(front, dest),
           Len(msgQueue) > 1, msgQueue' = Tail(msgQueue),
           toModule' = Append(toModule, msgQueue[2]), UNCHANGED <<received, document>>,
           feedback' \in Seq(Messages), Range(feedback') \subseteq Range(feedback),
           Wire(feedback', toModule, 0), received = front,
           \A m \in Range(feedback') \cup Range(toModule) : front <= m.pos
    PROVE  InStepAt(front + 1, dest)'
  <1> DEFINE n == Len(document)
             next == msgQueue[2]
  <1>1. document \in Loaded /\ n \in Nat /\ msgQueue \in Seq(Messages) /\ toModule \in Seq(Messages)
    BY LoadedType DEF Rest, Queues
  <1>2. front \in 0 .. n + 4 /\ Len(msgQueue) = n + 5 - front
        /\ \A i \in 1 .. Len(msgQueue) : msgQueue[i] = Part(document, dest, front + i - 1)
    BY Zenon DEF InStepAt
  <1>3. /\ front + 1 \in 0 .. n + 4 /\ 2 \in 1 .. Len(msgQueue) /\ front + 2 - 1 = front + 1
        /\ Len(Tail(msgQueue)) = n + 5 - (front + 1)
    <2>1. Len(Tail(msgQueue)) = Len(msgQueue) - 1
      BY <1>1, <1>2
    <2> HIDE DEF n
    <2> QED BY <1>1, <1>2, <2>1
  <1>4. next = Part(document, dest, front + 1)
    BY <1>2, <1>3
  <1> DEFINE a == Part(document, dest, front + 1)
  <1>5. a \in Messages /\ a.pos = front + 1
    BY <1>1, <1>3, PartIs
  <1>6. IsPart(a, document, dest)
    <2> HIDE DEF a
    <2>1. a = [a EXCEPT !.timestamp = a.timestamp]
      BY <1>5 DEF Messages
    <2>2. a = [Part(document, dest, a.pos) EXCEPT !.timestamp = a.timestamp]
      BY <1>5, <2>1 DEF a
    <2>3. a.pos \in 0 .. Len(document) + 4
      BY <1>3, <1>5
    <2> QED BY <2>2, <2>3 DEF IsPart
  <1> HIDE DEF a, next
  <1>7. next \in Messages /\ next.pos = front + 1 /\ IsPart(next, document, dest)
        /\ toModule' = Append(toModule, next)
    BY <1>4, <1>5, <1>6 DEF a, next
  <1>8. Range(toModule') = Range(toModule) \cup {next}
    BY <1>1, <1>7, RangeAppend
  <1>9. \A m \in Range(toModule) \cup Range(feedback) : IsPart(m, document, dest) /\ m.pos <= front
    BY DEF InStepAt
  <1>10. Before(Range(feedback') \cup Range(toModule), {next}, 0)
    <2>1. ASSUME NEW m \in Range(feedback') \cup Range(toModule)
          PROVE  m.pos + 0 <= next.pos
      <3>1. m.pos <= front /\ m.pos \in Nat
        <4>1. IsPart(m, document, dest) /\ m.pos <= front
          BY <1>9, <2>1
        <4> QED BY <1>1, <4>1 DEF IsPart
      <3> QED BY <1>7, <3>1
    <2> QED BY <2>1 DEF Before
  <1>11. Wire(feedback', toModule', 0)
    BY <1>1, <1>7, <1>10, WireSend
  <1>12. ASSUME NEW i \in 1 .. Len(msgQueue')
         PROVE  msgQueue'[i] = Part(document', dest, (front + 1) + i - 1)
    <2>1. /\ i + 1 \in 1 .. Len(msgQueue) /\ msgQueue'[i] = msgQueue[i + 1]
          /\ front + (i + 1) - 1 = (front + 1) + i - 1
      BY <1>1, <1>2, <1>3, SMTT(30)
    <2> QED BY <1>2, <2>1
  <1>13. /\ received' <= front + 1 /\ front + 1 <= received' + 1
    OBVIOUS
  <1>14. ASSUME NEW m \in Range(toModule') \cup Range(feedback')
         PROVE  IsPart(m, document', dest) /\ m.pos <= front + 1 /\ front + 1 <= m.pos + 1
    <2>1. CASE m = next
      BY <1>7, <2>1
    <2>2. CASE m \in Range(feedback') \cup Range(toModule)
      <3>1. IsPart(m, document, dest) /\ m.pos <= front /\ front <= m.pos
        BY <1>9, <2>2
      <3>2. m.pos \in Nat
        BY <1>1, <3>1 DEF IsPart
      <3> QED BY <3>1, <3>2
    <2> QED BY <1>8, <2>1, <2>2
  <1>15. \A m \in Range(feedback') : m.pos <= received'
    BY <1>9
  <1>16. front + 1 \in 0 .. Len(document') + 4 /\ Len(msgQueue') = Len(document') + 5 - (front + 1)
    BY <1>3
  <1> QED BY <1>11, <1>12, <1>13, <1>14, <1>15, <1>16 DEF InStepAt

LEMMA AnsweredNextInStep ==
    ASSUME NeighboursDiffer, Queues, Rest, NEW dest \in Modules, NEW front \in Nat,
           InStepAt(front, dest), AnsweredNext
    PROVE  InStepAt(front + 1, dest)'
  <1>1. /\ Comes /\ Len(msgQueue) > 1 /\ msgQueue' = Tail(msgQueue)
        /\ toModule' = Append(toModule, msgQueue[2])
        /\ UNCHANGED <<received, document>> /\ Same(Head(msgQueue), Head(feedback))
    BY Zenon DEF AnsweredNext, Answered
  <1>2. feedback \in Seq(Messages) /\ toModule \in Seq(Messages) /\ feedback # <<>>
        /\ feedback' = Tail(feedback)
    BY <1>1 DEF Queues, Comes
  <1>3. /\ feedback' \in Seq(Messages) /\ Head(feedback) \in Range(feedback)
        /\ Range(feedback') \subseteq Range(feedback)
    BY <1>2, HeadAndTail
  <1>4. Head(feedback).pos = front /\ received = front
    BY <1>1, <1>3, SameIsFront
  <1>5. Wire(feedback, toModule, 0)
    BY DEF InStepAt
  <1>6. Wire(feedback', toModule, 0)
        /\ Before({Head(feedback)}, Range(feedback') \cup Range(toModule), 0)
    BY <1>2, <1>5, WireFeedback
  <1>7. \A m \in Range(feedback') \cup Range(toModule) : front <= m.pos
    BY <1>4, <1>6 DEF Before
  <1> QED BY <1>1, <1>3, <1>4, <1>6, <1>7, NextInStep

\* The front is sent again.
LEMMA AgainInStep ==
    ASSUME Queues, Rest, NEW dest \in Modules, NEW front \in Nat, InStepAt(front, dest),
           UNCHANGED <<msgQueue, feedback, received, document>>,
           toModule' = Append(toModule, Head(msgQueue))
    PROVE  InStepAt(front, dest)'
  <1> DEFINE e == Head(msgQueue)
  <1>1. e \in Messages /\ e.pos = front /\ IsPart(e, document, dest) /\ Len(document) \in Nat
    BY FrontOf
  <1>2. toModule' = Append(toModule, e) /\ toModule \in Seq(Messages) /\ feedback \in Seq(Messages)
    BY DEF Queues
  <1> HIDE DEF e
  <1>3. /\ \A m \in Range(toModule) \cup Range(feedback) :
              IsPart(m, document, dest) /\ m.pos <= front /\ front <= m.pos + 1
        /\ \A m \in Range(feedback) : m.pos <= received
        /\ Wire(feedback, toModule, 0)
    BY DEF InStepAt
  <1>4. Range(toModule') = Range(toModule) \cup {e}
    BY <1>1, <1>2, RangeAppend
  <1>5. Before(Range(feedback) \cup Range(toModule), {e}, 0)
    <2>1. ASSUME NEW m \in Range(feedback) \cup Range(toModule)
          PROVE  m.pos + 0 <= e.pos
      <3>1. m.pos <= front /\ m.pos \in Nat
        BY <1>1, <1>3 DEF IsPart
      <3> QED BY <1>1, <3>1
    <2> QED BY <2>1 DEF Before
  <1>6. Wire(feedback', toModule', 0)
    BY <1>1, <1>2, <1>3, <1>5, WireSend
  <1>7. /\ front \in 0 .. Len(document') + 4
        /\ Len(msgQueue') = Len(document') + 5 - front
        /\ \A i \in 1 .. Len(msgQueue') : msgQueue'[i] = Part(document', dest, front + i - 1)
        /\ received' <= front /\ front <= received' + 1
    BY DEF InStepAt
  <1>8. ASSUME NEW m \in Range(toModule') \cup Range(feedback')
        PROVE  IsPart(m, document', dest) /\ m.pos <= front /\ front <= m.pos + 1
    <2>1. m = e \/ m \in Range(toModule) \cup Range(feedback)
      BY <1>4
    <2> QED BY <1>1, <1>3, <2>1
  <1>9. \A m \in Range(feedback') : m.pos <= received'
    BY <1>3
  <1> QED BY <1>6, <1>7, <1>8, <1>9 DEF InStepAt

LEMMA ResendsInStep ==
    ASSUME QueueInv, Rest, NEW dest \in Modules, NEW front \in Nat, InStepAt(front, dest), Resends
    PROVE  InStepAt(front, dest)' \/ InStepAt(front + 1, dest)'
  <1> DEFINE h == Head(msgQueue)
  <1>1. /\ msgQueue' = IF h.cmd = "program" THEN Tail(msgQueue) ELSE msgQueue
        /\ toModule' = Append(toModule, Head(msgQueue'))
        /\ UNCHANGED <<feedback, received, document>>
    BY Zenon DEF Resends, Resend, SendMessage
  <1>2. Queues
    BY DEF QueueInv
  <1>3. h.cmd = "program" <=> front = 0
    BY <1>2, FrontOf
  <1> HIDE DEF h
  <1>4. CASE front = 0
    <2>1. msgQueue' = Tail(msgQueue)
      BY <1>1, <1>3, <1>4
    <2>2. Len(document) \in Nat /\ Len(msgQueue) = Len(document) + 5 - front
          /\ received <= front /\ Wire(feedback, toModule, 0) /\ received \in Nat
          /\ \A m \in Range(toModule) \cup Range(feedback) : IsPart(m, document, dest)
      BY <1>2, FrontOf DEF InStepAt, Rest
    <2>3. Len(msgQueue) > 1 /\ received = front
      BY <1>4, <2>2
    <2>4. msgQueue \in Seq(Messages) /\ feedback \in Seq(Messages)
      BY <1>2 DEF Queues
    <2>5. Head(msgQueue') = msgQueue[2]
      <3>1. Tail(msgQueue) \in Seq(Messages) /\ Len(Tail(msgQueue)) = Len(msgQueue) - 1
            /\ Tail(msgQueue)[1] = msgQueue[2]
        BY <2>3, <2>4
      <3> DEFINE t == Tail(msgQueue)
      <3>2. Len(t) > 0 /\ t \in Seq(Messages)
        BY <2>3, <2>4, <3>1
      <3> HIDE DEF t
      <3>3. Head(t) = t[1]
        BY <3>2
      <3> QED BY <2>1, <3>1, <3>3 DEF t
    <2>6. \A m \in Range(feedback) \cup Range(toModule) : front <= m.pos
      BY <1>4, <2>2 DEF IsPart
    <2>7. /\ feedback' \in Seq(Messages) /\ Range(feedback') \subseteq Range(feedback)
          /\ Wire(feedback', toModule, 0) /\ UNCHANGED <<received, document>>
          /\ toModule' = Append(toModule, msgQueue[2])
          /\ \A m \in Range(feedback') \cup Range(toModule) : front <= m.pos
      BY <1>1, <2>2, <2>4, <2>5, <2>6
    <2> QED BY <1>2, <2>1, <2>3, <2>7, NextInStep
  <1>5. CASE front # 0
    <2>1. UNCHANGED msgQueue /\ toModule' = Append(toModule, Head(msgQueue))
      BY <1>1, <1>3, <1>5
    <2> QED BY <1>1, <1>2, <2>1, AgainInStep
  <1> QED BY <1>4, <1>5

LEMMA SentBackInStep ==
    ASSUME Queues, Rest, NEW dest \in Modules, NEW front \in Nat, InStepAt(front, dest),
           toModule # <<>>, toModule' = Tail(toModule), UNCHANGED <<msgQueue, document>>,
           NEW e, SentBack(e)
    PROVE  InStepAt(front, dest)'
  <1> DEFINE h == Head(toModule)
             rest == Tail(toModule)
  <1>1. toModule \in Seq(Messages) /\ feedback \in Seq(Messages) /\ received \in Nat
        /\ h \in Messages /\ rest \in Seq(Messages) /\ Range(toModule) = {h} \cup Range(rest)
        /\ Len(document) \in Nat /\ document \in Loaded
    BY HeadAndTail, LoadedType DEF Queues, Rest
  <1>2. /\ e \in Messages /\ e.pos = h.pos /\ e = [h EXCEPT !.timestamp = e.timestamp]
        /\ feedback' = Append(feedback, e)
        /\ received' = IF e.pos = received + 1 THEN e.pos ELSE received
    BY DEF SentBack
  <1>3. /\ \A m \in Range(toModule) \cup Range(feedback) :
              IsPart(m, document, dest) /\ m.pos <= front /\ front <= m.pos + 1
        /\ \A m \in Range(feedback) : m.pos <= received
        /\ received <= front /\ front <= received + 1
        /\ Wire(feedback, toModule, 0)
    BY DEF InStepAt
  <1>4. Wire(feedback', toModule', 0)
    <2>1. Wire(Append(feedback, e), rest, 0)
      BY <1>1, <1>2, <1>3, WireBack
    <2> QED BY <1>2, <2>1
  <1>5. toModule' = rest
    OBVIOUS
  <1> HIDE DEF h, rest
  <1>6. Range(feedback') = Range(feedback) \cup {e}
    BY <1>1, <1>2, RangeAppend
  <1>7. h.pos \in 0 .. Len(document) + 4 /\ h = [Part(document, dest, h.pos) EXCEPT !.timestamp = h.timestamp]
        /\ h.pos <= front /\ front <= h.pos + 1
    BY <1>1, <1>3, Zenon DEF IsPart
  <1>8. IsPart(e, document, dest)
    <2> DEFINE a == Part(document, dest, h.pos)
    <2>1. a \in Messages
      BY <1>1, <1>7, PartIs
    <2>2. h = [a EXCEPT !.timestamp = h.timestamp] /\ e.pos \in 0 .. Len(document) + 4
      BY <1>2, <1>7
    <2>3. Part(document, dest, e.pos) = a
      BY <1>2
    <2> HIDE DEF a
    <2>4. e = [a EXCEPT !.timestamp = e.timestamp]
      <3> DEFINE t == h.timestamp
                 u == e.timestamp
      <3>1. e = [h EXCEPT !.timestamp = u] /\ h = [a EXCEPT !.timestamp = t]
        BY <1>2, <2>2
      <3> HIDE DEF t, u
      <3>2. [[a EXCEPT !.timestamp = t] EXCEPT !.timestamp = u] = [a EXCEPT !.timestamp = u]
        BY <2>1 DEF Messages
      <3>3. e = [a EXCEPT !.timestamp = u]
        BY <3>1, <3>2, Zenon
      <3> QED BY <3>3 DEF u
    <2> QED BY <2>2, <2>3, <2>4 DEF IsPart
  <1>9. /\ received' \in Nat /\ received <= received' /\ received' <= front /\ front <= received' + 1
        /\ e.pos <= received'
    BY <1>1, <1>2, <1>3, <1>7
  <1>10. ASSUME NEW m \in Range(toModule') \cup Range(feedback')
         PROVE  IsPart(m, document', dest) /\ m.pos <= front /\ front <= m.pos + 1
    <2>1. m = e \/ m \in Range(toModule) \cup Range(feedback)
      BY <1>1, <1>5, <1>6
    <2> QED BY <1>2, <1>3, <1>7, <1>8, <2>1
  <1>11. ASSUME NEW m \in Range(feedback')
         PROVE  m.pos <= received'
    <2>1. CASE m = e
      BY <1>9, <2>1
    <2>2. CASE m \in Range(feedback)
      <3>1. m.pos <= received /\ m.pos \in Nat
        BY <1>1, <1>3, <2>2 DEF IsPart
      <3> QED BY <1>1, <1>9, <3>1
    <2> QED BY <1>6, <2>1, <2>2
  <1>12. /\ front \in 0 .. Len(document') + 4
         /\ Len(msgQueue') = Len(document') + 5 - front
         /\ \A i \in 1 .. Len(msgQueue') : msgQueue'[i] = Part(document', dest, front + i - 1)
    BY DEF InStepAt
  <1> QED BY <1>4, <1>9, <1>10, <1>11, <1>12 DEF InStepAt

LEMMA UploadInStep ==
    ASSUME Combo, Rest, Upload
    PROVE  InStepAt(0, selected)'
  <1> DEFINE q == UploadQueue(document, selected)
             e == Part(document, selected, 0)
             n == Len(document)
  <1>1. selected \in Modules /\ document \in Loaded
    BY UploadInv
  <1>2. QuietBus /\ NewUpload /\ UNCHANGED <<feedback, document>> /\ UNCHANGED selected
        /\ msgQueue' = q /\ toModule' = Append(toModule, Head(q))
    BY Zenon DEF Upload, SendMessage
  <1>3. q \in Seq(Messages) /\ Len(q) = n + 5 /\ n \in Nat
    BY <1>1, Parts, LoadedType
  <1>4. e \in Messages /\ e.pos = 0
    <2>1. 0 \in 0 .. Len(document) + 4
      BY <1>3
    <2> QED BY <1>1, <2>1, PartIs
  <1>5. Head(q) = e
    BY <1>3 DEF Part
  <1>6. ASSUME NEW i \in 1 .. Len(q)
        PROVE  q[i] = Part(document, selected, 0 + i - 1)
    <2>1. (0 + i - 1) + 1 = i
      BY <1>3
    <2> QED BY <2>1 DEF Part
  <1> HIDE DEF q, e
  <1>7. toModule = <<>> /\ feedback' = <<>> /\ received' = 0 /\ toModule' = Append(<<>>, e)
    BY <1>2, <1>5 DEF QuietBus, NewUpload
  <1>8. Range(toModule') = {e} /\ Range(feedback') = {}
    <2>1. toModule' = <<e>>
      BY <1>7
    <2> QED BY <1>4, <1>7, <2>1, Singleton, RangeEmpty
  <1>9. Wire(feedback', toModule', 0)
    <2>1. Before(Range(<<>>) \cup Range(<<>>), {e}, 0)
      BY RangeEmpty DEF Before
    <2>2. <<>> \in Seq(Messages)
      BY EmptySeq
    <2>3. Wire(<<>>, Append(<<>>, e), 0)
      BY <1>4, <2>1, <2>2, WireEmpty, WireSend
    <2> QED BY <1>7, <2>3
  <1>10. IsPart(e, document, selected)
    <2>1. e = [e EXCEPT !.timestamp = e.timestamp]
      BY <1>4 DEF Messages
    <2>2. e = [Part(document, selected, e.pos) EXCEPT !.timestamp = e.timestamp]
      BY <1>4, <2>1 DEF e
    <2>3. e.pos \in 0 .. Len(document) + 4
      BY <1>3, <1>4
    <2> QED BY <2>2, <2>3 DEF IsPart
  <1>11. /\ 0 \in 0 .. Len(document') + 4
         /\ Len(msgQueue') = Len(document') + 5 - 0
         /\ received' <= 0 /\ 0 <= received' + 1
    BY <1>2, <1>3, <1>7
  <1>12. \A i \in 1 .. Len(msgQueue') : msgQueue'[i] = Part(document', selected', 0 + i - 1)
    BY <1>2, <1>6
  <1>13. /\ \A m \in Range(toModule') \cup Range(feedback') :
               IsPart(m, document', selected') /\ m.pos <= 0 /\ 0 <= m.pos + 1
         /\ \A m \in Range(feedback') : m.pos <= received'
    BY <1>2, <1>4, <1>8, <1>10
  <1> QED BY <1>9, <1>11, <1>12, <1>13 DEF InStepAt

LEMMA StepStep ==
    ASSUME NeighboursDiffer, Combo, Rest, QueueInv, StepInv, [Next]_vars
    PROVE  StepInv'
  <1>1. Steps /\ Queues
    BY StepCases DEF QueueInv
  <1>2. observing => uploading
    BY DEF StepInv
  <1>3. uploading => connected /\ observing /\ \E front \in Nat, dest \in Modules : InStepAt(front, dest)
    BY DEF StepInv, InStep
  <1>4. ASSUME UNCHANGED <<connected, observing, uploading>>,
               \A front \in Nat, dest \in Modules : uploading /\ InStepAt(front, dest) =>
                 \E next \in Nat : InStepAt(next, dest)'
        PROVE  StepInv'
    <2>1. observing' => uploading'
      BY <1>2, <1>4
    <2>2. ASSUME uploading'
          PROVE  InStep'
      <3>1. uploading /\ connected /\ observing
        BY <1>3, <1>4, <2>2
      <3>2. PICK front \in Nat, dest \in Modules : InStepAt(front, dest)
        BY <1>3, <3>1
      <3>3. PICK next \in Nat : InStepAt(next, dest)'
        BY <1>4, <3>1, <3>2
      <3> QED BY <1>4, <3>1, <3>3 DEF InStep
    <2> QED BY <2>1, <2>2 DEF StepInv
  <1>5. ASSUME Stopped
        PROVE  StepInv'
    BY <1>2, <1>3, <1>5, Zenon DEF Stopped, StepInv
  <1>6. CASE Untouched
    <2>1. /\ UNCHANGED <<connected, observing, uploading>>
          /\ UNCHANGED <<msgQueue, toModule, feedback, received>> /\ (uploading => UNCHANGED document)
      BY <1>6, Zenon DEF Untouched
    <2>2. \A front \in Nat, dest \in Modules : uploading /\ InStepAt(front, dest) => InStepAt(front, dest)'
      BY <1>1, <2>1, LessInStep
    <2> QED BY <1>4, <2>1, <2>2
  <1>7. CASE Upload
    <2>1. InStepAt(0, selected)' /\ selected \in Modules /\ UNCHANGED selected
      BY <1>7, UploadInStep, UploadInv DEF Upload
    <2>2. connected' /\ observing' /\ uploading'
      BY <1>7 DEF Upload
    <2>3. 0 \in Nat /\ selected' \in Modules
      BY <2>1
    <2>4. \E front \in Nat, dest \in Modules : InStepAt(front, dest)'
      BY <2>1, <2>3
    <2> QED BY <2>2, <2>4 DEF StepInv, InStep
  <1>8. CASE ChangeModuleID
    <2>1. ~uploading /\ UNCHANGED <<observing, uploading>>
      BY <1>8 DEF ChangeModuleID
    <2>2. ~observing' /\ ~uploading'
      BY <1>2, <2>1
    <2> QED BY <2>2 DEF StepInv
  <1>9. CASE Ignored
    <2>1. Comes /\ UNCHANGED <<msgQueue, toModule, received, document>>
          /\ UNCHANGED <<connected, observing, uploading>>
      BY <1>9, Zenon DEF Ignored
    <2>2. \A front \in Nat, dest \in Modules : InStepAt(front, dest) => InStepAt(front, dest)'
      BY <1>1, <2>1, LessInStep
    <2> QED BY <1>4, <2>1, <2>2
  <1>10. CASE AnsweredNext
    <2>1. UNCHANGED <<connected, observing, uploading>>
      BY <1>10, Zenon DEF AnsweredNext
    <2>2. ASSUME NEW front \in Nat, NEW dest \in Modules, InStepAt(front, dest)
          PROVE  front + 1 \in Nat /\ InStepAt(front + 1, dest)'
      BY <1>1, <1>10, <2>2, AnsweredNextInStep
    <2> QED BY <1>4, <2>1, <2>2
  <1>11. CASE AnsweredLast
    BY <1>5, <1>11 DEF AnsweredLast
  <1>12. CASE Resends
    <2>1. UNCHANGED <<connected, observing, uploading>>
      BY <1>12, Zenon DEF Resends, Resend
    <2>2. ASSUME NEW front \in Nat, NEW dest \in Modules, InStepAt(front, dest)
          PROVE  \E next \in Nat : InStepAt(next, dest)'
      <3>1. InStepAt(front, dest)' \/ InStepAt(front + 1, dest)'
        BY <1>12, <2>2, ResendsInStep
      <3>2. front + 1 \in Nat
        OBVIOUS
      <3> QED BY <3>1, <3>2, Zenon
    <2> QED BY <1>4, <2>1, <2>2
  <1>13. CASE ModuleReceives
    <2>1. /\ toModule # <<>> /\ toModule' = Tail(toModule)
          /\ UNCHANGED <<msgQueue, connected, observing, uploading, document, resent, done>>
          /\ UNCHANGED <<feedback, received, repeated>> \/ \E e : SentBack(e)
      BY <1>1, <1>13, ReceiveCases
    <2>2. UNCHANGED <<connected, observing, uploading>> /\ UNCHANGED <<msgQueue, document>>
      BY <2>1
    <2>3. ASSUME NEW front \in Nat, NEW dest \in Modules, InStepAt(front, dest)
          PROVE  InStepAt(front, dest)'
      <3>1. CASE UNCHANGED <<feedback, received, repeated>>
        <4>1. UNCHANGED <<msgQueue, received, document>> /\ UNCHANGED feedback
          BY <2>2, <3>1
        <4> QED BY <1>1, <2>1, <2>3, <4>1, LessInStep
      <3>2. CASE \E e : SentBack(e)
        <4>1. PICK e : SentBack(e)
          BY <3>2
        <4> QED BY <1>1, <2>1, <2>2, <2>3, <4>1, SentBackInStep
      <3> QED BY <2>1, <3>1, <3>2
    <2> QED BY <1>4, <2>2, <2>3
  <1>14. CASE Lose
    <2>1. /\ UNCHANGED <<connected, observing, uploading>> /\ UNCHANGED <<msgQueue, received, document>>
          /\ \/ toModule # <<>> /\ toModule' = Tail(toModule) /\ UNCHANGED feedback
             \/ Comes /\ UNCHANGED toModule
      BY <1>14, Zenon DEF Lose, pluginVars, historyVars, Comes
    <2>2. \A front \in Nat, dest \in Modules : InStepAt(front, dest) => InStepAt(front, dest)'
      BY <1>1, <2>1, LessInStep
    <2> QED BY <1>4, <2>1, <2>2
  <1> QED BY <1>1, <1>5, <1>6, <1>7, <1>8, <1>9, <1>10, <1>11, <1>12, <1>13, <1>14, Zenon DEF Steps

\* What AckedWasReceived says of a step.
Acked ==
    /\ uploading' => received' + 1 >= Head(msgQueue').pos
    /\ ~done /\ done' => received = Len(document) + 4

LEMMA AckedStep ==
    ASSUME NeighboursDiffer, Combo, Rest, QueueInv, StepInv, [Next]_vars
    PROVE  Acked
  <1>1. Steps /\ Queues /\ received \in Nat
    BY StepCases DEF QueueInv, Rest
  <1>2. uploading => InStep
    BY DEF StepInv
  <1>3. observing => uploading
    BY DEF StepInv
  <1>4. Rest' /\ QueueInv' /\ StepInv'
    BY <1>1, RestStep, QueueStep, StepStep
  <1>5. Queues' /\ (uploading' => InStep')
    BY <1>4 DEF QueueInv, StepInv
  <1>6. ASSUME uploading'
        PROVE  received' + 1 >= Head(msgQueue').pos
    <2>1. PICK front \in Nat, dest \in Modules : InStepAt(front, dest)'
      BY <1>5, <1>6 DEF InStep
    <2>2. Head(msgQueue').pos = front
      <3>1. Len(document') \in Nat /\ document' \in Loaded /\ msgQueue' \in Seq(Messages)
        BY <1>4, <1>5, LoadedType DEF Rest, Queues
      <3>2. front \in 0 .. Len(document') + 4 /\ Len(msgQueue') = Len(document') + 5 - front
            /\ \A i \in 1 .. Len(msgQueue') : msgQueue'[i] = Part(document', dest, front + i - 1)
        BY <2>1, Zenon DEF InStepAt
      <3>3. 1 \in 1 .. Len(msgQueue') /\ front + 1 - 1 = front
        BY <3>1, <3>2
      <3>4. Head(msgQueue') = Part(document', dest, front)
        BY <3>1, <3>2, <3>3
      <3>5. Part(document', dest, front).pos = front
        BY <3>1, <3>2, PartIs
      <3> QED BY <3>4, <3>5
    <2>3. front <= received' + 1 /\ received' \in Nat
      BY <1>4, <2>1 DEF InStepAt, Rest
    <2> QED BY <2>2, <2>3
  <1>7. ASSUME ~done, done'
        PROVE  received = Len(document) + 4
    <2>1. AnsweredLast
      <3>1. Upload \/ ChangeModuleID => NewUpload
        BY Zenon DEF Upload, ChangeModuleID
      <3>2. ModuleReceives => UNCHANGED done
        BY DEF ModuleReceives
      <3>3. UNCHANGED done \/ NewUpload \/ AnsweredLast
        BY <1>1, <3>1, <3>2, Zenon DEF Steps, Untouched, Ignored, AnsweredNext, Resends, Lose, historyVars
      <3> QED BY <1>7, <3>3, Zenon DEF NewUpload
    <2>2. /\ Len(msgQueue) = 1 /\ feedback # <<>> /\ observing
          /\ Same(Head(msgQueue), Head(feedback))
      BY <2>1, Zenon DEF AnsweredLast, Answered, Comes
    <2>3. PICK front \in Nat, dest \in Modules : InStepAt(front, dest)
      BY <1>2, <1>3, <2>2 DEF InStep
    <2>4. Head(feedback) \in Range(feedback)
      BY <1>1, <2>2, HeadAndTail DEF Queues
    <2>5. received = front
      BY <1>1, <2>2, <2>3, <2>4, SameIsFront
    <2>6. Len(msgQueue) = Len(document) + 5 - front /\ Len(document) \in Nat
      BY <1>1, <2>3, FrontOf DEF InStepAt
    <2>7. \A n \in Nat, f \in Nat : 1 = n + 5 - f => f = n + 4
      OBVIOUS
    <2>8. 1 = Len(document) + 5 - front
      BY <2>2, <2>6
    <2> QED BY <2>5, <2>6, <2>7, <2>8, Zenon
  <1> QED BY <1>6, <1>7 DEF Acked

\* With documents in which no row follows an equal one, the plugin only goes on when
\* the module has got everything before, and says "Done programming." when it has got
\* everything, in order, whatever the bus loses and however late feedback comes.
THEOREM Acknowledged == ASSUME NeighboursDiffer PROVE Spec => AckedWasReceived
  <1>1. Init => Sound /\ StepInv
    <2>1. Init => StepInv
      BY DEF Init, StepInv
    <2> QED BY <2>1, SoundInit
  <1>2. Sound /\ StepInv /\ [Next]_vars => (Sound /\ StepInv)'
    <2>1. Sound /\ StepInv /\ [Next]_vars => StepInv'
      BY StepStep, Zenon DEF Sound
    <2> QED BY <2>1, SoundStep
  <1>3. Sound /\ StepInv /\ [Next]_vars => Acked
    BY AckedStep, Zenon DEF Sound
  <1>4. Sound /\ StepInv /\ [Next]_vars =>
          [/\ uploading' => received' + 1 >= Head(msgQueue').pos
           /\ ~done /\ done' => received = Len(document) + 4]_vars
    BY <1>3, Zenon DEF Acked
  <1> QED BY <1>1, <1>2, <1>4, PTL DEF Spec, AckedWasReceived
=============================================================================
