--------------------------- MODULE Streams_proofs ---------------------------
(***************************************************************************)
(* Theorems about the two links that carry messages as a stream of bytes:  *)
(* RemoteLink, for any number of interfaces and clients, any lengths of    *)
(* messages (too long ones too) and any way that TCP cuts the bytes, and   *)
(* SerialLink, for its three devices, any messages, any number of faults   *)
(* and any way that the line cuts the bytes.                               *)
(*                                                                         *)
(* One idea serves both.  The bytes that a reader has and those behind it  *)
(* on the line are always the stream of some messages.  A read takes the   *)
(* first of these messages and leaves the stream of the others (ParseKeeps *)
(* and Delivers), and a write adds messages at the end.  What the theorems *)
(* say of the bytes follows from what the invariants say of the messages.  *)
(***************************************************************************)
EXTENDS RemoteLink, SerialLink, SequenceLemmas

-----------------------------------------------------------------------------
(* RemoteLink.                                                             *)

Msg  == Nat \X Lengths
Byte == Msg \X Nat

\* The bytes of a message: the first one says which message it is.
LEMMA Serialized ==
    ASSUME NEW msg \in Msg
    PROVE  /\ Length(msg) \in Nat /\ serialize(msg) \in Seq(Byte)
           /\ Len(serialize(msg)) = HeaderLen + Length(msg)
           /\ serialize(msg)[1] = <<msg, 1>>
  <1>1. Length(msg) \in Nat
    BY RemoteAssumption DEF Length, Msg
  <1>2. HeaderLen + Length(msg) \in Nat /\ 1 \in 1 .. HeaderLen + Length(msg)
    BY <1>1 DEF HeaderLen
  <1> DEFINE n == HeaderLen + Length(msg)
  <1>3. serialize(msg) = [i \in 1 .. n |-> <<msg, i>>]
    BY Zenon DEF serialize
  <1>4. \A i \in 1 .. n : <<msg, i>> \in Byte
    BY DEF Byte
  <1> HIDE DEF n
  <1>5. /\ [i \in 1 .. n |-> <<msg, i>>] \in Seq(Byte)
        /\ Len([i \in 1 .. n |-> <<msg, i>>]) = n
        /\ [i \in 1 .. n |-> <<msg, i>>][1] = <<msg, 1>>
    BY <1>2, <1>4 DEF n
  <1> QED BY <1>1, <1>3, <1>5, Zenon DEF n

\* The bytes of one message more.
LEMMA BytesAppend ==
    ASSUME NEW s \in Seq(Msg), NEW msg \in Msg
    PROVE  Bytes(Append(s, msg)) = Bytes(s) \o serialize(msg)
  <1> DEFINE parts == [i \in DOMAIN s |-> serialize(s[i])]
             u == Append(s, msg)
             S == Seq(Byte)
  <1>1. DOMAIN s = 1 .. Len(s) /\ Len(s) \in Nat /\ \A i \in 1 .. Len(s) : s[i] \in Msg
    OBVIOUS
  <1>2. parts \in Seq(S) /\ Len(parts) = Len(s)
        /\ \A i \in 1 .. Len(s) : parts[i] = serialize(s[i])
    <2>1. \A i \in 1 .. Len(s) : serialize(s[i]) \in S
      BY <1>1, Serialized
    <2> HIDE DEF S
    <2> QED BY <1>1, <2>1
  <1>3. DOMAIN u = 1 .. Len(s) + 1 /\ u[Len(s) + 1] = msg /\ \A i \in 1 .. Len(s) : u[i] = s[i]
    OBVIOUS
  <1>4. serialize(msg) \in S
    BY Serialized
  <1> DEFINE e == serialize(msg)
             more == [i \in DOMAIN u |-> serialize(u[i])]
  <1>5. more = Append(parts, e)
    <2>1. more = [i \in 1 .. Len(s) + 1 |-> serialize(u[i])]
      BY <1>3, Zenon
    <2>2. \A i \in 1 .. Len(s) + 1 : more[i] = IF i = Len(s) + 1 THEN e ELSE parts[i]
      <3> SUFFICES ASSUME NEW i \in 1 .. Len(s) + 1
                   PROVE  serialize(u[i]) = IF i = Len(s) + 1 THEN e ELSE parts[i]
        BY <2>1
      <3>1. CASE i = Len(s) + 1
        BY <1>3, <3>1, Zenon
      <3>2. CASE i \in 1 .. Len(s)
        <4>1. i # Len(s) + 1
          BY <1>1, <3>2
        <4>2. u[i] = s[i]
          BY <1>3, <3>2
        <4>3. parts[i] = serialize(s[i])
          BY <1>2, <3>2
        <4> QED BY <4>1, <4>2, <4>3, Zenon
      <3> QED BY <1>1, <3>1, <3>2
    <2> HIDE DEF e, parts, S
    <2>3. Len(parts) + 1 = Len(s) + 1 /\ Append(parts, e) \in Seq(S)
          /\ Len(Append(parts, e)) = Len(s) + 1
          /\ \A i \in 1 .. Len(s) + 1 :
               Append(parts, e)[i] = IF i = Len(s) + 1 THEN e ELSE parts[i]
      BY <1>1, <1>2, <1>4 DEF e
    <2>4. \A i \in 1 .. Len(s) + 1 : more[i] = Append(parts, e)[i]
      BY <2>2, <2>3, Zenon
    <2>5. \A i \in 1 .. Len(s) + 1 : Append(parts, e)[i] \in S
      BY <2>3
    <2> DEFINE n == Len(s) + 1
    <2>6. n \in Nat
      BY <1>1
    <2>7. more \in Seq(S) /\ Len(more) = n
      <3>1. more = [i \in 1 .. n |-> more[i]]
        BY <2>1
      <3>2. \A i \in 1 .. n : more[i] \in S
        BY <2>4, <2>5
      <3> HIDE DEF more, n
      <3> QED BY <2>6, <3>1, <3>2
    <2> HIDE DEF more
    <2> QED BY <2>3, <2>4, <2>7, SeqEqual
  <1>6. FlattenSeq(Append(parts, e)) = FlattenSeq(parts) \o e
    <2> HIDE DEF parts, e
    <2> QED BY <1>2, <1>4, FlattenAppend DEF e
  <1> QED BY <1>5, <1>6, Zenon DEF Bytes

LEMMA BytesEmpty == Bytes(<<>>) = <<>>
  <1>1. [i \in DOMAIN <<>> |-> serialize(<<>>[i])] = <<>>
    OBVIOUS
  <1> QED BY <1>1, FlattenEmpty, Zenon DEF Bytes

LEMMA BytesType ==
    ASSUME NEW s \in Seq(Msg)
    PROVE  Bytes(s) \in Seq(Byte)
  <1> DEFINE Q == {t \in Seq(Msg) : Bytes(t) \in Seq(Byte)}
  <1>1. <<>> \in Q
    BY BytesEmpty, EmptySeq
  <1>2. ASSUME NEW t \in Seq(Msg), NEW e \in Msg, t \in Q
        PROVE  Append(t, e) \in Q
    <2>1. Bytes(t) \in Seq(Byte) /\ serialize(e) \in Seq(Byte)
      BY <1>2, Serialized
    <2>2. Bytes(t) \o serialize(e) \in Seq(Byte)
      BY <2>1, ConcatProperties
    <2> QED BY <2>2, BytesAppend, AppendProperties
  <1>3. s \in Q
    <2> HIDE DEF Q
    <2> QED BY <1>1, <1>2, SeqSetInduction
  <1> QED BY <1>3

\* The bytes of two sequences of messages, one after the other.
LEMMA BytesConcat ==
    ASSUME NEW s \in Seq(Msg), NEW t \in Seq(Msg)
    PROVE  Bytes(s \o t) = Bytes(s) \o Bytes(t)
  <1> DEFINE Q == {r \in Seq(Msg) : Bytes(s \o r) = Bytes(s) \o Bytes(r)}
  <1>1. <<>> \in Q
    <2>1. Bytes(s) \in Seq(Byte)
      BY BytesType
    <2>2. Bytes(s) \o <<>> = Bytes(s)
      BY <2>1, ConcatEmptySeq
    <2>3. s \o <<>> = s
      BY ConcatEmptySeq
    <2> QED BY <2>2, <2>3, BytesEmpty, EmptySeq
  <1>2. ASSUME NEW r \in Seq(Msg), NEW e \in Msg, r \in Q
        PROVE  Append(r, e) \in Q
    <2>1. s \o Append(r, e) = Append(s \o r, e) /\ s \o r \in Seq(Msg)
      OBVIOUS
    <2>2. Bytes(Append(s \o r, e)) = Bytes(s \o r) \o serialize(e)
      <3> DEFINE w == s \o r
      <3> HIDE DEF w
      <3>1. w \in Seq(Msg)
        BY <2>1 DEF w
      <3>2. Bytes(Append(w, e)) = Bytes(w) \o serialize(e)
        BY <3>1, BytesAppend
      <3> QED BY <3>2 DEF w
    <2>3. (Bytes(s) \o Bytes(r)) \o serialize(e) = Bytes(s) \o (Bytes(r) \o serialize(e))
      <3>1. Bytes(s) \in Seq(Byte) /\ Bytes(r) \in Seq(Byte) /\ serialize(e) \in Seq(Byte)
        BY BytesType, Serialized
      <3> QED BY <3>1, ConcatAssociative, SMTT(30)
    <2>4. Bytes(Append(r, e)) = Bytes(r) \o serialize(e)
      BY BytesAppend
    <2>5. Append(r, e) \in Seq(Msg)
      BY AppendProperties
    <2> QED BY <1>2, <2>1, <2>2, <2>3, <2>4, <2>5
  <1>3. t \in Q
    <2> HIDE DEF Q
    <2> QED BY <1>1, <1>2, SeqSetInduction
  <1> QED BY <1>3

\* A stream begins with the bytes of its first message.
LEMMA BytesFirst ==
    ASSUME NEW s \in Seq(Msg), s # <<>>
    PROVE  Bytes(s) = serialize(Head(s)) \o Bytes(Tail(s))
  <1>1. Head(s) \in Msg /\ Tail(s) \in Seq(Msg) /\ s = <<Head(s)>> \o Tail(s)
    OBVIOUS
  <1> DEFINE e == Head(s)
             r == Tail(s)
  <1> HIDE DEF e, r
  <1>2. e \in Msg /\ r \in Seq(Msg) /\ s = <<e>> \o r
    BY <1>1 DEF e, r
  <1>3. <<e>> \in Seq(Msg) /\ <<e>> = Append(<<>>, e) /\ <<>> \in Seq(Msg)
    BY <1>2
  <1>4. Bytes(<<e>>) = serialize(e)
    <2>1. Bytes(Append(<<>>, e)) = Bytes(<<>>) \o serialize(e)
      BY <1>2, <1>3, BytesAppend
    <2>2. <<>> \o serialize(e) = serialize(e)
      BY <1>2, Serialized, ConcatEmptySeq
    <2> QED BY <1>3, <2>1, <2>2, BytesEmpty
  <1>5. Bytes(<<e>> \o r) = Bytes(<<e>>) \o Bytes(r)
    BY <1>2, <1>3, BytesConcat
  <1> QED BY <1>2, <1>4, <1>5 DEF e, r
\* The message that unserialize finds is one, and it has all its bytes.
LEMMA Unserialized ==
    ASSUME NEW bytes \in Seq(Byte), unserialize(bytes) # {}
    PROVE  /\ bytes[1][1] \in Msg
           /\ HeaderLen + Length(bytes[1][1]) \in Nat \ {0}
           /\ Len(bytes) >= HeaderLen + Length(bytes[1][1])
  <1> DEFINE msg == bytes[1][1]
  <1>1. Len(bytes) >= HeaderLen /\ \E m \in {msg} : Len(bytes) >= HeaderLen + Length(m)
    BY Zenon DEF unserialize
  <1>2. Len(bytes) >= HeaderLen + Length(msg)
    <2>1. \A m \in {msg} : m = msg
      OBVIOUS
    <2> HIDE DEF msg
    <2> QED BY <1>1, <2>1, Zenon
  <1>3. bytes[1] \in Byte
    <2>1. 1 \in 1 .. Len(bytes)
      BY <1>1 DEF HeaderLen
    <2> QED BY <2>1, ElementOfSeq
  <1>4. msg \in Msg
    BY <1>3 DEF Byte
  <1>5. HeaderLen + Length(msg) \in Nat \ {0}
    BY <1>4, Serialized DEF HeaderLen
  <1> QED BY <1>2, <1>4, <1>5

\* The bytes from a position on.
From(bytes, p) == SubSeq(bytes, p + 1, Len(bytes))

LEMMA FromProperties ==
    ASSUME NEW bytes \in Seq(Byte), NEW p \in 0 .. Len(bytes)
    PROVE  /\ From(bytes, p) \in Seq(Byte) /\ Len(From(bytes, p)) = Len(bytes) - p
           /\ \A i \in 1 .. Len(bytes) - p : From(bytes, p)[i] = bytes[p + i]
  <1>1. Len(bytes) \in Nat
    OBVIOUS
  <1>2. /\ p + 1 \in Int /\ Len(bytes) \in Int
        /\ \A i \in p + 1 .. Len(bytes) : bytes[i] \in Byte
    BY <1>1
  <1>3. /\ From(bytes, p) \in Seq(Byte)
        /\ Len(From(bytes, p)) = IF p + 1 <= Len(bytes) THEN Len(bytes) - (p + 1) + 1 ELSE 0
        /\ \A i \in 1 .. Len(bytes) - (p + 1) + 1 : From(bytes, p)[i] = bytes[p + 1 + i - 1]
    BY <1>2, SubSeqProperties DEF From
  <1>4. Len(bytes) - (p + 1) + 1 = Len(bytes) - p /\ (~(p + 1 <= Len(bytes)) => Len(bytes) - p = 0)
    BY <1>1
  <1>5. \A i \in 1 .. Len(bytes) - p : p + 1 + i - 1 = p + i
    BY <1>1
  <1> QED BY <1>3, <1>4, <1>5

\* What the loop of Parse gives from a position, and where it goes on.
After(bytes, p) == p + HeaderLen + Length(From(bytes, p)[1][1])

Parsed(bytes, from, p) ==
    IF unserialize(From(bytes, p)) = {}
    THEN [rest |-> From(bytes, p), messages |-> <<>>]
    ELSE [rest |-> from[After(bytes, p)].rest,
          messages |-> <<From(bytes, p)[1][1]>> \o from[After(bytes, p)].messages]

LEMMA AfterBounds ==
    ASSUME NEW bytes \in Seq(Byte), NEW p \in 0 .. Len(bytes),
           unserialize(From(bytes, p)) # {}
    PROVE  After(bytes, p) \in p + 1 .. Len(bytes)
  <1> DEFINE size == HeaderLen + Length(From(bytes, p)[1][1])
  <1>1. From(bytes, p) \in Seq(Byte) /\ Len(From(bytes, p)) = Len(bytes) - p /\ Len(bytes) \in Nat
    BY FromProperties
  <1>2. size \in Nat \ {0} /\ Len(From(bytes, p)) >= size
    <2> DEFINE rest == From(bytes, p)
    <2> HIDE DEF rest
    <2>1. rest \in Seq(Byte) /\ unserialize(rest) # {}
      BY <1>1 DEF rest
    <2>2. HeaderLen + Length(rest[1][1]) \in Nat \ {0}
          /\ Len(rest) >= HeaderLen + Length(rest[1][1])
      BY <2>1, Unserialized
    <2> QED BY <2>2 DEF rest
  <1>3. After(bytes, p) = p + size
    <2>1. Length(From(bytes, p)[1][1]) \in Int
      <3> DEFINE rest == From(bytes, p)
      <3> HIDE DEF rest
      <3>1. rest \in Seq(Byte) /\ unserialize(rest) # {}
        BY <1>1 DEF rest
      <3>2. rest[1][1] \in Msg
        BY <3>1, Unserialized
      <3>3. Length(rest[1][1]) \in Int
        BY <3>2, Serialized
      <3> QED BY <3>3 DEF rest
    <2> DEFINE l == Length(From(bytes, p)[1][1])
    <2> HIDE DEF l
    <2>2. p + HeaderLen + l = p + (HeaderLen + l)
      BY <2>1 DEF l, HeaderLen
    <2> QED BY <2>2, Zenon DEF After, l
  <1> HIDE DEF size
  <1> QED BY <1>1, <1>2, <1>3

\* The recursive function in Parse is what its definition says.
LEMMA ParseFunction ==
    ASSUME NEW bytes \in Seq(Byte)
    PROVE  \E from : /\ \A p \in 0 .. Len(bytes) : from[p] = Parsed(bytes, from, p)
                     /\ Parse(bytes) = from[0]
  <1> DEFINE L == Len(bytes)
             Loop(n, f) == f = [p \in L - n .. L |-> Parsed(bytes, f, p)]
             Q == {n \in Nat : n <= L => \E f : Loop(n, f)}
  <1>0. L \in Nat
    OBVIOUS
  <1>1. 0 \in Q
    <2> DEFINE f == [p \in {L} |-> [rest |-> From(bytes, L), messages |-> <<>>]]
    <2>1. L - 0 .. L = {L}
      BY <1>0
    <2>2. unserialize(From(bytes, L)) = {}
      <3>1. From(bytes, L) \in Seq(Byte) /\ Len(From(bytes, L)) = 0
        BY <1>0, FromProperties
      <3>2. ~(Len(From(bytes, L)) >= HeaderLen)
        BY <3>1 DEF HeaderLen
      <3> QED BY <3>2, Zenon DEF unserialize
    <2>3. \A p \in {L} : Parsed(bytes, f, p) = [rest |-> From(bytes, L), messages |-> <<>>]
      BY <2>2, Zenon DEF Parsed
    <2>4. f = [p \in {L} |-> Parsed(bytes, f, p)]
      BY <2>3
    <2>5. Loop(0, f)
      BY <2>1, <2>4, Zenon
    <2> QED BY <2>5
  <1>2. ASSUME NEW n \in Nat, n \in Q
        PROVE  n + 1 \in Q
    <2> SUFFICES ASSUME n + 1 <= L
                 PROVE  \E f : Loop(n + 1, f)
      OBVIOUS
    <2>1. PICK f : Loop(n, f)
      BY <1>0, <1>2
    <2> DEFINE q == L - (n + 1)
               g == [p \in q .. L |-> IF p = q THEN Parsed(bytes, f, p) ELSE f[p]]
    <2>2. q \in 0 .. L /\ \A p : p \in q .. L <=> p = q \/ p \in L - n .. L
      BY <1>0
    <2>3. ASSUME NEW p \in q .. L
          PROVE  Parsed(bytes, g, p) = Parsed(bytes, f, p)
      <3>1. p \in 0 .. L
        BY <2>2
      <3>2. ASSUME unserialize(From(bytes, p)) # {}
            PROVE  g[After(bytes, p)] = f[After(bytes, p)]
        <4>1. After(bytes, p) \in p + 1 .. L
          BY <3>1, <3>2, AfterBounds
        <4>2. After(bytes, p) \in q .. L /\ After(bytes, p) # q
          BY <2>2, <4>1
        <4> HIDE DEF q
        <4> QED BY <4>2, Zenon
      <3> HIDE DEF g
      <3> QED BY <3>2, Zenon DEF Parsed
    <2>4. ASSUME NEW p \in q .. L
          PROVE  g[p] = Parsed(bytes, g, p)
      <3>1. CASE p = q
        BY <2>3, <3>1, Zenon
      <3>2. CASE p # q
        <4>1. p \in L - n .. L
          BY <2>2, <3>2
        <4>2. f[p] = Parsed(bytes, f, p)
          BY <2>1, <4>1, Zenon
        <4>3. g[p] = f[p]
          BY <3>2, Zenon
        <4> QED BY <2>3, <4>2, <4>3, Zenon
      <3> QED BY <3>1, <3>2
    <2>5. g = [p \in q .. L |-> Parsed(bytes, g, p)]
      <3>1. g = [p \in q .. L |-> g[p]]
        OBVIOUS
      <3> HIDE DEF g, q, L
      <3> QED BY <2>4, <3>1, Zenon
    <2>6. Loop(n + 1, g)
      BY <2>5, Zenon
    <2> QED BY <2>6
  <1>3. \E f : Loop(L, f)
    <2>1. Nat \subseteq Q
      <3> HIDE DEF Q
      <3> QED BY <1>1, <1>2, NatSetInduction
    <2>2. L \in Q
      BY <1>0, <2>1
    <2> HIDE DEF Loop
    <2> QED BY <1>0, <2>2
  <1>4. \A f : Loop(L, f) <=> f = [p \in 0 .. L |-> Parsed(bytes, f, p)]
    <2>1. L - L = 0
      BY <1>0
    <2> QED BY <2>1
  <1> DEFINE from == CHOOSE f : f = [p \in 0 .. L |-> Parsed(bytes, f, p)]
  <1>5. from = [p \in 0 .. L |-> Parsed(bytes, from, p)]
    BY <1>3, <1>4, Zenon
  <1>6. Parse(bytes) = from[0]
    BY Zenon DEF Parse, Parsed, From, After
  <1>7. \A p \in 0 .. L : from[p] = Parsed(bytes, from, p)
    BY <1>5, Zenon
  <1> QED BY <1>6, <1>7, Zenon
\* From a position on, and further on.
LEMMA FromFurther ==
    ASSUME NEW bytes \in Seq(Byte), NEW p \in 0 .. Len(bytes), NEW q \in p .. Len(bytes)
    PROVE  SubSeq(From(bytes, p), q - p + 1, Len(From(bytes, p))) = From(bytes, q)
  <1> DEFINE rest == From(bytes, p)
             k == q - p
  <1>1. Len(bytes) \in Nat /\ p \in Nat /\ q \in Nat /\ k \in Nat /\ k <= Len(bytes) - p
        /\ q \in 0 .. Len(bytes)
    OBVIOUS
  <1>2. /\ rest \in Seq(Byte) /\ Len(rest) = Len(bytes) - p
        /\ \A i \in 1 .. Len(bytes) - p : rest[i] = bytes[p + i]
    BY FromProperties
  <1>3. /\ From(bytes, q) \in Seq(Byte) /\ Len(From(bytes, q)) = Len(bytes) - q
        /\ \A i \in 1 .. Len(bytes) - q : From(bytes, q)[i] = bytes[q + i]
    BY <1>1, FromProperties
  <1>4. k \in 0 .. Len(rest)
    BY <1>1, <1>2
  <1> HIDE DEF rest
  <1>5. /\ From(rest, k) \in Seq(Byte) /\ Len(From(rest, k)) = Len(rest) - k
        /\ \A i \in 1 .. Len(rest) - k : From(rest, k)[i] = rest[k + i]
    BY <1>2, <1>4, FromProperties
  <1>6. Len(rest) - k = Len(bytes) - q
    BY <1>1, <1>2
  <1>7. \A i \in 1 .. Len(bytes) - q :
          k + i \in 1 .. Len(bytes) - p /\ p + (k + i) = q + i
    BY <1>1
  <1> HIDE DEF k
  <1>8. \A i \in 1 .. Len(bytes) - q : From(rest, k)[i] = From(bytes, q)[i]
    BY <1>2, <1>3, <1>5, <1>6, <1>7, Zenon
  <1>9. From(rest, k) = From(bytes, q)
    BY <1>3, <1>5, <1>6, <1>8, SeqEqual
  <1> QED BY <1>9 DEF From, rest, k

\* A parser keeps the stream that its bytes begin: the messages it takes are the first
\* ones, and what it leaves begins the stream of the others.
Keeps(parsed, later, stream) ==
    /\ parsed.rest \in Seq(Byte) /\ parsed.messages \in Seq(Msg)
    /\ \E others \in Seq(Msg) :
          /\ stream = parsed.messages \o others
          /\ parsed.rest \o later = Bytes(others)

\* One round of the loop.
LEMMA RoundKeeps ==
    ASSUME NEW bytes \in Seq(Byte), NEW later \in Seq(Byte), NEW p \in 0 .. Len(bytes),
           NEW from, NEW stream \in Seq(Msg), From(bytes, p) \o later = Bytes(stream),
           \A q \in p + 1 .. Len(bytes) : \A s \in Seq(Msg) :
               From(bytes, q) \o later = Bytes(s) => Keeps(from[q], later, s)
    PROVE  Keeps(Parsed(bytes, from, p), later, stream)
  <1> DEFINE rest == From(bytes, p)
  <1>1. rest \in Seq(Byte) /\ Len(rest) = Len(bytes) - p /\ Len(bytes) \in Nat
    BY FromProperties
  <1>2. CASE unserialize(rest) = {}
    <2>1. Parsed(bytes, from, p) = [rest |-> rest, messages |-> <<>>]
      BY <1>2, Zenon DEF Parsed
    <2>2. <<>> \in Seq(Msg) /\ stream = <<>> \o stream
      BY ConcatEmptySeq, EmptySeq
    <2> HIDE DEF rest
    <2>3. Keeps([rest |-> rest, messages |-> <<>>], later, stream)
      BY <1>1, <2>2 DEF Keeps, rest
    <2> QED BY <2>1, <2>3
  <1>3. CASE unserialize(rest) # {}
    <2> DEFINE msg == rest[1][1]
               q == After(bytes, p)
               others == Tail(stream)
    <2> HIDE DEF rest
    <2>1. /\ msg \in Msg /\ HeaderLen + Length(msg) \in Nat \ {0}
          /\ Len(rest) >= HeaderLen + Length(msg)
      BY <1>1, <1>3, Unserialized
    <2>2. Bytes(stream)[1] = rest[1] /\ stream # <<>>
      <3>1. Len(rest) \in Nat /\ Len(rest) >= 1 /\ Len(later) \in Nat
        BY <1>1, <2>1
      <3>2. 1 \in 1 .. Len(rest) + Len(later) /\ 1 <= Len(rest)
        BY <3>1
      <3>3. (rest \o later)[1] = rest[1] /\ Len(rest \o later) = Len(rest) + Len(later)
        <4>1. rest \in Seq(Byte) /\ later \in Seq(Byte)
          BY <1>1
        <4>2. /\ Len(rest \o later) = Len(rest) + Len(later)
              /\ \A i \in 1 .. Len(rest) + Len(later) : (rest \o later)[i] =
                     IF i <= Len(rest) THEN rest[i] ELSE later[i - Len(rest)]
          BY <4>1, ConcatProperties
        <4> QED BY <3>2, <4>2, Zenon
      <3>4. Len(Bytes(stream)) # 0
        BY <3>1, <3>3 DEF rest
      <3>5. stream # <<>>
        <4>1. Len(<<>>) = 0
          OBVIOUS
        <4> QED BY <3>4, <4>1, BytesEmpty
      <3> QED BY <3>3, <3>5 DEF rest
    <2>3. /\ Head(stream) \in Msg /\ others \in Seq(Msg)
          /\ stream = <<Head(stream)>> \o others
      BY <2>2
    <2>4. Bytes(stream) = serialize(Head(stream)) \o Bytes(others)
      BY <2>2, BytesFirst
    <2>5. /\ serialize(Head(stream)) \in Seq(Byte)
          /\ Len(serialize(Head(stream))) = HeaderLen + Length(Head(stream))
          /\ serialize(Head(stream))[1] = <<Head(stream), 1>>
          /\ Length(Head(stream)) \in Nat
      BY <2>3, Serialized
    <2>6. Bytes(others) \in Seq(Byte)
      BY <2>3, BytesType
    <2> HIDE DEF others
    <2>7. Head(stream) = msg
      <3> DEFINE u == serialize(Head(stream))
                 v == Bytes(others)
      <3>1. Len(u) \in Nat /\ Len(u) >= 1 /\ Len(v) \in Nat
        BY <2>5, <2>6 DEF HeaderLen
      <3>2. u \in Seq(Byte) /\ v \in Seq(Byte)
        BY <2>5, <2>6
      <3> HIDE DEF u, v
      <3>3. 1 \in 1 .. Len(u) + Len(v) /\ 1 <= Len(u)
        BY <3>1
      <3>4. (u \o v)[1] = u[1]
        BY <3>2, <3>3, ConcatProperties
      <3>5. rest[1] = <<Head(stream), 1>>
        BY <2>2, <2>4, <2>5, <3>4 DEF u, v
      <3> QED BY <3>5
    <2>8. q \in p + 1 .. Len(bytes) /\ q = p + HeaderLen + Length(msg)
      BY <1>3, AfterBounds, Zenon DEF After, rest
    <2>9. From(bytes, q) \o later = Bytes(others)
      <3> DEFINE u == serialize(msg)
      <3>1. u \in Seq(Byte) /\ Len(u) = HeaderLen + Length(msg) /\ Len(u) <= Len(rest)
        BY <1>1, <2>1, <2>5, <2>7
      <3>2. rest \o later = u \o Bytes(others)
        BY <2>4, <2>7 DEF rest
      <3> HIDE DEF u
      <3>3. SubSeq(rest, Len(u) + 1, Len(rest)) \o later = Bytes(others)
        BY <1>1, <2>6, <3>1, <3>2, DropFront
      <3>4. Len(u) = q - p /\ q \in p .. Len(bytes)
        BY <2>5, <2>7, <2>8, <3>1, SMTT(30) DEF HeaderLen
      <3> HIDE DEF q
      <3>5. SubSeq(rest, (q - p) + 1, Len(rest)) = From(bytes, q)
        BY <3>4, FromFurther DEF rest
      <3> QED BY <3>3, <3>4, <3>5
    <2>10. Keeps(from[q], later, others)
      BY <2>3, <2>8, <2>9 DEF others
    <2> DEFINE then == from[q]
               ahead == <<msg>> \o then.messages
    <2>11. PICK r \in Seq(Msg) : /\ others = then.messages \o r
                                     /\ then.rest \o later = Bytes(r)
      BY <2>10 DEF Keeps
    <2>12. then.rest \in Seq(Byte) /\ then.messages \in Seq(Msg)
      BY <2>10 DEF Keeps
    <2> HIDE DEF then
    <2>13. /\ <<msg>> \in Seq(Msg) /\ ahead \in Seq(Msg)
           /\ stream = ahead \o r
      <3>1. <<msg>> \in Seq(Msg)
        BY <2>1
      <3>2. (<<msg>> \o then.messages) \o r = <<msg>> \o (then.messages \o r)
        <4>1. <<msg>> \in Seq(Msg) /\ then.messages \in Seq(Msg) /\ r \in Seq(Msg)
          BY <2>12, <3>1
        <4>2. Associates(Msg)
          BY Associative
        <4> QED BY <4>1, <4>2, Zenon DEF Associates, Regroups
      <3>3. ahead \in Seq(Msg)
        BY <2>12, <3>1, ConcatProperties
      <3> QED BY <2>3, <2>7, <2>11, <3>1, <3>2, <3>3
    <2>14. Parsed(bytes, from, p) = [rest |-> then.rest, messages |-> ahead]
      BY <1>3, Zenon DEF Parsed, rest, then
    <2> HIDE DEF ahead
    <2>15. Keeps([rest |-> then.rest, messages |-> ahead], later, stream)
      BY <2>11, <2>12, <2>13 DEF Keeps
    <2> QED BY <2>14, <2>15
  <1> QED BY <1>2, <1>3

\* The loop of readyReadSocket keeps the stream, with the bytes cut anywhere.
LEMMA ParseKeeps ==
    ASSUME NEW bytes \in Seq(Byte), NEW later \in Seq(Byte), NEW stream \in Seq(Msg),
           bytes \o later = Bytes(stream)
    PROVE  Keeps(Parse(bytes), later, stream)
  <1> DEFINE L == Len(bytes)
  <1>1. L \in Nat
    OBVIOUS
  <1>2. PICK from : /\ \A p \in 0 .. L : from[p] = Parsed(bytes, from, p)
                    /\ Parse(bytes) = from[0]
    BY ParseFunction
  <1> DEFINE KeptFrom(p) == \A s \in Seq(Msg) :
                               From(bytes, p) \o later = Bytes(s) => Keeps(from[p], later, s)
             Q == {n \in Nat : n <= L => \A p \in L - n .. L : KeptFrom(p)}
  <1>3. ASSUME NEW p \in 0 .. L, \A q \in p + 1 .. L : KeptFrom(q)
        PROVE  KeptFrom(p)
    <2> SUFFICES ASSUME NEW s \in Seq(Msg), From(bytes, p) \o later = Bytes(s)
                 PROVE  Keeps(from[p], later, s)
      OBVIOUS
    <2>1. Keeps(Parsed(bytes, from, p), later, s)
      BY <1>3, RoundKeeps
    <2> QED BY <1>2, <2>1, Zenon
  <1> HIDE DEF KeptFrom
  <1>4. 0 \in Q
    <2>1. \A p \in L - 0 .. L : p \in 0 .. L /\ \A q \in p + 1 .. L : FALSE
      BY <1>1
    <2> QED BY <1>3, <2>1
  <1>5. ASSUME NEW n \in Nat, n \in Q
        PROVE  n + 1 \in Q
    <2> SUFFICES ASSUME n + 1 <= L, NEW p \in L - (n + 1) .. L
                 PROVE  KeptFrom(p)
      OBVIOUS
    <2>1. p \in 0 .. L /\ \A q \in p + 1 .. L : q \in L - n .. L
      BY <1>1
    <2>2. \A q \in L - n .. L : KeptFrom(q)
      BY <1>1, <1>5
    <2> QED BY <1>3, <2>1, <2>2
  <1>6. KeptFrom(0)
    <2>1. Nat \subseteq Q
      <3> HIDE DEF Q
      <3> QED BY <1>4, <1>5, NatSetInduction
    <2>2. L \in Q /\ 0 \in L - L .. L
      BY <1>1, <2>1
    <2> QED BY <1>1, <2>2
  <1>7. From(bytes, 0) = bytes
    BY SubSeqFull DEF From
  <1>8. Keeps(from[0], later, stream)
    BY <1>6, <1>7 DEF KeptFrom
  <1> QED BY <1>2, <1>8
-----------------------------------------------------------------------------
(* The inductive invariant.                                                *)

LinkTypeOK ==
    /\ m_managerList \in Seq(Managers) /\ observing \in [Managers -> {0, 1}]
    /\ running \in BOOLEAN /\ pending \in Nat
    /\ count \in [messages : Nat, connections : Nat]
    /\ posted \in Seq(Msg) /\ broadcast \in Seq(Msg)
    /\ notified \in [Managers -> Seq(Msg)]
    /\ m_socketList \in Seq(Clients) /\ joined \in [Clients -> Nat]
    /\ conn \in [Clients -> {"none", "connected", "closed"}]
    /\ serverBuf \in [Clients -> Seq(Byte)] /\ toServer \in [Clients -> Seq(Byte)]
    /\ clientBuf \in [Clients -> Seq(Byte)] /\ toClient \in [Clients -> Seq(Byte)]
    /\ clientPosted \in [Clients -> Seq(Msg)] /\ m_msgList \in [Clients -> Seq(Msg)]
    /\ got \in [Clients -> Seq(Msg)] /\ wrote \in [Clients -> Seq(Msg)]
    /\ pushed \in [Clients -> Seq(Msg)]

\* Messages have the numbers up to the last one.
Made == (0 .. count.messages) \X Lengths

\* The server is registered only with handlers that it knows.
HandlersInv ==
    /\ \A m \in Managers : observing[m] = 1 => m \in Range(m_managerList)
    /\ Range(broadcast \o posted) \subseteq Made
    /\ \A m \in Managers : Range(notified[m]) \subseteq Made
    /\ NotifiedBroadcastOnce

IsSocket(c) == c \in Range(m_socketList)

\* Without a connection, or without a socket of the server, nothing is under way.
Idle(c) ==
    /\ conn[c] # "connected" =>
          clientPosted[c] = <<>> /\ clientBuf[c] = <<>> /\ m_msgList[c] = <<>> /\ toClient[c] = <<>>
    /\ conn[c] = "none" => ~IsSocket(c) /\ toServer[c] = <<>>
    /\ ~IsSocket(c) =>
          /\ serverBuf[c] = <<>> /\ clientBuf[c] = <<>> /\ m_msgList[c] = <<>>
          /\ toClient[c] = <<>>
          /\ conn[c] # "none" => got[c] = <<>> /\ pushed[c] = <<>>

\* had, and then the messages r, are what was sent; r is what the bytes still are.
Ahead(due, had, r, buf, stream) == due = had \o r /\ buf \o stream = Bytes(r)

\* What a client that is served has not read yet is the stream of the messages that
\* follow those it has.
Receives(c) ==
    /\ joined[c] <= Len(broadcast)
    /\ conn[c] = "connected" /\ IsSocket(c) =>
          \E r \in Seq(Msg) :
             Ahead(SubSeq(broadcast, joined[c] + 1, Len(broadcast)), got[c] \o m_msgList[c], r,
                   clientBuf[c], toClient[c])

\* What the server has not read yet is the stream of the writes that follow those it
\* has pushed; the others are still events of the client, or were lost with it.
Writes(c) ==
    conn[c] # "none" =>
        \E r, q \in Seq(Msg) :
            /\ wrote[c] = pushed[c] \o (r \o q)
            /\ serverBuf[c] \o toServer[c] = Bytes(r)
            /\ conn[c] = "connected" => q = clientPosted[c]

ClientInv(c) == Idle(c) /\ Receives(c) /\ Writes(c)

LinkInv == LinkTypeOK /\ HandlersInv /\ \A c \in Clients : ClientInv(c)
-----------------------------------------------------------------------------
(* The handlers and the broadcast.                                         *)

LEMMA InitLink == Init => LinkInv
  <1> SUFFICES ASSUME Init PROVE LinkInv
    OBVIOUS
  <1>1. LinkTypeOK
    <2>1. <<>> \in Seq(Msg) /\ <<>> \in Seq(Managers) /\ <<>> \in Seq(Clients)
      OBVIOUS
    <2>2. Empty \in [Clients -> Seq(Msg)] /\ Empty \in [Clients -> Seq(Byte)]
      BY <2>1 DEF Empty
    <2>3. conn \in [Clients -> {"none", "connected", "closed"}] /\ joined \in [Clients -> Nat]
          /\ count \in [messages : Nat, connections : Nat] /\ pending \in Nat
      BY DEF Init
    <2>4. observing \in [Managers -> {0, 1}] /\ running \in BOOLEAN
          /\ notified \in [Managers -> Seq(Msg)]
      BY <2>1 DEF Init
    <2> QED BY <2>1, <2>2, <2>3, <2>4, Zenon DEF Init, LinkTypeOK
  <1>2. HandlersInv
    <2>1. broadcast \o posted = <<>> /\ \A m \in Managers : notified[m] = <<>> /\ observing[m] = 0
      BY DEF Init
    <2>2. Range(broadcast \o posted) \subseteq Made
      BY <2>1, RangeEmpty
    <2>3. \A m \in Managers : Range(notified[m]) \subseteq Made
      BY <2>1, RangeEmpty
    <2>4. NotifiedBroadcastOnce
      BY <2>1, OnlyEmpty DEF NotifiedBroadcastOnce
    <2> QED BY <2>1, <2>2, <2>3, <2>4 DEF HandlersInv
  <1>3. ASSUME NEW c \in Clients
        PROVE  ClientInv(c)
    <2>1. /\ conn[c] = "none" /\ clientPosted[c] = <<>> /\ clientBuf[c] = <<>>
          /\ m_msgList[c] = <<>> /\ toClient[c] = <<>> /\ toServer[c] = <<>>
          /\ serverBuf[c] = <<>> /\ got[c] = <<>> /\ pushed[c] = <<>>
          /\ joined[c] = 0 /\ Len(broadcast) = 0
      BY DEF Init, Empty
    <2>2. ~IsSocket(c)
      BY RangeEmpty DEF Init, IsSocket
    <2> QED BY <2>1, <2>2 DEF ClientInv, Idle, Receives, Writes
  <1> QED BY <1>1, <1>2, <1>3 DEF LinkInv

\* A handler that notifies: its message is new, so it is one more for this handler
\* and for no other.
LEMMA NotifyKeeps ==
    ASSUME LinkTypeOK, HandlersInv, NEW m \in Managers, NEW length \in Lengths,
           notifyNETVMessage(m, length)
    PROVE  LinkTypeOK' /\ HandlersInv'
  <1> DEFINE msg == <<count.messages + 1, length>>
             due == broadcast \o posted
  <1>1. count.messages \in Nat /\ count'.messages = count.messages + 1
        /\ count' \in [messages : Nat, connections : Nat]
    <2>1. count \in [messages : Nat, connections : Nat]
          /\ count' = [count EXCEPT !.messages = @ + 1]
      BY DEF LinkTypeOK, notifyNETVMessage, CountMessage
    <2> QED BY <2>1
  <1>2. msg \in Msg /\ msg \notin Made /\ msg \in Made'
    BY <1>1 DEF Msg, Made
  <1>3. Made \subseteq Made'
    BY <1>1 DEF Made
  <1> HIDE DEF msg
  <1>4. posted' = Append(posted, msg)
    <2>1. observing[m] = 1
      BY DEF LinkTypeOK, notifyNETVMessage
    <2>2. posted' = posted \o [i \in 1 .. 1 |-> msg]
      BY <2>1 DEF notifyNETVMessage, msg
    <2>3. [i \in 1 .. 1 |-> msg] = <<msg>>
      OBVIOUS
    <2>4. posted \in Seq(Msg)
      BY DEF LinkTypeOK
    <2> QED BY <1>2, <2>2, <2>3, <2>4, AppendIsConcat
  <1>5. broadcast \in Seq(Msg) /\ posted \in Seq(Msg)
        /\ notified \in [Managers -> Seq(Msg)]
    BY DEF LinkTypeOK
  <1>6. notified' = [notified EXCEPT ![m] = Append(@, msg)] /\ broadcast' = broadcast
    BY DEF notifyNETVMessage, msg
  <1>7. LinkTypeOK'
    <2>1. posted' \in Seq(Msg) /\ notified' \in [Managers -> Seq(Msg)]
      BY <1>2, <1>4, <1>5, <1>6
    <2>2. UNCHANGED <<m_managerList, observing, running, m_socketList, pending, serverBuf,
                      clientVars, streams, broadcast, joined, got, wrote, pushed>>
      BY DEF notifyNETVMessage
    <2> QED BY <1>1, <2>1, <2>2 DEF LinkTypeOK, clientVars, streams
  <1>8. due \in Seq(Msg) /\ due' = Append(due, msg)
    BY <1>2, <1>4, <1>5, <1>6
  <1> HIDE DEF due
  <1>9. Range(due') \subseteq Made' /\ msg \notin Range(due) /\ Range(due) \subseteq Made
    <2>1. Range(due) \subseteq Made
      BY DEF HandlersInv, due
    <2>2. Range(Append(due, msg)) = Range(due) \cup {msg}
      BY <1>2, <1>8, RangeAppend
    <2> QED BY <1>2, <1>3, <1>8, <2>1, <2>2
  <1>10. ASSUME NEW n \in Managers
         PROVE  Range(notified'[n]) \subseteq Made' /\ Only(due', Range(notified'[n])) = notified'[n]
    <2> DEFINE known == notified[n]
    <2>1. known \in Seq(Msg) /\ Range(known) \subseteq Made /\ Only(due, Range(known)) = known
      BY <1>5 DEF HandlersInv, NotifiedBroadcastOnce, due
    <2>2. msg \notin Range(known)
      BY <1>2, <2>1
    <2>3. CASE n = m
      <3>1. notified'[n] = Append(known, msg)
        BY <1>5, <1>6, <2>3
      <3> HIDE DEF known
      <3>2. Range(Append(known, msg)) = Range(known) \cup {msg}
        BY <1>2, <2>1, RangeAppend
      <3> DEFINE T == Range(known) \cup {msg}
      <3>3. Only(Append(due, msg), T) = Append(Only(due, T), msg)
        <4>1. msg \in T
          OBVIOUS
        <4> HIDE DEF T
        <4> QED BY <1>2, <1>8, <4>1, OnlyAppend
      <3>4. Only(due, T) = Only(due, Range(known))
        <4>1. Range(due) \cap T = Range(due) \cap Range(known)
          BY <1>9
        <4> HIDE DEF T
        <4> QED BY <1>8, <4>1, OnlySame
      <3> QED BY <1>2, <1>3, <1>8, <2>1, <3>1, <3>2, <3>3, <3>4
    <2>4. CASE n # m
      <3>1. notified'[n] = known
        BY <1>5, <1>6, <2>4
      <3> HIDE DEF known
      <3>2. Only(Append(due, msg), Range(known)) = Only(due, Range(known))
        BY <1>2, <1>8, <2>2, OnlyAppend
      <3> QED BY <1>3, <1>8, <2>1, <3>1, <3>2
    <2> QED BY <2>3, <2>4
  <1>11. HandlersInv'
    <2>1. UNCHANGED <<m_managerList, observing>>
      BY DEF notifyNETVMessage
    <2>2. \A n \in Managers : observing'[n] = 1 => n \in Range(m_managerList')
      BY <2>1 DEF HandlersInv
    <2> QED BY <1>9, <1>10, <2>2 DEF HandlersInv, NotifiedBroadcastOnce, due
  <1> QED BY <1>7, <1>11

\* A new interface: the server observes its handler once.
LEMMA AddKeeps ==
    ASSUME LinkTypeOK, HandlersInv, NEW m \in Managers, addInterface(m)
    PROVE  LinkTypeOK' /\ HandlersInv'
  <1>1. /\ ~Contains(m_managerList, m)
        /\ m_managerList' = Append(m_managerList, m)
        /\ observing' = [observing EXCEPT ![m] = @ + 1]
        /\ UNCHANGED <<running, posted, m_socketList, pending, serverBuf, clientVars, streams,
                       history>>
    BY DEF addInterface
  <1>2. m_managerList \in Seq(Managers) /\ observing \in [Managers -> {0, 1}]
    BY DEF LinkTypeOK
  <1>3. observing[m] = 0
    BY <1>1, <1>2, ContainsRange DEF HandlersInv
  <1>4. m_managerList' \in Seq(Managers) /\ observing' \in [Managers -> {0, 1}]
        /\ \A n \in Managers : observing'[n] = IF n = m THEN 1 ELSE observing[n]
    BY <1>1, <1>2, <1>3
  <1>5. Range(m_managerList') = Range(m_managerList) \cup {m}
    BY <1>1, <1>2, RangeAppend
  <1>6. \A n \in Managers : observing'[n] = 1 => n \in Range(m_managerList')
    BY <1>4, <1>5 DEF HandlersInv
  <1>7. LinkTypeOK'
    BY <1>1, <1>4 DEF LinkTypeOK, clientVars, streams, history
  <1>8. HandlersInv'
    <2>1. UNCHANGED <<broadcast, posted, notified, count>>
      BY <1>1 DEF history
    <2>2. UNCHANGED <<Made, NotifiedBroadcastOnce>>
      BY <2>1 DEF Made, NotifiedBroadcastOnce
    <2> QED BY <1>6, <2>1, <2>2 DEF HandlersInv
  <1> QED BY <1>7, <1>8

\* When nothing is notified or broadcast, more numbers may be taken.
LEMMA HandlersSame ==
    ASSUME LinkTypeOK, HandlersInv, UNCHANGED <<m_managerList, observing, notified>>,
           broadcast' \o posted' = broadcast \o posted,
           count'.messages \in {count.messages, count.messages + 1}
    PROVE  HandlersInv'
  <1>1. count.messages \in Nat
    BY DEF LinkTypeOK
  <1>2. Made \subseteq Made'
    BY <1>1 DEF Made
  <1>3. NotifiedBroadcastOnce'
    BY DEF HandlersInv, NotifiedBroadcastOnce
  <1>4. Range(broadcast' \o posted') \subseteq Made'
    BY <1>2 DEF HandlersInv
  <1>5. \A m \in Managers : Range(notified'[m]) \subseteq Made'
    BY <1>2 DEF HandlersInv
  <1>6. \A m \in Managers : observing'[m] = 1 => m \in Range(m_managerList')
    BY DEF HandlersInv
  <1> QED BY <1>3, <1>4, <1>5, <1>6 DEF HandlersInv
-----------------------------------------------------------------------------
(* The clients.                                                            *)

\* Nothing of a client changes.
Alike(c) ==
    /\ IsSocket(c)' <=> IsSocket(c)
    /\ conn'[c] = conn[c] /\ joined'[c] = joined[c]
    /\ clientPosted'[c] = clientPosted[c] /\ clientBuf'[c] = clientBuf[c]
    /\ m_msgList'[c] = m_msgList[c] /\ toClient'[c] = toClient[c]
    /\ toServer'[c] = toServer[c] /\ serverBuf'[c] = serverBuf[c]
    /\ got'[c] = got[c] /\ wrote'[c] = wrote[c] /\ pushed'[c] = pushed[c]

LEMMA ClientSame ==
    ASSUME NEW c \in Clients, ClientInv(c), Alike(c), broadcast' = broadcast
    PROVE  ClientInv(c)'
  <1>1. Idle(c)'
    BY DEF ClientInv, Idle, Alike
  <1>2. Receives(c)'
    BY DEF ClientInv, Receives, Alike
  <1>3. Writes(c)'
    BY DEF ClientInv, Writes, Alike
  <1> QED BY <1>1, <1>2, <1>3 DEF ClientInv

\* Of one step, only the parts that it changes.
LEMMA WritesSame ==
    ASSUME NEW c \in Clients, Writes(c), conn'[c] = conn[c],
           clientPosted'[c] = clientPosted[c], toServer'[c] = toServer[c],
           serverBuf'[c] = serverBuf[c], wrote'[c] = wrote[c], pushed'[c] = pushed[c]
    PROVE  Writes(c)'
  BY DEF Writes

LEMMA ReceivesSame ==
    ASSUME NEW c \in Clients, Receives(c), broadcast' = broadcast, joined'[c] = joined[c],
           conn'[c] = conn[c], IsSocket(c)' <=> IsSocket(c), got'[c] = got[c],
           m_msgList'[c] = m_msgList[c], clientBuf'[c] = clientBuf[c],
           toClient'[c] = toClient[c]
    PROVE  Receives(c)'
  BY DEF Receives

\* What LinkTypeOK says of one client.
LEMMA ClientType ==
    ASSUME LinkTypeOK, NEW c \in Clients
    PROVE  /\ serverBuf[c] \in Seq(Byte) /\ toServer[c] \in Seq(Byte)
           /\ clientBuf[c] \in Seq(Byte) /\ toClient[c] \in Seq(Byte)
           /\ clientPosted[c] \in Seq(Msg) /\ m_msgList[c] \in Seq(Msg)
           /\ got[c] \in Seq(Msg) /\ wrote[c] \in Seq(Msg)
           /\ pushed[c] \in Seq(Msg) /\ joined[c] \in Nat
           /\ conn[c] \in {"none", "connected", "closed"}
  BY DEF LinkTypeOK

\* What was sent since a position, with one message more.
LEMMA MoreSince ==
    ASSUME NEW s \in Seq(Msg), NEW msg \in Msg, NEW j \in 0 .. Len(s)
    PROVE  /\ SubSeq(s, j + 1, Len(s)) \in Seq(Msg)
           /\ SubSeq(Append(s, msg), j + 1, Len(Append(s, msg)))
                = Append(SubSeq(s, j + 1, Len(s)), msg)
  BY SubSeqAppend

\* One message more for a client that is served.
LEMMA OneMoreSent ==
    ASSUME NEW due \in Seq(Msg), NEW had \in Seq(Msg), NEW r \in Seq(Msg),
           NEW buf \in Seq(Byte), NEW stream \in Seq(Byte), NEW msg \in Msg,
           Ahead(due, had, r, buf, stream)
    PROVE  /\ Append(r, msg) \in Seq(Msg)
           /\ stream \o serialize(msg) \in Seq(Byte)
           /\ Ahead(Append(due, msg), had, Append(r, msg), buf, stream \o serialize(msg))
  <1> DEFINE e == serialize(msg)
  <1>1. e \in Seq(Byte)
    BY Serialized
  <1>2. Append(had \o r, msg) = had \o Append(r, msg) /\ Append(r, msg) \in Seq(Msg)
    <2>1. Associates(Msg)
      BY Associative
    <2>2. Append(had \o r, msg) = had \o Append(r, msg)
      BY <2>1, Zenon DEF Associates, Regroups
    <2> QED BY <2>2, AppendProperties
  <1>3. Bytes(Append(r, msg)) = Bytes(r) \o e
    BY BytesAppend
  <1> HIDE DEF e
  <1>4. Associates(Byte)
    BY Associative
  <1>5. (buf \o stream) \o e = buf \o (stream \o e)
    BY <1>1, <1>4, Zenon DEF Associates, Regroups
  <1>6. stream \o e \in Seq(Byte)
    BY <1>1, ConcatProperties
  <1>7. due = had \o r /\ buf \o stream = Bytes(r)
    BY DEF Ahead
  <1> QED BY <1>2, <1>3, <1>5, <1>6, <1>7 DEF Ahead, e

\* event: everyone who is served has one message more to come.
LEMMA EventKeeps ==
    ASSUME LinkInv, event
    PROVE  LinkInv'
  <1> DEFINE msg == Head(posted)
  <1>1. /\ posted # <<>> /\ posted' = Tail(posted) /\ broadcast' = Append(broadcast, msg)
        /\ toClient' = [c \in Clients |->
                          IF Contains(m_socketList, c) /\ conn[c] = "connected"
                          THEN toClient[c] \o serialize(msg) ELSE toClient[c]]
        /\ UNCHANGED <<m_managerList, observing, running, m_socketList, pending, serverBuf>>
        /\ UNCHANGED <<conn, clientPosted, clientBuf, m_msgList>>
        /\ UNCHANGED <<toServer, count, notified, joined, got, wrote, pushed>>
    BY DEF event, clientVars
  <1>2. LinkTypeOK /\ HandlersInv /\ \A c \in Clients : ClientInv(c)
    BY DEF LinkInv
  <1>3. posted \in Seq(Msg) /\ broadcast \in Seq(Msg) /\ m_socketList \in Seq(Clients)
    BY <1>2 DEF LinkTypeOK
  <1>4. /\ msg \in Msg /\ posted' \in Seq(Msg) /\ broadcast' \in Seq(Msg)
        /\ broadcast' \o posted' = broadcast \o posted
    BY <1>1, <1>3, MoveHead
  <1> HIDE DEF msg
  <1>5. serialize(msg) \in Seq(Byte)
    BY <1>4, Serialized
  <1>6. ASSUME NEW c \in Clients
        PROVE  ClientInv(c)' /\ toClient'[c] \in Seq(Byte)
    <2>1. ClientInv(c) /\ (Contains(m_socketList, c) <=> IsSocket(c))
      BY <1>2, <1>3, ContainsRange DEF IsSocket
    <2>2. IsSocket(c)' <=> IsSocket(c)
      BY <1>1 DEF IsSocket
    <2>3. Writes(c)'
      BY <1>1, <2>1, WritesSame DEF ClientInv
    <2>4. /\ toClient[c] \in Seq(Byte) /\ clientBuf[c] \in Seq(Byte) /\ joined[c] \in Nat
          /\ got[c] \in Seq(Msg) /\ m_msgList[c] \in Seq(Msg)
      BY <1>2, ClientType
    <2>5. joined'[c] = joined[c] /\ joined[c] \in 0 .. Len(broadcast) /\ Len(broadcast) \in Nat
      BY <1>1, <1>3, <2>1, <2>4 DEF ClientInv, Receives
    <2>6. joined'[c] <= Len(broadcast')
      <3>1. Len(broadcast') = Len(broadcast) + 1
        BY <1>1, <1>3, <1>4
      <3> QED BY <2>5, <3>1
    <2>7. CASE conn[c] = "connected" /\ IsSocket(c)
      <3>1. toClient'[c] = toClient[c] \o serialize(msg)
        BY <1>1, <2>1, <2>7
      <3> DEFINE due == SubSeq(broadcast, joined[c] + 1, Len(broadcast))
                 had == got[c] \o m_msgList[c]
      <3>2. due \in Seq(Msg)
            /\ SubSeq(broadcast', joined[c] + 1, Len(broadcast')) = Append(due, msg)
        <4>1. /\ SubSeq(broadcast, joined[c] + 1, Len(broadcast)) \in Seq(Msg)
              /\ SubSeq(Append(broadcast, msg), joined[c] + 1, Len(Append(broadcast, msg)))
                   = Append(SubSeq(broadcast, joined[c] + 1, Len(broadcast)), msg)
          BY <1>3, <1>4, <2>5, MoreSince, Zenon
        <4> QED BY <1>1, <4>1
      <3>3. PICK r \in Seq(Msg) : Ahead(due, had, r, clientBuf[c], toClient[c])
        BY <2>1, <2>7 DEF ClientInv, Receives
      <3>4. had \in Seq(Msg)
        BY <2>4, ConcatProperties
      <3> HIDE DEF due, had
      <3>5. /\ Append(r, msg) \in Seq(Msg)
            /\ toClient[c] \o serialize(msg) \in Seq(Byte)
            /\ Ahead(Append(due, msg), had, Append(r, msg), clientBuf[c],
                     toClient[c] \o serialize(msg))
        BY <1>4, <2>4, <3>2, <3>3, <3>4, OneMoreSent
      <3>6. /\ had = got'[c] \o m_msgList'[c] /\ clientBuf'[c] = clientBuf[c]
            /\ SubSeq(broadcast', joined'[c] + 1, Len(broadcast')) = Append(due, msg)
        BY <1>1, <2>5, <3>2 DEF had
      <3>7. Receives(c)'
        <4>1. \E s \in Seq(Msg) :
                 Ahead(SubSeq(broadcast', joined'[c] + 1, Len(broadcast')),
                       got'[c] \o m_msgList'[c], s, clientBuf'[c], toClient'[c])
          BY <3>1, <3>5, <3>6, Zenon
        <4> QED BY <2>6, <4>1, Zenon DEF Receives
      <3>8. Idle(c)'
        BY <1>1, <2>1, <2>2, <2>7 DEF ClientInv, Idle
      <3> QED BY <2>3, <3>1, <3>5, <3>7, <3>8 DEF ClientInv
    <2>8. CASE ~(conn[c] = "connected" /\ IsSocket(c))
      <3>1. toClient'[c] = toClient[c]
        BY <1>1, <2>1, <2>8
      <3>2. Idle(c)'
        BY <1>1, <2>1, <2>2, <3>1 DEF ClientInv, Idle
      <3>3. Receives(c)'
        BY <1>1, <2>2, <2>6, <2>8 DEF Receives
      <3> QED BY <2>3, <2>4, <3>1, <3>2, <3>3 DEF ClientInv
    <2> QED BY <2>7, <2>8
  <1>7. toClient' \in [Clients -> Seq(Byte)]
    BY <1>1, <1>6
  <1>8. LinkTypeOK'
    BY <1>1, <1>2, <1>4, <1>7 DEF LinkTypeOK
  <1>9. HandlersInv'
    BY <1>1, <1>2, <1>4, HandlersSame
  <1> QED BY <1>6, <1>8, <1>9 DEF LinkInv

\* Some bytes arrive and are parsed.
LEMMA SomeArrive ==
    ASSUME NEW buf \in Seq(Byte), NEW stream \in Seq(Byte), NEW r \in Seq(Msg),
           NEW n \in 0 .. Len(stream), buf \o stream = Bytes(r)
    PROVE  /\ SubSeq(stream, n + 1, Len(stream)) \in Seq(Byte)
           /\ Keeps(Parse(buf \o SubSeq(stream, 1, n)), SubSeq(stream, n + 1, Len(stream)), r)
  <1> DEFINE front == SubSeq(stream, 1, n)
             rest == SubSeq(stream, n + 1, Len(stream))
  <1>1. front \in Seq(Byte) /\ rest \in Seq(Byte) /\ front \o rest = stream
    BY CutAnywhere
  <1> HIDE DEF front, rest
  <1> DEFINE bytes == buf \o front
  <1>2. bytes \in Seq(Byte)
    BY <1>1, ConcatProperties
  <1>3. bytes \o rest = Bytes(r)
    <2>1. Associates(Byte)
      BY Associative
    <2>2. bytes \o rest = buf \o (front \o rest)
      BY <1>1, <2>1, ZenonT(40) DEF Associates, Regroups
    <2> QED BY <1>1, <2>2
  <1> HIDE DEF bytes
  <1>4. Keeps(Parse(bytes), rest, r)
    BY <1>1, <1>2, <1>3, ParseKeeps
  <1> QED BY <1>1, <1>4 DEF bytes, front, rest

\* A client reads: what it parses joins what it has.
LEMMA ClientReadsKeeps ==
    ASSUME LinkInv, NEW c \in Clients, NEW n \in 1 .. Len(toClient[c]), ClientReads(c, n)
    PROVE  LinkInv'
  <1> DEFINE read == Parse(clientBuf[c] \o SubSeq(toClient[c], 1, n))
             later == SubSeq(toClient[c], n + 1, Len(toClient[c]))
  <1>1. /\ conn[c] = "connected" /\ n <= Len(toClient[c])
        /\ toClient' = [toClient EXCEPT ![c] = later]
        /\ clientBuf' = [clientBuf EXCEPT ![c] = read.rest]
        /\ m_msgList' = [m_msgList EXCEPT ![c] = @ \o read.messages]
        /\ UNCHANGED <<m_managerList, observing, running, posted, m_socketList, pending,
                       serverBuf>>
        /\ UNCHANGED <<conn, clientPosted, toServer>>
        /\ UNCHANGED <<count, notified, broadcast, joined, got, wrote, pushed>>
    BY Zenon DEF ClientReads, serverVars, history
  <1>2. LinkTypeOK /\ HandlersInv /\ \A d \in Clients : ClientInv(d)
    BY DEF LinkInv
  <1>3. /\ toClient[c] \in Seq(Byte) /\ clientBuf[c] \in Seq(Byte)
        /\ got[c] \in Seq(Msg) /\ m_msgList[c] \in Seq(Msg)
    BY <1>2, ClientType
  <1>4. Len(toClient[c]) \in Nat /\ toClient[c] # <<>> /\ n \in 0 .. Len(toClient[c])
    BY <1>3
  <1>5. IsSocket(c)
    BY <1>2, <1>4 DEF ClientInv, Idle
  <1> DEFINE due == SubSeq(broadcast, joined[c] + 1, Len(broadcast))
  <1>6. PICK r \in Seq(Msg) : Ahead(due, got[c] \o m_msgList[c], r, clientBuf[c], toClient[c])
    BY <1>1, <1>2, <1>5 DEF ClientInv, Receives
  <1>7. later \in Seq(Byte) /\ Keeps(read, later, r)
    BY <1>3, <1>4, <1>6, SomeArrive DEF Ahead
  <1> HIDE DEF read, later, due
  <1>8. PICK left \in Seq(Msg) : r = read.messages \o left /\ read.rest \o later = Bytes(left)
    BY <1>7 DEF Keeps
  <1>9. read.rest \in Seq(Byte) /\ read.messages \in Seq(Msg)
    BY <1>7 DEF Keeps
  <1>10. m_msgList[c] \o read.messages \in Seq(Msg)
    BY <1>3, <1>9, ConcatProperties
  <1>11. Ahead(due, got[c] \o (m_msgList[c] \o read.messages), left, read.rest, later)
    <2> DEFINE g == got[c]
               m == m_msgList[c]
               p == read.messages
    <2>1. due = (g \o m) \o (p \o left)
      BY <1>6, <1>8 DEF Ahead
    <2>2. g \in Seq(Msg) /\ m \in Seq(Msg) /\ p \in Seq(Msg)
      BY <1>3, <1>9
    <2> HIDE DEF g, m, p
    <2>3. g \o m \in Seq(Msg)
      BY <2>2, ConcatProperties
    <2>4. Associates(Msg)
      BY Associative
    <2>5. (g \o (m \o p)) \o left = due
      <3> DEFINE k == g \o m
      <3>0. k \in Seq(Msg) /\ left \in Seq(Msg)
        BY <2>3
      <3> HIDE DEF k
      <3>1. Regroups(k, p, left) /\ Regroups(g, m, p)
        BY <2>2, <2>4, <3>0, Zenon DEF Associates
      <3> QED BY <2>1, <3>1 DEF Regroups, k
    <2> QED BY <1>8, <2>5 DEF Ahead, g, m, p
  <1>12. \A d : IsSocket(d)' <=> IsSocket(d)
    BY <1>1 DEF IsSocket
  <1>13. LinkTypeOK'
    <2>1. /\ toClient' \in [Clients -> Seq(Byte)] /\ clientBuf' \in [Clients -> Seq(Byte)]
          /\ m_msgList' \in [Clients -> Seq(Msg)]
      BY <1>1, <1>2, <1>7, <1>9, <1>10 DEF LinkTypeOK
    <2> QED BY <1>1, <1>2, <2>1 DEF LinkTypeOK
  <1>14. ASSUME NEW d \in Clients
         PROVE  ClientInv(d)'
    <2>1. toClient \in [Clients -> Seq(Byte)] /\ clientBuf \in [Clients -> Seq(Byte)]
          /\ m_msgList \in [Clients -> Seq(Msg)]
      BY <1>2 DEF LinkTypeOK
    <2>2. CASE d # c
      <3>1. Alike(d)
        BY <1>1, <1>12, <2>1, <2>2 DEF Alike
      <3> QED BY <1>1, <1>2, <3>1, ClientSame
    <2>3. CASE d = c
      <3>1. /\ toClient'[c] = later /\ clientBuf'[c] = read.rest
            /\ m_msgList'[c] = m_msgList[c] \o read.messages
        BY <1>1, <2>1
      <3>2. Receives(c)'
        <4>1. due' = due
          BY <1>1 DEF due
        <4>2. Ahead(due, got'[c] \o m_msgList'[c], left, clientBuf'[c], toClient'[c])
          BY <1>1, <1>11, <3>1, Zenon
        <4>3. joined'[c] <= Len(broadcast')
          BY <1>1, <1>2 DEF ClientInv, Receives
        <4>4. \E s \in Seq(Msg) :
                 Ahead(SubSeq(broadcast', joined'[c] + 1, Len(broadcast')),
                       got'[c] \o m_msgList'[c], s, clientBuf'[c], toClient'[c])
          BY <4>1, <4>2, Zenon DEF due
        <4> QED BY <4>3, <4>4, Zenon DEF Receives
      <3>3. Writes(c)'
        BY <1>1, <1>2, WritesSame DEF ClientInv
      <3>4. Idle(c)'
        BY <1>1, <1>2, <1>5, <1>12 DEF ClientInv, Idle
      <3> QED BY <2>3, <3>2, <3>3, <3>4 DEF ClientInv
    <2> QED BY <2>2, <2>3
  <1>15. HandlersInv'
    BY <1>1, <1>2, HandlersSame
  <1> QED BY <1>13, <1>14, <1>15 DEF LinkInv

\* recvMessage: a message goes from the list to the caller.
LEMMA ReceiveKeeps ==
    ASSUME LinkInv, NEW c \in Clients, recvMessage(c)
    PROVE  LinkInv'
  <1>1. /\ m_msgList[c] # <<>>
        /\ got' = [got EXCEPT ![c] = Append(@, Head(m_msgList[c]))]
        /\ m_msgList' = [m_msgList EXCEPT ![c] = Tail(@)]
        /\ UNCHANGED <<m_managerList, observing, running, posted, m_socketList, pending,
                       serverBuf>>
        /\ UNCHANGED <<conn, clientPosted, clientBuf, toServer, toClient>>
        /\ UNCHANGED <<count, notified, broadcast, joined, wrote, pushed>>
    BY DEF recvMessage, serverVars, streams
  <1>2. LinkTypeOK /\ HandlersInv /\ \A d \in Clients : ClientInv(d)
    BY DEF LinkInv
  <1>3. got[c] \in Seq(Msg) /\ m_msgList[c] \in Seq(Msg)
    BY <1>2, ClientType
  <1>4. got \in [Clients -> Seq(Msg)] /\ m_msgList \in [Clients -> Seq(Msg)]
    BY <1>2 DEF LinkTypeOK
  <1>5. /\ got'[c] = Append(got[c], Head(m_msgList[c])) /\ m_msgList'[c] = Tail(m_msgList[c])
        /\ \A d \in Clients : d # c => got'[d] = got[d] /\ m_msgList'[d] = m_msgList[d]
    BY <1>1, <1>4
  <1>6. /\ got'[c] \in Seq(Msg) /\ m_msgList'[c] \in Seq(Msg)
        /\ got'[c] \o m_msgList'[c] = got[c] \o m_msgList[c]
    <2> DEFINE g == got[c]
               m == m_msgList[c]
    <2>1. g \in Seq(Msg) /\ m \in Seq(Msg) /\ m # <<>>
      BY <1>1, <1>3
    <2> HIDE DEF g, m
    <2>2. /\ Append(g, Head(m)) \in Seq(Msg) /\ Tail(m) \in Seq(Msg)
          /\ Append(g, Head(m)) \o Tail(m) = g \o m
      BY <2>1, MoveHead
    <2> QED BY <1>5, <2>2 DEF g, m
  <1>7. \A d : IsSocket(d)' <=> IsSocket(d)
    BY <1>1 DEF IsSocket
  <1>8. LinkTypeOK'
    <2>1. got' \in [Clients -> Seq(Msg)] /\ m_msgList' \in [Clients -> Seq(Msg)]
      BY <1>1, <1>4, <1>5, <1>6
    <2> QED BY <1>1, <1>2, <2>1 DEF LinkTypeOK
  <1>9. ASSUME NEW d \in Clients
        PROVE  ClientInv(d)'
    <2>1. CASE d # c
      <3>1. Alike(d)
        BY <1>1, <1>5, <1>7, <2>1 DEF Alike
      <3> QED BY <1>1, <1>2, <3>1, ClientSame
    <2>2. CASE d = c
      <3>1. ClientInv(c) /\ conn[c] = "connected" /\ IsSocket(c)
        BY <1>1, <1>2 DEF ClientInv, Idle
      <3>2. Receives(c)'
        BY <1>1, <1>6, <1>7, <3>1, Zenon DEF ClientInv, Receives
      <3>3. Writes(c)'
        BY <1>1, <3>1, WritesSame DEF ClientInv
      <3>4. Idle(c)'
        BY <1>1, <1>7, <3>1 DEF Idle
      <3> QED BY <2>2, <3>2, <3>3, <3>4 DEF ClientInv
    <2> QED BY <2>1, <2>2
  <1>10. HandlersInv'
    BY <1>1, <1>2, HandlersSame
  <1> QED BY <1>8, <1>9, <1>10 DEF LinkInv

\* sendMessage: a write joins the events of the client.
LEMMA SendKeeps ==
    ASSUME LinkInv, NEW c \in Clients, NEW length \in Lengths, NEW isWrite \in BOOLEAN,
           sendMessage(c, length, isWrite)
    PROVE  LinkInv'
  <1> DEFINE msg == <<count.messages + 1, length>>
  <1>1. /\ conn[c] = "connected"
        /\ clientPosted' = IF isWrite THEN [clientPosted EXCEPT ![c] = Append(@, msg)]
                           ELSE clientPosted
        /\ wrote' = IF isWrite THEN [wrote EXCEPT ![c] = Append(@, msg)] ELSE wrote
        /\ UNCHANGED <<m_managerList, observing, running, posted, m_socketList, pending,
                       serverBuf>>
        /\ UNCHANGED <<conn, clientBuf, m_msgList, toServer, toClient>>
        /\ UNCHANGED <<notified, broadcast, joined, got, pushed>>
    BY Zenon DEF sendMessage, serverVars, streams
  <1>2. LinkTypeOK /\ HandlersInv /\ \A d \in Clients : ClientInv(d)
    BY DEF LinkInv
  <1>3. /\ count \in [messages : Nat, connections : Nat]
        /\ count' = [count EXCEPT !.messages = @ + 1]
    BY <1>2 DEF LinkTypeOK, sendMessage, CountMessage
  <1>4. count' \in [messages : Nat, connections : Nat] /\ msg \in Msg
        /\ count'.messages = count.messages + 1
    BY <1>3 DEF Msg
  <1> HIDE DEF msg
  <1>5. clientPosted \in [Clients -> Seq(Msg)] /\ wrote \in [Clients -> Seq(Msg)]
    BY <1>2 DEF LinkTypeOK
  <1>6. /\ clientPosted' \in [Clients -> Seq(Msg)] /\ wrote' \in [Clients -> Seq(Msg)]
        /\ \A d \in Clients : d # c => clientPosted'[d] = clientPosted[d] /\ wrote'[d] = wrote[d]
    BY <1>1, <1>4, <1>5
  <1>7. \A d : IsSocket(d)' <=> IsSocket(d)
    BY <1>1 DEF IsSocket
  <1>8. LinkTypeOK'
    BY <1>1, <1>2, <1>4, <1>6 DEF LinkTypeOK
  <1>9. ASSUME NEW d \in Clients
        PROVE  ClientInv(d)'
    <2>1. CASE d # c
      <3>1. Alike(d)
        BY <1>1, <1>6, <1>7, <2>1 DEF Alike
      <3> QED BY <1>1, <1>2, <3>1, ClientSame
    <2>2. CASE d = c
      <3>1. Receives(c)'
        BY <1>1, <1>2, <1>7, ReceivesSame DEF ClientInv
      <3>2. Idle(c)'
        BY <1>1, <1>2, <1>7 DEF ClientInv, Idle
      <3>3. Writes(c)'
        <4>1. PICK r \in Seq(Msg), q \in Seq(Msg) :
                /\ wrote[c] = pushed[c] \o (r \o q)
                /\ serverBuf[c] \o toServer[c] = Bytes(r)
                /\ q = clientPosted[c]
          BY <1>1, <1>2 DEF ClientInv, Writes
        <4>2. CASE ~isWrite
          <5>1. wrote'[c] = wrote[c] /\ clientPosted'[c] = clientPosted[c]
            BY <1>1, <4>2
          <5> QED BY <1>1, <1>2, <5>1, WritesSame DEF ClientInv
        <4>3. CASE isWrite
          <5>1. /\ wrote'[c] = Append(wrote[c], msg)
                /\ clientPosted'[c] = Append(clientPosted[c], msg)
            BY <1>1, <1>5, <4>3
          <5> DEFINE p == pushed[c]
          <5>2. p \in Seq(Msg)
            BY <1>2, ClientType
          <5> HIDE DEF p
          <5>3. Associates(Msg) /\ r \o q \in Seq(Msg)
            BY Associative, ConcatProperties
          <5>4. Append(r \o q, msg) = r \o Append(q, msg)
            BY <1>4, <5>3, Zenon DEF Associates, Regroups
          <5>5. Append(p \o (r \o q), msg) = p \o Append(r \o q, msg)
            <6> DEFINE k == r \o q
            <6>1. k \in Seq(Msg)
              BY <5>3
            <6> HIDE DEF k
            <6>2. Append(p \o k, msg) = p \o Append(k, msg)
              BY <1>4, <5>2, <5>3, <6>1, ZenonT(40) DEF Associates, Regroups
            <6> QED BY <6>2 DEF k
          <5>6. wrote'[c] = pushed'[c] \o (r \o Append(q, msg))
            BY <1>1, <4>1, <5>1, <5>4, <5>5, Zenon DEF p
          <5>7. Append(q, msg) \in Seq(Msg)
            BY <1>4, AppendProperties
          <5> DEFINE s == Append(q, msg)
          <5>8. s = clientPosted'[c]
            BY <4>1, <5>1
          <5> HIDE DEF s
          <5>9. serverBuf'[c] \o toServer'[c] = Bytes(r)
            BY <1>1, <4>1
          <5> QED BY <5>6, <5>7, <5>8, <5>9 DEF Writes, s
        <4> QED BY <4>2, <4>3
      <3> QED BY <2>2, <3>1, <3>2, <3>3 DEF ClientInv
    <2> QED BY <2>1, <2>2
  <1>10. HandlersInv'
    BY <1>1, <1>2, <1>4, HandlersSame
  <1> QED BY <1>8, <1>9, <1>10 DEF LinkInv

\* NETVRemoteClient::event: an event of the client becomes bytes of its stream.
LEMMA ClientEventKeeps ==
    ASSUME LinkInv, NEW c \in Clients, ClientEvent(c)
    PROVE  LinkInv'
  <1> DEFINE msg == Head(clientPosted[c])
  <1>1. /\ clientPosted[c] # <<>>
        /\ clientPosted' = [clientPosted EXCEPT ![c] = Tail(@)]
        /\ toServer' = IF conn[c] = "connected"
                       THEN [toServer EXCEPT ![c] = @ \o serialize(msg)] ELSE toServer
        /\ UNCHANGED <<m_managerList, observing, running, posted, m_socketList, pending,
                       serverBuf>>
        /\ UNCHANGED <<conn, clientBuf, m_msgList, toClient>>
        /\ UNCHANGED <<count, notified, broadcast, joined, got, wrote, pushed>>
    BY Zenon DEF ClientEvent, serverVars, history
  <1>2. LinkTypeOK /\ HandlersInv /\ \A d \in Clients : ClientInv(d)
    BY DEF LinkInv
  <1>3. conn[c] = "connected"
    BY <1>1, <1>2 DEF ClientInv, Idle
  <1>4. clientPosted \in [Clients -> Seq(Msg)] /\ toServer \in [Clients -> Seq(Byte)]
    BY <1>2 DEF LinkTypeOK
  <1>5. /\ clientPosted[c] \in Seq(Msg) /\ toServer[c] \in Seq(Byte)
        /\ serverBuf[c] \in Seq(Byte)
    BY <1>2, ClientType
  <1>6. msg \in Msg /\ Tail(clientPosted[c]) \in Seq(Msg)
    BY <1>1, <1>5
  <1> HIDE DEF msg
  <1>7. serialize(msg) \in Seq(Byte) /\ toServer[c] \o serialize(msg) \in Seq(Byte)
    BY <1>5, <1>6, Serialized, ConcatProperties
  <1>8. /\ clientPosted'[c] = Tail(clientPosted[c])
        /\ toServer'[c] = toServer[c] \o serialize(msg)
        /\ \A d \in Clients : d # c => /\ clientPosted'[d] = clientPosted[d]
                                       /\ toServer'[d] = toServer[d]
        /\ clientPosted' \in [Clients -> Seq(Msg)] /\ toServer' \in [Clients -> Seq(Byte)]
    BY <1>1, <1>3, <1>4, <1>6, <1>7
  <1>9. \A d : IsSocket(d)' <=> IsSocket(d)
    BY <1>1 DEF IsSocket
  <1>10. LinkTypeOK'
    BY <1>1, <1>2, <1>8 DEF LinkTypeOK
  <1>11. ASSUME NEW d \in Clients
         PROVE  ClientInv(d)'
    <2>1. CASE d # c
      <3>1. Alike(d)
        BY <1>1, <1>8, <1>9, <2>1 DEF Alike
      <3> QED BY <1>1, <1>2, <3>1, ClientSame
    <2>2. CASE d = c
      <3>1. Receives(c)'
        BY <1>1, <1>2, <1>9, ReceivesSame DEF ClientInv
      <3>2. Idle(c)'
        BY <1>1, <1>2, <1>3, <1>9 DEF ClientInv, Idle
      <3>3. Writes(c)'
        <4>1. PICK r \in Seq(Msg), q \in Seq(Msg) :
                /\ wrote[c] = pushed[c] \o (r \o q)
                /\ serverBuf[c] \o toServer[c] = Bytes(r)
                /\ q = clientPosted[c]
          BY <1>2, <1>3 DEF ClientInv, Writes
        <4>2. /\ Head(q) = msg /\ Append(r, msg) \in Seq(Msg) /\ Tail(q) \in Seq(Msg)
              /\ Append(r, msg) \o Tail(q) = r \o q
          <5>1. q # <<>> /\ Head(q) = msg
            BY <1>1, <4>1 DEF msg
          <5>2. /\ Append(r, Head(q)) \in Seq(Msg) /\ Tail(q) \in Seq(Msg)
                /\ Append(r, Head(q)) \o Tail(q) = r \o q
            BY <5>1, MoveHead
          <5> QED BY <5>1, <5>2
        <4>3. serverBuf'[c] \o toServer'[c] = Bytes(Append(r, msg))
          <5> DEFINE b == serverBuf[c]
                     t == toServer[c]
                     e == serialize(msg)
          <5>1. b \in Seq(Byte) /\ t \in Seq(Byte) /\ e \in Seq(Byte)
            BY <1>5, <1>7
          <5>2. Bytes(Append(r, msg)) = Bytes(r) \o e
            BY <1>6, BytesAppend
          <5>3. serverBuf'[c] = b /\ toServer'[c] = t \o e /\ b \o t = Bytes(r)
            BY <1>1, <1>8, <4>1
          <5> HIDE DEF b, t, e
          <5>4. Associates(Byte)
            BY Associative
          <5>5. (b \o t) \o e = b \o (t \o e)
            BY <5>1, <5>4, Zenon DEF Associates, Regroups
          <5> QED BY <5>2, <5>3, <5>5, Zenon
        <4>4. wrote'[c] = pushed'[c] \o (Append(r, msg) \o Tail(q)) /\ Tail(q) = clientPosted'[c]
          BY <1>1, <1>8, <4>1, <4>2
        <4> DEFINE s == Append(r, msg)
                   u == Tail(q)
        <4>5. s \in Seq(Msg) /\ u \in Seq(Msg)
          BY <4>2
        <4> HIDE DEF s, u
        <4> QED BY <4>3, <4>4, <4>5, Zenon DEF Writes, s, u
      <3> QED BY <2>2, <3>1, <3>2, <3>3 DEF ClientInv
    <2> QED BY <2>1, <2>2
  <1>12. HandlersInv'
    BY <1>1, <1>2, HandlersSame
  <1> QED BY <1>10, <1>11, <1>12 DEF LinkInv

\* readyReadSocket: what every socket has is parsed, and pushed to the handlers.
LEMMA ServerReadsKeeps ==
    ASSUME LinkInv, NEW c \in Clients, NEW n \in 1 .. Len(toServer[c]), readyReadSocket(c, n)
    PROVE  LinkInv'
  <1> DEFINE arrived == [serverBuf EXCEPT ![c] = @ \o SubSeq(toServer[c], 1, n)]
             read == [d \in Clients |-> IF Contains(m_socketList, d) THEN Parse(arrived[d])
                                        ELSE [rest |-> arrived[d], messages |-> <<>>]]
  <1>1. /\ Contains(m_socketList, c)
        /\ toServer' = [toServer EXCEPT ![c] = SubSeq(@, n + 1, Len(@))]
        /\ serverBuf' = [d \in Clients |-> read[d].rest]
        /\ pushed' = [d \in Clients |-> pushed[d] \o read[d].messages]
        /\ UNCHANGED <<m_managerList, observing, running, posted, m_socketList, pending>>
        /\ UNCHANGED <<conn, clientPosted, clientBuf, m_msgList, toClient>>
        /\ UNCHANGED <<count, notified, broadcast, joined, got, wrote>>
    BY Zenon DEF readyReadSocket, clientVars
  <1>2. LinkTypeOK /\ HandlersInv /\ \A d \in Clients : ClientInv(d)
    BY DEF LinkInv
  <1>3. /\ serverBuf \in [Clients -> Seq(Byte)] /\ toServer \in [Clients -> Seq(Byte)]
        /\ pushed \in [Clients -> Seq(Msg)] /\ m_socketList \in Seq(Clients)
    BY <1>2 DEF LinkTypeOK
  <1>4. n \in 0 .. Len(toServer[c])
    BY <1>3
  <1>5. \A d : (IsSocket(d)' <=> IsSocket(d)) /\ (Contains(m_socketList, d) <=> IsSocket(d))
    BY <1>1, <1>3, ContainsRange DEF IsSocket
  <1>6. ASSUME NEW d \in Clients
        PROVE  /\ serverBuf'[d] \in Seq(Byte) /\ toServer'[d] \in Seq(Byte)
               /\ pushed'[d] \in Seq(Msg) /\ Writes(d)'
               /\ ~IsSocket(d) => serverBuf'[d] = serverBuf[d] /\ pushed'[d] = pushed[d]
                                  /\ toServer'[d] = toServer[d]
    <2>1. /\ serverBuf'[d] = read[d].rest /\ pushed'[d] = pushed[d] \o read[d].messages
      BY <1>1
    <2>2. serverBuf[d] \in Seq(Byte) /\ toServer[d] \in Seq(Byte) /\ pushed[d] \in Seq(Msg)
      BY <1>3
    <2>3. CASE ~IsSocket(d)
      <3>1. d # c /\ ~Contains(m_socketList, d)
        BY <1>1, <1>5, <2>3
      <3>2. arrived[d] = serverBuf[d]
        BY <1>3, <3>1
      <3> HIDE DEF arrived
      <3>3. read[d] = [rest |-> serverBuf[d], messages |-> <<>>]
        BY <3>1, <3>2, Zenon
      <3> HIDE DEF read
      <3>4. serverBuf'[d] = serverBuf[d] /\ pushed'[d] = pushed[d]
        <4>1. pushed[d] \o <<>> = pushed[d]
          BY <2>2, ConcatEmptySeq
        <4> QED BY <2>1, <3>3, <4>1
      <3>5. toServer'[d] = toServer[d]
        BY <1>1, <1>3, <3>1
      <3>6. Writes(d)'
        BY <1>1, <1>2, <3>4, <3>5, WritesSame DEF ClientInv
      <3> QED BY <2>2, <3>4, <3>5, <3>6
    <2>4. CASE IsSocket(d)
      <3>1. conn[d] # "none"
        BY <1>2, <2>4 DEF ClientInv, Idle
      <3>2. PICK r \in Seq(Msg), q \in Seq(Msg) :
              /\ wrote[d] = pushed[d] \o (r \o q)
              /\ serverBuf[d] \o toServer[d] = Bytes(r)
              /\ conn[d] = "connected" => q = clientPosted[d]
        BY <1>2, <3>1 DEF ClientInv, Writes
      <3> DEFINE parsed == Parse(arrived[d])
                 later == toServer'[d]
      <3>3. read[d] = parsed
        <4>1. Contains(m_socketList, d)
          BY <1>5, <2>4
        <4> HIDE DEF arrived
        <4> QED BY <4>1, Zenon
      <3>4. later \in Seq(Byte) /\ Keeps(parsed, later, r)
        <4>1. CASE d = c
          <5>1. /\ arrived[c] = serverBuf[c] \o SubSeq(toServer[c], 1, n)
                /\ toServer'[c] = SubSeq(toServer[c], n + 1, Len(toServer[c]))
            BY <1>1, <1>3
          <5> HIDE DEF arrived
          <5>2. /\ serverBuf[c] \in Seq(Byte) /\ toServer[c] \in Seq(Byte)
                /\ serverBuf[c] \o toServer[c] = Bytes(r)
            BY <2>2, <3>2, <4>1
          <5>3. /\ SubSeq(toServer[c], n + 1, Len(toServer[c])) \in Seq(Byte)
                /\ Keeps(Parse(serverBuf[c] \o SubSeq(toServer[c], 1, n)),
                         SubSeq(toServer[c], n + 1, Len(toServer[c])), r)
            BY <1>4, <5>2, SomeArrive
          <5> QED BY <4>1, <5>1, <5>3
        <4>2. CASE d # c
          <5>1. arrived[d] = serverBuf[d] /\ toServer'[d] = toServer[d]
            BY <1>1, <1>3, <4>2
          <5> HIDE DEF arrived
          <5>2. Keeps(Parse(serverBuf[d]), toServer[d], r)
            BY <2>2, <3>2, ParseKeeps
          <5> QED BY <2>2, <5>1, <5>2
        <4> QED BY <4>1, <4>2
      <3> HIDE DEF read, parsed, later
      <3>5. PICK left \in Seq(Msg) : r = parsed.messages \o left /\ parsed.rest \o later = Bytes(left)
        BY <3>4 DEF Keeps
      <3>6. parsed.rest \in Seq(Byte) /\ parsed.messages \in Seq(Msg)
        BY <3>4 DEF Keeps
      <3>7. serverBuf'[d] = parsed.rest /\ pushed'[d] = pushed[d] \o parsed.messages
        BY <2>1, <3>3
      <3>8. pushed[d] \o parsed.messages \in Seq(Msg)
        BY <2>2, <3>6, ConcatProperties
      <3>9. wrote[d] = (pushed[d] \o parsed.messages) \o (left \o q)
        <4> DEFINE p == pushed[d]
                   m == parsed.messages
                   k == left \o q
        <4>1. p \in Seq(Msg) /\ m \in Seq(Msg) /\ k \in Seq(Msg)
          BY <2>2, <3>6, ConcatProperties
        <4>2. Associates(Msg)
          BY Associative
        <4>3. wrote[d] = p \o ((m \o left) \o q)
          BY <3>2, <3>5
        <4>4. m \in Seq(Msg) /\ left \in Seq(Msg) /\ q \in Seq(Msg)
          BY <4>1
        <4> HIDE DEF p, m
        <4>5. Regroups(m, left, q)
          BY <4>2, <4>4, Zenon DEF Associates
        <4> HIDE DEF k
        <4>6. Regroups(p, m, k)
          BY <4>1, <4>2, Zenon DEF Associates
        <4> QED BY <4>3, <4>5, <4>6 DEF p, m, k, Regroups
      <3>10. Writes(d)'
        <4>1. /\ wrote'[d] = pushed'[d] \o (left \o q)
              /\ serverBuf'[d] \o toServer'[d] = Bytes(left)
              /\ conn'[d] = "connected" => q = clientPosted'[d]
          BY <1>1, <3>2, <3>5, <3>7, <3>9 DEF later
        <4> QED BY <4>1, Zenon DEF Writes
      <3> QED BY <2>4, <3>4, <3>6, <3>7, <3>8, <3>10 DEF later
    <2> QED BY <2>3, <2>4
  <1> HIDE DEF read, arrived
  <1>7. LinkTypeOK'
    <2>1. /\ serverBuf' \in [Clients -> Seq(Byte)] /\ toServer' \in [Clients -> Seq(Byte)]
          /\ pushed' \in [Clients -> Seq(Msg)]
      BY <1>1, <1>3, <1>6
    <2> QED BY <1>1, <1>2, <2>1 DEF LinkTypeOK
  <1>8. ASSUME NEW d \in Clients
        PROVE  ClientInv(d)'
    <2>1. Receives(d)'
      BY <1>1, <1>2, <1>5, ReceivesSame DEF ClientInv
    <2>2. Idle(d)'
      BY <1>1, <1>2, <1>5, <1>6 DEF ClientInv, Idle
    <2> QED BY <1>6, <2>1, <2>2 DEF ClientInv
  <1>9. HandlersInv'
    BY <1>1, <1>2, HandlersSame
  <1> QED BY <1>7, <1>8, <1>9 DEF LinkInv

\* connectToHost: a new connection has sent nothing.
LEMMA ConnectKeeps ==
    ASSUME LinkInv, NEW c \in Clients, connectToHost(c)
    PROVE  LinkInv'
  <1>1. /\ conn[c] = "none"
        /\ count' = [count EXCEPT !.connections = @ + 1]
        /\ conn' = [conn EXCEPT ![c] = "connected"]
        /\ got' = [got EXCEPT ![c] = <<>>] /\ wrote' = [wrote EXCEPT ![c] = <<>>]
        /\ pushed' = [pushed EXCEPT ![c] = <<>>]
        /\ UNCHANGED <<m_managerList, observing, running, posted, m_socketList, pending,
                       serverBuf>>
        /\ UNCHANGED <<clientPosted, clientBuf, m_msgList, toServer, toClient>>
        /\ UNCHANGED <<notified, broadcast, joined>>
    BY DEF connectToHost, serverVars, streams
  <1>2. LinkTypeOK /\ HandlersInv /\ \A d \in Clients : ClientInv(d)
    BY DEF LinkInv
  <1>3. /\ conn \in [Clients -> {"none", "connected", "closed"}]
        /\ got \in [Clients -> Seq(Msg)] /\ wrote \in [Clients -> Seq(Msg)]
        /\ pushed \in [Clients -> Seq(Msg)] /\ count \in [messages : Nat, connections : Nat]
    BY <1>2 DEF LinkTypeOK
  <1>4. count' \in [messages : Nat, connections : Nat] /\ count'.messages = count.messages
    <2>1. count.connections + 1 \in Nat /\ count.messages \in Nat
          /\ count = [messages |-> count.messages, connections |-> count.connections]
      BY <1>3
    <2>2. count' = [messages |-> count.messages, connections |-> count.connections + 1]
      BY <1>1, <2>1
    <2> QED BY <2>1, <2>2
  <1>5. conn' \in [Clients -> {"none", "connected", "closed"}] /\ conn'[c] = "connected"
        /\ \A d \in Clients : d # c => conn'[d] = conn[d]
    BY <1>1, <1>3
  <1>6. /\ got' \in [Clients -> Seq(Msg)] /\ wrote' \in [Clients -> Seq(Msg)]
        /\ pushed' \in [Clients -> Seq(Msg)]
        /\ got'[c] = <<>> /\ wrote'[c] = <<>> /\ pushed'[c] = <<>>
        /\ \A d \in Clients : d # c => /\ got'[d] = got[d] /\ wrote'[d] = wrote[d]
                                       /\ pushed'[d] = pushed[d]
    <2>1. <<>> \in Seq(Msg)
      OBVIOUS
    <2> QED BY <1>1, <1>3, <2>1
  <1>7. \A d : IsSocket(d)' <=> IsSocket(d)
    BY <1>1 DEF IsSocket
  <1>8. LinkTypeOK'
    BY <1>1, <1>2, <1>4, <1>5, <1>6 DEF LinkTypeOK
  <1>9. ASSUME NEW d \in Clients
        PROVE  ClientInv(d)'
    <2>1. CASE d # c
      <3>1. Alike(d)
        BY <1>1, <1>5, <1>6, <1>7, <2>1 DEF Alike
      <3> QED BY <1>1, <1>2, <3>1, ClientSame
    <2>2. CASE d = c
      <3>1. /\ ~IsSocket(c) /\ serverBuf[c] = <<>> /\ toServer[c] = <<>> /\ clientPosted[c] = <<>>
            /\ clientBuf[c] = <<>> /\ m_msgList[c] = <<>> /\ toClient[c] = <<>>
            /\ joined[c] <= Len(broadcast)
        BY <1>1, <1>2 DEF ClientInv, Idle, Receives
      <3>2. Idle(c)'
        BY <1>1, <1>5, <1>6, <1>7, <3>1 DEF Idle
      <3>3. Receives(c)'
        BY <1>1, <1>7, <3>1 DEF Receives
      <3>4. Writes(c)'
        <4>1. <<>> \in Seq(Msg) /\ <<>> \o <<>> = <<>>
          OBVIOUS
        <4>2. wrote'[c] = pushed'[c] \o (<<>> \o <<>>)
          BY <1>6, <4>1
        <4>3. serverBuf'[c] \o toServer'[c] = Bytes(<<>>)
          BY <1>1, <3>1, <4>1, BytesEmpty
        <4>4. clientPosted'[c] = <<>>
          BY <1>1, <3>1
        <4> QED BY <4>1, <4>2, <4>3, <4>4, Zenon DEF Writes
      <3> QED BY <2>2, <3>2, <3>3, <3>4 DEF ClientInv
    <2> QED BY <2>1, <2>2
  <1>10. HandlersInv'
    BY <1>1, <1>2, <1>4, HandlersSame
  <1> QED BY <1>8, <1>9, <1>10 DEF LinkInv

\* incomingConnection: a new socket has been sent nothing.
LEMMA IncomingKeeps ==
    ASSUME LinkInv, NEW c \in Clients, incomingConnection(c)
    PROVE  LinkInv'
  <1>1. /\ conn[c] # "none" /\ ~Contains(m_socketList, c)
        /\ pending' = pending + 1
        /\ m_socketList' = Append(m_socketList, c)
        /\ joined' = [joined EXCEPT ![c] = Len(broadcast)]
        /\ UNCHANGED <<m_managerList, observing, running, posted, serverBuf>>
        /\ UNCHANGED <<conn, clientPosted, clientBuf, m_msgList, toServer, toClient>>
        /\ UNCHANGED <<count, notified, broadcast, got, wrote, pushed>>
    BY DEF incomingConnection, clientVars, streams
  <1>2. LinkTypeOK /\ HandlersInv /\ \A d \in Clients : ClientInv(d)
    BY DEF LinkInv
  <1>3. /\ m_socketList \in Seq(Clients) /\ joined \in [Clients -> Nat] /\ pending \in Nat
        /\ broadcast \in Seq(Msg)
    BY <1>2 DEF LinkTypeOK
  <1>4. Len(broadcast) \in Nat /\ joined' \in [Clients -> Nat] /\ joined'[c] = Len(broadcast)
        /\ pending' \in Nat /\ m_socketList' \in Seq(Clients)
        /\ \A d \in Clients : d # c => joined'[d] = joined[d]
    BY <1>1, <1>3
  <1>5. \A d : IsSocket(d)' <=> IsSocket(d) \/ d = c
    <2>1. Range(m_socketList') = Range(m_socketList) \cup {c}
      BY <1>1, <1>3, RangeAppend
    <2> QED BY <2>1 DEF IsSocket
  <1>6. LinkTypeOK'
    BY <1>1, <1>2, <1>4 DEF LinkTypeOK
  <1>7. ASSUME NEW d \in Clients
        PROVE  ClientInv(d)'
    <2>1. CASE d # c
      <3>1. Alike(d)
        BY <1>1, <1>4, <1>5, <2>1 DEF Alike
      <3> QED BY <1>1, <1>2, <3>1, ClientSame
    <2>2. CASE d = c
      <3>1. /\ got[c] = <<>> /\ m_msgList[c] = <<>> /\ clientBuf[c] = <<>> /\ toClient[c] = <<>>
        BY <1>1, <1>2, <1>3, ContainsRange DEF ClientInv, Idle, IsSocket
      <3>2. Idle(c)'
        BY <1>1, <1>2, <1>5 DEF ClientInv, Idle
      <3>3. Receives(c)'
        <4>1. <<>> \in Seq(Msg) /\ <<>> \o <<>> = <<>>
          OBVIOUS
        <4>2. SubSeq(broadcast', joined'[c] + 1, Len(broadcast')) = <<>>
          <5>1. Len(broadcast) + 1 \in Int /\ Len(broadcast) \in Int
                /\ Len(broadcast) < Len(broadcast) + 1
            BY <1>4
          <5>2. SubSeq(broadcast, Len(broadcast) + 1, Len(broadcast)) = <<>>
            BY <5>1, SubSeqEmpty
          <5> QED BY <1>1, <1>4, <5>2
        <4>3. Ahead(<<>>, <<>> \o <<>>, <<>>, <<>>, <<>>)
          BY <4>1, BytesEmpty DEF Ahead
        <4>4. \E r \in Seq(Msg) :
                 Ahead(SubSeq(broadcast', joined'[c] + 1, Len(broadcast')),
                       got'[c] \o m_msgList'[c], r, clientBuf'[c], toClient'[c])
          BY <1>1, <3>1, <4>1, <4>2, <4>3, Zenon
        <4>5. joined'[c] <= Len(broadcast')
          BY <1>1, <1>4
        <4> QED BY <4>4, <4>5, Zenon DEF Receives
      <3>4. Writes(c)'
        BY <1>1, <1>2, WritesSame DEF ClientInv
      <3> QED BY <2>2, <3>2, <3>3, <3>4 DEF ClientInv
    <2> QED BY <2>1, <2>2
  <1>8. HandlersInv'
    BY <1>1, <1>2, HandlersSame
  <1> QED BY <1>6, <1>7, <1>8 DEF LinkInv

\* close: what the client had is gone; the server reads on.
LEMMA CloseKeeps ==
    ASSUME LinkInv, NEW c \in Clients, close(c)
    PROVE  LinkInv'
  <1>1. /\ conn[c] = "connected"
        /\ conn' = [conn EXCEPT ![c] = "closed"]
        /\ clientPosted' = [clientPosted EXCEPT ![c] = <<>>]
        /\ clientBuf' = [clientBuf EXCEPT ![c] = <<>>]
        /\ m_msgList' = [m_msgList EXCEPT ![c] = <<>>]
        /\ toClient' = [toClient EXCEPT ![c] = <<>>]
        /\ UNCHANGED <<m_managerList, observing, running, posted, m_socketList, pending,
                       serverBuf>>
        /\ UNCHANGED <<toServer, count, notified, broadcast, joined, got, wrote, pushed>>
    BY DEF close, serverVars, history
  <1>2. LinkTypeOK /\ HandlersInv /\ \A d \in Clients : ClientInv(d)
    BY DEF LinkInv
  <1>3. /\ conn \in [Clients -> {"none", "connected", "closed"}]
        /\ clientPosted \in [Clients -> Seq(Msg)] /\ clientBuf \in [Clients -> Seq(Byte)]
        /\ m_msgList \in [Clients -> Seq(Msg)] /\ toClient \in [Clients -> Seq(Byte)]
    BY <1>2 DEF LinkTypeOK
  <1>4. /\ conn' \in [Clients -> {"none", "connected", "closed"}] /\ conn'[c] = "closed"
        /\ clientPosted' \in [Clients -> Seq(Msg)] /\ clientBuf' \in [Clients -> Seq(Byte)]
        /\ m_msgList' \in [Clients -> Seq(Msg)] /\ toClient' \in [Clients -> Seq(Byte)]
    <2>1. <<>> \in Seq(Msg) /\ <<>> \in Seq(Byte)
      OBVIOUS
    <2> QED BY <1>1, <1>3, <2>1
  <1>5. /\ clientPosted'[c] = <<>> /\ clientBuf'[c] = <<>> /\ m_msgList'[c] = <<>>
        /\ toClient'[c] = <<>>
        /\ \A d \in Clients : d # c => /\ conn'[d] = conn[d] /\ clientPosted'[d] = clientPosted[d]
                                       /\ clientBuf'[d] = clientBuf[d]
                                       /\ m_msgList'[d] = m_msgList[d]
                                       /\ toClient'[d] = toClient[d]
    BY <1>1, <1>3
  <1>6. \A d : IsSocket(d)' <=> IsSocket(d)
    BY <1>1 DEF IsSocket
  <1>7. LinkTypeOK'
    BY <1>1, <1>2, <1>4 DEF LinkTypeOK
  <1>8. ASSUME NEW d \in Clients
        PROVE  ClientInv(d)'
    <2>1. CASE d # c
      <3>1. Alike(d)
        BY <1>1, <1>5, <1>6, <2>1 DEF Alike
      <3> QED BY <1>1, <1>2, <3>1, ClientSame
    <2>2. CASE d = c
      <3>1. Idle(c)'
        BY <1>1, <1>2, <1>4, <1>5, <1>6 DEF ClientInv, Idle
      <3>2. Receives(c)'
        BY <1>1, <1>2, <1>4 DEF ClientInv, Receives
      <3>3. Writes(c)'
        BY <1>1, <1>2, <1>4 DEF ClientInv, Writes
      <3> QED BY <2>2, <3>1, <3>2, <3>3 DEF ClientInv
    <2> QED BY <2>1, <2>2
  <1>9. HandlersInv'
    BY <1>1, <1>2, HandlersSame
  <1> QED BY <1>7, <1>8, <1>9 DEF LinkInv

\* socketDisconnected: those that are gone are forgotten.
LEMMA DisconnectedKeeps ==
    ASSUME LinkInv, NEW c \in Clients, socketDisconnected(c)
    PROVE  LinkInv'
  <1> DEFINE gone == {d \in Clients : conn[d] = "closed" /\ toServer[d] = <<>>
                                      /\ Contains(m_socketList, d)}
  <1>1. /\ m_socketList' = Only(m_socketList, Clients \ gone)
        /\ serverBuf' = [d \in Clients |-> IF d \in gone THEN <<>> ELSE serverBuf[d]]
        /\ conn' = [d \in Clients |-> IF d \in gone THEN "none" ELSE conn[d]]
        /\ UNCHANGED <<m_managerList, observing, running, posted, pending>>
        /\ UNCHANGED <<clientPosted, clientBuf, m_msgList, toServer, toClient>>
        /\ UNCHANGED <<count, notified, broadcast, joined, got, wrote, pushed>>
    BY Zenon DEF socketDisconnected, streams, history
  <1>2. LinkTypeOK /\ HandlersInv /\ \A d \in Clients : ClientInv(d)
    BY DEF LinkInv
  <1>3. \A d \in gone : d \in Clients /\ conn[d] = "closed" /\ toServer[d] = <<>>
    OBVIOUS
  <1> HIDE DEF gone
  <1>4. /\ conn \in [Clients -> {"none", "connected", "closed"}]
        /\ serverBuf \in [Clients -> Seq(Byte)] /\ m_socketList \in Seq(Clients)
    BY <1>2 DEF LinkTypeOK
  <1>5. /\ m_socketList' \in Seq(Clients)
        /\ Range(m_socketList') = Range(m_socketList) \cap (Clients \ gone)
    BY <1>1, <1>4, OnlyRange
  <1>6. /\ conn' \in [Clients -> {"none", "connected", "closed"}]
        /\ serverBuf' \in [Clients -> Seq(Byte)]
    <2>1. <<>> \in Seq(Byte)
      OBVIOUS
    <2> QED BY <1>1, <1>4, <2>1
  <1>7. LinkTypeOK'
    BY <1>1, <1>2, <1>5, <1>6 DEF LinkTypeOK
  <1>8. ASSUME NEW d \in Clients
        PROVE  ClientInv(d)'
    <2>1. CASE d \notin gone
      <3>1. (IsSocket(d)' <=> IsSocket(d)) /\ conn'[d] = conn[d] /\ serverBuf'[d] = serverBuf[d]
        BY <1>1, <1>5, <2>1 DEF IsSocket
      <3>2. Alike(d)
        BY <1>1, <3>1 DEF Alike
      <3> QED BY <1>1, <1>2, <3>2, ClientSame
    <2>2. CASE d \in gone
      <3>1. ~IsSocket(d)' /\ conn'[d] = "none" /\ serverBuf'[d] = <<>>
        BY <1>1, <1>5, <2>2 DEF IsSocket
      <3>2. conn[d] = "closed" /\ toServer[d] = <<>>
        BY <1>3, <2>2
      <3>3. Idle(d)'
        BY <1>1, <1>2, <3>1, <3>2 DEF ClientInv, Idle
      <3>4. Receives(d)'
        BY <1>1, <1>2, <3>1 DEF ClientInv, Receives
      <3>5. Writes(d)'
        BY <3>1 DEF Writes
      <3> QED BY <3>3, <3>4, <3>5 DEF ClientInv
    <2> QED BY <2>1, <2>2
  <1>9. HandlersInv'
    BY <1>1, <1>2, HandlersSame
  <1> QED BY <1>7, <1>8, <1>9 DEF LinkInv
-----------------------------------------------------------------------------
(* The theorem.                                                            *)

\* A step that changes nothing of any client.
LEMMA ServerOnly ==
    ASSUME \A c \in Clients : ClientInv(c), LinkTypeOK', HandlersInv',
           UNCHANGED <<m_socketList, conn, joined, clientPosted, clientBuf, m_msgList>>,
           UNCHANGED <<toClient, toServer, serverBuf, got, wrote, pushed, broadcast>>
    PROVE  LinkInv'
  <1>1. ASSUME NEW c \in Clients
        PROVE  ClientInv(c)'
    <2>1. Alike(c)
      BY DEF Alike, IsSocket
    <2> QED BY <2>1, ClientSame
  <1> QED BY <1>1 DEF LinkInv

LEMMA LinkStep ==
    ASSUME LinkInv, [Next]_vars
    PROVE  LinkInv'
  <1>1. LinkTypeOK /\ HandlersInv /\ \A c \in Clients : ClientInv(c)
    BY DEF LinkInv
  <1>2. CASE exec
    <2>1. /\ running' = TRUE
          /\ UNCHANGED <<m_managerList, observing, posted, m_socketList, pending, serverBuf,
                         clientVars, streams, history>>
      BY <1>2 DEF exec
    <2>2. LinkTypeOK'
      BY <1>1, <2>1 DEF LinkTypeOK, clientVars, streams, history
    <2>3. HandlersInv'
      BY <1>1, <2>1, HandlersSame DEF history
    <2> QED BY <1>1, <2>1, <2>2, <2>3, ServerOnly DEF clientVars, streams, history
  <1>3. CASE event
    BY <1>3, EventKeeps
  <1>4. CASE loadUserPrefs
    <2>1. PICK m \in Managers : addInterface(m)
      BY <1>4 DEF loadUserPrefs
    <2>2. LinkTypeOK' /\ HandlersInv'
      BY <1>1, <2>1, AddKeeps
    <2> QED BY <1>1, <2>1, <2>2, ServerOnly DEF addInterface, clientVars, streams, history
  <1>5. ASSUME NEW m \in Managers, NEW length \in Lengths, notifyNETVMessage(m, length)
        PROVE  LinkInv'
    <2>1. LinkTypeOK' /\ HandlersInv'
      BY <1>1, <1>5, NotifyKeeps
    <2> QED BY <1>1, <1>5, <2>1, ServerOnly DEF notifyNETVMessage, clientVars, streams
  <1>6. ASSUME NEW c \in Clients,
               \/ recvMessage(c) \/ ClientEvent(c) \/ connectToHost(c) \/ incomingConnection(c)
               \/ close(c) \/ socketDisconnected(c)
        PROVE  LinkInv'
    BY <1>6, ReceiveKeeps, ClientEventKeeps, ConnectKeeps, IncomingKeeps, CloseKeeps,
       DisconnectedKeeps
  <1>7. ASSUME NEW c \in Clients, NEW n \in 1 .. Len(toClient[c]), ClientReads(c, n)
        PROVE  LinkInv'
    BY <1>7, ClientReadsKeeps
  <1>8. ASSUME NEW c \in Clients, NEW n \in 1 .. Len(toServer[c]), readyReadSocket(c, n)
        PROVE  LinkInv'
    BY <1>8, ServerReadsKeeps
  <1>9. ASSUME NEW c \in Clients, NEW length \in Lengths, NEW isWrite \in BOOLEAN,
               sendMessage(c, length, isWrite)
        PROVE  LinkInv'
    BY <1>9, SendKeeps
  <1>10. CASE UNCHANGED vars
    <2>1. UNCHANGED <<m_managerList, observing, running, posted, m_socketList, pending, serverBuf>>
          /\ UNCHANGED <<conn, clientPosted, clientBuf, m_msgList, toClient, toServer>>
          /\ UNCHANGED <<count, notified, broadcast, joined, got, wrote, pushed>>
      BY <1>10 DEF vars, serverVars, clientVars, streams, history
    <2>2. LinkTypeOK'
      BY <1>1, <2>1 DEF LinkTypeOK
    <2>3. HandlersInv'
      BY <1>1, <2>1, HandlersSame
    <2> QED BY <1>1, <2>1, <2>2, <2>3, ServerOnly
  <1> QED BY <1>2, <1>3, <1>4, <1>5, <1>6, <1>7, <1>8, <1>9, <1>10 DEF Next

\* The bytes of a client that is served make up what was broadcast since it came.
LEMMA NothingMissing ==
    ASSUME LinkInv
    PROVE  ClientMissesNothing
  <1> SUFFICES ASSUME NEW c \in Clients, conn[c] = "connected", Contains(m_socketList, c)
               PROVE  Bytes(got[c] \o m_msgList[c]) \o clientBuf[c] \o toClient[c]
                        = Bytes(SubSeq(broadcast, joined[c] + 1, Len(broadcast)))
    BY Zenon DEF ClientMissesNothing
  <1> DEFINE due == SubSeq(broadcast, joined[c] + 1, Len(broadcast))
             had == got[c] \o m_msgList[c]
             b == clientBuf[c]
             t == toClient[c]
  <1>1. LinkTypeOK /\ ClientInv(c) /\ IsSocket(c)
    BY ContainsRange DEF LinkInv, LinkTypeOK, IsSocket
  <1>2. PICK r \in Seq(Msg) : Ahead(due, had, r, b, t)
    BY <1>1 DEF ClientInv, Receives
  <1>3. had \in Seq(Msg) /\ b \in Seq(Byte) /\ t \in Seq(Byte)
    BY <1>1, ClientType, ConcatProperties
  <1> HIDE DEF due, had, b, t
  <1>4. due = had \o r /\ b \o t = Bytes(r)
    BY <1>2 DEF Ahead
  <1>5. Bytes(had \o r) = Bytes(had) \o Bytes(r)
    BY <1>3, BytesConcat
  <1> DEFINE h == Bytes(had)
  <1>6. h \in Seq(Byte) /\ Associates(Byte)
    BY <1>3, BytesType, Associative
  <1> HIDE DEF h
  <1>7. (h \o b) \o t = h \o (b \o t)
    BY <1>3, <1>6, Zenon DEF Associates, Regroups
  <1> QED BY <1>4, <1>5, <1>7, Zenon DEF due, had, b, t, h

\* The bytes of a connection make up what the client wrote.
LEMMA NothingUnwritten ==
    ASSUME LinkInv
    PROVE  WritesArriveInOrder
  <1> SUFFICES ASSUME NEW c \in Clients
               PROVE  /\ conn[c] = "connected" =>
                           Bytes(pushed[c]) \o serverBuf[c] \o toServer[c] \o Bytes(clientPosted[c])
                               = Bytes(wrote[c])
                      /\ conn[c] = "closed" => IsPrefix(pushed[c], wrote[c])
    BY DEF WritesArriveInOrder
  <1>1. LinkTypeOK /\ ClientInv(c)
    BY DEF LinkInv
  <1> DEFINE p == pushed[c]
             b == serverBuf[c]
             t == toServer[c]
  <1>2. p \in Seq(Msg) /\ b \in Seq(Byte) /\ t \in Seq(Byte)
    BY <1>1, ClientType
  <1>3. CASE conn[c] # "none"
    <2>1. PICK r \in Seq(Msg), q \in Seq(Msg) :
            /\ wrote[c] = p \o (r \o q) /\ b \o t = Bytes(r)
            /\ conn[c] = "connected" => q = clientPosted[c]
      BY <1>1, <1>3 DEF ClientInv, Writes
    <2> DEFINE k == r \o q
    <2>2. k \in Seq(Msg) /\ Bytes(k) = Bytes(r) \o Bytes(q)
      BY BytesConcat, ConcatProperties
    <2> HIDE DEF p, k
    <2>3. IsPrefix(p, p \o k)
      BY <1>2, <2>2, PrefixOfConcat
    <2>4. Bytes(p \o k) = Bytes(p) \o Bytes(k)
      BY <1>2, <2>2, BytesConcat
    <2> DEFINE h == Bytes(p)
               e == Bytes(q)
    <2>5. h \in Seq(Byte) /\ e \in Seq(Byte) /\ Associates(Byte)
      BY <1>2, BytesType, Associative
    <2> HIDE DEF h, e, b, t
    <2>6. ((h \o b) \o t) \o e = h \o ((b \o t) \o e)
      <3> DEFINE w == b \o t
      <3>1. (h \o b) \o t = h \o w
        BY <1>2, <2>5, Zenon DEF Associates, Regroups
      <3>2. w \in Seq(Byte)
        BY <1>2, ConcatProperties
      <3> HIDE DEF w
      <3>3. (h \o w) \o e = h \o (w \o e)
        BY <2>5, <3>2, Zenon DEF Associates, Regroups
      <3> QED BY <3>1, <3>3 DEF w
    <2>7. Bytes(wrote[c]) = h \o ((b \o t) \o e)
      BY <2>1, <2>2, <2>4, Zenon DEF h, e, k
    <2>8. conn[c] = "connected" => e = Bytes(clientPosted[c])
      BY <2>1 DEF e
    <2>9. IsPrefix(pushed[c], wrote[c])
      BY <2>1, <2>3, Zenon DEF p, k
    <2> QED BY <2>6, <2>7, <2>8, <2>9, Zenon DEF h, b, t, p
  <1> QED BY <1>3

\* From the handlers to the clients and back, nothing is lost, repeated or reordered:
\* the server of netvconsole and its clients, whatever the interleaving of threads and
\* event loops, the places where TCP cuts the bytes, and the clients that come and go.
THEOREM Exchanged == Spec => []ClientsExact
  <1>1. LinkInv => ClientsExact
    BY NothingMissing, NothingUnwritten DEF LinkInv, HandlersInv, ClientsExact, StreamsExact
  <1>2. LinkInv /\ [Next]_vars => LinkInv'
    BY LinkStep
  <1> QED BY <1>1, <1>2, InitLink, PTL DEF Spec

-----------------------------------------------------------------------------
(* SerialLink: bytes cut in frames.  A frame is as long as FrameLen says,  *)
(* one of Widths; Packets(w) are the runs of w bytes.                      *)

\* The elements of two sequences of bytes, one after the other.
LEMMA TwoParts ==
    ASSUME NEW a \in Seq(Nat), NEW b \in Seq(Nat)
    PROVE  /\ a \o b \in Seq(Nat) /\ Len(a \o b) = Len(a) + Len(b)
           /\ \A i \in 1 .. Len(a) : (a \o b)[i] = a[i]
           /\ \A i \in 1 .. Len(b) : (a \o b)[Len(a) + i] = b[i]
  <1>1. a \o b \in Seq(Nat) /\ Len(a \o b) = Len(a) + Len(b)
    BY ConcatIndex
  <1>2. \A i \in 1 .. Len(a) : (a \o b)[i] = a[i]
    BY ConcatIndex
  <1>3. \A i \in 1 .. Len(b) : (a \o b)[Len(a) + i] = b[i]
    BY ConcatIndex
  <1> QED BY <1>1, <1>2, <1>3

\* The lengths of frames, and frames of one length.
Widths == {3, 5}

LEMMA Wide == ASSUME NEW w \in Widths PROVE w \in Nat \ {0}
  BY DEF Widths

Packets(w) == {bytes \in Seq(Nat) : Len(bytes) = w}

LEMMA Strides ==
    ASSUME NEW w \in Widths, NEW n \in Nat
    PROVE  /\ n \div w \in Nat /\ (n < w => n \div w = 0)
           /\ (w + n) \div w = (n \div w) + 1
           /\ (n \div w) * w \in 0 .. n
           /\ n % w = 0 => (n \div w) * w = n
           /\ \A i \in 1 .. n \div w : (i - 1) * w \in Nat /\ i * w = (i - 1) * w + w /\ i * w <= n
  <1>1. CASE w = 3
    BY <1>1
  <1>2. CASE w = 5
    BY <1>2
  <1>3. w = 3 \/ w = 5
    BY DEF Widths
  <1> QED BY <1>1, <1>2, <1>3

\* What is cut is frames, and a rest.
LEMMA CutType ==
    ASSUME NEW w \in Widths, NEW bytes \in Seq(Nat)
    PROVE  /\ Cut(bytes, w) \in Seq(Packets(w)) /\ Len(Cut(bytes, w)) = Len(bytes) \div w
           /\ Rest(bytes, w) \in Seq(Nat)
           /\ Len(bytes) % w = 0 => Rest(bytes, w) = <<>>
  <1> DEFINE n == Len(bytes)
             k == n \div w
  <1>1. n \in Nat /\ w \in Nat
    BY Wide
  <1>2. k \in Nat /\ k * w \in 0 .. n
        /\ (n % w = 0 => k * w = n)
    BY <1>1, Strides
  <1>3. \A i \in 1 .. k : (i - 1) * w \in Nat /\ i * w = (i - 1) * w + w /\ i * w <= n
    BY <1>1, Strides
  <1>4. ASSUME NEW i \in 1 .. k
        PROVE  SubSeq(bytes, (i - 1) * w + 1, i * w) \in Packets(w)
    <2> DEFINE a == (i - 1) * w
               z == i * w
    <2>1. a \in Nat /\ z = a + w /\ z <= n
      BY <1>3
    <2> HIDE DEF a, z, n, k
    <2>2. a <= z /\ z \in Nat /\ z - a = w
      BY <1>1, <2>1
    <2>3. SubSeq(bytes, a + 1, z) \in Seq(Nat) /\ Len(SubSeq(bytes, a + 1, z)) = z - a
      BY <2>1, <2>2, PartOfSeq DEF n
    <2>4. SubSeq(bytes, a + 1, z) \in Packets(w)
      BY <2>2, <2>3 DEF Packets
    <2> QED BY <2>4 DEF a, z
  <1>5. Rest(bytes, w) \in Seq(Nat) /\ (k * w = n => Rest(bytes, w) = <<>>)
    <2> DEFINE a == k * w
    <2>1. a \in 0 .. n
      BY <1>2
    <2> HIDE DEF a
    <2>2. SubSeq(bytes, a + 1, n) \in Seq(Nat) /\ (a = n => SubSeq(bytes, a + 1, n) = <<>>)
      BY <1>1, <2>1
    <2> QED BY <2>2, Zenon DEF Rest, a, n, k
  <1> DEFINE cut == [i \in 1 .. k |-> SubSeq(bytes, (i - 1) * w + 1, i * w)]
  <1>6. cut \in Seq(Packets(w)) /\ Len(cut) = k
    <2> DEFINE P == Packets(w)
    <2>1. \A i \in 1 .. k : cut[i] \in P
      BY <1>4
    <2>2. cut = [i \in 1 .. k |-> cut[i]]
      OBVIOUS
    <2> HIDE DEF k, cut, P
    <2>3. cut \in Seq(P) /\ Len(cut) = k
      <3>1. k \in Nat
        BY <1>2, Zenon
      <3> QED BY <2>1, <2>2, <3>1
    <2> QED BY <2>3 DEF P
  <1>7. Cut(bytes, w) = cut
    BY Zenon DEF Cut
  <1> QED BY <1>2, <1>5, <1>6, <1>7

\* Nothing is cut from less than a frame.
LEMMA CutShort ==
    ASSUME NEW w \in Widths, NEW bytes \in Seq(Nat), Len(bytes) < w
    PROVE  Cut(bytes, w) = <<>> /\ Rest(bytes, w) = bytes
  <1>1. Len(bytes) \in Nat /\ Len(bytes) \div w = 0 /\ (Len(bytes) \div w) * w = 0
    <2> DEFINE n == Len(bytes)
    <2>1. n \in Nat /\ n < w /\ w \in Nat
      BY Wide
    <2> HIDE DEF n
    <2>2. n \div w = 0
      BY <2>1, Strides
    <2>3. 0 * w = 0
      BY <2>1
    <2> QED BY <2>1, <2>2, <2>3 DEF n
  <1>2. Cut(bytes, w) = <<>>
    <2>1. Cut(bytes, w) \in Seq(Packets(w)) /\ Len(Cut(bytes, w)) = 0
      BY <1>1, CutType
    <2> QED BY <2>1, EmptySeq
  <1>3. Rest(bytes, w) = SubSeq(bytes, 1, Len(bytes))
    <2>1. (Len(bytes) \div w) * w + 1 = 1
      BY <1>1
    <2> QED BY <2>1, Zenon DEF Rest
  <1> QED BY <1>2, <1>3, SubSeqFull

\* A frame in front is cut first.
LEMMA CutFirst ==
    ASSUME NEW w \in Widths, NEW e \in Packets(w), NEW b \in Seq(Nat)
    PROVE  Cut(e \o b, w) = <<e>> \o Cut(b, w) /\ Rest(e \o b, w) = Rest(b, w)
  <1> DEFINE u == e \o b
             n == Len(b)
             k == n \div w
  <1>1. e \in Seq(Nat) /\ Len(e) = w /\ n \in Nat /\ w \in Nat
    BY Wide DEF Packets
  <1>2. u \in Seq(Nat) /\ Len(u) = w + n
        /\ (\A i \in 1 .. w : u[i] = e[i]) /\ (\A i \in 1 .. n : u[w + i] = b[i])
    <2>1. u \in Seq(Nat) /\ Len(u) = Len(e) + Len(b)
          /\ (\A i \in 1 .. Len(e) : u[i] = e[i])
          /\ (\A i \in 1 .. Len(b) : u[Len(e) + i] = b[i])
      <3>1. e \o b \in Seq(Nat) /\ Len(e \o b) = Len(e) + Len(b)
        BY <1>1, ConcatIndex
      <3>2. \A i \in 1 .. Len(e) : (e \o b)[i] = e[i]
        BY <1>1, ConcatIndex
      <3>3. \A i \in 1 .. Len(b) : (e \o b)[Len(e) + i] = b[i]
        BY <1>1, ConcatIndex
      <3> QED BY <3>1, <3>2, <3>3
    <2> HIDE DEF u
    <2> QED BY <1>1, <2>1
  <1>3. Len(u) \div w = k + 1 /\ k \in Nat /\ k * w \in 0 .. n
    <2>1. (w + n) \div w = (n \div w) + 1 /\ n \div w \in Nat /\ (n \div w) * w \in 0 .. n
      BY <1>1, Strides
    <2> QED BY <1>2, <2>1, Zenon
  <1>4. \A i \in 1 .. k : (i - 1) * w \in Nat /\ i * w = (i - 1) * w + w /\ i * w <= n
    BY <1>1, Strides
  <1> DEFINE c == Cut(u, w)
             d == <<e>> \o Cut(b, w)
             P == Packets(w)
  <1>5. Cut(b, w) \in Seq(P) /\ Len(Cut(b, w)) = k /\ c \in Seq(P) /\ Len(c) = k + 1
    BY <1>2, <1>3, CutType
  <1>6. d \in Seq(P) /\ Len(d) = k + 1 /\ d[1] = e /\ \A i \in 1 .. k : d[1 + i] = Cut(b, w)[i]
    <2>1. <<e>> \in Seq(P) /\ Len(<<e>>) = 1 /\ <<e>>[1] = e
      OBVIOUS
    <2> DEFINE f == Cut(b, w)
    <2>2. f \in Seq(P) /\ Len(f) = k
      BY <1>5
    <2> HIDE DEF f, P, k
    <2>3. <<e>> \o f \in Seq(P) /\ Len(<<e>> \o f) = 1 + k /\ (<<e>> \o f)[1] = e
          /\ \A i \in 1 .. k : (<<e>> \o f)[1 + i] = f[i]
      BY <2>1, <2>2, ConcatIndex
    <2>4. 1 + k = k + 1
      BY <1>3
    <2> QED BY <2>3, <2>4, Zenon DEF f
  <1>7. c[1] = e
    <2>1. c[1] = SubSeq(u, (1 - 1) * w + 1, 1 * w)
      <3>1. 1 \in 1 .. Len(u) \div w
        BY <1>3
      <3> HIDE DEF u
      <3> QED BY <3>1, Zenon DEF Cut
    <2>2. (1 - 1) * w + 1 = 1 /\ 1 * w = w
      BY <1>1
    <2>3. SubSeq(u, 1, w) = e
      BY <1>1, <1>2
    <2> QED BY <2>1, <2>2, <2>3
  <1>8. ASSUME NEW i \in 1 .. k
        PROVE  c[1 + i] = Cut(b, w)[i]
    <2> DEFINE a == (i - 1) * w
    <2>1. a \in Nat /\ i * w = a + w /\ a + w <= n
      BY <1>4
    <2>2. ((1 + i) - 1) * w = w + a /\ (1 + i) * w = w + (a + w)
      BY <1>1, <2>1
    <2>3. c[1 + i] = SubSeq(u, ((1 + i) - 1) * w + 1, (1 + i) * w)
      <3>1. 1 + i \in 1 .. Len(u) \div w
        BY <1>3
      <3>2. \A j \in 1 .. Len(u) \div w : Cut(u, w)[j] = SubSeq(u, (j - 1) * w + 1, j * w)
        BY Zenon DEF Cut
      <3> DEFINE j == 1 + i
      <3> HIDE DEF u, j
      <3>3. Cut(u, w)[j] = SubSeq(u, (j - 1) * w + 1, j * w)
        BY <3>1, <3>2 DEF j
      <3> QED BY <3>3, Zenon DEF j
    <2>4. Cut(b, w)[i] = SubSeq(b, a + 1, a + w)
      <3>1. Cut(b, w)[i] = SubSeq(b, (i - 1) * w + 1, i * w)
        BY Zenon DEF Cut
      <3> QED BY <2>1, <3>1
    <2> HIDE DEF a, u, n, k, c
    <2>5. SubSeq(u, (w + a) + 1, w + (a + w)) = SubSeq(b, a + 1, a + w)
      <3>1. a + w \in Nat /\ a <= a + w /\ a + w <= Len(b)
        BY <1>1, <2>1 DEF n
      <3>2. SamePart(e, b, w, a, a + w)
        BY <1>1, <2>1, <3>1, PartBehind
      <3> QED BY <3>2, Zenon DEF SamePart, u
    <2> QED BY <2>2, <2>3, <2>4, <2>5
  <1>9. c = d
    <2> HIDE DEF c, d, P, k
    <2>1. \A i \in 1 .. k + 1 : i = 1 \/ \E j \in 1 .. k : i = 1 + j
      <3>1. \A i \in 1 .. k + 1 : i # 1 => i - 1 \in 1 .. k /\ i = 1 + (i - 1)
        BY <1>3
      <3> QED BY <3>1
    <2>2. \A i \in 1 .. k + 1 : c[i] = d[i]
      BY <1>6, <1>7, <1>8, <2>1
    <2> QED BY <1>5, <1>6, <2>2, SeqEqual
  <1>10. Rest(u, w) = Rest(b, w)
    <2> DEFINE a == k * w
    <2>1. (k + 1) * w = w + a /\ a \in 0 .. n
      BY <1>1, <1>3
    <2>2. Rest(u, w) = SubSeq(u, (w + a) + 1, w + n)
      BY <1>2, <1>3, <2>1, Zenon DEF Rest
    <2>3. Rest(b, w) = SubSeq(b, a + 1, n)
      BY Zenon DEF Rest
    <2> HIDE DEF a, k, u
    <2>4. SubSeq(u, (w + a) + 1, w + n) = SubSeq(b, a + 1, n)
      <3>1. a \in Nat /\ a <= n /\ n <= Len(b)
        BY <1>1, <2>1
      <3>2. SamePart(e, b, w, a, n)
        BY <1>1, <3>1, PartBehind
      <3> QED BY <3>2, Zenon DEF SamePart, u
    <2> QED BY <2>2, <2>3, <2>4
  <1> QED BY <1>9, <1>10

\* What is at the front of the bytes of some frames, when it is a frame long.
FrontIs(h, v, r, bytes, later, w) ==
    /\ h \in Packets(w) /\ v \in Seq(Packets(w)) /\ r \in Seq(Nat)
    /\ h = SubSeq(bytes, 1, w)
    /\ bytes = h \o r /\ r \o later = FlattenSeq(v)

LEMMA StreamFront ==
    ASSUME NEW w \in Widths, NEW bytes \in Seq(Nat), NEW later \in Seq(Nat),
           NEW s \in Seq(Packets(w)), bytes \o later = FlattenSeq(s), Len(bytes) >= w
    PROVE  /\ s # <<>>
           /\ FrontIs(Head(s), Tail(s), SubSeq(bytes, w + 1, Len(bytes)), bytes, later, w)
  <1>1. Len(bytes) \in Nat /\ Len(later) \in Nat /\ w \in Nat \ {0} /\ w \in 0 .. Len(bytes)
    BY Wide
  <1>2. s # <<>>
    <2> SUFFICES ASSUME s = <<>> PROVE FALSE
      OBVIOUS
    <2>1. bytes \o later = <<>>
      BY FlattenEmpty
    <2>2. Len(bytes \o later) = Len(bytes) + Len(later)
      BY ConcatProperties
    <2> QED BY <1>1, <2>1, <2>2
  <1> DEFINE P == Packets(w)
             h == Head(s)
             f == FlattenSeq(Tail(s))
             r == SubSeq(bytes, w + 1, Len(bytes))
             e == SubSeq(bytes, 1, w)
  <1>3. P \subseteq Seq(Nat) /\ \A x \in P : Len(x) = w
    BY DEF Packets
  <1>4. h \in P /\ Tail(s) \in Seq(P)
    BY <1>2
  <1> HIDE DEF P
  <1>5. s \in Seq(Seq(Nat)) /\ Tail(s) \in Seq(Seq(Nat))
    BY <1>3, <1>4, SeqMonotonic DEF P
  <1>6. f \in Seq(Nat) /\ h \in Seq(Nat) /\ Len(h) = w
    BY <1>3, <1>4, <1>5, FlattenType
  <1>7. bytes \o later = h \o f
    BY <1>2, <1>5, FlattenFirst
  <1> HIDE DEF h, f
  <1>8. r \o later = f
    BY <1>1, <1>6, <1>7, DropFront
  <1>9. e \in Seq(Nat) /\ r \in Seq(Nat) /\ e \o r = bytes
    BY <1>1, CutAnywhere
  <1>10. e = h
    <2>1. Len(e) = w /\ \A i \in 1 .. w : e[i] = bytes[i]
      BY <1>1
    <2>2. \A i \in 1 .. w : (bytes \o later)[i] = bytes[i]
      BY <1>1, ConcatIndex
    <2>3. \A i \in 1 .. w : (h \o f)[i] = h[i]
      BY <1>6, ConcatIndex
    <2>4. \A i \in 1 .. w : e[i] = h[i]
      BY <1>7, <2>1, <2>2, <2>3, Zenon
    <2> HIDE DEF e
    <2> QED BY <1>6, <1>9, <2>1, <2>4, SeqEqual
  <1> HIDE DEF e, r
  <1>11. bytes = h \o r
    BY <1>9, <1>10
  <1> QED BY <1>2, <1>4, <1>8, <1>9, <1>10, <1>11, Zenon DEF P, h, f, e, r, FrontIs

\* Some bytes of a stream are cut in its first frames, and what is left begins the
\* stream of the others.
Continues(frames, rest, later, s, w) ==
    \E others \in Seq(Packets(w)) :
        s = frames \o others /\ rest \o later = FlattenSeq(others)

LEMMA ContinuesShort ==
    ASSUME NEW w \in Widths, NEW b \in Seq(Nat), NEW later \in Seq(Nat),
           NEW t \in Seq(Packets(w)), b \o later = FlattenSeq(t), Len(b) < w
    PROVE  Continues(Cut(b, w), Rest(b, w), later, t, w)
  <1>1. Cut(b, w) = <<>> /\ Rest(b, w) = b
    BY CutShort
  <1>2. <<>> \o t = t
    BY ConcatEmptySeq
  <1> QED BY <1>1, <1>2, Zenon DEF Continues

\* A frame in front, when the rest of the stream is cut so.
LEMMA ContinuesLong ==
    ASSUME NEW w \in Widths, NEW b \in Seq(Nat), NEW later \in Seq(Nat),
           NEW t \in Seq(Packets(w)), b \o later = FlattenSeq(t), Len(b) >= w,
           \A v \in Seq(Packets(w)) : \A r \in Seq(Nat) :
               Len(v) = Len(t) - 1 /\ r \o later = FlattenSeq(v) =>
                   Continues(Cut(r, w), Rest(r, w), later, v, w)
    PROVE  Continues(Cut(b, w), Rest(b, w), later, t, w)
  <1> DEFINE P == Packets(w)
             h == Head(t)
             v == Tail(t)
             r == SubSeq(b, w + 1, Len(b))
  <1>1. /\ t # <<>> /\ h \in P /\ v \in Seq(P) /\ r \in Seq(Nat)
        /\ b = h \o r /\ r \o later = FlattenSeq(v)
    <2>1. t # <<>> /\ FrontIs(h, v, r, b, later, w)
      BY StreamFront, Zenon
    <2> QED BY <2>1 DEF FrontIs
  <1>2. Len(v) = Len(t) - 1 /\ t = <<h>> \o v
    BY <1>1
  <1> HIDE DEF h, v, r
  <1>3. Continues(Cut(r, w), Rest(r, w), later, v, w)
    BY <1>1, <1>2
  <1>4. PICK others \in Seq(P) : v = Cut(r, w) \o others /\ Rest(r, w) \o later = FlattenSeq(others)
    BY <1>3 DEF Continues
  <1> DEFINE c == Cut(r, w)
  <1>5. Cut(b, w) = <<h>> \o c /\ Rest(b, w) = Rest(r, w)
    BY <1>1, CutFirst
  <1>6. c \in Seq(P)
    BY <1>1, CutType
  <1> HIDE DEF c, P
  <1>7. <<h>> \in Seq(P)
    BY <1>1
  <1>8. (<<h>> \o c) \o others = <<h>> \o (c \o others)
    BY <1>6, <1>7, ConcatAssociative, SMTT(30)
  <1>9. t = Cut(b, w) \o others
    BY <1>2, <1>4, <1>5, <1>8, Zenon DEF c
  <1> QED BY <1>4, <1>5, <1>9, Zenon DEF Continues, P

LEMMA CutStream ==
    ASSUME NEW w \in Widths, NEW bytes \in Seq(Nat), NEW later \in Seq(Nat),
           NEW s \in Seq(Packets(w)), bytes \o later = FlattenSeq(s)
    PROVE  Continues(Cut(bytes, w), Rest(bytes, w), later, s, w)
  <1> DEFINE S == Seq(Packets(w))
             Holds(b, t) == b \o later = FlattenSeq(t) =>
                               Continues(Cut(b, w), Rest(b, w), later, t, w)
             Q == {n \in Nat : \A t \in S : \A b \in Seq(Nat) : Len(t) = n => Holds(b, t)}
  <1>1. ASSUME NEW n \in Nat, NEW t \in S, NEW b \in Seq(Nat), Len(t) = n,
               \A v \in S : \A r \in Seq(Nat) : Len(v) = n - 1 => Holds(r, v)
        PROVE  Holds(b, t)
    <2> SUFFICES ASSUME b \o later = FlattenSeq(t)
                 PROVE  Continues(Cut(b, w), Rest(b, w), later, t, w)
      OBVIOUS
    <2>1. CASE Len(b) < w
      BY <2>1, ContinuesShort, Zenon
    <2>2. CASE Len(b) >= w
      BY <1>1, <2>2, ContinuesLong, Zenon
    <2>3. Len(b) < w \/ Len(b) >= w
      <3>1. Len(b) \in Nat /\ w \in Nat
        BY Wide
      <3> QED BY <3>1
    <2> QED BY <2>1, <2>2, <2>3
  <1> HIDE DEF Holds
  <1>2. \A v \in S : Len(v) \in Nat
    OBVIOUS
  <1> HIDE DEF S
  <1>3. 0 \in Q
    <2>1. \A v \in S : Len(v) # 0 - 1
      BY <1>2
    <2>2. \A t \in S : \A b \in Seq(Nat) : Len(t) = 0 => Holds(b, t)
      BY <1>1, <2>1
    <2> QED BY <2>2
  <1>4. ASSUME NEW n \in Nat, n \in Q
        PROVE  n + 1 \in Q
    <2>1. \A v \in S : \A r \in Seq(Nat) : Len(v) = (n + 1) - 1 => Holds(r, v)
      BY <1>4
    <2>2. n + 1 \in Nat
      OBVIOUS
    <2>3. \A t \in S : \A b \in Seq(Nat) : Len(t) = n + 1 => Holds(b, t)
      BY <1>1, <2>1, <2>2
    <2> QED BY <2>2, <2>3
  <1>5. Nat \subseteq Q
    <2> HIDE DEF Q
    <2> QED BY <1>3, <1>4, NatSetInduction
  <1>6. s \in S /\ Len(s) \in Nat
    BY <1>2 DEF S
  <1>7. Holds(bytes, s)
    BY <1>5, <1>6
  <1> QED BY <1>7 DEF Holds
-----------------------------------------------------------------------------
(* The loop of the board.                                                  *)

LEMMA FrameLength ==
    FrameLen \in Widths /\ (device = "emulator" => FrameLen = 5) /\ (device # "emulator" => FrameLen = 3)
  BY DEF FrameLen, Widths

\* What the loop of transceiver gives from a position, and where it goes on.
FrameAt(bytes, p) == SubSeq(bytes, p + 1, p + FrameLen)
Skipped(bytes, p) == Min({p + FrameLen + 1, Len(bytes)})

Scanned(bytes, from, p) ==
    IF Len(bytes) - p < FrameLen
    THEN [rest |-> SubSeq(bytes, p + 1, Len(bytes)), frames |-> <<>>]
    ELSE IF bytes[p + 1] # Start THEN from[p + 1]
    ELSE IF ~Valid(FrameAt(bytes, p)) THEN from[Skipped(bytes, p)]
    ELSE [rest |-> from[p + FrameLen].rest,
          frames |-> <<FrameAt(bytes, p)>> \o from[p + FrameLen].frames]

LEMMA FurtherOn ==
    ASSUME NEW bytes \in Seq(Nat), NEW p \in 0 .. Len(bytes), ~(Len(bytes) - p < FrameLen)
    PROVE  /\ p + 1 \in p + 1 .. Len(bytes) /\ p + FrameLen \in p + 1 .. Len(bytes)
           /\ Skipped(bytes, p) \in p + 1 .. Len(bytes)
  <1>1. FrameLen \in Nat \ {0} /\ Len(bytes) \in Nat
    BY FrameLength, Wide
  <1>2. p + 1 \in p + 1 .. Len(bytes) /\ p + FrameLen \in p + 1 .. Len(bytes)
    BY <1>1
  <1> DEFINE I == {p + FrameLen + 1, Len(bytes)}
  <1>3. I \in SUBSET Nat /\ I # {} /\ \A i \in I : i = Len(bytes) \/ i >= p + 1
    BY <1>1
  <1>4. Min(I) \in I /\ Min(I) <= Len(bytes)
    BY <1>3, MinOfNats
  <1>5. Min(I) \in p + 1 .. Len(bytes)
    BY <1>1, <1>3, <1>4
  <1> QED BY <1>2, <1>5, Zenon DEF Skipped

\* The recursive function in transceiver is what its definition says.
LEMMA ScanFunction ==
    ASSUME NEW bytes \in Seq(Nat)
    PROVE  \E from : /\ \A p \in 0 .. Len(bytes) : from[p] = Scanned(bytes, from, p)
                     /\ transceiver(bytes) = from[0]
  <1> DEFINE L == Len(bytes)
             Loop(n, f) == f = [p \in L - n .. L |-> Scanned(bytes, f, p)]
             Q == {n \in Nat : n <= L => \E f : Loop(n, f)}
  <1>0. L \in Nat
    OBVIOUS
  <1>1. 0 \in Q
    <2> DEFINE last == [rest |-> SubSeq(bytes, L + 1, L), frames |-> <<>>]
               f == [p \in {L} |-> last]
    <2>1. L - 0 .. L = {L}
      BY <1>0
    <2>2. L - L < FrameLen
      BY <1>0, FrameLength, Wide
    <2>3. \A p \in {L} : Scanned(bytes, f, p) = last
      BY <2>2, Zenon DEF Scanned
    <2>4. f = [p \in {L} |-> Scanned(bytes, f, p)]
      BY <2>3
    <2>5. Loop(0, f)
      BY <2>1, <2>4, Zenon
    <2> QED BY <2>5
  <1>2. ASSUME NEW n \in Nat, n \in Q
        PROVE  n + 1 \in Q
    <2> SUFFICES ASSUME n + 1 <= L
                 PROVE  \E f : Loop(n + 1, f)
      OBVIOUS
    <2>1. PICK f : Loop(n, f)
      BY <1>0, <1>2
    <2> DEFINE q == L - (n + 1)
               g == [p \in q .. L |-> IF p = q THEN Scanned(bytes, f, p) ELSE f[p]]
    <2>2. q \in 0 .. L /\ \A p : p \in q .. L <=> p = q \/ p \in L - n .. L
      BY <1>0
    <2>3. ASSUME NEW p \in q .. L
          PROVE  Scanned(bytes, g, p) = Scanned(bytes, f, p)
      <3>1. p \in 0 .. L
        BY <2>2
      <3>2. \A k \in p + 1 .. L : g[k] = f[k]
        <4>1. \A k \in p + 1 .. L : k \in q .. L /\ k # q
          BY <2>2
        <4> HIDE DEF q
        <4> QED BY <4>1, Zenon
      <3>3. CASE Len(bytes) - p < FrameLen
        BY <3>3, Zenon DEF Scanned
      <3>4. CASE ~(Len(bytes) - p < FrameLen)
        <4>1. p + 1 \in p + 1 .. L /\ p + FrameLen \in p + 1 .. L /\ Skipped(bytes, p) \in p + 1 .. L
          BY <3>1, <3>4, FurtherOn
        <4>2. g[p + 1] = f[p + 1] /\ g[p + FrameLen] = f[p + FrameLen]
              /\ g[Skipped(bytes, p)] = f[Skipped(bytes, p)]
          BY <3>2, <4>1, Zenon
        <4> HIDE DEF g
        <4> QED BY <4>2, Zenon DEF Scanned
      <3> QED BY <3>3, <3>4
    <2>4. ASSUME NEW p \in q .. L
          PROVE  g[p] = Scanned(bytes, g, p)
      <3>1. CASE p = q
        BY <2>3, <3>1, Zenon
      <3>2. CASE p # q
        <4>1. p \in L - n .. L
          BY <2>2, <3>2
        <4>2. f[p] = Scanned(bytes, f, p)
          BY <2>1, <4>1, Zenon
        <4>3. g[p] = f[p]
          BY <3>2, Zenon
        <4> QED BY <2>3, <4>2, <4>3, Zenon
      <3> QED BY <3>1, <3>2
    <2>5. g = [p \in q .. L |-> Scanned(bytes, g, p)]
      <3>1. g = [p \in q .. L |-> g[p]]
        OBVIOUS
      <3> HIDE DEF g, q, L
      <3> QED BY <2>4, <3>1, Zenon
    <2>6. Loop(n + 1, g)
      BY <2>5, Zenon
    <2> QED BY <2>6
  <1>3. \E f : Loop(L, f)
    <2>1. Nat \subseteq Q
      <3> HIDE DEF Q
      <3> QED BY <1>1, <1>2, NatSetInduction
    <2>2. L \in Q
      BY <1>0, <2>1
    <2> HIDE DEF Loop
    <2> QED BY <1>0, <2>2
  <1>4. \A f : Loop(L, f) <=> f = [p \in 0 .. L |-> Scanned(bytes, f, p)]
    <2>1. L - L = 0
      BY <1>0
    <2> QED BY <2>1
  <1> DEFINE from == CHOOSE f : f = [p \in 0 .. L |-> Scanned(bytes, f, p)]
  <1>5. from = [p \in 0 .. L |-> Scanned(bytes, from, p)]
    BY <1>3, <1>4, Zenon
  <1>6. transceiver(bytes) = from[0]
    BY Zenon DEF transceiver, Scanned, FrameAt, Skipped
  <1>7. \A p \in 0 .. L : from[p] = Scanned(bytes, from, p)
    BY <1>5, Zenon
  <1> QED BY <1>6, <1>7, Zenon

\* The bytes from a position on.
OnFrom(bytes, p) == SubSeq(bytes, p + 1, Len(bytes))

LEMMA OnFromProperties ==
    ASSUME NEW bytes \in Seq(Nat), NEW p \in 0 .. Len(bytes)
    PROVE  /\ OnFrom(bytes, p) \in Seq(Nat) /\ Len(OnFrom(bytes, p)) = Len(bytes) - p
           /\ \A k \in 0 .. Len(bytes) - p :
                 /\ SubSeq(OnFrom(bytes, p), 1, k) = SubSeq(bytes, p + 1, p + k)
                 /\ SubSeq(OnFrom(bytes, p), k + 1, Len(OnFrom(bytes, p))) = OnFrom(bytes, p + k)
           /\ p < Len(bytes) => OnFrom(bytes, p)[1] = bytes[p + 1]
  <1> DEFINE b == OnFrom(bytes, p)
             e == SubSeq(bytes, 1, p)
             L == Len(bytes)
  <1>1. L \in Nat /\ p \in Nat /\ p <= L
    OBVIOUS
  <1>2. b \in Seq(Nat) /\ Len(b) = L - p /\ \A j \in 1 .. L - p : b[j] = bytes[p + j]
    <2>1. b = SubSeq(bytes, p + 1, L) /\ L \in Nat /\ L <= Len(bytes)
      BY <1>1 DEF OnFrom
    <2> HIDE DEF b, L
    <2>2. b \in Seq(Nat) /\ Len(b) = L - p
      BY <1>1, <2>1, PartOfSeq, SMTT(30)
    <2>3. \A j \in 1 .. L - p : b[j] = bytes[p + j]
      BY <1>1, <2>1, PartOfSeq, SMTT(30)
    <2> QED BY <2>2, <2>3
  <1>3. e \in Seq(Nat) /\ Len(e) = p /\ e \o b = bytes
    <2>1. e \in Seq(Nat) /\ e \o b = bytes
      BY <1>1, CutAnywhere DEF OnFrom
    <2>2. Len(e) = p
      BY <1>1
    <2> QED BY <2>1, <2>2
  <1> HIDE DEF e, b
  <1>4. ASSUME NEW k \in 0 .. L - p
        PROVE  /\ SubSeq(b, 1, k) = SubSeq(bytes, p + 1, p + k)
               /\ SubSeq(b, k + 1, Len(b)) = OnFrom(bytes, p + k)
    <2>1. k \in Nat /\ k <= Len(b) /\ Len(b) \in Nat /\ 0 <= k /\ 0 \in Nat /\ Len(b) <= Len(b)
      BY <1>1, <1>2
    <2>2. SamePart(e, b, p, 0, k) /\ SamePart(e, b, p, k, Len(b))
      BY <1>1, <1>2, <1>3, <2>1, PartBehind
    <2>3. /\ SubSeq(e \o b, (p + 0) + 1, p + k) = SubSeq(b, 0 + 1, k)
          /\ SubSeq(e \o b, (p + k) + 1, p + Len(b)) = SubSeq(b, k + 1, Len(b))
      BY <2>2, Zenon DEF SamePart
    <2>4. SubSeq(bytes, p + 1, p + k) = SubSeq(b, 1, k)
      <3>1. (p + 0) + 1 = p + 1 /\ 0 + 1 = 1
        BY <1>1
      <3> QED BY <1>3, <2>3, <3>1, Zenon
    <2>5. SubSeq(bytes, (p + k) + 1, L) = SubSeq(b, k + 1, Len(b))
      <3>1. p + Len(b) = L
        BY <1>1, <1>2
      <3> QED BY <1>3, <2>3, <3>1, Zenon
    <2> QED BY <2>4, <2>5, Zenon DEF OnFrom
  <1>5. p < L => b[1] = bytes[p + 1]
    BY <1>1, <1>2
  <1> QED BY <1>2, <1>4, <1>5 DEF b

\* The board takes frames, whatever is on the line.
LEMMA TakenType ==
    ASSUME NEW bytes \in Seq(Nat)
    PROVE  /\ transceiver(bytes).rest \in Seq(Nat)
           /\ transceiver(bytes).frames \in Seq(Packets(FrameLen))
  <1> DEFINE L == Len(bytes)
             P == Packets(FrameLen)
  <1>1. PICK from : /\ \A p \in 0 .. L : from[p] = Scanned(bytes, from, p)
                    /\ transceiver(bytes) = from[0]
    BY ScanFunction
  <1>2. L \in Nat /\ FrameLen \in Nat \ {0}
    BY FrameLength, Wide
  <1> DEFINE T == {p \in 0 .. L : from[p].rest \in Seq(Nat) /\ from[p].frames \in Seq(P)}
  <1>3. ASSUME NEW p \in 0 .. L, \A q \in p + 1 .. L : q \in T
        PROVE  p \in T
    <2>1. CASE L - p < FrameLen
      <3>1. from[p] = [rest |-> OnFrom(bytes, p), frames |-> <<>>]
        BY <1>1, <2>1, Zenon DEF Scanned, OnFrom
      <3>2. OnFrom(bytes, p) \in Seq(Nat)
        BY OnFromProperties
      <3> HIDE DEF P
      <3>3. from[p].rest = OnFrom(bytes, p) /\ from[p].frames = <<>>
        BY <3>1
      <3>4. <<>> \in Seq(P)
        BY EmptySeq
      <3> QED BY <3>2, <3>3, <3>4, Zenon
    <2>2. CASE ~(L - p < FrameLen)
      <3>1. /\ p + 1 \in T /\ p + FrameLen \in T /\ Skipped(bytes, p) \in T
        BY <1>3, <2>2, FurtherOn
      <3>2. CASE bytes[p + 1] # Start
        <4>1. from[p] = from[p + 1]
          BY <1>1, <2>2, <3>2, Zenon DEF Scanned
        <4> QED BY <3>1, <4>1
      <3>3. CASE bytes[p + 1] = Start /\ ~Valid(FrameAt(bytes, p))
        <4>1. from[p] = from[Skipped(bytes, p)]
          BY <1>1, <2>2, <3>3, Zenon DEF Scanned
        <4> QED BY <3>1, <4>1
      <3>4. CASE bytes[p + 1] = Start /\ Valid(FrameAt(bytes, p))
        <4> DEFINE f == FrameAt(bytes, p)
                   then == from[p + FrameLen]
        <4>1. from[p] = [rest |-> then.rest, frames |-> <<f>> \o then.frames]
          BY <1>1, <2>2, <3>4, Zenon DEF Scanned
        <4>2. f \in P
          <5>1. p \in Nat /\ p + FrameLen \in Nat /\ p <= p + FrameLen /\ p + FrameLen <= Len(bytes)
                /\ (p + FrameLen) - p = FrameLen
            BY <1>2, <2>2
          <5>2. f \in Seq(Nat) /\ Len(f) = (p + FrameLen) - p
            BY <5>1, PartOfSeq DEF FrameAt
          <5> QED BY <5>1, <5>2 DEF Packets
        <4>3. then.rest \in Seq(Nat) /\ then.frames \in Seq(P)
          BY <3>1
        <4> HIDE DEF f, then, P
        <4>4. <<f>> \in Seq(P)
          BY <4>2
        <4>5. <<f>> \o then.frames \in Seq(P)
          BY <4>3, <4>4, ConcatProperties
        <4>6. from[p].rest = then.rest /\ from[p].frames = <<f>> \o then.frames
          BY <4>1
        <4> QED BY <4>3, <4>5, <4>6, Zenon
      <3> QED BY <3>2, <3>3, <3>4
    <2> QED BY <2>1, <2>2
  <1>4. 0 .. L \subseteq T
    <2> HIDE DEF T
    <2> QED BY <1>2, <1>3, Backwards
  <1>5. 0 \in T
    BY <1>2, <1>4
  <1> QED BY <1>1, <1>5

\* Frames as the programs send them.
Good == {bytes \in Packets(5) : Valid(bytes)}

\* From bytes that begin a stream of such frames the board takes the whole ones.
LEMMA TakenExactly ==
    ASSUME NEW bytes \in Seq(Nat), NEW later \in Seq(Nat), NEW stream \in Seq(Good),
           FrameLen = 5, bytes \o later = FlattenSeq(stream)
    PROVE  transceiver(bytes) = [rest |-> Rest(bytes, 5), frames |-> Cut(bytes, 5)]
  <1> DEFINE L == Len(bytes)
             Whole(b) == [rest |-> Rest(b, 5), frames |-> Cut(b, 5)]
  <1>1. PICK from : /\ \A p \in 0 .. L : from[p] = Scanned(bytes, from, p)
                    /\ transceiver(bytes) = from[0]
    BY ScanFunction
  <1>2. L \in Nat /\ 5 \in Widths
    BY DEF Widths
  <1> DEFINE Holds(p) == \A s \in Seq(Good) :
                            OnFrom(bytes, p) \o later = FlattenSeq(s) =>
                                from[p] = Whole(OnFrom(bytes, p))
             T == {p \in 0 .. L : Holds(p)}
  <1>3. Good \subseteq Packets(5)
    BY DEF Good
  <1>4. ASSUME NEW p \in 0 .. L, \A q \in p + 1 .. L : q \in T
        PROVE  p \in T
    <2> SUFFICES ASSUME NEW s \in Seq(Good), OnFrom(bytes, p) \o later = FlattenSeq(s)
                 PROVE  from[p] = Whole(OnFrom(bytes, p))
      OBVIOUS
    <2> DEFINE b == OnFrom(bytes, p)
    <2>1. /\ b \in Seq(Nat) /\ Len(b) = L - p
          /\ \A k \in 0 .. L - p :
                /\ SubSeq(b, 1, k) = SubSeq(bytes, p + 1, p + k)
                /\ SubSeq(b, k + 1, Len(b)) = OnFrom(bytes, p + k)
          /\ p < L => b[1] = bytes[p + 1]
      BY OnFromProperties
    <2>2. CASE L - p < FrameLen
      <3>1. from[p] = [rest |-> b, frames |-> <<>>]
        BY <1>1, <2>2, Zenon DEF Scanned, OnFrom
      <3>2. Cut(b, 5) = <<>> /\ Rest(b, 5) = b
        BY <1>2, <2>1, <2>2, CutShort
      <3> QED BY <3>1, <3>2, Zenon
    <2>3. CASE ~(L - p < FrameLen)
      <3> DEFINE h == Head(s)
                 v == Tail(s)
                 r == OnFrom(bytes, p + 5)
      <3>1. 5 \in 0 .. L - p /\ p + 5 \in p + 1 .. L /\ p < L /\ Len(b) >= 5
        <4>1. PICK l \in Nat : l = L
          BY <1>2
        <4>2. p \in 0 .. l /\ l - p >= 5
          BY <2>3, <4>1, FrameLen = 5
        <4>3. 5 \in 0 .. l - p /\ p + 5 \in p + 1 .. l /\ p < l
          BY <4>2
        <4>4. Len(b) = l - p
          BY <2>1, <4>1
        <4> QED BY <4>1, <4>2, <4>3, <4>4
      <3>2. s \in Seq(Packets(5))
        BY <1>3, SeqMonotonic
      <3>3. s # <<>> /\ FrontIs(h, v, SubSeq(b, 5 + 1, Len(b)), b, later, 5)
        BY <1>2, <2>1, <3>1, <3>2, StreamFront, Zenon
      <3>4. SubSeq(b, 5 + 1, Len(b)) = r /\ SubSeq(b, 1, 5) = SubSeq(bytes, p + 1, p + 5)
        BY <2>1, <3>1
      <3>5. h \in Good /\ v \in Seq(Good)
        BY <3>3
      <3> HIDE DEF b, h, v, r
      <3>6. h \in Packets(5) /\ r \in Seq(Nat) /\ h = SubSeq(b, 1, 5) /\ b = h \o r
            /\ r \o later = FlattenSeq(v)
        BY <3>3, <3>4, Zenon DEF FrontIs
      <3>7. h = FrameAt(bytes, p)
        BY <3>4, <3>6 DEF FrameAt
      <3>8. Valid(h) /\ h[1] = Start
        BY <3>5 DEF Good, Valid
      <3>9. bytes[p + 1] = Start
        <4>1. SubSeq(b, 1, 5)[1] = b[1]
          BY <2>1, <3>1
        <4> QED BY <2>1, <3>1, <3>6, <3>8, <4>1
      <3>10. from[p] = [rest |-> from[p + 5].rest, frames |-> <<h>> \o from[p + 5].frames]
        BY <1>1, <2>3, <3>7, <3>8, <3>9, Zenon DEF Scanned
      <3>11. from[p + 5] = Whole(r)
        <4>1. Holds(p + 5)
          BY <1>4, <3>1
        <4> QED BY <3>5, <3>6, <4>1, Zenon DEF r
      <3>12. from[p] = [rest |-> Rest(r, 5), frames |-> <<h>> \o Cut(r, 5)]
        BY <3>10, <3>11
      <3>13. Cut(b, 5) = <<h>> \o Cut(r, 5) /\ Rest(b, 5) = Rest(r, 5)
        BY <1>2, <3>6, CutFirst
      <3> QED BY <3>12, <3>13, Zenon DEF b
    <2> QED BY <2>2, <2>3
  <1>5. 0 .. L \subseteq T
    <2> HIDE DEF T
    <2> QED BY <1>2, <1>4, Backwards
  <1>6. Holds(0)
    <2>1. 0 \in 0 .. L
      BY <1>2
    <2> QED BY <1>5, <2>1, Zenon
  <1>7. OnFrom(bytes, 0) = bytes
    BY SubSeqFull DEF OnFrom
  <1>8. from[0] = Whole(bytes)
    BY <1>6, <1>7
  <1> QED BY <1>1, <1>8
-----------------------------------------------------------------------------
(* The host.                                                               *)

LEMMA DropType ==
    ASSUME NEW bytes \in Seq(Nat)
    PROVE  /\ DropToStart(bytes) \in Seq(Nat)
           /\ bytes = <<>> \/ bytes[1] = Start => DropToStart(bytes) = bytes
  <1> DEFINE starts == {i \in DOMAIN bytes : bytes[i] = Start}
  <1>1. starts \in SUBSET (1 .. Len(bytes)) /\ Len(bytes) \in Nat
    OBVIOUS
  <1>2. CASE starts = {}
    <2>1. DropToStart(bytes) = <<>>
      BY <1>2, Zenon DEF DropToStart
    <2>2. bytes = <<>> \/ bytes[1] = Start => bytes = <<>>
      <3>1. bytes # <<>> => 1 \in DOMAIN bytes
        OBVIOUS
      <3> QED BY <1>2, <3>1
    <2>3. <<>> \in Seq(Nat)
      BY EmptySeq
    <2> QED BY <2>1, <2>2, <2>3, Zenon
  <1>3. CASE starts # {}
    <2> DEFINE m == Min(starts)
    <2>1. starts \in SUBSET Nat
      BY <1>1
    <2>2. m \in starts /\ \A i \in starts : m <= i
      BY <1>3, <2>1, MinOfNats
    <2>3. DropToStart(bytes) = SubSeq(bytes, m, Len(bytes))
      BY <1>3, Zenon DEF DropToStart
    <2>4. m \in 1 .. Len(bytes)
      BY <1>1, <2>2
    <2>5. bytes = <<>> \/ bytes[1] = Start => m = 1
      <3>1. bytes # <<>>
        BY <1>1, <1>3
      <3>2. bytes[1] = Start => 1 \in starts
        BY <3>1
      <3> HIDE DEF starts, m
      <3>3. bytes[1] = Start => m <= 1
        BY <2>2, <3>2
      <3> QED BY <2>4, <3>1, <3>3
    <2> HIDE DEF m, starts
    <2>6. SubSeq(bytes, m, Len(bytes)) \in Seq(Nat)
      BY <1>1, <2>4
    <2>7. SubSeq(bytes, 1, Len(bytes)) = bytes
      BY SubSeqFull
    <2> QED BY <2>3, <2>5, <2>6, <2>7, Zenon
  <1> QED BY <1>2, <1>3

LEMMA ReadType ==
    ASSUME NEW bytes \in Seq(Nat)
    PROVE  /\ EmulatorReads(bytes).rest \in Seq(Nat)
           /\ EmulatorReads(bytes).frames \in Seq(Packets(FrameLen))
           /\ BridgeReads(bytes).rest \in Seq(Nat)
           /\ BridgeReads(bytes).frames \in Seq(Packets(FrameLen))
  <1> DEFINE P == Packets(FrameLen)
             d == DropToStart(bytes)
             c == Cut(d, FrameLen)
             T == {b \in Range(c) : Valid(b)}
  <1>1. FrameLen \in Widths
    BY FrameLength
  <1>2. d \in Seq(Nat)
    BY DropType
  <1> HIDE DEF d
  <1>3. c \in Seq(P) /\ Rest(d, FrameLen) \in Seq(Nat)
    BY <1>1, <1>2, CutType
  <1>4. Cut(bytes, FrameLen) \in Seq(P) /\ Rest(bytes, FrameLen) \in Seq(Nat)
    BY <1>1, CutType
  <1> HIDE DEF c, P, T
  <1>5. Only(c, T) \in Seq(P)
    BY <1>3, OnlyRange
  <1>6. OnlyValid(c) = Only(c, T)
    BY Zenon DEF OnlyValid, T
  <1>7. EmulatorReads(bytes) = [rest |-> Rest(d, FrameLen), frames |-> OnlyValid(c)]
    BY Zenon DEF EmulatorReads, c, d
  <1>8. EmulatorReads(bytes).rest = Rest(d, FrameLen) /\ EmulatorReads(bytes).frames = OnlyValid(c)
    BY <1>7
  <1>9. BridgeReads(bytes).rest = Rest(bytes, FrameLen)
        /\ BridgeReads(bytes).frames = Cut(bytes, FrameLen)
    BY DEF BridgeReads
  <1> QED BY <1>3, <1>4, <1>5, <1>6, <1>8, <1>9, Zenon DEF P

\* From bytes that begin a stream of good frames SerialEmulator takes the whole ones.
LEMMA ReadExactly ==
    ASSUME NEW bytes \in Seq(Nat), NEW later \in Seq(Nat), NEW stream \in Seq(Good),
           FrameLen = 5, bytes \o later = FlattenSeq(stream)
    PROVE  EmulatorReads(bytes) = [rest |-> Rest(bytes, 5), frames |-> Cut(bytes, 5)]
  <1> DEFINE c == Cut(bytes, 5)
             P == Packets(5)
             T == {b \in Range(c) : Valid(b)}
  <1>1. 5 \in Widths /\ Good \subseteq P /\ Len(bytes) \in Nat
    BY DEF Widths, Good
  <1>2. stream \in Seq(P) /\ c \in Seq(P)
    BY <1>1, SeqMonotonic, CutType
  <1>3. DropToStart(bytes) = bytes
    <2>1. CASE stream = <<>>
      <3>1. bytes \o later = <<>>
        BY <2>1, FlattenEmpty
      <3>2. bytes = <<>>
        BY <3>1, ConcatEqualIffEmpty
      <3> QED BY <3>2, DropType
    <2>2. CASE stream # <<>>
      <3> DEFINE h == Head(stream)
                 f == FlattenSeq(Tail(stream))
      <3>1. P \subseteq Seq(Nat)
        BY DEF Packets
      <3>2. stream \in Seq(Seq(Nat)) /\ Tail(stream) \in Seq(Seq(Nat))
        <4>1. Tail(stream) \in Seq(P)
          BY <1>2, <2>2
        <4> HIDE DEF P
        <4> QED BY <1>2, <3>1, <4>1, SeqMonotonic
      <3>3. bytes \o later = h \o f /\ f \in Seq(Nat)
        BY <2>2, <3>2, FlattenFirst, FlattenType
      <3>4. h \in Good
        BY <2>2
      <3>5. h \in Seq(Nat) /\ Len(h) = 5 /\ h[1] = Start
        BY <3>4 DEF Good, Packets, Valid
      <3> HIDE DEF h, f
      <3>6. (h \o f)[1] = Start
        <4>1. \A i \in 1 .. Len(h) : (h \o f)[i] = h[i]
          BY <3>3, <3>5, TwoParts, Zenon
        <4>2. 1 \in 1 .. Len(h)
          BY <3>5
        <4> QED BY <3>5, <4>1, <4>2
      <3>7. bytes # <<>> => (bytes \o later)[1] = bytes[1]
        OBVIOUS
      <3>8. bytes = <<>> \/ bytes[1] = Start
        BY <3>3, <3>6, <3>7, Zenon
      <3> QED BY <3>8, DropType
    <2> QED BY <2>1, <2>2
  <1>4. Range(c) \subseteq T
    <2>1. PICK others \in Seq(P) : stream = c \o others
      <3>1. Continues(c, Rest(bytes, 5), later, stream, 5)
        BY <1>1, <1>2, CutStream, Zenon
      <3> QED BY <3>1 DEF Continues
    <2>2. Range(stream) = Range(c) \cup Range(others)
      <3> HIDE DEF c, P
      <3> QED BY <1>2, <2>1, RangeConcat
    <2>3. Range(stream) \subseteq Good
      BY InRange
    <2> QED BY <2>2, <2>3 DEF Good
  <1>5. Only(c, T) = c
    <2> HIDE DEF c, P, T
    <2> QED BY <1>2, <1>4, OnlyAll
  <1>6. OnlyValid(c) = c
    BY <1>5, Zenon DEF OnlyValid
  <1> QED BY <1>3, <1>6, Zenon DEF EmulatorReads
-----------------------------------------------------------------------------
(* Messages and their frames.                                              *)

Triples == Packets(3)
Boxed   == Packets(FrameLen)

\* The bytes of a frame between START_BYTE and the checksum.
LEMMA MiddleOfFive ==
    ASSUME NEW f \in Seq(Nat), Len(f) = 5
    PROVE  /\ SubSeq(f, 2, 4) \in Seq(Nat) /\ Len(SubSeq(f, 2, 4)) = 3
           /\ \A i \in 1 .. 3 : SubSeq(f, 2, 4)[i] = f[1 + i]
  <1>1. \A i \in 2 .. 4 : f[i] \in Nat
    <2>1. \A i \in 1 .. Len(f) : f[i] \in Nat
      BY ElementOfSeq
    <2>2. \A i \in 2 .. 4 : i \in 1 .. 5
      OBVIOUS
    <2> QED BY <2>1, <2>2, Zenon
  <1> DEFINE g == SubSeq(f, 2, 4)
  <1>2. g \in Seq(Nat)
    BY <1>1, SubSeqProperties
  <1>3. Len(g) = 3
    BY <1>1, SubSeqProperties
  <1>4. \A i \in 1 .. (4 - 2) + 1 : g[i] = f[(2 + i) - 1]
    BY <1>1, SubSeqProperties
  <1> HIDE DEF g
  <1>5. (4 - 2) + 1 = 3 /\ \A i \in 1 .. 3 : (2 + i) - 1 = 1 + i
    OBVIOUS
  <1>6. \A i \in 1 .. 3 : g[i] = f[1 + i]
    BY <1>4, <1>5
  <1> QED BY <1>2, <1>3, <1>6 DEF g

LEMMA Framing ==
    ASSUME NEW m \in Triples
    PROVE  /\ Frame(m) \in Boxed /\ Message(Frame(m)) = m
           /\ device = "emulator" => Frame(m) \in Good
  <1>1. m \in Seq(Nat) /\ Len(m) = 3 /\ Start \in Nat /\ Base \in Nat \ {0}
    BY LinkAssumption DEF Triples, Packets
  <1>2. CASE device # "emulator"
    <2>1. FrameLen = 3 /\ Frame(m) = m
      BY <1>2 DEF FrameLen, Frame
    <2> QED BY <1>2, <2>1 DEF Boxed, Triples, Message
  <1>3. CASE device = "emulator"
    <2> DEFINE body == <<Start>> \o m
               sum == serial_calculate_checksum(body)
               f == body \o <<sum>>
    <2>1. body \in Seq(Nat) /\ Len(body) = 4 /\ body[1] = Start
          /\ \A i \in 1 .. 3 : body[1 + i] = m[i]
      <3>1. <<Start>> \in Seq(Nat) /\ Len(<<Start>>) = 1 /\ <<Start>>[1] = Start
        BY <1>1
      <3> DEFINE h == <<Start>>
      <3> HIDE DEF h
      <3>2. h \in Seq(Nat) /\ Len(h) = 1 /\ h[1] = Start
        BY <3>1 DEF h
      <3>3. h \o m \in Seq(Nat) /\ Len(h \o m) = Len(h) + Len(m)
        BY <1>1, <3>2, TwoParts, Zenon
      <3>4. \A i \in 1 .. Len(h) : (h \o m)[i] = h[i]
        BY <1>1, <3>2, TwoParts, Zenon
      <3>5. \A i \in 1 .. Len(m) : (h \o m)[Len(h) + i] = m[i]
        BY <1>1, <3>2, TwoParts, Zenon
      <3>6. (h \o m)[1] = Start
        <4>1. 1 \in 1 .. Len(h)
          BY <3>2
        <4> QED BY <3>2, <3>4, <4>1
      <3>7. h \o m = body
        BY DEF h
      <3> HIDE DEF body
      <3>8. \A i \in 1 .. 3 : body[1 + i] = m[i]
        BY <1>1, <3>2, <3>5, <3>7
      <3>9. Len(body) = 4
        BY <1>1, <3>2, <3>3, <3>7
      <3> QED BY <3>3, <3>6, <3>7, <3>8, <3>9, Zenon
    <2>2. sum \in Nat
      <3>1. body[1] \in Nat /\ body[2] \in Nat /\ body[3] \in Nat /\ body[4] \in Nat
        <4> HIDE DEF body
        <4>1. \A i \in 1 .. 4 : body[i] \in Nat
          BY <2>1, ElementOfSeq
        <4>2. 1 \in 1 .. 4 /\ 2 \in 1 .. 4 /\ 3 \in 1 .. 4 /\ 4 \in 1 .. 4
          OBVIOUS
        <4> QED BY <4>1, <4>2, Zenon
      <3> DEFINE total == body[1] + body[2] + body[3] + body[4]
      <3>2. total \in Nat
        <4>1. \A v1, v2, v3, v4 \in Nat : v1 + v2 + v3 + v4 \in Nat
          OBVIOUS
        <4> HIDE DEF body
        <4> QED BY <3>1, <4>1
      <3> HIDE DEF total, body
      <3>3. total % Base \in Nat
        BY <1>1, <3>2
      <3> QED BY <3>3, Zenon DEF total, serial_calculate_checksum
    <2> HIDE DEF body, sum
    <2>3. f \in Seq(Nat) /\ Len(f) = 5 /\ (\A i \in 1 .. 4 : f[i] = body[i]) /\ f[5] = sum
      <3> DEFINE h == <<sum>>
      <3>1. h \in Seq(Nat) /\ Len(h) = 1 /\ h[1] = sum
        BY <2>2
      <3>2. f = body \o h
        OBVIOUS
      <3> HIDE DEF h, f
      <3>3. body \o h \in Seq(Nat) /\ Len(body \o h) = Len(body) + Len(h)
        BY <2>1, <3>1, TwoParts, Zenon
      <3>4. \A i \in 1 .. Len(body) : (body \o h)[i] = body[i]
        BY <2>1, <3>1, TwoParts, Zenon
      <3>5. \A i \in 1 .. Len(h) : (body \o h)[Len(body) + i] = h[i]
        BY <2>1, <3>1, TwoParts, Zenon
      <3>6. f[5] = sum
        <4>1. 1 \in 1 .. Len(h) /\ Len(body) + 1 = 5
          BY <2>1, <3>1
        <4> QED BY <3>1, <3>2, <3>5, <4>1
      <3>7. Len(f) = 5
        BY <2>1, <3>1, <3>2, <3>3
      <3>8. \A i \in 1 .. 4 : f[i] = body[i]
        BY <2>1, <3>2, <3>4
      <3> QED BY <3>2, <3>3, <3>6, <3>7, <3>8
    <2>4. Frame(m) = f
      BY <1>3, Zenon DEF Frame, body, sum
    <2>5. serial_calculate_checksum(f) = sum
      <3>1. f[1] = body[1] /\ f[2] = body[2] /\ f[3] = body[3] /\ f[4] = body[4]
        BY <2>3
      <3> HIDE DEF f
      <3> QED BY <3>1, Zenon DEF serial_calculate_checksum, sum
    <2>6. f[1] = Start
      BY <2>1, <2>3
    <2> HIDE DEF f
    <2>7. f \in Good
      BY <2>3, <2>5, <2>6 DEF Good, Packets, Valid
    <2>8. SubSeq(f, 2, 4) = m
      <3>1. SubSeq(f, 2, 4) \in Seq(Nat) /\ Len(SubSeq(f, 2, 4)) = 3
            /\ \A i \in 1 .. 3 : SubSeq(f, 2, 4)[i] = f[1 + i]
        BY <2>3, MiddleOfFive
      <3>2. \A i \in 1 .. 3 : f[1 + i] = m[i]
        BY <2>1, <2>3
      <3> QED BY <1>1, <3>1, <3>2, SeqEqual
    <2>9. FrameLen = 5
      BY <1>3 DEF FrameLen
    <2> QED BY <1>3, <2>4, <2>7, <2>8, <2>9, Zenon DEF Boxed, Good, Message
  <1> QED BY <1>2, <1>3

\* Any frame, good or not, has a message.
LEMMA MessageType ==
    ASSUME NEW f \in Boxed
    PROVE  Message(f) \in Triples
  <1>1. f \in Seq(Nat) /\ Len(f) = FrameLen
    BY DEF Boxed, Packets
  <1>2. CASE device = "emulator"
    <2>1. Len(f) = 5
      BY <1>1, <1>2 DEF FrameLen
    <2>2. SubSeq(f, 2, 4) \in Seq(Nat) /\ Len(SubSeq(f, 2, 4)) = 3
      BY <1>1, <2>1, MiddleOfFive
    <2> QED BY <1>2, <2>2 DEF Message, Triples, Packets
  <1>3. CASE device # "emulator"
    BY <1>1, <1>3 DEF FrameLen, Message, Triples, Packets
  <1> QED BY <1>2, <1>3

LEMMA FramedType ==
    ASSUME NEW ms \in Seq(Triples)
    PROVE  /\ Framed(ms) \in Seq(Boxed) /\ Len(Framed(ms)) = Len(ms)
           /\ \A i \in 1 .. Len(ms) : Framed(ms)[i] = Frame(ms[i])
           /\ device = "emulator" => Framed(ms) \in Seq(Good)
           /\ Unframed(Framed(ms)) = ms
           /\ Stream(ms) \in Seq(Nat)
  <1> DEFINE n == Len(ms)
             g == [i \in 1 .. n |-> Frame(ms[i])]
  <1>1. n \in Nat /\ DOMAIN ms = 1 .. n /\ \A i \in 1 .. n : ms[i] \in Triples
    OBVIOUS
  <1>2. Framed(ms) = g
    BY <1>1, Zenon DEF Framed
  <1>3. \A i \in 1 .. n : g[i] = Frame(ms[i])
    OBVIOUS
  <1>4. \A i \in 1 .. n : g[i] \in Boxed /\ Message(g[i]) = ms[i]
    BY <1>1, <1>3, Framing, Zenon
  <1>5. device = "emulator" => \A i \in 1 .. n : g[i] \in Good
    BY <1>1, <1>3, Framing, Zenon
  <1>6. DOMAIN g = 1 .. n /\ g = [i \in 1 .. n |-> g[i]]
    OBVIOUS
  <1> HIDE DEF g, n
  <1>7. g \in Seq(Boxed) /\ Len(g) = n
    BY <1>1, <1>4, <1>6
  <1>8. device = "emulator" => g \in Seq(Good)
    BY <1>1, <1>5, <1>6
  <1>9. Unframed(g) = ms
    <2>1. Unframed(g) = [i \in 1 .. n |-> Message(g[i])]
      BY <1>6, Zenon DEF Unframed
    <2>2. [i \in 1 .. n |-> Message(g[i])] = [i \in 1 .. n |-> ms[i]]
      BY <1>4
    <2>3. ms = [i \in 1 .. n |-> ms[i]]
      BY DEF n
    <2> QED BY <2>1, <2>2, <2>3, Zenon
  <1>10. Stream(ms) \in Seq(Nat)
    <2>1. Boxed \subseteq Seq(Nat)
      BY DEF Boxed, Packets
    <2>2. g \in Seq(Seq(Nat))
      BY <1>7, <2>1, SeqMonotonic
    <2>3. FlattenSeq(g) \in Seq(Nat)
      BY <2>2, FlattenType
    <2> QED BY <1>2, <2>3 DEF Stream
  <1> QED BY <1>2, <1>3, <1>7, <1>8, <1>9, <1>10, Zenon DEF n

LEMMA UnframedType ==
    ASSUME NEW frames \in Seq(Boxed)
    PROVE  Unframed(frames) \in Seq(Triples) /\ Len(Unframed(frames)) = Len(frames)
  <1> DEFINE n == Len(frames)
             g == [i \in 1 .. n |-> Message(frames[i])]
  <1>1. n \in Nat /\ DOMAIN frames = 1 .. n /\ \A i \in 1 .. n : frames[i] \in Boxed
    OBVIOUS
  <1>2. Unframed(frames) = g
    BY <1>1, Zenon DEF Unframed
  <1>3. \A i \in 1 .. n : Message(frames[i]) \in Triples
    BY <1>1, MessageType
  <1> HIDE DEF n
  <1>4. g \in Seq(Triples) /\ Len(g) = n
    BY <1>1, <1>3
  <1> QED BY <1>2, <1>4 DEF n

LEMMA FramedConcat ==
    ASSUME NEW a \in Seq(Triples), NEW b \in Seq(Triples)
    PROVE  Framed(a \o b) = Framed(a) \o Framed(b) /\ Stream(a \o b) = Stream(a) \o Stream(b)
  <1> DEFINE u == a \o b
             x == Framed(u)
             y == Framed(a) \o Framed(b)
             n == Len(a)
             k == Len(b)
  <1>1. u \in Seq(Triples) /\ Len(u) = n + k /\ n \in Nat /\ k \in Nat
        /\ (\A i \in 1 .. n : u[i] = a[i]) /\ (\A i \in 1 .. k : u[n + i] = b[i])
    <2>1. u \in Seq(Triples) /\ Len(u) = n + k
      BY ConcatIndex
    <2>2. \A i \in 1 .. n : u[i] = a[i]
      BY ConcatIndex
    <2>3. \A i \in 1 .. k : u[n + i] = b[i]
      BY ConcatIndex
    <2> QED BY <2>1, <2>2, <2>3
  <1>2. /\ Framed(a) \in Seq(Boxed) /\ Len(Framed(a)) = n
        /\ \A i \in 1 .. n : Framed(a)[i] = Frame(a[i])
    BY FramedType
  <1>3. /\ Framed(b) \in Seq(Boxed) /\ Len(Framed(b)) = k
        /\ \A i \in 1 .. k : Framed(b)[i] = Frame(b[i])
    BY FramedType
  <1> HIDE DEF u
  <1>4. /\ x \in Seq(Boxed) /\ Len(x) = n + k
        /\ \A i \in 1 .. n + k : x[i] = Frame(u[i])
    BY <1>1, FramedType
  <1>5. y \in Seq(Boxed) /\ Len(y) = n + k
        /\ (\A i \in 1 .. n : y[i] = Framed(a)[i]) /\ (\A i \in 1 .. k : y[n + i] = Framed(b)[i])
    <2> DEFINE c == Framed(a)
               d == Framed(b)
    <2>1. c \in Seq(Boxed) /\ d \in Seq(Boxed) /\ Len(c) = n /\ Len(d) = k
      BY <1>2, <1>3
    <2> HIDE DEF c, d
    <2>2. c \o d \in Seq(Boxed) /\ Len(c \o d) = Len(c) + Len(d)
      BY <2>1, ConcatIndex
    <2>3. \A i \in 1 .. Len(c) : (c \o d)[i] = c[i]
      BY <2>1, ConcatIndex
    <2>4. \A i \in 1 .. Len(d) : (c \o d)[Len(c) + i] = d[i]
      BY <2>1, ConcatIndex
    <2> QED BY <2>1, <2>2, <2>3, <2>4 DEF c, d
  <1>6. x = y
    <2>1. \A i \in 1 .. n : x[i] = y[i]
      <3>1. \A i \in 1 .. n : i \in 1 .. n + k
        BY <1>1
      <3>2. \A i \in 1 .. n : Framed(a)[i] = Frame(a[i])
        BY <1>2
      <3>3. \A i \in 1 .. n : y[i] = Framed(a)[i]
        BY <1>5
      <3>4. \A i \in 1 .. n : u[i] = a[i]
        BY <1>1
      <3>5. \A i \in 1 .. n + k : x[i] = Frame(u[i])
        BY <1>4
      <3> HIDE DEF x, y, n, k
      <3>6. \A i \in 1 .. n : Frame(u[i]) = Frame(a[i])
        BY <3>4, Zenon
      <3> QED BY <3>1, <3>2, <3>3, <3>5, <3>6, Zenon
    <2>2. \A i \in 1 .. k : x[n + i] = y[n + i]
      <3>1. \A i \in 1 .. k : n + i \in 1 .. n + k
        BY <1>1
      <3>2. \A i \in 1 .. k : Framed(b)[i] = Frame(b[i])
        BY <1>3
      <3>3. \A i \in 1 .. k : y[n + i] = Framed(b)[i]
        BY <1>5
      <3>4. \A i \in 1 .. k : u[n + i] = b[i]
        BY <1>1
      <3>5. \A i \in 1 .. n + k : x[i] = Frame(u[i])
        BY <1>4
      <3> HIDE DEF x, y, n, k
      <3>6. \A i \in 1 .. k : Frame(u[n + i]) = Frame(b[i])
        BY <3>4, Zenon
      <3> QED BY <3>1, <3>2, <3>3, <3>5, <3>6, Zenon
    <2>3. \A i \in 1 .. n + k : i \in 1 .. n \/ \E j \in 1 .. k : i = n + j
      <3>1. \A i \in 1 .. n + k : ~(i \in 1 .. n) => i - n \in 1 .. k /\ i = n + (i - n)
        BY <1>1
      <3> QED BY <3>1
    <2> HIDE DEF x, y, n, k
    <2>4. \A i \in 1 .. n + k : x[i] = y[i]
      BY <2>1, <2>2, <2>3, Zenon
    <2> QED BY <1>4, <1>5, <2>4, SeqEqual
  <1>7. FlattenSeq(y) = FlattenSeq(Framed(a)) \o FlattenSeq(Framed(b))
    <2>1. Boxed \subseteq Seq(Nat)
      BY DEF Boxed, Packets
    <2>2. Framed(a) \in Seq(Seq(Nat)) /\ Framed(b) \in Seq(Seq(Nat))
      BY <1>2, <1>3, <2>1, SeqMonotonic
    <2> QED BY <2>2, FlattenConcat
  <1> QED BY <1>6, <1>7, Zenon DEF Stream, u, x, y

\* Frames taken from those of some messages are the frames of the first ones.
LEMMA FramesTaken ==
    ASSUME NEW ms \in Seq(Triples), NEW frames \in Seq(Boxed), NEW others \in Seq(Boxed),
           Framed(ms) = frames \o others
    PROVE  \E r \in Seq(Triples) :
               /\ ms = Unframed(frames) \o r /\ others = Framed(r)
               /\ frames = Framed(Unframed(frames)) /\ Unframed(frames) \in Seq(Triples)
  <1> DEFINE k == Len(frames)
             a == SubSeq(ms, 1, k)
             r == SubSeq(ms, k + 1, Len(ms))
  <1>1. Len(Framed(ms)) = Len(ms) /\ Len(frames \o others) = k + Len(others)
        /\ Len(others) \in Nat /\ k \in Nat /\ Len(ms) \in Nat
    BY FramedType, ConcatProperties
  <1>2. k \in 0 .. Len(ms)
    BY <1>1
  <1>3. a \in Seq(Triples) /\ r \in Seq(Triples) /\ a \o r = ms
    BY <1>2, CutAnywhere
  <1>4. Len(a) = k
    BY <1>2
  <1> HIDE DEF a, r
  <1>5. Framed(ms) = Framed(a) \o Framed(r)
    BY <1>3, FramedConcat
  <1>6. Framed(a) \in Seq(Boxed) /\ Len(Framed(a)) = k /\ Framed(r) \in Seq(Boxed)
        /\ Unframed(Framed(a)) = a
    BY <1>3, <1>4, FramedType
  <1>7. Framed(a) = frames /\ Framed(r) = others
    <2>1. Framed(a) \o Framed(r) = frames \o others
      BY <1>5
    <2> DEFINE c == Framed(a)
               d == Framed(r)
    <2> HIDE DEF c, d
    <2>2. c \in Seq(Boxed) /\ d \in Seq(Boxed) /\ c \o d = frames \o others /\ Len(c) = Len(frames)
      BY <1>6, <2>1 DEF c, d
    <2>3. c = frames /\ d = others
      BY <2>2, SameCut
    <2> QED BY <2>3 DEF c, d
  <1>8. Unframed(frames) = a
    BY <1>6, <1>7
  <1> QED BY <1>3, <1>7, <1>8

-----------------------------------------------------------------------------
(* What a read takes.                                                      *)

\* What is taken is the first of the messages, and the rest begins with the next.
Delivers(frames, rest, later, r) ==
    \E s \in Seq(Triples) :
        /\ r = Unframed(frames) \o s /\ frames = Framed(Unframed(frames))
        /\ Unframed(frames) \in Seq(Triples) /\ rest \o later = Stream(s)

LEMMA CutDelivers ==
    ASSUME NEW bytes \in Seq(Nat), NEW later \in Seq(Nat), NEW r \in Seq(Triples),
           bytes \o later = Stream(r)
    PROVE  Delivers(Cut(bytes, FrameLen), Rest(bytes, FrameLen), later, r)
  <1> DEFINE c == Cut(bytes, FrameLen)
             x == Rest(bytes, FrameLen)
             f == Framed(r)
  <1>1. FrameLen \in Widths
    BY FrameLength
  <1>2. f \in Seq(Packets(FrameLen)) /\ bytes \o later = FlattenSeq(f)
    BY FramedType DEF Boxed, Stream
  <1> HIDE DEF f
  <1>3. Continues(c, x, later, f, FrameLen)
    BY <1>1, <1>2, CutStream, Zenon
  <1>4. c \in Seq(Boxed)
    BY <1>1, CutType DEF Boxed
  <1> HIDE DEF c, x
  <1>5. PICK others \in Seq(Packets(FrameLen)) : f = c \o others /\ x \o later = FlattenSeq(others)
    BY <1>3 DEF Continues
  <1>6. others \in Seq(Boxed) /\ Framed(r) = c \o others
    BY <1>5 DEF Boxed, f
  <1>7. PICK s \in Seq(Triples) :
          /\ r = Unframed(c) \o s /\ others = Framed(s)
          /\ c = Framed(Unframed(c)) /\ Unframed(c) \in Seq(Triples)
    BY <1>4, <1>6, FramesTaken
  <1>8. x \o later = Stream(s)
    BY <1>5, <1>7, Zenon DEF Stream
  <1> QED BY <1>7, <1>8, Zenon DEF Delivers, c, x

\* The board takes the whole frames of a clean stream.
LEMMA BoardDelivers ==
    ASSUME NEW bytes \in Seq(Nat), NEW later \in Seq(Nat), NEW r \in Seq(Triples),
           bytes \o later = Stream(r), device = "emulator"
    PROVE  Delivers(transceiver(bytes).frames, transceiver(bytes).rest, later, r)
  <1>1. FrameLen = 5
    BY FrameLength
  <1>2. Framed(r) \in Seq(Good) /\ bytes \o later = FlattenSeq(Framed(r))
    BY FramedType DEF Stream
  <1> DEFINE f == Framed(r)
  <1> HIDE DEF f
  <1>3. transceiver(bytes) = [rest |-> Rest(bytes, 5), frames |-> Cut(bytes, 5)]
    <2>1. f \in Seq(Good) /\ bytes \o later = FlattenSeq(f)
      BY <1>2 DEF f
    <2> QED BY <1>1, <2>1, TakenExactly, Zenon
  <1>4. transceiver(bytes).rest = Rest(bytes, 5) /\ transceiver(bytes).frames = Cut(bytes, 5)
    BY <1>3
  <1>5. Delivers(Cut(bytes, 5), Rest(bytes, 5), later, r)
    BY <1>1, CutDelivers
  <1> QED BY <1>4, <1>5, Zenon

\* So does SerialEmulator.
LEMMA EmulatorDelivers ==
    ASSUME NEW bytes \in Seq(Nat), NEW later \in Seq(Nat), NEW r \in Seq(Triples),
           bytes \o later = Stream(r), device = "emulator"
    PROVE  Delivers(EmulatorReads(bytes).frames, EmulatorReads(bytes).rest, later, r)
  <1>1. FrameLen = 5
    BY FrameLength
  <1>2. Framed(r) \in Seq(Good) /\ bytes \o later = FlattenSeq(Framed(r))
    BY FramedType DEF Stream
  <1> DEFINE f == Framed(r)
  <1> HIDE DEF f
  <1>3. EmulatorReads(bytes) = [rest |-> Rest(bytes, 5), frames |-> Cut(bytes, 5)]
    <2>1. f \in Seq(Good) /\ bytes \o later = FlattenSeq(f)
      BY <1>2 DEF f
    <2> QED BY <1>1, <2>1, ReadExactly, Zenon
  <1>4. EmulatorReads(bytes).rest = Rest(bytes, 5) /\ EmulatorReads(bytes).frames = Cut(bytes, 5)
    BY <1>3
  <1>5. Delivers(Cut(bytes, 5), Rest(bytes, 5), later, r)
    BY <1>1, CutDelivers
  <1> QED BY <1>4, <1>5, Zenon

\* The bytes that EthernetBridge reads behind its buffer.
Tails(piece) == [1 .. (-Len(piece)) % FrameLen -> NoiseBytes]

LEMMA EthernetType ==
    ASSUME NEW piece \in Seq(Nat), NEW tail \in Tails(piece), device = "ethernet"
    PROVE  /\ EthernetReads(piece, tail).rest = <<>>
           /\ EthernetReads(piece, tail).frames \in Seq(Boxed)
           /\ Len(piece) % FrameLen = 0 =>
                 /\ EthernetReads(piece, tail).frames = Cut(piece, FrameLen)
                 /\ Rest(piece, FrameLen) = <<>>
  <1> DEFINE c == Cut(piece, FrameLen)
             x == Rest(piece, FrameLen)
             w == (-Len(piece)) % FrameLen
  <1>1. FrameLen = 3 /\ FrameLen \in Widths
    BY FrameLength
  <1>2. c \in Seq(Boxed) /\ x \in Seq(Nat)
    BY <1>1, CutType DEF Boxed
  <1>3. w \in Nat
    BY <1>1
  <1>4. tail \in Seq(Nat) /\ Len(tail) = w
    <2>1. NoiseBytes \subseteq Nat
      BY LinkAssumption
    <2>2. tail \in [1 .. w -> NoiseBytes]
      BY DEF Tails
    <2> HIDE DEF w
    <2>3. tail \in [1 .. w -> Nat]
      BY <2>1, <2>2
    <2>4. \A n \in Nat : \A t \in [1 .. n -> Nat] : t \in Seq(Nat) /\ Len(t) = n
      OBVIOUS
    <2> QED BY <1>3, <2>3, <2>4
  <1>5. tail # <<>> => x \o tail \in Boxed
    <2>1. Len(x) = Len(piece) % 3
      <3>1. x = SubSeq(piece, (Len(piece) \div 3) * 3 + 1, Len(piece))
        BY <1>1 DEF Rest
      <3> DEFINE a == (Len(piece) \div 3) * 3
      <3>2. a \in Nat /\ a <= Len(piece) /\ Len(piece) - a = Len(piece) % 3 /\ Len(piece) \in Nat
        BY SMT
      <3>3. x = SubSeq(piece, a + 1, Len(piece))
        BY <3>1
      <3> HIDE DEF a, x
      <3> QED BY <3>2, <3>3, PartOfSeq
    <2>2. \A n \in Nat : (-n) % 3 # 0 => (n % 3) + ((-n) % 3) = 3
      BY SMT
    <2>3. tail # <<>> => w # 0
      <3> HIDE DEF w
      <3> QED BY <1>4
    <2>4. w = (-Len(piece)) % 3 /\ Len(piece) \in Nat
      BY <1>1
    <2> HIDE DEF w, x
    <2>5. Len(x \o tail) = Len(x) + Len(tail) /\ x \o tail \in Seq(Nat)
      BY <1>2, <1>4, TwoParts
    <2>6. tail # <<>> => Len(x) + Len(tail) = 3
      BY <1>4, <2>1, <2>2, <2>3, <2>4
    <2> QED BY <1>1, <2>5, <2>6 DEF Boxed, Packets
  <1>6. Len(piece) % FrameLen = 0 => tail = <<>> /\ x = <<>>
    <2>1. ASSUME Len(piece) % 3 = 0
          PROVE  w = 0
      <3>1. \A n \in Nat : n % 3 = 0 => (-n) % 3 = 0
        BY SMT
      <3> QED BY <1>1, <2>1, <3>1
    <2>2. Len(piece) % FrameLen = 0 => x = <<>>
      BY <1>1, CutType
    <2> HIDE DEF w, x
    <2>3. w = 0 => tail = <<>>
      BY <1>4
    <2> QED BY <1>1, <2>1, <2>2, <2>3
  <1> DEFINE e == EthernetReads(piece, tail)
             g == c \o IF tail = <<>> THEN <<>> ELSE <<x \o tail>>
  <1>7. e.rest = <<>> /\ e.frames = g
    BY DEF EthernetReads
  <1> HIDE DEF c, x, w, e
  <1>8. g \in Seq(Boxed)
    <2>1. CASE tail = <<>>
      <3>1. g = c
        BY <1>2, <2>1, ConcatEmptySeq
      <3> QED BY <1>2, <3>1
    <2>2. CASE tail # <<>>
      <3>1. <<x \o tail>> \in Seq(Boxed)
        BY <1>5, <2>2
      <3>2. g = c \o <<x \o tail>>
        BY <2>2
      <3> QED BY <1>2, <3>1, <3>2, ConcatProperties
    <2> QED BY <2>1, <2>2
  <1>9. tail = <<>> => g = c
    BY <1>2, ConcatEmptySeq
  <1> HIDE DEF g
  <1> QED BY <1>6, <1>7, <1>8, <1>9, Zenon DEF e, c, x

\* A fault leaves a sequence of bytes.
LEMMA FaultyType ==
    ASSUME NEW bytes \in Seq(Nat), NEW bad \in Faulty(bytes)
    PROVE  bad \in Seq(Nat)
  <1>1. NoiseBytes \subseteq Nat
    BY LinkAssumption
  <1>2. PICK i \in DOMAIN bytes :
            \/ bad = RemoveAt(bytes, i)
            \/ \E b \in NoiseBytes : bad = ReplaceAt(bytes, i, b)
            \/ \E b \in NoiseBytes : bad = InsertAt(bytes, i, b)
    BY Zenon DEF Faulty
  <1>3. i \in 1 .. Len(bytes) /\ Len(bytes) \in Nat
    OBVIOUS
  <1>4. SubSeq(bytes, 1, i - 1) \in Seq(Nat) /\ SubSeq(bytes, i + 1, Len(bytes)) \in Seq(Nat)
        /\ SubSeq(bytes, i, Len(bytes)) \in Seq(Nat)
    BY <1>3, SMTT(30)
  <1>5. CASE bad = RemoveAt(bytes, i)
    BY <1>4, <1>5, ConcatProperties DEF RemoveAt
  <1>6. ASSUME NEW b \in NoiseBytes, bad = ReplaceAt(bytes, i, b)
        PROVE  bad \in Seq(Nat)
    BY <1>1, <1>3, <1>6 DEF ReplaceAt
  <1>7. ASSUME NEW b \in NoiseBytes, bad = InsertAt(bytes, i, b)
        PROVE  bad \in Seq(Nat)
    <2>1. <<b>> \in Seq(Nat)
      BY <1>1
    <2>2. SubSeq(bytes, 1, i - 1) \o <<b>> \in Seq(Nat)
      BY <1>4, <2>1, ConcatProperties
    <2> DEFINE u == SubSeq(bytes, 1, i - 1) \o <<b>>
               v == SubSeq(bytes, i, Len(bytes))
    <2>3. bad = u \o v
      BY <1>7 DEF InsertAt
    <2>4. u \in Seq(Nat) /\ v \in Seq(Nat)
      BY <1>4, <2>2
    <2> HIDE DEF u, v
    <2> QED BY <2>3, <2>4, ConcatProperties
  <1> QED BY <1>2, <1>5, <1>6, <1>7

-----------------------------------------------------------------------------
(* The board.                                                              *)

Boards == [memory : [0 .. MemSize - 1 -> Nat], out : Seq(Triples)]

LEMMA TripleType ==
    \A a, b, c \in Nat : <<a, b, c>> \in Triples
  BY DEF Triples, Packets

LEMMA BoardType ==
    ASSUME NEW board \in Boards, NEW frame \in Boxed
    PROVE  process_message(board, frame) \in Boards
  <1> DEFINE m == Message(frame)
             known == m[2] < MemSize
  <1>1. m[1] \in Nat /\ m[2] \in Nat /\ m[3] \in Nat
    <2>1. m \in Seq(Nat) /\ Len(m) = 3
      BY MessageType DEF Triples, Packets
    <2> HIDE DEF m
    <2>2. \A i \in 1 .. 3 : m[i] \in Nat
      BY <2>1, ElementOfSeq
    <2>3. 1 \in 1 .. 3 /\ 2 \in 1 .. 3 /\ 3 \in 1 .. 3
      OBVIOUS
    <2> QED BY <2>2, <2>3, Zenon
  <1>2. board.memory \in [0 .. MemSize - 1 -> Nat] /\ board.out \in Seq(Triples)
        /\ board = [memory |-> board.memory, out |-> board.out]
    BY DEF Boards
  <1>3. known => m[2] \in 0 .. MemSize - 1
    BY <1>1, LinkAssumption
  <1> HIDE DEF m
  <1>4. \A t \in Triples : [board EXCEPT !.out = Append(@, t)] \in Boards
    <2> SUFFICES ASSUME NEW t \in Triples
                 PROVE  [board EXCEPT !.out = Append(@, t)] \in Boards
      OBVIOUS
    <2> DEFINE b == [board EXCEPT !.out = Append(@, t)]
               o == board.out
    <2>1. Append(o, t) \in Seq(Triples)
      BY <1>2
    <2> HIDE DEF o
    <2>2. \A x \in Seq(Triples) : [board EXCEPT !.out = x] \in Boards
      <3> SUFFICES ASSUME NEW x \in Seq(Triples) PROVE [board EXCEPT !.out = x] \in Boards
        OBVIOUS
      <3>1. [board EXCEPT !.out = x] = [memory |-> board.memory, out |-> x]
        BY <1>2
      <3> QED BY <1>2, <3>1 DEF Boards
    <2>3. b = [board EXCEPT !.out = Append(o, t)]
      BY DEF o
    <2> HIDE DEF b
    <2>4. b \in Boards
      BY <2>1, <2>2, <2>3
    <2> QED BY <2>4 DEF b
  <1>5. <<Here, m[2], 0>> \in Triples
    BY <1>1, TripleType DEF Here
  <1>6. known => <<Data, m[2], board.memory[m[2]]>> \in Triples
    BY <1>1, <1>2, <1>3, TripleType DEF Data
  <1>7. known => [board EXCEPT !.memory[m[2]] = m[3]] \in Boards
    <2> DEFINE k == m[2]
               v == m[3]
               a == board.memory
               b == [board EXCEPT !.memory[k] = v]
    <2>1. known => [a EXCEPT ![k] = v] \in [0 .. MemSize - 1 -> Nat]
      BY <1>1, <1>2, <1>3
    <2>2. b = [memory |-> [a EXCEPT ![k] = v], out |-> board.out]
      BY <1>2
    <2> HIDE DEF a, b, k, v
    <2>3. known => b \in Boards
      BY <1>2, <2>1, <2>2 DEF Boards
    <2> QED BY <2>3 DEF b, k, v
  <1> HIDE DEF known
  <1>8. process_message(board, frame) =
          CASE m[1] = Alive -> [board EXCEPT !.out = Append(@, <<Here, m[2], 0>>)]
            [] m[1] = Read /\ known ->
                  [board EXCEPT !.out = Append(@, <<Data, m[2], board.memory[m[2]]>>)]
            [] m[1] = Write /\ known -> [board EXCEPT !.memory[m[2]] = m[3]]
            [] OTHER -> board
    BY Zenon DEF process_message, m, known
  <1>9. \/ process_message(board, frame) = [board EXCEPT !.out = Append(@, <<Here, m[2], 0>>)]
        \/ /\ known
           /\ process_message(board, frame) =
                  [board EXCEPT !.out = Append(@, <<Data, m[2], board.memory[m[2]]>>)]
        \/ known /\ process_message(board, frame) = [board EXCEPT !.memory[m[2]] = m[3]]
        \/ process_message(board, frame) = board
    BY <1>8 DEF Alive, Read, Write
  <1> QED BY <1>4, <1>5, <1>6, <1>7, <1>9, Zenon

LEMMA ProcessedType ==
    ASSUME NEW frames \in Seq(Boxed), memory \in [0 .. MemSize - 1 -> Nat]
    PROVE  Processed(frames) \in Boards
  <1> DEFINE L == Len(frames)
             base == [memory |-> memory, out |-> <<>>]
             step == [n \in 1 .. L |-> [b \in Boards |-> process_message(b, frames[n])]]
             Runs(f) == f = [n \in 0 .. L |->
                 IF n = 0 THEN base ELSE process_message(f[n - 1], frames[n])]
  <1>1. L \in Nat /\ \A n \in 1 .. L : frames[n] \in Boxed
    BY ElementOfSeq
  <1>2. base \in Boards
    BY EmptySeq DEF Boards
  <1> HIDE DEF L, base
  <1>3. step \in [1 .. L -> [Boards -> Boards]]
    BY <1>1, BoardType
  <1>4. \A n \in 1 .. L : \A b \in Boards : step[n][b] = process_message(b, frames[n])
    OBVIOUS
  <1> HIDE DEF step
  <1>5. PICK f \in [0 .. L -> Boards] : Iterates(f, base, step, L)
    BY <1>1, <1>2, <1>3, Recursion
  <1>6. \A n \in 0 .. L : f[n] = IF n = 0 THEN base ELSE process_message(f[n - 1], frames[n])
    <2> SUFFICES ASSUME NEW n \in 0 .. L
                 PROVE  f[n] = IF n = 0 THEN base ELSE process_message(f[n - 1], frames[n])
      OBVIOUS
    <2>1. f[n] = IF n = 0 THEN base ELSE step[n][f[n - 1]]
      BY <1>5, Zenon DEF Iterates
    <2>2. n # 0 => n \in 1 .. L /\ n - 1 \in 0 .. L
      BY <1>1
    <2>3. n # 0 => f[n - 1] \in Boards
      BY <2>2
    <2>4. n # 0 => step[n][f[n - 1]] = process_message(f[n - 1], frames[n])
      BY <1>4, <2>2, <2>3, Zenon
    <2> QED BY <2>1, <2>4, Zenon
  <1>7. Runs(f)
    <2>1. f = [n \in 0 .. L |-> f[n]]
      OBVIOUS
    <2> QED BY <1>6, <2>1, Zenon
  <1> DEFINE g == CHOOSE h : Runs(h)
  <1>8. Runs(g)
    BY <1>7, Zenon
  <1>9. Processed(frames) = g[L]
    BY Zenon DEF Processed, L, base
  <1>10. \A n \in 0 .. L : g[n] = IF n = 0 THEN base ELSE process_message(g[n - 1], frames[n])
    BY <1>8, Zenon
  <1> HIDE DEF g
  <1> DEFINE T == {n \in Nat : n <= L => g[n] \in Boards}
  <1>11. 0 \in T
    BY <1>1, <1>2, <1>10
  <1>12. ASSUME NEW n \in Nat, n \in T
         PROVE  n + 1 \in T
    <2> SUFFICES ASSUME n + 1 <= L PROVE g[n + 1] \in Boards
      OBVIOUS
    <2>1. n + 1 \in 0 .. L /\ n + 1 # 0 /\ (n + 1) - 1 = n /\ n + 1 \in 1 .. L /\ n <= L
      BY <1>1
    <2>2. g[n + 1] = process_message(g[n], frames[n + 1])
      BY <1>10, <2>1
    <2>3. g[n] \in Boards
      BY <1>12, <2>1
    <2>4. frames[n + 1] \in Boxed
      BY <1>1, <2>1
    <2> QED BY <2>2, <2>3, <2>4, BoardType
  <1>13. L \in T
    <2> HIDE DEF T
    <2>1. Nat \subseteq T
      BY <1>11, <1>12, NatSetInduction
    <2> QED BY <1>1, <2>1
  <1> QED BY <1>1, <1>9, <1>13

-----------------------------------------------------------------------------
(* Messages on their way over a line.                                      *)

LEMMA StreamOne ==
    ASSUME NEW m \in Triples
    PROVE  <<m>> \in Seq(Triples) /\ Stream(<<m>>) = Frame(m)
  <1> DEFINE f == Frame(m)
             u == <<m>>
  <1>1. u \in Seq(Triples) /\ Len(u) = 1 /\ u[1] = m
    OBVIOUS
  <1>2. f \in Boxed
    BY Framing
  <1> HIDE DEF f, u
  <1>3. Framed(u) \in Seq(Boxed) /\ Len(Framed(u)) = 1 /\ Framed(u)[1] = f
    <2>1. Framed(u) \in Seq(Boxed) /\ Len(Framed(u)) = 1
      BY <1>1, FramedType
    <2>2. \A i \in 1 .. Len(u) : Framed(u)[i] = Frame(u[i])
      BY <1>1, FramedType
    <2>3. 1 \in 1 .. Len(u)
      BY <1>1
    <2> QED BY <1>1, <2>1, <2>2, <2>3, Zenon DEF f
  <1> DEFINE g == Framed(u)
  <1> HIDE DEF g
  <1>4. g = <<f>>
    BY <1>3 DEF g
  <1>5. f \in Seq(Nat)
    BY <1>2 DEF Boxed, Packets
  <1>6. FlattenSeq(Append(<<>>, f)) = FlattenSeq(<<>>) \o f
    <2>1. <<>> \in Seq(Seq(Nat))
      BY EmptySeq
    <2> QED BY <1>5, <2>1, FlattenAppend
  <1>7. <<f>> = Append(<<>>, f) /\ <<>> \o f = f
    BY <1>5
  <1>8. FlattenSeq(<<f>>) = f
    BY <1>6, <1>7, FlattenEmpty, Zenon
  <1> QED BY <1>1, <1>4, <1>8, Zenon DEF Stream, g, f, u

LEMMA StreamNone == Stream(<<>>) = <<>> /\ Framed(<<>>) = <<>>
  <1>1. Framed(<<>>) \in Seq(Boxed) /\ Len(Framed(<<>>)) = 0
    <2>1. <<>> \in Seq(Triples) /\ Len(<<>>) = 0
      BY EmptySeq
    <2> QED BY <2>1, FramedType
  <1> DEFINE g == Framed(<<>>)
  <1> HIDE DEF g
  <1>2. g = <<>>
    BY <1>1 DEF g
  <1> QED BY <1>2, FlattenEmpty, Zenon DEF Stream, g

\* More bytes are written behind those of the messages on the line.
Lengthens(kept, line, r, out) == kept \o (line \o Stream(out)) = Stream(r \o out)

LEMMA MoreWritten ==
    ASSUME NEW r \in Seq(Triples), NEW out \in Seq(Triples),
           NEW kept \in Seq(Nat), NEW line \in Seq(Nat), kept \o line = Stream(r)
    PROVE  Lengthens(kept, line, r, out)
  <1>1. Stream(out) \in Seq(Nat)
    BY FramedType
  <1> DEFINE b == Stream(out)
             a == Stream(r)
  <1>2. Stream(r \o out) = a \o b
    BY FramedConcat
  <1>3. b \in Seq(Nat) /\ kept \o line = a
    BY <1>1
  <1> HIDE DEF a, b
  <1>4. kept \o (line \o b) = (kept \o line) \o b
    <2>1. Associates(Nat)
      BY Associative
    <2> QED BY <1>3, <2>1, Zenon DEF Associates, Regroups
  <1> QED BY <1>2, <1>3, <1>4, Zenon DEF b, Lengthens

-----------------------------------------------------------------------------
(* The invariant.                                                          *)

LineTypes ==
    /\ device \in {"emulator", "bridge", "ethernet"}
    /\ sendEvents \in Seq(Triples)
    /\ down \in Seq(Nat) /\ up \in Seq(Nat) /\ port \in Seq(Nat) /\ boardPort \in Seq(Nat)
    /\ device = "ethernet" => port = <<>>
    /\ memory \in [0 .. MemSize - 1 -> Nat]
    /\ m_recvQueue \in Seq(Boxed) /\ permits \in Nat /\ acquired \in BOOLEAN
    /\ faults \in Nat /\ aligned \in BOOLEAN
    /\ sent \in Seq(Triples) /\ seen \in Seq(Triples)
    /\ answers \in Seq(Triples) /\ received \in Seq(Triples)

\* What the peer did not take yet of what was written is on the line to it.
DownClean ==
    \E r \in Seq(Triples) : sent = seen \o r /\ boardPort \o down = Stream(r)

\* What the caller of recvMessage did not get yet of what the peer wrote is in
\* the queue, and behind that on the line.
UpClean ==
    \E q, r \in Seq(Triples) :
        /\ answers = (received \o q) \o r
        /\ m_recvQueue = Framed(q) /\ port \o up = Stream(r)

LineInv == LineTypes /\ PermitFindsFrame /\ (Undisturbed => DownClean /\ UpClean)

\* The device stays the same, and the shape of its frames with it.
LEMMA SameDevice ==
    ASSUME device' = device
    PROVE  /\ Boxed' = Boxed
           /\ \A r : Framed(r)' = Framed(r)
           /\ \A r : Stream(r)' = Stream(r)
  <1>1. FrameLen' = FrameLen
    BY DEF FrameLen
  <1>2. Boxed' = Boxed
    BY <1>1 DEF Boxed
  <1>3. \A m : Frame(m)' = Frame(m)
    BY DEF Frame
  <1>4. \A r : Framed(r)' = Framed(r)
    <2> SUFFICES ASSUME NEW r PROVE Framed(r)' = Framed(r)
      OBVIOUS
    <2>1. [i \in DOMAIN r |-> Frame(r[i])'] = [i \in DOMAIN r |-> Frame(r[i])]
      BY <1>3, Zenon
    <2> QED BY <2>1 DEF Framed
  <1>5. \A r : Stream(r)' = Stream(r)
    BY <1>4 DEF Stream
  <1> QED BY <1>2, <1>4, <1>5

LEMMA DownNext ==
    ASSUME device' = device, NEW r \in Seq(Triples),
           sent' = seen' \o r, boardPort' \o down' = Stream(r)
    PROVE  DownClean'
  <1>1. Stream(r)' = Stream(r)
    BY SameDevice
  <1> QED BY <1>1 DEF DownClean

LEMMA DownSame ==
    ASSUME UNCHANGED <<device, sent, seen, boardPort, down>>, DownClean
    PROVE  DownClean'
  <1>1. PICK r \in Seq(Triples) : sent = seen \o r /\ boardPort \o down = Stream(r)
    BY DEF DownClean
  <1>2. sent' = seen' \o r /\ boardPort' \o down' = Stream(r) /\ device' = device
    BY <1>1
  <1> QED BY <1>2, DownNext

LEMMA UpNext ==
    ASSUME device' = device, NEW q \in Seq(Triples), NEW r \in Seq(Triples),
           answers' = (received' \o q) \o r,
           m_recvQueue' = Framed(q), port' \o up' = Stream(r)
    PROVE  UpClean'
  <1>1. Stream(r)' = Stream(r) /\ Framed(q)' = Framed(q)
    BY SameDevice
  <1> QED BY <1>1 DEF UpClean

LEMMA UpSame ==
    ASSUME UNCHANGED <<device, answers, received, m_recvQueue, port, up>>, UpClean
    PROVE  UpClean'
  <1>1. PICK q, r \in Seq(Triples) :
          /\ answers = (received \o q) \o r
          /\ m_recvQueue = Framed(q) /\ port \o up = Stream(r)
    BY DEF UpClean
  <1>2. /\ answers' = (received' \o q) \o r
        /\ m_recvQueue' = Framed(q) /\ port' \o up' = Stream(r) /\ device' = device
    BY <1>1
  <1> QED BY <1>2, UpNext

\* The peer writes answers.
LEMMA UpAnswered ==
    ASSUME LineTypes, UpClean, NEW out \in Seq(Triples),
           UNCHANGED <<device, received, m_recvQueue, port>>,
           answers' = answers \o out, up' = up \o Stream(out)
    PROVE  UpClean'
  <1>1. PICK q, r \in Seq(Triples) :
          /\ answers = (received \o q) \o r
          /\ m_recvQueue = Framed(q) /\ port \o up = Stream(r)
    BY DEF UpClean
  <1>2. received \o q \in Seq(Triples) /\ port \in Seq(Nat) /\ up \in Seq(Nat)
    BY ConcatProperties DEF LineTypes
  <1> DEFINE taken == received \o q
  <1> HIDE DEF taken
  <1>3. r \o out \in Seq(Triples)
    BY ConcatProperties
  <1>4. (taken \o r) \o out = taken \o (r \o out)
    <2>1. taken \in Seq(Triples)
      BY <1>2 DEF taken
    <2>2. Associates(Triples)
      BY Associative
    <2> QED BY <2>1, <2>2, Zenon DEF Associates, Regroups
  <1>5. port \o (up \o Stream(out)) = Stream(r \o out)
    <2>1. Lengthens(port, up, r, out)
      BY <1>1, <1>2, MoreWritten
    <2> QED BY <2>1, Zenon DEF Lengthens
  <1>6. answers' = (received' \o q) \o (r \o out)
    BY <1>1, <1>4 DEF taken
  <1>7. m_recvQueue' = Framed(q) /\ port' \o up' = Stream(r \o out) /\ device' = device
    BY <1>1, <1>5
  <1> QED BY <1>3, <1>6, <1>7, UpNext

\* A read of frames.
LEMMA QueueTypes ==
    ASSUME LineTypes, PermitFindsFrame, NEW result, Queue(result),
           result.rest \in Seq(Nat), result.frames \in Seq(Boxed),
           UNCHANGED <<device, acquired>>
    PROVE  /\ port' = result.rest /\ m_recvQueue' \in Seq(Boxed) /\ permits' \in Nat
           /\ PermitFindsFrame'
  <1>1. m_recvQueue' = m_recvQueue \o result.frames /\ port' = result.rest
        /\ permits' = IF device = "ethernet" THEN permits ELSE permits + Len(result.frames)
    BY DEF Queue
  <1>2. m_recvQueue \in Seq(Boxed) /\ permits \in Nat /\ acquired \in BOOLEAN
    BY DEF LineTypes
  <1> DEFINE f == result.frames
  <1>3. f \in Seq(Boxed) /\ Len(f) \in Nat
    OBVIOUS
  <1> HIDE DEF f
  <1>4. m_recvQueue \o f \in Seq(Boxed) /\ Len(m_recvQueue \o f) = Len(m_recvQueue) + Len(f)
    BY <1>2, <1>3, ConcatProperties
  <1>5. permits' = IF device = "ethernet" THEN permits ELSE permits + Len(f)
    BY <1>1 DEF f
  <1>6. m_recvQueue' \in Seq(Boxed) /\ Len(m_recvQueue') = Len(m_recvQueue) + Len(f)
    BY <1>1, <1>4 DEF f
  <1>7. permits' \in Nat
    BY <1>2, <1>3, <1>5
  <1>8. PermitFindsFrame'
    BY <1>2, <1>3, <1>5, <1>6 DEF PermitFindsFrame
  <1> QED BY <1>1, <1>6, <1>7, <1>8

LEMMA UpQueued ==
    ASSUME LineTypes, UpClean, NEW result, Queue(result),
           UNCHANGED <<device, answers, received>>,
           \A r \in Seq(Triples) :
               port \o up = Stream(r) => Delivers(result.frames, result.rest, up', r)
    PROVE  UpClean'
  <1>1. PICK q, r \in Seq(Triples) :
          /\ answers = (received \o q) \o r
          /\ m_recvQueue = Framed(q) /\ port \o up = Stream(r)
    BY DEF UpClean
  <1> DEFINE f == result.frames
             t == Unframed(f)
  <1>2. PICK s \in Seq(Triples) :
          /\ r = t \o s /\ f = Framed(t) /\ t \in Seq(Triples) /\ result.rest \o up' = Stream(s)
    <2>1. Delivers(f, result.rest, up', r)
      BY <1>1
    <2> HIDE DEF f
    <2> QED BY <2>1 DEF Delivers
  <1>3. m_recvQueue' = m_recvQueue \o f /\ port' = result.rest
    BY DEF Queue
  <1> HIDE DEF t, f
  <1>4. q \o t \in Seq(Triples) /\ Framed(q \o t) = Framed(q) \o Framed(t)
    BY <1>2, FramedConcat, ConcatProperties
  <1>5. m_recvQueue' = Framed(q \o t)
    BY <1>1, <1>2, <1>3, <1>4
  <1>6. answers = (received \o (q \o t)) \o s
    <2> DEFINE k == received \o q
    <2>1. Associates(Triples)
      BY Associative
    <2>2. received \in Seq(Triples) /\ k \in Seq(Triples)
      BY ConcatProperties DEF LineTypes
    <2>3. t \in Seq(Triples) /\ q \in Seq(Triples) /\ s \in Seq(Triples)
      BY <1>2
    <2> HIDE DEF k
    <2>4. Regroups(k, t, s) /\ Regroups(received, q, t)
      BY <2>1, <2>2, <2>3, Zenon DEF Associates
    <2>5. (k \o t) \o s = k \o (t \o s) /\ k \o t = received \o (q \o t)
      BY <2>4 DEF Regroups, k
    <2>6. answers = k \o (t \o s)
      BY <1>1, <1>2 DEF k
    <2> QED BY <2>5, <2>6, Zenon
  <1>7. answers' = (received' \o (q \o t)) \o s /\ port' \o up' = Stream(s) /\ device' = device
    BY <1>2, <1>3, <1>6
  <1> QED BY <1>4, <1>5, <1>7, UpNext

-----------------------------------------------------------------------------
(* The invariant holds initially, and every step keeps it.                 *)

LEMMA LineInvInit == LineInit => LineInv
  <1> SUFFICES ASSUME LineInit PROVE LineInv
    OBVIOUS
  <1>1. <<>> \in Seq(Triples) /\ <<>> \in Seq(Nat) /\ <<>> \in Seq(Boxed) /\ Len(<<>>) = 0
    BY EmptySeq
  <1>2. device \in {"emulator", "bridge", "ethernet"}
    BY DEF LineInit, SerialEmulator_initialize, SerialBridge_initialize, EthernetBridge_initialize
  <1>3. memory \in [0 .. MemSize - 1 -> Nat]
    BY DEF LineInit
  <1>4. /\ sendEvents = <<>> /\ down = <<>> /\ up = <<>> /\ port = <<>> /\ boardPort = <<>>
        /\ m_recvQueue = <<>> /\ permits = 0 /\ acquired = FALSE /\ faults = 0 /\ aligned = TRUE
        /\ sent = <<>> /\ seen = <<>> /\ answers = <<>> /\ received = <<>>
    BY DEF LineInit
  <1>5. LineTypes
    BY <1>1, <1>2, <1>3, <1>4 DEF LineTypes
  <1>6. PermitFindsFrame
    BY <1>1, <1>4 DEF PermitFindsFrame
  <1>7. <<>> \o <<>> = <<>>
    BY <1>1, ConcatEmptySeq
  <1>8. DownClean
    BY <1>1, <1>4, <1>7, StreamNone, Zenon DEF DownClean
  <1>9. UpClean
    BY <1>1, <1>4, <1>7, StreamNone, Zenon DEF UpClean
  <1> QED BY <1>5, <1>6, <1>8, <1>9 DEF LineInv

\* The types of what is on the lines and in the queue.
lineState == <<device, down, up, port, boardPort, memory, m_recvQueue, permits,
               faults, aligned, sent, seen, answers, received>>

LEMMA LineSame ==
    ASSUME LineInv, UNCHANGED <<lineState, acquired>>, sendEvents' \in Seq(Triples)
    PROVE  LineInv'
  <1>1. /\ LineTypes /\ PermitFindsFrame
        /\ Undisturbed => DownClean /\ UpClean
    BY DEF LineInv
  <1>2. /\ UNCHANGED <<device, down, up, port, boardPort, memory, m_recvQueue, permits, acquired>>
        /\ UNCHANGED <<faults, aligned, sent, seen, answers, received>>
    BY DEF lineState
  <1>3. Boxed' = Boxed
    BY <1>2, SameDevice
  <1>4. LineTypes'
    BY <1>1, <1>2, <1>3 DEF LineTypes
  <1>5. PermitFindsFrame'
    BY <1>1, <1>2 DEF PermitFindsFrame
  <1>6. Undisturbed' => DownClean' /\ UpClean'
    <2>1. Undisturbed' => Undisturbed
      BY <1>2 DEF Undisturbed
    <2>2. DownClean => DownClean'
      BY <1>2, DownSame
    <2>3. UpClean => UpClean'
      BY <1>2, UpSame
    <2> QED BY <1>1, <2>1, <2>2, <2>3
  <1> QED BY <1>4, <1>5, <1>6 DEF LineInv

LEMMA MessagesType == Messages \subseteq Triples
  <1>1. Messages \subseteq {Alive, Read, Write} \X Nat \X (0 .. Base - 1)
    BY LinkAssumption
  <1>2. \A m \in {Alive, Read, Write} \X Nat \X (0 .. Base - 1) :
            \E a, b, c \in Nat : m = <<a, b, c>>
    BY DEF Alive, Read, Write
  <1> QED BY <1>1, <1>2, TripleType

LEMMA SendMessageInv ==
    ASSUME LineInv, NEW m \in Messages, Device_sendMessage(m)
    PROVE  LineInv'
  <1>1. sendEvents \in Seq(Triples) /\ m \in Triples
    BY MessagesType DEF LineInv, LineTypes
  <1>2. Append(sendEvents, m) \in Seq(Triples)
    BY <1>1
  <1>3. sendEvents' \in {sendEvents, Append(sendEvents, m)}
    BY DEF Device_sendMessage, SerialEmulator_sendMessage, SerialBridge_sendMessage,
           EthernetBridge_sendMessage
  <1>4. UNCHANGED <<lineState, acquired>>
    BY DEF Device_sendMessage, lineState, boardVars, lineHistory
  <1> QED BY <1>1, <1>2, <1>3, <1>4, LineSame

LEMMA EventInv ==
    ASSUME LineInv, Device_event
    PROVE  LineInv'
  <1>1. /\ LineTypes /\ PermitFindsFrame
        /\ Undisturbed => DownClean /\ UpClean
    BY DEF LineInv
  <1>2. /\ UNCHANGED <<device, up, port, boardPort, memory, m_recvQueue, permits, acquired>>
        /\ UNCHANGED <<faults, aligned, seen, answers, received>>
    BY DEF Device_event, boardVars
  <1> DEFINE h == Head(sendEvents)
             x == <<h>>
  <1>3. sendEvents \in Seq(Triples) /\ sent \in Seq(Triples) /\ down \in Seq(Nat)
        /\ boardPort \in Seq(Nat) /\ seen \in Seq(Triples)
    BY <1>1 DEF LineTypes
  <1>4. sendEvents # <<>> /\ sendEvents' = Tail(sendEvents)
        /\ sent' = Append(sent, h) /\ down' = down \o Frame(h)
    BY DEF Device_event
  <1>5. h \in Triples /\ Tail(sendEvents) \in Seq(Triples)
    BY <1>3, <1>4
  <1> HIDE DEF h
  <1>6. x \in Seq(Triples) /\ Stream(x) = Frame(h)
    BY <1>5, StreamOne
  <1>7. sent' = sent \o x
    BY <1>3, <1>4, <1>5
  <1> HIDE DEF x
  <1>8. down' = down \o Stream(x)
    BY <1>4, <1>6
  <1>9. Stream(x) \in Seq(Nat)
    BY <1>6, FramedType
  <1>10. sent' \in Seq(Triples) /\ down' \in Seq(Nat) /\ sendEvents' \in Seq(Triples)
    BY <1>3, <1>4, <1>5, <1>6, <1>7, <1>8, <1>9, ConcatProperties
  <1>11. Boxed' = Boxed
    BY <1>2, SameDevice
  <1>12. LineTypes'
    BY <1>1, <1>2, <1>10, <1>11 DEF LineTypes
  <1>13. PermitFindsFrame'
    BY <1>1, <1>2 DEF PermitFindsFrame
  <1>14. ASSUME DownClean
         PROVE  DownClean'
    <2>1. PICK r \in Seq(Triples) : sent = seen \o r /\ boardPort \o down = Stream(r)
      BY <1>14 DEF DownClean
    <2>2. r \o x \in Seq(Triples)
      BY <1>6, ConcatProperties
    <2>3. sent' = seen' \o (r \o x)
      <3>1. Associates(Triples)
        BY Associative
      <3>2. Regroups(seen, r, x)
        BY <1>3, <1>6, <3>1, Zenon DEF Associates
      <3> QED BY <1>2, <1>7, <2>1, <3>2 DEF Regroups
    <2>4. boardPort' \o down' = Stream(r \o x)
      <3>1. Lengthens(boardPort, down, r, x)
        BY <1>3, <1>6, <2>1, MoreWritten
      <3> QED BY <1>2, <1>8, <3>1 DEF Lengthens
    <2> QED BY <1>2, <2>2, <2>3, <2>4, DownNext
  <1>15. Undisturbed' => DownClean' /\ UpClean'
    <2>1. Undisturbed' => Undisturbed
      BY <1>2 DEF Undisturbed
    <2>2. UpClean => UpClean'
      BY <1>2, UpSame
    <2> QED BY <1>1, <1>14, <2>1, <2>2
  <1> QED BY <1>12, <1>13, <1>15 DEF LineInv

LEMMA AcquireInv ==
    ASSUME LineInv, tryAcquire
    PROVE  LineInv'
  <1>1. /\ LineTypes /\ PermitFindsFrame
        /\ Undisturbed => DownClean /\ UpClean
    BY DEF LineInv
  <1>2. /\ UNCHANGED <<device, sendEvents, down, up, port, boardPort, memory, m_recvQueue>>
        /\ UNCHANGED <<faults, aligned, sent, seen, answers, received>>
        /\ acquired = FALSE /\ acquired' = TRUE
    <2>1. acquired \in BOOLEAN
      BY <1>1 DEF LineTypes
    <2> QED BY <2>1 DEF tryAcquire, boardVars, lineHistory
  <1>3. \/ device # "ethernet" /\ permits > 0 /\ permits' = permits - 1
        \/ device = "ethernet" /\ permits' = permits
    BY DEF tryAcquire, SerialEmulator_recvMessage, SerialBridge_recvMessage,
           EthernetBridge_recvMessage
  <1>4. permits \in Nat /\ m_recvQueue \in Seq(Boxed)
    BY <1>1 DEF LineTypes
  <1>5. permits' \in Nat
    BY <1>3, <1>4
  <1>6. Boxed' = Boxed
    BY <1>2, SameDevice
  <1>7. LineTypes'
    BY <1>1, <1>2, <1>5, <1>6 DEF LineTypes
  <1>8. PermitFindsFrame'
    BY <1>1, <1>2, <1>3, <1>4 DEF PermitFindsFrame
  <1>9. Undisturbed' => DownClean' /\ UpClean'
    <2>1. Undisturbed' => Undisturbed
      BY <1>2 DEF Undisturbed
    <2>2. DownClean => DownClean'
      BY <1>2, DownSame
    <2>3. UpClean => UpClean'
      BY <1>2, UpSame
    <2> QED BY <1>1, <2>1, <2>2, <2>3
  <1> QED BY <1>7, <1>8, <1>9 DEF LineInv

LEMMA RecvInv ==
    ASSUME LineInv, Device_recvMessage
    PROVE  LineInv'
  <1>1. /\ LineTypes /\ PermitFindsFrame
        /\ Undisturbed => DownClean /\ UpClean
    BY DEF LineInv
  <1>2. /\ UNCHANGED <<device, sendEvents, down, up, port, boardPort, memory, permits>>
        /\ UNCHANGED <<faults, aligned, sent, seen, answers>>
        /\ acquired = TRUE /\ acquired' = FALSE
    <2>1. acquired \in BOOLEAN
      BY <1>1 DEF LineTypes
    <2> QED BY <2>1 DEF Device_recvMessage, boardVars
  <1>3. m_recvQueue \in Seq(Boxed) /\ received \in Seq(Triples) /\ permits \in Nat
    BY <1>1 DEF LineTypes
  <1>4. Boxed' = Boxed
    BY <1>2, SameDevice
  <1>5. DownClean => DownClean'
    BY <1>2, DownSame
  <1>6. Undisturbed' => Undisturbed
    BY <1>2 DEF Undisturbed
  <1>7. CASE m_recvQueue = <<>>
    <2>1. m_recvQueue' = m_recvQueue /\ received' = received
      BY <1>7 DEF Device_recvMessage
    <2>2. LineTypes'
      BY <1>1, <1>2, <1>4, <2>1 DEF LineTypes
    <2>3. PermitFindsFrame'
      <3>1. Len(m_recvQueue) = 0
        BY <1>7
      <3>2. device = "ethernet"
        BY <1>1, <1>2, <1>3, <3>1 DEF PermitFindsFrame
      <3> QED BY <1>2, <3>2 DEF PermitFindsFrame
    <2>4. UpClean => UpClean'
      BY <1>2, <2>1, UpSame
    <2> QED BY <1>1, <1>5, <1>6, <2>2, <2>3, <2>4 DEF LineInv
  <1>8. CASE m_recvQueue # <<>>
    <2> DEFINE f == Head(m_recvQueue)
               m == Message(f)
    <2>1. m_recvQueue' = Tail(m_recvQueue) /\ received' = Append(received, m)
      BY <1>8 DEF Device_recvMessage
    <2>2. f \in Boxed /\ Tail(m_recvQueue) \in Seq(Boxed)
          /\ Len(Tail(m_recvQueue)) = Len(m_recvQueue) - 1
      BY <1>3, <1>8
    <2> HIDE DEF f
    <2>3. m \in Triples
      BY <2>2, MessageType
    <2> HIDE DEF m
    <2>4. received' \in Seq(Triples)
      BY <1>3, <2>1, <2>3
    <2>5. LineTypes'
      BY <1>1, <1>2, <1>4, <2>1, <2>2, <2>4 DEF LineTypes
    <2>6. PermitFindsFrame'
      BY <1>1, <1>2, <1>3, <2>1, <2>2 DEF PermitFindsFrame
    <2>7. ASSUME UpClean
          PROVE  UpClean'
      <3>1. PICK q, r \in Seq(Triples) :
              /\ answers = (received \o q) \o r
              /\ m_recvQueue = Framed(q) /\ port \o up = Stream(r)
        BY <2>7 DEF UpClean
      <3>2. Len(Framed(q)) = Len(q) /\ \A i \in 1 .. Len(q) : Framed(q)[i] = Frame(q[i])
        BY FramedType
      <3>3. q # <<>>
        BY <1>8, <3>1, StreamNone
      <3> DEFINE h == Head(q)
                 t == Tail(q)
                 x == <<h>>
      <3>4. h \in Triples /\ t \in Seq(Triples) /\ x \in Seq(Triples) /\ q = x \o t
        BY <3>3
      <3>5. Append(received, h) \o t = received \o q
        BY <1>3, <3>3, MoveHead
      <3> HIDE DEF h, t, x
      <3>6. Framed(q) = Framed(x) \o Framed(t) /\ Framed(x) = <<Frame(h)>> /\ Framed(t) \in Seq(Boxed)
        <4>1. Framed(q) = Framed(x) \o Framed(t)
          BY <3>4, FramedConcat
        <4>2. Framed(t) \in Seq(Boxed)
          BY <3>4, FramedType
        <4>3. Framed(x) = <<Frame(h)>>
          BY DEF Framed, x
        <4> QED BY <4>1, <4>2, <4>3
      <3>7. Frame(h) \in Boxed /\ Message(Frame(h)) = h
        BY <3>4, Framing
      <3>8. Head(m_recvQueue) = Frame(h) /\ Tail(m_recvQueue) = Framed(t)
        <4> DEFINE g == Frame(h)
                   u == Framed(t)
        <4>1. g \in Boxed /\ u \in Seq(Boxed) /\ m_recvQueue = <<g>> \o u
          BY <3>1, <3>6, <3>7
        <4> HIDE DEF g, u
        <4>2. Head(<<g>> \o u) = g /\ Tail(<<g>> \o u) = u
          BY <4>1
        <4> QED BY <4>1, <4>2 DEF g, u
      <3>9. m = h
        BY <3>7, <3>8 DEF m, f
      <3>10. answers' = (received' \o t) \o r
        BY <1>2, <2>1, <3>1, <3>5, <3>9
      <3>11. m_recvQueue' = Framed(t) /\ port' \o up' = Stream(r) /\ device' = device
        BY <1>2, <2>1, <3>1, <3>8
      <3> QED BY <3>4, <3>10, <3>11, UpNext
    <2> QED BY <1>1, <1>5, <1>6, <2>5, <2>6, <2>7 DEF LineInv
  <1> QED BY <1>7, <1>8

LEMMA UpdateInv ==
    ASSUME LineInv, NEW offset \in 0 .. MemSize - 1, updateVariable(offset, 1)
    PROVE  LineInv'
  <1>1. /\ LineTypes /\ PermitFindsFrame
        /\ Undisturbed => DownClean /\ UpClean
    BY DEF LineInv
  <1>2. /\ UNCHANGED <<device, sendEvents, down, port, boardPort, m_recvQueue, permits, acquired>>
        /\ UNCHANGED <<faults, aligned, sent, seen, received>>
        /\ memory' = [memory EXCEPT ![offset] = 1]
    BY DEF updateVariable, hostVars
  <1> DEFINE m == <<Data, offset, 1>>
             result == offset <= 0 /\ offset + 1 < MemSize
  <1>3. /\ up' = IF result THEN up \o Frame(m) ELSE up
        /\ answers' = IF result THEN Append(answers, m) ELSE answers
    BY Zenon DEF updateVariable
  <1>4. m \in Triples
    <2>1. offset \in Nat /\ Data \in Nat
      BY LinkAssumption DEF Data
    <2> QED BY <2>1, TripleType
  <1> HIDE DEF m, result
  <1>5. memory' \in [0 .. MemSize - 1 -> Nat]
    BY <1>1, <1>2 DEF LineTypes
  <1>6. up \in Seq(Nat) /\ answers \in Seq(Triples)
    BY <1>1 DEF LineTypes
  <1> DEFINE x == IF result THEN <<m>> ELSE <<>>
  <1>7. x \in Seq(Triples) /\ up' = up \o Stream(x) /\ answers' = answers \o x
    <2>1. CASE result
      <3>1. <<m>> \in Seq(Triples) /\ Stream(<<m>>) = Frame(m)
        BY <1>4, StreamOne
      <3>2. Append(answers, m) = answers \o <<m>>
        BY <1>4, <1>6
      <3> QED BY <1>3, <2>1, <3>1, <3>2
    <2>2. CASE ~result
      <3>1. up \o <<>> = up /\ answers \o <<>> = answers
        BY <1>6, ConcatEmptySeq
      <3>2. <<>> \in Seq(Triples)
        BY EmptySeq
      <3> QED BY <1>3, <2>2, <3>1, <3>2, StreamNone
    <2> QED BY <2>1, <2>2
  <1> HIDE DEF x
  <1>8. Stream(x) \in Seq(Nat)
    BY <1>7, FramedType
  <1>9. up' \in Seq(Nat) /\ answers' \in Seq(Triples)
    BY <1>6, <1>7, <1>8, ConcatProperties
  <1>10. Boxed' = Boxed
    BY <1>2, SameDevice
  <1>11. LineTypes'
    BY <1>1, <1>2, <1>5, <1>9, <1>10 DEF LineTypes
  <1>12. PermitFindsFrame'
    BY <1>1, <1>2 DEF PermitFindsFrame
  <1>13. Undisturbed' => DownClean' /\ UpClean'
    <2>1. Undisturbed' => Undisturbed
      BY <1>2 DEF Undisturbed
    <2>2. DownClean => DownClean'
      BY <1>2, DownSame
    <2>3. UpClean => UpClean'
      BY <1>1, <1>2, <1>7, UpAnswered
    <2> QED BY <1>1, <2>1, <2>2, <2>3
  <1> QED BY <1>11, <1>12, <1>13 DEF LineInv

\* Without framing a frame is its message.
LEMMA Plain ==
    ASSUME device # "emulator"
    PROVE  /\ Boxed = Triples
           /\ \A s \in Seq(Triples) : Unframed(s) = s /\ Stream(s) = FlattenSeq(s)
  <1>1. Boxed = Triples
    BY FrameLength DEF Boxed, Triples
  <1>2. ASSUME NEW s \in Seq(Triples)
        PROVE  Unframed(s) = s /\ Framed(s) = s
    <2>1. s = [i \in DOMAIN s |-> s[i]]
      OBVIOUS
    <2>2. \A m : Message(m) = m /\ Frame(m) = m
      BY DEF Message, Frame
    <2> QED BY <2>1, <2>2, Zenon DEF Unframed, Framed
  <1>3. \A s \in Seq(Triples) : Stream(s) = FlattenSeq(s)
    BY <1>2 DEF Stream
  <1> QED BY <1>1, <1>2, <1>3

\* The peer takes frames and writes answers.
LEMMA PeerNext ==
    ASSUME LineInv,
           NEW frames \in Seq(Boxed), NEW rest \in Seq(Nat), NEW out \in Seq(Triples),
           boardPort' = rest, memory' \in [0 .. MemSize - 1 -> Nat],
           seen' = seen \o Unframed(frames),
           up' = up \o Stream(out), answers' = answers \o out,
           down' \in Seq(Nat), faults' \in Nat,
           UNCHANGED <<device, sendEvents, port, m_recvQueue, permits, acquired>>,
           UNCHANGED <<aligned, sent, received>>,
           Undisturbed' =>
               /\ Undisturbed
               /\ \A r \in Seq(Triples) :
                     boardPort \o down = Stream(r) => Delivers(frames, rest, down', r)
    PROVE  LineInv'
  <1>1. /\ LineTypes /\ PermitFindsFrame
        /\ Undisturbed => DownClean /\ UpClean
    BY DEF LineInv
  <1> DEFINE t == Unframed(frames)
  <1>2. t \in Seq(Triples)
    BY UnframedType
  <1> HIDE DEF t
  <1>3. up \in Seq(Nat) /\ answers \in Seq(Triples) /\ seen \in Seq(Triples)
    BY <1>1 DEF LineTypes
  <1>4. Stream(out) \in Seq(Nat)
    BY FramedType
  <1>5. seen' \in Seq(Triples) /\ up' \in Seq(Nat) /\ answers' \in Seq(Triples)
    BY <1>2, <1>3, <1>4, ConcatProperties DEF t
  <1>6. Boxed' = Boxed
    BY SameDevice
  <1>7. LineTypes'
    BY <1>1, <1>5, <1>6 DEF LineTypes
  <1>8. PermitFindsFrame'
    BY <1>1 DEF PermitFindsFrame
  <1>9. UpClean => UpClean'
    BY <1>1, UpAnswered
  <1>10. ASSUME Undisturbed', DownClean
         PROVE  DownClean'
    <2>1. PICK r \in Seq(Triples) : sent = seen \o r /\ boardPort \o down = Stream(r)
      BY <1>10 DEF DownClean
    <2>2. Delivers(frames, rest, down', r)
      BY <1>10, <2>1
    <2>3. PICK s \in Seq(Triples) : r = t \o s /\ rest \o down' = Stream(s)
      BY <2>2, Zenon DEF Delivers, t
    <2>4. sent' = seen' \o s
      <3>1. Associates(Triples)
        BY Associative
      <3>2. Regroups(seen, t, s)
        BY <1>2, <1>3, <3>1, Zenon DEF Associates
      <3> QED BY <2>1, <2>3, <3>2 DEF Regroups, t
    <2> QED BY <2>3, <2>4, DownNext
  <1>11. Undisturbed' => DownClean' /\ UpClean'
    BY <1>1, <1>9, <1>10
  <1> QED BY <1>7, <1>8, <1>11 DEF LineInv

\* A piece of a line, with what the reader had before.
LEMMA PieceType ==
    ASSUME NEW had \in Seq(Nat), NEW line \in Seq(Nat), NEW n \in 1 .. Len(line)
    PROVE  /\ SubSeq(line, 1, n) \in Seq(Nat) /\ SubSeq(line, n + 1, Len(line)) \in Seq(Nat)
           /\ had \o SubSeq(line, 1, n) \in Seq(Nat)
           /\ (had \o SubSeq(line, 1, n)) \o SubSeq(line, n + 1, Len(line)) = had \o line
  <1> DEFINE a == SubSeq(line, 1, n)
             z == SubSeq(line, n + 1, Len(line))
  <1>1. n \in 0 .. Len(line)
    OBVIOUS
  <1>2. a \in Seq(Nat) /\ z \in Seq(Nat) /\ a \o z = line
    BY <1>1, CutAnywhere
  <1> HIDE DEF a, z
  <1>3. had \o a \in Seq(Nat)
    BY <1>2, ConcatProperties
  <1>4. (had \o a) \o z = had \o line
    <2>1. Associates(Nat)
      BY Associative
    <2>2. Regroups(had, a, z)
      BY <1>2, <2>1, Zenon DEF Associates
    <2> QED BY <1>2, <2>2 DEF Regroups
  <1> QED BY <1>2, <1>3, <1>4 DEF a, z

\* What the board does with the bytes that it has now.
LEMMA BoardReadsType ==
    ASSUME LineTypes, NEW piece \in Seq(Nat), BoardReads(piece)
    PROVE  LET taken == transceiver(boardPort \o piece)
           IN  \E out \in Seq(Triples) :
                  /\ device = "emulator" /\ taken.frames \in Seq(Boxed) /\ taken.rest \in Seq(Nat)
                  /\ boardPort' = taken.rest /\ memory' \in [0 .. MemSize - 1 -> Nat]
                  /\ seen' = seen \o Unframed(taken.frames)
                  /\ up' = up \o Stream(out) /\ answers' = answers \o out
  <1> DEFINE taken == transceiver(boardPort \o piece)
             board == Processed(taken.frames)
  <1>1. boardPort \in Seq(Nat) /\ memory \in [0 .. MemSize - 1 -> Nat]
    BY DEF LineTypes
  <1>2. boardPort \o piece \in Seq(Nat)
    BY <1>1, ConcatProperties
  <1>3. taken.frames \in Seq(Boxed) /\ taken.rest \in Seq(Nat)
    BY <1>2, TakenType DEF Boxed
  <1>4. board \in Boards
    <2> HIDE DEF taken
    <2> QED BY <1>1, <1>3, ProcessedType
  <1>5. /\ device = "emulator" /\ boardPort' = taken.rest /\ memory' = board.memory
        /\ seen' = seen \o Unframed(taken.frames)
        /\ up' = up \o Stream(board.out) /\ answers' = answers \o board.out
    BY Zenon DEF BoardReads
  <1> HIDE DEF board, taken
  <1>6. board.memory \in [0 .. MemSize - 1 -> Nat] /\ board.out \in Seq(Triples)
    BY <1>4 DEF Boards
  <1> QED BY <1>3, <1>5, <1>6, Zenon DEF taken

LEMMA PeerReadsInv ==
    ASSUME LineInv, NEW n \in 1 .. Len(down), PeerReads(n)
    PROVE  LineInv'
  <1> DEFINE piece == SubSeq(down, 1, n)
             bytes == boardPort \o piece
  <1>1. LineTypes
    BY DEF LineInv
  <1>2. down \in Seq(Nat) /\ boardPort \in Seq(Nat) /\ faults \in Nat
    BY <1>1 DEF LineTypes
  <1>3. /\ down' = SubSeq(down, n + 1, Len(down))
        /\ UNCHANGED <<device, sendEvents, port, m_recvQueue, permits, acquired>>
        /\ UNCHANGED <<aligned, sent, received>>
    BY DEF PeerReads, hostVars
  <1>4. piece \in Seq(Nat) /\ down' \in Seq(Nat) /\ bytes \in Seq(Nat)
        /\ bytes \o down' = boardPort \o down
    BY <1>2, <1>3, PieceType
  <1>5. \/ BoardReads(piece) /\ faults' = faults
        \/ BoxReads(piece) /\ faults' = faults
        \/ faults' = faults + 1 /\ \E bad \in Faulty(piece) : BoardReads(bad)
    BY DEF PeerReads
  <1>6. CASE BoardReads(piece) /\ faults' = faults
    <2> DEFINE taken == transceiver(bytes)
    <2>1. PICK out \in Seq(Triples) :
            /\ device = "emulator" /\ taken.frames \in Seq(Boxed) /\ taken.rest \in Seq(Nat)
            /\ boardPort' = taken.rest /\ memory' \in [0 .. MemSize - 1 -> Nat]
            /\ seen' = seen \o Unframed(taken.frames)
            /\ up' = up \o Stream(out) /\ answers' = answers \o out
      BY <1>1, <1>4, <1>6, BoardReadsType
    <2>2. ASSUME NEW r \in Seq(Triples), boardPort \o down = Stream(r)
          PROVE  Delivers(taken.frames, taken.rest, down', r)
      <3>1. bytes \o down' = Stream(r)
        BY <1>4, <2>2
      <3> HIDE DEF bytes
      <3> QED BY <1>4, <2>1, <3>1, BoardDelivers
    <2>3. Undisturbed' => Undisturbed
      BY <1>3, <1>6 DEF Undisturbed
    <2> HIDE DEF taken
    <2>4. faults' \in Nat
      BY <1>2, <1>6
    <2> QED BY <1>3, <1>4, <2>1, <2>2, <2>3, <2>4, PeerNext
  <1>7. CASE BoxReads(piece) /\ faults' = faults
    <2> DEFINE cut == Cut(bytes, FrameLen)
               rest == Rest(bytes, FrameLen)
    <2>1. /\ device # "emulator" /\ boardPort' = rest /\ seen' = seen \o cut
          /\ up' = up \o FlattenSeq(cut) /\ answers' = answers \o cut /\ memory' = memory
      BY <1>7, Zenon DEF BoxReads
    <2>2. FrameLen \in Widths
      BY FrameLength
    <2>3. cut \in Seq(Boxed) /\ rest \in Seq(Nat)
      BY <1>4, <2>2, CutType DEF Boxed
    <2>4. ASSUME NEW r \in Seq(Triples), boardPort \o down = Stream(r)
          PROVE  Delivers(cut, rest, down', r)
      <3>1. bytes \o down' = Stream(r)
        BY <1>4, <2>4
      <3> HIDE DEF bytes
      <3> QED BY <1>4, <3>1, CutDelivers
    <2> HIDE DEF cut, rest
    <2>5. cut \in Seq(Triples) /\ Unframed(cut) = cut /\ Stream(cut) = FlattenSeq(cut)
      BY <2>1, <2>3, Plain
    <2>6. Undisturbed' => Undisturbed
      BY <1>3, <1>7 DEF Undisturbed
    <2>7. faults' \in Nat /\ memory' \in [0 .. MemSize - 1 -> Nat]
      BY <1>1, <1>2, <1>7, <2>1 DEF LineTypes
    <2>8. seen' = seen \o Unframed(cut) /\ up' = up \o Stream(cut)
      BY <2>1, <2>5
    <2> QED BY <1>3, <1>4, <2>1, <2>3, <2>4, <2>5, <2>6, <2>7, <2>8, PeerNext
  <1>8. ASSUME faults' = faults + 1, NEW bad \in Faulty(piece), BoardReads(bad)
        PROVE  LineInv'
    <2> DEFINE taken == transceiver(boardPort \o bad)
    <2>1. bad \in Seq(Nat)
      <3> HIDE DEF piece
      <3> QED BY <1>4, <1>8, FaultyType
    <2>2. PICK out \in Seq(Triples) :
            /\ device = "emulator" /\ taken.frames \in Seq(Boxed) /\ taken.rest \in Seq(Nat)
            /\ boardPort' = taken.rest /\ memory' \in [0 .. MemSize - 1 -> Nat]
            /\ seen' = seen \o Unframed(taken.frames)
            /\ up' = up \o Stream(out) /\ answers' = answers \o out
      BY <1>1, <1>8, <2>1, BoardReadsType
    <2> HIDE DEF taken
    <2>3. faults' \in Nat /\ ~Undisturbed'
      BY <1>2, <1>8 DEF Undisturbed
    <2> QED BY <1>3, <1>4, <2>2, <2>3, PeerNext
  <1> QED BY <1>5, <1>6, <1>7, <1>8

\* The host reads bytes, and what it has of them joins the queue.
LEMMA HostNext ==
    ASSUME LineInv, NEW result, Queue(result),
           result.rest \in Seq(Nat), result.frames \in Seq(Boxed),
           device = "ethernet" => result.rest = <<>>,
           up' \in Seq(Nat), faults' \in Nat, aligned' \in BOOLEAN,
           UNCHANGED <<device, sendEvents, down, boardPort, memory, acquired>>,
           UNCHANGED <<sent, seen, answers, received>>,
           Undisturbed' =>
               /\ Undisturbed
               /\ \A r \in Seq(Triples) :
                     port \o up = Stream(r) => Delivers(result.frames, result.rest, up', r)
    PROVE  LineInv'
  <1>1. /\ LineTypes /\ PermitFindsFrame
        /\ Undisturbed => DownClean /\ UpClean
    BY DEF LineInv
  <1>2. /\ port' = result.rest /\ m_recvQueue' \in Seq(Boxed) /\ permits' \in Nat
        /\ PermitFindsFrame'
    BY <1>1, QueueTypes
  <1>3. Boxed' = Boxed
    BY SameDevice
  <1>4. LineTypes'
    BY <1>1, <1>2, <1>3 DEF LineTypes
  <1>5. DownClean => DownClean'
    BY DownSame
  <1>6. Undisturbed' /\ UpClean => UpClean'
    BY <1>1, UpQueued
  <1> QED BY <1>1, <1>2, <1>4, <1>5, <1>6 DEF LineInv

\* What the devices have of the bytes that they read.
LEMMA HostReadsType ==
    ASSUME LineTypes, NEW piece \in Seq(Nat), HostReads(piece)
    PROVE  \E result :
              /\ Queue(result) /\ aligned' \in BOOLEAN
              /\ result.rest \in Seq(Nat) /\ result.frames \in Seq(Boxed)
              /\ device = "ethernet" => result.rest = <<>>
              /\ aligned' =>
                    /\ aligned
                    /\ \A later \in Seq(Nat), r \in Seq(Triples) :
                          (port \o piece) \o later = Stream(r) =>
                              Delivers(result.frames, result.rest, later, r)
  <1> DEFINE bytes == port \o piece
  <1>1. port \in Seq(Nat) /\ aligned \in BOOLEAN /\ (device = "ethernet" => port = <<>>)
    BY DEF LineTypes
  <1>2. bytes \in Seq(Nat)
    BY <1>1, ConcatProperties
  <1>3. CASE device = "emulator" /\ Queue(EmulatorReads(bytes)) /\ aligned' = aligned
    <2> HIDE DEF bytes
    <2>1. EmulatorReads(bytes).rest \in Seq(Nat) /\ EmulatorReads(bytes).frames \in Seq(Boxed)
      BY <1>2, ReadType DEF Boxed
    <2>2. ASSUME NEW later \in Seq(Nat), NEW r \in Seq(Triples), bytes \o later = Stream(r)
          PROVE  Delivers(EmulatorReads(bytes).frames, EmulatorReads(bytes).rest, later, r)
      BY <1>2, <1>3, <2>2, EmulatorDelivers
    <2> DEFINE e == EmulatorReads(bytes)
    <2>3. Queue(e) /\ aligned' = aligned /\ device # "ethernet"
      BY <1>3
    <2> HIDE DEF e
    <2> QED BY <1>1, <2>1, <2>2, <2>3 DEF bytes, e
  <1>4. CASE device = "bridge" /\ Queue(BridgeReads(bytes)) /\ aligned' = aligned
    <2> HIDE DEF bytes
    <2> DEFINE e == BridgeReads(bytes)
    <2>1. e.rest \in Seq(Nat) /\ e.frames \in Seq(Boxed)
      BY <1>2, ReadType DEF Boxed
    <2>2. ASSUME NEW later \in Seq(Nat), NEW r \in Seq(Triples), bytes \o later = Stream(r)
          PROVE  Delivers(e.frames, e.rest, later, r)
      <3>1. Delivers(Cut(bytes, FrameLen), Rest(bytes, FrameLen), later, r)
        BY <1>2, <2>2, CutDelivers
      <3>2. e.frames = Cut(bytes, FrameLen) /\ e.rest = Rest(bytes, FrameLen)
        BY DEF BridgeReads
      <3> QED BY <3>1, <3>2, Zenon
    <2>3. Queue(e) /\ aligned' = aligned /\ device # "ethernet"
      BY <1>4
    <2> HIDE DEF e
    <2> QED BY <1>1, <2>1, <2>2, <2>3 DEF bytes
  <1>5. ASSUME device = "ethernet", aligned' = (aligned /\ Len(piece) % FrameLen = 0),
               NEW tail \in Tails(piece), Queue(EthernetReads(piece, tail))
        PROVE  \E result :
                  /\ Queue(result) /\ aligned' \in BOOLEAN
                  /\ result.rest \in Seq(Nat) /\ result.frames \in Seq(Boxed)
                  /\ device = "ethernet" => result.rest = <<>>
                  /\ aligned' =>
                        /\ aligned
                        /\ \A later \in Seq(Nat), r \in Seq(Triples) :
                              bytes \o later = Stream(r) =>
                                  Delivers(result.frames, result.rest, later, r)
    <2> DEFINE e == EthernetReads(piece, tail)
               whole == Len(piece) % FrameLen = 0
    <2>1. /\ e.rest = <<>> /\ e.frames \in Seq(Boxed)
          /\ whole => e.frames = Cut(piece, FrameLen) /\ Rest(piece, FrameLen) = <<>>
      BY <1>5, EthernetType
    <2>2. bytes = piece
      BY <1>1, <1>5
    <2>3. ASSUME whole, NEW later \in Seq(Nat), NEW r \in Seq(Triples), bytes \o later = Stream(r)
          PROVE  Delivers(e.frames, e.rest, later, r)
      <3>1. Delivers(Cut(piece, FrameLen), Rest(piece, FrameLen), later, r)
        BY <2>2, <2>3, CutDelivers
      <3> QED BY <2>1, <2>3, <3>1, Zenon
    <2>4. Queue(e) /\ aligned' = (aligned /\ whole) /\ <<>> \in Seq(Nat)
      BY <1>5, EmptySeq
    <2>5. aligned' \in BOOLEAN /\ (aligned' => aligned /\ whole)
      BY <1>1, <2>4
    <2> HIDE DEF e, whole, bytes
    <2> QED BY <2>1, <2>3, <2>4, <2>5
  <1>6. \/ device = "emulator" /\ Queue(EmulatorReads(bytes)) /\ aligned' = aligned
        \/ device = "bridge" /\ Queue(BridgeReads(bytes)) /\ aligned' = aligned
        \/ /\ device = "ethernet" /\ aligned' = (aligned /\ Len(piece) % FrameLen = 0)
           /\ \E tail \in Tails(piece) : Queue(EthernetReads(piece, tail))
    BY Zenon DEF HostReads, Tails
  <1> QED BY <1>3, <1>4, <1>5, <1>6, Zenon

LEMMA ReadyReadInv ==
    ASSUME LineInv, NEW n \in 1 .. Len(up), serialReadyRead(n)
    PROVE  LineInv'
  <1> DEFINE piece == SubSeq(up, 1, n)
  <1>1. LineTypes
    BY DEF LineInv
  <1>2. up \in Seq(Nat) /\ port \in Seq(Nat) /\ faults \in Nat
    BY <1>1 DEF LineTypes
  <1>3. /\ up' = SubSeq(up, n + 1, Len(up))
        /\ UNCHANGED <<device, sendEvents, down, boardPort, memory, acquired>>
        /\ UNCHANGED <<sent, seen, answers, received>>
    BY DEF serialReadyRead, boardVars
  <1>4. piece \in Seq(Nat) /\ up' \in Seq(Nat) /\ (port \o piece) \o up' = port \o up
    BY <1>2, <1>3, PieceType
  <1>5. \/ HostReads(piece) /\ faults' = faults
        \/ faults' = faults + 1 /\ \E bad \in Faulty(piece) : HostReads(bad)
    BY DEF serialReadyRead
  <1> HIDE DEF piece
  <1>6. CASE HostReads(piece) /\ faults' = faults
    <2>1. PICK result :
            /\ Queue(result) /\ aligned' \in BOOLEAN
            /\ result.rest \in Seq(Nat) /\ result.frames \in Seq(Boxed)
            /\ device = "ethernet" => result.rest = <<>>
            /\ aligned' =>
                  /\ aligned
                  /\ \A later \in Seq(Nat), r \in Seq(Triples) :
                        (port \o piece) \o later = Stream(r) =>
                            Delivers(result.frames, result.rest, later, r)
      BY <1>1, <1>4, <1>6, HostReadsType
    <2>2. Undisturbed' => Undisturbed /\ aligned'
      BY <1>6, <2>1 DEF Undisturbed
    <2>3. ASSUME Undisturbed', NEW r \in Seq(Triples), port \o up = Stream(r)
          PROVE  Delivers(result.frames, result.rest, up', r)
      BY <1>4, <2>1, <2>2, <2>3, Zenon
    <2>4. faults' \in Nat
      BY <1>2, <1>6
    <2> QED BY <1>3, <1>4, <2>1, <2>2, <2>3, <2>4, HostNext
  <1>7. ASSUME faults' = faults + 1, NEW bad \in Faulty(piece), HostReads(bad)
        PROVE  LineInv'
    <2>1. bad \in Seq(Nat)
      BY <1>4, <1>7, FaultyType
    <2>2. PICK result :
            /\ Queue(result) /\ aligned' \in BOOLEAN
            /\ result.rest \in Seq(Nat) /\ result.frames \in Seq(Boxed)
            /\ device = "ethernet" => result.rest = <<>>
      BY <1>1, <1>7, <2>1, HostReadsType
    <2>3. faults' \in Nat /\ ~Undisturbed'
      BY <1>2, <1>7 DEF Undisturbed
    <2> QED BY <1>3, <1>4, <2>2, <2>3, HostNext
  <1> QED BY <1>5, <1>6, <1>7

-----------------------------------------------------------------------------

LEMMA LineInvNext == LineInv /\ [LineNext]_lineVars => LineInv'
  <1> SUFFICES ASSUME LineInv, [LineNext]_lineVars PROVE LineInv'
    OBVIOUS
  <1>1. sendEvents \in Seq(Triples)
    BY DEF LineInv, LineTypes
  <1>2. CASE Tick
    <2>1. UNCHANGED <<lineState, acquired>> /\ sendEvents' = sendEvents
      BY <1>2 DEF Tick, lineState, boardVars, lineHistory
    <2> QED BY <1>1, <2>1, LineSame
  <1>3. CASE UNCHANGED lineVars
    <2>1. UNCHANGED <<lineState, acquired>> /\ sendEvents' = sendEvents
      BY <1>3 DEF lineVars, lineState, hostVars, boardVars, lineHistory
    <2> QED BY <1>1, <2>1, LineSame
  <1> QED BY <1>2, <1>3, EventInv, AcquireInv, RecvInv, SendMessageInv, PeerReadsInv,
             ReadyReadInv, UpdateInv DEF LineNext

\* Undisturbed lines carry what was written on them.
LEMMA CleanLines ==
    ASSUME LineInv
    PROVE  LinkExact
  <1>1. /\ LineTypes /\ PermitFindsFrame
        /\ Undisturbed => DownClean /\ UpClean
    BY DEF LineInv
  <1>2. /\ down \in Seq(Nat) /\ up \in Seq(Nat) /\ port \in Seq(Nat) /\ boardPort \in Seq(Nat)
        /\ seen \in Seq(Triples) /\ received \in Seq(Triples)
    BY <1>1 DEF LineTypes
  <1>3. Associates(Nat)
    BY Associative
  <1>4. ASSUME DownClean
        PROVE  (Stream(seen) \o boardPort) \o down = Stream(sent)
    <2>1. PICK r \in Seq(Triples) : sent = seen \o r /\ boardPort \o down = Stream(r)
      BY <1>4 DEF DownClean
    <2> DEFINE a == Stream(seen)
    <2>2. a \in Seq(Nat) /\ Stream(sent) = a \o Stream(r)
      BY <1>2, <2>1, FramedType, FramedConcat
    <2> HIDE DEF a
    <2>3. Regroups(a, boardPort, down)
      BY <1>2, <1>3, <2>2, Zenon DEF Associates
    <2> QED BY <2>1, <2>2, <2>3 DEF Regroups, a
  <1>5. ASSUME UpClean
        PROVE  (Stream(received \o Unframed(m_recvQueue)) \o port) \o up = Stream(answers)
    <2>1. PICK q, r \in Seq(Triples) :
            /\ answers = (received \o q) \o r
            /\ m_recvQueue = Framed(q) /\ port \o up = Stream(r)
      BY <1>5 DEF UpClean
    <2>2. Unframed(m_recvQueue) = q
      BY <2>1, FramedType
    <2> DEFINE k == received \o q
               a == Stream(k)
    <2>3. k \in Seq(Triples)
      BY <1>2, ConcatProperties
    <2>4. answers = k \o r
      BY <2>1
    <2> HIDE DEF k
    <2>5. a \in Seq(Nat) /\ Stream(answers) = a \o Stream(r)
      BY <2>3, <2>4, FramedType, FramedConcat
    <2> HIDE DEF a
    <2>6. Regroups(a, port, up)
      BY <1>2, <1>3, <2>5, Zenon DEF Associates
    <2>7. (a \o port) \o up = Stream(answers)
      BY <2>1, <2>5, <2>6 DEF Regroups
    <2> QED BY <2>2, <2>7 DEF a, k
  <1>6. ExactWhenClean
    BY <1>1, <1>4, <1>5, Zenon DEF ExactWhenClean
  <1> QED BY <1>1, <1>6 DEF LinkExact

\* For any messages, number of faults, size of the board's table and values of
\* a byte: a permit of m_recvSemaphore stands for a queued frame, so recvMessage
\* finds one after its tryAcquire (SerialBridge.cpp, SerialEmulator.cpp); and on
\* an undisturbed line the framing, the buffers and the queue of all three
\* devices, whatever the pieces the stream is read in, neither lose nor repeat
\* nor reorder a message, on the way to the peer and back.
THEOREM LinkKeepsMessages == LineSpec => []LinkExact
  <1>1. LineInit => LineInv
    BY LineInvInit
  <1>2. LineInv /\ [LineNext]_lineVars => LineInv'
    BY LineInvNext
  <1>3. LineInv => LinkExact
    BY CleanLines
  <1> QED BY <1>1, <1>2, <1>3, PTL DEF LineSpec
=============================================================================
