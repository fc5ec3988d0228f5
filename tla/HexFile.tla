------------------------------ MODULE HexFile ------------------------------
(***************************************************************************)
(* From a HEX file to the bytes the dsPIC boot loader writes:              *)
(* hexutils::hex32doc reads the records and gives each its full address,   *)
(* the plugin lays them out in a memory map and cuts it into packets.      *)
(*                                                                         *)
(* On disk a record is a text: the bytes <<length, address (two), type>>,   *)
(* the data and the checksum, two digits each.  Read, it is a line         *)
(* [type, address, data, sum]; types are 0 (data), 1 (end), 4 (high half   *)
(* of the addresses that follow).  Sizes are scaled down: a byte has       *)
(* HexByte values, a digit Digit.                                          *)
(***************************************************************************)
EXTENDS Integers, Sequences, SequencesExt, FiniteSetsExt, TLC

CONSTANTS
    HexByte,       \* values of a byte
    Digit,         \* values of its lower digit
    Leftover,      \* bytes the buffer may hold behind the end of a line
    BootAddress,   \* BOOT_LOADER_ADDRESS, in words of 2 bytes
    PageWords,     \* BOOT_LOADER_PAGE_SIZE
    Packet,        \* bytes in a message
    DataRecords,   \* {<<address, data>>}: the data records of the files
    Segments,      \* high halves in the type 4 records of the files
    MaxRecords     \* bound on the records of a file

HexFileAssumption ==
    /\ {HexByte, Digit} \subseteq Nat \ {0} /\ HexByte > 4 /\ HexByte % Digit = 0
    /\ Leftover \subseteq 0 .. HexByte - 1
    /\ {BootAddress, MaxRecords} \subseteq Nat
    /\ {PageWords, Packet} \subseteq Nat \ {0} /\ (2 * PageWords) % Packet = 0

VARIABLES
    records,      \* texts of the records on disk
    newline,      \* the last of them has its line end
    spoiled,      \* {<<record, byte>>}: what has a wrong digit
    m_lines,      \* m_doc
    validated,    \* m_doc was valid when it was loaded: the upload was allowed
    m_memoryData,
    sent,         \* payloads of the messages queued by the upload
    source        \* the lines of m_doc as they were read             (history)

vars == <<records, newline, spoiled, m_lines, validated, m_memoryData, sent, source>>

WordSize   == 2
BootByte   == BootAddress * WordSize
PageSize   == PageWords * WordSize
EndRecord  == 1
Garbage    == -1     \* a byte behind the end of m_memoryData

-----------------------------------------------------------------------------
(* hexutils                                                                *)

Checksum(l) ==
    (0 - (Len(l.data) + (l.address \div HexByte) + l.address + l.type + FoldLeft(+, 0, l.data)))
      % HexByte

verifyChecksum(l) == l.sum = Checksum(l)

\* A record as the linker writes it.
Record(type, address, data) ==
    LET body == <<Len(data), address \div HexByte, address % HexByte, type>> \o data
    IN Append(body, (0 - FoldLeft(+, 0, body)) % HexByte)

\* hex32line: as many bytes of the buffer as the first one says, whether the line has
\* them or not; behind its end x stands for whatever the buffer holds.
hex32line(text, x) ==
    LET byte(i) == IF i \in DOMAIN text THEN text[i] ELSE x
    IN [type |-> byte(4), address |-> byte(2) * HexByte + byte(3),
        data |-> [i \in 1 .. byte(1) |-> byte(4 + i)], sum |-> byte(5 + byte(1))]

\* The buffer after a getline that found nothing more: only its first character is
\* overwritten, by the 0 that getHexValue takes for 0xFF.
Unfilled(x) ==
    LET Unread(b) == (HexByte - Digit) + (b % Digit)
    IN IF records = <<>> THEN <<Unread(x)>> ELSE [Last(records) EXCEPT ![1] = Unread(@)]

\* operator<: data records first, by address; the others by type.
Less(k, l) ==
    \/ k.type = 0 /\ l.type = 0 /\ k.address < l.address
    \/ k.type = 0 /\ l.type /= 0
    \/ k.type /= 0 /\ k.type < l.type

\* load: up to the end record.  When none came, and the last line has its line end,
\* the end of the file is not seen yet, and one more line is read.
load(x) ==
    LET read == [i \in DOMAIN records |-> hex32line(records[i], x)]
        ends == {i \in DOMAIN read : read[i].type = EndRecord}
    IN IF ends /= {} THEN SubSeq(read, 1, Min(ends))
       ELSE IF newline \/ read = <<>> THEN Append(read, hex32line(Unfilled(x), x))
       ELSE read

validate(lines) == \A i \in DOMAIN lines : verifyChecksum(lines[i])

\* Mutation of parse: the lines are sorted before the addresses are known.
parseSortedFirst(lines) ==
    LET Parse(acc, l) ==
          IF l.type = 4 /\ Len(l.data) = 2
          THEN [acc EXCEPT !.high = l.data[1] * HexByte + l.data[2], !.out = Append(@, l)]
          ELSE [acc EXCEPT !.out = Append(@,
                  [l EXCEPT !.address = (acc.high * HexByte * HexByte + @) \div 2])]
    IN FoldLeft(Parse, [high |-> 0, out |-> <<>>], SortSeq(lines, Less)).out

\* parse: the address of a data line becomes that of the word, with the high half
\* in force; the first bad line ends this.  Then the lines are sorted.
parse(lines) ==
    LET Bad(l) == ~verifyChecksum(l) \/ (l.type = 4 /\ Len(l.data) /= 2)
        Parse(acc, l) ==
          IF acc.stop \/ Bad(l) THEN [acc EXCEPT !.stop = TRUE, !.out = Append(@, l)]
          ELSE IF l.type = 4
          THEN [acc EXCEPT !.high = l.data[1] * HexByte + l.data[2], !.out = Append(@, l)]
          ELSE IF l.type = 0
          THEN [acc EXCEPT !.out = Append(@,
                  [l EXCEPT !.address = (acc.high * HexByte * HexByte + @) \div WordSize])]
          ELSE [acc EXCEPT !.out = Append(@, l)]
    IN SortSeq(FoldLeft(Parse, [high |-> 0, stop |-> FALSE, out |-> <<>>], lines).out, Less)

-----------------------------------------------------------------------------
(* dsPICBootloader                                                         *)

\* QVector::resize: new bytes are 0.
Resized(mem, size) == [i \in 1 .. size |-> IF i <= Len(mem) THEN mem[i] ELSE 0]

\* generateMemoryMap: what lies at or behind the boot loader is left out, the rest
\* is filled up to a page, and the reset vector jumps to the boot loader.
generateMemoryMap(lines) ==
    LET Place(mem, l) ==
          LET addr == l.address * WordSize
              end  == addr + Len(l.data)
          IN IF l.type /= 0 \/ addr >= BootByte THEN mem
             ELSE [i \in 1 .. Max({Len(mem), end}) |->
                     IF i \in addr + 1 .. end THEN l.data[i - addr]
                     ELSE IF i <= Len(mem) THEN mem[i] ELSE 0]
        mem    == FoldLeft(Place, <<>>, lines)
        modulo == Len(mem) % PageSize
        paged  == IF modulo = 0 THEN mem ELSE Resized(mem, Len(mem) + PageSize - modulo)
    IN IF Len(mem) <= 2 THEN mem
       ELSE [paged EXCEPT ![1] = BootAddress % HexByte,
                          ![2] = (BootAddress \div HexByte) % HexByte]

\* addSendDataInc: packets of full length; after the last byte comes what the
\* memory holds there.
addSendDataInc(mem) ==
    [p \in 1 .. (Len(mem) + Packet - 1) \div Packet |->
       [i \in 1 .. Packet |->
          LET b == (p - 1) * Packet + i IN IF b <= Len(mem) THEN mem[b] ELSE Garbage]]

-----------------------------------------------------------------------------
Init ==
    /\ newline \in BOOLEAN /\ records = <<>> /\ spoiled = {} /\ m_lines = <<>> /\ validated = FALSE
    /\ m_memoryData = <<>> /\ sent = <<>> /\ source = <<>>

FileUnchanged == UNCHANGED <<records, newline, spoiled>>

\* The linker writes one more record, last the end record, the only one without data;
\* on its way to the disk one digit of the file may become a wrong one, so that a byte
\* is more or less than it was.
Write(text) ==
    /\ Len(records) < MaxRecords /\ source = <<>>
    /\ \A i \in DOMAIN records : Len(records[i]) > 5
    /\ \/ records' = Append(records, text) /\ UNCHANGED spoiled
       \/ /\ spoiled = {}
          /\ \E p \in DOMAIN text, d \in {1, HexByte - 1} :
               /\ records' = Append(records, [text EXCEPT ![p] = (@ + d) % HexByte])
               /\ spoiled' = {<<Len(records'), p>>}
    /\ UNCHANGED <<newline, m_lines, validated, m_memoryData, sent, source>>

LinkerWrites ==
    \/ \E r \in DataRecords : Write(Record(0, r[1], r[2]))
    \/ \E h \in Segments : Write(Record(4, 0, <<h \div HexByte, h % HexByte>>))
    \/ Write(Record(EndRecord, 0, <<>>))

\* loadHEX; a document with errors replaces the one before it as well.
loadHEX(x) ==
    LET lines == load(x)
        valid == validate(lines)
    IN /\ m_lines' = IF valid THEN parse(lines) ELSE lines
       /\ validated' = valid
       /\ source' = lines
       /\ FileUnchanged /\ UNCHANGED <<m_memoryData, sent>>

\* upload, generateMessageQueue: the data messages of the queue.  (After a stop()
\* the upload of a refused document is possible as well: Bootloader has that.)
Upload ==
    /\ validated
    /\ m_memoryData' = generateMemoryMap(m_lines)
    /\ sent' = addSendDataInc(m_memoryData')
    /\ FileUnchanged /\ UNCHANGED <<m_lines, validated, source>>

Next ==
    \/ LinkerWrites
    \/ \E x \in Leftover : loadHEX(x)
    \/ Upload

Spec == Init /\ [][Next]_vars

-----------------------------------------------------------------------------
(* Reference: what the records of a file mean.                             *)

\* All that was read is what the linker wrote: no wrong digit in it, and no line made
\* of an unfilled buffer.
ReadAsWritten ==
    /\ Len(source) <= Len(records)
    /\ \A s \in spoiled : s[1] \notin DOMAIN source

\* The high half in force at record i: that of the last type 4 record before it.
HighAt(i) ==
    LET before == {j \in 1 .. i - 1 : source[j].type = 4}
    IN IF before = {} THEN 0
       ELSE source[Max(before)].data[1] * HexByte + source[Max(before)].data[2]

\* Address of the first byte of data record i, when it is below the boot loader.
FirstByte(i) == HighAt(i) * HexByte * HexByte + source[i].address

Placed == {i \in DOMAIN source : source[i].type = 0 /\ FirstByte(i) < BootByte}

\* Contents the file gives to the byte at an address; a set, for records overlap
\* in a file no linker writes.
ContentsAt(b) ==
    {source[i].data[b - FirstByte(i) + 1] :
       i \in {j \in Placed : b \in FirstByte(j) .. FirstByte(j) + Len(source[j].data) - 1}}

\* The bytes sent are those of the file, each at its address, whatever the order of
\* the records and of the halves of the memory; 0 where the file says nothing; whole
\* pages; and the jump to the boot loader at the start, which the file cannot change.
\* (An image of at most one word is not completed: Upload sends it as it is.)
ImageFaithful ==
    Len(m_memoryData) > 2 /\ validated /\ ReadAsWritten =>
      LET bytes == FlattenSeq(sent)
      IN /\ Len(bytes) = Len(m_memoryData) /\ Len(bytes) % PageSize = 0
         /\ bytes[1] + HexByte * bytes[2] = BootAddress % (HexByte * HexByte)
         /\ \A b \in 2 .. Len(bytes) - 1 :
              LET contents == ContentsAt(b)
              IN IF contents = {} THEN bytes[b + 1] = 0 ELSE bytes[b + 1] \in contents
         /\ \A i \in Placed : FirstByte(i) + Len(source[i].data) <= Len(bytes)

\* A file with a wrong digit in the address, the type, the data or the checksum of a
\* record that was read is not taken for valid, even when the digit moves the end of
\* the file or the checksum of a line read from an unfilled buffer happens to be right.
\* Nothing of the kind holds for the length of a record: a wrong one moves the place
\* of the checksum, and what is found there may be right.
DamageRefused ==
    validated => \A s \in spoiled : s[1] \in DOMAIN source => s[2] = 1
=============================================================================
