------------------------------ MODULE ByteArray ------------------------------
(***************************************************************************)
(* The serialisation buffer (bytearray.cpp): a list of nodes of BaseSize   *)
(* bytes each, a cursor kept twice, as m_position and as the node m_cur,   *)
(* and typed values written and read across the node boundaries.           *)
(*                                                                         *)
(* mem holds the bytes of all nodes, the k-th node being the k-th run of   *)
(* BaseSize bytes; m_cur is the number of a node, and NULL is 0.  A null   *)
(* pointer that is followed ends the model (fault names the operation).    *)
(* One call of write() or read(), and one round of a loop of a typed or a  *)
(* file operation, is a step; call says which operation is under way.      *)
(*                                                                         *)
(* Bytes and words are narrow: a byte has Radix values, of which a varint  *)
(* uses the upper half for "more follows", and a word has WordSize values, *)
(* where the code has 256, 128 and 2^32 or 2^64.                           *)
(***************************************************************************)
EXTENDS Integers, Sequences, FiniteSets, SequencesExt

CONSTANTS
    BaseSize,     \* m_baseSize
    Radix,        \* the values of a byte, an even number
    WordSize,     \* the values of an unsigned word, an even number
    Inputs,       \* what is written: pairs of a kind and a value of that kind
    Received,     \* what a socket puts into the buffers of getWriteBuffers
    MaxBytes,     \* bound: no position beyond this is written
    MaxWrites,    \* bound: so many operations put bytes into the array
    Raw           \* the content of a byte that was never written

Byte     == 0..(Radix - 1)
Cell     == Byte \cup {Raw}
More     == Radix \div 2
Word     == 0..(WordSize - 1)
Endians  == {"big", "little"}
Host     == "little"
Kinds    == {"byte", "fixed", "uint", "int", "stringF", "stringV"}

ASSUME ByteArrayAssumption ==
    /\ BaseSize \in Nat \ {0}
    /\ More \in Nat \ {0, 1}
    /\ Radix = 2 * More
    /\ WordSize \in Nat \ {0}
    /\ Received \subseteq Seq(Byte)
    /\ MaxBytes \in Nat
    /\ MaxWrites \in Nat
    /\ Raw \notin Byte

VARIABLES
    mem, m_cur, m_position, m_size, m_capacity, m_endian, fault,
    call,     \* the operation that is under way
    items,    \* the values written so far that nothing has overwritten
    out,      \* the result of the last operation
    file,     \* the file of writeToFile and readFromFile
    writes    \* the operations that MaxWrites bounds

cursorVars == <<m_cur, m_position>>
sizeVars   == <<mem, m_size, m_capacity>>
baVars     == <<cursorVars, sizeVars, m_endian, fault>>
vars       == <<baVars, call, items, out, file, writes>>

NoResult == [kind |-> "none"]
NoCall   == [op |-> "none"]
-----------------------------------------------------------------------------
(* The encodings.                                                          *)

\* Mutant: off by one for negative numbers.
EncodeZigzagOff(v) == IF v < 0 THEN (-2 * v) % WordSize ELSE (2 * v) % WordSize

\* A product or a negation that overflows wraps, as it does on this build.
EncodeZigzag(v) == IF v < 0 THEN ((-2 * v) - 1) % WordSize ELSE (2 * v) % WordSize

\* (v >> 1) ^ -(v & 1)
DecodeZigzag(v) == IF v % 2 = 0 THEN v \div 2 ELSE -(v \div 2) - 1

\* byteswap, if the array's order is not the machine's.
InOrder(bytes, endian) == IF endian = Host THEN bytes ELSE Reverse(bytes)

\* The values that are written are values of their kind.
ASSUME InputsAssumption ==
    \A i \in Inputs :
        /\ i = <<i[1], i[2]>>
        /\ i[1] \in Kinds
        /\ i[1] = "byte"  => i[2] \in Byte
        /\ i[1] = "fixed" => i[2] \in 0..(Radix * Radix - 1)
        /\ i[1] = "uint"  => i[2] \in Word
        /\ i[1] = "int"   => i[2] \in -(WordSize \div 2)..(WordSize \div 2 - 1)
        /\ i[1] \in {"stringF", "stringV"} => i[2] \in Seq(Byte)
        /\ i[1] = "stringV" => Len(i[2]) \in Word
-----------------------------------------------------------------------------
(* The nodes.                                                              *)

Nodes == Len(mem) \div BaseSize

\* The next pointer of a node, as a number.
NextNode(bytes, node) == IF node * BaseSize < Len(bytes) THEN node + 1 ELSE 0

\* The rounds of a loop that use up their node, starting at npos of one, with bytes
\* to go after each: the others go to the next node without further test.
FullRounds(npos, size) == (npos + size - 1) \div BaseSize

\* Mutant: a last round that ends with its node stays in it.
NodeBehindStays(bytes, node, npos, size) == node + FullRounds(npos, size)

\* Where the loops of write, read and setPosition leave m_cur: the last round goes
\* to the next node only if it ends with its own.
NodeBehind(bytes, node, npos, size) ==
    LET k    == FullRounds(npos, size)
        last == node + k
    IN  IF npos + size - k * BaseSize = BaseSize THEN NextNode(bytes, last) ELSE last

\* Where the loops of write and read start: npos in the node.
OffsetIn(node) == (node - 1) * BaseSize + (m_position % BaseSize)

getCapacity == m_capacity - m_position
getReadSize == m_size - m_position

\* The nodes that addCapacity appends, from what is missing; the rest of the
\* division is compared with the room that was left.
NewNodes(size) ==
    LET missing == size - getCapacity
    IN  IF missing <= 0 THEN 0
        ELSE missing \div BaseSize + (IF missing % BaseSize > getCapacity THEN 1 ELSE 0)

\* m_cur behind addCapacity.
CurWithRoom(size) ==
    IF size <= getCapacity \/ getCapacity # 0 THEN m_cur
    ELSE IF NewNodes(size) = 0 THEN 0 ELSE Nodes + 1

Grown(size) == mem \o [i \in 1..(NewNodes(size) * BaseSize) |-> Raw]

\* Mutant: m_capacity does not count the nodes.
addCapacityUncounted(size) == UNCHANGED m_capacity

addCapacity(size) == m_capacity' = m_capacity + NewNodes(size) * BaseSize

\* The bytes replaced from this offset on.
Overwrite(old, offset, bytes) ==
    [i \in 1..Len(old) |-> IF i \in (offset + 1)..(offset + Len(bytes))
                           THEN bytes[i - offset] ELSE old[i]]

\* addCapacity, then memcpy node by node from the cursor on; the list must be long
\* enough.
CopyIn(bytes) ==
    LET cur  == CurWithRoom(Len(bytes))
        room == Grown(Len(bytes))
    IN  IF cur = 0 \/ OffsetIn(cur) + Len(bytes) > Len(room)
        THEN fault' = "write" /\ UNCHANGED <<mem, m_capacity>>
        ELSE /\ addCapacity(Len(bytes))
             /\ mem' = Overwrite(room, OffsetIn(cur), bytes)
             /\ UNCHANGED fault

\* The cursor and the size behind the bytes.
MoveOver(bytes) ==
    /\ m_cur' = NodeBehind(Grown(Len(bytes)), CurWithRoom(Len(bytes)),
                           m_position % BaseSize, Len(bytes))
    /\ m_position' = m_position + Len(bytes)
    /\ m_size' = IF m_position + Len(bytes) > m_size THEN m_position + Len(bytes)
                 ELSE m_size

write(bytes) ==
    /\ IF bytes = <<>> THEN UNCHANGED <<cursorVars, sizeVars, fault>>
       ELSE /\ CopyIn(bytes)
            /\ IF fault' = "none" THEN MoveOver(bytes) ELSE UNCHANGED <<cursorVars, m_size>>
    /\ UNCHANGED m_endian

\* What read() copies, and where it leaves the cursor.
Unread(size) == SubSeq(mem, OffsetIn(m_cur) + 1, OffsetIn(m_cur) + size)

\* m_cur->size is loaded even when nothing is to be read: at the end of the last
\* node that load is undefined and may trap.
read(size) ==
    /\ IF m_cur = 0
       THEN fault' \in {"none", "read"} /\ UNCHANGED cursorVars
       ELSE /\ m_cur' = IF size = 0 THEN m_cur
                       ELSE NodeBehind(mem, m_cur, m_position % BaseSize, size)
            /\ m_position' = m_position + size
            /\ UNCHANGED fault
    /\ UNCHANGED <<sizeVars, m_endian>>

\* read() throws std::out_of_range.
TooLong(size) == size > getReadSize
-----------------------------------------------------------------------------
Init ==
    /\ mem = [i \in 1..BaseSize |-> Raw]
    /\ m_cur = 1
    /\ m_position = 0
    /\ m_size = 0
    /\ m_capacity = BaseSize
    /\ m_endian = "big"
    /\ fault = "none"
    /\ call = NoCall
    /\ items = {}
    /\ out = NoResult
    /\ file = <<>>
    /\ writes = 0

\* No operation is under way, or this one is.
During(op) == fault = "none" /\ call.op = op

\* A use of the bound MaxWrites.
Counted == writes < MaxWrites /\ writes' = writes + 1

\* The items that no byte of from..(to - 1) belongs to.
Untouched(from, to) == {i \in items : i.at + i.len <= from \/ to <= i.at}

\* What a string has behind its length.
Text(kind, v) == IF kind \in {"stringF", "stringV"} THEN v ELSE <<>>

\* The call of write() of a typed write; that for the text of a string comes next.
PutBytes(kind, v, bytes) ==
    LET text == Text(kind, v)
        item == [at |-> m_position, len |-> Len(bytes) + Len(text), kind |-> kind,
                 endian |-> m_endian, value |-> v, head |-> bytes]
    IN  /\ m_position + item.len <= MaxBytes
        /\ write(bytes)
        /\ call' = IF text = <<>> THEN NoCall
                   ELSE [op |-> "put", rest |-> text, item |-> item]
        /\ items' = Untouched(m_position, m_position + item.len)
                    \cup (IF text = <<>> THEN {item} ELSE {})

PutVarint(kind, v, word) ==
    /\ call' = [op |-> "encode", kind |-> kind, value |-> v, word |-> word, tmp |-> <<>>]
    /\ UNCHANGED <<baVars, items>>

\* writeF*, write(U)Int*, writeString*, writeFloat, writeDouble, write.
Put(kind, v) ==
    /\ During("none")
    /\ Counted
    /\ \/ kind = "byte"    /\ PutBytes(kind, v, <<v>>)
       \/ kind = "fixed"   /\ PutBytes(kind, v, InOrder(<<v % Radix, v \div Radix>>, m_endian))
       \/ kind = "stringF" /\ PutBytes(kind, v, <<Len(v) % Radix>>)
       \/ kind = "uint"    /\ PutVarint(kind, v, v)
       \/ kind = "int"     /\ PutVarint(kind, v, EncodeZigzag(v))
       \/ kind = "stringV" /\ PutVarint(kind, v, Len(v))
    /\ out' = NoResult
    /\ UNCHANGED file

\* One round of writeUint32 or writeUint64: the low bits go to tmp first, with "more
\* follows" on all bytes but the last.
writeUint ==
    /\ During("encode")
    /\ IF call.word >= More
       THEN /\ call' = [op |-> "encode", kind |-> call.kind, value |-> call.value,
                        word |-> call.word \div More,
                        tmp |-> Append(call.tmp, (call.word % More) + More)]
            /\ UNCHANGED <<baVars, items>>
       ELSE PutBytes(call.kind, call.value, Append(call.tmp, call.word))
    /\ UNCHANGED <<out, file, writes>>

\* The text of a string, behind its length.
PutText ==
    /\ During("put")
    /\ write(call.rest)
    /\ call' = NoCall
    /\ items' = items \cup {call.item}
    /\ UNCHANGED <<out, file, writes>>

\* A typed read returns a value, or throws.
Result(c, ok, value) ==
    [kind |-> c.kind, at |-> c.at, endian |-> m_endian, ok |-> ok, value |-> value,
     end |-> m_position']

Returns(c, value) == call' = NoCall /\ out' = Result(c, TRUE, value)

Throws(c) == UNCHANGED baVars /\ call' = NoCall /\ out' = Result(c, FALSE, Raw)

\* What a byte holds when it is looked at: anything, if it was never written.
Loaded(cell) == IF cell = Raw THEN Byte ELSE {cell}

\* readF*, readFloat, readDouble.
ReadFixed(c, size) ==
    LET bytes == InOrder(Unread(size), m_endian)
    IN  IF TooLong(size) THEN Throws(c)
        ELSE /\ read(size)
             /\ Returns(c, IF \E i \in 1..size : bytes[i] = Raw THEN Raw
                           ELSE IF size = 1 THEN bytes[1] ELSE bytes[1] + Radix * bytes[2])

\* A length is known: read() for the text comes next.
ReadLength(c, len) ==
    call' = [op |-> "text", kind |-> c.kind, at |-> c.at, len |-> len] /\ out' = NoResult

\* One round of readUint32 or readUint64; place is 1 << i.
ReadVarint(c) ==
    IF TooLong(1) THEN Throws(c)
    ELSE /\ read(1)
         /\ \E byte \in Loaded(mem[OffsetIn(m_cur) + 1]) :
               LET word == (c.result + (byte % More) * c.place) % WordSize
               IN  IF byte >= More /\ c.place * More < WordSize
                   THEN /\ call' = [op |-> "varint", kind |-> c.kind, at |-> c.at,
                                    result |-> word, place |-> c.place * More]
                        /\ out' = NoResult
                   ELSE \/ c.kind = "uint"    /\ Returns(c, word)
                        \/ c.kind = "int"     /\ Returns(c, DecodeZigzag(word))
                        \/ c.kind = "stringV" /\ ReadLength(c, word)

\* The length of readStringF16 and its relatives.
ReadPrefix(c) ==
    IF TooLong(1) THEN Throws(c)
    ELSE /\ read(1)
         /\ \E byte \in Loaded(mem[OffsetIn(m_cur) + 1]) : ReadLength(c, byte)

\* A typed read, up to its first call of read().
Get(kind) ==
    LET c == [op |-> "varint", kind |-> kind, at |-> m_position, result |-> 0, place |-> 1]
    IN  /\ During("none")
        /\ \/ kind = "byte"    /\ ReadFixed(c, 1)
           \/ kind = "fixed"   /\ ReadFixed(c, 2)
           \/ kind = "stringF" /\ ReadPrefix(c)
           \/ kind \in {"uint", "int", "stringV"} /\ ReadVarint(c)
        /\ UNCHANGED <<items, file, writes>>

GetVarint ==
    /\ During("varint")
    /\ ReadVarint(call)
    /\ UNCHANGED <<items, file, writes>>

GetText ==
    /\ During("text")
    /\ IF TooLong(call.len) THEN Throws(call)
       ELSE /\ read(call.len)
            /\ Returns(call, IF m_cur = 0 THEN <<>> ELSE Unread(call.len))
    /\ UNCHANGED <<items, file, writes>>

\* A position beyond m_capacity throws and changes nothing.
setPosition(v) ==
    /\ During("none")
    /\ v <= m_capacity
    /\ m_position' = v
    /\ m_size' = IF v > m_size THEN v ELSE m_size
    /\ m_cur' = IF v = 0 THEN 1 ELSE NodeBehind(mem, 1, 0, v)
    /\ out' = NoResult
    /\ UNCHANGED <<mem, m_capacity, m_endian, fault, call, items, file, writes>>

setIsLittleEndian(val) ==
    /\ During("none")
    /\ m_endian' = IF val THEN "little" ELSE "big"
    /\ out' = NoResult
    /\ UNCHANGED <<cursorVars, sizeVars, fault, call, items, file, writes>>

\* The first node stays, with what it holds.
clear ==
    /\ During("none")
    /\ mem' = SubSeq(mem, 1, BaseSize)
    /\ m_cur' = 1
    /\ m_position' = 0
    /\ m_size' = 0
    /\ m_capacity' = BaseSize
    /\ items' = {}
    /\ out' = NoResult
    /\ UNCHANGED <<m_endian, fault, call, file, writes>>

\* getWriteBuffers, and the data that arrives in the buffers.  The position
\* stays; the caller moves it afterwards.
getWriteBuffers(bytes) ==
    /\ During("none")
    /\ bytes # <<>>
    /\ Counted
    /\ m_position + Len(bytes) <= MaxBytes
    /\ CopyIn(bytes)
    /\ m_cur' = CurWithRoom(Len(bytes))
    /\ items' = Untouched(m_position, m_position + Len(bytes))
    /\ out' = NoResult
    /\ UNCHANGED <<m_position, m_size, m_endian, call, file>>

\* Mutant: the last byte is left out.
getReadBuffersShort(len) ==
    LET n == IF len > getReadSize THEN getReadSize ELSE len
    IN  /\ During("none")
        /\ n > 0
        /\ out' = [kind |-> "peek", len |-> n, value |-> Unread(n - 1)]
        /\ UNCHANGED <<baVars, call, items, file, writes>>

\* getReadBuffers, and toString when len is everything: nothing is consumed.
getReadBuffers(len) ==
    LET n == IF len > getReadSize THEN getReadSize ELSE len
    IN  /\ During("none")
        /\ n > 0
        /\ out' = [kind |-> "peek", len |-> n, value |-> Unread(n)]
        /\ UNCHANGED <<baVars, call, items, file, writes>>

\* The file is opened and truncated.
writeToFile ==
    /\ During("none")
    /\ call' = [op |-> "save", cur |-> m_cur, pos |-> m_position, rest |-> getReadSize]
    /\ file' = <<>>
    /\ out' = NoResult
    /\ UNCHANGED <<baVars, items, writes>>

\* One round: the offset diff is taken off len also when the data ends in the first
\* node, so cur and pos may part, and len be negative.
SaveNode ==
    LET diff == call.pos % BaseSize
        len  == (IF call.rest > BaseSize THEN BaseSize ELSE call.rest) - diff
        from == (call.cur - 1) * BaseSize + diff
    IN  /\ During("save")
        /\ call.rest > 0
        /\ IF call.cur = 0 \/ len < 0
           THEN fault' = "writeToFile" /\ call' = NoCall /\ UNCHANGED file
           ELSE /\ file' = file \o SubSeq(mem, from + 1, from + len)
                /\ call' = [op |-> "save", cur |-> IF call.cur = Nodes THEN 0 ELSE call.cur + 1,
                            pos |-> call.pos + len, rest |-> call.rest - len]
                /\ UNCHANGED fault
        /\ UNCHANGED <<cursorVars, sizeVars, m_endian, items, out, writes>>

SaveDone ==
    /\ During("save")
    /\ call.rest = 0
    /\ call' = NoCall
    /\ out' = [kind |-> "peek", len |-> getReadSize, value |-> file]
    /\ UNCHANGED <<baVars, items, file, writes>>

readFromFile ==
    /\ During("none")
    /\ Counted
    /\ m_position + Len(file) <= MaxBytes
    /\ call' = [op |-> "load", rest |-> file]
    /\ items' = Untouched(m_position, m_position + Len(file))
    /\ out' = NoResult
    /\ UNCHANGED <<baVars, file>>

\* One round: up to m_baseSize bytes are read, fewer at the end of the file.
LoadNode ==
    LET n == IF Len(call.rest) > BaseSize THEN BaseSize ELSE Len(call.rest)
    IN  /\ During("load")
        /\ write(SubSeq(call.rest, 1, n))
        /\ call' = IF n < BaseSize THEN NoCall
                   ELSE [op |-> "load", rest |-> SubSeq(call.rest, n + 1, Len(call.rest))]
        /\ UNCHANGED <<items, out, file, writes>>

Next ==
    \/ \E i \in Inputs : Put(i[1], i[2]) \/ Get(i[1])
    \/ writeUint \/ PutText \/ GetVarint \/ GetText
    \/ \E v \in 0..MaxBytes : setPosition(v)
    \/ \E val \in BOOLEAN : setIsLittleEndian(val)
    \/ clear
    \/ \E bytes \in Received : getWriteBuffers(bytes)
    \/ \E len \in 1..MaxBytes : getReadBuffers(len)
    \/ writeToFile \/ SaveNode \/ SaveDone
    \/ readFromFile \/ LoadNode

Spec == Init /\ [][Next]_vars
-----------------------------------------------------------------------------
(* Properties.                                                             *)

\* The node that holds the byte at this offset, or NULL behind the last node.
NodeAt(bytes, offset) == IF offset < Len(bytes) THEN offset \div BaseSize + 1 ELSE 0

\* The object has its type and the cursor kept twice is one cursor: m_cur is the
\* node of m_position (NULL at the end of the list), through node boundaries,
\* growth, seeking and clear(); the position stays within the data, the data
\* within the capacity, and the capacity is that of the list.
CursorAgrees ==
    fault = "none" =>
        /\ mem \in Seq(Cell)
        /\ m_endian \in Endians
        /\ m_capacity = Len(mem)
        /\ m_position \in 0..m_size
        /\ m_size <= m_capacity
        /\ m_cur = NodeAt(mem, m_position)

\* What was written as some type and not overwritten since is read back as that
\* value, and the cursor ends behind it: varints, zigzag numbers, byte order and
\* strings agree with their readers wherever in the list they were put.
ItemsReadBack ==
    \A i \in items :
        /\ out.kind = i.kind
        /\ out.at = i.at
        /\ out.endian = i.endian
        /\ fault = "none"
        => out.ok /\ out.value = i.value /\ out.end = i.at + i.len

\* The buffers handed to a socket, and the file, are the bytes that reading would
\* give: they start at the position, no byte of another node gets between them, and
\* the file has all of them.
PeekIsUnread ==
    out.kind = "peek" =>
        out.value = SubSeq(mem, m_position + 1, m_position + out.len)

\* bytearray.h: addCapacity makes the array able to hold size more bytes, so no
\* write leaves the list of nodes.
WritesFit == fault # "write"
=============================================================================
