-------------------------- MODULE ByteArrayProofs --------------------------
(***************************************************************************)
(* CursorAgrees, PeekIsUnread and ItemsReadBack of ByteArray, for any size *)
(* of a node, any bytes and words, any inputs and any number of operations.*)
(*                                                                         *)
(* The cursor agrees with the position because the loops of read and write *)
(* start at (m_cur - 1) * BaseSize + m_position % BaseSize, which is the   *)
(* position as long as the two agree (StartsAtPosition), and end in the    *)
(* node of the byte behind the last one (LoopEnds); at the end of the      *)
(* list, where m_cur is NULL, addCapacity puts the cursor on the first new *)
(* node, which starts at the position because the list is made of whole    *)
(* nodes (Sound).  writeToFile takes the offset of the position off the    *)
(* length of a piece even when the data ends in the first node.  The loop  *)
(* has then left the node of its pos, with at most pos % BaseSize bytes to *)
(* go, and that stays so until it fails (Saving): a loop that ends has     *)
(* saved everything.                                                       *)
(*                                                                         *)
(* The items are read back because the array holds their bytes (Stored),   *)
(* which the writes of others go around (Writing), and because the loop of *)
(* a varint read keeps a sum: what it has read, and what writeUint still   *)
(* had to write at that byte times the place, are the number (Halfway).    *)
(***************************************************************************)
EXTENDS ByteArray, SequenceTheorems, TLAPS

\* The state between two steps: CursorAgrees, and the list is made of whole nodes,
\* the first of which is always there.
Sound ==
    /\ mem \in Seq(Cell)
    /\ m_endian \in Endians
    /\ m_capacity = Len(mem)
    /\ m_position \in 0..m_size
    /\ m_size \in Nat
    /\ m_size <= m_capacity
    /\ m_cur = NodeAt(mem, m_position)
    /\ Len(mem) = Nodes * BaseSize
    /\ BaseSize <= Len(mem)

\* What the operation under way still has to do has its type, and no result is out.
Calling ==
    /\ file \in Seq(Cell)
    /\ call.op \in {"put", "load"} => call.rest \in Seq(Cell)
    /\ call.op = "encode" => /\ <<call.kind, call.value>> \in Inputs
                             /\ call.word \in Nat
                             /\ call.tmp \in Seq(Byte)
    /\ call.op \in {"varint", "text"} => call.kind \in Kinds
    /\ call.op = "varint" => call.result \in Nat /\ call.place \in Nat
    /\ call.op = "text" => call.len \in Nat
    /\ call.op # "none" => out.kind = "none"

\* The file holds the bytes up to pos; unless nothing is left, cur is the node of
\* pos, or the loop has left that node too early and can only fail.
Saving ==
    call.op = "save" =>
        /\ call.pos \in m_position..m_size
        /\ call.rest = m_size - call.pos
        /\ call.cur \in Nat
        /\ file = SubSeq(mem, m_position + 1, call.pos)
        /\ \/ call.rest = 0
           \/ call.cur = NodeAt(mem, call.pos)
           \/ call.rest <= call.pos % BaseSize

ByteArrayInv ==
    /\ fault = "none" => Sound /\ Calling /\ Saving
    /\ PeekIsUnread
-----------------------------------------------------------------------------
(* What the items are.                                                     *)

\* Every string written with a length of fixed width is as long as that length says;
\* a longer one is truncated when it is read.
StringsFit == \A i \in Inputs : i[1] = "stringF" => Len(i[2]) < Radix

\* The kinds that start with a varint, and the word that is written as one.
Varints == {"uint", "int", "stringV"}
Number(kind, v) ==
    IF kind = "uint" THEN v ELSE IF kind = "int" THEN EncodeZigzag(v) ELSE Len(v)

\* w[k] is what the loop of writeUint32 has left when it comes to byte k.
Chain(b, v, w) ==
    /\ w \in [1..Len(b) -> Word]
    /\ Len(b) # 0
    /\ w[1] = v
    /\ \A k \in 1..Len(b) :
          IF w[k] < More THEN k = Len(b) /\ b[k] = w[k]
          ELSE k + 1 \in 1..Len(b) /\ b[k] = (w[k] % More) + More /\ w[k + 1] = w[k] \div More

\* The same of a loop that is not over.
Begun(b, v, word) ==
    \E w \in [1..(Len(b) + 1) -> Word] :
        /\ w[1] = v
        /\ w[Len(b) + 1] = word
        /\ \A k \in 1..Len(b) : /\ w[k] >= More
                                /\ b[k] = (w[k] % More) + More
                                /\ w[k + 1] = w[k] \div More

\* The bytes in front of the text of an item say what the item is.
Encoded(i) ==
    /\ <<i.kind, i.value>> \in Inputs
    /\ i.endian \in Endians
    /\ i.at \in Nat
    /\ i.head \in Seq(Byte)
    /\ i.len = Len(i.head) + Len(Text(i.kind, i.value))
    /\ i.kind = "byte"    => i.head = <<i.value>>
    /\ i.kind = "fixed"   =>
          i.head = InOrder(<<i.value % Radix, i.value \div Radix>>, i.endian)
    /\ i.kind = "stringF" => i.head = <<Len(i.value)>>
    /\ i.kind \in Varints => \E w : Chain(i.head, Number(i.kind, i.value), w)

\* These bytes are in the array from this position on.
Holds(at, bytes) ==
    /\ at + Len(bytes) <= m_size
    /\ \A k \in 1..Len(bytes) : mem[at + k] = bytes[k]

Stored(i) ==
    /\ Encoded(i)
    /\ Holds(i.at, i.head)
    /\ Holds(i.at + Len(i.head), Text(i.kind, i.value))

\* What is still to be written is not where an item is, and completes an item.
Writing ==
    /\ call.op \in {"put", "load"} =>
          \A i \in items : \/ i.at + i.len <= m_position
                           \/ m_position + Len(call.rest) <= i.at
    /\ call.op = "put" =>
          /\ Encoded(call.item)
          /\ Holds(call.item.at, call.item.head)
          /\ call.rest = Text(call.item.kind, call.item.value)
          /\ m_position = call.item.at + Len(call.item.head)
    /\ call.op = "encode" =>
          /\ call.kind \in Varints
          /\ Begun(call.tmp, Number(call.kind, call.value), call.word)

\* A read of this kind, that started there, reads this item.
Reads(c, i) == c.kind = i.kind /\ c.at = i.at /\ m_endian = i.endian

\* What has been read of the varint and what is left of it make up the number.
Halfway(c, i) ==
    /\ c.result \in Nat
    /\ c.place \in Nat \ {0}
    /\ \E w : /\ Chain(i.head, Number(i.kind, i.value), w)
              /\ \E k \in 1..Len(i.head) :
                    /\ m_position = i.at + k - 1
                    /\ c.result + w[k] * c.place = Number(i.kind, i.value)

Reading ==
    /\ call.op = "varint" => /\ call.kind \in Varints
                             /\ \A i \in items : Reads(call, i) => Halfway(call, i)
    /\ call.op = "text" =>
          /\ call.kind \in {"stringF", "stringV"}
          /\ \A i \in items : Reads(call, i) =>
                call.len = Len(i.value) /\ m_position = i.at + Len(i.head)

ItemsInv ==
    /\ fault = "none" => /\ \A i \in items : Stored(i)
                         /\ Writing
                         /\ Reading
    /\ ItemsReadBack
-----------------------------------------------------------------------------
(* Offsets, node numbers and offsets in a node.                            *)

\* An offset is a node number and an offset in that node.
LEMMA DivMod ==
    \A a \in Nat :
        /\ a \div BaseSize \in Nat
        /\ a % BaseSize \in 0..(BaseSize - 1)
        /\ a = (a \div BaseSize) * BaseSize + (a % BaseSize)
BY ByteArrayAssumption, Z3

\* A word is its low bits and the rest.
LEMMA MoreDivMod ==
    \A a \in Nat :
        /\ a \div More \in Nat /\ a \div More <= a
        /\ a % More \in 0..(More - 1)
        /\ a = (a \div More) * More + (a % More)
BY ByteArrayAssumption, Z3

\* Nodes are laid out one behind the other.
LEMMA TimesBaseSize ==
    ASSUME NEW q \in Nat, NEW p \in Nat
    PROVE  /\ q * BaseSize \in Nat
           /\ (q + 1) * BaseSize = q * BaseSize + BaseSize
           /\ q < p => q * BaseSize + BaseSize <= p * BaseSize
BY ByteArrayAssumption, Z3

\* The node number and the offset in the node are unique.
LEMMA DivModUnique ==
    ASSUME NEW q \in Nat, NEW r \in 0..(BaseSize - 1)
    PROVE  /\ (q * BaseSize + r) \div BaseSize = q
           /\ (q * BaseSize + r) % BaseSize = r
<1> DEFINE a == q * BaseSize + r
           p == a \div BaseSize
<1>1. BaseSize \in Nat \ {0}
  BY ByteArrayAssumption
<1>2. a \in Nat /\ q * BaseSize \in Nat
  BY <1>1, TimesBaseSize
<1>3. p \in Nat /\ a % BaseSize \in 0..(BaseSize - 1) /\ a = p * BaseSize + (a % BaseSize)
  BY <1>2, DivMod
<1>4. p * BaseSize \in Nat
  BY <1>3, TimesBaseSize
<1> HIDE DEF p, a
<1>5. ~(p < q)
  <2>1. p < q => p * BaseSize + BaseSize <= q * BaseSize
    BY <1>3, TimesBaseSize
  <2> QED
    BY <2>1, <1>1, <1>2, <1>3, <1>4 DEF a
<1>6. ~(q < p)
  <2>1. q < p => q * BaseSize + BaseSize <= p * BaseSize
    BY <1>3, TimesBaseSize
  <2> QED
    BY <2>1, <1>1, <1>2, <1>3, <1>4 DEF a
<1>7. p = q
  BY <1>3, <1>5, <1>6
<1>8. a % BaseSize = r
  BY <1>7, <1>3, <1>2, <1>1 DEF a
<1> QED
  BY <1>7, <1>8 DEF a, p
-----------------------------------------------------------------------------
(* The cursor.                                                             *)

\* The loops end in the node of the byte behind the last one, or with NULL at the end
\* of a list of n whole nodes.
LEMMA LoopEnds ==
    ASSUME NEW bytes, NEW n \in Nat, Len(bytes) = n * BaseSize, NEW node \in Nat \ {0},
           NEW npos \in 0..(BaseSize - 1), NEW size \in Nat \ {0},
           (node - 1) * BaseSize + npos + size <= Len(bytes)
    PROVE  NodeBehind(bytes, node, npos, size)
               = NodeAt(bytes, (node - 1) * BaseSize + npos + size)
<1> DEFINE k   == FullRounds(npos, size)
           r   == (npos + size - 1) % BaseSize
           end == (node - 1) * BaseSize + npos + size
<1>1. BaseSize \in Nat \ {0} /\ node - 1 \in Nat /\ npos + size - 1 \in Nat
  BY ByteArrayAssumption
<1>2. k \in Nat /\ r \in 0..(BaseSize - 1) /\ npos + size - 1 = k * BaseSize + r
  BY <1>1, DivMod DEF FullRounds
<1> DEFINE last == node + k
<1>3. last - 1 \in Nat /\ last \in Nat
  BY <1>2
<1>4. (last - 1) * BaseSize = (node - 1) * BaseSize + k * BaseSize
  <2>1. \A a, b, c \in Nat : (a + b) * c = a * c + b * c
    OBVIOUS
  <2>2. last - 1 = (node - 1) + k
    BY <1>2
  <2> QED
    BY <2>1, <2>2, <1>1, <1>2
<1>5. /\ (node - 1) * BaseSize \in Nat /\ k * BaseSize \in Nat
      /\ (last - 1) * BaseSize \in Nat /\ n * BaseSize \in Nat
  BY <1>1, <1>2, <1>3, TimesBaseSize
<1>6. last * BaseSize = (last - 1) * BaseSize + BaseSize
  <2>1. (last - 1) + 1 = last
    BY <1>3
  <2> QED
    BY <2>1, <1>3, TimesBaseSize
<1>7. NodeBehind(bytes, node, npos, size)
         = IF npos + size - k * BaseSize = BaseSize THEN NextNode(bytes, last) ELSE last
  BY DEF NodeBehind
<1> HIDE DEF k, r, last
<1>8. end = (last - 1) * BaseSize + (r + 1)
  BY <1>1, <1>2, <1>4, <1>5
<1>9. npos + size - k * BaseSize = r + 1
  BY <1>1, <1>2, <1>5
<1> HIDE DEF end
<1>10. CASE r + 1 = BaseSize
  <2>1. end = last * BaseSize
    BY <1>6, <1>8, <1>10
  <2>2. (last * BaseSize + 0) \div BaseSize = last
    BY <1>1, <1>3, DivModUnique
  <2>3. last * BaseSize + 0 = last * BaseSize
    BY <1>1, <1>5, <1>6
  <2> QED
    BY <2>1, <2>2, <2>3, <1>7, <1>9, <1>10 DEF NodeAt, NextNode, end
<1>11. CASE r + 1 # BaseSize
  <2>1. r + 1 \in 0..(BaseSize - 1)
    BY <1>1, <1>2, <1>11
  <2>2. end \div BaseSize = last - 1
    BY <2>1, <1>3, <1>8, DivModUnique
  <2>3. end <= n * BaseSize
    BY DEF end
  <2>4. last - 1 < n
    <3>1. n < last - 1 => n * BaseSize + BaseSize <= (last - 1) * BaseSize
      BY <1>3, TimesBaseSize
    <3>2. n = last - 1 => end = n * BaseSize + (r + 1)
      BY <1>8
    <3> QED
      BY <3>1, <3>2, <2>3, <1>1, <1>2, <1>3, <1>5, <1>8
  <2>5. (last - 1) * BaseSize + BaseSize <= n * BaseSize
    BY <2>4, <1>3, TimesBaseSize
  <2>6. end < Len(bytes)
    BY <2>1, <2>5, <1>1, <1>5, <1>8
  <2>7. (last - 1) + 1 = last
    BY <1>3
  <2>8. NodeAt(bytes, end) = last
    BY <2>2, <2>6, <2>7 DEF NodeAt
  <2> QED
    BY <2>8, <1>7, <1>9, <1>11 DEF end
<1> QED
  BY <1>10, <1>11

\* The loops of read and write start at the position.
LEMMA StartsAtPosition ==
    ASSUME Sound, m_position < Len(mem)
    PROVE  m_cur \in Nat \ {0} /\ OffsetIn(m_cur) = m_position
<1>1. m_position \in Nat /\ Len(mem) \in Nat /\ BaseSize \in Nat \ {0}
  BY LenProperties, ByteArrayAssumption DEF Sound
<1>2. m_cur = m_position \div BaseSize + 1
  BY <1>1 DEF Sound, NodeAt
<1>3. /\ m_position \div BaseSize \in Nat
      /\ m_position % BaseSize \in 0..(BaseSize - 1)
      /\ m_position = (m_position \div BaseSize) * BaseSize + (m_position % BaseSize)
  BY <1>1, DivMod
<1>4. m_cur - 1 = m_position \div BaseSize
  BY <1>2, <1>3
<1> QED
  BY <1>2, <1>3, <1>4, <1>1 DEF OffsetIn

\* addCapacity appends whole nodes.
LEMMA GrownByNodes ==
    ASSUME Sound, NEW size \in Nat
    PROVE  /\ NewNodes(size) \in Nat
           /\ Grown(size) \in Seq(Cell)
           /\ Len(Grown(size)) = Len(mem) + NewNodes(size) * BaseSize
           /\ Len(Grown(size)) = (Nodes + NewNodes(size)) * BaseSize
           /\ Nodes \in Nat
           /\ size <= getCapacity => NewNodes(size) = 0
<1>1. m_position \in Nat /\ Len(mem) \in Nat /\ BaseSize \in Nat \ {0} /\ getCapacity \in Nat
  BY LenProperties, ByteArrayAssumption DEF Sound, getCapacity
<1>2. Nodes \in Nat
  BY <1>1, DivMod DEF Nodes
<1>3. NewNodes(size) \in Nat /\ (size <= getCapacity => NewNodes(size) = 0)
  <2> DEFINE missing == size - getCapacity
  <2>1. CASE size <= getCapacity
    BY <2>1, <1>1 DEF NewNodes
  <2>2. CASE ~(size <= getCapacity)
    <3>1. missing \in Nat /\ ~(missing <= 0)
      BY <2>2, <1>1
    <3>2. missing \div BaseSize \in Nat
      BY <3>1, DivMod
    <3> QED
      BY <3>1, <3>2, <2>2, <1>1 DEF NewNodes
  <2> QED
    BY <2>1, <2>2
<1>4. NewNodes(size) * BaseSize \in Nat
  BY <1>3, TimesBaseSize
<1> DEFINE new == [i \in 1..(NewNodes(size) * BaseSize) |-> Raw]
<1>5. new \in Seq(Cell) /\ Len(new) = NewNodes(size) * BaseSize
  BY <1>4 DEF Cell
<1>6. Grown(size) \in Seq(Cell) /\ Len(Grown(size)) = Len(mem) + Len(new)
  BY <1>5, ConcatProperties DEF Grown, Sound
<1>7. (Nodes + NewNodes(size)) * BaseSize = Nodes * BaseSize + NewNodes(size) * BaseSize
  BY <1>1, <1>2, <1>3
<1> QED
  BY <1>2, <1>3, <1>5, <1>6, <1>7 DEF Sound

\* A copy that does not leave the list starts at the position, and the list is
\* still made of whole nodes, with m_capacity their size.
LEMMA CopyInKeeps ==
    ASSUME Sound, NEW bytes \in Seq(Cell), bytes # <<>>,
           CopyIn(bytes), fault = "none", fault' = "none"
    PROVE  /\ mem' \in Seq(Cell)
           /\ Len(mem') = Len(Grown(Len(bytes)))
           /\ m_capacity' = Len(mem')
           /\ Len(mem') = Nodes' * BaseSize
           /\ Len(mem) <= Len(mem')
           /\ OffsetIn(CurWithRoom(Len(bytes))) = m_position
           /\ CurWithRoom(Len(bytes)) = NodeAt(mem', m_position)
           /\ m_position + Len(bytes) <= Len(mem')
           /\ mem' = Overwrite(Grown(Len(bytes)), m_position, bytes)
<1> DEFINE n    == Len(bytes)
           cur  == CurWithRoom(n)
           room == Grown(n)
<1>1. /\ m_position \in Nat /\ Len(mem) \in Nat /\ BaseSize \in Nat \ {0}
      /\ n \in Nat \ {0} /\ getCapacity = Len(mem) - m_position /\ getCapacity \in Nat
  BY LenProperties, EmptySeq, ByteArrayAssumption DEF Sound, getCapacity
<1>2. /\ NewNodes(n) \in Nat
      /\ Grown(n) \in Seq(Cell)
      /\ Len(Grown(n)) = Len(mem) + NewNodes(n) * BaseSize
      /\ Len(Grown(n)) = (Nodes + NewNodes(n)) * BaseSize
      /\ Nodes \in Nat
      /\ n <= getCapacity => NewNodes(n) = 0
  BY <1>1, GrownByNodes
<1>2a. m_position \div BaseSize \in Nat /\ m_position % BaseSize \in 0..(BaseSize - 1)
  <2> HIDE DEF n, cur, room
  <2> QED
    BY <1>1, DivMod
<1>3. /\ cur # 0
      /\ OffsetIn(cur) + n <= Len(room)
      /\ m_capacity' = m_capacity + NewNodes(n) * BaseSize
      /\ mem' = Overwrite(room, OffsetIn(cur), bytes)
  <2>1. ~(cur = 0 \/ OffsetIn(cur) + n > Len(room))
    BY SMT DEF CopyIn
  <2>2. cur \in Nat
    <3>1. m_cur = NodeAt(mem, m_position)
      BY DEF Sound
    <3>2. m_cur \in Nat
      BY <3>1, <1>2a DEF NodeAt
    <3> QED
      BY <3>2, <1>2 DEF CurWithRoom
  <2>3. OffsetIn(cur) \in Int
    BY <2>2, <1>1, <1>2a DEF OffsetIn
  <2>4. Len(room) \in Nat
    BY <1>2, LenProperties
  <2> QED
    BY <2>1, <2>3, <2>4, <1>1, SMT DEF CopyIn, addCapacity
<1>4. NewNodes(n) * BaseSize \in Nat
  BY <1>2, TimesBaseSize
<1>5. Len(room) \in Nat
  BY <1>2, LenProperties
<1>6. OffsetIn(cur) = m_position /\ cur = NodeAt(room, m_position)
  <2>1. CASE getCapacity # 0
    <3>1. m_position < Len(mem) /\ cur = m_cur
      BY <2>1, <1>1 DEF CurWithRoom
    <3>2. OffsetIn(cur) = m_position
      BY <3>1, StartsAtPosition
    <3>3. m_cur = NodeAt(mem, m_position)
      BY DEF Sound
    <3>4. m_cur = m_position \div BaseSize + 1
      BY <3>1, <3>3 DEF NodeAt
    <3>5. m_position < Len(room)
      BY <3>1, <1>1, <1>2, <1>4
    <3> QED
      BY <3>1, <3>2, <3>4, <3>5 DEF NodeAt
  <2>2. CASE getCapacity = 0
    <3>1. m_position = Nodes * BaseSize /\ m_position = Len(mem)
      BY <2>2, <1>1 DEF Sound
    <3>2. ~(n <= getCapacity) /\ cur = Nodes + 1 /\ NewNodes(n) # 0
      BY <2>2, <1>1, <1>3 DEF CurWithRoom
    <3>3. 0 \in 0..(BaseSize - 1)
      BY <1>1
    <3>4. Nodes * BaseSize \in Nat
      BY <3>1, <1>1
    <3>5. (Nodes * BaseSize + 0) % BaseSize = 0 /\ (Nodes * BaseSize + 0) \div BaseSize = Nodes
      BY <1>2, <3>3, DivModUnique
    <3>6. m_position % BaseSize = 0 /\ m_position \div BaseSize = Nodes
      BY <3>1, <3>4, <3>5
    <3>7. cur - 1 = Nodes
      BY <3>2, <1>2
    <3>8. OffsetIn(cur) = m_position
      BY <3>1, <3>4, <3>6, <3>7 DEF OffsetIn
    <3>9. NewNodes(n) * BaseSize # 0
      BY <3>2, <1>1, <1>2
    <3>10. m_position < Len(room)
      BY <3>1, <3>9, <1>2, <1>4, <1>1
    <3> QED
      BY <3>2, <3>6, <3>8, <3>10 DEF NodeAt
  <2> QED
    BY <2>1, <2>2
<1>7. mem' \in Seq(Cell) /\ Len(mem') = Len(room)
  <2>1. mem' = [i \in 1..Len(room) |->
                   IF i \in (m_position + 1)..(m_position + n)
                   THEN bytes[i - m_position] ELSE room[i]]
    BY <1>3, <1>6 DEF Overwrite
  <2>2. \A i \in 1..Len(room) : (IF i \in (m_position + 1)..(m_position + n)
                                 THEN bytes[i - m_position] ELSE room[i]) \in Cell
    <3> SUFFICES ASSUME NEW i \in 1..Len(room)
                 PROVE  /\ i \in (m_position + 1)..(m_position + n)
                              => bytes[i - m_position] \in Cell
                        /\ room[i] \in Cell
      OBVIOUS
    <3>1. i \in (m_position + 1)..(m_position + n) => i - m_position \in 1..n
      BY <1>1, <1>5
    <3> QED
      BY <3>1, <1>2, ElementOfSeq
  <2>3. mem' \in [1..Len(room) -> Cell]
    BY <2>1, <2>2
  <2> QED
    BY <2>3, <1>5
<1>8. m_capacity' = Len(mem')
  BY <1>3, <1>7, <1>2 DEF Sound
<1>9. Len(mem') = Nodes' * BaseSize
  <2>1. Nodes + NewNodes(n) \in Nat /\ 0 \in 0..(BaseSize - 1)
    BY <1>1, <1>2
  <2>2. ((Nodes + NewNodes(n)) * BaseSize + 0) \div BaseSize = Nodes + NewNodes(n)
    BY <2>1, DivModUnique
  <2>3. Nodes' = Nodes + NewNodes(n)
    BY <2>2, <1>2, <1>5, <1>7 DEF Nodes
  <2> QED
    BY <2>3, <1>2, <1>7
<1>10. Len(mem) <= Len(mem') /\ m_position + n <= Len(mem')
  BY <1>1, <1>2, <1>3, <1>4, <1>6, <1>7
<1>11. cur = NodeAt(mem', m_position)
  BY <1>6, <1>7 DEF NodeAt
<1>12. mem' = Overwrite(room, m_position, bytes)
  BY <1>3, <1>6
<1> QED
  BY <1>6, <1>7, <1>8, <1>9, <1>10, <1>11, <1>12

\* write() leaves the cursor behind the bytes, in the node of the new position.
LEMMA WriteKeeps ==
    ASSUME Sound, NEW bytes \in Seq(Cell), write(bytes), fault = "none", fault' = "none"
    PROVE  Sound'
<1>1. CASE bytes = <<>>
  BY <1>1 DEF write, Sound, cursorVars, sizeVars, NodeAt, Nodes
<1>2. CASE bytes # <<>>
  <2>1. CopyIn(bytes) /\ MoveOver(bytes) /\ UNCHANGED m_endian
    BY <1>2 DEF write
  <2>2. /\ mem' \in Seq(Cell)
        /\ Len(mem') = Len(Grown(Len(bytes)))
        /\ m_capacity' = Len(mem')
        /\ Len(mem') = Nodes' * BaseSize
        /\ Len(mem) <= Len(mem')
        /\ OffsetIn(CurWithRoom(Len(bytes))) = m_position
        /\ CurWithRoom(Len(bytes)) = NodeAt(mem', m_position)
        /\ m_position + Len(bytes) <= Len(mem')
    BY <2>1, <1>2, CopyInKeeps
  <2>3. Len(bytes) \in Nat /\ Len(mem') \in Nat /\ Len(mem) \in Nat
    BY <2>2, LenProperties DEF Sound
  <2>4. m_cur' = NodeAt(Grown(Len(bytes)), m_position + Len(bytes))
    <3> DEFINE cur  == CurWithRoom(Len(bytes))
               npos == m_position % BaseSize
               room == Grown(Len(bytes))
    <3>1. m_cur' = NodeBehind(room, cur, npos, Len(bytes))
      BY <2>1 DEF MoveOver
    <3>2. m_position \in Nat /\ npos \in 0..(BaseSize - 1) /\ m_position \div BaseSize \in Nat
      BY DivMod DEF Sound
    <3>3. Len(bytes) \in Nat \ {0}
      BY <2>3, <1>2, EmptySeq
    <3>4. m_position < Len(mem')
      BY <2>2, <2>3, <3>2, <3>3
    <3>5. cur \in Nat \ {0}
      BY <2>2, <3>2, <3>4 DEF NodeAt
    <3>6. (cur - 1) * BaseSize + npos = m_position
      BY <2>2 DEF OffsetIn
    <3>7. PICK n \in Nat : Len(room) = n * BaseSize
      <4>1. /\ NewNodes(Len(bytes)) \in Nat /\ Nodes \in Nat
            /\ Len(Grown(Len(bytes))) = (Nodes + NewNodes(Len(bytes))) * BaseSize
        BY <2>3, GrownByNodes
      <4>2. Nodes + NewNodes(Len(bytes)) \in Nat
        BY <4>1
      <4> QED
        BY <4>1, <4>2
    <3>8. (cur - 1) * BaseSize + npos + Len(bytes) <= Len(room)
      BY <2>2, <3>6
    <3> HIDE DEF cur, npos, room
    <3>9. NodeBehind(room, cur, npos, Len(bytes))
             = NodeAt(room, (cur - 1) * BaseSize + npos + Len(bytes))
      BY <3>2, <3>3, <3>5, <3>7, <3>8, LoopEnds
    <3> QED
      BY <3>1, <3>6, <3>9 DEF room
  <2>5. m_position' = m_position + Len(bytes)
    BY <2>1 DEF MoveOver
  <2>6. m_size' = IF m_position' > m_size THEN m_position' ELSE m_size
    BY <2>1 DEF MoveOver
  <2>7. m_cur' = NodeAt(mem', m_position')
    BY <2>2, <2>4, <2>5 DEF NodeAt
  <2>8. m_size' \in Nat /\ m_position' \in 0..m_size' /\ m_size' <= m_capacity'
    BY <2>2, <2>3, <2>5, <2>6 DEF Sound
  <2>9. BaseSize <= Len(mem')
    BY <2>2, <2>3, ByteArrayAssumption DEF Sound
  <2> QED
    BY <2>1, <2>2, <2>7, <2>8, <2>9 DEF Sound, NodeAt
<1> QED
  BY <1>1, <1>2

\* So does read(), and the list stays as it is.
LEMMA ReadKeeps ==
    ASSUME Sound, NEW size \in Nat, ~TooLong(size), read(size), fault' = "none"
    PROVE  Sound'
<1>1. CASE m_cur = 0
  BY <1>1 DEF read, Sound, cursorVars, sizeVars, NodeAt, Nodes
<1>2. CASE m_cur # 0
  <2>1. /\ m_cur' = IF size = 0 THEN m_cur
                    ELSE NodeBehind(mem, m_cur, m_position % BaseSize, size)
        /\ m_position' = m_position + size
        /\ UNCHANGED <<mem, m_size, m_capacity, m_endian>>
    BY <1>2 DEF read, sizeVars
  <2>2. m_cur \in Nat \ {0} /\ OffsetIn(m_cur) = m_position
    BY <1>2, StartsAtPosition DEF Sound, NodeAt
  <2>4. m_position + size \in 0..m_size
    BY DEF TooLong, getReadSize, Sound
  <2>3. m_cur' = NodeAt(mem, m_position + size)
    <3>1. CASE size = 0
      BY <2>1, <3>1 DEF Sound
    <3>2. CASE size # 0
      <4> DEFINE npos == m_position % BaseSize
      <4>1. m_position \in Nat /\ npos \in 0..(BaseSize - 1)
        BY DivMod DEF Sound
      <4>2. (m_cur - 1) * BaseSize + npos = m_position
        BY <2>2 DEF OffsetIn
      <4>3. Len(mem) \in Nat /\ Nodes \in Nat /\ Len(mem) = Nodes * BaseSize
        BY LenProperties, DivMod DEF Sound, Nodes
      <4> HIDE DEF npos
      <4>4. m_position + size <= Len(mem)
        BY <2>4, <4>3 DEF Sound
      <4>5. (m_cur - 1) * BaseSize + npos + size <= Len(mem)
        BY <4>2, <4>4
      <4>6. NodeBehind(mem, m_cur, npos, size) = NodeAt(mem, (m_cur - 1) * BaseSize + npos + size)
        BY <2>2, <3>2, <4>1, <4>3, <4>5, LoopEnds
      <4> QED
        BY <2>1, <3>2, <4>2, <4>6 DEF npos
    <3> QED
      BY <3>1, <3>2
  <2> QED
    BY <2>1, <2>3, <2>4 DEF Sound, NodeAt, Nodes
<1> QED
  BY <1>1, <1>2
-----------------------------------------------------------------------------
(* The operations.                                                         *)

\* A step that keeps the array keeps what is said of it.
LEMMA SameArray == Sound /\ UNCHANGED baVars => Sound'
BY DEF Sound, baVars, cursorVars, sizeVars, NodeAt, Nodes

\* No peek is out: nothing to show of it.
LEMMA NoPeek == (out.kind # "peek")' => PeekIsUnread'
BY DEF PeekIsUnread

\* The byte that is looked at is a byte, whatever the memory held.
LEMMA LoadedByte ==
    ASSUME Sound, ~TooLong(1), NEW byte \in Loaded(mem[OffsetIn(m_cur) + 1])
    PROVE  byte \in Nat
<1>1. m_position \in Nat /\ m_position < Len(mem) /\ Len(mem) \in Nat
  BY LenProperties DEF Sound, TooLong, getReadSize
<1>2. OffsetIn(m_cur) = m_position
  BY <1>1, StartsAtPosition
<1>3. mem[m_position + 1] \in Cell
  BY <1>1, ElementOfSeq DEF Sound
<1>4. byte \in Byte
  BY <1>2, <1>3 DEF Loaded, Cell
<1> QED
  BY <1>4, ByteArrayAssumption DEF Byte

\* One round of a varint.
LEMMA ReadVarintKeeps ==
    ASSUME Sound, fault = "none", file \in Seq(Cell), UNCHANGED file,
           NEW c, c.kind \in Kinds, c.result \in Nat, c.place \in Nat, ReadVarint(c)
    PROVE  /\ fault' = "none" => Sound' /\ Calling' /\ Saving'
           /\ (out.kind # "peek")'
<1>0. WordSize \in Nat \ {0} /\ More \in Nat \ {0, 1}
  BY ByteArrayAssumption
<1>1. CASE TooLong(1)
  <2>1. Throws(c)
    BY <1>1 DEF ReadVarint
  <2>2. Sound'
    BY <2>1, SameArray DEF Throws
  <2>3. call' = NoCall /\ out'.kind = c.kind
    BY <2>1 DEF Throws, Result
  <2> QED
    BY <2>2, <2>3 DEF Calling, Saving, NoCall, Kinds
<1>2. CASE ~TooLong(1)
  <2>1. read(1)
    BY <1>2 DEF ReadVarint
  <2>2. fault' = "none" => Sound'
    BY <2>1, <1>2, ReadKeeps
  <2> DEFINE word(byte) == (c.result + (byte % More) * c.place) % WordSize
  <2>3. PICK byte \in Loaded(mem[OffsetIn(m_cur) + 1]) :
           IF byte >= More /\ c.place * More < WordSize
           THEN /\ call' = [op |-> "varint", kind |-> c.kind, at |-> c.at,
                            result |-> word(byte), place |-> c.place * More]
                /\ out' = NoResult
           ELSE \/ c.kind = "uint"    /\ Returns(c, word(byte))
                \/ c.kind = "int"     /\ Returns(c, DecodeZigzag(word(byte)))
                \/ c.kind = "stringV" /\ ReadLength(c, word(byte))
    BY <1>2 DEF ReadVarint
  <2>4. byte \in Nat
    BY <1>2, LoadedByte
  <2>5. word(byte) \in Nat
    <3>1. byte % More \in Nat
      BY <2>4, <1>0
    <3>2. (byte % More) * c.place \in Nat
      BY <3>1
    <3> HIDE DEF word
    <3>3. c.result + (byte % More) * c.place \in Nat
      BY <3>2
    <3>4. (c.result + (byte % More) * c.place) % WordSize \in Nat
      BY <3>3, <1>0
    <3> QED
      BY <3>4 DEF word
  <2> HIDE DEF word
  <2>6. c.place * More \in Nat
    BY <1>0
  <2>7. CASE /\ call' = [op |-> "varint", kind |-> c.kind, at |-> c.at,
                         result |-> word(byte), place |-> c.place * More]
             /\ out' = NoResult
    BY <2>7, <2>5, <2>6, <2>2 DEF Calling, Saving, NoResult
  <2>8. CASE \E value : Returns(c, value)
    <3>1. call' = NoCall /\ out'.kind = c.kind
      BY <2>8 DEF Returns, Result
    <3> QED
      BY <3>1, <2>2 DEF Calling, Saving, NoCall, Kinds
  <2>9. CASE ReadLength(c, word(byte))
    BY <2>9, <2>5, <2>2 DEF ReadLength, Calling, Saving, NoResult
  <2> QED
    BY <2>3, <2>7, <2>8, <2>9
<1> QED
  BY <1>1, <1>2

\* What a typed write gives to write().
LEMMA BytesAreCells ==
    ASSUME NEW bytes \in Seq(Byte)
    PROVE  bytes \in Seq(Cell)
<1>1. Byte \subseteq Cell
  BY DEF Cell
<1> QED
  BY <1>1, SeqMonotonic

\* The text of an input is bytes.
LEMMA TextIsBytes ==
    ASSUME NEW kind, NEW v, <<kind, v>> \in Inputs
    PROVE  Text(kind, v) \in Seq(Byte)
<1>1. kind \in {"stringF", "stringV"} => v \in Seq(Byte)
  BY InputsAssumption
<1> QED
  BY <1>1 DEF Text

\* The call of write() of a typed write.
LEMMA PutBytesKeeps ==
    ASSUME fault = "none", Sound, file \in Seq(Cell), UNCHANGED file, NEW kind, NEW v,
           <<kind, v>> \in Inputs, NEW bytes \in Seq(Byte), PutBytes(kind, v, bytes),
           out'.kind = "none"
    PROVE  ByteArrayInv'
<1> DEFINE text == Text(kind, v)
<1>1. text \in Seq(Cell)
  BY TextIsBytes, BytesAreCells
<1>2. PICK item : /\ write(bytes)
                  /\ call' = IF text = <<>> THEN NoCall
                             ELSE [op |-> "put", rest |-> text, item |-> item]
  BY DEF PutBytes
<1> HIDE DEF text
<1>3. fault' = "none" => Sound'
  BY <1>2, BytesAreCells, WriteKeeps
<1>4. Calling' /\ Saving'
  <2>1. CASE call' = NoCall
    BY <2>1 DEF Calling, Saving, NoCall
  <2>2. CASE call' = [op |-> "put", rest |-> text, item |-> item]
    BY <2>2, <1>1 DEF Calling, Saving
  <2> QED
    BY <2>1, <2>2, <1>2
<1> QED
  BY <1>3, <1>4, NoPeek DEF ByteArrayInv

\* The values of the fixed types are bytes.
LEMMA FixedIsBytes ==
    ASSUME NEW v \in 0..(Radix * Radix - 1), NEW endian
    PROVE  /\ v % Radix \in Byte
           /\ v \div Radix \in Byte
           /\ v = (v % Radix) + Radix * (v \div Radix)
           /\ InOrder(<<v % Radix, v \div Radix>>, endian) \in Seq(Byte)
           /\ Len(InOrder(<<v % Radix, v \div Radix>>, endian)) = 2
<1> DEFINE lo == v % Radix
           hi == v \div Radix
<1>1. Radix \in Nat \ {0} /\ v \in Nat /\ Radix * Radix \in Nat
  BY ByteArrayAssumption
<1>1a. v < Radix * Radix
  BY <1>1
<1>2. lo \in 0..(Radix - 1) /\ hi \in Nat /\ v = Radix * hi + lo
  BY <1>1, Z3
<1> HIDE DEF lo, hi
<1>3. ~(hi >= Radix)
  <2>1. hi >= Radix => Radix * hi >= Radix * Radix
    BY <1>1, <1>2, Z3
  <2>2. Radix * hi \in Nat
    BY <1>1, <1>2
  <2> QED
    BY <2>1, <2>2, <1>1, <1>1a, <1>2
<1>4. lo \in Byte /\ hi \in Byte
  BY <1>1, <1>2, <1>3 DEF Byte
<1>5. v = lo + Radix * hi
  <2>1. Radix * hi \in Nat
    BY <1>1, <1>2
  <2> QED
    BY <2>1, <1>1, <1>2
<1> DEFINE s == <<lo, hi>>
<1>6. s \in Seq(Byte) /\ Len(s) = 2
  BY <1>4
<1>7. Reverse(s) \in Seq(Byte) /\ Len(Reverse(s)) = 2
  BY <1>4, <1>6 DEF Reverse
<1>8. InOrder(s, endian) \in Seq(Byte) /\ Len(InOrder(s, endian)) = 2
  <2> HIDE DEF s
  <2> QED
    BY <1>6, <1>7 DEF InOrder
<1> QED
  BY <1>4, <1>5, <1>8 DEF lo, hi

\* The word of an input that is written as a varint.
LEMMA NumberIsWord ==
    ASSUME NEW kind, NEW v, <<kind, v>> \in Inputs, kind \in Varints
    PROVE  Number(kind, v) \in Word
<1>1. WordSize \in Nat \ {0}
  BY ByteArrayAssumption
<1>2. CASE kind = "uint"
  BY <1>2, InputsAssumption DEF Number
<1>3. CASE kind = "int"
  <2>1. v \in Int
    BY <1>1, <1>3, InputsAssumption
  <2>2. EncodeZigzag(v) \in Word
    BY <2>1, <1>1 DEF EncodeZigzag, Word
  <2> QED
    BY <2>2, <1>3 DEF Number
<1>4. CASE kind = "stringV"
  BY <1>4, InputsAssumption DEF Number
<1> QED
  BY <1>2, <1>3, <1>4 DEF Varints

\* The typed writes, up to the first call of write() or the loop of a varint.
LEMMA PutKeeps ==
    ASSUME ByteArrayInv, NEW i \in Inputs, Put(i[1], i[2])
    PROVE  ByteArrayInv'
<1> DEFINE kind == i[1]
           v    == i[2]
<1>1. fault = "none" /\ Sound /\ Calling
  BY DEF Put, During, ByteArrayInv
<1>2. /\ \/ kind = "byte"    /\ PutBytes(kind, v, <<v>>)
         \/ kind = "fixed"   /\ PutBytes(kind, v, InOrder(<<v % Radix, v \div Radix>>, m_endian))
         \/ kind = "stringF" /\ PutBytes(kind, v, <<Len(v) % Radix>>)
         \/ kind = "uint"    /\ PutVarint(kind, v, v)
         \/ kind = "int"     /\ PutVarint(kind, v, EncodeZigzag(v))
         \/ kind = "stringV" /\ PutVarint(kind, v, Len(v))
      /\ out' = NoResult
      /\ UNCHANGED file
  BY DEF Put
<1>3. <<kind, v>> \in Inputs
  BY InputsAssumption
<1>4. /\ kind = "byte" => v \in Byte
      /\ kind = "fixed" => v \in 0..(Radix * Radix - 1)
      /\ kind = "stringF" => v \in Seq(Byte)
  BY InputsAssumption
<1> HIDE DEF kind, v
<1>5. file \in Seq(Cell) /\ out'.kind = "none"
  BY <1>1, <1>2 DEF Calling, NoResult
<1>6. ASSUME NEW bytes \in Seq(Byte), PutBytes(kind, v, bytes) PROVE ByteArrayInv'
  BY <1>1, <1>2, <1>3, <1>5, <1>6, PutBytesKeeps
<1>7. ASSUME kind \in Varints, PutVarint(kind, v, Number(kind, v)) PROVE ByteArrayInv'
  <2>1. /\ call' = [op |-> "encode", kind |-> kind, value |-> v, word |-> Number(kind, v),
                    tmp |-> <<>>]
        /\ UNCHANGED baVars
    BY <1>7 DEF PutVarint
  <2>2. Sound'
    BY <2>1, <1>1, SameArray
  <2>3. Number(kind, v) \in Nat
    BY <1>3, <1>7, NumberIsWord, ByteArrayAssumption DEF Word
  <2>4. Calling' /\ Saving'
    BY <2>1, <2>3, <1>2, <1>3, <1>5 DEF Calling, Saving
  <2> QED
    BY <2>2, <2>4, <1>5, NoPeek DEF ByteArrayInv
<1>8. CASE kind = "byte"
  <2>1. <<v>> \in Seq(Byte)
    BY <1>4, <1>8
  <2> QED
    BY <2>1, <1>2, <1>6, <1>8
<1>9. CASE kind = "fixed"
  BY <1>2, <1>4, <1>6, <1>9, FixedIsBytes
<1>10. CASE kind = "stringF"
  <2>1. Len(v) \in Nat /\ Radix \in Nat \ {0}
    BY <1>4, <1>10, LenProperties, ByteArrayAssumption
  <2>2. Len(v) % Radix \in Byte
    BY <2>1 DEF Byte
  <2>3. <<Len(v) % Radix>> \in Seq(Byte)
    BY <2>2
  <2> QED
    BY <2>3, <1>2, <1>6, <1>10
<1>11. CASE kind \in Varints
  <2>1. PutVarint(kind, v, Number(kind, v))
    BY <1>2, <1>11 DEF Varints, Number
  <2> QED
    BY <2>1, <1>7, <1>11
<1> QED
  BY <1>2, <1>8, <1>9, <1>10, <1>11 DEF Varints

\* A round of writeUint32 or writeUint64, or its call of write().
LEMMA WriteUintKeeps ==
    ASSUME ByteArrayInv, writeUint
    PROVE  ByteArrayInv'
<1>1. fault = "none" /\ call.op = "encode" /\ Sound /\ Calling
  BY DEF writeUint, During, ByteArrayInv
<1>2. /\ <<call.kind, call.value>> \in Inputs /\ call.word \in Nat /\ call.tmp \in Seq(Byte)
      /\ file \in Seq(Cell) /\ out.kind = "none" /\ UNCHANGED <<out, file>>
  BY <1>1 DEF Calling, writeUint
<1>3. More \in Nat \ {0, 1} /\ Radix = 2 * More
  BY ByteArrayAssumption
<1>4. CASE call.word >= More
  <2> DEFINE digit == (call.word % More) + More
             word  == call.word \div More
             tmp   == Append(call.tmp, digit)
  <2>1. /\ call' = [op |-> "encode", kind |-> call.kind, value |-> call.value,
                    word |-> word, tmp |-> tmp]
        /\ UNCHANGED baVars
    BY <1>4 DEF writeUint
  <2>2. digit \in Byte /\ word \in Nat
    <3>1. call.word % More \in 0..(More - 1) /\ call.word \div More \in Nat
      BY <1>2, MoreDivMod
    <3> QED
      BY <3>1, <1>3 DEF Byte
  <2>3. tmp \in Seq(Byte)
    BY <2>2, <1>2, AppendProperties
  <2> HIDE DEF word, tmp, digit
  <2>4. Sound'
    BY <2>1, <1>1, SameArray
  <2>5. Calling' /\ Saving'
    BY <2>1, <2>2, <2>3, <1>2 DEF Calling, Saving
  <2> QED
    BY <2>4, <2>5, <1>2, NoPeek DEF ByteArrayInv
<1>5. CASE ~(call.word >= More)
  <2>1. PutBytes(call.kind, call.value, Append(call.tmp, call.word))
    BY <1>5 DEF writeUint
  <2>2. call.word \in Byte
    BY <1>2, <1>3, <1>5 DEF Byte
  <2>3. Append(call.tmp, call.word) \in Seq(Byte)
    BY <2>2, <1>2, AppendProperties
  <2> QED
    BY <2>1, <2>3, <1>1, <1>2, PutBytesKeeps
<1> QED
  BY <1>4, <1>5

\* The second call of write(), for the text of a string.
LEMMA PutTextKeeps ==
    ASSUME ByteArrayInv, PutText
    PROVE  ByteArrayInv'
<1>1. fault = "none" /\ call.op = "put" /\ Sound /\ Calling
  BY DEF PutText, During, ByteArrayInv
<1>2. call.rest \in Seq(Cell) /\ out.kind = "none"
  BY <1>1 DEF Calling
<1>3. write(call.rest) /\ call' = NoCall /\ UNCHANGED <<out, file>>
  BY DEF PutText
<1>4. fault' = "none" => Sound'
  BY <1>1, <1>2, <1>3, WriteKeeps
<1>5. Calling' /\ Saving' /\ (out.kind # "peek")'
  BY <1>1, <1>2, <1>3 DEF Calling, Saving, NoCall
<1> QED
  BY <1>4, <1>5, NoPeek DEF ByteArrayInv

\* readFromFile: what is read from the file is bytes, and so is the rest of it.
LEMMA LoadNodeKeeps ==
    ASSUME ByteArrayInv, LoadNode
    PROVE  ByteArrayInv'
<1> DEFINE n    == IF Len(call.rest) > BaseSize THEN BaseSize ELSE Len(call.rest)
           tail == SubSeq(call.rest, n + 1, Len(call.rest))
<1>1. fault = "none" /\ call.op = "load" /\ Sound /\ Calling
  BY DEF LoadNode, During, ByteArrayInv
<1>2. call.rest \in Seq(Cell) /\ out.kind = "none" /\ file \in Seq(Cell)
  BY <1>1 DEF Calling
<1>3. Len(call.rest) \in Nat /\ n \in Nat /\ n <= Len(call.rest)
  BY <1>2, LenProperties, ByteArrayAssumption
<1>4. \A k \in 1..Len(call.rest) : call.rest[k] \in Cell
  BY <1>2, ElementOfSeq
<1>5. SubSeq(call.rest, 1, n) \in Seq(Cell)
  <2> HIDE DEF n
  <2>1. \A k \in 1..n : call.rest[k] \in Cell
    BY <1>3, <1>4
  <2> QED
    BY <2>1, <1>3, SubSeqProperties
<1>6. tail \in Seq(Cell)
  <2> HIDE DEF n
  <2>1. \A k \in (n + 1)..Len(call.rest) : call.rest[k] \in Cell
    BY <1>3, <1>4
  <2> QED
    BY <2>1, <1>3, SubSeqProperties
<1>7. /\ write(SubSeq(call.rest, 1, n))
      /\ call' = IF n < BaseSize THEN NoCall ELSE [op |-> "load", rest |-> tail]
      /\ UNCHANGED <<out, file>>
  BY DEF LoadNode
<1> HIDE DEF n, tail
<1>8. fault' = "none" => Sound'
  BY <1>1, <1>5, <1>7, WriteKeeps
<1>9. Calling' /\ Saving' /\ (out.kind # "peek")'
  <2>1. CASE call' = NoCall
    BY <2>1, <1>2, <1>7 DEF Calling, Saving, NoCall
  <2>2. CASE call' = [op |-> "load", rest |-> tail]
    BY <2>2, <1>2, <1>6, <1>7 DEF Calling, Saving
  <2> QED
    BY <2>1, <2>2, <1>7
<1> QED
  BY <1>8, <1>9, NoPeek DEF ByteArrayInv

\* The typed reads, up to their first call of read().
LEMMA GetKeeps ==
    ASSUME ByteArrayInv, NEW i \in Inputs, Get(i[1])
    PROVE  ByteArrayInv'
<1> DEFINE kind == i[1]
           c == [op |-> "varint", kind |-> kind, at |-> m_position, result |-> 0, place |-> 1]
<1>1. fault = "none" /\ Sound /\ file \in Seq(Cell)
  BY DEF Get, During, ByteArrayInv, Calling
<1>2. kind \in Kinds /\ c.kind = kind /\ c.result \in Nat /\ c.place \in Nat
  BY InputsAssumption
<1>3. /\ \/ kind = "byte"    /\ ReadFixed(c, 1)
         \/ kind = "fixed"   /\ ReadFixed(c, 2)
         \/ kind = "stringF" /\ ReadPrefix(c)
         \/ kind \in {"uint", "int", "stringV"} /\ ReadVarint(c)
      /\ UNCHANGED file
  BY DEF Get
<1> HIDE DEF kind, c
<1> SUFFICES /\ fault' = "none" => Sound' /\ Calling' /\ Saving'
             /\ (out.kind # "peek")'
  BY NoPeek DEF ByteArrayInv
<1>4. ASSUME call' = NoCall, out'.kind = c.kind
      PROVE  Calling' /\ Saving' /\ (out.kind # "peek")'
  BY <1>1, <1>2, <1>3, <1>4 DEF Calling, Saving, NoCall, Kinds
<1>5. CASE Throws(c)
  <2>1. Sound'
    BY <1>1, <1>5, SameArray DEF Throws
  <2> QED
    BY <1>4, <1>5, <2>1 DEF Throws, Result
<1>6. ASSUME NEW size \in Nat, ReadFixed(c, size)
      PROVE  /\ fault' = "none" => Sound' /\ Calling' /\ Saving'
             /\ (out.kind # "peek")'
  <2>1. CASE TooLong(size)
    BY <2>1, <1>5, <1>6 DEF ReadFixed
  <2>2. CASE ~TooLong(size)
    <3>1. read(size) /\ \E value : Returns(c, value)
      BY <2>2, <1>6 DEF ReadFixed
    <3>2. fault' = "none" => Sound'
      BY <3>1, <2>2, <1>1, ReadKeeps
    <3> QED
      BY <3>1, <3>2, <1>4 DEF Returns, Result
  <2> QED
    BY <2>1, <2>2
<1>7. CASE ReadPrefix(c)
  <2>1. CASE TooLong(1)
    BY <2>1, <1>5, <1>7 DEF ReadPrefix
  <2>2. CASE ~TooLong(1)
    <3>1. read(1)
      BY <2>2, <1>7 DEF ReadPrefix
    <3>2. PICK byte \in Loaded(mem[OffsetIn(m_cur) + 1]) : ReadLength(c, byte)
      BY <2>2, <1>7 DEF ReadPrefix
    <3>3. fault' = "none" => Sound'
      BY <3>1, <2>2, <1>1, ReadKeeps
    <3>4. byte \in Nat
      BY <1>1, <2>2, LoadedByte
    <3> QED
      BY <3>2, <3>3, <3>4, <1>1, <1>2, <1>3 DEF ReadLength, Calling, Saving, NoResult
  <2> QED
    BY <2>1, <2>2
<1>8. CASE ReadVarint(c)
  BY <1>8, <1>1, <1>2, <1>3, ReadVarintKeeps
<1> QED
  BY <1>3, <1>6, <1>7, <1>8

\* The later rounds of readUint32 and readUint64.
LEMMA GetVarintKeeps ==
    ASSUME ByteArrayInv, GetVarint
    PROVE  ByteArrayInv'
<1>1. fault = "none" /\ call.op = "varint" /\ Sound /\ Calling
  BY DEF GetVarint, During, ByteArrayInv
<1>2. /\ call.kind \in Kinds /\ call.result \in Nat /\ call.place \in Nat
      /\ file \in Seq(Cell)
  BY <1>1 DEF Calling
<1>3. ReadVarint(call) /\ UNCHANGED file
  BY DEF GetVarint
<1>4. /\ fault' = "none" => Sound' /\ Calling' /\ Saving'
      /\ (out.kind # "peek")'
  BY <1>1, <1>2, <1>3, ReadVarintKeeps
<1> QED
  BY <1>4, NoPeek DEF ByteArrayInv

\* The text of a string, or the exception for a length beyond the data.
LEMMA GetTextKeeps ==
    ASSUME ByteArrayInv, GetText
    PROVE  ByteArrayInv'
<1>1. fault = "none" /\ call.op = "text" /\ Sound /\ Calling
  BY DEF GetText, During, ByteArrayInv
<1>2. call.kind \in Kinds /\ call.len \in Nat /\ file \in Seq(Cell) /\ UNCHANGED file
  BY <1>1 DEF Calling, GetText
<1>3. fault' = "none" => Sound'
  <2>1. CASE TooLong(call.len)
    BY <2>1, <1>1, SameArray DEF GetText, Throws
  <2>2. CASE ~TooLong(call.len)
    <3>1. read(call.len)
      BY <2>2 DEF GetText
    <3> QED
      BY <3>1, <2>2, <1>1, <1>2, ReadKeeps
  <2> QED
    BY <2>1, <2>2
<1>4. call' = NoCall /\ out'.kind = call.kind
  BY DEF GetText, Throws, Returns, Result
<1>5. Calling' /\ Saving' /\ (out.kind # "peek")'
  BY <1>2, <1>4 DEF Calling, Saving, NoCall, Kinds
<1> QED
  BY <1>3, <1>5, NoPeek DEF ByteArrayInv

\* setPosition finds the node of the new position.
LEMMA SetPositionKeeps ==
    ASSUME ByteArrayInv, NEW v \in Nat, setPosition(v)
    PROVE  ByteArrayInv'
<1>1. fault = "none" /\ call.op = "none" /\ Sound /\ Calling
  BY DEF setPosition, During, ByteArrayInv
<1>2. Sound'
  <2>1. Len(mem) \in Nat
    BY <1>1, LenProperties DEF Sound
  <2>2. /\ v <= m_capacity /\ m_position' = v
        /\ m_size' = IF v > m_size THEN v ELSE m_size
        /\ m_cur' = IF v = 0 THEN 1 ELSE NodeBehind(mem, 1, 0, v)
        /\ UNCHANGED <<mem, m_capacity, m_endian>>
    BY DEF setPosition
  <2>3. m_size' \in Nat /\ m_position' \in 0..m_size' /\ m_size' <= m_capacity'
    BY <2>1, <2>2, <1>1 DEF Sound
  <2>4. /\ BaseSize \in Nat \ {0} /\ Nodes \in Nat /\ Len(mem) = Nodes * BaseSize
        /\ BaseSize <= Len(mem) /\ m_capacity = Len(mem)
    BY <2>1, <1>1, DivMod, ByteArrayAssumption DEF Sound, Nodes
  <2>5. m_cur' = NodeAt(mem, v)
    <3>1. CASE v = 0
      <4>1. (0 * BaseSize + 0) \div BaseSize = 0
        BY <2>4, DivModUnique
      <4>2. 0 * BaseSize + 0 = 0
        BY <2>4
      <4>3. 0 < Len(mem)
        BY <2>1, <2>4
      <4> QED
        BY <2>2, <3>1, <4>1, <4>2, <4>3 DEF NodeAt
    <3>2. CASE v # 0
      <4>1. (1 - 1) * BaseSize + 0 + v = v
        BY <2>4
      <4>2. (1 - 1) * BaseSize + 0 + v <= Len(mem)
        BY <2>2, <2>4, <4>1
      <4>3. 0 \in 0..(BaseSize - 1) /\ v \in Nat \ {0} /\ 1 \in Nat \ {0}
        BY <2>4, <3>2
      <4>4. NodeBehind(mem, 1, 0, v) = NodeAt(mem, (1 - 1) * BaseSize + 0 + v)
        BY <2>4, <4>2, <4>3, LoopEnds
      <4> QED
        BY <2>2, <3>2, <4>1, <4>4
    <3> QED
      BY <3>1, <3>2
  <2> QED
    BY <2>2, <2>3, <2>5, <1>1 DEF Sound, NodeAt, Nodes
<1>3. Calling' /\ Saving' /\ (out.kind # "peek")'
  BY <1>1 DEF setPosition, Calling, Saving, NoResult
<1> QED
  BY <1>2, <1>3, NoPeek DEF ByteArrayInv

\* clear() keeps the first node alone.
LEMMA ClearKeeps ==
    ASSUME ByteArrayInv, clear
    PROVE  ByteArrayInv'
<1>1. fault = "none" /\ call.op = "none" /\ Sound /\ Calling
  BY DEF clear, During, ByteArrayInv
<1>2. Sound'
  <2>1. mem \in Seq(Cell) /\ Len(mem) \in Nat /\ BaseSize \in Nat \ {0}
    BY <1>1, LenProperties, ByteArrayAssumption DEF Sound
  <2>2. BaseSize <= Len(mem)
    BY <1>1 DEF Sound
  <2>3. \A k \in 1..BaseSize : mem[k] \in Cell
    BY <2>1, <2>2, ElementOfSeq
  <2>4. mem' = SubSeq(mem, 1, BaseSize)
    BY DEF clear
  <2>5. mem' \in Seq(Cell) /\ Len(mem') = BaseSize
    <3>1. /\ SubSeq(mem, 1, BaseSize) \in Seq(Cell)
          /\ Len(SubSeq(mem, 1, BaseSize)) = IF 1 <= BaseSize THEN BaseSize - 1 + 1 ELSE 0
      BY <2>1, <2>3, SubSeqProperties
    <3> QED
      BY <3>1, <2>1, <2>4
  <2>6. Nodes' = 1 /\ NodeAt(mem', 0) = 1
    <3>1. 0 \in 0..(BaseSize - 1)
      BY <2>1
    <3>2. (0 * BaseSize + 0) \div BaseSize = 0 /\ (1 * BaseSize + 0) \div BaseSize = 1
      BY <3>1, DivModUnique
    <3>3. 0 * BaseSize + 0 = 0 /\ 1 * BaseSize + 0 = BaseSize
      BY <2>1
    <3>4. 0 \div BaseSize = 0 /\ BaseSize \div BaseSize = 1
      BY <3>2, <3>3
    <3> QED
      BY <3>4, <2>1, <2>5 DEF Nodes, NodeAt
  <2> QED
    BY <2>1, <2>5, <2>6, <1>1 DEF clear, Sound, NodeAt
<1>3. Calling' /\ Saving' /\ (out.kind # "peek")'
  BY <1>1 DEF clear, Calling, Saving, NoResult
<1> QED
  BY <1>2, <1>3, NoPeek DEF ByteArrayInv

\* getWriteBuffers may move m_cur off NULL, to the node of the position.
LEMMA GetWriteBuffersKeeps ==
    ASSUME ByteArrayInv, NEW bytes \in Received, getWriteBuffers(bytes)
    PROVE  ByteArrayInv'
<1>1. fault = "none" /\ call.op = "none" /\ Sound /\ Calling
  BY DEF getWriteBuffers, During, ByteArrayInv
<1>2. bytes \in Seq(Cell)
  <2>1. bytes \in Seq(Byte) /\ Byte \subseteq Cell
    BY ByteArrayAssumption DEF Cell
  <2> QED
    BY <2>1, SeqMonotonic
<1>3. /\ bytes # <<>> /\ CopyIn(bytes)
      /\ m_cur' = CurWithRoom(Len(bytes))
      /\ out' = NoResult
      /\ UNCHANGED <<m_position, m_size, m_endian, call, file>>
  BY DEF getWriteBuffers
<1>4. fault' = "none" => Sound'
  <2> SUFFICES ASSUME fault' = "none" PROVE Sound'
    OBVIOUS
  <2>1. /\ mem' \in Seq(Cell)
        /\ Len(mem') = Len(Grown(Len(bytes)))
        /\ m_capacity' = Len(mem')
        /\ Len(mem') = Nodes' * BaseSize
        /\ Len(mem) <= Len(mem')
        /\ OffsetIn(CurWithRoom(Len(bytes))) = m_position
        /\ CurWithRoom(Len(bytes)) = NodeAt(mem', m_position)
        /\ m_position + Len(bytes) <= Len(mem')
    BY <1>1, <1>2, <1>3, CopyInKeeps
  <2>2. Len(mem) \in Nat /\ Len(mem') \in Nat
    BY <1>1, <2>1, LenProperties DEF Sound
  <2>3. m_size' \in Nat /\ m_position' \in 0..m_size' /\ m_size' <= m_capacity'
    BY <2>1, <2>2, <1>1, <1>3 DEF Sound
  <2>4. BaseSize <= Len(mem')
    BY <2>1, <2>2, <1>1, ByteArrayAssumption DEF Sound
  <2> QED
    BY <2>1, <2>3, <2>4, <1>1, <1>3 DEF Sound, NodeAt
<1>5. Calling' /\ Saving' /\ (out.kind # "peek")'
  BY <1>1, <1>3 DEF Calling, Saving, NoResult
<1> QED
  BY <1>4, <1>5, NoPeek DEF ByteArrayInv

\* The buffers start at the position, because the cursor is there.
LEMMA GetReadBuffersKeeps ==
    ASSUME ByteArrayInv, NEW len \in Nat, getReadBuffers(len)
    PROVE  ByteArrayInv'
<1> DEFINE n == IF len > getReadSize THEN getReadSize ELSE len
<1>1. fault = "none" /\ call.op = "none" /\ Sound /\ Calling
  BY DEF getReadBuffers, During, ByteArrayInv
<1>2. n > 0 /\ out' = [kind |-> "peek", len |-> n, value |-> Unread(n)]
  BY DEF getReadBuffers
<1>3. UNCHANGED <<baVars, call, file>>
  BY DEF getReadBuffers
<1>4. m_position < Len(mem)
  BY <1>1, <1>2, LenProperties DEF Sound, getReadSize
<1>5. OffsetIn(m_cur) = m_position
  BY <1>1, <1>4, StartsAtPosition
<1> HIDE DEF n
<1>6. PeekIsUnread'
  BY <1>2, <1>3, <1>5 DEF PeekIsUnread, Unread, baVars, cursorVars, sizeVars
<1>7. Sound'
  BY <1>1, <1>3, SameArray
<1>8. Calling' /\ Saving'
  BY <1>1, <1>3 DEF Calling, Saving
<1> QED
  BY <1>6, <1>7, <1>8 DEF ByteArrayInv

\* The loops of writeToFile and readFromFile start.
LEMMA FileOpened ==
    ASSUME ByteArrayInv, writeToFile \/ readFromFile
    PROVE  ByteArrayInv'
<1>1. fault = "none" /\ Sound /\ Calling
  BY DEF writeToFile, readFromFile, During, ByteArrayInv
<1>2. Sound' /\ UNCHANGED baVars /\ out' = NoResult
  BY <1>1, SameArray DEF writeToFile, readFromFile
<1>3. CASE readFromFile
  <2>1. call' = [op |-> "load", rest |-> file] /\ UNCHANGED file
    BY <1>3 DEF readFromFile
  <2>2. Calling' /\ Saving' /\ (out.kind # "peek")'
    BY <2>1, <1>1, <1>2 DEF Calling, Saving, NoResult
  <2> QED
    BY <2>2, <1>2, NoPeek DEF ByteArrayInv
<1>4. CASE writeToFile
  <2>1. /\ call' = [op |-> "save", cur |-> m_cur, pos |-> m_position, rest |-> getReadSize]
        /\ file' = <<>>
    BY <1>4 DEF writeToFile
  <2>2. m_position \in Nat /\ m_size \in Nat /\ m_position <= m_size /\ Len(mem) \in Nat
    BY <1>1, LenProperties DEF Sound
  <2>3. m_cur \in Nat
    <3>1. m_position \div BaseSize \in Nat
      BY <2>2, DivMod
    <3> QED
      BY <3>1, <1>1 DEF Sound, NodeAt
  <2>4. SubSeq(mem, m_position + 1, m_position) = <<>>
    BY <2>2, SubSeqEmpty
  <2>5. Saving'
    BY <2>1, <2>2, <2>3, <2>4, <1>1, <1>2
       DEF Saving, Sound, getReadSize, baVars, cursorVars, sizeVars, NodeAt
  <2>6. Calling' /\ (out.kind # "peek")'
    BY <2>1, <1>2, EmptySeq DEF Calling, NoResult
  <2> QED
    BY <2>5, <2>6, <1>2, NoPeek DEF ByteArrayInv
<1> QED
  BY <1>3, <1>4

\* A loop of writeToFile that ends has reached m_size.
LEMMA SaveDoneKeeps ==
    ASSUME ByteArrayInv, SaveDone
    PROVE  ByteArrayInv'
<1>1. /\ fault = "none" /\ call.op = "save" /\ call.rest = 0
      /\ Sound /\ Calling /\ Saving
  BY DEF SaveDone, During, ByteArrayInv
<1>2. /\ call' = NoCall
      /\ out' = [kind |-> "peek", len |-> getReadSize, value |-> file]
      /\ UNCHANGED <<baVars, file>>
  BY DEF SaveDone
<1>3. call.pos = m_position + getReadSize
  BY <1>1 DEF Saving, Sound, getReadSize
<1>4. file = SubSeq(mem, m_position + 1, m_position + getReadSize)
  BY <1>1, <1>3 DEF Saving
<1>5. PeekIsUnread'
  BY <1>2, <1>4 DEF PeekIsUnread, baVars, cursorVars, sizeVars
<1>6. Sound'
  BY <1>1, <1>2, SameArray
<1>7. Calling' /\ Saving'
  BY <1>1, <1>2 DEF Calling, Saving, NoCall
<1> QED
  BY <1>5, <1>6, <1>7 DEF ByteArrayInv

\* One round of writeToFile: the bytes appended are the next ones, or the loop is
\* past saving.
LEMMA SaveNodeKeeps ==
    ASSUME ByteArrayInv, SaveNode
    PROVE  ByteArrayInv'
<1> DEFINE diff == call.pos % BaseSize
           len  == (IF call.rest > BaseSize THEN BaseSize ELSE call.rest) - diff
           from == (call.cur - 1) * BaseSize + diff
<1>1. /\ fault = "none" /\ call.op = "save" /\ call.rest > 0
      /\ Sound /\ Calling /\ Saving
  BY DEF SaveNode, During, ByteArrayInv
<1>2. /\ call.pos \in m_position..m_size /\ call.rest = m_size - call.pos
      /\ call.cur \in Nat /\ file = SubSeq(mem, m_position + 1, call.pos)
      /\ call.cur = NodeAt(mem, call.pos) \/ call.rest <= diff
      /\ file \in Seq(Cell) /\ out.kind = "none"
  BY <1>1 DEF Saving, Calling
<1>3. /\ m_position \in Nat /\ m_size \in Nat /\ m_size <= Len(mem) /\ Len(mem) \in Nat
      /\ BaseSize \in Nat \ {0} /\ mem \in Seq(Cell) /\ Nodes \in Nat
      /\ call.pos \in Nat /\ call.rest \in Nat \ {0} /\ m_position <= call.pos
      /\ call.pos < m_size
  <2>1. Len(mem) \in Nat
    BY <1>1, LenProperties DEF Sound
  <2>2. Nodes \in Nat
    BY <2>1, DivMod DEF Nodes
  <2> QED
    BY <2>1, <2>2, <1>1, <1>2, ByteArrayAssumption DEF Sound
<1>4. /\ call.pos \div BaseSize \in Nat
      /\ diff \in 0..(BaseSize - 1)
      /\ call.pos = (call.pos \div BaseSize) * BaseSize + diff
  BY <1>3, DivMod
<1>4a. diff \in 0..(BaseSize - 1)
  BY <1>4
<1>5. UNCHANGED <<m_cur, m_position, mem, m_size, m_capacity, m_endian, out>>
  BY DEF SaveNode, cursorVars, sizeVars
<1>6. Sound'
  BY <1>1, <1>5 DEF Sound, NodeAt, Nodes
<1> SUFFICES fault' = "none" => Calling' /\ Saving'
  BY <1>2, <1>5, <1>6, NoPeek DEF ByteArrayInv
<1>7. CASE call.cur = 0 \/ len < 0
  <2>1. fault' = "writeToFile"
    BY <1>7 DEF SaveNode
  <2> QED
    BY <2>1
<1>8. CASE ~(call.cur = 0 \/ len < 0)
  <2> DEFINE next == IF call.cur = Nodes THEN 0 ELSE call.cur + 1
  <2>1. /\ file' = file \o SubSeq(mem, from + 1, from + len)
        /\ call' = [op |-> "save", cur |-> next, pos |-> call.pos + len,
                    rest |-> call.rest - len]
    BY <1>8 DEF SaveNode
  <2>2. len \in Nat /\ from \in Int /\ next \in Nat /\ len <= call.rest
    <3> HIDE DEF diff
    <3>1. len \in Nat /\ len <= call.rest
      BY <1>3, <1>4a, <1>8
    <3>2. (call.cur - 1) * BaseSize \in Int
      BY <1>2, <1>3
    <3>3. from \in Int
      BY <3>2, <1>3, <1>4a
    <3>4. next \in Nat
      BY <1>2
    <3> QED
      BY <3>1, <3>3, <3>4
  <2>2a. len = (IF call.rest >= BaseSize THEN BaseSize ELSE call.rest) - diff
    <3> HIDE DEF diff
    <3> QED
      BY <1>3, <1>4a
  <2> HIDE DEF diff, len, next
  <2>3. ASSUME file' = SubSeq(mem, m_position + 1, call.pos + len), file' \in Seq(Cell),
               \/ call.rest - len = 0
               \/ next = NodeAt(mem, call.pos + len)
               \/ call.rest - len <= (call.pos + len) % BaseSize
        PROVE  Calling' /\ Saving'
    <3> HIDE DEF from
    <3>1. /\ call'.op = "save" /\ call'.cur = next /\ call'.pos = call.pos + len
          /\ call'.rest = call.rest - len
      BY <2>1
    <3>2. Calling'
      BY <3>1, <2>3, <1>2, <1>5 DEF Calling
    <3>3. /\ call.pos + len \in m_position..m_size
          /\ call.rest - len = m_size - (call.pos + len)
      BY <2>2, <1>2, <1>3
    <3>4. Saving'
      BY <3>1, <3>3, <2>2, <2>3, <1>5 DEF Saving, NodeAt
    <3> QED
      BY <3>2, <3>4
  <2>4. CASE call.rest <= diff
    <3>1. len = 0
      BY <2>4, <2>2, <2>2a, <1>3, <1>4a
    <3>2. SubSeq(mem, from + 1, from + len) = <<>>
      <4>1. from + 1 \in Int /\ from + len \in Int /\ from + len < from + 1
        BY <3>1, <2>2
      <4> HIDE DEF from
      <4> QED
        BY <4>1, SubSeqEmpty
    <3>3. file' = file
      <4>1. file \o <<>> = file
        BY <1>2, ConcatEmptySeq
      <4> QED
        BY <4>1, <3>2, <2>1
    <3>4. call.pos + len = call.pos /\ call.rest - len = call.rest
      BY <3>1, <1>3
    <3>5. call.rest - len <= (call.pos + len) % BaseSize
      BY <3>4, <2>4 DEF diff
    <3>6. file' = SubSeq(mem, m_position + 1, call.pos + len) /\ file' \in Seq(Cell)
      BY <3>3, <3>4, <1>2
    <3> QED
      BY <3>5, <3>6, <2>3
  <2>5. CASE call.cur = NodeAt(mem, call.pos) /\ ~(call.rest <= diff)
    <3> DEFINE q == call.pos \div BaseSize
    <3>0. q \in Nat /\ q + 1 \in Nat /\ call.pos = q * BaseSize + diff
      BY <1>4
    <3>1. call.cur = q + 1
      BY <2>5, <1>3 DEF NodeAt
    <3> HIDE DEF q
    <3>2. from = call.pos
      <4>1. call.cur - 1 = q
        BY <3>0, <3>1
      <4> QED
        BY <4>1, <3>0
    <3> HIDE DEF from
    <3>3. call.pos + len <= Len(mem)
      BY <2>2, <1>2, <1>3
    <3>4. file' = SubSeq(mem, m_position + 1, call.pos + len)
      <4>1. /\ m_position + 1 \in 1..(Len(mem) + 1)
            /\ call.pos \in ((m_position + 1) - 1)..Len(mem)
            /\ call.pos + len \in call.pos..Len(mem)
        BY <3>3, <2>2, <1>3
      <4>2. SubSeq(mem, m_position + 1, call.pos) \o SubSeq(mem, call.pos + 1, call.pos + len)
            = SubSeq(mem, m_position + 1, call.pos + len)
        BY <4>1, <1>3, ConcatAdjacentSubSeq
      <4> QED
        BY <4>2, <3>2, <2>1, <1>2
    <3>5. file' \in Seq(Cell)
      <4>1. \A k \in (m_position + 1)..(call.pos + len) : mem[k] \in Cell
        BY <3>3, <2>2, <1>3, ElementOfSeq
      <4>2. m_position + 1 \in Int /\ call.pos + len \in Int
        BY <2>2, <1>3
      <4> QED
        BY <4>1, <4>2, <3>4, SubSeqProperties
    <3>6. CASE call.rest >= BaseSize
      <4>1. len = BaseSize - diff
        BY <3>6, <2>2a
      <4>2. /\ q * BaseSize \in Nat
            /\ (q + 1) * BaseSize = q * BaseSize + BaseSize
            /\ q + 1 \in Nat /\ (q + 1) * BaseSize \in Nat
        BY <3>0, TimesBaseSize
      <4>3. call.pos + len = (q + 1) * BaseSize
        BY <3>0, <4>1, <4>2, <1>3, <1>4a
      <4>4. ((q + 1) * BaseSize) \div BaseSize = q + 1
        <5>1. 0 \in 0..(BaseSize - 1)
          BY <1>3
        <5>2. ((q + 1) * BaseSize + 0) \div BaseSize = q + 1
          BY <5>1, <4>2, DivModUnique
        <5> QED
          BY <5>2, <4>2
      <4>5. Len(mem) = Nodes * BaseSize /\ Nodes * BaseSize \in Nat
        BY <1>1, <1>3 DEF Sound
      <4>6. q < Nodes
        <5>1. q * BaseSize < Nodes * BaseSize
          BY <4>2, <4>5, <3>0, <1>3, <1>4a
        <5>2. Nodes < q => Nodes * BaseSize + BaseSize <= q * BaseSize
          BY <3>0, <1>3, TimesBaseSize
        <5> QED
          BY <5>1, <5>2, <4>2, <4>5, <3>0, <1>3
      <4>7. next = NodeAt(mem, (q + 1) * BaseSize)
        <5>1. CASE q + 1 = Nodes
          BY <5>1, <4>5, <3>1, <4>2 DEF NodeAt, next
        <5>2. CASE q + 1 # Nodes
          <6>1. q + 1 < Nodes
            BY <5>2, <4>6, <3>0, <1>3
          <6>2. (q + 1) * BaseSize + BaseSize <= Nodes * BaseSize
            BY <6>1, <4>2, <1>3, TimesBaseSize
          <6>3. (q + 1) * BaseSize < Len(mem)
            BY <6>2, <4>2, <4>5, <1>3
          <6> QED
            BY <5>2, <6>3, <4>4, <3>1 DEF NodeAt, next
        <5> QED
          BY <5>1, <5>2
      <4>8. next = NodeAt(mem, call.pos + len)
        BY <4>3, <4>7
      <4> QED
        BY <4>8, <3>4, <3>5, <2>3
    <3>7. CASE ~(call.rest >= BaseSize)
      <4>1. len = call.rest - diff /\ call.rest - len = diff
        BY <3>7, <2>2a, <1>3, <1>4a
      <4>2. call.rest \in 0..(BaseSize - 1)
        BY <3>7, <1>3
      <4>3. (q * BaseSize + call.rest) % BaseSize = call.rest
        BY <4>2, <3>0, DivModUnique
      <4>4. call.pos + len = q * BaseSize + call.rest
        <5>1. q * BaseSize \in Nat
          BY <3>0, TimesBaseSize
        <5> QED
          BY <5>1, <4>1, <3>0, <1>3, <1>4a
      <4>5. (call.pos + len) % BaseSize = call.rest
        BY <4>3, <4>4
      <4>6. call.rest - len <= (call.pos + len) % BaseSize
        BY <4>1, <4>5, <2>5, <1>3, <1>4a
      <4> QED
        BY <4>6, <3>4, <3>5, <2>3
    <3> QED
      BY <3>6, <3>7
  <2> QED
    BY <2>4, <2>5, <1>2
<1> QED
  BY <1>7, <1>8
-----------------------------------------------------------------------------
\* The constructor establishes the invariant.
LEMMA ByteArrayInit == Init => ByteArrayInv
<1> SUFFICES ASSUME Init PROVE ByteArrayInv
  OBVIOUS
<1>1. BaseSize \in Nat \ {0}
  BY ByteArrayAssumption
<1>2. mem \in [1..BaseSize -> Cell] /\ Raw \in Cell
  BY DEF Init, Cell
<1>3. mem \in Seq(Cell) /\ Len(mem) = BaseSize
  BY <1>1, <1>2
<1>4. 0 \div BaseSize = 0 /\ BaseSize \div BaseSize = 1
  <2>1. 0 \in 0..(BaseSize - 1)
    BY <1>1
  <2>2. (0 * BaseSize + 0) \div BaseSize = 0 /\ (1 * BaseSize + 0) \div BaseSize = 1
    BY <2>1, DivModUnique
  <2>3. 0 * BaseSize + 0 = 0 /\ 1 * BaseSize + 0 = BaseSize
    BY <1>1
  <2> QED
    BY <2>2, <2>3
<1>5. Nodes = 1 /\ NodeAt(mem, 0) = 1
  BY <1>1, <1>3, <1>4 DEF Nodes, NodeAt
<1>6. /\ m_cur = 1 /\ m_position = 0 /\ m_size = 0 /\ m_capacity = BaseSize
      /\ m_endian = "big" /\ call = NoCall /\ out = NoResult /\ file = <<>>
  BY DEF Init
<1>7. Sound
  BY <1>1, <1>3, <1>5, <1>6 DEF Sound, Endians
<1>8. Calling /\ Saving /\ PeekIsUnread
  BY <1>6 DEF Calling, Saving, PeekIsUnread, NoCall, NoResult
<1> QED
  BY <1>7, <1>8 DEF ByteArrayInv

\* Every operation keeps it.
LEMMA ByteArrayStep == ByteArrayInv /\ [Next]_vars => ByteArrayInv'
<1> SUFFICES ASSUME ByteArrayInv, [Next]_vars PROVE ByteArrayInv'
  OBVIOUS
<1>1. ASSUME NEW i \in Inputs, Put(i[1], i[2]) \/ Get(i[1]) PROVE ByteArrayInv'
  BY <1>1, PutKeeps, GetKeeps
<1>2. CASE writeUint \/ PutText \/ GetVarint \/ GetText
  BY <1>2, WriteUintKeeps, PutTextKeeps, GetVarintKeeps, GetTextKeeps
<1>3. ASSUME NEW v \in 0..MaxBytes, setPosition(v) PROVE ByteArrayInv'
  <2>1. v \in Nat
    BY ByteArrayAssumption
  <2> QED
    BY <2>1, <1>3, SetPositionKeeps
<1>4. ASSUME NEW val \in BOOLEAN, setIsLittleEndian(val) PROVE ByteArrayInv'
  <2>1. fault = "none" /\ call.op = "none" /\ Sound /\ Calling
    BY <1>4 DEF setIsLittleEndian, During, ByteArrayInv
  <2>2. Sound'
    BY <2>1, <1>4 DEF setIsLittleEndian, Sound, Endians, cursorVars, sizeVars, NodeAt, Nodes
  <2>3. Calling' /\ Saving' /\ (out.kind # "peek")'
    BY <2>1, <1>4 DEF setIsLittleEndian, Calling, Saving, NoResult
  <2> QED
    BY <2>2, <2>3, NoPeek DEF ByteArrayInv
<1>5. CASE clear
  BY <1>5, ClearKeeps
<1>6. ASSUME NEW bytes \in Received, getWriteBuffers(bytes) PROVE ByteArrayInv'
  BY <1>6, GetWriteBuffersKeeps
<1>7. ASSUME NEW len \in 1..MaxBytes, getReadBuffers(len) PROVE ByteArrayInv'
  <2>1. len \in Nat
    BY ByteArrayAssumption
  <2> QED
    BY <2>1, <1>7, GetReadBuffersKeeps
<1>8. CASE writeToFile \/ SaveNode \/ SaveDone
  BY <1>8, FileOpened, SaveNodeKeeps, SaveDoneKeeps
<1>9. CASE readFromFile \/ LoadNode
  BY <1>9, FileOpened, LoadNodeKeeps
<1>10. CASE UNCHANGED vars
  <2>1. UNCHANGED <<mem, m_cur, m_position, m_size, m_capacity, m_endian, fault,
                    call, out, file>>
    BY <1>10 DEF vars, baVars, cursorVars, sizeVars
  <2> QED
    BY <2>1 DEF ByteArrayInv, Sound, Calling, Saving, PeekIsUnread, NodeAt, Nodes
<1> QED
  BY <1>1, <1>2, <1>3, <1>4, <1>5, <1>6, <1>7, <1>8, <1>9, <1>10 DEF Next

\* The invariant of which CursorAgrees and PeekIsUnread are parts.
THEOREM ByteArrayInvariant == Spec => []ByteArrayInv
BY ByteArrayInit, ByteArrayStep, PTL DEF Spec

\* m_cur is always the node of m_position, m_capacity the size of the list, and the
\* position within the data (write, read, setPosition, clear, getWriteBuffers and
\* addCapacity of bytearray.cpp), for every node size, every bytes and words and
\* any number of operations.
THEOREM CursorCorrect == Spec => []CursorAgrees
<1>1. ByteArrayInv => CursorAgrees
  BY DEF ByteArrayInv, Sound, CursorAgrees
<1> QED
  BY <1>1, ByteArrayInvariant, PTL

\* getReadBuffers and toString show, and writeToFile saves if it ends, exactly the
\* bytes that read() would return, across any number of nodes.
THEOREM PeekCorrect == Spec => []PeekIsUnread
<1>1. ByteArrayInv => PeekIsUnread
  BY DEF ByteArrayInv
<1> QED
  BY <1>1, ByteArrayInvariant, PTL
-----------------------------------------------------------------------------
(* Items: what a write leaves alone.                                       *)

\* CopyIn changes the bytes it copies only.
LEMMA CopyInStores ==
    ASSUME Sound, NEW bytes \in Seq(Cell), bytes # <<>>,
           CopyIn(bytes), fault = "none", fault' = "none"
    PROVE  /\ \A k \in 1..Len(mem) :
                 k \notin (m_position + 1)..(m_position + Len(bytes)) => mem'[k] = mem[k]
           /\ \A k \in 1..Len(bytes) : mem'[m_position + k] = bytes[k]
<1> DEFINE n    == Len(bytes)
           room == Grown(n)
           new  == [i \in 1..(NewNodes(n) * BaseSize) |-> Raw]
<1>1. /\ Len(mem') = Len(room) /\ Len(mem) <= Len(mem')
      /\ m_position + n <= Len(mem')
      /\ mem' = Overwrite(room, m_position, bytes)
  BY CopyInKeeps
<1>2. m_position \in Nat /\ Len(mem) \in Nat /\ n \in Nat /\ mem \in Seq(Cell)
  BY LenProperties DEF Sound
<1>3. NewNodes(n) \in Nat /\ Len(room) = Len(mem) + NewNodes(n) * BaseSize
  BY <1>2, GrownByNodes
<1>4. NewNodes(n) * BaseSize \in Nat
  BY <1>3, TimesBaseSize
<1>5. \A k \in 1..Len(mem) : room[k] = mem[k]
  <2>1. new \in Seq(Cell) /\ Len(new) = NewNodes(n) * BaseSize
    BY <1>4 DEF Cell
  <2>2. room = mem \o new
    BY DEF Grown
  <2> HIDE DEF new, room
  <2>3. \A k \in 1..(Len(mem) + Len(new)) :
           (mem \o new)[k] = IF k <= Len(mem) THEN mem[k] ELSE new[k - Len(mem)]
    BY <2>1, <1>2, ConcatProperties
  <2> QED
    BY <2>1, <2>2, <2>3, <1>2, <1>4
<1> HIDE DEF n, room
<1>6. Len(room) \in Nat
  BY <1>2, <1>3, <1>4
<1>7. mem' = [i \in 1..Len(room) |-> IF i \in (m_position + 1)..(m_position + n)
                                     THEN bytes[i - m_position] ELSE room[i]]
  BY <1>1 DEF Overwrite, n
<1>8. ASSUME NEW k \in 1..Len(mem), k \notin (m_position + 1)..(m_position + n)
      PROVE  mem'[k] = mem[k]
  <2>1. k \in 1..Len(room)
    BY <1>1, <1>2, <1>6
  <2> QED
    BY <2>1, <1>5, <1>7, <1>8
<1>9. ASSUME NEW k \in 1..n PROVE mem'[m_position + k] = bytes[k]
  <2>1. /\ m_position + k \in 1..Len(room)
        /\ m_position + k \in (m_position + 1)..(m_position + n)
        /\ (m_position + k) - m_position = k
    BY <1>1, <1>2, <1>6
  <2> QED
    BY <2>1, <1>7
<1> QED
  BY <1>8, <1>9 DEF n

\* So does write(), and the position is behind the bytes.
LEMMA WriteStores ==
    ASSUME Sound, NEW bytes \in Seq(Cell), write(bytes), fault = "none", fault' = "none"
    PROVE  /\ m_position' = m_position + Len(bytes)
           /\ m_size <= m_size' /\ m_position' <= m_size'
           /\ UNCHANGED m_endian
           /\ \A k \in 1..Len(mem) :
                 k \notin (m_position + 1)..(m_position + Len(bytes)) => mem'[k] = mem[k]
           /\ \A k \in 1..Len(bytes) : mem'[m_position + k] = bytes[k]
<1>1. m_position \in Nat /\ m_size \in Nat /\ m_position <= m_size /\ Len(bytes) \in Nat
  BY LenProperties DEF Sound
<1>2. CASE bytes = <<>>
  <2>1. UNCHANGED <<mem, m_position, m_size, m_endian>> /\ Len(bytes) = 0
    BY <1>2 DEF write, cursorVars, sizeVars
  <2> QED
    BY <2>1, <1>1
<1>3. CASE bytes # <<>>
  <2>1. CopyIn(bytes) /\ MoveOver(bytes) /\ UNCHANGED m_endian
    BY <1>3 DEF write
  <2>2. /\ \A k \in 1..Len(mem) :
              k \notin (m_position + 1)..(m_position + Len(bytes)) => mem'[k] = mem[k]
        /\ \A k \in 1..Len(bytes) : mem'[m_position + k] = bytes[k]
    BY <2>1, <1>3, CopyInStores
  <2>3. /\ m_position' = m_position + Len(bytes)
        /\ m_size' = IF m_position + Len(bytes) > m_size THEN m_position + Len(bytes) ELSE m_size
    BY <2>1 DEF MoveOver
  <2>4. m_size <= m_size' /\ m_position' <= m_size'
    BY <2>3, <1>1
  <2> QED
    BY <2>1, <2>2, <2>3, <2>4
<1> QED
  BY <1>2, <1>3

\* Bytes that a step leaves alone are still there.
LEMMA HoldsStays ==
    ASSUME Sound, NEW at \in Nat, NEW bytes, Len(bytes) \in Nat, Holds(at, bytes),
           NEW from \in Nat, NEW to \in Nat,
           m_size' \in Nat, m_size <= m_size',
           \A k \in 1..Len(mem) : k \notin (from + 1)..to => mem'[k] = mem[k],
           at + Len(bytes) <= from \/ to <= at
    PROVE  Holds(at, bytes)'
<1>1. Len(mem) \in Nat /\ m_size \in Nat /\ m_size <= Len(mem)
  BY LenProperties DEF Sound
<1>2. at + Len(bytes) <= m_size /\ \A k \in 1..Len(bytes) : mem[at + k] = bytes[k]
  BY DEF Holds
<1>3. at + Len(bytes) <= m_size'
  BY <1>1, <1>2
<1>4. ASSUME NEW k \in 1..Len(bytes) PROVE mem'[at + k] = bytes[k]
  <2>1. at + k \in 1..Len(mem) /\ at + k \notin (from + 1)..to
    BY <1>1, <1>2
  <2> QED
    BY <2>1, <1>2
<1> QED
  BY <1>3, <1>4 DEF Holds

\* The types of an item.
LEMMA EncodedTypes ==
    ASSUME NEW i, Encoded(i)
    PROVE  /\ i.kind \in Kinds
           /\ i.at \in Nat
           /\ i.head \in Seq(Byte) /\ Len(i.head) \in Nat
           /\ Text(i.kind, i.value) \in Seq(Byte) /\ Len(Text(i.kind, i.value)) \in Nat
           /\ i.len = Len(i.head) + Len(Text(i.kind, i.value))
<1>1. <<i.kind, i.value>> \in Inputs
  BY DEF Encoded
<1>2. Text(i.kind, i.value) \in Seq(Byte)
  BY <1>1, TextIsBytes
<1>3. i.kind \in Kinds
  BY <1>1, InputsAssumption
<1> QED
  BY <1>2, <1>3, LenProperties DEF Encoded

\* An item that a step leaves alone is still stored.
LEMMA StoredStays ==
    ASSUME Sound, NEW i, Stored(i), NEW from \in Nat, NEW to \in Nat,
           m_size' \in Nat, m_size <= m_size',
           \A k \in 1..Len(mem) : k \notin (from + 1)..to => mem'[k] = mem[k],
           i.at + i.len <= from \/ to <= i.at
    PROVE  Stored(i)'
<1> DEFINE t == Text(i.kind, i.value)
<1>1. /\ i.at \in Nat /\ Len(i.head) \in Nat /\ Len(t) \in Nat
      /\ i.len = Len(i.head) + Len(t)
  BY EncodedTypes DEF Stored
<1>2. Holds(i.at, i.head) /\ Holds(i.at + Len(i.head), t)
  BY DEF Stored
<1> HIDE DEF t
<1>3. Holds(i.at, i.head)'
  <2>1. i.at + Len(i.head) <= from \/ to <= i.at
    BY <1>1
  <2> QED
    BY <2>1, <1>1, <1>2, HoldsStays
<1>4. Holds(i.at + Len(i.head), t)'
  <2>1. (i.at + Len(i.head)) + Len(t) <= from \/ to <= i.at + Len(i.head)
    BY <1>1
  <2>2. i.at + Len(i.head) \in Nat
    BY <1>1
  <2> QED
    BY <2>1, <2>2, <1>1, <1>2, HoldsStays
<1>5. Encoded(i)
  BY DEF Stored
<1> QED
  BY <1>3, <1>4, <1>5 DEF Stored, t

\* A step that copies nothing leaves all items alone.
LEMMA AllStay ==
    ASSUME Sound, \A i \in items : Stored(i), UNCHANGED mem, m_size' \in Nat, m_size <= m_size'
    PROVE  \A i \in items : Stored(i)'
<1> SUFFICES ASSUME NEW i \in items PROVE Stored(i)'
  OBVIOUS
<1> DEFINE e == i.at + i.len
<1>1. e \in Nat
  <2> DEFINE t == Text(i.kind, i.value)
  <2>1. i.at \in Nat /\ Len(i.head) \in Nat /\ Len(t) \in Nat /\ i.len = Len(i.head) + Len(t)
    BY EncodedTypes DEF Stored
  <2> HIDE DEF t
  <2> QED
    BY <2>1
<1>2. i.at + i.len <= e
  BY <1>1
<1> HIDE DEF e
<1> QED
  BY <1>1, <1>2, StoredStays

\* No result is out, or one that no item is compared with.
LEMMA NothingRead ==
    ASSUME \A i \in items' : Encoded(i), out'.kind \notin Kinds
    PROVE  ItemsReadBack'
BY EncodedTypes DEF ItemsReadBack

-----------------------------------------------------------------------------
(* Items: the typed writes.                                                *)

\* write() of the bytes in front of the text of an item.
LEMMA PutBytesStores ==
    ASSUME Sound, fault = "none", \A i \in items : Stored(i),
           NEW kind, NEW v, <<kind, v>> \in Inputs, NEW bytes \in Seq(Byte),
           PutBytes(kind, v, bytes), Sound' \/ fault' # "none",
           Encoded([at |-> m_position, len |-> Len(bytes) + Len(Text(kind, v)), kind |-> kind,
                    endian |-> m_endian, value |-> v, head |-> bytes]),
           out'.kind = "none"
    PROVE  ItemsInv'
<1> DEFINE text == Text(kind, v)
<1>1. PICK item : item = [at |-> m_position, len |-> Len(bytes) + Len(text), kind |-> kind,
                          endian |-> m_endian, value |-> v, head |-> bytes]
  OBVIOUS
<1>2. Encoded(item)
  BY <1>1
<1>3. /\ item.at = m_position /\ item.len = Len(bytes) + Len(text) /\ item.kind = kind
      /\ item.value = v /\ item.head = bytes
  BY <1>1
<1>4. /\ write(bytes)
      /\ call' = IF text = <<>> THEN NoCall ELSE [op |-> "put", rest |-> text, item |-> item]
      /\ items' = Untouched(m_position, m_position + item.len)
                  \cup (IF text = <<>> THEN {item} ELSE {})
  BY <1>1 DEF PutBytes
<1>5. text \in Seq(Byte) /\ Len(text) \in Nat /\ Len(bytes) \in Nat
  BY TextIsBytes, LenProperties
<1>5a. text = <<>> => Len(text) = 0
  OBVIOUS
<1> HIDE DEF text
<1>6. \A i \in items' : Encoded(i)
  BY <1>2, <1>4 DEF Untouched, Stored
<1>7. Kinds \in SUBSET Kinds /\ "none" \notin Kinds
  BY DEF Kinds
<1>8. ItemsReadBack'
  BY <1>6, <1>7, NothingRead
<1>9. ASSUME fault' = "none"
      PROVE  (\A i \in items' : Stored(i)') /\ Writing' /\ Reading'
  <2>1. /\ m_position' = m_position + Len(bytes)
        /\ m_size <= m_size' /\ m_position' <= m_size'
        /\ \A k \in 1..Len(mem) :
              k \notin (m_position + 1)..(m_position + Len(bytes)) => mem'[k] = mem[k]
        /\ \A k \in 1..Len(bytes) : mem'[m_position + k] = bytes[k]
    BY <1>4, <1>9, BytesAreCells, WriteStores
  <2>2. m_position \in Nat /\ m_size \in Nat /\ m_size' \in Nat
    BY <1>9 DEF Sound
  <2>3. ASSUME NEW i \in Untouched(m_position, m_position + item.len)
        PROVE  /\ Stored(i)'
               /\ i.at + i.len <= m_position' \/ m_position' + Len(text) <= i.at
    <3> DEFINE to == m_position + Len(bytes)
    <3>1. Stored(i) /\ (i.at + i.len <= m_position \/ m_position + item.len <= i.at)
      BY DEF Untouched
    <3>2. i.at \in Nat /\ i.at + i.len \in Nat
      <4> DEFINE t == Text(i.kind, i.value)
      <4>1. i.at \in Nat /\ Len(i.head) \in Nat /\ Len(t) \in Nat /\ i.len = Len(i.head) + Len(t)
        BY <3>1, EncodedTypes DEF Stored
      <4> HIDE DEF t
      <4> QED
        BY <4>1
    <3>3. i.at + i.len <= m_position \/ to <= i.at
      BY <3>1, <3>2, <2>2, <1>3, <1>5
    <3>4. to \in Nat
      BY <2>2, <1>5
    <3>5. \A k \in 1..Len(mem) : k \notin (m_position + 1)..to => mem'[k] = mem[k]
      BY <2>1
    <3> HIDE DEF to
    <3>6. Stored(i)'
      BY <3>1, <3>3, <3>4, <3>5, <2>1, <2>2, StoredStays
    <3>7. i.at + i.len <= m_position' \/ m_position' + Len(text) <= i.at
      BY <3>1, <3>2, <2>1, <2>2, <1>3, <1>5
    <3> QED
      BY <3>6, <3>7
  <2>4. Holds(item.at, item.head)'
    BY <2>1, <1>3 DEF Holds
  <2>5. CASE text = <<>>
    <3>1. Holds(item.at + Len(item.head), text)'
      BY <2>1, <2>2, <2>5, <1>3, <1>5a DEF Holds
    <3>2. Stored(item)'
      BY <3>1, <2>4, <1>2, <1>3 DEF Stored, text
    <3>3. call'.op = "none"
      BY <2>5, <1>4 DEF NoCall
    <3>4. Writing' /\ Reading'
      BY <3>3 DEF Writing, Reading
    <3>5. items' = Untouched(m_position, m_position + item.len) \cup {item}
      BY <2>5, <1>4
    <3> QED
      BY <3>2, <3>4, <3>5, <2>3
  <2>6. CASE text # <<>>
    <3>1. /\ call'.op = "put" /\ call'.rest = text /\ call'.item = item
          /\ items' = Untouched(m_position, m_position + item.len)
      BY <2>6, <1>4
    <3>2. Writing'
      <4>1. text = Text(item.kind, item.value) /\ m_position' = item.at + Len(item.head)
        BY <2>1, <1>3 DEF text
      <4>2. \A i \in items' : i.at + i.len <= m_position' \/ m_position' + Len(text) <= i.at
        BY <3>1, <2>3
      <4>3. Encoded(call.item)'
        BY <3>1, <1>2
      <4>4. Holds(call.item.at, call.item.head)'
        BY <3>1, <2>4 DEF Holds
      <4> QED
        BY <4>1, <4>2, <4>3, <4>4, <3>1 DEF Writing
    <3>3. Reading'
      BY <3>1 DEF Reading
    <3> QED
      BY <3>1, <3>2, <3>3, <2>3
  <2> QED
    BY <2>5, <2>6
<1> QED
  BY <1>8, <1>9 DEF ItemsInv

\* The typed writes start.
LEMMA PutStores ==
    ASSUME StringsFit, ByteArrayInv, ByteArrayInv', ItemsInv, NEW i \in Inputs, Put(i[1], i[2])
    PROVE  ItemsInv'
<1> DEFINE kind == i[1]
           v    == i[2]
<1>1. /\ fault = "none" /\ Sound /\ call.op = "none" /\ (Sound' \/ fault' # "none")
      /\ \A o \in items : Stored(o)
  BY DEF Put, During, ByteArrayInv, ItemsInv
<1>2. /\ \/ kind = "byte"    /\ PutBytes(kind, v, <<v>>)
         \/ kind = "fixed"   /\ PutBytes(kind, v, InOrder(<<v % Radix, v \div Radix>>, m_endian))
         \/ kind = "stringF" /\ PutBytes(kind, v, <<Len(v) % Radix>>)
         \/ kind = "uint"    /\ PutVarint(kind, v, v)
         \/ kind = "int"     /\ PutVarint(kind, v, EncodeZigzag(v))
         \/ kind = "stringV" /\ PutVarint(kind, v, Len(v))
      /\ out' = NoResult
  BY DEF Put
<1>3. <<kind, v>> \in Inputs
  BY InputsAssumption
<1>4. /\ kind = "byte" => v \in Byte
      /\ kind = "fixed" => v \in 0..(Radix * Radix - 1)
      /\ kind = "stringF" => v \in Seq(Byte) /\ Len(v) < Radix
  BY InputsAssumption DEF StringsFit
<1>5. m_position \in Nat /\ m_endian \in Endians
  BY <1>1 DEF Sound
<1>6. out'.kind = "none"
  BY <1>2 DEF NoResult
<1> HIDE DEF kind, v
<1>7. ASSUME NEW bytes \in Seq(Byte), PutBytes(kind, v, bytes), kind \notin Varints,
             kind = "byte" => bytes = <<v>>,
             kind = "fixed" => bytes = InOrder(<<v % Radix, v \div Radix>>, m_endian),
             kind = "stringF" => bytes = <<Len(v)>>
      PROVE  ItemsInv'
  <2> DEFINE item == [at |-> m_position, len |-> Len(bytes) + Len(Text(kind, v)), kind |-> kind,
                      endian |-> m_endian, value |-> v, head |-> bytes]
  <2>1. /\ item.at = m_position /\ item.len = Len(bytes) + Len(Text(kind, v))
        /\ item.kind = kind /\ item.endian = m_endian /\ item.value = v /\ item.head = bytes
    OBVIOUS
  <2> HIDE DEF item
  <2>2. Encoded(item)
    BY <2>1, <1>3, <1>5, <1>7 DEF Encoded
  <2> QED
    BY <2>2, <1>1, <1>3, <1>6, <1>7, PutBytesStores DEF item
<1>8. CASE kind = "byte"
  <2>1. <<v>> \in Seq(Byte)
    BY <1>4, <1>8
  <2> QED
    BY <2>1, <1>2, <1>7, <1>8 DEF Varints
<1>9. CASE kind = "fixed"
  <2> DEFINE b == InOrder(<<v % Radix, v \div Radix>>, m_endian)
  <2>1. b \in Seq(Byte)
    BY <1>4, <1>9, FixedIsBytes
  <2>2. PutBytes(kind, v, b)
    BY <1>2, <1>9
  <2> QED
    BY <2>1, <2>2, <1>7, <1>9 DEF Varints
<1>10. CASE kind = "stringF"
  <2>1. Len(v) \in Nat /\ Radix \in Nat \ {0} /\ Len(v) < Radix
    BY <1>4, <1>10, LenProperties, ByteArrayAssumption
  <2>2. Len(v) % Radix = Len(v) /\ Len(v) \in Byte
    BY <2>1 DEF Byte
  <2>3. <<Len(v)>> \in Seq(Byte)
    BY <2>2
  <2>4. PutBytes(kind, v, <<Len(v)>>)
    BY <2>2, <1>2, <1>10
  <2> QED
    BY <2>3, <2>4, <1>7, <1>10 DEF Varints
<1>11. CASE kind \in Varints
  <2> DEFINE N == Number(kind, v)
  <2>1. PutVarint(kind, v, N)
    BY <1>2, <1>11 DEF Varints, Number
  <2>2. N \in Word
    BY <1>3, <1>11, NumberIsWord
  <2>3. /\ call'.op = "encode" /\ call'.kind = kind /\ call'.value = v /\ call'.word = N
        /\ call'.tmp = <<>>
        /\ UNCHANGED <<mem, m_size, items>>
    BY <2>1 DEF PutVarint, baVars, sizeVars
  <2> HIDE DEF N
  <2>4. Begun(<<>>, N, N)
    <3> DEFINE w == [k \in 1..1 |-> N]
    <3>1. w \in [1..(Len(<<>>) + 1) -> Word] /\ w[1] = N /\ Len(<<>>) = 0
      BY <2>2
    <3> HIDE DEF w
    <3> QED
      BY <3>1 DEF Begun
  <2>5. Writing'
    <3>1. Begun(call'.tmp, Number(call'.kind, call'.value), call'.word)
      BY <2>3, <2>4 DEF N
    <3> QED
      BY <3>1, <2>3, <1>11 DEF Writing
  <2>6. Reading'
    BY <2>3 DEF Reading
  <2>7. \A o \in items' : Stored(o)'
    BY <2>3, <1>1, AllStay DEF Sound
  <2>8. ItemsReadBack'
    BY <2>3, <1>1, <1>6, NothingRead DEF Stored, Kinds
  <2> QED
    BY <2>5, <2>6, <2>7, <2>8 DEF ItemsInv
<1> QED
  BY <1>2, <1>8, <1>9, <1>10, <1>11 DEF Varints

\* A round of writeUint32 or writeUint64 takes the next digit off, and the last one
\* completes the bytes.
LEMMA WriteUintStores ==
    ASSUME ByteArrayInv, ByteArrayInv', ItemsInv, writeUint
    PROVE  ItemsInv'
<1> DEFINE N == Number(call.kind, call.value)
           b == call.tmp
<1>1. /\ fault = "none" /\ Sound /\ call.op = "encode" /\ (Sound' \/ fault' # "none")
      /\ (\A o \in items : Stored(o)) /\ Writing /\ Calling
  BY DEF writeUint, During, ByteArrayInv, ItemsInv
<1>2. /\ <<call.kind, call.value>> \in Inputs /\ call.word \in Nat /\ b \in Seq(Byte)
      /\ out'.kind = "none"
  BY <1>1 DEF Calling, writeUint
<1>3. call.kind \in Varints /\ Begun(b, N, call.word)
  BY <1>1 DEF Writing
<1>4. PICK w \in [1..(Len(b) + 1) -> Word] :
        /\ w[1] = N
        /\ w[Len(b) + 1] = call.word
        /\ \A k \in 1..Len(b) : /\ w[k] >= More
                                /\ b[k] = (w[k] % More) + More
                                /\ w[k + 1] = w[k] \div More
  BY <1>3 DEF Begun
<1>5. More \in Nat \ {0, 1} /\ Radix = 2 * More /\ WordSize \in Nat \ {0} /\ Len(b) \in Nat
  BY <1>2, LenProperties, ByteArrayAssumption
<1>6. call.word \in Word
  BY <1>4, <1>5
<1>7. CASE call.word >= More
  <2> DEFINE digit == (call.word % More) + More
             word  == call.word \div More
             tmp   == Append(b, digit)
  <2>1. /\ call'.op = "encode" /\ call'.kind = call.kind /\ call'.value = call.value
        /\ call'.word = word /\ call'.tmp = tmp
        /\ UNCHANGED <<mem, m_size, items>>
    BY <1>7 DEF writeUint, baVars, sizeVars
  <2>2. digit \in Byte /\ word \in Word
    <3>1. call.word % More \in 0..(More - 1) /\ word \in Nat /\ word <= call.word
      BY <1>2, MoreDivMod
    <3>2. call.word \in 0..(WordSize - 1)
      BY <1>6 DEF Word
    <3> HIDE DEF word
    <3>5. word \in Word
      BY <3>1, <3>2, <1>5 DEF Word
    <3>6. digit \in Byte
      BY <3>1, <1>5 DEF Byte
    <3> QED
      BY <3>5, <3>6
  <2> HIDE DEF digit, word
  <2>3. /\ tmp \in Seq(Byte) /\ Len(tmp) = Len(b) + 1
        /\ \A k \in 1..Len(b) : tmp[k] = b[k]
        /\ tmp[Len(b) + 1] = digit
    BY <2>2, <1>2, AppendProperties
  <2> HIDE DEF tmp
  <2>4. Begun(tmp, N, word)
    <3> DEFINE u == [k \in 1..(Len(tmp) + 1) |-> IF k = Len(tmp) + 1 THEN word ELSE w[k]]
    <3>1. \A k \in 1..(Len(b) + 1) : k \in 1..(Len(tmp) + 1) /\ k # Len(tmp) + 1 /\ u[k] = w[k]
      BY <2>3, <1>5
    <3>2. u \in [1..(Len(tmp) + 1) -> Word]
      <4>1. \A k \in 1..(Len(tmp) + 1) : k # Len(tmp) + 1 => k \in 1..(Len(b) + 1)
        BY <2>3, <1>5
      <4> QED
        BY <4>1, <2>2, <1>4
    <3>3. u[Len(tmp) + 1] = word
      BY <2>3, <1>5
    <3> HIDE DEF u
    <3>4. u[1] = N
      BY <3>1, <1>4, <1>5
    <3>5. ASSUME NEW k \in 1..Len(tmp)
          PROVE  u[k] >= More /\ tmp[k] = (u[k] % More) + More /\ u[k + 1] = u[k] \div More
      <4>1. CASE k = Len(b) + 1
        <5>1. u[k] = call.word /\ tmp[k] = digit /\ k + 1 = Len(tmp) + 1
          BY <4>1, <3>1, <2>3, <1>4, <1>5
        <5> QED
          BY <5>1, <3>3, <1>7 DEF digit, word
      <4>2. CASE k # Len(b) + 1
        <5>1. k \in 1..Len(b) /\ k + 1 \in 1..(Len(b) + 1) /\ k \in 1..(Len(b) + 1)
          BY <4>2, <2>3, <1>5
        <5>2. u[k] = w[k] /\ u[k + 1] = w[k + 1] /\ tmp[k] = b[k]
          BY <5>1, <3>1, <2>3
        <5> QED
          BY <5>1, <5>2, <1>4
      <4> QED
        BY <4>1, <4>2
    <3> QED
      BY <3>2, <3>3, <3>4, <3>5 DEF Begun
  <2>5. Writing'
    <3>1. Begun(call'.tmp, Number(call'.kind, call'.value), call'.word)
      BY <2>1, <2>4
    <3> QED
      BY <3>1, <2>1, <1>3 DEF Writing
  <2>6. Reading'
    BY <2>1 DEF Reading
  <2>7. \A o \in items' : Stored(o)'
    BY <2>1, <1>1, AllStay DEF Sound
  <2>8. ItemsReadBack'
    BY <2>1, <1>1, <1>2, NothingRead DEF Stored, Kinds
  <2> QED
    BY <2>5, <2>6, <2>7, <2>8 DEF ItemsInv
<1>8. CASE ~(call.word >= More)
  <2> DEFINE bytes == Append(b, call.word)
             kind  == call.kind
             v     == call.value
             item  == [at |-> m_position, len |-> Len(bytes) + Len(Text(kind, v)), kind |-> kind,
                       endian |-> m_endian, value |-> v, head |-> bytes]
  <2>1. PutBytes(kind, v, bytes)
    BY <1>8 DEF writeUint
  <2>2. call.word \in Byte /\ call.word < More
    BY <1>2, <1>5, <1>8 DEF Byte
  <2>3. /\ bytes \in Seq(Byte) /\ Len(bytes) = Len(b) + 1
        /\ \A k \in 1..Len(b) : bytes[k] = b[k]
        /\ bytes[Len(b) + 1] = call.word
    BY <2>2, <1>2, AppendProperties
  <2>4. /\ item.at = m_position /\ item.len = Len(bytes) + Len(Text(kind, v))
        /\ item.kind = kind /\ item.endian = m_endian /\ item.value = v /\ item.head = bytes
    OBVIOUS
  <2> HIDE DEF bytes, item
  <2>5. Chain(bytes, N, w)
    <3>1. w \in [1..Len(bytes) -> Word] /\ Len(bytes) # 0
      BY <2>3, <1>4, <1>5
    <3>2. ASSUME NEW k \in 1..Len(bytes)
          PROVE  IF w[k] < More THEN k = Len(bytes) /\ bytes[k] = w[k]
                 ELSE /\ k + 1 \in 1..Len(bytes) /\ bytes[k] = (w[k] % More) + More
                      /\ w[k + 1] = w[k] \div More
      <4>1. CASE k = Len(b) + 1
        BY <4>1, <2>2, <2>3, <1>4
      <4>2. CASE k # Len(b) + 1
        <5>1. k \in 1..Len(b) /\ k + 1 \in 1..Len(bytes)
          BY <4>2, <2>3, <1>5
        <5>2. w[k] \in Word
          BY <3>1
        <5>3. ~(w[k] < More)
          BY <5>1, <5>2, <1>4, <1>5 DEF Word
        <5> QED
          BY <5>1, <5>3, <2>3, <1>4
      <4> QED
        BY <4>1, <4>2
    <3> QED
      BY <3>1, <3>2, <1>4 DEF Chain
  <2>6. Encoded(item)
    <3>1. m_position \in Nat /\ m_endian \in Endians
      BY <1>1 DEF Sound
    <3>2. item.kind \notin {"byte", "fixed", "stringF"}
      BY <2>4, <1>3 DEF Varints
    <3> QED
      BY <3>1, <3>2, <2>3, <2>4, <2>5, <1>2 DEF Encoded
  <2> QED
    BY <2>1, <2>3, <2>6, <1>1, <1>2, PutBytesStores DEF item
<1> QED
  BY <1>7, <1>8

\* The text of a string completes an item.
LEMMA PutTextStores ==
    ASSUME ByteArrayInv, ByteArrayInv', ItemsInv, PutText
    PROVE  ItemsInv'
<1>1. /\ fault = "none" /\ Sound /\ call.op = "put" /\ (Sound' \/ fault' # "none")
      /\ (\A o \in items : Stored(o)) /\ Writing /\ Calling
  BY DEF PutText, During, ByteArrayInv, ItemsInv
<1>2. PICK item, text : item = call.item /\ text = call.rest
  OBVIOUS
<1>3. /\ Encoded(item) /\ Holds(item.at, item.head)
      /\ text = Text(item.kind, item.value)
      /\ m_position = item.at + Len(item.head)
      /\ \A o \in items : o.at + o.len <= m_position \/ m_position + Len(text) <= o.at
  BY <1>1, <1>2 DEF Writing
<1>4. /\ write(text) /\ call' = NoCall /\ items' = items \cup {item} /\ out' = out
      /\ out.kind = "none"
  BY <1>1, <1>2 DEF PutText, Calling
<1>5. /\ item.at \in Nat /\ Len(item.head) \in Nat /\ text \in Seq(Byte) /\ Len(text) \in Nat
  BY <1>3, EncodedTypes
<1>6. ItemsReadBack'
  <2>1. \A o \in items' : Encoded(o)
    BY <1>1, <1>3, <1>4 DEF Stored
  <2> QED
    BY <2>1, <1>4, NothingRead DEF Kinds
<1>7. Writing' /\ Reading'
  BY <1>4 DEF Writing, Reading, NoCall
<1>8. ASSUME fault' = "none" PROVE \A o \in items' : Stored(o)'
  <2> DEFINE to == m_position + Len(text)
  <2>1. /\ m_size <= m_size' /\ m_position' <= m_size' /\ m_position' = to
        /\ \A k \in 1..Len(mem) : k \notin (m_position + 1)..to => mem'[k] = mem[k]
        /\ \A k \in 1..Len(text) : mem'[m_position + k] = text[k]
    BY <1>1, <1>4, <1>5, <1>8, BytesAreCells, WriteStores
  <2>2. m_position \in Nat /\ to \in Nat /\ m_size' \in Nat
    BY <1>1, <1>5, <1>8 DEF Sound
  <2>3. \A o \in items : o.at + o.len <= m_position \/ to <= o.at
    BY <1>3
  <2>4. Holds(item.at + Len(item.head), text)'
    BY <2>1, <1>3 DEF Holds
  <2> HIDE DEF to
  <2>5. \A o \in items : Stored(o)'
    BY <2>1, <2>2, <2>3, <1>1, StoredStays
  <2>6. Holds(item.at, item.head)'
    <3>1. item.at + Len(item.head) <= m_position \/ to <= item.at
      BY <1>3, <2>2
    <3>2. /\ \A k \in 1..Len(mem) : k \notin (m_position + 1)..to => mem'[k] = mem[k]
          /\ m_size <= m_size' /\ Holds(item.at, item.head) /\ Sound
      BY <2>1, <1>1, <1>3
    <3> QED
      BY <3>1, <3>2, <2>2, <1>5, HoldsStays
  <2>7. Stored(item)'
    BY <2>4, <2>6, <1>3 DEF Stored
  <2> QED
    BY <2>5, <2>7, <1>4
<1> QED
  BY <1>6, <1>7, <1>8 DEF ItemsInv

-----------------------------------------------------------------------------
(* Items: the typed reads.                                                 *)

\* A round of readUint32 that starts with r, has w left and adds digits at p.
RoundAdds(w, r, p, n) ==
    /\ w < More => /\ w % More = w
                   /\ (r + (w % More) * p) % WordSize = n
    /\ w >= More => /\ p * More \in Nat \ {0} /\ p * More < WordSize
                    /\ ((w % More) + More) % More = w % More
                    /\ (r + (w % More) * p) % WordSize \in Nat
                    /\ ((r + (w % More) * p) % WordSize) + (w \div More) * (p * More) = n

\* What was read and what is left still make up the number after the round, and no
\* bit is beyond the word.
LEMMA VarintRound ==
    ASSUME NEW w \in Nat, NEW r \in Nat, NEW p \in Nat \ {0}, NEW n \in Word, r + w * p = n
    PROVE  RoundAdds(w, r, p, n)
<1> DEFINE q == w \div More
           d == w % More
<1>1. /\ More \in Nat \ {0, 1} /\ WordSize \in Nat \ {0} /\ n \in Nat /\ n < WordSize
  BY ByteArrayAssumption DEF Word
<1>2. q \in Nat /\ d \in 0..(More - 1) /\ w = q * More + d
  BY MoreDivMod
<1>3. w < More => d = w
  BY <1>1
<1>4. (d + More) % More = d
  <2>1. d \in 0..(More - 1)
    BY <1>2
  <2> HIDE DEF d
  <2> QED
    BY <2>1, <1>1, Z3
<1> HIDE DEF q, d
<1>5. w * p \in Nat /\ d * p \in Nat /\ q * (p * More) \in Nat /\ p * More \in Nat \ {0}
  BY <1>1, <1>2, Z3
<1>6. w * p = q * (p * More) + d * p
  BY <1>1, <1>2, Z3
<1>7. r + d * p \in Nat /\ r + d * p < WordSize
  BY <1>1, <1>5, <1>6
<1>8. (r + d * p) % WordSize = r + d * p
  <2> DEFINE x == r + d * p
  <2>1. x \in Nat /\ x < WordSize
    BY <1>7
  <2> HIDE DEF x
  <2>2. x % WordSize = x
    BY <2>1, <1>1
  <2> QED
    BY <2>2 DEF x
<1>9. (r + d * p) + q * (p * More) = n
  BY <1>5, <1>6, <1>1
<1>10. w >= More => p * More < WordSize
  <2>1. w >= More => w * p >= p * More
    BY <1>1, Z3
  <2> QED
    BY <2>1, <1>1, <1>5
<1>11. w < More => r + d * p = n
  BY <1>3
<1> QED
  BY <1>3, <1>4, <1>5, <1>7, <1>8, <1>9, <1>10, <1>11 DEF RoundAdds, q, d

\* DecodeZigzag undoes EncodeZigzag.
LEMMA ZigzagBack ==
    ASSUME NEW v \in -(WordSize \div 2)..(WordSize \div 2 - 1)
    PROVE  DecodeZigzag(EncodeZigzag(v)) = v
<1> DEFINE h == WordSize \div 2
<1>1. WordSize \in Nat \ {0} /\ h \in Nat /\ 2 * h <= WordSize
  BY ByteArrayAssumption
<1>2. v \in -h..(h - 1)
  OBVIOUS
<1> HIDE DEF h
<1>3. CASE v < 0
  <2>1. (-2 * v) - 1 \in 0..(WordSize - 1)
    BY <1>1, <1>2, <1>3
  <2>2. ((-2 * v) - 1) % WordSize = (-2 * v) - 1
    BY <2>1, <1>1
  <2>3. EncodeZigzag(v) = (-2 * v) - 1
    BY <2>2, <1>3 DEF EncodeZigzag
  <2>4. ((-2 * v) - 1) % 2 = 1 /\ ((-2 * v) - 1) \div 2 = -v - 1
    BY <1>1, <1>2, <1>3
  <2> QED
    BY <2>3, <2>4, <1>1, <1>2 DEF DecodeZigzag
<1>4. CASE ~(v < 0)
  <2>1. 2 * v \in 0..(WordSize - 1)
    BY <1>1, <1>2, <1>4
  <2>2. (2 * v) % WordSize = 2 * v
    BY <2>1, <1>1
  <2>3. EncodeZigzag(v) = 2 * v
    BY <2>2, <1>4 DEF EncodeZigzag
  <2>4. (2 * v) % 2 = 0 /\ (2 * v) \div 2 = v
    BY <1>1, <1>2, <1>4
  <2> QED
    BY <2>3, <2>4 DEF DecodeZigzag
<1> QED
  BY <1>3, <1>4

\* read() copies the bytes at the position, if there are any.
LEMMA ReadsAtPosition ==
    ASSUME Sound, fault = "none", NEW size \in Nat, ~TooLong(size), read(size)
    PROVE  /\ UNCHANGED <<mem, m_size, m_endian>>
           /\ m_position' = m_position + size
           /\ size # 0 => /\ m_cur # 0 /\ OffsetIn(m_cur) = m_position
                          /\ m_position + size <= Len(mem)
           /\ m_cur # 0 => OffsetIn(m_cur) = m_position
<1>1. /\ m_position \in Nat /\ m_size \in Nat /\ m_position + size <= m_size
      /\ m_size <= Len(mem) /\ Len(mem) \in Nat
  BY LenProperties DEF Sound, TooLong, getReadSize
<1>2. m_cur # 0 => m_position < Len(mem)
  BY DEF Sound, NodeAt
<1>3. m_cur # 0 => OffsetIn(m_cur) = m_position
  BY <1>2, StartsAtPosition
<1>4. size # 0 => m_position < Len(mem)
  BY <1>1
<1>5. size # 0 => m_cur # 0
  BY <1>4, StartsAtPosition
<1>6. UNCHANGED <<mem, m_size, m_endian>>
  BY DEF read, sizeVars
<1>7. CASE m_cur = 0
  <2>1. size = 0 /\ m_position' = m_position
    BY <1>5, <1>7 DEF read, cursorVars
  <2> QED
    BY <2>1, <1>1, <1>6, <1>7
<1>8. CASE m_cur # 0
  BY <1>1, <1>3, <1>6, <1>8 DEF read
<1> QED
  BY <1>7, <1>8

\* A typed read that has its result.
LEMMA ReturnsBack ==
    ASSUME \A i \in items : Stored(i)', UNCHANGED <<items, m_endian>>,
           NEW c, NEW ok, NEW value, call' = NoCall, out' = Result(c, ok, value),
           \A i \in items : Reads(c, i) =>
               ok /\ value = i.value /\ m_position' = i.at + i.len
    PROVE  ItemsInv'
<1>1. /\ out'.kind = c.kind /\ out'.at = c.at /\ out'.endian = m_endian /\ out'.ok = ok
      /\ out'.value = value /\ out'.end = m_position'
  BY DEF Result
<1>2. ItemsReadBack'
  BY <1>1 DEF ItemsReadBack, Reads
<1>3. Writing' /\ Reading'
  BY DEF Writing, Reading, NoCall
<1> QED
  BY <1>2, <1>3 DEF ItemsInv


\* One round of readUint32: a byte of an item's varint takes the read one digit on,
\* and the last one gives the number.
LEMMA VarintByte ==
    ASSUME Sound, fault = "none", ~TooLong(1), read(1),
           NEW c, NEW i, Stored(i), c.kind \in Varints, Reads(c, i), Halfway(c, i),
           NEW byte \in Loaded(mem[OffsetIn(m_cur) + 1]), NEW word,
           word = (c.result + (byte % More) * c.place) % WordSize
    PROVE  \/ /\ ~(byte >= More)
              /\ word = Number(i.kind, i.value)
              /\ m_position' = i.at + Len(i.head)
           \/ /\ byte >= More /\ c.place * More < WordSize
              /\ word \in Nat /\ c.place * More \in Nat \ {0}
              /\ \E w : /\ Chain(i.head, Number(i.kind, i.value), w)
                        /\ \E k \in 1..Len(i.head) :
                              /\ m_position' = i.at + k - 1
                              /\ word + w[k] * (c.place * More) = Number(i.kind, i.value)
<1> DEFINE N == Number(i.kind, i.value)
<1>1. PICK b, r, p : b = i.head /\ r = c.result /\ p = c.place
  OBVIOUS
<1>2. /\ i.at \in Nat /\ b \in Seq(Byte) /\ Len(b) \in Nat /\ <<i.kind, i.value>> \in Inputs
      /\ Holds(i.at, b) /\ r \in Nat /\ p \in Nat \ {0} /\ i.kind \in Varints
  BY <1>1, EncodedTypes DEF Stored, Encoded, Halfway, Reads
<1>3. N \in Word
  BY <1>2, NumberIsWord
<1>4. PICK w : Chain(b, N, w) /\ \E k \in 1..Len(b) :
                 m_position = i.at + k - 1 /\ r + w[k] * p = N
  BY <1>1 DEF Halfway
<1>5. PICK k \in 1..Len(b) : m_position = i.at + k - 1 /\ r + w[k] * p = N
  BY <1>4
<1>6. /\ m_position \in Nat /\ m_position' = m_position + 1 /\ OffsetIn(m_cur) = m_position
  BY ReadsAtPosition DEF Sound
<1>7. byte = b[k]
  <2>1. m_position + 1 = i.at + k
    BY <1>2, <1>5
  <2>2. mem[OffsetIn(m_cur) + 1] = b[k] /\ b[k] \in Byte
    BY <2>1, <1>2, <1>6, ElementOfSeq DEF Holds
  <2> QED
    BY <2>2, ByteArrayAssumption DEF Loaded
<1>8. /\ w \in [1..Len(b) -> Word]
      /\ IF w[k] < More THEN k = Len(b) /\ b[k] = w[k]
         ELSE k + 1 \in 1..Len(b) /\ b[k] = (w[k] % More) + More /\ w[k + 1] = w[k] \div More
  BY <1>4 DEF Chain
<1>9. PICK d : d = w[k]
  OBVIOUS
<1>10. d \in Nat /\ More \in Nat \ {0, 1} /\ r + d * p = N
  BY <1>5, <1>8, <1>9, ByteArrayAssumption DEF Word
<1> HIDE DEF N
<1>11. /\ d < More => /\ d % More = d
                      /\ (r + (d % More) * p) % WordSize = N
       /\ d >= More => /\ p * More \in Nat \ {0} /\ p * More < WordSize
                       /\ ((d % More) + More) % More = d % More
                       /\ (r + (d % More) * p) % WordSize \in Nat
                       /\ ((r + (d % More) * p) % WordSize) + (d \div More) * (p * More) = N
  <2>1. d \in Nat /\ r \in Nat /\ p \in Nat \ {0} /\ N \in Word /\ r + d * p = N
    BY <1>2, <1>3, <1>10
  <2>2. RoundAdds(d, r, p, N)
    BY <2>1, VarintRound
  <2> QED
    BY <2>2 DEF RoundAdds
<1>12. CASE d < More
  <2>1. k = Len(b) /\ byte = d
    BY <1>7, <1>8, <1>9, <1>12
  <2>2. ~(byte >= More)
    BY <2>1, <1>10, <1>12
  <2>3. word = N
    BY <2>1, <1>1, <1>11, <1>12
  <2>4. m_position' = i.at + Len(b)
    BY <2>1, <1>2, <1>5, <1>6
  <2> QED
    BY <2>2, <2>3, <2>4, <1>1 DEF N
<1>13. CASE ~(d < More)
  <2>1. d >= More
    BY <1>10, <1>13
  <2>2. k + 1 \in 1..Len(b) /\ byte = (d % More) + More /\ w[k + 1] = d \div More
    BY <1>7, <1>8, <1>9, <1>13
  <2>3. byte >= More
    <3>1. d % More \in 0..(More - 1)
      BY <1>10, MoreDivMod
    <3> QED
      BY <3>1, <2>2, <1>10
  <2>4. word = (r + (d % More) * p) % WordSize
    BY <2>1, <2>2, <1>1, <1>11
  <2>5. word \in Nat /\ word + w[k + 1] * (p * More) = N
    BY <2>1, <2>2, <2>4, <1>11
  <2>6. m_position' = i.at + (k + 1) - 1
    BY <2>2, <1>2, <1>5, <1>6
  <2>7. /\ Chain(i.head, N, w)
        /\ \E j \in 1..Len(i.head) : /\ m_position' = i.at + j - 1
                                     /\ word + w[j] * (c.place * More) = N
    BY <2>2, <2>5, <2>6, <1>1, <1>4
  <2>8. c.place * More < WordSize /\ c.place * More \in Nat \ {0}
    BY <2>1, <1>1, <1>11
  <2> QED
    BY <2>3, <2>5, <2>7, <2>8 DEF N
<1> QED
  BY <1>12, <1>13


\* A typed read that throws was not reading an item.
LEMMA ThrowsBack ==
    ASSUME Sound, \A i \in items : Stored(i), UNCHANGED items, NEW c, Throws(c),
           \A i \in items : ~Reads(c, i)
    PROVE  ItemsInv'
<1>1. UNCHANGED <<mem, m_size, m_endian>> /\ call' = NoCall /\ out' = Result(c, FALSE, Raw)
  BY DEF Throws, baVars, sizeVars
<1>2. m_size' \in Nat /\ m_size <= m_size'
  BY <1>1 DEF Sound
<1>3. \A i \in items : Stored(i)'
  BY <1>1, <1>2, AllStay
<1> QED
  BY <1>1, <1>3, ReturnsBack

\* A read of a string that has its length.
LEMMA LengthBack ==
    ASSUME \A i \in items : Stored(i)', UNCHANGED <<items, m_endian>>,
           NEW c, NEW len, ReadLength(c, len), c.kind \in {"stringF", "stringV"},
           \A i \in items : Reads(c, i) =>
               len = Len(i.value) /\ m_position' = i.at + Len(i.head)
    PROVE  ItemsInv'
<1>1. /\ call'.op = "text" /\ call'.kind = c.kind /\ call'.at = c.at /\ call'.len = len
      /\ out'.kind = "none"
  BY DEF ReadLength, NoResult
<1>2. Writing'
  BY <1>1 DEF Writing
<1>3. Reading'
  BY <1>1 DEF Reading, Reads
<1>4. ItemsReadBack'
  <2>1. \A i \in items' : Encoded(i)
    BY DEF Stored
  <2> QED
    BY <2>1, <1>1, NothingRead DEF Kinds
<1> QED
  BY <1>2, <1>3, <1>4 DEF ItemsInv

\* One round of a varint read.
LEMMA ReadVarintBack ==
    ASSUME Sound, fault = "none", \A i \in items : Stored(i), UNCHANGED items,
           NEW c, c.kind \in Varints, ReadVarint(c),
           \A i \in items : Reads(c, i) => Halfway(c, i)
    PROVE  ItemsInv'
<1>1. CASE TooLong(1)
  <2>1. Throws(c)
    BY <1>1 DEF ReadVarint
  <2>2. ASSUME NEW i \in items, Reads(c, i) PROVE FALSE
    <3>1. PICK w : \E k \in 1..Len(i.head) :
                       m_position = i.at + k - 1
      BY <2>2 DEF Halfway
    <3>2. PICK k \in 1..Len(i.head) : m_position = i.at + k - 1
      BY <3>1
    <3>3. i.at \in Nat /\ Len(i.head) \in Nat /\ i.at + Len(i.head) <= m_size
      BY EncodedTypes DEF Stored, Holds
    <3>4. 1 > m_size - m_position /\ m_size \in Nat
      BY <1>1 DEF TooLong, getReadSize, Sound
    <3> QED
      BY <3>2, <3>3, <3>4
  <2> QED
    BY <2>1, <2>2, ThrowsBack
<1>2. CASE ~TooLong(1)
  <2>1. read(1)
    BY <1>2 DEF ReadVarint
  <2>2. UNCHANGED <<mem, m_size, m_endian>>
    BY <2>1, <1>2, ReadsAtPosition
  <2>3. \A i \in items : Stored(i)'
    BY <2>2, AllStay DEF Sound
  <2>4. PICK byte, word :
           /\ byte \in Loaded(mem[OffsetIn(m_cur) + 1])
           /\ word = (c.result + (byte % More) * c.place) % WordSize
           /\ IF byte >= More /\ c.place * More < WordSize
              THEN /\ call' = [op |-> "varint", kind |-> c.kind, at |-> c.at,
                               result |-> word, place |-> c.place * More]
                   /\ out' = NoResult
              ELSE \/ c.kind = "uint"    /\ Returns(c, word)
                   \/ c.kind = "int"     /\ Returns(c, DecodeZigzag(word))
                   \/ c.kind = "stringV" /\ ReadLength(c, word)
    BY <1>2 DEF ReadVarint
  <2>5. ASSUME NEW i \in items, Reads(c, i)
        PROVE  \/ /\ ~(byte >= More)
                  /\ word = Number(i.kind, i.value)
                  /\ m_position' = i.at + Len(i.head)
               \/ /\ byte >= More /\ c.place * More < WordSize
                  /\ word \in Nat /\ c.place * More \in Nat \ {0}
                  /\ \E w : /\ Chain(i.head, Number(i.kind, i.value), w)
                            /\ \E k \in 1..Len(i.head) :
                                  /\ m_position' = i.at + k - 1
                                  /\ word + w[k] * (c.place * More) = Number(i.kind, i.value)
    BY <2>1, <2>4, <2>5, <1>2, VarintByte
  <2>6. CASE byte >= More /\ c.place * More < WordSize
    <3>1. PICK place : place = c.place * More
      OBVIOUS
    <3>2. /\ call'.op = "varint" /\ call'.kind = c.kind /\ call'.at = c.at
          /\ call'.result = word /\ call'.place = place /\ out'.kind = "none"
      BY <2>4, <2>6, <3>1 DEF NoResult
    <3>3. ASSUME NEW i \in items, Reads(c, i)
          PROVE  /\ word \in Nat /\ place \in Nat \ {0}
                 /\ \E w : /\ Chain(i.head, Number(i.kind, i.value), w)
                           /\ \E k \in 1..Len(i.head) :
                                 /\ m_position' = i.at + k - 1
                                 /\ word + w[k] * place = Number(i.kind, i.value)
      BY <2>5, <2>6, <3>1, <3>3
    <3>4. \A i \in items' : Reads(call, i)' => Halfway(call, i)'
      <4> SUFFICES ASSUME NEW i \in items, Reads(call, i)' PROVE Halfway(call, i)'
        OBVIOUS
      <4>1. Reads(c, i)
        BY <3>2, <2>2 DEF Reads
      <4> QED
        BY <4>1, <3>2, <3>3 DEF Halfway
    <3>5. Writing' /\ Reading'
      BY <3>2, <3>4 DEF Writing, Reading
    <3>6. ItemsReadBack'
      <4>1. \A i \in items' : Encoded(i)
        BY DEF Stored
      <4> QED
        BY <4>1, <3>2, NothingRead DEF Kinds
    <3> QED
      BY <3>5, <3>6, <2>3 DEF ItemsInv
  <2>7. CASE ~(byte >= More /\ c.place * More < WordSize)
    <3>1. ASSUME NEW i \in items, Reads(c, i)
          PROVE  /\ word = Number(i.kind, i.value) /\ i.kind = c.kind
                 /\ <<i.kind, i.value>> \in Inputs
                 /\ m_position' = i.at + Len(i.head)
                 /\ c.kind \in {"uint", "int"} => m_position' = i.at + i.len
      <4>1. word = Number(i.kind, i.value) /\ m_position' = i.at + Len(i.head)
        BY <2>5, <2>7, <3>1
      <4>2. i.kind = c.kind /\ <<i.kind, i.value>> \in Inputs
        BY <3>1 DEF Reads, Stored, Encoded
      <4>3. i.len = Len(i.head) + Len(Text(i.kind, i.value)) /\ Len(i.head) \in Nat
        BY EncodedTypes DEF Stored
      <4>4. c.kind \in {"uint", "int"} => Text(i.kind, i.value) = <<>>
        BY <4>2 DEF Text
      <4>5. ASSUME c.kind \in {"uint", "int"} PROVE m_position' = i.at + i.len
        <5>1. i.len = Len(i.head) + Len(<<>>) /\ Len(i.head) \in Nat
          BY <4>3, <4>4, <4>5
        <5>2. i.len = Len(i.head)
          BY <5>1
        <5> QED
          BY <5>2, <4>1
      <4> QED
        BY <4>1, <4>2, <4>5
    <3>2. CASE c.kind = "uint"
      <4>1. call' = NoCall /\ out' = Result(c, TRUE, word)
        BY <2>4, <2>7, <3>2 DEF Returns
      <4>2. \A i \in items : Reads(c, i) =>
               TRUE /\ word = i.value /\ m_position' = i.at + i.len
        BY <3>1, <3>2 DEF Number
      <4> QED
        BY <4>1, <4>2, <2>2, <2>3, ReturnsBack
    <3>3. CASE c.kind = "int"
      <4>1. call' = NoCall /\ out' = Result(c, TRUE, DecodeZigzag(word))
        BY <2>4, <2>7, <3>3 DEF Returns
      <4>2. ASSUME NEW i \in items, Reads(c, i)
            PROVE  TRUE /\ DecodeZigzag(word) = i.value /\ m_position' = i.at + i.len
        <5>1. word = EncodeZigzag(i.value)
          BY <3>1, <3>3, <4>2 DEF Number
        <5>2. i.value \in -(WordSize \div 2)..(WordSize \div 2 - 1)
          BY <3>1, <3>3, <4>2, InputsAssumption
        <5> QED
          BY <5>1, <5>2, <3>1, <3>3, <4>2, ZigzagBack
      <4> QED
        BY <4>1, <4>2, <2>2, <2>3, ReturnsBack
    <3>4. CASE c.kind = "stringV"
      <4>1. ReadLength(c, word)
        BY <2>4, <2>7, <3>4
      <4>2. \A i \in items : Reads(c, i) =>
               word = Len(i.value) /\ m_position' = i.at + Len(i.head)
        BY <3>1, <3>4 DEF Number
      <4> QED
        BY <4>1, <4>2, <3>4, <2>2, <2>3, LengthBack
    <3> QED
      BY <3>2, <3>3, <3>4 DEF Varints
  <2> QED
    BY <2>6, <2>7
<1> QED
  BY <1>1, <1>2


\* What read() copies are the bytes at the position.
LEMMA UnreadBytes ==
    ASSUME Sound, fault = "none", NEW size \in Nat, ~TooLong(size), read(size), m_cur # 0
    PROVE  /\ Unread(size) \in Seq(Cell)
           /\ Len(Unread(size)) = size
           /\ \A k \in 1..size : Unread(size)[k] = mem[m_position + k]
<1>1. OffsetIn(m_cur) = m_position
  BY ReadsAtPosition
<1>2. /\ mem \in Seq(Cell) /\ Len(mem) \in Nat /\ m_position \in Nat
      /\ m_position + size <= Len(mem)
  BY LenProperties DEF Sound, TooLong, getReadSize
<1> DEFINE a == m_position + 1
           b == m_position + size
<1>3. /\ a \in Int /\ b \in Int /\ b - a + 1 = size /\ (a <= b <=> size # 0)
      /\ \A k \in 1..size : a + k - 1 = m_position + k
  BY <1>2
<1>4. \A k \in a..b : mem[k] \in Cell
  <2>1. \A k \in a..b : k \in 1..Len(mem)
    BY <1>2
  <2> QED
    BY <2>1, <1>2, ElementOfSeq
<1>5. Unread(size) = SubSeq(mem, a, b)
  BY <1>1 DEF Unread
<1> HIDE DEF a, b
<1>6. /\ SubSeq(mem, a, b) \in Seq(Cell)
      /\ Len(SubSeq(mem, a, b)) = IF a <= b THEN b - a + 1 ELSE 0
      /\ \A k \in 1..(b - a + 1) : SubSeq(mem, a, b)[k] = mem[a + k - 1]
  BY <1>3, <1>4, SubSeqProperties
<1> QED
  BY <1>3, <1>5, <1>6

\* The bytes in front of an item's text are those that read() copies.
LEMMA ItemAtPosition ==
    ASSUME Sound, fault = "none", NEW size \in Nat, ~TooLong(size), read(size), size # 0,
           NEW i, Stored(i), m_position = i.at, Len(i.head) = size
    PROVE  /\ m_cur # 0 /\ OffsetIn(m_cur) = m_position
           /\ Len(Unread(size)) = size
           /\ \A k \in 1..size : /\ mem[m_position + k] = i.head[k]
                                 /\ Unread(size)[k] = i.head[k]
<1>1. m_cur # 0 /\ OffsetIn(m_cur) = m_position
  BY ReadsAtPosition
<1>2. /\ Len(Unread(size)) = size
      /\ \A k \in 1..size : Unread(size)[k] = mem[m_position + k]
  BY <1>1, UnreadBytes
<1>3. \A k \in 1..size : mem[m_position + k] = i.head[k]
  BY DEF Stored, Holds
<1> QED
  BY <1>1, <1>2, <1>3

\* A read at an item is not too long.
LEMMA ItemIsThere ==
    ASSUME Sound, NEW i, Stored(i), m_position = i.at
    PROVE  ~TooLong(Len(i.head))
<1>1. i.at \in Nat /\ Len(i.head) \in Nat /\ i.at + Len(i.head) <= m_size /\ m_size \in Nat
  BY EncodedTypes DEF Stored, Holds, Sound
<1> QED
  BY <1>1 DEF TooLong, getReadSize

\* byteswap reverses a pair, and leaves one byte alone.
LEMMA InOrderOne ==
    ASSUME NEW s, Len(s) = 1, NEW endian
    PROVE  InOrder(s, endian)[1] = s[1]
BY DEF InOrder, Reverse

\* The same of two bytes.
LEMMA InOrderTwo ==
    ASSUME NEW s, Len(s) = 2, NEW endian
    PROVE  /\ endian = Host => InOrder(s, endian)[1] = s[1] /\ InOrder(s, endian)[2] = s[2]
           /\ endian # Host => InOrder(s, endian)[1] = s[2] /\ InOrder(s, endian)[2] = s[1]
BY DEF InOrder, Reverse

\* The head of an item of fixed width.
LEMMA FixedHead ==
    ASSUME NEW i, Encoded(i), i.kind \in {"byte", "fixed"}
    PROVE  /\ i.len = Len(i.head)
           /\ Len(i.head) = IF i.kind = "byte" THEN 1 ELSE 2
           /\ i.kind = "byte" => i.head = <<i.value>> /\ i.value \in Byte
           /\ i.kind = "fixed" => /\ i.value \in 0..(Radix * Radix - 1)
                                  /\ i.head = InOrder(<<i.value % Radix, i.value \div Radix>>, i.endian)
<1>1. Text(i.kind, i.value) = <<>> /\ Len(i.head) \in Nat
  BY EncodedTypes DEF Text
<1>2. i.len = Len(i.head)
  <2>1. i.len = Len(i.head) + Len(<<>>)
    BY <1>1, EncodedTypes
  <2> QED
    BY <2>1, <1>1
<1>3. <<i.kind, i.value>> \in Inputs
  BY DEF Encoded
<1>4. CASE i.kind = "byte"
  <2>1. i.head = <<i.value>> /\ i.value \in Byte
    BY <1>3, <1>4, InputsAssumption DEF Encoded
  <2> QED
    BY <2>1, <1>2, <1>4
<1>5. CASE i.kind = "fixed"
  <2>1. /\ i.value \in 0..(Radix * Radix - 1)
        /\ i.head = InOrder(<<i.value % Radix, i.value \div Radix>>, i.endian)
    BY <1>3, <1>5, InputsAssumption DEF Encoded
  <2>2. Len(i.head) = 2
    BY <2>1, FixedIsBytes
  <2> QED
    BY <2>1, <2>2, <1>2, <1>5
<1> QED
  BY <1>4, <1>5

\* The bytes of an item of fixed width, in the order of the array, make up its value.
LEMMA FixedBack ==
    ASSUME Sound, fault = "none", NEW size \in {1, 2}, ~TooLong(size), read(size),
           NEW i, Stored(i), m_position = i.at, m_endian = i.endian,
           i.kind = IF size = 1 THEN "byte" ELSE "fixed",
           NEW bytes, bytes = InOrder(Unread(size), m_endian)
    PROVE  /\ ~\E k \in 1..size : bytes[k] = Raw
           /\ i.value = IF size = 1 THEN bytes[1] ELSE bytes[1] + Radix * bytes[2]
           /\ i.len = size
<1>1. Encoded(i) /\ size \in Nat /\ size # 0 /\ i.kind \in {"byte", "fixed"}
  BY DEF Stored
<1>2. Len(i.head) = size /\ i.len = size
  BY <1>1, FixedHead
<1>3. Len(Unread(size)) = size /\ \A k \in 1..size : Unread(size)[k] = i.head[k]
  BY <1>1, <1>2, ItemAtPosition
<1>4. PICK s : s = Unread(size)
  OBVIOUS
<1>5. CASE size = 1
  <2>1. i.head = <<i.value>> /\ i.value \in Byte
    BY <1>1, <1>5, FixedHead
  <2>2. s[1] = i.value /\ Len(s) = 1
    BY <2>1, <1>3, <1>4, <1>5
  <2>3. bytes[1] = i.value
    BY <2>2, <1>4, <1>5, InOrderOne
  <2> QED
    BY <2>1, <2>3, <1>2, <1>5, ByteArrayAssumption
<1>6. CASE size = 2
  <2>1. PICK v, lo, hi, h : v = i.value /\ lo = v % Radix /\ hi = v \div Radix /\ h = i.head
    OBVIOUS
  <2>2. h = InOrder(<<lo, hi>>, m_endian) /\ v \in 0..(Radix * Radix - 1)
    BY <2>1, <1>1, <1>6, FixedHead
  <2>3. lo \in Byte /\ hi \in Byte /\ v = lo + Radix * hi
    BY <2>1, <2>2, FixedIsBytes
  <2>4. Len(s) = 2 /\ s[1] = h[1] /\ s[2] = h[2] /\ bytes = InOrder(s, m_endian)
    BY <2>1, <1>3, <1>4, <1>6
  <2>5. Len(<<lo, hi>>) = 2 /\ <<lo, hi>>[1] = lo /\ <<lo, hi>>[2] = hi
    OBVIOUS
  <2>6. /\ m_endian = Host => h[1] = lo /\ h[2] = hi
        /\ m_endian # Host => h[1] = hi /\ h[2] = lo
    BY <2>2, <2>5, InOrderTwo
  <2>7. /\ m_endian = Host => bytes[1] = s[1] /\ bytes[2] = s[2]
        /\ m_endian # Host => bytes[1] = s[2] /\ bytes[2] = s[1]
    BY <2>4, InOrderTwo
  <2>8. bytes[1] = lo /\ bytes[2] = hi
    BY <2>4, <2>6, <2>7
  <2>9. ~\E k \in 1..2 : bytes[k] = Raw
    BY <2>3, <2>8, ByteArrayAssumption
  <2> QED
    BY <2>1, <2>3, <2>8, <2>9, <1>2, <1>6
<1> QED
  BY <1>5, <1>6


\* The typed reads, up to the first call of read().
LEMMA GetBack ==
    ASSUME ByteArrayInv, ItemsInv, NEW kind, Get(kind)
    PROVE  ItemsInv'
<1>1. /\ fault = "none" /\ Sound /\ (\A i \in items : Stored(i)) /\ UNCHANGED items
  BY DEF Get, During, ByteArrayInv, ItemsInv
<1>2. PICK c : c = [op |-> "varint", kind |-> kind, at |-> m_position, result |-> 0, place |-> 1]
  OBVIOUS
<1>3. c.kind = kind /\ c.at = m_position /\ c.result = 0 /\ c.place = 1
  BY <1>2
<1>4. \/ kind = "byte"    /\ ReadFixed(c, 1)
      \/ kind = "fixed"   /\ ReadFixed(c, 2)
      \/ kind = "stringF" /\ ReadPrefix(c)
      \/ kind \in Varints /\ ReadVarint(c)
  BY <1>2 DEF Get, Varints
<1>5. ASSUME NEW size \in {1, 2}, kind = IF size = 1 THEN "byte" ELSE "fixed", ReadFixed(c, size)
      PROVE  ItemsInv'
  <2>1. PICK bytes : bytes = InOrder(Unread(size), m_endian)
    OBVIOUS
  <2>2. CASE TooLong(size)
    <3>1. Throws(c)
      BY <2>2, <1>5 DEF ReadFixed
    <3>2. ASSUME NEW i \in items, Reads(c, i) PROVE FALSE
      <4>1. m_position = i.at /\ i.kind = IF size = 1 THEN "byte" ELSE "fixed"
        BY <3>2, <1>3, <1>5 DEF Reads
      <4>2. Len(i.head) = size
        BY <4>1, <1>1, FixedHead DEF Stored
      <4> QED
        BY <4>1, <4>2, <2>2, <1>1, ItemIsThere
    <3> QED
      BY <3>1, <3>2, <1>1, ThrowsBack
  <2>3. CASE ~TooLong(size)
    <3>1. PICK value :
             /\ value = IF \E k \in 1..size : bytes[k] = Raw THEN Raw
                        ELSE IF size = 1 THEN bytes[1] ELSE bytes[1] + Radix * bytes[2]
             /\ call' = NoCall /\ out' = Result(c, TRUE, value)
      BY <2>1, <2>3, <1>5 DEF ReadFixed, Returns
    <3>2. read(size)
      BY <2>3, <1>5 DEF ReadFixed
    <3>3. UNCHANGED <<mem, m_size, m_endian>> /\ m_position' = m_position + size
      BY <3>2, <2>3, <1>1, ReadsAtPosition
    <3>4. \A i \in items : Stored(i)'
      BY <3>3, <1>1, AllStay DEF Sound
    <3>5. ASSUME NEW i \in items, Reads(c, i)
          PROVE  TRUE /\ value = i.value /\ m_position' = i.at + i.len
      <4>1. /\ m_position = i.at /\ m_endian = i.endian
            /\ i.kind = IF size = 1 THEN "byte" ELSE "fixed"
        BY <3>5, <1>3, <1>5 DEF Reads
      <4>2. /\ ~\E k \in 1..size : bytes[k] = Raw
            /\ i.value = IF size = 1 THEN bytes[1] ELSE bytes[1] + Radix * bytes[2]
            /\ i.len = size
        BY <4>1, <3>2, <2>1, <2>3, <1>1, FixedBack
      <4>3. value = i.value
        BY <4>2, <3>1
      <4> QED
        BY <4>1, <4>2, <4>3, <3>3
    <3> QED
      BY <3>1, <3>3, <3>4, <3>5, <1>1, ReturnsBack
  <2> QED
    BY <2>2, <2>3
<1>6. CASE kind = "stringF" /\ ReadPrefix(c)
  <2>1. ASSUME NEW i \in items, Reads(c, i)
        PROVE  /\ m_position = i.at /\ Len(i.head) = 1
               /\ i.head[1] = Len(i.value) /\ i.head[1] \in Byte
    <3>1. m_position = i.at /\ i.kind = "stringF"
      BY <2>1, <1>3, <1>6 DEF Reads
    <3>2. i.head = <<Len(i.value)>> /\ i.head \in Seq(Byte)
      BY <3>1, <1>1 DEF Stored, Encoded
    <3>3. Len(i.head) = 1 /\ i.head[1] = Len(i.value)
      BY <3>2
    <3>4. i.head[1] \in Byte
      BY <3>2, <3>3, ElementOfSeq
    <3> QED
      BY <3>1, <3>3, <3>4
  <2>2. CASE TooLong(1)
    <3>1. Throws(c)
      BY <2>2, <1>6 DEF ReadPrefix
    <3>2. \A i \in items : ~Reads(c, i)
      BY <2>1, <2>2, <1>1, ItemIsThere
    <3> QED
      BY <3>1, <3>2, <1>1, ThrowsBack
  <2>3. CASE ~TooLong(1)
    <3>1. read(1)
      BY <2>3, <1>6 DEF ReadPrefix
    <3>2. PICK byte \in Loaded(mem[OffsetIn(m_cur) + 1]) : ReadLength(c, byte)
      BY <2>3, <1>6 DEF ReadPrefix
    <3>3. UNCHANGED <<mem, m_size, m_endian>> /\ m_position' = m_position + 1
      BY <3>1, <2>3, <1>1, ReadsAtPosition
    <3>4. \A i \in items : Stored(i)'
      BY <3>3, <1>1, AllStay DEF Sound
    <3>5. ASSUME NEW i \in items, Reads(c, i)
          PROVE  byte = Len(i.value) /\ m_position' = i.at + Len(i.head)
      <4>1. mem[OffsetIn(m_cur) + 1] = i.head[1]
        <5>1. Stored(i) /\ m_position = i.at /\ Len(i.head) = 1 /\ 1 \in Nat /\ 1 # 0 /\ 1 \in 1..1
          BY <3>5, <2>1, <1>1
        <5>2. /\ OffsetIn(m_cur) = m_position
              /\ \A k \in 1..1 : mem[m_position + k] = i.head[k]
          BY <5>1, <3>1, <2>3, <1>1, ItemAtPosition
        <5> QED
          BY <5>1, <5>2
      <4>2. byte = i.head[1]
        BY <4>1, <3>2, <3>5, <2>1, ByteArrayAssumption DEF Loaded
      <4> QED
        BY <4>2, <3>3, <3>5, <2>1
    <3> QED
      BY <3>2, <3>3, <3>4, <3>5, <1>1, <1>3, <1>6, LengthBack
  <2> QED
    BY <2>2, <2>3
<1>7. CASE kind \in Varints /\ ReadVarint(c)
  <2>1. ASSUME NEW i \in items, Reads(c, i) PROVE Halfway(c, i)
    <3> DEFINE N == Number(i.kind, i.value)
    <3>1. /\ m_position = i.at /\ i.at \in Nat /\ i.kind \in Varints /\ Len(i.head) \in Nat
          /\ <<i.kind, i.value>> \in Inputs /\ \E w : Chain(i.head, N, w)
      BY <2>1, <1>1, <1>3, <1>7, EncodedTypes DEF Reads, Stored, Encoded
    <3>2. N \in Word
      BY <3>1, NumberIsWord
    <3> HIDE DEF N
    <3>3. PICK w : Chain(i.head, N, w)
      BY <3>1
    <3>4. w[1] = N /\ 1 \in 1..Len(i.head)
      BY <3>1, <3>3 DEF Chain
    <3>5. m_position = i.at + 1 - 1 /\ c.result + w[1] * c.place = N
      BY <3>1, <3>2, <3>4, <1>3 DEF Word
    <3>6. \E k \in 1..Len(i.head) : /\ m_position = i.at + k - 1
                                    /\ c.result + w[k] * c.place = N
      BY <3>4, <3>5
    <3>7. c.result \in Nat /\ c.place \in Nat \ {0}
      BY <1>3
    <3> QED
      BY <3>3, <3>6, <3>7 DEF Halfway, N
  <2> QED
    BY <2>1, <1>1, <1>3, <1>7, ReadVarintBack
<1> QED
  BY <1>4, <1>5, <1>6, <1>7

\* The next rounds of a varint.
LEMMA GetVarintBack ==
    ASSUME ByteArrayInv, ItemsInv, GetVarint
    PROVE  ItemsInv'
<1>1. /\ fault = "none" /\ Sound /\ (\A i \in items : Stored(i)) /\ UNCHANGED items
      /\ call.op = "varint" /\ Reading
  BY DEF GetVarint, During, ByteArrayInv, ItemsInv
<1>2. PICK c : c = call
  OBVIOUS
<1>3. /\ c.kind \in Varints /\ ReadVarint(c)
      /\ \A i \in items : Reads(c, i) => Halfway(c, i)
  BY <1>1, <1>2 DEF Reading, GetVarint
<1> QED
  BY <1>1, <1>3, ReadVarintBack

\* The text of a string, behind its length.
LEMMA GetTextBack ==
    ASSUME ByteArrayInv, ItemsInv, GetText
    PROVE  ItemsInv'
<1>1. /\ fault = "none" /\ Sound /\ (\A i \in items : Stored(i)) /\ UNCHANGED items
      /\ call.op = "text" /\ Reading /\ Calling
  BY DEF GetText, During, ByteArrayInv, ItemsInv
<1>2. PICK c, len : c = call /\ len = call.len
  OBVIOUS
<1>3. len \in Nat /\ c.kind \in {"stringF", "stringV"}
  BY <1>1, <1>2 DEF Calling, Reading
<1>4. IF TooLong(len) THEN Throws(c)
      ELSE read(len) /\ Returns(c, IF m_cur = 0 THEN <<>> ELSE Unread(len))
  BY <1>2 DEF GetText
<1>5. ASSUME NEW i \in items, Reads(c, i)
      PROVE  /\ len = Len(i.value) /\ i.value \in Seq(Byte) /\ ~TooLong(len)
             /\ \A k \in 1..len : mem[m_position + k] = i.value[k]
             /\ m_position + len = i.at + i.len
  <2>1. /\ len = Len(i.value) /\ m_position = i.at + Len(i.head) /\ i.kind = c.kind
    BY <1>1, <1>2, <1>5 DEF Reading, Reads
  <2>2. Text(i.kind, i.value) = i.value
    BY <2>1, <1>3 DEF Text
  <2>3. /\ i.at \in Nat /\ Len(i.head) \in Nat /\ i.value \in Seq(Byte)
        /\ i.len = Len(i.head) + len /\ Holds(m_position, i.value)
    BY <2>1, <2>2, <1>1, EncodedTypes DEF Stored
  <2>4. ~TooLong(len) /\ \A k \in 1..len : mem[m_position + k] = i.value[k]
    BY <2>1, <2>3, <1>1, <1>3 DEF Holds, TooLong, getReadSize, Sound
  <2>5. m_position + len = i.at + i.len
    <3>1. PICK a, h : a = i.at /\ h = Len(i.head)
      OBVIOUS
    <3>2. a \in Nat /\ h \in Nat /\ i.len = h + len /\ m_position = a + h
      BY <3>1, <2>1, <2>3
    <3>3. m_position + len = a + i.len
      BY <3>2, <1>3
    <3> QED
      BY <3>1, <3>3
  <2> QED
    BY <2>1, <2>3, <2>4, <2>5
<1>6. CASE TooLong(len)
  BY <1>1, <1>4, <1>5, <1>6, ThrowsBack
<1>7. CASE ~TooLong(len)
  <2>1. PICK value : /\ value = IF m_cur = 0 THEN <<>> ELSE Unread(len)
                     /\ call' = NoCall /\ out' = Result(c, TRUE, value)
    BY <1>4, <1>7 DEF Returns
  <2>2. read(len)
    BY <1>4, <1>7
  <2>3. /\ UNCHANGED <<mem, m_size, m_endian>> /\ m_position' = m_position + len
        /\ len # 0 => m_cur # 0
    BY <2>2, <1>1, <1>3, <1>7, ReadsAtPosition
  <2>4. \A i \in items : Stored(i)'
    BY <2>3, <1>1, AllStay DEF Sound
  <2>5. ASSUME NEW i \in items, Reads(c, i)
        PROVE  TRUE /\ value = i.value /\ m_position' = i.at + i.len
    <3>1. value = i.value
      <4>1. CASE m_cur = 0
        <5>1. Len(i.value) = 0 /\ i.value \in Seq(Byte) /\ value = <<>>
          BY <4>1, <2>1, <2>3, <2>5, <1>5
        <5> QED
          BY <5>1, EmptySeq
      <4>2. CASE m_cur # 0
        <5>1. /\ Unread(len) \in Seq(Cell) /\ Len(Unread(len)) = len
              /\ \A k \in 1..len : Unread(len)[k] = mem[m_position + k]
          BY <4>2, <2>2, <1>1, <1>3, <1>7, UnreadBytes
        <5>2. /\ value = Unread(len) /\ i.value \in Seq(Cell) /\ Len(i.value) = len
              /\ \A k \in 1..len : mem[m_position + k] = i.value[k]
          BY <4>2, <2>1, <2>5, <1>5, BytesAreCells
        <5> QED
          BY <5>1, <5>2, SeqEqual
      <4> QED
        BY <4>1, <4>2
    <3> QED
      BY <3>1, <2>3, <2>5, <1>5
  <2> QED
    BY <2>1, <2>3, <2>4, <2>5, <1>1, ReturnsBack
<1> QED
  BY <1>6, <1>7

-----------------------------------------------------------------------------
(* Items: the other operations.                                            *)

\* A step that copies nothing and starts no read or write.
LEMMA QuietStep ==
    ASSUME Sound, \A i \in items : Stored(i), UNCHANGED <<mem, items>>,
           m_size' \in Nat, m_size <= m_size',
           call'.op \in {"none", "save"}, out'.kind \notin Kinds
    PROVE  ItemsInv'
<1>1. \A i \in items' : Stored(i)'
  BY AllStay
<1>2. Writing' /\ Reading'
  BY DEF Writing, Reading
<1>3. ItemsReadBack'
  <2>1. \A i \in items' : Encoded(i)
    BY DEF Stored
  <2> QED
    BY <2>1, NothingRead
<1> QED
  BY <1>1, <1>2, <1>3 DEF ItemsInv

\* setPosition, setIsLittleEndian, clear, getReadBuffers and writeToFile copy nothing.
LEMMA OthersKeepItems ==
    ASSUME ByteArrayInv, ItemsInv,
           \/ \E v \in 0..MaxBytes : setPosition(v)
           \/ \E val \in BOOLEAN : setIsLittleEndian(val)
           \/ clear
           \/ \E len \in 1..MaxBytes : getReadBuffers(len)
           \/ writeToFile \/ SaveNode \/ SaveDone
    PROVE  ItemsInv'
<1>1. /\ fault = "none" /\ Sound /\ Calling /\ \A i \in items : Stored(i)
  BY DEF setPosition, setIsLittleEndian, clear, getReadBuffers, writeToFile, SaveNode, SaveDone,
         During, ByteArrayInv, ItemsInv
<1>2. m_size \in Nat /\ m_size <= m_size
  BY <1>1 DEF Sound
<1>3. ASSUME NEW v \in 0..MaxBytes, setPosition(v) PROVE ItemsInv'
  <2>1. /\ UNCHANGED <<mem, items>> /\ call'.op = "none" /\ out'.kind = "none"
        /\ m_size' = IF v > m_size THEN v ELSE m_size
    BY <1>3 DEF setPosition, During, NoResult
  <2>2. m_size' \in Nat /\ m_size <= m_size'
    BY <2>1, <1>2, ByteArrayAssumption
  <2> QED
    BY <2>1, <2>2, <1>1, QuietStep DEF Kinds
<1>4. ASSUME NEW val \in BOOLEAN, setIsLittleEndian(val) PROVE ItemsInv'
  <2>1. UNCHANGED <<mem, m_size, items>> /\ call'.op = "none" /\ out'.kind = "none"
    BY <1>4 DEF setIsLittleEndian, During, NoResult, sizeVars
  <2> QED
    BY <2>1, <1>1, <1>2, QuietStep DEF Kinds
<1>5. CASE clear
  <2>1. items' = {} /\ call'.op = "none"
    BY <1>5 DEF clear, During
  <2> QED
    BY <2>1 DEF ItemsInv, ItemsReadBack, Writing, Reading
<1>6. ASSUME NEW len \in 1..MaxBytes, getReadBuffers(len) PROVE ItemsInv'
  <2>1. UNCHANGED <<mem, m_size, items>> /\ call'.op = "none" /\ out'.kind = "peek"
    BY <1>6 DEF getReadBuffers, During, baVars, sizeVars
  <2> QED
    BY <2>1, <1>1, <1>2, QuietStep DEF Kinds
<1>7. CASE writeToFile
  <2>1. UNCHANGED <<mem, m_size, items>> /\ call'.op = "save" /\ out'.kind = "none"
    BY <1>7 DEF writeToFile, baVars, sizeVars, NoResult
  <2> QED
    BY <2>1, <1>1, <1>2, QuietStep DEF Kinds
<1>8. CASE SaveNode
  <2>1. /\ UNCHANGED <<mem, m_size, items, out>> /\ call'.op \in {"none", "save"}
        /\ call.op = "save"
    BY <1>8 DEF SaveNode, During, sizeVars, NoCall
  <2>2. out'.kind = "none"
    BY <2>1, <1>1 DEF Calling
  <2> QED
    BY <2>1, <2>2, <1>1, <1>2, QuietStep DEF Kinds
<1>9. CASE SaveDone
  <2>1. UNCHANGED <<mem, m_size, items>> /\ call'.op = "none" /\ out'.kind = "peek"
    BY <1>9 DEF SaveDone, baVars, sizeVars, NoCall
  <2> QED
    BY <2>1, <1>1, <1>2, QuietStep DEF Kinds
<1> QED
  BY <1>3, <1>4, <1>5, <1>6, <1>7, <1>8, <1>9

\* What the socket writes into the buffers ends the items that were there.
LEMMA GetWriteBuffersStores ==
    ASSUME ByteArrayInv, ItemsInv, NEW bytes \in Received, getWriteBuffers(bytes)
    PROVE  ItemsInv'
<1>1. /\ fault = "none" /\ Sound /\ \A i \in items : Stored(i)
  BY DEF getWriteBuffers, During, ByteArrayInv, ItemsInv
<1>2. bytes \in Seq(Cell) /\ Len(bytes) \in Nat
  BY ByteArrayAssumption, BytesAreCells, LenProperties
<1>3. /\ CopyIn(bytes) /\ bytes # <<>> /\ UNCHANGED m_size
      /\ items' = Untouched(m_position, m_position + Len(bytes))
      /\ call'.op = "none" /\ out'.kind = "none"
  BY DEF getWriteBuffers, During, NoResult
<1>4. ItemsReadBack'
  <2>1. \A i \in items' : Encoded(i)
    BY <1>1, <1>3 DEF Stored, Untouched
  <2> QED
    BY <2>1, <1>3, NothingRead DEF Kinds
<1>5. Writing' /\ Reading'
  BY <1>3 DEF Writing, Reading
<1>6. ASSUME fault' = "none" PROVE \A i \in items' : Stored(i)'
  <2> DEFINE to == m_position + Len(bytes)
  <2>1. \A k \in 1..Len(mem) : k \notin (m_position + 1)..to => mem'[k] = mem[k]
    BY <1>1, <1>2, <1>3, <1>6, CopyInStores
  <2>2. m_position \in Nat /\ to \in Nat /\ m_size' \in Nat /\ m_size <= m_size'
    BY <1>1, <1>2, <1>3 DEF Sound
  <2>3. items' = Untouched(m_position, to)
    BY <1>3
  <2> HIDE DEF to
  <2>4. ASSUME NEW i \in items' PROVE Stored(i)'
    <3>1. Stored(i) /\ (i.at + i.len <= m_position \/ to <= i.at)
      BY <2>3, <1>1 DEF Untouched
    <3> QED
      BY <3>1, <2>1, <2>2, <1>1, StoredStays
  <2> QED
    BY <2>4
<1> QED
  BY <1>4, <1>5, <1>6 DEF ItemsInv

\* readFromFile is about to overwrite what is where the file goes.
LEMMA ReadFromFileStores ==
    ASSUME ByteArrayInv, ItemsInv, readFromFile
    PROVE  ItemsInv'
<1>1. /\ fault = "none" /\ Sound /\ \A i \in items : Stored(i)
  BY DEF readFromFile, During, ByteArrayInv, ItemsInv
<1>2. /\ UNCHANGED <<mem, m_size, m_position>>
      /\ items' = Untouched(m_position, m_position + Len(file))
      /\ call'.op = "load" /\ call'.rest = file /\ out'.kind = "none"
  BY DEF readFromFile, NoResult, baVars, sizeVars, cursorVars
<1>3. \A i \in items : Stored(i)'
  BY <1>1, <1>2, AllStay DEF Sound
<1>4. \A i \in items' : i \in items /\ (\/ i.at + i.len <= m_position
                                        \/ m_position + Len(file) <= i.at)
  BY <1>2 DEF Untouched
<1>5. Writing' /\ Reading'
  BY <1>2, <1>4 DEF Writing, Reading
<1>6. ItemsReadBack'
  <2>1. \A i \in items' : Encoded(i)
    BY <1>1, <1>4 DEF Stored
  <2> QED
    BY <2>1, <1>2, NothingRead DEF Kinds
<1> QED
  BY <1>3, <1>4, <1>5, <1>6 DEF ItemsInv

\* One round of readFromFile writes before what is left of the file.
LEMMA LoadNodeStores ==
    ASSUME ByteArrayInv, ByteArrayInv', ItemsInv, LoadNode
    PROVE  ItemsInv'
<1>1. /\ fault = "none" /\ Sound /\ call.op = "load" /\ (Sound' \/ fault' # "none")
      /\ (\A i \in items : Stored(i)) /\ Writing /\ Calling
  BY DEF LoadNode, During, ByteArrayInv, ItemsInv
<1>2. PICK rest, n, bytes, left :
        /\ rest = call.rest
        /\ n = (IF Len(rest) > BaseSize THEN BaseSize ELSE Len(rest))
        /\ bytes = SubSeq(rest, 1, n)
        /\ left = SubSeq(rest, n + 1, Len(rest))
  OBVIOUS
<1>3. /\ write(bytes) /\ UNCHANGED <<items, out>> /\ out.kind = "none"
      /\ call' = IF n < BaseSize THEN NoCall ELSE [op |-> "load", rest |-> left]
  BY <1>1, <1>2 DEF LoadNode, Calling
<1>4. /\ rest \in Seq(Cell) /\ Len(rest) \in Nat /\ n \in Nat /\ n <= Len(rest)
  BY <1>1, <1>2, LenProperties, ByteArrayAssumption DEF Calling
<1>5. bytes \in Seq(Cell) /\ Len(bytes) = n
  <2>1. \A k \in 1..n : rest[k] \in Cell
    BY <1>4, ElementOfSeq
  <2>2. /\ SubSeq(rest, 1, n) \in Seq(Cell)
        /\ Len(SubSeq(rest, 1, n)) = IF 1 <= n THEN n - 1 + 1 ELSE 0
    BY <2>1, <1>4, SubSeqProperties
  <2> QED
    BY <2>2, <1>2, <1>4
<1>6. Len(left) = Len(rest) - n
  <2>1. \A k \in (n + 1)..Len(rest) : rest[k] \in Cell
    BY <1>4, ElementOfSeq
  <2>2. Len(SubSeq(rest, n + 1, Len(rest)))
           = IF n + 1 <= Len(rest) THEN Len(rest) - (n + 1) + 1 ELSE 0
    BY <2>1, <1>4, SubSeqProperties
  <2>3. PICK l : l = Len(rest)
    OBVIOUS
  <2>4. (IF n + 1 <= l THEN l - (n + 1) + 1 ELSE 0) = l - n
    BY <2>3, <1>4
  <2> QED
    BY <2>2, <2>3, <2>4, <1>2
<1>7. \A i \in items : i.at + i.len <= m_position \/ m_position + Len(rest) <= i.at
  BY <1>1, <1>2 DEF Writing
<1>8. ItemsReadBack'
  <2>1. \A i \in items' : Encoded(i)
    BY <1>1, <1>3 DEF Stored
  <2> QED
    BY <2>1, <1>3, NothingRead DEF Kinds
<1>9. ASSUME fault' = "none" PROVE (\A i \in items' : Stored(i)') /\ Writing' /\ Reading'
  <2> DEFINE to == m_position + n
  <2>1. /\ m_position' = to /\ m_size <= m_size'
        /\ \A k \in 1..Len(mem) : k \notin (m_position + 1)..to => mem'[k] = mem[k]
    BY <1>1, <1>3, <1>5, <1>9, WriteStores
  <2>2. m_position \in Nat /\ to \in Nat /\ m_size' \in Nat
    BY <1>1, <1>4, <1>9 DEF Sound
  <2>3. ASSUME NEW i \in items
        PROVE  /\ i.at + i.len <= m_position \/ to <= i.at
               /\ i.at + i.len <= to \/ to + Len(left) <= i.at
    <3>1. i.at \in Nat /\ i.at + i.len \in Nat
      <4> DEFINE t == Text(i.kind, i.value)
      <4>1. i.at \in Nat /\ Len(i.head) \in Nat /\ Len(t) \in Nat /\ i.len = Len(i.head) + Len(t)
        BY <1>1, EncodedTypes DEF Stored
      <4> HIDE DEF t
      <4> QED
        BY <4>1
    <3>2. PICK e : e = i.at + i.len
      OBVIOUS
    <3>3. e <= m_position \/ m_position + Len(rest) <= i.at
      BY <3>2, <1>7
    <3>4. (e <= m_position \/ to <= i.at) /\ (e <= to \/ to + Len(left) <= i.at)
      BY <3>1, <3>2, <3>3, <2>2, <1>4, <1>6
    <3> QED
      BY <3>2, <3>4
  <2> HIDE DEF to
  <2>4. \A i \in items' : Stored(i)'
    BY <2>1, <2>2, <2>3, <1>1, <1>3, StoredStays
  <2>5. CASE n < BaseSize
    <3>1. call'.op = "none"
      BY <2>5, <1>3 DEF NoCall
    <3> QED
      BY <3>1, <2>4 DEF Writing, Reading
  <2>6. CASE ~(n < BaseSize)
    <3>1. call'.op = "load" /\ call'.rest = left
      BY <2>6, <1>3
    <3>2. Writing'
      BY <3>1, <2>1, <2>3, <1>3 DEF Writing
    <3> QED
      BY <3>1, <3>2, <2>4 DEF Reading
  <2> QED
    BY <2>5, <2>6
<1> QED
  BY <1>8, <1>9 DEF ItemsInv

\* Nothing is written yet.
LEMMA ItemsInit == Init => ItemsInv
BY DEF Init, ItemsInv, ItemsReadBack, Writing, Reading, NoCall

\* ItemsInv is inductive, given what is known of the array.
LEMMA ItemsStep ==
    ASSUME StringsFit, ByteArrayInv, ByteArrayInv', ItemsInv, [Next]_vars
    PROVE  ItemsInv'
<1>1. CASE UNCHANGED vars
  BY <1>1 DEF vars, baVars, cursorVars, sizeVars, ItemsInv, ItemsReadBack, Stored, Holds, Writing,
              Reading, Reads, Halfway
<1>2. ASSUME NEW i \in Inputs, Put(i[1], i[2]) PROVE ItemsInv'
  BY <1>2, PutStores
<1>3. ASSUME NEW i \in Inputs, Get(i[1]) PROVE ItemsInv'
  BY <1>3, GetBack
<1>4. CASE writeUint BY <1>4, WriteUintStores
<1>5. CASE PutText BY <1>5, PutTextStores
<1>6. CASE GetVarint BY <1>6, GetVarintBack
<1>7. CASE GetText BY <1>7, GetTextBack
<1>8. ASSUME NEW bytes \in Received, getWriteBuffers(bytes) PROVE ItemsInv'
  BY <1>8, GetWriteBuffersStores
<1>9. CASE readFromFile BY <1>9, ReadFromFileStores
<1>10. CASE LoadNode BY <1>10, LoadNodeStores
<1> QED
  BY <1>1, <1>2, <1>3, <1>4, <1>5, <1>6, <1>7, <1>8, <1>9, <1>10, OthersKeepItems DEF Next

\* Every value that was written with some type and not overwritten since is read back
\* as that value by the matching read, which ends behind it: the varint and zigzag
\* encodings, the byte order and the lengths of strings of bytearray.cpp undo each
\* other, wherever in the list of nodes a value lies and whatever was written, loaded
\* or received around it, if the strings fit their lengths of fixed width.
THEOREM ItemsCorrect == ASSUME StringsFit PROVE Spec => []ItemsReadBack
<1>1. ByteArrayInv /\ ByteArrayInv' /\ ItemsInv /\ [Next]_vars => ItemsInv'
  BY StringsFit, ItemsStep
<1>2. ItemsInv => ItemsReadBack
  BY DEF ItemsInv
<1> QED
  BY <1>1, <1>2, ItemsInit, ByteArrayInvariant, PTL DEF Spec
=============================================================================
