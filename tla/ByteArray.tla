----------------------------- MODULE ByteArray ------------------------------
(***************************************************************************)
(* ByteArray (src/utils/bytearray.cc) and its use by SocketStream          *)
(* (src/stream/SocketStream.cc): a chain of nodes of m_baseSize bytes, a   *)
(* position with a cursor into the chain, and the encodings of integers    *)
(* and strings on top of it.                                               *)
(*                                                                         *)
(* The widths are scaled down: a byte has Radix values, its upper half     *)
(* marks a varint byte that is continued (0x80), a word has Word values    *)
(* and a fixed-size integer FixedBytes bytes.                              *)
(***************************************************************************)
EXTENDS Integers, Sequences, SequencesExt

CONSTANTS
    BaseSize,       \* m_baseSize
    Radix,          \* values of a byte: 256 in the code
    Word,           \* values of an unsigned integer: 2^32 and 2^64 in the code
    MaxChunks,      \* turns of the loop of readUint32 and readUint64: 5 and 10
    FixedBytes,     \* bytes of a fixed-size integer: 2, 4 and 8
    Buffers,        \* byte sequences that programs write
    Items,          \* <<type, value>> pairs that programs write
    MaxNodes,       \* bound: length of the chain
    MaxWrites,      \* bound: writes
    EmptyReads,     \* programs read an empty string where the chain ends
    UnalignedFiles, \* programs call writeToFile at positions inside a node
    Throw,          \* the exception out_of_range
    None

Byte == 0..(Radix - 1)
Msb == Radix \div 2
Junk == 0                      \* a byte that nobody wrote
Null == 0                      \* the node pointer nullptr
Strings == {"string", "vstring"}
Type == {"fixed", "uint", "int"} \cup Strings

ASSUME ByteArrayAssumption ==
    /\ BaseSize \in Nat \ {0} /\ MaxNodes \in Nat \ {0} /\ FixedBytes \in Nat \ {0}
    /\ Radix \in Nat /\ Radix % 2 = 0 /\ Msb > 1
    /\ Word \in Nat \ {0} /\ Msb ^ (MaxChunks - 1) < Word /\ Word <= Msb ^ MaxChunks
    /\ EmptyReads \in BOOLEAN /\ UnalignedFiles \in BOOLEAN
    /\ Buffers \subseteq Seq(Byte)
ASSUME ItemAssumption ==
    \A i \in Items : \/ i[1] \in {"fixed", "uint"} /\ i[2] \in Nat
                     \/ i[1] = "int" /\ i[2] \in Int
                     \/ i[1] \in Strings /\ i[2] \in Seq(Byte)

VARIABLES
    nodes,          \* the chain from m_root on
    m_cur,          \* number of the current node, or Null
    m_position, m_size, m_capacity,
    little,         \* m_endian is the byte order of the machine
    crashed,        \* a null pointer has been dereferenced
    out,            \* the bytes the last call handed out
    val,            \* <<type, value>> of the last typed read, Throw, or None
    writes,         \* number of writes so far
    last            \* the last typed write whose bytes are still in place

bufVars == <<nodes, m_cur, m_position, m_size, m_capacity>>
vars == <<bufVars, little, crashed, out, val, writes, last>>

NewNode == [i \in 1..BaseSize |-> Junk]

Init ==
    /\ nodes = <<NewNode>> /\ m_cur = 1
    /\ m_position = 0 /\ m_size = 0 /\ m_capacity = BaseSize
    /\ little = FALSE /\ crashed = FALSE
    /\ out = <<>> /\ val = None /\ writes = 0 /\ last = None

-----------------------------------------------------------------------------
(* The chain.                                                              *)

NextOf(chain, c) == IF c < Len(chain) THEN c + 1 ELSE Null

\* One turn of the loop of read, write, getReadBuffers and getWriteBuffers: at
\* offset off of a node, with left bytes to go, it takes the cells that are there
\* and goes on to the next node when it has used this one up; it is wild when it
\* dereferences nullptr.
Turn(chain, s) ==
    LET room == BaseSize - s.off
        n == IF room >= s.left THEN s.left ELSE room
        next == IF n = room THEN NextOf(chain, s.node) ELSE s.node
    IN  IF s.left = 0 \/ s.wild THEN s
        ELSE [node |-> next, off |-> 0, left |-> s.left - n,
              cells |-> s.cells \o [j \in 1..n |-> <<s.node, s.off + j>>],
              wild |-> next = Null /\ s.left > n]

\* The loop for n bytes from offset o of node c; a turn takes a byte at least.
Walk(chain, c, o, n) ==
    LET turn[k \in 0..n] ==
          IF k = 0 THEN [node |-> c, off |-> o, left |-> n, cells |-> <<>>, wild |-> c = Null]
          ELSE Turn(chain, turn[k - 1])
    IN  turn[n]

Here(n) == Walk(nodes, m_cur, m_position % BaseSize, n)

Fetch(cells) == [k \in DOMAIN cells |-> nodes[cells[k][1]][cells[k][2]]]

\* The chain with the bytes bs in the cells.
Store(chain, cells, bs) ==
    [i \in DOMAIN chain |-> [j \in 1..BaseSize |->
        IF \E k \in DOMAIN bs : cells[k] = <<i, j>>
        THEN bs[CHOOSE k \in DOMAIN bs : cells[k] = <<i, j>>] ELSE chain[i][j]]]

\* addCapacity: the nodes that make room for n bytes, rounded up.
Missing(n) ==
    LET free == m_capacity - m_position
    IN  IF n <= free THEN 0 ELSE (n - free + BaseSize - 1) \div BaseSize

Extended(n) == nodes \o [i \in 1..Missing(n) |-> NewNode]

\* .. and the current node, which is the first new one if there was no room at all.
CurForWrite(n) ==
    IF Missing(n) > 0 /\ m_position = m_capacity THEN Len(nodes) + 1 ELSE m_cur

-----------------------------------------------------------------------------
(* write, read, setPosition, clear                                         *)

\* Mutant of Put: the size is set even if the position is inside the content.
PutTruncates(bs) ==
    LET n == Len(bs)
        chain == Extended(n)
        walk == Walk(chain, CurForWrite(n), m_position % BaseSize, n)
    IN  IF n = 0 THEN UNCHANGED <<bufVars, crashed>>
        ELSE /\ Len(chain) <= MaxNodes
             /\ crashed' = walk.wild
             /\ nodes' = IF walk.wild THEN chain ELSE Store(chain, walk.cells, bs)
             /\ m_cur' = walk.node
             /\ m_capacity' = BaseSize * Len(chain)
             /\ m_position' = m_position + n
             /\ m_size' = m_position + n

\* write(buf, size)
Put(bs) ==
    LET n == Len(bs)
        chain == Extended(n)
        walk == Walk(chain, CurForWrite(n), m_position % BaseSize, n)
    IN  IF n = 0 THEN UNCHANGED <<bufVars, crashed>>
        ELSE /\ Len(chain) <= MaxNodes
             /\ crashed' = walk.wild
             /\ nodes' = IF walk.wild THEN chain ELSE Store(chain, walk.cells, bs)
             /\ m_cur' = walk.node
             /\ m_capacity' = BaseSize * Len(chain)
             /\ m_position' = m_position + n
             /\ m_size' = IF m_position + n > m_size THEN m_position + n ELSE m_size

\* Bytes from m_position up to m_position + n are overwritten.
Forget(n) ==
    last' = IF last # None /\ m_position < last.at + last.len /\ last.at < m_position + n
            THEN None ELSE last

\* A call that writes is made.
Count == ~crashed /\ writes < MaxWrites /\ writes' = writes + 1

Write(bs) ==
    /\ Count
    /\ Put(bs) /\ Forget(Len(bs))
    /\ out' = <<>> /\ val' = None
    /\ UNCHANGED little

ReadSize == m_size - m_position

\* The loop of setPosition: where it is, and what is left of the position.
SeekTurns(chain, v) ==
    LET turn[k \in 0..Len(chain)] ==
          IF k = 0 THEN [node |-> 1, left |-> v]
          ELSE IF turn[k - 1].left <= BaseSize THEN turn[k - 1]
          ELSE [node |-> NextOf(chain, turn[k - 1].node), left |-> turn[k - 1].left - BaseSize]
    IN  turn[Len(chain)]

\* Mutant of Seek: a position at the end of a node keeps that node.
SeekStopsEarly(chain, v) == SeekTurns(chain, v).node

\* m_cur after setPosition(v).
Seek(chain, v) ==
    LET end == SeekTurns(chain, v)
    IN  IF end.left = BaseSize THEN NextOf(chain, end.node) ELSE end.node

SetPosition(v) ==
    /\ ~crashed
    /\ v <= m_capacity
    /\ m_position' = v
    /\ m_size' = IF v > m_size THEN v ELSE m_size
    /\ m_cur' = Seek(nodes, v)
    /\ out' = <<>> /\ val' = None
    /\ UNCHANGED <<nodes, m_capacity, little, crashed, writes, last>>

Clear ==
    /\ ~crashed
    /\ m_position' = 0 /\ m_size' = 0 /\ m_capacity' = BaseSize
    /\ nodes' = <<nodes[1]>> /\ m_cur' = 1
    /\ out' = <<>> /\ val' = None /\ last' = None
    /\ UNCHANGED <<little, crashed, writes>>

SetIsLittleEndian ==
    /\ ~crashed
    /\ little' = ~little
    /\ out' = <<>> /\ val' = None
    /\ UNCHANGED <<bufVars, crashed, writes, last>>

-----------------------------------------------------------------------------
(* Encodings.                                                              *)

\* writeUint32, writeUint64
EncodeUint(v) ==
    LET code[u \in 0..v] ==
          IF u < Msb THEN <<u>> ELSE <<(u % Msb) + Msb>> \o code[u \div Msb]
    IN  code[v]

\* readUint32, readUint64: the bytes as far as the loop has read them, the last
\* one first.
DecodeUint(bs) ==
    LET value[k \in 0..Len(bs)] ==
          IF k = 0 THEN 0 ELSE ((bs[Len(bs) + 1 - k] % Msb) + Msb * value[k - 1]) % Word
    IN  value[Len(bs)]

\* In two's complement -v and v * 2 wrap.
EncodeZigzag(v) == (IF v < 0 THEN (-v) * 2 - 1 ELSE v * 2) % Word

\* Mutant of DecodeZigzag: negation instead of the complement.
DecodeNegates(u) == IF u % 2 = 0 THEN u \div 2 ELSE -(u \div 2)

DecodeZigzag(u) == IF u % 2 = 0 THEN u \div 2 ELSE -(u \div 2) - 1

\* Fixed-size integers, swapped unless m_endian is the order of the machine.
Swap(bs) == IF little THEN bs ELSE Reverse(bs)
EncodeFixed(v) ==
    LET rest[i \in 0..FixedBytes] == IF i = 0 THEN v ELSE rest[i - 1] \div Radix
    IN  Swap([i \in 1..FixedBytes |-> rest[i - 1] % Radix])
DecodeFixed(bs) ==
    LET value[k \in 0..FixedBytes] ==
          IF k = 0 THEN 0 ELSE Swap(bs)[FixedBytes + 1 - k] + Radix * value[k - 1]
    IN  value[FixedBytes]

Encode(t, v) ==
    CASE t = "fixed" -> EncodeFixed(v)
      [] t = "uint" -> EncodeUint(v)
      [] t = "int" -> EncodeUint(EncodeZigzag(v))
      [] t = "string" -> EncodeFixed(Len(v)) \o v
      [] t = "vstring" -> EncodeUint(Len(v)) \o v

\* writeFint16 .. writeStringVint
WriteItem(t, v) ==
    LET bs == Encode(t, v)
    IN  /\ Count
        /\ Put(bs)
        /\ last' = [at |-> m_position, len |-> Len(bs), type |-> t, value |-> v,
                    little |-> little]
        /\ out' = <<>> /\ val' = None
        /\ UNCHANGED little

Total(sizes) ==
    LET sum[k \in 0..Len(sizes)] == IF k = 0 THEN 0 ELSE sum[k - 1] + sizes[k]
    IN  sum[Len(sizes)]

\* The bytes ahead that may be read.
Ahead == Fetch(Here(ReadSize).cells)

\* The read() calls of a varint, byte by byte up to the last one; the one behind
\* the end if there is no last one.
VarintReads ==
    LET stop == {k \in 1..ReadSize : Ahead[k] < Msb \/ k = MaxChunks} \cup {ReadSize + 1}
    IN  [k \in 1..(CHOOSE k \in stop : \A j \in stop : k <= j) |-> 1]

\* The read() calls of an integer, or of the length of a string.
NumberReads(t) == IF t \in {"fixed", "string"} THEN <<FixedBytes>> ELSE VarintReads

DecodeNumber(t, bs) ==
    CASE t \in {"fixed", "string"} -> DecodeFixed(bs)
      [] t \in {"uint", "vstring"} -> DecodeUint(bs)
      [] t = "int" -> DecodeZigzag(DecodeUint(bs))

\* The sizes of the read() calls that a typed read makes, the last of which may
\* ask for more than there is.
Reads(t) ==
    LET n == Total(NumberReads(t))
    IN  IF t \in Strings /\ n <= ReadSize
        THEN Append(NumberReads(t), DecodeNumber(t, SubSeq(Ahead, 1, n)))
        ELSE NumberReads(t)

DecodeItem(t, bs) ==
    IF t \in Strings THEN SubSeq(bs, Total(NumberReads(t)) + 1, Len(bs))
    ELSE DecodeNumber(t, bs)

\* One read(buf, size) after another, from the cursor [pos, cur].
Advance(k, n) ==
    LET walk == Walk(nodes, k.cur, k.pos % BaseSize, n)
    IN  [pos |-> k.pos + n, cur |-> walk.node, wild |-> k.wild \/ walk.wild]

ReadAll(sizes) ==
    LET at[k \in 0..Len(sizes)] ==
          IF k = 0 THEN [pos |-> m_position, cur |-> m_cur, wild |-> FALSE]
          ELSE Advance(at[k - 1], sizes[k])
    IN  at[Len(sizes)]

\* The last read() asks for nothing where the chain ends.
EmptyAtEnd(sizes) ==
    sizes # <<>> /\ Last(sizes) = 0 /\ m_position + Total(sizes) = m_capacity

\* The read() calls of sizes are made up to the one that throws out_of_range.
Consume(sizes) ==
    LET throws == Total(sizes) > ReadSize
        done == IF throws THEN Front(sizes) ELSE sizes
        end == ReadAll(done)
    IN  /\ ~crashed
        /\ EmptyReads \/ ~EmptyAtEnd(done)
        /\ crashed' = end.wild
        /\ m_position' = end.pos /\ m_cur' = end.cur
        /\ out' = IF end.wild THEN <<>> ELSE Fetch(Here(Total(done)).cells)
        /\ UNCHANGED <<nodes, m_size, m_capacity, little, writes, last>>

\* read(buf, n)
Read(n) == Consume(<<n>>) /\ val' = IF n > ReadSize THEN Throw ELSE None

\* readFint16 .. readStringVint
ReadItem(t) ==
    /\ Consume(Reads(t))
    /\ val' = IF Total(Reads(t)) > ReadSize THEN Throw
              ELSE IF crashed' THEN None
              ELSE <<t, DecodeItem(t, Fetch(Here(Total(Reads(t))).cells))>>

-----------------------------------------------------------------------------
(* Buffers and files.                                                      *)

\* The iovecs of getWriteBuffers(len) and getReadBuffers(len), as one.  Both
\* return early when there is nothing to transfer, with no iovec; the socket call
\* then transfers nothing.
NoBuffers == [cells |-> <<>>, wild |-> FALSE]

WriteBuffers(n) ==
    IF n = 0 THEN NoBuffers ELSE Walk(Extended(n), CurForWrite(n), m_position % BaseSize, n)

ReadBuffers(n) ==
    LET len == IF n > ReadSize THEN ReadSize ELSE n
    IN  IF len = 0 THEN NoBuffers ELSE Here(len)

\* SocketStream::read(ba, len): getWriteBuffers, recv of the bytes bs, setPosition.
Receive(bs, n) ==
    LET chain == Extended(n)
        walk == WriteBuffers(n)
        p == m_position + Len(bs)
    IN  /\ Count
        /\ Len(bs) <= n /\ Len(chain) <= MaxNodes
        /\ crashed' = walk.wild
        /\ nodes' = IF walk.wild THEN chain ELSE Store(chain, walk.cells, bs)
        /\ m_capacity' = BaseSize * Len(chain)
        /\ m_cur' = IF bs = <<>> THEN CurForWrite(n)
                    ELSE Seek(chain, p)
        /\ m_position' = p
        /\ m_size' = IF p > m_size THEN p ELSE m_size
        /\ Forget(Len(bs))
        /\ out' = <<>> /\ val' = None
        /\ UNCHANGED little

\* SocketStream::write(ba, len): getReadBuffers, send of the first k bytes,
\* setPosition.
Send(n, k) ==
    LET walk == ReadBuffers(n)
    IN  /\ ~crashed
        /\ k <= Len(walk.cells)
        /\ crashed' = walk.wild
        /\ out' = SubSeq(Fetch(walk.cells), 1, k)
        /\ m_position' = m_position + k
        /\ m_cur' = IF k = 0 THEN m_cur ELSE Seek(nodes, m_position + k)
        /\ val' = None
        /\ UNCHANGED <<nodes, m_size, m_capacity, little, writes, last>>

\* toString: read(buf, getReadSize(), m_position) const
BytesAhead ==
    LET walk == Here(ReadSize)
    IN  /\ ~crashed
        /\ crashed' = (ReadSize > 0 /\ walk.wild)
        /\ out' = IF ReadSize = 0 \/ walk.wild THEN <<>> ELSE Fetch(walk.cells)
        /\ val' = None
        /\ UNCHANGED <<bufVars, little, writes, last>>

\* One turn of the loop of writeToFile: at most m_baseSize bytes less the offset,
\* then always the next node.
FileTurn(s) ==
    LET off == (m_size - s.left) % BaseSize
        len == (IF s.left > BaseSize THEN BaseSize ELSE s.left) - off
    IN  IF s.left = 0 \/ s.wild THEN s
        ELSE IF s.node = Null \/ len < 0 THEN [s EXCEPT !.wild = TRUE]
        ELSE [node |-> NextOf(nodes, s.node), left |-> s.left - len,
              cells |-> s.cells \o [j \in 1..len |-> <<s.node, off + j>>], wild |-> FALSE]

\* Every turn leaves a node behind.
FileWalk ==
    LET turn[k \in 0..(Len(nodes) + 1)] ==
          IF k = 0 THEN [node |-> m_cur, left |-> ReadSize, cells |-> <<>>, wild |-> FALSE]
          ELSE FileTurn(turn[k - 1])
    IN  turn[Len(nodes) + 1]

WriteToFile ==
    /\ ~crashed
    /\ UnalignedFiles \/ m_position % BaseSize = 0
    /\ crashed' = FileWalk.wild
    /\ out' = IF FileWalk.wild THEN <<>> ELSE Fetch(FileWalk.cells)
    /\ val' = None
    /\ UNCHANGED <<bufVars, little, writes, last>>

-----------------------------------------------------------------------------
Next ==
    \/ \E bs \in Buffers : \/ Write(bs)
                           \/ \E n \in Len(bs)..(Len(bs) + BaseSize) : Receive(bs, n)
    \/ \E i \in Items : WriteItem(i[1], i[2])
    \/ \E n \in 0..(m_size + 1) : Read(n)
    \/ \E t \in Type : ReadItem(t)
    \/ \E v \in 0..m_capacity : SetPosition(v)
    \/ \E n \in 0..(BaseSize + 1) : \E k \in 0..n : Send(n, k)
    \/ Clear \/ SetIsLittleEndian \/ BytesAhead \/ WriteToFile

Spec == Init /\ [][Next]_vars

-----------------------------------------------------------------------------
(* Properties.                                                             *)

\* Every variable keeps its type: the chain holds bytes, m_cur is one of its nodes
\* or nullptr, and no size goes below zero.
TypeOK ==
    /\ nodes \in Seq([1..BaseSize -> Byte])
    /\ m_cur \in 0..Len(nodes)
    /\ m_position \in Nat /\ m_size \in Nat /\ m_capacity \in Nat
    /\ little \in BOOLEAN /\ crashed \in BOOLEAN
    /\ out \in Seq(Byte)

\* No call dereferences the cursor when it is nullptr, or walks off the chain.
NoNullDereference == ~crashed

\* The cursor is at the node of the position, whatever mix of writes, reads, seeks
\* and growth led there, and it is nullptr exactly when the chain is used up: every
\* call computes its offset from m_position but starts at m_cur.
CursorAtPosition ==
    /\ m_position <= m_size /\ m_size <= m_capacity
    /\ m_capacity = BaseSize * Len(nodes)
    /\ m_cur = IF m_position = m_capacity THEN Null ELSE m_position \div BaseSize + 1

\* Chain, cursor and sizes agree after every call: the three parts above.
ArrayInv == TypeOK /\ NoNullDereference /\ CursorAtPosition

\* What was written with a type is what a read with that type and byte order
\* returns at its place, unless other bytes have been written over it.
ReadsBack ==
    [][\A t \in Type :
         /\ last # None
         /\ last.at = m_position /\ last.type = t /\ last.little = little
         /\ ReadItem(t) /\ ~crashed'
         => val' = <<t, last.value>>]_vars

Content == SubSeq(FlattenSeq(nodes), 1, m_size)

File == INSTANCE ByteFile WITH content <- Content, pos <- m_position

\* ByteArray is a byte sequence with a position: no piece of the chain is skipped,
\* repeated or handed out for another one.
ImplementsFile == File!FileSpec
=============================================================================
