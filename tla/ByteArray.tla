----------------------------- MODULE ByteArray ------------------------------
(***************************************************************************)
(* sylar::ByteArray (bytearray.h, bytearray.cpp): a list of memory blocks  *)
(* of m_baseSize bytes each, a position with a pointer to its block, and   *)
(* the encodings of numbers and strings on top of it.                      *)
(*                                                                         *)
(* The width of a byte is scaled: GroupBits data bits (7 in the code) and  *)
(* one for "more to come", numbers of VarBits bits (32 and 64) and         *)
(* fixed-size numbers of one and two bytes (one to eight).                 *)
(***************************************************************************)
EXTENDS Integers, Sequences

CONSTANTS
    BaseSize,      \* m_baseSize
    GroupBits, VarBits,
    Host,          \* SYLAR_BYTE_ORDER
    Items,         \* what clients write: pairs of a type and a value
    Lengths,       \* the lengths and positions clients pass
    FreshBytes,    \* what uninitialised memory may hold
    MaxNodes,      \* bound: blocks of the list
    MaxWrites      \* bound: calls that write

ASSUME ByteArrayAssumption ==
    /\ BaseSize \in Nat \ {0} /\ GroupBits \in Nat \ {0} /\ VarBits \in Nat \ {0}
    /\ Host \in {"little", "big"} /\ Lengths \subseteq Nat
    /\ MaxNodes \in Nat \ {0} /\ MaxWrites \in Nat

VARIABLES
    m_position, m_capacity, m_size, m_endian,
    nodes,         \* the contents of the blocks from m_root on
    m_cur,         \* index of the current block in nodes, or Null
    writes,
    io,            \* the last call: see FlatBuffer; val is the value it returned
    tape,          \* ghost: items in the buffer that nothing has overwritten
    failed         \* a null node was dereferenced

vars == <<m_position, m_capacity, m_size, m_endian, nodes, m_cur, writes, io, tape, failed>>

Null == 0
Offsets == 0..(BaseSize - 1)
GetReadSize == m_size - m_position
-----------------------------------------------------------------------------
(* Encodings *)

\* b multiplied n times, a shift by n digits of base b.
Power(b, n) == LET P[k \in 0..n] == IF k = 0 THEN 1 ELSE b * P[k - 1]
               IN  P[n]

\* The value of digits in base b, lowest first.
Number(digits, b) ==
    LET Upto[i \in 0..Len(digits)] ==
            IF i = 0 THEN 0 ELSE Upto[i - 1] + digits[i] * Power(b, i - 1)
    IN  Upto[Len(digits)]

Half == Power(2, GroupBits)
Radix == 2 * Half
Word == Power(2, VarBits)
Groups == (VarBits + GroupBits - 1) \div GroupBits

\* byteswap()
ByteSwap(bytes) == [i \in DOMAIN bytes |-> bytes[Len(bytes) + 1 - i]]

\* writeFuint8() and its wider forms: the bytes in memory, swapped unless m_endian
\* is the order of the machine.
Fixed(k, v, endian) ==
    LET little == [i \in 1..k |-> (v \div Power(Radix, i - 1)) % Radix]
        native == IF Host = "little" THEN little ELSE ByteSwap(little)
    IN  IF endian = Host THEN native ELSE ByteSwap(native)

\* Mutant: the reader forgets to swap.
FixedValueNative(bytes, endian) ==
    LET little == IF Host = "little" THEN bytes ELSE ByteSwap(bytes)
    IN  Number(little, Radix)

\* readFuint8() and its wider forms.
FixedValue(bytes, endian) ==
    LET native == IF endian = Host THEN bytes ELSE ByteSwap(bytes)
        little == IF Host = "little" THEN native ELSE ByteSwap(native)
    IN  Number(little, Radix)

\* writeUint32(), writeUint64(): the groups, lowest first.
Varint(value) ==
    LET From[v \in 0..value] == IF v >= Half THEN <<(v % Half) + Half>> \o From[v \div Half]
                                             ELSE <<v>>
    IN  From[value]

\* Mutant: the loop has one round less.
VarintEndsEarly(bytes) == {i \in DOMAIN bytes : i = Groups - 1 \/ bytes[i] < Half}

\* The bytes that readUint32() takes from a stream: up to the first one without
\* the mark, and not more than the loop has rounds.
VarintEnds(bytes) == {i \in DOMAIN bytes : i = Groups \/ bytes[i] < Half}

\* readUint32(), readUint64(): the value of these bytes.
VarintValue(bytes) == Number([i \in DOMAIN bytes |-> bytes[i] % Half], Half) % Word

\* EncodeZigzag32(), with the overflow of -v and v * 2 wrapping.
EncodeZigzag(v) ==
    IF v < 0 THEN (((-v) % Word) * 2 - 1) % Word ELSE (v * 2) % Word

\* DecodeZigzag32(): xor with all ones is the complement.
DecodeZigzag(u) == IF u % 2 = 0 THEN u \div 2 ELSE - (u \div 2) - 1

\* The bytes of an item. A value is a sequence: of one number, or the string.
Encode(ty, v, endian) ==
    CASE ty = "fuint8"     -> <<v[1]>>
      [] ty = "fuint16"    -> Fixed(2, v[1], endian)
      [] ty = "uint32"     -> Varint(v[1])
      [] ty = "int32"      -> Varint(EncodeZigzag(v[1]))
      [] ty = "stringF16"  -> Fixed(2, Len(v), endian) \o v
      [] ty = "stringVint" -> Varint(Len(v)) \o v
      [] ty = "string"     -> v

\* Items are written with a type that has an encoding for them.
ASSUME ItemsAssumption ==
    \A item \in Items, endian \in {"little", "big"} :
        Encode(item[1], item[2], endian) \in Seq(Int)

\* A number is of its type's width, and a string not longer than its length field can say.
Fits(ty, v) ==
    /\ v \in Seq(Int)
    /\ ty \in {"fuint8", "fuint16", "uint32", "int32"} => Len(v) = 1
    /\ ty = "fuint8" => v[1] \in 0..(Radix - 1)
    /\ ty = "fuint16" => v[1] \in 0..(Radix * Radix - 1)
    /\ ty = "uint32" => v[1] \in 0..(Word - 1)
    /\ ty = "int32" => v[1] \in (- Power(2, VarBits - 1))..(Power(2, VarBits - 1) - 1)
    /\ ty = "stringF16" => Len(v) < Radix * Radix
    /\ ty = "stringVint" => Len(v) < Word

ASSUME FitAssumption == \A item \in Items : Fits(item[1], item[2])
-----------------------------------------------------------------------------
(* The list of blocks *)

\* The node `steps' further on from block cur; there may be none.
Forward(cur, steps, list) ==
    IF cur # Null /\ cur + steps <= Len(list) THEN cur + steps ELSE Null

\* n bytes from offset npos of block cur on, as the copy loops go through the list.
Copy(cur, npos, n) ==
    [i \in 1..n |-> nodes[cur + (npos + i - 1) \div BaseSize][(npos + i - 1) % BaseSize]]

\* n bytes at the position, reached through m_cur.
AtCur(n) == Copy(m_cur, m_position % BaseSize, n)

\* n bytes at position p, reached from m_root.
AtRoot(p, n) == Copy(1 + p \div BaseSize, p % BaseSize, n)

\* Mutant: a block that would be filled in part is not added.
MissingRoundedDown(size) ==
    LET old_cap == m_capacity - m_position
    IN  IF old_cap >= size THEN 0 ELSE (size - old_cap) \div BaseSize

\* addCapacity(size): how many blocks are missing.
Missing(size) ==
    LET old_cap == m_capacity - m_position
        more == size - old_cap
    IN  IF old_cap >= size THEN 0
        ELSE more \div BaseSize + (IF more % BaseSize = 0 THEN 0 ELSE 1)

\* addCapacity(size): the list with these blocks, and the current block, which is
\* the first of them if the old list was full.
Grown(size, fresh) ==
    nodes \o [i \in 1..Missing(size) |-> [o \in Offsets |-> fresh]]
GrownCur(size) ==
    IF Missing(size) > 0 /\ m_capacity = m_position THEN Len(nodes) + 1 ELSE m_cur

Call(op, arg, bytes, val) ==
    io' = [op |-> op, arg |-> arg, thrown |-> FALSE, bytes |-> bytes, val |-> val]
Throws(op, arg) ==
    io' = [op |-> op, arg |-> arg, thrown |-> TRUE, bytes |-> <<>>, val |-> <<>>]

Init == /\ m_position = 0 /\ m_capacity = BaseSize /\ m_size = 0
        /\ m_endian = "big"
        /\ \E fresh \in FreshBytes : nodes = <<[o \in Offsets |-> fresh]>>
        /\ m_cur = 1
        /\ writes = 0 /\ tape = {} /\ failed = FALSE
        /\ io = [op |-> "new", arg |-> <<>>, thrown |-> FALSE, bytes |-> <<>>, val |-> <<>>]

\* write(buf, size) for size > 0: room is made, and the bytes go into the list from
\* m_cur on; m_cur moves on when the last byte fills its block.
Put(bytes) ==
    LET n == Len(bytes)
        npos == m_position % BaseSize
        cur == GrownCur(n)
    IN
    /\ Len(nodes) + Missing(n) <= MaxNodes /\ writes < MaxWrites
    /\ writes' = writes + 1
    /\ \E fresh \in FreshBytes :
           LET list == Grown(n, fresh)
               Byte(b, o) == (b - cur) * BaseSize + o - npos + 1
           IN  nodes' = [b \in 1..Len(list) |-> [o \in Offsets |->
                            IF b >= cur /\ Byte(b, o) \in 1..n THEN bytes[Byte(b, o)]
                                                               ELSE list[b][o]]]
    /\ m_capacity' = m_capacity + Missing(n) * BaseSize
    /\ m_cur' = Forward(cur, (npos + n) \div BaseSize, nodes')
    /\ m_position' = m_position + n
    /\ m_size' = IF m_position' > m_size THEN m_position' ELSE m_size

-----------------------------------------------------------------------------
(* The functions that only look: what they return in the present state *)

Bytes(bytes) == [null |-> FALSE, thrown |-> FALSE, bytes |-> bytes]
OutOfRange == [null |-> FALSE, thrown |-> TRUE, bytes |-> <<>>]
NoNode == [null |-> TRUE, thrown |-> FALSE, bytes |-> <<>>]

\* Mutant: the last byte of the data cannot be reached.
ReadAtShort(n, p) ==
    CASE p <= m_size /\ n >= m_size - p -> OutOfRange
      [] p < m_size /\ n < m_size - p   -> Bytes(AtRoot(p, n))
      [] OTHER                          -> NoNode

\* read(buf, n, p). Past the data m_size - p wraps, and nothing is too long.
ReadAt(n, p) ==
    CASE p <= m_size /\ n > m_size - p               -> OutOfRange
      [] p < m_capacity /\ p + n <= m_capacity /\ (p > m_size \/ n <= m_size - p)
                                                     -> Bytes(AtRoot(p, n))
      [] OTHER                                       -> NoNode

\* toString(), toHexString(): the rest of the data, if there is any.
ToString == IF GetReadSize = 0 THEN Bytes(<<>>) ELSE ReadAt(GetReadSize, m_position)

\* getReadBuffers(buffers, len)
GetReadBuffers(len) == Bytes(AtCur(IF len > GetReadSize THEN GetReadSize ELSE len))

\* getReadBuffers(buffers, len, position)
GetReadBuffersAt(len, p) ==
    LET n == IF len > m_size - p THEN m_size - p ELSE len
    IN  CASE p > m_size                              -> OutOfRange
          [] p <= m_size /\ len = 0                  -> Bytes(<<>>)
          [] p <= m_size /\ len > 0 /\ p < m_capacity -> Bytes(AtRoot(p, n))
          [] OTHER                                   -> NoNode

\* The loop of writeToFile(): it goes on to the next block after each round,
\* whatever it has written, and stops when nothing is left.
FileLoop[loop \in Nat \X Nat \X Nat] ==
    LET read_size == loop[1]
        pos == loop[2]
        cur == loop[3]
        diff == pos % BaseSize
        len == (IF read_size > BaseSize THEN BaseSize ELSE read_size) - diff
        rest == FileLoop[<<read_size - len, pos + len, Forward(cur, 1, nodes)>>]
    IN  CASE read_size = 0              -> Bytes(<<>>)
          [] read_size > 0 /\ cur = Null -> NoNode
          [] OTHER -> [rest EXCEPT !.bytes = Copy(cur, diff, len) \o @]

\* Mutant: the loop starts with the first block.
WriteToFileFromRoot == FileLoop[<<GetReadSize, m_position, 1>>]

\* writeToFile(): the loop from the current block on.
WriteToFile == FileLoop[<<GetReadSize, m_position, m_cur>>]
-----------------------------------------------------------------------------
(* Operations *)

\* Every write function: writeF*(), write*int*(), writeFloat() and writeDouble() by
\* way of a fixed-size number, writeString*(), and readFromFile(), which writes a
\* file's contents block by block. An item of no bytes changes nothing.
Write(ty, v) ==
    LET bytes == Encode(ty, v, m_endian)
    IN
    /\ Call("write", bytes, <<>>, <<>>)
    /\ \/ /\ bytes = <<>>
          /\ UNCHANGED <<m_position, m_capacity, m_size, nodes, m_cur, writes, tape>>
       \/ /\ bytes # <<>>
          /\ Put(bytes)
          /\ tape' = {r \in tape : r.end <= m_position \/ r.at >= m_position'}
                     \cup {[ty |-> ty, v |-> v, endian |-> m_endian,
                            at |-> m_position, end |-> m_position']}
    /\ UNCHANGED <<m_endian, failed>>

\* Mutant: a read that ends with a block stays in it.
MoveStays(n) ==
    /\ m_position' = m_position + n
    /\ m_cur' = IF n = 0 THEN m_cur
               ELSE Forward(m_cur, ((m_position % BaseSize) + n - 1) \div BaseSize, nodes)

\* read(buf, n) copies n bytes and moves on.
Move(n) ==
    /\ m_position' = m_position + n
    /\ m_cur' = Forward(m_cur, ((m_position % BaseSize) + n) \div BaseSize, nodes)

\* A call asks the null m_cur for its size, and the program ends in it.
NullNode(op, arg) == Call(op, arg, <<>>, <<>>) /\ failed' = TRUE

\* The bytes of the number a reader begins with; none if they are not all there.
Heads(ty) ==
    IF ty \in {"uint32", "int32", "stringVint"}
    THEN LET ends == VarintEnds(AtCur(GetReadSize))
         IN  {AtCur(i) : i \in {e \in ends : \A f \in ends : e <= f}}
    ELSE LET k == IF ty = "fuint8" THEN 1 ELSE 2
         IN  IF k > GetReadSize THEN {} ELSE {AtCur(k)}

\* readF*(), readUint32() and the others throw at the first byte that is missing;
\* the loop of a varint has consumed what was there.
ReadHeadThrows(ty) ==
    /\ Heads(ty) = {}
    /\ \/ /\ ty \in {"uint32", "int32", "stringVint"}
          /\ Move(GetReadSize) /\ Throws("read", <<1>>)
       \/ /\ ty \in {"fuint8", "fuint16", "stringF16"}
          /\ Move(0) /\ Throws("read", <<IF ty = "fuint8" THEN 1 ELSE 2>>)
    /\ UNCHANGED failed

\* The number is there.
ReadNumber(ty) ==
    /\ ty \notin {"stringF16", "stringVint"}
    /\ \E head \in Heads(ty) :
           /\ Move(Len(head))
           /\ Call("read", <<Len(head)>>, head,
                   <<CASE ty = "uint32" -> VarintValue(head)
                       [] ty = "int32"  -> DecodeZigzag(VarintValue(head))
                       [] OTHER         -> FixedValue(head, m_endian)>>)
    /\ UNCHANGED failed

\* readString*(): the length is there, and read() follows for as many bytes. It
\* asks m_cur for its size also when there is nothing to read.
ReadString(ty) ==
    /\ ty \in {"stringF16", "stringVint"}
    /\ \E head \in Heads(ty) :
           LET h == Len(head)
               len == IF ty = "stringF16" THEN FixedValue(head, m_endian)
                                          ELSE VarintValue(head)
               cur == Forward(m_cur, ((m_position % BaseSize) + h) \div BaseSize, nodes)
               all == AtCur(h + len)
           IN
           \/ /\ len > GetReadSize - h
              /\ Move(h) /\ Throws("read", <<len>>)
              /\ UNCHANGED failed
           \/ /\ len \in 0..(GetReadSize - h) /\ cur # Null
              /\ Move(h + len) /\ Call("read", <<h + len>>, all, SubSeq(all, h + 1, h + len))
              /\ UNCHANGED failed
           \/ /\ len \in 0..(GetReadSize - h) /\ cur = Null
              /\ Move(h) /\ NullNode("read", <<h>>)

Read(ty) ==
    /\ ReadHeadThrows(ty) \/ ReadNumber(ty) \/ ReadString(ty)
    /\ UNCHANGED <<m_capacity, m_size, m_endian, nodes, writes, tape>>

\* getWriteBuffers(buffers, len)
GetWriteBuffers(len) ==
    LET npos == m_position % BaseSize
        cur == GrownCur(len)
        Place(i) == (cur + (npos + i - 1) \div BaseSize - 1) * BaseSize
                    + ((npos + i - 1) % BaseSize)
    IN
    /\ Len(nodes) + Missing(len) <= MaxNodes
    /\ \E fresh \in FreshBytes : nodes' = Grown(len, fresh)
    /\ m_capacity' = m_capacity + Missing(len) * BaseSize
    /\ m_cur' = cur
    /\ Call("reserve", <<len>>, [i \in 1..len |-> Place(i)], <<>>)
    /\ UNCHANGED <<m_position, m_size, m_endian, writes, tape, failed>>

\* setPosition(v): the walk to the block of v asks every block on its way for its
\* size, and one more, which there is not, when v is the end of the last one.
SetPosition(v) ==
    /\ \/ v > m_capacity /\ Throws("seek", <<v>>) /\ UNCHANGED <<m_position, m_size, m_cur, failed>>
       \/ /\ v <= m_capacity
          /\ m_position' = v
          /\ m_size' = IF v > m_size THEN v ELSE m_size
          /\ m_cur' = Forward(1, v \div BaseSize, nodes)
          /\ IF m_cur' = Null THEN NullNode("seek", <<v>>)
             ELSE Call("seek", <<v>>, <<>>, <<>>) /\ UNCHANGED failed
    /\ UNCHANGED <<m_capacity, m_endian, nodes, writes, tape>>

\* clear(): only the first block is kept.
Clear ==
    /\ m_position' = 0 /\ m_size' = 0
    /\ m_capacity' = BaseSize
    /\ nodes' = <<nodes[1]>> /\ m_cur' = 1
    /\ tape' = {}
    /\ Call("clear", <<>>, <<>>, <<>>)
    /\ UNCHANGED <<m_endian, writes, failed>>

SetIsLittleEndian(val) ==
    /\ m_endian' = IF val THEN "little" ELSE "big"
    /\ UNCHANGED <<m_position, m_capacity, m_size, nodes, m_cur, writes, io, tape, failed>>

Types == {"fuint8", "fuint16", "uint32", "int32", "stringF16", "stringVint"}

Next ==
    \/ /\ ~failed
       /\ \/ \E item \in Items : Write(item[1], item[2])
          \/ \E ty \in Types : Read(ty)
          \/ \E n \in Lengths : GetWriteBuffers(n) \/ SetPosition(n)
          \/ Clear
          \/ \E val \in BOOLEAN : SetIsLittleEndian(val)
    \/ failed /\ UNCHANGED vars

Spec == Init /\ [][Next]_vars
-----------------------------------------------------------------------------
(* Properties *)

\* m_cur is the block of m_position, and no block exactly at the end of a full
\* buffer, after every mixture of reads, writes, jumps and growth; the capacity is
\* what the blocks hold and the data ends inside of it.
CurIsAligned ==
    /\ m_capacity = Len(nodes) * BaseSize
    /\ m_position <= m_size /\ m_size <= m_capacity
    /\ m_cur = IF m_position = m_capacity THEN Null ELSE 1 + m_position \div BaseSize

\* The encodings lose nothing: for every number of the width, also the most
\* negative one, and in both byte orders, reading gives back what was written, and
\* a varint fits into the array tmp[] of its writer. (Nothing of this depends on
\* the buffer; it is evaluated while the buffer is new.)
CodecIsExact ==
    writes = 0 /\ io.op = "new" =>
        /\ \A v \in 0..(Word - 1) :
               LET bytes == Varint(v)
               IN  /\ Len(bytes) <= Groups /\ VarintEnds(bytes) = {Len(bytes)}
                   /\ VarintValue(bytes) = v
        /\ \A v \in (- Power(2, VarBits - 1))..(Power(2, VarBits - 1) - 1) :
               /\ EncodeZigzag(v) \in 0..(Word - 1)
               /\ DecodeZigzag(EncodeZigzag(v)) = v
        /\ \A v \in 0..(Radix * Radix - 1) :
               FixedValue(Fixed(2, v, m_endian), m_endian) = v

\* What was written, in any order, across blocks, before and after growth, and has
\* not been overwritten, is what a read of its type at its place returns, and the
\* position is then behind it. (Except where the program ends: an empty string at the
\* end of a full buffer.)
ReadsBack ==
    [][\A r \in tape :
          \A ty \in Types \cap {r.ty} :
              m_position = r.at /\ m_endian = r.endian /\ Read(ty) /\ ~failed' =>
                  ~io'.thrown /\ io'.val = r.v /\ m_position' = r.end]_vars

\* The n bytes of the data from position p on.
Data(p, n) == Bytes([i \in 1..n |-> nodes[(p + i - 1) \div BaseSize + 1][(p + i - 1) % BaseSize]])

\* read() at a position, getReadBuffers() and toString() return what is in the data:
\* the bytes from a position, cut off at the end of the data or refused, in all blocks
\* they span. (Not covered: a look from the end of a full buffer, read() from past the
\* data, and getReadBuffers() at a position where it cuts the length: the code does so
\* to m_size - position, bytearray.h:433 says to getReadSize().)
LooksAgree ==
    LET Cut(p, n) == IF n > m_size - p THEN m_size - p ELSE n
    IN
    /\ \A p, n \in Lengths : p <= m_size /\ p < m_capacity =>
           /\ ReadAt(n, p) = IF p + n > m_size THEN OutOfRange ELSE Data(p, n)
           /\ p + n <= m_size /\ n <= GetReadSize => GetReadBuffersAt(n, p) = Data(p, n)
    /\ \A n \in Lengths : GetReadBuffers(n) = Data(m_position, Cut(m_position, n))
    /\ ToString = Data(m_position, GetReadSize)

\* writeToFile() at the beginning of a block writes the rest of the data: its loop over
\* the blocks neither skips nor repeats one and cuts off the last. (From the middle of a
\* block it may go astray, see the loop.)
FileHoldsTheRest ==
    m_position % BaseSize = 0 => WriteToFile = Data(m_position, GetReadSize)

Flat == INSTANCE FlatBuffer WITH
    flat <- [i \in 1..(Len(nodes) * BaseSize) |->
                 nodes[(i - 1) \div BaseSize + 1][(i - 1) % BaseSize]],
    position <- m_position,
    size <- m_size, ended <- failed,
    io <- [op |-> io.op, arg |-> io.arg, thrown |-> io.thrown, bytes |-> io.bytes]

\* The list of blocks cannot be told from one flat array by any call, except for the
\* two that end the program there: setPosition() to the end of the array, and an empty
\* string read at the end of a full one. No other call does.
ImplementsFlatBuffer == Flat!Spec
=============================================================================
