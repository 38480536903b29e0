--------------------------- MODULE ByteArrayProof ---------------------------
(***************************************************************************)
(* For every block size, every width of the numbers and every sequence of  *)
(* calls: m_cur stays the block of m_position, the list of blocks          *)
(* implements FlatBuffer, the functions that only look and writeToFile()   *)
(* return what is in it, the encodings are exact, and what was written     *)
(* reads back.                                                             *)
(***************************************************************************)
EXTENDS ByteArray, TLAPS, WellFoundedInduction, SequenceTheorems

\* Division by the block size.
LEMMA DivMod ==
    ASSUME NEW p \in Nat, NEW d \in Nat \ {0}
    PROVE  p \div d \in Nat /\ p % d \in 0..(d - 1) /\ p = d * (p \div d) + (p % d)
  BY Z3

\* Quotient and remainder are determined by the number.
LEMMA DivUnique ==
    ASSUME NEW d \in Nat \ {0}, NEW q \in Int, NEW q2 \in Int,
           NEW r \in 0..(d - 1), NEW r2 \in 0..(d - 1), d * q + r = d * q2 + r2
    PROVE  q = q2
  <1>1. CASE q < q2
    <2>1. d * q2 >= d * (q + 1)
      BY <1>1, Z3
    <2> QED
      BY <2>1, <1>1, Z3
  <1>2. CASE q > q2
    <2>1. d * q >= d * (q2 + 1)
      BY <1>2, Z3
    <2> QED
      BY <2>1, <1>2, Z3
  <1> QED
    BY <1>1, <1>2, Z3

\* n bytes further on from offset p % d of block p \div d is the block of p + n:
\* the copy loops may count from the offset in the current block.
LEMMA DivShift ==
    ASSUME NEW p \in Nat, NEW n \in Nat, NEW d \in Nat \ {0}
    PROVE  (p \div d) + (((p % d) + n) \div d) = (p + n) \div d
  <1> DEFINE a == p \div d
             r == p % d
             b == (r + n) \div d
             s == (r + n) % d
             q == (p + n) \div d
             t == (p + n) % d
  <1>1. a \in Nat /\ r \in 0..(d - 1) /\ p = d * a + r
    BY DivMod
  <1>2. r + n \in Nat /\ p + n \in Nat
    BY <1>1
  <1>3. b \in Nat /\ s \in 0..(d - 1) /\ r + n = d * b + s
    BY <1>2, DivMod
  <1>4. q \in Nat /\ t \in 0..(d - 1) /\ p + n = d * q + t
    BY <1>2, DivMod
  <1> HIDE DEF a, r, b, s, q, t
  <1>5. d * (a + b) = d * a + d * b
    BY <1>1, <1>3, Z3
  <1>6. d * (a + b) + s = d * q + t
    BY <1>1, <1>3, <1>4, <1>5, Z3
  <1>7. a + b = q
    BY <1>6, <1>1, <1>3, <1>4, DivUnique
  <1> QED
    BY <1>7 DEF a, b, q, r

\* A position is inside of L blocks exactly if its block is one of them.
LEMMA DivLess ==
    ASSUME NEW a \in Nat, NEW L \in Nat, NEW d \in Nat \ {0}
    PROVE  a < L * d <=> a \div d < L
  <1> DEFINE q == a \div d
             r == a % d
  <1>1. q \in Nat /\ r \in 0..(d - 1) /\ a = d * q + r
    BY DivMod
  <1> HIDE DEF q, r
  <1>2. CASE q < L
    <2>1. L * d >= (q + 1) * d
      BY <1>1, <1>2, Z3
    <2> QED
      BY <2>1, <1>1, <1>2, Z3 DEF q
  <1>3. CASE q >= L
    <2>1. q * d >= L * d
      BY <1>1, <1>3, Z3
    <2> QED
      BY <2>1, <1>1, <1>3, Z3 DEF q
  <1> QED
    BY <1>1, <1>2, <1>3

\* The end of L blocks would be in block L.
LEMMA DivEnd ==
    ASSUME NEW L \in Nat, NEW d \in Nat \ {0}
    PROVE  (L * d) \div d = L
  <1>1. L * d \in Nat
    BY Z3
  <1>2. (L * d) \div d \in Nat /\ (L * d) % d \in 0..(d - 1)
        /\ L * d = d * ((L * d) \div d) + ((L * d) % d)
    BY <1>1, DivMod
  <1>3. d * ((L * d) \div d) + ((L * d) % d) = d * L + 0
    BY <1>1, <1>2, Z3
  <1> QED
    BY <1>2, <1>3, DivUnique
-----------------------------------------------------------------------------
(* The invariant *)

\* The numbers are numbers, and m_cur is where it must be.
Shape == /\ m_position \in Nat /\ m_size \in Nat /\ Len(nodes) \in Nat \ {0}
         /\ CurIsAligned

\* A byte order has been chosen.
EndianOK == m_endian \in {"little", "big"}

\* m_cur points where it must for a position p in a list of L blocks.
Aligned(cur, p, L) == cur = IF p = L * BaseSize THEN Null ELSE 1 + p \div BaseSize

\* Going n bytes forward from a block keeps the pointer at the position.
LEMMA ForwardAligned ==
    ASSUME NEW p \in Nat, NEW n \in Nat, NEW list, Len(list) \in Nat \ {0},
           p < Len(list) * BaseSize, p + n <= Len(list) * BaseSize,
           NEW cur, cur = 1 + p \div BaseSize
    PROVE  Aligned(Forward(cur, ((p % BaseSize) + n) \div BaseSize, list), p + n, Len(list))
  <1> DEFINE steps == ((p % BaseSize) + n) \div BaseSize
  <1>1. BaseSize \in Nat \ {0}
    BY ByteArrayAssumption
  <1>2. p \div BaseSize \in Nat /\ p + n \in Nat /\ (p + n) \div BaseSize \in Nat
    <2>1. p + n \in Nat
      OBVIOUS
    <2> QED
      BY <2>1, <1>1, DivMod
  <1>3. (p \div BaseSize) + steps = (p + n) \div BaseSize
    BY <1>1, DivShift
  <1>4. steps \in Nat
    <2>1. (p % BaseSize) + n \in Nat
      BY <1>1, DivMod
    <2> QED
      BY <2>1, <1>1, DivMod
  <1>5. p + n < Len(list) * BaseSize <=> (p + n) \div BaseSize < Len(list)
    BY <1>1, <1>2, DivLess
  <1> HIDE DEF steps
  <1>6. cur # Null /\ cur + steps = 1 + (p + n) \div BaseSize
    BY <1>2, <1>3, <1>4 DEF Null
  <1>7. Len(list) * BaseSize \in Nat
    BY <1>1, Z3
  <1>8. CASE p + n = Len(list) * BaseSize
    <2>1. ~(cur + steps <= Len(list))
      BY <1>8, <1>5, <1>6, <1>2, <1>7
    <2> QED
      BY <2>1, <1>8 DEF Forward, Aligned, steps
  <1>9. CASE p + n # Len(list) * BaseSize
    <2>1. p + n < Len(list) * BaseSize
      BY <1>9, <1>7, <1>2
    <2>2. cur + steps <= Len(list)
      BY <2>1, <1>5, <1>6, <1>2
    <2> QED
      BY <2>2, <1>9, <1>6 DEF Forward, Aligned, steps
  <1> QED
    BY <1>8, <1>9

\* Going to position v from the first block.
LEMMA ForwardFromRoot ==
    ASSUME NEW v \in Nat, NEW list, Len(list) \in Nat \ {0}, v <= Len(list) * BaseSize
    PROVE  Aligned(Forward(1, v \div BaseSize, list), v, Len(list))
  <1>1. BaseSize \in Nat \ {0}
    BY ByteArrayAssumption
  <1>2. 0 \div BaseSize = 0 /\ 0 % BaseSize = 0
    BY <1>1, Z3
  <1>3. 0 < Len(list) * BaseSize
    <2>1. \A L \in Nat \ {0}, d \in Nat \ {0} : 0 < L * d
      BY Z3
    <2> QED
      BY <2>1, <1>1
  <1>4. 0 + v = v /\ 1 = 1 + 0 \div BaseSize /\ (0 % BaseSize) + v = v
    BY <1>2
  <1>5. Aligned(Forward(1, ((0 % BaseSize) + v) \div BaseSize, list), 0 + v, Len(list))
    BY <1>3, <1>4, ForwardAligned
  <1> QED
    BY <1>4, <1>5

\* addCapacity() adds enough blocks, and none if there is room.
LEMMA EnoughMissing ==
    ASSUME Shape, NEW n \in Nat
    PROVE  /\ Missing(n) \in Nat
           /\ m_position + n <= (Len(nodes) + Missing(n)) * BaseSize
           /\ m_capacity - m_position < n => Missing(n) > 0
           /\ m_capacity + Missing(n) * BaseSize = (Len(nodes) + Missing(n)) * BaseSize
  <1> DEFINE L == Len(nodes)
             old == m_capacity - m_position
             more == n - old
  <1>1. BaseSize \in Nat \ {0}
    BY ByteArrayAssumption
  <1>2. L \in Nat \ {0} /\ m_capacity = L * BaseSize /\ m_position \in Nat
        /\ m_capacity \in Nat /\ old \in Nat
    <2>1. L \in Nat \ {0} /\ m_capacity = L * BaseSize /\ m_position \in Nat
          /\ m_size \in Nat /\ m_position <= m_size /\ m_size <= m_capacity
      BY DEF Shape, CurIsAligned
    <2>2. L * BaseSize \in Nat
      BY <1>1, <2>1, Z3
    <2> QED
      BY <2>1, <2>2
  <1>3. CASE old >= n
    <2>1. Missing(n) = 0
      BY <1>3 DEF Missing
    <2>2. 0 * BaseSize = 0
      BY <1>1
    <2> QED
      BY <2>1, <2>2, <1>2, <1>3
  <1>4. CASE old < n
    <2>1. more \in Nat /\ more > 0
      BY <1>4, <1>2
    <2> DEFINE q == more \div BaseSize
               r == more % BaseSize
    <2>2. q \in Nat /\ r \in 0..(BaseSize - 1) /\ more = BaseSize * q + r
      BY <2>1, <1>1, DivMod
    <2>3. Missing(n) = q + (IF r = 0 THEN 0 ELSE 1)
      BY <1>4, <1>2 DEF Missing
    <2> HIDE DEF q, r, L, old, more
    <2>4. Missing(n) \in Nat /\ Missing(n) * BaseSize >= more
      <3>1. CASE r = 0
        <4>1. Missing(n) = q
          BY <3>1, <2>3, <2>2
        <4> QED
          BY <4>1, <3>1, <2>2, <1>1, Z3
      <3>2. CASE r # 0
        <4>1. Missing(n) = q + 1
          BY <3>2, <2>3, <2>2
        <4>2. (q + 1) * BaseSize = BaseSize * q + BaseSize
          BY <2>2, <1>1, Z3
        <4> QED
          BY <4>1, <4>2, <2>2, <1>1, Z3
      <3> QED
        BY <3>1, <3>2
    <2>5. Missing(n) > 0
      <3>1. 0 * BaseSize = 0
        BY <1>1
      <3> QED
        BY <2>4, <2>1, <3>1
    <2>6. (L + Missing(n)) * BaseSize = L * BaseSize + Missing(n) * BaseSize
      BY <2>4, <1>1, <1>2, Z3
    <2>7. Missing(n) * BaseSize \in Nat
      BY <2>4, <1>1, Z3
    <2>8. more = n - (m_capacity - m_position)
      BY DEF more, old
    <2> QED
      BY <2>4, <2>5, <2>6, <2>7, <2>8, <1>2 DEF L
  <1> QED
    BY <1>2, <1>3, <1>4

\* What the invariant says of the numbers, for use in arithmetic.
LEMMA ShapeFacts ==
    ASSUME Shape
    PROVE  /\ BaseSize \in Nat \ {0}
           /\ m_position \in Nat /\ m_size \in Nat /\ m_capacity \in Nat
           /\ Len(nodes) \in Nat \ {0} /\ m_capacity = Len(nodes) * BaseSize
           /\ m_position <= m_size /\ m_size <= m_capacity
           /\ m_position = m_capacity => m_cur = Null
           /\ m_position < m_capacity => m_cur = 1 + m_position \div BaseSize
  <1>1. BaseSize \in Nat \ {0}
    BY ByteArrayAssumption
  <1>2. Len(nodes) * BaseSize \in Nat
    BY <1>1, Z3 DEF Shape
  <1> QED
    BY <1>1, <1>2 DEF Shape, CurIsAligned

\* A read of bytes that are there.
LEMMA MoveKeepsShape ==
    ASSUME Shape, NEW n \in Nat, n <= GetReadSize, Move(n),
           UNCHANGED <<m_capacity, m_size, nodes>>
    PROVE  Shape'
  <1>1. m_position' = m_position + n /\ m_position' \in Nat /\ m_position' <= m_size
    BY ShapeFacts DEF Move, GetReadSize
  <1>2. CASE m_position = m_capacity
    <2>1. n = 0 /\ m_cur = Null
      BY <1>2, ShapeFacts DEF GetReadSize
    <2>2. m_cur' = Null
      BY <2>1 DEF Move, Forward
    <2> QED
      BY <1>1, <1>2, <2>1, <2>2, ShapeFacts DEF Shape, CurIsAligned
  <1>3. CASE m_position < m_capacity
    <2>1. m_position + n <= Len(nodes) * BaseSize
      BY <1>1, ShapeFacts
    <2>2. Aligned(m_cur', m_position + n, Len(nodes))
      BY <1>3, <2>1, ShapeFacts, ForwardAligned DEF Move
    <2> QED
      BY <1>1, <2>2, ShapeFacts DEF Shape, CurIsAligned, Aligned
  <1> QED
    BY <1>2, <1>3, ShapeFacts

\* A write of at least one byte, with the growth it needs.
LEMMA PutKeepsShape ==
    ASSUME Shape, NEW bytes, Len(bytes) \in Nat \ {0}, Put(bytes)
    PROVE  Shape'
  <1> DEFINE n == Len(bytes)
             L == Len(nodes) + Missing(n)
             cur == GrownCur(n)
  <1>1. /\ n \in Nat \ {0} /\ Missing(n) \in Nat /\ L \in Nat \ {0}
        /\ m_position + n <= L * BaseSize
        /\ m_capacity - m_position < n => Missing(n) > 0
        /\ m_capacity + Missing(n) * BaseSize = L * BaseSize
    <2>1. n \in Nat
      OBVIOUS
    <2>2. /\ Missing(n) \in Nat
          /\ m_position + n <= (Len(nodes) + Missing(n)) * BaseSize
          /\ m_capacity - m_position < n => Missing(n) > 0
          /\ m_capacity + Missing(n) * BaseSize = (Len(nodes) + Missing(n)) * BaseSize
      BY <2>1, EnoughMissing
    <2>3. L \in Nat \ {0}
      BY <2>2, ShapeFacts
    <2> QED
      BY <2>2, <2>3
  <1>2. Len(nodes') = L
    <2>1. PICK fresh \in FreshBytes :
              nodes' = [b \in 1..Len(Grown(n, fresh)) |-> [o \in Offsets |->
                            IF b >= cur /\ (b - cur) * BaseSize + o - (m_position % BaseSize) + 1 \in 1..n
                            THEN bytes[(b - cur) * BaseSize + o - (m_position % BaseSize) + 1]
                            ELSE Grown(n, fresh)[b][o]]]
      BY DEF Put
    <2>2. Len(Grown(n, fresh)) = L
      BY <1>1, ShapeFacts DEF Grown
    <2> QED
      BY <2>1, <2>2, <1>1
  <1>3. cur = 1 + m_position \div BaseSize
    <2>1. CASE m_position = m_capacity
      <3>1. cur = Len(nodes) + 1
        BY <2>1, <1>1, ShapeFacts DEF GrownCur
      <3>2. m_position \div BaseSize = Len(nodes)
        BY <2>1, ShapeFacts, DivEnd
      <3> QED
        BY <3>1, <3>2, ShapeFacts
    <2>2. CASE m_position < m_capacity
      BY <2>2, ShapeFacts DEF GrownCur
    <2> QED
      BY <2>1, <2>2, ShapeFacts
  <1>4. m_position < L * BaseSize
    BY <1>1, ShapeFacts
  <1>5. Aligned(m_cur', m_position + n, L)
    <2>1. m_cur' = Forward(cur, ((m_position % BaseSize) + n) \div BaseSize, nodes')
      BY DEF Put
    <2> HIDE DEF cur, n, L
    <2> QED
      BY <2>1, <1>1, <1>2, <1>3, <1>4, ShapeFacts, ForwardAligned
  <1>6. /\ m_position' = m_position + n /\ m_capacity' = L * BaseSize
        /\ m_size' = IF m_position' > m_size THEN m_position' ELSE m_size
    BY <1>1 DEF Put
  <1> HIDE DEF n, L, cur
  <1>7. m_size <= L * BaseSize
    <2>1. Missing(n) * BaseSize \in Nat
      BY <1>1, ShapeFacts, Z3
    <2> QED
      BY <2>1, <1>1, ShapeFacts
  <1> QED
    BY <1>1, <1>2, <1>5, <1>6, <1>7, ShapeFacts DEF Shape, CurIsAligned, Aligned

\* All read functions move over bytes that are there, or not at all.
LEMMA ReadKeepsShape ==
    ASSUME Shape, NEW ty, Read(ty)
    PROVE  Shape'
  <1>1. UNCHANGED <<m_capacity, m_size, nodes>>
    BY DEF Read
  <1>2. GetReadSize \in Nat
    BY ShapeFacts DEF GetReadSize
  <1>3. ASSUME NEW head \in Heads(ty)
        PROVE  Len(head) \in Nat /\ Len(head) <= GetReadSize
    <2>1. PICK k \in 1..GetReadSize : head = AtCur(k)
      <3>1. CASE ty \in {"uint32", "int32", "stringVint"}
        <4>1. PICK i \in VarintEnds(AtCur(GetReadSize)) : head = AtCur(i)
          BY <3>1, <1>3 DEF Heads
        <4>2. i \in 1..GetReadSize
          BY <4>1, <1>2 DEF VarintEnds, AtCur, Copy
        <4> QED
          BY <4>1, <4>2
      <3>2. CASE ty \notin {"uint32", "int32", "stringVint"}
        BY <3>2, <1>2, <1>3 DEF Heads
      <3> QED
        BY <3>1, <3>2
    <2> QED
      BY <2>1, <1>2 DEF AtCur, Copy
  <1>4. CASE ReadHeadThrows(ty)
    <2>1. Move(GetReadSize) \/ Move(0)
      BY <1>4 DEF ReadHeadThrows
    <2> QED
      BY <2>1, <1>1, <1>2, MoveKeepsShape
  <1>5. CASE ReadNumber(ty)
    <2>1. PICK head \in Heads(ty) : Move(Len(head))
      BY <1>5 DEF ReadNumber
    <2> QED
      BY <2>1, <1>1, <1>3, MoveKeepsShape
  <1>6. CASE ReadString(ty)
    <2>1. PICK head \in Heads(ty) :
              \/ Move(Len(head))
              \/ \E len \in 0..(GetReadSize - Len(head)) : Move(Len(head) + len)
      BY <1>6 DEF ReadString
    <2>2. CASE Move(Len(head))
      BY <2>2, <1>1, <1>3, MoveKeepsShape
    <2>3. CASE \E len \in 0..(GetReadSize - Len(head)) : Move(Len(head) + len)
      <3>1. PICK len \in 0..(GetReadSize - Len(head)) : Move(Len(head) + len)
        BY <2>3
      <3>2. Len(head) + len \in Nat /\ Len(head) + len <= GetReadSize
        BY <1>2, <1>3
      <3> QED
        BY <3>1, <3>2, <1>1, MoveKeepsShape
    <2> QED
      BY <2>1, <2>2, <2>3
  <1> QED
    BY <1>4, <1>5, <1>6 DEF Read

\* getWriteBuffers() grows the list and leaves the position where it is.
LEMMA ReserveKeepsShape ==
    ASSUME Shape, NEW n \in Nat, GetWriteBuffers(n)
    PROVE  Shape'
  <1> DEFINE L == Len(nodes) + Missing(n)
  <1>1. /\ Missing(n) \in Nat /\ L \in Nat \ {0}
        /\ m_position + n <= L * BaseSize
        /\ m_capacity - m_position < n => Missing(n) > 0
        /\ m_capacity + Missing(n) * BaseSize = L * BaseSize
    <2>2. /\ Missing(n) \in Nat
          /\ m_position + n <= (Len(nodes) + Missing(n)) * BaseSize
          /\ m_capacity - m_position < n => Missing(n) > 0
          /\ m_capacity + Missing(n) * BaseSize = (Len(nodes) + Missing(n)) * BaseSize
      BY EnoughMissing
    <2>3. L \in Nat \ {0}
      BY <2>2, ShapeFacts
    <2> QED
      BY <2>2, <2>3
  <1>2. Len(nodes') = L
    BY <1>1, ShapeFacts DEF GetWriteBuffers, Grown
  <1>3. /\ m_capacity' = L * BaseSize /\ m_position' = m_position /\ m_size' = m_size
        /\ m_cur' = GrownCur(n)
    BY <1>1 DEF GetWriteBuffers
  <1>4. Missing(n) * BaseSize \in Nat /\ (Missing(n) > 0 => Missing(n) * BaseSize > 0)
    <2>1. \A m \in Nat, d \in Nat \ {0} : m * d \in Nat /\ (m > 0 => m * d > 0)
      BY Z3
    <2> QED
      BY <2>1, <1>1, ShapeFacts
  <1> HIDE DEF L
  <1>8. L * BaseSize \in Nat /\ m_capacity <= L * BaseSize
    <2>1. L * BaseSize = m_capacity + Missing(n) * BaseSize
      BY <1>1
    <2> QED
      BY <2>1, <1>4, ShapeFacts
  <1>5. CASE m_position = m_capacity /\ Missing(n) > 0
    <2>1. m_cur' = Len(nodes) + 1
      BY <1>3, <1>5 DEF GrownCur
    <2>2. m_position \div BaseSize = Len(nodes)
      BY <1>5, ShapeFacts, DivEnd
    <2>3. m_position < L * BaseSize /\ m_size <= L * BaseSize
      BY <1>1, <1>4, <1>5, ShapeFacts
    <2>4. m_cur' = 1 + m_position' \div BaseSize
      BY <2>1, <2>2, <1>3, ShapeFacts
    <2> QED
      BY <2>3, <2>4, <1>1, <1>2, <1>3, ShapeFacts DEF Shape, CurIsAligned
  <1>6. CASE m_position < m_capacity
    <2>1. m_cur' = m_cur
      BY <1>3, <1>6, ShapeFacts DEF GrownCur
    <2>2. m_position < L * BaseSize /\ m_size <= L * BaseSize
      BY <1>8, <1>6, ShapeFacts
    <2>3. m_cur' = 1 + m_position' \div BaseSize
      BY <2>1, <1>3, <1>6, ShapeFacts
    <2> QED
      BY <2>2, <2>3, <1>1, <1>2, <1>3, ShapeFacts DEF Shape, CurIsAligned
  <1>7. CASE m_position = m_capacity /\ Missing(n) = 0
    <2>1. m_cur' = Null
      BY <1>3, <1>7, ShapeFacts DEF GrownCur
    <2>2. m_capacity = L * BaseSize
      BY <1>1, <1>7, ShapeFacts
    <2> QED
      BY <2>1, <2>2, <1>1, <1>2, <1>3, <1>7, ShapeFacts DEF Shape, CurIsAligned
  <1> QED
    BY <1>1, <1>5, <1>6, <1>7, ShapeFacts

\* The inductive invariant of the list of blocks.
LEMMA ShapeHolds == Spec => [](Shape /\ EndianOK)
  <1>1. Init => Shape /\ EndianOK
    <2> SUFFICES ASSUME Init PROVE Shape /\ EndianOK
      OBVIOUS
    <2>1. BaseSize \in Nat \ {0}
      BY ByteArrayAssumption
    <2>2. Len(nodes) = 1
      BY DEF Init
    <2>3. 1 * BaseSize = BaseSize /\ 0 \div BaseSize = 0
      BY <2>1, Z3
    <2> QED
      BY <2>1, <2>2, <2>3 DEF Init, Shape, CurIsAligned, EndianOK
  <1>2. Shape /\ EndianOK /\ [Next]_vars => Shape' /\ EndianOK'
    <2> SUFFICES ASSUME Shape, EndianOK, [Next]_vars PROVE Shape' /\ EndianOK'
      OBVIOUS
    <2>1. ASSUME NEW item \in Items, Write(item[1], item[2]) PROVE Shape'
      <3> DEFINE bytes == Encode(item[1], item[2], m_endian)
      <3>3. m_endian \in {"little", "big"}
        BY DEF EndianOK
      <3>1. CASE bytes = <<>>
        BY <3>1, <2>1 DEF Write, Put, Shape, CurIsAligned
      <3>2. CASE bytes # <<>> /\ Put(bytes)
        <4>1. bytes \in Seq(Int)
          BY <3>3, ItemsAssumption
        <4>2. Len(bytes) \in Nat \ {0}
          BY <4>1, <3>2
        <4> QED
          BY <3>2, <4>2, PutKeepsShape
      <3> QED
        BY <2>1, <3>1, <3>2 DEF Write
    <2>2. ASSUME NEW ty \in Types, Read(ty) PROVE Shape'
      BY <2>2, ReadKeepsShape
    <2>3. ASSUME NEW n \in Lengths, GetWriteBuffers(n) PROVE Shape'
      BY <2>3, ReserveKeepsShape, ByteArrayAssumption
    <2>4. ASSUME NEW v \in Lengths, SetPosition(v) PROVE Shape'
      <3>1. v \in Nat
        BY ByteArrayAssumption
      <3>2. CASE /\ v <= m_capacity /\ m_position' = v
                 /\ m_size' = IF v > m_size THEN v ELSE m_size
                 /\ m_cur' = Forward(1, v \div BaseSize, nodes)
        <4>1. nodes' = nodes /\ m_capacity' = m_capacity
          BY <2>4 DEF SetPosition
        <4>2. Aligned(m_cur', v, Len(nodes))
          BY <3>1, <3>2, ShapeFacts, ForwardFromRoot
        <4> QED
          BY <3>1, <3>2, <4>1, <4>2, ShapeFacts DEF Shape, CurIsAligned, Aligned
      <3>3. CASE UNCHANGED <<m_position, m_size, m_cur>>
        BY <2>4, <3>3 DEF SetPosition, Shape, CurIsAligned
      <3> QED
        BY <2>4, <3>2, <3>3 DEF SetPosition
    <2>5. ASSUME Clear PROVE Shape'
      <3>1. Len(nodes') = 1 /\ m_position' = 0 /\ m_size' = 0 /\ m_capacity' = BaseSize
            /\ m_cur' = 1
        BY <2>5 DEF Clear
      <3>2. 1 * BaseSize = BaseSize /\ 0 \div BaseSize = 0
        BY ShapeFacts, Z3
      <3>3. m_position' # m_capacity' /\ m_cur' = 1 + m_position' \div BaseSize
        BY <3>1, <3>2, ShapeFacts
      <3>4. BaseSize \in Nat \ {0}
        BY ByteArrayAssumption
      <3>5. m_capacity' = Len(nodes') * BaseSize
        BY <3>1, <3>2
      <3>6. m_position' <= m_size' /\ m_size' <= m_capacity'
        BY <3>1, <3>4
      <3>7. CurIsAligned'
        BY <3>3, <3>5, <3>6 DEF CurIsAligned
      <3> QED
        BY <3>1, <3>4, <3>7 DEF Shape
    <2>6. ASSUME NEW val \in BOOLEAN, SetIsLittleEndian(val) PROVE Shape'
      BY <2>6 DEF SetIsLittleEndian, Shape, CurIsAligned
    <2>7. ASSUME UNCHANGED vars PROVE Shape'
      <3>1. /\ m_position' = m_position /\ m_size' = m_size /\ m_capacity' = m_capacity
            /\ nodes' = nodes /\ m_cur' = m_cur
        BY <2>7 DEF vars
      <3> QED
        BY <3>1 DEF Shape, CurIsAligned
    <2>8. Shape'
      BY <2>1, <2>2, <2>3, <2>4, <2>5, <2>6, <2>7 DEF Next
    <2>9. EndianOK'
      BY DEF EndianOK, Next, vars, Write, Read, GetWriteBuffers, SetPosition, Clear,
             SetIsLittleEndian
    <2> QED
      BY <2>8, <2>9
  <1> QED
    BY <1>1, <1>2, PTL DEF Spec

\* After every sequence of calls the current block is the one of the position, the
\* capacity is what the list holds, and the data ends inside of it.
THEOREM CurStaysAligned == Spec => []CurIsAligned
  <1>1. Shape => CurIsAligned
    BY DEF Shape
  <1> QED
    BY <1>1, ShapeHolds, PTL
-----------------------------------------------------------------------------
(* The list of blocks implements the flat array *)

\* The offset in the block n bytes further on, see DivShift.
LEMMA ModShift ==
    ASSUME NEW p \in Nat, NEW n \in Nat, NEW d \in Nat \ {0}
    PROVE  ((p % d) + n) % d = (p + n) % d
  <1> DEFINE a == p \div d
             r == p % d
             b == (r + n) \div d
             s == (r + n) % d
             q == (p + n) \div d
             t == (p + n) % d
  <1>1. a \in Nat /\ r \in 0..(d - 1) /\ p = d * a + r
    BY DivMod
  <1>2. r + n \in Nat /\ p + n \in Nat
    BY <1>1
  <1>3. b \in Nat /\ s \in 0..(d - 1) /\ r + n = d * b + s
    BY <1>2, DivMod
  <1>4. q \in Nat /\ t \in 0..(d - 1) /\ p + n = d * q + t
    BY <1>2, DivMod
  <1>5. a + b = q
    BY DivShift
  <1> HIDE DEF a, r, b, s, q, t
  <1>6. d * (a + b) = d * a + d * b
    BY <1>1, <1>3, Z3
  <1>7. s = t
    <2>1. d * q = d * a + d * b
      BY <1>5, <1>6
    <2> QED
      BY <2>1, <1>1, <1>3, <1>4, Z3
  <1> QED
    BY <1>7 DEF s, t, r

\* The array of FlatBuffer for a list of blocks.
ArrayOf(list) == [i \in 1..(Len(list) * BaseSize) |->
                      list[(i - 1) \div BaseSize + 1][(i - 1) % BaseSize]]
Array == ArrayOf(nodes)

\* The array has the capacity for its length.
LEMMA ArrayFacts ==
    ASSUME NEW list, NEW cap \in Nat, cap = Len(list) * BaseSize
    PROVE  /\ Len(ArrayOf(list)) = cap
           /\ \A i \in 1..cap :
                  ArrayOf(list)[i] = list[(i - 1) \div BaseSize + 1][(i - 1) % BaseSize]
  <1>1. ArrayOf(list) = [i \in 1..cap |->
                             list[(i - 1) \div BaseSize + 1][(i - 1) % BaseSize]]
    BY DEF ArrayOf
  <1>2. Len(ArrayOf(list)) = cap
    BY <1>1
  <1> QED
    BY <1>1, <1>2

\* The same of the array of a reachable state.
LEMMA ArrayShape ==
    ASSUME Shape
    PROVE  /\ Len(Array) = m_capacity
           /\ \A i \in 1..m_capacity :
                  Array[i] = nodes[(i - 1) \div BaseSize + 1][(i - 1) % BaseSize]
  BY ShapeFacts, ArrayFacts DEF Array

\* What read() copies from m_cur on is the part of the array behind the position.
LEMMA CopyIsSlice ==
    ASSUME Shape, NEW n \in Nat, n <= GetReadSize
    PROVE  AtCur(n) = [i \in 1..n |-> Array[m_position + i]]
  <1>1. ASSUME NEW i \in 1..n
        PROVE  nodes[m_cur + ((m_position % BaseSize) + i - 1) \div BaseSize]
                    [((m_position % BaseSize) + i - 1) % BaseSize]
               = Array[m_position + i]
    <2>1. m_position + i \in 1..m_capacity /\ m_position < m_capacity
      BY <1>1, ShapeFacts DEF GetReadSize
    <2> DEFINE k == i - 1
    <2>2. k \in Nat /\ BaseSize \in Nat \ {0} /\ m_position \in Nat
      BY <1>1, ShapeFacts
    <2>3. (m_position \div BaseSize) + (((m_position % BaseSize) + k) \div BaseSize)
          = (m_position + k) \div BaseSize
      BY <2>2, DivShift
    <2>4. ((m_position % BaseSize) + k) % BaseSize = (m_position + k) % BaseSize
      BY <2>2, ModShift
    <2>5. m_position % BaseSize \in Nat /\ m_position \div BaseSize \in Nat
      BY <2>2, DivMod
    <2>6. (m_position % BaseSize) + k \in Nat
      BY <2>2, <2>5
    <2>7. ((m_position % BaseSize) + k) \div BaseSize \in Nat
      BY <2>2, <2>6, DivMod
    <2>8. m_cur = 1 + m_position \div BaseSize
      BY <2>1, ShapeFacts
    <2>9. m_cur + ((m_position % BaseSize) + k) \div BaseSize
          = (m_position + k) \div BaseSize + 1
      BY <2>3, <2>5, <2>7, <2>8
    <2>10. (m_position % BaseSize) + i - 1 = (m_position % BaseSize) + k
           /\ m_position + i - 1 = m_position + k
      BY <2>2, <2>5
    <2>11. Array[m_position + i]
           = nodes[(m_position + i - 1) \div BaseSize + 1][(m_position + i - 1) % BaseSize]
      <3>1. \A j \in 1..m_capacity :
                Array[j] = nodes[(j - 1) \div BaseSize + 1][(j - 1) % BaseSize]
        BY ArrayShape
      <3>2. (m_position + i) - 1 = m_position + i - 1
        BY <2>1, ShapeFacts
      <3>3. Array[m_position + i]
            = nodes[((m_position + i) - 1) \div BaseSize + 1][((m_position + i) - 1) % BaseSize]
        BY <2>1, <3>1, Zenon
      <3> QED
        BY <3>2, <3>3
    <2> QED
      BY <2>4, <2>9, <2>10, <2>11
  <1> QED
    BY <1>1 DEF AtCur, Copy

\* A block of the list after growth is the old one, or one of the new ones.
LEMMA GrownBlocks ==
    ASSUME Shape, NEW n \in Nat, NEW fresh
    PROVE  /\ Len(Grown(n, fresh)) = Len(nodes) + Missing(n)
           /\ \A b \in 1..Len(nodes) : Grown(n, fresh)[b] = nodes[b]
  <1>1. Missing(n) \in Nat /\ Len(nodes) \in Nat
    BY EnoughMissing, ShapeFacts
  <1> QED
    BY <1>1 DEF Grown

\* write() puts its bytes behind the position and leaves all others alone.
LEMMA PutIsWrite ==
    ASSUME Shape, NEW bytes \in Seq(Int), bytes # <<>>, Put(bytes), io'.arg = bytes,
           io'.op = "write", ~io'.thrown, io'.bytes = <<>>
    PROVE  Flat!Write
  <1> DEFINE n == Len(bytes)
             L == Len(nodes) + Missing(n)
             cur == GrownCur(n)
             npos == m_position % BaseSize
             Byte(b, o) == (b - cur) * BaseSize + o - npos + 1
  <1>1. n \in Nat \ {0}
    OBVIOUS
  <1>2. Shape'
    BY <1>1, PutKeepsShape
  <1>3. /\ Missing(n) \in Nat /\ m_position + n <= L * BaseSize
        /\ m_capacity - m_position < n => Missing(n) > 0
        /\ m_capacity' = L * BaseSize
    BY <1>1, EnoughMissing DEF Put
  <1>4. m_position' = m_position + n
        /\ m_size' = IF m_position' > m_size THEN m_position' ELSE m_size
    BY DEF Put
  <1>5. cur = 1 + m_position \div BaseSize
    <2>1. CASE m_position = m_capacity
      <3>1. cur = Len(nodes) + 1
        BY <2>1, <1>1, <1>3, ShapeFacts DEF GrownCur
      <3>2. m_position \div BaseSize = Len(nodes)
        BY <2>1, ShapeFacts, DivEnd
      <3> QED
        BY <3>1, <3>2, ShapeFacts
    <2>2. CASE m_position < m_capacity
      BY <2>2, ShapeFacts DEF GrownCur
    <2> QED
      BY <2>1, <2>2, ShapeFacts
  <1>6. PICK fresh \in FreshBytes :
            nodes' = [b \in 1..Len(Grown(n, fresh)) |-> [o \in Offsets |->
                          IF b >= cur /\ Byte(b, o) \in 1..n THEN bytes[Byte(b, o)]
                                                             ELSE Grown(n, fresh)[b][o]]]
    BY DEF Put
  <1>7. /\ Len(Grown(n, fresh)) = L
        /\ \A b \in 1..Len(nodes) : Grown(n, fresh)[b] = nodes[b]
    BY <1>1, GrownBlocks
  <1>8. Len(nodes') = L
    BY <1>2, <1>3, <1>6, <1>7, ShapeFacts
  <1>9. m_position \div BaseSize \in Nat /\ npos \in Offsets
        /\ m_position = BaseSize * (m_position \div BaseSize) + npos
    BY ShapeFacts, DivMod DEF Offsets
  <1>10. L \in Nat \ {0} /\ m_capacity' \in Nat /\ m_capacity <= m_capacity'
    <2>1. Missing(n) * BaseSize \in Nat
      BY <1>3, ShapeFacts, Z3
    <2>2. m_capacity' = m_capacity + Missing(n) * BaseSize
      BY DEF Put
    <2> HIDE DEF n
    <2>3. m_capacity' \in Nat /\ m_capacity <= m_capacity'
      BY <2>1, <2>2, ShapeFacts
    <2>4. L \in Nat \ {0}
      BY <1>3, ShapeFacts
    <2> QED
      BY <2>3, <2>4
  \* The array behind the write, cell by cell.
  <1>11. ASSUME NEW i \in 1..m_capacity'
         PROVE  Array'[i] = IF i - m_position \in 1..n THEN bytes[i - m_position]
                            ELSE Grown(n, fresh)[(i - 1) \div BaseSize + 1]
                                                [(i - 1) % BaseSize]
    <2> DEFINE b == (i - 1) \div BaseSize + 1
               o == (i - 1) % BaseSize
    <2>1. i - 1 \in Nat /\ BaseSize \in Nat \ {0}
      BY <1>10, ShapeFacts
    <2>2. (i - 1) \div BaseSize \in Nat /\ o \in 0..(BaseSize - 1)
          /\ i - 1 = BaseSize * ((i - 1) \div BaseSize) + o
      BY <2>1, DivMod
    <2>3. (i - 1) \div BaseSize < L
      <3>1. i - 1 < L * BaseSize
        BY <1>3, <1>10, <2>1
      <3> QED
        BY <3>1, <2>1, <1>10, DivLess
    <2>4. b \in 1..L /\ o \in Offsets
      BY <2>2, <2>3, <1>10 DEF Offsets
    <2>5. Array'[i] = nodes'[b][o]
      <3>1. \A j \in 1..m_capacity' :
                Array'[j] = nodes'[(j - 1) \div BaseSize + 1][(j - 1) % BaseSize]
        BY <1>3, <1>8, <1>10, ArrayFacts DEF Array
      <3> QED
        BY <3>1, <1>11, Zenon
    <2>6. nodes'[b][o] = IF b >= cur /\ Byte(b, o) \in 1..n THEN bytes[Byte(b, o)]
                                                            ELSE Grown(n, fresh)[b][o]
      <3> HIDE DEF b, o, cur, n, L, Byte
      <3> QED
        BY <2>4, <1>6, <1>7
    <2>7. Byte(b, o) = i - m_position
      <3> DEFINE q == (i - 1) \div BaseSize
                 a == m_position \div BaseSize
      <3>1. b - cur = q - a
        BY <2>2, <1>5, <1>9
      <3>2. q \in Nat /\ a \in Nat
        BY <2>2, <1>9
      <3>3. i - 1 = BaseSize * q + o /\ m_position = BaseSize * a + npos
        BY <2>2, <1>9
      <3>4. Byte(b, o) = (q - a) * BaseSize + o - npos + 1
        BY <3>1
      <3>5. i \in Int /\ m_position \in Int /\ o \in Int /\ npos \in Int
        BY <2>2, <1>9, <1>10, ShapeFacts DEF Offsets
      <3> HIDE DEF q, a, b, o, npos, cur, Byte
      <3>6. (q - a) * BaseSize = BaseSize * q - BaseSize * a
        BY <3>2, <2>1, Z3
      <3>7. BaseSize * q \in Int /\ BaseSize * a \in Int
        BY <3>2, <2>1, Z3
      <3>8. PICK x \in Int : x = BaseSize * q
        BY <3>7
      <3>9. PICK y \in Int : y = BaseSize * a
        BY <3>7
      <3>10. i - 1 = x + o /\ m_position = y + npos
        BY <3>3, <3>8, <3>9
      <3>11. Byte(b, o) = (x - y) + o - npos + 1
        BY <3>4, <3>6, <3>8, <3>9
      <3> QED
        BY <3>5, <3>10, <3>11
    <2>8. i - m_position \in 1..n => b >= cur
      <3>1. CASE i - m_position \in 1..n
        <4> DEFINE k == i - 1 - m_position
        <4>1. k \in Nat /\ m_position + k = i - 1
          BY <3>1, <1>10, ShapeFacts
        <4>2. (m_position \div BaseSize) + ((npos + k) \div BaseSize)
              = (m_position + k) \div BaseSize
          BY <4>1, ShapeFacts, DivShift
        <4>3. npos + k \in Nat
          <5>1. npos \in Nat
            BY <1>9, ShapeFacts DEF Offsets
          <5> HIDE DEF npos, k
          <5> QED
            BY <5>1, <4>1
        <4>4. (npos + k) \div BaseSize \in Nat
          BY <4>3, ShapeFacts, DivMod
        <4> QED
          BY <4>1, <4>2, <4>4, <1>5, <1>9, <2>2
      <3> QED
        BY <3>1
    <2> HIDE DEF b, o, cur, Byte, n
    <2> QED
      BY <2>5, <2>6, <2>7, <2>8 DEF b, o
  <1>12. Len(Array') = m_capacity' /\ Len(Array) = m_capacity
    BY <1>3, <1>8, <1>10, ArrayShape, ArrayFacts DEF Array
  <1>13. ASSUME NEW i \in 1..n PROVE Array'[m_position + i] = bytes[i]
    <2>1. m_position + i \in 1..m_capacity' /\ (m_position + i) - m_position = i
      <3> HIDE DEF n, L
      <3>1. m_position \in Nat /\ i \in Nat /\ i >= 1 /\ i <= n /\ n \in Nat
        BY <1>1, ShapeFacts
      <3>2. m_position + n <= m_capacity' /\ m_capacity' \in Nat
        BY <1>3, <1>10
      <3> QED
        BY <3>1, <3>2
    <2> HIDE DEF n
    <2> QED
      BY <2>1, <1>11
  <1>14. ASSUME NEW i \in 1..m_capacity, i <= m_position \/ i > m_position'
         PROVE  Array'[i] = Array[i]
    <2>1. i \in 1..m_capacity' /\ i - m_position \notin 1..n
      BY <1>1, <1>4, <1>10, <1>14, ShapeFacts
    <2>2. Array'[i] = Grown(n, fresh)[(i - 1) \div BaseSize + 1][(i - 1) % BaseSize]
      <3> HIDE DEF n
      <3> QED
        BY <2>1, <1>11
    <2>3. (i - 1) \div BaseSize + 1 \in 1..Len(nodes)
      <3>1. i - 1 \in Nat /\ i - 1 < Len(nodes) * BaseSize
        BY ShapeFacts
      <3>2. (i - 1) \div BaseSize < Len(nodes) /\ (i - 1) \div BaseSize \in Nat
        BY <3>1, ShapeFacts, DivLess, DivMod
      <3> QED
        BY <3>2, ShapeFacts
    <2>4. Array[i] = nodes[(i - 1) \div BaseSize + 1][(i - 1) % BaseSize]
      BY ArrayShape
    <2> HIDE DEF n
    <2> QED
      BY <2>2, <2>3, <2>4, <1>7
  <1>15. /\ Len(Array') >= Len(Array) /\ Len(Array') >= m_position'
    <2>1. m_position' <= m_capacity' /\ m_position' \in Nat
      BY <1>1, <1>3, <1>4, ShapeFacts
    <2> QED
      BY <2>1, <1>10, <1>12, ShapeFacts
  <1>16. \A i \in 1..Len(bytes) : Array'[m_position + i] = bytes[i]
    BY <1>13
  <1>17. \A i \in 1..Len(Array) : i <= m_position \/ i > m_position' => Array'[i] = Array[i]
    BY <1>12, <1>14
  <1> HIDE DEF n, L, cur, npos, Byte
  <1>18. m_position' = m_position + Len(bytes)
    BY <1>4 DEF n
  <1> QED
    BY <1>4, <1>15, <1>16, <1>17, <1>18 DEF Flat!Write, Array, ArrayOf

\* A read function that returns has returned the bytes it moved over.
LEMMA MoveIsRead ==
    ASSUME Shape, NEW n \in Nat, n <= GetReadSize, Move(n), NEW val,
           Call("read", <<n>>, AtCur(n), val), UNCHANGED <<m_size, nodes>>
    PROVE  Flat!Read
  <1>1. m_position' = m_position + n /\ m_position' - m_position = n
        /\ m_position' \in m_position..m_size
    BY ShapeFacts DEF Move, GetReadSize
  <1>2. AtCur(n) = [i \in 1..n |-> Array[m_position + i]]
    BY CopyIsSlice
  <1>3. [op |-> io'.op, arg |-> io'.arg, thrown |-> io'.thrown, bytes |-> io'.bytes]
        = [op |-> "read", arg |-> <<n>>, thrown |-> FALSE,
           bytes |-> [i \in 1..n |-> Array[m_position + i]]]
    BY <1>2 DEF Call
  <1>4. m_position' \in m_position..m_size
    BY <1>1
  <1> QED
    BY <1>1, <1>3 DEF Flat!Read, Flat!Call, Flat!Slice, Array, ArrayOf

\* A read function that throws asked for more than is left behind what it consumed.
LEMMA MoveIsReadThrows ==
    ASSUME Shape, NEW n \in Nat, n <= GetReadSize, Move(n), NEW k,
           k > GetReadSize - n, Throws("read", <<k>>), UNCHANGED <<m_size, nodes>>
    PROVE  Flat!ReadThrows
  <1>1. m_position' = m_position + n /\ m_position' \in m_position..m_size
    BY ShapeFacts DEF Move, GetReadSize
  <1>2. m_size - m_position' = GetReadSize - n
    BY <1>1, ShapeFacts DEF GetReadSize
  <1>3. io'.op = "read" /\ io'.thrown /\ io'.bytes = <<>> /\ io'.arg[1] = k
    BY DEF Throws
  <1> QED
    BY <1>1, <1>2, <1>3 DEF Flat!ReadThrows

\* Nothing that the caller of FlatBuffer sees has changed.
Unseen == UNCHANGED <<m_position, m_size, nodes, io, failed>>

\* Such a step is none of FlatBuffer.
LEMMA UnseenStutters ==
    ASSUME Unseen PROVE UNCHANGED Flat!flatVars
  BY DEF Unseen, Flat!flatVars

\* What a reader begins with is a part of the data.
LEMMA HeadsInData ==
    ASSUME Shape, NEW ty, NEW head \in Heads(ty)
    PROVE  \E k \in 1..GetReadSize : head = AtCur(k) /\ Len(head) = k
  <1>1. GetReadSize \in Nat
    BY ShapeFacts DEF GetReadSize
  <1>2. PICK k \in 1..GetReadSize : head = AtCur(k)
    <2>1. CASE ty \in {"uint32", "int32", "stringVint"}
      <3>1. PICK i \in VarintEnds(AtCur(GetReadSize)) : head = AtCur(i)
        BY <2>1 DEF Heads
      <3>2. i \in 1..GetReadSize
        BY <3>1, <1>1 DEF VarintEnds, AtCur, Copy
      <3> QED
        BY <3>1, <3>2
    <2>2. CASE ty \notin {"uint32", "int32", "stringVint"}
      BY <2>2, <1>1 DEF Heads
    <2> QED
      BY <2>1, <2>2
  <1>3. Len(AtCur(k)) = k
    BY <1>1 DEF AtCur, Copy
  <1> QED
    BY <1>2, <1>3

\* A read that goes to the end of the last block and then asks for the next one.
LEMMA NullIsReadEnds ==
    ASSUME Shape, NEW k \in Nat, 0 < k, k <= GetReadSize,
           Forward(m_cur, ((m_position % BaseSize) + k) \div BaseSize, nodes) = Null,
           Move(k), NullNode("read", <<k>>), UNCHANGED <<m_size, nodes>>
    PROVE  Flat!ReadEnds
  <1>1. /\ m_position < m_capacity /\ m_position + k <= Len(nodes) * BaseSize
        /\ m_position + k <= m_size /\ m_cur = 1 + m_position \div BaseSize
    BY ShapeFacts DEF GetReadSize
  <1>2. Aligned(Null, m_position + k, Len(nodes))
    BY <1>1, ShapeFacts, ForwardAligned
  <1>3. (m_position + k) \div BaseSize \in Nat
    <2>1. m_position + k \in Nat
      BY ShapeFacts
    <2> QED
      BY <2>1, ShapeFacts, DivMod
  <1>4. m_position + k = m_capacity
    BY <1>2, <1>3, ShapeFacts DEF Aligned, Null
  <1>5. m_position' = m_position + k /\ m_position' - m_position = k
        /\ m_position' = m_size /\ m_size = Len(Array)
    BY <1>1, <1>4, ShapeFacts, ArrayShape DEF Move
  <1>6. [op |-> io'.op, arg |-> io'.arg, thrown |-> io'.thrown, bytes |-> io'.bytes]
        = [op |-> "read", arg |-> <<k>>, thrown |-> FALSE, bytes |-> <<>>]
    BY DEF NullNode, Call
  <1>7. m_position < Len(Array)
    BY <1>1, ArrayShape
  <1> QED
    BY <1>5, <1>6, <1>7 DEF Flat!ReadEnds, Flat!Call, Array, ArrayOf

\* Every read function reads from the array, throws, or ends the program.
LEMMA ReadIsFlat ==
    ASSUME Shape, NEW ty \in Types, Read(ty)
    PROVE  \/ (Flat!Read \/ Flat!ReadThrows) /\ UNCHANGED failed
           \/ Flat!ReadEnds /\ failed' = TRUE
  <1>1. UNCHANGED <<m_size, nodes>>
    BY DEF Read
  <1>2. GetReadSize \in Nat
    BY ShapeFacts DEF GetReadSize
  <1>3. CASE ReadHeadThrows(ty)
    <2>3. UNCHANGED failed
      BY <1>3 DEF ReadHeadThrows
    <2>1. CASE ty \in {"uint32", "int32", "stringVint"}
      <3>1. Move(GetReadSize) /\ Throws("read", <<1>>)
        BY <2>1, <1>3 DEF ReadHeadThrows
      <3>2. 1 > GetReadSize - GetReadSize /\ GetReadSize <= GetReadSize
        BY <1>2
      <3> QED
        BY <3>1, <3>2, <1>1, <1>2, <2>3, MoveIsReadThrows
    <2>2. CASE ty \in {"fuint8", "fuint16", "stringF16"}
      <3> DEFINE k == IF ty = "fuint8" THEN 1 ELSE 2
      <3>1. Move(0) /\ Throws("read", <<k>>)
        BY <2>2, <1>3 DEF ReadHeadThrows
      <3>2. k > GetReadSize - 0 /\ 0 <= GetReadSize
        BY <2>2, <1>2, <1>3 DEF ReadHeadThrows, Heads
      <3> HIDE DEF k
      <3> QED
        BY <3>1, <3>2, <1>1, <2>3, MoveIsReadThrows
    <2> QED
      BY <2>1, <2>2 DEF Types
  <1>4. CASE ReadNumber(ty)
    <2>1. PICK head \in Heads(ty) :
              /\ Move(Len(head))
              /\ \E val : Call("read", <<Len(head)>>, head, val)
      BY <1>4 DEF ReadNumber
    <2>2. PICK val : Call("read", <<Len(head)>>, head, val)
      BY <2>1
    <2>3. PICK k \in 1..GetReadSize : head = AtCur(k) /\ Len(head) = k
      BY HeadsInData
    <2>4. k \in Nat /\ k <= GetReadSize
      BY <1>2
    <2>5. Move(k) /\ Call("read", <<k>>, AtCur(k), val)
      BY <2>1, <2>2, <2>3
    <2>6. UNCHANGED failed
      BY <1>4 DEF ReadNumber
    <2> QED
      BY <2>4, <2>5, <2>6, <1>1, MoveIsRead
  <1>5. CASE ReadString(ty)
    <2>1. PICK head \in Heads(ty) :
              \/ /\ UNCHANGED failed
                 /\ \E len : len > GetReadSize - Len(head) /\ Move(Len(head))
                             /\ Throws("read", <<len>>)
              \/ /\ UNCHANGED failed
                 /\ \E len \in 0..(GetReadSize - Len(head)) : \E val :
                        /\ Move(Len(head) + len)
                        /\ Call("read", <<Len(head) + len>>, AtCur(Len(head) + len), val)
              \/ /\ Forward(m_cur, ((m_position % BaseSize) + Len(head)) \div BaseSize, nodes) = Null
                 /\ Move(Len(head)) /\ NullNode("read", <<Len(head)>>)
      BY <1>5 DEF ReadString
    <2>2. PICK k \in 1..GetReadSize : head = AtCur(k) /\ Len(head) = k
      BY HeadsInData
    <2>3. k \in Nat /\ k <= GetReadSize /\ 0 < k
      BY <1>2
    <2>4. CASE /\ UNCHANGED failed
               /\ \E len : len > GetReadSize - Len(head) /\ Move(Len(head))
                           /\ Throws("read", <<len>>)
      <3>1. PICK len : len > GetReadSize - k /\ Move(k) /\ Throws("read", <<len>>)
        BY <2>2, <2>4
      <3> QED
        BY <3>1, <2>3, <2>4, <1>1, MoveIsReadThrows
    <2>5. CASE /\ UNCHANGED failed
               /\ \E len \in 0..(GetReadSize - Len(head)) : \E val :
                      /\ Move(Len(head) + len)
                      /\ Call("read", <<Len(head) + len>>, AtCur(Len(head) + len), val)
      <3>1. PICK len \in 0..(GetReadSize - k) :
                \E val : Move(k + len) /\ Call("read", <<k + len>>, AtCur(k + len), val)
        BY <2>2, <2>5
      <3>2. k + len \in Nat /\ k + len <= GetReadSize
        BY <2>3, <1>2
      <3> QED
        BY <3>1, <3>2, <2>5, <1>1, MoveIsRead
    <2>6. CASE /\ Forward(m_cur, ((m_position % BaseSize) + k) \div BaseSize, nodes) = Null
               /\ Move(k) /\ NullNode("read", <<k>>)
      BY <2>3, <2>6, <1>1, NullIsReadEnds DEF NullNode
    <2> QED
      BY <2>1, <2>2, <2>4, <2>5, <2>6
  <1> QED
    BY <1>3, <1>4, <1>5 DEF Read

\* getWriteBuffers() hands out the places behind the position.
LEMMA ReserveIsFlat ==
    ASSUME Shape, NEW n \in Nat, GetWriteBuffers(n)
    PROVE  Flat!Reserve
  <1> DEFINE L == Len(nodes) + Missing(n)
             cur == GrownCur(n)
             npos == m_position % BaseSize
             Place(i) == (cur + (npos + i - 1) \div BaseSize - 1) * BaseSize
                         + ((npos + i - 1) % BaseSize)
  <1>1. /\ Missing(n) \in Nat /\ m_position + n <= L * BaseSize
        /\ m_capacity - m_position < n => Missing(n) > 0
        /\ m_capacity' = L * BaseSize
    BY EnoughMissing DEF GetWriteBuffers
  <1>2. PICK fresh \in FreshBytes : nodes' = Grown(n, fresh)
    BY DEF GetWriteBuffers
  <1>3. Len(nodes') = L /\ \A b \in 1..Len(nodes) : nodes'[b] = nodes[b]
    BY <1>2, GrownBlocks
  <1>4. m_capacity' \in Nat /\ m_capacity <= m_capacity'
    <2>1. Missing(n) * BaseSize \in Nat
      BY <1>1, ShapeFacts, Z3
    <2>2. m_capacity' = m_capacity + Missing(n) * BaseSize
      BY DEF GetWriteBuffers
    <2> QED
      BY <2>1, <2>2, ShapeFacts
  <1>5. Len(Array') = m_capacity' /\ Len(Array) = m_capacity
    BY <1>1, <1>3, <1>4, ArrayShape, ArrayFacts DEF Array
  <1>6. ASSUME NEW i \in 1..m_capacity PROVE Array'[i] = Array[i]
    <2>1. i \in 1..m_capacity'
      BY <1>4, ShapeFacts
    <2>2. Array'[i] = nodes'[(i - 1) \div BaseSize + 1][(i - 1) % BaseSize]
      BY <2>1, <1>1, <1>3, <1>4, ArrayFacts DEF Array
    <2>3. (i - 1) \div BaseSize + 1 \in 1..Len(nodes)
      <3>1. i - 1 \in Nat /\ i - 1 < Len(nodes) * BaseSize
        BY ShapeFacts
      <3>2. (i - 1) \div BaseSize < Len(nodes) /\ (i - 1) \div BaseSize \in Nat
        BY <3>1, ShapeFacts, DivLess, DivMod
      <3> QED
        BY <3>2, ShapeFacts
    <2>4. Array[i] = nodes[(i - 1) \div BaseSize + 1][(i - 1) % BaseSize]
      BY ArrayShape
    <2> QED
      BY <2>2, <2>3, <2>4, <1>3
  <1>7. ASSUME NEW i \in 1..n PROVE Place(i) = m_position + i - 1
    <2>1. cur = 1 + m_position \div BaseSize
      <3>1. CASE m_position = m_capacity
        <4>1. cur = Len(nodes) + 1
          BY <3>1, <1>1, ShapeFacts DEF GrownCur
        <4>2. m_position \div BaseSize = Len(nodes)
          BY <3>1, ShapeFacts, DivEnd
        <4> QED
          BY <4>1, <4>2, ShapeFacts
      <3>2. CASE m_position < m_capacity
        BY <3>2, ShapeFacts DEF GrownCur
      <3> QED
        BY <3>1, <3>2, ShapeFacts
    <2> DEFINE k == i - 1
               a == m_position \div BaseSize
               q == (m_position + k) \div BaseSize
               o == (m_position + k) % BaseSize
    <2>2. k \in Nat /\ BaseSize \in Nat \ {0} /\ m_position \in Nat
      BY ShapeFacts
    <2>3. m_position + k \in Nat
      BY <2>2
    <2>4. a \in Nat /\ npos \in Nat
      BY <2>2, DivMod
    <2>5. q \in Nat /\ o \in 0..(BaseSize - 1) /\ m_position + k = BaseSize * q + o
      BY <2>2, <2>3, DivMod
    <2>6. a + (npos + k) \div BaseSize = q /\ (npos + k) % BaseSize = o
      BY <2>2, DivShift, ModShift
    <2>7. npos + i - 1 = npos + k /\ m_position + i - 1 = m_position + k
      BY <2>2, <2>4
    <2>8. (npos + k) \div BaseSize \in Nat
      <3>1. npos + k \in Nat
        BY <2>2, <2>4
      <3> QED
        BY <3>1, <2>2, DivMod
    <2>9. cur + (npos + k) \div BaseSize - 1 = q
      BY <2>1, <2>4, <2>6, <2>8
    <2>10. Place(i) = q * BaseSize + o
      BY <2>6, <2>7, <2>9
    <2> HIDE DEF Place, q, o, k, a, npos, cur
    <2>11. q * BaseSize = BaseSize * q
      BY <2>2, <2>5, Z3
    <2> QED
      BY <2>5, <2>7, <2>10, <2>11
  <1>8. [op |-> io'.op, arg |-> io'.arg, thrown |-> io'.thrown, bytes |-> io'.bytes]
        = [op |-> "reserve", arg |-> <<n>>, thrown |-> FALSE,
           bytes |-> [i \in 1..n |-> m_position + i - 1]]
    <2>1. [i \in 1..n |-> Place(i)] = [i \in 1..n |-> m_position + i - 1]
      BY <1>7
    <2>2. io' = [op |-> "reserve", arg |-> <<n>>, thrown |-> FALSE,
                 bytes |-> [i \in 1..n |-> Place(i)], val |-> <<>>]
      BY DEF GetWriteBuffers, Call
    <2> HIDE DEF Place
    <2> QED
      BY <2>1, <2>2
  <1>9. m_position' = m_position /\ m_size' = m_size
    BY DEF GetWriteBuffers
  <1>10. Len(Array') >= Len(Array) /\ Len(Array') >= m_position + n
    BY <1>1, <1>4, <1>5, ShapeFacts
  <1>11. \A i \in 1..Len(Array) : Array'[i] = Array[i]
    BY <1>5, <1>6
  <1>12. io'.op = "reserve" /\ io'.arg = <<n>> /\ io'.arg[1] = n
    BY DEF GetWriteBuffers, Call
  <1> HIDE DEF L, cur, npos, Place
  <1> QED
    BY <1>8, <1>9, <1>10, <1>11, <1>12 DEF Flat!Reserve, Flat!Call, Array, ArrayOf

\* Every write function writes the encoding of its item, which may be empty.
LEMMA WriteIsFlat ==
    ASSUME Shape, EndianOK, NEW item \in Items, Write(item[1], item[2])
    PROVE  Flat!Write
  <1> DEFINE bytes == Encode(item[1], item[2], m_endian)
  <1>1. bytes \in Seq(Int)
    <2>1. m_endian \in {"little", "big"}
      BY DEF EndianOK
    <2> QED
      BY <2>1, ItemsAssumption
  <1>2. /\ Call("write", bytes, <<>>, <<>>)
        /\ \/ bytes = <<>> /\ UNCHANGED <<m_position, m_size, nodes>>
           \/ bytes # <<>> /\ Put(bytes)
    BY DEF Write
  <1> HIDE DEF bytes
  <1>3. io'.arg = bytes /\ io'.op = "write" /\ ~io'.thrown /\ io'.bytes = <<>>
    BY <1>2 DEF Call
  <1>4. CASE bytes = <<>> /\ UNCHANGED <<m_position, m_size, nodes>>
    <2>1. Len(io'.arg) = 0 /\ io'.arg = <<>>
      BY <1>3, <1>4
    <2>2. m_position' = m_position + Len(io'.arg) /\ m_position' = m_position /\ ~(m_position' > m_size)
          /\ m_size' = m_size
      BY <2>1, <1>4, ShapeFacts
    <2>3. Array' = Array /\ Len(Array) = m_capacity
      BY <1>4, ArrayShape DEF Array
    <2>4. Len(Array') >= Len(Array) /\ Len(Array') >= m_position'
      BY <2>2, <2>3, ShapeFacts
    <2>5. \A i \in 1..Len(io'.arg) : Array'[m_position + i] = io'.arg[i]
      BY <2>1
    <2>6. \A i \in 1..Len(Array) : i <= m_position \/ i > m_position' => Array'[i] = Array[i]
      BY <2>3
    <2> QED
      BY <2>2, <2>4, <2>5, <2>6, <1>3 DEF Flat!Write, Array, ArrayOf
  <1>5. CASE bytes # <<>> /\ Put(bytes)
    BY <1>1, <1>3, <1>5, PutIsWrite
  <1> QED
    BY <1>2, <1>4, <1>5

\* setPosition() moves inside of the array, throws, or ends the program.
LEMMA SeekIsFlat ==
    ASSUME Shape, NEW v \in Nat, SetPosition(v)
    PROVE  \/ (Flat!Seek \/ Flat!SeekThrows) /\ UNCHANGED failed
           \/ Flat!SeekEnds /\ failed' = TRUE
  <1>1. nodes' = nodes /\ Array' = Array /\ Len(Array) = m_capacity
    BY ArrayShape DEF SetPosition, Array
  <1>2. CASE v > m_capacity /\ Throws("seek", <<v>>) /\ UNCHANGED <<m_position, m_size, failed>>
    <2>1. io'.op = "seek" /\ io'.thrown /\ io'.arg[1] > Len(Array)
      BY <1>1, <1>2 DEF Throws
    <2> QED
      BY <2>1, <1>1, <1>2 DEF Flat!SeekThrows, Array, ArrayOf
  <1>3. CASE /\ v <= m_capacity /\ m_position' = v
             /\ m_size' = IF v > m_size THEN v ELSE m_size
             /\ m_cur' = Forward(1, v \div BaseSize, nodes)
             /\ IF m_cur' = Null THEN NullNode("seek", <<v>>)
                ELSE Call("seek", <<v>>, <<>>, <<>>) /\ UNCHANGED failed
    <2>1. [op |-> io'.op, arg |-> io'.arg, thrown |-> io'.thrown, bytes |-> io'.bytes]
          = [op |-> "seek", arg |-> <<m_position'>>, thrown |-> FALSE, bytes |-> <<>>]
      <3>1. Call("seek", <<v>>, <<>>, <<>>)
        BY <1>3 DEF NullNode
      <3> QED
        BY <3>1, <1>3 DEF Call
    <2>2. Aligned(m_cur', v, Len(nodes))
      BY <1>3, ShapeFacts, ForwardFromRoot
    <2>3. v \div BaseSize \in Nat
      BY ShapeFacts, DivMod
    <2>4. m_cur' = Null <=> v = m_capacity
      BY <2>2, <2>3, ShapeFacts DEF Aligned, Null
    <2>5. CASE v = m_capacity
      <3>1. failed' = TRUE
        BY <1>3, <2>4, <2>5 DEF NullNode
      <3>2. m_position' = Len(Array) /\ m_size' = Len(Array)
        BY <1>1, <1>3, <2>5, ShapeFacts
      <3> QED
        BY <3>1, <3>2, <2>1, <1>1 DEF Flat!SeekEnds, Flat!Call, Array, ArrayOf
    <2>6. CASE v # m_capacity
      <3>1. UNCHANGED failed
        BY <1>3, <2>4, <2>6
      <3>2. m_position' \in 0..(Len(Array) - 1)
        BY <1>1, <1>3, <2>6, ShapeFacts
      <3>3. m_size' = IF m_position' > m_size THEN m_position' ELSE m_size
        BY <1>3
      <3> QED
        BY <3>1, <3>2, <3>3, <2>1, <1>1 DEF Flat!Seek, Flat!Call, Array, ArrayOf
    <2> QED
      BY <2>5, <2>6
  <1> QED
    BY <1>2, <1>3 DEF SetPosition

\* clear() keeps the first part of the array.
LEMMA ClearIsFlat ==
    ASSUME Shape, Clear
    PROVE  Flat!Clear
  <1>1. nodes' = <<nodes[1]>> /\ Len(nodes') = 1 /\ nodes'[1] = nodes[1]
    BY DEF Clear
  <1>2. BaseSize \in Nat \ {0} /\ BaseSize = Len(nodes') * BaseSize /\ BaseSize <= m_capacity
    <2>1. \A L \in Nat \ {0}, d \in Nat \ {0} : d = 1 * d /\ d <= L * d
      BY Z3
    <2> QED
      BY <2>1, <1>1, ShapeFacts
  <1>3. Len(Array') = BaseSize /\ Len(Array) = m_capacity
    BY <1>2, ArrayShape, ArrayFacts DEF Array
  <1>4. ASSUME NEW i \in 1..BaseSize PROVE Array'[i] = Array[i]
    <2>1. Array'[i] = nodes'[(i - 1) \div BaseSize + 1][(i - 1) % BaseSize]
      BY <1>2, ArrayFacts DEF Array
    <2>2. Array[i] = nodes[(i - 1) \div BaseSize + 1][(i - 1) % BaseSize]
      <3>1. i \in 1..m_capacity
        BY <1>2, ShapeFacts
      <3> QED
        BY <3>1, ArrayShape
    <2>3. (i - 1) \div BaseSize = 0
      <3>1. i - 1 \in Nat /\ i - 1 < 1 * BaseSize
        BY <1>2
      <3>2. (i - 1) \div BaseSize < 1 /\ (i - 1) \div BaseSize \in Nat
        BY <3>1, <1>2, DivLess, DivMod
      <3> QED
        BY <3>2
    <2> QED
      BY <2>1, <2>2, <2>3, <1>1
  <1>5. /\ Len(Array') <= Len(Array)
        /\ \A i \in 1..Len(Array') : Array'[i] = Array[i]
    BY <1>2, <1>3, <1>4
  <1>6. [op |-> io'.op, arg |-> io'.arg, thrown |-> io'.thrown, bytes |-> io'.bytes]
        = [op |-> "clear", arg |-> <<>>, thrown |-> FALSE, bytes |-> <<>>]
    BY DEF Clear, Call
  <1>7. m_position' = 0 /\ m_size' = 0
    BY DEF Clear
  <1> QED
    BY <1>5, <1>6, <1>7 DEF Flat!Clear, Flat!Call, Array, ArrayOf

\* bytearray.h promises one array of bytes: for every block size, item set and
\* sequence of calls, each call of the list of blocks is a call of FlatBuffer, with
\* the same bytes, the same exceptions and the same places; and no call ends the
\* program but setPosition() to the end of the array and the reading of an empty
\* string there, the two that FlatBuffer names.
THEOREM IsAFlatBuffer == Spec => ImplementsFlatBuffer
  <1>1. Init => Flat!Init
    BY DEF Init, Flat!Init
  <1>2. Shape /\ EndianOK /\ [Next]_vars => [Flat!Next]_(Flat!flatVars)
    <2> SUFFICES ASSUME Shape, EndianOK, [Next]_vars
                 PROVE  Flat!Next \/ UNCHANGED Flat!flatVars
      OBVIOUS
    <2>1. ASSUME ~failed, NEW item \in Items, Write(item[1], item[2]) PROVE Flat!Next
      <3>1. UNCHANGED failed
        BY <2>1 DEF Write
      <3> QED
        BY <3>1, <2>1, WriteIsFlat DEF Flat!Next
    <2>2. ASSUME ~failed, NEW ty \in Types, Read(ty) PROVE Flat!Next
      BY <2>2, ReadIsFlat DEF Flat!Next
    <2>3. ASSUME ~failed, NEW n \in Lengths, GetWriteBuffers(n) PROVE Flat!Next
      <3>1. n \in Nat
        BY ByteArrayAssumption
      <3>2. UNCHANGED failed
        BY <2>3 DEF GetWriteBuffers
      <3> QED
        BY <3>1, <3>2, <2>3, ReserveIsFlat DEF Flat!Next
    <2>4. ASSUME ~failed, NEW v \in Lengths, SetPosition(v) PROVE Flat!Next
      <3>1. v \in Nat
        BY ByteArrayAssumption
      <3> QED
        BY <3>1, <2>4, SeekIsFlat DEF Flat!Next
    <2>5. ASSUME ~failed, Clear PROVE Flat!Next
      <3>1. UNCHANGED failed
        BY <2>5 DEF Clear
      <3> QED
        BY <3>1, <2>5, ClearIsFlat DEF Flat!Next
    <2>6. ASSUME NEW val \in BOOLEAN, SetIsLittleEndian(val) PROVE UNCHANGED Flat!flatVars
      BY <2>6, UnseenStutters DEF SetIsLittleEndian, Unseen
    <2>7. ASSUME UNCHANGED vars PROVE UNCHANGED Flat!flatVars
      BY <2>7, UnseenStutters DEF vars, Unseen
    <2> QED
      BY <2>1, <2>2, <2>3, <2>4, <2>5, <2>6, <2>7 DEF Next
  <1> QED
    BY <1>1, <1>2, ShapeHolds, PTL DEF Spec, ImplementsFlatBuffer, Flat!Spec
-----------------------------------------------------------------------------
(* The functions that only look *)

\* The copy loops from offset p % BaseSize of the block of p find the bytes at p.
LEMMA CopyIsData ==
    ASSUME NEW p \in Nat, NEW n \in Nat, NEW cur, n > 0 => cur = 1 + p \div BaseSize
    PROVE  Bytes(Copy(cur, p % BaseSize, n)) = Data(p, n)
  <1>1. ASSUME NEW i \in 1..n
        PROVE  nodes[cur + ((p % BaseSize) + i - 1) \div BaseSize]
                    [((p % BaseSize) + i - 1) % BaseSize]
               = nodes[(p + i - 1) \div BaseSize + 1][(p + i - 1) % BaseSize]
    <2> DEFINE k == i - 1
    <2>1. k \in Nat /\ BaseSize \in Nat \ {0} /\ n > 0
      BY ByteArrayAssumption
    <2>2. (p \div BaseSize) + (((p % BaseSize) + k) \div BaseSize) = (p + k) \div BaseSize
      BY <2>1, DivShift
    <2>3. ((p % BaseSize) + k) % BaseSize = (p + k) % BaseSize
      BY <2>1, ModShift
    <2>4. p % BaseSize \in Nat /\ p \div BaseSize \in Nat
      BY <2>1, DivMod
    <2>5. (p % BaseSize) + k \in Nat
      BY <2>1, <2>4
    <2>6. ((p % BaseSize) + k) \div BaseSize \in Nat
      BY <2>1, <2>5, DivMod
    <2>7. cur + ((p % BaseSize) + k) \div BaseSize = (p + k) \div BaseSize + 1
      BY <2>1, <2>2, <2>4, <2>6
    <2>8. (p % BaseSize) + i - 1 = (p % BaseSize) + k /\ p + i - 1 = p + k
      BY <2>1, <2>4
    <2> QED
      BY <2>3, <2>7, <2>8
  <1>2. Copy(cur, p % BaseSize, n)
        = [i \in 1..n |-> nodes[(p + i - 1) \div BaseSize + 1][(p + i - 1) % BaseSize]]
    BY <1>1 DEF Copy
  <1> QED
    BY <1>2 DEF Data

\* read() at a position inside of the data.
LEMMA ReadAtAgrees ==
    ASSUME Shape, NEW p \in Nat, NEW n \in Nat, p <= m_size, p < m_capacity
    PROVE  ReadAt(n, p) = IF p + n > m_size THEN OutOfRange ELSE Data(p, n)
  <1>1. CASE p + n > m_size
    <2>1. n > m_size - p /\ ~(p > m_size) /\ ~(n <= m_size - p)
      BY <1>1, ShapeFacts
    <2> QED
      BY <1>1, <2>1 DEF ReadAt
  <1>2. CASE ~(p + n > m_size)
    <2>1. ~(n > m_size - p) /\ p + n <= m_capacity /\ n <= m_size - p
      BY <1>2, ShapeFacts
    <2>2. ReadAt(n, p) = Bytes(AtRoot(p, n))
      BY <2>1 DEF ReadAt
    <2>3. Bytes(AtRoot(p, n)) = Data(p, n)
      BY CopyIsData DEF AtRoot
    <2> QED
      BY <1>2, <2>2, <2>3
  <1> QED
    BY <1>1, <1>2

\* For every block size and after every sequence of calls, the functions that only look
\* return the bytes of the data, or refuse what is not all there.
THEOREM LooksAlwaysAgree == Spec => []LooksAgree
  <1>1. Shape => LooksAgree
    <2> SUFFICES ASSUME Shape PROVE LooksAgree
      OBVIOUS
    <2> DEFINE Cut(p, n) == IF n > m_size - p THEN m_size - p ELSE n
    <2>1. Lengths \subseteq Nat
      BY ByteArrayAssumption
    <2>2. ASSUME NEW p \in Lengths, NEW n \in Lengths, p <= m_size, p < m_capacity
          PROVE  ReadAt(n, p) = IF p + n > m_size THEN OutOfRange ELSE Data(p, n)
      BY <2>1, <2>2, ReadAtAgrees
    <2>3. ASSUME NEW p \in Lengths, NEW n \in Lengths, p < m_capacity, p + n <= m_size
          PROVE  GetReadBuffersAt(n, p) = Data(p, n)
      <3>1. p \in Nat /\ n \in Nat /\ m_size \in Nat /\ p <= m_size
        BY <2>1, <2>3, ShapeFacts
      <3>2. CASE n = 0
        <4>1. GetReadBuffersAt(n, p) = Bytes(<<>>)
          BY <3>1, <3>2, <2>3 DEF GetReadBuffersAt
        <4>2. Data(p, 0) = Bytes(<<>>)
          BY DEF Data
        <4> QED
          BY <3>2, <4>1, <4>2
      <3>3. CASE n > 0
        <4>1. GetReadBuffersAt(n, p) = Bytes(AtRoot(p, n))
          <5>1. ~(n > m_size - p)
            BY <3>1, <2>3
          <5> QED
            BY <3>1, <3>3, <2>3, <5>1 DEF GetReadBuffersAt
        <4>2. Bytes(AtRoot(p, n)) = Data(p, n)
          BY <3>1, CopyIsData DEF AtRoot
        <4> QED
          BY <4>1, <4>2
      <3> QED
        BY <3>1, <3>2, <3>3
    <2>4. ASSUME NEW n \in Nat, n <= GetReadSize
          PROVE  Bytes(AtCur(n)) = Data(m_position, n)
      <3>1. n > 0 => m_cur = 1 + m_position \div BaseSize
        BY <2>4, ShapeFacts DEF GetReadSize
      <3> QED
        BY <3>1, ShapeFacts, CopyIsData DEF AtCur
    <2>5. ASSUME NEW n \in Lengths
          PROVE  GetReadBuffers(n) = Data(m_position, Cut(m_position, n))
      <3>1. Cut(m_position, n) \in Nat /\ Cut(m_position, n) <= GetReadSize
        BY <2>1, ShapeFacts DEF GetReadSize
      <3>2. GetReadBuffers(n) = Bytes(AtCur(Cut(m_position, n)))
        BY DEF GetReadBuffers, GetReadSize
      <3> HIDE DEF Cut
      <3> QED
        BY <3>1, <3>2, <2>4
    <2>6. ToString = Data(m_position, GetReadSize)
      <3>1. GetReadSize \in Nat /\ m_position + GetReadSize = m_size
        BY ShapeFacts DEF GetReadSize
      <3>2. CASE GetReadSize = 0
        <4>1. Data(m_position, 0) = Bytes(<<>>)
          BY DEF Data
        <4> QED
          BY <3>2, <4>1 DEF ToString
      <3>3. CASE GetReadSize # 0
        <4>1. m_position < m_capacity /\ m_position <= m_size
          BY <3>1, <3>3, ShapeFacts DEF GetReadSize
        <4>2. ReadAt(GetReadSize, m_position)
              = IF m_position + GetReadSize > m_size THEN OutOfRange
                ELSE Data(m_position, GetReadSize)
          BY <4>1, <3>1, ShapeFacts, ReadAtAgrees
        <4>3. ~(m_position + GetReadSize > m_size)
          BY <3>1, ShapeFacts
        <4> QED
          BY <4>2, <4>3, <3>3 DEF ToString
      <3> QED
        BY <3>2, <3>3
    <2> HIDE DEF Cut
    <2> QED
      BY <2>2, <2>3, <2>5, <2>6 DEF LooksAgree, Cut
  <1> QED
    BY <1>1, ShapeHolds, PTL
-----------------------------------------------------------------------------
(* writeToFile(). Induction over the numbers is by the least counterexample, with a set *)
(* in the place of a predicate. *)

\* A set of numbers has a least one.
LEMMA LeastNumber ==
    ASSUME NEW S \in SUBSET Nat, S # {}
    PROVE  \E n \in S : \A k \in S : n <= k
  <1> DEFINE R == OpToRel(<, Nat)
  <1>1. IsWellFoundedOn(R, Nat)
    BY NatLessThanWellFounded
  <1>2. PICK x \in S : \A y \in S : ~(<<y, x>> \in R)
    <2> HIDE DEF R
    <2> QED
      BY <1>1, WFMin, Zenon
  <1>3. \A y \in S : y < x => <<y, x>> \in R
    BY Zenon DEF OpToRel
  <1> HIDE DEF R
  <1>4. \A y \in S : ~(y < x)
    BY <1>2, <1>3
  <1> QED
    BY <1>4

\* Induction over the numbers, for a property given as the set of those that have it.
LEMMA Induction ==
    ASSUME NEW S \in SUBSET Nat, 0 \in S, \A n \in S : n + 1 \in S
    PROVE  S = Nat
  <1> SUFFICES ASSUME Nat \ S # {} PROVE FALSE
    OBVIOUS
  <1>1. PICK n \in Nat \ S : \A k \in Nat \ S : n <= k
    BY LeastNumber
  <1>2. n # 0 /\ n - 1 \in Nat
    OBVIOUS
  <1>3. n - 1 \in S
    BY <1>1, <1>2
  <1> QED
    BY <1>3

\* The variables of the loop of writeToFile(): what is left, the position, the block.
Loops == Nat \X Nat \X Nat

\* One round of the loop of writeToFile(), with f for the others.
FileRound(f, loop) ==
    LET read_size == loop[1]
        pos == loop[2]
        cur == loop[3]
        diff == pos % BaseSize
        len == (IF read_size > BaseSize THEN BaseSize ELSE read_size) - diff
        rest == f[<<read_size - len, pos + len, Forward(cur, 1, nodes)>>]
    IN  CASE read_size = 0              -> Bytes(<<>>)
          [] read_size > 0 /\ cur = Null -> NoNode
          [] OTHER -> [rest EXCEPT !.bytes = Copy(cur, diff, len) \o @]

\* The rounds that are left at a node.
RoundsLeft(loop) == IF loop[3] = Null THEN 0
                    ELSE IF loop[3] > Len(nodes) THEN 1 ELSE Len(nodes) + 1 - loop[3]

\* The loop ends when nothing is left, and at the end of the list.
LEMMA RoundEnds ==
    ASSUME NEW f, NEW rs \in Nat, NEW pos \in Nat, NEW cur \in Nat, NEW loop,
           loop[1] = rs, loop[2] = pos, loop[3] = cur
    PROVE  /\ rs = 0 => FileRound(f, loop) = Bytes(<<>>)
           /\ rs > 0 /\ cur = Null => FileRound(f, loop) = NoNode
  <1>1. rs = 0 => FileRound(f, loop) = Bytes(<<>>)
    BY DEF FileRound
  <1>2. rs > 0 /\ cur = Null => FileRound(f, loop) = NoNode
    BY DEF FileRound
  <1> QED
    BY <1>1, <1>2

\* A round depends on what a smaller number of rounds does.
LEMMA FileRoundDepends ==
    ASSUME Len(nodes) \in Nat, NEW f, NEW g, NEW loop \in Loops,
           \A l \in Loops : RoundsLeft(l) < RoundsLeft(loop) => f[l] = g[l]
    PROVE  FileRound(f, loop) = FileRound(g, loop)
  <1>1. PICK rs \in Nat, pos \in Nat, cur \in Nat : loop = <<rs, pos, cur>>
    BY DEF Loops
  <1> DEFINE diff == pos % BaseSize
             len == (IF rs > BaseSize THEN BaseSize ELSE rs) - diff
             next == <<rs - len, pos + len, Forward(cur, 1, nodes)>>
  <1>2. BaseSize \in Nat \ {0}
    BY ByteArrayAssumption
  <1>3. diff \in 0..(BaseSize - 1) /\ diff <= pos
    <2>1. pos \div BaseSize \in Nat /\ diff \in 0..(BaseSize - 1)
          /\ pos = BaseSize * (pos \div BaseSize) + diff
      BY <1>2, DivMod
    <2>2. PICK q \in Nat : q = BaseSize * (pos \div BaseSize)
      BY <1>2, <2>1
    <2> QED
      BY <1>2, <2>1, <2>2
  <1>4. rs - len \in Nat /\ pos + len \in Nat
    <2> HIDE DEF diff
    <2> QED
      BY <1>2, <1>3
  <1>5. Forward(cur, 1, nodes) \in Nat
    BY DEF Forward, Null
  <1>6. next \in Loops
    <2> HIDE DEF len, diff
    <2> QED
      BY <1>4, <1>5 DEF Loops
  <1>7. cur # Null => RoundsLeft(next) < RoundsLeft(loop)
    <2>1. next[3] = Forward(cur, 1, nodes) /\ loop[3] = cur
      BY <1>1
    <2> HIDE DEF next
    <2> QED
      BY <2>1 DEF RoundsLeft, Forward, Null
  <1>8. cur # Null => f[next] = g[next]
    <2> HIDE DEF next
    <2> QED
      BY <1>6, <1>7
  <1>9. /\ loop[1] = rs /\ loop[2] = pos /\ loop[3] = cur
    BY <1>1
  <1> HIDE DEF next
  <1>10. CASE cur = Null
    <2>1. rs = 0 \/ rs > 0
      OBVIOUS
    <2>2. rs = 0 => FileRound(f, loop) = Bytes(<<>>) /\ FileRound(g, loop) = Bytes(<<>>)
      BY <1>9, RoundEnds
    <2>3. rs > 0 => FileRound(f, loop) = NoNode /\ FileRound(g, loop) = NoNode
      BY <1>9, <1>10, RoundEnds
    <2> QED
      BY <2>1, <2>2, <2>3
  <1>11. CASE cur # Null
    <2>1. f[<<rs - len, pos + len, Forward(cur, 1, nodes)>>]
          = g[<<rs - len, pos + len, Forward(cur, 1, nodes)>>]
      BY <1>8, <1>11, Zenon DEF next
    <2> QED
      BY <1>9, <2>1, Zenon DEF FileRound
  <1> QED
    BY <1>10, <1>11

\* The loop is what its rounds are: the recursion ends, as the list does.
LEMMA FileLoopUnfolds ==
    ASSUME Len(nodes) \in Nat
    PROVE  \A loop \in Loops : FileLoop[loop] = FileRound(FileLoop, loop)
  <1> DEFINE OK(f, k) == \A loop \in Loops :
                             RoundsLeft(loop) < k => f[loop] = FileRound(f, loop)
             S == {k \in Nat : \E f : OK(f, k)}
  <1>1. \A loop \in Loops : RoundsLeft(loop) \in 0..(Len(nodes) + 1)
    BY DEF Loops, RoundsLeft, Null
  <1>2. 0 \in S
    <2>1. OK([l \in Loops |-> l], 0)
      BY <1>1
    <2> QED
      BY <2>1
  <1>3. ASSUME NEW k \in S PROVE k + 1 \in S
    <2>1. PICK f : OK(f, k)
      OBVIOUS
    <2> DEFINE g == [loop \in Loops |-> FileRound(f, loop)]
    <2>2. \A l \in Loops : RoundsLeft(l) < k => f[l] = g[l]
      BY <2>1
    <2>3. ASSUME NEW loop \in Loops, RoundsLeft(loop) < k + 1
          PROVE  g[loop] = FileRound(g, loop)
      <3>1. RoundsLeft(loop) \in Nat /\ k \in Nat /\ \A l \in Loops : RoundsLeft(l) \in Nat
        BY <1>1
      <3>2. \A l \in Loops : RoundsLeft(l) < RoundsLeft(loop) => f[l] = g[l]
        <4> HIDE DEF g
        <4> QED
          BY <2>2, <2>3, <3>1
      <3>3. g[loop] = FileRound(f, loop)
        OBVIOUS
      <3> HIDE DEF g
      <3> QED
        BY <3>2, <3>3, FileRoundDepends
    <2>4. OK(g, k + 1)
      BY <2>3
    <2>5. k + 1 \in Nat
      OBVIOUS
    <2> HIDE DEF OK, g
    <2> QED
      BY <2>4, <2>5
  <1>4. S = Nat
    <2>1. S \in SUBSET Nat
      OBVIOUS
    <2> HIDE DEF S
    <2> QED
      BY <1>2, <1>3, <2>1, Induction
  <1>5. Len(nodes) + 2 \in S
    <2> HIDE DEF S
    <2> QED
      BY <1>4
  <1>6. PICK f : OK(f, Len(nodes) + 2)
    BY <1>5
  <1>7. \A loop \in Loops : f[loop] = FileRound(f, loop)
    BY <1>1, <1>6
  <1> DEFINE h == [loop \in Loops |-> FileRound(f, loop)]
  <1>8. h = [loop \in Loops |-> FileRound(h, loop)]
    <2>1. \A loop \in Loops : f[loop] = h[loop]
      BY <1>7
    <2>2. ASSUME NEW loop \in Loops PROVE FileRound(f, loop) = FileRound(h, loop)
      <3> HIDE DEF h
      <3> QED
        BY <2>1, FileRoundDepends
    <2> QED
      BY <2>2
  <1>9. FileLoop = CHOOSE g : g = [loop \in Loops |-> FileRound(g, loop)]
    BY DEF FileLoop, FileRound, Loops
  <1>10. FileLoop = [loop \in Loops |-> FileRound(FileLoop, loop)]
    <2> HIDE DEF h
    <2> QED
      BY <1>8, <1>9, Zenon
  <1> QED
    BY <1>10, Zenon

\* A sequence is its first a elements and the others.
LEMMA TwoParts ==
    ASSUME NEW a \in Nat, NEW b \in Nat, NEW E, NEW G \in [1..(a + b) -> E]
    PROVE  [i \in 1..a |-> G[i]] \o [i \in 1..b |-> G[a + i]] = G
  <1>1. PICK X, Y : X = [i \in 1..a |-> G[i]] /\ Y = [i \in 1..b |-> G[a + i]]
    OBVIOUS
  <1>2. X \in Seq(E) /\ Y \in Seq(E)
    BY <1>1
  <1>3. Len(X) = a /\ Len(Y) = b
    BY <1>1
  <1>4. X \o Y \in Seq(E) /\ Len(X \o Y) = a + b
    BY <1>2, <1>3
  <1>5. \A i \in 1..(a + b) : (X \o Y)[i] = G[i]
    <2>1. ASSUME NEW i \in 1..(a + b), i <= a PROVE (X \o Y)[i] = G[i]
      BY <1>1, <1>2, <1>3, <2>1
    <2>2. ASSUME NEW i \in 1..(a + b), i > a PROVE (X \o Y)[i] = G[i]
      <3>1. (X \o Y)[i] = Y[i - a] /\ i - a \in 1..b /\ a + (i - a) = i
        BY <1>2, <1>3, <2>2
      <3> QED
        BY <1>1, <3>1
    <2>3. \A i \in 1..(a + b) : i <= a \/ i > a
      OBVIOUS
    <2> QED
      BY <2>1, <2>2, <2>3
  <1>6. PICK Z : Z = X \o Y
    OBVIOUS
  <1>7. Z \in [1..(a + b) -> E]
    <2>1. Z \in Seq(E) /\ Len(Z) = a + b
      BY <1>4, <1>6
    <2> QED
      BY <2>1
  <1>8. Z = G
    BY <1>5, <1>6, <1>7
  <1> QED
    BY <1>1, <1>6, <1>8

\* From the beginning of a block on, the loop returns the n bytes of the data from p on.
LEMMA FileLoopIsData ==
    ASSUME Len(nodes) \in Nat
    PROVE  \A k \in Nat : \A n, p, cur \in Nat :
             /\ n <= k * BaseSize /\ p % BaseSize = 0 /\ p + n <= Len(nodes) * BaseSize
             /\ n > 0 => cur = 1 + p \div BaseSize
             => FileLoop[<<n, p, cur>>] = Data(p, n)
  <1> DEFINE P(k) == \A n, p, cur \in Nat :
             /\ n <= k * BaseSize /\ p % BaseSize = 0 /\ p + n <= Len(nodes) * BaseSize
             /\ n > 0 => cur = 1 + p \div BaseSize
             => FileLoop[<<n, p, cur>>] = Data(p, n)
             S == {k \in Nat : P(k)}
  <1>1. BaseSize \in Nat \ {0}
    BY ByteArrayAssumption
  <1>2. ASSUME NEW p \in Nat, NEW cur \in Nat PROVE FileLoop[<<0, p, cur>>] = Data(p, 0)
    <2>1. FileLoop[<<0, p, cur>>] = Bytes(<<>>)
      <3>1. PICK loop \in Loops : loop = <<0, p, cur>>
        BY DEF Loops
      <3>2. loop[1] = 0 /\ loop[2] = p /\ loop[3] = cur
        BY <3>1
      <3>3. FileRound(FileLoop, loop) = Bytes(<<>>)
        BY <3>2, RoundEnds
      <3> QED
        BY <3>1, <3>3, FileLoopUnfolds
    <2>2. Data(p, 0) = Bytes(<<>>)
      BY DEF Data
    <2> QED
      BY <2>1, <2>2
  <1>3. 0 \in S
    <2>1. 0 * BaseSize = 0
      BY <1>1
    <2> QED
      BY <1>2, <2>1
  <1>4. ASSUME NEW k \in S PROVE k + 1 \in S
    <2>1. k \in Nat /\ k + 1 \in Nat /\ P(k)
      OBVIOUS
    <2>2. ASSUME NEW n \in Nat, NEW p \in Nat, NEW cur \in Nat,
                 n <= (k + 1) * BaseSize, p % BaseSize = 0,
                 p + n <= Len(nodes) * BaseSize, n > 0, cur = 1 + p \div BaseSize
          PROVE  FileLoop[<<n, p, cur>>] = Data(p, n)
      <3> DEFINE len == IF n > BaseSize THEN BaseSize ELSE n
                 rest == FileLoop[<<n - len, p + len, Forward(cur, 1, nodes)>>]
      <3>1. len \in 1..BaseSize /\ len <= n /\ n - len \in Nat /\ p + len \in Nat
            /\ (p + len) + (n - len) = p + n
        BY <1>1, <2>2
      <3>2. Forward(cur, 1, nodes) \in Nat /\ cur # Null
        BY <2>2, <1>1, DivMod DEF Forward, Null
      <3>3. FileLoop[<<n, p, cur>>] = [rest EXCEPT !.bytes = Copy(cur, 0, len) \o @]
        <4>1. PICK loop \in Loops : loop = <<n, p, cur>>
          BY DEF Loops
        <4>2. loop[1] = n /\ loop[2] = p /\ loop[3] = cur
          BY <4>1
        <4>3. len = (IF n > BaseSize THEN BaseSize ELSE n) - (p % BaseSize)
          BY <1>1, <2>2
        <4>4. FileLoop[loop] = FileRound(FileLoop, loop)
          BY FileLoopUnfolds
        <4> HIDE DEF len
        <4>5. FileRound(FileLoop, loop)
              = [FileLoop[<<n - len, p + len, Forward(cur, 1, nodes)>>] EXCEPT
                   !.bytes = Copy(cur, p % BaseSize, len) \o @]
          <5>1. ~(n = 0) /\ ~(n > 0 /\ cur = Null)
            BY <2>2, <3>2
          <5> QED
            BY <5>1, <4>2, <4>3, Zenon DEF FileRound
        <4> QED
          BY <2>2, <4>1, <4>4, <4>5, Zenon
      <3>4. Bytes(Copy(cur, 0, len)) = Data(p, len)
        <4>1. Bytes(Copy(cur, p % BaseSize, len)) = Data(p, len)
          <5> HIDE DEF len
          <5> QED
            BY <2>2, <3>1, CopyIsData
        <4> QED
          BY <2>2, <4>1
      <3>5. rest = Data(p + len, n - len)
        <4>1. CASE n > BaseSize
          <5>1. len = BaseSize
            BY <4>1
          <5>2. n - BaseSize <= k * BaseSize
            <6>1. PICK x \in Nat : x = k * BaseSize
              BY <1>1, <2>1
            <6>2. (k + 1) * BaseSize = x + BaseSize
              BY <1>1, <2>1, <6>1
            <6> QED
              BY <1>1, <2>2, <6>1, <6>2
          <5>3. (p + BaseSize) % BaseSize = 0 /\ (p + BaseSize) \div BaseSize = p \div BaseSize + 1
            <6>1. ((p % BaseSize) + BaseSize) % BaseSize = (p + BaseSize) % BaseSize
              BY <1>1, ModShift
            <6>2. (p \div BaseSize) + (((p % BaseSize) + BaseSize) \div BaseSize)
                  = (p + BaseSize) \div BaseSize
              BY <1>1, DivShift
            <6>3. (0 + BaseSize) % BaseSize = 0 /\ (0 + BaseSize) \div BaseSize = 1
              BY <1>1, Z3
            <6> QED
              BY <2>2, <6>1, <6>2, <6>3, <1>1, DivMod
          <5>4. Forward(cur, 1, nodes) = 1 + (p + BaseSize) \div BaseSize
            <6>1. p + BaseSize < Len(nodes) * BaseSize
              <7>1. PICK x \in Nat : x = Len(nodes) * BaseSize
                BY <1>1
              <7> QED
                BY <1>1, <2>2, <4>1, <7>1
            <6>2. (p + BaseSize) \div BaseSize < Len(nodes)
              BY <1>1, <6>1, DivLess
            <6>3. p \div BaseSize \in Nat
              BY <1>1, DivMod
            <6> QED
              BY <2>2, <5>3, <6>2, <6>3 DEF Forward, Null
          <5>5. p + BaseSize \in Nat /\ n - BaseSize \in Nat
                /\ (p + BaseSize) + (n - BaseSize) <= Len(nodes) * BaseSize
            <6>1. PICK x \in Nat : x = Len(nodes) * BaseSize
              BY <1>1
            <6> QED
              BY <1>1, <2>2, <3>1, <5>1, <6>1
          <5>6. FileLoop[<<n - BaseSize, p + BaseSize, Forward(cur, 1, nodes)>>]
                = Data(p + BaseSize, n - BaseSize)
            <6> HIDE DEF S
            <6> QED
              BY <2>1, <3>2, <5>2, <5>3, <5>4, <5>5
          <5> QED
            BY <5>1, <5>6
        <4>2. CASE ~(n > BaseSize)
          <5>1. len = n /\ n - len = 0
            BY <4>2, <3>1
          <5>2. FileLoop[<<0, p + n, Forward(cur, 1, nodes)>>] = Data(p + n, 0)
            BY <1>2, <3>2
          <5> QED
            BY <5>1, <5>2
        <4> QED
          BY <4>1, <4>2
      <3> DEFINE At(i) == nodes[(i - 1) \div BaseSize + 1][(i - 1) % BaseSize]
      <3>6. ASSUME NEW q \in Nat, NEW m \in Nat
            PROVE  Data(q, m) = Bytes([i \in 1..m |-> At(q + i)])
        <4>1. \A i \in 1..m : nodes[(q + i - 1) \div BaseSize + 1][(q + i - 1) % BaseSize]
                              = At(q + i)
          <5>1. \A i \in 1..m : q + i - 1 = (q + i) - 1
            OBVIOUS
          <5> QED
            BY <5>1, Zenon
        <4> HIDE DEF At
        <4>2. [i \in 1..m |-> nodes[(q + i - 1) \div BaseSize + 1][(q + i - 1) % BaseSize]]
              = [i \in 1..m |-> At(q + i)]
          BY <4>1, Zenon
        <4> QED
          BY <4>2, Zenon DEF Data
      <3> HIDE DEF At, len, rest
      <3>7. PICK X, Y : X = [i \in 1..len |-> At(p + i)]
                        /\ Y = [i \in 1..(n - len) |-> At(p + len + i)]
        OBVIOUS
      <3>8. Copy(cur, 0, len) = X
        <4>1. Bytes(Copy(cur, 0, len)) = Bytes(X)
          <5>1. len \in Nat
            BY <3>1
          <5> QED
            BY <5>1, <3>4, <3>6, <3>7
        <4>2. Bytes(Copy(cur, 0, len)).bytes = Copy(cur, 0, len) /\ Bytes(X).bytes = X
          BY DEF Bytes
        <4> QED
          BY <4>1, <4>2
      <3>9. rest = Bytes(Y)
        BY <3>1, <3>5, <3>6, <3>7
      <3>10. X \o Y = [i \in 1..n |-> At(p + i)]
        <4>1. PICK G : G = [i \in 1..n |-> At(p + i)]
          OBVIOUS
        <4>2. n = len + (n - len) /\ len \in Nat /\ n - len \in Nat
          BY <3>1
        <4>3. G \in [1..(len + (n - len)) -> {At(p + i) : i \in 1..n}]
          BY <4>1, <4>2
        <4>4. X = [i \in 1..len |-> G[i]]
          BY <3>1, <3>7, <4>1
        <4>5. Y = [i \in 1..(n - len) |-> G[len + i]]
          <5>1. \A i \in 1..(n - len) : len + i \in 1..n /\ p + len + i = p + (len + i)
            BY <3>1
          <5>2. \A i \in 1..(n - len) : At(p + len + i) = G[len + i]
            BY <4>1, <5>1
          <5> QED
            BY <3>7, <5>2
        <4> QED
          BY <4>1, <4>2, <4>3, <4>4, <4>5, TwoParts
      <3>11. FileLoop[<<n, p, cur>>] = Bytes(X \o Y)
        <4>1. ASSUME NEW Z PROVE [Bytes(Y) EXCEPT !.bytes = Z] = Bytes(Z)
          <5>1. ASSUME NEW a, NEW b, NEW c
                PROVE  [[null |-> a, thrown |-> b, bytes |-> c] EXCEPT !.bytes = Z]
                       = [null |-> a, thrown |-> b, bytes |-> Z]
            OBVIOUS
          <5> QED
            BY <5>1, Zenon DEF Bytes
        <4>2. Bytes(Y).bytes = Y
          BY DEF Bytes
        <4>3. [Bytes(Y) EXCEPT !.bytes = X \o @] = [Bytes(Y) EXCEPT !.bytes = X \o Y]
          BY <4>2, Zenon
        <4> QED
          BY <3>3, <3>8, <3>9, <4>1, <4>3, Zenon
      <3> QED
        BY <3>6, <3>10, <3>11
    <2>3. P(k + 1)
      <3>1. ASSUME NEW n \in Nat, NEW p \in Nat, NEW cur \in Nat,
                 n <= (k + 1) * BaseSize, p % BaseSize = 0,
                 p + n <= Len(nodes) * BaseSize, n > 0 => cur = 1 + p \div BaseSize
            PROVE  FileLoop[<<n, p, cur>>] = Data(p, n)
        <4>1. CASE n = 0
          BY <1>2, <4>1
        <4>2. CASE n # 0
          BY <2>2, <3>1, <4>2
        <4> QED
          BY <4>1, <4>2
      <3> QED
        BY <3>1
    <2> QED
      BY <2>1, <2>3
  <1>5. S = Nat
    <2>1. S \in SUBSET Nat
      OBVIOUS
    <2> HIDE DEF S
    <2> QED
      BY <1>3, <1>4, <2>1, Induction
  <1> HIDE DEF P
  <1>6. \A k \in Nat : P(k)
    BY <1>5
  <1> QED
    BY <1>6 DEF P

\* For every block size, writeToFile() at the beginning of a block writes the rest of
\* the data.
THEOREM FileAlwaysHoldsTheRest == Spec => []FileHoldsTheRest
  <1>1. Shape => FileHoldsTheRest
    <2> SUFFICES ASSUME Shape, m_position % BaseSize = 0
                 PROVE  FileLoop[<<GetReadSize, m_position, m_cur>>] = Data(m_position, GetReadSize)
      BY DEF FileHoldsTheRest, WriteToFile
    <2>1. /\ BaseSize \in Nat \ {0} /\ m_position \in Nat /\ m_size \in Nat
          /\ Len(nodes) \in Nat \ {0} /\ m_capacity = Len(nodes) * BaseSize
          /\ m_position <= m_size /\ m_size <= m_capacity /\ m_capacity \in Nat
          /\ m_position = m_capacity => m_cur = Null
          /\ m_position < m_capacity => m_cur = 1 + m_position \div BaseSize
      BY ShapeFacts
    <2>2. GetReadSize \in Nat /\ GetReadSize = m_size - m_position
      BY <2>1 DEF GetReadSize
    <2> DEFINE n == GetReadSize
    <2> HIDE DEF n
    <2>3. n \in Nat /\ m_position + n = m_size /\ (n > 0 => m_position < m_capacity)
      BY <2>1, <2>2 DEF n
    <2>4. n <= n * BaseSize
      BY <2>1, <2>3, Z3
    <2>5. m_cur \in Nat
      <3>1. m_position \div BaseSize \in Nat
        BY <2>1, DivMod
      <3> QED
        BY <2>1, <3>1 DEF Null
    <2>6. n > 0 => m_cur = 1 + m_position \div BaseSize
      BY <2>1, <2>3
    <2>7. m_position + n <= Len(nodes) * BaseSize
      BY <2>1, <2>3
    <2> QED
      BY <2>1, <2>3, <2>4, <2>5, <2>6, <2>7, FileLoopIsData DEF n
  <1> QED
    BY <1>1, ShapeHolds, PTL
-----------------------------------------------------------------------------
(* Powers *)

\* One step of Power's recursion, with f for the others.
PowerStep(f, b, k) == IF k = 0 THEN 1 ELSE b * f[k - 1]
IsPower(f, b, n) == \A k \in 0..n : f[k] = PowerStep(f, b, k)

\* Power is the last value of the function that its recursion defines.
LEMMA PowerUnfolds ==
    ASSUME NEW b \in Int, NEW n \in Nat
    PROVE  \E f : IsPower(f, b, n) /\ Power(b, n) = f[n]
  <1> DEFINE OK(f, j) == \A k \in 0..n : k < j => f[k] = PowerStep(f, b, k)
             S == {j \in Nat : \E f : OK(f, j)}
  <1>1. 0 \in S
    <2>1. OK([k \in 0..n |-> k], 0)
      OBVIOUS
    <2> HIDE DEF OK
    <2> QED
      BY <2>1
  <1>2. ASSUME NEW j \in S PROVE j + 1 \in S
    <2>1. PICK f : OK(f, j)
      OBVIOUS
    <2> DEFINE g == [k \in 0..n |-> PowerStep(f, b, k)]
    <2>2. ASSUME NEW k \in 0..n, k < j + 1 PROVE g[k] = PowerStep(g, b, k)
      <3>1. CASE k = 0
        BY <3>1 DEF PowerStep
      <3>2. CASE k # 0
        <4>1. k - 1 \in 0..n /\ k - 1 < j
          BY <2>2, <3>2
        <4>2. f[k - 1] = PowerStep(f, b, k - 1)
          BY <2>1, <4>1
        <4>3. g[k - 1] = f[k - 1]
          BY <4>1, <4>2
        <4>4. g[k] = PowerStep(f, b, k)
          OBVIOUS
        <4> HIDE DEF g
        <4> QED
          BY <4>3, <4>4 DEF PowerStep
      <3> QED
        BY <3>1, <3>2
    <2>3. OK(g, j + 1) /\ j + 1 \in Nat
      BY <2>2
    <2> HIDE DEF OK, g
    <2> QED
      BY <2>3
  <1>3. S = Nat
    <2>1. S \in SUBSET Nat
      OBVIOUS
    <2> HIDE DEF S
    <2> QED
      BY <1>1, <1>2, <2>1, Induction
  <1>4. PICK f : OK(f, n + 1)
    <2>1. n + 1 \in S
      <3> HIDE DEF S
      <3> QED
        BY <1>3
    <2> HIDE DEF OK
    <2> QED
      BY <2>1
  <1> DEFINE h == [k \in 0..n |-> f[k]]
  <1>5. h = [k \in 0..n |-> PowerStep(h, b, k)]
    <2>1. ASSUME NEW k \in 0..n PROVE f[k] = PowerStep(h, b, k)
      <3>1. f[k] = PowerStep(f, b, k)
        BY <1>4
      <3>2. k # 0 => k - 1 \in 0..n
        OBVIOUS
      <3> QED
        BY <3>1, <3>2 DEF PowerStep
    <2> QED
      BY <2>1
  <1>6. Power(b, n) = (CHOOSE g : g = [k \in 0..n |-> PowerStep(g, b, k)])[n]
    BY DEF Power, PowerStep
  <1>7. PICK g : g = [k \in 0..n |-> PowerStep(g, b, k)] /\ Power(b, n) = g[n]
    <2> HIDE DEF h
    <2> QED
      BY <1>5, <1>6, Zenon
  <1>8. IsPower(g, b, n)
    BY <1>7, Zenon DEF IsPower
  <1> QED
    BY <1>7, <1>8

\* Two functions that satisfy the recursion agree where both do.
LEMMA PowerUnique ==
    ASSUME NEW b \in Int, NEW n \in Nat, NEW m \in Nat, NEW f, NEW g, m <= n,
           IsPower(f, b, n), IsPower(g, b, m)
    PROVE  f[m] = g[m] /\ f[m] \in Int
  <1> DEFINE S == {k \in Nat : k <= m => f[k] = g[k] /\ f[k] \in Int}
  <1>1. 0 \in S
    BY DEF IsPower, PowerStep
  <1>2. ASSUME NEW k \in S PROVE k + 1 \in S
    <2>1. CASE k + 1 <= m
      <3>1. f[k] = g[k] /\ f[k] \in Int /\ k + 1 \in 0..m /\ k + 1 \in 0..n /\ k + 1 # 0
            /\ (k + 1) - 1 = k
        BY <2>1
      <3>2. f[k + 1] = b * f[k] /\ g[k + 1] = b * g[k]
        BY <3>1, Zenon DEF IsPower, PowerStep
      <3>3. b * f[k] \in Int
        BY <3>1
      <3> QED
        BY <3>1, <3>2, <3>3
    <2>2. CASE ~(k + 1 <= m)
      BY <2>2
    <2> QED
      BY <2>1, <2>2
  <1>3. S = Nat
    <2>1. S \in SUBSET Nat
      OBVIOUS
    <2> HIDE DEF S
    <2> QED
      BY <1>1, <1>2, <2>1, Induction
  <1>4. m \in S
    <2> HIDE DEF S
    <2> QED
      BY <1>3
  <1> QED
    BY <1>4

\* The laws of powers.
LEMMA Powers ==
    ASSUME NEW b \in Int
    PROVE  /\ Power(b, 0) = 1
           /\ \A n \in Nat : Power(b, n) \in Int /\ Power(b, n + 1) = b * Power(b, n)
  <1>1. Power(b, 0) = 1
    <2>1. PICK f : IsPower(f, b, 0) /\ Power(b, 0) = f[0]
      BY PowerUnfolds
    <2> QED
      BY <2>1 DEF IsPower, PowerStep
  <1>2. ASSUME NEW n \in Nat
        PROVE  Power(b, n) \in Int /\ Power(b, n + 1) = b * Power(b, n)
    <2>1. PICK f : IsPower(f, b, n) /\ Power(b, n) = f[n]
      BY PowerUnfolds
    <2>2. n + 1 \in Nat /\ n <= n + 1 /\ n + 1 \in 0..(n + 1) /\ n + 1 # 0 /\ (n + 1) - 1 = n
      OBVIOUS
    <2>3. PICK g : IsPower(g, b, n + 1) /\ Power(b, n + 1) = g[n + 1]
      BY <2>2, PowerUnfolds
    <2>4. g[n] = f[n] /\ g[n] \in Int
      BY <2>1, <2>2, <2>3, PowerUnique
    <2>5. g[n + 1] = b * g[n]
      BY <2>2, <2>3, Zenon DEF IsPower, PowerStep
    <2> QED
      BY <2>1, <2>3, <2>4, <2>5
  <1> QED
    BY <1>1, <1>2

\* A power of a number from 1 on is one.
LEMMA PowerPositive ==
    ASSUME NEW b \in Nat \ {0}
    PROVE  \A n \in Nat : Power(b, n) \in Nat \ {0}
  <1> DEFINE S == {n \in Nat : Power(b, n) \in Nat \ {0}}
  <1>1. b \in Int
    OBVIOUS
  <1>2. 0 \in S
    BY <1>1, Powers
  <1>3. ASSUME NEW n \in S PROVE n + 1 \in S
    <2>1. Power(b, n + 1) = b * Power(b, n) /\ Power(b, n) \in Nat \ {0} /\ n \in Nat
      BY <1>1, Powers
    <2>2. b * Power(b, n) \in Nat \ {0}
      <3>1. PICK p \in Nat \ {0} : p = Power(b, n)
        BY <2>1
      <3>2. b * p \in Nat /\ b * p > 0
        BY Z3
      <3> QED
        BY <3>1, <3>2
    <2> QED
      BY <2>1, <2>2
  <1>4. S = Nat
    <2>1. S \in SUBSET Nat
      OBVIOUS
    <2> HIDE DEF S
    <2> QED
      BY <1>2, <1>3, <2>1, Induction
  <1> QED
    BY <1>4

\* b ^ (m + n) is b ^ m times b ^ n, and not smaller than b ^ m.
LEMMA PowerSum ==
    ASSUME NEW b \in Nat \ {0}, NEW m \in Nat
    PROVE  \A n \in Nat : /\ Power(b, m + n) = Power(b, m) * Power(b, n)
                          /\ Power(b, m + n) >= Power(b, m)
  <1> DEFINE S == {n \in Nat : /\ Power(b, m + n) = Power(b, m) * Power(b, n)
                               /\ Power(b, m + n) >= Power(b, m)}
  <1>1. b \in Int
    OBVIOUS
  <1>2. 0 \in S
    <2>1. m + 0 = m /\ Power(b, 0) = 1 /\ Power(b, m) \in Int
      BY <1>1, Powers
    <2> QED
      BY <2>1
  <1>3. ASSUME NEW n \in S PROVE n + 1 \in S
    <2>1. n \in Nat /\ m + n \in Nat /\ m + (n + 1) = (m + n) + 1
      OBVIOUS
    <2>2. PICK x, y, z \in Nat \ {0} :
             x = Power(b, m) /\ y = Power(b, n) /\ z = Power(b, m + n)
      BY <2>1, PowerPositive
    <2>3. Power(b, n + 1) = b * y /\ Power(b, (m + n) + 1) = b * z
      BY <1>1, <2>1, <2>2, Powers
    <2>4. z = x * y /\ z >= x
      BY <2>2
    <2>5. b * z = x * (b * y) /\ b * z >= x
      <3>1. b * z = x * (b * y)
        BY <2>4, Z3
      <3>2. b * z >= z
        BY Z3
      <3> QED
        BY <2>4, <3>1, <3>2, Z3
    <2> QED
      BY <2>1, <2>2, <2>3, <2>5
  <1>4. S = Nat
    <2>1. S \in SUBSET Nat
      OBVIOUS
    <2> HIDE DEF S
    <2> QED
      BY <1>2, <1>3, <2>1, Induction
  <1> QED
    BY <1>4

\* k groups of GroupBits bits.
LEMMA GroupPower ==
    \A k \in Nat : GroupBits * k \in Nat /\ Power(Half, k) = Power(2, GroupBits * k)
  <1> DEFINE S == {k \in Nat : Power(Half, k) = Power(2, GroupBits * k)}
  <1>1. GroupBits \in Nat \ {0}
    BY ByteArrayAssumption
  <1>2. Half \in Nat \ {0} /\ Half = Power(2, GroupBits)
    BY <1>1, PowerPositive DEF Half
  <1>3. 0 \in S
    <2>1. GroupBits * 0 = 0
      BY <1>1
    <2> QED
      BY <1>2, <2>1, Powers
  <1>4. ASSUME NEW k \in S PROVE k + 1 \in S
    <2>1. k \in Nat /\ Power(Half, k) = Power(2, GroupBits * k)
      OBVIOUS
    <2>2. GroupBits * k \in Nat /\ GroupBits * (k + 1) = GroupBits * k + GroupBits
      BY <1>1, <2>1
    <2>3. Power(Half, k + 1) = Half * Power(Half, k)
      BY <1>2, <2>1, Powers
    <2>4. Power(2, GroupBits * k + GroupBits) = Power(2, GroupBits * k) * Half
      BY <1>1, <1>2, <2>2, PowerSum
    <2>5. Power(Half, k) \in Nat
      BY <1>2, <2>1, PowerPositive
    <2>6. Half * Power(Half, k) = Power(Half, k) * Half
      BY <1>2, <2>5
    <2> QED
      BY <2>1, <2>2, <2>3, <2>4, <2>6
  <1>5. S = Nat
    <2>1. S \in SUBSET Nat
      OBVIOUS
    <2> HIDE DEF S
    <2> QED
      BY <1>3, <1>4, <2>1, Induction
  <1>6. \A k \in Nat : GroupBits * k \in Nat
    BY <1>1
  <1> QED
    BY <1>5, <1>6

\* What the widths are, and that the groups of a varint have room for a word.
LEMMA Widths ==
    /\ Half \in Nat /\ Half >= 2 /\ Radix \in Nat /\ Radix = 2 * Half
    /\ Word \in Nat /\ Word >= 2
    /\ Power(2, VarBits - 1) \in Nat \ {0} /\ Word = 2 * Power(2, VarBits - 1)
    /\ Groups \in Nat \ {0} /\ Word <= Power(Half, Groups)
  <1>1. GroupBits \in Nat \ {0} /\ VarBits \in Nat \ {0}
        /\ GroupBits - 1 \in Nat /\ VarBits - 1 \in Nat
        /\ (GroupBits - 1) + 1 = GroupBits /\ (VarBits - 1) + 1 = VarBits
    BY ByteArrayAssumption
  <1>2. PICK x, y \in Nat \ {0} : x = Power(2, GroupBits - 1) /\ y = Power(2, VarBits - 1)
    <2>1. Power(2, GroupBits - 1) \in Nat \ {0} /\ Power(2, VarBits - 1) \in Nat \ {0}
      <3>1. 2 \in Nat \ {0}
        OBVIOUS
      <3> QED
        BY <1>1, <3>1, PowerPositive
    <2> QED
      BY <2>1
  <1>3. Half = 2 * x /\ Word = 2 * y
    BY <1>1, <1>2, Powers DEF Half, Word
  <1>4. Half \in Nat /\ Half >= 2 /\ Word \in Nat /\ Word >= 2
        /\ Power(2, VarBits - 1) \in Nat \ {0} /\ Word = 2 * Power(2, VarBits - 1)
    BY <1>2, <1>3
  <1>5. Radix \in Nat /\ Radix = 2 * Half
    BY <1>4 DEF Radix
  <1>6. Groups \in Nat \ {0} /\ VarBits <= GroupBits * Groups
    <2>1. VarBits + GroupBits - 1 \in Nat
      BY <1>1
    <2> DEFINE t == VarBits + GroupBits - 1
    <2>2. t \div GroupBits \in Nat /\ t % GroupBits \in 0..(GroupBits - 1)
          /\ t = GroupBits * (t \div GroupBits) + (t % GroupBits)
      <3> HIDE DEF t
      <3> QED
        BY <1>1, <2>1, DivMod DEF t
    <2>3. Groups = t \div GroupBits
      BY DEF Groups
    <2>4. PICK q \in Int : q = GroupBits * Groups
      BY <1>1, <2>2, <2>3
    <2>5. VarBits <= q
      <3>1. t = q + (t % GroupBits) /\ t = VarBits + (GroupBits - 1)
        BY <1>1, <2>2, <2>3, <2>4
      <3> HIDE DEF t
      <3> QED
        BY <1>1, <2>2, <2>4, <3>1
    <2>6. Groups # 0
      <3>1. Groups = 0 => q = 0
        BY <1>1, <2>4
      <3> QED
        BY <1>1, <2>5, <3>1
    <2> HIDE DEF t
    <2> QED
      BY <2>2, <2>3, <2>4, <2>5, <2>6
  <1>7. Power(2, VarBits) <= Power(2, GroupBits * Groups)
    <2>1. PICK e \in Nat : e = GroupBits * Groups - VarBits /\ VarBits + e = GroupBits * Groups
      <3>1. PICK q \in Int : q = GroupBits * Groups
        BY <1>1, <1>6
      <3> QED
        BY <1>1, <1>6, <3>1
    <2>2. Power(2, VarBits + e) >= Power(2, VarBits)
      BY <1>1, <2>1, PowerSum
    <2>3. Power(2, VarBits + e) \in Int /\ Power(2, VarBits) \in Int
      BY <1>1, <2>1, Powers
    <2> QED
      BY <2>1, <2>2, <2>3
  <1>8. Word <= Power(Half, Groups)
    BY <1>6, <1>7, GroupPower DEF Word
  <1> QED
    BY <1>4, <1>5, <1>6, <1>8
-----------------------------------------------------------------------------
(* Numbers in a base *)

\* One step of Number's recursion, with f for the others.
NumberStep(f, d, b, i) == IF i = 0 THEN 0 ELSE f[i - 1] + d[i] * Power(b, i - 1)
IsNumber(f, d, b, n) == \A i \in 0..n : f[i] = NumberStep(f, d, b, i)

\* Number is the last value of the function that its recursion defines.
LEMMA NumberUnfolds ==
    ASSUME NEW d, Len(d) \in Nat, NEW b
    PROVE  \E f : IsNumber(f, d, b, Len(d)) /\ Number(d, b) = f[Len(d)]
  <1>0. PICK n \in Nat : n = Len(d)
    OBVIOUS
  <1> DEFINE OK(f, j) == \A k \in 0..n : k < j => f[k] = NumberStep(f, d, b, k)
             S == {j \in Nat : \E f : OK(f, j)}
  <1>1. 0 \in S
    <2>1. OK([k \in 0..n |-> k], 0)
      OBVIOUS
    <2> HIDE DEF OK
    <2> QED
      BY <2>1
  <1>2. ASSUME NEW j \in S PROVE j + 1 \in S
    <2>1. PICK f : OK(f, j)
      OBVIOUS
    <2> DEFINE g == [k \in 0..n |-> NumberStep(f, d, b, k)]
    <2>2. ASSUME NEW k \in 0..n, k < j + 1 PROVE g[k] = NumberStep(g, d, b, k)
      <3>1. CASE k = 0
        BY <3>1 DEF NumberStep
      <3>2. CASE k # 0
        <4>1. k - 1 \in 0..n /\ k - 1 < j
          BY <2>2, <3>2
        <4>2. f[k - 1] = NumberStep(f, d, b, k - 1)
          BY <2>1, <4>1
        <4>3. g[k - 1] = f[k - 1]
          BY <4>1, <4>2
        <4>4. g[k] = NumberStep(f, d, b, k)
          OBVIOUS
        <4> HIDE DEF g
        <4> QED
          BY <4>3, <4>4, Zenon DEF NumberStep
      <3> QED
        BY <3>1, <3>2
    <2>3. OK(g, j + 1) /\ j + 1 \in Nat
      BY <2>2
    <2> HIDE DEF OK, g
    <2> QED
      BY <2>3
  <1>3. S = Nat
    <2>1. S \in SUBSET Nat
      OBVIOUS
    <2> HIDE DEF S
    <2> QED
      BY <1>1, <1>2, <2>1, Induction
  <1>4. PICK f : OK(f, n + 1)
    <2>1. n + 1 \in S
      <3> HIDE DEF S
      <3> QED
        BY <1>3
    <2> HIDE DEF OK
    <2> QED
      BY <2>1
  <1> DEFINE h == [k \in 0..n |-> f[k]]
  <1>5. h = [k \in 0..n |-> NumberStep(h, d, b, k)]
    <2>1. ASSUME NEW k \in 0..n PROVE f[k] = NumberStep(h, d, b, k)
      <3>1. f[k] = NumberStep(f, d, b, k)
        BY <1>4
      <3>2. k # 0 => k - 1 \in 0..n
        OBVIOUS
      <3>3. k # 0 => h[k - 1] = f[k - 1]
        BY <3>2
      <3> HIDE DEF h
      <3> QED
        BY <3>1, <3>3, Zenon DEF NumberStep
    <2> QED
      BY <2>1
  <1>6. Number(d, b) = (CHOOSE g : g = [k \in 0..n |-> NumberStep(g, d, b, k)])[n]
    BY <1>0 DEF Number, NumberStep
  <1>7. PICK g : g = [k \in 0..n |-> NumberStep(g, d, b, k)] /\ Number(d, b) = g[n]
    <2> HIDE DEF h
    <2> QED
      BY <1>5, <1>6, Zenon
  <1>8. IsNumber(g, d, b, n)
    BY <1>7, Zenon DEF IsNumber
  <1> QED
    BY <1>0, <1>7, <1>8

\* The steps, one by one; all are integers.
Sums(f, d, b, n) ==
    /\ f[0] = 0
    /\ \A i \in Nat : i < n => f[i + 1] = f[i] + d[i + 1] * Power(b, i)
    /\ \A i \in 0..n : f[i] \in Int

\* The value of one digit more is what that digit adds.
LEMMA NumberSteps ==
    ASSUME NEW n \in Nat, NEW d, NEW b \in Int, \A i \in 1..n : d[i] \in Int,
           NEW f, IsNumber(f, d, b, n)
    PROVE  Sums(f, d, b, n)
  <1>1. f[0] = 0
    BY DEF IsNumber, NumberStep
  <1>2. ASSUME NEW i \in Nat, i < n
        PROVE  f[i + 1] = f[i] + d[i + 1] * Power(b, i)
    <2>1. i + 1 \in 0..n /\ i + 1 # 0 /\ (i + 1) - 1 = i
      BY <1>2
    <2> QED
      BY <2>1, Zenon DEF IsNumber, NumberStep
  <1> DEFINE S == {i \in Nat : i <= n => f[i] \in Int}
  <1>3. 0 \in S
    BY <1>1
  <1>4. ASSUME NEW i \in S PROVE i + 1 \in S
    <2>1. CASE i + 1 <= n
      <3>1. i \in Nat /\ i < n /\ f[i] \in Int /\ i + 1 \in 1..n
        BY <2>1
      <3>2. PICK x, y, z \in Int : x = f[i] /\ y = d[i + 1] /\ z = Power(b, i)
        BY <3>1, Powers
      <3>3. f[i + 1] = x + y * z
        BY <1>2, <3>1, <3>2
      <3>4. y * z \in Int
        BY <3>2
      <3> QED
        BY <3>1, <3>3, <3>4
    <2>2. CASE ~(i + 1 <= n)
      BY <2>2
    <2> QED
      BY <2>1, <2>2
  <1>5. S = Nat
    <2>1. S \in SUBSET Nat
      OBVIOUS
    <2> HIDE DEF S
    <2> QED
      BY <1>3, <1>4, <2>1, Induction
  <1>6. \A i \in 0..n : f[i] \in Int
    BY <1>5
  <1> QED
    BY <1>1, <1>2, <1>6 DEF Sums

\* The value of one digit.
LEMMA NumberOne ==
    ASSUME NEW x \in Int, NEW b \in Int
    PROVE  Number(<<x>>, b) = x
  <1>0. Len(<<x>>) = 1 /\ <<x>>[1] = x
    OBVIOUS
  <1>1. PICK d : d = <<x>> /\ Len(d) = 1 /\ d[1] = x
    BY <1>0, Zenon
  <1>2. PICK f : IsNumber(f, d, b, 1) /\ Number(d, b) = f[1]
    BY <1>1, NumberUnfolds
  <1>3. \A i \in 1..1 : d[i] \in Int
    BY <1>1
  <1>4. f[0] = 0 /\ f[0 + 1] = f[0] + d[0 + 1] * Power(b, 0)
    BY <1>2, <1>3, NumberSteps DEF Sums
  <1>5. Power(b, 0) = 1
    BY Powers
  <1>6. f[1] = 0 + x * 1
    BY <1>1, <1>4, <1>5
  <1> QED
    BY <1>1, <1>2, <1>6

\* The digits d are one and the digits e.
OneMore(d, e) ==
    /\ Len(e) \in Nat /\ Len(d) = Len(e) + 1 /\ d[1] \in Int
    /\ \A i \in 1..Len(e) : e[i] \in Int /\ d[i + 1] = e[i]

\* The lowest digit and the others.
LEMMA NumberFirst ==
    ASSUME NEW b \in Int, NEW d, NEW e, OneMore(d, e)
    PROVE  Number(d, b) = d[1] + b * Number(e, b) /\ Number(e, b) \in Int
  <1>0. PICK x \in Int, m \in Nat :
          /\ x = d[1] /\ m = Len(e) /\ Len(d) = m + 1
          /\ \A i \in 1..m : e[i] \in Int
          /\ \A i \in 1..m : d[i + 1] = e[i]
    BY DEF OneMore
  <1>1. PICK f : IsNumber(f, d, b, m + 1) /\ Number(d, b) = f[m + 1]
    BY <1>0, NumberUnfolds
  <1>2. PICK g : IsNumber(g, e, b, m) /\ Number(e, b) = g[m]
    BY <1>0, NumberUnfolds
  <1>3. \A i \in 1..(m + 1) : d[i] \in Int
    <2>1. ASSUME NEW i \in 1..(m + 1) PROVE d[i] \in Int
      <3>1. CASE i = 1
        BY <1>0, <3>1
      <3>2. CASE i # 1
        <4>1. i - 1 \in 1..m /\ (i - 1) + 1 = i
          BY <3>2
        <4> QED
          BY <1>0, <4>1
      <3> QED
        BY <3>1, <3>2
    <2> QED
      BY <2>1
  <1>4. m + 1 \in Nat
    OBVIOUS
  <1>5. /\ f[0] = 0
        /\ \A i \in Nat : i < m + 1 => f[i + 1] = f[i] + d[i + 1] * Power(b, i)
    <2>1. Sums(f, d, b, m + 1)
      BY <1>1, <1>3, <1>4, NumberSteps, Zenon
    <2> QED
      BY <2>1, Zenon DEF Sums
  <1>6. /\ g[0] = 0
        /\ \A i \in Nat : i < m => g[i + 1] = g[i] + e[i + 1] * Power(b, i)
        /\ \A i \in 0..m : g[i] \in Int
    <2>1. Sums(g, e, b, m)
      BY <1>0, <1>2, NumberSteps, Zenon
    <2> QED
      BY <2>1, Zenon DEF Sums
  <1> DEFINE S == {i \in Nat : i <= m => f[i + 1] = x + b * g[i]}
  <1>7. 0 \in S
    <2>1. f[0 + 1] = f[0] + d[0 + 1] * Power(b, 0) /\ Power(b, 0) = 1
      <3>1. 0 \in Nat /\ 0 < m + 1
        OBVIOUS
      <3> QED
        BY <1>5, <3>1, Powers, Zenon
    <2>2. f[0 + 1] = x /\ b * g[0] = 0
      BY <1>0, <1>5, <1>6, <2>1
    <2> QED
      BY <2>2
  <1>8. ASSUME NEW i \in S PROVE i + 1 \in S
    <2>1. CASE i + 1 <= m
      <3>1. i \in Nat /\ i < m /\ i + 1 < m + 1 /\ i + 1 \in Nat /\ i + 1 \in 1..m /\ i \in 0..m
            /\ f[i + 1] = x + b * g[i]
        BY <2>1
      <3>2. PICK u, v, w \in Int : u = g[i] /\ v = e[i + 1] /\ w = Power(b, i)
        BY <1>0, <1>6, <3>1, Powers
      <3>3. Power(b, i + 1) = b * w /\ d[(i + 1) + 1] = v
        BY <1>0, <3>1, <3>2, Powers
      <3>4. f[(i + 1) + 1] = f[i + 1] + v * (b * w)
        BY <1>5, <3>1, <3>3
      <3>5. g[i + 1] = u + v * w
        BY <1>6, <3>1, <3>2
      <3>6. (x + b * u) + v * (b * w) = x + b * (u + v * w)
        <4>1. PICK p \in Int : p = v * w
          BY <3>2
        <4>2. v * (b * w) = b * p
          BY <3>2, <4>1, Z3
        <4>3. b * (u + p) = b * u + b * p
          BY <3>2, Z3
        <4>4. b * u \in Int /\ b * p \in Int
          BY <3>2
        <4> QED
          BY <4>1, <4>2, <4>3, <4>4
      <3> QED
        BY <3>1, <3>2, <3>4, <3>5, <3>6
    <2>2. CASE ~(i + 1 <= m)
      BY <2>2
    <2> QED
      BY <2>1, <2>2
  <1>9. S = Nat
    <2>1. S \in SUBSET Nat
      OBVIOUS
    <2> HIDE DEF S
    <2> QED
      BY <1>7, <1>8, <2>1, Induction
  <1>10. f[m + 1] = x + b * g[m] /\ g[m] \in Int
    <2>1. m \in S /\ m \in 0..m
      BY <1>9
    <2> QED
      BY <1>6, <2>1
  <1> QED
    BY <1>0, <1>1, <1>2, <1>10
-----------------------------------------------------------------------------
(* Varints *)

\* One round of the loop of writeUint32(), with f for the others.
VarintStep(f, v) == IF v >= Half THEN <<(v % Half) + Half>> \o f[v \div Half] ELSE <<v>>

\* The loop's value gets smaller.
LEMMA GroupsShrink ==
    ASSUME NEW v \in Nat, v >= Half
    PROVE  /\ v \div Half \in Nat /\ v \div Half < v /\ v \div Half >= 1
           /\ v % Half \in 0..(Half - 1) /\ v = (v % Half) + Half * (v \div Half)
  <1>1. Half \in Nat /\ Half >= 2
    BY Widths
  <1>2. v \div Half \in Nat /\ v % Half \in 0..(Half - 1) /\ v = Half * (v \div Half) + (v % Half)
    <2>1. Half \in Nat \ {0}
      BY <1>1
    <2> QED
      BY <2>1, DivMod, Zenon
  <1>3. PICK q \in Nat, r \in 0..(Half - 1), p \in Int :
           q = v \div Half /\ r = v % Half /\ p = Half * q
    BY <1>1, <1>2
  <1>4. v = p + r
    BY <1>2, <1>3
  <1>5. q >= 1
    <2>1. CASE q = 0
      <3>1. p = 0
        BY <1>1, <1>3, <2>1
      <3> QED
        BY <1>1, <1>3, <1>4, <3>1
    <2> QED
      BY <2>1
  <1>6. p >= 2 * q
    BY <1>1, <1>3, Z3
  <1>7. q < v
    BY <1>3, <1>4, <1>5, <1>6
  <1> QED
    BY <1>2, <1>3, <1>4, <1>5, <1>7

\* Varint is the value of the function that its recursion defines.
LEMMA VarintUnfolds ==
    ASSUME NEW n \in Nat
    PROVE  \E f : (\A v \in 0..n : f[v] = VarintStep(f, v)) /\ Varint(n) = f[n]
  <1> DEFINE OK(f, j) == \A v \in 0..n : v < j => f[v] = VarintStep(f, v)
             S == {j \in Nat : \E f : OK(f, j)}
  <1>0. ASSUME NEW v \in 0..n PROVE v >= Half => v \div Half \in 0..n /\ v \div Half < v
    <2>1. v \in Nat /\ v <= n
      OBVIOUS
    <2>2. v >= Half => v \div Half \in Nat /\ v \div Half < v
      BY <2>1, GroupsShrink
    <2>3. PICK q : q = v \div Half
      OBVIOUS
    <2> QED
      BY <2>1, <2>2, <2>3
  <1>1. 0 \in S
    <2>1. OK([v \in 0..n |-> v], 0)
      OBVIOUS
    <2> HIDE DEF OK
    <2> QED
      BY <2>1
  <1>2. ASSUME NEW j \in S PROVE j + 1 \in S
    <2>1. PICK f : OK(f, j)
      OBVIOUS
    <2> DEFINE g == [v \in 0..n |-> VarintStep(f, v)]
    <2>2. ASSUME NEW v \in 0..n, v < j + 1 PROVE g[v] = VarintStep(g, v)
      <3>1. v >= Half => f[v \div Half] = g[v \div Half]
        <4>1. PICK q : q = v \div Half
          OBVIOUS
        <4>2. v >= Half => q \in 0..n /\ q < j
          <5>1. v >= Half => q \in 0..n /\ q < v
            BY <1>0, <4>1
          <5>2. j \in Nat /\ v \in Nat
            OBVIOUS
          <5> QED
            BY <2>2, <5>1, <5>2
        <4>3. v >= Half => f[q] = VarintStep(f, q)
          BY <2>1, <4>2
        <4> QED
          BY <4>1, <4>2, <4>3
      <3>2. g[v] = VarintStep(f, v)
        OBVIOUS
      <3> HIDE DEF g
      <3> QED
        BY <3>1, <3>2, Zenon DEF VarintStep
    <2>3. OK(g, j + 1) /\ j + 1 \in Nat
      BY <2>2
    <2> HIDE DEF OK, g
    <2> QED
      BY <2>3
  <1>3. S = Nat
    <2>1. S \in SUBSET Nat
      OBVIOUS
    <2> HIDE DEF S
    <2> QED
      BY <1>1, <1>2, <2>1, Induction
  <1>4. PICK f : OK(f, n + 1)
    <2>1. n + 1 \in S
      <3> HIDE DEF S
      <3> QED
        BY <1>3
    <2> HIDE DEF OK
    <2> QED
      BY <2>1
  <1> DEFINE h == [v \in 0..n |-> f[v]]
  <1>5. h = [v \in 0..n |-> VarintStep(h, v)]
    <2>1. ASSUME NEW v \in 0..n PROVE f[v] = VarintStep(h, v)
      <3>1. f[v] = VarintStep(f, v)
        BY <1>4
      <3>2. v >= Half => h[v \div Half] = f[v \div Half]
        BY <1>0
      <3> HIDE DEF h
      <3> QED
        BY <3>1, <3>2, Zenon DEF VarintStep
    <2> QED
      BY <2>1
  <1>6. Varint(n) = (CHOOSE g : g = [v \in 0..n |-> VarintStep(g, v)])[n]
    BY DEF Varint, VarintStep
  <1>7. PICK g : g = [v \in 0..n |-> VarintStep(g, v)] /\ Varint(n) = g[n]
    <2> HIDE DEF h
    <2> QED
      BY <1>5, <1>6, Zenon
  <1> QED
    BY <1>7, Zenon

\* The digits that readUint32() takes from bytes.
GroupsOf(bytes) == [i \in DOMAIN bytes |-> bytes[i] % Half]

\* What the bytes of v must be: only the last is without the mark, the groups are the
\* digits of v, and there are not more of them than v needs.
GoodVarint(bytes, v) ==
    /\ bytes \in Seq(Nat) /\ Len(bytes) >= 1
    /\ \A i \in 1..Len(bytes) : bytes[i] < Half <=> i = Len(bytes)
    /\ Number(GroupsOf(bytes), Half) = v
    /\ \A g \in Nat : g >= 1 /\ v < Power(Half, g) => Len(bytes) <= g

\* The last round.
LEMMA VarintLast ==
    ASSUME NEW v \in Nat, v < Half
    PROVE  GoodVarint(<<v>>, v)
  <1>1. Half \in Nat /\ Half >= 2
    BY Widths
  <1>2. PICK s : s = <<v>>
    OBVIOUS
  <1>3. s \in Seq(Nat) /\ Len(s) = 1 /\ s[1] = v /\ DOMAIN s = 1..1
    BY <1>2
  <1>4. v % Half = v
    BY <1>1, Z3
  <1>5. GroupsOf(s) = <<v>>
    <2>1. GroupsOf(s) = [i \in 1..1 |-> v]
      BY <1>3, <1>4 DEF GroupsOf
    <2> QED
      BY <2>1
  <1>6. Number(GroupsOf(s), Half) = v
    BY <1>1, <1>5, NumberOne
  <1> HIDE DEF GroupsOf
  <1> QED
    BY <1>2, <1>3, <1>6 DEF GoodVarint

\* A sequence with one more element in front.
LEMMA ConsFacts ==
    ASSUME NEW E, NEW x \in E, NEW s \in Seq(E)
    PROVE  /\ <<x>> \o s \in Seq(E) /\ Len(<<x>> \o s) = Len(s) + 1
           /\ (<<x>> \o s)[1] = x /\ \A i \in 1..Len(s) : (<<x>> \o s)[i + 1] = s[i]
  <1>1. PICK u : u = <<x>>
    OBVIOUS
  <1>2. u \in Seq(E) /\ Len(u) = 1 /\ u[1] = x
    BY <1>1
  <1>3. PICK m \in Nat : m = Len(s)
    OBVIOUS
  <1>4. PICK t : t = u \o s
    OBVIOUS
  <1>5. /\ t \in Seq(E) /\ Len(t) = 1 + m
        /\ \A i \in 1..(1 + m) : t[i] = IF i <= 1 THEN u[i] ELSE s[i - 1]
    <2>1. /\ u \o s \in Seq(E) /\ Len(u \o s) = Len(u) + Len(s)
          /\ \A i \in 1..Len(u) + Len(s) :
                (u \o s)[i] = IF i <= Len(u) THEN u[i] ELSE s[i - Len(u)]
      BY <1>2, ConcatProperties, Zenon
    <2> QED
      BY <1>2, <1>3, <1>4, <2>1, Zenon
  <1>6. Len(t) = Len(s) + 1 /\ t[1] = x
    BY <1>2, <1>3, <1>5
  <1>7. ASSUME NEW i \in 1..Len(s) PROVE t[i + 1] = s[i]
    <2>1. i + 1 \in 1..(1 + m) /\ ~(i + 1 <= 1) /\ (i + 1) - 1 = i
      BY <1>3
    <2>2. t[i + 1] = s[(i + 1) - 1]
      BY <1>5, <2>1, Zenon
    <2> QED
      BY <2>1, <2>2
  <1> QED
    BY <1>1, <1>4, <1>5, <1>6, <1>7, Zenon

\* A round before it.
LEMMA VarintMore ==
    ASSUME NEW v \in Nat, v >= Half, NEW s, GoodVarint(s, v \div Half)
    PROVE  GoodVarint(<<(v % Half) + Half>> \o s, v)
  <1>1. Half \in Nat /\ Half >= 2
    BY Widths
  <1>2. PICK q \in Nat, r \in 0..(Half - 1) : q = v \div Half /\ r = v % Half
    BY GroupsShrink
  <1>3. v = r + Half * q /\ q >= 1
    BY <1>2, GroupsShrink
  <1>4. PICK t : t = <<r + Half>> \o s
    OBVIOUS
  <1>5. /\ s \in Seq(Nat) /\ Len(s) >= 1
        /\ \A i \in 1..Len(s) : s[i] < Half <=> i = Len(s)
        /\ Number(GroupsOf(s), Half) = q
        /\ \A g \in Nat : g >= 1 /\ q < Power(Half, g) => Len(s) <= g
    BY <1>2, Zenon DEF GoodVarint
  <1>6. PICK m \in Nat : m = Len(s) /\ m >= 1
    BY <1>5
  <1>7. t \in Seq(Nat) /\ Len(t) = m + 1 /\ t[1] = r + Half /\ \A i \in 1..m : t[i + 1] = s[i]
    <2>1. r + Half \in Nat
      BY <1>1
    <2> QED
      BY <1>4, <1>5, <1>6, <2>1, ConsFacts
  <1>8. \A i \in 1..Len(t) : t[i] < Half <=> i = Len(t)
    <2>1. ASSUME NEW i \in 1..(m + 1) PROVE t[i] < Half <=> i = m + 1
      <3>1. CASE i = 1
        BY <1>1, <1>2, <1>6, <1>7, <3>1
      <3>2. CASE i # 1
        <4>1. i - 1 \in 1..m /\ (i - 1) + 1 = i
          BY <3>2
        <4>2. t[i] = s[i - 1]
          BY <1>7, <4>1
        <4>3. s[i - 1] < Half <=> i - 1 = m
          BY <1>5, <1>6, <4>1
        <4> QED
          BY <4>1, <4>2, <4>3
      <3> QED
        BY <3>1, <3>2
    <2> QED
      BY <1>7, <2>1
  <1>9. Number(GroupsOf(t), Half) = v
    <2>1. (r + Half) % Half = r
      BY <1>1, <1>2, Z3
    <2>2. DOMAIN t = 1..(m + 1) /\ DOMAIN s = 1..m
      BY <1>5, <1>6, <1>7
    <2>3. GroupsOf(t) = [i \in 1..(m + 1) |-> t[i] % Half]
          /\ GroupsOf(s) = [i \in 1..m |-> s[i] % Half]
      BY <2>2 DEF GroupsOf
    <2>4. \A i \in 1..m : s[i] % Half \in Int /\ i + 1 \in 1..(m + 1)
      <3>1. ASSUME NEW i \in 1..m PROVE s[i] % Half \in Int
        <4>1. s[i] \in Nat /\ Half \in Nat \ {0}
          BY <1>1, <1>5, <1>6
        <4>2. s[i] % Half \in 0..(Half - 1)
          BY <4>1, DivMod
        <4> QED
          BY <4>2
      <3> QED
        BY <3>1
    <2>5. PICK d, e : d = GroupsOf(t) /\ e = GroupsOf(s)
      OBVIOUS
    <2>6. Len(d) = m + 1 /\ Len(e) = m /\ m + 1 \in 1..(m + 1) /\ 1 \in 1..(m + 1)
      BY <2>3, <2>5
    <2>7. d[1] = r
      BY <1>7, <2>1, <2>3, <2>5, <2>6
    <2>8. \A i \in 1..m : e[i] \in Int /\ d[i + 1] = e[i]
      BY <1>7, <2>3, <2>4, <2>5
    <2>9. Number(d, Half) = r + Half * Number(e, Half)
      <3>1. r \in Int /\ Half \in Int
        BY <1>1
      <3>2. OneMore(d, e)
        BY <2>6, <2>7, <2>8, <3>1 DEF OneMore
      <3> QED
        BY <2>7, <3>1, <3>2, NumberFirst, Zenon
    <2> QED
      BY <1>3, <1>5, <2>5, <2>9
  <1>10. ASSUME NEW g \in Nat, g >= 1, v < Power(Half, g) PROVE Len(t) <= g
    <2>1. g # 1
      <3>1. Power(Half, 0 + 1) = Half * Power(Half, 0) /\ Power(Half, 0) = 1
        <4>1. Half \in Int /\ 0 \in Nat
          BY <1>1
        <4> QED
          BY <4>1, Powers, Zenon
      <3>2. Power(Half, 1) = Half
        BY <1>1, <3>1
      <3> QED
        BY <1>10, <1>1, <3>2
    <2>2. g - 1 \in Nat /\ g - 1 >= 1 /\ (g - 1) + 1 = g
      BY <1>10, <2>1
    <2>3. Half \in Nat \ {0}
      BY <1>1
    <2>4. PICK p \in Nat : p = Power(Half, g - 1)
      BY <2>2, <2>3, PowerPositive
    <2>5. Power(Half, (g - 1) + 1) = Half * Power(Half, g - 1)
      BY <1>1, <2>2, Powers
    <2>6. v < Half * p
      BY <1>10, <2>2, <2>4, <2>5
    <2>7. q < p
      <3>1. CASE q >= p
        <4>1. Half * q >= Half * p
          BY <1>1, <1>2, <2>4, <3>1, Z3
        <4>2. PICK x, y \in Int : x = Half * q /\ y = Half * p
          BY <1>1, <1>2, <2>4
        <4> QED
          BY <1>2, <1>3, <2>6, <4>1, <4>2
      <3> QED
        BY <1>2, <2>4, <3>1
    <2>8. m <= g - 1
      BY <1>5, <1>6, <2>2, <2>4, <2>7
    <2> QED
      BY <1>6, <1>7, <2>2, <2>8
  <1>11. GoodVarint(t, v)
    BY <1>6, <1>7, <1>8, <1>9, <1>10 DEF GoodVarint
  <1> QED
    BY <1>2, <1>4, <1>11

\* All rounds.
LEMMA VarintIsGood ==
    ASSUME NEW n \in Nat
    PROVE  GoodVarint(Varint(n), n)
  <1>1. PICK f : (\A v \in 0..n : f[v] = VarintStep(f, v)) /\ Varint(n) = f[n]
    BY VarintUnfolds
  <1> DEFINE S == {k \in Nat : \A v \in Nat : v <= k /\ v <= n => GoodVarint(f[v], v)}
  <1>2. Half \in Nat /\ Half >= 2
    BY Widths
  <1>3. ASSUME NEW v \in Nat, v <= n, v < Half PROVE GoodVarint(f[v], v)
    <2>1. v \in 0..n /\ ~(v >= Half)
      BY <1>2, <1>3
    <2>2. f[v] = <<v>>
      BY <1>1, <2>1, Zenon DEF VarintStep
    <2> QED
      BY <1>3, <2>2, VarintLast
  <1>4. 0 \in S
    <2>1. \A v \in Nat : v <= 0 => v = 0
      OBVIOUS
    <2>2. 0 < Half
      BY <1>2
    <2> QED
      BY <1>3, <2>1, <2>2
  <1>5. ASSUME NEW k \in S PROVE k + 1 \in S
    <2>1. k \in Nat /\ \A v \in Nat : v <= k /\ v <= n => GoodVarint(f[v], v)
      OBVIOUS
    <2>2. ASSUME NEW v \in Nat, v <= k + 1, v <= n PROVE GoodVarint(f[v], v)
      <3>1. CASE v < Half
        BY <1>3, <2>2, <3>1
      <3>2. CASE ~(v < Half)
        <4>1. v >= Half /\ v \in 0..n
          BY <1>2, <2>2, <3>2
        <4>2. PICK q : q = v \div Half
          OBVIOUS
        <4>3. q \in Nat /\ q < v
          BY <4>1, <4>2, GroupsShrink
        <4>4. q <= k /\ q <= n
          BY <2>1, <2>2, <4>3
        <4>5. GoodVarint(f[q], q)
          BY <2>1, <4>3, <4>4
        <4>6. f[v] = <<(v % Half) + Half>> \o f[q]
          BY <1>1, <4>1, <4>2, Zenon DEF VarintStep
        <4> QED
          BY <4>1, <4>2, <4>5, <4>6, VarintMore
      <3> QED
        BY <3>1, <3>2
    <2>3. k + 1 \in Nat
      BY <2>1
    <2> QED
      BY <2>2, <2>3
  <1>6. S = Nat
    <2>1. S \in SUBSET Nat
      OBVIOUS
    <2> HIDE DEF S
    <2> QED
      BY <1>4, <1>5, <2>1, Induction
  <1>7. n \in S
    <2> HIDE DEF S
    <2> QED
      BY <1>6
  <1>8. n <= n
    OBVIOUS
  <1> QED
    BY <1>1, <1>7, <1>8
-----------------------------------------------------------------------------
(* Every encoding is exact *)

\* A remainder of a number smaller than the divisor.
LEMMA ModSmall ==
    ASSUME NEW d \in Nat \ {0}, NEW x \in 0..(d - 1)
    PROVE  x % d = x
  BY Z3

\* A word is read as it was written, from as many bytes, which fit into tmp[].
LEMMA VarintIsExact ==
    ASSUME NEW v \in 0..(Word - 1)
    PROVE  /\ Varint(v) \in Seq(Nat) /\ Len(Varint(v)) \in 1..Groups
           /\ \A i \in 1..Len(Varint(v)) : Varint(v)[i] < Half <=> i = Len(Varint(v))
           /\ VarintEnds(Varint(v)) = {Len(Varint(v))}
           /\ VarintValue(Varint(v)) = v
  <1>1. /\ Half \in Nat /\ Half >= 2 /\ Word \in Nat /\ Word >= 2
        /\ Groups \in Nat \ {0} /\ Word <= Power(Half, Groups)
    BY Widths
  <1>2. v \in Nat /\ v < Word
    BY <1>1
  <1>3. PICK s : s = Varint(v)
    OBVIOUS
  <1>4. /\ s \in Seq(Nat) /\ Len(s) >= 1
        /\ \A i \in 1..Len(s) : s[i] < Half <=> i = Len(s)
        /\ Number(GroupsOf(s), Half) = v
        /\ \A g \in Nat : g >= 1 /\ v < Power(Half, g) => Len(s) <= g
    BY <1>2, <1>3, VarintIsGood DEF GoodVarint
  <1>5. Power(Half, Groups) \in Int
    BY <1>1, Powers
  <1>6. v < Power(Half, Groups)
    BY <1>1, <1>2, <1>5
  <1>7. Len(s) <= Groups /\ Len(s) \in Nat
    BY <1>1, <1>4, <1>6
  <1>8. VarintEnds(s) = {Len(s)}
    <2>1. DOMAIN s = 1..Len(s)
      BY <1>4
    <2>2. \A i \in 1..Len(s) : (i = Groups \/ s[i] < Half) <=> i = Len(s)
      BY <1>1, <1>4, <1>7
    <2>3. Len(s) \in 1..Len(s)
      BY <1>4, <1>7
    <2> QED
      BY <2>1, <2>2, <2>3 DEF VarintEnds
  <1>9. VarintValue(s) = v
    <2>1. v % Word = v
      BY <1>1, ModSmall
    <2> QED
      BY <1>4, <2>1 DEF VarintValue, GroupsOf
  <1> QED
    BY <1>1, <1>3, <1>4, <1>7, <1>8, <1>9

\* The most negative number, too, is encoded as a word that decodes to it.
LEMMA ZigzagIsExact ==
    ASSUME NEW v \in (- Power(2, VarBits - 1))..(Power(2, VarBits - 1) - 1)
    PROVE  EncodeZigzag(v) \in 0..(Word - 1) /\ DecodeZigzag(EncodeZigzag(v)) = v
  <1>1. PICK h \in Nat \ {0} : h = Power(2, VarBits - 1) /\ Word = 2 * h
    BY Widths
  <1>2. Word \in Nat \ {0} /\ v \in Int /\ -h <= v /\ v <= h - 1
    BY <1>1
  <1>3. CASE v < 0
    <2>1. -v \in 0..(Word - 1)
      BY <1>1, <1>2, <1>3
    <2>2. (-v) % Word = -v
      BY <1>2, <2>1, ModSmall
    <2>3. (-v) * 2 - 1 \in 0..(Word - 1)
      BY <1>1, <1>2, <1>3
    <2>4. ((-v) * 2 - 1) % Word = (-v) * 2 - 1
      BY <1>2, <2>3, ModSmall
    <2>5. EncodeZigzag(v) = (-v) * 2 - 1
      BY <1>3, <2>2, <2>4 DEF EncodeZigzag
    <2>6. ((-v) * 2 - 1) % 2 = 1 /\ ((-v) * 2 - 1) \div 2 = (-v) - 1
      BY <1>2, <1>3
    <2> QED
      BY <1>2, <2>3, <2>5, <2>6 DEF DecodeZigzag
  <1>4. CASE ~(v < 0)
    <2>1. v * 2 \in 0..(Word - 1)
      BY <1>1, <1>2, <1>4
    <2>2. (v * 2) % Word = v * 2
      BY <1>2, <2>1, ModSmall
    <2>3. EncodeZigzag(v) = v * 2
      BY <1>4, <2>2 DEF EncodeZigzag
    <2>4. (v * 2) % 2 = 0 /\ (v * 2) \div 2 = v
      BY <1>2, <1>4
    <2> QED
      BY <2>1, <2>3, <2>4 DEF DecodeZigzag
  <1> QED
    BY <1>3, <1>4

\* A function on 1..n is a sequence of n elements.
LEMMA FunctionIsSeq ==
    ASSUME NEW n \in Nat, NEW E, NEW f \in [1..n -> E]
    PROVE  f \in Seq(E) /\ Len(f) = n /\ DOMAIN f = 1..n
  OBVIOUS

\* byteswap() twice is nothing.
LEMMA SwapTwice ==
    ASSUME NEW s \in Seq(Int)
    PROVE  /\ ByteSwap(s) \in Seq(Int) /\ Len(ByteSwap(s)) = Len(s)
           /\ ByteSwap(ByteSwap(s)) = s
  <1>1. PICK n \in Nat : n = Len(s) /\ DOMAIN s = 1..n /\ s \in [1..n -> Int]
    <2>1. Len(s) \in Nat /\ DOMAIN s = 1..Len(s) /\ s \in [1..Len(s) -> Int]
      BY LenProperties
    <2> QED
      BY <2>1
  <1>2. \A i \in 1..n : n + 1 - i \in 1..n /\ n + 1 - (n + 1 - i) = i
    OBVIOUS
  <1>3. PICK t : t = ByteSwap(s)
    OBVIOUS
  <1>4. t = [i \in 1..n |-> s[n + 1 - i]]
    BY <1>1, <1>3 DEF ByteSwap
  <1>5. t \in [1..n -> Int]
    BY <1>1, <1>2, <1>4
  <1>6. t \in Seq(Int) /\ Len(t) = n /\ DOMAIN t = 1..n
    BY <1>5
  <1>7. ByteSwap(t) = [i \in 1..n |-> t[n + 1 - i]]
    BY <1>6 DEF ByteSwap
  <1>8. \A i \in 1..n : t[n + 1 - i] = s[i]
    <2>1. ASSUME NEW i \in 1..n PROVE t[n + 1 - i] = s[i]
      <3>1. PICK j \in 1..n : j = n + 1 - i /\ n + 1 - j = i
        BY <1>2
      <3>2. t[j] = s[n + 1 - j]
        BY <1>4
      <3> QED
        BY <3>1, <3>2
    <2> QED
      BY <2>1
  <1>9. ByteSwap(t) = s
    BY <1>1, <1>7, <1>8
  <1> QED
    BY <1>1, <1>3, <1>6, <1>9

\* The k lowest bytes of v, lowest first.
Little(k, v) == [i \in 1..k |-> (v \div Power(Radix, i - 1)) % Radix]

\* What is written in either byte order is read in the same order as the digits.
LEMMA OrderIsKept ==
    ASSUME NEW k, NEW v, NEW endian, Little(k, v) \in Seq(Int)
    PROVE  /\ Fixed(k, v, endian) \in Seq(Int) /\ Len(Fixed(k, v, endian)) = Len(Little(k, v))
           /\ FixedValue(Fixed(k, v, endian), endian) = Number(Little(k, v), Radix)
  <1>0. PICK little \in Seq(Int) : little = Little(k, v)
    OBVIOUS
  <1>1. PICK native : native = IF Host = "little" THEN little ELSE ByteSwap(little)
    OBVIOUS
  <1>2. /\ native \in Seq(Int) /\ Len(native) = Len(little)
        /\ (IF Host = "little" THEN native ELSE ByteSwap(native)) = little
    BY <1>1, SwapTwice
  <1>3. PICK f : f = IF endian = Host THEN native ELSE ByteSwap(native)
    OBVIOUS
  <1>4. /\ f \in Seq(Int) /\ Len(f) = Len(little)
        /\ (IF endian = Host THEN f ELSE ByteSwap(f)) = native
    BY <1>2, <1>3, SwapTwice
  <1>5. Fixed(k, v, endian) = f
    BY <1>0, <1>1, <1>3, Zenon DEF Fixed, Little
  <1>6. FixedValue(f, endian) = Number(little, Radix)
    BY <1>2, <1>4, Zenon DEF FixedValue
  <1> QED
    BY <1>0, <1>4, <1>5, <1>6

\* One byte.
LEMMA ByteIsExact ==
    ASSUME NEW x \in Int, NEW endian
    PROVE  FixedValue(<<x>>, endian) = x
  <1>1. ByteSwap(<<x>>) = <<x>>
    <2>1. PICK s : s = <<x>> /\ DOMAIN s = 1..1 /\ Len(s) = 1 /\ s[1] = x
      <3>1. DOMAIN <<x>> = 1..1 /\ Len(<<x>>) = 1 /\ <<x>>[1] = x
        OBVIOUS
      <3> QED
        BY <3>1, Zenon
    <2>2. ByteSwap(s) = [i \in 1..1 |-> x]
      BY <2>1 DEF ByteSwap
    <2>3. [i \in 1..1 |-> x] = <<x>>
      OBVIOUS
    <2> QED
      BY <2>1, <2>2, <2>3
  <1>2. Number(<<x>>, Radix) = x
    BY Widths, NumberOne
  <1> QED
    BY <1>1, <1>2, Zenon DEF FixedValue

\* Two bytes.
LEMMA FixedIsExact ==
    ASSUME NEW v \in 0..(Radix * Radix - 1), NEW endian
    PROVE  /\ Fixed(2, v, endian) \in Seq(Int) /\ Len(Fixed(2, v, endian)) = 2
           /\ FixedValue(Fixed(2, v, endian), endian) = v
  <1>1. PICK R \in Nat \ {0} : R = Radix
    BY Widths
  <1>2. v \in Nat /\ v < R * R
    <2>1. PICK p \in Int : p = R * R
      BY <1>1
    <2> QED
      BY <1>1, <2>1
  <1>3. Power(Radix, 0) = 1 /\ Power(Radix, 1) = R
    <2>1. Power(R, 0) = 1 /\ Power(R, 0 + 1) = R * Power(R, 0)
      <3>1. R \in Int /\ 0 \in Nat
        OBVIOUS
      <3> QED
        BY <3>1, Powers, Zenon
    <2>2. 0 + 1 = 1 /\ R * 1 = R
      OBVIOUS
    <2> QED
      BY <1>1, <2>1, <2>2
  <1>4. PICK q \in Nat, r \in 0..(R - 1) : q = v \div R /\ r = v % R /\ v = R * q + r
    BY <1>2, DivMod
  <1>5. q < R
    BY <1>1, <1>2, <1>4, DivLess
  <1>6. (v \div 1) % R = r /\ q % R = q
    <2>1. v \div 1 = v
      BY <1>2
    <2>2. q \in 0..(R - 1)
      BY <1>5
    <2> QED
      BY <1>4, <2>1, <2>2, ModSmall
  <1>7. PICK d : d = [i \in 1..2 |-> (v \div Power(Radix, i - 1)) % Radix] /\ d = Little(2, v)
    BY DEF Little
  <1>8. d[1] = r /\ d[2] = q /\ d \in [1..2 -> Int]
    <2>1. 1 - 1 = 0 /\ 2 - 1 = 1
      OBVIOUS
    <2>2. d[1] = (v \div Power(Radix, 1 - 1)) % Radix /\ d[2] = (v \div Power(Radix, 2 - 1)) % Radix
      BY <1>7
    <2>3. d[1] = r /\ d[2] = q
      BY <1>1, <1>3, <1>4, <1>6, <2>1, <2>2
    <2>4. d = [i \in 1..2 |-> d[i]]
      BY <1>7
    <2>5. \A i \in 1..2 : i = 1 \/ i = 2
      OBVIOUS
    <2>6. \A i \in 1..2 : d[i] \in Int
      BY <2>3, <2>5
    <2> QED
      BY <2>3, <2>4, <2>6
  <1>9. d \in Seq(Int) /\ Len(d) = 2
    <2>1. 2 \in Nat
      OBVIOUS
    <2> QED
      BY <1>8, <2>1, FunctionIsSeq, Zenon
  <1>10. Number(d, R) = r + R * q
    <2>1. PICK e : e = <<q>> /\ Len(e) = 1 /\ e[1] = q
      <3>1. Len(<<q>>) = 1 /\ <<q>>[1] = q
        OBVIOUS
      <3> QED
        BY <3>1, Zenon
    <2>2. OneMore(d, e)
      <3>1. \A i \in 1..1 : e[i] \in Int /\ d[i + 1] = e[i]
        BY <1>8, <2>1
      <3> QED
        BY <1>8, <1>9, <2>1, <3>1 DEF OneMore
    <2>3. Number(e, R) = q
      BY <2>1, NumberOne
    <2>4. Number(d, R) = d[1] + R * Number(e, R)
      <3>1. R \in Int
        OBVIOUS
      <3> QED
        BY <2>2, <3>1, NumberFirst, Zenon
    <2> QED
      BY <1>8, <2>3, <2>4
  <1>11. r + R * q = v
    <2>1. PICK p \in Int : p = R * q
      BY <1>1
    <2> QED
      BY <1>4, <2>1
  <1> QED
    <2>1. /\ Fixed(2, v, endian) \in Seq(Int) /\ Len(Fixed(2, v, endian)) = Len(d)
          /\ FixedValue(Fixed(2, v, endian), endian) = Number(d, Radix)
      <3>1. PICK x : x = Little(2, v) /\ x = d
        BY <1>7, Zenon
      <3>2. Little(2, v) \in Seq(Int)
        BY <1>9, <3>1, Zenon
      <3>3. /\ Fixed(2, v, endian) \in Seq(Int) /\ Len(Fixed(2, v, endian)) = Len(Little(2, v))
            /\ FixedValue(Fixed(2, v, endian), endian) = Number(Little(2, v), Radix)
        BY <3>2, OrderIsKept, Zenon
      <3> QED
        BY <3>1, <3>3, Zenon
    <2> QED
      BY <1>1, <1>9, <1>10, <1>11, <2>1, Zenon

\* For every width of a group and of a word, on hosts of both byte orders, the encodings
\* lose nothing and a varint fits into its writer's array.
THEOREM CodecIsAlwaysExact == Spec => []CodecIsExact
  <1>1. CodecIsExact
    <2>1. ASSUME NEW v \in 0..(Word - 1)
          PROVE  LET bytes == Varint(v)
                 IN  /\ Len(bytes) <= Groups /\ VarintEnds(bytes) = {Len(bytes)}
                     /\ VarintValue(bytes) = v
      <3>1. Len(Varint(v)) \in 1..Groups /\ Groups \in Nat
        BY VarintIsExact, Widths
      <3>2. Len(Varint(v)) <= Groups
        BY <3>1
      <3> QED
        BY <3>2, VarintIsExact
    <2> QED
      BY <2>1, ZigzagIsExact, FixedIsExact, Zenon DEF CodecIsExact
  <1> QED
    BY <1>1, PTL
-----------------------------------------------------------------------------
(* What was written reads back *)

\* The bytes of the record r of the tape are in the array, and inside of the data.
OnTape(r) ==
    LET bytes == Encode(r.ty, r.v, r.endian)
    IN  /\ Fits(r.ty, r.v) /\ bytes \in Seq(Int)
        /\ r.at \in Nat /\ r.end = r.at + Len(bytes) /\ r.end <= m_size
        /\ \A i \in 1..Len(bytes) : Array[r.at + i] = bytes[i]

\* Every record of the tape is in the array: what the proof of ReadsBack adds to Shape.
TapeHolds == \A r \in tape : OnTape(r)

\* A step that leaves the bytes of a record alone leaves it on the tape.
LEMMA StaysOnTape ==
    ASSUME NEW r, OnTape(r), m_size \in Nat, m_size' \in Nat, m_size <= m_size',
           \A i \in 1..m_size : i > r.at /\ i <= r.end => Array'[i] = Array[i]
    PROVE  OnTape(r)'
  <1> DEFINE bytes == Encode(r.ty, r.v, r.endian)
  <1>1. /\ Fits(r.ty, r.v) /\ bytes \in Seq(Int)
        /\ r.at \in Nat /\ r.end = r.at + Len(bytes) /\ r.end <= m_size
        /\ \A i \in 1..Len(bytes) : Array[r.at + i] = bytes[i]
    BY DEF OnTape
  <1> HIDE DEF bytes
  <1>2. Len(bytes) \in Nat
    BY <1>1, LenProperties
  <1>3. r.end <= m_size'
    BY <1>1, <1>2
  <1>4. ASSUME NEW i \in 1..Len(bytes) PROVE Array'[r.at + i] = bytes[i]
    <2>1. r.at + i \in 1..m_size /\ r.at + i > r.at /\ r.at + i <= r.end
      BY <1>1, <1>2
    <2>2. Array'[r.at + i] = Array[r.at + i]
      BY <2>1, Zenon
    <2> QED
      BY <2>2, <1>1
  <1> QED
    BY <1>1, <1>3, <1>4 DEF OnTape, bytes

\* A write puts its item on the tape and takes those off it that it overwrites.
LEMMA WriteKeepsTape ==
    ASSUME Shape, EndianOK, TapeHolds, NEW item \in Items, Write(item[1], item[2]), Shape'
    PROVE  TapeHolds'
  <1> DEFINE bytes == Encode(item[1], item[2], m_endian)
             newest == [ty |-> item[1], v |-> item[2], endian |-> m_endian,
                        at |-> m_position, end |-> m_position']
  <1>1. bytes \in Seq(Int) /\ Fits(item[1], item[2])
    <2>1. m_endian \in {"little", "big"}
      BY DEF EndianOK
    <2> QED
      BY <2>1, ItemsAssumption, FitAssumption
  <1>2. Len(bytes) \in Nat
    BY <1>1, LenProperties
  <1>3. io'.arg = bytes
    BY DEF Write, Call
  <1>4. Flat!Write
    BY WriteIsFlat
  <1>5. /\ m_position' = m_position + Len(bytes)
        /\ m_size' = IF m_position' > m_size THEN m_position' ELSE m_size
        /\ \A i \in 1..Len(bytes) : Array'[m_position + i] = bytes[i]
        /\ \A i \in 1..Len(Array) : i <= m_position \/ i > m_position' => Array'[i] = Array[i]
    <2> HIDE DEF bytes
    <2> QED
      BY <1>3, <1>4 DEF Flat!Write, Array, ArrayOf
  <1>6. /\ m_position \in Nat /\ m_size \in Nat /\ m_size <= m_capacity /\ m_capacity \in Nat
        /\ Len(Array) = m_capacity
    BY ShapeFacts, ArrayShape
  <1>7. m_position' \in Nat /\ m_size' \in Nat /\ m_size <= m_size' /\ m_position' <= m_size'
    <2> HIDE DEF bytes
    <2> QED
      BY <1>2, <1>5, <1>6
  <1>8. ASSUME NEW r \in tape, r.end <= m_position \/ r.at >= m_position'
        PROVE  OnTape(r)'
    <2>1. OnTape(r)
      BY DEF TapeHolds
    <2>2. r.at \in Nat /\ r.end \in Nat
      <3> DEFINE enc == Encode(r.ty, r.v, r.endian)
      <3>1. enc \in Seq(Int) /\ r.at \in Nat /\ r.end = r.at + Len(enc)
        BY <2>1 DEF OnTape
      <3> HIDE DEF enc
      <3>2. Len(enc) \in Nat
        BY <3>1, LenProperties
      <3> QED
        BY <3>1, <3>2
    <2>3. ASSUME NEW i \in 1..m_size, i > r.at, i <= r.end PROVE Array'[i] = Array[i]
      <3>1. i \in 1..Len(Array) /\ (i <= m_position \/ i > m_position')
        BY <2>3, <2>2, <1>6, <1>7, <1>8
      <3> QED
        BY <3>1, <1>5
    <2> QED
      BY <2>1, <2>3, <1>6, <1>7, StaysOnTape
  <1>9. ASSUME NEW r, r = newest PROVE OnTape(r)'
    <2>1. /\ r.ty = item[1] /\ r.v = item[2] /\ r.endian = m_endian
          /\ r.at = m_position /\ r.end = m_position'
      BY <1>9
    <2>2. Encode(r.ty, r.v, r.endian) = bytes /\ Fits(r.ty, r.v)
      BY <2>1, <1>1
    <2> HIDE DEF newest, bytes
    <2> QED
      BY <2>1, <2>2, <1>1, <1>5, <1>6, <1>7 DEF OnTape
  <1>10. \A r \in tape' : r = newest \/ (r \in tape /\ (r.end <= m_position \/ r.at >= m_position'))
                          \/ (bytes = <<>> /\ r \in tape)
    <2> HIDE DEF bytes
    <2> QED
      BY DEF Write, bytes
  <1>11. ASSUME bytes = <<>>, NEW r \in tape PROVE OnTape(r)'
    <2>1. Array' = Array /\ m_size' = m_size
      BY <1>11 DEF Write, Array, Put
    <2> QED
      BY <2>1, <1>6, StaysOnTape DEF TapeHolds
  <1> HIDE DEF bytes, newest
  <1> QED
    BY <1>8, <1>9, <1>10, <1>11 DEF TapeHolds

\* What was written and not overwritten stays in the array.
LEMMA TapeAlwaysHolds == Spec => [](Shape /\ EndianOK /\ TapeHolds)
  <1>1. Init => TapeHolds
    BY DEF Init, TapeHolds
  <1>2. Shape /\ EndianOK /\ TapeHolds /\ [Next]_vars /\ Shape' => TapeHolds'
    <2> SUFFICES ASSUME Shape, EndianOK, TapeHolds, [Next]_vars, Shape' PROVE TapeHolds'
      OBVIOUS
    <2>1. /\ m_size \in Nat /\ m_size' \in Nat /\ m_size <= m_capacity /\ m_capacity \in Nat
          /\ Len(Array) = m_capacity
      BY ShapeFacts, ArrayShape DEF Shape
    <2>2. ASSUME tape' = tape, m_size <= m_size',
                 \A i \in 1..m_size : Array'[i] = Array[i]
          PROVE  TapeHolds'
      BY <2>1, <2>2, StaysOnTape DEF TapeHolds
    <2>3. ASSUME NEW ty \in Types, Read(ty) PROVE TapeHolds'
      <3>1. tape' = tape /\ m_size' = m_size /\ Array' = Array
        BY <2>3 DEF Read, Array
      <3> QED
        BY <3>1, <2>1, <2>2
    <2>4. ASSUME NEW n \in Nat, GetWriteBuffers(n) PROVE TapeHolds'
      <3>1. tape' = tape /\ m_size' = m_size
        BY <2>4 DEF GetWriteBuffers
      <3>2. \A i \in 1..Len(Array) : Array'[i] = Array[i]
        BY <2>4, ReserveIsFlat DEF Flat!Reserve, Array, ArrayOf
      <3>3. \A i \in 1..m_size : Array'[i] = Array[i]
        BY <3>2, <2>1
      <3> QED
        BY <3>1, <3>3, <2>1, <2>2
    <2>5. ASSUME NEW v \in Nat, SetPosition(v) PROVE TapeHolds'
      <3>1. tape' = tape /\ Array' = Array /\ m_size <= m_size'
        BY <2>5, <2>1 DEF SetPosition, Array
      <3> QED
        BY <3>1, <2>1, <2>2
    <2>6. CASE Clear
      BY <2>6 DEF Clear, TapeHolds
    <2>7. ASSUME NEW val \in BOOLEAN, SetIsLittleEndian(val) PROVE TapeHolds'
      <3>1. tape' = tape /\ m_size' = m_size /\ Array' = Array
        BY <2>7 DEF SetIsLittleEndian, Array
      <3> QED
        BY <3>1, <2>1, <2>2
    <2>8. CASE UNCHANGED vars
      <3>1. tape' = tape /\ m_size' = m_size /\ Array' = Array
        BY <2>8 DEF vars, Array
      <3> QED
        BY <3>1, <2>1, <2>2
    <2>9. Lengths \subseteq Nat
      BY ByteArrayAssumption
    <2> QED
      BY <2>3, <2>4, <2>5, <2>6, <2>7, <2>8, <2>9, WriteKeepsTape DEF Next
  <1> QED
    BY <1>1, <1>2, ShapeHolds, PTL DEF Spec

\* The bytes at the position are what the copy loops give.
LEMMA AtCurIs ==
    ASSUME Shape, NEW s \in Seq(Int), Len(s) <= GetReadSize,
           \A i \in 1..Len(s) : Array[m_position + i] = s[i]
    PROVE  AtCur(Len(s)) = s
  <1>1. Len(s) \in Nat
    BY LenProperties
  <1>2. AtCur(Len(s)) = [i \in 1..Len(s) |-> Array[m_position + i]]
    BY <1>1, CopyIsSlice
  <1>3. s = [i \in 1..Len(s) |-> s[i]]
    BY LenProperties
  <1> QED
    BY <1>2, <1>3

\* s is the bytes of a number as a reader of type ty takes them from a stream.
HeadOf(ty, s) ==
    /\ s \in Seq(Int)
    /\ ty \in {"uint32", "int32", "stringVint"} =>
           /\ Len(s) \in 1..Groups
           /\ \A i \in 1..Len(s) : s[i] < Half <=> i = Len(s)
    /\ ty = "fuint8" => Len(s) = 1
    /\ ty \in {"fuint16", "stringF16"} => Len(s) = 2

\* Where these bytes are, they are the ones the reader begins with.
LEMMA HeadIsFound ==
    ASSUME Shape, NEW ty \in Types, NEW s, HeadOf(ty, s), Len(s) <= GetReadSize,
           \A i \in 1..Len(s) : Array[m_position + i] = s[i]
    PROVE  Heads(ty) = {s}
  <1>1. s \in Seq(Int) /\ Len(s) \in Nat
    BY LenProperties DEF HeadOf
  <1>2. AtCur(Len(s)) = s
    BY <1>1, AtCurIs
  <1>3. CASE ty \notin {"uint32", "int32", "stringVint"}
    <2>1. Len(s) = IF ty = "fuint8" THEN 1 ELSE 2
      BY <1>3 DEF HeadOf, Types
    <2>2. GetReadSize \in Nat
      BY ShapeFacts DEF GetReadSize
    <2> QED
      BY <2>1, <2>2, <1>2, <1>3 DEF Heads
  <1>4. CASE ty \in {"uint32", "int32", "stringVint"}
    <2> DEFINE L == Len(s)
               a == AtCur(GetReadSize)
               ends == VarintEnds(a)
               first == {e \in ends : \A f \in ends : e <= f}
    <2>1. GetReadSize \in Nat /\ Groups \in Nat
      BY ShapeFacts, Widths DEF GetReadSize
    <2>2. a = [i \in 1..GetReadSize |-> Array[m_position + i]]
      BY <2>1, CopyIsSlice
    <2>3. /\ L \in 1..Groups /\ L \in 1..GetReadSize
          /\ \A i \in 1..L : s[i] < Half <=> i = L
      BY <1>4, <2>1 DEF HeadOf
    <2>4. ends = {i \in 1..GetReadSize : i = Groups \/ Array[m_position + i] < Half}
      <3> HIDE DEF a
      <3> QED
        BY <2>2 DEF VarintEnds
    <2> HIDE DEF L, a, ends
    <2>5. L \in ends
      <3>1. Array[m_position + L] = s[L] /\ s[L] < Half
        BY <2>3 DEF L
      <3> QED
        BY <3>1, <2>3, <2>4
    <2>6. ASSUME NEW f \in ends PROVE f \in Nat /\ L <= f
      <3>1. f \in 1..GetReadSize /\ (f = Groups \/ Array[m_position + f] < Half)
        BY <2>4
      <3>2. CASE f < L
        <4>1. f \in 1..Len(s) /\ f # Groups /\ f # L
          BY <3>1, <3>2, <2>1, <2>3 DEF L
        <4>2. s[f] < Half
          BY <4>1, <3>1
        <4> QED
          BY <4>1, <4>2, <2>3 DEF L
      <3> QED
        BY <3>1, <3>2, <2>1, <2>3
    <2>7. first = {L}
      <3>1. L \in first
        BY <2>5, <2>6
      <3>2. ASSUME NEW e \in first PROVE e = L
        <4>1. e \in ends /\ e <= L
          BY <2>5
        <4>2. e \in Nat /\ L <= e
          BY <4>1, <2>6
        <4>3. L \in Nat
          BY <2>5, <2>6
        <4> HIDE DEF first
        <4> QED
          BY <4>1, <4>2, <4>3
      <3> HIDE DEF first
      <3> QED
        BY <3>1, <3>2
    <2>8. Heads(ty) = {AtCur(i) : i \in first}
      BY <1>4 DEF Heads, ends, a
    <2> HIDE DEF first
    <2> QED
      BY <2>7, <2>8, <1>2 DEF L
  <1> QED
    BY <1>3, <1>4

\* The number a reader of type ty makes of the bytes s.
ValueOf(ty, s) ==
    CASE ty \in {"uint32", "stringVint"} -> VarintValue(s)
      [] ty = "int32"                    -> DecodeZigzag(VarintValue(s))
      [] OTHER                           -> FixedValue(s, m_endian)

\* A reader of a number that finds its bytes returns it.
LEMMA NumberIsRead ==
    ASSUME NEW ty \in Types, ty \notin {"stringF16", "stringVint"}, NEW s, NEW x,
           Heads(ty) = {s}, ValueOf(ty, s) = x, Read(ty)
    PROVE  ~io'.thrown /\ io'.val = <<x>> /\ m_position' = m_position + Len(s)
  <1>1. ReadNumber(ty)
    BY DEF Read, ReadHeadThrows, ReadString
  <1>2. /\ Move(Len(s))
        /\ Call("read", <<Len(s)>>, s, <<CASE ty = "uint32" -> VarintValue(s)
                                           [] ty = "int32"  -> DecodeZigzag(VarintValue(s))
                                           [] OTHER         -> FixedValue(s, m_endian)>>)
    BY <1>1 DEF ReadNumber
  <1>3. (CASE ty = "uint32" -> VarintValue(s)
           [] ty = "int32"  -> DecodeZigzag(VarintValue(s))
           [] OTHER         -> FixedValue(s, m_endian)) = x
    BY DEF ValueOf, Types
  <1>4. Call("read", <<Len(s)>>, s, <<x>>)
    BY <1>2, <1>3
  <1> QED
    BY <1>2, <1>4 DEF Call, Move

\* A reader of a string that finds its length and its bytes returns it.
LEMMA StringIsRead ==
    ASSUME NEW ty \in {"stringF16", "stringVint"}, NEW s \in Seq(Int), NEW v \in Seq(Int),
           Heads(ty) = {s}, ValueOf(ty, s) = Len(v), GetReadSize \in Nat,
           Len(s) + Len(v) <= GetReadSize, AtCur(Len(s) + Len(v)) = s \o v,
           Read(ty), ~failed'
    PROVE  ~io'.thrown /\ io'.val = v /\ m_position' = m_position + (Len(s) + Len(v))
  <1>1. PICK h \in Nat, n \in Nat : h = Len(s) /\ n = Len(v)
    BY LenProperties
  <1>2. ReadString(ty)
    BY DEF Read, ReadHeadThrows, ReadNumber
  <1>3. (IF ty = "stringF16" THEN FixedValue(s, m_endian) ELSE VarintValue(s)) = n
    BY <1>1 DEF ValueOf
  <1>4. \/ n > GetReadSize - h
        \/ Move(h + n) /\ Call("read", <<h + n>>, AtCur(h + n), SubSeq(AtCur(h + n), h + 1, h + n))
        \/ NullNode("read", <<h>>)
    BY <1>1, <1>2, <1>3 DEF ReadString
  <1>5. ~(n > GetReadSize - h) /\ ~NullNode("read", <<h>>)
    BY <1>1 DEF NullNode
  <1>6. Move(h + n) /\ Call("read", <<h + n>>, s \o v, SubSeq(s \o v, h + 1, h + n))
    BY <1>1, <1>4, <1>5
  <1>7. SubSeq(s \o v, h + 1, h + n) = v
    <2>1. PICK t \in Seq(Int) : t = s \o v
      BY ConcatProperties
    <2>2. Len(t) = h + n /\ \A i \in 1..n : t[h + i] = v[i]
      BY <2>1, <1>1, ConcatProperties
    <2>3. SubSeq(t, h + 1, h + n) = [i \in 1..n |-> t[h + i]]
      BY <2>1, <2>2, <1>1
    <2>4. v = [i \in 1..n |-> v[i]]
      BY <1>1, LenProperties
    <2> QED
      BY <2>1, <2>2, <2>3, <2>4
  <1>8. Call("read", <<h + n>>, s \o v, v)
    BY <1>6, <1>7
  <1>9. ~io'.thrown /\ io'.val = v
    BY <1>8, Zenon DEF Call
  <1> QED
    BY <1>1, <1>6, <1>9 DEF Move

\* A sequence of one number.
LEMMA OneNumber ==
    ASSUME NEW v \in Seq(Int), Len(v) = 1 PROVE v = <<v[1]>> /\ v[1] \in Int
  OBVIOUS

\* What an item's encoding begins with, and what its reader makes of that.
LEMMA NumberHasHead ==
    ASSUME NEW ty \in Types, ty \notin {"stringF16", "stringVint"}, NEW v, Fits(ty, v)
    PROVE  LET s == Encode(ty, v, m_endian)
           IN  HeadOf(ty, s) /\ ValueOf(ty, s) = v[1] /\ v = <<v[1]>>
  <1>0. v = <<v[1]>> /\ v[1] \in Int
    BY OneNumber DEF Fits, Types
  <1>1. CASE ty = "fuint8"
    <2>1. Encode(ty, v, m_endian) = <<v[1]>>
      BY <1>1 DEF Encode
    <2>2. FixedValue(<<v[1]>>, m_endian) = v[1]
      BY <1>0, ByteIsExact
    <2>3. PICK s \in Seq(Int) : s = <<v[1]>> /\ Len(s) = 1
      <3>1. ASSUME NEW x \in Int PROVE <<x>> \in Seq(Int) /\ Len(<<x>>) = 1
        OBVIOUS
      <3>2. <<v[1]>> \in Seq(Int) /\ Len(<<v[1]>>) = 1
        BY <3>1, <1>0, Zenon
      <3> QED
        BY <3>2, Zenon
    <2>4. HeadOf(ty, s) /\ ValueOf(ty, s) = v[1]
      BY <1>1, <2>2, <2>3 DEF HeadOf, ValueOf
    <2> QED
      BY <1>0, <2>1, <2>3, <2>4, Zenon
  <1>2. CASE ty = "fuint16"
    <2>1. Encode(ty, v, m_endian) = Fixed(2, v[1], m_endian)
      BY <1>2 DEF Encode
    <2>2. v[1] \in 0..(Radix * Radix - 1)
      BY <1>2 DEF Fits
    <2>3. PICK s \in Seq(Int) : s = Fixed(2, v[1], m_endian) /\ Len(s) = 2
                                /\ FixedValue(s, m_endian) = v[1]
      BY <2>2, FixedIsExact, Zenon
    <2> QED
      BY <1>0, <1>2, <2>1, <2>3 DEF HeadOf, ValueOf
  <1>3. CASE ty = "uint32"
    <2>1. Encode(ty, v, m_endian) = Varint(v[1])
      BY <1>3 DEF Encode
    <2>2. v[1] \in 0..(Word - 1)
      BY <1>3 DEF Fits
    <2>3. PICK s \in Seq(Nat) : /\ s = Varint(v[1]) /\ Len(s) \in 1..Groups
                                /\ \A i \in 1..Len(s) : s[i] < Half <=> i = Len(s)
                                /\ VarintValue(s) = v[1]
      BY <2>2, VarintIsExact, Zenon
    <2> QED
      BY <1>0, <1>3, <2>1, <2>3 DEF HeadOf, ValueOf
  <1>4. CASE ty = "int32"
    <2>1. Encode(ty, v, m_endian) = Varint(EncodeZigzag(v[1]))
      BY <1>4 DEF Encode
    <2>2. v[1] \in (- Power(2, VarBits - 1))..(Power(2, VarBits - 1) - 1)
      BY <1>4 DEF Fits
    <2>3. PICK u \in 0..(Word - 1) : u = EncodeZigzag(v[1]) /\ DecodeZigzag(u) = v[1]
      BY <2>2, ZigzagIsExact, Zenon
    <2>4. PICK s \in Seq(Nat) : /\ s = Varint(u) /\ Len(s) \in 1..Groups
                                /\ \A i \in 1..Len(s) : s[i] < Half <=> i = Len(s)
                                /\ VarintValue(s) = u
      BY VarintIsExact, Zenon
    <2> QED
      BY <1>0, <1>4, <2>1, <2>3, <2>4 DEF HeadOf, ValueOf
  <1> QED
    BY <1>1, <1>2, <1>3, <1>4 DEF Types

\* The same of a string: its length comes first.
LEMMA StringHasHead ==
    ASSUME NEW ty \in {"stringF16", "stringVint"}, NEW v, Fits(ty, v)
    PROVE  \E s : /\ HeadOf(ty, s) /\ ValueOf(ty, s) = Len(v) /\ v \in Seq(Int)
                  /\ Encode(ty, v, m_endian) = s \o v
  <1>0. v \in Seq(Int) /\ Len(v) \in Nat
    BY LenProperties DEF Fits
  <1>1. CASE ty = "stringF16"
    <2>1. Encode(ty, v, m_endian) = Fixed(2, Len(v), m_endian) \o v
      BY <1>1 DEF Encode
    <2>2. Len(v) \in 0..(Radix * Radix - 1)
      <3>1. Radix * Radix \in Int
        BY Widths
      <3> QED
        BY <3>1, <1>0, <1>1 DEF Fits
    <2>3. PICK s \in Seq(Int) : s = Fixed(2, Len(v), m_endian) /\ Len(s) = 2
                                /\ FixedValue(s, m_endian) = Len(v)
      BY <2>2, FixedIsExact, Zenon
    <2>4. HeadOf(ty, s) /\ ValueOf(ty, s) = Len(v)
      BY <1>1, <2>3 DEF HeadOf, ValueOf
    <2> QED
      BY <1>0, <2>1, <2>3, <2>4, Zenon
  <1>2. CASE ty = "stringVint"
    <2>1. Encode(ty, v, m_endian) = Varint(Len(v)) \o v
      BY <1>2 DEF Encode
    <2>2. Len(v) \in 0..(Word - 1)
      <3>1. Word \in Int
        BY Widths
      <3> QED
        BY <3>1, <1>0, <1>2 DEF Fits
    <2>3. PICK s \in Seq(Nat) : /\ s = Varint(Len(v)) /\ Len(s) \in 1..Groups
                                /\ \A i \in 1..Len(s) : s[i] < Half <=> i = Len(s)
                                /\ VarintValue(s) = Len(v)
      BY <2>2, VarintIsExact, Zenon
    <2>4. HeadOf(ty, s) /\ ValueOf(ty, s) = Len(v)
      BY <1>2, <2>3 DEF HeadOf, ValueOf
    <2> QED
      BY <1>0, <2>1, <2>3, <2>4, Zenon
  <1> QED
    BY <1>1, <1>2

\* A read of its type at the place of a record returns the item.
LEMMA ItemIsRead ==
    ASSUME Shape, NEW r, OnTape(r), r.ty \in Types,
           m_position = r.at, m_endian = r.endian, Read(r.ty), ~failed'
    PROVE  ~io'.thrown /\ io'.val = r.v /\ m_position' = r.end
  <1>1. PICK ty, v : ty = r.ty /\ v = r.v
    OBVIOUS
  <1>2. PICK bytes : bytes = Encode(ty, v, m_endian)
    OBVIOUS
  <1>3. /\ ty \in Types /\ ty = r.ty /\ v = r.v /\ bytes = Encode(ty, v, m_endian)
        /\ Fits(ty, v) /\ bytes \in Seq(Int)
        /\ r.end = m_position + Len(bytes) /\ r.end <= m_size
        /\ \A i \in 1..Len(bytes) : Array[m_position + i] = bytes[i]
    <2>1. /\ Encode(r.ty, r.v, r.endian) \in Seq(Int) /\ Fits(r.ty, r.v)
          /\ r.end = r.at + Len(Encode(r.ty, r.v, r.endian)) /\ r.end <= m_size
          /\ \A i \in 1..Len(Encode(r.ty, r.v, r.endian)) :
                 Array[r.at + i] = Encode(r.ty, r.v, r.endian)[i]
      BY Zenon DEF OnTape
    <2>2. bytes = Encode(r.ty, r.v, r.endian)
      BY <1>1, <1>2
    <2> QED
      BY <2>1, <2>2, <1>1, <1>2
  <1>4. PICK n \in Nat : n = Len(bytes)
    BY LenProperties
  <1>5. GetReadSize \in Nat /\ n <= GetReadSize
    <2>1. m_position \in Nat /\ m_size \in Nat /\ m_position <= m_size
      BY ShapeFacts
    <2> QED
      BY <2>1, <1>3, <1>4 DEF GetReadSize
  <1>6. Read(ty)
    BY <1>3
  <1>7. CASE ty \notin {"stringF16", "stringVint"}
    <2>1. HeadOf(ty, bytes) /\ ValueOf(ty, bytes) = v[1] /\ v = <<v[1]>>
      BY <1>3, <1>7, NumberHasHead
    <2>2. Heads(ty) = {bytes}
      BY <2>1, <1>3, <1>4, <1>5, HeadIsFound
    <2>3. ~io'.thrown /\ io'.val = <<v[1]>> /\ m_position' = m_position + Len(bytes)
      BY <2>1, <2>2, <1>3, <1>6, <1>7, NumberIsRead
    <2> QED
      BY <2>1, <2>3, <1>3, Zenon
  <1>8. CASE ty \in {"stringF16", "stringVint"}
    <2>1. PICK s : /\ HeadOf(ty, s) /\ ValueOf(ty, s) = Len(v) /\ v \in Seq(Int)
                   /\ bytes = s \o v
      <3>1. \E s : /\ HeadOf(ty, s) /\ ValueOf(ty, s) = Len(v) /\ v \in Seq(Int)
                   /\ Encode(ty, v, m_endian) = s \o v
        <4>1. Fits(ty, v)
          BY <1>3
        <4> QED
          BY <4>1, <1>8, StringHasHead, Zenon
      <3> QED
        BY <3>1, <1>3, Zenon
    <2>2. s \in Seq(Int)
      BY <2>1 DEF HeadOf
    <2>3. PICK h, l \in Nat : h = Len(s) /\ l = Len(v)
      BY <2>1, <2>2, LenProperties
    <2>4. n = h + l /\ \A i \in 1..h : bytes[i] = s[i]
      BY <2>1, <2>2, <2>3, <1>4, ConcatProperties
    <2>5. ASSUME NEW i \in 1..Len(s) PROVE Array[m_position + i] = s[i]
      <3>1. i \in 1..h /\ i \in 1..Len(bytes)
        BY <2>3, <2>4, <1>4
      <3> QED
        BY <3>1, <2>4, <1>3, Zenon
    <2>6. Len(s) <= GetReadSize
      BY <2>3, <2>4, <1>5
    <2>7. Heads(ty) = {s}
      BY <2>1, <2>5, <2>6, <1>3, HeadIsFound
    <2>8. AtCur(Len(bytes)) = bytes
      BY <1>3, <1>4, <1>5, AtCurIs
    <2>9. AtCur(Len(s) + Len(v)) = s \o v /\ Len(s) + Len(v) <= GetReadSize
          /\ Len(s) + Len(v) = Len(bytes)
      <3>1. Len(s) + Len(v) = Len(bytes)
        BY <2>3, <2>4, <1>4
      <3> QED
        BY <3>1, <2>1, <2>8, <1>4, <1>5, Zenon
    <2>10. ~io'.thrown /\ io'.val = v /\ m_position' = m_position + (Len(s) + Len(v))
      BY <2>1, <2>2, <2>7, <2>9, <1>5, <1>6, <1>8, StringIsRead
    <2> QED
      BY <2>9, <2>10, <1>3, Zenon
  <1> QED
    BY <1>7, <1>8

\* What was written and not overwritten is what a read of its type at its place
\* returns, for every block size, every width and every mixture of calls.
THEOREM WhatIsWrittenReadsBack == Spec => ReadsBack
  <1>1. Shape /\ TapeHolds =>
            \A r \in tape :
               \A ty \in Types \cap {r.ty} :
                   m_position = r.at /\ m_endian = r.endian /\ Read(ty) /\ ~failed' =>
                       ~io'.thrown /\ io'.val = r.v /\ m_position' = r.end
    <2> SUFFICES ASSUME Shape, TapeHolds, NEW r \in tape, NEW ty \in Types \cap {r.ty},
                        m_position = r.at, m_endian = r.endian, Read(ty), ~failed'
                 PROVE  ~io'.thrown /\ io'.val = r.v /\ m_position' = r.end
      BY Zenon
    <2>1. OnTape(r) /\ r.ty \in Types /\ Read(r.ty)
      BY Zenon DEF TapeHolds
    <2> QED
      BY <2>1, ItemIsRead
  <1> QED
    BY <1>1, TapeAlwaysHolds, PTL DEF ReadsBack
=============================================================================
