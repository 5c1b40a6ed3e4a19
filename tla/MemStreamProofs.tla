--------------------------- MODULE MemStreamProofs ---------------------------
(***************************************************************************)
(* Proofs about MemStream, for every chunk size, byte set and bound.       *)
(***************************************************************************)
EXTENDS MemStream, SequenceTheorems, WellFoundedInduction, TLAPS

(* Outside a Write nothing waits to be copied, a stream being written to is
   open, and a Read keeps its arguments and never has more than it was asked
   for. *)
CallShape ==
  /\ op = "write" <=> pbuff # <<>>
  /\ op = "write" => listBuffer # <<>>
  /\ op = "read" => req.length \in ReadLens /\ req.offset \in ReadOffsets
  /\ Len(out) <= req.length
  /\ pos < B

ShapeInv == TypeOK /\ ChunkShape /\ CallShape

-----------------------------------------------------------------------------
(* What Buffer::Appand leaves in a chunk that has room and in the caller's
   buffer: their concatenation is unchanged, and the loop advances. *)
LEMMA AppandSplits ==
  ASSUME NEW chunk \in Seq(Bytes), Len(chunk) < B,
         NEW data \in Seq(Bytes), data # <<>>
  PROVE  LET n == Amount(chunk, data)
         IN  /\ n \in 1 .. Len(data)
             /\ Appand(chunk, data) \in Seq(Bytes)
             /\ Len(Appand(chunk, data)) = Len(chunk) + n
             /\ Len(chunk) + n <= B
             /\ n < Len(data) => Len(chunk) + n = B
             /\ SubSeq(data, n + 1, Len(data)) \in Seq(Bytes)
             /\ Len(SubSeq(data, n + 1, Len(data))) = Len(data) - n
<1> DEFINE n == Amount(chunk, data)
<1>1. n \in 1 .. Len(data) /\ Len(chunk) + n <= B
      /\ (n < Len(data) => Len(chunk) + n = B)
  BY ChunkAssumption DEF Amount, Least
<1>2. SubSeq(data, 1, n) \in Seq(Bytes) /\ Len(SubSeq(data, 1, n)) = n
  BY <1>1
<1>3. /\ SubSeq(data, n + 1, Len(data)) \in Seq(Bytes)
      /\ Len(SubSeq(data, n + 1, Len(data))) = Len(data) - n
  BY <1>1
<1>4. QED BY <1>1, <1>2, <1>3 DEF Appand

(* One iteration of Write's loop on an open list of the right shape. *)
NextList(list, data) ==
  LET n     == Cnt(list)
      chunk == Appand(list[n], data)
      new   == [list EXCEPT ![n] = chunk]
  IN  IF B <= Len(chunk) THEN AddNewBuffer(new) ELSE new

Shaped(list) ==
  \A k \in 1 .. Cnt(list) :
    IF k < Cnt(list) THEN Len(list[k]) = B ELSE Len(list[k]) < B

(* What a Write iteration does to the list: the chunks before the last are
   untouched, the last one takes what fits, and a full one gets a successor. *)
LEMMA NextListShape ==
  ASSUME NEW list \in Seq(Seq(Bytes)), list # <<>>, Shaped(list),
         NEW data \in Seq(Bytes), data # <<>>
  PROVE  LET last == list[Cnt(list)]
             next == NextList(list, data)
         IN  /\ last \in Seq(Bytes) /\ Len(last) < B
             /\ next \in Seq(Seq(Bytes))
             /\ next # <<>>
             /\ Shaped(next)
             /\ \A k \in 1 .. Cnt(list) - 1 : next[k] = list[k]
             /\ next[Cnt(list)] = Appand(last, data)
             /\ Cnt(next) = IF Len(last) + Amount(last, data) = B
                            THEN Cnt(list) + 1 ELSE Cnt(list)
             /\ Cnt(next) > Cnt(list) => next[Cnt(next)] = <<>>
<1> DEFINE n     == Cnt(list)
           last  == list[n]
           chunk == Appand(last, data)
           new   == [list EXCEPT ![n] = chunk]
<1>1. n \in Nat \ {0} /\ last \in Seq(Bytes) /\ Len(last) < B
  <2>1. n \in Nat \ {0}
    BY EmptySeq DEF Cnt
  <2>2. last \in Seq(Bytes)
    BY <2>1, ElementOfSeq DEF Cnt
  <2>3. Len(list[n]) < B
    BY <2>1 DEF Shaped, Cnt
  <2>4. QED BY <2>1, <2>2, <2>3
<1>2. /\ chunk \in Seq(Bytes)
      /\ Len(chunk) = Len(last) + Amount(last, data)
      /\ Len(chunk) <= B
  BY <1>1, AppandSplits
<1>3. /\ new \in Seq(Seq(Bytes))
      /\ Len(new) = n
      /\ new[n] = chunk
      /\ \A k \in 1 .. n - 1 : new[k] = list[k]
  BY <1>1, <1>2 DEF Cnt
<1>4. CASE B <= Len(chunk)
  <2>1. NextList(list, data) = Append(new, <<>>)
    BY <1>4 DEF NextList, AddNewBuffer
  <2>2. Len(chunk) = B
    BY <1>2, <1>4, ChunkAssumption
  <2> DEFINE next == Append(new, <<>>)
  <2>3. /\ next \in Seq(Seq(Bytes))
        /\ Len(next) = n + 1
        /\ next[n + 1] = <<>>
        /\ \A k \in 1 .. n : next[k] = new[k]
    BY <1>1, <1>3
  <2>4. Shaped(next)
    <3>1. SUFFICES ASSUME NEW k \in 1 .. n + 1
                   PROVE  IF k < n + 1 THEN Len(next[k]) = B
                          ELSE Len(next[k]) < B
      BY <2>3 DEF Shaped, Cnt
    <3>2. CASE k < n
      BY <1>1, <1>3, <2>3, <3>2 DEF Shaped
    <3>3. CASE k = n
      BY <1>1, <1>3, <2>2, <2>3, <3>3
    <3>4. CASE k = n + 1
      BY <1>1, <2>3, <3>4, ChunkAssumption
    <3>5. k < n \/ k = n \/ k = n + 1
      BY <1>1
    <3>6. QED BY <3>2, <3>3, <3>4, <3>5
  <2>5. Cnt(next) = n + 1 /\ Len(last) + Amount(last, data) = B
    BY <1>2, <2>2, <2>3 DEF Cnt
  <2>6. next[n] = chunk /\ \A k \in 1 .. n - 1 : next[k] = list[k]
    BY <1>1, <1>3, <2>3
  <2>7. next # <<>> /\ next[Cnt(next)] = <<>>
    BY <1>1, <2>3, <2>5
  <2>8. QED
    BY <1>1, <2>1, <2>3, <2>4, <2>5, <2>6, <2>7, ZenonT(30)
<1>5. CASE ~(B <= Len(chunk))
  <2>1. NextList(list, data) = new
    BY <1>5 DEF NextList
  <2>2. Shaped(new)
    <3>1. SUFFICES ASSUME NEW k \in 1 .. n
                   PROVE  IF k < n THEN Len(new[k]) = B ELSE Len(new[k]) < B
      BY <1>3 DEF Shaped, Cnt
    <3>2. CASE k < n
      BY <1>1, <1>3, <3>2 DEF Shaped
    <3>3. CASE k = n
      BY <1>1, <1>2, <1>3, <1>5, <3>3, ChunkAssumption
    <3>4. QED BY <1>1, <3>2, <3>3
  <2>3. Cnt(new) = n /\ Len(last) + Amount(last, data) # B
    BY <1>2, <1>3, <1>5 DEF Cnt
  <2>4. new # <<>> /\ ~(Cnt(new) > n)
    <3> HIDE DEF new, n
    <3>1. Len(new) # 0
      BY <1>1, <1>3
    <3>2. new # <<>>
      BY <3>1, EmptySeq
    <3>3. ~(Cnt(new) > n)
      BY <1>1, <2>3
    <3>4. QED BY <3>2, <3>3
  <2>5. new \in Seq(Seq(Bytes)) /\ new[n] = chunk
        /\ \A k \in 1 .. n - 1 : new[k] = list[k]
    BY <1>3
  <2>6. QED
    BY <1>1, <2>1, <2>2, <2>3, <2>4, <2>5, ZenonT(30)
<1>6. QED BY <1>4, <1>5

-----------------------------------------------------------------------------
LEMMA ShapeInit == Init => ShapeInv
  BY ChunkAssumption
  DEF Init, ShapeInv, TypeOK, ChunkShape, CallShape, AddNewBuffer, Cnt

LEMMA ShapeNext == ShapeInv /\ [Next]_vars => ShapeInv'
<1> SUFFICES ASSUME ShapeInv, [Next]_vars PROVE ShapeInv'
  OBVIOUS
<1> USE DEF ShapeInv
<1>1. ASSUME NEW data \in WriteArgs, Write(data) PROVE ShapeInv'
  BY <1>1, ArgsAssumption
  DEF Write, TypeOK, ChunkShape, CallShape, readVars
<1>2. CASE WriteChunk
  <2>1. /\ listBuffer \in Seq(Seq(Bytes)) /\ listBuffer # <<>>
        /\ Shaped(listBuffer)
        /\ pbuff \in Seq(Bytes) /\ pbuff # <<>>
    BY <1>2 DEF WriteChunk, TypeOK, CallShape, ChunkShape, Shaped
  <2>2. listBuffer' = NextList(listBuffer, pbuff)
    BY <1>2 DEF WriteChunk, NextList
  <2>3. /\ listBuffer' \in Seq(Seq(Bytes))
        /\ listBuffer' # <<>>
        /\ Shaped(listBuffer')
    BY <2>1, <2>2, NextListShape
  <2>4. pbuff' \in Seq(Bytes)
    BY <1>2, <2>1, AppandSplits, NextListShape DEF WriteChunk
  <2>5. QED
    BY <1>2, <2>3, <2>4
    DEF WriteChunk, TypeOK, CallShape, ChunkShape, Shaped, readVars
<1>3. ASSUME NEW length \in ReadLens, NEW offset \in ReadOffsets,
             Read(length, offset)
      PROVE  ShapeInv'
  <2>1. ChunkOf(offset) \in Nat /\ PosOf(offset) \in Nat
        /\ PosOf(offset) < B
    BY ArgsAssumption, ChunkAssumption DEF ChunkOf, PosOf
  <2>2. QED
    BY <1>3, <2>1, ArgsAssumption
    DEF Read, TypeOK, ChunkShape, CallShape
<1>4. CASE ReadChunk
  <2> DEFINE chunk == listBuffer[idx + 1]
             len   == ReadAmount(Len(chunk), pos, Remaining)
  <2>1. chunk \in Seq(Bytes)
    BY <1>4 DEF ReadChunk, TypeOK, Cnt
  <2>2. pos \in Nat /\ Remaining \in Nat /\ Len(chunk) \in Nat
    BY <2>1, LenProperties DEF CallShape, TypeOK, Remaining
  <2>3. len \in Nat /\ len <= Remaining
        /\ (len = 0 \/ pos + len <= Len(chunk))
    BY <2>2 DEF ReadAmount
  <2>4. SubSeq(chunk, pos + 1, pos + len) \in Seq(Bytes)
        /\ Len(SubSeq(chunk, pos + 1, pos + len)) = len
    BY <2>1, <2>2, <2>3
  <2>5. out' = out \o SubSeq(chunk, pos + 1, pos + len)
    BY <1>4 DEF ReadChunk
  <2>6. out' \in Seq(Bytes) /\ Len(out') = Len(out) + len
    BY <2>3, <2>4, <2>5, ConcatProperties, SMTT(30) DEF TypeOK
  <2>7. Len(out') <= req.length
    BY <2>2, <2>3, <2>6, SMTT(30) DEF TypeOK, Remaining
  <2>8. QED
    BY <1>4, <2>6, <2>7, ChunkAssumption
    DEF ReadChunk, TypeOK, ChunkShape, CallShape
<1>5. CASE ReadReturn
  BY <1>5, ChunkAssumption DEF ReadReturn, TypeOK, ChunkShape, CallShape
<1>6. CASE Close
  BY <1>6 DEF Close, TypeOK, ChunkShape, CallShape, readVars, Cnt
<1>7. CASE Reset
  BY <1>7, ChunkAssumption
  DEF Reset, TypeOK, ChunkShape, CallShape, readVars, Cnt, AddNewBuffer
<1>8. CASE UNCHANGED vars
  BY <1>8 DEF vars, TypeOK, ChunkShape, CallShape
<1>9. QED
  BY <1>1, <1>2, <1>3, <1>4, <1>5, <1>6, <1>7, <1>8 DEF Next

(* The variables keep their types, whatever is written, read and reset. *)
THEOREM TypeCorrect == Spec => []TypeOK
<1>1. ShapeInv => TypeOK
  BY DEF ShapeInv
<1>2. QED BY ShapeInit, ShapeNext, <1>1, PTL DEF Spec

(* For every chunk size, every chunk but the last is full and the last has
   room: the shape Len() and Read's addressing take for granted. *)
THEOREM ChunksFilledInOrder == Spec => []ChunkShape
<1>1. ShapeInv => ChunkShape
  BY DEF ShapeInv
<1>2. QED BY ShapeInit, ShapeNext, <1>1, PTL DEF Spec

-----------------------------------------------------------------------------
(* The address Read computes for an offset is the only chunk and place that
   stand for it. *)
LEMMA AddressUnique ==
  ASSUME NEW q \in Nat, NEW r \in 0 .. B - 1
  PROVE  /\ q * B + r \in Nat
         /\ ChunkOf(q * B + r) = q
         /\ PosOf(q * B + r) = r
<1> DEFINE x == q * B + r
           d == x \div B
           m == x % B
<1>1. B \in Nat /\ B > 0 /\ q * B \in Nat /\ x \in Nat
  BY ChunkAssumption
<1>2. d \in Int /\ m \in 0 .. B - 1 /\ x = B * d + m
  BY <1>1
<1>3. B * (q - d) = m - r
  BY <1>1, <1>2
<1>4. d = q
  <2>1. ~(q - d >= 1)
    BY <1>1, <1>2, <1>3
  <2>2. ~(q - d <= -1)
    BY <1>1, <1>2, <1>3
  <2>3. QED BY <1>2, <2>1, <2>2
<1>5. m = r
  BY <1>1, <1>2, <1>4
<1>6. QED BY <1>1, <1>4, <1>5 DEF ChunkOf, PosOf

(* Where a chunk starts: products of B, kept out of the proofs below. *)
LEMMA ChunkStart ==
  ASSUME NEW a \in Nat, NEW b \in Nat
  PROVE  /\ a * B \in Nat
         /\ (a + 1) * B = a * B + B
         /\ a < b => a * B + B <= b * B
<1>1. B \in Nat /\ B > 0
  BY ChunkAssumption
<1>2. a * B \in Nat /\ (a + 1) * B = a * B + B
  BY <1>1
<1>3. ASSUME a < b PROVE a * B + B <= b * B
  <2>1. PICK c \in Nat : b = a + 1 + c
    <3>1. b - a - 1 \in Nat /\ b = a + 1 + (b - a - 1)
      BY <1>3
    <3>2. QED BY <3>1
  <2>2. b * B = (a + 1) * B + c * B
    BY <1>1, <2>1
  <2>3. c * B \in Nat
    BY <1>1
  <2>4. QED BY <1>1, <1>2, <2>2, <2>3
<1>4. QED BY <1>2, <1>3

LEMMA AddressExists ==
  ASSUME NEW offset \in Nat
  PROVE  /\ ChunkOf(offset) \in Nat
         /\ PosOf(offset) \in 0 .. B - 1
         /\ offset = ChunkOf(offset) * B + PosOf(offset)
  BY ChunkAssumption DEF ChunkOf, PosOf

(* On a list of the right shape the positional reading is sound: each place of
   each chunk is one position of the stream and conversely. *)
LEMMA PlaceOfPosition ==
  ASSUME NEW list \in Seq(Seq(Bytes)), list # <<>>, Shaped(list),
         NEW i \in 1 .. StreamLen(list)
  PROVE  /\ ChunkOf(i - 1) + 1 \in 1 .. Cnt(list)
         /\ PosOf(i - 1) + 1 \in 1 .. Len(list[ChunkOf(i - 1) + 1])
         /\ list[ChunkOf(i - 1) + 1][PosOf(i - 1) + 1] \in Bytes
         /\ i = ChunkOf(i - 1) * B + PosOf(i - 1) + 1
<1> DEFINE q == ChunkOf(i - 1)
           r == PosOf(i - 1)
           N == Cnt(list)
<1>1. N \in Nat \ {0}
  BY EmptySeq DEF Cnt
<1>2. Len(list[N]) \in 0 .. B - 1
  <2>1. Len(list[N]) < B
    BY <1>1 DEF Shaped, Cnt
  <2>2. list[N] \in Seq(Bytes)
    BY <1>1, ElementOfSeq DEF Cnt
  <2>3. QED BY <2>1, <2>2, LenProperties, ChunkAssumption
<1>3. StreamLen(list) = (N - 1) * B + Len(list[N])
  BY DEF StreamLen
<1>4. (N - 1) * B \in Nat
  BY <1>1, ChunkAssumption
<1>5. i - 1 \in Nat /\ i \in Nat
  BY <1>2, <1>3, <1>4
<1>6. q \in Nat /\ r \in 0 .. B - 1 /\ i - 1 = q * B + r
  BY <1>5, AddressExists
<1>7. q * B + r < (N - 1) * B + Len(list[N])
  BY <1>2, <1>3, <1>4, <1>5, <1>6
<1>8. q * B \in Nat /\ B \in Nat /\ B > 0
  BY <1>6, ChunkAssumption
<1>9. q <= N - 1
  <2>1. SUFFICES ASSUME N - 1 < q PROVE FALSE
    BY <1>1, <1>6
  <2>2. (N - 1) * B + B <= q * B
    <3>1. N - 1 \in Nat
      BY <1>1
    <3>2. QED BY <1>6, <2>1, <3>1, ChunkStart
  <2> DEFINE S == (N - 1) * B
             T == q * B
  <2> HIDE DEF S, T
  <2>3. S \in Nat /\ T \in Nat /\ S + B <= T /\ T + r < S + Len(list[N])
    BY <1>4, <1>7, <1>8, <2>2 DEF S, T
  <2>4. r \in Nat /\ Len(list[N]) \in Nat /\ Len(list[N]) < B /\ B \in Nat
    BY <1>2, <1>6, <1>8
  <2>5. QED BY <2>3, <2>4
<1>10. q + 1 \in 1 .. N
  BY <1>1, <1>6, <1>9
<1>11. r + 1 \in 1 .. Len(list[q + 1])
  <2>1. CASE q + 1 < N
    <3>1. Len(list[q + 1]) = B
      BY <1>10, <2>1 DEF Shaped
    <3>2. r + 1 \in 1 .. B
      BY <1>6, <1>8
    <3>3. QED BY <3>1, <3>2
  <2>2. CASE q + 1 = N
    <3>1. q * B = (N - 1) * B
      BY <1>1, <1>6, <2>2
    <3>2. r < Len(list[N])
      BY <1>2, <1>4, <1>6, <1>7, <3>1
    <3>3. QED BY <1>2, <1>6, <2>2, <3>2
  <2>3. QED BY <1>1, <1>10, <2>1, <2>2
<1>12. list[q + 1][r + 1] \in Bytes
  <2>1. list[q + 1] \in Seq(Bytes)
    BY <1>10, ElementOfSeq DEF Cnt
  <2>2. QED BY <2>1, <1>11, ElementOfSeq
<1>13. QED BY <1>5, <1>6, <1>10, <1>11, <1>12

LEMMA FlatIsSeq ==
  ASSUME NEW list \in Seq(Seq(Bytes)), Shaped(list)
  PROVE  /\ StreamLen(list) \in Nat
         /\ Flat(list) \in Seq(Bytes)
         /\ Len(Flat(list)) = StreamLen(list)
<1>1. StreamLen(list) \in Nat
  <2>1. CASE list = <<>>
    BY <2>1 DEF StreamLen
  <2>2. CASE list # <<>>
    <3>1. Cnt(list) \in Nat \ {0}
      BY <2>2, EmptySeq DEF Cnt
    <3>2. Len(list[Cnt(list)]) \in Nat
      BY <3>1, ElementOfSeq, LenProperties DEF Cnt
    <3>3. (Cnt(list) - 1) * B \in Nat
      <4>1. Cnt(list) - 1 \in Nat
        BY <3>1
      <4>2. QED BY <4>1, ChunkStart
    <3>4. QED BY <2>2, <3>2, <3>3 DEF StreamLen
  <2>3. QED BY <2>1, <2>2
<1>2. CASE list = <<>>
  <2>1. StreamLen(list) = 0
    BY <1>2 DEF StreamLen
  <2>2. Flat(list) = <<>>
    BY <2>1 DEF Flat
  <2>3. QED BY <2>1, <2>2
<1>3. CASE list # <<>>
  <2>1. \A i \in 1 .. StreamLen(list) :
          list[ChunkOf(i - 1) + 1][PosOf(i - 1) + 1] \in Bytes
    BY <1>3, PlaceOfPosition
  <2>2. QED BY <1>1, <2>1 DEF Flat
<1>4. QED BY <1>2, <1>3

LEMMA PositionOfPlace ==
  ASSUME NEW list \in Seq(Seq(Bytes)), list # <<>>, Shaped(list),
         NEW k \in 1 .. Cnt(list), NEW j \in 1 .. Len(list[k])
  PROVE  /\ (k - 1) * B + j \in 1 .. StreamLen(list)
         /\ Flat(list)[(k - 1) * B + j] = list[k][j]
<1> DEFINE N == Cnt(list)
           i == (k - 1) * B + j
<1>1. N \in Nat \ {0} /\ k \in Nat \ {0} /\ j \in Nat \ {0} /\ B \in Nat \ {0}
  <2>1. N \in Nat \ {0}
    BY EmptySeq DEF Cnt
  <2>2. list[k] \in Seq(Bytes)
    BY ElementOfSeq DEF Cnt
  <2>3. QED BY <2>1, <2>2, LenProperties, ChunkAssumption
<1>2. j - 1 \in 0 .. B - 1
  <2>1. Len(list[k]) \in Nat /\ Len(list[k]) <= B
    <3>1. list[k] \in Seq(Bytes)
      BY ElementOfSeq DEF Cnt
    <3>2. IF k < N THEN Len(list[k]) = B ELSE Len(list[k]) < B
      BY DEF Shaped
    <3>3. QED BY <1>1, <3>1, <3>2, LenProperties
  <2>2. QED BY <1>1, <2>1
<1>3. i - 1 = (k - 1) * B + (j - 1) /\ (k - 1) * B \in Nat
  BY <1>1
<1>4. ChunkOf(i - 1) = k - 1 /\ PosOf(i - 1) = j - 1
  <2>1. k - 1 \in Nat
    BY <1>1
  <2>2. QED BY <1>2, <1>3, <2>1, AddressUnique
<1>5. i \in 1 .. StreamLen(list)
  <2>1. StreamLen(list) = (N - 1) * B + Len(list[N])
    BY DEF StreamLen
  <2>2. Len(list[N]) \in Nat
    BY <1>1, ElementOfSeq, LenProperties DEF Cnt
  <2> DEFINE S == (N - 1) * B
             T == (k - 1) * B
  <2>3. S \in Nat /\ T \in Nat
    BY <1>1, ChunkStart
  <2>4. CASE k = N
    <3>1. j <= Len(list[N]) /\ T = S
      BY <2>4
    <3> HIDE DEF S, T
    <3>2. T + j \in 1 .. S + Len(list[N])
      BY <1>1, <2>2, <2>3, <3>1
    <3>3. QED BY <2>1, <3>2 DEF S, T
  <2>5. CASE k < N
    <3>1. T + B <= S
      <4>1. k - 1 \in Nat /\ N - 1 \in Nat /\ k - 1 < N - 1
        BY <1>1, <2>5
      <4>2. QED BY <4>1, ChunkStart
    <3> HIDE DEF S, T
    <3>2. T + j \in 1 .. S + Len(list[N])
      BY <1>1, <1>2, <2>2, <2>3, <3>1
    <3>3. QED BY <2>1, <3>2 DEF S, T
  <2>6. QED BY <1>1, <2>4, <2>5
<1>6. QED BY <1>1, <1>4, <1>5 DEF Flat

(* An iteration of Write moves bytes from the front of the caller's buffer to
   the end of the stream and changes nothing else. *)
LEMMA NextListFlat ==
  ASSUME NEW list \in Seq(Seq(Bytes)), list # <<>>, Shaped(list),
         NEW data \in Seq(Bytes), data # <<>>
  PROVE  LET n == Amount(list[Cnt(list)], data)
         IN  Flat(NextList(list, data)) \o SubSeq(data, n + 1, Len(data))
               = Flat(list) \o data
<1> DEFINE N    == Cnt(list)
           last == list[N]
           n    == Amount(last, data)
           next == NextList(list, data)
           L    == StreamLen(list)
           head == SubSeq(data, 1, n)
           rest == SubSeq(data, n + 1, Len(data))
           S    == (N - 1) * B
           T    == N * B
<1>1. /\ last \in Seq(Bytes) /\ Len(last) < B
      /\ next \in Seq(Seq(Bytes)) /\ next # <<>> /\ Shaped(next)
      /\ \A k \in 1 .. N - 1 : next[k] = list[k]
      /\ next[N] = Appand(last, data)
      /\ Cnt(next) = IF Len(last) + n = B THEN N + 1 ELSE N
      /\ Cnt(next) > N => next[Cnt(next)] = <<>>
  BY NextListShape
<1>2. /\ n \in 1 .. Len(data)
      /\ Len(Appand(last, data)) = Len(last) + n
      /\ Len(last) + n <= B
  BY <1>1, AppandSplits
<1>3. N \in Nat \ {0} /\ N - 1 \in Nat
  BY EmptySeq DEF Cnt
<1>4. S \in Nat /\ T = S + B
  BY <1>3, ChunkStart
<1>5. Len(last) \in Nat /\ B \in Nat /\ n \in Nat /\ Len(data) \in Nat
  <2>1. Len(last) \in Nat /\ Len(data) \in Nat
    BY <1>1, LenProperties
  <2>2. QED BY <1>2, <2>1, ChunkAssumption
<1>6. L = S + Len(last)
  BY DEF StreamLen
<1>7. StreamLen(next) = IF Len(last) + n = B THEN T
                        ELSE S + Len(Appand(last, data))
  <2>1. StreamLen(next) = (Cnt(next) - 1) * B + Len(next[Cnt(next)])
    BY <1>1 DEF StreamLen
  <2>2. CASE Len(last) + n = B
    <3> HIDE DEF N, next, n, last
    <3>1. Cnt(next) = N + 1
      BY <1>1, <2>2
    <3>2. Cnt(next) - 1 = N /\ Cnt(next) > N
      BY <1>3, <3>1
    <3>3. Len(next[Cnt(next)]) = 0
      BY <1>1, <3>2, EmptySeq
    <3>4. StreamLen(next) = T + 0
      BY <2>1, <3>2, <3>3
    <3>5. T \in Nat
      BY <1>3, ChunkStart
    <3>6. QED BY <2>2, <3>4, <3>5
  <2>3. CASE Len(last) + n # B
    BY <1>1, <2>1, <2>3
  <2>4. QED BY <2>2, <2>3
<1>8. /\ head \in Seq(Bytes) /\ Len(head) = n
      /\ rest \in Seq(Bytes)
      /\ \A j \in 1 .. n : head[j] = data[j]
  <2>1. n \in 0 .. Len(data)
    BY <1>2, <1>5
  <2> HIDE DEF n
  <2>2. QED BY <1>5, <2>1
<1>9. Appand(last, data) = last \o head
  BY DEF Appand
<1>10. Flat(list) \in Seq(Bytes) /\ Len(Flat(list)) = L /\ L \in Nat
  BY FlatIsSeq
<1>11. Flat(next) \in Seq(Bytes) /\ Len(Flat(next)) = StreamLen(next)
  BY <1>1, FlatIsSeq
<1>12. head \o rest = data
  <2>1. SubSeq(data, 1, n) \o SubSeq(data, n + 1, Len(data))
          = SubSeq(data, 1, Len(data))
    <3>1. 1 \in 1 .. Len(data) + 1 /\ n \in 1 - 1 .. Len(data)
          /\ Len(data) \in n .. Len(data)
      BY <1>2, <1>5
    <3> HIDE DEF n
    <3>2. QED BY <3>1, ConcatAdjacentSubSeq
  <2>2. QED BY <2>1, SubSeqFull
<1> HIDE DEF n, last, next, head, rest, S, T, L, N
<1>13. StreamLen(next) = L + n
  <2>1. S \in Nat /\ T = S + B /\ L = S + Len(last)
    BY <1>4, <1>6
  <2>2. CASE Len(last) + n = B
    <3>1. StreamLen(next) = T
      BY <1>7, <2>2
    <3>2. QED BY <1>5, <2>1, <2>2, <3>1
  <2>3. CASE Len(last) + n # B
    <3>1. StreamLen(next) = S + (Len(last) + n)
      BY <1>2, <1>7, <2>3
    <3>2. QED BY <1>5, <2>1, <3>1
  <2>4. QED BY <2>2, <2>3
<1>14. ASSUME NEW i \in 1 .. L + n
       PROVE  Flat(next)[i] = (Flat(list) \o head)[i]
  <2>1. CASE i <= L
    <3> DEFINE k == ChunkOf(i - 1) + 1
               j == PosOf(i - 1) + 1
    <3>1. i \in 1 .. L
      BY <1>5, <1>10, <2>1
    <3>2. k \in 1 .. N /\ j \in 1 .. Len(list[k])
      BY <3>1, PlaceOfPosition DEF L, N
    <3>3. Flat(next)[i] = next[k][j]
      BY <1>13 DEF Flat
    <3>4. Flat(list)[i] = list[k][j]
      BY <3>1 DEF Flat, L
    <3> HIDE DEF k, j
    <3>5. next[k][j] = list[k][j]
      <4>1. CASE k < N
        <5>1. k \in 1 .. N - 1
          BY <1>3, <3>2, <4>1
        <5>2. QED BY <1>1, <5>1
      <4>2. CASE k = N
        <5>1. j \in 1 .. Len(last)
          BY <3>2, <4>2 DEF last
        <5>2. (last \o head)[j] = last[j]
          BY <1>1, <1>5, <1>8, <5>1, ConcatProperties
        <5>3. QED BY <1>1, <1>9, <4>2, <5>2 DEF last
      <4>3. QED BY <1>3, <3>2, <4>1, <4>2
    <3>6. (Flat(list) \o head)[i] = Flat(list)[i]
      BY <1>5, <1>8, <1>10, <3>1, ConcatProperties
    <3>7. QED BY <3>3, <3>4, <3>5, <3>6
  <2>2. CASE L < i
    <3> DEFINE j == i - L
    <3>1. j \in 1 .. n /\ i = L + j
      BY <1>5, <1>10, <2>2
    <3> HIDE DEF j
    <3>2. Len(last) + j \in 1 .. Len(next[N])
      BY <1>1, <1>2, <1>5, <3>1
    <3>3. N \in 1 .. Cnt(next)
      <4>1. Cnt(next) = N \/ Cnt(next) = N + 1
        BY <1>1
      <4>2. QED BY <1>3, <4>1
    <3>4. Flat(next)[S + (Len(last) + j)] = next[N][Len(last) + j]
      BY <1>1, <3>2, <3>3, PositionOfPlace DEF S
    <3>5. S + (Len(last) + j) = i
      BY <1>4, <1>5, <1>6, <3>1
    <3>6. next[N][Len(last) + j] = head[j]
      <4>1. (last \o head)[Len(last) + j] = head[j]
        BY <1>1, <1>5, <1>8, <3>1, ConcatProperties, SMTT(30)
      <4>2. QED BY <1>1, <1>9, <4>1
    <3>7. (Flat(list) \o head)[i] = head[j]
      BY <1>5, <1>8, <1>10, <3>1, ConcatProperties, SMTT(30)
    <3>8. QED BY <3>4, <3>5, <3>6, <3>7
  <2>3. i <= L \/ L < i
    BY <1>5, <1>10
  <2>4. QED BY <2>1, <2>2, <2>3
<1>15. Flat(next) = Flat(list) \o head
  <2>1. /\ Flat(list) \o head \in Seq(Bytes)
        /\ Len(Flat(list) \o head) = L + n
    BY <1>8, <1>10, ConcatProperties
  <2>2. QED BY <1>11, <1>13, <1>14, <2>1, SeqEqual
<1>16. (Flat(list) \o head) \o rest = Flat(list) \o (head \o rest)
  <2>1. /\ Flat(list) \in Seq(Bytes)
        /\ head \in Seq(Bytes)
        /\ rest \in Seq(Bytes)
    BY <1>8, <1>10
  <2>2. \A s, t, u \in Seq(Bytes) : (s \o t) \o u = s \o (t \o u)
    <3>1. SUFFICES ASSUME NEW s \in Seq(Bytes), NEW t \in Seq(Bytes), NEW u \in Seq(Bytes)
                   PROVE  (s \o t) \o u = s \o (t \o u)
      OBVIOUS
    <3>2. QED BY SMTT(30)
  <2>3. QED BY <2>1, <2>2, Zenon
<1>17. Flat(next) \o rest = Flat(list) \o data
  BY <1>12, <1>15, <1>16
<1>18. QED BY <1>17 DEF n, next, rest, last, N

-----------------------------------------------------------------------------
(* A Read starts at the place of its offset, or behind the last byte. *)
LEMMA ReadBegins ==
  ASSUME NEW list \in Seq(Seq(Bytes)), Shaped(list), NEW offset \in Nat
  PROVE  IF ChunkOf(offset) < Cnt(list)
         THEN ChunkOf(offset) * B + PosOf(offset) = offset
         ELSE offset >= StreamLen(list)
<1>1. CASE ChunkOf(offset) < Cnt(list)
  BY <1>1, AddressExists
<1>2. CASE ~(ChunkOf(offset) < Cnt(list))
  <2>1. CASE list = <<>>
    BY <1>2, <2>1 DEF StreamLen
  <2>2. CASE list # <<>>
    <3> DEFINE N == Cnt(list)
               S == (N - 1) * B
               T == ChunkOf(offset) * B
    <3>1. N \in Nat \ {0} /\ N - 1 \in Nat
      BY <2>2, EmptySeq DEF Cnt
    <3>2. Len(list[N]) \in Nat /\ Len(list[N]) < B
      <4>1. list[N] \in Seq(Bytes)
        BY <3>1, ElementOfSeq DEF Cnt
      <4>2. Len(list[N]) < B
        BY <3>1 DEF Shaped, Cnt
      <4>3. QED BY <4>1, <4>2, LenProperties
    <3>3. StreamLen(list) = S + Len(list[N])
      BY <2>2 DEF StreamLen
    <3>4. ChunkOf(offset) \in Nat /\ PosOf(offset) \in Nat
          /\ offset = T + PosOf(offset)
      <4>1. ChunkOf(offset) \in Nat /\ PosOf(offset) \in 0 .. B - 1
        BY AddressExists
      <4>2. offset = ChunkOf(offset) * B + PosOf(offset)
        BY AddressExists
      <4>3. PosOf(offset) \in Nat
        BY <4>1, ChunkAssumption
      <4>4. QED BY <4>1, <4>2, <4>3
    <3>5. S + B <= T /\ S \in Nat /\ T \in Nat
      <4>1. N - 1 < ChunkOf(offset)
        BY <1>2, <3>1, <3>4
      <4>2. QED BY <3>1, <3>4, <4>1, ChunkStart
    <3> HIDE DEF N, S, T
    <3>6. B \in Nat
      BY ChunkAssumption
    <3>7. offset >= StreamLen(list)
      BY <3>2, <3>3, <3>4, <3>5, <3>6
    <3>8. QED BY <1>2, <3>7
  <2>3. QED BY <2>1, <2>2
<1>3. QED BY <1>1, <1>2

(* An iteration of Read's loop that stands at the position "at" of the stream
   copies the bytes that follow it, and stands behind them afterwards. *)
LEMMA ReadAdvances ==
  ASSUME NEW list \in Seq(Seq(Bytes)), Shaped(list),
         NEW k \in Nat, k < Cnt(list),
         NEW p \in 0 .. B - 1,
         NEW at \in Nat, k * B + p = at,
         NEW rem \in Nat, rem > 0
  PROVE  LET chunk == list[k + 1]
             len   == ReadAmount(Len(chunk), p, rem)
             part  == SubSeq(chunk, p + 1, p + len)
         IN  /\ len \in 0 .. rem
             /\ part \in Seq(Bytes)
             /\ Len(part) = len
             /\ \A j \in 1 .. len : /\ at + j <= StreamLen(list)
                                    /\ part[j] = Flat(list)[at + j]
             /\ len < rem => IF k + 1 < Cnt(list)
                             THEN (k + 1) * B = at + len
                             ELSE at + len >= StreamLen(list)
<1> DEFINE N     == Cnt(list)
           chunk == list[k + 1]
           sze   == Len(chunk)
           len   == ReadAmount(sze, p, rem)
           part  == SubSeq(chunk, p + 1, p + len)
           S     == k * B
           T     == (k + 1) * B
<1>1. N \in Nat \ {0} /\ k + 1 \in 1 .. N
  <2>1. N \in Nat
    BY LenProperties DEF Cnt
  <2>2. QED BY <2>1
<1>2. chunk \in Seq(Bytes) /\ sze \in Nat
  <2>1. chunk \in Seq(Bytes)
    BY <1>1, ElementOfSeq DEF Cnt
  <2>2. QED BY <2>1, LenProperties
<1>3. list # <<>>
  BY <1>1, EmptySeq DEF Cnt
<1>4. IF k + 1 < N THEN sze = B ELSE sze < B
  BY <1>1 DEF Shaped
<1>5. S \in Nat /\ T = S + B /\ at = S + p
  BY ChunkStart
<1>6. \A j \in 1 .. sze : /\ S + j \in 1 .. StreamLen(list)
                          /\ Flat(list)[S + j] = chunk[j]
  <2>1. SUFFICES ASSUME NEW j \in 1 .. sze
                 PROVE  /\ S + j \in 1 .. StreamLen(list)
                        /\ Flat(list)[S + j] = chunk[j]
    OBVIOUS
  <2>2. (k + 1) - 1 = k
    OBVIOUS
  <2>3. /\ ((k + 1) - 1) * B + j \in 1 .. StreamLen(list)
        /\ Flat(list)[((k + 1) - 1) * B + j] = list[k + 1][j]
    BY <1>1, <1>3, PositionOfPlace
  <2>4. ((k + 1) - 1) * B = S
    BY <2>2
  <2>5. QED BY <2>3, <2>4
<1>7. StreamLen(list) \in Nat
  BY FlatIsSeq
<1>8. k + 1 = N => StreamLen(list) = S + sze
  BY <1>1, <1>3 DEF StreamLen
<1>9. B \in Nat /\ p \in Nat /\ p < B
  BY ChunkAssumption
<1>10. len = IF p + rem > sze THEN (IF p > sze THEN 0 ELSE sze - p) ELSE rem
  BY DEF ReadAmount
<1>11. len \in 0 .. rem /\ (len = 0 \/ p + len <= sze)
  BY <1>2, <1>9, <1>10
<1>12. part \in Seq(Bytes) /\ Len(part) = len
       /\ \A j \in 1 .. len : part[j] = chunk[p + j]
  <2> HIDE DEF len, chunk
  <2>1. QED BY <1>2, <1>9, <1>11
<1> HIDE DEF N, chunk, sze, len, part, S, T
<1>13. ASSUME NEW j \in 1 .. len
       PROVE  at + j <= StreamLen(list) /\ part[j] = Flat(list)[at + j]
  <2>1. p + j \in 1 .. sze
    BY <1>2, <1>9, <1>11
  <2>2. S + (p + j) = at + j
    BY <1>5, <1>9, <1>11
  <2>3. S + (p + j) \in 1 .. StreamLen(list)
        /\ Flat(list)[S + (p + j)] = chunk[p + j]
    BY <1>6, <2>1
  <2>4. QED BY <1>7, <1>12, <2>2, <2>3
<1>14. ASSUME len < rem
       PROVE  IF k + 1 < N THEN T = at + len ELSE at + len >= StreamLen(list)
  <2>1. p + rem > sze /\ len = IF p > sze THEN 0 ELSE sze - p
    BY <1>2, <1>9, <1>10, <1>14
  <2>2. CASE k + 1 < N
    BY <1>4, <1>5, <1>9, <2>1, <2>2
  <2>3. CASE ~(k + 1 < N)
    <3>1. k + 1 = N
      BY <1>1, <2>3
    <3>2. StreamLen(list) = S + sze
      BY <1>8, <3>1
    <3>3. QED BY <1>2, <1>5, <1>9, <2>1, <2>3, <3>2
  <2>4. QED BY <2>2, <2>3
<1>15. QED BY <1>11, <1>12, <1>13, <1>14 DEF N, chunk, sze, len, part, T

-----------------------------------------------------------------------------
LEMMA ReadInit == Init => ReadCopiesRange
  BY DEF Init, ReadCopiesRange

LEMMA ReadNext ==
  ShapeInv /\ ReadCopiesRange /\ [Next]_vars => ReadCopiesRange'
<1> SUFFICES ASSUME ShapeInv, ReadCopiesRange, [Next]_vars
             PROVE  ReadCopiesRange'
  OBVIOUS
<1>0. listBuffer \in Seq(Seq(Bytes)) /\ Shaped(listBuffer)
  BY DEF ShapeInv, TypeOK, ChunkShape, Shaped
<1>1. ASSUME NEW data \in WriteArgs, Write(data) PROVE ReadCopiesRange'
  BY <1>1 DEF Write, ReadCopiesRange
<1>2. CASE WriteChunk
  BY <1>2 DEF WriteChunk, ReadCopiesRange
<1>3. ASSUME NEW length \in ReadLens, NEW offset \in ReadOffsets,
             Read(length, offset)
      PROVE  ReadCopiesRange'
  <2>1. offset \in Nat /\ length \in Nat
    BY ArgsAssumption
  <2>2. /\ listBuffer' = listBuffer /\ out' = <<>>
        /\ req' = [offset |-> offset, length |-> length]
        /\ idx' = ChunkOf(offset) /\ pos' = PosOf(offset)
    BY <1>3 DEF Read
  <2>3. IF ChunkOf(offset) < Cnt(listBuffer)
        THEN ChunkOf(offset) * B + PosOf(offset) = offset
        ELSE offset >= StreamLen(listBuffer)
    BY <1>0, <2>1, ReadBegins
  <2>4. Len(out') = 0 /\ req'.offset = offset /\ offset + 0 = offset
    BY <2>1, <2>2
  <2>5. IF idx' < Cnt(listBuffer')
        THEN idx' * B + pos' = req'.offset + Len(out')
        ELSE req'.offset + Len(out') >= StreamLen(listBuffer')
    BY <2>2, <2>3, <2>4
  <2>6. \A j \in 1 .. Len(out') :
          /\ req'.offset + j <= StreamLen(listBuffer')
          /\ out'[j] = Flat(listBuffer')[req'.offset + j]
    BY <2>4
  <2>7. QED BY <2>5, <2>6 DEF ReadCopiesRange
<1>4. CASE ReadChunk
  <2> DEFINE list  == listBuffer
             at    == req.offset + Len(out)
             rem   == Remaining
             chunk == list[idx + 1]
             len   == ReadAmount(Len(chunk), pos, rem)
             part  == SubSeq(chunk, pos + 1, pos + len)
  <2>1. /\ op = "read" /\ rem > 0 /\ idx < Cnt(list)
        /\ out' = out \o part /\ pos' = 0 /\ idx' = idx + 1
        /\ listBuffer' = list /\ req' = req
    BY <1>4 DEF ReadChunk
  <2>2. /\ idx \in Nat /\ pos \in 0 .. B - 1
        /\ out \in Seq(Bytes) /\ Len(out) \in Nat
        /\ req.offset \in Nat /\ req.length \in Nat
        /\ rem \in Nat /\ at \in Nat
    <3>1. idx \in Nat /\ pos \in 0 .. B - 1
      BY ChunkAssumption DEF ShapeInv, TypeOK, CallShape
    <3>2. out \in Seq(Bytes) /\ Len(out) \in Nat
      BY LenProperties DEF ShapeInv, TypeOK
    <3>3. req.offset \in Nat /\ req.length \in Nat
      BY DEF ShapeInv, TypeOK
    <3>4. Len(out) <= req.length
      BY DEF ShapeInv, CallShape
    <3>5. QED BY <3>1, <3>2, <3>3, <3>4 DEF Remaining
  <2>3. idx * B + pos = at
    BY <2>1 DEF ReadCopiesRange
  <2>4. /\ len \in 0 .. rem
        /\ part \in Seq(Bytes)
        /\ Len(part) = len
        /\ \A j \in 1 .. len : /\ at + j <= StreamLen(list)
                               /\ part[j] = Flat(list)[at + j]
        /\ len < rem => IF idx + 1 < Cnt(list)
                        THEN (idx + 1) * B = at + len
                        ELSE at + len >= StreamLen(list)
    BY <1>0, <2>1, <2>2, <2>3, ReadAdvances
  <2> HIDE DEF len, part, rem, chunk, list
  <2>5. /\ Len(out') = Len(out) + len
        /\ \A j \in 1 .. Len(out) : out'[j] = out[j]
        /\ \A j \in 1 .. len : out'[Len(out) + j] = part[j]
    <3>1. out \in Seq(Bytes) /\ part \in Seq(Bytes)
      BY <2>2, <2>4
    <3>2. /\ Len(out \o part) = Len(out) + Len(part)
          /\ \A i \in 1 .. Len(out) + Len(part) :
               (out \o part)[i] = IF i <= Len(out) THEN out[i]
                                  ELSE part[i - Len(out)]
      BY <3>1, ConcatProperties
    <3>3. Len(part) = len /\ len \in Nat /\ Len(out) \in Nat
      BY <2>2, <2>4
    <3>4. \A i \in 1 .. len : /\ Len(out) + i \in 1 .. Len(out) + Len(part)
                              /\ ~(Len(out) + i <= Len(out))
                              /\ (Len(out) + i) - Len(out) = i
      BY <3>3
    <3>5. \A i \in 1 .. Len(out) : i \in 1 .. Len(out) + Len(part)
                                   /\ i <= Len(out)
      BY <3>3
    <3>6. QED BY <2>1, <3>2, <3>3, <3>4, <3>5
  <2>6. ASSUME NEW j \in 1 .. Len(out')
        PROVE  /\ req.offset + j <= StreamLen(list)
               /\ out'[j] = Flat(list)[req.offset + j]
    <3>1. CASE j <= Len(out)
      <4>1. j \in 1 .. Len(out)
        BY <2>2, <2>4, <2>5, <3>1
      <4>2. QED BY <2>1, <2>5, <4>1 DEF ReadCopiesRange, list
    <3>2. CASE Len(out) < j
      <4>1. PICK i \in 1 .. len : j = Len(out) + i
        <5>1. j - Len(out) \in 1 .. len /\ j = Len(out) + (j - Len(out))
          BY <2>2, <2>4, <2>5, <3>2
        <5>2. QED BY <5>1
      <4>2. req.offset + j = at + i
        BY <2>2, <4>1
      <4>3. QED BY <2>4, <2>5, <4>1, <4>2
    <3>3. j <= Len(out) \/ Len(out) < j
      BY <2>2, <2>4, <2>5
    <3>4. QED BY <3>1, <3>2, <3>3
  <2>7. ASSUME req.length - Len(out') > 0
        PROVE  IF idx' < Cnt(list)
               THEN idx' * B + pos' = req.offset + Len(out')
               ELSE req.offset + Len(out') >= StreamLen(list)
    <3>1. len < rem
      BY <2>2, <2>4, <2>5, <2>7 DEF rem, Remaining
    <3>2. req.offset + Len(out') = at + len
      BY <2>2, <2>4, <2>5
    <3> DEFINE T == (idx + 1) * B
    <3>3. idx' * B + pos' = T
      <4>1. T \in Nat
        <5>1. idx + 1 \in Nat
          BY <2>2
        <5>2. QED BY <5>1, ChunkStart
      <4>2. QED BY <2>1, <4>1
    <3>4. QED BY <2>1, <2>4, <3>1, <3>2, <3>3
  <2>8. QED
    BY <2>1, <2>6, <2>7 DEF ReadCopiesRange, Remaining, list
<1>5. CASE ReadReturn
  BY <1>5 DEF ReadReturn, ReadCopiesRange
<1>6. CASE Close
  BY <1>6 DEF Close, ReadCopiesRange
<1>7. CASE Reset
  BY <1>7 DEF Reset, ReadCopiesRange
<1>8. CASE UNCHANGED vars
  BY <1>8 DEF vars, ReadCopiesRange, Remaining
<1>9. QED
  BY <1>1, <1>2, <1>3, <1>4, <1>5, <1>6, <1>7, <1>8 DEF Next

(* For every chunk size, offset and length: what a Read has copied is the
   range of the stream it was asked for. *)
THEOREM ReadsExact == Spec => []ReadCopiesRange
<1>1. Init => ShapeInv /\ ReadCopiesRange
  BY ShapeInit, ReadInit
<1>2. ShapeInv /\ ReadCopiesRange /\ [Next]_vars
        => ShapeInv' /\ ReadCopiesRange'
  BY ShapeNext, ReadNext
<1>3. QED BY <1>1, <1>2, PTL DEF Spec

-----------------------------------------------------------------------------
(* The chunked stream implements the flat one. *)
LEMMA FlatInit == Init => Abstract!Init
<1> SUFFICES ASSUME Init PROVE Abstract!Init
  OBVIOUS
<1>1. /\ listBuffer = << <<>> >> /\ pbuff = <<>>
      /\ ret = [offset |-> 0, length |-> 0, bytes |-> <<>>]
  BY DEF Init, AddNewBuffer
<1>2. StreamLen(listBuffer) = 0
  BY <1>1, ChunkAssumption DEF StreamLen, Cnt
<1>3. Flat(listBuffer) = <<>>
  BY <1>2 DEF Flat
<1>4. Flat(listBuffer) \o pbuff = <<>>
  BY <1>1, <1>3
<1>5. QED BY <1>1, <1>4 DEF Abstract!Init

(* A Read that is over has copied what the flat stream has in that range. *)
LEMMA ReadIsSlice ==
  ASSUME ShapeInv, ReadCopiesRange, op = "read",
         Remaining = 0 \/ idx >= Cnt(listBuffer)
  PROVE  out = Abstract!Slice(Flat(listBuffer), req.offset, req.length)
<1> DEFINE s == Flat(listBuffer)
           L == StreamLen(listBuffer)
           o == req.offset
           n == req.length
           g == Len(out)
           m == IF o >= Len(s) THEN 0
                ELSE IF o + n > Len(s) THEN Len(s) - o ELSE n
<1>1. listBuffer \in Seq(Seq(Bytes)) /\ Shaped(listBuffer)
  BY DEF ShapeInv, TypeOK, ChunkShape, Shaped
<1>2. L \in Nat /\ Len(s) = L
  BY <1>1, FlatIsSeq
<1>3. /\ o \in Nat /\ n \in Nat /\ g \in Nat /\ g <= n
      /\ out \in Seq(Bytes) /\ Remaining = n - g
  BY LenProperties DEF ShapeInv, TypeOK, CallShape, Remaining
<1>4. \A j \in 1 .. g : o + j <= L /\ out[j] = s[o + j]
  BY DEF ReadCopiesRange
<1>5. g > 0 => o + g <= L
  BY <1>3, <1>4
<1>6. ASSUME n - g > 0 PROVE o + g >= L
  <2>1. idx \in Nat /\ Cnt(listBuffer) \in Nat
    BY <1>1, LenProperties DEF ShapeInv, TypeOK, Cnt
  <2>2. Remaining > 0 /\ Remaining # 0
    BY <1>3, <1>6
  <2>3. ~(idx < Cnt(listBuffer))
    BY <2>1, <2>2
  <2>4. QED BY <2>2, <2>3 DEF ReadCopiesRange
<1>7. m = g
  BY <1>2, <1>3, <1>5, <1>6
<1>8. out = [i \in 1 .. g |-> s[o + i]]
  BY <1>3, <1>4, LenProperties
<1>9. QED BY <1>7, <1>8 DEF Abstract!Slice

LEMMA FlatNext ==
  ShapeInv /\ ReadCopiesRange /\ [Next]_vars
    => [Abstract!Next]_(Abstract!vars)
<1> SUFFICES ASSUME ShapeInv, ReadCopiesRange, [Next]_vars
             PROVE  [Abstract!Next]_(Abstract!vars)
  OBVIOUS
<1> DEFINE content == Flat(listBuffer) \o pbuff
<1>1. /\ listBuffer \in Seq(Seq(Bytes)) /\ Shaped(listBuffer)
      /\ pbuff \in Seq(Bytes)
  BY DEF ShapeInv, TypeOK, ChunkShape, Shaped
<1>2. /\ Flat(listBuffer) \in Seq(Bytes)
      /\ Len(Flat(listBuffer)) = StreamLen(listBuffer)
  BY <1>1, FlatIsSeq
<1>3. op # "write" => content = Flat(listBuffer)
  BY <1>2, ConcatEmptySeq DEF ShapeInv, CallShape
<1>4. ASSUME NEW data \in WriteArgs, Write(data) PROVE Abstract!Write(data)
  <2>1. content = Flat(listBuffer) /\ ret' = ret
    BY <1>3, <1>4 DEF Write, readVars
  <2>2. content' = Flat(listBuffer) \o data
    BY <1>4 DEF Write
  <2>3. Len(content) + Len(data) <= MaxLen
    BY <1>2, <1>4, <2>1 DEF Write
  <2>4. QED BY <2>1, <2>2, <2>3 DEF Abstract!Write
<1>5. CASE WriteChunk
  <2>1. listBuffer # <<>> /\ pbuff # <<>>
    BY <1>5 DEF WriteChunk, ShapeInv, CallShape
  <2> DEFINE n == Amount(listBuffer[Cnt(listBuffer)], pbuff)
  <2>2. /\ listBuffer' = NextList(listBuffer, pbuff)
        /\ pbuff' = SubSeq(pbuff, n + 1, Len(pbuff))
        /\ ret' = ret
    BY <1>5 DEF WriteChunk, NextList, readVars
  <2>3. Flat(NextList(listBuffer, pbuff)) \o SubSeq(pbuff, n + 1, Len(pbuff))
          = Flat(listBuffer) \o pbuff
    BY <1>1, <2>1, NextListFlat
  <2>4. content' = content
    BY <2>2, <2>3
  <2>5. QED BY <2>2, <2>4 DEF Abstract!vars
<1>6. ASSUME NEW length \in ReadLens, NEW offset \in ReadOffsets,
             Read(length, offset)
      PROVE  UNCHANGED Abstract!vars
  BY <1>6 DEF Read, Abstract!vars
<1>7. CASE ReadChunk
  BY <1>7 DEF ReadChunk, Abstract!vars
<1>8. CASE ReadReturn
  <2>1. /\ op = "read"
        /\ ret' = [offset |-> req.offset, length |-> req.length, bytes |-> out]
        /\ Remaining = 0 \/ idx >= Cnt(listBuffer)
        /\ listBuffer' = listBuffer /\ pbuff' = pbuff
    BY <1>8 DEF ReadReturn
  <2>2. out = Abstract!Slice(Flat(listBuffer), req.offset, req.length)
    BY <2>1, ReadIsSlice
  <2>3. content = Flat(listBuffer)
    BY <1>3, <2>1
  <2>4. content' = content
    BY <2>1
  <2>5. req.length \in ReadLens /\ req.offset \in ReadOffsets
    BY <2>1 DEF ShapeInv, CallShape
  <2>6. Abstract!Read(req.length, req.offset)
    BY <2>1, <2>2, <2>3, <2>4 DEF Abstract!Read
  <2>7. QED BY <2>5, <2>6 DEF Abstract!Next
<1>9. ASSUME op = "idle", pbuff' = pbuff, ret' = ret,
             StreamLen(listBuffer') = 0
      PROVE  Abstract!Clear
  <2>1. Flat(listBuffer') = <<>>
    BY <1>9 DEF Flat
  <2>2. pbuff' = <<>>
    BY <1>9 DEF ShapeInv, CallShape
  <2>3. content' = <<>>
    BY <2>1, <2>2
  <2>4. QED BY <1>9, <2>3 DEF Abstract!Clear
<1>10. CASE Close
  <2>1. StreamLen(listBuffer') = 0
    BY <1>10 DEF Close, StreamLen
  <2>2. Abstract!Clear
    BY <1>9, <1>10, <2>1 DEF Close, readVars
  <2>3. QED BY <2>2 DEF Abstract!Next
<1>11. CASE Reset
  <2>1. StreamLen(listBuffer') = 0
    BY <1>11, ChunkAssumption DEF Reset, StreamLen, AddNewBuffer, Cnt
  <2>2. Abstract!Clear
    BY <1>9, <1>11, <2>1 DEF Reset, readVars
  <2>3. QED BY <2>2 DEF Abstract!Next
<1>12. CASE UNCHANGED vars
  BY <1>12 DEF vars, Abstract!vars
<1>13. QED
  BY <1>4, <1>5, <1>6, <1>7, <1>8, <1>10, <1>11, <1>12
  DEF Next, Abstract!Next

(* For every chunk size and every history of calls the chunked stream behaves
   as one flat byte sequence: writes append exactly their bytes, reads return
   exactly the range asked for, as far as it exists. *)
THEOREM ChunkedImplementsFlat == Spec => ImplementsFlatStream
<1>1. Init => ShapeInv /\ ReadCopiesRange
  BY ShapeInit, ReadInit
<1>2. ShapeInv /\ ReadCopiesRange /\ [Next]_vars
        => ShapeInv' /\ ReadCopiesRange'
  BY ShapeNext, ReadNext
<1>3. QED
  BY <1>1, <1>2, FlatInit, FlatNext, PTL
  DEF Spec, ImplementsFlatStream, Abstract!Spec

-----------------------------------------------------------------------------
(* The last chunk of a list says how long the stream is, and the length of the
   stream how many chunks there are and how long each of them is. *)
LEMMA LengthOfList ==
  ASSUME NEW list \in Seq(Seq(Bytes)), list # <<>>, Shaped(list)
  PROVE  /\ Cnt(list) \in Nat \ {0}
         /\ ChunkOf(StreamLen(list)) = Cnt(list) - 1
         /\ PosOf(StreamLen(list)) = Len(list[Cnt(list)])
         /\ \A k \in 1 .. Cnt(list) : list[k] \in Seq(Bytes)
<1>1. Cnt(list) \in Nat \ {0}
  BY EmptySeq DEF Cnt
<1>2. \A k \in 1 .. Cnt(list) : list[k] \in Seq(Bytes)
  BY ElementOfSeq DEF Cnt
<1>3. Len(list[Cnt(list)]) \in 0 .. B - 1
  <2>1. list[Cnt(list)] \in Seq(Bytes) /\ Len(list[Cnt(list)]) < B
    BY <1>1, <1>2 DEF Shaped
  <2>. QED
    BY <2>1, LenProperties, ChunkAssumption
<1>4. Cnt(list) - 1 \in Nat
  BY <1>1
<1>. QED
  BY <1>1, <1>2, <1>3, <1>4, AddressUnique DEF StreamLen

(* The chunks of a stream are determined by its content. *)
LEMMA SameContentSameChunks ==
  ASSUME NEW left \in Seq(Seq(Bytes)), left # <<>>, Shaped(left),
         NEW right \in Seq(Seq(Bytes)), right # <<>>, Shaped(right)
  PROVE  Equal(left, right) <=> Flat(left) = Flat(right)
<1>1. ASSUME Equal(left, right) PROVE Flat(left) = Flat(right)
  <2>1. StreamLen(left) = StreamLen(right)
    BY <1>1 DEF Equal
  <2>2. \A k \in 1 .. Cnt(left) : left[k] = right[k]
    BY <1>1 DEF Equal
  <2>3. \A i \in 1 .. StreamLen(left) :
          left[ChunkOf(i - 1) + 1][PosOf(i - 1) + 1]
            = right[ChunkOf(i - 1) + 1][PosOf(i - 1) + 1]
    BY <2>2, PlaceOfPosition
  <2>. QED
    BY <2>1, <2>3 DEF Flat
<1>2. ASSUME Flat(left) = Flat(right) PROVE Equal(left, right)
  <2>1. StreamLen(left) = StreamLen(right)
    BY <1>2, FlatIsSeq
  <2>2. /\ Cnt(left) = Cnt(right) /\ Cnt(left) \in Nat
        /\ Len(left[Cnt(left)]) = Len(right[Cnt(right)])
    <3>1. /\ Cnt(left) - 1 = Cnt(right) - 1
          /\ Cnt(left) \in Nat /\ Cnt(right) \in Nat
      BY <2>1, LengthOfList
    <3>. QED
      BY <2>1, <3>1, LengthOfList
  <2>3. ASSUME NEW k \in 1 .. Cnt(left) PROVE left[k] = right[k]
    <3>1. left[k] \in Seq(Bytes) /\ right[k] \in Seq(Bytes)
      BY <2>2, LengthOfList
    <3>2. Len(left[k]) = Len(right[k])
      <4>1. CASE k = Cnt(left)
        BY <2>2, <4>1
      <4>2. CASE k < Cnt(left)
        BY <2>2, <4>2 DEF Shaped
      <4>. QED
        BY <2>2, <4>1, <4>2
    <3>3. ASSUME NEW j \in 1 .. Len(left[k]) PROVE left[k][j] = right[k][j]
      <4>1. Flat(left)[(k - 1) * B + j] = left[k][j]
        BY PositionOfPlace
      <4>2. k \in 1 .. Cnt(right) /\ j \in 1 .. Len(right[k])
        BY <2>2, <3>2
      <4>3. Flat(right)[(k - 1) * B + j] = right[k][j]
        BY <4>2, PositionOfPlace
      <4>. QED
        BY <1>2, <4>1, <4>3
    <3>. QED
      BY <3>1, <3>2, <3>3, SeqEqual
  <2>. QED
    BY <2>1, <2>2, <2>3 DEF Equal
<1>. QED
  BY <1>1, <1>2

(* The pieces of B bytes that data is cut into, the last one shorter. *)
Cut(data) ==
  [k \in 1 .. ChunkOf(Len(data)) + 1 |->
     SubSeq(data, (k - 1) * B + 1, Least(k * B, Len(data)))]

LEMMA PieceOfCut ==
  ASSUME NEW data \in Seq(Bytes), NEW k \in 1 .. ChunkOf(Len(data)) + 1
  PROVE  Cut(data)[k] = SubSeq(data, (k - 1) * B + 1, Least(k * B, Len(data)))
  BY Zenon DEF Cut

LEMMA CutShaped ==
  ASSUME NEW data \in Seq(Bytes)
  PROVE  /\ Cut(data) \in Seq(Seq(Bytes)) /\ Cut(data) # <<>>
         /\ Shaped(Cut(data)) /\ Flat(Cut(data)) = data
<1> DEFINE L == Len(data)
           q == ChunkOf(L)
           r == PosOf(L)
<1>1. L \in Nat /\ q \in Nat /\ r \in 0 .. B - 1 /\ L = q * B + r
  BY LenProperties, AddressExists
<1>2. B \in Nat \ {0}
  BY ChunkAssumption
<1>3. ASSUME NEW k \in 1 .. q
      PROVE  /\ k - 1 \in Nat /\ (k - 1) * B \in Nat /\ k * B = (k - 1) * B + B
             /\ k * B <= L /\ Least(k * B, L) = k * B
  <2>1. k \in Nat /\ k - 1 \in Nat /\ k = (k - 1) + 1 /\ k - 1 < q
    BY <1>1
  <2>2. (k - 1) * B \in Nat /\ k * B = (k - 1) * B + B /\ (k - 1) * B + B <= q * B
    BY <1>1, <2>1, ChunkStart
  <2>3. q * B \in Nat
    BY <1>1, ChunkStart
  <2> DEFINE S == (k - 1) * B
             T == q * B
             U == k * B
  <2> HIDE DEF S, T, U
  <2>4. S \in Nat /\ T \in Nat /\ U = S + B /\ S + B <= T /\ L = T + r
    BY <1>1, <2>2, <2>3 DEF S, T, U
  <2>5. U <= L /\ Least(U, L) = U
    BY <1>1, <1>2, <2>4 DEF Least
  <2>. QED
    BY <2>1, <2>2, <2>5 DEF U
<1>4. ASSUME NEW k \in 1 .. q
      PROVE  Cut(data)[k] \in Seq(Bytes) /\ Len(Cut(data)[k]) = B
  <2> DEFINE S == (k - 1) * B
  <2>1. Cut(data)[k] = SubSeq(data, (k - 1) * B + 1, k * B)
    <3>1. k \in 1 .. q + 1
      BY <1>1
    <3>2. Cut(data)[k] = SubSeq(data, (k - 1) * B + 1, Least(k * B, L))
      BY <3>1, PieceOfCut
    <3>. QED
      BY <1>3, <3>2
  <2>2. S \in Nat /\ k * B = S + B /\ S + B <= L
    BY <1>3
  <2>3. Cut(data)[k] = SubSeq(data, S + 1, S + B)
    BY <2>1, <2>2
  <2> HIDE DEF S
  <2>. QED
    BY <1>1, <1>2, <2>2, <2>3
<1>5. Cut(data)[q + 1] \in Seq(Bytes) /\ Len(Cut(data)[q + 1]) = r
  <2> DEFINE S == q * B
             T == (q + 1) * B
  <2>1. S \in Nat /\ T = S + B
    BY <1>1, ChunkStart
  <2>2. Cut(data)[q + 1] = SubSeq(data, S + 1, Least(T, L))
    <3>1. q + 1 \in 1 .. q + 1 /\ (q + 1) - 1 = q
      BY <1>1
    <3>2. Cut(data)[q + 1]
            = SubSeq(data, ((q + 1) - 1) * B + 1, Least((q + 1) * B, L))
      BY <3>1, PieceOfCut
    <3>. QED
      BY <3>1, <3>2
  <2> HIDE DEF S, T
  <2>3. L = S + r
    BY <1>1 DEF S
  <2>4. Least(T, L) = L
    BY <1>1, <1>2, <2>1, <2>3 DEF Least
  <2>5. Cut(data)[q + 1] = SubSeq(data, S + 1, L)
    BY <2>2, <2>4
  <2> HIDE DEF q, r
  <2>6. SubSeq(data, S + 1, L) \in Seq(Bytes) /\ Len(SubSeq(data, S + 1, L)) = r
    BY <1>1, <2>1, <2>3
  <2>. QED
    BY <2>5, <2>6
<1>6. Cnt(Cut(data)) = q + 1 /\ Cut(data) \in Seq(Seq(Bytes)) /\ Cut(data) # <<>>
  <2>1. \A k \in 1 .. q + 1 : Cut(data)[k] \in Seq(Bytes)
    BY <1>1, <1>4, <1>5
  <2>2. Cut(data) = [k \in 1 .. q + 1 |-> Cut(data)[k]] /\ q + 1 \in Nat \ {0}
    <3>1. Cut(data) = [k \in 1 .. q + 1 |-> Cut(data)[k]]
      BY Zenon DEF Cut
    <3>. QED
      BY <1>1, <3>1
  <2>3. Cut(data) \in [1 .. q + 1 -> Seq(Bytes)]
    BY <2>1, <2>2
  <2>4. Cut(data) \in Seq(Seq(Bytes))
    BY <2>2, <2>3
  <2>5. Len(Cut(data)) = q + 1
    BY <2>2, <2>3
  <2>. QED
    BY <2>2, <2>4, <2>5, EmptySeq DEF Cnt
<1>7. Shaped(Cut(data))
  <2>. SUFFICES ASSUME NEW k \in 1 .. q + 1
                PROVE  IF k < q + 1 THEN Len(Cut(data)[k]) = B
                       ELSE Len(Cut(data)[k]) < B
    BY <1>6 DEF Shaped
  <2>1. CASE k < q + 1
    BY <1>1, <1>4, <2>1
  <2>2. CASE k = q + 1
    BY <1>1, <1>2, <1>5, <2>2
  <2>. QED
    BY <1>1, <2>1, <2>2
<1>8. StreamLen(Cut(data)) = L
  <2>1. StreamLen(Cut(data)) = q * B + r
    BY <1>1, <1>5, <1>6 DEF StreamLen
  <2>. QED
    BY <1>1, <2>1
<1>9. ASSUME NEW i \in 1 .. L PROVE Flat(Cut(data))[i] = data[i]
  <2> DEFINE c == ChunkOf(i - 1)
             p == PosOf(i - 1)
             S == c * B
  <2>1. Flat(Cut(data))[i] = Cut(data)[c + 1][p + 1]
    BY <1>8 DEF Flat
  <2>2. /\ c + 1 \in 1 .. q + 1 /\ p + 1 \in 1 .. Len(Cut(data)[c + 1])
        /\ i = S + p + 1
    <3>1. i \in 1 .. StreamLen(Cut(data))
      BY <1>8
    <3>2. /\ c + 1 \in 1 .. Cnt(Cut(data))
          /\ p + 1 \in 1 .. Len(Cut(data)[c + 1])
          /\ i = c * B + p + 1
      BY <1>6, <1>7, <3>1, PlaceOfPosition
    <3>. QED
      BY <1>6, <3>2
  <2>3. i - 1 \in Nat /\ c \in Nat /\ p \in Nat
    <3>1. i - 1 \in Nat
      BY <1>1
    <3>2. c \in Nat /\ p \in 0 .. B - 1
      BY <3>1, AddressExists
    <3>. QED
      BY <1>2, <3>1, <3>2
  <2>4. S \in Nat /\ (c + 1) - 1 = c
    <3>1. (c + 1) - 1 = c
      BY <2>3
    <3>2. S \in Nat
      BY <2>3, ChunkStart
    <3>. QED
      BY <3>1, <3>2
  <2>5. \E e \in Nat : e <= L /\ Cut(data)[c + 1] = SubSeq(data, S + 1, e)
    <3>1. Cut(data)[c + 1] = SubSeq(data, S + 1, Least((c + 1) * B, L))
      BY <2>2, <2>4, PieceOfCut
    <3>2. (c + 1) * B \in Nat
      <4>1. c + 1 \in Nat
        BY <2>3
      <4>. QED
        BY <4>1, ChunkStart
    <3>3. Least((c + 1) * B, L) \in Nat /\ Least((c + 1) * B, L) <= L
      BY <1>1, <3>2 DEF Least
    <3>. QED
      BY <3>1, <3>3
  <2>6. PICK e \in Nat : e <= L /\ Cut(data)[c + 1] = SubSeq(data, S + 1, e)
    BY <2>5
  <2> HIDE DEF S, c, p
  <2>7. SubSeq(data, S + 1, e)[p + 1] = data[S + 1 + p]
    BY <1>1, <2>2, <2>3, <2>4, <2>6
  <2>8. S + 1 + p = i
    BY <2>2, <2>3, <2>4
  <2>. QED
    BY <2>1, <2>6, <2>7, <2>8
<1>10. Flat(Cut(data)) \in Seq(Bytes) /\ Len(Flat(Cut(data))) = L
  BY <1>6, <1>7, <1>8, FlatIsSeq
<1>. QED
  BY <1>6, <1>7, <1>9, <1>10, SeqEqual

(* For every chunk size: two streams are == exactly if they hold the same
   bytes, however their writes were split into calls. *)
THEOREM EqualByContent == Spec => []EqualityIsContent
<1>1. ASSUME ShapeInv PROVE EqualityIsContent
  <2>1. listBuffer \in Seq(Seq(Bytes)) /\ Shaped(listBuffer)
    BY <1>1 DEF ShapeInv, TypeOK, ChunkShape, Shaped
  <2>2. ASSUME NEW data \in WriteArgs, listBuffer # <<>>
        PROVE  Equal(listBuffer, Cut(data)) <=> Flat(listBuffer) = data
    <3>1. data \in Seq(Bytes)
      BY ArgsAssumption
    <3>. QED
      BY <2>1, <2>2, <3>1, CutShaped, SameContentSameChunks
  <2>. QED
    BY <2>2 DEF EqualityIsContent, Cut
<1>. QED
  BY <1>1, ShapeInit, ShapeNext, PTL DEF Spec

-----------------------------------------------------------------------------
(* FlattenSeq is what its recursion says: a function that obeys it, and there
   is only one. *)
LEMMA Flattened ==
  ASSUME NEW l, Len(l) \in Nat \ {0}, NEW g,
         \A i \in 1 .. Len(l) : g[i] = IF i = 1 THEN l[i] ELSE g[i - 1] \o l[i]
  PROVE  FlattenSeq(l) = g[Len(l)]
<1>. DEFINE n == Len(l)
            Flatten(f) == [i \in 1 .. n |-> IF i = 1 THEN l[i] ELSE f[i - 1] \o l[i]]
            f == CHOOSE f : f = Flatten(f)
            h == [i \in 1 .. n |-> g[i]]
<1>1. FlattenSeq(l) = f[n]
  BY DEF FlattenSeq
<1>2. h = Flatten(h)
  <2>1. ASSUME NEW i \in 1 .. n PROVE h[i] = IF i = 1 THEN l[i] ELSE h[i - 1] \o l[i]
    <3>1. CASE i = 1
      BY <3>1
    <3>2. CASE i # 1
      <4>1. i - 1 \in 1 .. n
        BY <3>2
      <4>. QED
        BY <3>2, <4>1
    <3>. QED
      BY <3>1, <3>2
  <2>. QED
    BY <2>1
<1>3. f = Flatten(f)
  <2>. HIDE DEF Flatten, h
  <2>. QED
    BY <1>2
<1>. HIDE DEF f, h
<1>4. \A i \in 1 .. n : f[i] = IF i = 1 THEN l[i] ELSE f[i - 1] \o l[i]
  BY <1>3
<1>. DEFINE differ == {i \in 1 .. n : f[i] # g[i]}
<1>5. CASE differ = {}
  BY <1>1, <1>5
<1>6. CASE differ # {}
  <2>1. differ \subseteq Nat
    OBVIOUS
  <2>2. PICK m \in differ : \A y \in differ : <<y, m>> \notin OpToRel(<, Nat)
    BY <1>6, <2>1, NatLessThanWellFounded, WFMin, Zenon
  <2>3. m \in 1 .. n /\ f[m] # g[m]
    OBVIOUS
  <2>4. m # 1
    BY <1>4, <2>3
  <2>5. m - 1 \in 1 .. n /\ m - 1 < m
    BY <2>3, <2>4
  <2>6. m - 1 \notin differ
    <3>1. <<m - 1, m>> \in Nat \X Nat /\ <<m - 1, m>>[1] = m - 1 /\ <<m - 1, m>>[2] = m
      BY <2>3, <2>5
    <3>2. <<m - 1, m>> \in OpToRel(<, Nat)
      BY <2>5, <3>1, Zenon DEF OpToRel
    <3>. QED
      BY <2>2, <3>2, Zenon
  <2>7. f[m - 1] = g[m - 1]
    BY <2>5, <2>6
  <2>. QED
    BY <1>4, <2>3, <2>4, <2>7
<1>. QED
  BY <1>5, <1>6

(* The bytes of the first so many chunks, read by position. *)
FlatUpTo(list, i) ==
  [p \in 1 .. (i - 1) * B + Len(list[i]) |-> list[ChunkOf(p - 1) + 1][PosOf(p - 1) + 1]]

LEMMA FlatUpToType ==
  ASSUME NEW list \in Seq(Seq(Bytes)), Shaped(list), NEW i \in 1 .. Len(list)
  PROVE  /\ list[i] \in Seq(Bytes) /\ Len(list[i]) \in Nat /\ Len(list[i]) <= B
         /\ i < Len(list) => Len(list[i]) = B
         /\ (i - 1) * B \in Nat
         /\ Len(FlatUpTo(list, i)) = (i - 1) * B + Len(list[i])
         /\ FlatUpTo(list, i) \in Seq(Bytes)
         /\ \A q \in 1 .. Len(list[i]) :
              FlatUpTo(list, i)[(i - 1) * B + q] = list[i][q]
         /\ \A p \in 1 .. (i - 1) * B + Len(list[i]) :
              FlatUpTo(list, i)[p] = list[ChunkOf(p - 1) + 1][PosOf(p - 1) + 1]
<1>. DEFINE start == (i - 1) * B
            m == Len(list[i])
            g == FlatUpTo(list, i)
<1>1. /\ Len(list) \in Nat /\ list[i] \in Seq(Bytes) /\ m \in Nat /\ B \in Nat
      /\ i - 1 \in Nat
  <2>1. Len(list) \in Nat /\ list[i] \in Seq(Bytes)
    BY ElementOfSeq, LenProperties
  <2>. QED
    BY <2>1, LenProperties, ChunkAssumption
<1>2. m <= B /\ (i < Len(list) => m = B)
  <2>1. IF i < Len(list) THEN m = B ELSE m < B
    BY DEF Shaped, Cnt
  <2>. QED
    BY <1>1, <2>1
<1>3. start \in Nat
  BY <1>1, ChunkStart
<1>4. \A q \in 1 .. m : ChunkOf((start + q) - 1) = i - 1 /\ PosOf((start + q) - 1) = q - 1
  <2>. SUFFICES ASSUME NEW q \in 1 .. m
                PROVE  ChunkOf((start + q) - 1) = i - 1 /\ PosOf((start + q) - 1) = q - 1
    OBVIOUS
  <2>1. q - 1 \in 0 .. B - 1
    BY <1>1, <1>2
  <2>2. ChunkOf((i - 1) * B + (q - 1)) = i - 1 /\ PosOf((i - 1) * B + (q - 1)) = q - 1
    BY <1>1, <2>1, AddressUnique
  <2>. HIDE DEF start
  <2>3. (start + q) - 1 = start + (q - 1)
    BY <1>3
  <2>. QED
    BY <2>2, <2>3 DEF start
<1>. HIDE DEF start
<1>5. g = [p \in 1 .. start + m |-> list[ChunkOf(p - 1) + 1][PosOf(p - 1) + 1]]
  BY DEF FlatUpTo, start
<1>. HIDE DEF g, m
<1>6. \A p \in 1 .. start + m : g[p] = list[ChunkOf(p - 1) + 1][PosOf(p - 1) + 1]
  BY <1>5
<1>7. ASSUME NEW q \in 1 .. m PROVE g[start + q] = list[i][q]
  <2>. DEFINE p == start + q
  <2>1. p \in 1 .. start + m
    BY <1>1, <1>3
  <2>2. ChunkOf(p - 1) + 1 = i /\ PosOf(p - 1) + 1 = q
    <3>1. ChunkOf(p - 1) = i - 1 /\ PosOf(p - 1) = q - 1
      BY <1>4
    <3>. QED
      BY <1>1, <3>1
  <2>. HIDE DEF p
  <2>3. g[p] = list[ChunkOf(p - 1) + 1][PosOf(p - 1) + 1]
    BY <1>6, <2>1
  <2>4. g[p] = list[i][q]
    BY <2>2, <2>3
  <2>. QED
    BY <2>4 DEF p
<1>8. \A p \in 1 .. start + m : g[p] \in Bytes
  <2>. SUFFICES ASSUME NEW p \in 1 .. start + m PROVE g[p] \in Bytes
    OBVIOUS
  <2>. DEFINE c == ChunkOf(p - 1)
              r == PosOf(p - 1)
  <2>1. p - 1 \in Nat /\ p - 1 < start + m
    BY <1>1, <1>3
  <2>2. c \in Nat /\ r \in 0 .. B - 1 /\ p - 1 = c * B + r
    BY <2>1, AddressExists
  <2>3. CASE c < i - 1
    <3>1. c + 1 \in 1 .. Len(list) /\ c + 1 < Len(list) /\ r + 1 \in 1 .. B
      <4>1. c \in Nat /\ r \in 0 .. B - 1 /\ i \in 1 .. Len(list)
        BY <2>2
      <4>. HIDE DEF c, r
      <4>. QED
        BY <1>1, <2>3, <4>1
    <3>2. list[c + 1] \in Seq(Bytes) /\ Len(list[c + 1]) = B
      BY <3>1, ElementOfSeq DEF Shaped, Cnt
    <3>3. list[c + 1][r + 1] \in Bytes
      BY <3>1, <3>2, ElementOfSeq
    <3>. QED
      BY <1>6, <3>3
  <2>4. CASE c >= i - 1
    <3>1. c = i - 1
      <4>1. ~(i - 1 < c)
        <5>. SUFFICES ASSUME i - 1 < c PROVE FALSE
          OBVIOUS
        <5>. DEFINE x == c * B
        <5>1. c \in Nat /\ i - 1 \in Nat
          BY <1>1, <2>2
        <5>. HIDE DEF c
        <5>2. x \in Nat /\ start + B <= x
          BY <5>1, ChunkStart DEF start
        <5>3. p - 1 = x + r /\ r \in Nat /\ m <= B /\ m \in Nat
          BY <1>1, <1>2, <2>2
        <5>4. p - 1 < start + m /\ start \in Nat /\ B \in Nat /\ p - 1 \in Nat
          BY <1>1, <1>3, <2>1
        <5>. HIDE DEF x, r
        <5>. QED
          BY <5>2, <5>3, <5>4
      <4>2. c \in Nat /\ i - 1 \in Nat
        BY <1>1, <2>2
      <4>. HIDE DEF c
      <4>. QED
        BY <2>4, <4>1, <4>2
    <3>2. p - 1 = start + r
      BY <2>2, <3>1 DEF start
    <3>3. r + 1 \in 1 .. m
      <4>1. /\ p - 1 = start + r /\ p - 1 < start + m /\ r \in Nat
            /\ start \in Nat /\ m \in Nat
        BY <1>1, <1>3, <2>1, <2>2, <3>2
      <4>. HIDE DEF r
      <4>. QED
        BY <4>1
    <3>4. list[i][r + 1] \in Bytes
      BY <1>1, <3>3, ElementOfSeq DEF m
    <3>5. c + 1 = i
      BY <1>1, <3>1
    <3>. QED
      BY <1>6, <3>4, <3>5
  <2>. QED
    BY <1>1, <2>2, <2>3, <2>4
<1>9. g \in Seq(Bytes) /\ Len(g) = start + m
  <2>. DEFINE n == start + m
  <2>1. n \in Nat
    BY <1>1, <1>3
  <2>2. g \in [1 .. n -> Bytes]
    BY <1>5, <1>8
  <2>. HIDE DEF n
  <2>3. g \in Seq(Bytes)
    BY <2>1, <2>2, SMT
  <2>4. DOMAIN g = 1 .. n
    BY <2>2
  <2>5. Len(g) = n
    BY <2>1, <2>3, <2>4, LenProperties
  <2>. QED
    BY <2>3, <2>5 DEF n
<1>. QED
  BY <1>1, <1>2, <1>3, <1>6, <1>7, <1>9 DEF g, m, start

(* One chunk more is the chunk appended. *)
LEMMA FlatUpToNext ==
  ASSUME NEW list \in Seq(Seq(Bytes)), Shaped(list), NEW i \in 1 .. Len(list)
  PROVE  FlatUpTo(list, i) = IF i = 1 THEN list[i] ELSE FlatUpTo(list, i - 1) \o list[i]
<1>. DEFINE g == FlatUpTo(list, i)
            c == list[i]
            m == Len(c)
            start == (i - 1) * B
<1>1. /\ c \in Seq(Bytes) /\ m \in Nat /\ start \in Nat
      /\ g \in Seq(Bytes) /\ Len(g) = start + m
      /\ \A q \in 1 .. m : g[start + q] = c[q]
      /\ \A p \in 1 .. start + m : g[p] = list[ChunkOf(p - 1) + 1][PosOf(p - 1) + 1]
  BY FlatUpToType
<1>2. CASE i = 1
  <2>1. start = 0
    BY <1>2, ChunkAssumption
  <2>. HIDE DEF start, g, c
  <2>2. Len(g) = Len(c) /\ \A q \in 1 .. Len(g) : g[q] = c[q]
    BY <1>1, <2>1
  <2>3. g = c
    BY <1>1, <2>2, SeqEqual
  <2>. QED
    BY <1>2, <2>3 DEF g, c
<1>3. CASE i # 1
  <2>. DEFINE h == FlatUpTo(list, i - 1)
              e == h \o c
  <2>1. i - 1 \in 1 .. Len(list) /\ i - 1 < Len(list) /\ Len(list) \in Nat
    BY <1>3, LenProperties
  <2>2. /\ h \in Seq(Bytes) /\ Len(h) = ((i - 1) - 1) * B + B
        /\ \A p \in 1 .. ((i - 1) - 1) * B + B :
             h[p] = list[ChunkOf(p - 1) + 1][PosOf(p - 1) + 1]
    BY <2>1, FlatUpToType
  <2>3. ((i - 1) - 1) * B + B = start
    <3>1. (i - 1) - 1 \in Nat /\ ((i - 1) - 1) + 1 = i - 1
      BY <2>1
    <3>. QED
      BY <3>1, ChunkStart
  <2>. HIDE DEF start, g, c, h
  <2>4. /\ h \in Seq(Bytes) /\ Len(h) = start
        /\ \A p \in 1 .. start : h[p] = list[ChunkOf(p - 1) + 1][PosOf(p - 1) + 1]
    BY <2>2, <2>3
  <2>5. /\ e \in Seq(Bytes) /\ Len(e) = start + m
        /\ \A p \in 1 .. start + m : e[p] = IF p <= start THEN h[p] ELSE c[p - start]
    BY <1>1, <2>4, ConcatProperties
  <2>6. ASSUME NEW p \in 1 .. start + m PROVE g[p] = e[p]
    <3>1. CASE p <= start
      <4>1. p \in 1 .. start
        BY <1>1, <3>1
      <4>. QED
        BY <1>1, <2>4, <2>5, <3>1, <4>1
    <3>2. CASE p > start
      <4>1. p - start \in 1 .. m /\ start + (p - start) = p /\ ~(p <= start)
        BY <1>1, <3>2
      <4>2. g[p] = c[p - start]
        BY <1>1, <4>1
      <4>3. e[p] = c[p - start]
        BY <2>5, <4>1
      <4>. QED
        BY <4>2, <4>3
    <3>3. p \in Nat /\ start \in Nat
      BY <1>1
    <3>4. p <= start \/ p > start
      BY <3>3
    <3>. QED
      BY <3>1, <3>2, <3>4
  <2>. HIDE DEF e, m
  <2>7. g = e
    BY <1>1, <2>5, <2>6, SeqEqual
  <2>. QED
    BY <1>3, <2>7 DEF e, g, h, c
<1>. QED
  BY <1>2, <1>3

(* The positional reading of the chunk list is its concatenation, in every state
   of the stream and for chunks of any size: Len(), Read and operator== look at
   the bytes in the order in which they were written. *)
THEOREM FlatConcatenates == Spec => []FlatIsConcatenation
<1>1. ShapeInv => FlatIsConcatenation
  <2>. SUFFICES ASSUME ShapeInv PROVE Flat(listBuffer) = FlattenSeq(listBuffer)
    BY DEF FlatIsConcatenation
  <2>1. /\ listBuffer \in Seq(Seq(Bytes)) /\ Shaped(listBuffer)
        /\ Len(listBuffer) \in Nat
    BY LenProperties DEF ShapeInv, TypeOK, ChunkShape, Shaped
  <2>2. CASE listBuffer = <<>>
    <3>1. Len(listBuffer) = 0 /\ StreamLen(listBuffer) = 0
      BY <2>2, EmptySeq DEF StreamLen
    <3>2. Flat(listBuffer) = <<>>
      BY <3>1 DEF Flat
    <3>3. FlattenSeq(listBuffer) = <<>>
      BY <2>2, <3>1 DEF FlattenSeq
    <3>. QED
      BY <3>2, <3>3
  <2>3. CASE listBuffer # <<>>
    <3>. DEFINE n == Len(listBuffer)
                g == [i \in 1 .. n |-> FlatUpTo(listBuffer, i)]
    <3>1. n \in Nat \ {0}
      BY <2>1, <2>3, EmptySeq
    <3>2. ASSUME NEW i \in 1 .. n
          PROVE  g[i] = IF i = 1 THEN listBuffer[i] ELSE g[i - 1] \o listBuffer[i]
      <4>1. FlatUpTo(listBuffer, i)
              = IF i = 1 THEN listBuffer[i] ELSE FlatUpTo(listBuffer, i - 1) \o listBuffer[i]
        BY <2>1, FlatUpToNext
      <4>2. i # 1 => i - 1 \in 1 .. n
        BY <3>1
      <4>. QED
        BY <4>1, <4>2
    <3>3. g[n] = FlatUpTo(listBuffer, n)
      BY <3>1
    <3>4. FlattenSeq(listBuffer) = g[n]
      <4>. HIDE DEF g
      <4>. QED
        BY <3>1, <3>2, Flattened
    <3>5. Flat(listBuffer) = FlatUpTo(listBuffer, n)
      BY <2>3 DEF Flat, FlatUpTo, StreamLen, Cnt
    <3>. QED
      BY <3>3, <3>4, <3>5
  <2>. QED
    BY <2>2, <2>3
<1>. QED
  BY <1>1, ShapeInit, ShapeNext, PTL DEF Spec
=============================================================================
