---------------------- MODULE ByteCircularBufferProofs ----------------------
(***************************************************************************)
(* Theorems about module ByteCircularBuffer, for any capacity, any set of  *)
(* byte values and any size of the memory read into.                       *)
(***************************************************************************)
EXTENDS ByteCircularBuffer, SequenceTheorems, TLAPS

USE SizeAssumption, BufSizeAssumption, ByteAssumption

LEMMA ChunkIsSequence ==
  ASSUME NEW data \in Chunk
  PROVE  data \in Seq(Byte) /\ Len(data) \in Nat
<1>1. PICK k \in 0..Size+1 : data \in [1..k -> Byte]
  BY DEF Chunk
<1> QED BY <1>1

-----------------------------------------------------------------------------
(* Index arithmetic.                                                       *)

LEMMA FrontMoves ==
  ASSUME NEW f \in 0..Size-1, NEW r \in 0..Size-1, NEW c \in 0..Size, f = Slot(r, c),
         NEW n \in 0..Size-c
  PROVE  /\ f + n <= Size => Turned(f + n) = Slot(r, c + n) /\ Turned(f + n) \in 0..Size-1
         /\ f + n > Size => f + n - Size = Slot(r, c + n) /\ f + n - Size \in 0..Size-1
BY DEF Slot, Turned

LEMMA RearMoves ==
  ASSUME NEW f \in 0..Size-1, NEW r \in 0..Size-1, NEW c \in 0..Size, f = Slot(r, c),
         NEW n \in 0..c
  PROVE  /\ r + n <= Size => f = Slot(Turned(r + n), c - n) /\ Turned(r + n) \in 0..Size-1
         /\ r + n > Size => f = Slot(r + n - Size, c - n) /\ r + n - Size \in 0..Size-1
BY DEF Slot, Turned

LEMMA SlotInRing ==
  \A r \in 0..Size-1, c \in 0..Size : \A i \in 1..c : Slot(r, i - 1) \in 0..Size-1
BY DEF Slot

\* Without turning around, the k-th byte written behind c lies k - 1 beyond front.
LEMMA SlotBehind ==
  \A f \in 0..Size-1, r \in 0..Size-1, c \in 0..Size :
    f = Slot(r, c) =>
      \A k \in 1..(Size - c) :
        Slot(r, c + k - 1) = IF f + k - 1 < Size THEN f + k - 1 ELSE f + k - 1 - Size
BY DEF Slot

\* The slots in use lie behind front, those to be written ahead of it.
LEMMA UsedSlots ==
  ASSUME NEW r \in 0..Size-1, NEW c \in 0..Size, NEW n \in 0..(Size - c), NEW i \in 1..c,
         Slot(r, c) + n <= Size
  PROVE  Slot(r, i - 1) \notin Slot(r, c)..(Slot(r, c) + n - 1)
<1>1. CASE r + c < Size
  <2>1. Slot(r, c) = r + c /\ Slot(r, i - 1) = r + i - 1
    BY <1>1, SizeAssumption DEF Slot
  <2> QED BY <2>1
<1>2. CASE r + c >= Size
  <2>1. Slot(r, c) = r + c - Size
    BY <1>2, SizeAssumption DEF Slot
  <2>2. CASE r + (i - 1) < Size
    <3>1. Slot(r, i - 1) = r + i - 1
      BY <2>2, SizeAssumption DEF Slot
    <3> QED BY <1>2, <2>1, <3>1, SizeAssumption
  <2>3. CASE r + (i - 1) >= Size
    <3>1. Slot(r, i - 1) = r + i - 1 - Size
      BY <2>3, SizeAssumption DEF Slot
    <3> QED BY <1>2, <2>1, <3>1, SizeAssumption
  <2> QED BY <2>2, <2>3, SizeAssumption
<1> QED BY <1>1, <1>2, SizeAssumption

LEMMA LeftSlots ==
  ASSUME NEW r \in 0..Size-1, NEW c \in 0..Size, NEW n \in 0..c, NEW i \in 1..c-n
  PROVE  /\ r + n <= Size => Slot(Turned(r + n), i - 1) = Slot(r, n + i - 1)
         /\ r + n > Size => Slot(r + n - Size, i - 1) = Slot(r, n + i - 1)
BY DEF Slot, Turned

-----------------------------------------------------------------------------
(* The two copies, by what they leave where.                               *)

LEMMA PutType ==
  ASSUME NEW ring \in [0..Size-1 -> Byte], NEW at \in Nat, NEW data \in Seq(Byte)
  PROVE  /\ Put(ring, at, data) \in [0..Size-1 -> Byte]
         /\ \A i \in 0..Size-1 : Put(ring, at, data)[i] =
              IF i \in at..(at + Len(data) - 1) THEN data[i - at + 1] ELSE ring[i]
BY DEF Put

LEMMA PutTypes ==
  \A ring \in [0..Size-1 -> Byte], at \in Nat, d \in Seq(Byte) :
    Put(ring, at, d) \in [0..Size-1 -> Byte]
<1> SUFFICES ASSUME NEW ring \in [0..Size-1 -> Byte], NEW at \in Nat, NEW d \in Seq(Byte)
             PROVE  Put(ring, at, d) \in [0..Size-1 -> Byte]
  OBVIOUS
<1> QED BY PutType

LEMMA PutAt ==
  \A ring, at, data : \A i \in 0..Size-1 :
    Put(ring, at, data)[i] = IF i \in at..(at + Len(data) - 1) THEN data[i - at + 1] ELSE ring[i]
BY DEF Put

LEMMA GetType ==
  ASSUME buffer \in [0..Size-1 -> Byte], NEW m \in [1..BufSize -> Byte], NEW at \in Nat,
         NEW n \in 0..BufSize, at + n <= Size
  PROVE  /\ Get(m, at, n) \in [1..BufSize -> Byte]
         /\ \A i \in 1..BufSize : Get(m, at, n)[i] = IF i <= n THEN buffer[at + i - 1] ELSE m[i]
BY DEF Get

-----------------------------------------------------------------------------
(* The ring invariant.  TypeOK is not inductive alone: that front and rear  *)
(* stay below buffer_size, and that no copy leaves the ring, rests on the   *)
(* three indices agreeing.                                                  *)

RingInv == TypeOK /\ RingOK

LEMMA RingIndices ==
  ASSUME RingInv
  PROVE  /\ front \in 0..Size-1 /\ rear \in 0..Size-1 /\ current_size \in 0..Size
         /\ front = Slot(rear, current_size)
BY DEF RingInv, TypeOK, RingOK

LEMMA SlotBehindFront ==
  ASSUME RingInv
  PROVE  \A k \in 1..(Size - current_size) :
           Slot(rear, current_size + k - 1) =
             IF front + k - 1 < Size THEN front + k - 1 ELSE front + k - 1 - Size
BY RingIndices, SlotBehind

LEMMA RingFacts ==
  ASSUME RingInv
  PROVE  /\ front \in 0..Size-1 /\ rear \in 0..Size-1 /\ current_size \in 0..Size
         /\ front = Slot(rear, current_size)
         /\ buffer \in [0..Size-1 -> Byte] /\ buf \in [1..BufSize -> Byte]
BY DEF RingInv, TypeOK, RingOK

\* A write that does not turn around has the room ahead of front; one that
\* does has it in the two pieces.
LEMMA WriteFits ==
  ASSUME RingInv, NEW data \in Chunk
  PROVE  /\ WriteAhead(data) =>
              Len(data) \in 0..(Size - current_size) /\ front + Len(data) <= Size
         /\ WriteAround(data) =>
              Len(data) \in 0..(Size - current_size) /\ front + Len(data) > Size
BY ChunkIsSequence
   DEF RingInv, TypeOK, RingOK, Slot, WriteAhead, WriteAround, BCBAvailableSize

LEMMA ReadFits ==
  ASSUME RingInv, NEW n \in 0..BufSize, NEW remove \in BOOLEAN
  PROVE  /\ ReadAhead(n, remove) => n \in 0..current_size /\ rear + n <= Size
         /\ ReadAround(n, remove) => n \in 0..current_size /\ rear + n > Size
BY DEF RingInv, TypeOK, RingOK, Slot, ReadAhead, ReadAround, Straddles

\* The two pieces of a write that turns around.
LEMMA Pieces ==
  ASSUME NEW data \in Seq(Byte), NEW k \in 0..Len(data)
  PROVE  /\ SubSeq(data, 1, k) \in Seq(Byte) /\ Len(SubSeq(data, 1, k)) = k
         /\ SubSeq(data, k + 1, Len(data)) \in Seq(Byte)
         /\ Len(SubSeq(data, k + 1, Len(data))) = Len(data) - k
         /\ \A i \in 1..k : SubSeq(data, 1, k)[i] = data[i]
         /\ \A i \in 1..(Len(data) - k) : SubSeq(data, k + 1, Len(data))[i] = data[k + i]
OBVIOUS

LEMMA WriteAheadStep ==
  ASSUME RingInv, NEW data \in Chunk, WriteAhead(data) PROVE RingInv'
<1>1. /\ data \in Seq(Byte)
      /\ Len(data) \in 0..(Size - current_size)
      /\ front + Len(data) <= Size
  BY ChunkIsSequence, WriteFits
<1>2. buffer' \in [0..Size-1 -> Byte]
  BY <1>1, PutType DEF WriteAhead, RingInv, TypeOK
<1>3. front' = Slot(rear', current_size') /\ front' \in 0..Size-1
  <2>1. /\ front' = Turned(front + Len(data)) /\ rear' = rear
        /\ current_size' = current_size + Len(data)
    BY DEF WriteAhead
  <2>2. /\ Turned(front + Len(data)) = Slot(rear, current_size + Len(data))
        /\ Turned(front + Len(data)) \in 0..Size-1
    BY <1>1, FrontMoves, RingFacts
  <2> QED BY <2>1, <2>2
<1>4. /\ rear' \in 0..Size-1 /\ buf' \in [1..BufSize -> Byte]
      /\ current_size' \in 0..Size /\ ret' \in Nat
  <2>1. /\ rear' = rear /\ buf' = buf /\ ret' = Len(data)
        /\ current_size' = current_size + Len(data)
    BY DEF WriteAhead
  <2> QED BY <1>1, <2>1, RingFacts
<1> QED BY <1>2, <1>3, <1>4 DEF RingInv, TypeOK, RingOK

LEMMA WriteAroundStep ==
  ASSUME RingInv, NEW data \in Chunk, WriteAround(data) PROVE RingInv'
<1>1. /\ data \in Seq(Byte)
      /\ Len(data) \in 0..(Size - current_size)
      /\ front + Len(data) > Size
  BY ChunkIsSequence, WriteFits
<1>2. buffer' \in [0..Size-1 -> Byte]
  <2> DEFINE k == Size - front
             head == SubSeq(data, 1, k)
             tail == SubSeq(data, k + 1, Len(data))
  <2>1. k \in 0..Len(data)
    BY <1>1, RingFacts
  <2>2. head \in Seq(Byte) /\ tail \in Seq(Byte)
    BY <1>1, <2>1, Pieces
  <2>3. buffer' = Put(Put(buffer, front, head), 0, tail)
    BY DEF WriteAround
  <2>4. front \in Nat /\ buffer \in [0..Size-1 -> Byte]
    BY RingFacts
  <2> HIDE DEF head, tail
  <2>5. Put(buffer, front, head) \in [0..Size-1 -> Byte]
    BY <2>2, <2>4, PutTypes
  <2> DEFINE first == Put(buffer, front, head)
  <2>6. first \in [0..Size-1 -> Byte]
    BY <2>5
  <2> HIDE DEF first
  <2>7. Put(first, 0, tail) \in [0..Size-1 -> Byte]
    BY <2>2, <2>6, PutTypes
  <2> QED BY <2>3, <2>7 DEF first
<1>3. front' = Slot(rear', current_size') /\ front' \in 0..Size-1
  <2>1. /\ front' = Len(data) - (Size - front) /\ rear' = rear
        /\ current_size' = current_size + Len(data)
    BY DEF WriteAround
  <2>2. /\ front + Len(data) - Size = Slot(rear, current_size + Len(data))
        /\ front + Len(data) - Size \in 0..Size-1
    BY <1>1, FrontMoves, RingFacts
  <2>3. Len(data) - (Size - front) = front + Len(data) - Size
    BY <1>1, RingFacts
  <2> QED BY <2>1, <2>2, <2>3
<1>4. /\ rear' \in 0..Size-1 /\ buf' \in [1..BufSize -> Byte]
      /\ current_size' \in 0..Size /\ ret' \in Nat
  <2>1. /\ rear' = rear /\ buf' = buf /\ ret' = Len(data)
        /\ current_size' = current_size + Len(data)
    BY DEF WriteAround
  <2> QED BY <1>1, <2>1, RingFacts
<1> QED BY <1>2, <1>3, <1>4 DEF RingInv, TypeOK, RingOK

LEMMA ReadAheadStep ==
  ASSUME RingInv, NEW n \in 0..BufSize, NEW remove \in BOOLEAN, ReadAhead(n, remove)
  PROVE  RingInv'
<1>1. n \in 0..current_size /\ rear + n <= Size
  BY ReadFits
<1>2. buf' \in [1..BufSize -> Byte]
  <2>1. buf' = Get(buf, rear, n) /\ rear \in Nat
    BY RingFacts DEF ReadAhead
  <2>2. buffer \in [0..Size-1 -> Byte] /\ buf \in [1..BufSize -> Byte]
    BY RingFacts
  <2> QED BY <1>1, <2>1, <2>2, GetType
<1>3. front' = Slot(rear', current_size') /\ rear' \in 0..Size-1
  <2>1. /\ front' = front
        /\ rear' = IF remove THEN Turned(rear + n) ELSE rear
        /\ current_size' = IF remove THEN current_size - n ELSE current_size
    BY DEF ReadAhead, Consume
  <2>2. /\ front = Slot(Turned(rear + n), current_size - n)
        /\ Turned(rear + n) \in 0..Size-1
    BY <1>1, RearMoves, RingFacts
  <2> QED BY <2>1, <2>2, RingFacts
<1>4. /\ front' \in 0..Size-1 /\ buffer' \in [0..Size-1 -> Byte]
      /\ current_size' \in 0..Size /\ ret' \in Nat
  <2>1. /\ front' = front /\ buffer' = buffer /\ ret' = n
        /\ current_size' = IF remove THEN current_size - n ELSE current_size
    BY DEF ReadAhead, Consume
  <2> QED BY <1>1, <2>1, RingFacts
<1> QED BY <1>2, <1>3, <1>4 DEF RingInv, TypeOK, RingOK

LEMMA ReadAroundStep ==
  ASSUME RingInv, NEW n \in 0..BufSize, NEW remove \in BOOLEAN, ReadAround(n, remove)
  PROVE  RingInv'
<1>1. n \in 0..current_size /\ rear + n > Size
  BY ReadFits
<1>2. buf' \in [1..BufSize -> Byte]
  <2>1. /\ Size - rear \in 0..BufSize /\ rear + (Size - rear) <= Size
        /\ n - (Size - rear) \in 0..BufSize /\ 0 + (n - (Size - rear)) <= Size
    BY <1>1, RingFacts
  <2>2. buffer \in [0..Size-1 -> Byte]
    BY RingFacts
  <2> DEFINE lead == Size - rear
             rest == n - lead
             part == Get(buf, rear, lead)
  <2>3. buf' = Get(part, 0, rest)
    BY DEF ReadAround
  <2>4. /\ lead \in 0..BufSize /\ rear \in Nat /\ rear + lead <= Size
        /\ rest \in 0..BufSize /\ 0 + rest <= Size
        /\ buf \in [1..BufSize -> Byte]
    BY <2>1, RingFacts
  <2> HIDE DEF lead, rest
  <2>5. part \in [1..BufSize -> Byte]
    BY <2>2, <2>4, GetType
  <2> HIDE DEF part
  <2>6. Get(part, 0, rest) \in [1..BufSize -> Byte]
    <3>1. 0 \in Nat
      OBVIOUS
    <3> QED BY <2>2, <2>4, <2>5, <3>1, GetType
  <2> QED BY <2>3, <2>6
<1>3. front' = Slot(rear', current_size') /\ rear' \in 0..Size-1
  <2>1. /\ front' = front
        /\ rear' = IF remove THEN n - (Size - rear) ELSE rear
        /\ current_size' = IF remove THEN current_size - n ELSE current_size
    BY DEF ReadAround, Consume
  <2>2. /\ front = Slot(rear + n - Size, current_size - n)
        /\ rear + n - Size \in 0..Size-1
    BY <1>1, RearMoves, RingFacts
  <2>3. n - (Size - rear) = rear + n - Size
    BY <1>1, RingFacts
  <2> QED BY <2>1, <2>2, <2>3, RingFacts
<1>4. /\ front' \in 0..Size-1 /\ buffer' \in [0..Size-1 -> Byte]
      /\ current_size' \in 0..Size /\ ret' \in Nat
  <2>1. /\ front' = front /\ buffer' = buffer /\ ret' = n
        /\ current_size' = IF remove THEN current_size - n ELSE current_size
    BY DEF ReadAround, Consume
  <2> QED BY <1>1, <2>1, RingFacts
<1> QED BY <1>2, <1>3, <1>4 DEF RingInv, TypeOK, RingOK

LEMMA RingStep == RingInv /\ [Next]_vars => RingInv'
<1> SUFFICES ASSUME RingInv, [Next]_vars PROVE RingInv'
  OBVIOUS
<1>1. ASSUME NEW data \in Chunk, WriteRefused(data) PROVE RingInv'
  BY <1>1 DEF WriteRefused, bcb, RingInv, TypeOK, RingOK
<1>2. ASSUME NEW n \in 0..BufSize, ReadRefused(n) PROVE RingInv'
  BY <1>2 DEF ReadRefused, bcb, RingInv, TypeOK, RingOK
<1>3. CASE BCBReset
  BY <1>3 DEF BCBReset, RingInv, TypeOK, RingOK, Slot
<1>4. CASE UNCHANGED vars
  BY <1>4 DEF vars, bcb, RingInv, TypeOK, RingOK
<1> QED
  BY <1>1, <1>2, <1>3, <1>4, WriteAheadStep, WriteAroundStep, ReadAheadStep, ReadAroundStep
     DEF Next, BCBWrite, BCBRead

LEMMA RingAlways == Spec => []RingInv
<1>1. Init => RingInv
  BY DEF Init, RingInv, TypeOK, RingOK, Slot
<1> QED BY <1>1, RingStep, PTL DEF Spec

\* The fields keep their types: no index ever leaves the ring, so the uint16_t
\* sums of BCBWrite() and BCBRead() neither wrap nor point past the buffer.
THEOREM TypeCorrect == Spec => []TypeOK
<1>1. RingInv => TypeOK
  BY DEF RingInv
<1> QED BY <1>1, RingAlways, PTL

\* front, rear and current_size never disagree about what is held.
THEOREM RingCorrect == Spec => []RingOK
<1>1. RingInv => RingOK
  BY DEF RingInv
<1> QED BY <1>1, RingAlways, PTL
-----------------------------------------------------------------------------
(* The ring implements the queue: Held, read off the ring byte by byte,     *)
(* grows at its end and shrinks at its front.                               *)

LEMMA HeldIs ==
  ASSUME RingInv
  PROVE  /\ Held \in Seq(Byte)
         /\ Len(Held) = current_size
         /\ \A i \in 1..current_size : Held[i] = buffer[Slot(rear, i - 1)]
<1>1. \A i \in 1..current_size : Slot(rear, i - 1) \in 0..Size-1
  BY RingIndices, SlotInRing
<1>2. \A i \in 1..current_size : buffer[Slot(rear, i - 1)] \in Byte
  BY <1>1, RingFacts
<1> QED BY <1>2, RingFacts DEF Held

LEMMA HeldIsNext ==
  ASSUME RingInv'
  PROVE  /\ Held' \in Seq(Byte)
         /\ Len(Held') = current_size'
         /\ \A i \in 1..current_size' : Held'[i] = buffer'[Slot(rear', i - 1)]
<1>1. /\ rear' \in 0..Size-1 /\ current_size' \in 0..Size
      /\ buffer' \in [0..Size-1 -> Byte]
  BY DEF RingInv, TypeOK
<1>2. \A i \in 1..current_size' : Slot(rear', i - 1) \in 0..Size-1
  BY <1>1, SlotInRing
<1>3. \A i \in 1..current_size' : buffer'[Slot(rear', i - 1)] \in Byte
  BY <1>1, <1>2
<1> QED BY <1>1, <1>3 DEF Held

LEMMA Written ==
  ASSUME RingInv, RingInv', NEW data \in Chunk, rear' = rear,
         Len(data) \in 0..(Size - current_size), current_size' = current_size + Len(data),
         \A i \in 1..(current_size + Len(data)) :
           buffer'[Slot(rear, i - 1)] =
             IF i <= current_size THEN buffer[Slot(rear, i - 1)] ELSE data[i - current_size]
  PROVE  Held' = Held \o data
<1>1. data \in Seq(Byte) /\ current_size \in 0..Size
  BY ChunkIsSequence, RingFacts
<1>2. /\ Held \o data \in Seq(Byte)
      /\ Len(Held \o data) = current_size + Len(data)
      /\ \A i \in 1..(current_size + Len(data)) :
           (Held \o data)[i] = IF i <= current_size THEN Held[i] ELSE data[i - current_size]
  BY <1>1, HeldIs, ConcatProperties
<1>3. ASSUME NEW i \in 1..(current_size + Len(data)) PROVE Held'[i] = (Held \o data)[i]
  <2>1. Held'[i] = buffer'[Slot(rear, i - 1)]
    BY HeldIsNext
  <2>2. i <= current_size => Held[i] = buffer[Slot(rear, i - 1)]
    BY <1>1, HeldIs
  <2> QED BY <1>2, <2>1, <2>2
<1>4. Held' \in Seq(Byte) /\ Len(Held') = current_size + Len(data)
  BY HeldIsNext
<1> QED BY <1>2, <1>3, <1>4, SeqEqual

LEMMA WriteAheadQueues ==
  ASSUME RingInv, RingInv', NEW data \in Chunk, WriteAhead(data) PROVE Held' = Held \o data
<1>1. /\ data \in Seq(Byte)
      /\ Len(data) \in 0..(Size - current_size)
      /\ front + Len(data) <= Size
      /\ front \in Nat /\ buffer \in [0..Size-1 -> Byte]
  BY ChunkIsSequence, WriteFits, RingFacts
<1>2. /\ rear' = rear
      /\ current_size' = current_size + Len(data)
      /\ buffer' = Put(buffer, front, data)
  BY DEF WriteAhead
<1>3. \A j \in 0..Size-1 :
        buffer'[j] = IF j \in front..(front + Len(data) - 1) THEN data[j - front + 1] ELSE buffer[j]
  BY <1>2, PutAt
<1>4. ASSUME NEW i \in 1..(current_size + Len(data))
      PROVE  buffer'[Slot(rear, i - 1)] =
               IF i <= current_size THEN buffer[Slot(rear, i - 1)] ELSE data[i - current_size]
  <2>1. Slot(rear, i - 1) \in 0..Size-1
    BY <1>1, <1>4, RingIndices DEF Slot
  <2>2. CASE i <= current_size
    <3>1. /\ rear \in 0..Size-1 /\ current_size \in 0..Size
          /\ front = Slot(rear, current_size) /\ i \in 1..current_size
      BY <1>1, <1>4, <2>2, RingIndices
    <3>2. Slot(rear, i - 1) \notin front..(front + Len(data) - 1)
      BY <1>1, <3>1, UsedSlots
    <3> QED BY <1>3, <2>1, <2>2, <3>2
  <2>3. CASE i > current_size
    <3> DEFINE k == i - current_size
    <3>1. k \in 1..Len(data) /\ i - 1 = current_size + k - 1
      BY <1>1, <1>4, <2>3, RingIndices
    <3>2. Slot(rear, i - 1) = front + k - 1
      <4>1. i - 1 = current_size + k - 1
        BY <3>1
      <4>2. Slot(rear, i - 1) = Slot(rear, current_size + k - 1)
        BY <4>1
      <4> HIDE DEF k
      <4>3. k \in 1..(Size - current_size) /\ front + k - 1 < Size
        BY <1>1, <3>1, RingIndices
      <4> QED BY <4>2, <4>3, SlotBehindFront
    <3> HIDE DEF k
    <3>3. /\ front + k - 1 \in front..(front + Len(data) - 1)
          /\ (front + k - 1) - front + 1 = k
      BY <1>1, <3>1
    <3>4. buffer'[Slot(rear, i - 1)] = data[k]
      BY <1>3, <2>1, <3>2, <3>3
    <3> QED BY <1>4, <2>3, <3>4, RingIndices DEF k
  <2> QED BY <2>2, <2>3, RingFacts
<1> QED BY <1>1, <1>2, <1>4, Written
LEMMA WriteAroundQueues ==
  ASSUME RingInv, RingInv', NEW data \in Chunk, WriteAround(data) PROVE Held' = Held \o data
<1> DEFINE lead == Size - front
           head == SubSeq(data, 1, lead)
           tail == SubSeq(data, lead + 1, Len(data))
<1>1. /\ data \in Seq(Byte)
      /\ Len(data) \in 0..(Size - current_size)
      /\ front + Len(data) > Size
      /\ front \in Nat /\ buffer \in [0..Size-1 -> Byte]
      /\ lead \in 0..Len(data)
  BY ChunkIsSequence, WriteFits, RingFacts
<1>2. /\ rear' = rear
      /\ current_size' = current_size + Len(data)
      /\ buffer' = Put(Put(buffer, front, head), 0, tail)
  BY DEF WriteAround
<1>3. /\ head \in Seq(Byte) /\ Len(head) = lead
      /\ tail \in Seq(Byte) /\ Len(tail) = Len(data) - lead
      /\ \A i \in 1..lead : head[i] = data[i]
      /\ \A i \in 1..(Len(data) - lead) : tail[i] = data[lead + i]
  BY <1>1, Pieces
<1>4. \A j \in 0..Size-1 :
        buffer'[j] = IF j \in 0..(Len(data) - lead - 1) THEN data[lead + j + 1]
                     ELSE IF j >= front THEN data[j - front + 1] ELSE buffer[j]
  <2> DEFINE first == Put(buffer, front, head)
  <2> HIDE DEF head, tail, first
  <2>1. /\ first \in [0..Size-1 -> Byte]
        /\ \A j \in 0..Size-1 : first[j] =
             IF j \in front..(front + Len(head) - 1) THEN head[j - front + 1] ELSE buffer[j]
    <3>1. Put(buffer, front, head) \in [0..Size-1 -> Byte]
      <4>1. buffer \in [0..Size-1 -> Byte] /\ front \in Nat
        BY <1>1
      <4>2. head \in Seq(Byte)
        BY <1>3
      <4> QED BY <4>1, <4>2, PutTypes
    <3> QED BY <3>1, PutAt DEF first
  <2>2. \A j \in 0..Size-1 : first[j] = IF j >= front THEN data[j - front + 1] ELSE buffer[j]
    <3>1. ASSUME NEW j \in 0..Size-1, j >= front PROVE first[j] = data[j - front + 1]
      <4>1. front + Len(head) = Size
        BY <1>1, <1>3, SizeAssumption
      <4>2. j \in front..(front + Len(head) - 1) /\ j - front + 1 \in 1..lead
        BY <1>1, <3>1, <4>1, SizeAssumption
      <4>3. first[j] = head[j - front + 1]
        BY <2>1, <4>2
      <4>4. head[j - front + 1] = data[j - front + 1]
        <5> HIDE DEF lead
        <5> QED BY <1>3, <4>2
      <4> QED BY <4>3, <4>4
    <3>2. ASSUME NEW j \in 0..Size-1, ~(j >= front) PROVE first[j] = buffer[j]
      <4>1. j \notin front..(front + Len(head) - 1)
        BY <1>1, <3>2
      <4> QED BY <2>1, <4>1
    <3> QED BY <3>1, <3>2
  <2>3. \A j \in 0..Size-1 :
          buffer'[j] = IF j \in 0..(Len(tail) - 1) THEN tail[j + 1] ELSE first[j]
    <3>1. \A j \in 0..Size-1 : Put(first, 0, tail)[j] =
            IF j \in 0..(0 + Len(tail) - 1) THEN tail[j - 0 + 1] ELSE first[j]
      BY PutAt
    <3> QED BY <1>2, <1>3, <3>1 DEF first
  <2> QED BY <1>1, <1>3, <2>2, <2>3
<1> HIDE DEF head, tail
<1>5. ASSUME NEW i \in 1..(current_size + Len(data))
      PROVE  buffer'[Slot(rear, i - 1)] =
               IF i <= current_size THEN buffer[Slot(rear, i - 1)] ELSE data[i - current_size]
  <2>1. Slot(rear, i - 1) \in 0..Size-1
    BY <1>1, <1>5, RingIndices DEF Slot
  <2>2. CASE i <= current_size
    <3>1. rear <= front
      BY DEF WriteAround, RingInv, TypeOK
    <3>2. Slot(rear, i - 1) < front /\ Slot(rear, i - 1) >= rear
      BY <1>1, <1>5, <2>2, <3>1, RingIndices DEF Slot
    <3>3. front + Len(data) - Size <= rear
      BY <1>1, <1>5, <2>2, <3>1, RingIndices DEF Slot
    <3>4. ~(Slot(rear, i - 1) \in 0..(Len(data) - lead - 1)) /\ ~(Slot(rear, i - 1) >= front)
      BY <1>1, <2>1, <3>2, <3>3, RingIndices
    <3> QED BY <1>4, <2>1, <2>2, <3>4
  <2>3. CASE i > current_size
    <3> DEFINE k == i - current_size
    <3>1. /\ k \in 1..Len(data) /\ k \in 1..(Size - current_size)
          /\ i - 1 = current_size + k - 1
      BY <1>1, <1>5, <2>3, RingIndices
    <3> HIDE DEF k
    <3>2. Slot(rear, i - 1) = IF front + k - 1 < Size THEN front + k - 1
                                                      ELSE front + k - 1 - Size
      BY <3>1, SlotBehindFront
    <3>3. buffer'[Slot(rear, i - 1)] = data[k]
      <4>1. CASE front + k - 1 < Size
        <5>1. /\ ~(front + k - 1 \in 0..(Len(data) - lead - 1))
              /\ front + k - 1 >= front /\ (front + k - 1) - front + 1 = k
          BY <1>1, <3>1, <4>1, RingIndices
        <5> QED BY <1>4, <2>1, <3>2, <4>1, <5>1
      <4>2. CASE front + k - 1 >= Size
        <5>1. /\ front + k - 1 - Size \in 0..(Len(data) - lead - 1)
              /\ lead + (front + k - 1 - Size) + 1 = k
          BY <1>1, <3>1, <4>2, RingIndices
        <5>2. Slot(rear, i - 1) = front + k - 1 - Size
          BY <1>1, <3>1, <3>2, <4>2
        <5> QED BY <1>4, <2>1, <5>1, <5>2
      <4> QED BY <1>1, <3>1, <4>1, <4>2
    <3> QED BY <1>5, <2>3, <3>3, RingIndices DEF k
  <2> QED BY <2>2, <2>3, RingIndices
<1> QED BY <1>1, <1>2, <1>5, Written
\* A removing read drops the n oldest bytes and moves none of the others.
LEMMA ReadQueues ==
  ASSUME RingInv, RingInv', NEW n \in 0..BufSize, NEW remove \in BOOLEAN,
         ReadAhead(n, remove) \/ ReadAround(n, remove)
  PROVE  Held' = IF remove THEN SubSeq(Held, n + 1, Len(Held)) ELSE Held
<1>1. n \in 0..current_size /\ current_size \in 0..Size /\ n \in Int
  BY ReadFits, RingIndices
<1>2. CASE ~remove
  BY <1>2 DEF ReadAhead, ReadAround, Consume, Held
<1>3. CASE remove
  <2>1. /\ rear' = IF rear + n <= Size THEN Turned(rear + n) ELSE rear + n - Size
        /\ current_size' = current_size - n
        /\ buffer' = buffer
    <3>1. CASE ReadAhead(n, remove)
      <4>1. rear + n <= Size
        BY <3>1, ReadFits
      <4> QED BY <1>3, <3>1, <4>1 DEF ReadAhead, Consume
    <3>2. CASE ReadAround(n, remove)
      <4>1. rear + n > Size /\ n - (Size - rear) = rear + n - Size
        BY <3>2, ReadFits, RingIndices
      <4> QED BY <1>3, <3>2, <4>1, RingIndices DEF ReadAround, Consume
    <3> QED BY <3>1, <3>2
  <2> DEFINE rest == SubSeq(Held, n + 1, Len(Held))
  <2>2. /\ rest \in Seq(Byte)
        /\ Len(rest) = current_size - n
        /\ \A i \in 1..(current_size - n) : rest[i] = Held[n + i]
    BY <1>1, HeldIs, Pieces
  <2> HIDE DEF rest
  <2>3. ASSUME NEW i \in 1..(current_size - n) PROVE Held'[i] = rest[i]
    <3>1. Held'[i] = buffer[Slot(rear', i - 1)]
      BY <2>1, HeldIsNext
    <3>2. Slot(rear', i - 1) = Slot(rear, n + i - 1)
      BY <1>1, <2>1, <2>3, RingIndices DEF Slot, Turned
    <3>3. n + i \in 1..current_size
      BY <1>1, <2>3
    <3>4. rest[i] = buffer[Slot(rear, n + i - 1)]
      BY <2>2, <3>3, HeldIs
    <3> QED BY <3>1, <3>2, <3>4
  <2>4. Held' \in Seq(Byte) /\ Len(Held') = current_size - n
    BY <2>1, HeldIsNext
  <2>5. Held' = rest
    BY <2>2, <2>3, <2>4, SeqEqual
  <2> QED BY <1>3, <2>5 DEF rest
<1> QED BY <1>2, <1>3

LEMMA QueueStep == RingInv /\ RingInv' /\ [Next]_vars => [Queue!Next]_(Queue!vars)
<1> SUFFICES ASSUME RingInv, RingInv', [Next]_vars
             PROVE  Queue!Next \/ UNCHANGED <<Held, ret>>
  BY DEF Queue!vars
<1>1. Len(Held) = current_size /\ current_size \in 0..Size
  BY HeldIs, RingIndices
<1>2. ASSUME UNCHANGED bcb PROVE Held' = Held
  BY <1>2 DEF bcb, Held
<1>3. ASSUME NEW data \in Chunk, BCBWrite(data) PROVE Queue!Next
  <2>1. Len(data) \in Nat
    BY ChunkIsSequence
  <2>2. CASE WriteRefused(data)
    <3>1. Len(Held) + Len(data) > Size \/ Len(data) = 0
      BY <1>1, <2>1, <2>2 DEF WriteRefused, BCBIsFull, BCBAvailableSize
    <3>2. Len(data) = 0 => Held \o data = Held
      BY ChunkIsSequence, HeldIs
    <3> QED BY <1>1, <1>2, <2>1, <2>2, <3>1, <3>2
            DEF WriteRefused, Queue!Next, Queue!Write, Queue!Chunk, Chunk
  <2>3. CASE WriteAhead(data) \/ WriteAround(data)
    <3>1. Held' = Held \o data
      BY <2>3, WriteAheadQueues, WriteAroundQueues
    <3>2. ret' = Len(data) /\ Len(data) <= Size - current_size
      BY <2>3 DEF WriteAhead, WriteAround, BCBAvailableSize
    <3>3. Len(Held) + Len(data) <= Size
      BY <1>1, <2>1, <3>2
    <3>4. Queue!Write(data)
      BY <3>1, <3>2, <3>3 DEF Queue!Write
    <3> QED BY <3>4 DEF Queue!Next, Queue!Chunk, Chunk
  <2> QED BY <1>3, <2>2, <2>3 DEF BCBWrite
<1>4. ASSUME NEW n \in 0..BufSize, NEW remove \in BOOLEAN, BCBRead(n, remove)
      PROVE  Queue!Next
  <2>1. CASE ReadRefused(n)
    BY <1>1, <1>2, <2>1 DEF ReadRefused, Queue!Next, Queue!Read
  <2>2. CASE ReadAhead(n, remove) \/ ReadAround(n, remove)
    <3>1. Held' = IF remove THEN SubSeq(Held, n + 1, Len(Held)) ELSE Held
      BY <2>2, ReadQueues
    <3>2. n <= Len(Held) /\ ret' = n
      BY <1>1, <2>2 DEF ReadAhead, ReadAround
    <3> QED BY <3>1, <3>2 DEF Queue!Next, Queue!Read
  <2> QED BY <1>4, <2>1, <2>2 DEF BCBRead
<1>5. CASE BCBReset
  <2>1. current_size' = 0 /\ ret' = ret
    BY <1>5 DEF BCBReset
  <2>2. Held' = <<>>
    BY <2>1, HeldIsNext
  <2> QED BY <2>1, <2>2 DEF Queue!Next, Queue!Reset
<1>6. CASE UNCHANGED vars
  BY <1>2, <1>6 DEF vars
<1> QED BY <1>3, <1>4, <1>5, <1>6 DEF Next

\* The ring is a first-in first-out queue of at most Size bytes.
THEOREM Implements == Spec => ImplementsByteQueue
<1>1. Init => Queue!Init
  <2> SUFFICES ASSUME Init PROVE Held = <<>> /\ ret = 0
    BY DEF Queue!Init
  <2> QED BY DEF Init, Held
<1> QED BY <1>1, QueueStep, RingAlways, PTL DEF Spec, ImplementsByteQueue, Queue!Spec

\* A write that is taken appends: one step under the invariant.
LEMMA AppendStep ==
  ASSUME RingInv, RingInv', NEW data \in Chunk, BCBWrite(data), ret' = Len(data)
  PROVE  Held' = Held \o data
<1>1. CASE WriteRefused(data)
  <2>1. Len(data) = 0 /\ UNCHANGED bcb
    BY <1>1 DEF WriteRefused
  <2>2. Held \o data = Held
    BY <2>1, ChunkIsSequence, HeldIs
  <2>3. Held' = Held
    BY <2>1 DEF bcb, Held
  <2> QED BY <2>2, <2>3
<1>2. CASE WriteAhead(data) \/ WriteAround(data)
  BY <1>2, WriteAheadQueues, WriteAroundQueues
<1> QED BY <1>1, <1>2 DEF BCBWrite

\* No byte of a write is lost, doubled or misplaced, on whichever side of the
\* end of the ring it lands.
THEOREM WritesCorrect == Spec => WritesAppend
<1>1. RingInv /\ RingInv' /\ [Next]_vars =>
        [\A data \in Chunk : BCBWrite(data) /\ ret' = Len(data) => Held' = Held \o data]_vars
  BY AppendStep
<1> QED BY <1>1, RingAlways, PTL DEF Spec, WritesAppend

\* A read that does not lie across the end of the ring is correct: one step
\* under the invariant.
LEMMA OldestStep ==
  ASSUME RingInv, NEW n \in 1..BufSize, NEW remove \in BOOLEAN,
         BCBRead(n, remove), ret' = n, Slot(rear, n - 1) >= rear
  PROVE  /\ \A i \in 1..n : buf'[i] = Held[i]
         /\ \A i \in n+1..BufSize : buf'[i] = buf[i]
<1>1. n \in 0..BufSize /\ n # 0
  OBVIOUS
<1>2. ~ReadRefused(n)
  BY DEF ReadRefused
<1>3. ~ReadAround(n, remove)
  <2> SUFFICES ASSUME ReadAround(n, remove) PROVE FALSE
    OBVIOUS
  <2>1. rear + n > Size /\ n \in 0..current_size
    BY <1>1, ReadFits
  <2> QED BY <2>1, RingIndices DEF Slot
<1>4. ReadAhead(n, remove)
  BY <1>2, <1>3 DEF BCBRead
<1>5. n \in 0..current_size /\ rear + n <= Size
  BY <1>1, <1>4, ReadFits
<1>6. \A i \in 1..BufSize : buf'[i] = IF i <= n THEN buffer[rear + i - 1] ELSE buf[i]
  BY <1>4 DEF ReadAhead, Get
<1>7. \A i \in 1..n : Held[i] = buffer[rear + i - 1]
  <2>1. \A i \in 1..n : Slot(rear, i - 1) = rear + i - 1 /\ i \in 1..current_size
    BY <1>5, RingIndices DEF Slot
  <2> QED BY <2>1, HeldIs
<1> QED BY <1>6, <1>7

\* Every read that does not straddle the end of the ring gives the caller the
\* oldest bytes and touches nothing behind them.
THEOREM ReadsCorrect == Spec => ReadsOldest
<1>1. RingInv /\ [Next]_vars =>
        [\A n \in 1..BufSize, remove \in BOOLEAN :
           BCBRead(n, remove) /\ ret' = n /\ Slot(rear, n - 1) >= rear =>
             /\ \A i \in 1..n : buf'[i] = Held[i]
             /\ \A i \in n+1..BufSize : buf'[i] = buf[i]]_vars
  BY OldestStep
<1> QED BY <1>1, RingAlways, PTL DEF Spec, ReadsOldest
=============================================================================
