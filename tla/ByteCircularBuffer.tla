------------------------- MODULE ByteCircularBuffer -------------------------
(***************************************************************************)
(* The byte circular buffer (ByteCircularBuffer.cpp) in which a message    *)
(* delimiter collects what a client sends.  The indices are uint16_t; they *)
(* cannot wrap because every index and every sum the code forms stays at   *)
(* or below buffer_size, which is part of what RingOK says.                *)
(***************************************************************************)
EXTENDS Naturals, Sequences

CONSTANTS
  Byte,      \* values of a byte
  Size,      \* buffer_size
  Calloced,  \* the byte calloc() fills memory with
  BufSize    \* length of the memory a caller reads into

ASSUME SizeAssumption    == Size \in Nat \ {0} /\ Size < 2^16
ASSUME BufSizeAssumption == BufSize \in Nat
ASSUME ByteAssumption    == Calloced \in Byte

VARIABLES
  buffer, front, rear, current_size,  \* the fields of ByteCircularBuffer_t
  buf,  \* the memory the caller passes to BCBRead()
  ret   \* what the last BCBWrite() or BCBRead() returned

bcb  == <<buffer, front, rear, current_size>>
vars == <<bcb, buf, ret>>

TypeOK ==
  /\ buffer \in [0..Size-1 -> Byte]
  /\ front \in 0..Size-1
  /\ rear \in 0..Size-1
  /\ current_size \in 0..Size
  /\ buf \in [1..BufSize -> Byte]
  /\ ret \in Nat

\* BCBCreateNew()
Init ==
  /\ buffer = [i \in 0..Size-1 |-> Calloced]
  /\ front = 0
  /\ rear = 0
  /\ current_size = 0
  /\ buf = [i \in 1..BufSize |-> Calloced]
  /\ ret = 0

\* memcpy() of a sequence of bytes into the ring at index `at'.
Put(ring, at, data) ==
  [i \in 0..Size-1 |-> IF i \in at..(at + Len(data) - 1) THEN data[i - at + 1] ELSE ring[i]]

\* memcpy() of n bytes of the ring from index `at' to the start of memory m.
Get(m, at, n) == [i \in 1..BufSize |-> IF i <= n THEN buffer[at + i - 1] ELSE m[i]]

\* Mutant: an index that reached the end stays there.
Turned_Never(i) == i

\* An index that reached the end of the ring is set back to its start.
Turned(i) == IF i = Size THEN 0 ELSE i

BCBIsFull == current_size = Size
\* Mutant: one byte is kept free.
BCBAvailableSize_KeepsOne == IF BCBIsFull THEN 0 ELSE Size - current_size - 1

\* Mutant: one byte too many is offered.
BCBAvailableSize_OneMore == Size - current_size + 1

BCBAvailableSize == Size - current_size

-----------------------------------------------------------------------------

WriteRefused(data) ==
  /\ BCBIsFull \/ BCBAvailableSize < Len(data)
  /\ ret' = 0
  /\ UNCHANGED <<bcb, buf>>

\* The free space ahead of front is enough: no need to turn around.
WriteAhead(data) ==
  /\ ~BCBIsFull /\ Len(data) <= BCBAvailableSize
  /\ front < rear \/ Len(data) <= Size - front
  /\ buffer' = Put(buffer, front, data)
  /\ front' = Turned(front + Len(data))
  /\ current_size' = current_size + Len(data)
  /\ ret' = Len(data)
  /\ UNCHANGED <<rear, buf>>

\* Mutant: the second piece is copied from the start of the data again.
WriteAround_CopiesHead(data) ==
  LET leading_space == Size - front
      head == SubSeq(data, 1, leading_space)
      tail == SubSeq(data, 1, Len(data) - leading_space)
  IN  /\ ~BCBIsFull /\ Len(data) <= BCBAvailableSize
      /\ front >= rear /\ Len(data) > leading_space
      /\ buffer' = Put(Put(buffer, front, head), 0, tail)
      /\ front' = Len(data) - leading_space
      /\ current_size' = current_size + Len(data)
      /\ ret' = Len(data)
      /\ UNCHANGED <<rear, buf>>

\* Otherwise the data is split at the end of the ring.
WriteAround(data) ==
  LET leading_space == Size - front
      head == SubSeq(data, 1, leading_space)
      tail == SubSeq(data, leading_space + 1, Len(data))
  IN  /\ ~BCBIsFull /\ Len(data) <= BCBAvailableSize
      /\ front >= rear /\ Len(data) > leading_space
      /\ buffer' = Put(Put(buffer, front, head), 0, tail)
      /\ front' = Len(data) - leading_space
      /\ current_size' = current_size + Len(data)
      /\ ret' = Len(data)
      /\ UNCHANGED <<rear, buf>>

BCBWrite(data) == WriteRefused(data) \/ WriteAhead(data) \/ WriteAround(data)

ReadRefused(n) ==
  /\ current_size < n
  /\ ret' = 0
  /\ UNCHANGED <<bcb, buf>>

\* The bytes wanted lie across the end of the ring.
Straddles(n) == rear >= front /\ n > Size - rear

\* Mutant: the size is not adjusted.
Consume_KeepsSize(n, next, remove) ==
  /\ rear' = IF remove THEN next ELSE rear
  /\ UNCHANGED <<buffer, front, current_size>>

Consume(n, next, remove) ==
  /\ rear' = IF remove THEN next ELSE rear
  /\ current_size' = IF remove THEN current_size - n ELSE current_size
  /\ UNCHANGED <<buffer, front>>

\* Mutant: the read starts where the ring does.
ReadAhead_FromStart(n, remove) ==
  /\ n <= current_size
  /\ ~Straddles(n)
  /\ buf' = Get(buf, 0, n)
  /\ Consume(n, Turned(rear + n), remove)
  /\ ret' = n

ReadAhead(n, remove) ==
  /\ n <= current_size
  /\ ~Straddles(n)
  /\ buf' = Get(buf, rear, n)
  /\ Consume(n, Turned(rear + n), remove)
  /\ ret' = n

\* Both pieces are copied to the START of the caller's memory.
ReadAround(n, remove) ==
  LET leading_space == Size - rear
  IN  /\ n <= current_size
      /\ Straddles(n)
      /\ buf' = Get(Get(buf, rear, leading_space), 0, n - leading_space)
      /\ Consume(n, n - leading_space, remove)
      /\ ret' = n

BCBRead(n, remove) == ReadRefused(n) \/ ReadAhead(n, remove) \/ ReadAround(n, remove)

BCBReset ==
  /\ front' = 0
  /\ rear' = 0
  /\ current_size' = 0
  /\ UNCHANGED <<buffer, buf, ret>>

\* Data of every length that fits, and one that does not.
Chunk == UNION {[1..k -> Byte] : k \in 0..Size+1}

Next ==
  \/ \E data \in Chunk : BCBWrite(data)
  \/ \E n \in 0..BufSize, remove \in BOOLEAN : BCBRead(n, remove)
  \/ BCBReset

Spec == Init /\ [][Next]_vars

-----------------------------------------------------------------------------

\* The index k bytes beyond i.
Slot(i, k) == IF i + k < Size THEN i + k ELSE i + k - Size

\* front, rear and current_size are redundant and never disagree: the number
\* of bytes held is the distance from rear to front, full and empty (front =
\* rear in both) being told apart by the size alone.
RingOK == front = Slot(rear, current_size)

\* The bytes held, oldest first.
Held == [i \in 1..current_size |-> buffer[Slot(rear, i - 1)]]

Queue == INSTANCE ByteQueue WITH queue <- Held, MaxRead <- BufSize

\* The buffer is a first-in first-out queue: no write or read disturbs a byte
\* it holds, however often the indices have turned around.
ImplementsByteQueue == Queue!Spec

\* A write that is taken appends exactly the caller's bytes, in order, on
\* whichever side of the end of the ring its pieces come to lie.
WritesAppend ==
  [][\A data \in Chunk : BCBWrite(data) /\ ret' = Len(data) => Held' = Held \o data]_vars

\* A read that does not lie across the end of the ring returns the oldest
\* bytes, in order, and leaves the rest of the caller's memory alone.
ReadsOldest ==
  [][\A n \in 1..BufSize, remove \in BOOLEAN :
       BCBRead(n, remove) /\ ret' = n /\ Slot(rear, n - 1) >= rear =>
         /\ \A i \in 1..n : buf'[i] = Held[i]
         /\ \A i \in n+1..BufSize : buf'[i] = buf[i]]_vars
=============================================================================
