-------------------------- MODULE MsgDelimiterProofs --------------------------
(***************************************************************************)
(* What the proofs about both delimiters rest on: how Process() and a read *)
(* that stays on one side of the end of the ring change what the ring      *)
(* holds, seen as a piece of the stream.  What the ring does is taken from *)
(* the lemmas of ByteCircularBufferProofs.                                 *)
(***************************************************************************)
EXTENDS MsgDelimiter, SequenceTheorems, TLAPS

R == INSTANCE ByteCircularBufferProofs

\* A read that removes is one of those the ring's lemmas are about.
LEMMA SomeAreTrue == \E b \in BOOLEAN : b
BY Zenon

LEMMA RingAssumptions ==
  /\ R!SizeAssumption /\ R!BufSizeAssumption /\ R!ByteAssumption
  /\ Ring!SizeAssumption /\ Ring!BufSizeAssumption /\ Ring!ByteAssumption
BY RingAssumption
   DEF R!SizeAssumption, R!BufSizeAssumption, R!ByteAssumption,
       Ring!SizeAssumption, Ring!BufSizeAssumption, Ring!ByteAssumption

\* What the proofs use of them.
LEMMA Sizes == Size \in Nat \ {0} /\ BufSize \in Nat /\ Calloced \in Byte
BY RingAssumption

\* The bounds, and the lengths as numbers.
LEMMA Bounds == MaxChunk \in Nat /\ MaxInterrupts \in Nat /\ Lengths \subseteq Nat
<1>1. MaxChunk \in Nat /\ MaxInterrupts \in Nat
  BY Zenon, BoundsAssumption
<1>2. ASSUME NEW n \in Lengths PROVE n \in Nat
  <2>1. n \in 0..2^16-1
    BY Zenon, BoundsAssumption
  <2> QED BY <2>1
<1> QED BY <1>1, <1>2

USE RingAssumptions, Sizes

-----------------------------------------------------------------------------
(* Arithmetic, and pieces of a stream. *)

LEMMA TimesMonotone ==
  ASSUME NEW a \in Nat, NEW b \in Nat, NEW n \in Nat, a >= b
  PROVE  a * n >= b * n
<1>1. a * n = b * n + (a - b) * n
  OBVIOUS
<1>2. (a - b) * n >= 0
  <2>1. a - b \in Nat
    OBVIOUS
  <2> QED BY <2>1
<1> QED BY <1>1, <1>2

\* Of multiples of n, one below another is below it by n at least.
LEMMA MessageFits ==
  ASSUME NEW n \in Nat \ {0}, NEW k \in Nat, NEW q \in Nat, q * n < k * n
  PROVE  q * n + n <= k * n
<1>1. q < k
  <2> SUFFICES ASSUME q >= k PROVE FALSE
    OBVIOUS
  <2>1. q * n >= k * n
    BY TimesMonotone
  <2> QED BY <2>1
<1>2. k >= q + 1 /\ q + 1 \in Nat
  BY <1>1
<1>3. k * n >= (q + 1) * n
  BY <1>2, TimesMonotone
<1> QED BY <1>3

\* The n bytes of a stream after the first `from'.
LEMMA Piece ==
  ASSUME NEW s \in Seq(Byte), NEW from \in Nat, NEW n \in Nat, from + n <= Len(s)
  PROVE  /\ SubSeq(s, from + 1, from + n) \in Seq(Byte)
         /\ Len(SubSeq(s, from + 1, from + n)) = n
         /\ \A i \in 1..n : SubSeq(s, from + 1, from + n)[i] = s[from + i]
         /\ SubSeq(s, from + 1, from + n) = [i \in 1..n |-> s[from + i]]
<1>1. \A i \in (from + 1)..(from + n) : s[i] \in Byte
  BY ElementOfSeq
<1>2. SubSeq(s, from + 1, from + n) \in Seq(Byte) /\ Len(SubSeq(s, from + 1, from + n)) = n
  BY <1>1
<1>3. ASSUME NEW i \in 1..n PROVE SubSeq(s, from + 1, from + n)[i] = s[from + i]
  BY <1>3
<1> QED BY <1>2, <1>3

\* One message more.
LEMMA OneMore ==
  ASSUME NEW ms \in Seq(Seq(Byte)), NEW message \in Seq(Byte)
  PROVE  /\ Append(ms, message) \in Seq(Seq(Byte))
         /\ Len(ms) \in Nat /\ Len(Append(ms, message)) = Len(ms) + 1
         /\ DOMAIN ms = 1..Len(ms) /\ DOMAIN Append(ms, message) = 1..(Len(ms) + 1)
         /\ \A i \in 1..Len(ms) : Append(ms, message)[i] = ms[i]
         /\ Append(ms, message)[Len(ms) + 1] = message
BY AppendProperties, LenProperties

-----------------------------------------------------------------------------
(* The ring, as the delimiter uses it. *)

LEMMA SameWrite == \A data : Ring!BCBWrite(data) <=> R!BCBWrite(data)
BY DEF Ring!BCBWrite, Ring!WriteRefused, Ring!WriteAhead, Ring!WriteAround, Ring!Put, Ring!Turned,
       Ring!BCBIsFull, Ring!BCBAvailableSize, Ring!bcb,
       R!BCBWrite, R!WriteRefused, R!WriteAhead, R!WriteAround, R!Put, R!Turned,
       R!BCBIsFull, R!BCBAvailableSize, R!bcb

\* A write is refused for want of room, or because there is nothing to write;
\* otherwise it appends.
LEMMA WriteEffect ==
  ASSUME R!RingInv, NEW data \in Seq(Byte), Ring!BCBWrite(data)
  PROVE  /\ R!RingInv'
         /\ rear' = rear
         /\ ret' = 0 => Len(data) = 0 \/ current_size + Len(data) > Size
         /\ ret' # 0 => /\ R!Held' = R!Held \o data /\ current_size' = current_size + Len(data)
                        /\ ret' = Len(data) /\ current_size + Len(data) <= Size
<1>1. R!BCBWrite(data)
  BY SameWrite
<1>2. current_size \in 0..Size /\ Len(data) \in Nat
  BY R!RingFacts
<1>3. CASE R!WriteRefused(data)
  <2>1. UNCHANGED <<buffer, front, rear, current_size, buf>> /\ ret' = 0
    BY <1>3 DEF R!WriteRefused, R!bcb
  <2>2. R!RingInv'
    BY <2>1 DEF R!RingInv, R!TypeOK, R!RingOK
  <2>3. current_size = Size \/ Size - current_size < Len(data)
    BY <1>3 DEF R!WriteRefused, R!BCBIsFull, R!BCBAvailableSize
  <2> QED BY <1>2, <2>1, <2>2, <2>3
<1>4. CASE R!WriteAhead(data) \/ R!WriteAround(data)
  <2>1. Len(data) <= Size - current_size
    BY <1>4 DEF R!WriteAhead, R!WriteAround, R!BCBAvailableSize
  <2>2. Len(data) \in 0..Size+1
    BY <1>2, <2>1
  <2>3. data \in R!Chunk
    <3>1. data \in [1..Len(data) -> Byte]
      BY LenProperties
    <3> QED BY <2>2, <3>1, Zenon DEF R!Chunk
  <2>4. /\ rear' = rear /\ ret' = Len(data)
        /\ current_size' = current_size + Len(data)
    BY <1>4 DEF R!WriteAhead, R!WriteAround
  <2>5. R!RingInv'
    BY <1>4, <2>3, R!WriteAheadStep, R!WriteAroundStep
  <2>6. R!Held' = R!Held \o data
    BY <1>4, <2>3, <2>5, R!WriteAheadQueues, R!WriteAroundQueues
  <2> QED BY <1>2, <2>1, <2>4, <2>5, <2>6
<1> QED BY <1>1, <1>3, <1>4 DEF R!BCBWrite

LEMMA ReadKeepsRing ==
  ASSUME R!RingInv, NEW n \in 0..BufSize, NEW remove \in BOOLEAN, R!ReadAhead(n, remove)
  PROVE  R!RingInv'
BY R!ReadAheadStep

LEMMA ReadTakes ==
  ASSUME R!RingInv, NEW n \in 0..BufSize, NEW remove \in BOOLEAN, R!ReadAhead(n, remove)
  PROVE  /\ ret' = n /\ n <= current_size
         /\ remove => /\ current_size' = current_size - n
                      /\ rear' = R!Turned(rear + n)
                      /\ R!Held' = SubSeq(R!Held, n + 1, Len(R!Held))
<1>1. R!RingInv'
  BY ReadKeepsRing
<1>2. R!Held' = IF remove THEN SubSeq(R!Held, n + 1, Len(R!Held)) ELSE R!Held
  BY <1>1, R!ReadQueues
<1> QED BY <1>2 DEF R!ReadAhead, R!Consume

LEMMA ReadReturnsOldest ==
  ASSUME R!RingInv, NEW n \in 1..BufSize, NEW remove \in BOOLEAN, R!BCBRead(n, remove),
         ret' = n, R!Slot(rear, n - 1) >= rear
  PROVE  \A i \in 1..n : buf'[i] = R!Held[i]
BY R!OldestStep

LEMMA ReadAroundStraddles ==
  ASSUME R!RingInv, NEW n \in 0..BufSize, NEW remove \in BOOLEAN, R!ReadAround(n, remove)
  PROVE  rear + n > Size
BY R!ReadFits

\* A read from one side of the end of the ring takes the oldest bytes, if there
\* are as many.
LEMMA ReadEffect ==
  ASSUME R!RingInv, NEW n \in 1..BufSize, rear + n <= Size, Ring!BCBRead(n, TRUE)
  PROVE  /\ R!RingInv'
         /\ \/ /\ ret' = 0 /\ current_size < n
               /\ UNCHANGED <<bcb, buf>>
            \/ /\ ret' = n /\ n <= current_size
               /\ \A i \in 1..n : buf'[i] = R!Held[i]
               /\ current_size' = current_size - n
               /\ rear' = R!Turned(rear + n)
               /\ R!Held' = SubSeq(R!Held, n + 1, Len(R!Held))
<1>1. PICK remove \in BOOLEAN : remove
  BY SomeAreTrue, Zenon
<1>2. R!BCBRead(n, remove)
  BY <1>1
     DEF Ring!BCBRead, Ring!ReadRefused, Ring!ReadAhead, Ring!ReadAround, Ring!Consume,
         Ring!Get, Ring!Turned, Ring!Straddles, Ring!bcb,
         R!BCBRead, R!ReadRefused, R!ReadAhead, R!ReadAround, R!Consume,
         R!Get, R!Turned, R!Straddles, R!bcb
<1>3. n \in 0..BufSize /\ rear \in 0..Size-1
  BY R!RingFacts
<1>4. CASE R!ReadRefused(n)
  <2>1. UNCHANGED <<buffer, front, rear, current_size, buf>> /\ ret' = 0 /\ current_size < n
    BY <1>4 DEF R!ReadRefused, R!bcb
  <2>2. R!RingInv'
    BY <2>1 DEF R!RingInv, R!TypeOK, R!RingOK
  <2> QED BY <2>1, <2>2 DEF bcb
<1>5. CASE R!ReadAhead(n, remove)
  <2>1. R!RingInv'
    BY <1>3, <1>5, ReadKeepsRing
  <2>2. /\ ret' = n /\ n <= current_size
        /\ current_size' = current_size - n
        /\ rear' = R!Turned(rear + n)
        /\ R!Held' = SubSeq(R!Held, n + 1, Len(R!Held))
    BY <1>1, <1>3, <1>5, ReadTakes
  <2>3. R!Slot(rear, n - 1) >= rear
    BY <1>3 DEF R!Slot
  <2>4. \A i \in 1..n : buf'[i] = R!Held[i]
    BY <1>2, <2>2, <2>3, ReadReturnsOldest
  <2> QED BY <2>1, <2>2, <2>4
<1>6. ~R!ReadAround(n, remove)
  <2> SUFFICES ASSUME R!ReadAround(n, remove) PROVE FALSE
    OBVIOUS
  <2>1. rear + n > Size
    BY <1>3, ReadAroundStraddles
  <2> QED BY <1>3, <2>1
<1> QED BY <1>2, <1>4, <1>5, <1>6 DEF R!BCBRead

-----------------------------------------------------------------------------
(* The ring as a piece of the stream. *)

\* The bytes that were taken off the ring.
Taken == fed - current_size

\* The ring holds the bytes of the stream that were fed and not yet taken.
Holds ==
  /\ current_size <= fed
  /\ \A i \in 1..current_size : R!Held[i] = stream[Taken + i]

Types ==
  /\ stream \in Streams /\ stream \in Seq(Byte)
  /\ pc \in PCs
  /\ fed \in 0..Len(stream)
  /\ size \in Lengths \cup {0}
  /\ messages \in Seq(Seq(Byte))
  /\ interrupts \in 0..MaxInterrupts

CutType == cut \in BOOLEAN

LEMMA TypesFacts ==
  ASSUME Types
  PROVE  /\ stream \in Seq(Byte) /\ Len(stream) \in Nat
         /\ fed \in 0..Len(stream)
         /\ messages \in Seq(Seq(Byte)) /\ Len(messages) \in Nat
         /\ interrupts \in Nat
BY Bounds DEF Types

\* What Holds says, with the numbers typed: fed counts the bytes taken and those held.
LEMMA HoldsFacts ==
  ASSUME R!RingInv, Types, Holds
  PROVE  /\ current_size \in Nat /\ current_size <= fed
         /\ Taken \in Nat /\ fed = Taken + current_size
         /\ \A i \in 1..current_size : R!Held[i] = stream[Taken + i]
<1>1. current_size \in Nat /\ fed \in Nat
  BY TypesFacts, R!RingFacts
<1>2. current_size <= fed
  BY Zenon DEF Holds
<1>3. \A i \in 1..current_size : R!Held[i] = stream[Taken + i]
  BY Zenon DEF Holds
<1>4. Taken \in Nat /\ fed = Taken + current_size
  BY <1>1, <1>2 DEF Taken
<1> QED BY <1>1, <1>2, <1>3, <1>4, Zenon

LEMMA InitEffect ==
  ASSUME Init
  PROVE  /\ R!RingInv /\ Types /\ CutType /\ Holds
         /\ rear = 0 /\ Taken = 0 /\ current_size = 0
         /\ messages = <<>> /\ pc = "idle" /\ interrupts = 0 /\ ~cut
<1>1. Ring!Init
  BY Zenon DEF Init
<1>2. R!Init
  BY <1>1 DEF Ring!Init, R!Init
<1>3. R!RingInv
  BY <1>2 DEF R!Init, R!RingInv, R!TypeOK, R!RingOK, R!Slot
<1>4. rear = 0 /\ current_size = 0
  BY <1>2 DEF R!Init
<1>5. /\ stream \in Streams /\ pc = "idle" /\ fed = 0 /\ size = 0 /\ messages = <<>>
      /\ interrupts = 0
  BY Zenon DEF Init
<1>6. Types
  <2>1. stream \in Seq(Byte)
    BY <1>5, StreamsAssumption
  <2>2. 0 \in 0..Len(stream)
    BY <2>1
  <2>3. 0 \in 0..MaxInterrupts
    BY Bounds
  <2>4. messages \in Seq(Seq(Byte))
    BY <1>5, EmptySeq
  <2>5. pc \in PCs
    BY <1>5 DEF PCs
  <2> QED BY <1>5, <2>1, <2>2, <2>3, <2>4, <2>5 DEF Types
<1>7. Taken = 0 /\ Holds
  BY <1>4, <1>5 DEF Taken, Holds
<1>8. CutType /\ ~cut
  BY Zenon DEF Init, CutType
<1> QED BY <1>3, <1>4, <1>5, <1>6, <1>7, <1>8, Zenon

\* A step that leaves the ring, the stream and what was fed alone.
LEMMA RingKept ==
  ASSUME R!RingInv, UNCHANGED <<bcb, buf, stream, fed>>, ret' \in Nat
  PROVE  /\ R!RingInv' /\ rear' = rear /\ current_size' = current_size /\ Taken' = Taken
         /\ Holds => Holds'
<1>1. UNCHANGED <<buffer, front, rear, current_size, buf>>
  BY DEF bcb
<1>2. R!RingInv'
  BY <1>1 DEF R!RingInv, R!TypeOK, R!RingOK
<1>3. R!Held' = R!Held
  BY <1>1 DEF R!Held
<1>4. Taken' = Taken
  BY <1>1 DEF Taken
<1> QED BY <1>1, <1>2, <1>3, <1>4 DEF Holds

\* Process() puts the next n bytes of the stream behind those that wait, or its
\* assertion fails: more bytes than the ring ever holds are refused.
LEMMA ProcessEffect ==
  ASSUME R!RingInv, Types, Holds, NEW n \in Lengths, Process(n)
  PROVE  /\ R!RingInv' /\ Types' /\ CutType' /\ ~(cut') /\ rear' = rear
         /\ UNCHANGED <<stream, messages, interrupts>>
         /\ pc = "idle" /\ size' = n /\ n \in Nat
         /\ \/ /\ pc' = "check" /\ Holds' /\ Taken' = Taken
               /\ current_size' = current_size + n
            \/ pc' = "aborted" /\ (n = 0 \/ current_size + n > Size)
<1>1. /\ stream \in Streams /\ stream \in Seq(Byte) /\ fed \in 0..Len(stream)
      /\ messages \in Seq(Seq(Byte)) /\ interrupts \in 0..MaxInterrupts
      /\ n \in Nat
  BY Bounds DEF Types
<1> DEFINE next == SubSeq(stream, fed + 1, fed + n)
           stray == [i \in 1..n |-> Calloced]
<1>2. PICK data :
        /\ \/ n <= Len(stream) - fed /\ data = next
           \/ n > Size /\ data = stray
        /\ Ring!BCBWrite(data)
  <2>1. \/ n <= Len(stream) - fed /\ Ring!BCBWrite(next)
        \/ n > Size /\ Ring!BCBWrite(stray)
    BY Zenon DEF Process
  <2> QED BY <2>1, Zenon
<1>3. /\ pc = "idle" /\ fed' = fed + ret' /\ size' = n
      /\ pc' = (IF ret' = 0 THEN "aborted" ELSE "check")
      /\ stream' = stream /\ messages' = messages /\ interrupts' = interrupts
  <2>1. pc = "idle" /\ fed' = fed + ret' /\ size' = n
    BY Zenon DEF Process
  <2>2. pc' = (IF ret' = 0 THEN "aborted" ELSE "check")
    BY Zenon DEF Process
  <2>3. stream' = stream /\ messages' = messages /\ interrupts' = interrupts
    BY Zenon DEF Process
  <2> QED BY <2>1, <2>2, <2>3
<1>4. /\ data \in Seq(Byte) /\ Len(data) = n
      /\ n <= Size => n <= Len(stream) - fed /\ \A i \in 1..n : data[i] = stream[fed + i]
  <2>1. CASE n <= Len(stream) - fed /\ data = next
    <3>1. fed \in Nat /\ fed + n <= Len(stream)
      BY <1>1, <2>1
    <3>2. next \in Seq(Byte) /\ Len(next) = n /\ \A i \in 1..n : next[i] = stream[fed + i]
      BY <1>1, <3>1, Piece
    <3> HIDE DEF next
    <3> QED BY <2>1, <3>2, Zenon
  <2>2. CASE n > Size /\ data = stray
    <3>1. stray \in Seq(Byte) /\ Len(stray) = n
      BY <1>1
    <3>2. ~(n <= Size)
      BY <1>1, <2>2
    <3> HIDE DEF stray
    <3> QED BY <2>2, <3>1, <3>2, Zenon
  <2> QED BY <1>2, <2>1, <2>2, Zenon
<1> HIDE DEF next, stray
<1>5. /\ R!RingInv' /\ rear' = rear
      /\ ret' = 0 => n = 0 \/ current_size + n > Size
      /\ ret' # 0 => /\ R!Held' = R!Held \o data /\ current_size' = current_size + n
                     /\ ret' = n /\ current_size + n <= Size
  BY <1>2, <1>4, WriteEffect
<1>6. CutType' /\ ~(cut')
  BY Zenon DEF Process, CutType
<1>7. ASSUME fed' \in 0..Len(stream) PROVE Types'
  <2>1. pc' \in PCs
    BY <1>3 DEF PCs
  <2> QED BY <1>1, <1>3, <1>7, <2>1 DEF Types
<1>8. CASE ret' = 0
  <2>1. fed' \in 0..Len(stream)
    BY <1>1, <1>3, <1>8
  <2> QED BY <1>1, <1>3, <1>5, <1>6, <1>7, <1>8, <2>1
<1>9. CASE ret' # 0
  <2>1. /\ R!Held' = R!Held \o data /\ current_size' = current_size + n
        /\ ret' = n /\ current_size + n <= Size
    BY <1>5, <1>9
  <2>2. /\ R!Held \in Seq(Byte) /\ Len(R!Held) = current_size /\ current_size \in Nat
    BY R!HeldIs, R!RingFacts
  <2>3. /\ current_size <= fed /\ Taken \in Nat /\ fed = Taken + current_size
        /\ \A i \in 1..current_size : R!Held[i] = stream[Taken + i]
    BY HoldsFacts, Zenon
  <2>4. n <= Len(stream) - fed /\ \A i \in 1..n : data[i] = stream[fed + i]
    BY <1>1, <1>4, <2>1, <2>2
  <2>5. fed' = fed + n /\ fed' \in 0..Len(stream)
    BY <1>1, <1>3, <2>1, <2>4
  <2>6. Taken' = Taken /\ current_size' <= fed'
    BY <1>1, <2>1, <2>2, <2>3, <2>5 DEF Taken
  <2>7. ASSUME NEW i \in 1..(current_size + n)
        PROVE  (R!Held \o data)[i] = stream[Taken + i]
    <3>1. (R!Held \o data)[i] = IF i <= current_size THEN R!Held[i] ELSE data[i - current_size]
      BY <1>4, <2>2, <2>7
    <3>2. CASE i <= current_size
      BY <2>2, <2>3, <2>7, <3>1, <3>2
    <3>3. CASE i > current_size
      <4>1. i - current_size \in 1..n
        BY <1>1, <2>2, <2>7, <3>3
      <4>2. data[i - current_size] = stream[fed + (i - current_size)]
        BY <2>4, <4>1
      <4>3. fed + (i - current_size) = Taken + i
        BY <2>2, <2>3, <2>7
      <4> QED BY <2>2, <2>7, <3>1, <3>3, <4>2, <4>3
    <3>4. i <= current_size \/ i > current_size
      BY <2>2, <2>7
    <3> QED BY <3>2, <3>3, <3>4, Zenon
  <2>8. Holds'
    BY <1>3, <2>1, <2>6, <2>7 DEF Holds
  <2> QED BY <1>1, <1>3, <1>5, <1>6, <1>7, <1>9, <2>1, <2>5, <2>6, <2>8
<1> QED BY <1>8, <1>9

\* A length that recvfrom() does not return, like a failed call's -1 in 16 bits,
\* is beyond the ring.
LengthsReadOrBeyond == \A n \in Lengths : n \in 0..MaxChunk \/ n > Size

\* Taking n bytes off the ring takes the next n bytes of the stream.
LEMMA TakeEffect ==
  ASSUME R!RingInv, Types, Holds, NEW n \in 1..BufSize, rear + n <= Size,
         Ring!BCBRead(n, TRUE), UNCHANGED <<stream, fed>>
  PROVE  /\ R!RingInv'
         /\ \/ ret' = 0 /\ current_size < n /\ UNCHANGED <<bcb, buf>>
            \/ /\ ret' = n /\ n <= current_size /\ current_size' = current_size - n
               /\ rear' = R!Turned(rear + n)
               /\ Holds' /\ Taken' = Taken + n
               /\ SubSeq(buf', 1, n) = SubSeq(stream, Taken + 1, Taken + n)
               /\ SubSeq(buf', 1, n) \in Seq(Byte)
<1>1. /\ stream \in Seq(Byte) /\ fed \in 0..Len(stream) /\ Len(stream) \in Nat
      /\ n \in Nat \ {0}
  BY TypesFacts
<1>2. /\ R!RingInv'
      /\ \/ /\ ret' = 0 /\ current_size < n
            /\ UNCHANGED <<bcb, buf>>
         \/ /\ ret' = n /\ n <= current_size
            /\ \A i \in 1..n : buf'[i] = R!Held[i]
            /\ current_size' = current_size - n
            /\ rear' = R!Turned(rear + n)
            /\ R!Held' = SubSeq(R!Held, n + 1, Len(R!Held))
  BY ReadEffect
<1> SUFFICES ASSUME /\ ret' = n /\ n <= current_size
                    /\ \A i \in 1..n : buf'[i] = R!Held[i]
                    /\ current_size' = current_size - n
                    /\ rear' = R!Turned(rear + n)
                    /\ R!Held' = SubSeq(R!Held, n + 1, Len(R!Held))
             PROVE  /\ Holds' /\ Taken' = Taken + n
                    /\ SubSeq(buf', 1, n) = SubSeq(stream, Taken + 1, Taken + n)
                    /\ SubSeq(buf', 1, n) \in Seq(Byte)
  BY <1>2
<1>3. /\ R!Held \in Seq(Byte) /\ Len(R!Held) = current_size /\ current_size \in Nat
  BY R!HeldIs, R!RingFacts
<1>4. /\ current_size <= fed /\ Taken \in Nat /\ fed = Taken + current_size
      /\ \A i \in 1..current_size : R!Held[i] = stream[Taken + i]
  BY HoldsFacts, Zenon
<1>5. Taken' = Taken + n /\ current_size' <= fed'
  <2>1. current_size \in Nat /\ fed \in Nat /\ n \in Nat /\ current_size <= fed
    BY <1>1, <1>3, HoldsFacts
  <2>2. fed' = fed /\ current_size' = current_size - n /\ Taken' = fed' - current_size'
    BY DEF Taken
  <2>3. current_size' <= fed'
    BY <2>1, <2>2
  <2>4. fed - (current_size - n) = (fed - current_size) + n
    BY <2>1
  <2> QED BY <2>2, <2>3, <2>4 DEF Taken
<1>6. ASSUME NEW i \in 1..current_size' PROVE R!Held'[i] = stream[Taken' + i]
  <2>1. n + i \in 1..current_size /\ i \in 1..(current_size - n)
    BY <1>1, <1>3
  <2>2. R!Held'[i] = R!Held[n + i]
    BY <1>1, <1>3, <2>1
  <2>3. R!Held[n + i] = stream[Taken + (n + i)]
    BY <1>4, <2>1
  <2>4. Taken + (n + i) = Taken' + i
    BY <1>1, <1>4, <1>5, <2>1
  <2> QED BY <2>2, <2>3, <2>4
<1>7. Holds'
  BY <1>5, <1>6 DEF Holds
<1>8. buf' \in [1..BufSize -> Byte]
  BY <1>2 DEF R!RingInv, R!TypeOK
<1>9. SubSeq(buf', 1, n) \in Seq(Byte) /\ SubSeq(buf', 1, n) = [i \in 1..n |-> buf'[i]]
  BY <1>1, <1>8
<1>10. SubSeq(stream, Taken + 1, Taken + n) = [i \in 1..n |-> stream[Taken + i]]
  <2>1. Taken + n <= Len(stream)
    BY <1>1, <1>3, <1>4
  <2> QED BY <1>1, <1>4, <2>1, Piece
<1>11. [i \in 1..n |-> buf'[i]] = [i \in 1..n |-> stream[Taken + i]]
  <2>1. \A i \in 1..n : buf'[i] = stream[Taken + i]
    BY <1>1, <1>3, <1>4
  <2> QED BY <2>1
<1> QED BY <1>5, <1>7, <1>9, <1>10, <1>11
=============================================================================
