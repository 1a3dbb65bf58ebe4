------------------------ MODULE MsgDelimiterFixedProofs ------------------------
(***************************************************************************)
(* What MsgDelimiterFixed gives the application is what Process() was      *)
(* called with, message by message, for every message size that divides    *)
(* the ring.  The reads of such a size never lie across the end of the     *)
(* ring, where BCBRead() misplaces a piece.                                *)
(***************************************************************************)
EXTENDS MsgDelimiterFixed, MsgDelimiterProofs

USE RingAssumptions, Sizes

\* A message size that divides the ring, as ten bytes divide 10240.
Divides == \E k \in Nat : Size = k * fixed_size

-----------------------------------------------------------------------------
(* Where rear is a multiple of the message size, no message lies across    *)
(* the end of the ring.                                                    *)

Aligned == \E q \in Nat : rear = q * fixed_size

LEMMA MessageInRing ==
  ASSUME R!RingInv, Divides, Aligned PROVE rear + fixed_size <= Size
<1>1. fixed_size \in Nat \ {0} /\ rear \in 0..Size-1
  BY FixedSizeAssumption, R!RingFacts
<1>2. PICK q \in Nat : rear = q * fixed_size
  BY DEF Aligned
<1>3. PICK k \in Nat : Size = k * fixed_size
  BY DEF Divides
<1>4. q * fixed_size < k * fixed_size
  BY <1>1, <1>2, <1>3
<1> QED BY <1>1, <1>2, <1>3, <1>4, MessageFits

LEMMA AlignedNext ==
  ASSUME rear \in 0..Size-1, Aligned, rear' = R!Turned(rear + fixed_size)
  PROVE  Aligned'
<1>1. PICK q \in Nat : rear = q * fixed_size
  BY DEF Aligned
<1>2. rear' = 0 \/ rear' = rear + fixed_size
  BY DEF R!Turned
<1>3. 0 = 0 * fixed_size /\ rear + fixed_size = (q + 1) * fixed_size /\ q + 1 \in Nat
  BY <1>1, FixedSizeAssumption
<1>4. \E j \in Nat : rear' = j * fixed_size
  BY <1>2, <1>3
<1> QED BY <1>4 DEF Aligned

-----------------------------------------------------------------------------
(* The invariant: what was taken off the ring was delivered. *)

\* Bytes delivered so far.
Delivered == Len(messages) * fixed_size

HoldsRest == pc # "aborted" => Holds /\ Taken = Delivered

Emptied == pc = "idle" /\ ~cut => current_size < fixed_size

Inv ==
  /\ R!RingInv
  /\ Aligned
  /\ Types
  /\ CutType
  /\ HoldsRest
  /\ DeliversStream
  /\ Emptied

LEMMA InvInit == Init => Inv
<1> SUFFICES ASSUME Init PROVE Inv
  OBVIOUS
<1>1. /\ R!RingInv /\ Types /\ CutType /\ Holds
      /\ rear = 0 /\ Taken = 0 /\ current_size = 0
      /\ messages = <<>> /\ pc = "idle" /\ interrupts = 0 /\ ~cut
  BY InitEffect
<1>2. fixed_size \in Nat \ {0}
  BY FixedSizeAssumption
<1>3. Aligned
  <2>1. 0 \in Nat /\ rear = 0 * fixed_size
    BY <1>1, <1>2
  <2> QED BY <2>1 DEF Aligned
<1>4. HoldsRest
  <2>1. Delivered = 0
    BY <1>1, <1>2 DEF Delivered
  <2> QED BY <1>1, <2>1 DEF HoldsRest
<1>5. DeliversStream
  BY <1>1 DEF DeliversStream
<1>6. current_size < fixed_size
  BY <1>1, <1>2
<1> QED BY <1>1, <1>3, <1>4, <1>5, <1>6, Zenon DEF Inv, Emptied

LEMMA StreamSplit ==
  ASSUME R!RingInv, Types PROVE fed = Taken + current_size
BY TypesFacts, R!RingFacts DEF Taken

\* What the steps that touch neither the ring nor the messages leave as it was.
LEMMA RestKept ==
  ASSUME Inv, UNCHANGED <<bcb, buf, ret, stream, fed, size, messages>>,
         pc # "aborted" \/ pc' = pc
  PROVE  R!RingInv' /\ Aligned' /\ HoldsRest' /\ DeliversStream'
<1>1. /\ R!RingInv' /\ rear' = rear /\ Taken' = Taken
      /\ Holds => Holds'
  <2>1. ret' \in Nat
    BY DEF Inv, R!RingInv, R!TypeOK
  <2> QED BY <2>1, RingKept DEF Inv
<1>2. Aligned'
  BY <1>1 DEF Inv, Aligned
<1>3. HoldsRest'
  BY <1>1 DEF Inv, HoldsRest, Delivered
<1>4. DeliversStream'
  BY DEF Inv, DeliversStream
<1> QED BY <1>1, <1>2, <1>3, <1>4

LEMMA WriteStep ==
  ASSUME Inv, NEW n \in Lengths, Process(n) PROVE Inv'
<1>1. pc = "idle"
  BY Zenon DEF Process
<1>2. Holds /\ Taken = Delivered
  BY <1>1 DEF Inv, HoldsRest
<1>3. /\ R!RingInv' /\ Types' /\ CutType' /\ ~(cut') /\ rear' = rear
      /\ UNCHANGED <<stream, messages, interrupts>>
      /\ \/ pc' = "check" /\ Holds' /\ Taken' = Taken
         \/ pc' = "aborted"
  BY <1>2, ProcessEffect DEF Inv
<1>4. Aligned'
  BY <1>3 DEF Inv, Aligned
<1>5. HoldsRest'
  BY <1>2, <1>3 DEF HoldsRest, Delivered
<1>6. DeliversStream'
  BY <1>3 DEF Inv, DeliversStream
<1>7. pc' # "idle"
  BY <1>3
<1> QED BY <1>3, <1>4, <1>5, <1>6, <1>7, Zenon DEF Inv, Emptied

LEMMA TakeStep == ASSUME Inv, Divides, Take PROVE Inv'
<1>1. /\ stream \in Streams /\ stream \in Seq(Byte) /\ fed \in 0..Len(stream)
      /\ messages \in Seq(Seq(Byte)) /\ interrupts \in 0..MaxInterrupts
      /\ size \in Lengths \cup {0}
      /\ fixed_size \in Nat \ {0} /\ fixed_size \in 1..BufSize
  BY FixedSizeAssumption DEF Inv, Types
<1>2. /\ pc = "take"
      /\ IF ret' = 0 THEN pc' = "idle" /\ UNCHANGED messages
                     ELSE pc' = "callback" /\ messages' = Append(messages, SubSeq(buf', 1, ret'))
      /\ stream' = stream /\ fed' = fed /\ size' = size /\ interrupts' = interrupts
      /\ Ring!BCBRead(fixed_size, TRUE)
  BY Zenon DEF Take, Received
<1>3. Holds /\ Taken = Delivered
  BY <1>2 DEF Inv, HoldsRest
<1>4. rear + fixed_size <= Size
  BY MessageInRing DEF Inv
<1>5. /\ R!RingInv'
      /\ \/ ret' = 0 /\ current_size < fixed_size /\ UNCHANGED <<bcb, buf>>
         \/ /\ ret' = fixed_size
            /\ rear' = R!Turned(rear + fixed_size)
            /\ Holds' /\ Taken' = Taken + fixed_size
            /\ SubSeq(buf', 1, fixed_size) = SubSeq(stream, Taken + 1, Taken + fixed_size)
            /\ SubSeq(buf', 1, fixed_size) \in Seq(Byte)
  BY <1>1, <1>2, <1>3, <1>4, TakeEffect DEF Inv
<1>6. CutType'
  <2>1. cut' = cut
    BY Zenon DEF Take
  <2> QED BY <2>1, Zenon DEF Inv, CutType
<1>7. CASE ret' = 0
  <2>1. UNCHANGED <<bcb, buf>> /\ current_size < fixed_size
    <3>1. ret' # fixed_size
      BY <1>1, <1>7
    <3> QED BY <1>5, <3>1, Zenon
  <2>2. UNCHANGED <<messages, stream, fed, size, interrupts>> /\ pc' = "idle"
    BY <1>2, <1>7
  <2>3. R!Held' = R!Held /\ current_size' = current_size /\ rear' = rear
    BY <2>1 DEF R!Held, bcb
  <2>4. Types'
    BY <1>1, <2>2 DEF Types, PCs
  <2>5. HoldsRest'
    <3>1. /\ R!RingInv' /\ Taken' = Taken
          /\ Holds => Holds'
      BY <1>7, <2>1, <2>2, RingKept DEF Inv
    <3> QED BY <1>3, <2>2, <3>1 DEF HoldsRest, Delivered
  <2>6. DeliversStream'
    BY <2>2 DEF Inv, DeliversStream
  <2>7. current_size' < fixed_size
    BY <2>1, <2>3
  <2>8. Aligned'
    BY <2>3 DEF Inv, Aligned
  <2> QED BY <1>5, <1>6, <2>4, <2>5, <2>6, <2>7, <2>8, Zenon DEF Inv, Emptied
<1>8. CASE ret' # 0
  <2> DEFINE message == SubSeq(buf', 1, fixed_size)
             m == Len(messages)
  <2>1. /\ ret' = fixed_size
        /\ rear' = R!Turned(rear + fixed_size)
        /\ Holds' /\ Taken' = Taken + fixed_size
        /\ message = SubSeq(stream, Taken + 1, Taken + fixed_size)
        /\ message \in Seq(Byte)
    BY <1>5, <1>8, Zenon
  <2>2. /\ pc' = "callback" /\ messages' = Append(messages, message)
        /\ UNCHANGED <<stream, fed, size, interrupts>>
    BY <1>2, <1>8, <2>1
  <2> HIDE DEF message
  <2>3. /\ messages' \in Seq(Seq(Byte)) /\ m \in Nat /\ Len(messages') = m + 1
        /\ \A i \in 1..m : messages'[i] = messages[i]
        /\ messages'[m + 1] = message
    BY <1>1, <2>1, <2>2, OneMore
  <2>4. Delivered = m * fixed_size /\ Delivered' = Delivered + fixed_size
    BY <1>1, <2>3 DEF Delivered
  <2>5. Types'
    BY <1>1, <2>2, <2>3 DEF Types, PCs
  <2>6. HoldsRest'
    BY <1>3, <2>1, <2>4 DEF HoldsRest
  <2>7. message = SubSeq(stream, m * fixed_size + 1, (m + 1) * fixed_size)
    <3>1. m * fixed_size + fixed_size = (m + 1) * fixed_size
      BY <1>1, <2>3
    <3> QED BY <1>3, <2>1, <2>4, <3>1
  <2>8. DeliversStream'
    <3>1. DOMAIN messages = 1..m /\ DOMAIN messages' = 1..(m + 1)
      BY <1>1, <2>3, LenProperties
    <3>2. ASSUME NEW i \in 1..(m + 1)
          PROVE  messages'[i] = SubSeq(stream, (i - 1) * fixed_size + 1, i * fixed_size)
      <4>1. CASE i \in 1..m
        <5>1. messages[i] = SubSeq(stream, (i - 1) * fixed_size + 1, i * fixed_size)
          BY <3>1, <4>1 DEF Inv, DeliversStream
        <5> QED BY <2>3, <4>1, <5>1
      <4>2. CASE i = m + 1
        <5>1. i - 1 = m
          BY <2>3, <4>2
        <5> QED BY <2>3, <2>7, <4>2, <5>1
      <4> QED BY <2>3, <3>2, <4>1, <4>2
    <3> QED BY <2>2, <3>1, <3>2 DEF DeliversStream
  <2>9. Aligned'
    <3>1. rear \in 0..Size-1
      BY R!RingFacts DEF Inv
    <3> QED BY <2>1, <3>1, AlignedNext DEF Inv
  <2>10. pc' # "idle"
    BY <2>2
  <2> QED BY <1>5, <1>6, <2>5, <2>6, <2>8, <2>9, <2>10, Zenon DEF Inv, Emptied
<1> QED BY <1>7, <1>8

LEMMA InvStep == Inv /\ Divides /\ [Next]_vars => Inv'
<1> SUFFICES ASSUME Inv, Divides, [Next]_vars PROVE Inv'
  OBVIOUS
<1>1. /\ stream \in Streams /\ stream \in Seq(Byte) /\ fed \in 0..Len(stream) /\ pc \in PCs
      /\ size \in Lengths \cup {0} /\ messages \in Seq(Seq(Byte)) /\ interrupts \in 0..MaxInterrupts
  BY DEF Inv, Types
<1>2. CASE Feed
  <2>1. PICK n \in Lengths : Process(n)
    BY <1>2, Zenon DEF Feed
  <2> QED BY <2>1, WriteStep
<1>3. CASE Check
  <2>1. UNCHANGED <<bcb, buf, ret, stream, fed, size, messages>> /\ pc # "aborted"
    <3>1. UNCHANGED <<bcb, buf, ret, stream, fed, size, messages>> /\ pc = "check"
      BY <1>3, Zenon DEF Check
    <3> QED BY <3>1
  <2>2. pc' = (IF IsFlushable THEN "take" ELSE "idle") /\ interrupts' = interrupts
    BY <1>3, Zenon DEF Check
  <2>3. Types'
    BY <1>1, <2>1, <2>2 DEF Types, PCs
  <2>4. CutType'
    <3>1. cut' = cut
      BY <1>3, Zenon DEF Check
    <3> QED BY <3>1, Zenon DEF Inv, CutType
  <2>5. pc' = "idle" => current_size' < fixed_size
    <3>1. current_size' = current_size /\ current_size \in Nat /\ fixed_size \in Nat \ {0}
      BY <2>1, R!RingFacts, FixedSizeAssumption DEF Inv, bcb
    <3>2. pc' = "idle" => ~IsFlushable
      BY <2>2
    <3>3. ~IsFlushable => current_size < fixed_size
      BY <3>1 DEF IsFlushable
    <3> QED BY <3>1, <3>2, <3>3
  <2> QED BY <2>1, <2>3, <2>4, <2>5, RestKept, Zenon DEF Inv, Emptied
<1>4. CASE Take
  BY <1>4, TakeStep
<1>5. CASE Return("take")
  <2>1. /\ UNCHANGED <<bcb, buf, ret, stream, fed, size, messages>> /\ interrupts' = interrupts
        /\ pc = "callback" /\ pc' = "take"
    BY <1>5, Zenon DEF Return
  <2>2. Types' /\ pc # "aborted" /\ pc' # "idle"
    BY <1>1, <2>1 DEF Types, PCs
  <2>3. CutType'
    <3>1. cut' = cut
      BY <1>5, Zenon DEF Return
    <3> QED BY <3>1, Zenon DEF Inv, CutType
  <2> QED BY <2>1, <2>2, <2>3, RestKept, Zenon DEF Inv, Emptied
<1>6. CASE Interrupt
  <2>1. /\ UNCHANGED <<bcb, buf, ret, stream, fed, size, messages>> /\ pc = "callback" /\ pc' = "idle"
        /\ interrupts < MaxInterrupts /\ interrupts' = interrupts + 1
    BY <1>6, Zenon DEF Interrupt
  <2>2. Types' /\ pc # "aborted"
    <3>1. interrupts + 1 \in 0..MaxInterrupts
      BY <1>1, <2>1, Bounds
    <3> QED BY <1>1, <2>1, <3>1 DEF Types, PCs
  <2>3. CutType' /\ cut'
    BY <1>6, Zenon DEF Interrupt, CutType
  <2> QED BY <2>1, <2>2, <2>3, RestKept, Zenon DEF Inv, Emptied
<1>7. CASE UNCHANGED vars
  <2>1. /\ UNCHANGED <<bcb, buf, ret, stream, fed, size, messages>> /\ interrupts' = interrupts
        /\ pc' = pc
    BY <1>7, Zenon DEF vars
  <2>2. cut' = cut
    BY <1>7, Zenon DEF vars
  <2>3. Types'
    BY <1>1, <2>1 DEF Types
  <2>4. CutType' /\ (Emptied')
    <3>1. current_size' = current_size
      BY <2>1, Zenon DEF bcb
    <3> QED BY <2>1, <2>2, <3>1, Zenon DEF Inv, CutType, Emptied
  <2>5. R!RingInv' /\ Aligned' /\ HoldsRest' /\ DeliversStream'
    BY <2>1, RestKept
  <2> QED BY <2>3, <2>4, <2>5, Zenon DEF Inv
<1> QED BY <1>2, <1>3, <1>4, <1>5, <1>6, <1>7, Zenon DEF Next

LEMMA Invariant == ASSUME Divides PROVE Spec => []Inv
<1>1. Inv /\ [Next]_vars => Inv'
  BY InvStep
<1> QED BY <1>1, InvInit, PTL DEF Spec

-----------------------------------------------------------------------------
(* The theorems.  Each is for a message size that divides the ring.        *)

\* The delimiter's variables keep their types, and the ring's indexes and
\* count stay within the ring: Process(), ProcessMsg() and the callback.
THEOREM TypeCorrect == ASSUME Divides PROVE Spec => []TypeOK
<1>1. R!RingInv => Ring!TypeOK
  BY DEF R!RingInv, R!TypeOK, Ring!TypeOK
<1>2. Inv => TypeOK
  BY <1>1, Zenon DEF Inv, Types, CutType, TypeOK
<1> QED BY <1>2, Invariant, PTL

\* `received' is given what Process() was called with, cut every fixed_size
\* bytes: no byte is lost, repeated or moved, whichever client's the bytes are,
\* for any lengths, any number of turns of the ring and any cancellations in
\* the callback.
THEOREM StreamDelivered == ASSUME Divides PROVE Spec => []DeliversStream
<1>1. Inv => DeliversStream
  BY Zenon DEF Inv
<1> QED BY <1>1, Invariant, PTL

\* When a Process() that was not cancelled returns, less than one message is
\* in the ring, and everything else it was ever given has been delivered.
THEOREM NothingLeft == ASSUME Divides PROVE Spec => []NothingWaits
<1>1. Inv => NothingWaits
  <2>1. ASSUME Inv, pc = "idle" PROVE fed = Len(messages) * fixed_size + current_size
    BY <2>1, StreamSplit DEF Inv, HoldsRest, Delivered
  <2>2. Inv /\ pc = "idle" /\ ~cut => current_size < fixed_size
    BY Zenon DEF Inv, Emptied
  <2> QED BY <2>1, <2>2, Zenon DEF NothingWaits
<1> QED BY <1>1, Invariant, PTL

-----------------------------------------------------------------------------
(* How much room the ring needs.  Every Process() that is cancelled leaves *)
(* at most what it was given and the rest before it, less the one message  *)
(* its callback has.                                                       *)

\* What a cancelled Process() may add to the ring for good.
Excess == IF MaxChunk > fixed_size THEN MaxChunk - fixed_size ELSE 0

\* The ring takes the largest chunk after the last of the cancellations.
Roomy == (fixed_size - 1) + MaxInterrupts * Excess + MaxChunk <= Size

Slack == interrupts * Excess

\* An upper bound of what the ring holds, for each place in Process().
Bounded ==
  /\ pc = "idle" => current_size <= (fixed_size - 1) + Slack
  /\ pc \in {"check", "take"} => current_size <= (fixed_size - 1) + Slack + MaxChunk
  /\ pc = "callback" => current_size <= Slack + MaxChunk - 1

CutIdle == cut => pc = "idle"

RoomInv == Inv /\ Bounded /\ CutIdle /\ DiesOnlyWithoutBytes

LEMMA SlackFacts ==
  ASSUME Types
  PROVE  /\ Excess \in Nat /\ Excess >= MaxChunk - fixed_size
         /\ MaxChunk \in Nat /\ fixed_size \in Nat \ {0}
         /\ Slack \in Nat /\ Slack <= MaxInterrupts * Excess
<1>1. MaxChunk \in Nat /\ fixed_size \in Nat \ {0} /\ MaxInterrupts \in Nat
  BY Bounds, FixedSizeAssumption
<1>2. Excess \in Nat /\ Excess >= MaxChunk - fixed_size
  BY <1>1 DEF Excess
<1>3. interrupts \in Nat /\ MaxInterrupts >= interrupts
  BY <1>1 DEF Types
<1>4. MaxInterrupts * Excess >= interrupts * Excess
  BY <1>1, <1>2, <1>3, TimesMonotone
<1>5. interrupts * Excess \in Nat
  BY <1>2, <1>3
<1>6. MaxInterrupts * Excess \in Nat
  BY <1>1, <1>2
<1> QED BY <1>1, <1>2, <1>4, <1>5, <1>6 DEF Slack

LEMMA RoomInit == Init => RoomInv
<1> SUFFICES ASSUME Init PROVE RoomInv
  OBVIOUS
<1>1. Inv
  BY InvInit
<1>2. pc = "idle" /\ Ring!Init
  BY Zenon DEF Init
<1>3. Slack \in Nat /\ fixed_size \in Nat \ {0} /\ current_size = 0
  BY <1>1, <1>2, SlackFacts DEF Inv, Ring!Init
<1>4. Bounded
  BY <1>2, <1>3 DEF Bounded
<1>5. CutIdle
  BY <1>2, Zenon DEF CutIdle
<1>6. DiesOnlyWithoutBytes
  BY <1>2 DEF DiesOnlyWithoutBytes
<1> QED BY <1>1, <1>4, <1>5, <1>6, Zenon DEF RoomInv

LEMMA RoomStep == RoomInv /\ Divides /\ LengthsReadOrBeyond /\ Roomy /\ [Next]_vars => RoomInv'
<1> SUFFICES ASSUME RoomInv, Divides, LengthsReadOrBeyond, Roomy, [Next]_vars PROVE RoomInv'
  OBVIOUS
<1>1. Inv /\ Inv'
  BY InvStep, Zenon DEF RoomInv
<1>2. Bounded /\ DiesOnlyWithoutBytes
  BY DEF RoomInv
<1>3. /\ Excess \in Nat /\ Excess >= MaxChunk - fixed_size
      /\ MaxChunk \in Nat /\ fixed_size \in Nat \ {0}
      /\ Slack \in Nat /\ Slack <= MaxInterrupts * Excess
  BY <1>1, SlackFacts DEF Inv
<1>4. current_size \in Nat /\ R!RingInv
  BY <1>1, R!RingFacts DEF Inv
<1>5. interrupts' = interrupts => Slack' = Slack
  BY DEF Slack
<1>6. messages \in Seq(Seq(Byte)) /\ interrupts \in Nat /\ fed \in Nat
  BY <1>1 DEF Inv, Types
<1>7. CASE Feed
  <2>1. PICK n \in Lengths : Process(n)
    BY <1>7, Zenon DEF Feed
  <2>2. /\ pc = "idle" /\ size' = n /\ interrupts' = interrupts /\ n \in Nat
        /\ \/ pc' = "check" /\ current_size' = current_size + n
           \/ pc' = "aborted" /\ (n = 0 \/ current_size + n > Size)
    <3>1. pc = "idle"
      BY <2>1, Zenon DEF Process
    <3>2. R!RingInv /\ Types /\ Holds
      BY <1>1, <3>1 DEF Inv, HoldsRest
    <3> QED BY <2>1, <3>2, ProcessEffect
  <2>3. current_size <= (fixed_size - 1) + Slack
    BY <1>2, <2>2 DEF Bounded
  <2>4. n \in 0..MaxChunk \/ n > Size
    BY <2>1, Zenon DEF LengthsReadOrBeyond
  <2>5. n \in 1..MaxChunk => current_size + n <= Size
    BY <1>3, <1>4, <2>3, Sizes, Bounds DEF Roomy
  <2>6. pc' = "check" => n <= MaxChunk
    <3>1. current_size' <= Size
      <4>1. R!RingInv'
        BY <1>1 DEF Inv
      <4> QED BY <4>1, Sizes DEF R!RingInv, R!TypeOK
    <3> QED BY <1>3, <1>4, <2>2, <2>4, <3>1, Sizes
  <2>7. Bounded'
    BY <1>3, <1>4, <1>5, <2>2, <2>3, <2>6 DEF Bounded
  <2>8. CutIdle'
    BY <2>1, Zenon DEF Process, CutIdle
  <2>9. DiesOnlyWithoutBytes'
    <3> SUFFICES ASSUME pc' = "aborted", n \in 1..MaxChunk PROVE FALSE
      BY <2>2 DEF DiesOnlyWithoutBytes
    <3>1. n = 0 \/ current_size + n > Size
      BY <2>2
    <3> QED BY <1>4, <2>2, <2>5, <3>1, Sizes
  <2> QED BY <1>1, <2>7, <2>8, <2>9, Zenon DEF RoomInv
<1>8. CASE Check
  <2>1. /\ pc = "check" /\ pc' = (IF IsFlushable THEN "take" ELSE "idle")
        /\ UNCHANGED bcb /\ interrupts' = interrupts
    BY <1>8, Zenon DEF Check
  <2>2. current_size' = current_size
    BY <2>1 DEF bcb
  <2>3. ~cut /\ ~(cut')
    <3>1. cut' = cut
      BY <1>8, Zenon DEF Check
    <3>2. pc # "idle"
      BY <2>1
    <3> QED BY <3>1, <3>2, Zenon DEF RoomInv, CutIdle
  <2>4. pc' = "idle" => current_size' < fixed_size
    BY <1>1, <2>3, Zenon DEF Inv, Emptied
  <2>5. Bounded'
    BY <1>2, <1>3, <1>4, <1>5, <2>1, <2>2, <2>4 DEF Bounded
  <2>6. DiesOnlyWithoutBytes'
    BY <2>1 DEF DiesOnlyWithoutBytes
  <2>7. CutIdle'
    BY <2>3, Zenon DEF CutIdle
  <2> QED BY <1>1, <2>5, <2>6, <2>7, Zenon DEF RoomInv
<1>9. CASE Take
  <2>1. /\ pc = "take" /\ fed' = fed /\ interrupts' = interrupts
        /\ IF ret' = 0 THEN pc' = "idle" /\ UNCHANGED messages
                       ELSE pc' = "callback" /\ messages' = Append(messages, SubSeq(buf', 1, ret'))
    BY <1>9, Zenon DEF Take, Received
  <2>2. ~cut /\ ~(cut')
    <3>1. cut' = cut
      BY <1>9, Zenon DEF Take
    <3>2. pc # "idle"
      BY <2>1
    <3> QED BY <3>1, <3>2, Zenon DEF RoomInv, CutIdle
  <2>3. pc' = "idle" => current_size' < fixed_size
    BY <1>1, <2>2, Zenon DEF Inv, Emptied
  <2>4. pc' # "aborted" /\ pc' \in {"idle", "callback"}
    BY <2>1
  <2>5. current_size' \in Nat
    <3>1. R!RingInv'
      BY <1>1 DEF Inv
    <3> QED BY <3>1 DEF R!RingInv, R!TypeOK
  <2>6. pc' = "callback" => current_size' = current_size - fixed_size
    <3> SUFFICES ASSUME pc' = "callback" PROVE current_size' = current_size - fixed_size
      OBVIOUS
    <3>1. messages' = Append(messages, SubSeq(buf', 1, ret')) /\ messages' \in Seq(Seq(Byte))
      BY <1>1, <2>1 DEF Inv, Types
    <3>2. Len(messages') = Len(messages) + 1
      BY <1>6, <3>1
    <3>3. fed = Len(messages) * fixed_size + current_size
      BY <1>1, <2>1, StreamSplit DEF Inv, HoldsRest, Delivered
    <3>4. fed' = Len(messages') * fixed_size + current_size'
      <4>1. fed' \in Nat /\ current_size' \in Nat /\ Len(messages') \in Nat
        BY <1>1, <1>6, <2>1, <2>5, <3>1
      <4>2. fed' - current_size' = Len(messages') * fixed_size
        BY <1>1, <2>4 DEF Inv, HoldsRest, Delivered, Taken
      <4> QED BY <4>1, <4>2
    <3>5. Len(messages) \in Nat
      BY <1>6
    <3>6. (Len(messages) + 1) * fixed_size = Len(messages) * fixed_size + fixed_size
      BY <1>3, <3>5
    <3>7. Len(messages) * fixed_size \in Nat
      BY <1>3, <3>5
    <3> QED BY <1>3, <1>4, <2>1, <2>5, <3>2, <3>3, <3>4, <3>6, <3>7
  <2>7. current_size <= (fixed_size - 1) + Slack + MaxChunk
    BY <1>2, <2>1 DEF Bounded
  <2>8. Bounded'
    BY <1>3, <1>4, <1>5, <2>1, <2>3, <2>4, <2>5, <2>6, <2>7 DEF Bounded
  <2>9. DiesOnlyWithoutBytes'
    BY <2>4 DEF DiesOnlyWithoutBytes
  <2>10. CutIdle'
    BY <2>2, Zenon DEF CutIdle
  <2> QED BY <1>1, <2>8, <2>9, <2>10, Zenon DEF RoomInv
<1>10. CASE Return("take")
  <2>1. pc = "callback" /\ pc' = "take" /\ UNCHANGED bcb /\ interrupts' = interrupts
    BY <1>10, Zenon DEF Return
  <2>2. current_size' = current_size
    BY <2>1 DEF bcb
  <2>3. CutIdle'
    <3>1. cut' = cut
      BY <1>10, Zenon DEF Return
    <3>2. pc # "idle"
      BY <2>1
    <3> QED BY <3>1, <3>2, Zenon DEF RoomInv, CutIdle
  <2>4. Bounded'
    BY <1>2, <1>3, <1>4, <1>5, <2>1, <2>2 DEF Bounded
  <2>5. DiesOnlyWithoutBytes'
    BY <2>1 DEF DiesOnlyWithoutBytes
  <2> QED BY <1>1, <2>3, <2>4, <2>5, Zenon DEF RoomInv
<1>11. CASE Interrupt
  <2>1. pc = "callback" /\ pc' = "idle" /\ UNCHANGED bcb /\ interrupts' = interrupts + 1
    BY <1>11, Zenon DEF Interrupt
  <2>2. current_size' = current_size
    BY <2>1 DEF bcb
  <2>3. Slack' = Slack + Excess
    BY <1>3, <1>6, <2>1 DEF Slack
  <2>4. Bounded'
    BY <1>2, <1>3, <1>4, <2>1, <2>2, <2>3 DEF Bounded
  <2>5. CutIdle'
    BY <2>1, Zenon DEF CutIdle
  <2>6. DiesOnlyWithoutBytes'
    BY <2>1 DEF DiesOnlyWithoutBytes
  <2> QED BY <1>1, <2>4, <2>5, <2>6, Zenon DEF RoomInv
<1>12. CASE UNCHANGED vars
  <2>1. pc' = pc /\ size' = size /\ UNCHANGED bcb /\ interrupts' = interrupts
    BY <1>12, Zenon DEF vars
  <2>2. current_size' = current_size
    BY <2>1 DEF bcb
  <2>3. CutIdle'
    <3>1. cut' = cut
      BY <1>12, Zenon DEF vars
    <3> QED BY <2>1, <3>1, Zenon DEF RoomInv, CutIdle
  <2>4. Bounded'
    BY <1>2, <1>5, <2>1, <2>2 DEF Bounded, Slack
  <2>5. DiesOnlyWithoutBytes'
    BY <1>2, <2>1 DEF DiesOnlyWithoutBytes
  <2> QED BY <1>1, <2>3, <2>4, <2>5, Zenon DEF RoomInv
<1> QED BY <1>7, <1>8, <1>9, <1>10, <1>11, <1>12, Zenon DEF Next

\* Where the ring is Roomy, the assertion of Process() fails only in a call that
\* brings no bytes: every chunk that was read finds room, whatever calls came
\* before it.  For kBcbSize 10240, chunks of up to 1024 bytes and messages of
\* 10, the ring is Roomy for nine cancellations.
THEOREM RoomForChunks ==
  ASSUME Divides, LengthsReadOrBeyond, Roomy PROVE Spec => []DiesOnlyWithoutBytes
<1>1. RoomInv /\ [Next]_vars => RoomInv'
  BY RoomStep
<1>2. RoomInv => DiesOnlyWithoutBytes
  BY Zenon DEF RoomInv
<1> QED BY <1>1, <1>2, RoomInit, PTL DEF Spec
=============================================================================
