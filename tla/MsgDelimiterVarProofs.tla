------------------------- MODULE MsgDelimiterVarProofs -------------------------
(***************************************************************************)
(* What MsgDelimiterVar gives the application are the messages that the    *)
(* headers in what Process() was called with announce, for every mix of    *)
(* sizes of which no message lies across the end of the ring, where        *)
(* BCBRead() misplaces a piece of it or of its header.                     *)
(***************************************************************************)
EXTENDS MsgDelimiterVar, MsgDelimiterProofs, WellFoundedInduction

USE RingAssumptions, Sizes

-----------------------------------------------------------------------------
(* Induction over sets of numbers, and with it the equations of Begins.    *)

LEMMA Least ==
  ASSUME NEW T \in SUBSET Nat, T # {}
  PROVE  \E n \in T : \A m \in T : ~(m < n)
<1> DEFINE Less == {ss \in Nat \X Nat : ss[1] < ss[2]}
<1>1. IsWellFoundedOn(Less, Nat)
  BY NatLessThanWellFounded, Zenon DEF OpToRel
<1>2. \E n \in T : \A m \in T : ~(<<m, n>> \in Less)
  BY <1>1, WFMin, Zenon
<1>3. \A m, n \in Nat : <<m, n>> \in Less <=> m < n
  OBVIOUS
<1> QED BY <1>2, <1>3

LEMMA Induction ==
  ASSUME NEW T \in SUBSET Nat, 0 \in T, \A n \in T : n + 1 \in T
  PROVE  T = Nat
<1> SUFFICES ASSUME Nat \ T # {} PROVE FALSE
  OBVIOUS
<1>1. PICK n \in Nat \ T : \A m \in Nat \ T : ~(m < n)
  BY Least
<1>2. n # 0 /\ n - 1 \in Nat /\ n - 1 < n /\ n - 1 \notin Nat \ T
  BY <1>1
<1> QED BY <1>2

\* The function b satisfies the definition of Begins for n messages.
Solves(b, n) ==
  b = [i \in 1..n+1 |-> IF i = 1 THEN 1 ELSE b[i-1] + SizeAt(b[i-1])]

\* What is added for one message more.
Longer(b, n) ==
  [i \in 1..(n+1)+1 |-> IF i = n + 2 THEN b[n+1] + SizeAt(b[n+1]) ELSE b[i]]

LEMMA OneLonger == ASSUME NEW n \in Nat, NEW b, Solves(b, n) PROVE Solves(Longer(b, n), n + 1)
<1> DEFINE c == Longer(b, n)
<1>1. ASSUME NEW i \in 1..(n+1)+1
      PROVE  c[i] = IF i = 1 THEN 1 ELSE c[i-1] + SizeAt(c[i-1])
  <2>1. CASE i = n + 2
    BY <2>1 DEF Longer
  <2>2. CASE i # n + 2
    <3>1. i \in 1..n+1
      BY <2>2
    <3>2. b[i] = IF i = 1 THEN 1 ELSE b[i-1] + SizeAt(b[i-1])
      BY <3>1 DEF Solves
    <3>3. c[i] = b[i]
      BY <2>2 DEF Longer
    <3>4. i # 1 => c[i-1] = b[i-1]
      BY <3>1 DEF Longer
    <3> QED BY <3>2, <3>3, <3>4
  <2> QED BY <2>1, <2>2
<1>2. c = [i \in 1..(n+1)+1 |-> c[i]]
  BY DEF Longer
<1>3. c = [i \in 1..(n+1)+1 |-> IF i = 1 THEN 1 ELSE c[i-1] + SizeAt(c[i-1])]
  BY <1>1, <1>2
<1> QED BY <1>3, Zenon DEF Solves

LEMMA BeginsExists == \E b : Solves(b, MaxMessages)
<1> DEFINE T == {n \in Nat : \E b : Solves(b, n)}
<1>1. 0 \in T
  <2>1. Solves([i \in 1..1 |-> 1], 0)
    BY DEF Solves
  <2> QED BY <2>1
<1>2. ASSUME NEW n \in T PROVE n + 1 \in T
  <2>1. n \in Nat /\ n + 1 \in Nat
    OBVIOUS
  <2>2. PICK b : Solves(b, n)
    OBVIOUS
  <2>3. Solves(Longer(b, n), n + 1)
    BY <2>1, <2>2, OneLonger
  <2>4. \E c : Solves(c, n + 1)
    BY <2>3, Zenon
  <2> QED BY <2>1, <2>4, Zenon
<1>3. T = Nat
  BY <1>1, <1>2, Induction, Zenon
<1> QED BY <1>3, MaxMessagesAssumption

LEMMA BeginsEquations ==
  /\ Begins[1] = 1
  /\ \A i \in 1..MaxMessages : Begins[i+1] = Begins[i] + SizeAt(Begins[i])
<1>1. Solves(Begins, MaxMessages)
  BY BeginsExists, Zenon DEF Begins, Solves
<1> QED BY <1>1, MaxMessagesAssumption DEF Solves

\* Begins is a function of the stream alone.
LEMMA BeginsKept == stream' = stream => Begins' = Begins
<1> DEFINE BeginsOf(s) == CHOOSE b : b = [i \in 1..MaxMessages+1 |->
             IF i = 1 THEN 1 ELSE b[i-1] + (s[b[i-1]] + Radix * s[b[i-1] + 1])]
<1>1. Begins = BeginsOf(stream)
  BY Zenon DEF Begins, SizeAt
<1>2. Begins' = BeginsOf(stream')
  BY Zenon DEF Begins, SizeAt
<1> HIDE DEF BeginsOf
<1> QED BY <1>1, <1>2

-----------------------------------------------------------------------------
(* What Process() may be called with. *)

\* The size announced by a header after the first `from' bytes of a stream.
Announced(s, from) == s[from + 1] + Radix * s[from + 2]

\* The n bytes after the first `from' are within one turn of the ring.
InOneTurn(from, n) == \E q \in Nat : q * Size <= from /\ from + n <= (q + 1) * Size

\* Offsets of a stream at which messages of lo to hi bytes begin, each where
\* the one before it ends and none across the end of the ring.
Cuts(s, lo, hi) ==
  {starts \in SUBSET Nat :
     /\ 0 \in starts
     /\ \A from \in starts : from + kHeaderMsgSize < Len(s) =>
          /\ Announced(s, from) \in lo..hi
          /\ InOneTurn(from, Announced(s, from))
          /\ from + Announced(s, from) \in starts}

\* All streams are of such messages, whoever sent their bytes.  A header counts
\* for its two bytes.
Sent(lo, hi) ==
  /\ lo \in Nat /\ hi \in Nat /\ kHeaderMsgSize <= lo /\ hi <= BufSize
  /\ \A s \in Streams : Cuts(s, lo, hi) # {}

\* Streams of messages of one size that divides the ring are such streams: the
\* theorems below hold for them, whatever follows the headers.
THEOREM OneSize ==
  ASSUME NEW n \in 2..BufSize, \E k \in Nat : Size = k * n,
         \A s \in Streams : \A j \in Nat : j * n + 2 < Len(s) => Announced(s, j * n) = n
  PROVE  Sent(n, n)
<1>1. PICK k \in Nat : Size = k * n
  OBVIOUS
<1>2. n \in Nat /\ n >= 2
  OBVIOUS
<1>3. ASSUME NEW j \in Nat PROVE InOneTurn(j * n, n)
  <2> DEFINE Later == {q \in Nat : j * n < (q + 1) * Size}
  <2>1. j * n \in Nat /\ Size \in Nat \ {0}
    BY <1>2
  <2>2. j * n \in Later
    <3>1. Size * (j * n + 1) >= 1 * (j * n + 1)
      BY <2>1, TimesMonotone
    <3>2. Size * (j * n + 1) = (j * n + 1) * Size
      BY <2>1
    <3> QED BY <2>1, <3>1, <3>2
  <2>3. PICK q \in Later : \A m \in Later : ~(m < q)
    BY <2>2, Least
  <2>4. q \in Nat /\ j * n < (q + 1) * Size
    OBVIOUS
  <2>5. q * Size <= j * n
    <3>1. CASE q = 0
      BY <2>1, <3>1
    <3>2. CASE q # 0
      <4>1. q - 1 \in Nat /\ q - 1 < q
        BY <2>4, <3>2
      <4>2. ~(j * n < ((q - 1) + 1) * Size)
        BY <2>3, <4>1
      <4>3. (q - 1) + 1 = q /\ q * Size \in Nat
        BY <2>1, <2>4
      <4> QED BY <2>1, <4>2, <4>3
    <3> QED BY <3>1, <3>2
  <2>6. (q + 1) * Size = ((q + 1) * k) * n
    BY <1>1, <1>2, <2>4
  <2>7. j * n + n <= ((q + 1) * k) * n
    <3>1. (q + 1) * k \in Nat
      BY <2>4
    <3> QED BY <1>2, <2>4, <2>6, <3>1, MessageFits
  <2> QED BY <2>4, <2>5, <2>6, <2>7 DEF InOneTurn
<1>4. ASSUME NEW s \in Streams PROVE Cuts(s, n, n) # {}
  <2> DEFINE starts == {from \in Nat : \E j \in Nat : from = j * n}
  <2>1. 0 \in starts
    <3>1. 0 = 0 * n
      BY <1>2
    <3> QED BY <3>1
  <2>2. ASSUME NEW from \in starts, from + kHeaderMsgSize < Len(s)
        PROVE  /\ Announced(s, from) \in n..n
               /\ InOneTurn(from, Announced(s, from))
               /\ from + Announced(s, from) \in starts
    <3>1. PICK j \in Nat : from = j * n
      OBVIOUS
    <3>2. Announced(s, from) = n
      BY <2>2, <3>1 DEF kHeaderMsgSize
    <3>3. from + n = (j + 1) * n /\ j + 1 \in Nat /\ from + n \in Nat
      BY <1>2, <3>1
    <3>4. from + Announced(s, from) \in starts
      BY <3>2, <3>3
    <3>5. InOneTurn(from, Announced(s, from))
      BY <1>3, <3>1, <3>2
    <3> QED BY <1>2, <3>2, <3>4, <3>5
  <2>3. starts \in Cuts(s, n, n)
    BY <2>1, <2>2 DEF Cuts
  <2> QED BY <2>3
<1> QED BY <1>2, <1>4 DEF Sent, kHeaderMsgSize

-----------------------------------------------------------------------------
(* The invariant: what was taken off the ring are the messages delivered,  *)
(* and the next one begins where they end.                                 *)

\* rear has gone around the ring with the bytes taken.
OnTurn == \E q \in Nat : Taken = q * Size + rear

AtStart(lo, hi) == \E starts \in Cuts(stream, lo, hi) : Taken \in starts

\* The size of the message at rear.
NextSize == SizeAt(Taken + 1)

Progress(lo, hi) ==
  /\ Holds
  /\ OnTurn
  /\ AtStart(lo, hi)
  /\ Begins[Len(messages) + 1] = Taken + 1

\* A message is complete when its size is known and its last byte is there.
Complete == current_size > kHeaderMsgSize /\ NextSize <= current_size

Inv(lo, hi) ==
  /\ R!RingInv
  /\ Types
  /\ CutType
  /\ Len(messages) <= MaxMessages
  /\ DeliversMessages
  /\ pc # "aborted" => Progress(lo, hi)
  /\ pc = "idle" /\ ~cut => ~Complete
  /\ pc = "take" => Complete

\* The next message, once its header is known: its size is one the client
\* sends, and it lies on one side of the end of the ring.
LEMMA NextMessage ==
  ASSUME NEW lo, NEW hi, Sent(lo, hi), R!RingInv, Types, Progress(lo, hi),
         current_size > kHeaderMsgSize
  PROVE  /\ NextSize \in lo..hi /\ NextSize \in 2..BufSize
         /\ rear + NextSize <= Size
         /\ \E starts \in Cuts(stream, lo, hi) : Taken \in starts /\ Taken + NextSize \in starts
<1>1. /\ lo \in Nat /\ hi \in Nat /\ 2 <= lo /\ hi <= BufSize
  BY DEF Sent, kHeaderMsgSize
<1>2. /\ Len(stream) \in Nat /\ fed \in 0..Len(stream)
      /\ current_size \in Nat /\ rear \in 0..Size-1
  BY TypesFacts, R!RingFacts
<1>3. Taken \in Nat /\ Taken + kHeaderMsgSize < Len(stream)
  BY <1>2 DEF Progress, Holds, Taken, kHeaderMsgSize
<1>4. Announced(stream, Taken) = NextSize
  <2>1. (Taken + 1) + 1 = Taken + 2
    BY <1>3
  <2> QED BY <2>1 DEF Announced, NextSize, SizeAt
<1>5. PICK starts \in Cuts(stream, lo, hi) : Taken \in starts
  BY Zenon DEF Progress, AtStart
<1>6. /\ NextSize \in lo..hi
      /\ InOneTurn(Taken, NextSize)
      /\ Taken + NextSize \in starts
  BY <1>3, <1>4, <1>5 DEF Cuts
<1>7. rear + NextSize <= Size
  <2>1. PICK p \in Nat : Taken = p * Size + rear
    BY DEF Progress, OnTurn
  <2>2. PICK q \in Nat : q * Size <= Taken /\ Taken + NextSize <= (q + 1) * Size
    BY <1>6 DEF InOneTurn
  <2>3. (p + 1) * Size = p * Size + Size /\ (q + 1) * Size = q * Size + Size
        /\ p * Size \in Nat /\ q * Size \in Nat
    BY <2>1, <2>2
  <2>4. CASE q = p
    BY <1>1, <1>2, <1>6, <2>1, <2>2, <2>3, <2>4
  <2>5. ~(q > p)
    <3> SUFFICES ASSUME q >= p + 1 PROVE FALSE
      BY <2>1, <2>2
    <3>1. q * Size >= (p + 1) * Size
      BY <2>1, <2>2, TimesMonotone
    <3> QED BY <1>2, <2>1, <2>2, <2>3, <3>1
  <2>6. ~(p > q)
    <3> SUFFICES ASSUME p >= q + 1 PROVE FALSE
      BY <2>1, <2>2
    <3>1. p * Size >= (q + 1) * Size
      BY <2>1, <2>2, TimesMonotone
    <3> QED BY <1>1, <1>2, <1>6, <2>1, <2>2, <2>3, <3>1
  <2>7. p = q \/ p > q \/ q > p
    BY <2>1, <2>2
  <2> QED BY <2>4, <2>5, <2>6, <2>7
<1> QED BY <1>1, <1>5, <1>6, <1>7

\* A header that lies on one side of the end of the ring is read as it was sent.
LEMMA HeaderRead ==
  ASSUME R!RingInv, Types, Holds, rear + 2 <= Size, current_size >= 2
  PROVE  HeaderSizes = {NextSize} /\ NextSize \in Nat
<1>1. /\ rear \in 0..Size-1 /\ current_size \in Nat
      /\ Len(stream) \in Nat /\ fed \in 0..Len(stream) /\ stream \in Seq(Byte)
  BY TypesFacts, R!RingFacts
<1>2. Taken \in Nat /\ Taken + 2 <= Len(stream)
  BY <1>1 DEF Holds, Taken
<1>3. R!Held[1] = stream[Taken + 1] /\ R!Held[2] = stream[Taken + 2]
  BY <1>1 DEF Holds
<1>4. R!Held[1] = buffer[rear] /\ R!Held[2] = buffer[rear + 1]
  BY <1>1 DEF R!Held, R!Slot
<1>5. ASSUME NEW m \in [1..kHeaderMsgSize -> Byte]
      PROVE  Peeked(m)[1] = buffer[rear] /\ Peeked(m)[2] = buffer[rear + 1]
  <2>1. ~Ring!Straddles(kHeaderMsgSize)
    BY <1>1 DEF Ring!Straddles, kHeaderMsgSize
  <2>2. Peeked(m) = Local!Get(m, rear, kHeaderMsgSize)
    BY <2>1, Zenon DEF Peeked
  <2>3. Peeked(m) = [i \in 1..2 |-> IF i <= 2 THEN buffer[rear + i - 1] ELSE m[i]]
    BY <2>2 DEF Local!Get, kHeaderMsgSize
  <2> QED BY <1>1, <2>3
<1>6. ASSUME NEW m \in [1..kHeaderMsgSize -> Byte]
      PROVE  Peeked(m)[1] + Radix * Peeked(m)[2] = NextSize
  <2>1. (Taken + 1) + 1 = Taken + 2
    BY <1>2
  <2> QED BY <1>3, <1>4, <1>5, <2>1 DEF NextSize, SizeAt
<1>7. [i \in 1..kHeaderMsgSize |-> Calloced] \in [1..kHeaderMsgSize -> Byte]
  OBVIOUS
<1>8. HeaderSizes = {NextSize}
  BY <1>6, <1>7 DEF HeaderSizes
<1>9. NextSize \in Nat
  <2>1. stream[Taken + 1] \in Byte /\ stream[Taken + 2] \in Byte
    BY <1>1, <1>2, ElementOfSeq
  <2>2. stream[Taken + 1] \in Nat /\ stream[Taken + 2] \in Nat /\ Radix \in Nat
    BY <2>1, RadixAssumption
  <2>3. (Taken + 1) + 1 = Taken + 2
    BY <1>2
  <2> QED BY <2>2, <2>3 DEF NextSize, SizeAt
<1> QED BY <1>8, <1>9

-----------------------------------------------------------------------------

LEMMA InvInit == ASSUME NEW lo, NEW hi, Sent(lo, hi) PROVE Init => Inv(lo, hi)
<1> SUFFICES ASSUME Init PROVE Inv(lo, hi)
  OBVIOUS
<1>1. /\ R!RingInv /\ Types /\ CutType /\ Holds
      /\ rear = 0 /\ Taken = 0 /\ current_size = 0
      /\ messages = <<>> /\ pc = "idle" /\ interrupts = 0 /\ ~cut
  BY InitEffect
<1>2. OnTurn
  <2>1. 0 = 0 * Size + 0
    OBVIOUS
  <2> QED BY <1>1, <2>1 DEF OnTurn
<1>3. AtStart(lo, hi)
  <2>1. PICK starts : starts \in Cuts(stream, lo, hi)
    BY <1>1 DEF Sent, Types
  <2>2. 0 \in starts
    BY <2>1 DEF Cuts
  <2> QED BY <1>1, <2>1, <2>2 DEF AtStart
<1>4. Begins[Len(messages) + 1] = Taken + 1
  BY <1>1, BeginsEquations
<1>5. Progress(lo, hi)
  BY <1>1, <1>2, <1>3, <1>4, Zenon DEF Progress
<1>6. DeliversMessages
  BY <1>1 DEF DeliversMessages
<1>7. ~Complete
  BY <1>1 DEF Complete, kHeaderMsgSize
<1>8. Len(messages) <= MaxMessages
  BY <1>1, MaxMessagesAssumption
<1>9. pc # "take"
  BY <1>1
<1> QED BY <1>1, <1>5, <1>6, <1>7, <1>8, <1>9, Zenon DEF Inv

\* Where nothing moves in the ring, the next message stays where it is.
LEMMA NextKept ==
  ASSUME NEW lo, NEW hi, R!RingInv', rear' = rear, Taken' = Taken, Holds',
         UNCHANGED <<stream, messages>>
  PROVE  /\ Progress(lo, hi) => Progress(lo, hi)'
         /\ DeliversMessages => DeliversMessages'
         /\ Len(messages)' = Len(messages)
         /\ NextSize' = NextSize
<1>1. Begins' = Begins /\ stream' = stream /\ messages' = messages
  BY BeginsKept
<1>2. OnTurn => OnTurn'
  BY DEF OnTurn
<1>3. AtStart(lo, hi) => AtStart(lo, hi)'
  BY DEF AtStart, Cuts, Announced
<1>4. Progress(lo, hi) => Progress(lo, hi)'
  BY <1>1, <1>2, <1>3 DEF Progress
<1>5. DeliversMessages => DeliversMessages'
  BY <1>1 DEF DeliversMessages
<1>6. NextSize' = NextSize
  BY <1>1 DEF NextSize, SizeAt
<1> QED BY <1>1, <1>4, <1>5, <1>6

LEMMA MessagesKept ==
  UNCHANGED <<stream, messages>> /\ DeliversMessages => DeliversMessages'
<1> SUFFICES ASSUME UNCHANGED <<stream, messages>>, DeliversMessages PROVE DeliversMessages'
  OBVIOUS
<1>1. Begins' = Begins /\ stream' = stream /\ messages' = messages
  BY BeginsKept
<1> QED BY <1>1 DEF DeliversMessages

\* What the steps that touch neither the ring nor the messages leave as it was.
LEMMA RestKept ==
  ASSUME NEW lo, NEW hi, Inv(lo, hi), UNCHANGED <<bcb, buf, ret, stream, fed, size, messages>>,
         pc # "aborted" \/ pc' = pc
  PROVE  /\ R!RingInv' /\ Len(messages)' <= MaxMessages /\ DeliversMessages'
         /\ pc' # "aborted" => Progress(lo, hi)'
         /\ pc' # "aborted" => (Complete' <=> Complete)
<1>1. ret' \in Nat
  BY DEF Inv, R!RingInv, R!TypeOK
<1>2. /\ R!RingInv' /\ rear' = rear /\ current_size' = current_size /\ Taken' = Taken
      /\ Holds => Holds'
  BY <1>1, RingKept DEF Inv
<1>3. DeliversMessages' /\ Len(messages)' <= MaxMessages
  BY MessagesKept DEF Inv
<1>4. ASSUME pc # "aborted" PROVE Progress(lo, hi)' /\ NextSize' = NextSize
  <2>1. Progress(lo, hi) /\ Holds
    BY <1>4 DEF Inv, Progress
  <2> QED BY <1>2, <2>1, NextKept
<1>5. ASSUME pc # "aborted" PROVE Complete' <=> Complete
  BY <1>2, <1>4, <1>5 DEF Complete
<1> QED BY <1>2, <1>3, <1>4, <1>5

LEMMA WriteStep ==
  ASSUME NEW lo, NEW hi, Inv(lo, hi), NEW n \in Lengths, Process(n) PROVE Inv(lo, hi)'
<1>1. pc = "idle"
  BY Zenon DEF Process
<1>2. Progress(lo, hi) /\ Holds
  BY <1>1 DEF Inv, Progress
<1>3. /\ R!RingInv' /\ Types' /\ CutType' /\ ~(cut') /\ rear' = rear
      /\ UNCHANGED <<stream, messages, interrupts>>
      /\ \/ pc' = "check" /\ Holds' /\ Taken' = Taken
         \/ pc' = "aborted"
  BY <1>2, ProcessEffect DEF Inv
<1>4. DeliversMessages' /\ Len(messages)' <= MaxMessages
  BY <1>3, MessagesKept DEF Inv
<1>5. pc' # "aborted" => Progress(lo, hi)'
  BY <1>2, <1>3, NextKept
<1>6. pc' # "idle" /\ pc' # "take"
  BY <1>3
<1> QED BY <1>3, <1>4, <1>5, <1>6, Zenon DEF Inv

LEMMA CheckStep ==
  ASSUME NEW lo, NEW hi, Sent(lo, hi), Inv(lo, hi), Check PROVE Inv(lo, hi)'
<1>1. /\ UNCHANGED <<bcb, buf, ret, stream, fed, size, messages>> /\ pc = "check"
      /\ interrupts' = interrupts
  BY Zenon DEF Check
<1>2. Progress(lo, hi) /\ Holds /\ R!RingInv /\ Types
  BY <1>1 DEF Inv, Progress
<1>3. \E msg_size \in IF current_size > kHeaderMsgSize THEN HeaderSizes ELSE {0} :
        pc' = IF IsFlushable(msg_size) THEN "take" ELSE "idle"
  BY Zenon DEF Check
<1>4. current_size > kHeaderMsgSize => HeaderSizes = {NextSize}
  <2> SUFFICES ASSUME current_size > kHeaderMsgSize PROVE HeaderSizes = {NextSize}
    OBVIOUS
  <2>1. NextSize \in 2..BufSize /\ rear + NextSize <= Size
    BY <1>2, NextMessage
  <2>2. rear \in 0..Size-1 /\ current_size \in Nat
    BY <1>2, R!RingFacts
  <2>3. rear + 2 <= Size /\ current_size >= 2
    BY <2>1, <2>2 DEF kHeaderMsgSize
  <2> QED BY <1>2, <2>3, HeaderRead
<1>5. pc' = IF Complete THEN "take" ELSE "idle"
  BY <1>3, <1>4 DEF IsFlushable, Complete
<1>6. /\ R!RingInv' /\ Len(messages)' <= MaxMessages /\ DeliversMessages'
      /\ Progress(lo, hi)' /\ (Complete' <=> Complete)
  BY <1>1, <1>5, RestKept
<1>7. Types'
  BY <1>1, <1>2, <1>5 DEF Types, PCs
<1>8. CutType'
  <2>1. cut' = cut
    BY Zenon DEF Check
  <2> QED BY <2>1, Zenon DEF Inv, CutType
<1>9. (pc' = "idle" => ~(Complete')) /\ (pc' = "take" => Complete')
  BY <1>5, <1>6
<1> QED BY <1>6, <1>7, <1>8, <1>9, Zenon DEF Inv

LEMMA TakeStep ==
  ASSUME NEW lo, NEW hi, Sent(lo, hi), Inv(lo, hi), Take
  PROVE  /\ Inv(lo, hi)'
         /\ pc' = "callback" /\ current_size' = current_size - NextSize
         /\ NextSize \in lo..hi /\ interrupts' = interrupts
<1>1. /\ pc = "take" /\ Len(messages) < MaxMessages
      /\ UNCHANGED <<stream, fed, size, interrupts>>
  BY Zenon DEF Take
<1>2. PICK read_size \in HeaderSizes :
        /\ Ring!BCBRead(read_size, TRUE)
        /\ IF ret' # read_size THEN pc' = "aborted" /\ UNCHANGED messages
                               ELSE pc' = "callback" /\ Received(read_size)
  BY Zenon DEF Take
<1>3. Progress(lo, hi) /\ Holds /\ R!RingInv /\ Types /\ Complete
  BY <1>1 DEF Inv, Progress
<1>4. /\ NextSize \in lo..hi /\ NextSize \in 2..BufSize
      /\ rear + NextSize <= Size
      /\ \E starts \in Cuts(stream, lo, hi) : Taken \in starts /\ Taken + NextSize \in starts
  BY <1>3, NextMessage DEF Complete
<1>5. rear \in 0..Size-1 /\ current_size \in Nat
  BY <1>3, R!RingFacts
<1>6. read_size = NextSize
  <2>1. rear + 2 <= Size /\ current_size >= 2
    BY <1>3, <1>4, <1>5 DEF Complete, kHeaderMsgSize
  <2>2. HeaderSizes = {NextSize}
    BY <1>3, <2>1, HeaderRead
  <2> QED BY <2>2
<1> DEFINE message == SubSeq(buf', 1, NextSize)
           m == Len(messages)
<1>7. /\ R!RingInv'
      /\ ret' = NextSize /\ current_size' = current_size - NextSize
      /\ rear' = R!Turned(rear + NextSize)
      /\ Holds' /\ Taken' = Taken + NextSize
      /\ message = SubSeq(stream, Taken + 1, Taken + NextSize)
      /\ message \in Seq(Byte)
  <2>1. NextSize \in 1..BufSize /\ Ring!BCBRead(NextSize, TRUE)
    <3>1. NextSize \in 1..BufSize
      BY <1>4
    <3>2. Ring!BCBRead(NextSize, TRUE)
      BY <1>2, <1>6, Zenon
    <3> QED BY <3>1, <3>2
  <2>2. ~(current_size < NextSize)
    BY <1>3, <1>4, <1>5 DEF Complete
  <2> QED BY <1>1, <1>3, <1>4, <2>1, <2>2, TakeEffect
<1>8. pc' = "callback" /\ messages' = Append(messages, message)
  BY <1>2, <1>6, <1>7 DEF Received
<1> HIDE DEF message
<1>9. messages \in Seq(Seq(Byte))
  BY <1>3 DEF Types
<1>10. /\ messages' \in Seq(Seq(Byte)) /\ m \in Nat /\ Len(messages') = m + 1
       /\ DOMAIN messages = 1..m /\ DOMAIN messages' = 1..(m + 1)
       /\ \A i \in 1..m : messages'[i] = messages[i]
       /\ messages'[m + 1] = message
  BY <1>7, <1>8, <1>9, OneMore
<1>11. Begins' = Begins
  BY <1>1, BeginsKept
<1>12. Taken \in Nat /\ NextSize \in Nat /\ Taken' = Taken + NextSize
  <2>1. fed \in Nat
    BY <1>3, TypesFacts
  <2>2. Taken \in Nat
    BY <1>3, <1>5, <2>1 DEF Holds, Taken
  <2>3. NextSize \in Nat
    BY <1>4
  <2> QED BY <1>7, <2>2, <2>3
<1>13. Begins[m + 1] = Taken + 1 /\ Begins[(m + 1) + 1] = Taken + NextSize + 1
  <2>1. m + 1 \in 1..MaxMessages
    BY <1>1, <1>10, MaxMessagesAssumption
  <2>2. Begins[m + 1] = Taken + 1
    BY <1>3 DEF Progress
  <2>3. Begins[(m + 1) + 1] = Begins[m + 1] + SizeAt(Begins[m + 1])
    BY <2>1, BeginsEquations
  <2> QED BY <1>12, <2>2, <2>3 DEF NextSize
<1>14. DeliversMessages'
  <2>1. message = SubSeq(stream, Begins[m + 1], Begins[(m + 1) + 1] - 1)
    BY <1>7, <1>12, <1>13
  <2>2. ASSUME NEW i \in 1..(m + 1)
        PROVE  messages'[i] = SubSeq(stream, Begins[i], Begins[i + 1] - 1)
    <3>1. CASE i \in 1..m
      <4>1. messages[i] = SubSeq(stream, Begins[i], Begins[i + 1] - 1)
        BY <1>10, <3>1 DEF Inv, DeliversMessages
      <4> QED BY <1>10, <3>1, <4>1
    <3>2. CASE i = m + 1
      BY <1>10, <2>1, <3>2
    <3> QED BY <1>10, <2>2, <3>1, <3>2
  <2> QED BY <1>1, <1>10, <1>11, <2>2 DEF DeliversMessages
<1>15. OnTurn'
  <2>1. PICK q \in Nat : Taken = q * Size + rear
    BY <1>3 DEF Progress, OnTurn
  <2>2. (q + 1) * Size = q * Size + Size /\ q + 1 \in Nat /\ q * Size \in Nat
    BY <2>1
  <2>3. CASE rear + NextSize = Size
    <3>1. rear' = 0
      BY <1>7, <2>3 DEF R!Turned
    <3>2. Taken' = (q + 1) * Size + rear'
      BY <1>5, <1>12, <2>1, <2>2, <2>3, <3>1
    <3> QED BY <2>2, <3>2 DEF OnTurn
  <2>4. CASE rear + NextSize # Size
    <3>1. rear' = rear + NextSize
      BY <1>7, <2>4 DEF R!Turned
    <3>2. Taken' = q * Size + rear'
      BY <1>5, <1>12, <2>1, <2>2, <3>1
    <3> QED BY <2>1, <3>2 DEF OnTurn
  <2> QED BY <2>3, <2>4
<1>16. AtStart(lo, hi)'
  BY <1>1, <1>4, <1>12 DEF AtStart, Cuts, Announced
<1>17. Progress(lo, hi)'
  BY <1>7, <1>10, <1>11, <1>12, <1>13, <1>15, <1>16 DEF Progress
<1>18. Types'
  BY <1>1, <1>3, <1>8, <1>10 DEF Types, PCs
<1>19. CutType'
  <2>1. cut' = cut
    BY Zenon DEF Take
  <2> QED BY <2>1, Zenon DEF Inv, CutType
<1>20. Len(messages') <= MaxMessages
  BY <1>1, <1>10, MaxMessagesAssumption
<1>21. pc' # "idle" /\ pc' # "take"
  BY <1>8
<1>22. Inv(lo, hi)'
  BY <1>7, <1>14, <1>17, <1>18, <1>19, <1>20, <1>21, Zenon DEF Inv
<1> QED BY <1>1, <1>4, <1>7, <1>8, <1>22

LEMMA InvStep ==
  ASSUME NEW lo, NEW hi, Sent(lo, hi) PROVE Inv(lo, hi) /\ [Next]_vars => Inv(lo, hi)'
<1> SUFFICES ASSUME Inv(lo, hi), [Next]_vars PROVE Inv(lo, hi)'
  OBVIOUS
<1>1. /\ stream \in Streams /\ stream \in Seq(Byte) /\ fed \in 0..Len(stream) /\ pc \in PCs
      /\ size \in Lengths \cup {0} /\ messages \in Seq(Seq(Byte)) /\ interrupts \in 0..MaxInterrupts
  BY DEF Inv, Types
<1>2. CASE Feed
  <2>1. PICK n \in Lengths : Process(n)
    BY <1>2, Zenon DEF Feed
  <2> QED BY <2>1, WriteStep
<1>3. CASE Check
  BY <1>3, CheckStep
<1>4. CASE Take
  BY <1>4, TakeStep
<1>5. CASE Return("check")
  <2>1. /\ UNCHANGED <<bcb, buf, ret, stream, fed, size, messages>> /\ interrupts' = interrupts
        /\ pc = "callback" /\ pc' = "check"
    BY <1>5, Zenon DEF Return
  <2>2. Types' /\ pc # "aborted" /\ pc' # "aborted" /\ pc' # "idle" /\ pc' # "take"
    BY <1>1, <2>1 DEF Types, PCs
  <2>3. CutType'
    <3>1. cut' = cut
      BY <1>5, Zenon DEF Return
    <3> QED BY <3>1, Zenon DEF Inv, CutType
  <2>4. R!RingInv' /\ Len(messages)' <= MaxMessages /\ DeliversMessages' /\ Progress(lo, hi)'
    BY <2>1, <2>2, RestKept
  <2> QED BY <2>2, <2>3, <2>4, Zenon DEF Inv
<1>6. CASE Interrupt
  <2>1. /\ UNCHANGED <<bcb, buf, ret, stream, fed, size, messages>> /\ pc = "callback" /\ pc' = "idle"
        /\ interrupts < MaxInterrupts /\ interrupts' = interrupts + 1
    BY <1>6, Zenon DEF Interrupt
  <2>2. Types' /\ pc # "aborted" /\ pc' # "aborted" /\ pc' # "take"
    <3>1. interrupts + 1 \in 0..MaxInterrupts
      BY <1>1, <2>1, Bounds
    <3> QED BY <1>1, <2>1, <3>1 DEF Types, PCs
  <2>3. CutType' /\ cut'
    BY <1>6, Zenon DEF Interrupt, CutType
  <2>4. R!RingInv' /\ Len(messages)' <= MaxMessages /\ DeliversMessages' /\ Progress(lo, hi)'
    BY <2>1, <2>2, RestKept
  <2> QED BY <2>2, <2>3, <2>4, Zenon DEF Inv
<1>7. CASE UNCHANGED vars
  <2>1. /\ UNCHANGED <<bcb, buf, ret, stream, fed, size, messages>> /\ interrupts' = interrupts
        /\ pc' = pc
    BY <1>7, Zenon DEF vars
  <2>2. cut' = cut
    BY <1>7, Zenon DEF vars
  <2>3. Types'
    BY <1>1, <2>1 DEF Types
  <2>4. CutType'
    BY <2>2, Zenon DEF Inv, CutType
  <2>5. /\ R!RingInv' /\ Len(messages)' <= MaxMessages /\ DeliversMessages'
        /\ pc' # "aborted" => Progress(lo, hi)'
        /\ pc' # "aborted" => (Complete' <=> Complete)
    BY <2>1, RestKept
  <2>6. (pc' = "idle" \/ pc' = "take") => (Complete' <=> Complete)
    BY <2>5
  <2> QED BY <2>1, <2>2, <2>3, <2>4, <2>5, <2>6, Zenon DEF Inv
<1> QED BY <1>2, <1>3, <1>4, <1>5, <1>6, <1>7, Zenon DEF Next

LEMMA Invariant == ASSUME NEW lo, NEW hi, Sent(lo, hi) PROVE Spec => []Inv(lo, hi)
<1>1. Init => Inv(lo, hi)
  BY InvInit
<1>2. Inv(lo, hi) /\ [Next]_vars => Inv(lo, hi)'
  BY InvStep
<1> QED BY <1>1, <1>2, PTL DEF Spec

-----------------------------------------------------------------------------
(* The theorems.  Each is for any streams of messages of lo to hi bytes of *)
(* which none lies across the end of the ring.                             *)

\* The delimiter's variables keep their types, and the ring's indexes and
\* count stay within the ring: Process(), IsFlushable() and ProcessMsg().
THEOREM TypeCorrect ==
  ASSUME NEW lo, NEW hi, Sent(lo, hi) PROVE Spec => []TypeOK
<1>1. R!RingInv => Ring!TypeOK
  BY DEF R!RingInv, R!TypeOK, Ring!TypeOK
<1>2. Inv(lo, hi) => TypeOK
  BY <1>1, Zenon DEF Inv, Types, CutType, TypeOK
<1> QED BY <1>2, Invariant, PTL

\* `received' is given the messages announced by the headers in what Process()
\* was called with, whole and in order, whichever client's bytes they are: for
\* any lengths of the calls, any mix of message sizes, any number of turns of
\* the ring and any cancellations in the callback.
THEOREM MessagesDelivered ==
  ASSUME NEW lo, NEW hi, Sent(lo, hi) PROVE Spec => []DeliversMessages
<1>1. Inv(lo, hi) => DeliversMessages
  BY Zenon DEF Inv
<1> QED BY <1>1, Invariant, PTL

\* When a Process() that was not cancelled returns, no complete message is in
\* the ring, and every byte before the rest there has been delivered.
THEOREM NothingLeft ==
  ASSUME NEW lo, NEW hi, Sent(lo, hi) PROVE Spec => []NothingWaits
<1>1. Inv(lo, hi) => NothingWaits
  <2> SUFFICES ASSUME Inv(lo, hi), pc = "idle", ~cut
               PROVE  /\ current_size = fed - (Begins[Len(messages) + 1] - 1)
                      /\ current_size > kHeaderMsgSize =>
                           current_size < SizeAt(Begins[Len(messages) + 1])
    BY DEF NothingWaits
  <2>1. pc # "aborted"
    OBVIOUS
  <2>2. Progress(lo, hi) /\ Holds /\ R!RingInv /\ Types
    BY <2>1 DEF Inv, Progress
  <2>3. ~Complete
    BY Zenon DEF Inv
  <2>4. current_size \in Nat /\ fed \in Nat
    BY <2>2, TypesFacts, R!RingFacts
  <2>5. Begins[Len(messages) + 1] = Taken + 1
    BY <2>2 DEF Progress
  <2>6. Taken \in Nat /\ Taken = fed - current_size
    BY <2>2, <2>4 DEF Holds, Taken
  <2>7. current_size = fed - (Begins[Len(messages) + 1] - 1)
    BY <2>4, <2>5, <2>6
  <2>8. current_size > kHeaderMsgSize => NextSize \in Nat
    <3>1. lo \in Nat /\ hi \in Nat
      BY DEF Sent
    <3> QED BY <2>2, <3>1, NextMessage
  <2>9. current_size > kHeaderMsgSize => current_size < NextSize
    BY <2>3, <2>4, <2>8 DEF Complete
  <2> QED BY <2>5, <2>7, <2>9 DEF NextSize
<1> QED BY <1>1, Invariant, PTL

-----------------------------------------------------------------------------
(* How much room the ring needs.  Every Process() that is cancelled leaves *)
(* at most what it was given and the rest before it, less the one message  *)
(* its callback has, which is of lo bytes at least.                        *)

\* What a cancelled Process() may add to the ring for good.
Excess(lo) == IF MaxChunk > lo THEN MaxChunk - lo ELSE 0

\* The ring takes the largest chunk after the last of the cancellations.
Roomy(lo, hi) ==
  /\ hi > kHeaderMsgSize
  /\ (hi - 1) + MaxInterrupts * Excess(lo) + MaxChunk <= Size

Slack(lo) == interrupts * Excess(lo)

\* An upper bound of what the ring holds, for each place in Process().
Bounded(lo, hi) ==
  /\ pc = "idle" => current_size <= (hi - 1) + Slack(lo)
  /\ pc \in {"check", "take"} => current_size <= (hi - 1) + Slack(lo) + MaxChunk
  /\ pc = "callback" => current_size + lo <= (hi - 1) + Slack(lo) + MaxChunk

CutIdle == cut => pc = "idle"

RoomInv(lo, hi) == Inv(lo, hi) /\ Bounded(lo, hi) /\ CutIdle /\ DiesOnlyWithoutBytes

LEMMA SlackFacts ==
  ASSUME NEW lo, NEW hi, Sent(lo, hi), Types
  PROVE  /\ lo \in Nat /\ hi \in Nat /\ MaxChunk \in Nat
         /\ Excess(lo) \in Nat /\ Excess(lo) >= MaxChunk - lo
         /\ Slack(lo) \in Nat /\ Slack(lo) <= MaxInterrupts * Excess(lo)
         /\ MaxInterrupts * Excess(lo) \in Nat
<1>1. MaxChunk \in Nat /\ lo \in Nat /\ hi \in Nat /\ MaxInterrupts \in Nat
  BY Bounds DEF Sent
<1>2. Excess(lo) \in Nat /\ Excess(lo) >= MaxChunk - lo
  BY <1>1 DEF Excess
<1>3. interrupts \in Nat /\ MaxInterrupts >= interrupts
  BY <1>1 DEF Types
<1>4. MaxInterrupts * Excess(lo) >= interrupts * Excess(lo)
  BY <1>1, <1>2, <1>3, TimesMonotone
<1>5. interrupts * Excess(lo) \in Nat
  BY <1>2, <1>3
<1>6. MaxInterrupts * Excess(lo) \in Nat
  BY <1>1, <1>2
<1> QED BY <1>1, <1>2, <1>4, <1>5, <1>6 DEF Slack

LEMMA RoomInit ==
  ASSUME NEW lo, NEW hi, Sent(lo, hi), Roomy(lo, hi) PROVE Init => RoomInv(lo, hi)
<1> SUFFICES ASSUME Init PROVE RoomInv(lo, hi)
  OBVIOUS
<1>1. Inv(lo, hi)
  BY InvInit
<1>2. pc = "idle" /\ current_size = 0 /\ ~cut
  BY InitEffect
<1>3. Slack(lo) \in Nat /\ hi \in Nat
  BY <1>1, SlackFacts DEF Inv
<1>4. Bounded(lo, hi)
  BY <1>2, <1>3 DEF Bounded, Roomy, kHeaderMsgSize
<1>5. CutIdle
  BY <1>2, Zenon DEF CutIdle
<1>6. DiesOnlyWithoutBytes
  BY <1>2 DEF DiesOnlyWithoutBytes
<1> QED BY <1>1, <1>4, <1>5, <1>6, Zenon DEF RoomInv

LEMMA RoomStep ==
  ASSUME NEW lo, NEW hi, Sent(lo, hi), LengthsReadOrBeyond, Roomy(lo, hi)
  PROVE  RoomInv(lo, hi) /\ [Next]_vars => RoomInv(lo, hi)'
<1> SUFFICES ASSUME RoomInv(lo, hi), [Next]_vars PROVE RoomInv(lo, hi)'
  OBVIOUS
<1>1. Inv(lo, hi) /\ Inv(lo, hi)' /\ CutIdle
  BY InvStep, Zenon DEF RoomInv
<1>2. Bounded(lo, hi) /\ DiesOnlyWithoutBytes
  BY DEF RoomInv
<1>3. /\ lo \in Nat /\ hi \in Nat /\ MaxChunk \in Nat
      /\ Excess(lo) \in Nat /\ Excess(lo) >= MaxChunk - lo
      /\ Slack(lo) \in Nat /\ Slack(lo) <= MaxInterrupts * Excess(lo)
      /\ MaxInterrupts * Excess(lo) \in Nat
  BY <1>1, SlackFacts DEF Inv
<1>4. /\ current_size \in Nat /\ R!RingInv /\ Types /\ interrupts \in Nat
      /\ pc # "aborted" => Progress(lo, hi) /\ Holds
  <2>1. R!RingInv /\ Types /\ (pc # "aborted" => Progress(lo, hi))
    BY <1>1 DEF Inv
  <2> QED BY <2>1, R!RingFacts, TypesFacts DEF Progress
<1>5. interrupts' = interrupts => Slack(lo)' = Slack(lo)
  BY DEF Slack
<1>6. hi > 2 /\ (hi - 1) + MaxInterrupts * Excess(lo) + MaxChunk <= Size
  BY DEF Roomy, kHeaderMsgSize
<1>7. CASE Feed
  <2>1. PICK n \in Lengths : Process(n)
    BY <1>7, Zenon DEF Feed
  <2>2. /\ pc = "idle" /\ size' = n /\ interrupts' = interrupts /\ n \in Nat
        /\ \/ pc' = "check" /\ current_size' = current_size + n
           \/ pc' = "aborted" /\ (n = 0 \/ current_size + n > Size)
    <3>1. pc = "idle"
      BY <2>1, Zenon DEF Process
    <3> QED BY <1>4, <2>1, <3>1, ProcessEffect
  <2>3. current_size <= (hi - 1) + Slack(lo)
    BY <1>2, <2>2 DEF Bounded
  <2>4. n \in 0..MaxChunk \/ n > Size
    BY <2>1, Zenon DEF LengthsReadOrBeyond
  <2>5. n \in 1..MaxChunk => current_size + n <= Size
    BY <1>3, <1>4, <1>6, <2>3
  <2>6. pc' = "check" => n <= MaxChunk
    <3>1. current_size' <= Size
      <4>1. R!RingInv'
        BY <1>1 DEF Inv
      <4> QED BY <4>1, Sizes DEF R!RingInv, R!TypeOK
    <3> QED BY <1>3, <1>4, <2>2, <2>4, <3>1, Sizes
  <2>7. Bounded(lo, hi)'
    BY <1>3, <1>4, <1>5, <2>2, <2>3, <2>6 DEF Bounded
  <2>8. CutIdle'
    BY <2>1, Zenon DEF Process, CutIdle
  <2>9. DiesOnlyWithoutBytes'
    <3> SUFFICES ASSUME pc' = "aborted", n \in 1..MaxChunk PROVE FALSE
      BY <2>2 DEF DiesOnlyWithoutBytes
    <3>1. n = 0 \/ current_size + n > Size
      BY <2>2
    <3> QED BY <1>4, <2>2, <2>5, <3>1, Sizes
  <2> QED BY <1>1, <2>7, <2>8, <2>9, Zenon DEF RoomInv
<1>8. CASE Check
  <2>1. /\ pc = "check" /\ pc' \in {"take", "idle"}
        /\ UNCHANGED <<bcb, buf, ret, stream, fed, size, messages>> /\ interrupts' = interrupts
    <3>1. /\ pc = "check" /\ UNCHANGED <<bcb, buf, ret, stream, fed, size, messages>>
          /\ interrupts' = interrupts
      BY <1>8, Zenon DEF Check
    <3>2. \E msg_size \in IF current_size > kHeaderMsgSize THEN HeaderSizes ELSE {0} :
            pc' = IF IsFlushable(msg_size) THEN "take" ELSE "idle"
      BY <1>8, Zenon DEF Check
    <3> QED BY <3>1, <3>2
  <2>2. current_size' = current_size
    BY <2>1 DEF bcb
  <2>3. ~cut /\ ~(cut')
    <3>1. cut' = cut
      BY <1>8, Zenon DEF Check
    <3>2. pc # "idle"
      BY <2>1
    <3> QED BY <1>1, <3>1, <3>2, Zenon DEF CutIdle
  <2>4. pc' = "idle" => current_size <= hi - 1
    <3> SUFFICES ASSUME pc' = "idle", current_size > kHeaderMsgSize
                 PROVE  current_size <= hi - 1
      BY <1>3, <1>4, <1>6 DEF kHeaderMsgSize
    <3>1. ~(Complete')
      BY <1>1, <2>3, Zenon DEF Inv
    <3>2. ~Complete
      <4>1. pc # "aborted" /\ pc' # "aborted"
        BY <2>1
      <4> QED BY <1>1, <2>1, <3>1, <4>1, RestKept
    <3>3. NextSize \in lo..hi
      BY <1>4, <2>1, NextMessage
    <3> QED BY <1>3, <1>4, <3>2, <3>3 DEF Complete
  <2>5. Bounded(lo, hi)'
    BY <1>2, <1>3, <1>4, <1>5, <2>1, <2>2, <2>4 DEF Bounded
  <2>6. DiesOnlyWithoutBytes'
    BY <2>1 DEF DiesOnlyWithoutBytes
  <2>7. CutIdle'
    BY <2>3, Zenon DEF CutIdle
  <2> QED BY <1>1, <2>5, <2>6, <2>7, Zenon DEF RoomInv
<1>9. CASE Take
  <2>1. /\ pc' = "callback" /\ current_size' = current_size - NextSize
        /\ NextSize \in lo..hi /\ interrupts' = interrupts
    BY <1>1, <1>9, TakeStep
  <2>2. pc = "take"
    BY <1>9, Zenon DEF Take
  <2>3. ~(cut')
    <3>1. cut' = cut
      BY <1>9, Zenon DEF Take
    <3>2. pc # "idle"
      BY <2>2
    <3> QED BY <1>1, <3>1, <3>2, Zenon DEF CutIdle
  <2>4. Bounded(lo, hi)'
    <3>1. current_size <= (hi - 1) + Slack(lo) + MaxChunk
      BY <1>2, <2>2 DEF Bounded
    <3>2. current_size' + lo <= (hi - 1) + Slack(lo)' + MaxChunk
      BY <1>3, <1>4, <1>5, <2>1, <3>1
    <3> QED BY <2>1, <3>2 DEF Bounded
  <2>5. DiesOnlyWithoutBytes'
    BY <2>1 DEF DiesOnlyWithoutBytes
  <2>6. CutIdle'
    BY <2>3, Zenon DEF CutIdle
  <2> QED BY <1>1, <2>4, <2>5, <2>6, Zenon DEF RoomInv
<1>10. CASE Return("check")
  <2>1. pc = "callback" /\ pc' = "check" /\ UNCHANGED bcb /\ interrupts' = interrupts
    BY <1>10, Zenon DEF Return
  <2>2. current_size' = current_size
    BY <2>1 DEF bcb
  <2>3. CutIdle'
    <3>1. cut' = cut
      BY <1>10, Zenon DEF Return
    <3>2. pc # "idle"
      BY <2>1
    <3> QED BY <1>1, <3>1, <3>2, Zenon DEF CutIdle
  <2>4. Bounded(lo, hi)'
    BY <1>2, <1>3, <1>4, <1>5, <2>1, <2>2 DEF Bounded
  <2>5. DiesOnlyWithoutBytes'
    BY <2>1 DEF DiesOnlyWithoutBytes
  <2> QED BY <1>1, <2>3, <2>4, <2>5, Zenon DEF RoomInv
<1>11. CASE Interrupt
  <2>1. pc = "callback" /\ pc' = "idle" /\ UNCHANGED bcb /\ interrupts' = interrupts + 1
    BY <1>11, Zenon DEF Interrupt
  <2>2. current_size' = current_size
    BY <2>1 DEF bcb
  <2>3. Slack(lo)' = Slack(lo) + Excess(lo)
    BY <1>3, <1>4, <2>1 DEF Slack
  <2>4. Bounded(lo, hi)'
    BY <1>2, <1>3, <1>4, <2>1, <2>2, <2>3 DEF Bounded
  <2>5. CutIdle'
    BY <2>1, Zenon DEF CutIdle
  <2>6. DiesOnlyWithoutBytes'
    BY <2>1 DEF DiesOnlyWithoutBytes
  <2> QED BY <1>1, <2>4, <2>5, <2>6, Zenon DEF RoomInv
<1>12. CASE UNCHANGED vars
  <2>1. pc' = pc /\ size' = size /\ UNCHANGED bcb /\ interrupts' = interrupts
    BY <1>12, Zenon DEF vars
  <2>2. current_size' = current_size
    BY <2>1 DEF bcb
  <2>3. CutIdle'
    <3>1. cut' = cut
      BY <1>12, Zenon DEF vars
    <3> QED BY <1>1, <2>1, <3>1, Zenon DEF CutIdle
  <2>4. Bounded(lo, hi)'
    BY <1>2, <1>5, <2>1, <2>2 DEF Bounded
  <2>5. DiesOnlyWithoutBytes'
    BY <1>2, <2>1 DEF DiesOnlyWithoutBytes
  <2> QED BY <1>1, <2>3, <2>4, <2>5, Zenon DEF RoomInv
<1> QED BY <1>7, <1>8, <1>9, <1>10, <1>11, <1>12, Zenon DEF Next

\* Where the ring is Roomy, the assertions fail only in a call that brings no
\* bytes: every chunk that was read finds room in Process(), whatever calls came
\* before it, and in ProcessMsg() the message has the length its header
\* announced.
THEOREM RoomForChunks ==
  ASSUME NEW lo, NEW hi, Sent(lo, hi), LengthsReadOrBeyond, Roomy(lo, hi)
  PROVE  Spec => []DiesOnlyWithoutBytes
<1>1. Init => RoomInv(lo, hi)
  BY RoomInit
<1>2. RoomInv(lo, hi) /\ [Next]_vars => RoomInv(lo, hi)'
  BY RoomStep
<1>3. RoomInv(lo, hi) => DiesOnlyWithoutBytes
  BY Zenon DEF RoomInv
<1> QED BY <1>1, <1>2, <1>3, PTL DEF Spec
=============================================================================
