--------------------------- MODULE MsgDelimiterVar ---------------------------
(***************************************************************************)
(* The delimiter of messages that begin with their own size                *)
(* (msg_delimiter_var.cpp): two bytes, low byte first, that count          *)
(* themselves.  The header is read into a local variable the code does not *)
(* initialize, so what a faulty read leaves untouched there is arbitrary.  *)
(***************************************************************************)
EXTENDS MsgDelimiter

CONSTANTS
  Radix,       \* the number of values of a byte
  MaxMessages  \* bound: calls of `received'

ASSUME RadixAssumption       == Radix \in Nat \ {0} /\ Byte = 0..Radix-1
ASSUME MaxMessagesAssumption == MaxMessages \in Nat

kHeaderMsgSize == 2

\* BCBRead(bcb, &msg_size, kHeaderMsgSize, false) on a local that held m.
Local == INSTANCE ByteCircularBuffer WITH BufSize <- kHeaderMsgSize, buf <- <<0, 0>>

Peeked(m) ==
  LET leading_space == Size - rear
  IN  IF Ring!Straddles(kHeaderMsgSize)
        THEN Local!Get(Local!Get(m, rear, leading_space), 0, kHeaderMsgSize - leading_space)
        ELSE Local!Get(m, rear, kHeaderMsgSize)

\* The sizes the header may be taken for.
HeaderSizes ==
  {Peeked(m)[1] + Radix * Peeked(m)[2] : m \in [1..kHeaderMsgSize -> Byte]}

\* Mutants: a message must be followed by another byte; a header is enough.
IsFlushable_Strict(msg_size) == current_size > kHeaderMsgSize /\ msg_size < current_size
IsFlushable_HeaderOnly(msg_size) == current_size > kHeaderMsgSize

\* IsFlushable(), for a header taken for msg_size.
IsFlushable(msg_size) == current_size > kHeaderMsgSize /\ msg_size <= current_size

\* Mutant: it waits for the rest of the message.
Check_Waits ==
  /\ pc = "check"
  /\ \E msg_size \in IF current_size > kHeaderMsgSize THEN HeaderSizes ELSE {0} :
       pc' = IF IsFlushable(msg_size) THEN "take" ELSE "check"
  /\ UNCHANGED <<bcb, buf, ret, stream, fed, size, messages, cut, interrupts>>

\* Process() and the loop of ProcessMsg() ask the same question.
Check ==
  /\ pc = "check"
  /\ \E msg_size \in IF current_size > kHeaderMsgSize THEN HeaderSizes ELSE {0} :
       pc' = IF IsFlushable(msg_size) THEN "take" ELSE "idle"
  /\ UNCHANGED <<bcb, buf, ret, stream, fed, size, messages, cut, interrupts>>

\* Mutant: the message stays in the ring.
Take_Keeps ==
  /\ pc = "take"
  /\ Len(messages) < MaxMessages
  /\ \E read_size \in HeaderSizes :
       /\ Ring!BCBRead(read_size, FALSE)
       /\ IF ret' # read_size THEN pc' = "aborted" /\ UNCHANGED messages
                              ELSE pc' = "callback" /\ Received(read_size)
  /\ UNCHANGED <<stream, fed, size, cut, interrupts>>

\* The header is read a second time, into another local, before the message.
Take ==
  /\ pc = "take"
  /\ Len(messages) < MaxMessages
  /\ \E read_size \in HeaderSizes :
       /\ Ring!BCBRead(read_size, TRUE)
       /\ IF ret' # read_size THEN pc' = "aborted" /\ UNCHANGED messages
                              ELSE pc' = "callback" /\ Received(read_size)
  /\ UNCHANGED <<stream, fed, size, cut, interrupts>>

Next == Feed \/ Check \/ Take \/ Return("check") \/ Interrupt

Spec == Init /\ [][Next]_vars

\* Process() runs on; nothing is promised of the loop that calls it.
FairSpec == Spec /\ WF_vars(Check \/ Take \/ Return("check"))

-----------------------------------------------------------------------------

\* The size of the message that begins at position p of the stream.
SizeAt(p) == stream[p] + Radix * stream[p + 1]

\* Where the messages of the stream begin, message 1 at position 1.
Begins[i \in 1..MaxMessages+1] == IF i = 1 THEN 1 ELSE Begins[i-1] + SizeAt(Begins[i-1])

\* What the application receives are the messages that the headers in what
\* Process() was called with announce, whole and in order.
DeliversMessages ==
  \A i \in DOMAIN messages : messages[i] = SubSeq(stream, Begins[i], Begins[i+1] - 1)

\* A Process() that was not cancelled leaves no complete message behind.
NothingWaits ==
  LET n == Len(messages)
  IN  pc = "idle" /\ ~cut =>
        /\ current_size = fed - (Begins[n+1] - 1)
        /\ current_size > kHeaderMsgSize => current_size < SizeAt(Begins[n+1])

\* Process() returns, so the service thread gets to its other clients, as long
\* as no header announces zero bytes: ProcessMsg() would take them for ever.
ProcessReturns == pc \in {"check", "take", "callback"} ~> pc = "idle"
=============================================================================
