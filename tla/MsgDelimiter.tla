----------------------------- MODULE MsgDelimiter -----------------------------
(***************************************************************************)
(* What the two message delimiters share (msg_delimiter.cpp): the bytes    *)
(* Process() is called with are written to the client's ring, and the      *)
(* delimiter takes whole messages off the ring and gives each to the       *)
(* application, whose callback the service thread may be cancelled in.     *)
(* The service's loop calls Process() for every client of a pass: with     *)
(* what it read from this client, or, when the client was not ready, with  *)
(* what `data' and data_len hold.  The delimiter cannot tell the two       *)
(* apart, so the stream here is all it is called with, call after call;    *)
(* whose bytes they are is the business of module ClientService.  Modules  *)
(* MsgDelimiterFixed and MsgDelimiterVar add how a message is found.       *)
(***************************************************************************)
EXTENDS Naturals, Sequences

CONSTANTS
  Byte,           \* values of a byte
  Size,           \* kBcbSize
  Calloced,       \* the byte calloc() fills memory with
  BufSize,        \* kBufferSize: the length of MsgDelimiter::buf
  Streams,        \* what Process() may be called with, all calls together
  MaxChunk,       \* the most one recvfrom() returns
  Lengths,        \* values of data_len as Process() takes them, in 16 bits
  MaxInterrupts   \* bound: how often the thread is cancelled in a callback

ASSUME RingAssumption ==
  Size \in Nat \ {0} /\ Size < 2^16 /\ BufSize \in Nat /\ Calloced \in Byte
ASSUME StreamsAssumption == Streams \subseteq Seq(Byte)
ASSUME BoundsAssumption  == {MaxChunk, MaxInterrupts} \subseteq Nat /\ Lengths \subseteq 0..2^16-1

VARIABLES
  buffer, front, rear, current_size,  \* MsgDelimiter::bcb
  buf, ret,                           \* MsgDelimiter::buf, the last call's result
  pc,                                 \* where Process() is
  stream,                             \* what Process() is called with
  fed,                                \* how much of it the ring took
  size,                               \* the last Process()'s length
  messages,                           \* what `received' was given
  cut,                                \* the last Process() was cancelled
  interrupts                          \* how often that happened

bcb  == <<buffer, front, rear, current_size>>
vars == <<bcb, buf, ret, pc, stream, fed, size, messages, cut, interrupts>>

Ring == INSTANCE ByteCircularBuffer

\* Where Process() is; "aborted" when an assertion failed.
PCs == {"idle", "check", "take", "callback", "aborted"}

TypeOK ==
  /\ Ring!TypeOK
  /\ pc \in PCs
  /\ stream \in Streams
  /\ fed \in 0..Len(stream)
  /\ size \in Lengths \cup {0}
  /\ messages \in Seq(Seq(Byte))
  /\ cut \in BOOLEAN
  /\ interrupts \in 0..MaxInterrupts

Init ==
  /\ Ring!Init
  /\ pc = "idle"
  /\ stream \in Streams
  /\ fed = 0
  /\ size = 0
  /\ messages = <<>>
  /\ cut = FALSE
  /\ interrupts = 0

\* Process() is called with n bytes: the next of the stream, or, for a length
\* beyond any ring, what happens to be there.  A write that returns zero fails
\* the assertion.
Process(n) ==
  /\ pc = "idle"
  /\ \/ n <= Len(stream) - fed /\ Ring!BCBWrite(SubSeq(stream, fed + 1, fed + n))
     \/ n > Size /\ Ring!BCBWrite([i \in 1..n |-> Calloced])
  /\ fed' = fed + ret'
  /\ size' = n
  /\ pc' = IF ret' = 0 THEN "aborted" ELSE "check"
  /\ cut' = FALSE
  /\ UNCHANGED <<stream, messages, interrupts>>

\* The loop calls it with any data_len: that of the bytes it just read, or, for
\* a client that was not ready, an earlier one: another client's 0 or -1 too.
Feed == \E n \in Lengths : Process(n)

\* `received' is called with the first n bytes of buf.
Received(n) == messages' = Append(messages, SubSeq(buf', 1, n))

\* The callback returns to the loop of ProcessMsg(), at `next'.
Return(next) ==
  /\ pc = "callback"
  /\ pc' = next
  /\ UNCHANGED <<bcb, buf, ret, stream, fed, size, messages, cut, interrupts>>

\* ClientService::Listen() cancels the thread inside the callback; the thread
\* that replaces it calls Process() anew.
Interrupt ==
  /\ pc = "callback"
  /\ interrupts < MaxInterrupts
  /\ pc' = "idle"
  /\ cut' = TRUE
  /\ interrupts' = interrupts + 1
  /\ UNCHANGED <<bcb, buf, ret, stream, fed, size, messages>>

-----------------------------------------------------------------------------

\* The assertions of Process() and ProcessMsg() hold: every chunk finds room
\* in the ring, and every message has the length its header announced.
AssertionsHold == pc # "aborted"

\* They fail only in a call that brings nothing that was read: for a length of
\* zero, which the end of any client's connection leaves for the clients after
\* it, or for one no recvfrom() returns.  Every chunk that was read finds room
\* in the ring, whatever it found there, and every message has the length its
\* header announced.
DiesOnlyWithoutBytes == pc = "aborted" => size \notin 1..MaxChunk
=============================================================================
