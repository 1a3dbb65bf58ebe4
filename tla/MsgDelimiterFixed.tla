-------------------------- MODULE MsgDelimiterFixed --------------------------
(***************************************************************************)
(* The delimiter of messages of one fixed size (msg_delimiter_fixed.cpp).  *)
(***************************************************************************)
EXTENDS MsgDelimiter

CONSTANT fixed_size  \* MsgDelimiterFixed::fixed_size

ASSUME FixedSizeAssumption == fixed_size \in 1..BufSize

\* Mutant: more than one message must be there.
IsFlushable_Two == current_size \div fixed_size > 1

IsFlushable == current_size \div fixed_size > 0

\* Process() and ProcessMsg() ask the same question one after the other.
Check ==
  /\ pc = "check"
  /\ pc' = IF IsFlushable THEN "take" ELSE "idle"
  /\ UNCHANGED <<bcb, buf, ret, stream, fed, size, messages, cut, interrupts>>

\* Mutant: the message stays in the ring.
Take_Keeps ==
  /\ pc = "take"
  /\ Ring!BCBRead(fixed_size, FALSE)
  /\ IF ret' = 0 THEN pc' = "idle" /\ UNCHANGED messages
                 ELSE pc' = "callback" /\ Received(ret')
  /\ UNCHANGED <<stream, fed, size, cut, interrupts>>

\* The condition of ProcessMsg()'s loop: a read of zero bytes ends it.
Take ==
  /\ pc = "take"
  /\ Ring!BCBRead(fixed_size, TRUE)
  /\ IF ret' = 0 THEN pc' = "idle" /\ UNCHANGED messages
                 ELSE pc' = "callback" /\ Received(ret')
  /\ UNCHANGED <<stream, fed, size, cut, interrupts>>

Next == Feed \/ Check \/ Take \/ Return("take") \/ Interrupt

Spec == Init /\ [][Next]_vars

-----------------------------------------------------------------------------

\* What the application receives is what Process() was called with, cut every
\* fixed_size bytes, whatever the pieces it came in, whoever's they were, and
\* wherever the ring turned.
DeliversStream ==
  \A i \in DOMAIN messages :
    messages[i] = SubSeq(stream, (i - 1) * fixed_size + 1, i * fixed_size)

\* A Process() that was not cancelled leaves no complete message behind, not
\* even one an earlier, cancelled Process() left.
NothingWaits ==
  pc = "idle" /\ ~cut =>
    current_size < fixed_size /\ fed = Len(messages) * fixed_size + current_size
=============================================================================
