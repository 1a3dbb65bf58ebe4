------------------------ MODULE MCMsgDelimiterFixed ------------------------
(* Model checking of module MsgDelimiterFixed: a stream in which every byte *)
(* is told from every other by its position.                                *)
EXTENDS MsgDelimiterFixed

CONSTANT Total  \* bytes Process() is called with

MCByte    == 0..Total
MCStreams == {[i \in 1..Total |-> i]}

\* What is read, another client's end of connection and another's failed read.
MCLengths == 0..MaxChunk \cup {2^16-1}
=============================================================================
