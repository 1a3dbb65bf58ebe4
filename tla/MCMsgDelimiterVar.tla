-------------------------- MODULE MCMsgDelimiterVar --------------------------
(* Model checking of module MsgDelimiterVar: the streams of messages whose *)
(* sizes are drawn from Sizes.                                             *)
EXTENDS MsgDelimiterVar, SequencesExt

CONSTANTS
  Sizes,       \* the sizes of the messages, headers included
  Count,       \* how many there are
  MayStraddle  \* whether a message may lie across the end of the ring

\* Two bytes of size, then a body that tells messages and positions apart.
Message(k, n) == <<n % Radix, n \div Radix>> \o [i \in 1..n-2 |-> (k + 2 * i) % Radix]

\* The bytes before message k.
Before(sizes, k) == FoldSeq(+, 0, SubSeq(sizes, 1, k - 1))

SizesSent ==
  {sizes \in [1..Count -> Sizes] :
     ~MayStraddle => \A k \in 1..Count : (Before(sizes, k) % Size) + sizes[k] <= Size}

\* What is read, another client's end of connection and another's failed read.
MCLengths == 0..MaxChunk \cup {2^16-1}

MCByte == 0..Radix-1
MCStreams ==
  {FlattenSeq([k \in 1..Count |-> Message(k, sizes[k])]) : sizes \in SizesSent}
=============================================================================
