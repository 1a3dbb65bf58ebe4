\* Messages of three sizes, of which none lies across the end of the ring.
CONSTANTS
  Radix = 8
  Sizes = {3, 4, 5}
  Count = 5
  MayStraddle = FALSE
  MaxMessages = 6
  Size = 8
  BufSize = 8
  MaxChunk = 3
  MaxInterrupts = 1
  Calloced = 0
  Byte <- MCByte
  Streams <- MCStreams
  Lengths <- MCLengths
SPECIFICATION FairSpec
INVARIANTS
  DeliversMessages
  NothingWaits
  DiesOnlyWithoutBytes
PROPERTY ProcessReturns
\* All of the stream was passed, or an assertion failed.
CHECK_DEADLOCK FALSE
