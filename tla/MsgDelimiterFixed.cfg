\* Messages of two bytes in a ring of twelve, as ten bytes in 10240: the size
\* divides the ring, which turns around twice.  With two cancellations the
\* ring just does not fill: 1 + 2 * (5 - 2) + 5 <= 12.
CONSTANTS
  fixed_size = 2
  Size = 12
  BufSize = 5
  Total = 26
  MaxChunk = 5
  MaxInterrupts = 2
  Calloced = 0
  Byte <- MCByte
  Streams <- MCStreams
  Lengths <- MCLengths
SPECIFICATION Spec
INVARIANTS
  TypeOK
  DeliversStream
  NothingWaits
  DiesOnlyWithoutBytes
\* All of the stream was passed, or an assertion failed.
CHECK_DEADLOCK FALSE
