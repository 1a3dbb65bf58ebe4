\* Two sizes, so that a header can lie across the end of the ring.
CONSTANTS
  Radix = 8
  Sizes = {3, 4}
  Count = 4
  MayStraddle = TRUE
  MaxMessages = 5
  Size = 8
  BufSize = 8
  MaxChunk = 3
  MaxInterrupts = 0
  Lengths = {1, 2, 3}
  Calloced = 0
  Byte <- MCByte
  Streams <- MCStreams
SPECIFICATION Spec
INVARIANT AssertionsHold
CHECK_DEADLOCK FALSE
