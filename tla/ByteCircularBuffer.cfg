\* Every history of a ring of three bytes; writes up to one more than fits.
CONSTANTS
  Byte = {0, 1}
  Size = 3
  Calloced = 0
  BufSize = 3
SPECIFICATION Spec
INVARIANTS
  TypeOK
  RingOK
PROPERTIES
  ImplementsByteQueue
  WritesAppend
  ReadsOldest
