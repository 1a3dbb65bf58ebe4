CONSTANTS
  Clients = {4, 5}
  Resetting = {}
  MaxChunks = 1
  Threads = {t1, t2}
  NoThread = NoThread
  NoClient = NoClient
SPECIFICATION Spec
SYMMETRY ThreadSymmetry
PROPERTY NoForeignBytes
CHECK_DEADLOCK FALSE
