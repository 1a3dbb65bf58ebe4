\* Two connections and two chunks each; one connection may be reset, which may
\* end the process.
CONSTANTS
  Clients = {4, 5}
  Resetting = {5}
  MaxChunks = 2
  Threads = {t1, t2}
  NoThread = NoThread
  NoClient = NoClient
SPECIFICATION FairSpec
INVARIANTS
  TypeOK
  ListExclusion
  OneServiceThread
  NothingLost
  RepeatsFew
  WatchesEveryClient
  DiesOnlyOfReset
PROPERTIES
  ListenReturns
  ImplementsDelivery
  EverythingDelivered
\* A peer may never connect, and a client that never sends is waited for.
CHECK_DEADLOCK FALSE
