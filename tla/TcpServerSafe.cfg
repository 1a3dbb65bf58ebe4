\* Connections arrive between calls, while a service listens.
CONSTANTS
  Clients = {c1, c2, c3}
  Managers = {m1, m2}
  Services = {s1, s2, s3}
  Threads = {t1}
  App = App
  NULL = NULL
  Zero = Zero
  Garbage <- NoGarbage
  Overlap = FALSE
  SleepSuffices = TRUE
  ListenFails = FALSE
  PurgeLimit = 1
SPECIFICATION FairSpec
CHECK_DEADLOCK FALSE
INVARIANTS
  NoFault
  FlagsTell
  ServesEveryClient
  ServiceHasItsThread
PROPERTIES
  StopEnds
  ImplementsControlPlane
