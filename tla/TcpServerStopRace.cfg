\* A connection arrives while the service is being stopped.
CONSTANTS
  Clients = {c1}
  Managers = {m1, m2}
  Services = {s1, s2}
  Threads = {t1, t2}
  App = App
  NULL = NULL
  Zero = Zero
  Garbage <- NoGarbage
  Overlap = TRUE
  SleepSuffices = TRUE
  ListenFails = FALSE
  PurgeLimit = 1
SPECIFICATION Spec
SYMMETRY Symmetry
CHECK_DEADLOCK FALSE
INVARIANT StoppedThread
