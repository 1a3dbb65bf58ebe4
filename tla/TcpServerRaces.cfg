\* Connections arrive at any time, a new thread may be late, the state word is
\* not zero.
CONSTANTS
  Clients = {c1, c2}
  Managers = {m1, m2}
  Services = {s1, s2}
  Threads = {t1, t2}
  App = App
  NULL = NULL
  Zero = Zero
  Garbage <- SomeGarbage
  Overlap = TRUE
  SleepSuffices = FALSE
  ListenFails = TRUE
  PurgeLimit = 2
SPECIFICATION Spec
SYMMETRY Symmetry
CHECK_DEADLOCK FALSE
INVARIANTS
  TypeOK
  ServesOnlyKnown
