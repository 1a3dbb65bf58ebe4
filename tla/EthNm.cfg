\* Two signals, and two calls that set a state which makes the threads act.
CONSTANTS
  NULL = NULL
  Commands = {"repeat_message", "normal_op", "sleep_bus", "error_state"}
  MaxCommands = 2
  MaxSignals = 2
SPECIFICATION FairSpec
INVARIANTS
  TypeOK
  WakesOnce
PROPERTIES
  Settles
  SleepEnds
\* The process may exit.
CHECK_DEADLOCK FALSE
