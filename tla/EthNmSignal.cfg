\* nmsrv and one signal.
CONSTANTS
  NULL = NULL
  Commands = {}
  MaxCommands = 0
  MaxSignals = 1
SPECIFICATION FairSpec
PROPERTY SignalEnds
CHECK_DEADLOCK FALSE
