\* Three connections, arriving at any time from Start() on.
CONSTANTS
  Clients = {c1, c2, c3}
  Server = Server
  NULL = NULL
  Mixed = Mixed
SPECIFICATION FairSpec
INVARIANTS
  TypeOK
  NoWildCall
  RightUnlessShared
PROPERTIES
  DisplaysOneDatabase
  AcceptedIsKnown
\* The process exits.
CHECK_DEADLOCK FALSE
