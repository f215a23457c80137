SPECIFICATION FairSpec
CONSTANTS
  p1 = p1
  p2 = p2
  k1 = k1
  k2 = k2
  Procs = {p1, p2}
  Pkts = {k1, k2}
INVARIANTS
  TypeOK
  SafeIfQuiet
  PathsEndFirst
  LeavesNothing
PROPERTY WorkersEnd
CHECK_DEADLOCK FALSE
