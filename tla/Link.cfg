SPECIFICATION FairSpec
CONSTANTS
  d1 = d1
  d2 = d2
  p1 = p1
  p2 = p2
  Devs = {d1, d2}
  NumMdevs = 2
  Procs = {p1}
  None = None
  Configs <- TxOnOrOff
  Ioctl = {TRUE, FALSE}
  Failures = TRUE
INVARIANTS
  TypeOK
  LinkOwnedByUp
  OpenFindsRing
  AllOrNothing
  TstampAsConfigured
  RestoredIfAlone
PROPERTY DeleteEnds
CHECK_DEADLOCK FALSE
