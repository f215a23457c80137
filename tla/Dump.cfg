SPECIFICATION FairSpec
CONSTANTS
  rx0 = rx0
  rx1 = rx1
  Devices = {rx0, rx1}
  Argv <- TwiceNamed
  BULKNUM = 2
  Capacity = 3
  MaxPkts = 3
  MaxSignals = 2
INVARIANTS
  TypeOK
  PrintsWhatItTakes
PROPERTIES
  StopsOnSignal
  Drains
CHECK_DEADLOCK FALSE
