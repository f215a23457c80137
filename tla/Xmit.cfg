SPECIFICATION Spec
CONSTANTS
  cpu0 = cpu0
  cpu1 = cpu1
  k1 = k1
  k2 = k2
  None = None
  CPUs = {cpu0, cpu1}
  Pkts = {k1, k2}
  IpPkts = {k1, k2}
  Configs <- AllConfigs
  AfterBusy = {"stack", "dropped"}
  MaxChanges = 1
  MaxOptions = 1
INVARIANTS
  TypeOK
  CopiedOnceWhereSent
  CloneOwned
  WorkerHasClone
  CopiedWithTstamp
  SeqUniqueUnraced
CHECK_DEADLOCK FALSE
SYMMETRY Symmetry
