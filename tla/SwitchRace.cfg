SPECIFICATION Spec
CONSTANTS
  cpu0 = cpu0
  cpu1 = cpu1
  k1 = k1
  k2 = k2
  None = None
  CPUs = {cpu0}
  Pkts = {k1}
  IpPkts = {k1}
  Configs <- AllConfigs
  AfterBusy = {"dropped"}
  MaxChanges = 1
  MaxOptions = 1
INVARIANT CloneWhenNeeded
