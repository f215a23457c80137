SPECIFICATION FairSpec
CONSTANTS
  softirq = softirq
  xmit = xmit
  worker = worker
  p1 = p1
  p2 = p2
  SlotNum = 4
  Writers = {softirq}
  Gated = {softirq}
  Masks <- RxMasks
  Procs = {p1, p2}
  NoProc = NoProc
  MaxIov = 2
  MaxPkts = 5
  Timeout = TRUE
INVARIANTS
  TypeOK
  ExclusiveOpen
  FifoDelivery
  NothingLost
PROPERTIES
  FifoSpec
  EventuallyRead
