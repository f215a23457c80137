SPECIFICATION Spec
CONSTANTS
  softirq = softirq
  xmit = xmit
  worker = worker
  p1 = p1
  p2 = p2
  SlotNum = 4
  Writers = {xmit, worker}
  Gated = {xmit}
  Masks <- TxMasks
  Procs = {p1}
  NoProc = NoProc
  MaxIov = 2
  MaxPkts = 3
  Timeout = TRUE
INVARIANT TstampOfPacket
