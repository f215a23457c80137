SPECIFICATION Spec
CONSTANTS
  Programs = {"tap", "tun"}
  MaxTap = 4
  MaxRaw = 2
  MaxFails = 2
INVARIANTS
  TypeOK
  ForwardedInOrder
  TxStampSound
  RxStampPrinted
  TakesTurns
CHECK_DEADLOCK FALSE
