SPECIFICATION Spec
CONSTANTS
  CpuIds = {0, 15}
  FirstSeqs <- SomeSeqs
  Packets <- SomePackets
  MaxInserts = 2
INVARIANTS
  TypeOK
  StackBytesKept
  BareChecksumGood
  OptionReadBack
CHECK_DEADLOCK FALSE
