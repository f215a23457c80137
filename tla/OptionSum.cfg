SPECIFICATION Spec
CONSTANTS
  CpuIds = {0}
  FirstSeqs <- SomeSeqs
  Packets <- OnePackets
  MaxInserts = 1
INVARIANT ChecksumUpdated
CHECK_DEADLOCK FALSE
