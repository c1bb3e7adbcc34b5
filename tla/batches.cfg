SPECIFICATION FairBatchSpec
CONSTANTS
  null = null  old = old
  k1 = k1  k2 = k2  k3 = k3  b1 = b1  b2 = b2
  Code = {k1, k2, k3}
  Taken = {k1}
  Batch = {b1, b2}
  MaxCount = 2
  Rounds = 2
INVARIANTS CodesOwned CodesExclusive ExactCount NoOrphan
PROPERTIES BatchEnds
CHECK_DEADLOCK FALSE
