\* Two threads missing on the same block of a cold cache.
CONSTANTS
  t1 = t1  t2 = t2  b1 = b1  b2 = b2  b3 = b3
  e1 = e1  e2 = e2  e3 = e3  e4 = e4
  NoBlock = NoBlock
  Threads <- TwoThreads
  Entries <- FourEntries
  BlockNos <- ThreeBlocks
  Access <- SharedTwo
  WarmList <- Cold
  EVICTION_THRESHOLD = 10
  MaxOps = 2
SPECIFICATION Spec
INVARIANT NoDuplicate
CHECK_DEADLOCK FALSE
