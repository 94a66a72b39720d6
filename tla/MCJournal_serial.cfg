\* Log sized for one transaction at a time: LOG_MAX_SIZE = OP_MAX_NUM_BLOCKS + 1
\* makes cache_begin_op admit only into an empty, idle log.
CONSTANTS
  t1 = t1  t2 = t2  t3 = t3  b1 = b1  b2 = b2  b3 = b3
  NoThread = NoThread
  Threads <- TwoThreads
  Blocks <- ThreeBlocks
  LOG_MAX_SIZE = 3
  OP_MAX_NUM_BLOCKS = 2
  MaxTx = 2
  MaxWrites = 2
  MaxCrashes = 1
SPECIFICATION Spec
SYMMETRY Symm2
INVARIANTS TypeOK  QuiescentDurable NoSyncPanic
PROPERTY RefinesAtomicDisk
CHECK_DEADLOCK FALSE
