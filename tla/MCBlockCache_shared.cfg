\* Two threads acquiring the same two blocks of a cold cache, two acquires
\* each: a hit finds the block another thread holds and sleeps on its lock
\* until that thread's cache_release, and two misses on one block each read
\* it in.  The threshold is above what four entries reach, so
\* manage_block_num frees nothing (eviction with shared blocks is the
\* stale-acquired hazard of cache.c:126).  No symmetry: the run also checks
\* a liveness property.
CONSTANTS
  t1 = t1  t2 = t2  b1 = b1  b2 = b2  b3 = b3
  e1 = e1  e2 = e2  e3 = e3  e4 = e4
  NoBlock = NoBlock
  Threads <- TwoThreads
  Entries <- FourEntries
  BlockNos <- ThreeBlocks
  Access <- SharedTwo
  WarmList <- Cold
  EVICTION_THRESHOLD = 10
  MaxOps = 2
SPECIFICATION Spec
INVARIANTS TypeOK LockExclusive
PROPERTY AcquireTerminates
CHECK_DEADLOCK FALSE
