\* Two transactions of budget 2 fit in the log: a begin_op can be admitted while
\* the committer has released log_lock inside its install loop.
CONSTANTS
  t1 = t1  t2 = t2  t3 = t3  b1 = b1  b2 = b2  b3 = b3
  NoThread = NoThread
  Threads <- TwoThreads
  Blocks <- MCBlocks
  LOG_MAX_SIZE = 5
  OP_MAX_NUM_BLOCKS = 2
  MaxTx = 1
  MaxWrites = 1
  MaxCrashes = 1
SPECIFICATION Spec
INVARIANT CrashConsistent
CHECK_DEADLOCK FALSE
