\* One writer and one reader: the reader woken from rlock reads the ring
\* without pi->lock while the writer's next call fills it.
CONSTANTS
  w1 = w1  w2 = w2  r1 = r1
  None = None
  Writers <- OneWriter
  Readers <- OneReader
  Killable <- OneReader
  PIPE_SIZE = 2
  MaxN = 2
  MaxOps = 2
SPECIFICATION Spec
INVARIANT PipeFifo
CHECK_DEADLOCK FALSE
