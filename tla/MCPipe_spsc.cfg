\* One writer and one reader on a two-byte ring; the reader may be killed.
CONSTANTS
  w1 = w1  w2 = w2  r1 = r1
  None = None
  Writers <- OneWriter
  Readers <- OneReader
  Killable <- OneReader
  PIPE_SIZE = 2
  MaxN = 3
  MaxOps = 2
SPECIFICATION Spec
INVARIANTS TypeOK
PROPERTIES WriterWakes
CHECK_DEADLOCK FALSE
