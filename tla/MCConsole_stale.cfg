\* A four-byte ring, reads of up to two bytes, five keys and three reads:
\* a line is consumed without waiting, and the next read waits on cons.sem.
CONSTANTS
  INPUT_BUF = 4
  Chars <- OneChar
  MaxN = 2
  MaxKeys = 5
  MaxReads = 3
SPECIFICATION Spec
INVARIANT ReadsCommitted
CHECK_DEADLOCK FALSE
