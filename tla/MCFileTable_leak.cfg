\* One descriptor per process: the second open fails after file_alloc.
CONSTANTS
  p1 = p1  p2 = p2  p3 = p3  i1 = i1  i2 = i2  q1 = q1  q2 = q2
  NoFile = NoFile
  NoProc = NoProc
  Root = p1
  Procs <- TwoProcs
  InitProcs <- OneProc
  Inos <- TwoInos
  Pipes <- TwoPipes
  NFILE = 3
  NOPENFILE = 1
  MaxOps = 3
SPECIFICATION Spec
INVARIANT FileRefExact
CHECK_DEADLOCK FALSE
