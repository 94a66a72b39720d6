\* Small tables that fill up: every failure path of openat, dup and pipe2 is taken.
\* Three processes: root_proc, a child and a grandchild it can adopt.  No
\* symmetry: liveness is checked.
CONSTANTS
  p1 = p1  p2 = p2  p3 = p3  i1 = i1  i2 = i2  q1 = q1  q2 = q2
  NoFile = NoFile
  NoProc = NoProc
  Root = p1
  Procs <- ThreeProcs
  InitProcs <- OneProc
  Inos <- TwoInos
  Pipes <- TwoPipes
  NFILE = 3
  NOPENFILE = 2
  MaxOps = 5
SPECIFICATION FairSpec
INVARIANTS TypeOK FileRefCovers PipeEndsExact InodeRefExact ZombiesCounted InTree
PROPERTY WaitReturns
CHECK_DEADLOCK FALSE
