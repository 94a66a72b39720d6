\* One thread: get, share, unlink and put in every order over two inodes.
CONSTANTS
  t1 = t1  t2 = t2  i1 = i1  i2 = i2  h1 = h1  h2 = h2  h3 = h3
  Threads <- OneThread
  Inos <- TwoInos
  Handles <- ThreeHandles
  MaxOps = 4
SPECIFICATION Spec
SYMMETRY SymmHandles
INVARIANTS TypeOK RefCountExact NoDanglingRef NoOrphan
CHECK_DEADLOCK FALSE
