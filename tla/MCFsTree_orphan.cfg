\* One process, three usable inodes, eight blocks: mkdir a, chdir a, unlink /a, then a
\* create in the dead cwd and a chdir out of it; only the paths "a", "/a"
\* and "/" are tried.
CONSTANTS
  NINODE = 4
  NBLOCK = 8
  BSIZE = 2
  DSIZE = 1
  NDIRECT = 1
  NINDIRECT = 2
  MAXNAME = 2
  Chars = {"a", "."}
  Paths <- OrphanPaths
  Fds <- TwoFds
  Counts = {1, 3}
  Iovs <- SplitIov
  Majors = {1, 2}
  MaxOps = 5
  ValidOnly = TRUE
SPECIFICATION Spec
INVARIANT NoOrphan
CHECK_DEADLOCK FALSE
