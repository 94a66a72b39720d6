\* One process, three usable inodes, seven data blocks of two bytes, one
\* direct and two indirect slots: files and directories outgrow the direct
\* block, the tables fill, and every path of up to three characters is tried
\* whose elements are shorter than FILE_NAME_MAX_LENGTH (3), so no element is cut.
CONSTANTS
  NINODE = 4
  NBLOCK = 7
  BSIZE = 2
  DSIZE = 1
  NDIRECT = 1
  NINDIRECT = 2
  MAXNAME = 3
  Chars = {"a", "."}
  Paths <- FitPaths
  Fds <- TwoFds
  Counts = {1, 3}
  Iovs <- SplitIov
  Majors = {1, 2}
  MaxOps = 4
  ValidOnly = TRUE
SPECIFICATION Spec
INVARIANTS TypeOK LinkCountExact  MappedExactly NamexAgrees OffsetWithinFile
PROPERTY RefinesNamespace
CHECK_DEADLOCK FALSE
