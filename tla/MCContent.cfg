\* Files of at most one direct and two indirect blocks of two units each; one such file
\* fills the disk. A transaction writes at most one block's worth of units.
\* mkfs: three inode blocks, one bitmap block and ten data blocks.
CONSTANTS
  Procs = {1, 2}
  Files = {f1, f2}
  Inums = {i1, i2}
  None = None
  NBLOCKS = 4
  BSIZE = 2
  NDIRECT = 1
  NINDIRECT = 2
  MAXOPBLOCKS = 6
  ReadSizes = {1}
  WriteSizes = {5}
  MAXCALLS = 5
  FSSIZE = 17
  NLOGBLOCKS = 1
  NINODES = 6
  IPB = 3
  BPB = 24
  MAXMKFILES = 3
SPECIFICATION MCSpec
INVARIANTS BlocksExact ContentsKept OpWithinBudget 
SYMMETRY Symmetry
