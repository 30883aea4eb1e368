SPECIFICATION Spec
CONSTANTS
  p1 = p1
  p2 = p2
  p3 = p3
  Procs <- Three
  NPAGES = 24
  PGSIZE = 2
  MAXSZ = 8
  Images <- SmallImages
  Grow <- Steps
  REARM = FALSE
INVARIANTS
  
  SizeMatchesMapping
SYMMETRY Perms
CHECK_DEADLOCK FALSE
