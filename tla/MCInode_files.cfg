SPECIFICATION Spec
CONSTANTS
  p1 = p1
  p2 = p2
  Procs <- Two
  None = None
  NINODES = 3
  NINODE = 3
  Names = {"a", "b", "d"}
  Calls <- FileCalls
INVARIANTS
  RefsExact
  CacheCoherent
  
  LinksExact
SYMMETRY Perms
