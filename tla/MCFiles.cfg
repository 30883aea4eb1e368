SPECIFICATION Spec
CONSTANTS
  p1 = p1
  p2 = p2
  p3 = p3
  Procs <- Two
  Pipes = {1}
  Vals = {0, 1}
  PIPESIZE = 2
  WRAP = 4
  None = None
  NFILE = 2
  NOFILE = 2
  MAXIO = 2
INVARIANTS
  RefsExact
  SleepersHaveReason
PROPERTY
  ImplementsFifo
SYMMETRY Perms
CHECK_DEADLOCK FALSE
