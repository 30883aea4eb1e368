\* Two processes with operations of one block: a process may have to sleep when it begins
\* a second operation while the other one is in its first. Crashes happen at every step.
\* As in the image of mkfs, NLOG = LOGSIZE; WithinBudget holds with no block to spare.
CONSTANTS
  Procs = {p1, p2}
  Blocks = {b1, b2, b3}
  Vals = {v0, v1}
  None = None
  MAXOPBLOCKS = 2
  LOGSIZE = 4
  NLOG = 4
  OPBLOCKS = 1
SPECIFICATION FairSpec
INVARIANT NoPanic
PROPERTIES ImplementsAtomicFs WriteAhead SleepersWake
