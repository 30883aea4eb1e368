\* Sessions of up to two lines with at most one failing call; all lines of up to five
\* characters; a heap of 12 units that grows by 5 at a time.
CONSTANTS
  NPROC = 3
  CPUs = {c1, c2}
  Calls = {"fork", "exit", "wait", "kill", "sleep"}
  Null = Null
  Ticks = Ticks
  Letters = {"s", "c", "x", "d", "f"}
  MAXARGS = 3
  MAXLINE = 5
  ShProcs = {1, 2, 3, 4, 5, 6, 7}
  Sh0 = 1
  Lines <- MCLines
  NOFILE = 6
  SHPIPE = 1
  MAXFAULT = 1
  MINCORE = 5
  HEAPTOP = 14
  Requests = {2, 3, 6}
SPECIFICATION MCSpec
INVARIANTS OneCpuPerProcess ParentAlive NoMissedExit LockHolderRuns
  WiredAsWritten PromptAfterForeground NoCommandStuck ParsesAsGrammar HeapSound
SYMMETRY Symmetry
