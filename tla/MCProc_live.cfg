\* Processes end by being killed or by a fault; exit() adds nothing to these
\* questions.
CONSTANTS
  NPROC = 3
  CPUs = {c1}
  Calls = {"fork", "wait", "kill", "sleep"}
  Null = Null
  Ticks = Ticks
SPECIFICATION FairSpec
PROPERTIES  KilledExits
