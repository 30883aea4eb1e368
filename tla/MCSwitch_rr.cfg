CONSTANTS
  Procs = {p1, p2, p3}
  Policy = "RR"
  Sched = Sched
  Null = Null
SPECIFICATION FairSpec
INVARIANTS OneLockAtSwitch NoMissedWakeup
PROPERTIES IoCompletes
