CONSTANTS
  Procs = {p1, p2}
  Policy = "FCFS"
  Sched = Sched
  Null = Null
SPECIFICATION Spec
INVARIANTS NoMissedWakeup
