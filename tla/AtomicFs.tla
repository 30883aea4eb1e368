------------------------------ MODULE AtomicFs ------------------------------
(***************************************************************************)
(* What the logging layer (kernel/log.c) promises the file system: the     *)
(* writes of concurrent operations become durable in groups, all of a      *)
(* group or none of it, and never while an operation of it is unfinished.  *)
(***************************************************************************)

CONSTANTS Procs,   \* processes that execute file-system system calls
          Blocks,  \* home blocks of the file system
          Vals     \* contents of a block

VARIABLES mem,     \* what bread() returns for each block
          stable,  \* what a crash at this moment would leave after recovery
          active   \* the operations between begin_op() and end_op()

vars == <<mem, stable, active>>

Init ==
  /\ mem \in [Blocks -> Vals]
  /\ stable = mem
  /\ active = {}

Begin(p) ==
  /\ p \notin active
  /\ active' = active \cup {p}
  /\ UNCHANGED <<mem, stable>>

Write(p, b, v) ==
  /\ p \in active
  /\ mem' = [mem EXCEPT ![b] = v]
  /\ UNCHANGED <<stable, active>>

End(p) ==
  /\ p \in active
  /\ active' = active \ {p}
  /\ UNCHANGED <<mem, stable>>

\* The whole current contents become durable at once.
Commit ==
  /\ active = {}
  /\ stable' = mem
  /\ UNCHANGED <<mem, active>>

Crash ==
  /\ mem' = stable
  /\ active' = {}
  /\ UNCHANGED stable

Next ==
  \/ \E p \in Procs : Begin(p) \/ End(p)
  \/ \E p \in Procs, b \in Blocks, v \in Vals : Write(p, b, v)
  \/ Commit
  \/ Crash

Spec == Init /\ [][Next]_vars
=============================================================================
