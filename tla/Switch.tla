------------------------------- MODULE Switch -------------------------------
(***************************************************************************)
(* One CPU switching between processes and its scheduler, at the level     *)
(* where interrupts matter: push_off()/pop_off() and the intena that       *)
(* sched() carries along, c->proc, a process that sleeps for the disk, the *)
(* disk and timer interrupts, exit().  The constant Policy selects the     *)
(* build (RR, FCFS or MLFQ): the three loops of scheduler() leave a        *)
(* process in different orders, and kerneltrap() yields on different       *)
(* conditions.  One action runs to the next point where interrupts can be  *)
(* on.                                                                     *)
(***************************************************************************)
EXTENDS Naturals

CONSTANTS Procs, Policy,
          Sched, Null     \* the scheduler's thread; c->proc = 0

ASSUME SwitchConstants ==
  /\ Policy \in {"RR", "FCFS", "MLFQ"}
  /\ Sched \notin Procs /\ Null \notin Procs

VARIABLES
  hart,    \* noff, intena of struct cpu; sie: interrupts are on
  cproc,   \* c->proc
  run,     \* whose kernel stack the CPU is on
  spc,     \* where scheduler() is
  ppc,     \* where a process is, or will resume
  saved,   \* the local intena of its sched()
  state,   \* p->state
  bdisk,   \* b->disk of the buffer the process waits for
  dev      \* its request in the device: "none", "busy", or "used" (irq raised)

vars == <<hart, cproc, run, spc, ppc, saved, state, bdisk, dev>>

\* push_off() and pop_off() of spinlock.c, called by acquire() and release().
PushOff(h) ==
  [noff |-> h.noff + 1,
   intena |-> IF h.noff = 0 THEN h.sie ELSE h.intena,
   sie |-> FALSE]

\* Mutant: release() always enables interrupts.
PopOffAlways(h) == [h EXCEPT !.noff = @ - 1, !.sie = TRUE]

PopOff(h) ==
  [noff |-> h.noff - 1,
   intena |-> h.intena,
   sie |-> h.sie \/ (h.noff = 1 /\ h.intena)]

Init ==
  /\ hart = [noff |-> 0, intena |-> FALSE, sie |-> FALSE]
  /\ cproc = Null
  /\ run = Sched
  /\ spc = "loop"
  /\ ppc = [p \in Procs |-> "new"]
  /\ saved = [p \in Procs |-> FALSE]
  /\ \E p \in Procs : state = [q \in Procs |-> IF q = p THEN "RUNNABLE" ELSE "UNUSED"]
  /\ bdisk = [p \in Procs |-> FALSE]
  /\ dev = [p \in Procs |-> "none"]
-----------------------------------------------------------------------------
(* scheduler() *)

\* intr_on() at the top of the loop.
Loop ==
  /\ run = Sched /\ spc \in {"loop", "pick"}
  /\ spc' = "pick"
  /\ hart' = [hart EXCEPT !.sie = TRUE]
  /\ UNCHANGED <<cproc, run, ppc, saved, state, bdisk, dev>>

\* The scheduler takes p->lock and switches to p, which returns from sched(),
\* or starts in forkret(), and releases p->lock.
Pick(p) ==
  /\ run = Sched /\ spc = "pick"
  /\ state[p] = "RUNNABLE"
  /\ state' = [state EXCEPT ![p] = "RUNNING"]
  /\ cproc' = p
  /\ run' = p
  /\ LET h == PushOff(hart) IN
     hart' = PopOff(IF ppc[p] = "new" THEN h ELSE [h EXCEPT !.intena = saved[p]])
  /\ UNCHANGED <<spc, ppc, saved, bdisk, dev>>

\* FCFS and MLFQ release p->lock before they clear c->proc, RR after.
ReleasesFirst == Policy \in {"FCFS", "MLFQ"}

\* The first statement after swtch() has come back.
Back ==
  /\ run = Sched /\ spc = "back"
  /\ IF ReleasesFirst THEN hart' = PopOff(hart) /\ UNCHANGED cproc
                      ELSE cproc' = Null /\ UNCHANGED hart
  /\ spc' = "back2"
  /\ UNCHANGED <<run, ppc, saved, state, bdisk, dev>>

\* The second one.
Back2 ==
  /\ run = Sched /\ spc = "back2"
  /\ IF ReleasesFirst THEN cproc' = Null /\ UNCHANGED hart
                      ELSE hart' = PopOff(hart) /\ UNCHANGED cproc
  /\ spc' = IF Policy = "RR" THEN "pick" ELSE "loop"
  /\ UNCHANGED <<run, ppc, saved, state, bdisk, dev>>
-----------------------------------------------------------------------------
(* A process in the kernel or in user space.  "run": no lock held. *)

\* sched(): intena is saved, the CPU is back in scheduler().
SchedFrom(p, h) ==
  /\ hart' = h
  /\ saved' = [saved EXCEPT ![p] = h.intena]
  /\ run' = Sched
  /\ spc' = "back"
  /\ UNCHANGED cproc

\* virtio_disk_rw() up to the first test of b->disk; vdisk_lock is held.
DiskRw(p) ==
  /\ run = p /\ ppc[p] = "run"
  /\ hart' = PushOff(hart)
  /\ bdisk' = [bdisk EXCEPT ![p] = TRUE]
  /\ dev' = [dev EXCEPT ![p] = "busy"]
  /\ ppc' = [ppc EXCEPT ![p] = "wait"]
  /\ UNCHANGED <<cproc, run, spc, saved, state>>

\* while(b->disk == 1) sleep(b, &disk.vdisk_lock)
DiskSleep(p) ==
  /\ run = p /\ ppc[p] = "wait" /\ bdisk[p]
  /\ state' = [state EXCEPT ![p] = "SLEEPING"]
  /\ ppc' = [ppc EXCEPT ![p] = "sleep"]
  /\ SchedFrom(p, PopOff(PushOff(hart)))
  /\ UNCHANGED <<bdisk, dev>>

DiskDone(p) ==
  /\ run = p /\ ppc[p] = "wait" /\ ~bdisk[p]
  /\ hart' = PopOff(hart)
  /\ ppc' = [ppc EXCEPT ![p] = "run"]
  /\ UNCHANGED <<cproc, run, spc, saved, state, bdisk, dev>>

\* sleep() has returned to the CPU: it takes lk again.
Reacquire(p) ==
  /\ run = p /\ ppc[p] = "sleep"
  /\ hart' = PushOff(hart)
  /\ ppc' = [ppc EXCEPT ![p] = "wait"]
  /\ UNCHANGED <<cproc, run, spc, saved, state, bdisk, dev>>

\* sret at the end of a trap, or to user space, turns interrupts on.
TrapRet(p) ==
  /\ run = p /\ ppc[p] \in {"new", "trap"}
  /\ hart' = [hart EXCEPT !.sie = TRUE]
  /\ ppc' = [ppc EXCEPT ![p] = "run"]
  /\ UNCHANGED <<cproc, run, spc, saved, state, bdisk, dev>>

\* exit() with wait_lock and p->lock, wait_lock released, sched().
Exit(p) ==
  /\ run = p /\ ppc[p] = "run"
  /\ state' = [state EXCEPT ![p] = "ZOMBIE"]
  /\ ppc' = [ppc EXCEPT ![p] = "exited"]
  /\ SchedFrom(p, PopOff(PushOff(PushOff(hart))))
  /\ UNCHANGED <<bdisk, dev>>

\* wait() in p frees q; fork() in p makes q.
Wait(p, q) ==
  /\ run = p /\ ppc[p] = "run" /\ state[q] = "ZOMBIE"
  /\ state' = [state EXCEPT ![q] = "UNUSED"]
  /\ UNCHANGED <<hart, cproc, run, spc, ppc, saved, bdisk, dev>>

Fork(p, q) ==
  /\ run = p /\ ppc[p] = "run" /\ state[q] = "UNUSED"
  /\ state' = [state EXCEPT ![q] = "RUNNABLE"]
  /\ ppc' = [ppc EXCEPT ![q] = "new"]
  /\ UNCHANGED <<hart, cproc, run, spc, saved, bdisk, dev>>
-----------------------------------------------------------------------------
(* The device, and interrupts *)

DeviceDone(p) ==
  /\ dev[p] = "busy"
  /\ dev' = [dev EXCEPT ![p] = "used"]
  /\ UNCHANGED <<hart, cproc, run, spc, ppc, saved, state, bdisk>>

\* yield() from a trap taken while c->proc = p, interrupts off.  It saves the
\* context the trap interrupted as p's: p resumes there, which is right only if
\* that was p's own ("lost" otherwise).
Yield(p, s) ==
  /\ state' = [s EXCEPT ![p] = "RUNNABLE"]
  /\ ppc' = [ppc EXCEPT ![p] = IF run = p THEN "trap" ELSE "lost"]
  /\ SchedFrom(p, PushOff([hart EXCEPT !.sie = FALSE]))

\* When the trap handler calls yield(), s being the process states then.  MLFQ:
\* the slice is over, or a process of a better queue (any other, here) can run.
YieldsIn(p, s, timer) ==
  /\ p # Null
  /\ \/ Policy = "RR" /\ timer /\ s[p] = "RUNNING"
     \/ Policy = "MLFQ" /\ \/ timer /\ s[p] = "RUNNING"
                           \/ \E q \in Procs \ {p} : s[q] = "RUNNABLE"

\* What follows the device's part of the handler.  In the MLFQ build priorities
\* are abstract, so that a handler that may yield may also not.
AfterIntr(s, timer) ==
  \/ YieldsIn(cproc, s, timer) /\ Yield(cproc, s)
  \/ /\ ~YieldsIn(cproc, s, timer) \/ Policy = "MLFQ"
     /\ state' = s
     /\ UNCHANGED <<hart, cproc, run, spc, ppc, saved>>

\* Mutant: virtio_disk_intr() does not clear b->disk.
DiskIntrKeepsDisk ==
  /\ hart.sie /\ \E p \in Procs : dev[p] = "used"
  /\ LET done == {p \in Procs : dev[p] = "used"}
         s == [p \in Procs |-> IF p \in done \ {cproc} /\ state[p] = "SLEEPING"
                                 THEN "RUNNABLE" ELSE state[p]]
     IN /\ UNCHANGED bdisk
        /\ dev' = [p \in Procs |-> IF p \in done THEN "none" ELSE dev[p]]
        /\ AfterIntr(s, FALSE)

\* Mutant: virtio_disk_intr() without wakeup().
DiskIntrNoWakeup ==
  /\ hart.sie /\ \E p \in Procs : dev[p] = "used"
  /\ bdisk' = [p \in Procs |-> bdisk[p] /\ dev[p] # "used"]
  /\ dev' = [p \in Procs |-> IF dev[p] = "used" THEN "none" ELSE dev[p]]
  /\ AfterIntr(state, FALSE)

\* virtio_disk_intr(): wakeup(b) passes over myproc().
DiskIntr ==
  /\ hart.sie /\ \E p \in Procs : dev[p] = "used"
  /\ LET done == {p \in Procs : dev[p] = "used"}
         s == [p \in Procs |-> IF p \in done \ {cproc} /\ state[p] = "SLEEPING"
                                 THEN "RUNNABLE" ELSE state[p]]
     IN /\ bdisk' = [p \in Procs |-> bdisk[p] /\ p \notin done]
        /\ dev' = [p \in Procs |-> IF p \in done THEN "none" ELSE dev[p]]
        /\ AfterIntr(s, FALSE)

\* clockintr() concerns no process that waits for the disk.
TimerIntr ==
  /\ hart.sie
  /\ AfterIntr(state, TRUE)
  /\ UNCHANGED <<bdisk, dev>>
-----------------------------------------------------------------------------
ProcStep(p) == DiskSleep(p) \/ DiskDone(p) \/ Reacquire(p) \/ TrapRet(p)

Next ==
  \/ Loop \/ Back \/ Back2 \/ DiskIntr \/ TimerIntr
  \/ \E p \in Procs :
       \/ Pick(p) \/ ProcStep(p) \/ DiskRw(p) \/ Exit(p) \/ DeviceDone(p)
       \/ \E q \in Procs : Wait(p, q) \/ Fork(p, q)

Spec == Init /\ [][Next]_vars

\* The CPU executes, the device answers, interrupts are taken, the loop of the
\* scheduler comes round to every process.
Fairness ==
  /\ WF_vars(Loop \/ Back \/ Back2) /\ SF_vars(DiskIntr) /\ SF_vars(TimerIntr)
  /\ \A p \in Procs : WF_vars(ProcStep(p)) /\ WF_vars(DeviceDone(p)) /\ SF_vars(Pick(p))

FairSpec == Spec /\ Fairness
-----------------------------------------------------------------------------
(* Properties *)

\* sched() does not panic: a process reaches the scheduler with exactly its own
\* lock, interrupts off; and code without locks runs with noff = 0.
OneLockAtSwitch ==
  /\ run = Sched /\ spc = "back" => hart.noff = 1 /\ ~hart.sie
  /\ run # Sched /\ ppc[run] \in {"run", "trap", "sleep"} => hart.noff = 0

\* sleep(): a process that sleeps for the disk has not missed the wakeup of the
\* interrupt that completed its request, wherever that interrupt came in.
NoMissedWakeup ==
  \A p \in Procs : state[p] = "SLEEPING" => bdisk[p]

\* A process that sleeps for the disk is woken, scheduled and goes on.
IoCompletes == \A p \in Procs : (ppc[p] = "sleep") ~> (ppc[p] = "run")
=============================================================================
