-------------------------------- MODULE Proc --------------------------------
(***************************************************************************)
(* The process table of kernel/proc.c under the round-robin scheduler:     *)
(* fork, exit, wait, kill, sleep/wakeup, timer preemption and the per-CPU  *)
(* scheduler loop.                                                         *)
(*                                                                         *)
(* A critical section of p->lock contains no other wait (a switch to the   *)
(* scheduler included: sched() and the scheduler's release() follow        *)
(* without another acquire), so it is one action.  wait_lock and tickslock *)
(* are held across several of those and are variables.  A process that     *)
(* holds a lock runs with interrupts off and is not preempted.             *)
(***************************************************************************)
EXTENDS Naturals, FiniteSets

CONSTANTS NPROC,  \* slots of proc[]; slot 1 is initproc
          CPUs,
          Calls,  \* system calls the programs make
          Null, Ticks  \* no process / no channel; the channel &ticks

ASSUME ProcConstants ==
  /\ NPROC \in Nat \ {0}
  /\ Null \notin 1..NPROC /\ Ticks \notin 1..NPROC /\ Null # Ticks
  /\ CPUs # {}
  /\ Calls \subseteq {"fork", "exit", "wait", "kill", "sleep"}

Slots == 1..NPROC
initproc == 1

VARIABLES
  state, parent, chan, killed,  \* fields of struct proc
  pc,         \* where each process is in its user program or system call
  child,      \* np in fork()
  wait_lock, tickslock,         \* holder, or Null
  cpu,        \* c->proc
  scan        \* loop variable p of the scheduler on each CPU

vars == <<state, parent, chan, killed, pc, child, wait_lock, tickslock, cpu, scan>>

States == {"UNUSED", "USED", "SLEEPING", "RUNNABLE", "RUNNING", "ZOMBIE"}
AllCalls == {"fork", "exit", "wait", "kill", "sleep"}
CallsOf(p) == IF p = initproc THEN {"fork", "wait"} ELSE Calls
Pcs == AllCalls \cup {"user", "ret", "tret", "fork_parent", "fork_run",
                   "exit_zombie", "wait_check", "wait_sleep", "tick_sleep"}

\* Mutant: interrupts stay on while a lock is held.
HoldsNoLock(p) == FALSE

\* p runs with interrupts off.
HoldsLock(p) == wait_lock = p \/ tickslock = p

Children(p) == {q \in Slots : parent[q] = p}

\* The switch from p back to the scheduler of its CPU, which clears c->proc.
LeaveCpu(p) == [c \in CPUs |-> IF cpu[c] = p THEN Null ELSE cpu[c]]

\* Mutant: wakeup() compares the wrong field.
WakeupNobody(s, ch) == s

\* wakeup(ch) applied to the process states s.
Wakeup(s, ch) ==
  [p \in Slots |-> IF s[p] = "SLEEPING" /\ chan[p] = ch THEN "RUNNABLE" ELSE s[p]]

At(p, l) == state[p] = "RUNNING" /\ pc[p] = l
Goto(p, l) == pc' = [pc EXCEPT ![p] = l]

\* userinit(): initproc is runnable, all other slots are free.
Init ==
  /\ state = [p \in Slots |-> IF p = initproc THEN "RUNNABLE" ELSE "UNUSED"]
  /\ parent = [p \in Slots |-> Null]
  /\ chan = [p \in Slots |-> Null]
  /\ killed = [p \in Slots |-> FALSE]
  /\ pc = [p \in Slots |-> "user"]
  /\ child = [p \in Slots |-> Null]
  /\ wait_lock = Null /\ tickslock = Null
  /\ cpu = [c \in CPUs |-> Null]
  /\ scan = [c \in CPUs |-> initproc]
-----------------------------------------------------------------------------
(* Traps: the way into and out of the kernel, and preemption *)

\* usertrap() on ecall: a killed process exits instead of making the call.
\* init's program (user/init.c) only forks and waits.
Syscall(p) ==
  /\ At(p, "user")
  /\ IF killed[p] THEN Goto(p, "exit")
                  ELSE \E l \in CallsOf(p) : Goto(p, l)
  /\ UNCHANGED <<state, parent, chan, killed, child, wait_lock, tickslock, cpu, scan>>

\* The end of usertrap(), for a system call: killed() is tested once more.
Ret(p) ==
  /\ At(p, "ret")
  /\ Goto(p, IF killed[p] THEN "exit" ELSE "user")
  /\ UNCHANGED <<state, parent, chan, killed, child, wait_lock, tickslock, cpu, scan>>

\* Any other exception in user space: setkilled(), exit().  init has none.
Fault(p) ==
  /\ At(p, "user") /\ p # initproc
  /\ killed' = [killed EXCEPT ![p] = TRUE]
  /\ Goto(p, "exit")
  /\ UNCHANGED <<state, parent, chan, child, wait_lock, tickslock, cpu, scan>>

\* yield(): the process stays runnable and gives up its CPU.
Yield(p, l) ==
  /\ state' = [state EXCEPT ![p] = "RUNNABLE"]
  /\ cpu' = LeaveCpu(p)
  /\ Goto(p, l)
  /\ UNCHANGED <<parent, chan, killed, child, wait_lock, tickslock, scan>>

\* A timer interrupt in user space yields, tests killed(), and yields again.
UserTimer(p) == At(p, "user") /\ Yield(p, "tret")

TimerRet(p) ==
  /\ At(p, "tret")
  /\ IF killed[p]
       THEN /\ Goto(p, "exit")
            /\ UNCHANGED <<state, parent, chan, killed, child, wait_lock,
                           tickslock, cpu, scan>>
       ELSE Yield(p, "user")

\* A timer interrupt in the kernel, with interrupts on (kerneltrap()).
KernelTimer(p) ==
  /\ state[p] = "RUNNING" /\ pc[p] \notin {"user", "tret"}
  /\ ~HoldsLock(p)
  /\ Yield(p, pc[p])
-----------------------------------------------------------------------------
(* fork() *)

\* Mutant: the child is runnable before it has a parent.
ForkAllocRunnable(p, q) ==
  /\ At(p, "fork")
  /\ state[q] = "UNUSED"
  /\ state' = [state EXCEPT ![q] = "RUNNABLE"]
  /\ child' = [child EXCEPT ![p] = q]
  /\ pc' = [pc EXCEPT ![p] = "fork_parent", ![q] = "user"]
  /\ UNCHANGED <<parent, chan, killed, wait_lock, tickslock, cpu, scan>>

\* allocproc() finds a free slot (any one: slots behind the loop may become free
\* while it runs); the copying up to release(&np->lock).
ForkAlloc(p, q) ==
  /\ At(p, "fork")
  /\ state[q] = "UNUSED"
  /\ state' = [state EXCEPT ![q] = "USED"]
  /\ child' = [child EXCEPT ![p] = q]
  /\ pc' = [pc EXCEPT ![p] = "fork_parent", ![q] = "user"]
  /\ UNCHANGED <<parent, chan, killed, wait_lock, tickslock, cpu, scan>>

\* No slot, or kalloc()/uvmcopy() fails and freeproc() resets the slot; -1.
ForkFail(p) ==
  /\ At(p, "fork")
  /\ \/ UNCHANGED killed
     \/ \E q \in Slots : state[q] = "UNUSED" /\ killed' = [killed EXCEPT ![q] = FALSE]
  /\ Goto(p, "ret")
  /\ UNCHANGED <<state, parent, chan, child, wait_lock, tickslock, cpu, scan>>

ForkParent(p) ==
  /\ At(p, "fork_parent")
  /\ wait_lock = Null
  /\ parent' = [parent EXCEPT ![child[p]] = p]
  /\ Goto(p, "fork_run")
  /\ UNCHANGED <<state, chan, killed, child, wait_lock, tickslock, cpu, scan>>

ForkRun(p) ==
  /\ At(p, "fork_run")
  /\ state' = [state EXCEPT ![child[p]] = "RUNNABLE"]
  /\ child' = [child EXCEPT ![p] = Null]
  /\ Goto(p, "ret")
  /\ UNCHANGED <<parent, chan, killed, wait_lock, tickslock, cpu, scan>>
-----------------------------------------------------------------------------
(* exit() *)

\* reparent(): init is woken for every child it inherits.
Reparent(p) == IF Children(p) = {} THEN state ELSE Wakeup(state, initproc)

\* exit() from acquire(&wait_lock) through reparent() and wakeup(p->parent).
\* wait_lock keeps every sleeper of those channels from (re)entering sleep.
ExitReparent(p) ==
  /\ At(p, "exit")
  /\ wait_lock = Null
  /\ wait_lock' = p
  /\ parent' = [q \in Slots |-> IF parent[q] = p THEN initproc ELSE parent[q]]
  /\ state' = Wakeup(Reparent(p), parent[p])
  /\ Goto(p, "exit_zombie")
  /\ UNCHANGED <<chan, killed, child, tickslock, cpu, scan>>

\* exit() from acquire(&p->lock) to the scheduler.
ExitZombie(p) ==
  /\ At(p, "exit_zombie")
  /\ state' = [state EXCEPT ![p] = "ZOMBIE"]
  /\ wait_lock' = Null
  /\ cpu' = LeaveCpu(p)
  /\ UNCHANGED <<parent, chan, killed, pc, child, tickslock, scan>>
-----------------------------------------------------------------------------
(* wait() and waitx() *)

\* The table entry after freeproc(q).
Freeproc(q) ==
  /\ state' = [state EXCEPT ![q] = "UNUSED"]
  /\ parent' = [parent EXCEPT ![q] = Null]
  /\ chan' = [chan EXCEPT ![q] = Null]
  /\ killed' = [killed EXCEPT ![q] = FALSE]

\* The table scan.  Under wait_lock no child is added, becomes a zombie or is
\* freed, so the scan is one step; it takes the first zombie in table order.
\* When copyout() of the exit status fails the zombie stays.
WaitScan(p) ==
  /\ At(p, "wait")
  /\ wait_lock = Null
  /\ LET zombies == {q \in Children(p) : state[q] = "ZOMBIE"} IN
     \/ /\ zombies # {}
        /\ \/ \E q \in zombies : (\A r \in zombies : q <= r) /\ Freeproc(q)
           \/ p # initproc /\ UNCHANGED <<state, parent, chan, killed>>
        /\ Goto(p, "ret")
        /\ UNCHANGED wait_lock
     \/ /\ zombies = {}
        /\ IF Children(p) = {}
             THEN Goto(p, "ret") /\ UNCHANGED wait_lock
             ELSE Goto(p, "wait_check") /\ wait_lock' = p
        /\ UNCHANGED <<state, parent, chan, killed>>
  /\ UNCHANGED <<child, tickslock, cpu, scan>>

\* killed(p), still under wait_lock.
WaitCheck(p) ==
  /\ At(p, "wait_check")
  /\ IF killed[p] THEN Goto(p, "ret") /\ wait_lock' = Null
                  ELSE Goto(p, "wait_sleep") /\ UNCHANGED wait_lock
  /\ UNCHANGED <<state, parent, chan, killed, child, tickslock, cpu, scan>>

\* sleep(ch, lk) from acquire(&p->lock) to the scheduler; after it is woken the
\* process continues at l, where it takes lk again.
Sleep(p, ch, l) ==
  /\ state' = [state EXCEPT ![p] = "SLEEPING"]
  /\ chan' = [chan EXCEPT ![p] = ch]
  /\ cpu' = LeaveCpu(p)
  /\ Goto(p, l)
  /\ UNCHANGED <<parent, killed, child, scan>>

\* Mutant: sleep() releases lk before it takes p->lock.
WaitSleepTwoSteps(p) ==
  /\ At(p, "wait_sleep")
  /\ IF wait_lock = p
       THEN /\ wait_lock' = Null
            /\ UNCHANGED <<state, parent, chan, killed, pc, child, cpu, scan>>
       ELSE Sleep(p, p, "wait") /\ UNCHANGED wait_lock
  /\ UNCHANGED tickslock

WaitSleep(p) ==
  /\ At(p, "wait_sleep")
  /\ wait_lock' = Null
  /\ Sleep(p, p, "wait")
  /\ UNCHANGED tickslock
-----------------------------------------------------------------------------
(* kill(), sys_sleep(), clockintr() *)

\* kill(pid) acts on the slot that has this pid.  A free slot has pid 0, so
\* kill(0) acts on the first free slot.  No program kills init.
KillTargets ==
  LET free == {q \in Slots : state[q] = "UNUSED"}
  IN  {q \in Slots \ {initproc} : q \notin free \/ \A r \in free : q <= r}

Kill(p, q) ==
  /\ At(p, "kill")
  /\ q \in KillTargets
  /\ killed' = [killed EXCEPT ![q] = TRUE]
  /\ state' = [state EXCEPT ![q] = IF @ = "SLEEPING" THEN "RUNNABLE" ELSE @]
  /\ Goto(p, "ret")
  /\ UNCHANGED <<parent, chan, child, wait_lock, tickslock, cpu, scan>>

\* No process has that pid.
KillNobody(p) ==
  /\ At(p, "kill")
  /\ Goto(p, "ret")
  /\ UNCHANGED <<state, parent, chan, killed, child, wait_lock, tickslock, cpu, scan>>

\* Mutant: sys_sleep() does not look at p->killed.
TickTestDeaf(p) ==
  /\ At(p, "sleep")
  /\ tickslock = Null
  /\ \/ Goto(p, "ret") /\ UNCHANGED tickslock
     \/ Goto(p, "tick_sleep") /\ tickslock' = p
  /\ UNCHANGED <<state, parent, chan, killed, child, wait_lock, cpu, scan>>

\* One test of sys_sleep()'s loop: the time is over, or the process was killed,
\* or it goes on to sleep holding tickslock.
TickTest(p) ==
  /\ At(p, "sleep")
  /\ tickslock = Null
  /\ \/ Goto(p, "ret") /\ UNCHANGED tickslock
     \/ ~killed[p] /\ Goto(p, "tick_sleep") /\ tickslock' = p
  /\ UNCHANGED <<state, parent, chan, killed, child, wait_lock, cpu, scan>>

TickSleep(p) ==
  /\ At(p, "tick_sleep")
  /\ tickslock' = Null
  /\ Sleep(p, Ticks, "sleep")
  /\ UNCHANGED wait_lock

Clockintr ==
  /\ tickslock = Null
  /\ state' = Wakeup(state, Ticks)
  /\ UNCHANGED <<parent, chan, killed, pc, child, wait_lock, tickslock, cpu, scan>>
-----------------------------------------------------------------------------
(* scheduler(), the RR loop: one iteration for the slot it has reached *)

\* p++ in the loop over the table.
NextSlot(c, p) == IF p = NPROC THEN 1 ELSE p + 1

\* Mutant: the slot is run without looking at its state again.
CanRun(p) == state[p] \in {"RUNNABLE", "RUNNING"}

IsRunnable(p) == state[p] = "RUNNABLE"

\* A process resumes in sched(); one that slept clears its channel.
Schedule(c) ==
  /\ cpu[c] = Null
  /\ LET p == scan[c] IN
     /\ scan' = [scan EXCEPT ![c] = NextSlot(c, p)]
     /\ IF IsRunnable(p)
          THEN /\ state' = [state EXCEPT ![p] = "RUNNING"]
               /\ chan' = [chan EXCEPT ![p] = Null]
               /\ cpu' = [cpu EXCEPT ![c] = p]
          ELSE UNCHANGED <<state, chan, cpu>>
  /\ UNCHANGED <<parent, killed, pc, child, wait_lock, tickslock>>
-----------------------------------------------------------------------------
\* What the kernel does for p by itself, without a choice of the program.
KernelStep(p) ==
  \/ Ret(p) \/ TimerRet(p)
  \/ ForkFail(p) \/ ForkParent(p) \/ ForkRun(p)
  \/ ExitReparent(p) \/ ExitZombie(p)
  \/ WaitScan(p) \/ WaitCheck(p) \/ WaitSleep(p)
  \/ KillNobody(p) \/ TickTest(p) \/ TickSleep(p)

Next ==
  \/ \E p \in Slots :
       \/ Syscall(p) \/ Fault(p) \/ UserTimer(p) \/ KernelTimer(p) \/ KernelStep(p)
       \/ \E q \in Slots : ForkAlloc(p, q) \/ Kill(p, q)
  \/ Clockintr
  \/ \E c \in CPUs : Schedule(c)

Spec == Init /\ [][Next]_vars

\* init.c calls wait() in an endless loop.
InitWaits == Syscall(initproc) /\ pc'[initproc] = "wait"

Timer(p) == UserTimer(p) \/ KernelTimer(p)

\* Every CPU runs its scheduler loop; a pending timer interrupt is taken when
\* interrupts are on; a process that is scheduled again and again makes progress
\* in the kernel (a time slice is longer than a step, and a contended spinlock is
\* got in the end).
Fairness ==
  /\ \A c \in CPUs : WF_vars(Schedule(c))
  /\ \A p \in Slots : SF_vars(Timer(p)) /\ SF_vars(KernelStep(p))
  /\ WF_vars(Clockintr)
  /\ SF_vars(InitWaits)

FairSpec == Spec /\ Fairness
-----------------------------------------------------------------------------
(* Properties *)

\* The table of proc.c has its types: at every step of fork(), exit(), wait() and
\* the scheduler each field holds a value the code can test for.
TypeOK ==
  /\ state \in [Slots -> States]
  /\ parent \in [Slots -> Slots \cup {Null}]
  /\ chan \in [Slots -> Slots \cup {Null, Ticks}]
  /\ killed \in [Slots -> BOOLEAN]
  /\ pc \in [Slots -> Pcs]
  /\ child \in [Slots -> Slots \cup {Null}]
  /\ wait_lock \in Slots \cup {Null} /\ tickslock \in Slots \cup {Null}
  /\ cpu \in [CPUs -> Slots \cup {Null}]
  /\ scan \in [CPUs -> Slots]

\* scheduler(): a process is RUNNING exactly when one CPU has it as c->proc, and
\* no two CPUs ever run the same process (they would share its kernel stack).
OneCpuPerProcess ==
  /\ \A c \in CPUs : cpu[c] # Null => state[cpu[c]] = "RUNNING"
  /\ \A p \in Slots : state[p] = "RUNNING" => \E c \in CPUs : cpu[c] = p
  /\ \A c, d \in CPUs : cpu[c] = cpu[d] /\ cpu[c] # Null => c = d

\* fork()/exit()/reparent(): every process but init has, from the moment it can
\* run, a parent that is alive and has not passed the point in exit() where it
\* gives its children away; so somebody can always wait for it.
ParentAlive ==
  \A p \in Slots \ {initproc} : state[p] # "UNUSED" =>
    IF parent[p] = Null
      THEN state[p] = "USED"
      ELSE /\ state[parent[p]] \in {"SLEEPING", "RUNNABLE", "RUNNING"}
           /\ pc[parent[p]] # "exit_zombie"

\* wait()/exit(): no wakeup is lost.  A parent asleep in wait() has no zombie
\* child (while wait_lock is free): it was woken after the child was visible.
NoMissedExit ==
  wait_lock = Null =>
    \A p, q \in Slots :
      ~ /\ state[p] = "SLEEPING" /\ chan[p] = p
        /\ parent[q] = p /\ state[q] = "ZOMBIE"

\* sched() would panic, and an interrupt handler could spin for ever, if a
\* process left its CPU with a lock: only running processes hold locks.
LockHolderRuns ==
  \A p \in {wait_lock, tickslock} \ {Null} : state[p] = "RUNNING"

\* init's wait() loop never stops reaping: a set of zombies that init forked or
\* inherited does not stay the same for ever.  (A single zombie may: wait() takes
\* the first one in table order, and the slots before it may keep being reused.)
InitKeepsReaping ==
  \A Z \in SUBSET (Slots \ {initproc}) :
    LET IsZ == Z = {q \in Children(initproc) : state[q] = "ZOMBIE"}
    IN  (Z # {} /\ IsZ) ~> ~IsZ

\* A killed process exits, unless it sleeps in wait() for a child (kill() between
\* the killed() test of wait() and its sleep() goes unnoticed).
KilledExits ==
  \A p \in Slots :
    killed[p] ~> \/ state[p] \in {"ZOMBIE", "UNUSED"}
                 \/ state[p] = "SLEEPING" /\ chan[p] = p
=============================================================================
