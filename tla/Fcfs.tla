-------------------------------- MODULE Fcfs --------------------------------
(***************************************************************************)
(* The scheduler of the FCFS build on several CPUs: it scans the table and *)
(* keeps the lock of the oldest RUNNABLE process it has seen, so that it   *)
(* holds two locks of the table at a time.  In this build nobody yields:   *)
(* a process leaves its CPU to sleep() or to exit().  What the CPU is      *)
(* between release() and c->proc = 0 is in Switch.                         *)
(***************************************************************************)
EXTENDS Naturals

CONSTANTS FPROC,     \* slots of proc[]
          FCpus, NoCpu,
          MAXTICKS   \* bound on ticks

ASSUME FcfsConstants == FPROC \in Nat \ {0} /\ MAXTICKS \in Nat /\ NoCpu \notin FCpus

FSlots == 1..FPROC

VARIABLES
  fstate, ctime,  \* fields of struct proc
  plock,          \* the CPU that holds p->lock, or NoCpu
  fticks,         \* ticks
  at,             \* where a CPU is
  slot, first,    \* the slot its scan has reached, and first (0 is none)
  fproc,          \* its c->proc
  np,             \* np of its fork() in progress
  waiting         \* per CPU, a history: the processes that have been RUNNABLE
                  \* ever since its scan began

fcfsVars == <<fstate, ctime, plock, fticks, at, slot, first, fproc, np, waiting>>

FcfsInit ==
  /\ fstate = [p \in FSlots |-> IF p = 1 THEN "RUNNABLE" ELSE "UNUSED"]
  /\ ctime = [p \in FSlots |-> 0]
  /\ plock = [p \in FSlots |-> NoCpu]
  /\ fticks = 0
  /\ at = [c \in FCpus |-> "scan"]
  /\ slot = [c \in FCpus |-> 1]
  /\ first = [c \in FCpus |-> 0]
  /\ fproc = [c \in FCpus |-> 0]
  /\ np = [c \in FCpus |-> 0]
  /\ waiting = [c \in FCpus |-> {1}]

Unlocked(p) == plock[p] = NoCpu
SetState(p, s) == fstate' = [fstate EXCEPT ![p] = s]
GoTo(c, l) == at' = [at EXCEPT ![c] = l]

\* A scan begins at the first slot, without a candidate.
NewScan(c) == slot' = [slot EXCEPT ![c] = 1] /\ first' = [first EXCEPT ![c] = 0]

\* c has interrupts on: it holds no lock of the table.
IntrOn(c) == at[c] \in {"run", "fork"} \/ (at[c] = "scan" /\ first[c] = 0)
-----------------------------------------------------------------------------
(* scheduler() *)

\* p is RUNNABLE and replaces q as first.
Replaces(p, q) == fstate[p] = "RUNNABLE" /\ (q = 0 \/ ctime[p] < ctime[q])

\* Mutant: p->lock is released in any case.
KeepLockNever(c, p) == plock

\* `continue' with p->lock held, after the release of the lock of the old first.
KeepLock(c, p) ==
  [q \in FSlots |-> IF q = p THEN c ELSE IF q = first[c] THEN NoCpu ELSE plock[q]]

\* One round of the loop over the table.
FcfsScan(c) ==
  LET p == slot[c] IN
  /\ at[c] = "scan" /\ p <= FPROC /\ Unlocked(p)
  /\ IF Replaces(p, first[c])
     THEN plock' = KeepLock(c, p) /\ first' = [first EXCEPT ![c] = p]
     ELSE UNCHANGED <<plock, first>>
  /\ slot' = [slot EXCEPT ![c] = p + 1]
  /\ UNCHANGED <<fstate, ctime, fticks, at, fproc, np>>

\* Nobody can run.
FcfsIdle(c) ==
  /\ at[c] = "scan" /\ slot[c] > FPROC /\ first[c] = 0
  /\ NewScan(c)
  /\ UNCHANGED <<fstate, ctime, plock, fticks, at, fproc, np>>

\* The switch to first; it releases p->lock when it runs (forkret(), sleep()).
FcfsRun(c) ==
  /\ at[c] = "scan" /\ slot[c] > FPROC /\ first[c] # 0
  /\ SetState(first[c], "RUNNING")
  /\ fproc' = [fproc EXCEPT ![c] = first[c]]
  /\ NewScan(c) /\ GoTo(c, "swtch")
  /\ UNCHANGED <<ctime, plock, fticks, np>>

FcfsResume(c) ==
  /\ at[c] = "swtch"
  /\ plock' = [plock EXCEPT ![fproc[c]] = NoCpu]
  /\ GoTo(c, "run")
  /\ UNCHANGED <<fstate, ctime, fticks, slot, first, fproc, np>>

\* swtch() returns: release(&p->lock), and the next scan.
FcfsBack(c) ==
  /\ at[c] = "back"
  /\ plock' = [plock EXCEPT ![fproc[c]] = NoCpu]
  /\ fproc' = [fproc EXCEPT ![c] = 0]
  /\ GoTo(c, "scan")
  /\ UNCHANGED <<fstate, ctime, fticks, slot, first, np>>
-----------------------------------------------------------------------------
(* The running process *)

\* sleep(), and the end of exit(): they take p->lock and switch with it.
FcfsLeave(c, s) ==
  LET p == fproc[c] IN
  /\ at[c] = "run" /\ Unlocked(p) /\ (s = "ZOMBIE" => p # 1)
  /\ SetState(p, s)
  /\ plock' = [plock EXCEPT ![p] = c]
  /\ GoTo(c, "back")
  /\ UNCHANGED <<ctime, fticks, slot, first, fproc, np>>

\* fork() up to its first release(&np->lock): allocproc() takes an UNUSED slot, not
\* always the lowest one, as slots may be freed behind it.  A fork() that fails frees
\* the slot before it releases the lock.
FcfsAlloc(c, q) ==
  /\ at[c] = "run" /\ Unlocked(q) /\ fstate[q] = "UNUSED"
  /\ SetState(q, "USED")
  /\ ctime' = [ctime EXCEPT ![q] = fticks]
  /\ np' = [np EXCEPT ![c] = q]
  /\ GoTo(c, "fork")
  /\ UNCHANGED <<plock, fticks, slot, first, fproc>>

\* The end of fork().
FcfsFork(c) ==
  /\ at[c] = "fork" /\ Unlocked(np[c])
  /\ SetState(np[c], "RUNNABLE")
  /\ np' = [np EXCEPT ![c] = 0]
  /\ GoTo(c, "run")
  /\ UNCHANGED <<ctime, plock, fticks, slot, first, fproc>>

\* freeproc() in wait().
FcfsReap(c, q) ==
  /\ at[c] = "run" /\ Unlocked(q) /\ fstate[q] = "ZOMBIE"
  /\ SetState(q, "UNUSED")
  /\ UNCHANGED <<ctime, plock, fticks, at, slot, first, fproc, np>>

\* One round of the loop of wakeup(), or of kill(), in a process or an interrupt.
FcfsWakeup(c, q) ==
  /\ IntrOn(c) /\ Unlocked(q) /\ fstate[q] = "SLEEPING"
  /\ SetState(q, "RUNNABLE")
  /\ UNCHANGED <<ctime, plock, fticks, at, slot, first, fproc, np>>

FcfsTick(c) ==
  /\ IntrOn(c) /\ fticks < MAXTICKS
  /\ fticks' = fticks + 1
  /\ UNCHANGED <<fstate, ctime, plock, at, slot, first, fproc, np>>

FcfsStep(c) ==
  \/ FcfsScan(c) \/ FcfsIdle(c) \/ FcfsRun(c) \/ FcfsResume(c) \/ FcfsBack(c) \/ FcfsTick(c)
  \/ FcfsLeave(c, "SLEEPING") \/ FcfsLeave(c, "ZOMBIE")
  \/ FcfsFork(c)
  \/ \E q \in FSlots : FcfsAlloc(c, q) \/ FcfsReap(c, q) \/ FcfsWakeup(c, q)

\* The history: a scan that begins starts with all that are RUNNABLE.
Waited ==
  LET ready == {q \in FSlots : fstate'[q] = "RUNNABLE"} IN
  waiting' = [c \in FCpus |-> IF at'[c] = "scan" /\ slot'[c] = 1 THEN ready
                              ELSE waiting[c] \cap ready]

FcfsNext == (\E c \in FCpus : FcfsStep(c)) /\ Waited

FcfsSpec == FcfsInit /\ [][FcfsNext]_fcfsVars
-----------------------------------------------------------------------------
\* The FCFS loop of scheduler(): with CPUs scanning, waking, forking and reaping
\* at the same time, a CPU switches to a process that no other CPU runs or has
\* chosen, and none that was RUNNABLE during the whole scan is older.
OldestRuns ==
  \A c \in FCpus :
    /\ first[c] # 0 => fstate[first[c]] = "RUNNABLE"
    /\ at[c] \in {"swtch", "run", "fork"} => fstate[fproc[c]] = "RUNNING"
    /\ fproc[c] # 0 => \A d \in FCpus \ {c} : fproc[d] # fproc[c]
    /\ at[c] = "scan" /\ slot[c] > FPROC =>
         \A q \in waiting[c] : first[c] # 0 /\ ctime[first[c]] <= ctime[q]
=============================================================================
