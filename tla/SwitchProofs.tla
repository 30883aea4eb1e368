---------------------------- MODULE SwitchProofs ----------------------------
(***************************************************************************)
(* Proofs about Switch, for every set of processes: sched() is reached     *)
(* with one lock held and interrupts off in each of the three builds, and  *)
(* in the RR build no process that sleeps for the disk misses its wakeup.  *)
(***************************************************************************)
EXTENDS Switch, TLAPS

Harts == [noff : Nat, intena : BOOLEAN, sie : BOOLEAN]

SwitchType ==
  /\ hart \in Harts
  /\ cproc \in Procs \cup {Null}
  /\ run \in Procs \cup {Sched}
  /\ spc \in {"loop", "pick", "back", "back2"}
  /\ ppc \in [Procs -> {"new", "run", "wait", "sleep", "trap", "lost", "exited"}]
  /\ saved \in [Procs -> BOOLEAN]
  /\ state \in [Procs -> {"UNUSED", "SLEEPING", "RUNNABLE", "RUNNING", "ZOMBIE"}]
  /\ bdisk \in [Procs -> BOOLEAN]
  /\ dev \in [Procs -> {"none", "busy", "used"}]

\* Where the CPU is determines noff, and that c->proc is right, except at "back2" of the
\* FCFS and MLFQ builds.  There a handler of the MLFQ build may yield for the process
\* that has left, with noff = 0 all the same.
HartInv ==
  /\ run = Sched =>
       /\ spc \in {"loop", "pick"} => hart.noff = 0 /\ cproc = Null
       /\ spc = "back" => hart.noff = 1 /\ ~hart.sie
       /\ spc = "back2" => IF Policy = "RR" THEN cproc = Null /\ hart.noff = 1 /\ ~hart.sie
                                            ELSE hart.noff = 0
  /\ run # Sched =>
       /\ cproc = run /\ spc = "pick" /\ state[run] = "RUNNING"
       /\ ppc[run] \in {"new", "run", "wait", "sleep", "trap", "lost"}
       /\ IF ppc[run] = "wait" THEN hart.noff = 1 /\ ~hart.sie ELSE hart.noff = 0

\* Where a process that is not running will resume.
ResumeInv ==
  \A p \in Procs :
    /\ state[p] = "RUNNABLE" => ppc[p] \in {"new", "sleep", "trap", "lost"}
    /\ state[p] = "SLEEPING" => ppc[p] = "sleep"
    /\ state[p] = "RUNNING" => run = p

SwitchInv == SwitchType /\ HartInv /\ ResumeInv

\* acquire(): one more push_off(), interrupts off.
LEMMA PushOffIs ==
  ASSUME NEW h \in Harts
  PROVE  PushOff(h) \in Harts /\ PushOff(h).noff = h.noff + 1 /\ ~PushOff(h).sie
BY DEF PushOff, Harts

\* release(): the last pop_off() restores the interrupts.
LEMMA PopOffIs ==
  ASSUME NEW h \in Harts, h.noff # 0
  PROVE  /\ PopOff(h) \in Harts /\ PopOff(h).noff = h.noff - 1
         /\ h.noff # 1 => PopOff(h).sie = h.sie
<1>1. h.noff - 1 \in Nat /\ h.intena \in BOOLEAN /\ h.sie \in BOOLEAN
  BY DEF Harts
<1>2. (h.sie \/ (h.noff = 1 /\ h.intena)) \in BOOLEAN
  BY Zenon
<1>3. PopOff(h) \in Harts
  BY Zenon, <1>1, <1>2 DEF PopOff, Harts
<1>4. h.noff # 1 => PopOff(h).sie = h.sie
  BY Zenon, <1>1, <1>2 DEF PopOff
<1> QED BY Zenon, <1>3, <1>4 DEF PopOff

\* The initial state satisfies the invariant.
LEMMA SwitchInvInit == Init => SwitchInv
<1> SUFFICES ASSUME Init PROVE SwitchInv
  BY Zenon
<1> USE SwitchConstants DEF Init
<1>1. SwitchType
  BY Zenon DEF SwitchType, Harts
<1>2. HartInv
  BY Zenon DEF HartInv
<1>3. ResumeInv
  BY Zenon DEF ResumeInv
<1> QED BY Zenon, <1>1, <1>2, <1>3 DEF SwitchInv

\* The scheduler's steps preserve it.
LEMMA SchedulerInv ==
  ASSUME SwitchInv, Loop \/ Back \/ Back2
  PROVE  SwitchInv'
<1> USE SwitchConstants DEF SwitchInv
<1>1. CASE Loop
  <2>1. hart' \in Harts /\ hart'.noff = hart.noff
    BY Zenon, <1>1 DEF Loop, SwitchType, Harts
  <2>2. SwitchType'
    BY Zenon, <1>1, <2>1 DEF SwitchType, Loop
  <2>3. HartInv' /\ ResumeInv'
    BY Zenon, <1>1, <2>1 DEF HartInv, ResumeInv, Loop
  <2> QED BY Zenon, <2>2, <2>3
<1>2. CASE Back \/ Back2
  <2>1. hart \in Harts /\ (hart' = hart \/ (hart.noff = 1 /\ hart' = PopOff(hart)))
    BY Zenon, <1>2 DEF Back, Back2, SwitchType, HartInv, ReleasesFirst
  <2>2. hart' \in Harts
    BY <2>1, PopOffIs
  <2>3. SwitchType'
    BY Zenon, <1>2, <2>2 DEF SwitchType, Back, Back2
  <2>4. HartInv'
    BY <1>2, <2>1, PopOffIs DEF HartInv, Back, Back2, ReleasesFirst
  <2>5. ResumeInv'
    BY Zenon, <1>2 DEF ResumeInv, Back, Back2
  <2> QED BY Zenon, <2>3, <2>4, <2>5
<1> QED BY Zenon, <1>1, <1>2

\* The switch to the process that the scheduler picks preserves it.
LEMMA PickInv ==
  ASSUME SwitchInv, NEW p \in Procs, Pick(p)
  PROVE  SwitchInv'
<1> USE SwitchConstants DEF SwitchInv, Pick
<1> DEFINE h == PushOff(hart)
           g == IF ppc[p] = "new" THEN h ELSE [h EXCEPT !.intena = saved[p]]
<1>1. h \in Harts /\ h.noff = 1
  BY PushOffIs DEF SwitchType, HartInv
<1>2. g \in Harts /\ g.noff = 1 /\ hart' = PopOff(g)
  BY Zenon, <1>1 DEF SwitchType, Harts
<1>3. hart' \in Harts /\ hart'.noff = 0
  <2> HIDE DEF g
  <2> QED BY <1>2, PopOffIs
<1>4. SwitchType'
  BY Zenon, <1>3 DEF SwitchType
<1>5. HartInv'
  BY Zenon, <1>3 DEF HartInv, ResumeInv, SwitchType
<1>6. ResumeInv'
  BY Zenon DEF ResumeInv, HartInv, SwitchType
<1> QED BY Zenon, <1>4, <1>5, <1>6

\* sched() reached with one lock leaves the scheduler there.
LEMMA SchedFromInv ==
  ASSUME SwitchInv, NEW p \in Procs, NEW h \in Harts, h.noff = 1, ~h.sie, SchedFrom(p, h),
         SwitchType', ResumeInv'
  PROVE  SwitchInv'
BY Zenon, SwitchConstants DEF SwitchInv, HartInv, SchedFrom

\* The steps of the running process preserve it.
LEMMA ProcessInv ==
  ASSUME SwitchInv, NEW p \in Procs,
         \/ DiskRw(p) \/ DiskSleep(p) \/ DiskDone(p) \/ Reacquire(p) \/ TrapRet(p) \/ Exit(p)
  PROVE  SwitchInv'
<1> USE SwitchConstants DEF SwitchInv
<1>0. /\ run = p /\ run # Sched /\ hart \in Harts /\ cproc = p
      /\ ppc[p] # "wait" => hart.noff = 0
      /\ ppc[p] = "wait" => hart.noff = 1
  BY DEF SwitchType, HartInv, DiskRw, DiskSleep, DiskDone, Reacquire, TrapRet, Exit
<1>1. CASE DiskRw(p) \/ Reacquire(p)
  <2>1. hart' \in Harts /\ hart'.noff = 1 /\ ~hart'.sie
    BY <1>0, <1>1, PushOffIs DEF DiskRw, Reacquire
  <2>2. SwitchType'
    BY Zenon, <1>1, <2>1 DEF SwitchType, DiskRw, Reacquire
  <2>3. HartInv'
    BY <1>0, <1>1, <2>1 DEF SwitchType, HartInv, DiskRw, Reacquire
  <2>4. ResumeInv'
    BY <1>0, <1>1 DEF SwitchType, HartInv, ResumeInv, DiskRw, Reacquire
  <2> QED BY Zenon, <2>2, <2>3, <2>4
<1>2. CASE DiskDone(p)
  <2>1. hart' \in Harts /\ hart'.noff = 0
    BY <1>0, <1>2, PopOffIs DEF DiskDone
  <2>2. SwitchType'
    BY Zenon, <1>2, <2>1 DEF SwitchType, DiskDone
  <2>3. HartInv'
    BY Zenon, <1>0, <1>2, <2>1 DEF SwitchType, HartInv, DiskDone
  <2>4. ResumeInv'
    BY Zenon, <1>0, <1>2 DEF SwitchType, HartInv, ResumeInv, DiskDone
  <2> QED BY Zenon, <2>2, <2>3, <2>4
<1>3. CASE TrapRet(p)
  <2>1. hart' \in Harts /\ hart'.noff = 0
    BY Zenon, <1>0, <1>3 DEF TrapRet, Harts
  <2>2. SwitchType'
    BY Zenon, <1>3, <2>1 DEF SwitchType, TrapRet
  <2>3. HartInv'
    BY Zenon, <1>0, <1>3, <2>1 DEF SwitchType, HartInv, TrapRet
  <2>4. ResumeInv'
    BY Zenon, <1>0, <1>3 DEF SwitchType, HartInv, ResumeInv, TrapRet
  <2> QED BY Zenon, <2>2, <2>3, <2>4
<1>4. CASE DiskSleep(p)
  <2> DEFINE h == PopOff(PushOff(hart))
  <2>1. PushOff(hart) \in Harts /\ PushOff(hart).noff = 2 /\ ~PushOff(hart).sie
    BY <1>0, <1>4, PushOffIs DEF DiskSleep
  <2>2. h \in Harts /\ h.noff = 1 /\ ~h.sie
    BY <2>1, PopOffIs
  <2> HIDE DEF h
  <2>3. SchedFrom(p, h)
    BY Zenon, <1>4 DEF DiskSleep, h
  <2>4. SwitchType'
    BY Zenon, <1>4, <2>2, <2>3 DEF SwitchType, DiskSleep, SchedFrom, Harts
  <2>5. ResumeInv'
    BY <1>0, <1>4, <2>3 DEF SwitchType, ResumeInv, DiskSleep, SchedFrom
  <2> QED BY Zenon, <2>2, <2>3, <2>4, <2>5, SchedFromInv
<1>5. CASE Exit(p)
  <2> DEFINE h1 == PushOff(hart)
             h2 == PushOff(h1)
             h == PopOff(h2)
  <2>1. h1 \in Harts /\ h1.noff = 1
    BY <1>0, <1>5, PushOffIs DEF Exit
  <2>2. h2 \in Harts /\ h2.noff = 2 /\ ~h2.sie
    <3> HIDE DEF h1
    <3> QED BY <2>1, PushOffIs
  <2>3. h \in Harts /\ h.noff = 1 /\ ~h.sie
    <3> HIDE DEF h2
    <3> QED BY <2>2, PopOffIs
  <2>4. SchedFrom(p, h)
    BY Zenon, <1>5 DEF Exit
  <2> HIDE DEF h, h1, h2
  <2>5. SwitchType'
    BY <1>5, <2>3, <2>4 DEF SwitchType, Exit, SchedFrom, Harts
  <2>6. ResumeInv'
    BY <1>0, <1>5, <2>4 DEF SwitchType, ResumeInv, Exit, SchedFrom
  <2> QED BY Zenon, <2>3, <2>4, <2>5, <2>6, SchedFromInv
<1> QED BY Zenon, <1>1, <1>2, <1>3, <1>4, <1>5

\* fork() and wait() preserve it, and so does the device.
LEMMA OtherInv ==
  ASSUME SwitchInv, NEW p \in Procs, NEW q \in Procs, Wait(p, q) \/ Fork(p, q) \/ DeviceDone(p)
  PROVE  SwitchInv'
<1> USE SwitchConstants DEF SwitchInv
<1>1. SwitchType'
  BY Zenon DEF SwitchType, Wait, Fork, DeviceDone
<1>2. CASE Wait(p, q)
  BY <1>1, <1>2 DEF SwitchType, HartInv, ResumeInv, Wait
<1>3. CASE Fork(p, q)
  BY <1>1, <1>3 DEF SwitchType, HartInv, ResumeInv, Fork
<1>4. CASE DeviceDone(p)
  BY Zenon, <1>1, <1>4 DEF HartInv, ResumeInv, DeviceDone
<1> QED BY Zenon, <1>2, <1>3, <1>4

\* What follows the device's part of an interrupt preserves it, if that part only
\* made sleeping processes runnable.
LEMMA AfterIntrInv ==
  ASSUME SwitchInv, hart.sie,
         NEW s \in [Procs -> {"UNUSED", "SLEEPING", "RUNNABLE", "RUNNING", "ZOMBIE"}],
         \A p \in Procs : s[p] = state[p] \/ (state[p] = "SLEEPING" /\ s[p] = "RUNNABLE"),
         NEW timer \in BOOLEAN, AfterIntr(s, timer),
         bdisk' \in [Procs -> BOOLEAN], dev' \in [Procs -> {"none", "busy", "used"}]
  PROVE  SwitchInv'
<1> USE SwitchConstants DEF SwitchInv
<1>1. CASE YieldsIn(cproc, s, timer) /\ Yield(cproc, s)
  <2> DEFINE g == [hart EXCEPT !.sie = FALSE]
             h == PushOff(g)
  <2>1. cproc \in Procs
    BY Zenon, <1>1 DEF YieldsIn, SwitchType
  <2>2. hart.noff = 0
    BY Zenon DEF SwitchType, HartInv
  <2>3. g \in Harts /\ g.noff = 0
    BY Zenon, <2>2 DEF SwitchType, Harts
  <2>4. h \in Harts /\ h.noff = 1 /\ ~h.sie
    <3> HIDE DEF g
    <3> QED BY <2>3, PushOffIs
  <2>5. SchedFrom(cproc, h)
    BY Zenon, <1>1 DEF Yield
  <2> HIDE DEF h, g
  <2>6. SwitchType'
    <3>1. /\ state' \in [Procs -> {"UNUSED", "SLEEPING", "RUNNABLE", "RUNNING", "ZOMBIE"}]
          /\ ppc' \in [Procs -> {"new", "run", "wait", "sleep", "trap", "lost", "exited"}]
      BY Zenon, <1>1 DEF SwitchType, Yield
    <3>2. saved' \in [Procs -> BOOLEAN]
      BY Zenon, <2>4, <2>5 DEF SwitchType, SchedFrom, Harts
    <3> QED BY Zenon, <2>4, <2>5, <3>1, <3>2 DEF SwitchType, SchedFrom
  <2>7. ResumeInv'
    <3>1. /\ state'[cproc] = "RUNNABLE" /\ ppc'[cproc] \in {"trap", "lost"}
          /\ \A q \in Procs \ {cproc} : state'[q] = s[q] /\ ppc'[q] = ppc[q]
      BY <1>1, <2>1 DEF SwitchType, Yield
    <3>2. \A q \in Procs \ {cproc} : state[q] # "RUNNING"
      BY DEF HartInv, ResumeInv
    <3> QED BY <3>1, <3>2 DEF ResumeInv
  <2> QED BY Zenon, <2>1, <2>4, <2>5, <2>6, <2>7, SchedFromInv
<1>2. CASE state' = s /\ UNCHANGED <<hart, cproc, run, spc, ppc, saved>>
  <2>1. SwitchType'
    BY Zenon, <1>2 DEF SwitchType
  <2>2. HartInv'
    BY Zenon, <1>2 DEF HartInv, SwitchType
  <2>3. ResumeInv'
    BY <1>2 DEF ResumeInv
  <2> QED BY Zenon, <2>1, <2>2, <2>3
<1> QED BY Zenon, <1>1, <1>2 DEF AfterIntr

\* The interrupts preserve it.
LEMMA InterruptInv ==
  ASSUME SwitchInv, DiskIntr \/ TimerIntr
  PROVE  SwitchInv'
<1>1. CASE TimerIntr
  BY Zenon, <1>1, AfterIntrInv DEF TimerIntr, SwitchInv, SwitchType
<1>2. CASE DiskIntr
  <2> DEFINE done == {p \in Procs : dev[p] = "used"}
             s == [p \in Procs |-> IF p \in done \ {cproc} /\ state[p] = "SLEEPING"
                                     THEN "RUNNABLE" ELSE state[p]]
  <2>1. /\ hart.sie /\ AfterIntr(s, FALSE)
        /\ bdisk' = [p \in Procs |-> bdisk[p] /\ p \notin done]
        /\ dev' = [p \in Procs |-> IF p \in done THEN "none" ELSE dev[p]]
    BY Zenon, <1>2 DEF DiskIntr
  <2>2. s \in [Procs -> {"UNUSED", "SLEEPING", "RUNNABLE", "RUNNING", "ZOMBIE"}]
    BY Zenon DEF SwitchInv, SwitchType
  <2>3. bdisk' \in [Procs -> BOOLEAN]
    BY Zenon, <2>1 DEF SwitchInv, SwitchType
  <2>4. dev' \in [Procs -> {"none", "busy", "used"}]
    BY Zenon, <2>1 DEF SwitchInv, SwitchType
  <2>5. \A p \in Procs : s[p] = state[p] \/ (state[p] = "SLEEPING" /\ s[p] = "RUNNABLE")
    BY Zenon
  <2> HIDE DEF s
  <2> QED BY Zenon, <2>1, <2>2, <2>3, <2>4, <2>5, AfterIntrInv
<1> QED BY Zenon, <1>1, <1>2

\* The invariant is inductive.
LEMMA SwitchInvNext == SwitchInv /\ [Next]_vars => SwitchInv'
<1> SUFFICES ASSUME SwitchInv, [Next]_vars PROVE SwitchInv'
  BY Zenon
<1>1. CASE UNCHANGED vars
  BY Zenon, <1>1 DEF SwitchInv, SwitchType, HartInv, ResumeInv, vars
<1> QED BY Zenon, <1>1, SchedulerInv, PickInv, ProcessInv, OtherInv, InterruptInv DEF Next, ProcStep

\* sched() never panics for a lock held or interrupts on, in any of the three builds and
\* for any set of processes.
THEOREM SwitchOneLock == Spec => []OneLockAtSwitch
<1>1. SwitchInv => OneLockAtSwitch
  BY Zenon DEF SwitchInv, HartInv, OneLockAtSwitch
<1> QED BY <1>1, SwitchInvInit, SwitchInvNext, PTL DEF Spec

\* In the RR build an interrupt finds c->proc = 0 or a process that runs: wakeup()
\* passes over nobody that sleeps.
LEMMA WakeupNext ==
  ASSUME Policy = "RR", SwitchInv, NoMissedWakeup, [Next]_vars
  PROVE  NoMissedWakeup'
<1> USE SwitchConstants DEF NoMissedWakeup
<1>1. CASE Loop \/ Back \/ Back2 \/ UNCHANGED vars
  BY Zenon, <1>1 DEF Loop, Back, Back2, vars
<1>2. ASSUME NEW p \in Procs,
             Pick(p) \/ ProcStep(p) \/ DiskRw(p) \/ Exit(p) \/ DeviceDone(p)
      PROVE  NoMissedWakeup'
  BY <1>2 DEF SwitchInv, SwitchType, Pick, ProcStep, DiskSleep, DiskDone, Reacquire, TrapRet,
              DiskRw, Exit, DeviceDone
<1>3. ASSUME NEW p \in Procs, NEW q \in Procs, Wait(p, q) \/ Fork(p, q)
      PROVE  NoMissedWakeup'
  BY <1>3 DEF SwitchInv, SwitchType, Wait, Fork
<1>4. ASSUME NEW s \in [Procs -> {"UNUSED", "SLEEPING", "RUNNABLE", "RUNNING", "ZOMBIE"}],
             NEW timer \in BOOLEAN, AfterIntr(s, timer)
      PROVE  \A p \in Procs : state'[p] = "SLEEPING" => s[p] = "SLEEPING"
  BY Zenon, <1>4 DEF AfterIntr, Yield
<1>5. CASE TimerIntr
  BY Zenon, <1>4, <1>5 DEF TimerIntr, SwitchInv, SwitchType
<1>6. CASE DiskIntr
  <2> DEFINE done == {p \in Procs : dev[p] = "used"}
             s == [p \in Procs |-> IF p \in done \ {cproc} /\ state[p] = "SLEEPING"
                                     THEN "RUNNABLE" ELSE state[p]]
  <2>1. /\ hart.sie /\ AfterIntr(s, FALSE)
        /\ bdisk' = [p \in Procs |-> bdisk[p] /\ p \notin done]
    BY Zenon, <1>6 DEF DiskIntr
  <2>2. s \in [Procs -> {"UNUSED", "SLEEPING", "RUNNABLE", "RUNNING", "ZOMBIE"}]
    BY Zenon DEF SwitchInv, SwitchType
  <2>3. cproc \in Procs => state[cproc] = "RUNNING"
    BY Zenon, <2>1 DEF SwitchInv, SwitchType, HartInv
  <2>4. ASSUME NEW p \in Procs, s[p] = "SLEEPING" PROVE bdisk[p] /\ p \notin done
    BY Zenon, <2>3, <2>4
  <2> QED BY Zenon, <1>4, <2>1, <2>2, <2>4
<1> QED BY Zenon, <1>1, <1>2, <1>3, <1>5, <1>6 DEF Next

\* In the RR build no process that sleeps for the disk has missed its wakeup, for any
\* set of processes.
THEOREM SwitchNoMissedWakeup == Policy = "RR" /\ Spec => []NoMissedWakeup
<1> SUFFICES ASSUME Policy = "RR" PROVE Spec => []NoMissedWakeup
  BY Zenon
<1>1. Init => SwitchInv /\ NoMissedWakeup
  BY Zenon, SwitchInvInit DEF Init, NoMissedWakeup
<1>2. SwitchInv /\ NoMissedWakeup /\ [Next]_vars => SwitchInv' /\ NoMissedWakeup'
  BY Zenon, SwitchInvNext, WakeupNext
<1> QED BY <1>1, <1>2, PTL DEF Spec
=============================================================================
