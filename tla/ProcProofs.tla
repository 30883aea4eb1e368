----------------------------- MODULE ProcProofs -----------------------------
(***************************************************************************)
(* Proofs about Proc, for every size of the process table and every set of *)
(* CPUs: type correctness, the inductive invariant IInv (CPUs and locks,   *)
(* fork(), the parents of processes, wait() and exit()), and the theorems  *)
(* that follow from it.                                                    *)
(***************************************************************************)
EXTENDS Proc, TLAPS

\* wakeup() maps process states to process states.
LEMMA WakeupType ==
  ASSUME NEW s \in [Slots -> States], NEW ch
  PROVE  Wakeup(s, ch) \in [Slots -> States]
BY Zenon DEF Wakeup, States

\* The next slot of the scheduler's loop is a slot.
LEMMA NextSlotType ==
  ASSUME NEW c, NEW p \in Slots
  PROVE  NextSlot(c, p) \in Slots
BY ProcConstants DEF NextSlot, Slots

\* The switch to the scheduler keeps the type of c->proc.
LEMMA LeaveCpuType ==
  ASSUME NEW p, cpu \in [CPUs -> Slots \cup {Null}]
  PROVE  LeaveCpu(p) \in [CPUs -> Slots \cup {Null}]
BY Zenon DEF LeaveCpu

\* yield() preserves the type invariant.
LEMMA YieldType ==
  ASSUME TypeOK, NEW p \in Slots, NEW l \in Pcs, Yield(p, l)
  PROVE  TypeOK'
BY Zenon, LeaveCpuType DEF TypeOK, Yield, Goto, States

\* sleep() preserves the types it can disturb.
LEMMA SleepType ==
  ASSUME TypeOK, NEW p \in Slots, NEW l \in Pcs, NEW ch \in Slots \cup {Ticks},
         Sleep(p, ch, l), wait_lock' \in Slots \cup {Null},
         tickslock' \in Slots \cup {Null}
  PROVE  TypeOK'
BY Zenon, LeaveCpuType DEF TypeOK, Sleep, Goto, States

\* The type invariant holds initially.
LEMMA TypeInit == Init => TypeOK
BY ProcConstants DEF Init, TypeOK, States, Pcs, AllCalls, Slots, initproc

\* Every action preserves the type invariant.
LEMMA TypeNext == TypeOK /\ [Next]_vars => TypeOK'
<1> SUFFICES ASSUME TypeOK, [Next]_vars PROVE TypeOK'
  BY Zenon
<1> USE ProcConstants DEF initproc
<1>1. ASSUME NEW p \in Slots, Syscall(p) PROVE TypeOK'
  BY <1>1 DEF TypeOK, Syscall, Goto, CallsOf, Pcs, AllCalls
<1>2. ASSUME NEW p \in Slots, Fault(p) PROVE TypeOK'
  BY Zenon, <1>2 DEF TypeOK, Fault, Goto, Pcs, AllCalls
<1>3. ASSUME NEW p \in Slots, UserTimer(p) PROVE TypeOK'
  BY Zenon, <1>3, YieldType DEF UserTimer, Pcs
<1>4. ASSUME NEW p \in Slots, KernelTimer(p) PROVE TypeOK'
  BY Zenon, <1>4, YieldType DEF KernelTimer, TypeOK
<1>5. ASSUME NEW p \in Slots, KernelStep(p) PROVE TypeOK'
  <2>1. CASE Ret(p)
    BY Zenon, <2>1 DEF TypeOK, Ret, Goto, Pcs, AllCalls
  <2>2. CASE TimerRet(p)
    <3>1. CASE killed[p]
      BY <2>2, <3>1 DEF TypeOK, TimerRet, Goto, Pcs, AllCalls
    <3>2. CASE ~killed[p]
      BY Zenon, <2>2, <3>2, YieldType DEF TimerRet, Pcs
    <3> QED BY Zenon, <3>1, <3>2
  <2>3. CASE ForkFail(p)
    BY Zenon, <2>3 DEF TypeOK, ForkFail, Goto, Pcs
  <2>4. CASE ForkParent(p)
    BY Zenon, <2>4 DEF TypeOK, ForkParent, Goto, Pcs
  <2>5. CASE ForkRun(p)
    BY Zenon, <2>5 DEF TypeOK, ForkRun, Goto, Pcs, States
  <2>6. CASE ExitReparent(p)
    <3>1. Reparent(p) \in [Slots -> States]
      BY Zenon, WakeupType DEF Reparent, TypeOK
    <3>2. state' \in [Slots -> States]
      BY Zenon, <2>6, <3>1, WakeupType DEF ExitReparent
    <3>3. parent' \in [Slots -> Slots \cup {Null}]
      BY <2>6 DEF ExitReparent, TypeOK, Slots
    <3> QED BY Zenon, <2>6, <3>2, <3>3 DEF TypeOK, ExitReparent, Goto, Pcs
  <2>7. CASE ExitZombie(p)
    BY Zenon, <2>7, LeaveCpuType DEF TypeOK, ExitZombie, States
  <2>8. CASE WaitScan(p)
    <3>1. \/ \E q \in Slots : Freeproc(q)
          \/ UNCHANGED <<state, parent, chan, killed>>
      BY Zenon, <2>8 DEF WaitScan, Children
    <3>2. /\ state' \in [Slots -> States]
          /\ parent' \in [Slots -> Slots \cup {Null}]
          /\ chan' \in [Slots -> Slots \cup {Null, Ticks}]
          /\ killed' \in [Slots -> BOOLEAN]
      BY Zenon, <3>1 DEF TypeOK, Freeproc, States
    <3>3. pc' \in [Slots -> Pcs] /\ wait_lock' \in Slots \cup {Null}
      BY <2>8 DEF TypeOK, WaitScan, Goto, Pcs
    <3> QED BY Zenon, <2>8, <3>2, <3>3 DEF TypeOK, WaitScan
  <2>9. CASE WaitCheck(p)
    BY <2>9 DEF TypeOK, WaitCheck, Goto, Pcs
  <2>10. CASE WaitSleep(p)
    BY Zenon, <2>10, SleepType DEF WaitSleep, TypeOK, Pcs, AllCalls
  <2>11. CASE KillNobody(p)
    BY Zenon, <2>11 DEF TypeOK, KillNobody, Goto, Pcs
  <2>12. CASE TickTest(p)
    BY <2>12 DEF TypeOK, TickTest, Goto, Pcs
  <2>13. CASE TickSleep(p)
    BY Zenon, <2>13, SleepType DEF TickSleep, TypeOK, Pcs, AllCalls
  <2> QED
    BY Zenon, <1>5, <2>1, <2>2, <2>3, <2>4, <2>5, <2>6, <2>7, <2>8, <2>9, <2>10, <2>11,
       <2>12, <2>13 DEF KernelStep
<1>6. ASSUME NEW p \in Slots, NEW q \in Slots, ForkAlloc(p, q) PROVE TypeOK'
  BY Zenon, <1>6 DEF TypeOK, ForkAlloc, Pcs, States
<1>7. ASSUME NEW p \in Slots, NEW q \in Slots, Kill(p, q) PROVE TypeOK'
  BY Zenon, <1>7 DEF TypeOK, Kill, Goto, Pcs, States
<1>8. ASSUME Clockintr PROVE TypeOK'
  BY Zenon, <1>8, WakeupType DEF TypeOK, Clockintr
<1>9. ASSUME NEW c \in CPUs, Schedule(c) PROVE TypeOK'
  <2>1. scan' \in [CPUs -> Slots]
    BY Zenon, <1>9, NextSlotType DEF TypeOK, Schedule
  <2>2. /\ state' \in [Slots -> States]
        /\ chan' \in [Slots -> Slots \cup {Null, Ticks}]
        /\ cpu' \in [CPUs -> Slots \cup {Null}]
    BY <1>9 DEF TypeOK, Schedule, States
  <2> QED BY Zenon, <1>9, <2>1, <2>2 DEF TypeOK, Schedule
<1>10. CASE UNCHANGED vars
  BY Zenon, <1>10 DEF TypeOK, vars
<1> QED
  BY Zenon, <1>1, <1>2, <1>3, <1>4, <1>5, <1>6, <1>7, <1>8, <1>9, <1>10 DEF Next

\* Type correctness of the process table.
THEOREM Typing == Spec => []TypeOK
BY TypeInit, TypeNext, PTL DEF Spec
-----------------------------------------------------------------------------
(* The inductive invariant *)

\* Locks and the program points that hold them; what zombies and free slots are.
LockInv ==
  /\ \A p \in Slots :
       /\ pc[p] \in {"wait_check", "wait_sleep"} => wait_lock = p
       /\ pc[p] = "exit_zombie" =>
            \/ state[p] = "RUNNING" /\ wait_lock = p
            \/ state[p] \in {"ZOMBIE", "UNUSED"}
       /\ pc[p] = "tick_sleep" => tickslock = p
       /\ state[p] = "ZOMBIE" => pc[p] = "exit_zombie"
       /\ wait_lock = p => /\ state[p] = "RUNNING"
                           /\ pc[p] \in {"wait_check", "wait_sleep", "exit_zombie"}
       /\ tickslock = p => state[p] = "RUNNING" /\ pc[p] = "tick_sleep"

\* fork() owns the slot it fills until it makes it runnable.
ForkInv ==
  /\ \A p \in Slots : pc[p] \in {"fork_parent", "fork_run"} =>
       /\ child[p] \in Slots \ {initproc}
       /\ state[child[p]] = "USED"
       /\ parent[child[p]] = IF pc[p] = "fork_run" THEN p ELSE Null
  /\ \A p, q \in Slots :
       /\ pc[p] \in {"fork_parent", "fork_run"} /\ pc[q] \in {"fork_parent", "fork_run"}
       /\ child[p] = child[q]
       => p = q

\* init lives for ever.
InitInv ==
  /\ state[initproc] \in {"SLEEPING", "RUNNABLE", "RUNNING"}
  /\ pc[initproc] \notin {"exit", "exit_zombie"}
  /\ ~killed[initproc]

\* A free slot belongs to nobody.
FreeInv == \A p \in Slots : state[p] = "UNUSED" => parent[p] = Null

\* p sleeps in wait().
InWait(p) == state[p] = "SLEEPING" /\ chan[p] = p

\* No parent sleeps while it has a zombie child, or while a child of it has
\* passed the wakeup() of exit(); and none is about to sleep.
WaitInv ==
  \A p, q \in Slots : parent[q] = p =>
    /\ state[q] = "ZOMBIE" => ~InWait(p) /\ pc[p] \notin {"wait_check", "wait_sleep"}
    /\ state[q] = "RUNNING" /\ pc[q] = "exit_zombie" => ~InWait(p)

IInv ==
  /\ TypeOK /\ OneCpuPerProcess /\ LockInv /\ ForkInv /\ InitInv /\ FreeInv
  /\ ParentAlive /\ WaitInv
-----------------------------------------------------------------------------
(* OneCpuPerProcess *)

\* p, on a CPU, goes back to the scheduler in a state s.
LeavesCpu(p, s) ==
  /\ s # "RUNNING"
  /\ state' = [state EXCEPT ![p] = s]
  /\ cpu' = LeaveCpu(p)

\* No process starts or stops running.
SameRunning ==
  /\ cpu' = cpu
  /\ \A q \in Slots : state'[q] = "RUNNING" <=> state[q] = "RUNNING"

\* A process that leaves its CPU leaves all of them.
LEMMA LeaveOneCpu ==
  ASSUME TypeOK, OneCpuPerProcess, NEW p \in Slots, NEW s, LeavesCpu(p, s)
  PROVE  OneCpuPerProcess'
BY ProcConstants DEF TypeOK, OneCpuPerProcess, LeavesCpu, LeaveCpu

\* Nothing changes on the CPUs when nobody starts or stops running.
LEMMA SameOneCpu ==
  ASSUME TypeOK, OneCpuPerProcess, SameRunning
  PROVE  OneCpuPerProcess'
BY DEF TypeOK, OneCpuPerProcess, SameRunning

\* What each step of the kernel for p does to the CPUs.
LEMMA KernelStepCpu ==
  ASSUME IInv, NEW p \in Slots, KernelStep(p)
  PROVE  SameRunning \/ \E s \in States : LeavesCpu(p, s)
<1> USE DEF IInv
<1>1. CASE Ret(p) \/ ForkFail(p) \/ ForkParent(p) \/ WaitCheck(p) \/ KillNobody(p)
             \/ TickTest(p)
  BY Zenon, <1>1 DEF Ret, ForkFail, ForkParent, WaitCheck, KillNobody, TickTest, SameRunning
<1>2. CASE TimerRet(p)
  BY Zenon, <1>2 DEF TimerRet, Yield, SameRunning, LeavesCpu, States
<1>3. CASE ForkRun(p)
  BY Zenon, <1>3 DEF ForkRun, At, ForkInv, TypeOK, SameRunning
<1>4. CASE ExitReparent(p)
  BY Zenon, <1>4 DEF ExitReparent, Reparent, Wakeup, SameRunning, TypeOK
<1>5. CASE ExitZombie(p)
  BY Zenon, <1>5 DEF ExitZombie, LeavesCpu, States
<1>6. CASE WaitScan(p)
  <2>1. \/ \E q \in Slots : state[q] = "ZOMBIE" /\ Freeproc(q)
        \/ UNCHANGED state
    BY Zenon, <1>6 DEF WaitScan, Children
  <2> QED BY <1>6, <2>1 DEF WaitScan, Freeproc, SameRunning, TypeOK
<1>7. CASE WaitSleep(p)
  BY Zenon, <1>7 DEF WaitSleep, Sleep, LeavesCpu, States
<1>8. CASE TickSleep(p)
  BY Zenon, <1>8 DEF TickSleep, Sleep, LeavesCpu, States
<1> QED BY Zenon, <1>1, <1>2, <1>3, <1>4, <1>5, <1>6, <1>7, <1>8 DEF KernelStep

\* Every action keeps the relation between c->proc and p->state.
LEMMA OneCpuNext == IInv /\ [Next]_vars => OneCpuPerProcess'
<1> SUFFICES ASSUME IInv, [Next]_vars PROVE OneCpuPerProcess'
  BY Zenon
<1> USE DEF IInv
<1>1. ASSUME NEW p \in Slots, Syscall(p) \/ Fault(p) PROVE SameRunning
  BY Zenon, <1>1 DEF Syscall, Fault, SameRunning
<1>2. ASSUME NEW p \in Slots, UserTimer(p) \/ KernelTimer(p)
      PROVE  \E s \in States : LeavesCpu(p, s)
  BY Zenon, <1>2 DEF UserTimer, KernelTimer, Yield, LeavesCpu, States
<1>3. ASSUME NEW p \in Slots, NEW q \in Slots, ForkAlloc(p, q) \/ Kill(p, q)
      PROVE  SameRunning
  BY <1>3 DEF ForkAlloc, Kill, SameRunning, TypeOK
<1>4. ASSUME Clockintr PROVE SameRunning
  BY Zenon, <1>4 DEF Clockintr, Wakeup, SameRunning, TypeOK
<1>5. ASSUME NEW c \in CPUs, Schedule(c) PROVE OneCpuPerProcess'
  <2> DEFINE p == scan[c]
  <2>1. p \in Slots
    BY Zenon DEF TypeOK
  <2>2. CASE ~IsRunnable(p)
    BY Zenon, <1>5, <2>2 DEF Schedule, OneCpuPerProcess
  <2>3. CASE IsRunnable(p)
    <3>1. /\ cpu[c] = Null /\ state[p] = "RUNNABLE"
          /\ state' = [state EXCEPT ![p] = "RUNNING"]
          /\ cpu' = [cpu EXCEPT ![c] = p]
      BY Zenon, <1>5, <2>3 DEF Schedule, IsRunnable
    <3>2. \A d \in CPUs : cpu[d] # p
      BY Zenon, <3>1, <2>1, ProcConstants DEF OneCpuPerProcess, Slots
    <3> HIDE DEF p
    <3> QED BY <2>1, <3>1, <3>2, ProcConstants DEF OneCpuPerProcess, TypeOK, Slots
  <2> QED BY Zenon, <2>2, <2>3
<1>6. CASE UNCHANGED vars
  BY Zenon, <1>6 DEF vars, OneCpuPerProcess
<1> QED
  BY Zenon, <1>1, <1>2, <1>3, <1>4, <1>5, <1>6, KernelStepCpu, LeaveOneCpu, SameOneCpu DEF Next
-----------------------------------------------------------------------------
(* The rest of the invariant *)

\* Null and &ticks are not processes; init is one.
LEMMA NullNoSlot == Null \notin Slots /\ Ticks \notin Slots /\ initproc \in Slots
BY ProcConstants DEF Slots, initproc

\* Every action preserves LockInv.
LEMMA LockNext == IInv /\ [Next]_vars => LockInv'
<1> SUFFICES ASSUME IInv, [Next]_vars PROVE LockInv'
  BY Zenon
<1> USE NullNoSlot DEF IInv, TypeOK, LockInv, ForkInv
<1>1. ASSUME NEW p \in Slots, Syscall(p) PROVE LockInv'
  BY <1>1, ProcConstants DEF Syscall, At, Goto, CallsOf
<1>2. ASSUME NEW p \in Slots, Fault(p) PROVE LockInv'
  BY <1>2 DEF Fault, At, Goto
<1>3. ASSUME NEW p \in Slots, UserTimer(p) PROVE LockInv'
  BY <1>3 DEF UserTimer, At, Yield, Goto
<1>4. ASSUME NEW p \in Slots, KernelTimer(p) PROVE LockInv'
  BY <1>4 DEF KernelTimer, HoldsLock, Yield, Goto
<1>5. ASSUME NEW p \in Slots, Ret(p) PROVE LockInv'
  BY <1>5 DEF Ret, At, Goto
<1>6. ASSUME NEW p \in Slots, TimerRet(p) PROVE LockInv'
  BY <1>6 DEF TimerRet, At, Yield, Goto
<1>7. ASSUME NEW p \in Slots, ForkFail(p) PROVE LockInv'
  BY <1>7 DEF ForkFail, At, Goto
<1>8. ASSUME NEW p \in Slots, ForkParent(p) PROVE LockInv'
  BY <1>8 DEF ForkParent, At, Goto
<1>9. ASSUME NEW p \in Slots, ForkRun(p) PROVE LockInv'
  BY <1>9 DEF ForkRun, At, Goto
<1>10. ASSUME NEW p \in Slots, ExitReparent(p) PROVE LockInv'
  BY <1>10 DEF ExitReparent, Reparent, Wakeup, Children, At, Goto
<1>11. ASSUME NEW p \in Slots, ExitZombie(p) PROVE LockInv'
  BY <1>11 DEF ExitZombie, At
<1>12. ASSUME NEW p \in Slots, WaitScan(p) PROVE LockInv'
  BY <1>12 DEF WaitScan, Freeproc, Children, At, Goto
<1>13. ASSUME NEW p \in Slots, WaitCheck(p) PROVE LockInv'
  BY <1>13 DEF WaitCheck, At, Goto
<1>14. ASSUME NEW p \in Slots, WaitSleep(p) PROVE LockInv'
  BY <1>14 DEF WaitSleep, Sleep, At, Goto
<1>15. ASSUME NEW p \in Slots, KillNobody(p) PROVE LockInv'
  BY <1>15 DEF KillNobody, At, Goto
<1>16. ASSUME NEW p \in Slots, TickTest(p) PROVE LockInv'
  BY <1>16 DEF TickTest, At, Goto
<1>17. ASSUME NEW p \in Slots, TickSleep(p) PROVE LockInv'
  BY <1>17 DEF TickSleep, Sleep, At, Goto
<1>18. ASSUME NEW p \in Slots, NEW q \in Slots, ForkAlloc(p, q) PROVE LockInv'
  BY <1>18 DEF ForkAlloc, At
<1>19. ASSUME NEW p \in Slots, NEW q \in Slots, Kill(p, q) PROVE LockInv'
  BY <1>19 DEF Kill, KillTargets, At, Goto
<1>20. ASSUME Clockintr PROVE LockInv'
  BY <1>20 DEF Clockintr, Wakeup
<1>21. ASSUME NEW c \in CPUs, Schedule(c) PROVE LockInv'
  BY <1>21 DEF Schedule, IsRunnable
<1>22. ASSUME UNCHANGED vars PROVE LockInv'
  BY Zenon, <1>22 DEF vars
<1> QED
  BY <1>1, <1>2, <1>3, <1>4, <1>5, <1>6, <1>7, <1>8, <1>9, <1>10, <1>11,
     <1>12, <1>13, <1>14, <1>15, <1>16, <1>17, <1>18, <1>19, <1>20, <1>21, <1>22,
     Zenon DEF Next, KernelStep

\* Every action preserves ForkInv.
LEMMA ForkNext == IInv /\ [Next]_vars => ForkInv'
<1> SUFFICES ASSUME IInv, [Next]_vars PROVE ForkInv'
  BY Zenon
<1> USE NullNoSlot DEF IInv, TypeOK, LockInv, ForkInv, FreeInv, InitInv
<1>1. ASSUME NEW p \in Slots, Syscall(p) PROVE ForkInv'
  BY <1>1, ProcConstants DEF Syscall, At, Goto, CallsOf
<1>2. ASSUME NEW p \in Slots, Fault(p) PROVE ForkInv'
  BY <1>2 DEF Fault, At, Goto
<1>3. ASSUME NEW p \in Slots, UserTimer(p) PROVE ForkInv'
  BY <1>3 DEF UserTimer, At, Yield, Goto
<1>4. ASSUME NEW p \in Slots, KernelTimer(p) PROVE ForkInv'
  BY <1>4 DEF KernelTimer, HoldsLock, Yield, Goto
<1>5. ASSUME NEW p \in Slots, Ret(p) PROVE ForkInv'
  BY <1>5 DEF Ret, At, Goto
<1>6. ASSUME NEW p \in Slots, TimerRet(p) PROVE ForkInv'
  BY <1>6 DEF TimerRet, At, Yield, Goto
<1>7. ASSUME NEW p \in Slots, ForkFail(p) PROVE ForkInv'
  BY <1>7 DEF ForkFail, At, Goto
<1>8. ASSUME NEW p \in Slots, ForkParent(p) PROVE ForkInv'
  BY <1>8 DEF ForkParent, At, Goto
<1>9. ASSUME NEW p \in Slots, ForkRun(p) PROVE ForkInv'
  BY <1>9 DEF ForkRun, At, Goto
<1>10. ASSUME NEW p \in Slots, ExitReparent(p) PROVE ForkInv'
  BY <1>10 DEF ExitReparent, Reparent, Wakeup, Children, At, Goto
<1>11. ASSUME NEW p \in Slots, ExitZombie(p) PROVE ForkInv'
  BY <1>11 DEF ExitZombie, At
<1>12. ASSUME NEW p \in Slots, WaitScan(p) PROVE ForkInv'
  BY <1>12 DEF WaitScan, Freeproc, Children, At, Goto
<1>13. ASSUME NEW p \in Slots, WaitCheck(p) PROVE ForkInv'
  BY <1>13 DEF WaitCheck, At, Goto
<1>14. ASSUME NEW p \in Slots, WaitSleep(p) PROVE ForkInv'
  BY <1>14 DEF WaitSleep, Sleep, At, Goto
<1>15. ASSUME NEW p \in Slots, KillNobody(p) PROVE ForkInv'
  BY <1>15 DEF KillNobody, At, Goto
<1>16. ASSUME NEW p \in Slots, TickTest(p) PROVE ForkInv'
  BY <1>16 DEF TickTest, At, Goto
<1>17. ASSUME NEW p \in Slots, TickSleep(p) PROVE ForkInv'
  BY <1>17 DEF TickSleep, Sleep, At, Goto
<1>18. ASSUME NEW p \in Slots, NEW q \in Slots, ForkAlloc(p, q) PROVE ForkInv'
  BY <1>18 DEF ForkAlloc, At
<1>19. ASSUME NEW p \in Slots, NEW q \in Slots, Kill(p, q) PROVE ForkInv'
  BY <1>19 DEF Kill, KillTargets, At, Goto
<1>20. ASSUME Clockintr PROVE ForkInv'
  BY <1>20 DEF Clockintr, Wakeup
<1>21. ASSUME NEW c \in CPUs, Schedule(c) PROVE ForkInv'
  BY <1>21 DEF Schedule, IsRunnable
<1>22. ASSUME UNCHANGED vars PROVE ForkInv'
  BY <1>22 DEF vars
<1> QED
  BY <1>1, <1>2, <1>3, <1>4, <1>5, <1>6, <1>7, <1>8, <1>9, <1>10, <1>11,
     <1>12, <1>13, <1>14, <1>15, <1>16, <1>17, <1>18, <1>19, <1>20, <1>21, <1>22,
     Zenon DEF Next, KernelStep

\* Every action preserves InitInv.
LEMMA InitNext == IInv /\ [Next]_vars => InitInv'
<1> SUFFICES ASSUME IInv, [Next]_vars PROVE InitInv'
  BY Zenon
<1> USE NullNoSlot DEF IInv, TypeOK, LockInv, ForkInv, InitInv, initproc
<1>1. ASSUME NEW p \in Slots, Syscall(p) PROVE InitInv'
  BY <1>1, ProcConstants DEF Syscall, At, Goto, CallsOf
<1>2. ASSUME NEW p \in Slots, Fault(p) PROVE InitInv'
  BY <1>2 DEF Fault, At, Goto
<1>3. ASSUME NEW p \in Slots, UserTimer(p) PROVE InitInv'
  BY <1>3 DEF UserTimer, At, Yield, Goto
<1>4. ASSUME NEW p \in Slots, KernelTimer(p) PROVE InitInv'
  BY <1>4 DEF KernelTimer, HoldsLock, Yield, Goto
<1>5. ASSUME NEW p \in Slots, Ret(p) PROVE InitInv'
  BY <1>5 DEF Ret, At, Goto
<1>6. ASSUME NEW p \in Slots, TimerRet(p) PROVE InitInv'
  BY <1>6 DEF TimerRet, At, Yield, Goto
<1>7. ASSUME NEW p \in Slots, ForkFail(p) PROVE InitInv'
  BY <1>7 DEF ForkFail, At, Goto
<1>8. ASSUME NEW p \in Slots, ForkParent(p) PROVE InitInv'
  BY <1>8 DEF ForkParent, At, Goto
<1>9. ASSUME NEW p \in Slots, ForkRun(p) PROVE InitInv'
  BY <1>9 DEF ForkRun, At, Goto
<1>10. ASSUME NEW p \in Slots, ExitReparent(p) PROVE InitInv'
  BY <1>10 DEF ExitReparent, Reparent, Wakeup, Children, At, Goto
<1>11. ASSUME NEW p \in Slots, ExitZombie(p) PROVE InitInv'
  BY <1>11 DEF ExitZombie, At
<1>12. ASSUME NEW p \in Slots, WaitScan(p) PROVE InitInv'
  BY <1>12 DEF WaitScan, Freeproc, Children, At, Goto
<1>13. ASSUME NEW p \in Slots, WaitCheck(p) PROVE InitInv'
  BY <1>13 DEF WaitCheck, At, Goto
<1>14. ASSUME NEW p \in Slots, WaitSleep(p) PROVE InitInv'
  BY <1>14 DEF WaitSleep, Sleep, At, Goto
<1>15. ASSUME NEW p \in Slots, KillNobody(p) PROVE InitInv'
  BY <1>15 DEF KillNobody, At, Goto
<1>16. ASSUME NEW p \in Slots, TickTest(p) PROVE InitInv'
  BY <1>16 DEF TickTest, At, Goto
<1>17. ASSUME NEW p \in Slots, TickSleep(p) PROVE InitInv'
  BY <1>17 DEF TickSleep, Sleep, At, Goto
<1>18. ASSUME NEW p \in Slots, NEW q \in Slots, ForkAlloc(p, q) PROVE InitInv'
  BY <1>18 DEF ForkAlloc, At
<1>19. ASSUME NEW p \in Slots, NEW q \in Slots, Kill(p, q) PROVE InitInv'
  BY <1>19 DEF Kill, KillTargets, At, Goto
<1>20. ASSUME Clockintr PROVE InitInv'
  BY Zenon, <1>20 DEF Clockintr, Wakeup
<1>21. ASSUME NEW c \in CPUs, Schedule(c) PROVE InitInv'
  BY <1>21 DEF Schedule, IsRunnable
<1>22. ASSUME UNCHANGED vars PROVE InitInv'
  BY Zenon, <1>22 DEF vars
<1> QED
  BY <1>1, <1>2, <1>3, <1>4, <1>5, <1>6, <1>7, <1>8, <1>9, <1>10, <1>11,
     <1>12, <1>13, <1>14, <1>15, <1>16, <1>17, <1>18, <1>19, <1>20, <1>21, <1>22,
     Zenon DEF Next, KernelStep
-----------------------------------------------------------------------------
\* Every action preserves FreeInv.
LEMMA FreeNext == IInv /\ [Next]_vars => FreeInv'
<1> SUFFICES ASSUME IInv, [Next]_vars PROVE FreeInv'
  BY Zenon
<1> USE NullNoSlot DEF IInv, TypeOK, LockInv, ForkInv, FreeInv
<1>1. ASSUME NEW p \in Slots, Syscall(p) PROVE FreeInv'
  BY Zenon, <1>1, ProcConstants DEF Syscall, At, Goto, CallsOf
<1>2. ASSUME NEW p \in Slots, Fault(p) PROVE FreeInv'
  BY Zenon, <1>2 DEF Fault, At, Goto
<1>3. ASSUME NEW p \in Slots, UserTimer(p) PROVE FreeInv'
  BY <1>3 DEF UserTimer, At, Yield, Goto
<1>4. ASSUME NEW p \in Slots, KernelTimer(p) PROVE FreeInv'
  BY <1>4 DEF KernelTimer, HoldsLock, Yield, Goto
<1>5. ASSUME NEW p \in Slots, Ret(p) PROVE FreeInv'
  BY Zenon, <1>5 DEF Ret, At, Goto
<1>6. ASSUME NEW p \in Slots, TimerRet(p) PROVE FreeInv'
  BY <1>6 DEF TimerRet, At, Yield, Goto
<1>7. ASSUME NEW p \in Slots, ForkFail(p) PROVE FreeInv'
  BY Zenon, <1>7 DEF ForkFail, At, Goto
<1>8. ASSUME NEW p \in Slots, ForkParent(p) PROVE FreeInv'
  BY <1>8 DEF ForkParent, At, Goto
<1>9. ASSUME NEW p \in Slots, ForkRun(p) PROVE FreeInv'
  BY <1>9 DEF ForkRun, At, Goto
<1>10. ASSUME NEW p \in Slots, ExitReparent(p) PROVE FreeInv'
  BY <1>10 DEF ExitReparent, Reparent, Wakeup, Children, At, Goto
<1>11. ASSUME NEW p \in Slots, ExitZombie(p) PROVE FreeInv'
  BY <1>11 DEF ExitZombie, At
<1>12. ASSUME NEW p \in Slots, WaitScan(p) PROVE FreeInv'
  BY <1>12 DEF WaitScan, Freeproc, Children, At, Goto
<1>13. ASSUME NEW p \in Slots, WaitCheck(p) PROVE FreeInv'
  BY Zenon, <1>13 DEF WaitCheck, At, Goto
<1>14. ASSUME NEW p \in Slots, WaitSleep(p) PROVE FreeInv'
  BY <1>14 DEF WaitSleep, Sleep, At, Goto
<1>15. ASSUME NEW p \in Slots, KillNobody(p) PROVE FreeInv'
  BY Zenon, <1>15 DEF KillNobody, At, Goto
<1>16. ASSUME NEW p \in Slots, TickTest(p) PROVE FreeInv'
  BY Zenon, <1>16 DEF TickTest, At, Goto
<1>17. ASSUME NEW p \in Slots, TickSleep(p) PROVE FreeInv'
  BY <1>17 DEF TickSleep, Sleep, At, Goto
<1>18. ASSUME NEW p \in Slots, NEW q \in Slots, ForkAlloc(p, q) PROVE FreeInv'
  BY <1>18 DEF ForkAlloc, At
<1>19. ASSUME NEW p \in Slots, NEW q \in Slots, Kill(p, q) PROVE FreeInv'
  BY <1>19 DEF Kill, KillTargets, At, Goto
<1>20. ASSUME Clockintr PROVE FreeInv'
  BY Zenon, <1>20 DEF Clockintr, Wakeup
<1>21. ASSUME NEW c \in CPUs, Schedule(c) PROVE FreeInv'
  BY <1>21 DEF Schedule, IsRunnable
<1>22. ASSUME UNCHANGED vars PROVE FreeInv'
  BY Zenon, <1>22 DEF vars
<1> QED
  BY Zenon, <1>1, <1>2, <1>3, <1>4, <1>5, <1>6, <1>7, <1>8, <1>9, <1>10, <1>11,
     <1>12, <1>13, <1>14, <1>15, <1>16, <1>17, <1>18, <1>19, <1>20, <1>21, <1>22,
     Zenon DEF Next, KernelStep

\* Every action preserves ParentAlive.
LEMMA ParentNext == IInv /\ [Next]_vars => ParentAlive'
<1> SUFFICES ASSUME IInv, [Next]_vars PROVE ParentAlive'
  BY Zenon
<1> USE NullNoSlot DEF IInv, TypeOK, LockInv, ForkInv, InitInv, FreeInv, ParentAlive, initproc
<1>1. ASSUME NEW p \in Slots, Syscall(p) PROVE ParentAlive'
  BY <1>1, ProcConstants DEF Syscall, At, Goto, CallsOf
<1>2. ASSUME NEW p \in Slots, Fault(p) PROVE ParentAlive'
  BY <1>2 DEF Fault, At, Goto
<1>3. ASSUME NEW p \in Slots, UserTimer(p) PROVE ParentAlive'
  BY <1>3 DEF UserTimer, At, Yield, Goto
<1>4. ASSUME NEW p \in Slots, KernelTimer(p) PROVE ParentAlive'
  BY <1>4 DEF KernelTimer, HoldsLock, Yield, Goto
<1>5. ASSUME NEW p \in Slots, Ret(p) PROVE ParentAlive'
  BY <1>5 DEF Ret, At, Goto
<1>6. ASSUME NEW p \in Slots, TimerRet(p) PROVE ParentAlive'
  BY <1>6 DEF TimerRet, At, Yield, Goto
<1>7. ASSUME NEW p \in Slots, ForkFail(p) PROVE ParentAlive'
  BY <1>7 DEF ForkFail, At, Goto
<1>8. ASSUME NEW p \in Slots, ForkParent(p) PROVE ParentAlive'
  BY <1>8 DEF ForkParent, At, Goto
<1>9. ASSUME NEW p \in Slots, ForkRun(p) PROVE ParentAlive'
  BY <1>9 DEF ForkRun, At, Goto
<1>10. ASSUME NEW p \in Slots, ExitReparent(p) PROVE ParentAlive'
  BY <1>10 DEF ExitReparent, Reparent, Wakeup, Children, At, Goto
<1>11. ASSUME NEW p \in Slots, ExitZombie(p) PROVE ParentAlive'
  BY <1>11 DEF ExitZombie, At
<1>12. ASSUME NEW p \in Slots, WaitScan(p) PROVE ParentAlive'
  BY <1>12 DEF WaitScan, Freeproc, Children, At, Goto
<1>13. ASSUME NEW p \in Slots, WaitCheck(p) PROVE ParentAlive'
  BY <1>13 DEF WaitCheck, At, Goto
<1>14. ASSUME NEW p \in Slots, WaitSleep(p) PROVE ParentAlive'
  BY <1>14 DEF WaitSleep, Sleep, At, Goto
<1>15. ASSUME NEW p \in Slots, KillNobody(p) PROVE ParentAlive'
  BY <1>15 DEF KillNobody, At, Goto
<1>16. ASSUME NEW p \in Slots, TickTest(p) PROVE ParentAlive'
  BY <1>16 DEF TickTest, At, Goto
<1>17. ASSUME NEW p \in Slots, TickSleep(p) PROVE ParentAlive'
  BY <1>17 DEF TickSleep, Sleep, At, Goto
<1>18. ASSUME NEW p \in Slots, NEW q \in Slots, ForkAlloc(p, q) PROVE ParentAlive'
  BY <1>18 DEF ForkAlloc, At
<1>19. ASSUME NEW p \in Slots, NEW q \in Slots, Kill(p, q) PROVE ParentAlive'
  BY <1>19 DEF Kill, KillTargets, At, Goto
<1>20. ASSUME Clockintr PROVE ParentAlive'
  BY <1>20 DEF Clockintr, Wakeup
<1>21. ASSUME NEW c \in CPUs, Schedule(c) PROVE ParentAlive'
  BY <1>21 DEF Schedule, IsRunnable
<1>22. ASSUME UNCHANGED vars PROVE ParentAlive'
  BY <1>22 DEF vars
<1> QED
  BY <1>1, <1>2, <1>3, <1>4, <1>5, <1>6, <1>7, <1>8, <1>9, <1>10, <1>11,
     <1>12, <1>13, <1>14, <1>15, <1>16, <1>17, <1>18, <1>19, <1>20, <1>21, <1>22,
     Zenon DEF Next, KernelStep

\* Every action preserves WaitInv.
LEMMA WaitNext == IInv /\ [Next]_vars => WaitInv'
<1> SUFFICES ASSUME IInv, [Next]_vars PROVE WaitInv'
  BY Zenon
<1> USE NullNoSlot DEF IInv, TypeOK, LockInv, ForkInv, WaitInv, InWait, initproc
<1>1. ASSUME NEW p \in Slots, Syscall(p) PROVE WaitInv'
  BY <1>1, ProcConstants DEF Syscall, At, Goto, CallsOf
<1>2. ASSUME NEW p \in Slots, Fault(p) PROVE WaitInv'
  BY <1>2 DEF Fault, At, Goto
<1>3. ASSUME NEW p \in Slots, UserTimer(p) PROVE WaitInv'
  BY <1>3 DEF UserTimer, At, Yield, Goto
<1>4. ASSUME NEW p \in Slots, KernelTimer(p) PROVE WaitInv'
  BY <1>4 DEF KernelTimer, HoldsLock, Yield, Goto
<1>5. ASSUME NEW p \in Slots, Ret(p) PROVE WaitInv'
  BY <1>5 DEF Ret, At, Goto
<1>6. ASSUME NEW p \in Slots, TimerRet(p) PROVE WaitInv'
  BY <1>6 DEF TimerRet, At, Yield, Goto
<1>7. ASSUME NEW p \in Slots, ForkFail(p) PROVE WaitInv'
  BY <1>7 DEF ForkFail, At, Goto
<1>8. ASSUME NEW p \in Slots, ForkParent(p) PROVE WaitInv'
  BY <1>8 DEF ForkParent, At, Goto
<1>9. ASSUME NEW p \in Slots, ForkRun(p) PROVE WaitInv'
  BY <1>9 DEF ForkRun, At, Goto
<1>10. ASSUME NEW p \in Slots, ExitReparent(p) PROVE WaitInv'
  BY <1>10 DEF ExitReparent, Reparent, Wakeup, Children, At, Goto
<1>11. ASSUME NEW p \in Slots, ExitZombie(p) PROVE WaitInv'
  BY <1>11 DEF ExitZombie, At
<1>12. ASSUME NEW p \in Slots, WaitScan(p) PROVE WaitInv'
  BY <1>12 DEF WaitScan, Freeproc, Children, At, Goto
<1>13. ASSUME NEW p \in Slots, WaitCheck(p) PROVE WaitInv'
  BY <1>13 DEF WaitCheck, At, Goto
<1>14. ASSUME NEW p \in Slots, WaitSleep(p) PROVE WaitInv'
  BY <1>14 DEF WaitSleep, Sleep, At, Goto
<1>15. ASSUME NEW p \in Slots, KillNobody(p) PROVE WaitInv'
  BY <1>15 DEF KillNobody, At, Goto
<1>16. ASSUME NEW p \in Slots, TickTest(p) PROVE WaitInv'
  BY <1>16 DEF TickTest, At, Goto
<1>17. ASSUME NEW p \in Slots, TickSleep(p) PROVE WaitInv'
  BY <1>17 DEF TickSleep, Sleep, At, Goto
<1>18. ASSUME NEW p \in Slots, NEW q \in Slots, ForkAlloc(p, q) PROVE WaitInv'
  BY <1>18 DEF ForkAlloc, At
<1>19. ASSUME NEW p \in Slots, NEW q \in Slots, Kill(p, q) PROVE WaitInv'
  BY <1>19 DEF Kill, KillTargets, At, Goto
<1>20. ASSUME Clockintr PROVE WaitInv'
  BY <1>20 DEF Clockintr, Wakeup
<1>21. ASSUME NEW c \in CPUs, Schedule(c) PROVE WaitInv'
  BY <1>21 DEF Schedule, IsRunnable
<1>22. ASSUME UNCHANGED vars PROVE WaitInv'
  BY <1>22 DEF vars
<1> QED
  BY <1>1, <1>2, <1>3, <1>4, <1>5, <1>6, <1>7, <1>8, <1>9, <1>10, <1>11,
     <1>12, <1>13, <1>14, <1>15, <1>16, <1>17, <1>18, <1>19, <1>20, <1>21, <1>22,
     Zenon DEF Next, KernelStep

\* All of the invariant.
LEMMA Inductive == Spec => []IInv
<1>1. Init => IInv
  <2> SUFFICES ASSUME Init PROVE IInv
    BY Zenon
  <2> USE NullNoSlot DEF Init
  <2>1. TypeOK
    BY Zenon, TypeInit
  <2>2. OneCpuPerProcess
    BY Zenon DEF OneCpuPerProcess, initproc
  <2>3. LockInv /\ ForkInv /\ InitInv /\ FreeInv /\ WaitInv
    BY Zenon DEF LockInv, ForkInv, InitInv, FreeInv, WaitInv
  <2>4. ParentAlive
    BY Zenon DEF ParentAlive
  <2> QED BY Zenon, <2>1, <2>2, <2>3, <2>4 DEF IInv
<1>2. IInv /\ [Next]_vars => IInv'
  BY Zenon, TypeNext, OneCpuNext, LockNext, ForkNext, InitNext, FreeNext, ParentNext, WaitNext
     DEF IInv
<1> QED BY <1>1, <1>2, PTL DEF Spec

\* scheduler(): whatever the number of CPUs, a process is RUNNING exactly when
\* one of them has it as c->proc, and no two have the same process.
THEOREM OneCpu == Spec => []OneCpuPerProcess
BY Inductive, PTL DEF IInv

\* fork(), exit(), reparent(): everybody who can run has a live parent.
THEOREM ParentsAlive == Spec => []ParentAlive
BY Inductive, PTL DEF IInv

\* sleep()/wakeup() in wait() and exit(): no exit is missed.
THEOREM NoExitMissed == Spec => []NoMissedExit
<1>1. IInv => NoMissedExit
  BY Zenon DEF IInv, WaitInv, InWait, NoMissedExit
<1> QED BY <1>1, Inductive, PTL

\* Only processes on a CPU hold wait_lock or tickslock.
THEOREM HoldersRun == Spec => []LockHolderRuns
<1>1. IInv => LockHolderRuns
  BY Zenon DEF IInv, TypeOK, LockInv, LockHolderRuns
<1> QED BY <1>1, Inductive, PTL
=============================================================================
