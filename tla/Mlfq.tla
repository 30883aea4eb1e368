-------------------------------- MODULE Mlfq --------------------------------
(***************************************************************************)
(* The MLFQ scheduling policy on one CPU: the queue data of mlfq.c, the    *)
(* scheduler loop of the MLFQ build (aging, queueing, choice), and what    *)
(* usertrap()/kerneltrap() do to the queues on an interrupt.               *)
(*                                                                         *)
(* p->mlfq_data is modelled by curr_pri, in_queue, num_ticks and age, the  *)
(* difference ticks - intime, which is all that the code computes from     *)
(* intime while a process is in a queue (a smaller intime is a larger      *)
(* age); age stops at MaxAge.  wtime is written but never read.            *)
(***************************************************************************)
EXTENDS Naturals, FiniteSets

CONSTANTS N,           \* slots of proc[] in use
          NUM_QUEUES,  \* MLFQ_NUM_QUEUES
          TimeSlice,   \* MLFQ_TICKS0.. as a function of the queue
          AGING_TIME,
          MaxAge,      \* bound on ages that are told apart
          Calls,       \* what the processes do: a set of calls
          MaxPassIntrs, \* interrupts during one pass of the scheduler that finds a
                       \* process to run (a pass is far shorter than a tick)
          Null

ASSUME MlfqConstants ==
  /\ N \in Nat \ {0} /\ NUM_QUEUES \in Nat \ {0}
  /\ TimeSlice \in [0..NUM_QUEUES - 1 -> Nat \ {0}]
  /\ AGING_TIME \in Nat \ {0} /\ MaxAge \in Nat /\ MaxAge > AGING_TIME
  /\ MaxPassIntrs \in Nat
  /\ Calls \subseteq {"sleep", "exit", "fork", "wait"}
  /\ Null \notin 1..N

Slots == 1..N
VARIABLES
  state,   \* p->state
  m,       \* p->mlfq_data
  cproc,   \* c->proc: the process on the CPU, or Null in the scheduler
  spc,     \* scheduler(): the slot its first loop has reached, N + 1 + i in the
           \* second one at queue i, and 0 after it
  next,    \* the process chosen
  mode,    \* a process is in "user" or "kernel" mode
  recheck, \* it will resume after the demotion's yield(), before the flag loop
  passIntrs \* interrupts in this pass of the scheduler

vars == <<state, m, cproc, spc, next, mode, recheck, passIntrs>>

Min2(a, b) == IF a < b THEN a ELSE b

(* mlfq.c *)
Push(d, p, q) ==
  [d EXCEPT ![p] = [curr_pri |-> q, in_queue |-> TRUE, num_ticks |-> 0, age |-> 0]]

\* Mutant: remove() leaves the process marked as queued.
RemoveNothing(d, p) == [d EXCEPT ![p].num_ticks = 0, ![p].age = 0]

Remove(d, p) ==
  [d EXCEPT ![p] = [curr_pri |-> @.curr_pri, in_queue |-> FALSE, num_ticks |-> 0, age |-> 0]]

\* A process of a queue that can run.
Ready(d, s, p) == d[p].in_queue /\ s[p] = "RUNNABLE"

\* p comes before q in its queue: smaller intime, then table order.
Before(d, p, q) == d[p].age > d[q].age \/ (d[p].age = d[q].age /\ p <= q)

\* topmost(i); an interrupt during its loop counts as before or after it.
Topmost(i) ==
  LET queue == {p \in Slots : Ready(m, state, p) /\ m[p].curr_pri = i}
  IN  IF queue = {} THEN Null ELSE CHOOSE p \in queue : \A q \in queue : Before(m, p, q)

Init ==
  /\ state = [p \in Slots |-> IF p = 1 THEN "RUNNABLE" ELSE "UNUSED"]
  /\ m = Push([p \in Slots |-> [curr_pri |-> 0, in_queue |-> FALSE,
                                num_ticks |-> 0, age |-> 0]], 1, 0)
  /\ cproc = Null
  /\ spc = 1 /\ next = Null
  /\ mode = [p \in Slots |-> "user"]
  /\ recheck = [p \in Slots |-> FALSE]
  /\ passIntrs = 0
-----------------------------------------------------------------------------
(* Aging *)

MustBoost(d, s, p) == Ready(d, s, p) /\ d[p].age >= AGING_TIME

\* remove() and push() one queue up; in queue 0 back into queue 0.
BoostOne(d, p) ==
  Push(Remove(d, p), p, IF d[p].curr_pri = 0 THEN 0 ELSE d[p].curr_pri - 1)

\* The loop over the table at the start of the traps' MLFQ code.
BoostAll(d, s) ==
  [p \in Slots |-> IF MustBoost(d, s, p) THEN BoostOne(d, p)[p] ELSE d[p]]
-----------------------------------------------------------------------------
(* scheduler(), with interrupts on between its steps *)

\* One iteration of the loop over the table, under p->lock.
Scan ==
  /\ cproc = Null /\ spc \in Slots
  /\ LET p == spc IN
     /\ m' = IF MustBoost(m, state, p) THEN BoostOne(m, p)
             ELSE IF state[p] = "RUNNABLE" /\ ~m[p].in_queue
               THEN Push(m, p, m[p].curr_pri)
             ELSE IF state[p] \in {"ZOMBIE", "SLEEPING"} THEN Remove(m, p)
             ELSE m
     /\ spc' = p + 1
  /\ UNCHANGED <<state, cproc, next, mode, recheck, passIntrs>>

\* One queue of the loop that chooses, at spc = N + 1 and up.
Choose ==
  /\ cproc = Null /\ spc > N
  /\ next' = Topmost(spc - N - 1)
  /\ spc' = IF next' # Null THEN 0 ELSE IF spc = N + NUM_QUEUES THEN 1 ELSE spc + 1
  /\ passIntrs' = IF spc' = 1 THEN 0 ELSE passIntrs
  /\ UNCHANGED <<state, m, cproc, mode, recheck>>

\* From acquire(&next->lock) to swtch(): the state of next is not looked at again.
SwitchTo ==
  /\ cproc = Null /\ spc = 0
  /\ spc' = 1 /\ next' = Null /\ passIntrs' = 0
  /\ cproc' = next
  /\ state' = [state EXCEPT ![next] = "RUNNING"]
  /\ UNCHANGED <<m, mode, recheck>>
-----------------------------------------------------------------------------
(* The running process *)

Running(p) == cproc = p /\ ~recheck[p]

\* A system call starts or ends (killed and exiting processes included).
Trap(p) ==
  /\ Running(p)
  /\ mode' = [mode EXCEPT ![p] = IF @ = "user" THEN "kernel" ELSE "user"]
  /\ UNCHANGED <<state, m, cproc, spc, next, recheck, passIntrs>>

\* sleep() and exit(): back to the scheduler.
Sleep(p) ==
  /\ "sleep" \in Calls /\ Running(p) /\ mode[p] = "kernel"
  /\ state' = [state EXCEPT ![p] = "SLEEPING"]
  /\ cproc' = Null
  /\ UNCHANGED <<m, spc, next, mode, recheck, passIntrs>>

Exit(p) ==
  /\ "exit" \in Calls /\ Running(p) /\ mode[p] = "kernel" /\ p # 1
  /\ state' = [state EXCEPT ![p] = "ZOMBIE"]
  /\ cproc' = Null
  /\ UNCHANGED <<m, spc, next, mode, recheck, passIntrs>>

\* fork() pushes the child into queue 0.
Fork(p, q) ==
  /\ "fork" \in Calls /\ Running(p) /\ mode[p] = "kernel"
  /\ state[q] = "UNUSED"
  /\ state' = [state EXCEPT ![q] = "RUNNABLE"]
  /\ m' = Push(m, q, 0)
  /\ mode' = [mode EXCEPT ![q] = "user"]
  /\ UNCHANGED <<cproc, spc, next, recheck, passIntrs>>

\* freeproc() clears mlfq_data.
Wait(p, q) ==
  /\ "wait" \in Calls /\ Running(p) /\ mode[p] = "kernel"
  /\ state[q] = "ZOMBIE"
  /\ state' = [state EXCEPT ![q] = "UNUSED"]
  /\ m' = [m EXCEPT ![q] = [curr_pri |-> 0, in_queue |-> FALSE,
                            num_ticks |-> 0, age |-> 0]]
  /\ UNCHANGED <<cproc, spc, next, mode, recheck, passIntrs>>
-----------------------------------------------------------------------------
(* Interrupts *)

\* clockintr(): ticks++ and update_time().
Clock(d) ==
  [p \in Slots |->
     [curr_pri |-> d[p].curr_pri, in_queue |-> d[p].in_queue,
      num_ticks |-> IF state[p] = "RUNNING" THEN d[p].num_ticks + 1 ELSE d[p].num_ticks,
      age |-> IF d[p].in_queue THEN Min2(d[p].age + 1, MaxAge) ELSE d[p].age]]

Woken(W) == [p \in Slots |-> IF p \in W THEN "RUNNABLE" ELSE state[p]]

\* Mutant: the slice is one tick longer.
SliceOverLate(d, p) == d[p].num_ticks > TimeSlice[d[p].curr_pri]

SliceOver(d, p) == d[p].num_ticks >= TimeSlice[d[p].curr_pri]

\* The flag loop: a process in a better queue can run.
BetterReady(d, s, p) ==
  \E q \in Slots : Ready(d, s, q) /\ d[q].curr_pri < d[p].curr_pri

\* The queue below q.
Demoted(q) == Min2(q + 1, NUM_QUEUES - 1)

\* The end of the handlers for the running process p: demotion and yield(), or
\* yield() for a better process, or p goes on.
AfterTrap(d, s, p, timer) ==
  IF timer /\ SliceOver(d, p)
    THEN /\ m' = Push(Remove(d, p), p, Demoted(d[p].curr_pri))
         /\ state' = [s EXCEPT ![p] = "RUNNABLE"]
         /\ cproc' = Null
         /\ recheck' = [recheck EXCEPT ![p] = TRUE]
    ELSE /\ m' = d
         /\ IF BetterReady(d, s, p)
              THEN state' = [s EXCEPT ![p] = "RUNNABLE"] /\ cproc' = Null
              ELSE state' = s /\ UNCHANGED cproc
         /\ UNCHANGED recheck

\* An interrupt in the scheduler counts against MaxPassIntrs if there is work.
IntrInPass ==
  IF cproc = Null /\ \E p \in Slots : Ready(m, state, p)
    THEN passIntrs < MaxPassIntrs /\ passIntrs' = passIntrs + 1
    ELSE UNCHANGED passIntrs

\* A tick.  wakeup(&ticks) wakes W.  In the scheduler (c->proc = 0) only the
\* aging part of kerneltrap() runs.
Tick(W) ==
  /\ \A p \in Slots : cproc = p => ~recheck[p]
  /\ LET s == Woken(W)
         d == BoostAll(Clock(m), s)
     IN  IF cproc = Null THEN m' = d /\ state' = s /\ UNCHANGED <<cproc, recheck>>
                         ELSE AfterTrap(d, s, cproc, TRUE)
  /\ IntrInPass
  /\ UNCHANGED <<spc, next, mode>>

\* A device interrupt wakes W.  usertrap() does nothing more; kerneltrap() runs
\* its MLFQ code for any interrupt.
DeviceIntr(W) ==
  /\ \A p \in Slots : cproc = p => ~recheck[p]
  /\ LET s == Woken(W)
         d == BoostAll(m, s)
     IN  CASE cproc = Null -> m' = d /\ state' = s /\ UNCHANGED <<cproc, recheck>>
           [] cproc # Null /\ mode[cproc] = "user" ->
                state' = s /\ UNCHANGED <<m, cproc, recheck>>
           [] OTHER -> AfterTrap(d, s, cproc, FALSE)
  /\ IntrInPass
  /\ UNCHANGED <<spc, next, mode>>

\* The process resumes after the yield() of its demotion: the flag loop.
Recheck(p) ==
  /\ cproc = p /\ recheck[p]
  /\ recheck' = [recheck EXCEPT ![p] = FALSE]
  /\ IF BetterReady(m, state, p)
       THEN state' = [state EXCEPT ![p] = "RUNNABLE"] /\ cproc' = Null
       ELSE UNCHANGED <<state, cproc>>
  /\ UNCHANGED <<m, spc, next, mode, passIntrs>>
-----------------------------------------------------------------------------
Asleep == {p \in Slots : state[p] = "SLEEPING"}

\* The timer: one tick, which wakes some of the sleepers on &ticks.
Clockintr == \E W \in SUBSET Asleep : Tick(W)

Other ==
  \/ Scan \/ Choose \/ SwitchTo
  \/ \E p \in Slots :
       \/ Trap(p) \/ Sleep(p) \/ Exit(p) \/ Recheck(p)
       \/ \E q \in Slots : Fork(p, q) \/ Wait(p, q)
  \/ \E W \in SUBSET Asleep : DeviceIntr(W)

Next == Clockintr \/ Other

Spec == Init /\ [][Next]_vars
-----------------------------------------------------------------------------
(* Properties *)

\* A process that blocked or exited has left the queues by the time another one
\* runs, whatever interrupts came in while the scheduler looked at the table.
BlockedLeaveQueues ==
  cproc # Null =>
    \A p \in Slots : state[p] \in {"SLEEPING", "ZOMBIE"} => ~m[p].in_queue

\* Nobody runs beyond the time slice of its queue: the tick that completes a
\* slice, in user space or in the kernel, demotes the process, and changes of
\* queue give it a new slice.
SliceRespected ==
  \A p \in Slots : m[p].in_queue => m[p].num_ticks < TimeSlice[m[p].curr_pri]
=============================================================================
