---------------------------- MODULE SchedProofs -----------------------------
(***************************************************************************)
(* Proofs about the two schedulers: Mlfq, for every number of slots and    *)
(* queues, every time slice and every age at which a process is boosted,   *)
(* and Fcfs, for every number of slots and every set of CPUs.              *)
(***************************************************************************)
EXTENDS Mlfq, Fcfs, TLAPS

(* The MLFQ scheduler: types, and the inductive invariant *)

Queues == 0..NUM_QUEUES - 1

MlfqData == [curr_pri : Queues, in_queue : BOOLEAN, num_ticks : Nat, age : Nat]

MStates == {"UNUSED", "SLEEPING", "RUNNABLE", "RUNNING", "ZOMBIE"}

MlfqType ==
  /\ state \in [Slots -> MStates]
  /\ m \in [Slots -> MlfqData]
  /\ spc \in 0..N + NUM_QUEUES

\* Only the process on the CPU is RUNNING, and the scheduler starts at the first slot
\* when that process leaves.
RunInv ==
  /\ \A p \in Slots : state[p] = "RUNNING" => cproc = p
  /\ cproc # Null => spc = 1

\* Who is blocked and still queued is so only until the scheduler's scan comes to it.
QueuedInv ==
  \A p \in Slots :
    state[p] \in {"SLEEPING", "ZOMBIE"} /\ m[p].in_queue =>
      cproc = Null /\ spc # 0 /\ spc <= p

MlfqInv == MlfqType /\ RunInv /\ QueuedInv /\ SliceRespected

\* Every queue has a positive time slice.
LEMMA SlicePositive == \A d \in MlfqData : TimeSlice[d.curr_pri] \in Nat \ {0}
BY Zenon, MlfqConstants DEF MlfqData, Queues

\* push() puts p into queue q and leaves the rest alone.
LEMMA PushIs ==
  ASSUME NEW d \in [Slots -> MlfqData], NEW p \in Slots, NEW q \in Queues
  PROVE  /\ Push(d, p, q) \in [Slots -> MlfqData]
         /\ Push(d, p, q)[p].in_queue /\ Push(d, p, q)[p].num_ticks = 0
         /\ Push(d, p, q)[p].curr_pri = q
         /\ \A r \in Slots : r # p => Push(d, p, q)[r] = d[r]
BY Zenon DEF Push, MlfqData

\* remove() takes p out of its queue and leaves the rest alone.
LEMMA RemoveIs ==
  ASSUME NEW d \in [Slots -> MlfqData], NEW p \in Slots
  PROVE  /\ Remove(d, p) \in [Slots -> MlfqData]
         /\ ~Remove(d, p)[p].in_queue
         /\ \A r \in Slots : r # p => Remove(d, p)[r] = d[r]
BY Zenon DEF Remove, MlfqData

\* One boost: p is queued, its ticks start anew, and the rest is left alone.
LEMMA BoostOneIs ==
  ASSUME NEW d \in [Slots -> MlfqData], NEW p \in Slots
  PROVE  /\ BoostOne(d, p) \in [Slots -> MlfqData]
         /\ BoostOne(d, p)[p].in_queue /\ BoostOne(d, p)[p].num_ticks = 0
         /\ \A r \in Slots : r # p => BoostOne(d, p)[r] = d[r]
<1> DEFINE q == IF d[p].curr_pri = 0 THEN 0 ELSE d[p].curr_pri - 1
<1>1. q \in Queues
  BY MlfqConstants DEF MlfqData, Queues
<1> QED BY <1>1, RemoveIs, PushIs DEF BoostOne

\* The aging of the trap handlers: who is boosted was ready.
LEMMA BoostAllIs ==
  ASSUME NEW d \in [Slots -> MlfqData], NEW s
  PROVE  /\ BoostAll(d, s) \in [Slots -> MlfqData]
         /\ \A p \in Slots :
              \/ BoostAll(d, s)[p] = d[p]
              \/ /\ s[p] = "RUNNABLE" /\ d[p].in_queue
                 /\ BoostAll(d, s)[p].in_queue /\ BoostAll(d, s)[p].num_ticks = 0
BY Zenon, BoostOneIs DEF BoostAll, MustBoost, Ready

\* The clock counts the ticks of the running process.
LEMMA ClockIs ==
  ASSUME NEW d \in [Slots -> MlfqData]
  PROVE  /\ Clock(d) \in [Slots -> MlfqData]
         /\ \A p \in Slots :
              /\ Clock(d)[p].curr_pri = d[p].curr_pri
              /\ Clock(d)[p].in_queue = d[p].in_queue
              /\ state[p] # "RUNNING" => Clock(d)[p].num_ticks = d[p].num_ticks
<1>1. \A p \in Slots : (IF d[p].in_queue THEN Min2(d[p].age + 1, MaxAge) ELSE d[p].age) \in Nat
  BY MlfqConstants DEF MlfqData, Min2
<1>2. \A p \in Slots :
        (IF state[p] = "RUNNING" THEN d[p].num_ticks + 1 ELSE d[p].num_ticks) \in Nat
  BY DEF MlfqData
<1> QED BY Zenon, <1>1, <1>2 DEF Clock, MlfqData

\* The initial state satisfies the invariant.
LEMMA MlfqInvInit == Init => MlfqInv
<1> SUFFICES ASSUME Init PROVE MlfqInv
  BY Zenon
<1> USE MlfqConstants
<1> DEFINE d == [p \in Slots |-> [curr_pri |-> 0, in_queue |-> FALSE,
                                  num_ticks |-> 0, age |-> 0]]
<1>1. 1 \in Slots /\ 0 \in Queues /\ d \in [Slots -> MlfqData]
  BY DEF Slots, Queues, MlfqData
<1>2. m = Push(d, 1, 0)
  BY Zenon DEF Init
<1>3. m \in [Slots -> MlfqData] /\ \A p \in Slots : m[p].num_ticks = 0
  <2>1. \A p \in Slots : d[p].num_ticks = 0
    BY Zenon
  <2> HIDE DEF d
  <2>2. /\ Push(d, 1, 0) \in [Slots -> MlfqData] /\ Push(d, 1, 0)[1].num_ticks = 0
        /\ \A r \in Slots : r # 1 => Push(d, 1, 0)[r] = d[r]
    BY <1>1, PushIs
  <2> QED BY Zenon, <1>2, <2>1, <2>2
<1>4. MlfqType
  <2>1. spc \in 0..N + NUM_QUEUES
    BY DEF Init
  <2>2. state \in [Slots -> MStates]
    BY Zenon DEF Init, MStates
  <2> QED BY Zenon, <1>3, <2>1, <2>2 DEF MlfqType
<1>5. RunInv
  BY Zenon DEF RunInv, Init
<1>6. QueuedInv
  BY Zenon DEF QueuedInv, Init
<1>7. SliceRespected
  BY <1>3, SlicePositive DEF SliceRespected
<1> QED BY Zenon, <1>4, <1>5, <1>6, <1>7 DEF MlfqInv

\* The scheduler's scan of the table preserves it.
LEMMA ScanInv == MlfqInv /\ Scan => MlfqInv'
<1> SUFFICES ASSUME MlfqInv, Scan PROVE MlfqInv'
  BY Zenon
<1> USE MlfqConstants DEF MlfqInv
<1> DEFINE p == spc
<1>1. p \in Slots /\ m \in [Slots -> MlfqData] /\ p + 1 \in 0..N + NUM_QUEUES /\ p # 0
  BY DEF Scan, MlfqType, Slots
<1>2. m[p].curr_pri \in Queues
  BY Zenon, <1>1 DEF MlfqData
<1>3. /\ m' \in [Slots -> MlfqData]
      /\ \A r \in Slots : r # p => m'[r] = m[r]
      /\ state[p] \in {"SLEEPING", "ZOMBIE"} => ~m'[p].in_queue
      /\ m'[p] = m[p] \/ m'[p].num_ticks = 0 \/ ~m'[p].in_queue
  <2>1. CASE MustBoost(m, state, p)
    BY <1>1, <2>1, BoostOneIs DEF Scan, MustBoost, Ready
  <2>2. CASE ~MustBoost(m, state, p) /\ state[p] = "RUNNABLE" /\ ~m[p].in_queue
    BY <1>1, <1>2, <2>2, PushIs DEF Scan
  <2>3. CASE ~MustBoost(m, state, p) /\ state[p] \in {"ZOMBIE", "SLEEPING"}
    BY <1>1, <2>3, RemoveIs DEF Scan
  <2>4. CASE /\ ~MustBoost(m, state, p) /\ state[p] \notin {"ZOMBIE", "SLEEPING"}
             /\ ~(state[p] = "RUNNABLE" /\ ~m[p].in_queue)
    BY Zenon, <1>1, <2>4 DEF Scan
  <2> QED BY Zenon, <2>1, <2>2, <2>3, <2>4
<1>4. MlfqType'
  BY Zenon, <1>1, <1>3 DEF MlfqType, Scan
<1>5. RunInv'
  BY Zenon DEF RunInv, Scan
<1>6. QueuedInv'
  <2> SUFFICES ASSUME NEW r \in Slots, state[r] \in {"SLEEPING", "ZOMBIE"}, m'[r].in_queue
               PROVE  p + 1 <= r
    BY <1>1 DEF QueuedInv, Scan, Slots
  <2>1. r # p /\ m[r].in_queue
    BY Zenon, <1>3
  <2> QED BY <1>1, <2>1 DEF QueuedInv, Slots
<1>7. SliceRespected'
  BY <1>1, <1>3, SlicePositive DEF SliceRespected
<1> QED BY Zenon, <1>4, <1>5, <1>6, <1>7

\* So do the choice and the switch.
LEMMA ChooseInv == MlfqInv /\ (Choose \/ SwitchTo) => MlfqInv'
<1> SUFFICES ASSUME MlfqInv, Choose \/ SwitchTo PROVE MlfqInv'
  BY Zenon
<1> USE MlfqConstants DEF MlfqInv
<1>1. CASE Choose
  <2>1. spc > N /\ spc' \in 0..N + NUM_QUEUES /\ (spc' = 0 \/ spc' = 1 \/ spc' > N)
    BY <1>1 DEF Choose, MlfqType
  <2>2. MlfqType' /\ RunInv'
    BY Zenon, <1>1, <2>1 DEF MlfqType, RunInv, Choose
  <2>3. QueuedInv'
    BY <1>1, <2>1 DEF QueuedInv, Choose, MlfqType, Slots
  <2> QED BY Zenon, <1>1, <2>2, <2>3 DEF SliceRespected, Choose
<1>2. CASE SwitchTo
  <2>1. MlfqType'
    <3>1. spc' \in 0..N + NUM_QUEUES
      BY <1>2 DEF SwitchTo
    <3>2. state' \in [Slots -> MStates]
      BY Zenon, <1>2 DEF MlfqType, SwitchTo, MStates
    <3> QED BY Zenon, <1>2, <3>1, <3>2 DEF MlfqType, SwitchTo
  <2>2. RunInv'
    BY Zenon, <1>2 DEF RunInv, SwitchTo, MlfqType, Slots
  <2>3. QueuedInv'
    BY Zenon, <1>2 DEF QueuedInv, SwitchTo, MlfqType
  <2> QED BY Zenon, <1>2, <2>1, <2>2, <2>3 DEF SliceRespected, SwitchTo
<1> QED BY Zenon, <1>1, <1>2

\* So do the steps of the running process.
LEMMA RunningInv ==
  ASSUME MlfqInv, NEW p \in Slots, NEW q \in Slots,
         Trap(p) \/ Sleep(p) \/ Exit(p) \/ Recheck(p) \/ Fork(p, q) \/ Wait(p, q)
  PROVE  MlfqInv'
<1> USE MlfqConstants DEF MlfqInv
<1>1. cproc = p /\ cproc # Null /\ spc = 1 /\ spc' = spc
  BY Zenon DEF Trap, Sleep, Exit, Recheck, Fork, Wait, Running, RunInv, Slots
<1>2. CASE Trap(p)
  BY Zenon, <1>2 DEF Trap, MlfqType, RunInv, QueuedInv, SliceRespected
<1>3. CASE Sleep(p) \/ Exit(p) \/ Recheck(p)
  <2>1. state' \in [Slots -> MStates] /\ m' = m
    BY Zenon, <1>3 DEF Sleep, Exit, Recheck, MlfqType, MStates
  <2>2. RunInv'
    BY Zenon, <1>1, <1>3 DEF Sleep, Exit, Recheck, RunInv, MlfqType
  <2>3. QueuedInv'
    BY <1>1, <1>3 DEF Sleep, Exit, Recheck, QueuedInv, MlfqType, Slots
  <2> QED BY Zenon, <1>1, <2>1, <2>2, <2>3 DEF MlfqType, SliceRespected
<1>4. CASE Fork(p, q)
  <2>1. 0 \in Queues /\ m' = Push(m, q, 0) /\ m \in [Slots -> MlfqData]
    BY <1>4 DEF Fork, Queues, MlfqType
  <2>2. MlfqType'
    BY <1>1, <1>4, <2>1, PushIs DEF Fork, MlfqType, MStates
  <2>3. RunInv'
    BY Zenon, <1>4 DEF Fork, RunInv, MlfqType
  <2>4. QueuedInv'
    BY <1>4, <2>1, PushIs DEF Fork, QueuedInv, MlfqType
  <2>5. SliceRespected'
    <3>1. /\ m' \in [Slots -> MlfqData] /\ m'[q].num_ticks = 0
          /\ \A r \in Slots : r # q => m'[r] = m[r]
      BY <2>1, PushIs
    <3> QED BY <3>1, SlicePositive DEF SliceRespected
  <2> QED BY Zenon, <2>2, <2>3, <2>4, <2>5
<1>5. CASE Wait(p, q)
  <2> DEFINE none == [curr_pri |-> 0, in_queue |-> FALSE, num_ticks |-> 0, age |-> 0]
  <2>1. none \in MlfqData /\ ~none.in_queue
    BY DEF MlfqData, Queues
  <2> HIDE DEF none
  <2>2. m' = [m EXCEPT ![q] = none]
    BY Zenon, <1>5 DEF Wait, none
  <2>3. MlfqType'
    <3>1. m' \in [Slots -> MlfqData]
      BY Zenon, <1>1, <2>1, <2>2 DEF MlfqType
    <3>2. state' \in [Slots -> MStates] /\ spc' = spc
      BY Zenon, <1>5 DEF Wait, MlfqType, MStates
    <3> QED BY Zenon, <3>1, <3>2 DEF MlfqType
  <2>4. RunInv'
    BY Zenon, <1>5 DEF Wait, RunInv, MlfqType
  <2>5. QueuedInv'
    BY Zenon, <1>5, <2>1, <2>2 DEF Wait, QueuedInv, MlfqType
  <2>6. SliceRespected'
    BY Zenon, <2>1, <2>2 DEF SliceRespected, MlfqType
  <2> QED BY Zenon, <2>3, <2>4, <2>5, <2>6
<1> QED BY Zenon, <1>2, <1>3, <1>4, <1>5

\* What an interrupt leaves behind: d is the queue data after the clock and the
\* aging, s the process states after the wakeups.
IntrData(d, s) ==
  /\ d \in [Slots -> MlfqData] /\ s \in [Slots -> MStates]
  /\ \A p \in Slots :
       /\ s[p] = state[p] \/ (state[p] = "SLEEPING" /\ s[p] = "RUNNABLE")
       /\ s[p] # "RUNNABLE" => d[p].in_queue = m[p].in_queue
       /\ s[p] # "RUNNING" /\ d[p].in_queue => d[p].num_ticks < TimeSlice[d[p].curr_pri]

\* The rest of the handler preserves the invariant: the slice is looked at after every
\* tick.
LEMMA AfterTrapInv ==
  ASSUME MlfqInv, NEW d, NEW s, IntrData(d, s), NEW timer \in BOOLEAN,
         \/ cproc # Null /\ AfterTrap(d, s, cproc, timer)
         \/ cproc = Null /\ m' = d /\ state' = s /\ cproc' = cproc,
         timer \/ \A p \in Slots : d[p].in_queue => d[p].num_ticks < TimeSlice[d[p].curr_pri],
         spc' = spc
  PROVE  MlfqInv'
<1> USE MlfqConstants DEF MlfqInv
<1>1. CASE cproc = Null /\ m' = d /\ state' = s /\ cproc' = cproc
  <2>1. \A p \in Slots : s[p] # "RUNNING"
    BY Zenon, <1>1 DEF IntrData, RunInv, Slots, MlfqType
  <2>2. MlfqType' /\ RunInv'
    BY Zenon, <1>1, <2>1 DEF IntrData, MlfqType, RunInv
  <2>3. QueuedInv'
    BY Zenon, <1>1 DEF IntrData, QueuedInv
  <2>4. SliceRespected'
    BY Zenon, <1>1, <2>1 DEF IntrData, SliceRespected
  <2> QED BY Zenon, <2>2, <2>3, <2>4
<1>2. CASE cproc # Null /\ AfterTrap(d, s, cproc, timer)
  <2>1. spc = 1 /\ \A r \in Slots : s[r] = "RUNNING" => r = cproc
    BY Zenon, <1>2 DEF IntrData, RunInv, MlfqType
  <2>2. CASE timer /\ SliceOver(d, cproc)
    <3> DEFINE e == Remove(d, cproc)
               q == Demoted(d[cproc].curr_pri)
    <3>1. m' = Push(e, cproc, q) /\ state' = [s EXCEPT ![cproc] = "RUNNABLE"] /\ cproc' = Null
      BY Zenon, <1>2, <2>2 DEF AfterTrap
    <3>2. CASE cproc \in Slots
      <4>1. q \in Queues /\ e \in [Slots -> MlfqData] /\ \A r \in Slots : r # cproc => e[r] = d[r]
        <5>1. d \in [Slots -> MlfqData] /\ d[cproc].curr_pri \in Queues
          BY Zenon, <3>2 DEF IntrData, MlfqData
        <5>2. q \in Queues
          BY <5>1 DEF Queues, Demoted, Min2
        <5> QED BY Zenon, <3>2, <5>1, <5>2, RemoveIs
      <4> HIDE DEF q, e
      <4>2. /\ m' \in [Slots -> MlfqData] /\ m'[cproc].num_ticks = 0
            /\ \A r \in Slots : r # cproc => m'[r] = d[r]
        BY <3>1, <3>2, <4>1, PushIs
      <4>3. MlfqType' /\ RunInv'
        BY Zenon, <2>1, <3>1, <3>2, <4>2 DEF IntrData, MlfqType, RunInv, MStates
      <4>4. QueuedInv'
        BY <1>2, <2>1, <3>1, <3>2, <4>2 DEF IntrData, QueuedInv, Slots
      <4>5. SliceRespected'
        <5> SUFFICES ASSUME NEW r \in Slots, m'[r].in_queue
                     PROVE  m'[r].num_ticks < TimeSlice[m'[r].curr_pri]
          BY Zenon DEF SliceRespected
        <5>1. CASE r = cproc
          BY <4>2, <5>1, SlicePositive
        <5>2. CASE r # cproc
          BY Zenon, <2>1, <4>2, <5>2 DEF IntrData
        <5> QED BY Zenon, <5>1, <5>2
      <4> QED BY Zenon, <4>3, <4>4, <4>5
    <3>3. CASE cproc \notin Slots
      <4>1. m' = d /\ state' = s
        BY Zenon, <3>1, <3>3 DEF Push, Remove, IntrData
      <4> QED BY Zenon, <1>2, <2>1, <3>1, <3>3, <4>1
              DEF IntrData, MlfqType, RunInv, QueuedInv, SliceRespected
    <3> QED BY Zenon, <3>2, <3>3
  <2>3. CASE ~(timer /\ SliceOver(d, cproc))
    <3>1. /\ m' = d
          /\ \/ state' = [s EXCEPT ![cproc] = "RUNNABLE"] /\ cproc' = Null
             \/ state' = s /\ cproc' = cproc
      BY Zenon, <1>2, <2>3 DEF AfterTrap
    <3>2. MlfqType' /\ RunInv'
      BY Zenon, <2>1, <3>1 DEF IntrData, MlfqType, RunInv, MStates
    <3>3. QueuedInv'
      <4> SUFFICES ASSUME NEW r \in Slots, state'[r] \in {"SLEEPING", "ZOMBIE"}, d[r].in_queue
                   PROVE  FALSE
        BY Zenon, <3>1 DEF QueuedInv
      <4>1. s[r] \in {"SLEEPING", "ZOMBIE"}
        BY Zenon, <3>1 DEF IntrData
      <4>2. state[r] = s[r] /\ m[r].in_queue
        BY Zenon, <4>1 DEF IntrData
      <4> QED BY Zenon, <1>2, <4>1, <4>2 DEF QueuedInv
    <3>4. SliceRespected'
      <4> SUFFICES ASSUME NEW r \in Slots, d[r].in_queue
                   PROVE  d[r].num_ticks < TimeSlice[d[r].curr_pri]
        BY Zenon, <3>1 DEF SliceRespected
      <4>1. d[r] \in MlfqData /\ d[r].num_ticks \in Nat
        BY Zenon DEF IntrData, MlfqData
      <4>2. TimeSlice[d[r].curr_pri] \in Nat
        BY Zenon, <4>1, SlicePositive
      <4>3. CASE ~timer \/ s[r] # "RUNNING"
        BY Zenon, <4>3 DEF IntrData
      <4>4. CASE timer /\ s[r] = "RUNNING"
        BY <2>1, <2>3, <4>1, <4>2, <4>4 DEF SliceOver
      <4> QED BY Zenon, <4>3, <4>4
    <3> QED BY Zenon, <3>2, <3>3, <3>4
  <2> QED BY Zenon, <2>2, <2>3
<1> QED BY Zenon, <1>1, <1>2

\* The interrupts preserve the invariant.
LEMMA IntrInv ==
  ASSUME MlfqInv, NEW W \in SUBSET Asleep, Tick(W) \/ DeviceIntr(W)
  PROVE  MlfqInv'
<1> USE MlfqConstants DEF MlfqInv
<1> DEFINE s == Woken(W)
<1>1. /\ s \in [Slots -> MStates]
      /\ \A p \in Slots : s[p] = state[p] \/ (state[p] = "SLEEPING" /\ s[p] = "RUNNABLE")
  BY Zenon DEF Woken, Asleep, MlfqType, MStates
<1> HIDE DEF s
<1>2. CASE Tick(W)
  <2> DEFINE c == Clock(m)
             d == BoostAll(c, s)
  <2>1. /\ c \in [Slots -> MlfqData]
        /\ \A p \in Slots :
             /\ c[p].curr_pri = m[p].curr_pri
             /\ c[p].in_queue = m[p].in_queue
             /\ state[p] # "RUNNING" => c[p].num_ticks = m[p].num_ticks
    BY Zenon, ClockIs DEF MlfqType
  <2> HIDE DEF c
  <2>2. /\ d \in [Slots -> MlfqData]
        /\ \A p \in Slots :
             \/ d[p] = c[p]
             \/ /\ s[p] = "RUNNABLE" /\ c[p].in_queue
                /\ d[p].in_queue /\ d[p].num_ticks = 0
    BY Zenon, <2>1, BoostAllIs
  <2>3. /\ spc' = spc
        /\ \/ cproc # Null /\ AfterTrap(d, s, cproc, TRUE)
           \/ cproc = Null /\ m' = d /\ state' = s /\ cproc' = cproc
    BY Zenon, <1>2 DEF Tick, s, c
  <2> HIDE DEF d
  <2>4. IntrData(d, s)
    <3> SUFFICES ASSUME NEW p \in Slots
                 PROVE  /\ s[p] # "RUNNABLE" => d[p].in_queue = m[p].in_queue
                        /\ s[p] # "RUNNING" /\ d[p].in_queue =>
                             d[p].num_ticks < TimeSlice[d[p].curr_pri]
      BY Zenon, <1>1, <2>2 DEF IntrData
    <3>1. CASE d[p] = c[p]
      BY <1>1, <2>1, <3>1 DEF SliceRespected
    <3>2. CASE d[p] # c[p]
      BY <2>1, <2>2, <3>2, SlicePositive
    <3> QED BY Zenon, <3>1, <3>2
  <2> QED BY Zenon, <2>3, <2>4, AfterTrapInv
<1>3. CASE DeviceIntr(W)
  <2> DEFINE d == BoostAll(m, s)
  <2>1. /\ d \in [Slots -> MlfqData]
        /\ \A p \in Slots :
             \/ d[p] = m[p]
             \/ /\ s[p] = "RUNNABLE" /\ m[p].in_queue
                /\ d[p].in_queue /\ d[p].num_ticks = 0
    BY Zenon, BoostAllIs DEF MlfqType
  <2>2. /\ spc' = spc
        /\ \/ cproc # Null /\ AfterTrap(d, s, cproc, FALSE)
           \/ cproc = Null /\ m' = d /\ state' = s /\ cproc' = cproc
           \/ cproc # Null /\ m' = m /\ state' = s /\ cproc' = cproc
    BY Zenon, <1>3 DEF DeviceIntr, s
  <2> HIDE DEF d
  <2>3. \A p \in Slots : d[p].in_queue => d[p].num_ticks < TimeSlice[d[p].curr_pri]
    BY <2>1, SlicePositive DEF SliceRespected
  <2>4. IntrData(d, s)
    BY Zenon, <1>1, <2>1, <2>3 DEF IntrData
  <2>5. CASE cproc # Null /\ m' = m /\ state' = s /\ cproc' = cproc
    <3>1. MlfqType' /\ RunInv' /\ QueuedInv' /\ SliceRespected'
      BY Zenon, <1>1, <2>2, <2>5 DEF MlfqType, RunInv, QueuedInv, SliceRespected
    <3> QED BY Zenon, <3>1
  <2> QED BY Zenon, <2>2, <2>3, <2>4, <2>5, AfterTrapInv
<1> QED BY Zenon, <1>2, <1>3

\* The invariant is inductive.
LEMMA MlfqInvNext == MlfqInv /\ [Next]_vars => MlfqInv'
<1> SUFFICES ASSUME MlfqInv, [Next]_vars PROVE MlfqInv'
  BY Zenon
<1>1. CASE UNCHANGED vars
  BY Zenon, <1>1 DEF MlfqInv, MlfqType, RunInv, QueuedInv, SliceRespected, vars
<1> QED BY Zenon, <1>1, ScanInv, ChooseInv, RunningInv, IntrInv DEF Next, Clockintr, Other

\* usertrap() and kerneltrap() take the CPU from a process that has used up the time
\* slice of its queue, whatever the queues, the slices and the number of processes.
THEOREM MlfqSlices == Spec => []SliceRespected
<1>1. MlfqInv => SliceRespected BY Zenon DEF MlfqInv
<1> QED BY <1>1, MlfqInvInit, MlfqInvNext, PTL DEF Spec

\* scheduler()'s scan has taken every process that sleeps or is a zombie out of its
\* queue when a process runs, for any number of processes and queues.
THEOREM MlfqQueues == Spec => []BlockedLeaveQueues
<1>1. MlfqInv => BlockedLeaveQueues BY Zenon DEF MlfqInv, QueuedInv, BlockedLeaveQueues
<1> QED BY <1>1, MlfqInvInit, MlfqInvNext, PTL DEF Spec
-----------------------------------------------------------------------------
(* The FCFS scheduler *)

FStates == {"UNUSED", "USED", "SLEEPING", "RUNNABLE", "RUNNING", "ZOMBIE"}

FcfsType ==
  /\ fstate \in [FSlots -> FStates]
  /\ ctime \in [FSlots -> Nat]
  /\ plock \in [FSlots -> FCpus \cup {NoCpu}]
  /\ fticks \in Nat
  /\ at \in [FCpus -> {"scan", "swtch", "run", "fork", "back"}]
  /\ slot \in [FCpus -> 1..FPROC + 1]
  /\ first \in [FCpus -> 0..FPROC]
  /\ fproc \in [FCpus -> 0..FPROC]
  /\ np \in [FCpus -> 0..FPROC]
  /\ waiting \in [FCpus -> SUBSET FSlots]

\* What a CPU refers to is in the state that its place in the code says, and locked
\* by it where the code says so.
HeldBy(c) ==
  /\ first[c] # 0 =>
       at[c] = "scan" /\ plock[first[c]] = c /\ fstate[first[c]] = "RUNNABLE"
  /\ at[c] = "scan" <=> fproc[c] = 0
  /\ at[c] # "scan" => slot[c] = 1
  /\ at[c] \in {"swtch", "run", "fork"} => fstate[fproc[c]] = "RUNNING"
  /\ at[c] = "back" => fstate[fproc[c]] \in {"SLEEPING", "ZOMBIE"}
  /\ at[c] \in {"swtch", "back"} => plock[fproc[c]] = c
  /\ at[c] = "fork" => np[c] # 0 /\ fstate[np[c]] = "USED"

FcfsHeld == \A c \in FCpus : HeldBy(c)

\* No two CPUs run the same process or make the same child.
FcfsApart ==
  \A c, d \in FCpus : c # d =>
    /\ fproc[c] # 0 => fproc[d] # fproc[c]
    /\ at[c] = "fork" /\ at[d] = "fork" => np[c] # np[d]

\* Of the processes that have waited since the scan began, those that the scan has
\* passed are not older than first.
OldestOf(c) ==
  \A q \in waiting[c] :
    /\ fstate[q] = "RUNNABLE"
    /\ at[c] = "scan" /\ q < slot[c] => first[c] # 0 /\ ctime[first[c]] <= ctime[q]

FcfsOldest == \A c \in FCpus : OldestOf(c)

FcfsInv == FcfsType /\ FcfsHeld /\ FcfsApart /\ FcfsOldest

\* What a CPU names is no process or a slot of the table.
LEMMA NamedSlots ==
  ASSUME FcfsType, NEW d \in FCpus
  PROVE  /\ fproc[d] # 0 => fproc[d] \in FSlots
         /\ first[d] # 0 => first[d] \in FSlots
         /\ np[d] # 0 => np[d] \in FSlots
<1> fproc[d] \in 0..FPROC /\ first[d] \in 0..FPROC /\ np[d] \in 0..FPROC
  BY Zenon DEF FcfsType
<1> QED BY FcfsConstants DEF FSlots

\* The initial state satisfies the invariant.
LEMMA FcfsInvInit == FcfsInit => FcfsInv
<1> SUFFICES ASSUME FcfsInit PROVE FcfsInv
  BY Zenon
<1> USE FcfsConstants DEF FcfsInit, FSlots
<1>1. FcfsType
  BY DEF FcfsType, FStates
<1>2. FcfsHeld
  BY Zenon DEF FcfsHeld, HeldBy
<1>3. FcfsApart
  BY Zenon DEF FcfsApart
<1>4. FcfsOldest
  BY DEF FcfsOldest, OldestOf
<1> QED BY Zenon, <1>1, <1>2, <1>3, <1>4 DEF FcfsInv

\* The history keeps its type, and only has RUNNABLE processes.
LEMMA WaitedType ==
  ASSUME FcfsType, Waited
  PROVE  /\ waiting' \in [FCpus -> SUBSET FSlots]
         /\ \A c \in FCpus : \A q \in waiting'[c] :
              /\ fstate'[q] = "RUNNABLE"
              /\ (at'[c] = "scan" /\ slot'[c] = 1) \/ q \in waiting[c]
BY Zenon DEF FcfsType, Waited

\* A step that begins scans anew or leaves them as they are, and changes no ctime of
\* a RUNNABLE process, keeps the candidates oldest.
LEMMA OldestKept ==
  ASSUME FcfsInv, Waited, slot' \in [FCpus -> 1..FPROC + 1],
         \A d \in FCpus : at'[d] = "scan" /\ slot'[d] # 1 =>
           at[d] = "scan" /\ slot'[d] = slot[d] /\ first'[d] = first[d],
         \A q \in FSlots : fstate[q] = "RUNNABLE" => ctime'[q] = ctime[q]
  PROVE  FcfsOldest'
<1> SUFFICES ASSUME NEW d \in FCpus, NEW q \in waiting'[d]
             PROVE  /\ fstate'[q] = "RUNNABLE"
                    /\ at'[d] = "scan" /\ q < slot'[d] =>
                         first'[d] # 0 /\ ctime'[first'[d]] <= ctime'[q]
  BY Zenon DEF FcfsOldest, OldestOf
<1> USE DEF FcfsInv
<1>1. /\ fstate'[q] = "RUNNABLE" /\ q \in FSlots
      /\ (at'[d] = "scan" /\ slot'[d] = 1) \/ q \in waiting[d]
  BY Zenon, WaitedType
<1>2. SUFFICES ASSUME at'[d] = "scan", q < slot'[d]
               PROVE  first'[d] # 0 /\ ctime'[first'[d]] <= ctime'[q]
  BY Zenon, <1>1
<1>3. slot'[d] # 1 /\ q \in waiting[d]
  BY <1>1, <1>2 DEF FSlots
<1>4. at[d] = "scan" /\ slot'[d] = slot[d] /\ first'[d] = first[d]
  BY Zenon, <1>2, <1>3
<1>5. first[d] # 0 /\ ctime[first[d]] <= ctime[q] /\ fstate[q] = "RUNNABLE"
  BY Zenon, <1>2, <1>3, <1>4 DEF FcfsOldest, OldestOf
<1>6. first[d] \in FSlots /\ fstate[first[d]] = "RUNNABLE"
  BY <1>5 DEF FcfsType, FcfsHeld, HeldBy, FSlots
<1> QED BY Zenon, <1>1, <1>4, <1>5, <1>6

\* One iteration of the scan preserves the invariant.
LEMMA FcfsScanInv ==
  ASSUME FcfsInv, NEW c \in FCpus, FcfsScan(c), Waited
  PROVE  FcfsInv'
<1> USE FcfsConstants DEF FcfsInv
<1> DEFINE p == slot[c]
<1>1. p \in FSlots /\ p + 1 \in 1..FPROC + 1 /\ p \in 0..FPROC
  BY DEF FcfsScan, FcfsType, FSlots
<1>2. FcfsType'
  <2>1. plock' \in [FSlots -> FCpus \cup {NoCpu}] /\ first' \in [FCpus -> 0..FPROC]
    BY <1>1 DEF FcfsType, FcfsScan, KeepLock
  <2> QED BY Zenon, <1>1, <2>1, WaitedType DEF FcfsType, FcfsScan
<1>3. FcfsHeld'
  <2> SUFFICES ASSUME NEW d \in FCpus PROVE HeldBy(d)'
    BY Zenon DEF FcfsHeld
  <2>1. HeldBy(c) /\ HeldBy(d)
    BY Zenon DEF FcfsHeld
  <2>2. CASE Replaces(p, first[c])
    <3>1. /\ plock[p] = NoCpu /\ fstate[p] = "RUNNABLE" /\ at[c] = "scan"
          /\ plock' = KeepLock(c, p) /\ first' = [first EXCEPT ![c] = p]
          /\ UNCHANGED <<fstate, at, fproc, np>> /\ slot' = [slot EXCEPT ![c] = p + 1]
      BY Zenon, <2>2 DEF FcfsScan, Replaces, Unlocked
    <3>2. CASE d = c
      BY Zenon, <1>1, <2>1, <3>1, <3>2 DEF FcfsType, HeldBy, KeepLock
    <3>3. CASE d # c
      <4>1. \A q \in FSlots : plock[q] = d => plock'[q] = d
        BY <2>1, <3>1, <3>3 DEF HeldBy, KeepLock, FSlots
      <4>2. /\ first[d] # 0 => first[d] \in FSlots
            /\ fproc[d] # 0 => fproc[d] \in FSlots
        BY DEF FcfsType, FSlots
      <4> QED BY Zenon, <2>1, <3>1, <3>3, <4>1, <4>2 DEF FcfsType, HeldBy
    <3> QED BY Zenon, <3>2, <3>3
  <2>3. CASE ~Replaces(p, first[c])
    BY Zenon, <1>1, <2>1, <2>3 DEF FcfsType, HeldBy, FcfsScan
  <2> QED BY Zenon, <2>2, <2>3
<1>4. FcfsApart'
  BY Zenon DEF FcfsApart, FcfsScan
<1>5. FcfsOldest'
  <2> SUFFICES ASSUME NEW d \in FCpus, NEW q \in waiting'[d]
               PROVE  /\ fstate'[q] = "RUNNABLE"
                      /\ at'[d] = "scan" /\ q < slot'[d] =>
                           first'[d] # 0 /\ ctime'[first'[d]] <= ctime'[q]
    BY Zenon DEF FcfsOldest, OldestOf
  <2>1. fstate'[q] = "RUNNABLE" /\ q \in FSlots /\ (slot'[d] = 1 \/ q \in waiting[d])
    BY Zenon, WaitedType
  <2>2. CASE slot'[d] = 1
    BY <2>1, <2>2 DEF FSlots
  <2>3. CASE slot'[d] # 1 /\ d # c
    BY Zenon, <1>1, <2>1, <2>3 DEF FcfsType, FcfsOldest, OldestOf, FcfsScan
  <2>4. CASE slot'[d] # 1 /\ d = c
    <3>1. q \in waiting[c] /\ OldestOf(c)
      BY Zenon, <2>1, <2>4 DEF FcfsOldest
    <3>2. ctime[q] \in Nat /\ ctime[p] \in Nat /\ (first[c] # 0 => ctime[first[c]] \in Nat)
      BY Zenon, <1>1, <2>1, NamedSlots DEF FcfsType
    <3>3. q < slot'[c] => q < p \/ q = p
      BY <1>1, <2>1 DEF FcfsType, FcfsScan, FSlots
    <3>4. fstate[q] = "RUNNABLE" /\ at[c] = "scan" /\ ctime' = ctime
      BY Zenon, <2>1 DEF FcfsScan
    <3>5. CASE Replaces(p, first[c])
      <4>1. first'[c] = p /\ (first[c] = 0 \/ ctime[p] < ctime[first[c]])
        BY Zenon, <3>5 DEF FcfsScan, FcfsType, Replaces
      <4> QED BY <1>1, <2>1, <2>4, <3>1, <3>2, <3>3, <3>4, <4>1 DEF OldestOf, FSlots
    <3>6. CASE ~Replaces(p, first[c])
      <4>1. first'[c] = first[c]
        BY Zenon, <3>6 DEF FcfsScan
      <4>2. q = p => first[c] # 0 /\ ctime[first[c]] <= ctime[p]
        BY <3>2, <3>4, <3>6 DEF Replaces
      <4> QED BY Zenon, <2>4, <3>1, <3>3, <3>4, <4>1, <4>2, <2>1 DEF OldestOf
    <3> QED BY Zenon, <3>5, <3>6
  <2> QED BY Zenon, <2>2, <2>3, <2>4
<1> QED BY Zenon, <1>2, <1>3, <1>4, <1>5

\* The end of a scan without a candidate preserves it.
LEMMA FcfsIdleInv ==
  ASSUME FcfsInv, NEW c \in FCpus, FcfsIdle(c), Waited
  PROVE  FcfsInv'
<1> USE FcfsConstants DEF FcfsInv, FcfsIdle, NewScan
<1>1. FcfsType'
  BY WaitedType DEF FcfsType
<1>2. FcfsHeld'
  BY DEF FcfsHeld, HeldBy, FcfsType
<1>3. FcfsApart'
  BY Zenon DEF FcfsApart
<1>4. FcfsOldest'
  BY Zenon, <1>1, OldestKept DEF FcfsType
<1> QED BY Zenon, <1>1, <1>2, <1>3, <1>4

\* So does the switch to first.
LEMMA FcfsRunInv ==
  ASSUME FcfsInv, NEW c \in FCpus, FcfsRun(c), Waited
  PROVE  FcfsInv'
<1> USE FcfsConstants DEF FcfsInv, FcfsRun, NewScan, GoTo, SetState
<1>0. first[c] \in FSlots
  BY DEF FcfsType, FSlots
<1>1. FcfsType'
  BY <1>0, WaitedType DEF FcfsType, FStates
<1>2. FcfsHeld'
  <2> SUFFICES ASSUME NEW d \in FCpus PROVE HeldBy(d)'
    BY Zenon DEF FcfsHeld
  <2>1. HeldBy(c) /\ HeldBy(d)
    BY Zenon DEF FcfsHeld
  <2>2. CASE d = c
    BY Zenon, <1>0, <2>1, <2>2 DEF HeldBy, FcfsType, FSlots
  <2>3. CASE d # c
    <3>1. at'[d] = at[d] /\ slot'[d] = slot[d] /\ first'[d] = first[d] /\ fproc'[d] = fproc[d]
      BY Zenon, <2>3 DEF FcfsType
    <3>2. fstate' = [fstate EXCEPT ![first[c]] = "RUNNING"] /\ UNCHANGED <<plock, np>>
      BY Zenon
    <3> QED BY <1>0, <2>1, <2>3, <3>1, <3>2, NamedSlots DEF HeldBy, FcfsType
  <2> QED BY Zenon, <2>2, <2>3
<1>3. FcfsApart'
  BY <1>0 DEF FcfsApart, FcfsHeld, HeldBy, FcfsType
<1>4. FcfsOldest'
  BY Zenon, <1>1, OldestKept DEF FcfsType
<1> QED BY Zenon, <1>1, <1>2, <1>3, <1>4

\* So do the two ends of a switch, which release the lock of the process.
LEMMA FcfsReleaseInv ==
  ASSUME FcfsInv, NEW c \in FCpus, FcfsResume(c) \/ FcfsBack(c), Waited
  PROVE  FcfsInv'
<1> USE FcfsConstants DEF FcfsInv, FcfsResume, FcfsBack, GoTo
<1>0. fproc[c] \in FSlots /\ plock[fproc[c]] = c
  BY DEF FcfsType, FcfsHeld, HeldBy, FSlots
<1>1. FcfsType'
  BY <1>0, WaitedType DEF FcfsType
<1>2. FcfsHeld'
  <2> SUFFICES ASSUME NEW d \in FCpus PROVE HeldBy(d)'
    BY Zenon DEF FcfsHeld
  <2>1. HeldBy(c) /\ HeldBy(d)
    BY Zenon DEF FcfsHeld
  <2>2. CASE d = c
    BY <1>0, <2>1, <2>2 DEF HeldBy, FcfsType, FSlots
  <2>3. CASE d # c
    <3>1. /\ plock' = [plock EXCEPT ![fproc[c]] = NoCpu]
          /\ UNCHANGED <<slot, first, np, fstate>>
      BY Zenon
    <3>2. at'[d] = at[d] /\ fproc'[d] = fproc[d]
      BY Zenon, <2>3 DEF FcfsType
    <3> QED BY <1>0, <2>1, <2>3, <3>1, <3>2, NamedSlots DEF HeldBy, FcfsType
  <2> QED BY Zenon, <2>2, <2>3
<1>3. FcfsApart'
  BY <1>0 DEF FcfsApart, FcfsType
<1>4. FcfsOldest'
  BY <1>1, OldestKept DEF FcfsType, FcfsHeld, HeldBy
<1> QED BY Zenon, <1>1, <1>2, <1>3, <1>4

\* So do sleep() and exit().
LEMMA FcfsLeaveInv ==
  ASSUME FcfsInv, NEW c \in FCpus, NEW s \in {"SLEEPING", "ZOMBIE"}, FcfsLeave(c, s), Waited
  PROVE  FcfsInv'
<1> USE FcfsConstants DEF FcfsInv, FcfsLeave, GoTo, SetState, Unlocked
<1>0. fproc[c] \in FSlots /\ fstate[fproc[c]] = "RUNNING" /\ plock[fproc[c]] = NoCpu
  BY DEF FcfsType, FcfsHeld, HeldBy, FSlots
<1>1. FcfsType'
  BY Zenon, <1>0, WaitedType DEF FcfsType, FStates
<1>2. FcfsHeld'
  <2> SUFFICES ASSUME NEW d \in FCpus PROVE HeldBy(d)'
    BY Zenon DEF FcfsHeld
  <2>1. HeldBy(c) /\ HeldBy(d) /\ (d # c => fproc[d] # fproc[c])
    BY <1>0 DEF FcfsHeld, FcfsApart, FSlots
  <2>2. CASE d = c
    BY Zenon, <1>0, <2>1, <2>2 DEF HeldBy, FcfsType, FSlots
  <2>3. CASE d # c
    <3>1. at'[d] = at[d]
      BY Zenon, <2>3 DEF FcfsType
    <3> QED BY Zenon, <1>0, <2>1, <2>3, <3>1, NamedSlots DEF HeldBy, FcfsType
  <2> QED BY Zenon, <2>2, <2>3
<1>3. FcfsApart'
  BY Zenon, <1>0 DEF FcfsApart, FcfsType
<1>4. FcfsOldest'
  BY <1>1, OldestKept DEF FcfsType, FcfsHeld, HeldBy
<1> QED BY Zenon, <1>1, <1>2, <1>3, <1>4

\* So do the steps of the running process and of interrupts that change the state of
\* another one: fork() before and after it has its slot, wait(), wakeup().
LEMMA FcfsOtherInv ==
  ASSUME FcfsInv, NEW c \in FCpus, NEW q \in FSlots,
         \/ FcfsAlloc(c, q) \/ FcfsReap(c, q) \/ FcfsWakeup(c, q)
         \/ q = np[c] /\ FcfsFork(c),
         Waited
  PROVE  FcfsInv'
<1> USE FcfsConstants DEF FcfsInv, FcfsAlloc, FcfsReap, FcfsWakeup, FcfsFork, GoTo, SetState,
                          Unlocked
<1>0. plock[q] = NoCpu /\ q \in 0..FPROC /\ q # 0
  BY DEF FSlots
<1>1. FcfsType'
  <2>1. fstate' \in [FSlots -> FStates] /\ ctime' \in [FSlots -> Nat]
    BY DEF FcfsType, FStates
  <2>2. np' \in [FCpus -> 0..FPROC]
    BY <1>0 DEF FcfsType
  <2>3. at' \in [FCpus -> {"scan", "swtch", "run", "fork", "back"}]
    BY DEF FcfsType
  <2> QED BY <2>1, <2>2, <2>3, WaitedType DEF FcfsType
<1>2. FcfsHeld'
  <2> SUFFICES ASSUME NEW d \in FCpus PROVE HeldBy(d)'
    BY Zenon DEF FcfsHeld
  <2>1. HeldBy(c) /\ HeldBy(d)
    BY Zenon DEF FcfsHeld
  <2>2. CASE FcfsAlloc(c, q)
    BY <1>0, <2>1, <2>2 DEF HeldBy, FcfsType
  <2>3. CASE FcfsReap(c, q) \/ FcfsWakeup(c, q)
    <3>1. /\ fstate' = [fstate EXCEPT ![q] = fstate'[q]]
          /\ fstate[q] \in {"ZOMBIE", "SLEEPING"}
          /\ UNCHANGED <<plock, at, slot, first, fproc, np>>
      BY Zenon, <2>3 DEF FcfsType
    <3> QED BY <1>0, <2>1, <3>1, NamedSlots DEF HeldBy, FcfsType
  <2>4. CASE q = np[c] /\ FcfsFork(c)
    BY <1>0, <2>1, <2>4 DEF HeldBy, FcfsType, FcfsApart
  <2> QED BY Zenon, <2>2, <2>3, <2>4
<1>3. FcfsApart'
  BY DEF FcfsApart, FcfsType, FcfsHeld, HeldBy
<1>4. FcfsOldest'
  BY <1>1, OldestKept DEF FcfsType
<1> QED BY Zenon, <1>1, <1>2, <1>3, <1>4

\* So does a tick.
LEMMA FcfsTickInv ==
  ASSUME FcfsInv, NEW c \in FCpus, FcfsTick(c), Waited
  PROVE  FcfsInv'
<1> USE FcfsConstants DEF FcfsInv, FcfsTick
<1>1. FcfsType'
  BY WaitedType DEF FcfsType
<1>2. FcfsHeld' /\ FcfsApart'
  BY DEF FcfsHeld, HeldBy, FcfsApart
<1>3. FcfsOldest'
  BY Zenon, OldestKept DEF FcfsType
<1> QED BY Zenon, <1>1, <1>2, <1>3

\* The invariant is inductive.
LEMMA FcfsInvNext == FcfsInv /\ [FcfsNext]_fcfsVars => FcfsInv'
<1> SUFFICES ASSUME FcfsInv, [FcfsNext]_fcfsVars PROVE FcfsInv'
  BY Zenon
<1>1. ASSUME NEW c \in FCpus, FcfsStep(c), Waited PROVE FcfsInv'
  <2>1. CASE FcfsFork(c)
    <3>1. np[c] \in FSlots
      BY <2>1 DEF FcfsFork, FcfsInv, FcfsType, FcfsHeld, HeldBy, FSlots
    <3> QED BY Zenon, <1>1, <2>1, <3>1, FcfsOtherInv
  <2> QED
    BY Zenon, <1>1, <2>1, FcfsScanInv, FcfsIdleInv, FcfsRunInv, FcfsReleaseInv, FcfsTickInv,
       FcfsLeaveInv, FcfsOtherInv DEF FcfsStep
<1>2. CASE UNCHANGED fcfsVars
  BY <1>2 DEF FcfsInv, FcfsType, FcfsHeld, HeldBy, FcfsApart, FcfsOldest, OldestOf, fcfsVars
<1> QED BY Zenon, <1>1, <1>2 DEF FcfsNext

\* The FCFS scheduler switches to the process that has waited longest since its
\* creation, and no two CPUs run the same one, for any number of CPUs and slots.
THEOREM FcfsOldestRuns == FcfsSpec => []OldestRuns
<1>1. FcfsInv => OldestRuns
  <2> SUFFICES ASSUME FcfsInv, NEW c \in FCpus
               PROVE  /\ first[c] # 0 => fstate[first[c]] = "RUNNABLE"
                      /\ at[c] \in {"swtch", "run", "fork"} => fstate[fproc[c]] = "RUNNING"
                      /\ fproc[c] # 0 => \A d \in FCpus \ {c} : fproc[d] # fproc[c]
                      /\ at[c] = "scan" /\ slot[c] > FPROC =>
                           \A q \in waiting[c] : first[c] # 0 /\ ctime[first[c]] <= ctime[q]
    BY Zenon DEF OldestRuns
  <2>1. HeldBy(c) /\ OldestOf(c)
    BY Zenon DEF FcfsInv, FcfsHeld, FcfsOldest
  <2>2. slot[c] > FPROC => \A q \in waiting[c] : q < slot[c]
    BY FcfsConstants DEF FcfsInv, FcfsType, FSlots
  <2> QED BY Zenon, <2>1, <2>2 DEF FcfsInv, HeldBy, OldestOf, FcfsApart
<1> QED BY <1>1, FcfsInvInit, FcfsInvNext, PTL DEF FcfsSpec
=============================================================================
