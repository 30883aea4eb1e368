------------------------------- MODULE Virtio -------------------------------
(***************************************************************************)
(* The disk driver kernel/virtio_disk.c: processes inside                  *)
(* virtio_disk_rw(), the descriptors and rings they share with the device, *)
(* and the interrupt handler.  What holds vdisk_lock is one action, except *)
(* that the device works while the handler goes through the used ring.     *)
(* The device finishes requests in any order; a transfer is one step.      *)
(***************************************************************************)
EXTENDS Naturals, Sequences, FiniteSets

CONSTANTS Procs, Bufs, Blocks, Vals,
          NUM,   \* number of descriptors
          None

ASSUME VirtioConstants == NUM \in Nat /\ NUM >= 3 /\ None \notin Bufs \cup Procs

Desc == 0..NUM - 1

VARIABLES
  free,   \* the descriptors with disk.free[i] set
  next,   \* desc[i].next, None without VRING_DESC_F_NEXT
  ops,    \* the command a chain that starts at i describes
  info,   \* info[i].b
  avail,  \* heads of chains given to the device
  used,   \* used ring entries the driver has not looked at
  irq,    \* the device asserts its interrupt
  intr,   \* virtio_disk_intr() is running, with vdisk_lock
  bdisk,  \* b->disk
  data,   \* b->data
  platter, \* the blocks on disk
  rpc,    \* where a process is in virtio_disk_rw()
  req,    \* the arguments of its call
  idx,    \* its idx[0]
  dpanic  \* a panic() of the driver

devVars == <<free, next, ops, info, avail, used, irq, intr, bdisk>>
callVars == <<rpc, req, idx, dpanic>>
diskVars == <<devVars, data, platter, callVars>>

DiskInit ==
  /\ free = Desc
  /\ next = [i \in Desc |-> None]
  /\ ops = [i \in Desc |-> None]
  /\ info = [i \in Desc |-> None]
  /\ avail = {} /\ used = <<>>
  /\ irq = FALSE /\ intr = FALSE
  /\ bdisk = [b \in Bufs |-> FALSE]
  /\ platter \in [Blocks -> Vals]
  /\ \E v \in Vals : data = [b \in Bufs |-> v]
  /\ rpc = [p \in Procs |-> "none"]
  /\ req = [p \in Procs |-> None]
  /\ idx = [p \in Procs |-> None]
  /\ dpanic = FALSE
-----------------------------------------------------------------------------
(* virtio_disk_rw() *)

\* A process calls virtio_disk_rw(b, w) for block k.
CallRw(p, b, k, w) ==
  /\ rpc' = [rpc EXCEPT ![p] = "alloc"]
  /\ req' = [req EXCEPT ![p] = [buf |-> b, blk |-> k, write |-> w]]

\* wakeup(&disk.free[0])
WakeAlloc == [p \in Procs |-> IF rpc[p] = "sleep_alloc" THEN "alloc" ELSE rpc[p]]

\* alloc3_desc() finds three descriptors, the lowest ones; the command is queued,
\* and the process sleeps on its buffer: the handler cannot run before.
Submit(p) ==
  /\ rpc[p] = "alloc" /\ ~intr
  /\ \E i, j, k \in free :
       /\ i < j /\ j < k /\ \A l \in free \ {i, j, k} : k < l
       /\ free' = free \ {i, j, k}
       /\ next' = [next EXCEPT ![i] = j, ![j] = k, ![k] = None]
       /\ ops' = [ops EXCEPT ![i] = req[p]]
       /\ info' = [info EXCEPT ![i] = req[p].buf]
       /\ avail' = avail \cup {i}
       /\ idx' = [idx EXCEPT ![p] = i]
  /\ bdisk' = [bdisk EXCEPT ![req[p].buf] = TRUE]
  /\ rpc' = [rpc EXCEPT ![p] = "sleep_disk"]
  /\ UNCHANGED <<used, irq, intr, data, platter, req, dpanic>>

\* alloc3_desc() fails: freeing the descriptors it got wakes the other processes
\* that wait for some, then this one sleeps.
AllocFails(p) ==
  /\ rpc[p] = "alloc" /\ ~intr
  /\ Cardinality(free) < 3
  /\ rpc' = [IF free = {} THEN rpc ELSE WakeAlloc EXCEPT ![p] = "sleep_alloc"]
  /\ UNCHANGED <<devVars, data, platter, req, idx, dpanic>>

\* Mutant: free_chain() stops at the second descriptor.
ChainOfTwo(i) == {i, next[i]}

\* The descriptors free_chain(i) goes through.
Chain(i) == {i, next[i], next[next[i]]}

\* The condition of the loop around sleep(b, &disk.vdisk_lock).
Finished(p) == ~bdisk[req[p].buf]

\* A woken process looks at b->disk: the request is finished, or it sleeps again.
Wake(p) ==
  /\ rpc[p] = "disk" /\ ~intr
  /\ IF Finished(p)
       THEN /\ info' = [info EXCEPT ![idx[p]] = None]
            /\ free' = free \cup Chain(idx[p])
            /\ next' = [i \in Desc |-> IF i \in Chain(idx[p]) THEN None ELSE next[i]]
            /\ ops' = [ops EXCEPT ![idx[p]] = None]
            /\ dpanic' = (dpanic \/ free \cap Chain(idx[p]) # {})
            /\ rpc' = [WakeAlloc EXCEPT ![p] = "none"]
            /\ idx' = [idx EXCEPT ![p] = None]
            /\ req' = [req EXCEPT ![p] = None]
       ELSE /\ rpc' = [rpc EXCEPT ![p] = "sleep_disk"]
            /\ UNCHANGED <<info, free, next, ops, dpanic, idx, req>>
  /\ UNCHANGED <<avail, used, irq, intr, bdisk, data, platter>>

\* kill() makes the process runnable wherever it sleeps.
KillWakes(p) ==
  /\ rpc[p] \in {"sleep_alloc", "sleep_disk"}
  /\ rpc' = [rpc EXCEPT ![p] = IF @ = "sleep_disk" THEN "disk" ELSE "alloc"]
  /\ UNCHANGED <<devVars, data, platter, req, idx, dpanic>>
-----------------------------------------------------------------------------
(* The device and virtio_disk_intr() *)

\* The device carries out a command of the avail ring.
DeviceFinish(i) ==
  /\ i \in avail
  /\ avail' = avail \ {i}
  /\ used' = Append(used, i)
  /\ irq' = TRUE
  /\ IF ops[i].write
       THEN platter' = [platter EXCEPT ![ops[i].blk] = data[ops[i].buf]] /\ UNCHANGED data
       ELSE data' = [data EXCEPT ![ops[i].buf] = platter[ops[i].blk]] /\ UNCHANGED platter
  /\ UNCHANGED <<free, next, ops, info, intr, bdisk, callVars>>

\* The handler acknowledges the interrupt.
IntrStart ==
  /\ irq /\ ~intr
  /\ irq' = FALSE /\ intr' = TRUE
  /\ UNCHANGED <<free, next, ops, info, avail, used, bdisk, data, platter, callVars>>

\* wakeup(b)
WakeDisk(b) ==
  [p \in Procs |-> IF rpc[p] = "sleep_disk" /\ req[p].buf = b THEN "disk" ELSE rpc[p]]

\* One entry of the used ring.
IntrEntry ==
  /\ intr /\ used # <<>>
  /\ LET b == info[Head(used)] IN
     IF b = None
       THEN dpanic' = TRUE /\ UNCHANGED <<bdisk, rpc>>
       ELSE /\ bdisk' = [bdisk EXCEPT ![b] = FALSE]
            /\ rpc' = WakeDisk(b)
            /\ UNCHANGED dpanic
  /\ used' = Tail(used)
  /\ UNCHANGED <<free, next, ops, info, avail, irq, intr, data, platter, req, idx>>

\* Mutant: the handler looks at one entry only.
IntrEndEarly ==
  /\ intr
  /\ intr' = FALSE
  /\ UNCHANGED <<free, next, ops, info, avail, used, irq, bdisk, data, platter, callVars>>

IntrEnd ==
  /\ intr /\ used = <<>>
  /\ intr' = FALSE
  /\ UNCHANGED <<free, next, ops, info, avail, used, irq, bdisk, data, platter, callVars>>

DiskNext ==
  \/ \E p \in Procs : Submit(p) \/ AllocFails(p) \/ Wake(p) \/ KillWakes(p)
  \/ \E i \in Desc : DeviceFinish(i)
  \/ IntrStart \/ IntrEntry \/ IntrEnd
-----------------------------------------------------------------------------
(* Properties *)

InFlight == {p \in Procs : rpc[p] \in {"sleep_disk", "disk"}}

\* alloc3_desc()/free_chain(): a descriptor is free or belongs to exactly one
\* request; failed allocations and completions in any order leak none.  So none is
\* freed twice, and every completion finds its buffer (the panics of free_desc() and
\* virtio_disk_intr()).
DescriptorsAccounted ==
  /\ ~dpanic
  /\ \A p, q \in InFlight : p # q => Chain(idx[p]) \cap Chain(idx[q]) = {}
  /\ free = Desc \ UNION {Chain(idx[p]) : p \in InFlight}
=============================================================================
