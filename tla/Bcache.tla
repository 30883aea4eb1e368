------------------------------- MODULE Bcache -------------------------------
(***************************************************************************)
(* The buffer cache kernel/bio.c with the sleep-locks of its buffers       *)
(* (kernel/sleeplock.c) on top of the disk driver.  Each process uses one  *)
(* buffer at a time: bread(), changes of b->data, bwrite(), bpin() and     *)
(* bunpin() as the log does them, brelse().  What holds bcache.lock or the *)
(* spinlock of a sleep-lock is one action.                                 *)
(***************************************************************************)
EXTENDS Virtio

CONSTANT MAXPIN   \* blocks the log pins at a time

ASSUME BcacheConstants ==
  MAXPIN \in Nat /\ IsFiniteSet(Procs) /\ IsFiniteSet(Bufs) /\ None \notin Blocks

VARIABLES
  blockno, valid, refcnt,  \* fields of struct buf; blockno is None before the first use
  locked,   \* b->lock: the process that has it, or None
  lru,      \* the list from bcache.head.next on
  bpc,      \* where a process is in its use of a buffer
  want,     \* the block it asked for
  buf,      \* the buffer bget() found for it
  pinned,   \* history: blocks with a bpin() that has no bunpin() yet
  latest,   \* history: the contents last put into each block
  bpanic    \* a panic() of the buffer cache

bufVars == <<blockno, valid, refcnt, locked, lru>>
useVars == <<bpc, want, buf, pinned, latest, bpanic>>
vars == <<diskVars, bufVars, useVars>>

Init ==
  /\ DiskInit
  /\ blockno = [b \in Bufs |-> None]
  /\ valid = [b \in Bufs |-> FALSE]
  /\ refcnt = [b \in Bufs |-> 0]
  /\ locked = [b \in Bufs |-> None]
  /\ lru \in {s \in [1..Cardinality(Bufs) -> Bufs] : {s[i] : i \in DOMAIN s} = Bufs}
  /\ bpc = [p \in Procs |-> "idle"]
  /\ want = [p \in Procs |-> None]
  /\ buf = [p \in Procs |-> None]
  /\ pinned = {}
  /\ latest = platter
  /\ bpanic = FALSE

Goto(p, l) == bpc' = [bpc EXCEPT ![p] = l]
-----------------------------------------------------------------------------
(* bget() and bread() *)

\* b->refcnt++
PlusOne(b) == [refcnt EXCEPT ![b] = @ + 1]

\* b->refcnt--
MinusOne(b) == [refcnt EXCEPT ![b] = @ - 1]

\* Mutant: the first free buffer in the list, used or not.
RecycledAny(b) == b = lru[Len(lru)]

\* The least recently used buffer that nobody refers to.
Recycled(b) ==
  \E i \in DOMAIN lru :
    /\ b = lru[i] /\ refcnt[b] = 0
    /\ \A j \in i + 1..Len(lru) : refcnt[lru[j]] # 0

\* The block is cached.
BgetHit(p, k) ==
  /\ bpc[p] = "idle"
  /\ \E b \in Bufs :
       /\ blockno[b] = k
       /\ refcnt' = PlusOne(b)
       /\ buf' = [buf EXCEPT ![p] = b]
  /\ want' = [want EXCEPT ![p] = k]
  /\ Goto(p, "lock")
  /\ UNCHANGED <<diskVars, blockno, valid, locked, lru, pinned, latest, bpanic>>

\* It is not, and a buffer is recycled; without one bget() panics.
BgetMiss(p, k) ==
  /\ bpc[p] = "idle"
  /\ \A b \in Bufs : blockno[b] # k
  /\ \/ \E b \in Bufs :
          /\ Recycled(b)
          /\ blockno' = [blockno EXCEPT ![b] = k]
          /\ valid' = [valid EXCEPT ![b] = FALSE]
          /\ refcnt' = [refcnt EXCEPT ![b] = 1]
          /\ buf' = [buf EXCEPT ![p] = b]
          /\ Goto(p, "lock")
          /\ UNCHANGED bpanic
     \/ /\ \A b \in Bufs : ~Recycled(b)
        /\ bpanic' = TRUE
        /\ UNCHANGED <<blockno, valid, refcnt, buf, bpc>>
  /\ want' = [want EXCEPT ![p] = k]
  /\ UNCHANGED <<diskVars, locked, lru, pinned, latest>>

\* Mutant: acquiresleep() does not wait for the holder.
LockFreeAlways(b) == TRUE

\* The condition acquiresleep() waits for.
LockFree(b) == locked[b] = None

\* acquiresleep(&b->lock): one test of lk->locked.
AcquireSleep(p) ==
  /\ bpc[p] = "lock"
  /\ IF LockFree(buf[p])
       THEN locked' = [locked EXCEPT ![buf[p]] = p] /\ Goto(p, "check")
       ELSE Goto(p, "sleep_lock") /\ UNCHANGED locked
  /\ UNCHANGED <<diskVars, blockno, valid, refcnt, lru, want, buf, pinned, latest, bpanic>>

\* bread() looks at b->valid and reads the block if it has to.
CheckValid(p) ==
  /\ bpc[p] = "check"
  /\ IF valid[buf[p]]
       THEN Goto(p, "have") /\ UNCHANGED <<rpc, req>>
       ELSE CallRw(p, buf[p], want[p], FALSE) /\ Goto(p, "reading")
  /\ UNCHANGED <<devVars, data, platter, idx, dpanic, bufVars, want, buf, pinned,
                 latest, bpanic>>

\* virtio_disk_rw() has returned to bread() or bwrite().
RwDone(p) ==
  /\ bpc[p] \in {"reading", "writing"} /\ rpc[p] = "none"
  /\ valid' = [valid EXCEPT ![buf[p]] = TRUE]
  /\ Goto(p, "have")
  /\ UNCHANGED <<diskVars, blockno, refcnt, locked, lru, want, buf, pinned, latest, bpanic>>
-----------------------------------------------------------------------------
(* What the holder of a buffer does *)

Modify(p, v) ==
  /\ bpc[p] = "have"
  /\ data' = [data EXCEPT ![buf[p]] = v]
  /\ latest' = [latest EXCEPT ![want[p]] = v]
  /\ UNCHANGED <<devVars, platter, callVars, bufVars, bpc, want, buf, pinned, bpanic>>

\* bwrite()
Bwrite(p) ==
  /\ bpc[p] = "have"
  /\ IF locked[buf[p]] # p
       THEN bpanic' = TRUE /\ UNCHANGED <<rpc, req, bpc>>
       ELSE CallRw(p, buf[p], want[p], TRUE) /\ Goto(p, "writing") /\ UNCHANGED bpanic
  /\ UNCHANGED <<devVars, data, platter, idx, dpanic, bufVars, want, buf, pinned, latest>>

\* bpin() by log_write(), for a block it has not pinned yet.
Bpin(p) ==
  /\ bpc[p] = "have" /\ want[p] \notin pinned /\ Cardinality(pinned) < MAXPIN
  /\ refcnt' = PlusOne(buf[p])
  /\ pinned' = pinned \cup {want[p]}
  /\ UNCHANGED <<diskVars, blockno, valid, locked, lru, bpc, want, buf, latest, bpanic>>

\* bunpin() by install_trans(), after it has written the block.
Bunpin(p) ==
  /\ bpc[p] = "have" /\ want[p] \in pinned /\ platter[want[p]] = data[buf[p]]
  /\ refcnt' = MinusOne(buf[p])
  /\ pinned' = pinned \ {want[p]}
  /\ UNCHANGED <<diskVars, blockno, valid, locked, lru, bpc, want, buf, latest, bpanic>>

\* wakeup(lk) in releasesleep().
WakeLock(b) ==
  [p \in Procs |-> IF bpc[p] = "sleep_lock" /\ buf[p] = b THEN "lock" ELSE bpc[p]]

\* brelse() up to releasesleep().  Its caller has written or pinned what it changed.
Brelse(p) ==
  /\ bpc[p] = "have"
  /\ want[p] \in pinned \/ platter[want[p]] = data[buf[p]]
  /\ IF locked[buf[p]] # p
       THEN bpanic' = TRUE /\ UNCHANGED <<locked, bpc>>
       ELSE /\ locked' = [locked EXCEPT ![buf[p]] = None]
            /\ bpc' = [WakeLock(buf[p]) EXCEPT ![p] = "unref"]
            /\ UNCHANGED bpanic
  /\ UNCHANGED <<diskVars, blockno, valid, refcnt, lru, want, buf, pinned, latest>>

\* The list with b moved to the front, next to bcache.head.
ToFront(b) ==
  LET i == CHOOSE i \in DOMAIN lru : lru[i] = b
  IN [j \in DOMAIN lru |-> IF j = 1 THEN b ELSE IF j <= i THEN lru[j - 1] ELSE lru[j]]

\* The rest of brelse(), under bcache.lock.
Unref(p) ==
  /\ bpc[p] = "unref"
  /\ refcnt' = MinusOne(buf[p])
  /\ lru' = IF refcnt'[buf[p]] = 0 THEN ToFront(buf[p]) ELSE lru
  /\ buf' = [buf EXCEPT ![p] = None]
  /\ want' = [want EXCEPT ![p] = None]
  /\ Goto(p, "idle")
  /\ UNCHANGED <<diskVars, blockno, valid, locked, pinned, latest, bpanic>>

\* kill() ends a sleep in acquiresleep() too.
KillWakesLock(p) ==
  /\ bpc[p] = "sleep_lock"
  /\ Goto(p, "lock")
  /\ UNCHANGED <<diskVars, bufVars, want, buf, pinned, latest, bpanic>>
-----------------------------------------------------------------------------
UseStep(p) ==
  \/ AcquireSleep(p) \/ CheckValid(p) \/ RwDone(p) \/ Bwrite(p) \/ Bpin(p) \/ Bunpin(p)
  \/ Brelse(p) \/ Unref(p) \/ KillWakesLock(p)
  \/ \E k \in Blocks : BgetHit(p, k) \/ BgetMiss(p, k)
  \/ \E v \in Vals : Modify(p, v)

Next ==
  \/ \E p \in Procs : UseStep(p)
  \/ DiskNext /\ UNCHANGED <<bufVars, useVars>>

Spec == Init /\ [][Next]_vars
-----------------------------------------------------------------------------
(* Properties *)

Users(b) == {p \in Procs : buf[p] = b}

\* The log's reference to a buffer.
Pins(b) == IF blockno[b] \in pinned THEN 1 ELSE 0

\* A buffer for each process and each pinned block.
EnoughBuffers == Cardinality(Bufs) >= Cardinality(Procs) + MAXPIN

\* bget(): a block has at most one buffer, and a buffer counts exactly its users
\* and its pin, at every step of bget(), brelse(), bpin() and bunpin().  So who
\* releases or writes a buffer holds it, and bget() finds one to recycle if there
\* are enough for the pinned blocks and for all processes at once.
OneBufferPerBlock ==
  /\ EnoughBuffers => ~bpanic
  /\ \A a, b \in Bufs : blockno[a] = blockno[b] /\ blockno[a] # None => a = b
  /\ \A b \in Bufs : refcnt[b] = Cardinality(Users(b)) + Pins(b)

\* bread()/bwrite()/brelse(): who gets a buffer gets it alone, with the block's
\* latest contents, whatever was recycled, read or written in between.
HolderHasLatest ==
  \A p \in Procs : bpc[p] = "have" =>
    /\ blockno[buf[p]] = want[p] /\ data[buf[p]] = latest[want[p]]
    /\ \A q \in Procs \ {p} : buf[q] = buf[p] => bpc[q] \notin {"check", "reading", "have", "writing"}

\* Nobody sleeps through the event it waits for: in acquiresleep() for a lock that
\* is free, in virtio_disk_rw() after the end of its request or for descriptors that
\* are there; completions the handler has not seen will raise another interrupt,
\* also those that race with the handler.
NobodyOversleeps ==
  /\ \A p \in Procs : bpc[p] = "sleep_lock" => locked[buf[p]] # None
  /\ \A p \in Procs : rpc[p] = "sleep_disk" => bdisk[req[p].buf]
  /\ \A p \in Procs : rpc[p] = "sleep_alloc" => Cardinality(free) < 3
  /\ \A p \in InFlight : bdisk[req[p].buf] =>
       idx[p] \in avail \cup {used[i] : i \in DOMAIN used}
  /\ used # <<>> => irq \/ intr
=============================================================================
