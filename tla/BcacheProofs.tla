----------------------------- MODULE BcacheProofs ----------------------------
(***************************************************************************)
(* What the buffer cache and the disk driver keep, for any number of       *)
(* processes, buffers, blocks and descriptors. CacheInv is about the       *)
(* fields of the buffers and their sleep-locks, DriverInv about requests,  *)
(* descriptor chains, rings and b->disk, DataInv about the contents of     *)
(* buffers and platter. Each step of the system preserves each of them,    *)
(* given those before it and FreeInv, which follows from the counts        *)
(* (TallyInv): references and pins of a buffer, and the list of buffers.   *)
(* AllocInv counts the descriptors a process sleeps for. Together they     *)
(* give the theorems about Bcache and Virtio.                              *)
(***************************************************************************)
EXTENDS Bcache, FiniteFacts, TLAPS

\* Between bget() and the end of brelse() a process is at one of these places.
Using == {"lock", "sleep_lock", "check", "reading", "have", "writing", "unref"}

\* At these it holds the sleep-lock of its buffer.
Holding == {"check", "reading", "have", "writing"}

CacheType ==
  /\ blockno \in [Bufs -> Blocks \cup {None}]
  /\ valid \in [Bufs -> BOOLEAN]
  /\ refcnt \in [Bufs -> Int]
  /\ locked \in [Bufs -> Procs \cup {None}]
  /\ bpc \in [Procs -> Using \cup {"idle"}]
  /\ want \in [Procs -> Blocks \cup {None}]
  /\ buf \in [Procs -> Bufs \cup {None}]
  /\ pinned \in SUBSET Blocks

\* A process has a buffer, that of the block it wants, while it uses one.
UseInv ==
  \A p \in Procs :
    IF bpc[p] = "idle" THEN buf[p] = None
    ELSE buf[p] \in Bufs /\ want[p] \in Blocks /\ blockno[buf[p]] = want[p]

\* The lock of a buffer is with the one process that is at a place where it holds it;
\* who sleeps for it sleeps because of somebody.
LockInv ==
  /\ \A p \in Procs : bpc[p] \in Holding => locked[buf[p]] = p
  /\ \A b \in Bufs : locked[b] # None => buf[locked[b]] = b /\ bpc[locked[b]] \in Holding
  /\ \A p \in Procs : bpc[p] = "sleep_lock" => locked[buf[p]] # None

\* A block has one buffer at most, and one for sure while it is pinned.
BlockInv ==
  /\ \A a, b \in Bufs : blockno[a] = blockno[b] /\ blockno[a] # None => a = b
  /\ \A k \in pinned : \E b \in Bufs : blockno[b] = k

CacheInv == CacheType /\ UseInv /\ LockInv /\ BlockInv

\* A buffer with no references has no user and is not pinned.
FreeInv ==
  \A b \in Bufs : refcnt[b] = 0 => blockno[b] \notin pinned /\ \A p \in Procs : buf[p] # b

Requests == [buf : Bufs, blk : Blocks, write : BOOLEAN]

\* The request of p is with the device or its completion has not been seen by p.
Busy(p) == rpc[p] \in {"sleep_disk", "disk"}

DriverType ==
  /\ free \in SUBSET Desc
  /\ next \in [Desc -> Desc \cup {None}]
  /\ ops \in [Desc -> Requests \cup {None}]
  /\ info \in [Desc -> Bufs \cup {None}]
  /\ avail \in SUBSET Desc /\ used \in Seq(Desc)
  /\ bdisk \in [Bufs -> BOOLEAN]
  /\ rpc \in [Procs -> {"none", "alloc", "sleep_alloc", "sleep_disk", "disk"}]
  /\ req \in [Procs -> Requests \cup {None}]
  /\ idx \in [Procs -> Desc \cup {None}]

\* A process is inside virtio_disk_rw() for the block and the buffer bread() or bwrite()
\* is about.
CallOf(p) ==
  rpc[p] # "none" =>
    /\ bpc[p] \in {"reading", "writing"}
    /\ req[p] \in Requests
    /\ req[p].buf = buf[p] /\ req[p].blk = want[p] /\ (req[p].write <=> bpc[p] = "writing")

\* A request has a chain of descriptors that describes it.
ChainOf(p) ==
  Busy(p) =>
    /\ idx[p] \in Desc /\ Chain(idx[p]) \subseteq Desc \ free
    /\ info[idx[p]] = req[p].buf /\ ops[idx[p]] = req[p]

\* The chains are disjoint, and what is not free is in one of them.
ChainsInv ==
  /\ \A p, q \in Procs : Busy(p) /\ Busy(q) /\ p # q => Chain(idx[p]) \cap Chain(idx[q]) = {}
  /\ \A d \in Desc \ free : \E p \in Procs : Busy(p) /\ d \in Chain(idx[p])

InUsed(d) == \E n \in 1..Len(used) : used[n] = d

\* b->disk says that the request is in one of the two rings; who sleeps for it may.
RingOf(p) ==
  Busy(p) =>
    /\ bdisk[req[p].buf] <=> (idx[p] \in avail \/ InUsed(idx[p]))
    /\ ~(idx[p] \in avail /\ InUsed(idx[p]))
    /\ rpc[p] = "sleep_disk" => bdisk[req[p].buf]

\* The rings have requests only, each once, and an interrupt is to come for the used ring.
RingsInv ==
  /\ \A d \in avail : \E p \in Procs : Busy(p) /\ idx[p] = d
  /\ \A n \in 1..Len(used) : \E p \in Procs : Busy(p) /\ idx[p] = used[n]
  /\ \A m, n \in 1..Len(used) : used[m] = used[n] => m = n
  /\ used # <<>> => irq \/ intr

DriverInv ==
  /\ DriverType /\ ~dpanic
  /\ \A p \in Procs : CallOf(p) /\ ChainOf(p) /\ RingOf(p)
  /\ ChainsInv /\ RingsInv

DataType ==
  /\ data \in [Bufs -> Vals]
  /\ platter \in [Blocks -> Vals]
  /\ latest \in [Blocks -> Vals]

\* A valid buffer has the latest contents of its block.
ValidInv == \A b \in Bufs : valid[b] /\ blockno[b] # None => data[b] = latest[blockno[b]]

\* Who has a buffer or writes it has a valid one, who reads it does not yet; when the
\* device has carried out the read, the contents are there.
HolderOf(p) ==
  /\ bpc[p] \in {"have", "writing"} => valid[buf[p]]
  /\ bpc[p] = "reading" => ~valid[buf[p]]
  /\ bpc[p] = "reading" /\ (rpc[p] = "none" \/ (Busy(p) /\ idx[p] \notin avail)) =>
       data[buf[p]] = latest[want[p]]

\* What the platter does not have is in a valid buffer that is pinned or held.
Kept(k) ==
  \/ platter[k] = latest[k]
  \/ \E b \in Bufs :
       /\ blockno[b] = k /\ valid[b]
       /\ k \in pinned \/ \E p \in Procs : buf[p] = b /\ bpc[p] \in {"have", "writing"}

DataInv ==
  /\ DataType /\ ValidInv
  /\ \A p \in Procs : HolderOf(p)
  /\ \A k \in Blocks : Kept(k)
-----------------------------------------------------------------------------
(* The buffer cache *)

\* The invariant holds initially.
LEMMA CacheInit == Init => CacheInv
<1> SUFFICES ASSUME Init PROVE CacheInv
  BY Zenon
<1> USE BcacheConstants, VirtioConstants
<1>1. CacheType
  <2>1. /\ blockno \in [Bufs -> Blocks \cup {None}] /\ valid \in [Bufs -> BOOLEAN]
        /\ refcnt \in [Bufs -> Int] /\ locked \in [Bufs -> Procs \cup {None}]
    BY DEF Init
  <2>2. /\ bpc \in [Procs -> Using \cup {"idle"}] /\ want \in [Procs -> Blocks \cup {None}]
        /\ buf \in [Procs -> Bufs \cup {None}]
    BY Zenon DEF Init
  <2>3. pinned \in SUBSET Blocks
    BY Zenon DEF Init
  <2> QED BY Zenon, <2>1, <2>2, <2>3 DEF CacheType
<1>2. UseInv /\ LockInv /\ BlockInv
  BY Zenon DEF Init, UseInv, LockInv, BlockInv, Holding
<1> QED BY Zenon, <1>1, <1>2 DEF CacheInv

\* bget()
LEMMA BgetCache ==
  ASSUME CacheInv, FreeInv, NEW p \in Procs, NEW k \in Blocks, BgetHit(p, k) \/ BgetMiss(p, k)
  PROVE  CacheInv'
<1> USE VirtioConstants, BcacheConstants DEF CacheInv, Goto
<1>1. buf[p] = None /\ k # None /\ bpc[p] = "idle"
  BY Zenon DEF UseInv, BgetHit, BgetMiss
<1>2. CASE BgetHit(p, k)
  <2>1. PICK b \in Bufs : blockno[b] = k /\ refcnt' = PlusOne(b) /\ buf' = [buf EXCEPT ![p] = b]
    BY Zenon, <1>2 DEF BgetHit
  <2>2. /\ want' = [want EXCEPT ![p] = k] /\ bpc' = [bpc EXCEPT ![p] = "lock"]
        /\ UNCHANGED <<blockno, valid, locked, pinned>>
    BY Zenon, <1>2 DEF BgetHit
  <2>3. CacheType'
    BY <2>1, <2>2 DEF CacheType, PlusOne, Using
  <2>4. UseInv'
    BY Zenon, <2>1, <2>2 DEF CacheType, UseInv
  <2>5. LockInv'
    BY <1>1, <2>1, <2>2 DEF CacheType, LockInv, Holding
  <2>6. BlockInv'
    BY Zenon, <2>2 DEF BlockInv
  <2> QED BY Zenon, <2>3, <2>4, <2>5, <2>6
<1>3. ASSUME NEW b \in Bufs, Recycled(b), \A c \in Bufs : blockno[c] # k,
             blockno' = [blockno EXCEPT ![b] = k], valid' = [valid EXCEPT ![b] = FALSE],
             refcnt' = [refcnt EXCEPT ![b] = 1], buf' = [buf EXCEPT ![p] = b],
             bpc' = [bpc EXCEPT ![p] = "lock"], want' = [want EXCEPT ![p] = k],
             UNCHANGED <<locked, pinned>>
      PROVE  CacheInv'
  <2>1. (\A q \in Procs : buf[q] # b) /\ blockno[b] \notin pinned /\ k \notin pinned
    BY Zenon, <1>3 DEF Recycled, FreeInv, BlockInv
  <2>2. CacheType'
    BY <1>3 DEF CacheType, Using
  <2>3. UseInv'
    BY Zenon, <1>3, <2>1 DEF CacheType, UseInv
  <2>4. LockInv'
    BY <1>1, <1>3, <2>1 DEF CacheType, LockInv, Holding
  <2>5. BlockInv'
    BY <1>3, <2>1 DEF CacheType, BlockInv
  <2> QED BY Zenon, <2>2, <2>3, <2>4, <2>5
<1>4. ASSUME UNCHANGED <<blockno, valid, refcnt, buf, bpc, locked, pinned>>,
             want' = [want EXCEPT ![p] = k]
      PROVE  CacheInv'
  <2>1. CacheType'
    BY Zenon, <1>4 DEF CacheType
  <2>2. UseInv' /\ LockInv' /\ BlockInv'
    BY <1>1, <1>4 DEF CacheType, UseInv, LockInv, BlockInv
  <2> QED BY Zenon, <2>1, <2>2
<1> QED BY Zenon, <1>2, <1>3, <1>4 DEF BgetMiss

\* The steps of a process that change neither the buffers' fields nor who uses them: it
\* keeps its lock, or goes on waiting for it with a reason.
LEMMA PlaceCache ==
  ASSUME CacheInv, NEW p \in Procs, NEW l, bpc' = [bpc EXCEPT ![p] = l],
         \/ bpc[p] \in Holding /\ l \in Holding
         \/ bpc[p] = "sleep_lock" /\ l = "lock"
         \/ bpc[p] = "lock" /\ l = "sleep_lock" /\ locked[buf[p]] # None,
         valid' \in [Bufs -> BOOLEAN],
         UNCHANGED <<blockno, refcnt, locked, want, buf, pinned>>
  PROVE  CacheInv'
<1> USE VirtioConstants DEF CacheInv
<1>1. CacheType'
  BY Zenon DEF CacheType, Using, Holding
<1>2. UseInv'
  BY Zenon DEF CacheType, UseInv, Holding
<1>3. LockInv'
  BY DEF CacheType, LockInv, Holding
<1>4. BlockInv'
  BY Zenon DEF BlockInv
<1> QED BY Zenon, <1>1, <1>2, <1>3, <1>4

\* acquiresleep()
LEMMA AcquireSleepCache ==
  ASSUME CacheInv, NEW p \in Procs, AcquireSleep(p)
  PROVE  CacheInv'
<1> USE VirtioConstants DEF CacheInv, AcquireSleep, Goto, LockFree
<1>1. CASE locked[buf[p]] = None
  <2>1. CacheType'
    BY <1>1 DEF CacheType, Using
  <2>2. UseInv'
    BY <1>1 DEF CacheType, UseInv
  <2>3. LockInv'
    BY <1>1 DEF CacheType, LockInv, UseInv, Holding
  <2>4. BlockInv'
    BY Zenon DEF BlockInv
  <2> QED BY Zenon, <2>1, <2>2, <2>3, <2>4
<1>2. CASE locked[buf[p]] # None
  <2>1. valid' \in [Bufs -> BOOLEAN] /\ locked' = locked
    BY Zenon, <1>2 DEF CacheType
  <2> QED BY Zenon, <1>2, <2>1, PlaceCache
<1> QED BY Zenon, <1>1, <1>2

\* bread() after the lock, bwrite(), the end of virtio_disk_rw() and a wakeup by kill().
LEMMA HolderCache ==
  ASSUME CacheInv, NEW p \in Procs,
         CheckValid(p) \/ RwDone(p) \/ Bwrite(p) \/ KillWakesLock(p)
  PROVE  CacheInv'
<1> USE DEF bufVars
<1>1. CASE CheckValid(p) \/ RwDone(p)
  <2>1. PICK l \in {"have", "reading"} : bpc' = [bpc EXCEPT ![p] = l]
    BY Zenon, <1>1 DEF CheckValid, RwDone, Goto
  <2>2. bpc[p] \in Holding /\ l \in Holding
    BY Zenon, <1>1 DEF CheckValid, RwDone, Holding
  <2>3. valid' \in [Bufs -> BOOLEAN]
    BY Zenon, <1>1 DEF CheckValid, RwDone, CacheInv, CacheType
  <2>4. UNCHANGED <<blockno, refcnt, locked, want, buf, pinned>>
    BY Zenon, <1>1 DEF CheckValid, RwDone
  <2> QED BY Zenon, <2>1, <2>2, <2>3, <2>4, PlaceCache
<1>2. CASE Bwrite(p)
  <2>1. locked[buf[p]] = p
    BY Zenon, <1>2 DEF Bwrite, CacheInv, LockInv, Holding
  <2>2. bpc[p] \in Holding /\ "writing" \in Holding /\ bpc' = [bpc EXCEPT ![p] = "writing"]
    BY Zenon, <1>2, <2>1 DEF Bwrite, Goto, Holding
  <2>3. valid' \in [Bufs -> BOOLEAN]
    BY Zenon, <1>2 DEF Bwrite, CacheInv, CacheType
  <2>4. UNCHANGED <<blockno, refcnt, locked, want, buf, pinned>>
    BY Zenon, <1>2, <2>1 DEF Bwrite
  <2> QED BY Zenon, <2>2, <2>3, <2>4, PlaceCache
<1>3. CASE KillWakesLock(p)
  <2>1. valid' \in [Bufs -> BOOLEAN]
    BY Zenon, <1>3 DEF KillWakesLock, CacheInv, CacheType
  <2>2. UNCHANGED <<blockno, refcnt, locked, want, buf, pinned>>
    BY Zenon, <1>3 DEF KillWakesLock
  <2> QED BY Zenon, <1>3, <2>1, <2>2, PlaceCache DEF KillWakesLock, Goto
<1> QED BY Zenon, <1>1, <1>2, <1>3

\* Only the buffer of the holder has the block it wants.
LEMMA HolderBlock ==
  ASSUME CacheInv, NEW p \in Procs, bpc[p] = "have"
  PROVE  /\ buf[p] \in Bufs /\ want[p] \in Blocks /\ locked[buf[p]] = p
         /\ \A c \in Bufs : blockno[c] = want[p] <=> c = buf[p]
<1> USE BcacheConstants DEF CacheInv
<1>1. buf[p] \in Bufs /\ want[p] \in Blocks /\ blockno[buf[p]] = want[p]
  BY Zenon DEF UseInv
<1>2. locked[buf[p]] = p
  BY Zenon DEF LockInv, Holding
<1> QED BY <1>1, <1>2 DEF BlockInv

\* bpin() and bunpin()
LEMMA PinCache ==
  ASSUME CacheInv, NEW p \in Procs, Bpin(p) \/ Bunpin(p)
  PROVE  CacheInv'
<1> USE DEF CacheInv
<1>1. buf[p] \in Bufs /\ want[p] \in Blocks /\ blockno[buf[p]] = want[p]
  BY Zenon, HolderBlock DEF Bpin, Bunpin
<1>2. /\ UNCHANGED <<blockno, valid, locked, bpc, want, buf>>
      /\ pinned' \subseteq pinned \cup {want[p]}
  BY Zenon DEF Bpin, Bunpin
<1>3. refcnt' \in [Bufs -> Int]
  BY <1>1 DEF Bpin, Bunpin, CacheType, PlusOne, MinusOne
<1>4. CacheType' /\ UseInv' /\ LockInv'
  BY <1>1, <1>2, <1>3 DEF CacheType, UseInv, LockInv
<1>5. BlockInv'
  BY Zenon, <1>1, <1>2 DEF BlockInv
<1> QED BY Zenon, <1>4, <1>5

\* The first part of brelse().
LEMMA BrelseCache ==
  ASSUME CacheInv, NEW p \in Procs, Brelse(p)
  PROVE  CacheInv'
<1> USE VirtioConstants DEF CacheInv
<1>1. buf[p] \in Bufs /\ locked[buf[p]] = p
  BY Zenon, HolderBlock DEF Brelse
<1>2. /\ locked' = [locked EXCEPT ![buf[p]] = None]
      /\ bpc' = [WakeLock(buf[p]) EXCEPT ![p] = "unref"]
      /\ UNCHANGED <<blockno, valid, refcnt, want, buf, pinned>>
  BY Zenon, <1>1 DEF Brelse
<1>3. /\ bpc[p] = "have" /\ bpc'[p] = "unref" /\ DOMAIN bpc' = Procs
      /\ \A q \in Procs \ {p} :
           bpc'[q] = IF bpc[q] = "sleep_lock" /\ buf[q] = buf[p] THEN "lock" ELSE bpc[q]
  BY Zenon, <1>2 DEF WakeLock, Brelse
<1>4. CacheType'
  <2>1. \A q \in Procs : bpc'[q] \in Using \cup {"idle"}
    BY Zenon, <1>3 DEF CacheType, Using
  <2>2. bpc' \in [Procs -> Using \cup {"idle"}]
    BY Zenon, <1>2, <2>1 DEF WakeLock
  <2>3. locked' \in [Bufs -> Procs \cup {None}]
    BY Zenon, <1>2 DEF CacheType
  <2> QED BY Zenon, <1>2, <2>2, <2>3 DEF CacheType
<1>5. UseInv'
  BY <1>2, <1>3 DEF UseInv
<1>6. LockInv'
  <2>1. \A q \in Procs : bpc'[q] \in Holding => q # p /\ bpc[q] \in Holding
    BY Zenon, <1>3 DEF Holding
  <2>2. \A q \in Procs : q # p /\ bpc[q] \in Holding => bpc'[q] \in Holding /\ buf[q] # buf[p]
    BY <1>1, <1>3 DEF Holding, LockInv
  <2>3. \A q \in Procs : bpc'[q] \in Holding => locked'[buf[q]] = q
    BY Zenon, <1>1, <1>2, <2>1, <2>2 DEF LockInv, UseInv, Holding, CacheType
  <2>4. \A c \in Bufs : locked'[c] # None => buf[locked'[c]] = c /\ bpc'[locked'[c]] \in Holding
    BY <1>1, <1>2, <2>2 DEF LockInv, CacheType
  <2>5. \A q \in Procs : bpc'[q] = "sleep_lock" => locked'[buf[q]] # None
    BY <1>1, <1>2, <1>3 DEF LockInv, UseInv, CacheType
  <2> QED BY Zenon, <1>2, <2>3, <2>4, <2>5 DEF LockInv
<1>7. BlockInv'
  BY Zenon, <1>2 DEF BlockInv
<1> QED BY Zenon, <1>4, <1>5, <1>6, <1>7

\* The second part of brelse().
LEMMA UnrefCache ==
  ASSUME CacheInv, NEW p \in Procs, Unref(p)
  PROVE  CacheInv'
<1> USE VirtioConstants DEF CacheInv, Unref, Goto
<1>1. buf[p] \in Bufs
  BY Zenon DEF UseInv
<1>2. CacheType'
  BY <1>1 DEF CacheType, MinusOne
<1>3. UseInv' /\ LockInv'
  BY <1>1 DEF CacheType, UseInv, LockInv, Holding
<1>4. BlockInv'
  BY Zenon DEF BlockInv
<1> QED BY Zenon, <1>2, <1>3, <1>4

\* The invariant is inductive, given FreeInv.
LEMMA CacheNext == CacheInv /\ FreeInv /\ [Next]_vars => CacheInv'
<1> SUFFICES ASSUME CacheInv, FreeInv, [Next]_vars PROVE CacheInv'
  BY Zenon
<1>1. ASSUME UNCHANGED <<bufVars, bpc, want, buf, pinned>> PROVE CacheInv'
  BY Zenon, <1>1 DEF bufVars, CacheInv, CacheType, UseInv, LockInv, BlockInv
<1>2. ASSUME NEW p \in Procs, UseStep(p) PROVE CacheInv'
  <2>1. ASSUME NEW v \in Vals, Modify(p, v) PROVE CacheInv'
    BY Zenon, <1>1, <2>1 DEF Modify
  <2> QED
    BY Zenon, <1>2, <2>1, BgetCache, AcquireSleepCache, HolderCache, PinCache, BrelseCache,
       UnrefCache DEF UseStep
<1> QED BY Zenon, <1>1, <1>2 DEF Next, vars, useVars
-----------------------------------------------------------------------------
(* The driver: what leaves descriptors and rings alone *)

\* The invariant holds initially.
LEMMA DriverInit == Init => DriverInv
<1> SUFFICES ASSUME Init PROVE DriverInv
  BY Zenon
<1> USE DEF Init, DiskInit
<1>1. DriverType
  <2>1. /\ free \in SUBSET Desc /\ next \in [Desc -> Desc \cup {None}]
        /\ ops \in [Desc -> Requests \cup {None}] /\ info \in [Desc -> Bufs \cup {None}]
    BY Zenon
  <2>2. avail \in SUBSET Desc /\ used \in Seq(Desc) /\ bdisk \in [Bufs -> BOOLEAN]
    OBVIOUS
  <2>3. /\ rpc \in [Procs -> {"none", "alloc", "sleep_alloc", "sleep_disk", "disk"}]
        /\ req \in [Procs -> Requests \cup {None}] /\ idx \in [Procs -> Desc \cup {None}]
    BY Zenon
  <2> QED BY Zenon, <2>1, <2>2, <2>3 DEF DriverType
<1>2. \A p \in Procs : CallOf(p) /\ ChainOf(p) /\ RingOf(p)
  BY Zenon DEF CallOf, ChainOf, RingOf, Busy
<1>3. ChainsInv /\ RingsInv
  BY DEF ChainsInv, RingsInv, Busy
<1> QED BY Zenon, <1>1, <1>2, <1>3 DEF DriverInv

\* Two requests are for two buffers: each process holds the lock of its own.
LEMMA OneRequest ==
  ASSUME CacheInv, NEW p \in Procs, CallOf(p), rpc[p] # "none"
  PROVE  /\ req[p].buf \in Bufs /\ buf[p] \in Bufs /\ want[p] \in Blocks
         /\ \A q \in Procs : CallOf(q) /\ rpc[q] # "none" /\ q # p => req[q].buf # req[p].buf
<1>1. /\ bpc[p] \in Holding /\ bpc[p] # "idle" /\ req[p].buf = buf[p]
      /\ \A q \in Procs : CallOf(q) /\ rpc[q] # "none" => bpc[q] \in Holding /\ req[q].buf = buf[q]
  BY Zenon DEF CallOf, Holding
<1>2. buf[p] \in Bufs /\ want[p] \in Blocks
  BY Zenon, <1>1 DEF CacheInv, UseInv
<1> QED BY <1>1, <1>2 DEF CacheInv, LockInv

\* A step keeps the invariant when it moves processes inside virtio_disk_rw() and leaves
\* the requests in flight as they are.
LEMMA SameRings ==
  ASSUME DriverInv,
         rpc' \in [Procs -> {"none", "alloc", "sleep_alloc", "sleep_disk", "disk"}],
         req' \in [Procs -> Requests \cup {None}],
         \A q \in Procs :
           /\ CallOf(q)'
           /\ Busy(q)' <=> Busy(q)
           /\ Busy(q) => req'[q] = req[q]
           /\ rpc'[q] = "sleep_disk" => bdisk[req[q].buf],
         used # <<>> => irq' \/ intr',
         UNCHANGED <<free, next, ops, info, avail, used, bdisk, idx, dpanic>>
  PROVE  DriverInv'
<1> USE DEF DriverInv
<1>1. DriverType'
  BY Zenon DEF DriverType
<1>2. ASSUME NEW q \in Procs PROVE ChainOf(q)' /\ RingOf(q)'
  <2>1. ChainOf(q) /\ RingOf(q) /\ Chain(idx[q])' = Chain(idx[q])
    BY Zenon DEF Chain
  <2>2. InUsed(idx[q])' <=> InUsed(idx[q])
    BY Zenon DEF InUsed
  <2>3. ChainOf(q)'
    BY Zenon, <2>1 DEF ChainOf
  <2>4. RingOf(q)'
    BY Zenon, <2>1, <2>2 DEF RingOf
  <2> QED BY Zenon, <2>3, <2>4
<1>3. ChainsInv'
  BY DEF ChainsInv, Chain
<1>4. RingsInv'
  BY Zenon DEF RingsInv
<1> QED BY Zenon, <1>1, <1>2, <1>3, <1>4

\* The steps of the buffer cache: a process that is not in virtio_disk_rw() does
\* something else or calls it.
LEMMA UseDriver ==
  ASSUME CacheInv, DriverInv, NEW p \in Procs, UseStep(p)
  PROVE  DriverInv'
<1> USE DEF DriverInv
<1> USE DEF BgetHit, BgetMiss, AcquireSleep, CheckValid, RwDone, Modify, Bwrite, Bpin, Bunpin,
            Brelse, Unref, KillWakesLock, Goto
<1>1. rpc[p] = "none"
  <2>1. CallOf(p)
    BY Zenon
  <2>2. bpc[p] \notin {"reading", "writing"} \/ rpc[p] = "none"
    BY Zenon DEF UseStep
  <2> QED BY Zenon, <2>1, <2>2 DEF CallOf
<1>2. UNCHANGED <<devVars, idx, dpanic>>
  BY Zenon DEF UseStep, diskVars, callVars
<1>3. \A q \in Procs \ {p} :
        /\ want'[q] = want[q] /\ buf'[q] = buf[q]
        /\ bpc[q] # "sleep_lock" => bpc'[q] = bpc[q]
  <2>1. CASE Brelse(p)
    BY Zenon, <2>1 DEF WakeLock, CacheInv, CacheType
  <2>2. CASE ~Brelse(p)
    <3>1. UNCHANGED bpc \/ \E l : Goto(p, l)
      BY Zenon, <2>2 DEF UseStep
    <3>2. /\ UNCHANGED buf \/ \E b : buf' = [buf EXCEPT ![p] = b]
          /\ UNCHANGED want \/ \E k : want' = [want EXCEPT ![p] = k]
      BY Zenon, <2>2 DEF UseStep
    <3> QED BY Zenon, <3>1, <3>2 DEF CacheInv, CacheType
  <2> QED BY Zenon, <2>1, <2>2
<1>4. \/ UNCHANGED <<rpc, req>>
      \/ /\ bpc[p] \in {"check", "have"} /\ UNCHANGED <<buf, want>>
         /\ \E w \in BOOLEAN : /\ CallRw(p, buf[p], want[p], w)
                               /\ bpc' = [bpc EXCEPT ![p] = IF w THEN "writing" ELSE "reading"]
  BY Zenon DEF UseStep, diskVars, callVars
<1> DEFINE Calls ==
             /\ rpc' \in [Procs -> {"none", "alloc", "sleep_alloc", "sleep_disk", "disk"}]
             /\ req' \in [Procs -> Requests \cup {None}]
             /\ \A q \in Procs \ {p} : rpc'[q] = rpc[q] /\ req'[q] = req[q]
             /\ rpc'[p] # "none" => rpc'[p] = "alloc" /\ CallOf(p)'
<1>5. Calls
  <2>1. CASE UNCHANGED <<rpc, req>>
    BY Zenon, <1>1, <2>1 DEF DriverType
  <2>2. ASSUME NEW w \in BOOLEAN, bpc[p] \in {"check", "have"}, UNCHANGED <<buf, want>>,
               CallRw(p, buf[p], want[p], w),
               bpc' = [bpc EXCEPT ![p] = IF w THEN "writing" ELSE "reading"]
        PROVE  Calls
    <3>1. buf[p] \in Bufs /\ want[p] \in Blocks /\ bpc'[p] = IF w THEN "writing" ELSE "reading"
      BY Zenon, <2>2 DEF CacheInv, CacheType, UseInv
    <3> DEFINE r == [buf |-> buf[p], blk |-> want[p], write |-> w]
    <3>2. r \in Requests /\ r.buf = buf[p] /\ r.blk = want[p] /\ r.write = w
      BY Zenon, <3>1 DEF Requests
    <3>3. req' = [req EXCEPT ![p] = r] /\ rpc' = [rpc EXCEPT ![p] = "alloc"]
      BY Zenon, <2>2 DEF CallRw
    <3> HIDE DEF r
    <3>4. CallOf(p)'
      BY <2>2, <3>1, <3>2, <3>3 DEF CallOf, DriverType
    <3> QED BY Zenon, <3>2, <3>3, <3>4 DEF DriverType
  <2> QED BY Zenon, <1>4, <2>1, <2>2
<1>6. ASSUME NEW q \in Procs
      PROVE  /\ CallOf(q)'
             /\ Busy(q)' <=> Busy(q)
             /\ Busy(q) => req'[q] = req[q]
             /\ rpc'[q] = "sleep_disk" => bdisk[req[q].buf]
  <2>1. CallOf(q) /\ RingOf(q)
    BY Zenon
  <2>2. CASE q = p
    BY Zenon, <1>1, <1>5, <2>2 DEF CallOf, Busy
  <2>3. CASE q # p
    <3>1. CallOf(q)'
      BY Zenon, <1>3, <1>5, <2>1, <2>3 DEF CallOf
    <3> QED BY Zenon, <1>5, <2>1, <2>3, <3>1 DEF Busy, RingOf
  <2> QED BY Zenon, <2>2, <2>3
<1>7. used # <<>> => irq' \/ intr'
  BY Zenon, <1>2 DEF RingsInv, devVars
<1> QED BY Zenon, <1>2, <1>5, <1>6, <1>7, SameRings DEF devVars

\* The steps inside virtio_disk_rw() that neither start nor end a request, and both ends
\* of the handler.
LEMMA MoveDriver ==
  ASSUME DriverInv, UNCHANGED <<bpc, want, buf>>,
         \/ \E p \in Procs : \/ AllocFails(p) \/ KillWakes(p)
                             \/ Wake(p) /\ ~Finished(p)
         \/ IntrStart \/ IntrEnd
  PROVE  DriverInv'
<1> USE DEF DriverInv, devVars, callVars
<1>1. UNCHANGED <<free, next, ops, info, avail, used, bdisk, idx, dpanic, req>>
  BY Zenon DEF AllocFails, KillWakes, Wake, IntrStart, IntrEnd
<1>2. used # <<>> => irq' \/ intr'
  BY Zenon DEF AllocFails, KillWakes, Wake, IntrStart, IntrEnd, RingsInv
<1> DEFINE Moves ==
             /\ rpc' \in [Procs -> {"none", "alloc", "sleep_alloc", "sleep_disk", "disk"}]
             /\ \A q \in Procs :
                  /\ Busy(q)' <=> Busy(q)
                  /\ rpc'[q] = "none" <=> rpc[q] = "none"
                  /\ rpc'[q] = "sleep_disk" => rpc[q] = "sleep_disk" \/ ~Finished(q)
<1>3. Moves
  <2>1. ASSUME NEW p \in Procs, AllocFails(p) PROVE Moves
    BY Zenon, <2>1 DEF AllocFails, WakeAlloc, Busy, DriverType
  <2>2. ASSUME NEW p \in Procs, KillWakes(p) PROVE Moves
    BY Zenon, <2>2 DEF KillWakes, Busy, DriverType
  <2>3. ASSUME NEW p \in Procs, Wake(p), ~Finished(p) PROVE Moves
    BY Zenon, <2>3 DEF Wake, Busy, DriverType
  <2>4. CASE IntrStart \/ IntrEnd
    BY Zenon, <2>4 DEF IntrStart, IntrEnd, Busy, DriverType
  <2> QED BY Zenon, <2>1, <2>2, <2>3, <2>4
<1>4. ASSUME NEW q \in Procs
      PROVE  CallOf(q)' /\ (rpc'[q] = "sleep_disk" => bdisk[req[q].buf])
  <2>1. CallOf(q) /\ RingOf(q)
    BY Zenon
  <2> QED BY Zenon, <1>1, <1>3, <2>1 DEF CallOf, RingOf, Busy, Finished
<1>5. req' \in [Procs -> Requests \cup {None}]
  BY Zenon, <1>1 DEF DriverType
<1> QED BY Zenon, <1>1, <1>2, <1>3, <1>4, <1>5, SameRings
-----------------------------------------------------------------------------
(* The driver: requests begin and end *)

\* A request starts: three free descriptors become its chain.
LEMMA SubmitDriver ==
  ASSUME CacheInv, DriverInv, UNCHANGED <<bpc, want, buf>>, NEW p \in Procs, Submit(p)
  PROVE  DriverInv'
<1> USE DEF DriverInv
<1>1. PICK i \in free, j \in free, k \in free :
        /\ i < j /\ j < k
        /\ free' = free \ {i, j, k}
        /\ next' = [next EXCEPT ![i] = j, ![j] = k, ![k] = None]
        /\ ops' = [ops EXCEPT ![i] = req[p]]
        /\ info' = [info EXCEPT ![i] = req[p].buf]
        /\ avail' = avail \cup {i}
        /\ idx' = [idx EXCEPT ![p] = i]
  BY Zenon DEF Submit
<1>2. /\ bdisk' = [bdisk EXCEPT ![req[p].buf] = TRUE]
      /\ rpc' = [rpc EXCEPT ![p] = "sleep_disk"]
      /\ UNCHANGED <<used, irq, intr, data, platter, req, dpanic>>
      /\ rpc[p] = "alloc"
  BY Zenon DEF Submit
<1>3. free \subseteq Desc /\ i \in Desc /\ j \in Desc /\ k \in Desc /\ i # j /\ j # k /\ i # k
  BY <1>1 DEF DriverType, Desc
<1>4. CallOf(p) /\ req[p].buf \in Bufs /\ req[p] \in Requests
  BY Zenon, <1>2, OneRequest DEF CallOf
<1>5. /\ next' \in [Desc -> Desc \cup {None}]
      /\ next'[i] = j /\ next'[j] = k
      /\ \A x \in Desc \ free : next'[x] = next[x]
  BY Zenon, <1>1, <1>3 DEF DriverType
<1>6. \A q \in Procs : (Busy(q)' <=> Busy(q) \/ q = p) /\ ~Busy(p)
  BY Zenon, <1>2 DEF Busy, DriverType
<1>7. \A q \in Procs : Busy(q) => /\ q # p /\ idx'[q] = idx[q] /\ idx[q] \in Desc \ free
                                  /\ Chain(idx[q]) \subseteq Desc \ free
                                  /\ Chain(idx[q])' = Chain(idx[q])
  <2> SUFFICES ASSUME NEW q \in Procs, Busy(q)
               PROVE  /\ q # p /\ idx'[q] = idx[q] /\ idx[q] \in Desc \ free
                      /\ Chain(idx[q]) \subseteq Desc \ free
                      /\ Chain(idx[q])' = Chain(idx[q])
    BY Zenon
  <2>1. q # p /\ Chain(idx[q]) \subseteq Desc \ free
    BY Zenon, <1>6 DEF ChainOf
  <2>2. idx'[q] = idx[q]
    BY Zenon, <1>1, <2>1 DEF DriverType
  <2>3. idx[q] \in Chain(idx[q]) /\ next[idx[q]] \in Chain(idx[q])
    BY Zenon DEF Chain
  <2> QED BY Zenon, <1>5, <2>1, <2>2, <2>3 DEF Chain
<1>8. Chain(idx[p])' = {i, j, k} /\ idx'[p] = i
  BY <1>1, <1>5 DEF Chain, DriverType
<1>9. DriverType'
  <2>1. free' \in SUBSET Desc /\ avail' \in SUBSET Desc /\ idx' \in [Procs -> Desc \cup {None}]
    BY Zenon, <1>1, <1>3 DEF DriverType
  <2>2. ops' \in [Desc -> Requests \cup {None}] /\ info' \in [Desc -> Bufs \cup {None}]
    BY Zenon, <1>1, <1>3, <1>4 DEF DriverType
  <2>3. /\ rpc' \in [Procs -> {"none", "alloc", "sleep_alloc", "sleep_disk", "disk"}]
        /\ bdisk' \in [Bufs -> BOOLEAN]
    BY Zenon, <1>2, <1>4 DEF DriverType
  <2> QED BY Zenon, <1>2, <1>5, <2>1, <2>2, <2>3 DEF DriverType
<1>10. \A q \in Procs : CallOf(q)'
  BY Zenon, <1>2 DEF CallOf, DriverType
<1>11. ASSUME NEW q \in Procs PROVE ChainOf(q)'
  <2>1. CASE q = p
    <3>1. info'[i] = req[p].buf /\ ops'[i] = req[p]
      BY Zenon, <1>1, <1>3 DEF DriverType
    <3>2. {i, j, k} \subseteq Desc \ free'
      BY Zenon, <1>1, <1>3
    <3> QED BY Zenon, <1>2, <1>3, <1>8, <2>1, <3>1, <3>2 DEF ChainOf
  <2>2. CASE q # p /\ Busy(q)
    <3>1. /\ idx[q] # i /\ ChainOf(q) /\ req'[q] = req[q] /\ idx'[q] = idx[q] /\ idx[q] \in Desc
          /\ Chain(idx[q])' = Chain(idx[q])
      BY Zenon, <1>1, <1>2, <1>7, <2>2
    <3>2. info'[idx[q]] = info[idx[q]] /\ ops'[idx[q]] = ops[idx[q]]
      BY Zenon, <1>1, <3>1 DEF DriverType
    <3>3. Desc \ free \subseteq Desc \ free'
      BY Zenon, <1>1
    <3> QED BY Zenon, <2>2, <3>1, <3>2, <3>3 DEF ChainOf
  <2> QED BY Zenon, <1>6, <2>1, <2>2 DEF ChainOf
<1>12. ChainsInv'
  <2>1. ASSUME NEW q \in Procs, NEW r \in Procs, Busy(q)', Busy(r)', q # r
        PROVE  Chain(idx[q])' \cap Chain(idx[r])' = {}
    BY <1>1, <1>6, <1>7, <1>8, <2>1 DEF ChainsInv
  <2>2. ASSUME NEW d \in Desc \ free' PROVE \E q \in Procs : Busy(q)' /\ d \in Chain(idx[q])'
    <3>1. CASE d \in {i, j, k}
      BY Zenon, <1>6, <1>8, <3>1
    <3>2. CASE d \notin {i, j, k}
      <4>1. PICK q \in Procs : Busy(q) /\ d \in Chain(idx[q])
        BY Zenon, <1>1, <2>2, <3>2 DEF ChainsInv
      <4> QED BY Zenon, <1>6, <1>7, <4>1
    <3> QED BY Zenon, <3>1, <3>2
  <2> QED BY Zenon, <2>1, <2>2 DEF ChainsInv
<1>13. ~InUsed(i) /\ \A d : InUsed(d)' <=> InUsed(d)
  BY <1>1, <1>2, <1>7 DEF InUsed, RingsInv
<1>14. ASSUME NEW q \in Procs PROVE RingOf(q)'
  <2>1. CASE q = p
    <3>1. bdisk'[req[p].buf] /\ i \in avail' /\ idx'[q] = i /\ req'[q] = req[p]
      BY Zenon, <1>1, <1>2, <1>4, <1>8, <2>1 DEF DriverType
    <3> QED BY Zenon, <1>13, <2>1, <3>1 DEF RingOf
  <2>2. CASE q # p /\ Busy(q)
    <3>1. req[q].buf # req[p].buf /\ idx'[q] = idx[q] /\ idx[q] # i /\ req'[q] = req[q]
      BY Zenon, <1>1, <1>2, <1>4, <1>7, <2>2, OneRequest DEF Busy
    <3>2. req[q].buf \in Bufs
      BY Zenon, <2>2, OneRequest DEF Busy
    <3>3. bdisk'[req[q].buf] = bdisk[req[q].buf] /\ rpc'[q] = rpc[q]
      BY Zenon, <1>2, <2>2, <3>1, <3>2 DEF DriverType
    <3>4. idx[q] \in avail' <=> idx[q] \in avail
      BY Zenon, <1>1, <3>1
    <3>5. RingOf(q)
      BY Zenon
    <3> QED BY Zenon, <1>13, <2>2, <3>1, <3>3, <3>4, <3>5 DEF RingOf
  <2> QED BY Zenon, <1>6, <2>1, <2>2 DEF RingOf
<1>15. RingsInv'
  <2>1. \A d \in avail' : \E q \in Procs : Busy(q)' /\ idx'[q] = d
    BY Zenon, <1>1, <1>6, <1>7, <1>8 DEF RingsInv
  <2>2. \A n \in 1..Len(used) : \E q \in Procs : Busy(q)' /\ idx'[q] = used[n]
    BY Zenon, <1>6, <1>7 DEF RingsInv
  <2> QED BY Zenon, <1>2, <2>1, <2>2 DEF RingsInv
<1> QED BY Zenon, <1>2, <1>9, <1>10, <1>11, <1>12, <1>14, <1>15

\* A request ends: its descriptors are free again, and who waits for some is woken.
LEMMA WakeDriver ==
  ASSUME CacheInv, DriverInv, UNCHANGED <<bpc, want, buf>>, NEW p \in Procs, Wake(p), Finished(p)
  PROVE  DriverInv'
<1> USE DEF DriverInv
<1> DEFINE C == Chain(idx[p])
<1>1. /\ rpc[p] = "disk" /\ ~bdisk[req[p].buf]
      /\ info' = [info EXCEPT ![idx[p]] = None]
      /\ free' = free \cup C
      /\ next' = [i \in Desc |-> IF i \in C THEN None ELSE next[i]]
      /\ ops' = [ops EXCEPT ![idx[p]] = None]
      /\ dpanic' = (dpanic \/ free \cap C # {})
      /\ rpc' = [WakeAlloc EXCEPT ![p] = "none"]
      /\ idx' = [idx EXCEPT ![p] = None]
      /\ req' = [req EXCEPT ![p] = None]
      /\ UNCHANGED <<avail, used, irq, intr, bdisk>>
  BY Zenon DEF Wake, Finished
<1>2. /\ Busy(p) /\ ChainOf(p) /\ RingOf(p)
      /\ C \subseteq Desc \ free /\ idx[p] \in Desc /\ idx[p] \in C
  BY Zenon, <1>1 DEF Busy, ChainOf, Chain
<1>3. ~dpanic'
  BY Zenon, <1>1, <1>2
<1>4. \A q \in Procs : /\ (Busy(q)' <=> Busy(q) /\ q # p)
                       /\ q # p => /\ req'[q] = req[q] /\ idx'[q] = idx[q]
                                   /\ (rpc'[q] = "none" <=> rpc[q] = "none")
                       /\ Busy(q)' => rpc'[q] = rpc[q]
                       /\ rpc'[p] = "none"
  BY Zenon, <1>1 DEF Busy, WakeAlloc, DriverType
<1> HIDE DEF C
<1>5. \A q \in Procs : Busy(q) /\ q # p =>
        /\ idx[q] \in Desc /\ Chain(idx[q]) \cap C = {} /\ idx[q] \notin C
        /\ Chain(idx[q])' = Chain(idx[q])
  <2> SUFFICES ASSUME NEW q \in Procs, Busy(q), q # p
               PROVE  /\ idx[q] \in Desc /\ Chain(idx[q]) \cap C = {} /\ idx[q] \notin C
                      /\ Chain(idx[q])' = Chain(idx[q])
    BY Zenon
  <2>1. Chain(idx[q]) \cap C = {} /\ Chain(idx[q]) \subseteq Desc /\ idx'[q] = idx[q]
    BY Zenon, <1>2, <1>4 DEF ChainsInv, ChainOf, C
  <2>2. idx[q] \in Chain(idx[q]) /\ next[idx[q]] \in Chain(idx[q])
    BY Zenon DEF Chain
  <2>3. next'[idx[q]] = next[idx[q]] /\ next'[next[idx[q]]] = next[next[idx[q]]]
    BY Zenon, <1>1, <2>1, <2>2
  <2> QED BY Zenon, <2>1, <2>2, <2>3 DEF Chain
<1>6. DriverType'
  <2>1. free' \in SUBSET Desc /\ next' \in [Desc -> Desc \cup {None}]
    BY Zenon, <1>1, <1>2 DEF DriverType
  <2>2. ops' \in [Desc -> Requests \cup {None}] /\ info' \in [Desc -> Bufs \cup {None}]
    BY Zenon, <1>1, <1>2 DEF DriverType
  <2>3. rpc' \in [Procs -> {"none", "alloc", "sleep_alloc", "sleep_disk", "disk"}]
    BY Zenon, <1>1 DEF WakeAlloc, DriverType
  <2>4. req' \in [Procs -> Requests \cup {None}] /\ idx' \in [Procs -> Desc \cup {None}]
    BY Zenon, <1>1 DEF DriverType
  <2> QED BY Zenon, <1>1, <2>1, <2>2, <2>3, <2>4 DEF DriverType
<1>7. \A q \in Procs : CallOf(q)'
  BY <1>4 DEF CallOf
<1>8. ASSUME NEW q \in Procs PROVE ChainOf(q)'
  <2> SUFFICES ASSUME Busy(q)' PROVE ChainOf(q)'
    BY Zenon DEF ChainOf
  <2>1. Busy(q) /\ q # p /\ ChainOf(q) /\ req'[q] = req[q] /\ idx'[q] = idx[q]
    BY Zenon, <1>4
  <2>2. /\ idx[q] \in Desc /\ idx[q] # idx[p] /\ Chain(idx[q])' = Chain(idx[q])
        /\ Chain(idx[q]) \cap C = {}
    BY Zenon, <1>2, <1>5, <2>1
  <2>3. info'[idx[q]] = info[idx[q]] /\ ops'[idx[q]] = ops[idx[q]]
    BY Zenon, <1>1, <2>2 DEF DriverType
  <2> QED BY Zenon, <1>1, <2>1, <2>2, <2>3 DEF ChainOf
<1>9. ChainsInv'
  <2>1. \A q, r \in Procs : Busy(q)' /\ Busy(r)' /\ q # r => Chain(idx[q])' \cap Chain(idx[r])' = {}
    BY <1>4, <1>5 DEF ChainsInv
  <2>2. ASSUME NEW d \in Desc \ free' PROVE \E q \in Procs : Busy(q)' /\ d \in Chain(idx[q])'
    <3>1. d \in Desc \ free /\ d \notin C
      BY Zenon, <1>1, <2>2
    <3>2. PICK q \in Procs : Busy(q) /\ d \in Chain(idx[q])
      BY Zenon, <3>1 DEF ChainsInv
    <3> QED BY Zenon, <1>4, <1>5, <3>1, <3>2 DEF C
  <2> QED BY Zenon, <2>1, <2>2 DEF ChainsInv
<1>10. ASSUME NEW q \in Procs PROVE RingOf(q)'
  <2>1. InUsed(idx[q])' <=> InUsed(idx'[q])
    BY Zenon, <1>1 DEF InUsed
  <2> QED BY <1>1, <1>4, <2>1 DEF RingOf
<1>11. RingsInv'
  <2>1. \A d \in avail : d # idx[p]
    BY Zenon, <1>1, <1>2 DEF RingOf
  <2>2. \A n \in 1..Len(used) : used[n] # idx[p]
    BY Zenon, <1>1, <1>2 DEF RingOf, InUsed
  <2> QED BY SMTT(20), <1>1, <1>4, <2>1, <2>2 DEF RingsInv
<1> QED BY Zenon, <1>3, <1>6, <1>7, <1>8, <1>9, <1>10, <1>11
-----------------------------------------------------------------------------
(* The device and the handler *)

\* The device moves a request from the avail ring to the used ring.
LEMMA DeviceDriver ==
  ASSUME DriverInv, UNCHANGED <<bpc, want, buf>>, NEW i \in Desc, DeviceFinish(i)
  PROVE  DriverInv'
<1> USE DEF DriverInv
<1>1. /\ i \in avail /\ avail' = avail \ {i} /\ used' = Append(used, i) /\ irq'
      /\ UNCHANGED <<free, next, ops, info, intr, bdisk, rpc, req, idx, dpanic>>
  BY Zenon DEF DeviceFinish, callVars
<1>2. PICK p \in Procs : Busy(p) /\ idx[p] = i
  BY Zenon, <1>1 DEF RingsInv
<1>3. /\ used \in Seq(Desc) /\ Len(used) \in Nat /\ Len(used') = Len(used) + 1
      /\ \A n \in 1..Len(used) : used'[n] = used[n]
      /\ used'[Len(used) + 1] = i
  BY <1>1 DEF DriverType
<1>4. \A d : InUsed(d)' <=> InUsed(d) \/ d = i
  BY <1>3 DEF InUsed
<1>5. ~InUsed(i)
  BY Zenon, <1>1, <1>2 DEF RingOf
<1>6. DriverType'
  BY <1>1 DEF DriverType
<1>7. \A q \in Procs : CallOf(q)'
  BY ZenonT(30), <1>1 DEF CallOf
<1>8. ChainsInv' /\ (\A q \in Procs : ChainOf(q)')
  <2>1. \A q \in Procs : (Busy(q)' <=> Busy(q)) /\ Chain(idx[q])' = Chain(idx[q])
    BY Zenon, <1>1 DEF Busy, Chain
  <2>2. ChainsInv'
    BY SMTT(20), <1>1, <2>1 DEF ChainsInv
  <2>3. ASSUME NEW q \in Procs PROVE ChainOf(q)'
    <3>1. ChainOf(q)
      BY Zenon
    <3> QED BY Zenon, <1>1, <2>1, <3>1 DEF ChainOf
  <2> QED BY Zenon, <2>2, <2>3
<1>9. ASSUME NEW q \in Procs PROVE RingOf(q)'
  <2>1. RingOf(q) /\ (Busy(q)' <=> Busy(q))
    BY Zenon, <1>1 DEF Busy
  <2>2. InUsed(idx[q])' <=> InUsed(idx[q]) \/ idx[q] = i
    BY Zenon, <1>1, <1>4 DEF InUsed
  <2> QED BY Zenon, <1>1, <1>5, <2>1, <2>2 DEF RingOf
<1>10. RingsInv'
  <2>1. \A q \in Procs : Busy(q)' <=> Busy(q)
    BY Zenon, <1>1 DEF Busy
  <2>2. \A d \in avail' : \E q \in Procs : Busy(q)' /\ idx'[q] = d
    BY ZenonT(30), <1>1, <2>1 DEF RingsInv
  <2>3. ASSUME NEW n \in 1..Len(used') PROVE \E q \in Procs : Busy(q)' /\ idx'[q] = used'[n]
    <3>1. n \in 1..Len(used) \/ n = Len(used) + 1
      BY <1>3
    <3>2. CASE n \in 1..Len(used)
      <4>1. PICK q \in Procs : Busy(q) /\ idx[q] = used[n]
        BY Zenon, <3>2 DEF RingsInv
      <4> QED BY Zenon, <1>1, <1>3, <2>1, <3>2, <4>1
    <3>3. CASE n = Len(used) + 1
      BY Zenon, <1>1, <1>2, <1>3, <2>1, <3>3
    <3> QED BY Zenon, <3>1, <3>2, <3>3
  <2>4. ASSUME NEW m \in 1..Len(used'), NEW n \in 1..Len(used'), used'[m] = used'[n]
        PROVE  m = n
    BY <1>3, <1>5, <2>4 DEF RingsInv, InUsed
  <2> QED BY Zenon, <1>1, <2>2, <2>3, <2>4 DEF RingsInv
<1> QED BY Zenon, <1>1, <1>6, <1>7, <1>8, <1>9, <1>10

\* The handler takes an entry of the used ring: it finds the buffer of the request, and
\* only that buffer's request ends.
LEMMA EntryDriver ==
  ASSUME CacheInv, DriverInv, UNCHANGED <<bpc, want, buf>>, IntrEntry
  PROVE  DriverInv'
<1> USE DEF DriverInv
<1> DEFINE h == Head(used)
           b == info[h]
<1>1. /\ used \in Seq(Desc) /\ Len(used) \in Nat /\ Len(used) >= 1 /\ h = used[1]
      /\ used' = Tail(used) /\ Len(used') = Len(used) - 1
      /\ \A n \in 1..Len(used') : used'[n] = used[n + 1]
  BY DEF IntrEntry, DriverType
<1>2. PICK p \in Procs : Busy(p) /\ idx[p] = h
  BY <1>1 DEF RingsInv
<1>3. /\ CallOf(p) /\ ChainOf(p) /\ RingOf(p) /\ rpc[p] # "none"
      /\ b = req[p].buf /\ b \in Bufs /\ b # None
      /\ \A q \in Procs : Busy(q) /\ q # p => req[q].buf # b /\ req[q].buf \in Bufs /\ idx[q] # h
  <2>1. CallOf(p) /\ ChainOf(p) /\ RingOf(p) /\ rpc[p] # "none" /\ b = req[p].buf
    BY Zenon, <1>2 DEF Busy, ChainOf
  <2>2. b \in Bufs /\ b # None
    BY Zenon, <2>1, OneRequest, VirtioConstants
  <2>3. ASSUME NEW q \in Procs, Busy(q), q # p
        PROVE  req[q].buf # b /\ req[q].buf \in Bufs /\ idx[q] # h
    <3>1. rpc[q] # "none" /\ CallOf(q)
      BY Zenon, <2>3 DEF Busy
    <3>2. req[q].buf # req[p].buf /\ req[q].buf \in Bufs
      BY Zenon, <2>1, <2>3, <3>1, OneRequest
    <3>3. Chain(idx[p]) \cap Chain(idx[q]) = {}
      BY Zenon, <1>2, <2>3 DEF ChainsInv
    <3> QED BY Zenon, <1>2, <2>1, <3>2, <3>3 DEF Chain
  <2> QED BY Zenon, <2>1, <2>2, <2>3
<1>4. /\ bdisk' = [bdisk EXCEPT ![b] = FALSE] /\ rpc' = WakeDisk(b)
      /\ UNCHANGED <<dpanic, free, next, ops, info, avail, irq, intr, req, idx>>
  BY Zenon, <1>3 DEF IntrEntry
<1> HIDE DEF h, b
<1>5. \A d : d # h => (InUsed(d)' <=> InUsed(d))
  <2> SUFFICES ASSUME NEW d, d # h PROVE InUsed(d)' <=> InUsed(d)
    BY Zenon
  <2>1. ASSUME NEW n \in 1..Len(used), used[n] = d PROVE InUsed(d)'
    <3>1. n - 1 \in 1..Len(used') /\ used'[n - 1] = d
      BY <1>1, <2>1
    <3> QED BY Zenon, <3>1 DEF InUsed
  <2>2. ASSUME NEW n \in 1..Len(used'), used'[n] = d PROVE InUsed(d)
    <3>1. n + 1 \in 1..Len(used) /\ used[n + 1] = d
      BY <1>1, <2>2
    <3> QED BY Zenon, <3>1 DEF InUsed
  <2> QED BY Zenon, <2>1, <2>2 DEF InUsed
<1>6. \A d : d = h => ~InUsed(d)' /\ InUsed(d)
  <2>1. ASSUME NEW n \in 1..Len(used') PROVE used'[n] # h
    <3>1. n + 1 \in 1..Len(used) /\ 1 \in 1..Len(used) /\ n + 1 # 1 /\ used'[n] = used[n + 1]
      BY <1>1
    <3> QED BY Zenon, <1>1, <3>1 DEF RingsInv
  <2>2. 1 \in 1..Len(used) /\ used[1] = h
    BY <1>1
  <2> QED BY Zenon, <2>1, <2>2 DEF InUsed
<1>7. \A q \in Procs : /\ Busy(q)' <=> Busy(q)
                       /\ rpc'[q] = "none" <=> rpc[q] = "none"
                       /\ rpc'[q] = "sleep_disk" => rpc[q] = "sleep_disk" /\ q # p
  BY Zenon, <1>2, <1>3, <1>4 DEF Busy, WakeDisk, DriverType
<1>8. DriverType'
  <2>1. rpc' \in [Procs -> {"none", "alloc", "sleep_alloc", "sleep_disk", "disk"}]
    BY Zenon, <1>4 DEF WakeDisk, DriverType
  <2>2. used' \in Seq(Desc)
    BY <1>1
  <2>3. bdisk' \in [Bufs -> BOOLEAN]
    BY Zenon, <1>4 DEF DriverType
  <2> QED BY Zenon, <1>4, <2>1, <2>2, <2>3 DEF DriverType
<1>9. \A q \in Procs : CallOf(q)'
  BY Zenon, <1>4, <1>7 DEF CallOf
<1>10. ChainsInv' /\ (\A q \in Procs : ChainOf(q)')
  BY SMTT(20), <1>4, <1>7 DEF ChainsInv, ChainOf, Chain
<1>11. ASSUME NEW q \in Procs PROVE RingOf(q)'
  <2>1. CASE q = p
    <3>1. ~bdisk'[req'[q].buf] /\ ~InUsed(idx[q])' /\ idx'[q] \notin avail'
      <4>1. ~bdisk'[req'[q].buf]
        BY Zenon, <1>3, <1>4, <2>1 DEF DriverType
      <4>2. ~InUsed(idx[q])'
        BY Zenon, <1>2, <1>4, <1>6, <2>1 DEF InUsed
      <4>3. InUsed(idx[q])
        BY Zenon, <1>2, <1>6, <2>1
      <4> QED BY Zenon, <1>2, <1>3, <1>4, <2>1, <4>1, <4>2, <4>3 DEF RingOf
    <3> QED BY Zenon, <1>7, <2>1, <3>1 DEF RingOf
  <2>2. CASE q # p /\ Busy(q)
    <3>1. bdisk'[req'[q].buf] = bdisk[req[q].buf] /\ idx'[q] = idx[q] /\ idx[q] # h
      BY Zenon, <1>3, <1>4, <2>2 DEF DriverType
    <3>2. InUsed(idx[q])' <=> InUsed(idx[q])
      BY ZenonT(30), <1>5, <3>1 DEF InUsed
    <3>3. RingOf(q)
      BY Zenon
    <3> QED BY Zenon, <1>4, <1>7, <2>2, <3>1, <3>2, <3>3 DEF RingOf
  <2> QED BY Zenon, <1>7, <2>1, <2>2 DEF RingOf
<1>12. RingsInv'
  <2>1. \A d \in avail' : \E q \in Procs : Busy(q)' /\ idx'[q] = d
    BY Zenon, <1>4, <1>7 DEF RingsInv
  <2>2. ASSUME NEW n \in 1..Len(used') PROVE \E q \in Procs : Busy(q)' /\ idx'[q] = used'[n]
    <3>1. n + 1 \in 1..Len(used) /\ used'[n] = used[n + 1]
      BY <1>1
    <3>2. PICK q \in Procs : Busy(q) /\ idx[q] = used[n + 1]
      BY Zenon, <3>1 DEF RingsInv
    <3> QED BY Zenon, <1>4, <1>7, <3>1, <3>2
  <2>3. ASSUME NEW m \in 1..Len(used'), NEW n \in 1..Len(used'), used'[m] = used'[n]
        PROVE  m = n
    <3>1. /\ n + 1 \in 1..Len(used) /\ used'[n] = used[n + 1]
          /\ m + 1 \in 1..Len(used) /\ used'[m] = used[m + 1]
      BY <1>1
    <3>2. m + 1 = n + 1
      BY Zenon, <2>3, <3>1 DEF RingsInv
    <3> QED BY <3>2
  <2>4. irq' \/ intr'
    BY <1>4 DEF IntrEntry
  <2> QED BY Zenon, <2>1, <2>2, <2>3, <2>4 DEF RingsInv
<1> QED BY Zenon, <1>4, <1>8, <1>9, <1>10, <1>11, <1>12

\* The invariant is inductive, given the one of the buffer cache.
LEMMA DriverNext == CacheInv /\ DriverInv /\ [Next]_vars => DriverInv'
<1> SUFFICES ASSUME CacheInv, DriverInv, [Next]_vars PROVE DriverInv'
  BY Zenon
<1>1. ASSUME DiskNext, UNCHANGED <<bufVars, useVars>> PROVE DriverInv'
  <2>1. UNCHANGED <<bpc, want, buf>>
    BY Zenon, <1>1 DEF useVars
  <2> QED
    BY Zenon, <1>1, <2>1, SubmitDriver, WakeDriver, MoveDriver, DeviceDriver, EntryDriver DEF DiskNext
<1>2. CASE UNCHANGED vars
  <2>1. UNCHANGED <<rpc, req, bpc, want, buf, irq, intr, free, next, ops, info, avail, used,
                    bdisk, idx, dpanic>>
    BY Zenon, <1>2 DEF vars, diskVars, devVars, callVars, useVars
  <2>2. \A q \in Procs : CallOf(q)' /\ (Busy(q)' <=> Busy(q))
    BY Zenon, <2>1 DEF DriverInv, CallOf, Busy
  <2>3. \A q \in Procs : rpc'[q] = "sleep_disk" => bdisk[req[q].buf]
    BY Zenon, <2>1 DEF DriverInv, RingOf, Busy
  <2> QED BY Zenon, <2>1, <2>2, <2>3, SameRings DEF DriverInv, DriverType, RingsInv
<1> QED BY Zenon, <1>1, <1>2, UseDriver DEF Next
-----------------------------------------------------------------------------
(* Contents: the steps of the driver *)

\* p has no request, or the device has carried it out.
Done(p) == rpc[p] = "none" \/ (Busy(p) /\ idx[p] \notin avail)

\* The invariant holds initially.
LEMMA DataInit == Init => DataInv
<1> SUFFICES ASSUME Init PROVE DataInv
  BY Zenon
<1>1. DataType
  BY Zenon DEF Init, DiskInit, DataType
<1>2. ValidInv
  BY Zenon DEF Init, ValidInv
<1>3. \A p \in Procs : HolderOf(p)
  BY Zenon DEF Init, HolderOf
<1>4. \A k \in Blocks : Kept(k)
  BY Zenon DEF Init, Kept
<1> QED BY Zenon, <1>1, <1>2, <1>3, <1>4 DEF DataInv

\* Holders have different buffers and different blocks.
LEMMA HoldersApart ==
  ASSUME CacheInv, NEW p \in Procs, bpc[p] \in Holding
  PROVE  /\ buf[p] \in Bufs /\ want[p] \in Blocks /\ blockno[buf[p]] = want[p]
         /\ \A c \in Bufs : c # buf[p] => blockno[c] # want[p]
         /\ \A q \in Procs : bpc[q] \in Holding /\ q # p =>
              buf[q] # buf[p] /\ want[q] # want[p] /\ buf[q] \in Bufs /\ want[q] \in Blocks
<1> USE DEF CacheInv
<1>1. \A q \in Procs : bpc[q] \in Holding =>
        /\ buf[q] \in Bufs /\ want[q] \in Blocks /\ blockno[buf[q]] = want[q]
        /\ locked[buf[q]] = q
  BY Zenon DEF UseInv, LockInv, Holding
<1>2. \A c \in Bufs : c # buf[p] => blockno[c] # want[p]
  BY <1>1, BcacheConstants DEF BlockInv
<1> QED BY <1>1, <1>2

\* The platter has the latest contents of a block whose buffer is not valid.
LEMMA PlatterHas ==
  ASSUME CacheInv, DataInv, NEW p \in Procs, bpc[p] \in Holding, ~valid[buf[p]]
  PROVE  platter[want[p]] = latest[want[p]]
BY HoldersApart DEF DataInv, Kept

\* The steps of the driver without those of the device leave the contents alone.
LEMMA DriverData ==
  ASSUME DriverInv, DataInv,
         UNCHANGED <<data, platter, latest, valid, blockno, pinned, bpc, buf, want>>,
         \A q \in Procs : Done(q)' => Done(q)
  PROVE  DataInv'
<1> USE DEF DataInv
<1>1. DataType' /\ ValidInv'
  BY Zenon DEF DataType, ValidInv
<1>2. \A q \in Procs : HolderOf(q)'
  <2> SUFFICES ASSUME NEW q \in Procs PROVE HolderOf(q)'
    BY Zenon
  <2>1. HolderOf(q) /\ (Done(q)' => Done(q))
    BY Zenon
  <2> QED BY Zenon, <2>1 DEF HolderOf, Done
<1>3. \A k \in Blocks : Kept(k)'
  BY DEF Kept
<1> QED BY Zenon, <1>1, <1>2, <1>3

\* Only the end of a transfer makes a request done.
LEMMA DoneKept ==
  ASSUME DriverInv, NEW p \in Procs,
         Submit(p) \/ AllocFails(p) \/ Wake(p) \/ KillWakes(p),
         NEW q \in Procs, Done(q)'
  PROVE  Done(q)
<1> USE DEF DriverInv, DriverType, Done, Busy
<1>1. CASE Submit(p)
  <2>1. PICK i \in free : avail' = avail \cup {i} /\ idx' = [idx EXCEPT ![p] = i]
    BY Zenon, <1>1 DEF Submit
  <2>2. rpc' = [rpc EXCEPT ![p] = "sleep_disk"]
    BY Zenon, <1>1 DEF Submit
  <2> QED BY Zenon, <2>1, <2>2
<1>2. CASE AllocFails(p)
  BY Zenon, <1>2 DEF AllocFails, WakeAlloc, devVars
<1>3. CASE KillWakes(p)
  BY Zenon, <1>3 DEF KillWakes, devVars
<1>4. CASE Wake(p) /\ ~Finished(p)
  BY Zenon, <1>4 DEF Wake
<1>5. CASE Wake(p) /\ Finished(p)
  <2>1. RingOf(p) /\ rpc[p] = "disk" /\ ~bdisk[req[p].buf]
    BY Zenon, <1>5 DEF Wake, Finished
  <2>2. Done(p)
    BY Zenon, <2>1 DEF RingOf
  <2>3. /\ rpc' = [WakeAlloc EXCEPT ![p] = "none"] /\ idx' = [idx EXCEPT ![p] = None]
        /\ avail' = avail
    BY Zenon, <1>5 DEF Wake
  <2> QED BY Zenon, <2>2, <2>3 DEF WakeAlloc
<1> QED BY Zenon, <1>1, <1>2, <1>3, <1>4, <1>5

\* The device writes a valid buffer, or reads what the platter has of the latest contents.
LEMMA DeviceData ==
  ASSUME CacheInv, DriverInv, DataInv, UNCHANGED <<bufVars, useVars>>,
         NEW i \in Desc, DeviceFinish(i)
  PROVE  DataInv'
<1> USE DEF DataInv
<1>1. /\ i \in avail /\ avail' = avail \ {i} /\ UNCHANGED <<rpc, req, idx>>
      /\ UNCHANGED <<blockno, valid, bpc, want, buf, pinned, latest>>
  BY Zenon DEF DeviceFinish, callVars, bufVars, useVars
<1>2. PICK p \in Procs : Busy(p) /\ idx[p] = i
  BY Zenon, <1>1 DEF DriverInv, RingsInv
<1>3. /\ bpc[p] \in {"reading", "writing"} /\ bpc[p] \in Holding
      /\ ops[i].buf = buf[p] /\ ops[i].blk = want[p] /\ (ops[i].write <=> bpc[p] = "writing")
  BY Zenon, <1>2 DEF DriverInv, ChainOf, CallOf, Busy, Holding
<1>4. buf[p] \in Bufs /\ want[p] \in Blocks /\ blockno[buf[p]] = want[p] /\ want[p] # None
  BY Zenon, <1>3, HoldersApart, BcacheConstants
<1>5. ASSUME NEW q \in Procs, q # p PROVE Done(q)' => Done(q)
  <2>1. Busy(q) => idx[q] # i
    <3>1. Busy(q) => Chain(idx[p]) \cap Chain(idx[q]) = {}
      BY Zenon, <1>2, <1>5 DEF DriverInv, ChainsInv
    <3> QED BY Zenon, <1>2, <3>1 DEF Chain
  <2> QED BY Zenon, <1>1, <2>1 DEF Done, Busy
<1>6. CASE bpc[p] = "writing"
  <2>1. /\ platter' = [platter EXCEPT ![want[p]] = data[buf[p]]] /\ data' = data
        /\ data[buf[p]] = latest[want[p]]
    BY Zenon, <1>3, <1>4, <1>6 DEF DeviceFinish, HolderOf, ValidInv
  <2>2. DataType' /\ ValidInv'
    BY Zenon, <1>1, <1>4, <2>1 DEF DataType, ValidInv
  <2>3. ASSUME NEW q \in Procs PROVE HolderOf(q)'
    <3>1. HolderOf(q) /\ (q = p => bpc[q] = "writing") /\ (q # p => (Done(q)' => Done(q)))
      BY Zenon, <1>5, <1>6
    <3> QED BY Zenon, <1>1, <2>1, <3>1 DEF HolderOf, Done
  <2>4. \A k \in Blocks : Kept(k)'
    BY <1>1, <1>4, <2>1 DEF Kept, DataType
  <2> QED BY Zenon, <2>2, <2>3, <2>4
<1>7. CASE bpc[p] = "reading"
  <2>1. /\ data' = [data EXCEPT ![buf[p]] = platter[want[p]]] /\ platter' = platter
        /\ ~valid[buf[p]]
    BY Zenon, <1>3, <1>7 DEF DeviceFinish, HolderOf
  <2>2. platter[want[p]] = latest[want[p]]
    BY Zenon, <1>3, <2>1, PlatterHas
  <2>3. DataType' /\ ValidInv'
    BY Zenon, <1>1, <1>4, <2>1 DEF DataType, ValidInv
  <2>4. ASSUME NEW q \in Procs PROVE HolderOf(q)'
    <3>1. CASE q = p
      BY Zenon, <1>1, <1>4, <1>7, <2>1, <2>2, <3>1 DEF HolderOf, DataType
    <3>2. CASE q # p
      <4>1. HolderOf(q) /\ (Done(q)' => Done(q))
        BY Zenon, <1>5, <3>2
      <4>2. bpc[q] = "reading" => data'[buf[q]] = data[buf[q]]
        BY Zenon, <1>3, <2>1, <3>2, HoldersApart DEF Holding, DataType
      <4> QED BY Zenon, <1>1, <4>1, <4>2 DEF HolderOf, Done
    <3> QED BY Zenon, <3>1, <3>2
  <2>5. \A k \in Blocks : Kept(k)'
    BY <1>1, <2>1 DEF Kept
  <2> QED BY Zenon, <2>3, <2>4, <2>5
<1> QED BY Zenon, <1>3, <1>6, <1>7
-----------------------------------------------------------------------------
(* Contents: the steps of the buffer cache *)

\* At these places it matters what the buffer has.
Reads == {"reading", "have", "writing"}

\* A process that neither reads nor has a buffer, before and after, changes no contents.
LEMMA QuietData ==
  ASSUME DataInv, NEW p \in Procs, bpc[p] \notin Reads, bpc'[p] \notin Reads,
         \A q \in Procs \ {p} : bpc'[q] = bpc[q] /\ buf'[q] = buf[q] /\ want'[q] = want[q],
         UNCHANGED <<data, platter, latest, valid, blockno, pinned, rpc, idx, avail>>
  PROVE  DataInv'
<1> USE DEF DataInv
<1>1. DataType' /\ ValidInv'
  BY Zenon DEF DataType, ValidInv
<1>2. ASSUME NEW q \in Procs PROVE HolderOf(q)'
  <2>1. HolderOf(q)
    BY Zenon
  <2>2. CASE q = p
    BY Zenon, <2>2 DEF HolderOf, Reads
  <2>3. CASE q # p
    BY Zenon, <2>1, <2>3 DEF HolderOf, Busy
  <2> QED BY Zenon, <2>2, <2>3
<1>3. \A k \in Blocks : Kept(k)'
  BY DEF Kept, Reads
<1> QED BY Zenon, <1>1, <1>2, <1>3

\* bget() recycles a buffer whose contents the platter has.
LEMMA RecycleData ==
  ASSUME CacheInv, FreeInv, DataInv,
         NEW p \in Procs, bpc[p] = "idle", bpc' = [bpc EXCEPT ![p] = "lock"],
         NEW k \in Blocks, \A b \in Bufs : blockno[b] # k,
         NEW c \in Bufs, Recycled(c),
         blockno' = [blockno EXCEPT ![c] = k], valid' = [valid EXCEPT ![c] = FALSE],
         buf' = [buf EXCEPT ![p] = c], want' = [want EXCEPT ![p] = k],
         UNCHANGED <<diskVars, pinned, latest>>
  PROVE  DataInv'
<1> USE DEF DataInv
<1>1. /\ UNCHANGED <<data, platter, rpc, idx, avail>>
  BY Zenon DEF diskVars, devVars, callVars
<1>2. (\A q \in Procs : buf[q] # c) /\ blockno[c] \notin pinned
  BY Zenon DEF FreeInv, Recycled
<1>3. /\ bpc'[p] = "lock"
      /\ \A q \in Procs \ {p} : bpc'[q] = bpc[q] /\ buf'[q] = buf[q] /\ want'[q] = want[q]
      /\ \A b \in Bufs \ {c} : blockno'[b] = blockno[b] /\ valid'[b] = valid[b]
      /\ valid'[c] = FALSE
  BY Zenon DEF CacheInv, CacheType
<1>4. DataType' /\ ValidInv'
  BY <1>1, <1>3 DEF DataType, ValidInv
<1>5. ASSUME NEW q \in Procs PROVE HolderOf(q)'
  <2>1. CASE q = p
    BY ZenonT(30), <1>3, <2>1 DEF HolderOf
  <2>2. CASE q # p /\ bpc[q] \in Reads
    <3>1. buf[q] \in Bufs \ {c} /\ HolderOf(q)
      BY Zenon, <1>2, <2>2 DEF CacheInv, UseInv, Reads
    <3> QED BY <1>1, <1>3, <2>2, <3>1 DEF HolderOf, Busy
  <2>3. CASE q # p /\ bpc[q] \notin Reads
    BY Zenon, <1>3, <2>3 DEF HolderOf, Reads
  <2> QED BY Zenon, <2>1, <2>2, <2>3
<1>6. ASSUME NEW j \in Blocks PROVE Kept(j)'
  <2>1. CASE platter[j] = latest[j]
    BY Zenon, <1>1, <2>1 DEF Kept
  <2>2. ASSUME NEW b \in Bufs, blockno[b] = j, valid[b],
               j \in pinned \/ \E q \in Procs : buf[q] = b /\ bpc[q] \in {"have", "writing"}
        PROVE  Kept(j)'
    <3>1. b # c
      BY Zenon, <1>2, <2>2
    <3>2. blockno'[b] = j /\ valid'[b]
      BY <1>3, <2>2, <3>1
    <3>3. \/ j \in pinned'
          \/ \E q \in Procs : buf'[q] = b /\ bpc'[q] \in {"have", "writing"}
      BY Zenon, <1>3, <2>2
    <3> QED BY <3>2, <3>3 DEF Kept
  <2> QED BY Zenon, <2>1, <2>2 DEF Kept
<1> QED BY Zenon, <1>4, <1>5, <1>6

\* bread() before the transfer and without one, and bwrite().
LEMMA CallData ==
  ASSUME CacheInv, DriverInv, DataInv, NEW p \in Procs, CheckValid(p) \/ Bwrite(p)
  PROVE  DataInv'
<1> USE DEF DataInv
<1>1. /\ UNCHANGED <<data, platter, latest, valid, blockno, pinned, idx, avail, buf, want>>
      /\ bpc[p] \in {"check", "have"}
  BY Zenon DEF CheckValid, Bwrite, bufVars, devVars
<1>2. locked[buf[p]] = p
  BY Zenon, <1>1 DEF CacheInv, LockInv, Holding
<1>3. \/ bpc' = [bpc EXCEPT ![p] = "reading"] /\ ~valid[buf[p]] /\ rpc'[p] = "alloc"
      \/ bpc' = [bpc EXCEPT ![p] = "have"] /\ valid[buf[p]]
      \/ bpc' = [bpc EXCEPT ![p] = "writing"] /\ bpc[p] = "have"
  BY Zenon, <1>2 DEF CheckValid, Bwrite, CallRw, Goto, DriverInv, DriverType
<1>4. \A q \in Procs \ {p} : rpc'[q] = rpc[q] /\ bpc'[q] = bpc[q]
  BY <1>2 DEF CheckValid, Bwrite, CallRw, Goto, DriverInv, DriverType, CacheInv, CacheType
<1>5. bpc \in [Procs -> Using \cup {"idle"}]
  BY Zenon DEF CacheInv, CacheType
<1>6. DataType' /\ ValidInv'
  BY Zenon, <1>1 DEF DataType, ValidInv
<1>7. ASSUME NEW q \in Procs PROVE HolderOf(q)'
  <2>1. HolderOf(q)
    BY Zenon
  <2>2. CASE q = p
    BY Zenon, <1>1, <1>3, <1>5, <2>1, <2>2 DEF HolderOf, Busy
  <2>3. CASE q # p
    BY ZenonT(30), <1>1, <1>4, <2>1, <2>3 DEF HolderOf, Busy
  <2> QED BY Zenon, <2>2, <2>3
<1>8. \A k \in Blocks : Kept(k)'
  <2>1. \A q \in Procs : bpc[q] \in {"have", "writing"} => bpc'[q] \in {"have", "writing"}
    BY Zenon, <1>1, <1>3, <1>4, <1>5 DEF HolderOf
  <2>2. ASSUME NEW k \in Blocks PROVE Kept(k)'
    <3>1. Kept(k)
      BY Zenon
    <3> QED BY Zenon, <1>1, <2>1, <3>1 DEF Kept
  <2> QED BY Zenon, <2>2
<1> QED BY Zenon, <1>6, <1>7, <1>8

\* virtio_disk_rw() has returned: what was read is the latest contents.
LEMMA RwDoneData ==
  ASSUME CacheInv, DataInv, NEW p \in Procs, RwDone(p)
  PROVE  DataInv'
<1> USE DEF DataInv
<1>1. /\ bpc[p] \in {"reading", "writing"} /\ rpc[p] = "none" /\ bpc[p] \in Holding
      /\ valid' = [valid EXCEPT ![buf[p]] = TRUE] /\ bpc' = [bpc EXCEPT ![p] = "have"]
      /\ UNCHANGED <<data, platter, latest, blockno, pinned, rpc, idx, avail, buf, want>>
  BY Zenon DEF RwDone, Goto, Holding, diskVars, devVars, callVars
<1>2. /\ buf[p] \in Bufs /\ want[p] \in Blocks /\ blockno[buf[p]] = want[p]
      /\ \A q \in Procs : bpc[q] \in Holding /\ q # p => buf[q] # buf[p] /\ buf[q] \in Bufs
  BY Zenon, <1>1, HoldersApart
<1>3. data[buf[p]] = latest[want[p]]
  BY Zenon, <1>1, <1>2, BcacheConstants DEF HolderOf, ValidInv
<1>4. /\ bpc'[p] = "have" /\ \A q \in Procs \ {p} : bpc'[q] = bpc[q]
      /\ valid'[buf[p]] /\ \A c \in Bufs \ {buf[p]} : valid'[c] = valid[c]
  BY Zenon, <1>1, <1>2 DEF CacheInv, CacheType
<1>5. DataType' /\ ValidInv'
  BY <1>1, <1>2, <1>3, <1>4 DEF DataType, ValidInv
<1>6. ASSUME NEW q \in Procs PROVE HolderOf(q)'
  <2>1. HolderOf(q)
    BY Zenon
  <2>2. CASE q = p
    BY Zenon, <1>1, <1>4, <2>2 DEF HolderOf
  <2>3. CASE q # p
    <3>1. bpc'[q] = bpc[q] /\ (Busy(q)' <=> Busy(q))
      BY Zenon, <1>1, <1>4, <2>3 DEF Busy
    <3>2. bpc[q] \in Holding => valid'[buf[q]] = valid[buf[q]]
      BY Zenon, <1>2, <1>4, <2>3
    <3> QED BY Zenon, <1>1, <2>1, <3>1, <3>2 DEF HolderOf, Holding
  <2> QED BY Zenon, <2>2, <2>3
<1>7. \A k \in Blocks : Kept(k)'
  <2>1. \A q \in Procs : bpc[q] \in {"have", "writing"} => bpc'[q] \in {"have", "writing"}
    BY Zenon, <1>4
  <2>2. \A c \in Bufs : valid[c] => valid'[c]
    BY Zenon, <1>4
  <2>3. ASSUME NEW k \in Blocks PROVE Kept(k)'
    <3>1. Kept(k)
      BY Zenon
    <3>2. ASSUME NEW b \in Bufs, blockno[b] = k, valid[b],
                 k \in pinned \/ \E q \in Procs : buf[q] = b /\ bpc[q] \in {"have", "writing"}
          PROVE  Kept(k)'
      <4>1. blockno'[b] = k /\ valid'[b]
        BY Zenon, <1>1, <2>2, <3>2
      <4>2. \/ k \in pinned'
            \/ \E q \in Procs : buf'[q] = b /\ bpc'[q] \in {"have", "writing"}
        BY Zenon, <1>1, <2>1, <3>2
      <4> QED BY Zenon, <4>1, <4>2 DEF Kept
    <3> QED BY Zenon, <1>1, <3>1, <3>2 DEF Kept
  <2> QED BY Zenon, <2>3
<1> QED BY Zenon, <1>5, <1>6, <1>7

\* The holder changes the contents.
LEMMA ModifyData ==
  ASSUME CacheInv, DataInv, NEW p \in Procs, NEW v \in Vals, Modify(p, v)
  PROVE  DataInv'
<1> USE DEF DataInv
<1>1. /\ bpc[p] = "have" /\ bpc[p] \in Holding
      /\ data' = [data EXCEPT ![buf[p]] = v] /\ latest' = [latest EXCEPT ![want[p]] = v]
      /\ UNCHANGED <<platter, valid, blockno, pinned, rpc, idx, avail, bpc, buf, want>>
  BY Zenon DEF Modify, Holding, bufVars, devVars, callVars
<1>2. /\ buf[p] \in Bufs /\ want[p] \in Blocks /\ blockno[buf[p]] = want[p]
      /\ \A c \in Bufs : c # buf[p] => blockno[c] # want[p]
      /\ \A q \in Procs : bpc[q] \in Holding /\ q # p =>
           buf[q] # buf[p] /\ want[q] # want[p] /\ buf[q] \in Bufs /\ want[q] \in Blocks
  BY Zenon, <1>1, HoldersApart
<1>3. DataType'
  BY Zenon, <1>1, <1>2 DEF DataType
<1>4. ValidInv'
  BY <1>1, <1>2 DEF ValidInv, DataType, CacheInv, CacheType
<1>5. ASSUME NEW q \in Procs PROVE HolderOf(q)'
  <2>1. HolderOf(q)
    BY Zenon
  <2>2. CASE q = p
    BY Zenon, <1>1, <2>1, <2>2 DEF HolderOf
  <2>3. CASE q # p
    BY Zenon, <1>1, <1>2, <2>1, <2>3 DEF HolderOf, Busy, Holding, DataType
  <2> QED BY Zenon, <2>2, <2>3
<1>6. ASSUME NEW k \in Blocks PROVE Kept(k)'
  <2>1. CASE k = want[p]
    <3>1. valid[buf[p]]
      BY Zenon, <1>1 DEF HolderOf
    <3> QED BY Zenon, <1>1, <1>2, <2>1, <3>1 DEF Kept
  <2>2. CASE k # want[p]
    <3>1. Kept(k) /\ latest'[k] = latest[k]
      BY Zenon, <1>1, <2>2 DEF DataType
    <3> QED BY <1>1, <3>1 DEF Kept
  <2> QED BY Zenon, <2>1, <2>2
<1> QED BY Zenon, <1>3, <1>4, <1>5, <1>6

\* bpin(), bunpin() and brelse(): the buffer is given up only when the platter has its
\* contents or the log keeps it.
LEMMA ReleaseData ==
  ASSUME CacheInv, DataInv, NEW p \in Procs, Bpin(p) \/ Bunpin(p) \/ Brelse(p)
  PROVE  DataInv'
<1> USE DEF DataInv
<1>1. /\ bpc[p] = "have" /\ bpc[p] \in Holding
      /\ UNCHANGED <<data, platter, latest, valid, blockno, rpc, idx, avail, buf, want>>
  BY Zenon DEF Bpin, Bunpin, Brelse, Holding, diskVars, devVars, callVars
<1>2. /\ buf[p] \in Bufs /\ want[p] \in Blocks /\ blockno[buf[p]] = want[p] /\ want[p] # None
      /\ locked[buf[p]] = p /\ valid[buf[p]] /\ data[buf[p]] = latest[want[p]]
  <2>1. /\ buf[p] \in Bufs /\ want[p] \in Blocks /\ blockno[buf[p]] = want[p]
        /\ locked[buf[p]] = p
    BY Zenon, <1>1, HolderBlock
  <2>2. valid[buf[p]]
    BY Zenon, <1>1 DEF HolderOf
  <2>3. want[p] # None
    BY Zenon, <2>1, BcacheConstants
  <2> QED BY Zenon, <2>1, <2>2, <2>3 DEF ValidInv
<1>3. \A q \in Procs : q # p => (bpc'[q] \in Reads \/ bpc[q] \in Reads => bpc'[q] = bpc[q])
  BY Zenon DEF Bpin, Bunpin, Brelse, WakeLock, Reads
<1>4. \/ bpc'[p] = "have" /\ want[p] \in pinned'
      \/ bpc'[p] \in {"have", "unref"} /\ want[p] \in pinned'
      \/ bpc'[p] \in {"have", "unref"} /\ platter[want[p]] = data[buf[p]]
  BY Zenon, <1>1, <1>2 DEF Bpin, Bunpin, Brelse, WakeLock
<1>5. \A k \in Blocks : k # want[p] => (k \in pinned' <=> k \in pinned)
  BY Zenon DEF Bpin, Bunpin, Brelse
<1>6. DataType' /\ ValidInv'
  BY Zenon, <1>1 DEF DataType, ValidInv
<1>7. ASSUME NEW q \in Procs PROVE HolderOf(q)'
  <2>1. HolderOf(q)
    BY Zenon
  <2>2. CASE q = p
    BY Zenon, <1>1, <1>2, <1>4, <2>2 DEF HolderOf
  <2>3. CASE q # p
    BY Zenon, <1>1, <1>3, <2>1, <2>3 DEF HolderOf, Busy, Reads
  <2> QED BY Zenon, <2>2, <2>3
<1>8. ASSUME NEW k \in Blocks PROVE Kept(k)'
  <2>1. CASE k = want[p]
    BY Zenon, <1>1, <1>2, <1>4, <2>1 DEF Kept
  <2>2. CASE k # want[p] /\ platter[k] = latest[k]
    BY Zenon, <1>1, <2>2 DEF Kept
  <2>3. ASSUME k # want[p], NEW b \in Bufs, blockno[b] = k, valid[b],
               k \in pinned \/ \E q \in Procs : buf[q] = b /\ bpc[q] \in {"have", "writing"}
        PROVE  Kept(k)'
    <3>1. b # buf[p]
      BY Zenon, <1>2, <2>3
    <3>2. \/ k \in pinned'
          \/ \E q \in Procs : buf'[q] = b /\ bpc'[q] \in {"have", "writing"}
      BY Zenon, <1>1, <1>3, <1>5, <2>3, <3>1 DEF Reads
    <3> QED BY Zenon, <1>1, <2>3, <3>2 DEF Kept
  <2> QED BY Zenon, <2>1, <2>2, <2>3 DEF Kept
<1> QED BY Zenon, <1>6, <1>7, <1>8

\* The invariant is inductive, given the other two and FreeInv.
LEMMA DataNext == CacheInv /\ FreeInv /\ DriverInv /\ DataInv /\ [Next]_vars => DataInv'
<1> SUFFICES ASSUME CacheInv, FreeInv, DriverInv, DataInv, [Next]_vars PROVE DataInv'
  BY Zenon
<1>1. ASSUME UNCHANGED <<data, platter>>, UNCHANGED <<bufVars, useVars>>,
             \A q \in Procs : Done(q)' => Done(q)
      PROVE  DataInv'
  BY Zenon, <1>1, DriverData DEF bufVars, useVars
<1>2. ASSUME DiskNext, UNCHANGED <<bufVars, useVars>> PROVE DataInv'
  <2>1. ASSUME NEW p \in Procs, Submit(p) \/ AllocFails(p) \/ Wake(p) \/ KillWakes(p)
        PROVE  DataInv'
    <3>1. UNCHANGED <<data, platter>>
      BY Zenon, <2>1 DEF Submit, AllocFails, Wake, KillWakes
    <3> QED BY Zenon, <1>1, <1>2, <2>1, <3>1, DoneKept
  <2>2. CASE IntrStart \/ IntrEnd \/ IntrEntry
    <3>1. UNCHANGED <<data, platter, avail, idx>>
      BY Zenon, <2>2 DEF IntrStart, IntrEnd, IntrEntry, callVars
    <3>2. \A q \in Procs : Done(q)' => Done(q)
      BY Zenon, <2>2, <3>1 DEF IntrStart, IntrEnd, IntrEntry, WakeDisk, callVars, Done, Busy
    <3> QED BY Zenon, <1>1, <1>2, <3>1, <3>2
  <2> QED BY Zenon, <1>2, <2>1, <2>2, DeviceData DEF DiskNext
<1>3. ASSUME NEW p \in Procs, UseStep(p) PROVE DataInv'
  <2>1. ASSUME NEW k \in Blocks, BgetMiss(p, k) PROVE DataInv'
    <3>1. CASE bpanic' = TRUE /\ UNCHANGED <<blockno, valid, refcnt, buf, bpc>>
      <4>1. bpc[p] = "idle" /\ UNCHANGED <<data, platter, latest, pinned, rpc, idx, avail>>
        BY Zenon, <2>1 DEF BgetMiss, diskVars, devVars, callVars
      <4>2. \A q \in Procs \ {p} : want'[q] = want[q]
        BY Zenon, <2>1 DEF BgetMiss, CacheInv, CacheType
      <4> QED BY Zenon, <3>1, <4>1, <4>2, QuietData DEF Reads
    <3> QED BY Zenon, <2>1, <3>1, RecycleData DEF BgetMiss, Goto
  <2>2. ASSUME \/ AcquireSleep(p) \/ Unref(p) \/ KillWakesLock(p)
               \/ \E k \in Blocks : BgetHit(p, k)
        PROVE  DataInv'
    <3> USE <2>2 DEF AcquireSleep, Unref, KillWakesLock, BgetHit, Goto
    <3>1. UNCHANGED <<data, platter, latest, valid, blockno, pinned, rpc, idx, avail>>
      BY Zenon DEF diskVars, devVars, callVars, bufVars
    <3>2. bpc[p] \notin Reads /\ bpc'[p] \notin Reads
      BY Zenon DEF Reads, CacheInv, CacheType
    <3>3. \A q \in Procs \ {p} : bpc'[q] = bpc[q] /\ buf'[q] = buf[q] /\ want'[q] = want[q]
      BY DEF CacheInv, CacheType
    <3> QED BY Zenon, <3>1, <3>2, <3>3, QuietData
  <2> QED
    BY Zenon, <1>3, <2>1, <2>2, CallData, RwDoneData, ModifyData, ReleaseData DEF UseStep
<1>4. CASE UNCHANGED vars
  <2>1. \A q \in Procs : Done(q)' => Done(q)
    BY Zenon, <1>4 DEF vars, diskVars, devVars, callVars, Done, Busy
  <2> QED BY Zenon, <1>1, <1>4, <2>1 DEF vars, diskVars
<1> QED BY Zenon, <1>2, <1>3, <1>4 DEF Next
-----------------------------------------------------------------------------
(* Finite sets *)

\* The empty set.
LEMMA CountZero ==
  ASSUME FiniteSetFacts
  PROVE  /\ IsFiniteSet({}) /\ Cardinality({}) = 0
         /\ \A S : IsFiniteSet(S) /\ Cardinality(S) = 0 => S = {}
BY Zenon DEF FiniteSetFacts, EmptyFact, CountFact

\* A count is a natural number.
LEMMA CountNat == ASSUME FiniteSetFacts, NEW S, IsFiniteSet(S) PROVE Cardinality(S) \in Nat
BY Zenon DEF FiniteSetFacts, CountFact

\* A part of a finite set.
LEMMA CountPart ==
  ASSUME FiniteSetFacts, NEW S, IsFiniteSet(S), NEW T, T \in SUBSET S
  PROVE  IsFiniteSet(T) /\ Cardinality(T) <= Cardinality(S)
BY Zenon DEF FiniteSetFacts, SubsetFact

\* One element more.
LEMMA CountMore ==
  ASSUME FiniteSetFacts, NEW S, NEW x, IsFiniteSet(S), x \notin S
  PROVE  IsFiniteSet(S \cup {x}) /\ Cardinality(S \cup {x}) = Cardinality(S) + 1
BY Zenon DEF FiniteSetFacts, AddFact

\* One element less.
LEMMA CountLess ==
  ASSUME FiniteSetFacts, NEW S, NEW x, IsFiniteSet(S), x \in S
  PROVE  IsFiniteSet(S \ {x}) /\ Cardinality(S \ {x}) = Cardinality(S) - 1
BY Zenon DEF FiniteSetFacts, RemoveFact
-----------------------------------------------------------------------------
(* Counts *)

\* A buffer counts its users and its pin.
CountInv == \A b \in Bufs : refcnt[b] = Cardinality(Users(b)) + Pins(b)

\* The list has every buffer.
LruInv == lru \in Seq(Bufs) /\ \A b \in Bufs : \E i \in 1..Len(lru) : lru[i] = b

\* The log pins no more blocks than it says.
PinInv == IsFiniteSet(pinned) /\ Cardinality(pinned) <= MAXPIN

\* Who sleeps for descriptors does so because there are too few.
AllocInv == \A p \in Procs : rpc[p] = "sleep_alloc" => Cardinality(free) < 3

TallyInv == CountInv /\ LruInv /\ PinInv /\ (EnoughBuffers => ~bpanic)
-----------------------------------------------------------------------------
(* Sets of users *)

\* The users of a buffer are finitely many.
LEMMA UsersFinite ==
  ASSUME FiniteSetFacts
  PROVE  \A b : IsFiniteSet(Users(b)) /\ Cardinality(Users(b)) \in Nat
<1> SUFFICES ASSUME NEW b PROVE IsFiniteSet(Users(b)) /\ Cardinality(Users(b)) \in Nat
  BY Zenon
<1>1. Users(b) \in SUBSET Procs
  BY Zenon DEF Users
<1>2. IsFiniteSet(Users(b))
  BY Zenon, <1>1, BcacheConstants, CountPart
<1> QED BY Zenon, <1>2, CountNat

\* bget() adds one user to one buffer.
LEMMA UsersAdd ==
  ASSUME FiniteSetFacts, CacheType, NEW p \in Procs, NEW b \in Bufs, buf[p] = None,
         buf' = [buf EXCEPT ![p] = b]
  PROVE  /\ Cardinality(Users(b)') = Cardinality(Users(b)) + 1
         /\ \A c \in Bufs : c # b => Users(c)' = Users(c)
<1>1. Users(b)' = Users(b) \cup {p} /\ p \notin Users(b)
  BY VirtioConstants DEF Users, CacheType
<1>2. Cardinality(Users(b) \cup {p}) = Cardinality(Users(b)) + 1
  BY Zenon, <1>1, UsersFinite, CountMore
<1>3. \A c \in Bufs : c # b => Users(c)' = Users(c)
  BY Zenon, VirtioConstants DEF Users, CacheType
<1> QED BY <1>1, <1>2, <1>3

\* brelse() takes one away.
LEMMA UsersRemove ==
  ASSUME FiniteSetFacts, CacheType, NEW p \in Procs, buf[p] \in Bufs, buf' = [buf EXCEPT ![p] = None]
  PROVE  /\ Cardinality(Users(buf[p])) = Cardinality({q \in Procs : buf'[q] = buf[p]}) + 1
         /\ \A c \in Bufs : c # buf[p] => Users(c)' = Users(c)
<1> DEFINE R == {q \in Procs : buf'[q] = buf[p]}
<1>1. R = Users(buf[p]) \ {p} /\ p \in Users(buf[p])
  BY Zenon, VirtioConstants DEF Users, CacheType
<1>2. Cardinality(R) = Cardinality(Users(buf[p])) - 1
  BY Zenon, <1>1, UsersFinite, CountLess
<1>3. Cardinality(Users(buf[p])) \in Nat
  BY Zenon, UsersFinite
<1>4. \A c \in Bufs : c # buf[p] => Users(c)' = Users(c)
  BY Zenon, VirtioConstants DEF Users, CacheType
<1> QED BY <1>2, <1>3, <1>4

\* A buffer nobody refers to has no user and no pin.
LEMMA ZeroIsFree ==
  ASSUME FiniteSetFacts
  PROVE  CountInv => FreeInv
<1> SUFFICES ASSUME CountInv, NEW b \in Bufs, refcnt[b] = 0
             PROVE  blockno[b] \notin pinned /\ \A p \in Procs : buf[p] # b
  BY Zenon DEF FreeInv
<1>1. Cardinality(Users(b)) = 0 /\ Pins(b) = 0
  BY UsersFinite DEF CountInv, Pins
<1>2. Users(b) = {}
  BY Zenon, <1>1, UsersFinite, CountZero
<1> QED BY <1>1, <1>2 DEF Users, Pins
-----------------------------------------------------------------------------
(* bget() finds a buffer *)

\* A set of positions of a list that is not empty has a last one.
LEMMA LastPosition ==
  ASSUME FiniteSetFacts, NEW n \in Nat, NEW T \in SUBSET (1..n), T # {}
  PROVE  \E i \in T : \A j \in T : j <= i
<1> DEFINE D == {n - i : i \in T}
<1>1. D \subseteq Nat /\ D # {}
  <2>1. PICK t \in T : TRUE
    BY Zenon
  <2>2. n - t \in D
    BY Zenon, <2>1
  <2> QED BY <2>2
<1>3. PICK x \in D : \A y \in D : x <= y
  BY Zenon, <1>1 DEF FiniteSetFacts, LeastFact
<1>4. PICK i \in T : x = n - i
  BY Zenon
<1>5. ASSUME NEW j \in T PROVE j <= i
  <2>1. n - i <= n - j
    BY Zenon, <1>3, <1>4
  <2>2. i \in Nat /\ j \in Nat
    OBVIOUS
  <2> HIDE DEF D
  <2> QED BY <2>1, <2>2
<1> QED BY Zenon, <1>5

\* If some buffer is free, one of them is the last in the list.
LEMMA FreeIsRecycled ==
  ASSUME FiniteSetFacts, CacheType, LruInv, NEW f \in Bufs, refcnt[f] = 0
  PROVE  \E b \in Bufs : Recycled(b)
<1> DEFINE T == {i \in 1..Len(lru) : refcnt[lru[i]] = 0}
<1>1. Len(lru) \in Nat /\ T \in SUBSET (1..Len(lru)) /\ T # {} /\ DOMAIN lru = 1..Len(lru)
  <2>1. lru \in Seq(Bufs) /\ \E i \in 1..Len(lru) : lru[i] = f
    BY DEF LruInv
  <2> QED BY <2>1
<1>2. PICK i \in T : \A j \in T : j <= i
  BY Zenon, <1>1, LastPosition
<1>3. lru[i] \in Bufs /\ i \in Nat
  BY <1>1 DEF LruInv
<1>4. \A j \in i + 1..Len(lru) : refcnt[lru[j]] # 0
  BY <1>1, <1>2, <1>3
<1> QED BY Zenon, <1>1, <1>3, <1>4 DEF Recycled

\* With enough buffers one is free whenever a process that uses none calls bget(): the
\* others use one each at most, and the log pins at most MAXPIN.
LEMMA EnoughIsFree ==
  ASSUME FiniteSetFacts, CacheInv, TallyInv, EnoughBuffers, NEW p \in Procs, bpc[p] = "idle"
  PROVE  \E b \in Bufs : refcnt[b] = 0
<1> SUFFICES ASSUME \A b \in Bufs : refcnt[b] # 0 PROVE FALSE
  BY Zenon
<1> DEFINE B1 == {b \in Bufs : Users(b) # {}}
           B2 == {b \in Bufs : blockno[b] \in pinned}
           f == [b \in B1 |-> CHOOSE q \in Procs : buf[q] = b]
           g == [b \in B2 |-> blockno[b]]
           Q == Procs \ {p}
<1>1. IsFiniteSet(Q) /\ Cardinality(Q) = Cardinality(Procs) - 1
  BY Zenon, BcacheConstants, CountLess
<1>2. IsFiniteSet(B1) /\ Cardinality(B1) <= Cardinality(Q)
  <2>1. \A b \in B1 : f[b] \in Procs /\ buf[f[b]] = b
    BY Zenon DEF Users
  <2>2. \A b \in B1 : f[b] # p
    BY <2>1, VirtioConstants DEF CacheInv, UseInv
  <2>3. f \in [B1 -> Q]
    BY Zenon, <2>1, <2>2
  <2>4. OneToOne(f, B1, Q)
    BY <2>1, <2>3 DEF OneToOne
  <2> HIDE DEF f, B1, Q
  <2> QED BY Zenon, <1>1, <2>4 DEF FiniteSetFacts, InjectionFact
<1>3. IsFiniteSet(B2) /\ Cardinality(B2) <= Cardinality(pinned)
  <2>1. g \in [B2 -> pinned]
    BY Zenon
  <2>2. \A a, b \in B2 : g[a] = g[b] => a = b
    BY Zenon, BcacheConstants DEF CacheInv, CacheType, BlockInv
  <2>3. OneToOne(g, B2, pinned)
    BY Zenon, <2>1, <2>2 DEF OneToOne
  <2>4. IsFiniteSet(pinned)
    BY Zenon DEF TallyInv, PinInv
  <2> HIDE DEF g, B2
  <2> QED BY Zenon, <2>3, <2>4 DEF FiniteSetFacts, InjectionFact
<1>4. Bufs = B1 \cup B2
  <2> SUFFICES ASSUME NEW b \in Bufs PROVE b \in B1 \/ b \in B2
    BY Zenon
  <2>1. Cardinality(Users(b)) # 0 \/ Pins(b) # 0
    BY UsersFinite DEF TallyInv, CountInv, Pins
  <2>2. Cardinality(Users(b)) # 0 => Users(b) # {}
    BY Zenon, CountZero
  <2> QED BY Zenon, <2>1, <2>2 DEF Pins
<1> HIDE DEF B1, B2, Q
<1>5. /\ Cardinality(B1 \cup B2) = Cardinality(B1) + Cardinality(B2) - Cardinality(B1 \cap B2)
      /\ IsFiniteSet(B1 \cap B2)
  <2>1. B1 \cap B2 \in SUBSET B1
    BY Zenon
  <2> QED BY <1>2, <1>3, <2>1, CountPart DEF FiniteSetFacts, UnionFact
<1>6. /\ Cardinality(B1) \in Nat /\ Cardinality(B2) \in Nat /\ Cardinality(B1 \cap B2) \in Nat
      /\ Cardinality(Procs) \in Nat /\ Cardinality(pinned) \in Nat
  BY <1>2, <1>3, <1>5, BcacheConstants, CountNat DEF TallyInv, PinInv
<1>7. Cardinality(pinned) <= MAXPIN /\ Cardinality(Bufs) >= Cardinality(Procs) + MAXPIN
  BY Zenon DEF TallyInv, PinInv, EnoughBuffers
<1>8. Cardinality(Bufs) = Cardinality(B1) + Cardinality(B2) - Cardinality(B1 \cap B2)
  BY Zenon, <1>4, <1>5
<1> QED BY <1>1, <1>2, <1>3, <1>6, <1>7, <1>8, BcacheConstants

\* Moving a buffer to the front of the list keeps every buffer in it.
LEMMA ToFrontInv ==
  ASSUME LruInv, NEW b \in Bufs, lru' = ToFront(b)
  PROVE  LruInv'
<1> DEFINE i == CHOOSE i \in DOMAIN lru : lru[i] = b
           n == Len(lru)
<1>1. lru \in [1..n -> Bufs] /\ n \in Nat /\ DOMAIN lru = 1..n
  BY DEF LruInv
<1>2. i \in 1..n /\ lru[i] = b
  BY Zenon, <1>1 DEF LruInv
<1>3. lru' = [j \in 1..n |-> IF j = 1 THEN b ELSE IF j <= i THEN lru[j - 1] ELSE lru[j]]
  BY Zenon, <1>1 DEF ToFront
<1> HIDE DEF i, n
<1>4. lru' \in [1..n -> Bufs]
  BY <1>1, <1>2, <1>3
<1>5. lru' \in Seq(Bufs) /\ Len(lru') = n
  BY <1>1, <1>4
<1>6. ASSUME NEW c \in Bufs PROVE \E j \in 1..n : lru'[j] = c
  <2>1. PICK j \in 1..n : lru[j] = c
    BY Zenon DEF LruInv, n
  <2>2. CASE j = i
    BY <1>1, <1>2, <1>3, <2>1, <2>2
  <2>3. CASE j < i
    <3>1. j + 1 \in 1..n /\ j + 1 # 1 /\ j + 1 <= i /\ (j + 1) - 1 = j
      BY <1>1, <1>2, <2>3
    <3>2. lru'[j + 1] = c
      BY <1>3, <2>1, <3>1
    <3> QED BY Zenon, <3>1, <3>2
  <2>4. CASE j > i
    <3>1. j # 1 /\ ~(j <= i)
      BY <1>1, <1>2, <2>4
    <3> QED BY <1>3, <2>1, <3>1
  <2> QED BY <1>1, <1>2, <2>2, <2>3, <2>4
<1> QED BY Zenon, <1>5, <1>6 DEF LruInv
-----------------------------------------------------------------------------
(* The steps *)

\* The counts and the list are right at boot.
LEMMA TallyInit ==
  ASSUME FiniteSetFacts
  PROVE  Init => TallyInv /\ AllocInv
<1> SUFFICES ASSUME Init PROVE TallyInv /\ AllocInv
  BY Zenon
<1>1. CountInv
  <2> SUFFICES ASSUME NEW b \in Bufs PROVE Cardinality(Users(b)) = 0 /\ Pins(b) = 0
    BY DEF Init, CountInv
  <2>1. Users(b) = {}
    BY Zenon, VirtioConstants DEF Init, Users
  <2> QED BY Zenon, <2>1, CountZero DEF Init, Pins
<1>2. LruInv
  <2>1. Cardinality(Bufs) \in Nat
    BY Zenon, BcacheConstants, CountNat
  <2>2. lru \in [1..Cardinality(Bufs) -> Bufs] /\ {lru[i] : i \in DOMAIN lru} = Bufs
    BY Zenon DEF Init
  <2>3. lru \in Seq(Bufs) /\ DOMAIN lru = 1..Len(lru)
    BY <2>1, <2>2
  <2> QED BY Zenon, <2>2, <2>3 DEF LruInv
<1>3. PinInv
  BY BcacheConstants, CountZero DEF Init, PinInv
<1>4. AllocInv
  BY Zenon DEF Init, DiskInit, AllocInv
<1> QED BY <1>1, <1>2, <1>3, <1>4 DEF TallyInv, Init

\* A step that leaves the references, the pins and the list alone keeps them right.
LEMMA QuietTally ==
  ASSUME TallyInv, UNCHANGED <<blockno, refcnt, lru, buf, pinned, bpanic>>
  PROVE  TallyInv'
<1>1. CountInv'
  BY Zenon DEF TallyInv, CountInv, Users, Pins
<1> QED BY Zenon, <1>1 DEF TallyInv, LruInv, PinInv, EnoughBuffers

\* One process starts to use buffer b, which counts it.
LEMMA AddTally ==
  ASSUME FiniteSetFacts, CacheInv, TallyInv, NEW p \in Procs, NEW b \in Bufs, buf[p] = None,
         buf' = [buf EXCEPT ![p] = b], refcnt' = [refcnt EXCEPT ![b] = refcnt[b] + 1],
         \A c \in Bufs : Pins(c)' = Pins(c)
  PROVE  CountInv'
<1> SUFFICES ASSUME NEW c \in Bufs PROVE refcnt'[c] = Cardinality(Users(c)') + Pins(c)'
  BY Zenon DEF CountInv
<1>1. Pins(c)' = Pins(c) /\ Pins(c) \in Int
  BY DEF Pins
<1>2. refcnt[c] = Cardinality(Users(c)) + Pins(c)
  BY Zenon DEF TallyInv, CountInv
<1>3. CASE c = b
  <2>1. refcnt'[b] = refcnt[b] + 1
    BY Zenon DEF CacheInv, CacheType
  <2>2. Cardinality(Users(b)') = Cardinality(Users(b)) + 1 /\ Cardinality(Users(b)) \in Nat
    BY Zenon, UsersAdd, UsersFinite DEF CacheInv
  <2> QED BY <1>1, <1>2, <1>3, <2>1, <2>2
<1>4. CASE c # b
  <2>1. refcnt'[c] = refcnt[c]
    BY Zenon, <1>4 DEF CacheInv, CacheType
  <2>2. Users(c)' = Users(c)
    BY Zenon, <1>4, UsersAdd DEF CacheInv
  <2> QED BY Zenon, <1>1, <1>2, <2>1, <2>2
<1> QED BY Zenon, <1>3, <1>4

\* bget(): the buffer found counts one more; with enough buffers there is one.
LEMMA BgetTally ==
  ASSUME FiniteSetFacts, CacheInv, TallyInv, NEW p \in Procs, NEW k \in Blocks, BgetHit(p, k) \/ BgetMiss(p, k)
  PROVE  TallyInv'
<1>1. buf[p] = None /\ bpc[p] = "idle"
  BY Zenon DEF CacheInv, UseInv, BgetHit, BgetMiss
<1>2. LruInv' /\ PinInv'
  BY Zenon DEF TallyInv, LruInv, PinInv, BgetHit, BgetMiss
<1>3. CASE BgetHit(p, k)
  <2>1. PICK b \in Bufs : refcnt' = PlusOne(b) /\ buf' = [buf EXCEPT ![p] = b]
    BY Zenon, <1>3 DEF BgetHit
  <2>2. UNCHANGED <<blockno, pinned, bpanic>>
    BY Zenon, <1>3 DEF BgetHit
  <2>3. \A c \in Bufs : Pins(c)' = Pins(c)
    BY Zenon, <2>2 DEF Pins
  <2>4. CountInv'
    BY Zenon, <1>1, <2>1, <2>3, AddTally DEF PlusOne
  <2> QED BY Zenon, <1>2, <2>2, <2>4 DEF TallyInv, EnoughBuffers
<1>4. ASSUME BgetMiss(p, k), NEW b \in Bufs, Recycled(b), blockno' = [blockno EXCEPT ![b] = k],
             refcnt' = [refcnt EXCEPT ![b] = 1], buf' = [buf EXCEPT ![p] = b], bpanic' = bpanic
      PROVE  TallyInv'
  <2>1. refcnt[b] = 0 /\ pinned' = pinned
    BY Zenon, <1>4 DEF Recycled, BgetMiss
  <2>2. blockno[b] \notin pinned /\ k \notin pinned
    BY <1>4, <2>1, ZeroIsFree DEF TallyInv, FreeInv, CacheInv, BlockInv, BgetMiss
  <2>3. \A c \in Bufs : Pins(c)' = Pins(c)
    BY Zenon, <1>4, <2>1, <2>2 DEF Pins, CacheInv, CacheType
  <2>4. refcnt' = [refcnt EXCEPT ![b] = refcnt[b] + 1]
    BY <1>4, <2>1
  <2>5. CountInv'
    BY Zenon, <1>1, <1>4, <2>3, <2>4, AddTally
  <2> QED BY Zenon, <1>2, <1>4, <2>5 DEF TallyInv, EnoughBuffers
<1>5. ASSUME \A b \in Bufs : ~Recycled(b), UNCHANGED <<blockno, refcnt, buf, pinned>>
      PROVE  TallyInv'
  <2>1. ~EnoughBuffers
    BY <1>1, <1>5, EnoughIsFree, FreeIsRecycled DEF CacheInv, TallyInv
  <2>2. CountInv'
    BY Zenon, <1>5 DEF TallyInv, CountInv, Users, Pins
  <2> QED BY Zenon, <1>2, <2>1, <2>2 DEF TallyInv, EnoughBuffers
<1> QED BY Zenon, <1>3, <1>4, <1>5 DEF BgetMiss

\* bpin() and bunpin(): the pin is counted.
LEMMA PinTally ==
  ASSUME FiniteSetFacts, CacheInv, TallyInv, NEW p \in Procs, Bpin(p) \/ Bunpin(p)
  PROVE  TallyInv'
<1> DEFINE b == buf[p]
<1>1. /\ b \in Bufs /\ want[p] \in Blocks
      /\ \A c \in Bufs : blockno[c] = want[p] <=> c = b
  BY Zenon, HolderBlock DEF Bpin, Bunpin
<1>2. UNCHANGED <<blockno, lru, buf, bpanic>>
  BY Zenon DEF Bpin, Bunpin
<1>3. PinInv'
  <2>1. IsFiniteSet(pinned) /\ Cardinality(pinned) \in Nat /\ Cardinality(pinned) <= MAXPIN
    BY Zenon, CountNat DEF TallyInv, PinInv
  <2>2. CASE Bpin(p)
    <3>1. /\ pinned' = pinned \cup {want[p]} /\ want[p] \notin pinned
          /\ Cardinality(pinned) < MAXPIN
      BY Zenon, <2>2 DEF Bpin
    <3>2. IsFiniteSet(pinned') /\ Cardinality(pinned') = Cardinality(pinned) + 1
      BY <2>1, <3>1, CountMore
    <3> QED BY <2>1, <3>1, <3>2, BcacheConstants DEF PinInv
  <2>3. CASE Bunpin(p)
    <3>1. pinned' \in SUBSET pinned
      BY Zenon, <2>3 DEF Bunpin
    <3>2. IsFiniteSet(pinned') /\ Cardinality(pinned') <= Cardinality(pinned)
      BY Zenon, <2>1, <3>1, CountPart
    <3>3. Cardinality(pinned') \in Nat
      BY Zenon, <3>2, CountNat
    <3> QED BY <2>1, <3>2, <3>3, BcacheConstants DEF PinInv
  <2> QED BY Zenon, <2>2, <2>3
<1>4. \A c \in Bufs : refcnt'[c] \in Int /\ refcnt'[c] - refcnt[c] = Pins(c)' - Pins(c)
  <2>1. CASE Bpin(p)
    BY <1>1, <2>1 DEF Bpin, CacheInv, CacheType, PlusOne, Pins
  <2>2. CASE Bunpin(p)
    BY <1>1, <2>2 DEF Bunpin, CacheInv, CacheType, MinusOne, Pins
  <2> QED BY Zenon, <2>1, <2>2
<1>5. CountInv'
  <2> SUFFICES ASSUME NEW c \in Bufs PROVE refcnt'[c] = Cardinality(Users(c)') + Pins(c)'
    BY Zenon DEF CountInv
  <2>1. Users(c)' = Users(c) /\ Cardinality(Users(c)) \in Nat
    BY Zenon, <1>2, UsersFinite DEF Users
  <2>2. refcnt[c] = Cardinality(Users(c)) + Pins(c)
    BY Zenon DEF TallyInv, CountInv
  <2>3. Pins(c) \in Int /\ Pins(c)' \in Int /\ refcnt[c] \in Int
    BY DEF Pins, CacheInv, CacheType
  <2> QED BY <1>4, <2>1, <2>2, <2>3
<1> QED BY <1>2, <1>3, <1>5 DEF TallyInv, LruInv, EnoughBuffers

\* The end of brelse(): the buffer counts one less and may go to the front of the list.
LEMMA UnrefTally ==
  ASSUME FiniteSetFacts, CacheInv, TallyInv, NEW p \in Procs, Unref(p)
  PROVE  TallyInv'
<1>1. buf[p] \in Bufs /\ refcnt' = MinusOne(buf[p]) /\ buf' = [buf EXCEPT ![p] = None]
  BY Zenon DEF CacheInv, UseInv, Unref
<1>2. UNCHANGED <<blockno, pinned, bpanic>>
  BY Zenon DEF Unref
<1>3. LruInv'
  <2>1. lru' = ToFront(buf[p]) \/ lru' = lru
    BY Zenon DEF Unref
  <2>2. CASE lru' = lru
    BY Zenon, <2>2 DEF TallyInv, LruInv
  <2> QED BY <1>1, <2>1, <2>2, ToFrontInv DEF TallyInv
<1>4. CountInv'
  <2> SUFFICES ASSUME NEW c \in Bufs PROVE refcnt'[c] = Cardinality(Users(c)') + Pins(c)'
    BY Zenon DEF CountInv
  <2>1. Pins(c)' = Pins(c) /\ Pins(c) \in Int
    BY <1>2 DEF Pins
  <2>2. refcnt[c] = Cardinality(Users(c)) + Pins(c)
    BY Zenon DEF TallyInv, CountInv
  <2>3. CASE c = buf[p]
    <3>1. refcnt'[c] = refcnt[c] - 1
      BY <1>1, <2>3 DEF MinusOne, CacheInv, CacheType
    <3>2. Users(c)' = {q \in Procs : buf'[q] = buf[p]}
      BY Zenon, <2>3 DEF Users
    <3>3. Cardinality(Users(c)) = Cardinality(Users(c)') + 1
      BY Zenon, <1>1, <2>3, <3>2, UsersRemove DEF CacheInv
    <3>4. Users(c)' \in SUBSET Procs
      BY Zenon DEF Users
    <3>5. Cardinality(Users(c)') \in Nat
      BY <3>4, BcacheConstants, CountPart, CountNat
    <3> QED BY <2>1, <2>2, <3>1, <3>3, <3>5
  <2>4. CASE c # buf[p]
    <3>1. refcnt'[c] = refcnt[c]
      BY <1>1, <2>4 DEF MinusOne, CacheInv, CacheType
    <3>2. Users(c)' = Users(c)
      BY Zenon, <1>1, <2>4, UsersRemove DEF CacheInv
    <3> QED BY <2>1, <2>2, <3>1, <3>2
  <2> QED BY Zenon, <2>3, <2>4
<1> QED BY <1>2, <1>3, <1>4 DEF TallyInv, PinInv, EnoughBuffers

\* Every step keeps the counts, the list and the pins right.
LEMMA TallyNext ==
  ASSUME FiniteSetFacts
  PROVE  CacheInv /\ TallyInv /\ [Next]_vars => TallyInv'
<1> SUFFICES ASSUME CacheInv, TallyInv, [Next]_vars PROVE TallyInv'
  BY Zenon
<1>1. ASSUME NEW p \in Procs, Bwrite(p) \/ Brelse(p) PROVE TallyInv'
  <2>1. locked[buf[p]] = p
    BY Zenon, <1>1, HolderBlock DEF Bwrite, Brelse
  <2> QED BY Zenon, <1>1, <2>1, QuietTally DEF Bwrite, Brelse, bufVars
<1>2. ASSUME NEW p \in Procs,
             AcquireSleep(p) \/ CheckValid(p) \/ RwDone(p) \/ KillWakesLock(p)
      PROVE  TallyInv'
  BY Zenon, <1>2, QuietTally DEF AcquireSleep, CheckValid, RwDone, KillWakesLock, bufVars
<1>3. ASSUME NEW p \in Procs, NEW v \in Vals, Modify(p, v) PROVE TallyInv'
  BY Zenon, <1>3, QuietTally DEF Modify, bufVars
<1>4. ASSUME UNCHANGED <<bufVars, useVars>> PROVE TallyInv'
  BY Zenon, <1>4, QuietTally DEF bufVars, useVars
<1> QED
  BY <1>1, <1>2, <1>3, <1>4, BgetTally, PinTally, UnrefTally DEF Next, UseStep, vars

\* There are finitely many descriptors.
LEMMA FreeFinite ==
  ASSUME FiniteSetFacts
  PROVE  DriverType => IsFiniteSet(free)
<1>1. NUM - 1 \in Nat
  BY VirtioConstants
<1>2. IsFiniteSet(0..NUM - 1)
  BY Zenon, <1>1 DEF FiniteSetFacts, IntervalFact
<1> QED BY Zenon, <1>2, CountPart DEF DriverType, Desc

\* Who comes to sleep for descriptors found too few; free_chain() wakes everybody who
\* sleeps for some.
LEMMA AllocNext ==
  ASSUME FiniteSetFacts
  PROVE  DriverInv /\ AllocInv /\ [Next]_vars => AllocInv'
<1> SUFFICES ASSUME DriverType, AllocInv, [Next]_vars PROVE AllocInv'
  BY Zenon DEF DriverInv
<1>1. ASSUME free' = free, \A q \in Procs : rpc'[q] = "sleep_alloc" => rpc[q] = "sleep_alloc"
      PROVE  AllocInv'
  BY Zenon, <1>1 DEF AllocInv
<1>2. ASSUME NEW p \in Procs, UseStep(p) PROVE AllocInv'
  <2>1. free' = free
    BY Zenon, <1>2 DEF UseStep, AcquireSleep, CheckValid, RwDone, Bwrite, Bpin, Bunpin, Brelse, Unref,
         KillWakesLock, BgetHit, BgetMiss, Modify, diskVars, devVars
  <2>2. rpc' = rpc \/ rpc' = [rpc EXCEPT ![p] = "alloc"]
    BY Zenon, <1>2 DEF UseStep, AcquireSleep, CheckValid, RwDone, Bwrite, Bpin, Bunpin, Brelse, Unref,
         KillWakesLock, BgetHit, BgetMiss, Modify, diskVars, devVars, callVars, CallRw
  <2> QED BY <1>1, <2>1, <2>2 DEF DriverType
<1>3. ASSUME NEW p \in Procs, Submit(p) PROVE AllocInv'
  <2>1. free' \in SUBSET free /\ rpc' = [rpc EXCEPT ![p] = "sleep_disk"]
    BY Zenon, <1>3 DEF Submit
  <2>2. IsFiniteSet(free) /\ IsFiniteSet(free') /\ Cardinality(free') <= Cardinality(free)
    BY Zenon, <2>1, FreeFinite, CountPart
  <2>3. Cardinality(free') \in Nat /\ Cardinality(free) \in Nat
    BY Zenon, <2>2, CountNat
  <2>4. \A q \in Procs : rpc'[q] = "sleep_alloc" => rpc[q] = "sleep_alloc"
    BY Zenon, <2>1 DEF DriverType
  <2> QED BY <2>2, <2>3, <2>4 DEF AllocInv
<1>4. ASSUME NEW p \in Procs, AllocFails(p) PROVE AllocInv'
  BY Zenon, <1>4 DEF AllocFails, AllocInv, devVars
<1>5. ASSUME NEW p \in Procs, Wake(p) PROVE AllocInv'
  <2>1. CASE Finished(p)
    <3>1. rpc' = [WakeAlloc EXCEPT ![p] = "none"]
      BY Zenon, <1>5, <2>1 DEF Wake
    <3>2. \A q \in Procs : rpc'[q] # "sleep_alloc"
      BY Zenon, <3>1 DEF WakeAlloc
    <3> QED BY Zenon, <3>2 DEF AllocInv
  <2>2. CASE ~Finished(p)
    <3>1. rpc' = [rpc EXCEPT ![p] = "sleep_disk"] /\ free' = free
      BY <1>5, <2>2 DEF Wake
    <3> QED BY Zenon, <1>1, <3>1 DEF DriverType
  <2> QED BY Zenon, <2>1, <2>2
<1>6. ASSUME NEW p \in Procs, KillWakes(p) PROVE AllocInv'
  <2>1. free' = free /\ \A q \in Procs : q # p => rpc'[q] = rpc[q]
    BY Zenon, <1>6 DEF KillWakes, devVars, DriverType
  <2>2. rpc'[p] \in {"disk", "alloc"}
    BY Zenon, <1>6 DEF KillWakes, DriverType
  <2> QED BY <1>1, <2>1, <2>2
<1>7. CASE IntrEntry
  <2>1. free' = free /\ (rpc' = rpc \/ \E b : rpc' = WakeDisk(b))
    BY Zenon, <1>7 DEF IntrEntry
  <2> QED BY Zenon, <1>1, <2>1 DEF WakeDisk
<1>8. ASSUME UNCHANGED <<free, rpc>> PROVE AllocInv'
  BY Zenon, <1>8 DEF AllocInv
<1>9. ASSUME \/ \E i \in Desc : DeviceFinish(i)
             \/ IntrStart \/ IntrEnd \/ UNCHANGED vars
      PROVE  UNCHANGED <<free, rpc>>
  BY Zenon, <1>9 DEF DeviceFinish, IntrStart, IntrEnd, vars, diskVars, devVars, callVars
<1> QED
  BY <1>2, <1>3, <1>4, <1>5, <1>6, <1>7, <1>8, <1>9 DEF Next, DiskNext
-----------------------------------------------------------------------------
(* Theorems *)

Library == INSTANCE FiniteSetTheorems
Orders == INSTANCE WellFoundedInduction

\* The library speaks of the same finite sets.
LEMMA SameFiniteSets ==
  /\ \A S : Library!Cardinality(S) = Cardinality(S)
  /\ \A S : Library!IsFiniteSet(S) <=> IsFiniteSet(S)
BY DEF Library!Cardinality, Cardinality, Library!IsFiniteSet, IsFiniteSet

\* The library proves the facts that the lemmas take as a hypothesis.
LEMMA FiniteSetsAreSo == FiniteSetFacts
<1> USE SameFiniteSets
<1>1. EmptyFact /\ CountFact
  BY Library!FS_EmptySet, Library!FS_CardinalityType DEF EmptyFact, CountFact
<1>2. SubsetFact BY Library!FS_Subset DEF SubsetFact
<1>3. AddFact BY Library!FS_AddElement DEF AddFact
<1>4. RemoveFact BY Library!FS_RemoveElement DEF RemoveFact
<1>5. IntervalFact BY Library!FS_Interval DEF IntervalFact
<1>6. ProductFact BY Library!FS_Product DEF ProductFact
<1>7. UnionFact BY Library!FS_Union DEF UnionFact
<1>8. InjectionFact
  <2>1. \A f, S, T : OneToOne(f, S, T) => f \in Library!Injection(S, T)
    BY DEF OneToOne, Library!Injection, Library!IsInjective
  <2> QED BY <2>1, Library!FS_Injection DEF InjectionFact
<1>9. LeastFact
  <2> SUFFICES ASSUME NEW S \in SUBSET Nat, S # {} PROVE \E x \in S : \A y \in S : x <= y
    BY Zenon DEF LeastFact
  <2>1. PICK x \in S : \A y \in S : <<y, x>> \notin Orders!OpToRel(<, Nat)
    BY Zenon, Orders!NatLessThanWellFounded, Orders!WFMin
  <2>2. \A y \in S : ~(y < x) BY Zenon, <2>1 DEF Orders!OpToRel
  <2>3. \A y \in S : x <= y BY <2>2
  <2> QED BY Zenon, <2>3
<1> QED
  BY Zenon, <1>1, <1>2, <1>3, <1>4, <1>5, <1>6, <1>7, <1>8, <1>9 DEF FiniteSetFacts

(* The theorems *)

IInv == CacheInv /\ TallyInv /\ DriverInv /\ AllocInv /\ DataInv

\* The whole invariant is one.
LEMMA CacheAndDriver == Spec => []IInv
<1>1. Init => IInv
  BY Zenon, FiniteSetsAreSo, CacheInit, TallyInit, DriverInit, DataInit DEF IInv
<1>2. IInv /\ [Next]_vars => IInv'
  <2> SUFFICES ASSUME IInv, [Next]_vars PROVE IInv'
    BY Zenon
  <2>1. FreeInv
    BY Zenon, FiniteSetsAreSo, ZeroIsFree DEF IInv, TallyInv
  <2> QED BY <2>1, FiniteSetsAreSo, CacheNext, TallyNext, DriverNext, AllocNext, DataNext DEF IInv
<1> QED BY <1>1, <1>2, PTL DEF Spec

\* bget(), brelse(), bpin() and bunpin(): a block has at most one buffer, a buffer counts
\* its users and its pin, and with enough buffers none of the panics of bio.c happens.
THEOREM BcacheOneBuffer == Spec => []OneBufferPerBlock
<1>1. IInv => OneBufferPerBlock
  BY Zenon DEF IInv, CacheInv, TallyInv, BlockInv, CountInv, OneBufferPerBlock
<1> QED BY <1>1, CacheAndDriver, PTL

\* alloc3_desc() and free_chain(): for any number of descriptors and requests, each
\* descriptor is free or in one chain, and no panic of the driver happens.
THEOREM VirtioDescriptors == Spec => []DescriptorsAccounted
<1>1. IInv => DescriptorsAccounted
  <2> SUFFICES ASSUME DriverInv PROVE DescriptorsAccounted
    BY Zenon DEF IInv
  <2> USE DEF DriverInv
  <2>1. InFlight = {p \in Procs : Busy(p)}
    BY Zenon DEF InFlight, Busy
  <2>2. free = Desc \ UNION {Chain(idx[p]) : p \in InFlight}
    BY <2>1 DEF DriverType, ChainOf, ChainsInv
  <2> QED BY Zenon, <2>1, <2>2 DEF DescriptorsAccounted, ChainsInv
<1> QED BY <1>1, CacheAndDriver, PTL

\* acquiresleep(), virtio_disk_rw() and virtio_disk_intr(): nobody sleeps for what has
\* already happened, and a completion is seen or raises an interrupt.
THEOREM BcacheNobodyOversleeps == Spec => []NobodyOversleeps
<1>1. IInv => NobodyOversleeps
  <2> SUFFICES ASSUME CacheInv, DriverInv, AllocInv PROVE NobodyOversleeps
    BY Zenon DEF IInv
  <2> USE DEF CacheInv, DriverInv
  <2>1. \A p \in Procs : bpc[p] = "sleep_lock" => locked[buf[p]] # None
    BY Zenon DEF LockInv
  <2>2. \A p \in Procs : rpc[p] = "sleep_disk" => bdisk[req[p].buf]
    BY Zenon DEF RingOf, Busy
  <2>3. ASSUME NEW p \in InFlight, bdisk[req[p].buf]
        PROVE  idx[p] \in avail \cup {used[i] : i \in DOMAIN used}
    <3>1. p \in Procs /\ RingOf(p) /\ Busy(p) /\ DOMAIN used = 1..Len(used)
      BY DEF InFlight, Busy, DriverType
    <3> QED BY <2>3, <3>1 DEF RingOf, InUsed
  <2> QED BY <2>1, <2>2, <2>3 DEF NobodyOversleeps, AllocInv, RingsInv
<1> QED BY <1>1, CacheAndDriver, PTL

\* bread(), bwrite() and brelse(): who gets a buffer gets it alone and with the block's
\* latest contents, for any number of processes, buffers, blocks and descriptors.
THEOREM BcacheHolderHasLatest == Spec => []HolderHasLatest
<1>1. IInv => HolderHasLatest
  <2> SUFFICES ASSUME CacheInv, DataInv, NEW p \in Procs, bpc[p] = "have"
               PROVE  /\ blockno[buf[p]] = want[p] /\ data[buf[p]] = latest[want[p]]
                      /\ \A q \in Procs \ {p} : buf[q] = buf[p] => bpc[q] \notin Holding
    BY Zenon DEF IInv, HolderHasLatest, Holding
  <2>1. bpc[p] \in Holding /\ valid[buf[p]] /\ want[p] # None
    BY HolderBlock, BcacheConstants DEF DataInv, HolderOf, Holding
  <2> QED BY <2>1, HoldersApart DEF DataInv, ValidInv
<1> QED BY <1>1, CacheAndDriver, PTL
=============================================================================
