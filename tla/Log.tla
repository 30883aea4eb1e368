-------------------------------- MODULE Log --------------------------------
(***************************************************************************)
(* The write-ahead log of kernel/log.c: begin_op/log_write/end_op used by  *)
(* concurrent file-system calls, the group commit, crashes at any disk     *)
(* write, and recovery at boot.  log.lock is held from the first to the    *)
(* last line of each critical section, so a critical section is one        *)
(* action; commit() runs without the lock, so each of its disk writes is   *)
(* an action of its own.  A block write is atomic.                         *)
(***************************************************************************)
EXTENDS Naturals, Sequences, FiniteSets, Functions

CONSTANTS Procs, Blocks, Vals,
          MAXOPBLOCKS,  \* blocks reserved for an operation
          LOGSIZE,      \* capacity of the in-memory header
          NLOG,         \* log.size: blocks of the on-disk log, header included
          OPBLOCKS,     \* most distinct blocks an operation really logs
          None

ASSUME LogConstants ==
  /\ MAXOPBLOCKS \in Nat \ {0} /\ LOGSIZE \in Nat \ {0} /\ NLOG \in Nat
  /\ OPBLOCKS \in 0..MAXOPBLOCKS
  /\ MAXOPBLOCKS <= LOGSIZE
  /\ IsFiniteSet(Procs) /\ IsFiniteSet(Blocks)
  /\ None \notin Blocks

VARIABLES
  disk,        \* home blocks on disk
  dlog,        \* data blocks of the on-disk log
  dhead,       \* on-disk header: the block numbers block[0..n-1]
  cache,       \* b->data in the buffer cache (the disk's contents if not cached)
  pins,        \* references log_write's bpin() holds on the buffer of a block
  lh,          \* log.lh, the in-memory header
  outstanding, \* log.outstanding
  committing,  \* log.committing
  tail,        \* loop index of write_log() and install_trans()
  pc,          \* where each process is
  held,        \* the buffer a process has locked and modified
  wset,        \* history: the blocks the process's operation has logged
  mode,        \* "up", or the step of recover_from_log() at boot
  panicked     \* panic() was called

diskVars == <<disk, dlog, dhead>>
opVars == <<pc, held, wset>>
vars == <<disk, dlog, dhead, cache, pins, lh, outstanding, committing, tail,
          pc, held, wset, mode, panicked>>

OpPcs == {"op", "log"}
CommitPcs == {"commit", "write_log", "write_head", "install", "clear", "finish"}

\* Mutant: wakeup() on another channel.
WakeupNobody(f) == f

\* wakeup(&log): every process sleeping in begin_op() tests its condition again.
Wakeup(f) == [p \in Procs |-> IF f[p] = "asleep" THEN "begin" ELSE f[p]]

Init ==
  /\ disk \in [Blocks -> Vals]
  /\ \E v \in Vals : dlog = [i \in 1..LOGSIZE |-> v]
  /\ dhead = <<>>
  /\ cache = disk
  /\ pins = [b \in Blocks |-> 0]
  /\ lh = <<>>
  /\ outstanding = 0
  /\ committing = FALSE
  /\ tail = 0
  /\ pc = [p \in Procs |-> "idle"]
  /\ held = [p \in Procs |-> None]
  /\ wset = [p \in Procs |-> {}]
  /\ mode = "read_head"
  /\ panicked = FALSE
-----------------------------------------------------------------------------
(* begin_op() *)

\* A file-system system call starts.
Call(p) ==
  /\ mode = "up" /\ pc[p] = "idle"
  /\ pc' = [pc EXCEPT ![p] = "begin"]
  /\ UNCHANGED <<diskVars, cache, pins, lh, outstanding, committing, tail,
                 held, wset, mode, panicked>>

\* Mutant: the test forgets the operation being admitted.
RoomForOpOffByOne == Len(lh) + outstanding * MAXOPBLOCKS <= LOGSIZE

\* The reservation test of begin_op(): there is room for all outstanding
\* operations and this one.
RoomForOp == Len(lh) + (outstanding + 1) * MAXOPBLOCKS <= LOGSIZE

BeginSleep(p) ==
  /\ mode = "up" /\ pc[p] = "begin"
  /\ committing \/ ~RoomForOp
  /\ pc' = [pc EXCEPT ![p] = "asleep"]
  /\ UNCHANGED <<diskVars, cache, pins, lh, outstanding, committing, tail,
                 held, wset, mode, panicked>>

BeginOp(p) ==
  /\ mode = "up" /\ pc[p] = "begin"
  /\ ~committing /\ RoomForOp
  /\ outstanding' = outstanding + 1
  /\ pc' = [pc EXCEPT ![p] = "op"]
  /\ wset' = [wset EXCEPT ![p] = {}]
  /\ UNCHANGED <<diskVars, cache, pins, lh, committing, tail, held, mode,
                 panicked>>

\* kill() makes a sleeping process runnable; begin_op() just tests again.
KillWakes(p) ==
  /\ mode = "up" /\ pc[p] = "asleep"
  /\ pc' = [pc EXCEPT ![p] = "begin"]
  /\ UNCHANGED <<diskVars, cache, pins, lh, outstanding, committing, tail,
                 held, wset, mode, panicked>>
-----------------------------------------------------------------------------
(* Inside an operation: bread(b); modify b->data; log_write(b); brelse(b) *)

\* bread() locks the buffer, the caller changes its contents.
Modify(p, b, v) ==
  /\ mode = "up" /\ pc[p] = "op"
  /\ \A q \in Procs : held[q] # b
  /\ Cardinality(wset[p] \cup {b}) <= OPBLOCKS
  /\ cache' = [cache EXCEPT ![b] = v]
  /\ held' = [held EXCEPT ![p] = b]
  /\ pc' = [pc EXCEPT ![p] = "log"]
  /\ UNCHANGED <<diskVars, pins, lh, outstanding, committing, tail, wset,
                 mode, panicked>>

\* The panics of log_write().
LogWritePanics == Len(lh) >= LOGSIZE \/ Len(lh) + 1 >= NLOG \/ outstanding < 1

\* bpin(), bunpin() of bio.c
Bpin(b) == [pins EXCEPT ![b] = @ + 1]

Bunpin(b) == [pins EXCEPT ![b] = @ - 1]

LogWrite(p) ==
  /\ mode = "up" /\ pc[p] = "log"
  /\ IF LogWritePanics
       THEN /\ panicked' = TRUE
            /\ UNCHANGED <<lh, pins, pc, held, wset>>
       ELSE /\ IF held[p] \in Range(lh)      \* log absorption
                 THEN UNCHANGED <<lh, pins>>
                 ELSE /\ lh' = Append(lh, held[p])
                      /\ pins' = Bpin(held[p])
            /\ wset' = [wset EXCEPT ![p] = @ \cup {held[p]}]
            /\ held' = [held EXCEPT ![p] = None]
            /\ pc' = [pc EXCEPT ![p] = "op"]
            /\ UNCHANGED panicked
  /\ UNCHANGED <<diskVars, cache, outstanding, committing, tail, mode>>

\* bget() recycles an unreferenced buffer; the next bread() reads the disk.
Evict(b) ==
  /\ mode = "up" /\ pins[b] = 0
  /\ \A p \in Procs : held[p] # b
  /\ cache' = [cache EXCEPT ![b] = disk[b]]
  /\ UNCHANGED <<diskVars, pins, lh, outstanding, committing, tail, opVars,
                 mode, panicked>>
-----------------------------------------------------------------------------
(* end_op() and commit() *)

\* The last outstanding operation becomes the committer.
EndOp(p) ==
  /\ mode = "up" /\ pc[p] = "op"
  /\ outstanding' = outstanding - 1
  /\ IF committing
       THEN /\ panicked' = TRUE
            /\ UNCHANGED <<pc, committing>>
       ELSE /\ IF outstanding' = 0
                 THEN /\ committing' = TRUE
                      /\ pc' = [pc EXCEPT ![p] = "commit"]
                 ELSE /\ pc' = [Wakeup(pc) EXCEPT ![p] = "idle"]
                      /\ UNCHANGED committing
            /\ UNCHANGED panicked
  /\ UNCHANGED <<diskVars, cache, pins, lh, tail, held, wset, mode>>

\* Mutant: the header is written before the log blocks it names.
CommitHeadFirst(p) ==
  /\ mode = "up" /\ pc[p] = "commit"
  /\ pc' = [pc EXCEPT ![p] = IF Len(lh) > 0 THEN "write_head" ELSE "finish"]
  /\ tail' = 0
  /\ UNCHANGED <<diskVars, cache, pins, lh, outstanding, committing, held,
                 wset, mode, panicked>>

\* commit() looks at log.lh.n.
Commit(p) ==
  /\ mode = "up" /\ pc[p] = "commit"
  /\ pc' = [pc EXCEPT ![p] = IF Len(lh) > 0 THEN "write_log" ELSE "finish"]
  /\ tail' = 0
  /\ UNCHANGED <<diskVars, cache, pins, lh, outstanding, committing, held,
                 wset, mode, panicked>>

\* One iteration of write_log(), the last one together with the loop's exit.
WriteLog(p) ==
  /\ mode = "up" /\ pc[p] = "write_log"
  /\ dlog' = [dlog EXCEPT ![tail + 1] = cache[lh[tail + 1]]]
  /\ tail' = tail + 1
  /\ pc' = [pc EXCEPT ![p] = IF tail' = Len(lh) THEN "write_head" ELSE @]
  /\ UNCHANGED <<disk, dhead, cache, pins, lh, outstanding, committing, held,
                 wset, mode, panicked>>

\* Mutant: write_head() fills the buffer without bwrite().
WriteHeadNoBwrite(p) ==
  /\ mode = "up" /\ pc[p] = "write_head"
  /\ tail' = 0
  /\ pc' = [pc EXCEPT ![p] = "install"]
  /\ UNCHANGED <<disk, dlog, dhead, cache, pins, lh, outstanding, committing,
                 held, wset, mode, panicked>>

\* write_head(): the commit point.
WriteHead(p) ==
  /\ mode = "up" /\ pc[p] = "write_head"
  /\ dhead' = lh
  /\ tail' = 0
  /\ pc' = [pc EXCEPT ![p] = "install"]
  /\ UNCHANGED <<disk, dlog, cache, pins, lh, outstanding, committing, held,
                 wset, mode, panicked>>

\* One iteration of install_trans(): the log block is copied into the buffer
\* and to the home block.
InstallBlock ==
  /\ cache' = [cache EXCEPT ![lh[tail + 1]] = dlog[tail + 1]]
  /\ disk' = [disk EXCEPT ![lh[tail + 1]] = dlog[tail + 1]]

InstallTrans(p) ==
  /\ mode = "up" /\ pc[p] = "install"
  /\ InstallBlock
  /\ pins' = Bunpin(lh[tail + 1])
  /\ IF tail + 1 = Len(lh)
       THEN /\ lh' = <<>>
            /\ tail' = 0
            /\ pc' = [pc EXCEPT ![p] = "clear"]
       ELSE /\ tail' = tail + 1
            /\ UNCHANGED <<lh, pc>>
  /\ UNCHANGED <<dlog, dhead, outstanding, committing, held, wset, mode,
                 panicked>>

\* write_head() with log.lh.n = 0 erases the transaction.
ClearHead(p) ==
  /\ mode = "up" /\ pc[p] = "clear"
  /\ dhead' = lh
  /\ pc' = [pc EXCEPT ![p] = "finish"]
  /\ UNCHANGED <<disk, dlog, cache, pins, lh, outstanding, committing, tail,
                 held, wset, mode, panicked>>

\* The end of end_op() after commit().
EndCommit(p) ==
  /\ mode = "up" /\ pc[p] = "finish"
  /\ committing' = FALSE
  /\ pc' = [Wakeup(pc) EXCEPT ![p] = "idle"]
  /\ UNCHANGED <<diskVars, cache, pins, lh, outstanding, tail, held, wset,
                 mode, panicked>>
-----------------------------------------------------------------------------
(* Crash, and recover_from_log() in the first process after boot *)

Crash ==
  /\ cache' = disk
  /\ pins' = [b \in Blocks |-> 0]
  /\ lh' = <<>>
  /\ outstanding' = 0
  /\ committing' = FALSE
  /\ tail' = 0
  /\ pc' = [p \in Procs |-> "idle"]
  /\ held' = [p \in Procs |-> None]
  /\ wset' = [p \in Procs |-> {}]
  /\ mode' = "read_head"
  /\ panicked' = FALSE
  /\ UNCHANGED diskVars

ReadHead ==
  /\ mode = "read_head"
  /\ lh' = dhead
  /\ tail' = 0
  /\ mode' = IF Len(dhead) > 0 THEN "install" ELSE "clear"
  /\ UNCHANGED <<diskVars, cache, pins, outstanding, committing, opVars,
                 panicked>>

\* install_trans(1): no bunpin().
RecoverInstall ==
  /\ mode = "install"
  /\ InstallBlock
  /\ IF tail + 1 = Len(lh)
       THEN lh' = <<>> /\ tail' = 0 /\ mode' = "clear"
       ELSE tail' = tail + 1 /\ UNCHANGED <<lh, mode>>
  /\ UNCHANGED <<dlog, dhead, pins, outstanding, committing, opVars, panicked>>

RecoverClear ==
  /\ mode = "clear"
  /\ dhead' = lh
  /\ mode' = "up"
  /\ UNCHANGED <<disk, dlog, cache, pins, lh, outstanding, committing, tail,
                 opVars, panicked>>
-----------------------------------------------------------------------------
CommitStep(p) ==
  Commit(p) \/ WriteLog(p) \/ WriteHead(p) \/ InstallTrans(p) \/ ClearHead(p)
    \/ EndCommit(p)

Recover == ReadHead \/ RecoverInstall \/ RecoverClear

Next ==
  \/ \E p \in Procs :
       \/ Call(p) \/ BeginSleep(p) \/ BeginOp(p) \/ KillWakes(p)
       \/ LogWrite(p) \/ EndOp(p) \/ CommitStep(p)
  \/ \E p \in Procs, b \in Blocks, v \in Vals : Modify(p, b, v)
  \/ \E b \in Blocks : Evict(b)
  \/ Crash
  \/ Recover

Spec == Init /\ [][Next]_vars

\* A process that can run does (the scheduler is round robin), the disk answers,
\* and every operation reaches its end_op(): its loops are bounded.
Fairness ==
  /\ \A p \in Procs :
       /\ WF_vars(BeginSleep(p) \/ BeginOp(p))
       /\ WF_vars(LogWrite(p))
       /\ SF_vars(EndOp(p))
       /\ WF_vars(CommitStep(p))
  /\ WF_vars(Recover)

FairSpec == Spec /\ Fairness
-----------------------------------------------------------------------------
(* Properties *)

\* The variables have their types, and the header never overflows block[].
TypeOK ==
  /\ disk \in [Blocks -> Vals] /\ cache \in [Blocks -> Vals]
  /\ dlog \in [1..LOGSIZE -> Vals]
  /\ dhead \in Seq(Blocks) /\ Len(dhead) <= LOGSIZE
  /\ lh \in Seq(Blocks) /\ Len(lh) <= LOGSIZE
  /\ outstanding \in Nat
  /\ committing \in BOOLEAN
  /\ tail \in 0..LOGSIZE
  /\ pc \in [Procs -> {"idle", "begin", "asleep"} \cup OpPcs \cup CommitPcs]
  /\ held \in [Procs -> Blocks \cup {None}]
  /\ wset \in [Procs -> SUBSET Blocks]
  /\ mode \in {"up", "read_head", "install", "clear"}
  /\ panicked \in BOOLEAN

\* What the block budget of an operation must be for log_write() never to panic:
\* log_write() wants two blocks more than the header names, and while the header is
\* not empty at least two operations share the log.  With the log that mkfs lays out
\* (30, 30 and 10) an operation may log 9 blocks.
WithinBudget ==
  /\ OPBLOCKS < MAXOPBLOCKS /\ OPBLOCKS + 2 <= NLOG
  /\ LOGSIZE + 2 <= NLOG + 2 * (MAXOPBLOCKS - OPBLOCKS)

\* No interleaving of operations that keep to their block budget makes
\* log_write() or end_op() panic: begin_op()'s reservation, taken before it is
\* known what an operation will write, is enough for all that were admitted,
\* also after operations finished without using theirs up.
NoPanic == ~panicked

\* The contents recovery would leave after a crash now: the home blocks, those
\* named by the on-disk header replaced by their copy in the log.
Recovered ==
  [b \in Blocks |-> IF b \in Range(dhead)
                      THEN dlog[CHOOSE i \in DOMAIN dhead : dhead[i] = b]
                      ELSE disk[b]]

Active == {p \in Procs : pc[p] \in OpPcs}

Abstract == INSTANCE AtomicFs
  WITH mem <- IF mode = "up" THEN cache ELSE Recovered,
       stable <- Recovered,
       active <- Active

\* commit(), crashes at any point of it and recovery, interrupted or not,
\* implement AtomicFs: what survives a crash is always the whole contents at
\* some moment with no operation in progress.
ImplementsAtomicFs == Abstract!Spec

\* Write-ahead rule: a home block is only ever overwritten with the copy that
\* the on-disk log holds under a committed header.
WriteAhead ==
  [][\A b \in Blocks : disk'[b] # disk[b] =>
       \E i \in DOMAIN dhead : dhead[i] = b /\ disk'[b] = dlog[i]]_vars

\* Nobody sleeps in begin_op() for ever: each end_op(), and the end of each
\* commit, wakes the processes waiting for log space.
SleepersWake == \A p \in Procs : (pc[p] = "asleep") ~> (pc[p] # "asleep")
=============================================================================
