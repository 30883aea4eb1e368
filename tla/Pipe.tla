-------------------------------- MODULE Pipe --------------------------------
(***************************************************************************)
(* kernel/pipe.c: the ring of each pipe and the processes inside           *)
(* pipewrite() and piperead().  pi->lock is held from the first to the     *)
(* last line except in sleep().  piperead() tests nothing that can change  *)
(* meanwhile, so it is one action per wake-up; pipewrite() tests killed()  *)
(* before each byte, so each byte is an action, with the lock held between *)
(* them.                                                                   *)
(***************************************************************************)
EXTENDS Naturals, Sequences

CONSTANTS Procs, Pipes, Vals,
          PIPESIZE,
          WRAP,   \* nread and nwrite are unsigned: they count modulo WRAP (2^32)
          None

ASSUME PipeConstants ==
  /\ PIPESIZE \in Nat \ {0} /\ WRAP \in Nat
  /\ WRAP > PIPESIZE /\ WRAP % PIPESIZE = 0
  /\ None \notin Procs \cup Pipes

VARIABLES
  pipe,    \* struct pipe: data, nread, nwrite, readopen, writeopen; free: a free page
  killed,  \* p->killed
  pc,      \* where a process is
  io,      \* the pipe a process reads or writes
  left,    \* n - i: how much it still wants to read or write
  got,     \* what the read that is returning has read
  stale    \* history: a killed writer left bytes in the pipe without a wakeup

pipeVars == <<pipe, killed, pc, io, left, got, stale>>

EmptyPipe(open) ==
  [data |-> [i \in 0..PIPESIZE - 1 |-> None], nread |-> 0, nwrite |-> 0,
   readopen |-> open, writeopen |-> open, free |-> ~open]

PipeInit ==
  /\ pipe = [i \in Pipes |-> EmptyPipe(FALSE)]
  /\ killed = [p \in Procs |-> FALSE]
  /\ io = [p \in Procs |-> None]
  /\ left = [p \in Procs |-> 0]
  /\ got = [p \in Procs |-> None]
  /\ stale = [i \in Pipes |-> FALSE]

Count(i) == (pipe[i].nwrite + WRAP - pipe[i].nread) % WRAP

\* Mutant: PIPESIZE is compared without the wrap of the counters.
FullNoWrap(i) == pipe[i].nwrite = pipe[i].nread + PIPESIZE

\* pi->nwrite == pi->nread + PIPESIZE
Full(i) == pipe[i].nwrite = (pipe[i].nread + PIPESIZE) % WRAP

IsEmpty(i) == pipe[i].nread = pipe[i].nwrite

\* pi->lock is not held by a writer.
LockFree(i) == \A p \in Procs : ~(pc[p] = "wloop" /\ io[p] = i)

Goto(p, l) == pc' = [pc EXCEPT ![p] = l]

\* The call of p is over.
Finish(p) ==
  /\ io' = [io EXCEPT ![p] = None]
  /\ left' = [left EXCEPT ![p] = 0]

\* wakeup() of the processes that sleep at position l for pipe i; they take
\* pi->lock again at position to.
Wakeup(f, i, l, to) ==
  [p \in Procs |-> IF f[p] = l /\ io[p] = i THEN to ELSE f[p]]

WakeReaders(f, i) == Wakeup(f, i, "rsleep", "read")

WakeWriters(f, i) == Wakeup(f, i, "wsleep", "write")
-----------------------------------------------------------------------------
(* pipewrite() *)

\* A woken writer takes pi->lock again.
WriteLock(p) ==
  /\ pc[p] = "write" /\ LockFree(io[p])
  /\ Goto(p, "wloop")
  /\ UNCHANGED <<pipe, killed, io, left, got, stale>>

WriteAborts(p) == ~pipe[io[p]].readopen \/ killed[p]

\* return -1 from inside the loop: no wakeup.
WriteAbort(p) ==
  /\ pc[p] = "wloop" /\ left[p] > 0 /\ WriteAborts(p)
  /\ stale' = [stale EXCEPT ![io[p]] = @ \/ ~IsEmpty(io[p])]
  /\ Goto(p, "user") /\ Finish(p)
  /\ UNCHANGED <<pipe, killed, got>>

WriteSleep(p) ==
  /\ pc[p] = "wloop" /\ left[p] > 0 /\ ~WriteAborts(p) /\ Full(io[p])
  /\ pc' = [WakeReaders(pc, io[p]) EXCEPT ![p] = "wsleep"]
  /\ stale' = [stale EXCEPT ![io[p]] = FALSE]
  /\ UNCHANGED <<pipe, killed, io, left, got>>

WriteByte(p, v) ==
  /\ pc[p] = "wloop" /\ left[p] > 0 /\ ~WriteAborts(p) /\ ~Full(io[p])
  /\ LET i == io[p] IN
     pipe' = [pipe EXCEPT ![i].data[pipe[i].nwrite % PIPESIZE] = v,
                          ![i].nwrite = (@ + 1) % WRAP]
  /\ left' = [left EXCEPT ![p] = @ - 1]
  /\ UNCHANGED <<killed, pc, io, got, stale>>

\* All is written, or copyin() failed.
WriteDone(p) ==
  /\ pc[p] = "wloop"
  /\ left[p] = 0 \/ (~WriteAborts(p) /\ ~Full(io[p]))
  /\ pc' = [WakeReaders(pc, io[p]) EXCEPT ![p] = "user"]
  /\ stale' = [stale EXCEPT ![io[p]] = FALSE]
  /\ Finish(p)
  /\ UNCHANGED <<pipe, killed, got>>
-----------------------------------------------------------------------------
(* piperead() *)

NothingYet(p) == IsEmpty(io[p]) /\ pipe[io[p]].writeopen

ReadSleep(p) ==
  /\ pc[p] = "read" /\ LockFree(io[p]) /\ NothingYet(p) /\ ~killed[p]
  /\ Goto(p, "rsleep")
  /\ UNCHANGED <<pipe, killed, io, left, got, stale>>

ReadAbort(p) ==
  /\ pc[p] = "read" /\ LockFree(io[p]) /\ NothingYet(p) /\ killed[p]
  /\ Goto(p, "user") /\ Finish(p)
  /\ UNCHANGED <<pipe, killed, got, stale>>

\* The places of the oldest k bytes.  What was read is dead: the model forgets it.
Taken(i, k) == {(pipe[i].nread + j - 1) % PIPESIZE : j \in 1..k}

\* k bytes reach the user, a further one is lost when copyout() fails for it.
ReadCopy(p, k, lost) ==
  /\ pc[p] = "read" /\ LockFree(io[p])
  /\ ~NothingYet(p)
  /\ LET i == io[p] IN
     /\ k + lost <= left[p] /\ k + lost <= Count(i)
     /\ lost = 0 => k = left[p] \/ k = Count(i)
     /\ got' = [got EXCEPT ![p] =
          [j \in 1..k |-> pipe[i].data[(pipe[i].nread + j - 1) % PIPESIZE]]]
     /\ pipe' = [pipe EXCEPT ![i].nread = (@ + k + lost) % WRAP,
                             ![i].data = [x \in DOMAIN @ |-> IF x \in Taken(i, k + lost)
                                                             THEN None ELSE @[x]]]
     /\ pc' = [WakeWriters(pc, i) EXCEPT ![p] = "ret"]
     /\ stale' = [stale EXCEPT ![i] = @ /\ k + lost < Count(i)]
  /\ Finish(p)
  /\ UNCHANGED killed
-----------------------------------------------------------------------------
(* pipeclose(); kill() *)

\* Mutant: a close wakes nobody.
WakeOnCloseQuiet(f, i, w) == f

\* pipeclose() of the writing end wakes readers, of the reading end writers.
WakeOnClose(f, i, w) == IF w THEN WakeReaders(f, i) ELSE WakeWriters(f, i)

\* The pipe after pipeclose(pi, w); with both ends closed the page is freed.
Closed(i, w) ==
  LET r == IF w THEN [pipe[i] EXCEPT !.writeopen = FALSE]
                ELSE [pipe[i] EXCEPT !.readopen = FALSE]
  IN  IF r.readopen \/ r.writeopen THEN [pipe EXCEPT ![i] = r]
                                   ELSE [pipe EXCEPT ![i] = EmptyPipe(FALSE)]

InPipe == {"read", "rsleep", "write", "wloop", "wsleep"}

\* kill(): a sleeping process becomes runnable.  Elsewhere p->killed only makes the
\* process exit at the end of the call, which every process may do anyway.
Kill(p) ==
  /\ pc[p] \in InPipe /\ ~killed[p]
  /\ killed' = [killed EXCEPT ![p] = TRUE]
  /\ pc' = [pc EXCEPT ![p] = CASE @ = "rsleep" -> "read" [] @ = "wsleep" -> "write"
                                [] OTHER -> @]
  /\ UNCHANGED <<pipe, io, left, got, stale>>

PipeStep(p) ==
  \/ WriteLock(p) \/ WriteAbort(p) \/ WriteSleep(p) \/ WriteDone(p) \/ ReadSleep(p) \/ ReadAbort(p)
  \/ Kill(p)
  \/ \E v \in Vals : WriteByte(p, v)
  \/ \E k \in 0..PIPESIZE, lost \in 0..1 : ReadCopy(p, k, lost)
-----------------------------------------------------------------------------
(* Properties *)

\* The bytes in pipe i, oldest first.
Contents(i) ==
  [j \in 1..Count(i) |-> pipe[i].data[(pipe[i].nread + j - 1) % PIPESIZE]]

\* pipewrite()/piperead()/pipeclose(): a reader sleeps only on an empty pipe that
\* somebody may still write, or one that a killed writer left without a wakeup; a
\* writer only on a full pipe that somebody may still read.
SleepersHaveReason ==
  \A p \in Procs :
    /\ pc[p] = "rsleep" => pipe[io[p]].writeopen /\
         (IsEmpty(io[p]) \/ stale[io[p]] \/ ~LockFree(io[p]))
    /\ pc[p] = "wsleep" => pipe[io[p]].readopen /\ Full(io[p])
=============================================================================
