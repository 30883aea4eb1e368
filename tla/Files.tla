------------------------------- MODULE Files --------------------------------
(***************************************************************************)
(* kernel/file.c and the descriptor system calls of kernel/sysfile.c over  *)
(* the pipes of module Pipe: the file table, the descriptors of each       *)
(* process, and fork() and exit() as far as they copy and close them.      *)
(* p->ofile is private to its process, so steps that touch only it belong  *)
(* to the action that takes the next lock.                                 *)
(***************************************************************************)
EXTENDS Pipe, FiniteSets

CONSTANTS NFILE, NOFILE, MAXIO   \* MAXIO bounds n of read() and write()

FileSet == 1..NFILE
Fds == 0..NOFILE - 1

\* The places where a process keeps file pointers: p->ofile, and above it the local
\* variables of a call, rf and wf in sys_pipe(), f in sys_close() (at RF).
RF == NOFILE
WF == NOFILE + 1
Places == 0..NOFILE + 1

ASSUME FilesConstants ==
  /\ IsFiniteSet(Procs)   \* proc[NPROC]
  /\ NFILE \in Nat /\ NOFILE \in Nat /\ MAXIO \in Nat \ {0}
  /\ None \notin FileSet

VARIABLES
  ref,    \* ftable.file[f].ref
  file,   \* its type, pipe and writable
  ofile,  \* p->ofile and the pointers of the call
  ff,     \* fileclose()'s copy of the file whose pipeclose() is due
  fpanic  \* panic("filedup"), panic("fileclose"), panic("fileread")...

fileVars == <<ref, file, ofile, ff, fpanic>>
vars == <<pipeVars, fileVars>>

NoFile == [type |-> "none", pipe |-> None, writable |-> FALSE]
PipeEnd(i, w) == [type |-> "pipe", pipe |-> i, writable |-> w]

Init ==
  /\ PipeInit
  /\ ref = [f \in FileSet |-> 0]
  /\ file = [f \in FileSet |-> NoFile]
  /\ ofile = [p \in Procs |-> [x \in Places |-> None]]
  /\ ff = [p \in Procs |-> NoFile]
  /\ fpanic = FALSE
  /\ \E p0 \in Procs : pc = [p \in Procs |-> IF p = p0 THEN "user" ELSE "dead"]

\* In user mode; usertrap() starts no system call for a killed process.
InUser(p) == pc[p] = "user" /\ ~killed[p]

FreeFiles == {f \in FileSet : ref[f] = 0}
FreeFds(p) == {fd \in Fds : ofile[p][fd] = None}
OpenFds(p) == {fd \in Fds : ofile[p][fd] # None}

\* The first entry that a loop over a table finds.
First(S) == CHOOSE x \in S : \A y \in S : x <= y
-----------------------------------------------------------------------------
(* sys_pipe(), pipealloc() *)

\* filealloc() of the reading end; when the table is full nothing changes.
PipeFile0(p) ==
  /\ InUser(p) /\ FreeFiles # {}
  /\ ref' = [ref EXCEPT ![First(FreeFiles)] = 1]
  /\ ofile' = [ofile EXCEPT ![p][RF] = First(FreeFiles)]
  /\ Goto(p, "file1")
  /\ UNCHANGED <<pipe, killed, io, left, got, stale, file, ff, fpanic>>

PipeFile1(p) ==
  /\ pc[p] = "file1"
  /\ IF FreeFiles = {}
     THEN Goto(p, "close") /\ UNCHANGED <<ref, ofile>>
     ELSE /\ ref' = [ref EXCEPT ![First(FreeFiles)] = 1]
          /\ ofile' = [ofile EXCEPT ![p][WF] = First(FreeFiles)]
          /\ Goto(p, "kalloc")
  /\ UNCHANGED <<pipe, killed, io, left, got, stale, file, ff, fpanic>>

\* kalloc() of page i and the initialisation, the two fdalloc() and copyout().  With
\* no descriptors, or when copyout() fails, the ends are closed again.
PipeAlloc(p, i, ok) ==
  /\ pc[p] = "kalloc" /\ pipe[i].free
  /\ ok => Cardinality(FreeFds(p)) >= 2
  /\ pipe' = [pipe EXCEPT ![i] = EmptyPipe(TRUE)]
  /\ stale' = [stale EXCEPT ![i] = FALSE]
  /\ file' = [file EXCEPT ![ofile[p][RF]] = PipeEnd(i, FALSE),
                          ![ofile[p][WF]] = PipeEnd(i, TRUE)]
  /\ IF ok
     THEN LET fd0 == First(FreeFds(p))
              fd1 == First(FreeFds(p) \ {fd0})
          IN  /\ ofile' = [ofile EXCEPT ![p][fd0] = ofile[p][RF], ![p][RF] = None,
                                        ![p][fd1] = ofile[p][WF], ![p][WF] = None]
              /\ Goto(p, "user")
     ELSE Goto(p, "close") /\ UNCHANGED ofile
  /\ UNCHANGED <<killed, io, left, got, ref, ff, fpanic>>

\* kalloc() found no page: other parts of the kernel use the pages too.
PipeNoPage(p) ==
  /\ pc[p] = "kalloc"
  /\ Goto(p, "close")
  /\ UNCHANGED <<pipe, killed, io, left, got, stale, fileVars>>
-----------------------------------------------------------------------------
(* fileclose(), sys_close(), sys_dup(), exit(), fork() *)

\* --f->ref is not > 0
LastRef(f) == ref[f] = 1

\* The part of fileclose() under ftable.lock, for the file at place x, which p
\* does not use any more.
CloseAt(p, x) ==
  LET f == ofile[p][x] IN
  /\ fpanic' = (fpanic \/ ref[f] < 1)
  /\ ref' = [ref EXCEPT ![f] = IF @ < 1 THEN @ ELSE @ - 1]
  /\ file' = [file EXCEPT ![f] = IF LastRef(f) THEN NoFile ELSE @]
  /\ ff' = [ff EXCEPT ![p] = IF LastRef(f) THEN file[f] ELSE NoFile]
  /\ ofile' = [ofile EXCEPT ![p][x] = None]

\* The pointers of the call that sys_close(), or the error path of sys_pipe() or
\* pipealloc(), has still to close, in this order.
Due(p) == {x \in {RF, WF} : ofile[p][x] # None}

FileClose(p) ==
  /\ pc[p] = "close" /\ Due(p) # {} /\ ff[p] = NoFile
  /\ CloseAt(p, First(Due(p)))
  /\ UNCHANGED pipeVars

\* pipeclose(ff.pipe, ff.writable)
PipeClose(p) ==
  /\ ff[p] # NoFile /\ LockFree(ff[p].pipe)
  /\ pipe' = Closed(ff[p].pipe, ff[p].writable)
  /\ pc' = WakeOnClose(pc, ff[p].pipe, ff[p].writable)
  /\ ff' = [ff EXCEPT ![p] = NoFile]
  /\ UNCHANGED <<killed, io, left, got, stale, ref, file, ofile, fpanic>>

\* All is closed: the system call returns.
CloseEnd(p) ==
  /\ pc[p] = "close" /\ Due(p) = {} /\ ff[p] = NoFile
  /\ Goto(p, "user")
  /\ UNCHANGED <<pipe, killed, io, left, got, stale, fileVars>>

SysClose(p, fd) ==
  /\ InUser(p) /\ ofile[p][fd] # None
  /\ ofile' = [ofile EXCEPT ![p][RF] = ofile[p][fd], ![p][fd] = None]
  /\ Goto(p, "close")
  /\ UNCHANGED <<pipe, killed, io, left, got, stale, ref, file, ff, fpanic>>

\* fdalloc() and filedup().
SysDup(p, fd) ==
  /\ InUser(p) /\ ofile[p][fd] # None /\ FreeFds(p) # {}
  /\ ofile' = [ofile EXCEPT ![p][First(FreeFds(p))] = ofile[p][fd]]
  /\ fpanic' = (fpanic \/ ref[ofile[p][fd]] < 1)
  /\ ref' = [ref EXCEPT ![ofile[p][fd]] = @ + 1]
  /\ UNCHANGED <<pipeVars, file, ff>>

\* exit(), from user mode or because killed() holds on the way back to it; killed
\* is not looked at again until freeproc() clears it.
Exit(p) ==
  /\ pc[p] = "user" \/ (pc[p] = "ret" /\ killed[p])
  /\ Goto(p, "exit")
  /\ killed' = [killed EXCEPT ![p] = FALSE]
  /\ got' = [got EXCEPT ![p] = None]
  /\ UNCHANGED <<pipe, io, left, stale, fileVars>>

\* exit() closes its next descriptor.
ExitClose(p) ==
  /\ pc[p] = "exit" /\ OpenFds(p) # {} /\ ff[p] = NoFile
  /\ CloseAt(p, First(OpenFds(p)))
  /\ UNCHANGED pipeVars

\* All are closed, and the slot becomes free.
ExitEnd(p) ==
  /\ pc[p] = "exit" /\ OpenFds(p) = {} /\ ff[p] = NoFile
  /\ Goto(p, "dead")
  /\ UNCHANGED <<pipe, killed, io, left, got, stale, fileVars>>

FdsOf(p, f) == Cardinality({fd \in Fds : ofile[p][fd] = f})

\* Mutant: each file is counted once, however many descriptors it has.
ForkRefsOnce(p, f) == IF FdsOf(p, f) > 0 THEN 1 ELSE 0

\* fork() calls filedup() for each descriptor of p.
ForkRefs(p, f) == FdsOf(p, f)

Fork(p, q) ==
  /\ InUser(p) /\ pc[q] = "dead"
  /\ fpanic' = (fpanic \/ \E f \in FileSet : FdsOf(p, f) > 0 /\ ref[f] < 1)
  /\ ref' = [f \in FileSet |-> ref[f] + ForkRefs(p, f)]
  /\ ofile' = [ofile EXCEPT ![q] = ofile[p]]
  /\ Goto(q, "user")
  /\ UNCHANGED <<pipe, killed, io, left, got, stale, file, ff>>

\* The result of a read reaches user mode.
SysReturn(p) ==
  /\ pc[p] = "ret" /\ ~killed[p]
  /\ Goto(p, "user")
  /\ got' = [got EXCEPT ![p] = None]
  /\ UNCHANGED <<pipe, killed, io, left, stale, fileVars>>
-----------------------------------------------------------------------------
(* sys_read(), sys_write(), fileread(), filewrite() *)

\* argfd(), the choice by f->readable and f->writable, and pi->lock.
SysRw(p, fd, n) ==
  /\ InUser(p) /\ ofile[p][fd] # None
  /\ LET f == file[ofile[p][fd]] IN
     IF f.type = "pipe"
     THEN /\ LockFree(f.pipe)
          /\ io' = [io EXCEPT ![p] = f.pipe]
          /\ left' = [left EXCEPT ![p] = n]
          /\ Goto(p, IF f.writable THEN "wloop" ELSE "read")
          /\ UNCHANGED fpanic
     ELSE fpanic' = TRUE /\ UNCHANGED <<io, left, pc>>
  /\ UNCHANGED <<pipe, killed, got, stale, ref, file, ofile, ff>>

Step(p) ==
  \/ PipeFile0(p) \/ PipeFile1(p) \/ PipeNoPage(p)
  \/ FileClose(p) \/ PipeClose(p) \/ CloseEnd(p) \/ Exit(p) \/ ExitClose(p)
  \/ ExitEnd(p) \/ SysReturn(p)
  \/ \E i \in Pipes, ok \in BOOLEAN : PipeAlloc(p, i, ok)
  \/ \E fd \in Fds : SysClose(p, fd) \/ SysDup(p, fd)
  \/ \E fd \in Fds, n \in 1..MAXIO : SysRw(p, fd, n)
  \/ \E q \in Procs : Fork(p, q)
  \/ PipeStep(p) /\ UNCHANGED fileVars

Next == \E p \in Procs : Step(p)

Spec == Init /\ [][Next]_vars
-----------------------------------------------------------------------------
(* Properties *)

\* The references to f: who has one, and at which place.
Refs(f) == {x \in Procs \X Places : ofile[x[1]][x[2]] = f}

\* An end of pipe i is in use: some file is that end, or pipeclose() is due for it.
Live(i, w) ==
  \/ \E f \in FileSet : ref[f] > 0 /\ file[f] = PipeEnd(i, w)
  \/ \E p \in Procs : ff[p] = PipeEnd(i, w)

\* filealloc()/filedup()/fileclose(): f->ref is the number of descriptors that
\* name f, in all processes, and of references that are about to be closed; file.c's
\* panics are never reached.  pipealloc()/pipeclose(): an end of a pipe is open exactly
\* as long as a file of the table is that end, or its last fileclose() is on its way
\* to pipeclose(); the page is free exactly when both ends are closed.
RefsExact ==
  /\ ~fpanic
  /\ \A f \in FileSet : ref[f] = Cardinality(Refs(f))
  /\ \A i \in Pipes :
       /\ pipe[i].readopen <=> Live(i, FALSE)
       /\ pipe[i].writeopen <=> Live(i, TRUE)
       /\ pipe[i].free <=> ~(Live(i, FALSE) \/ Live(i, TRUE))

\* The processes with a reference to an end of pipe i.
Users(i, w) ==
  {p \in Procs : \E x \in Places : ofile[p][x] # None /\ file[ofile[p][x]] = PipeEnd(i, w)}

Readers == [i \in Pipes |-> Users(i, FALSE)]
Writers == [i \in Pipes |-> Users(i, TRUE)]

Bytes == [i \in Pipes |-> IF pipe[i].free THEN <<>> ELSE Contents(i)]

Queue == INSTANCE Fifo WITH q <- Bytes, readers <- Readers, writers <- Writers

\* Pipes are FIFOs: piperead() returns the bytes of pipewrite() in order, once each,
\* and end of file only when the pipe is empty and nobody has a descriptor for writing.
ImplementsFifo == Queue!Spec
=============================================================================
