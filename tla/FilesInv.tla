------------------------------ MODULE FilesInv ------------------------------
(***************************************************************************)
(* The inductive invariant of Files, for any number of processes, pipes,   *)
(* files and descriptors and any PIPESIZE that divides WRAP. RefsExact and *)
(* SleepersHaveReason are not inductive by themselves: where a process is  *)
(* decides which references it has that no descriptor holds (Held), what   *)
(* pipealloc() was given is nobody else's until it is a pipe (Fresh), an   *)
(* end is one file or on its way to one pipeclose() (Single), who is       *)
(* inside a call has a descriptor for it (InCall), pi->lock has one holder *)
(* (OneWriter) and a pipe never holds more than PIPESIZE bytes (Bounded).  *)
(***************************************************************************)
EXTENDS Files, FiniteFacts

Writing == {"write", "wloop", "wsleep"}

Pcs == {"user", "dead", "file1", "kalloc", "close", "exit", "ret",
        "read", "rsleep", "write", "wloop", "wsleep"}

Ends == {PipeEnd(i, w) : i \in Pipes, w \in BOOLEAN}

Ring == 0..WRAP - 1

PipeRec == [data : [0..PIPESIZE - 1 -> Vals \cup {None}], nread : Ring, nwrite : Ring,
            readopen : BOOLEAN, writeopen : BOOLEAN, free : BOOLEAN]

Types ==
  /\ pipe \in [Pipes -> PipeRec]
  /\ killed \in [Procs -> BOOLEAN]
  /\ pc \in [Procs -> Pcs]
  /\ io \in [Procs -> Pipes \cup {None}]
  /\ left \in [Procs -> Nat]
  /\ got \in [Procs -> Seq(Vals \cup {None}) \cup {None}]
  /\ stale \in [Pipes -> BOOLEAN]
  /\ ref \in [FileSet -> Nat]
  /\ file \in [FileSet -> Ends \cup {NoFile}]
  /\ ofile \in [Procs -> [Places -> FileSet \cup {None}]]
  /\ ff \in [Procs -> Ends \cup {NoFile}]
  /\ fpanic \in BOOLEAN

\* f->ref counts the references.
Counted == \A f \in FileSet : ref[f] = Cardinality(Refs(f))

\* Which places are in use, at which position.
Held ==
  \A p \in Procs :
    /\ pc[p] = "dead" => \A x \in Places : ofile[p][x] = None
    /\ pc[p] \notin {"file1", "kalloc", "close"} => ofile[p][RF] = None
    /\ pc[p] \notin {"kalloc", "close"} => ofile[p][WF] = None
    /\ pc[p] \in {"file1", "kalloc"} => ofile[p][RF] # None
    /\ pc[p] = "kalloc" => ofile[p][WF] # None
    /\ pc[p] \notin {"close", "exit"} => ff[p] = NoFile

\* What filealloc() gave to pipealloc() is nobody else's and has no type yet.
Fresh ==
  \A p \in Procs, x \in {RF, WF} :
    pc[p] \in {"file1", "kalloc"} /\ ofile[p][x] # None =>
      /\ file[ofile[p][x]] = NoFile
      /\ \A q \in Procs, y \in Places : ofile[q][y] = ofile[p][x] => q = p /\ y = x

\* Descriptors are ends of pipes.
Typed == \A p \in Procs, fd \in Fds : ofile[p][fd] # None => file[ofile[p][fd]] \in Ends

\* An end is one file, or on its way to one pipeclose().
Single ==
  /\ \A f, g \in FileSet : file[f] = file[g] /\ file[f] # NoFile => f = g
  /\ \A p, q \in Procs : ff[p] = ff[q] /\ ff[p] # NoFile => p = q
  /\ \A p \in Procs, f \in FileSet : ff[p] = file[f] => ff[p] = NoFile
  /\ \A f \in FileSet : ref[f] = 0 => file[f] = NoFile

OpenEnds ==
  \A i \in Pipes :
    /\ pipe[i].readopen <=> Live(i, FALSE)
    /\ pipe[i].writeopen <=> Live(i, TRUE)
    /\ pipe[i].free <=> ~(Live(i, FALSE) \/ Live(i, TRUE))

\* A process inside a read or a write has a descriptor for it.
InCall ==
  \A p \in Procs : pc[p] \in InPipe =>
    /\ io[p] \in Pipes
    /\ pc[p] # "wloop" => left[p] > 0
    /\ \E fd \in Fds : /\ ofile[p][fd] # None
                       /\ file[ofile[p][fd]] = IF pc[p] \in Writing THEN PipeEnd(io[p], TRUE)
                                                                 ELSE PipeEnd(io[p], FALSE)

\* pi->lock has one holder.
OneWriter ==
  \A p, q \in Procs : pc[p] = "wloop" /\ pc[q] = "wloop" /\ io[p] = io[q] => p = q

Bounded == \A i \in Pipes : Count(i) <= PIPESIZE

IInv ==
  /\ Types /\ ~fpanic /\ Counted /\ Held /\ Fresh /\ Typed /\ Single /\ OpenEnds
  /\ InCall /\ OneWriter /\ Bounded /\ SleepersHaveReason
=============================================================================
