-------------------------------- MODULE Fifo --------------------------------
(***************************************************************************)
(* What pipes promise: bytes come out in the order in which they were put  *)
(* in, each of them once, and a reader sees the end of the file only when  *)
(* the pipe is empty and no process can write to it any more.              *)
(***************************************************************************)
EXTENDS Naturals, Sequences

CONSTANTS Procs, Pipes, Vals, PIPESIZE, None

VARIABLES q,       \* the bytes in each pipe
          readers, \* the processes that may read from it
          writers, \* the processes that may write to it
          got      \* what a read that is returning has read

vars == <<q, readers, writers, got>>

Init ==
  /\ q = [i \in Pipes |-> <<>>]
  /\ readers = [i \in Pipes |-> {}]
  /\ writers = [i \in Pipes |-> {}]
  /\ got = [p \in Procs |-> None]

\* pipe() by p makes a new, empty pipe.
New(p, i) ==
  /\ q' = [q EXCEPT ![i] = <<>>] /\ UNCHANGED got
  /\ readers[i] = {} /\ readers' = [readers EXCEPT ![i] = {p}]
  /\ writers[i] = {} /\ writers' = [writers EXCEPT ![i] = {p}]

\* Nobody can use the pipe any more: its page is freed.
Discard(i) ==
  /\ q' = [q EXCEPT ![i] = <<>>] /\ UNCHANGED got
  /\ readers[i] = {} /\ writers[i] = {} /\ UNCHANGED <<readers, writers>>

Put(p, i, v) ==
  /\ q' = [q EXCEPT ![i] = Append(@, v)] /\ UNCHANGED got
  /\ Len(q[i]) < PIPESIZE
  /\ p \in writers[i] /\ UNCHANGED <<readers, writers>>

\* k bytes are read; one more is lost if it cannot be stored (lost = 1).
Get(p, i, k, lost) ==
  /\ k + lost > 0 /\ k + lost <= Len(q[i])
  /\ got' = [got EXCEPT ![p] = SubSeq(q[i], 1, k)]
  /\ q' = [q EXCEPT ![i] = SubSeq(@, k + lost + 1, Len(@))]
  /\ p \in readers[i] /\ UNCHANGED <<readers, writers>>

\* End of file.
Eof(p, i) ==
  /\ got' = [got EXCEPT ![p] = <<>>]
  /\ q[i] = <<>> /\ UNCHANGED q
  /\ p \in readers[i] /\ writers[i] = {} /\ UNCHANGED <<readers, writers>>

Return(p) ==
  /\ got[p] # None
  /\ got' = [got EXCEPT ![p] = None]
  /\ UNCHANGED <<q, readers, writers>>

\* fork(), dup(), close() and exit(): an end that nobody has stays closed.
Share ==
  /\ UNCHANGED <<q, got>>
  /\ writers' \in [Pipes -> SUBSET Procs]
  /\ readers' \in [Pipes -> SUBSET Procs]
  /\ \A i \in Pipes : /\ readers[i] = {} => readers'[i] = {}
                      /\ writers[i] = {} => writers'[i] = {}

Next ==
  \/ Share
  \/ \E p \in Procs : Return(p)
  \/ \E p \in Procs, i \in Pipes :
       \/ \E v \in Vals : Put(p, i, v)
       \/ New(p, i) \/ Eof(p, i)
       \/ \E k \in 0..PIPESIZE, lost \in 0..1 : Get(p, i, k, lost)
  \/ \E i \in Pipes : Discard(i)

Spec == Init /\ [][Next]_vars
=============================================================================
