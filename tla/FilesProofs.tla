----------------------------- MODULE FilesProofs ----------------------------
(***************************************************************************)
(* The theorems about Files: the references are exact, nobody sleeps on a  *)
(* pipe without a reason, and pipes are FIFOs that end when the last user  *)
(* of an end is gone. Every step of Files is a step of the queues of Fifo, *)
(* or none of them, given the invariant before and after it.               *)
(***************************************************************************)
EXTENDS FilesPipe, FilesRefs

\* The initial state has the types.
LEMMA TypesInit == Init => Types
<1> SUFFICES ASSUME Init PROVE Types OBVIOUS
<1>1. pipe \in [Pipes -> PipeRec] BY Zenon, EmptyOK DEF Init, PipeInit
<1>2. /\ killed \in [Procs -> BOOLEAN] /\ io \in [Procs -> Pipes \cup {None}]
      /\ left \in [Procs -> Nat] /\ stale \in [Pipes -> BOOLEAN]
      /\ got \in [Procs -> Seq(Vals \cup {None}) \cup {None}]
  BY DEF Init, PipeInit
<1>3. ref \in [FileSet -> Nat] /\ file \in [FileSet -> Ends \cup {NoFile}]
  BY DEF Init
<1>4. /\ ofile \in [Procs -> [Places -> FileSet \cup {None}]]
      /\ ff \in [Procs -> Ends \cup {NoFile}] /\ fpanic \in BOOLEAN
  BY Zenon DEF Init
<1>5. pc \in [Procs -> Pcs] BY DEF Init, Pcs
<1> QED BY Zenon, <1>1, <1>2, <1>3, <1>4, <1>5 DEF Types

\* Every step from a state with IInv leads to one with IInv.
LEMMA IInvStep == ASSUME FiniteSetFacts, IInv, NEW p \in Procs, Step(p) PROVE IInv'
<1>a. Types /\ Counted /\ Held /\ Fresh /\ Typed /\ Single /\ OpenEnds /\ InCall
      /\ OneWriter /\ Bounded /\ SleepersHaveReason /\ ~fpanic BY Zenon DEF IInv
<1>1. CASE PipeFile0(p)
  <2>1. PICK f \in FreeFiles : f = First(FreeFiles) BY Zenon, <1>1, FirstPlaces DEF PipeFile0
  <2> QED BY Zenon, <1>1, <2>1, AllocKeeps DEF PipeFile0, Goto, InUser
<1>2. CASE PipeFile1(p) /\ FreeFiles # {}
  <2>1. PICK f \in FreeFiles : f = First(FreeFiles) BY Zenon, <1>2, FirstPlaces
  <2> QED BY Zenon, <1>2, <2>1, AllocKeeps DEF PipeFile1, Goto
<1>3. CASE \/ PipeNoPage(p) \/ CloseEnd(p) \/ Exit(p) \/ ExitEnd(p) \/ SysReturn(p)
           \/ (PipeFile1(p) /\ FreeFiles = {})
  BY Zenon, <1>3, MovesKeep
<1>4. CASE FileClose(p)
  <2>1. PICK x \in Due(p) : x = First(Due(p)) BY Zenon, <1>4, FirstPlaces DEF FileClose
  <2>2. x \in Places /\ ofile[p][x] # None BY <2>1, PlacesOK DEF Due
  <2>3. pc[p] \in {"close", "exit"} /\ ff[p] = NoFile /\ CloseAt(p, x) /\ UNCHANGED pipeVars
    BY <1>4, <2>1 DEF FileClose
  <2> QED BY Zenon, <2>2, <2>3, CloseKeeps
<1>5. CASE ExitClose(p)
  <2>1. PICK x \in OpenFds(p) : x = First(OpenFds(p)) BY Zenon, <1>5, FirstPlaces DEF ExitClose
  <2>2. x \in Places /\ ofile[p][x] # None BY <2>1, PlacesOK DEF OpenFds
  <2>3. pc[p] \in {"close", "exit"} /\ ff[p] = NoFile /\ CloseAt(p, x) /\ UNCHANGED pipeVars
    BY <1>5, <2>1 DEF ExitClose
  <2> QED BY Zenon, <2>2, <2>3, CloseKeeps
<1>6. CASE PipeClose(p) BY Zenon, <1>6, PipeCloseKeeps
<1>7. CASE \E i \in Pipes, ok \in BOOLEAN : PipeAlloc(p, i, ok) BY Zenon, <1>7, PipeAllocKeeps
<1>8. CASE \E fd \in Fds : SysClose(p, fd) \/ SysDup(p, fd)
  BY Zenon, <1>8, SysCloseKeeps, SysDupKeeps
<1>9. CASE \E fd \in Fds, n \in 1..MAXIO : SysRw(p, fd, n) BY Zenon, <1>9, SysRwKeeps
<1>10. CASE \E q \in Procs : Fork(p, q) BY Zenon, <1>10, ForkKeeps
<1>11. CASE PipeStep(p) /\ UNCHANGED fileVars
  <2>1. Types' /\ Within BY Zenon, <1>11, <1>a, PipeWithin
  <2>2. /\ Counted' /\ Held' /\ Fresh' /\ Typed' /\ Single' /\ OpenEnds' /\ InCall'
        /\ OneWriter' BY Zenon, <2>1, <1>a, WithinKeeps
  <2>3. Bounded' /\ SleepersHaveReason' BY Zenon, <2>1, <1>11, <1>a, SleepersPipe
  <2>4. ~fpanic' BY <1>11, <1>a DEF fileVars
  <2> QED BY Zenon, <2>1, <2>2, <2>3, <2>4 DEF IInv
<1> QED BY Zenon, <1>1, <1>2, <1>3, <1>4, <1>5, <1>6, <1>7, <1>8, <1>9, <1>10, <1>11 DEF Step

\* The invariant holds initially.
LEMMA IInvInit == ASSUME FiniteSetFacts, Init PROVE IInv
<1>1. Types BY Zenon, TypesInit
<1>2. /\ ref = [f \in FileSet |-> 0] /\ file = [f \in FileSet |-> NoFile]
      /\ ofile = [p \in Procs |-> [x \in Places |-> None]]
      /\ ff = [p \in Procs |-> NoFile] /\ fpanic = FALSE
      /\ pipe = [i \in Pipes |-> EmptyPipe(FALSE)]
  BY Zenon DEF Init, PipeInit
<1>3. \A p \in Procs : pc[p] \in {"user", "dead"} BY Zenon DEF Init
<1>4. Counted
  <2> SUFFICES ASSUME NEW f \in FileSet PROVE ref[f] = Cardinality(Refs(f)) BY Zenon DEF Counted
  <2>1. f # None BY Zenon, FilesConstants
  <2>2. Refs(f) = {} BY <2>1, <1>2 DEF Refs
  <2>3. Cardinality({}) = 0 BY Zenon DEF FiniteSetFacts, EmptyFact
  <2> QED BY <2>2, <2>3, <1>2
<1>5. Held /\ Fresh BY <1>2, <1>3, PlacesOK DEF Held, Fresh
<1>6. Typed BY <1>2, PlacesOK DEF Typed
<1>7. Single BY <1>2 DEF Single
<1>8. OpenEnds
  <2>1. ASSUME NEW i \in Pipes, NEW w \in BOOLEAN PROVE ~Live(i, w)
    <3>1. PipeEnd(i, w) # NoFile BY Zenon, EndsApart
    <3> QED BY Zenon, <3>1, <1>2 DEF Live
  <2>2. \A i \in Pipes : pipe[i] = EmptyPipe(FALSE) BY Zenon, <1>2
  <2>3. ~EmptyPipe(FALSE).readopen /\ ~EmptyPipe(FALSE).writeopen /\ EmptyPipe(FALSE).free
    BY Zenon DEF EmptyPipe
  <2>4. \A i \in Pipes : ~Live(i, FALSE) /\ ~Live(i, TRUE) BY Zenon, <2>1
  <2> QED BY Zenon, <2>2, <2>3, <2>4 DEF OpenEnds
<1>9. InCall /\ OneWriter /\ SleepersHaveReason
  BY Zenon, <1>3 DEF InCall, OneWriter, SleepersHaveReason, InPipe
<1>10. Bounded
  <2>1. \A i \in Pipes : pipe[i].nread = 0 /\ pipe[i].nwrite = 0 BY Zenon, <1>2, EmptyOK
  <2>2. (0 + WRAP - 0) % WRAP = 0 /\ 0 <= PIPESIZE BY WrapOK
  <2> QED BY <2>1, <2>2 DEF Bounded, Count
<1> QED BY Zenon, <1>1, <1>2, <1>4, <1>5, <1>6, <1>7, <1>8, <1>9, <1>10 DEF IInv

\* The invariant is inductive.
LEMMA IInvNext == ASSUME FiniteSetFacts, IInv, [Next]_vars PROVE IInv'
<1>1. CASE Next BY Zenon, <1>1, IInvStep DEF Next
<1>2. CASE UNCHANGED vars
  <2>1. UNCHANGED <<pipe, killed, pc, io, left, got, stale, ref, file, ofile, ff, fpanic>>
    BY <1>2 DEF vars, pipeVars, fileVars
  <2>2. \A i, w : Live(i, w)' <=> Live(i, w) BY Zenon, <2>1 DEF Live
  <2>3. Outside BY Zenon, <2>1 DEF Outside
  <2>4. OneWriter' /\ Bounded' /\ SleepersHaveReason' BY Zenon, <2>3, OutsideKeeps DEF IInv
  <2>5. Counted' /\ Held' BY Zenon, <2>1 DEF IInv, Counted, Refs, Held
  <2>a. Types' BY Zenon, <2>1 DEF IInv, Types
  <2>8. Fresh' BY <2>1 DEF IInv, Fresh
  <2>9. Typed' /\ Single' BY Zenon, <2>1 DEF IInv, Typed, Single
  <2>6. OpenEnds' BY Zenon, <2>1, <2>2 DEF IInv, OpenEnds
  <2>7. InCall' BY Zenon, <2>1 DEF IInv, InCall
  <2> QED BY Zenon, <2>1, <2>4, <2>5, <2>6, <2>7, <2>8, <2>9, <2>a DEF IInv
<1> QED BY <1>1, <1>2
-----------------------------------------------------------------------------
(* Steps of the system as steps of the queues. *)

\* An end without a file is an end that nobody has.
UsersHaveFiles ==
  \A i \in Pipes, w \in BOOLEAN : Users(i, w) = {} <=> \A f \in FileSet : file[f] # PipeEnd(i, w)

\* So it is: an end that a file has is one that some process has.
LEMMA NoUsers == ASSUME FiniteSetFacts, IInv PROVE UsersHaveFiles
<1> SUFFICES ASSUME NEW i \in Pipes, NEW w \in BOOLEAN
             PROVE  Users(i, w) = {} <=> \A f \in FileSet : file[f] # PipeEnd(i, w)
  BY DEF UsersHaveFiles
<1>a. Types /\ Counted /\ Single BY Zenon DEF IInv
<1>1. ASSUME NEW f \in FileSet, file[f] = PipeEnd(i, w) PROVE Users(i, w) # {}
  <2>1. ref[f] # 0 BY <1>1, <1>a, EndsApart DEF Single
  <2>2. Cardinality(Refs(f)) # 0 BY Zenon, <2>1, <1>a DEF Counted
  <2>3. Refs(f) # {} BY Zenon, <2>2 DEF FiniteSetFacts, EmptyFact
  <2>4. PICK q \in Procs, x \in Places : ofile[q][x] = f BY <2>3 DEF Refs
  <2>5. f # None BY FilesConstants
  <2>6. q \in Users(i, w) BY Zenon, <2>4, <2>5, <1>1 DEF Users
  <2> QED BY Zenon, <2>6
<1>2. ASSUME NEW q \in Users(i, w) PROVE \E f \in FileSet : file[f] = PipeEnd(i, w)
  <2>1. q \in Procs BY Zenon DEF Users
  <2>2. PICK x \in Places : ofile[q][x] # None /\ file[ofile[q][x]] = PipeEnd(i, w)
    BY Zenon DEF Users
  <2>3. ofile[q][x] \in FileSet BY <2>1, <2>2, <1>a DEF Types
  <2> QED BY Zenon, <2>2, <2>3
<1> QED BY Zenon, <1>1, <1>2

\* Users are a matter of descriptors and files.
LEMMA SameUsers ==
  ASSUME UNCHANGED <<ofile, file>> PROVE Readers' = Readers /\ Writers' = Writers
<1>1. \A i, w : Users(i, w)' = Users(i, w) BY Zenon DEF Users
<1> QED BY Zenon, <1>1 DEF Readers, Writers

\* Bytes are a matter of the pipe.
LEMMA SameBytes ==
  ASSUME NEW i \in Pipes, pipe'[i] = pipe[i]
  PROVE  Contents(i)' = Contents(i) /\ Bytes'[i] = Bytes[i]
<1>1. Count(i)' = Count(i) BY Zenon DEF Count
<1>2. Contents(i)' = Contents(i) BY Zenon, <1>1 DEF Contents
<1> QED BY Zenon, <1>2 DEF Bytes

\* The same for all pipes.
LEMMA AllBytes == ASSUME UNCHANGED pipe PROVE Bytes' = Bytes
<1>1. \A i \in Pipes : Contents(i)' = Contents(i) BY Zenon, SameBytes
<1> QED BY Zenon, <1>1 DEF Bytes

\* One pipe changes.
LEMMA OnePipe ==
  ASSUME NEW i \in Pipes, \A j \in Pipes \ {i} : pipe'[j] = pipe[j]
  PROVE  Bytes' = [Bytes EXCEPT ![i] = IF pipe'[i].free THEN <<>> ELSE Contents(i)']
<1>1. DOMAIN Bytes = Pipes /\ DOMAIN Bytes' = Pipes /\ Bytes' = [j \in Pipes |-> Bytes'[j]]
  BY DEF Bytes
<1>2. \A j \in Pipes \ {i} : Bytes'[j] = Bytes[j] BY Zenon, SameBytes
<1>3. Bytes'[i] = IF pipe'[i].free THEN <<>> ELSE Contents(i)' BY DEF Bytes
<1> HIDE DEF Bytes
<1> QED BY <1>1, <1>2, <1>3

\* A step that leaves the pipes alone and makes no file an end.
LEMMA ShareStep ==
  ASSUME FiniteSetFacts, IInv, IInv', UNCHANGED <<pipe, got>>,
         \A f \in FileSet : file'[f] = file[f] \/ file'[f] = NoFile
  PROVE  Queue!Share
<1>1. Bytes' = Bytes BY Zenon, AllBytes
<1>2. ASSUME NEW i \in Pipes, NEW w \in BOOLEAN, Users(i, w) = {} PROVE Users(i, w)' = {}
  <2>1. \A f \in FileSet : file[f] # PipeEnd(i, w) BY Zenon, <1>2, NoUsers DEF UsersHaveFiles
  <2>2. NoFile # PipeEnd(i, w) BY EndsApart
  <2>3. \A f \in FileSet : file'[f] # PipeEnd(i, w) BY Zenon, <2>1, <2>2
  <2>4. UsersHaveFiles' BY NoUsers, PTL
  <2> QED BY Zenon, <2>3, <2>4 DEF UsersHaveFiles
<1>3. \A i, w : Users(i, w)' \in SUBSET Procs BY DEF Users
<1>4. Writers' \in [Pipes -> SUBSET Procs] /\ Readers' \in [Pipes -> SUBSET Procs]
  BY Zenon, <1>3 DEF Writers, Readers
<1>5. \A i \in Pipes : /\ Readers[i] = {} => Readers'[i] = {}
                       /\ Writers[i] = {} => Writers'[i] = {}
  BY Zenon, <1>2 DEF Writers, Readers
<1> QED BY Zenon, <1>1, <1>4, <1>5 DEF Queue!Share

\* A pipe with a file is not free.
LEMMA EndInUse ==
  ASSUME IInv, NEW i \in Pipes, NEW w \in BOOLEAN, NEW f \in FileSet, file[f] = PipeEnd(i, w)
  PROVE  Live(i, w) /\ ~pipe[i].free
<1>a. Types /\ Single /\ OpenEnds BY Zenon DEF IInv
<1>1. ref[f] # 0 BY <1>a, EndsApart DEF Single
<1>2. ref[f] > 0 BY <1>1, <1>a DEF Types
<1>3. Live(i, w) BY Zenon, <1>2 DEF Live
<1>4. CASE w = TRUE BY Zenon, <1>3, <1>4, <1>a DEF OpenEnds
<1>5. CASE w = FALSE BY Zenon, <1>3, <1>5, <1>a DEF OpenEnds
<1> QED BY Zenon, <1>3, <1>4, <1>5

\* A process inside a read or a write may read or write.
LEMMA CallUsers ==
  ASSUME IInv, NEW p \in Procs, pc[p] \in InPipe, NEW i \in Pipes, i = io[p]
  PROVE  /\ pc[p] \in Writing => p \in Users(i, TRUE)
         /\ pc[p] \notin Writing => p \in Users(i, FALSE)
         /\ ~pipe[i].free
<1>a. Types /\ InCall BY Zenon DEF IInv
<1>1. PICK fd \in Fds, w \in BOOLEAN :
        /\ ofile[p][fd] # None /\ file[ofile[p][fd]] = PipeEnd(i, w)
        /\ pc[p] \in Writing <=> w
  <2>1. PICK fd \in Fds : /\ ofile[p][fd] # None
                          /\ file[ofile[p][fd]] = IF pc[p] \in Writing THEN PipeEnd(i, TRUE)
                                                                       ELSE PipeEnd(i, FALSE)
    BY Zenon, <1>a DEF InCall
  <2>2. CASE pc[p] \in Writing BY Zenon, <2>1, <2>2
  <2>3. CASE pc[p] \notin Writing BY Zenon, <2>1, <2>3
  <2> QED BY Zenon, <2>2, <2>3
<1>2. fd \in Places /\ ofile[p][fd] \in FileSet BY <1>1, <1>a, PlacesOK DEF Types
<1>3. p \in Users(i, w) BY Zenon, <1>1, <1>2 DEF Users
<1>4. ~pipe[i].free BY Zenon, <1>1, <1>2, EndInUse
<1>5. CASE w = TRUE BY Zenon, <1>1, <1>3, <1>4, <1>5
<1>6. CASE w = FALSE BY Zenon, <1>1, <1>3, <1>4, <1>6
<1> QED BY Zenon, <1>5, <1>6

\* pipewrite() appends a byte.
LEMMA PutStep ==
  ASSUME FiniteSetFacts, IInv, IInv', NEW p \in Procs, NEW v \in Vals, WriteByte(p, v),
         UNCHANGED fileVars
  PROVE  \E i \in Pipes : Queue!Put(p, i, v)
<1>a. Types /\ Types' /\ InCall /\ OpenEnds /\ Bounded BY Zenon DEF IInv
<1>b. io[p] \in Pipes BY Zenon, <1>a, PutOK
<1>0. PICK i \in Pipes : i = io[p] BY Zenon, <1>b
<1>1. /\ \A j \in Pipes \ {i} : pipe'[j] = pipe[j]
      /\ pipe'[i].free = pipe[i].free
  <2>1. /\ \A j \in Pipes \ {io[p]} : pipe'[j] = pipe[j]
        /\ pipe'[io[p]].free = pipe[io[p]].free
    BY Zenon, <1>a, PutOK
  <2> QED BY Zenon, <2>1, <1>0
<1>2. pc[p] = "wloop" /\ got' = got BY DEF WriteByte
<1>5. p \in Users(i, TRUE) /\ ~pipe[i].free
  BY Zenon, <1>0, <1>2, CallUsers DEF InPipe, Writing
<1>6. p \in Writers[i] /\ ~pipe[i].free BY Zenon, <1>5 DEF Writers
<1>7. Contents(i)' = Append(Contents(i), v) /\ Len(Contents(i)) < PIPESIZE
  BY Zenon, <1>a, <1>0, PutContents
<1>8. Bytes[i] = Contents(i) BY Zenon, <1>6 DEF Bytes
<1>9. Bytes' = [Bytes EXCEPT ![i] = IF pipe'[i].free THEN <<>> ELSE Contents(i)']
  BY Zenon, <1>1, OnePipe
<1>10. Bytes' = [Bytes EXCEPT ![i] = Append(Bytes[i], v)] BY Zenon, <1>1, <1>6, <1>7, <1>8, <1>9
<1>11. Readers' = Readers /\ Writers' = Writers BY Zenon, SameUsers DEF fileVars
<1>12. Len(Bytes[i]) < PIPESIZE BY Zenon, <1>7, <1>8
<1> QED BY Zenon, <1>2, <1>6, <1>10, <1>11, <1>12 DEF Queue!Put

\* piperead() takes bytes, or sees the end of the file.
LEMMA GetStep ==
  ASSUME FiniteSetFacts, IInv, IInv', NEW p \in Procs, NEW k \in 0..PIPESIZE, NEW lost \in 0..1,
         ReadCopy(p, k, lost), UNCHANGED fileVars
  PROVE  \E i \in Pipes : Queue!Get(p, i, k, lost) \/ Queue!Eof(p, i)
<1>a. Types /\ Types' /\ InCall /\ OpenEnds /\ Bounded BY Zenon DEF IInv
<1>b. io[p] \in Pipes BY Zenon, <1>a, TakeOK
<1>0. PICK i \in Pipes : i = io[p] BY Zenon, <1>b
<1>1. /\ \A j \in Pipes \ {i} : pipe'[j] = pipe[j]
      /\ pipe'[i].free = pipe[i].free
  <2>1. /\ \A j \in Pipes \ {io[p]} : pipe'[j] = pipe[j]
        /\ pipe'[io[p]].free = pipe[io[p]].free
    BY Zenon, <1>a, TakeOK
  <2> QED BY Zenon, <2>1, <1>0
<1>2. pc[p] = "read" BY DEF ReadCopy
<1>3. pc[p] \in InPipe /\ pc[p] \notin Writing BY <1>2 DEF InPipe, Writing
<1>4. p \in Users(i, FALSE) /\ ~pipe[i].free BY Zenon, <1>0, <1>3, CallUsers
<1>5. p \in Readers[i] /\ ~pipe[i].free BY Zenon, <1>4 DEF Readers
<1>6. /\ k + lost <= Len(Contents(i))
      /\ Contents(i)' = SubSeq(Contents(i), k + lost + 1, Len(Contents(i)))
      /\ got' = [got EXCEPT ![p] = SubSeq(Contents(i), 1, k)]
  BY <1>a, <1>0, TakeContents
<1>7. Bytes[i] = Contents(i) BY Zenon, <1>5 DEF Bytes
<1>8. Bytes' = [Bytes EXCEPT ![i] = IF pipe'[i].free THEN <<>> ELSE Contents(i)']
  BY Zenon, <1>1, OnePipe
<1>9. Bytes' = [Bytes EXCEPT ![i] = SubSeq(Bytes[i], k + lost + 1, Len(Bytes[i]))]
  BY Zenon, <1>1, <1>5, <1>6, <1>7, <1>8
<1>10. Readers' = Readers /\ Writers' = Writers BY Zenon, SameUsers DEF fileVars
<1>11. CASE k + lost > 0
  <2>1. k + lost <= Len(Bytes[i]) /\ got' = [got EXCEPT ![p] = SubSeq(Bytes[i], 1, k)]
    BY Zenon, <1>6, <1>7
  <2>2. Queue!Get(p, i, k, lost)
    BY Zenon, <2>1, <1>5, <1>9, <1>10, <1>11 DEF Queue!Get
  <2> QED BY Zenon, <2>2
<1>12. CASE ~(k + lost > 0)
  <2>1. k = 0 /\ lost = 0 BY <1>12, WrapOK
  <2>2. left[p] > 0
    <3>1. pc[p] # "wloop" BY <1>2
    <3> QED BY Zenon, <3>1, <1>3, <1>a DEF InCall
  <2>3. k = left[p] \/ k = Count(i) BY Zenon, <2>1, <1>0 DEF ReadCopy
  <2>4. Count(i) = 0 BY <2>1, <2>2, <2>3
  <2>5. Len(Contents(i)) = 0 /\ Contents(i) \in Seq(Vals \cup {None})
    BY Zenon, <2>4, <1>a, ContentsIs
  <2>6. Contents(i) = <<>> BY <2>5
  <2>7. SubSeq(Contents(i), 1, k) = <<>> /\ Contents(i)' = <<>>
    BY <2>1, <2>6, <1>6
  <2>8. got' = [got EXCEPT ![p] = <<>>] BY Zenon, <2>7, <1>6
  <2>9. Bytes' = [Bytes EXCEPT ![i] = Bytes[i]] /\ Bytes[i] = <<>>
    BY Zenon, <1>1, <1>5, <1>7, <1>8, <2>6, <2>7
  <2>10. Bytes' = Bytes
    <3>1. Bytes = [j \in Pipes |-> Bytes[j]] BY DEF Bytes
    <3> HIDE DEF Bytes
    <3> QED BY <2>9, <3>1
  <2>11. IsEmpty(i) BY Zenon, <2>4, <1>a, CountIs
  <2>12. ~pipe[i].writeopen BY Zenon, <2>11, <1>0 DEF ReadCopy, NothingYet
  <2>13. ~Live(i, TRUE) BY Zenon, <2>12, <1>a DEF OpenEnds
  <2>14. \A f \in FileSet : file[f] # PipeEnd(i, TRUE) BY Zenon, <2>13, EndInUse
  <2>15. Writers[i] = {} BY Zenon, <2>14, NoUsers DEF UsersHaveFiles, Writers
  <2>16. Queue!Eof(p, i) BY Zenon, <2>8, <2>9, <2>10, <2>15, <1>5, <1>10 DEF Queue!Eof
  <2> QED BY Zenon, <2>16
<1> QED BY Zenon, <1>11, <1>12

\* The result of a read reaches the process, or is dropped by exit().
LEMMA ReturnStep ==
  ASSUME NEW p \in Procs, got \in [Procs -> Seq(Vals \cup {None}) \cup {None}],
         got' = [got EXCEPT ![p] = None], UNCHANGED <<pipe, file, ofile>>
  PROVE  Queue!Return(p) \/ UNCHANGED Queue!vars
<1>1. Bytes' = Bytes /\ Readers' = Readers /\ Writers' = Writers BY Zenon, AllBytes, SameUsers
<1>2. CASE got[p] = None
  <2>1. got' = got BY <1>2
  <2> QED BY Zenon, <1>1, <2>1 DEF Queue!vars
<1>3. CASE got[p] # None BY Zenon, <1>1, <1>3 DEF Queue!Return
<1> QED BY Zenon, <1>2, <1>3

\* pipeclose() of the second end discards what is left in the pipe.
LEMMA CloseStep ==
  ASSUME FiniteSetFacts, IInv, NEW p \in Procs, PipeClose(p)
  PROVE  UNCHANGED Queue!vars \/ \E i \in Pipes : Queue!Discard(i)
<1>a. Types /\ Single /\ OpenEnds BY Zenon DEF IInv
<1>0. PICK i \in Pipes, w \in BOOLEAN : ff[p] = PipeEnd(i, w)
  BY <1>a DEF PipeClose, Types, Ends
<1>1. pipe' = Closed(i, w)
  <2>1. ff[p].pipe = i /\ ff[p].writable = w BY <1>0, EndsApart
  <2> QED BY Zenon, <2>1 DEF PipeClose
<1>2. got' = got /\ file' = file /\ ofile' = ofile BY DEF PipeClose
<1>3. Readers' = Readers /\ Writers' = Writers BY Zenon, <1>2, SameUsers
<1>4. \A j \in Pipes \ {i} : pipe'[j] = pipe[j] BY Zenon, <1>a, <1>1, ClosedOK
<1>5. Bytes' = [Bytes EXCEPT ![i] = IF pipe'[i].free THEN <<>> ELSE Contents(i)']
  BY Zenon, <1>4, OnePipe
<1>6. CASE IF w THEN pipe[i].readopen ELSE pipe[i].writeopen
  <2>1. /\ pipe'[i].data = pipe[i].data /\ pipe'[i].nread = pipe[i].nread
        /\ pipe'[i].nwrite = pipe[i].nwrite /\ pipe'[i].free = pipe[i].free
    BY Zenon, <1>6, <1>1, <1>a, ClosedOK
  <2>2. Count(i)' = Count(i) BY Zenon, <2>1 DEF Count
  <2>3. Contents(i)' = Contents(i) BY Zenon, <2>1, <2>2 DEF Contents
  <2>4. Bytes = [j \in Pipes |-> Bytes[j]]
        /\ Bytes[i] = IF pipe[i].free THEN <<>> ELSE Contents(i) BY DEF Bytes
  <2>5. Bytes' = [Bytes EXCEPT ![i] = Bytes[i]] BY Zenon, <2>1, <2>3, <2>4, <1>5
  <2>6. Bytes' = Bytes
    <3> HIDE DEF Bytes
    <3> QED BY <2>4, <2>5
  <2> QED BY Zenon, <2>6, <1>2, <1>3 DEF Queue!vars
<1>7. CASE ~(IF w THEN pipe[i].readopen ELSE pipe[i].writeopen)
  <2>1. pipe'[i] = EmptyPipe(FALSE) BY Zenon, <1>7, <1>1, <1>a, ClosedOK
  <2>2. pipe'[i].free BY Zenon, <2>1, EmptyOK
  <2>3. Bytes' = [Bytes EXCEPT ![i] = <<>>] BY Zenon, <2>2, <1>5
  <2>4. \A f \in FileSet : file[f] # PipeEnd(i, w)
    <3>1. PipeEnd(i, w) # NoFile BY Zenon, EndsApart
    <3> QED BY Zenon, <3>1, <1>0, <1>a DEF Single
  <2>5. PICK v \in BOOLEAN : (v <=> ~w) /\ ~Live(i, v)
    <3>1. CASE w = TRUE BY Zenon, <3>1, <1>7, <1>a DEF OpenEnds
    <3>2. CASE w = FALSE BY Zenon, <3>2, <1>7, <1>a DEF OpenEnds
    <3> QED BY Zenon, <3>1, <3>2
  <2>6. \A f \in FileSet : file[f] # PipeEnd(i, v) BY Zenon, <2>5, EndInUse
  <2>7. Users(i, w) = {} /\ Users(i, v) = {} BY Zenon, <2>4, <2>6, NoUsers DEF UsersHaveFiles
  <2>8. Users(i, TRUE) = {} /\ Users(i, FALSE) = {}
    <3>1. CASE w = TRUE
      <4>1. v = FALSE BY Zenon, <3>1, <2>5
      <4> QED BY Zenon, <3>1, <4>1, <2>7
    <3>2. CASE w = FALSE
      <4>1. v = TRUE BY Zenon, <3>2, <2>5
      <4> QED BY Zenon, <3>2, <4>1, <2>7
    <3> QED BY Zenon, <3>1, <3>2
  <2>9. Readers[i] = {} /\ Writers[i] = {} BY Zenon, <2>8 DEF Readers, Writers
  <2>10. Queue!Discard(i) BY Zenon, <2>3, <2>9, <1>2, <1>3 DEF Queue!Discard
  <2> QED BY Zenon, <2>10
<1> QED BY Zenon, <1>6, <1>7

\* q has a pointer to f.
Has(q, f) == \E y \in Places : ofile[q][y] = f

UsersHave ==
  \A q : \A j \in Pipes, v \in BOOLEAN :
    q \in Users(j, v) <=> q \in Procs /\ \E f \in FileSet : Has(q, f) /\ file[f] = PipeEnd(j, v)

\* The users of an end, by the files they have.
LEMMA UsersByFile ==
  ASSUME ofile \in [Procs -> [Places -> FileSet \cup {None}]] PROVE UsersHave
<1> SUFFICES ASSUME NEW j \in Pipes, NEW v \in BOOLEAN, NEW q \in Procs
             PROVE  q \in Users(j, v) <=> \E f \in FileSet : Has(q, f) /\ file[f] = PipeEnd(j, v)
  BY Zenon DEF UsersHave, Users
<1>1. ASSUME q \in Users(j, v) PROVE \E f \in FileSet : Has(q, f) /\ file[f] = PipeEnd(j, v)
  <2>1. PICK x \in Places : ofile[q][x] # None /\ file[ofile[q][x]] = PipeEnd(j, v)
    BY Zenon, <1>1 DEF Users
  <2>2. ofile[q][x] \in FileSet BY <2>1
  <2> QED BY Zenon, <2>1, <2>2 DEF Has
<1>2. ASSUME NEW f \in FileSet, Has(q, f), file[f] = PipeEnd(j, v) PROVE q \in Users(j, v)
  <2>1. f # None BY FilesConstants
  <2> QED BY Zenon, <2>1, <1>2 DEF Users, Has
<1> QED BY Zenon, <1>1, <1>2

\* sys_pipe() makes a new pipe that p alone can use.
LEMMA NewStep ==
  ASSUME FiniteSetFacts, IInv, IInv', NEW p \in Procs, NEW i \in Pipes, NEW ok \in BOOLEAN,
         PipeAlloc(p, i, ok)
  PROVE  Queue!New(p, i)
<1>a. Types /\ Types' /\ Held /\ Fresh BY Zenon DEF IInv
<1>b. /\ pc[p] = "kalloc" /\ pipe[i].free /\ pipe' = [pipe EXCEPT ![i] = EmptyPipe(TRUE)]
      /\ got' = got
  BY Zenon DEF PipeAlloc
<1>0. PICK f0, f1 \in FileSet : f0 = ofile[p][RF] /\ f1 = ofile[p][WF]
  BY <1>a, <1>b, PlacesOK DEF Types, Held
<1>c. /\ RF \in Places /\ WF \in Places /\ RF # WF /\ RF \notin Fds /\ WF \notin Fds
      /\ Fds \subseteq Places /\ f0 # None /\ f1 # None /\ None \notin FileSet
  BY Zenon, PlacesOK, FilesConstants
<1>d. /\ file[f0] = NoFile /\ file[f1] = NoFile
      /\ \A q \in Procs, y \in Places : /\ ofile[q][y] = f0 => q = p /\ y = RF
                                        /\ ofile[q][y] = f1 => q = p /\ y = WF
  <2>1. Fresh /\ pc[p] \in {"file1", "kalloc"} BY <1>a, <1>b
  <2>2. RF \in {RF, WF} /\ WF \in {RF, WF} OBVIOUS
  <2>3. /\ file[ofile[p][RF]] = NoFile
        /\ \A q \in Procs, y \in Places : ofile[q][y] = ofile[p][RF] => q = p /\ y = RF
    BY Zenon, <2>1, <2>2, <1>0, <1>c, FreshAt
  <2>4. /\ file[ofile[p][WF]] = NoFile
        /\ \A q \in Procs, y \in Places : ofile[q][y] = ofile[p][WF] => q = p /\ y = WF
    BY Zenon, <2>1, <2>2, <1>0, <1>c, FreshAt
  <2> QED BY Zenon, <2>3, <2>4, <1>0
<1>e. f0 # f1 BY <1>0, <1>c, <1>d
<1>g. \A g \in FileSet : file'[g] = IF g = f0 THEN PipeEnd(i, FALSE)
                                    ELSE IF g = f1 THEN PipeEnd(i, TRUE) ELSE file[g]
  <2>1. file' = [file EXCEPT ![f0] = PipeEnd(i, FALSE), ![f1] = PipeEnd(i, TRUE)]
    BY Zenon, <1>0 DEF PipeAlloc
  <2> QED BY Zenon, <2>1, <1>a, <1>e DEF Types
<1>h. AllocMoves(p, ok, f0, f1) BY Zenon, <1>0, <1>a, AllocSteps
<1>1. ASSUME NEW q \in Procs, NEW f \in FileSet PROVE Has(q, f)' <=> Has(q, f)
  <2>1. CASE ofile' = ofile BY Zenon, <2>1 DEF Has
  <2>2. CASE ofile' # ofile
    <3>1. PICK x0, x1 \in Fds :
            /\ ofile[p][x0] = None /\ ofile[p][x1] = None
            /\ ofile'[p][x0] = f0 /\ ofile'[p][x1] = f1
            /\ ofile'[p][RF] = None /\ ofile'[p][WF] = None
            /\ \A r \in Procs, y \in Places :
                 r # p \/ y \notin {x0, x1, RF, WF} => ofile'[r][y] = ofile[r][y]
      BY Zenon, <2>2, <1>h DEF AllocMoves
    <3>2. CASE q # p BY Zenon, <3>1, <3>2 DEF Has
    <3>3. CASE q = p
      <4>1. x0 \in Places /\ x1 \in Places /\ f # None BY Zenon, <1>c
      <4>2. ASSUME NEW y \in Places, ofile'[p][y] = f PROVE Has(p, f)
        <5>1. CASE y \in {x0, x1, RF, WF} BY Zenon, <5>1, <4>1, <4>2, <3>1, <1>0, <1>c DEF Has
        <5>2. CASE y \notin {x0, x1, RF, WF} BY Zenon, <5>2, <4>2, <3>1 DEF Has
        <5> QED BY Zenon, <5>1, <5>2
      <4>3. ASSUME NEW y \in Places, ofile[p][y] = f PROVE Has(p, f)'
        <5>1. CASE y \in {x0, x1, RF, WF} BY Zenon, <5>1, <4>1, <4>3, <3>1, <1>0, <1>c DEF Has
        <5>2. CASE y \notin {x0, x1, RF, WF} BY Zenon, <5>2, <4>3, <3>1 DEF Has
        <5> QED BY Zenon, <5>1, <5>2
      <4> QED BY Zenon, <3>3, <4>2, <4>3 DEF Has
    <3> QED BY Zenon, <3>2, <3>3
  <2> QED BY Zenon, <2>1, <2>2
<1>2. UsersHave /\ UsersHave'
  <2>1. UsersHave BY Zenon, <1>a, UsersByFile DEF Types
  <2>2. (ofile \in [Procs -> [Places -> FileSet \cup {None}]])' BY Zenon, <1>a DEF Types
  <2>3. UsersHave' BY <2>2, UsersByFile, PTL
  <2> QED BY Zenon, <2>1, <2>3
<1>3. \A w \in BOOLEAN : Users(i, w) = {}
  BY Zenon, <1>b, FreePage, NoUsers DEF UsersHaveFiles
<1>4. ASSUME NEW j \in Pipes, NEW v \in BOOLEAN, j # i PROVE Users(j, v)' = Users(j, v)
  <2>1. PipeEnd(j, v) # NoFile /\ \A w : PipeEnd(j, v) # PipeEnd(i, w) BY <1>4, EndsApart
  <2>2. \A f \in FileSet : file'[f] = PipeEnd(j, v) <=> file[f] = PipeEnd(j, v)
    BY Zenon, <2>1, <1>d, <1>g
  <2>3. \A q : q \in Users(j, v)' <=> q \in Users(j, v)
    <3>1. \A q \in Procs, f \in FileSet :
            Has(q, f)' /\ file'[f] = PipeEnd(j, v) <=> Has(q, f) /\ file[f] = PipeEnd(j, v)
      BY Zenon, <2>2, <1>1
    <3>2. \A q : q \in Users(j, v)' <=>
                 q \in Procs /\ \E f \in FileSet : Has(q, f)' /\ file'[f] = PipeEnd(j, v)
      BY Zenon, <1>2 DEF UsersHave
    <3>3. \A q : q \in Users(j, v) <=>
                 q \in Procs /\ \E f \in FileSet : Has(q, f) /\ file[f] = PipeEnd(j, v)
      BY Zenon, <1>2 DEF UsersHave
    <3> QED BY Zenon, <3>1, <3>2, <3>3
  <2> QED BY Zenon, <2>3
<1>5. \A f \in FileSet, w \in BOOLEAN : file[f] # PipeEnd(i, w) BY Zenon, <1>b, FreePage
<1>6. \A q \in Procs : (Has(q, f0)' <=> q = p) /\ (Has(q, f1)' <=> q = p)
  <2>1. \A q \in Procs : (Has(q, f0) <=> q = p) /\ (Has(q, f1) <=> q = p)
    BY Zenon, <1>0, <1>c, <1>d DEF Has
  <2> QED BY Zenon, <2>1, <1>1
<1>7. PipeEnd(i, FALSE) # PipeEnd(i, TRUE)
  <2>1. FALSE # TRUE OBVIOUS
  <2> QED BY Zenon, <2>1, EndsApart
<1>8. Users(i, FALSE)' = {p}
  <2>1. \A f \in FileSet : file'[f] = PipeEnd(i, FALSE) <=> f = f0 BY Zenon, <1>5, <1>7, <1>g, <1>e
  <2>2. \A q : q \in Users(i, FALSE)' <=> q = p BY Zenon, <2>1, <1>2, <1>6 DEF UsersHave
  <2> QED BY Zenon, <2>2
<1>9. Users(i, TRUE)' = {p}
  <2>1. \A f \in FileSet : file'[f] = PipeEnd(i, TRUE) <=> f = f1 BY Zenon, <1>5, <1>7, <1>g, <1>e
  <2>2. \A q : q \in Users(i, TRUE)' <=> q = p BY Zenon, <2>1, <1>2, <1>6 DEF UsersHave
  <2> QED BY Zenon, <2>2
<1>10. /\ Readers[i] = {} /\ Writers[i] = {}
       /\ Readers' = [Readers EXCEPT ![i] = {p}] /\ Writers' = [Writers EXCEPT ![i] = {p}]
  <2>1. Readers[i] = {} /\ Writers[i] = {} BY Zenon, <1>3 DEF Readers, Writers
  <2>2. Readers' = [Readers EXCEPT ![i] = {p}] BY Zenon, <1>4, <1>8 DEF Readers
  <2>3. Writers' = [Writers EXCEPT ![i] = {p}] BY Zenon, <1>4, <1>9 DEF Writers
  <2> QED BY Zenon, <2>1, <2>2, <2>3
<1>11. Bytes' = [Bytes EXCEPT ![i] = <<>>]
  <2>1. pipe'[i] = EmptyPipe(TRUE) /\ \A j \in Pipes \ {i} : pipe'[j] = pipe[j]
    BY <1>a, <1>b DEF Types
  <2>2. pipe'[i].nread = 0 /\ pipe'[i].nwrite = 0 BY Zenon, <2>1, EmptyOK
  <2>3. Count(i)' = 0
    <3>1. (0 + WRAP - 0) % WRAP = 0 BY WrapOK
    <3> QED BY <2>2, <3>1 DEF Count
  <2>4. Contents(i)' = <<>> BY <2>3 DEF Contents
  <2>5. Bytes' = [Bytes EXCEPT ![i] = IF pipe'[i].free THEN <<>> ELSE Contents(i)']
    BY Zenon, <2>1, OnePipe
  <2> QED BY Zenon, <2>4, <2>5
<1> QED BY Zenon, <1>10, <1>11, <1>b DEF Queue!New

\* All queues are empty and nobody has them.
LEMMA FifoInit == ASSUME Init PROVE Queue!Init
<1>1. \A i \in Pipes : pipe[i] = EmptyPipe(FALSE) BY Zenon DEF Init, PipeInit
<1>2. EmptyPipe(FALSE).free BY Zenon, EmptyOK
<1>3. Bytes = [i \in Pipes |-> <<>>] BY Zenon, <1>1, <1>2 DEF Bytes
<1>4. \A p \in Procs, x \in Places : ofile[p][x] = None BY DEF Init
<1>5. \A i, w : Users(i, w) = {} BY Zenon, <1>4 DEF Users
<1>6. Readers = [i \in Pipes |-> {}] /\ Writers = [i \in Pipes |-> {}]
  BY Zenon, <1>5 DEF Readers, Writers
<1> QED BY Zenon, <1>3, <1>6 DEF Init, PipeInit, Queue!Init

\* Every step of a process is a step of the queues, or none.
LEMMA FifoStep ==
  ASSUME FiniteSetFacts, IInv, IInv', NEW p \in Procs, Step(p)
  PROVE  Queue!Next \/ UNCHANGED Queue!vars
<1>a. Types BY Zenon DEF IInv
<1>1. CASE PipeFile0(p) \/ PipeFile1(p) \/ PipeNoPage(p) \/ CloseEnd(p) \/ ExitEnd(p)
  <2>1. UNCHANGED <<pipe, got, file>>
    BY <1>1 DEF PipeFile0, PipeFile1, PipeNoPage, CloseEnd, ExitEnd, fileVars
  <2>2. Queue!Share BY Zenon, <2>1, ShareStep
  <2> QED BY Zenon, <2>2 DEF Queue!Next
<1>2. CASE FileClose(p) \/ ExitClose(p)
  <2>1. PICK x : CloseAt(p, x) /\ UNCHANGED pipeVars BY Zenon, <1>2 DEF FileClose, ExitClose
  <2>2. UNCHANGED <<pipe, got>> BY <2>1 DEF pipeVars
  <2>3. \A f \in FileSet : file'[f] = file[f] \/ file'[f] = NoFile
    BY <2>1, <1>a DEF CloseAt, Types
  <2>4. Queue!Share BY Zenon, <2>2, <2>3, ShareStep
  <2> QED BY Zenon, <2>4 DEF Queue!Next
<1>3. CASE PipeClose(p) BY Zenon, <1>3, CloseStep DEF Queue!Next
<1>4. CASE Exit(p) \/ SysReturn(p)
  <2>1. got' = [got EXCEPT ![p] = None] /\ UNCHANGED <<pipe, file, ofile>>
    BY <1>4 DEF Exit, SysReturn, fileVars
  <2>2. got \in [Procs -> Seq(Vals \cup {None}) \cup {None}] BY Zenon, <1>a DEF Types
  <2> QED BY Zenon, <2>1, <2>2, ReturnStep DEF Queue!Next
<1>5. ASSUME NEW i \in Pipes, NEW ok \in BOOLEAN, PipeAlloc(p, i, ok) PROVE Queue!Next
  BY Zenon, <1>5, NewStep DEF Queue!Next
<1>6. ASSUME NEW fd \in Fds, SysClose(p, fd) \/ SysDup(p, fd) PROVE Queue!Next
  <2>1. UNCHANGED <<pipe, got, file>> BY <1>6 DEF SysClose, SysDup, pipeVars
  <2>2. Queue!Share BY Zenon, <2>1, ShareStep
  <2> QED BY Zenon, <2>2 DEF Queue!Next
<1>7. ASSUME NEW fd \in Fds, NEW n \in 1..MAXIO, SysRw(p, fd, n) PROVE Queue!Next
  <2>1. UNCHANGED <<pipe, got, file>> BY <1>7 DEF SysRw
  <2>2. Queue!Share BY Zenon, <2>1, ShareStep
  <2> QED BY Zenon, <2>2 DEF Queue!Next
<1>8. ASSUME NEW q \in Procs, Fork(p, q) PROVE Queue!Next
  <2>1. UNCHANGED <<pipe, got, file>> BY <1>8 DEF Fork
  <2>2. Queue!Share BY Zenon, <2>1, ShareStep
  <2> QED BY Zenon, <2>2 DEF Queue!Next
<1>9. ASSUME PipeStep(p), UNCHANGED fileVars PROVE Queue!Next
  <2>1. CASE \/ WriteLock(p) \/ WriteAbort(p) \/ WriteSleep(p) \/ WriteDone(p)
             \/ ReadSleep(p) \/ ReadAbort(p) \/ Kill(p)
    <3>1. UNCHANGED <<pipe, got, file>>
      BY <2>1, <1>9 DEF WriteLock, WriteAbort, WriteSleep, WriteDone, ReadSleep, ReadAbort, Kill,
                        fileVars
    <3>2. Queue!Share BY Zenon, <3>1, ShareStep
    <3> QED BY Zenon, <3>2 DEF Queue!Next
  <2>2. ASSUME NEW v \in Vals, WriteByte(p, v) PROVE Queue!Next
    BY Zenon, <1>9, <2>2, PutStep DEF Queue!Next
  <2>3. ASSUME NEW k \in 0..PIPESIZE, NEW lost \in 0..1, ReadCopy(p, k, lost) PROVE Queue!Next
    BY Zenon, <1>9, <2>3, GetStep DEF Queue!Next
  <2> QED BY Zenon, <2>1, <2>2, <2>3, <1>9 DEF PipeStep
<1> QED BY Zenon, <1>1, <1>2, <1>3, <1>4, <1>5, <1>6, <1>7, <1>8, <1>9 DEF Step

\* Every step of the system is one of the queues, or none.
LEMMA FifoNext == ASSUME FiniteSetFacts, IInv, IInv', [Next]_vars PROVE [Queue!Next]_(Queue!vars)
<1>1. CASE Next BY Zenon, <1>1, FifoStep DEF Next
<1>2. CASE UNCHANGED vars
  <2>1. UNCHANGED <<pipe, got, file, ofile>> BY <1>2 DEF vars, pipeVars, fileVars
  <2>2. Bytes' = Bytes /\ Readers' = Readers /\ Writers' = Writers
    BY Zenon, <2>1, AllBytes, SameUsers
  <2> QED BY Zenon, <2>1, <2>2 DEF Queue!vars
<1> QED BY <1>1, <1>2
-----------------------------------------------------------------------------
(* Theorems *)

Library == INSTANCE FiniteSetTheorems
Orders == INSTANCE WellFoundedInduction

\* The library speaks of the same finite sets.
LEMMA SameFiniteSets ==
  /\ \A S : Library!Cardinality(S) = Cardinality(S)
  /\ \A S : Library!IsFiniteSet(S) <=> IsFiniteSet(S)
BY DEF Library!Cardinality, Cardinality, Library!IsFiniteSet, IsFiniteSet

\* The library proves the facts that the lemmas take as a hypothesis.
LEMMA FiniteSetsAreSo == FiniteSetFacts
<1> USE SameFiniteSets
<1>1. EmptyFact /\ CountFact
  BY Library!FS_EmptySet, Library!FS_CardinalityType DEF EmptyFact, CountFact
<1>2. SubsetFact BY Library!FS_Subset DEF SubsetFact
<1>3. AddFact BY Library!FS_AddElement DEF AddFact
<1>4. RemoveFact BY Library!FS_RemoveElement DEF RemoveFact
<1>5. IntervalFact BY Library!FS_Interval DEF IntervalFact
<1>6. ProductFact BY Library!FS_Product DEF ProductFact
<1>7. UnionFact BY Library!FS_Union DEF UnionFact
<1>8. InjectionFact
  <2>1. \A f, S, T : OneToOne(f, S, T) => f \in Library!Injection(S, T)
    BY DEF OneToOne, Library!Injection, Library!IsInjective
  <2> QED BY <2>1, Library!FS_Injection DEF InjectionFact
<1>9. LeastFact
  <2> SUFFICES ASSUME NEW S \in SUBSET Nat, S # {} PROVE \E x \in S : \A y \in S : x <= y
    BY Zenon DEF LeastFact
  <2>1. PICK x \in S : \A y \in S : <<y, x>> \notin Orders!OpToRel(<, Nat)
    BY Zenon, Orders!NatLessThanWellFounded, Orders!WFMin
  <2>2. \A y \in S : ~(y < x) BY Zenon, <2>1 DEF Orders!OpToRel
  <2>3. \A y \in S : x <= y BY <2>2
  <2> QED BY Zenon, <2>3
<1> QED
  BY Zenon, <1>1, <1>2, <1>3, <1>4, <1>5, <1>6, <1>7, <1>8, <1>9 DEF FiniteSetFacts

\* The invariant holds always.
LEMMA FilesInvariant == Spec => []IInv
<1>1. Init => IInv BY Zenon, FiniteSetsAreSo, IInvInit
<1>2. IInv /\ [Next]_vars => IInv' BY Zenon, FiniteSetsAreSo, IInvNext
<1> QED BY <1>1, <1>2, PTL DEF Spec

\* However many processes, files, descriptors and pipes there are, and wherever fork(),
\* dup(), close(), exit() and the error paths of pipe() meet: f->ref is the number of
\* pointers to f, no panic of file.c is reached, and a pipe is open and its page
\* allocated exactly as long as a file or a pending pipeclose() needs it.
THEOREM ReferencesAreExact == Spec => []RefsExact
<1>1. IInv => RefsExact BY Zenon DEF IInv, RefsExact, Counted, OpenEnds
<1> QED BY <1>1, FilesInvariant, PTL

\* A wakeup is never missed: whoever sleeps in piperead() or pipewrite() has a reason to.
THEOREM NoWakeupMissed == Spec => []SleepersHaveReason
<1>1. IInv => SleepersHaveReason BY Zenon DEF IInv
<1> QED BY <1>1, FilesInvariant, PTL

\* The ring buffers behind the descriptors are FIFOs, for every PIPESIZE and WRAP.
THEOREM PipesAreFifos == Spec => ImplementsFifo
<1>1. Init => Queue!Init BY Zenon, FifoInit
<1>2. IInv /\ IInv' /\ [Next]_vars => [Queue!Next]_(Queue!vars) BY Zenon, FiniteSetsAreSo, FifoNext
<1> QED BY <1>1, <1>2, FilesInvariant, PTL DEF Spec, ImplementsFifo, Queue!Spec
=============================================================================
