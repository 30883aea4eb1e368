------------------------------ MODULE FilesRefs -----------------------------
(***************************************************************************)
(* The steps of file.c, sysfile.c, pipealloc(), pipeclose(), fork() and    *)
(* exit() on files and descriptors keep the invariant of FilesInv: for     *)
(* each step, which references it adds, moves or drops, and what that does *)
(* to the counts.                                                          *)
(***************************************************************************)
EXTENDS FilesInv, TLAPS

\* What the constants give of counters and buffer.
LEMMA SizesOK == WRAP \in Nat \ {0} /\ PIPESIZE \in Nat \ {0} /\ PIPESIZE < WRAP
BY PipeConstants

\* wakeup() moves exactly the sleepers on its channel.
LEMMA WokenOK ==
  ASSUME Types, NEW i, NEW l, NEW to \in Pcs
  PROVE  /\ Wakeup(pc, i, l, to) \in [Procs -> Pcs]
         /\ \A q \in Procs : Wakeup(pc, i, l, to)[q] = IF pc[q] = l /\ io[q] = i THEN to ELSE pc[q]
BY DEF Wakeup, Types

\* The scan of a table finds an entry when there is one.
LEMMA FirstOK == ASSUME FiniteSetFacts, NEW S \in SUBSET Nat, S # {} PROVE First(S) \in S
<1>1. \E x \in S : \A y \in S : x <= y BY Zenon DEF FiniteSetFacts, LeastFact
<1> QED BY Zenon, <1>1 DEF First

\* The descriptors, rf and wf are different places.
LEMMA PlacesOK ==
  /\ Fds \subseteq Places /\ RF \in Places /\ WF \in Places /\ RF \notin Fds /\ WF \notin Fds
  /\ RF # WF /\ \A x \in Places : x \in Fds \/ x = RF \/ x = WF
BY FilesConstants DEF Fds, Places, RF, WF

\* filealloc(), fdalloc() and the loops over ofile[] find what they look for.
LEMMA FirstPlaces ==
  ASSUME FiniteSetFacts, NEW p \in Procs
  PROVE  /\ FreeFiles # {} => First(FreeFiles) \in FreeFiles
         /\ FreeFds(p) # {} => First(FreeFds(p)) \in FreeFds(p)
         /\ OpenFds(p) # {} => First(OpenFds(p)) \in OpenFds(p)
         /\ Due(p) # {} => First(Due(p)) \in Due(p)
         /\ Cardinality(FreeFds(p)) >= 2 =>
              /\ First(FreeFds(p)) \in FreeFds(p)
              /\ First(FreeFds(p) \ {First(FreeFds(p))}) \in FreeFds(p) \ {First(FreeFds(p))}
<1>1. FreeFiles \in SUBSET Nat BY DEF FreeFiles, FileSet
<1>2. FreeFds(p) \in SUBSET Nat BY DEF FreeFds, Fds
<1>3. OpenFds(p) \in SUBSET Nat BY DEF OpenFds, Fds
<1>4. Due(p) \in SUBSET Nat BY FilesConstants DEF Due, RF, WF
<1>5. ASSUME Cardinality(FreeFds(p)) >= 2
      PROVE  FreeFds(p) # {} /\ FreeFds(p) \ {First(FreeFds(p))} # {}
  <2>1. IsFiniteSet(1..NOFILE) BY FilesConstants DEF FiniteSetFacts, IntervalFact
  <2>2. IsFiniteSet((1..NOFILE) \cup {0}) BY Zenon, <2>1 DEF FiniteSetFacts, AddFact
  <2>3. FreeFds(p) \subseteq (1..NOFILE) \cup {0} BY FilesConstants DEF FreeFds, Fds
  <2>4. IsFiniteSet(FreeFds(p)) BY Zenon, <2>2, <2>3 DEF FiniteSetFacts, SubsetFact
  <2>5. FreeFds(p) # {} BY <1>5 DEF FiniteSetFacts, EmptyFact
  <2>6. First(FreeFds(p)) \in FreeFds(p) BY <2>5, <1>2, FirstOK
  <2>7. Cardinality(FreeFds(p) \ {First(FreeFds(p))}) = Cardinality(FreeFds(p)) - 1
    BY Zenon, <2>4, <2>6 DEF FiniteSetFacts, RemoveFact
  <2>8. Cardinality(FreeFds(p)) \in Nat BY Zenon, <2>4 DEF FiniteSetFacts, CountFact
  <2>9. Cardinality(FreeFds(p) \ {First(FreeFds(p))}) # 0 BY <1>5, <2>7, <2>8
  <2> QED BY Zenon, <2>5, <2>9 DEF FiniteSetFacts, EmptyFact
<1>6. FreeFds(p) \ {First(FreeFds(p))} \in SUBSET Nat BY Zenon, <1>2
<1> QED BY Zenon, <1>1, <1>2, <1>3, <1>4, <1>5, <1>6, FirstOK

\* A new pipe, and the page of a freed one.
LEMMA EmptyOK ==
  ASSUME NEW b \in BOOLEAN
  PROVE  /\ EmptyPipe(b) \in PipeRec
         /\ EmptyPipe(b).nread = 0 /\ EmptyPipe(b).nwrite = 0
         /\ EmptyPipe(b).readopen = b /\ EmptyPipe(b).writeopen = b /\ EmptyPipe(b).free = ~b
BY SizesOK DEF EmptyPipe, PipeRec, Ring

\* pipeclose() clears the flag of its end, and frees the page after the second.
LEMMA ClosedOK ==
  ASSUME Types, NEW i \in Pipes, NEW w \in BOOLEAN
  PROVE  /\ Closed(i, w) \in [Pipes -> PipeRec]
         /\ \A j \in Pipes \ {i} : Closed(i, w)[j] = pipe[j]
         /\ LET other == IF w THEN pipe[i].readopen ELSE pipe[i].writeopen IN
            /\ ~other => Closed(i, w)[i] = EmptyPipe(FALSE)
            /\ other => /\ Closed(i, w)[i].data = pipe[i].data
                        /\ Closed(i, w)[i].nread = pipe[i].nread
                        /\ Closed(i, w)[i].nwrite = pipe[i].nwrite
                        /\ Closed(i, w)[i].readopen = (pipe[i].readopen /\ w)
                        /\ Closed(i, w)[i].writeopen = (pipe[i].writeopen /\ ~w)
                        /\ Closed(i, w)[i].free = pipe[i].free
<1> DEFINE r == IF w THEN [pipe[i] EXCEPT !.writeopen = FALSE]
                     ELSE [pipe[i] EXCEPT !.readopen = FALSE]
<1>1. pipe[i] \in PipeRec /\ DOMAIN pipe = Pipes BY DEF Types
<1>2. /\ r \in PipeRec /\ r.data = pipe[i].data
      /\ r.nread = pipe[i].nread /\ r.nwrite = pipe[i].nwrite /\ r.free = pipe[i].free
      /\ r.readopen = (pipe[i].readopen /\ w) /\ r.writeopen = (pipe[i].writeopen /\ ~w)
  <2>1. CASE w BY Zenon, <1>1, <2>1 DEF PipeRec
  <2>2. CASE ~w BY Zenon, <1>1, <2>2 DEF PipeRec
  <2> QED BY Zenon, <2>1, <2>2
<1>3. EmptyPipe(FALSE) \in PipeRec BY Zenon, EmptyOK
<1> HIDE DEF r
<1>4. Closed(i, w) = IF r.readopen \/ r.writeopen THEN [pipe EXCEPT ![i] = r]
                                                  ELSE [pipe EXCEPT ![i] = EmptyPipe(FALSE)]
  BY Zenon DEF Closed, r
<1>5. (r.readopen \/ r.writeopen) <=> IF w THEN pipe[i].readopen ELSE pipe[i].writeopen
  BY Zenon, <1>2
<1>6. Closed(i, w) \in [Pipes -> PipeRec] BY Zenon, <1>2, <1>3, <1>4 DEF Types
<1>7. /\ \A j \in Pipes \ {i} : Closed(i, w)[j] = pipe[j]
      /\ Closed(i, w)[i] = IF r.readopen \/ r.writeopen THEN r ELSE EmptyPipe(FALSE)
  BY <1>1, <1>4
<1> QED BY Zenon, <1>2, <1>5, <1>6, <1>7
-----------------------------------------------------------------------------
(* Counting references *)

RefsIn(o, f) == {x \in Procs \X Places : o[x[1]][x[2]] = f}

OfileSet == [Procs -> [Places -> FileSet \cup {None}]]

\* References are finitely many.
LEMMA FiniteRefs ==
  ASSUME FiniteSetFacts, NEW o, NEW f
  PROVE  IsFiniteSet(RefsIn(o, f)) /\ Cardinality(RefsIn(o, f)) \in Nat
<1>1. IsFiniteSet(1..NOFILE + 1)
  BY FilesConstants DEF FiniteSetFacts, IntervalFact
<1>2. IsFiniteSet((1..NOFILE + 1) \cup {0}) BY Zenon, <1>1 DEF FiniteSetFacts, AddFact
<1>3. Places = (1..NOFILE + 1) \cup {0} BY FilesConstants DEF Places
<1>4. IsFiniteSet(Procs \X Places)
  BY Zenon, <1>2, <1>3, FilesConstants DEF FiniteSetFacts, ProductFact
<1>5. RefsIn(o, f) \subseteq Procs \X Places BY Zenon DEF RefsIn
<1> QED BY Zenon, <1>4, <1>5 DEF FiniteSetFacts, SubsetFact, CountFact

\* o2 differs from o at most in place x of p, where it has g.
Stored(o, o2, p, x, g) ==
  /\ o2[p][x] = g
  /\ \A q \in Procs, y \in Places : (q # p \/ y # x) => o2[q][y] = o[q][y]

\* The pointer at x moves to y.
Moved(o, o2, p, x, y) ==
  /\ o2[p][y] = o[p][x] /\ o2[p][x] = None
  /\ \A q \in Procs, z \in Places : (q # p \/ z \notin {x, y}) => o2[q][z] = o[q][z]

\* Storing g in a place adds a reference to g and takes one from what was there.
LEMMA SetRef ==
  ASSUME FiniteSetFacts, NEW o, NEW o2, NEW p \in Procs, NEW x \in Places, NEW g,
         Stored(o, o2, p, x, g), NEW f
  PROVE  /\ f = g /\ f # o[p][x] => Cardinality(RefsIn(o2, f)) = Cardinality(RefsIn(o, f)) + 1
         /\ f # g /\ f = o[p][x] => Cardinality(RefsIn(o2, f)) = Cardinality(RefsIn(o, f)) - 1
         /\ f # g /\ f # o[p][x] => Cardinality(RefsIn(o2, f)) = Cardinality(RefsIn(o, f))
<1>3. IsFiniteSet(RefsIn(o, f)) BY Zenon, FiniteRefs
<1>4. ASSUME f = g, f # o[p][x]
      PROVE  Cardinality(RefsIn(o2, f)) = Cardinality(RefsIn(o, f)) + 1
  <2>1. RefsIn(o2, f) = RefsIn(o, f) \cup {<<p, x>>} BY <1>4 DEF RefsIn, Stored
  <2>2. <<p, x>> \notin RefsIn(o, f) BY <1>4 DEF RefsIn
  <2> QED BY Zenon, <2>1, <2>2, <1>3 DEF FiniteSetFacts, AddFact
<1>5. ASSUME f # g, f = o[p][x]
      PROVE  Cardinality(RefsIn(o2, f)) = Cardinality(RefsIn(o, f)) - 1
  <2>1. RefsIn(o2, f) = RefsIn(o, f) \ {<<p, x>>} BY <1>5 DEF RefsIn, Stored
  <2>2. <<p, x>> \in RefsIn(o, f) BY <1>5 DEF RefsIn
  <2> QED BY Zenon, <2>1, <2>2, <1>3 DEF FiniteSetFacts, RemoveFact
<1>6. ASSUME f # g, f # o[p][x] PROVE RefsIn(o2, f) = RefsIn(o, f)
  BY <1>6 DEF RefsIn, Stored
<1> QED BY Zenon, <1>4, <1>5, <1>6

\* Moving a reference to an empty place changes no count.
LEMMA MoveRef ==
  ASSUME FiniteSetFacts, NEW o \in OfileSet, NEW o2, NEW p \in Procs, NEW x \in Places, NEW y \in Places,
         x # y, o[p][y] = None, Moved(o, o2, p, x, y)
  PROVE  \A f \in FileSet : Cardinality(RefsIn(o2, f)) = Cardinality(RefsIn(o, f))
<1>1. PICK o1 : o1 = [o EXCEPT ![p][y] = o[p][x]] BY Zenon
<1>2. Stored(o, o1, p, y, o[p][x]) BY <1>1 DEF OfileSet, Stored
<1>3. Stored(o1, o2, p, x, None) BY <1>2 DEF Stored, Moved
<1>4. ASSUME NEW f \in FileSet PROVE Cardinality(RefsIn(o2, f)) = Cardinality(RefsIn(o, f))
  <2>1. f # None BY Zenon, FilesConstants
  <2>2. /\ f = o[p][x] => Cardinality(RefsIn(o1, f)) = Cardinality(RefsIn(o, f)) + 1
        /\ f # o[p][x] => Cardinality(RefsIn(o1, f)) = Cardinality(RefsIn(o, f))
    BY <1>2, <2>1, SetRef
  <2>3. o1[p][x] = o[p][x] BY Zenon, <1>2 DEF Stored
  <2>4. /\ f = o[p][x] => Cardinality(RefsIn(o2, f)) = Cardinality(RefsIn(o1, f)) - 1
        /\ f # o[p][x] => Cardinality(RefsIn(o2, f)) = Cardinality(RefsIn(o1, f))
    BY <1>3, <2>1, <2>3, SetRef
  <2>5. Cardinality(RefsIn(o, f)) \in Nat BY Zenon, FiniteRefs
  <2> QED BY <2>2, <2>4, <2>5
<1> QED BY Zenon, <1>4

\* What the count says about who has a reference.
LEMMA RefsKnown ==
  ASSUME FiniteSetFacts, Types, Counted, NEW f \in FileSet
  PROVE  /\ ref[f] = 0 => \A q \in Procs, y \in Places : ofile[q][y] # f
         /\ \A p \in Procs, x \in Places : ofile[p][x] = f =>
              /\ ref[f] >= 1
              /\ ref[f] = 1 => \A q \in Procs, y \in Places : ofile[q][y] = f => q = p /\ y = x
<1>1. ref[f] = Cardinality(RefsIn(ofile, f)) BY Zenon DEF Counted, Refs, RefsIn
<1>2. IsFiniteSet(RefsIn(ofile, f)) /\ Cardinality(RefsIn(ofile, f)) \in Nat BY Zenon, FiniteRefs
<1>3. ASSUME NEW p \in Procs, NEW x \in Places, ofile[p][x] = f
      PROVE  <<p, x>> \in RefsIn(ofile, f)
  BY <1>3 DEF RefsIn
<1>4. Cardinality(RefsIn(ofile, f)) = 0 => RefsIn(ofile, f) = {}
  BY Zenon, <1>2 DEF FiniteSetFacts, CountFact
<1>5. ref[f] = 0 => \A q \in Procs, y \in Places : ofile[q][y] # f
  BY Zenon, <1>1, <1>3, <1>4
<1>6. ASSUME NEW p \in Procs, NEW x \in Places, ofile[p][x] = f PROVE ref[f] >= 1
  <2>1. RefsIn(ofile, f) # {} BY Zenon, <1>3, <1>6
  <2> QED BY <1>1, <1>2, <1>4, <2>1
<1>7. ASSUME NEW p \in Procs, NEW x \in Places, ofile[p][x] = f, ref[f] = 1,
             NEW q \in Procs, NEW y \in Places, ofile[q][y] = f
      PROVE  q = p /\ y = x
  <2> DEFINE R == RefsIn(ofile, f) \ {<<p, x>>}
  <2>1. IsFiniteSet(R) /\ Cardinality(R) = Cardinality(RefsIn(ofile, f)) - 1
    BY Zenon, <1>2, <1>3, <1>7 DEF FiniteSetFacts, RemoveFact
  <2>2. Cardinality(R) = 0 BY <2>1, <1>1, <1>7
  <2>3. R = {} BY Zenon, <2>1, <2>2 DEF FiniteSetFacts, CountFact
  <2>4. <<q, y>> \in RefsIn(ofile, f) BY Zenon, <1>3, <1>7
  <2> QED BY <2>3, <2>4
<1> QED BY Zenon, <1>5, <1>6, <1>7
-----------------------------------------------------------------------------
(* Steps outside pipewrite() and piperead() *)

Outside ==
  /\ pipe' = pipe /\ stale' = stale /\ io' = io /\ left' = left
  /\ \A q \in Procs : pc'[q] # pc[q] => pc[q] \notin InPipe /\ pc'[q] \notin InPipe

\* Such a step keeps what concerns the inside of the calls.
LEMMA OutsideKeeps ==
  ASSUME Outside, OneWriter, Bounded, SleepersHaveReason
  PROVE  OneWriter' /\ Bounded' /\ SleepersHaveReason'
<1>1. \A q \in Procs, l \in InPipe : pc'[q] = l <=> pc[q] = l BY Zenon DEF Outside
<1>2. \A q \in Procs : /\ pc'[q] = "wloop" <=> pc[q] = "wloop"
                       /\ pc'[q] = "rsleep" <=> pc[q] = "rsleep"
                       /\ pc'[q] = "wsleep" <=> pc[q] = "wsleep"
  BY Zenon, <1>1 DEF InPipe
<1>3. \A i : (LockFree(i)' <=> LockFree(i)) BY Zenon, <1>2 DEF LockFree, Outside
<1>4. OneWriter' BY Zenon, <1>2 DEF OneWriter, Outside
<1>5. Bounded' BY Zenon DEF Bounded, Count, Outside
<1>6. ASSUME NEW q \in Procs
      PROVE  /\ pc'[q] = "rsleep" => pipe'[io'[q]].writeopen /\
                  (IsEmpty(io[q])' \/ stale'[io'[q]] \/ ~LockFree(io[q])')
             /\ pc'[q] = "wsleep" => pipe'[io'[q]].readopen /\ Full(io[q])'
  <2>1. /\ pc[q] = "rsleep" => pipe[io[q]].writeopen /\
             (IsEmpty(io[q]) \/ stale[io[q]] \/ ~LockFree(io[q]))
        /\ pc[q] = "wsleep" => pipe[io[q]].readopen /\ Full(io[q])
    BY Zenon DEF SleepersHaveReason
  <2>2. pipe' = pipe /\ stale' = stale /\ io' = io BY Zenon DEF Outside
  <2>3. /\ IsEmpty(io[q])' = IsEmpty(io[q]) /\ Full(io[q])' = Full(io[q])
        /\ LockFree(io[q])' <=> LockFree(io[q])
    BY Zenon, <2>2, <1>2 DEF IsEmpty, Full, LockFree
  <2> QED BY Zenon, <2>1, <2>2, <2>3, <1>2
<1>7. SleepersHaveReason' BY Zenon, <1>6 DEF SleepersHaveReason
<1> QED BY <1>4, <1>5, <1>7

\* The open ends depend only on the file table and the pending pipeclose() calls.
LEMMA SameEnds ==
  ASSUME OpenEnds, pipe' = pipe, \A i \in Pipes, w \in BOOLEAN : Live(i, w)' <=> Live(i, w)
  PROVE  OpenEnds'
BY Zenon DEF OpenEnds

\* A step that leaves the files alone and moves no process into or out of a pipe.
LEMMA FilesAlone ==
  ASSUME IInv, Types', Outside, UNCHANGED fileVars, NEW p \in Procs,
         \A q \in Procs \ {p} : pc'[q] = pc[q],
         pc'[p] # pc[p],
         /\ pc'[p] \in {"user", "exit"} => ofile[p][RF] = None /\ ofile[p][WF] = None
         /\ pc'[p] = "user" => ff[p] = NoFile
         /\ pc'[p] = "dead" => ff[p] = NoFile /\ \A x \in Places : ofile[p][x] = None,
         pc'[p] \in {"user", "exit", "dead", "close"}
  PROVE  IInv'
<1>1. ref' = ref /\ file' = file /\ ofile' = ofile /\ ff' = ff /\ fpanic' = fpanic
  BY DEF fileVars
<1>2. Counted' BY Zenon, <1>1 DEF IInv, Counted, Refs
<1>3. Held'
  <2> SUFFICES ASSUME NEW q \in Procs PROVE Held!(q)' BY Zenon DEF Held
  <2>1. CASE q = p BY <2>1, <1>1, PlacesOK DEF IInv, Held
  <2>2. CASE q # p BY <2>2, <1>1 DEF IInv, Held
  <2> QED BY <2>1, <2>2
<1>4. Fresh'
  <2>1. \A q \in Procs : pc'[q] \in {"file1", "kalloc"} => pc[q] \in {"file1", "kalloc"} OBVIOUS
  <2> QED BY <2>1, <1>1 DEF IInv, Fresh
<1>5. Typed' /\ Single' BY Zenon, <1>1 DEF IInv, Typed, Single
<1>6. OpenEnds'
  <2>1. \A i \in Pipes, w \in BOOLEAN : Live(i, w)' <=> Live(i, w) BY Zenon, <1>1 DEF Live
  <2> QED BY Zenon, <2>1, SameEnds DEF IInv, Outside
<1>7. InCall'
  <2>1. \A q \in Procs : pc'[q] \in InPipe => pc'[q] = pc[q] BY Zenon DEF Outside
  <2>2. io' = io /\ left' = left BY Zenon DEF Outside
  <2> SUFFICES ASSUME NEW q \in Procs, pc'[q] \in InPipe PROVE InCall!(q)!2' BY Zenon DEF InCall
  <2> QED BY Zenon, <2>1, <2>2, <1>1 DEF IInv, InCall
<1>8. OneWriter' /\ Bounded' /\ SleepersHaveReason' BY Zenon, OutsideKeeps DEF IInv
<1> QED BY Zenon, <1>1, <1>2, <1>3, <1>4, <1>5, <1>6, <1>7, <1>8 DEF IInv

\* Steps that move a process and touch no file.
LEMMA MovesKeep ==
  ASSUME IInv, NEW p \in Procs,
         \/ PipeNoPage(p) \/ CloseEnd(p) \/ Exit(p) \/ ExitEnd(p) \/ SysReturn(p)
         \/ (PipeFile1(p) /\ FreeFiles = {})
  PROVE  IInv'
<1>a. Types /\ Held /\ InCall BY DEF IInv
<1>b. DOMAIN pc = Procs BY <1>a DEF Types
<1>1. CASE PipeNoPage(p) \/ (PipeFile1(p) /\ FreeFiles = {})
  <2>1. /\ pc[p] \in {"file1", "kalloc"} /\ pc' = [pc EXCEPT ![p] = "close"]
        /\ UNCHANGED <<pipe, killed, io, left, got, stale, fileVars>>
    BY <1>1 DEF PipeNoPage, PipeFile1, Goto, fileVars
  <2>2. Types' BY <2>1 DEF Types, IInv, fileVars, Pcs
  <2>3. Outside BY <2>1, <1>b DEF Outside, InPipe
  <2> QED BY <2>1, <2>2, <2>3, <1>b, FilesAlone
<1>2. CASE CloseEnd(p)
  <2>1. /\ pc[p] = "close" /\ pc' = [pc EXCEPT ![p] = "user"] /\ ff[p] = NoFile
        /\ UNCHANGED <<pipe, killed, io, left, got, stale, fileVars>>
        /\ ofile[p][RF] = None /\ ofile[p][WF] = None
    BY <1>2 DEF CloseEnd, Goto, Due
  <2>2. Types' BY <2>1 DEF Types, IInv, fileVars, Pcs
  <2>3. Outside BY <2>1, <1>b DEF Outside, InPipe
  <2> QED BY <2>1, <2>2, <2>3, <1>b, FilesAlone
<1>3. CASE Exit(p)
  <2>1. /\ pc[p] \in {"user", "ret"} /\ pc' = [pc EXCEPT ![p] = "exit"]
        /\ killed' = [killed EXCEPT ![p] = FALSE] /\ got' = [got EXCEPT ![p] = None]
        /\ UNCHANGED <<pipe, io, left, stale, fileVars>>
    BY <1>3 DEF Exit, Goto
  <2>2. Types' BY <2>1 DEF Types, IInv, fileVars, Pcs
  <2>3. Outside BY <2>1, <1>b DEF Outside, InPipe
  <2>4. ofile[p][RF] = None /\ ofile[p][WF] = None BY <2>1, <1>a DEF Held
  <2> QED BY <2>1, <2>2, <2>3, <2>4, <1>b, FilesAlone
<1>4. CASE ExitEnd(p)
  <2>1. /\ pc[p] = "exit" /\ pc' = [pc EXCEPT ![p] = "dead"] /\ ff[p] = NoFile
        /\ UNCHANGED <<pipe, killed, io, left, got, stale, fileVars>>
    BY <1>4 DEF ExitEnd, Goto
  <2>2. Types' BY <2>1 DEF Types, IInv, fileVars, Pcs
  <2>3. Outside BY <2>1, <1>b DEF Outside, InPipe
  <2>4. ofile[p][RF] = None /\ ofile[p][WF] = None BY <2>1, <1>a DEF Held
  <2>5. \A x \in Places : ofile[p][x] = None BY <2>4, <1>4, PlacesOK DEF ExitEnd, OpenFds
  <2> QED BY <2>1, <2>2, <2>3, <2>5, <1>b, FilesAlone
<1>5. CASE SysReturn(p)
  <2>1. /\ pc[p] = "ret" /\ pc' = [pc EXCEPT ![p] = "user"] /\ got' = [got EXCEPT ![p] = None]
        /\ UNCHANGED <<pipe, killed, io, left, stale, fileVars>>
    BY <1>5 DEF SysReturn, Goto
  <2>2. Types' BY <2>1 DEF Types, IInv, fileVars, Pcs
  <2>3. Outside BY <2>1, <1>b DEF Outside, InPipe
  <2>4. ofile[p][RF] = None /\ ofile[p][WF] = None /\ ff[p] = NoFile BY <2>1, <1>a DEF Held
  <2> QED BY <2>1, <2>2, <2>3, <2>4, <1>b, FilesAlone
<1> QED BY Zenon, <1>1, <1>2, <1>3, <1>4, <1>5

\* A process inside a read or a write keeps the descriptor it came with.
LEMMA CallsKept ==
  ASSUME InCall, Outside,
         \A q \in Procs, fd \in Fds : pc[q] \in InPipe /\ ofile[q][fd] # None =>
           ofile'[q][fd] = ofile[q][fd] /\ file'[ofile[q][fd]] = file[ofile[q][fd]]
  PROVE  InCall'
<1> SUFFICES ASSUME NEW q \in Procs, pc'[q] \in InPipe PROVE InCall!(q)!2' BY Zenon DEF InCall
<1>1. pc'[q] = pc[q] /\ io' = io /\ left' = left BY Zenon DEF Outside
<1>2. PICK fd \in Fds : /\ ofile[q][fd] # None
                        /\ file[ofile[q][fd]] = IF pc[q] \in Writing THEN PipeEnd(io[q], TRUE)
                                                                     ELSE PipeEnd(io[q], FALSE)
  BY Zenon, <1>1 DEF InCall
<1>3. ofile'[q][fd] = ofile[q][fd] /\ file'[ofile[q][fd]] = file[ofile[q][fd]]
  BY Zenon, <1>1, <1>2
<1>4. io[q] \in Pipes /\ (pc[q] # "wloop" => left[q] > 0) BY Zenon, <1>1 DEF InCall
<1> QED BY Zenon, <1>1, <1>2, <1>3, <1>4

\* What Fresh says of one new file.
LEMMA FreshAt ==
  ASSUME Fresh, NEW q \in Procs, NEW x \in {RF, WF}, pc[q] \in {"file1", "kalloc"},
         ofile[q][x] # None
  PROVE  /\ file[ofile[q][x]] = NoFile
         /\ \A r \in Procs, y \in Places : ofile[r][y] = ofile[q][x] => r = q /\ y = x
BY DEF Fresh

\* The ends of pipes are different from each other and from no file.
LEMMA EndsApart ==
  ASSUME NEW i, NEW w
  PROVE  /\ PipeEnd(i, w) # NoFile
         /\ \A j, v : PipeEnd(i, w) = PipeEnd(j, v) => i = j /\ w = v
         /\ PipeEnd(i, w).pipe = i /\ PipeEnd(i, w).writable = w
BY DEF PipeEnd, NoFile

\* filealloc(): p gets a new file in place x, and goes to l.
LEMMA AllocKeeps ==
  ASSUME FiniteSetFacts, IInv, NEW p \in Procs, NEW x \in {RF, WF}, NEW l,
         \/ pc[p] = "user" /\ x = RF /\ l = "file1"
         \/ pc[p] = "file1" /\ x = WF /\ l = "kalloc",
         NEW f \in FreeFiles,
         ref' = [ref EXCEPT ![f] = 1], ofile' = [ofile EXCEPT ![p][x] = f],
         pc' = [pc EXCEPT ![p] = l],
         UNCHANGED <<pipe, killed, io, left, got, stale, file, ff, fpanic>>
  PROVE  IInv'
<1>a. /\ Types /\ Counted /\ Held /\ Fresh /\ Typed /\ Single /\ OpenEnds /\ InCall /\ ~fpanic
      /\ OneWriter /\ Bounded /\ SleepersHaveReason BY Zenon DEF IInv
<1>b. /\ f \in FileSet /\ ref[f] = 0 /\ f # None /\ x \in Places /\ x \notin Fds
  BY FilesConstants, PlacesOK DEF FreeFiles
<1>c. \A q \in Procs, y \in Places : ofile[q][y] # f BY Zenon, <1>a, <1>b, RefsKnown
<1>d. file[f] = NoFile BY Zenon, <1>a, <1>b DEF Single
<1>e. \A q \in Procs : pc'[q] = IF q = p THEN l ELSE pc[q] BY <1>a DEF Types
<1>f. Stored(ofile, ofile', p, x, f) BY <1>a, <1>b DEF Types, Stored
<1>g. ofile[p][x] = None BY <1>a DEF Held
<1>1. Types'
  <2>1. ref' \in [FileSet -> Nat] /\ pc' \in [Procs -> Pcs] BY Zenon, <1>a DEF Types, Pcs
  <2>2. ofile' \in [Procs -> [Places -> FileSet \cup {None}]] BY <1>a, <1>b DEF Types
  <2> QED BY <2>1, <2>2, <1>a DEF Types
<1>2. Counted'
  <2> SUFFICES ASSUME NEW g \in FileSet PROVE ref'[g] = Cardinality(RefsIn(ofile', g))
    BY Zenon DEF Counted, Refs, RefsIn
  <2>1. ref[g] = Cardinality(RefsIn(ofile, g)) BY Zenon, <1>a DEF Counted, Refs, RefsIn
  <2>2. g # None BY Zenon, FilesConstants
  <2>3. CASE g = f
    <3>1. Cardinality(RefsIn(ofile', g)) = Cardinality(RefsIn(ofile, g)) + 1
      BY <2>2, <2>3, <1>b, <1>f, <1>g, SetRef
    <3> QED BY <3>1, <2>1, <2>3, <1>a, <1>b DEF Types
  <2>4. CASE g # f
    <3>1. Cardinality(RefsIn(ofile', g)) = Cardinality(RefsIn(ofile, g))
      BY <2>2, <2>4, <1>b, <1>f, <1>g, SetRef
    <3> QED BY <3>1, <2>1, <2>4, <1>a, <1>b DEF Types
  <2> QED BY <2>3, <2>4
<1>3. Held'
  <2> SUFFICES ASSUME NEW q \in Procs PROVE Held!(q)' BY Zenon DEF Held
  <2>1. CASE q = p BY <2>1, <1>a, <1>b, <1>e, <1>f, PlacesOK DEF Held, Stored
  <2>2. CASE q # p BY <2>2, <1>a, <1>b, <1>e, <1>f, PlacesOK DEF Held, Stored
  <2> QED BY <2>1, <2>2
<1>4. Fresh'
  <2> SUFFICES ASSUME NEW q \in Procs, NEW y \in {RF, WF},
                      pc'[q] \in {"file1", "kalloc"}, ofile'[q][y] # None
               PROVE  /\ file'[ofile'[q][y]] = NoFile
                      /\ \A r \in Procs, z \in Places : ofile'[r][z] = ofile'[q][y] => r = q /\ z = y
    BY ZenonT(60) DEF Fresh
  <2>1. CASE q = p /\ y = x BY <2>1, <1>c, <1>d, <1>f DEF Stored
  <2>2. CASE q # p \/ y # x
    <3>1. ofile'[q][y] = ofile[q][y] BY <2>2, <1>f, PlacesOK DEF Stored
    <3>2. pc[q] \in {"file1", "kalloc"} BY <2>2, <3>1, <1>a, <1>e DEF Held
    <3>3. /\ file[ofile[q][y]] = NoFile
          /\ \A r \in Procs, z \in Places : ofile[r][z] = ofile[q][y] => r = q /\ z = y
      BY <3>1, <3>2, <1>a, FreshAt
    <3> QED BY <3>1, <3>3, <1>c, <1>f, PlacesOK DEF Stored
  <2> QED BY <2>1, <2>2
<1>5. Typed' BY <1>a, <1>b, <1>f, PlacesOK DEF Typed, Stored
<1>6. Single' BY <1>a, <1>b, <1>d DEF Single, Types
<1>7. OpenEnds'
  <2>1. ASSUME NEW g \in FileSet, NEW i, NEW w
        PROVE  (ref'[g] > 0 /\ file'[g] = PipeEnd(i, w)) <=> (ref[g] > 0 /\ file[g] = PipeEnd(i, w))
    BY <1>a, <1>d, EndsApart DEF Types
  <2>f. ff' = ff OBVIOUS
  <2>2. ASSUME NEW i \in Pipes, NEW w \in BOOLEAN PROVE Live(i, w)' <=> Live(i, w)
    <3>1. Live(i, w)' <=> \/ \E g \in FileSet : ref'[g] > 0 /\ file'[g] = PipeEnd(i, w)
                          \/ \E q \in Procs : ff'[q] = PipeEnd(i, w) BY Zenon DEF Live
    <3>2. Live(i, w) <=> \/ \E g \in FileSet : ref[g] > 0 /\ file[g] = PipeEnd(i, w)
                         \/ \E q \in Procs : ff[q] = PipeEnd(i, w) BY Zenon DEF Live
    <3> QED BY <3>1, <3>2, <2>f, <2>1
  <2> QED BY Zenon, <2>2, <1>a, SameEnds
<1>8. Outside BY <1>e DEF Outside, InPipe
<1>9. InCall' BY <1>8, <1>a, <1>b, <1>f, CallsKept, PlacesOK DEF Stored
<1>10. OneWriter' /\ Bounded' /\ SleepersHaveReason' BY Zenon, <1>a, <1>8, OutsideKeeps
<1> QED BY Zenon, <1>a, <1>1, <1>2, <1>3, <1>4, <1>5, <1>6, <1>7, <1>9, <1>10 DEF IInv

\* fileclose() up to the release of ftable.lock.
LEMMA CloseKeeps ==
  ASSUME FiniteSetFacts, IInv, NEW p \in Procs, NEW x \in Places, ofile[p][x] # None, ff[p] = NoFile,
         pc[p] \in {"close", "exit"}, CloseAt(p, x), UNCHANGED pipeVars
  PROVE  IInv'
<1>a. /\ Types /\ Counted /\ Held /\ Fresh /\ Typed /\ Single /\ OpenEnds /\ InCall /\ ~fpanic
      /\ OneWriter /\ Bounded /\ SleepersHaveReason BY Zenon DEF IInv
<1>u. /\ pipe' = pipe /\ pc' = pc /\ io' = io /\ left' = left /\ stale' = stale
      /\ killed' = killed /\ got' = got BY DEF pipeVars
<1>0. PICK f \in FileSet : f = ofile[p][x] BY <1>a DEF Types
<1>b. f # None BY Zenon, FilesConstants
<1>c. ref[f] >= 1 /\ ref[f] \in Nat BY <1>0, <1>a, RefsKnown DEF Types
<1>d. \A q \in Procs, y \in Places : ref[f] = 1 /\ ofile[q][y] = f => q = p /\ y = x
  BY <1>0, <1>a, RefsKnown
<1>e. /\ fpanic' = (fpanic \/ ref[f] < 1)
      /\ ref' = [ref EXCEPT ![f] = IF @ < 1 THEN @ ELSE @ - 1]
      /\ file' = [file EXCEPT ![f] = IF ref[f] = 1 THEN NoFile ELSE @]
      /\ ff' = [ff EXCEPT ![p] = IF ref[f] = 1 THEN file[f] ELSE NoFile]
      /\ ofile' = [ofile EXCEPT ![p][x] = None]
  BY Zenon, <1>0 DEF CloseAt, LastRef
<1>f. Stored(ofile, ofile', p, x, None) BY <1>a, <1>e DEF Types, Stored
<1>g. \A g \in FileSet : ref'[g] = IF g = f THEN ref[f] - 1 ELSE ref[g]
  BY <1>a, <1>c, <1>e DEF Types
<1>h. \A g \in FileSet : file'[g] = IF g = f /\ ref[f] = 1 THEN NoFile ELSE file[g]
  BY <1>a, <1>e DEF Types
<1>i. \A q \in Procs : ff'[q] = IF q = p /\ ref[f] = 1 THEN file[f] ELSE ff[q]
  BY <1>a, <1>e DEF Types
<1>j. ~fpanic' /\ fpanic' \in BOOLEAN
  <2>1. ~(ref[f] < 1) BY <1>c
  <2> QED BY Zenon, <2>1, <1>a, <1>e
<1>1. Types'
  <2>1. ref' \in [FileSet -> Nat] BY <1>a, <1>c, <1>e DEF Types
  <2>2. /\ file' \in [FileSet -> Ends \cup {NoFile}] /\ ff' \in [Procs -> Ends \cup {NoFile}]
    BY <1>a, <1>e DEF Types
  <2>3. ofile' \in [Procs -> [Places -> FileSet \cup {None}]] BY <1>a, <1>e DEF Types
  <2> QED BY Zenon, <2>1, <2>2, <2>3, <1>a, <1>j, <1>u DEF Types
<1>2. Counted'
  <2> SUFFICES ASSUME NEW g \in FileSet PROVE ref'[g] = Cardinality(RefsIn(ofile', g))
    BY Zenon DEF Counted, Refs, RefsIn
  <2>1. ref[g] = Cardinality(RefsIn(ofile, g)) BY Zenon, <1>a DEF Counted, Refs, RefsIn
  <2>2. g # None BY Zenon, FilesConstants
  <2>3. CASE g = f
    <3>1. Cardinality(RefsIn(ofile', g)) = Cardinality(RefsIn(ofile, g)) - 1
      BY <2>2, <2>3, <1>0, <1>f, SetRef
    <3> QED BY <3>1, <2>1, <2>3, <1>g
  <2>4. CASE g # f
    <3>1. Cardinality(RefsIn(ofile', g)) = Cardinality(RefsIn(ofile, g))
      BY <2>2, <2>4, <1>0, <1>f, SetRef
    <3> QED BY <3>1, <2>1, <2>4, <1>g
  <2> QED BY <2>3, <2>4
<1>k. \A q \in Procs, y \in Places : ofile'[q][y] # None =>
        ofile'[q][y] = ofile[q][y] /\ (q # p \/ y # x)
  BY <1>f DEF Stored
<1>3. Held'
  <2> SUFFICES ASSUME NEW q \in Procs PROVE Held!(q)' BY Zenon DEF Held
  <2>1. CASE q = p BY <2>1, <1>a, <1>u, <1>f, PlacesOK DEF Held, Stored
  <2>2. CASE q # p BY <2>2, <1>a, <1>u, <1>f, <1>i, PlacesOK DEF Held, Stored
  <2> QED BY <2>1, <2>2
<1>4. Fresh'
  <2> SUFFICES ASSUME NEW q \in Procs, NEW y \in {RF, WF},
                      pc'[q] \in {"file1", "kalloc"}, ofile'[q][y] # None
               PROVE  /\ file'[ofile'[q][y]] = NoFile
                      /\ \A r \in Procs, z \in Places : ofile'[r][z] = ofile'[q][y] => r = q /\ z = y
    BY Zenon DEF Fresh
  <2>1. y \in Places /\ ofile'[q][y] = ofile[q][y] BY <1>k, PlacesOK
  <2>2. /\ file[ofile[q][y]] = NoFile
        /\ \A r \in Procs, z \in Places : ofile[r][z] = ofile[q][y] => r = q /\ z = y
    <3>1. pc[q] \in {"file1", "kalloc"} /\ ofile[q][y] # None BY <2>1, <1>u
    <3> QED BY Zenon, <3>1, <1>a, FreshAt
  <2>3. ofile[q][y] \in FileSet BY <2>1, <1>a DEF Types
  <2> QED BY <2>1, <2>2, <2>3, <1>h, <1>k
<1>5. Typed'
  <2> SUFFICES ASSUME NEW q \in Procs, NEW fd \in Fds, ofile'[q][fd] # None
               PROVE  file'[ofile'[q][fd]] \in Ends
    BY Zenon DEF Typed
  <2>1. fd \in Places /\ ofile'[q][fd] = ofile[q][fd] /\ (q # p \/ fd # x) BY <1>k, PlacesOK
  <2>2. ofile[q][fd] \in FileSet BY <2>1, <1>a DEF Types
  <2> QED BY <2>1, <2>2, <1>a, <1>d, <1>h DEF Typed
<1>6. Single'
  <2>1. \A g, h \in FileSet : file'[g] = file'[h] /\ file'[g] # NoFile => g = h
    BY <1>a, <1>h DEF Single
  <2>2. \A q, r \in Procs : ff'[q] = ff'[r] /\ ff'[q] # NoFile => q = r
    BY <1>a, <1>i DEF Single
  <2>3. \A q \in Procs, g \in FileSet : ff'[q] = file'[g] => ff'[q] = NoFile
    BY <1>a, <1>h, <1>i DEF Single
  <2>4. \A g \in FileSet : ref'[g] = 0 => file'[g] = NoFile
    BY <1>a, <1>c, <1>g, <1>h DEF Single
  <2> QED BY Zenon, <2>1, <2>2, <2>3, <2>4 DEF Single
<1>7. OpenEnds'
  <2>2. ASSUME NEW i \in Pipes, NEW w \in BOOLEAN PROVE Live(i, w)' <=> Live(i, w)
    <3>1. Live(i, w)' <=> \/ \E g \in FileSet : ref'[g] > 0 /\ file'[g] = PipeEnd(i, w)
                          \/ \E q \in Procs : ff'[q] = PipeEnd(i, w) BY Zenon DEF Live
    <3>2. Live(i, w) <=> \/ \E g \in FileSet : ref[g] > 0 /\ file[g] = PipeEnd(i, w)
                         \/ \E q \in Procs : ff[q] = PipeEnd(i, w) BY Zenon DEF Live
    <3>3. PipeEnd(i, w) # NoFile BY EndsApart
    <3>4. CASE ref[f] = 1
      <4>1. ff[p] # PipeEnd(i, w) BY <3>3
      <4>2. CASE file[f] = PipeEnd(i, w)
        <5>1. ff'[p] = PipeEnd(i, w) BY <4>2, <3>4, <1>i
        <5> QED BY <5>1, <4>2, <3>1, <3>2, <3>4
      <4>3. CASE file[f] # PipeEnd(i, w)
        <5>1. \A g \in FileSet : ref'[g] > 0 /\ file'[g] = PipeEnd(i, w) <=>
                                 ref[g] > 0 /\ file[g] = PipeEnd(i, w)
          BY <4>3, <3>3, <3>4, <1>g, <1>h
        <5>2. \A q \in Procs : ff'[q] = PipeEnd(i, w) <=> ff[q] = PipeEnd(i, w)
          BY <4>1, <4>3, <3>4, <1>i
        <5> QED BY Zenon, <5>1, <5>2, <3>1, <3>2
      <4> QED BY <4>2, <4>3
    <3>5. CASE ref[f] # 1 BY <3>1, <3>2, <3>5, <1>c, <1>g, <1>h, <1>i
    <3> QED BY <3>4, <3>5
  <2> QED BY Zenon, <2>2, <1>a, <1>u, SameEnds
<1>8. Outside BY Zenon, <1>u DEF Outside
<1>9. InCall'
  <2>1. ASSUME NEW q \in Procs, NEW fd \in Fds, pc[q] \in InPipe, ofile[q][fd] # None
        PROVE  ofile'[q][fd] = ofile[q][fd] /\ file'[ofile[q][fd]] = file[ofile[q][fd]]
    <3>1. q # p /\ fd \in Places BY <2>1, PlacesOK DEF InPipe
    <3>2. ofile[q][fd] \in FileSet BY <3>1, <2>1, <1>a DEF Types
    <3> QED BY <3>1, <3>2, <1>d, <1>f, <1>h DEF Stored
  <2> QED BY Zenon, <2>1, <1>8, <1>a, CallsKept
<1>10. OneWriter' /\ Bounded' /\ SleepersHaveReason' BY Zenon, <1>a, <1>8, OutsideKeeps
<1> QED BY Zenon, <1>j, <1>1, <1>2, <1>3, <1>4, <1>5, <1>6, <1>7, <1>9, <1>10 DEF IInv

\* sys_close(): the reference leaves ofile[] and waits for fileclose().
LEMMA SysCloseKeeps ==
  ASSUME FiniteSetFacts, IInv, NEW p \in Procs, NEW fd \in Fds, SysClose(p, fd)
  PROVE  IInv'
<1>a. /\ Types /\ Counted /\ Held /\ Fresh /\ Typed /\ Single /\ OpenEnds /\ InCall /\ ~fpanic
      /\ OneWriter /\ Bounded /\ SleepersHaveReason BY Zenon DEF IInv
<1>u. /\ pipe' = pipe /\ io' = io /\ left' = left /\ stale' = stale /\ killed' = killed
      /\ got' = got /\ ref' = ref /\ file' = file /\ ff' = ff /\ fpanic' = fpanic
  BY DEF SysClose
<1>b. /\ pc[p] = "user" /\ ofile[p][fd] # None
      /\ ofile' = [ofile EXCEPT ![p][RF] = ofile[p][fd], ![p][fd] = None]
      /\ fd \in Places /\ RF \in Places /\ fd # RF /\ fd # WF
  BY PlacesOK DEF SysClose, InUser
<1>c. \A q \in Procs : pc'[q] = IF q = p THEN "close" ELSE pc[q]
  BY <1>a DEF SysClose, Goto, Types
<1>d. /\ ofile'[p][RF] = ofile[p][fd] /\ ofile'[p][fd] = None
      /\ \A q \in Procs, y \in Places : (q # p \/ y \notin {fd, RF}) => ofile'[q][y] = ofile[q][y]
  BY <1>a, <1>b DEF Types
<1>e. ofile[p][RF] = None BY <1>a, <1>b DEF Held
<1>f. ofile[p][fd] \in FileSet BY <1>a, <1>b DEF Types
<1>1. Types'
  <2>1. ofile' \in [Procs -> [Places -> FileSet \cup {None}]] BY <1>a, <1>b, <1>f DEF Types
  <2>2. pc' \in [Procs -> Pcs] BY <1>a DEF SysClose, Goto, Types, Pcs
  <2> QED BY Zenon, <2>1, <2>2, <1>a, <1>u DEF Types
<1>2. Counted'
  <2>1. ofile \in OfileSet BY <1>a DEF Types, OfileSet
  <2>2. \A g \in FileSet : Cardinality(RefsIn(ofile', g)) = Cardinality(RefsIn(ofile, g))
    <3>1. Moved(ofile, ofile', p, fd, RF) BY Zenon, <1>d DEF Moved
    <3> QED BY Zenon, <3>1, <2>1, <1>b, <1>e, MoveRef
  <2> QED BY Zenon, <2>2, <1>a, <1>u DEF Counted, Refs, RefsIn
<1>3. Held'
  <2> SUFFICES ASSUME NEW q \in Procs PROVE Held!(q)' BY Zenon DEF Held
  <2>1. CASE q = p BY <2>1, <1>a, <1>c, <1>u DEF Held
  <2>2. CASE q # p BY <2>2, <1>a, <1>c, <1>d, <1>u, PlacesOK DEF Held
  <2> QED BY <2>1, <2>2
<1>4. Fresh'
  <2> SUFFICES ASSUME NEW q \in Procs, NEW y \in {RF, WF},
                      pc'[q] \in {"file1", "kalloc"}, ofile'[q][y] # None
               PROVE  /\ file'[ofile'[q][y]] = NoFile
                      /\ \A r \in Procs, z \in Places : ofile'[r][z] = ofile'[q][y] => r = q /\ z = y
    BY Zenon DEF Fresh
  <2>1. q # p /\ y \in Places /\ ofile'[q][y] = ofile[q][y] BY <1>c, <1>d, PlacesOK
  <2>2. /\ file[ofile[q][y]] = NoFile
        /\ \A r \in Procs, z \in Places : ofile[r][z] = ofile[q][y] => r = q /\ z = y
    <3>1. pc[q] \in {"file1", "kalloc"} /\ ofile[q][y] # None BY <2>1, <1>c
    <3> QED BY Zenon, <3>1, <1>a, FreshAt
  <2>3. ASSUME NEW r \in Procs, NEW z \in Places, ofile'[r][z] = ofile'[q][y]
        PROVE  r = q /\ z = y
    <3>1. CASE r = p /\ z = RF BY <3>1, <2>1, <2>2, <2>3, <1>b, <1>d
    <3>2. CASE r = p /\ z = fd BY <3>2, <2>1, <2>2, <2>3, <1>b, <1>d
    <3>3. CASE r # p \/ z \notin {fd, RF} BY <3>3, <2>1, <2>2, <2>3, <1>d
    <3> QED BY <3>1, <3>2, <3>3
  <2> QED BY Zenon, <2>1, <2>2, <2>3, <1>u
<1>5. Typed'
  <2> SUFFICES ASSUME NEW q \in Procs, NEW e \in Fds, ofile'[q][e] # None
               PROVE  file'[ofile'[q][e]] \in Ends
    BY Zenon DEF Typed
  <2>1. e \in Places /\ e # RF BY PlacesOK
  <2>2. ofile'[q][e] = ofile[q][e] BY <2>1, <1>d
  <2> QED BY <2>2, <1>a, <1>u DEF Typed
<1>6. Single' BY Zenon, <1>a, <1>u DEF Single
<1>7. OpenEnds'
  <2>1. \A i \in Pipes, w \in BOOLEAN : Live(i, w)' <=> Live(i, w) BY Zenon, <1>u DEF Live
  <2> QED BY Zenon, <2>1, <1>a, <1>u, SameEnds
<1>8. Outside BY <1>b, <1>c, <1>u DEF Outside, InPipe
<1>9. InCall'
  <2>1. ASSUME NEW q \in Procs, NEW e \in Fds, pc[q] \in InPipe, ofile[q][e] # None
        PROVE  ofile'[q][e] = ofile[q][e] /\ file'[ofile[q][e]] = file[ofile[q][e]]
    <3>1. q # p /\ e \in Places BY <2>1, <1>b, PlacesOK DEF InPipe
    <3> QED BY <3>1, <1>d, <1>u
  <2> QED BY Zenon, <2>1, <1>8, <1>a, CallsKept
<1>10. OneWriter' /\ Bounded' /\ SleepersHaveReason' BY Zenon, <1>a, <1>8, OutsideKeeps
<1> QED BY Zenon, <1>a, <1>u, <1>1, <1>2, <1>3, <1>4, <1>5, <1>6, <1>7, <1>9, <1>10 DEF IInv

\* sys_dup(): one reference more, in the first free descriptor.
LEMMA SysDupKeeps ==
  ASSUME FiniteSetFacts, IInv, NEW p \in Procs, NEW fd \in Fds, SysDup(p, fd)
  PROVE  IInv'
<1>a. /\ Types /\ Counted /\ Held /\ Fresh /\ Typed /\ Single /\ OpenEnds /\ InCall /\ ~fpanic
      /\ OneWriter /\ Bounded /\ SleepersHaveReason BY Zenon DEF IInv
<1>u. /\ pipe' = pipe /\ pc' = pc /\ io' = io /\ left' = left /\ stale' = stale
      /\ killed' = killed /\ got' = got /\ file' = file /\ ff' = ff BY DEF SysDup, pipeVars
<1>0. PICK f \in FileSet : f = ofile[p][fd] BY <1>a, PlacesOK DEF Types, SysDup
<1>b. f # None BY Zenon, FilesConstants
<1>c. PICK x \in Fds : x = First(FreeFds(p)) /\ ofile[p][x] = None
  BY Zenon, FirstPlaces DEF SysDup, FreeFds
<1>d. x \in Places /\ fd \in Places /\ x # RF /\ x # WF /\ fd # RF /\ fd # WF BY PlacesOK
<1>e. ref[f] >= 1 /\ ref[f] \in Nat BY <1>0, <1>a, <1>d, RefsKnown DEF Types
<1>f. /\ pc[p] = "user" /\ ref' = [ref EXCEPT ![f] = @ + 1]
      /\ fpanic' = (fpanic \/ ref[f] < 1) /\ ofile' = [ofile EXCEPT ![p][x] = f]
  BY Zenon, <1>0, <1>c DEF SysDup, InUser
<1>g. Stored(ofile, ofile', p, x, f) BY <1>a, <1>d, <1>f DEF Types, Stored
<1>h. \A g \in FileSet : ref'[g] = IF g = f THEN ref[f] + 1 ELSE ref[g]
  BY <1>a, <1>e, <1>f DEF Types
<1>j. ~fpanic' /\ fpanic' \in BOOLEAN
  <2>1. ~(ref[f] < 1) BY <1>e
  <2> QED BY Zenon, <2>1, <1>a, <1>f
<1>1. Types'
  <2>1. ref' \in [FileSet -> Nat] BY <1>a, <1>e, <1>f DEF Types
  <2>2. ofile' \in [Procs -> [Places -> FileSet \cup {None}]] BY Zenon, <1>a, <1>f DEF Types
  <2> QED BY Zenon, <2>1, <2>2, <1>a, <1>j, <1>u DEF Types
<1>2. Counted'
  <2> SUFFICES ASSUME NEW g \in FileSet PROVE ref'[g] = Cardinality(RefsIn(ofile', g))
    BY Zenon DEF Counted, Refs, RefsIn
  <2>1. ref[g] = Cardinality(RefsIn(ofile, g)) BY Zenon, <1>a DEF Counted, Refs, RefsIn
  <2>2. g # None BY Zenon, FilesConstants
  <2>3. CASE g = f
    <3>1. Cardinality(RefsIn(ofile', g)) = Cardinality(RefsIn(ofile, g)) + 1
      BY <2>2, <2>3, <1>c, <1>d, <1>g, SetRef
    <3> QED BY <3>1, <2>1, <2>3, <1>h
  <2>4. CASE g # f
    <3>1. Cardinality(RefsIn(ofile', g)) = Cardinality(RefsIn(ofile, g))
      BY <2>2, <2>4, <1>c, <1>d, <1>g, SetRef
    <3> QED BY <3>1, <2>1, <2>4, <1>h
  <2> QED BY <2>3, <2>4
<1>3. Held'
  <2> SUFFICES ASSUME NEW q \in Procs PROVE Held!(q)' BY Zenon DEF Held
  <2>1. CASE q = p BY <2>1, <1>a, <1>d, <1>f, <1>u, <1>g, PlacesOK DEF Held, Stored
  <2>2. CASE q # p
    <3>1. /\ pc'[q] = pc[q] /\ ff'[q] = ff[q]
          /\ \A y \in Places : ofile'[q][y] = ofile[q][y]
      BY Zenon, <2>2, <1>u, <1>g DEF Stored
    <3>2. RF \in Places /\ WF \in Places BY Zenon, PlacesOK
    <3>3. Held!(q) BY Zenon, <1>a DEF Held
    <3> QED BY <3>1, <3>2, <3>3
  <2> QED BY <2>1, <2>2
<1>4. Fresh'
  <2> SUFFICES ASSUME NEW q \in Procs, NEW y \in {RF, WF},
                      pc'[q] \in {"file1", "kalloc"}, ofile'[q][y] # None
               PROVE  /\ file'[ofile'[q][y]] = NoFile
                      /\ \A r \in Procs, z \in Places : ofile'[r][z] = ofile'[q][y] => r = q /\ z = y
    BY Zenon DEF Fresh
  <2>1. q # p /\ y \in Places /\ ofile'[q][y] = ofile[q][y]
    BY <1>f, <1>g, <1>u, PlacesOK DEF Stored
  <2>2. /\ file[ofile[q][y]] = NoFile
        /\ \A r \in Procs, z \in Places : ofile[r][z] = ofile[q][y] => r = q /\ z = y
    <3>1. pc[q] \in {"file1", "kalloc"} /\ ofile[q][y] # None BY <2>1, <1>u
    <3> QED BY Zenon, <3>1, <1>a, FreshAt
  <2>3. ASSUME NEW r \in Procs, NEW z \in Places, ofile'[r][z] = ofile'[q][y]
        PROVE  r = q /\ z = y
    <3>1. CASE r = p /\ z = x BY <3>1, <2>1, <2>2, <2>3, <1>0, <1>d, <1>g DEF Stored
    <3>2. CASE r # p \/ z # x BY <3>2, <2>1, <2>2, <2>3, <1>g DEF Stored
    <3> QED BY <3>1, <3>2
  <2> QED BY Zenon, <2>1, <2>2, <2>3, <1>u
<1>5. Typed'
  <2> SUFFICES ASSUME NEW q \in Procs, NEW e \in Fds, ofile'[q][e] # None
               PROVE  file'[ofile'[q][e]] \in Ends
    BY Zenon DEF Typed
  <2>1. e \in Places BY PlacesOK
  <2>2. CASE q = p /\ e = x
    <3>1. ofile'[q][e] = ofile[p][fd] BY <2>2, <1>0, <1>g DEF Stored
    <3> QED BY <3>1, <1>0, <1>a, <1>b, <1>u DEF Typed
  <2>3. CASE q # p \/ e # x
    <3>1. ofile'[q][e] = ofile[q][e] BY <2>1, <2>3, <1>g DEF Stored
    <3> QED BY <3>1, <1>a, <1>u DEF Typed
  <2> QED BY <2>2, <2>3
<1>6. Single' BY <1>a, <1>e, <1>h, <1>u DEF Single
<1>7. OpenEnds'
  <2>1. \A g \in FileSet : ref'[g] > 0 <=> ref[g] > 0 BY <1>e, <1>h
  <2>2. \A i \in Pipes, w \in BOOLEAN : Live(i, w)' <=> Live(i, w) BY Zenon, <2>1, <1>u DEF Live
  <2> QED BY Zenon, <2>2, <1>a, <1>u, SameEnds
<1>8. Outside BY Zenon, <1>u DEF Outside
<1>9. InCall'
  <2>1. ASSUME NEW q \in Procs, NEW e \in Fds, pc[q] \in InPipe, ofile[q][e] # None
        PROVE  ofile'[q][e] = ofile[q][e] /\ file'[ofile[q][e]] = file[ofile[q][e]]
    <3>1. q # p /\ e \in Places BY <2>1, <1>f, PlacesOK DEF InPipe
    <3> QED BY <3>1, <1>g, <1>u DEF Stored
  <2> QED BY Zenon, <2>1, <1>8, <1>a, CallsKept
<1>10. OneWriter' /\ Bounded' /\ SleepersHaveReason' BY Zenon, <1>a, <1>8, OutsideKeeps
<1> QED BY Zenon, <1>j, <1>1, <1>2, <1>3, <1>4, <1>5, <1>6, <1>7, <1>9, <1>10 DEF IInv

\* The descriptors of p, which has no other pointers, are copied to q, which has none.
Copied(o, o2, p, q) ==
  /\ \A y \in Places : o[q][y] = None
  /\ \A y \in Places : o2[q][y] = o[p][y]
  /\ \A y \in Places \ Fds : o[p][y] = None
  /\ \A r \in Procs \ {q}, y \in Places : o2[r][y] = o[r][y]

\* The descriptors that fork() copies are as many new references.
LEMMA CopyRefs ==
  ASSUME FiniteSetFacts, NEW o, NEW o2, NEW p \in Procs, NEW q \in Procs, NEW f \in FileSet,
         Copied(o, o2, p, q)
  PROVE  /\ Cardinality(RefsIn(o2, f)) =
              Cardinality(RefsIn(o, f)) + Cardinality({fd \in Fds : o[p][fd] = f})
         /\ Cardinality({fd \in Fds : o[p][fd] = f}) \in Nat
         /\ Cardinality({fd \in Fds : o[p][fd] = f}) > 0 => \E fd \in Fds : o[p][fd] = f
<1>b. f # None BY Zenon, FilesConstants
<1> DEFINE S == {fd \in Fds : o[p][fd] = f}
<1>1. IsFiniteSet(1..NOFILE)
  BY FilesConstants DEF FiniteSetFacts, IntervalFact
<1>2. IsFiniteSet((1..NOFILE) \cup {0}) BY Zenon, <1>1 DEF FiniteSetFacts, AddFact
<1>3. S \subseteq (1..NOFILE) \cup {0} BY FilesConstants DEF Fds
<1>4. IsFiniteSet(S) /\ Cardinality(S) \in Nat
  BY Zenon, <1>2, <1>3 DEF FiniteSetFacts, SubsetFact, CountFact
<1>5. Cardinality(S) > 0 => \E fd \in Fds : o[p][fd] = f
  <2>1. S = {} => Cardinality(S) = 0 BY Zenon, <1>4 DEF FiniteSetFacts, CountFact
  <2> QED BY <2>1, <1>4
<1>6. IsFiniteSet({q}) /\ Cardinality({q}) = 1
  <2>1. {} \cup {q} = {q} OBVIOUS
  <2>2. q \notin {} OBVIOUS
  <2>3. IsFiniteSet({}) /\ Cardinality({}) = 0
    BY Zenon DEF FiniteSetFacts, EmptyFact
  <2>4. IsFiniteSet({} \cup {q}) /\ Cardinality({} \cup {q}) = Cardinality({}) + 1
    BY Zenon, <2>2, <2>3 DEF FiniteSetFacts, AddFact
  <2> QED BY <2>1, <2>3, <2>4
<1>7. IsFiniteSet({q} \X S) /\ Cardinality({q} \X S) = Cardinality({q}) * Cardinality(S)
  BY Zenon, <1>4, <1>6 DEF FiniteSetFacts, ProductFact
<1>8. Cardinality({q} \X S) = Cardinality(S) BY <1>4, <1>6, <1>7
<1>9. RefsIn(o2, f) = RefsIn(o, f) \cup ({q} \X S)
  <2>1. \A y \in Places : o2[q][y] = f <=> y \in S BY <1>b DEF Copied
  <2>2. \A y \in Places : o[q][y] # f BY <1>b DEF Copied
  <2>3. S \subseteq Places BY PlacesOK
  <2>4. \A y \in S : y \in Places BY Zenon, <2>3
  <2> HIDE DEF S
  <2> QED BY <2>1, <2>2, <2>4 DEF RefsIn, Copied
<1>10. RefsIn(o, f) \cap ({q} \X S) = {}
  <2>1. \A y \in S : o[q][y] # f BY <1>b, PlacesOK DEF Copied
  <2> HIDE DEF S
  <2> QED BY <2>1 DEF RefsIn
<1>11. Cardinality(RefsIn(o, f) \cup ({q} \X S)) = Cardinality(RefsIn(o, f)) + Cardinality({q} \X S)
  <2>1. IsFiniteSet(RefsIn(o, f)) BY Zenon, FiniteRefs
  <2>2. Cardinality(RefsIn(o, f)) \in Nat BY Zenon, <2>1 DEF FiniteSetFacts, CountFact
  <2>3. Cardinality(RefsIn(o, f) \cap ({q} \X S)) = 0
    BY Zenon, <1>10 DEF FiniteSetFacts, EmptyFact
  <2>4. Cardinality(RefsIn(o, f) \cup ({q} \X S)) =
          Cardinality(RefsIn(o, f)) + Cardinality({q} \X S)
            - Cardinality(RefsIn(o, f) \cap ({q} \X S))
    BY Zenon, <2>1, <1>7 DEF FiniteSetFacts, UnionFact
  <2> QED BY <2>2, <2>3, <2>4, <1>4, <1>8
<1> QED BY <1>4, <1>5, <1>8, <1>9, <1>11

\* fork(): one reference more for every descriptor that is copied.
LEMMA ForkKeeps ==
  ASSUME FiniteSetFacts, IInv, NEW p \in Procs, NEW q \in Procs, Fork(p, q)
  PROVE  IInv'
<1>a. /\ Types /\ Counted /\ Held /\ Fresh /\ Typed /\ Single /\ OpenEnds /\ InCall /\ ~fpanic
      /\ OneWriter /\ Bounded /\ SleepersHaveReason BY Zenon DEF IInv
<1>u. /\ pipe' = pipe /\ io' = io /\ left' = left /\ stale' = stale
      /\ killed' = killed /\ got' = got /\ file' = file /\ ff' = ff BY DEF Fork
<1>b. /\ pc[p] = "user" /\ pc[q] = "dead" /\ p # q
      /\ fpanic' = (fpanic \/ \E f \in FileSet : FdsOf(p, f) > 0 /\ ref[f] < 1)
      /\ ref' = [f \in FileSet |-> ref[f] + FdsOf(p, f)]
      /\ ofile' = [ofile EXCEPT ![q] = ofile[p]]
  BY DEF Fork, InUser, ForkRefs
<1>c. \A r \in Procs : pc'[r] = IF r = q THEN "user" ELSE pc[r] BY <1>a DEF Fork, Goto, Types
<1>d. /\ \A y \in Places : ofile[q][y] = None
      /\ \A y \in Places : ofile'[q][y] = ofile[p][y]
      /\ \A y \in Places \ Fds : ofile[p][y] = None
      /\ \A r \in Procs \ {q}, y \in Places : ofile'[r][y] = ofile[r][y]
  <2>1. \A y \in Places : ofile[q][y] = None BY <1>a, <1>b DEF Held
  <2>2. \A y \in Places \ Fds : ofile[p][y] = None BY <1>a, <1>b, PlacesOK DEF Held
  <2> QED BY <2>1, <2>2, <1>a, <1>b DEF Types
<1>e. ASSUME NEW f \in FileSet
      PROVE  /\ Cardinality(RefsIn(ofile', f)) = Cardinality(RefsIn(ofile, f)) + FdsOf(p, f)
             /\ FdsOf(p, f) \in Nat
             /\ FdsOf(p, f) > 0 => \E fd \in Fds : ofile[p][fd] = f
  <2>1. Copied(ofile, ofile', p, q) BY Zenon, <1>d DEF Copied
  <2>2. /\ Cardinality(RefsIn(ofile', f)) =
             Cardinality(RefsIn(ofile, f)) + Cardinality({fd \in Fds : ofile[p][fd] = f})
        /\ Cardinality({fd \in Fds : ofile[p][fd] = f}) \in Nat
        /\ Cardinality({fd \in Fds : ofile[p][fd] = f}) > 0 => \E fd \in Fds : ofile[p][fd] = f
    BY ONLY <2>1, <1>e, CopyRefs, FiniteSetFacts, p \in Procs, q \in Procs
  <2> QED BY <2>2 DEF FdsOf
<1>f. ASSUME NEW f \in FileSet, FdsOf(p, f) > 0 PROVE ref[f] >= 1 /\ ref[f] \in Nat
  <2>1. PICK fd \in Fds : ofile[p][fd] = f BY <1>e, <1>f
  <2> QED BY <2>1, <1>a, PlacesOK, RefsKnown DEF Types
<1>j. ~fpanic' /\ fpanic' \in BOOLEAN
  <2>1. \A f \in FileSet : ~(FdsOf(p, f) > 0 /\ ref[f] < 1) BY <1>f
  <2> QED BY Zenon, <2>1, <1>a, <1>b
<1>h. \A f \in FileSet : ref'[f] = ref[f] + FdsOf(p, f) BY Zenon, <1>b
<1>1. Types'
  <2>1. ref' \in [FileSet -> Nat] BY <1>a, <1>b, <1>e DEF Types
  <2>2. ofile' \in [Procs -> [Places -> FileSet \cup {None}]] BY <1>a, <1>b DEF Types
  <2>3. pc' \in [Procs -> Pcs] BY <1>a DEF Fork, Goto, Types, Pcs
  <2> QED BY Zenon, <2>1, <2>2, <2>3, <1>a, <1>j, <1>u DEF Types
<1>2. Counted'
  <2> SUFFICES ASSUME NEW g \in FileSet PROVE ref'[g] = Cardinality(RefsIn(ofile', g))
    BY Zenon DEF Counted, Refs, RefsIn
  <2>1. ref[g] = Cardinality(RefsIn(ofile, g)) BY Zenon, <1>a DEF Counted, Refs, RefsIn
  <2> QED BY <2>1, <1>e, <1>h
<1>3. Held'
  <2> SUFFICES ASSUME NEW r \in Procs PROVE Held!(r)' BY Zenon DEF Held
  <2>1. CASE r = q
    <3>1. ofile'[q][RF] = None /\ ofile'[q][WF] = None BY <1>a, <1>b, <1>d, PlacesOK DEF Held
    <3>2. ff'[q] = NoFile BY <1>a, <1>b, <1>u DEF Held
    <3> QED BY <2>1, <3>1, <3>2, <1>c
  <2>2. CASE r # q BY <2>2, <1>a, <1>c, <1>d, <1>u, PlacesOK DEF Held
  <2> QED BY <2>1, <2>2
<1>4. Fresh'
  <2> SUFFICES ASSUME NEW r \in Procs, NEW y \in {RF, WF},
                      pc'[r] \in {"file1", "kalloc"}, ofile'[r][y] # None
               PROVE  /\ file'[ofile'[r][y]] = NoFile
                      /\ \A s \in Procs, z \in Places : ofile'[s][z] = ofile'[r][y] => s = r /\ z = y
    BY Zenon DEF Fresh
  <2>1. r # p /\ r # q /\ y \in Places /\ ofile'[r][y] = ofile[r][y]
    BY <1>b, <1>c, <1>d, PlacesOK
  <2>2. /\ file[ofile[r][y]] = NoFile
        /\ \A s \in Procs, z \in Places : ofile[s][z] = ofile[r][y] => s = r /\ z = y
    <3>1. pc[r] \in {"file1", "kalloc"} /\ ofile[r][y] # None BY <2>1, <1>c
    <3> QED BY Zenon, <3>1, <1>a, FreshAt
  <2>3. ASSUME NEW s \in Procs, NEW z \in Places, ofile'[s][z] = ofile'[r][y]
        PROVE  s = r /\ z = y
    BY <2>1, <2>2, <2>3, <1>d
  <2> QED BY Zenon, <2>1, <2>2, <2>3, <1>u
<1>5. Typed' BY <1>a, <1>d, <1>u, PlacesOK DEF Typed
<1>6. Single'
  <2>1. \A f \in FileSet : ref'[f] = 0 => ref[f] = 0 BY <1>a, <1>e, <1>h DEF Types
  <2> QED BY Zenon, <2>1, <1>a, <1>u DEF Single
<1>7. OpenEnds'
  <2>1. \A g \in FileSet : ref'[g] > 0 <=> ref[g] > 0 BY <1>a, <1>e, <1>f, <1>h DEF Types
  <2>2. \A i \in Pipes, w \in BOOLEAN : Live(i, w)' <=> Live(i, w) BY Zenon, <2>1, <1>u DEF Live
  <2> QED BY Zenon, <2>2, <1>a, <1>u, SameEnds
<1>8. Outside BY <1>b, <1>c, <1>u DEF Outside, InPipe
<1>9. InCall'
  <2>1. ASSUME NEW r \in Procs, NEW e \in Fds, pc[r] \in InPipe, ofile[r][e] # None
        PROVE  ofile'[r][e] = ofile[r][e] /\ file'[ofile[r][e]] = file[ofile[r][e]]
    <3>1. r # q /\ e \in Places BY <2>1, <1>b, PlacesOK DEF InPipe
    <3> QED BY <3>1, <1>d, <1>u
  <2> QED BY Zenon, <2>1, <1>8, <1>a, CallsKept
<1>10. OneWriter' /\ Bounded' /\ SleepersHaveReason' BY Zenon, <1>a, <1>8, OutsideKeeps
<1> QED BY Zenon, <1>j, <1>1, <1>2, <1>3, <1>4, <1>5, <1>6, <1>7, <1>9, <1>10 DEF IInv

\* fileread() or filewrite() calls piperead() or pipewrite(), which takes pi->lock.
LEMMA SysRwKeeps ==
  ASSUME FiniteSetFacts, IInv, NEW p \in Procs, NEW fd \in Fds, NEW n \in 1..MAXIO, SysRw(p, fd, n)
  PROVE  IInv'
<1>a. /\ Types /\ Counted /\ Held /\ Fresh /\ Typed /\ Single /\ OpenEnds /\ InCall /\ ~fpanic
      /\ OneWriter /\ Bounded /\ SleepersHaveReason BY Zenon DEF IInv
<1>u. /\ pipe' = pipe /\ stale' = stale /\ killed' = killed /\ got' = got
      /\ ref' = ref /\ file' = file /\ ofile' = ofile /\ ff' = ff BY DEF SysRw
<1>b. pc[p] = "user" /\ ofile[p][fd] # None BY DEF SysRw, InUser
<1>c. PICK i \in Pipes, w \in BOOLEAN : file[ofile[p][fd]] = PipeEnd(i, w)
  BY <1>a, <1>b DEF Typed, Ends
<1>d. PICK l \in {"wloop", "read"} : l = IF w THEN "wloop" ELSE "read" OBVIOUS
<1>e. /\ LockFree(i) /\ io' = [io EXCEPT ![p] = i] /\ left' = [left EXCEPT ![p] = n]
      /\ pc' = [pc EXCEPT ![p] = l] /\ fpanic' = fpanic
  BY <1>c, <1>d DEF SysRw, PipeEnd, Goto
<1>f. /\ \A q \in Procs : pc'[q] = IF q = p THEN l ELSE pc[q]
      /\ \A q \in Procs : io'[q] = IF q = p THEN i ELSE io[q]
      /\ \A q \in Procs : left'[q] = IF q = p THEN n ELSE left[q]
  BY <1>a, <1>e DEF Types
<1>g. n \in Nat /\ n > 0 BY FilesConstants
<1>1. Types'
  <2>1. pc' \in [Procs -> Pcs] BY <1>a, <1>e DEF Types, Pcs
  <2>2. io' \in [Procs -> Pipes \cup {None}] /\ left' \in [Procs -> Nat]
    BY <1>a, <1>e, <1>g DEF Types
  <2> QED BY Zenon, <2>1, <2>2, <1>a, <1>e, <1>u DEF Types
<1>2. Counted' BY Zenon, <1>a, <1>u DEF Counted, Refs
<1>3. Held'
  <2> SUFFICES ASSUME NEW q \in Procs PROVE Held!(q)' BY Zenon DEF Held
  <2>1. CASE q = p BY <2>1, <1>a, <1>b, <1>f, <1>u DEF Held
  <2>2. CASE q # p BY Zenon, <2>2, <1>a, <1>f, <1>u DEF Held
  <2> QED BY <2>1, <2>2
<1>4. Fresh'
  <2>1. \A q \in Procs : pc'[q] \in {"file1", "kalloc"} => pc'[q] = pc[q] BY <1>f
  <2> QED BY <2>1, <1>a, <1>u DEF Fresh
<1>5. Typed' /\ Single' BY Zenon, <1>a, <1>u DEF Typed, Single
<1>7. OpenEnds'
  <2>1. \A j \in Pipes, v \in BOOLEAN : Live(j, v)' <=> Live(j, v) BY Zenon, <1>u DEF Live
  <2> QED BY Zenon, <2>1, <1>a, <1>u, SameEnds
<1>9. InCall'
  <2> SUFFICES ASSUME NEW q \in Procs, pc'[q] \in InPipe PROVE InCall!(q)!2' BY Zenon DEF InCall
  <2>1. CASE q = p
    <3>1. /\ pc'[p] \in Writing <=> w
          /\ io'[p] = i /\ left'[p] > 0 BY <1>d, <1>f, <1>g DEF Writing
    <3>2. file'[ofile'[p][fd]] = IF pc'[p] \in Writing THEN PipeEnd(io'[p], TRUE)
                                                      ELSE PipeEnd(io'[p], FALSE)
      BY Zenon, <3>1, <1>c, <1>u
    <3> QED BY Zenon, <2>1, <3>1, <3>2, <1>b, <1>u
  <2>2. CASE q # p
    <3>1. pc'[q] = pc[q] /\ io'[q] = io[q] /\ left'[q] = left[q] BY Zenon, <2>2, <1>f
    <3> QED BY Zenon, <3>1, <1>a, <1>u DEF InCall
  <2> QED BY Zenon, <2>1, <2>2
<1>10. OneWriter' BY <1>a, <1>e, <1>f DEF OneWriter, LockFree
<1>11. Bounded' BY Zenon, <1>a, <1>u DEF Bounded, Count
<1>12. SleepersHaveReason'
  <2> SUFFICES ASSUME NEW q \in Procs PROVE SleepersHaveReason!(q)' BY Zenon DEF SleepersHaveReason
  <2>1. CASE q = p BY <2>1, <1>f
  <2>2. CASE q # p
    <3>1. pc'[q] = pc[q] /\ io'[q] = io[q] BY <2>2, <1>f
    <3>2. ~LockFree(io[q]) => ~LockFree(io[q])'
      BY <1>b, <1>f, <3>1 DEF LockFree
    <3>3. (IsEmpty(io[q])' <=> IsEmpty(io[q])) /\ (Full(io[q])' <=> Full(io[q]))
      BY Zenon, <3>1, <1>u DEF IsEmpty, Full
    <3>4. SleepersHaveReason!(q) BY Zenon, <1>a DEF SleepersHaveReason
    <3> QED BY Zenon, <3>1, <3>2, <3>3, <3>4, <1>u
  <2> QED BY <2>1, <2>2
<1> QED BY Zenon, <1>a, <1>e, <1>1, <1>2, <1>3, <1>4, <1>5, <1>7, <1>9, <1>10, <1>11, <1>12 DEF IInv

\* A step that changes pipe i, for which nobody sleeps afterwards, and no other.
OnlyAt(i) ==
  /\ io' = io /\ Count(i)' <= PIPESIZE
  /\ \A j \in Pipes \ {i} : pipe'[j] = pipe[j] /\ stale'[j] = stale[j]
  /\ \A q \in Procs : pc'[q] = "wloop" <=> pc[q] = "wloop"
  /\ \A q \in Procs : pc'[q] \in {"rsleep", "wsleep"} => pc'[q] = pc[q] /\ io[q] \in Pipes \ {i}

\* Such a step keeps what concerns the inside of the calls.
LEMMA OnlyAtKeeps ==
  ASSUME NEW i \in Pipes, OnlyAt(i), OneWriter, Bounded, SleepersHaveReason
  PROVE  OneWriter' /\ Bounded' /\ SleepersHaveReason'
<1>1. \A q \in Procs : pc'[q] = "wloop" <=> pc[q] = "wloop" BY Zenon DEF OnlyAt
<1>2. io' = io BY Zenon DEF OnlyAt
<1>3. \A j : (LockFree(j)' <=> LockFree(j)) BY Zenon, <1>1, <1>2 DEF LockFree
<1>4. OneWriter' BY Zenon, <1>1, <1>2 DEF OneWriter
<1>5. \A j \in Pipes \ {i} : /\ Count(j)' = Count(j) /\ (IsEmpty(j)' <=> IsEmpty(j))
                             /\ (Full(j)' <=> Full(j))
  BY Zenon DEF OnlyAt, Count, IsEmpty, Full
<1>6. Bounded'
  <2> SUFFICES ASSUME NEW j \in Pipes PROVE Count(j)' <= PIPESIZE BY Zenon DEF Bounded
  <2>1. CASE j = i BY Zenon, <2>1 DEF OnlyAt
  <2>2. CASE j # i BY <2>2, <1>5 DEF Bounded
  <2> QED BY <2>1, <2>2
<1>7. SleepersHaveReason'
  <2> SUFFICES ASSUME NEW q \in Procs, pc'[q] \in {"rsleep", "wsleep"}
               PROVE  SleepersHaveReason!(q)'
    BY DEF SleepersHaveReason
  <2>1. PICK j \in Pipes \ {i} : io[q] = j /\ io'[q] = j /\ pc'[q] = pc[q] BY DEF OnlyAt
  <2>2. SleepersHaveReason!(q) BY Zenon DEF SleepersHaveReason
  <2>3. pipe'[j] = pipe[j] /\ stale'[j] = stale[j] BY Zenon, <2>1 DEF OnlyAt
  <2> QED BY Zenon, <2>1, <2>2, <2>3, <1>3, <1>5
<1> QED BY Zenon, <1>4, <1>6, <1>7

\* A read or write is in a pipe of which it has an end; that end is a file with a count.
LEMMA InCallEnd ==
  ASSUME FiniteSetFacts, IInv, NEW q \in Procs, pc[q] \in InPipe
  PROVE  /\ io[q] \in Pipes
         /\ \E f \in FileSet : /\ ref[f] > 0
                               /\ file[f] = IF pc[q] \in Writing THEN PipeEnd(io[q], TRUE)
                                                                ELSE PipeEnd(io[q], FALSE)
<1>1. Types /\ Counted /\ InCall BY Zenon DEF IInv
<1>2. PICK fd \in Fds : /\ ofile[q][fd] # None
                        /\ file[ofile[q][fd]] = IF pc[q] \in Writing THEN PipeEnd(io[q], TRUE)
                                                                     ELSE PipeEnd(io[q], FALSE)
  BY Zenon, <1>1 DEF InCall
<1>3. ofile[q][fd] \in FileSet /\ fd \in Places BY <1>1, <1>2, PlacesOK DEF Types
<1>4. ref[ofile[q][fd]] > 0 BY <1>1, <1>3, RefsKnown DEF Types
<1>5. io[q] \in Pipes BY Zenon, <1>1 DEF InCall
<1> QED BY Zenon, <1>2, <1>3, <1>4, <1>5

\* pipeclose()
LEMMA PipeCloseKeeps ==
  ASSUME FiniteSetFacts, IInv, NEW p \in Procs, PipeClose(p)
  PROVE  IInv'
<1>a. /\ Types /\ Counted /\ Held /\ Fresh /\ Typed /\ Single /\ OpenEnds /\ InCall /\ ~fpanic
      /\ OneWriter /\ Bounded /\ SleepersHaveReason BY Zenon DEF IInv
<1>u. /\ stale' = stale /\ io' = io /\ left' = left /\ killed' = killed /\ got' = got
      /\ ref' = ref /\ file' = file /\ ofile' = ofile /\ fpanic' = fpanic BY DEF PipeClose
<1>0. PICK i \in Pipes, w \in BOOLEAN : ff[p] = PipeEnd(i, w)
  BY <1>a DEF PipeClose, Types, Ends
<1>b. /\ LockFree(i) /\ pipe' = Closed(i, w) /\ pc' = WakeOnClose(pc, i, w)
      /\ ff' = [ff EXCEPT ![p] = NoFile]
  <2>1. ff[p].pipe = i /\ ff[p].writable = w BY <1>0, EndsApart
  <2> QED BY Zenon, <2>1 DEF PipeClose
<1>c. \A q \in Procs : ff'[q] = IF q = p THEN NoFile ELSE ff[q] BY <1>a, <1>b DEF Types
<1>d. /\ pc' \in [Procs -> Pcs]
      /\ \A q \in Procs :
           pc'[q] = IF io[q] # i THEN pc[q]
                    ELSE IF w THEN IF pc[q] = "rsleep" THEN "read" ELSE pc[q]
                              ELSE IF pc[q] = "wsleep" THEN "write" ELSE pc[q]
  <2>1. "read" \in Pcs /\ "write" \in Pcs BY DEF Pcs
  <2>2. CASE w
    <3>1. pc' = Wakeup(pc, i, "rsleep", "read")
      BY Zenon, <2>2, <1>b DEF WakeOnClose, WakeReaders
    <3> QED BY <3>1, <2>1, <2>2, <1>a, WokenOK
  <2>3. CASE ~w
    <3>1. pc' = Wakeup(pc, i, "wsleep", "write")
      BY Zenon, <2>3, <1>b DEF WakeOnClose, WakeWriters
    <3> QED BY <3>1, <2>1, <2>3, <1>a, WokenOK
  <2> QED BY Zenon, <2>2, <2>3
<1>e. PipeEnd(i, w) # NoFile /\ \A j, v : PipeEnd(i, w) = PipeEnd(j, v) => i = j /\ w = v
  <2>1. PipeEnd(i, w) # NoFile BY EndsApart
  <2>2. ASSUME NEW j, NEW v, PipeEnd(i, w) = PipeEnd(j, v) PROVE i = j /\ w = v
    BY <2>2, EndsApart
  <2> QED BY Zenon, <2>1, <2>2
<1>f. \A f \in FileSet : file[f] # PipeEnd(i, w) BY <1>0, <1>a, <1>e DEF Single
<1>g. ~Live(i, w)'
  <2>1. \A q \in Procs : ff'[q] # PipeEnd(i, w) BY <1>0, <1>a, <1>c, <1>e DEF Single
  <2> QED BY Zenon, <2>1, <1>f, <1>u DEF Live
<1>h. ASSUME NEW j \in Pipes, NEW v \in BOOLEAN, j # i \/ v # w PROVE Live(j, v)' <=> Live(j, v)
  <2>1. PipeEnd(j, v) # NoFile /\ PipeEnd(j, v) # PipeEnd(i, w) BY <1>h, <1>e, EndsApart
  <2>2. \A q \in Procs : ff'[q] = PipeEnd(j, v) <=> ff[q] = PipeEnd(j, v) BY <2>1, <1>0, <1>c
  <2> QED BY Zenon, <2>2, <1>u DEF Live
<1>i. Live(i, w) BY Zenon, <1>0 DEF Live
<1>1. Types'
  <2>1. pipe' \in [Pipes -> PipeRec] BY Zenon, <1>a, <1>b, ClosedOK
  <2>2. ff' \in [Procs -> Ends \cup {NoFile}] BY <1>a, <1>b DEF Types
  <2> QED BY Zenon, <2>1, <2>2, <1>a, <1>d, <1>u DEF Types
<1>2. Counted' BY Zenon, <1>a, <1>u DEF Counted, Refs
<1>3. Held'
  <2> SUFFICES ASSUME NEW q \in Procs PROVE Held!(q)' BY Zenon DEF Held
  <2> QED BY <1>a, <1>c, <1>d, <1>u DEF Held
<1>4. Fresh'
  <2>1. \A q \in Procs : pc'[q] \in {"file1", "kalloc"} => pc'[q] = pc[q] BY <1>d
  <2> SUFFICES ASSUME NEW q \in Procs, NEW x \in {RF, WF},
                      pc'[q] \in {"file1", "kalloc"}, ofile'[q][x] # None
               PROVE  /\ file'[ofile'[q][x]] = NoFile
                      /\ \A r \in Procs, y \in Places :
                           ofile'[r][y] = ofile'[q][x] => r = q /\ y = x
    BY Zenon DEF Fresh
  <2>2. pc[q] \in {"file1", "kalloc"} /\ ofile[q][x] # None BY <2>1, <1>u
  <2>3. /\ file[ofile[q][x]] = NoFile
        /\ \A r \in Procs, y \in Places : ofile[r][y] = ofile[q][x] => r = q /\ y = x
    BY Zenon, <2>2, <1>a, FreshAt
  <2> QED BY Zenon, <2>3, <1>u
<1>5. Typed' BY Zenon, <1>a, <1>u DEF Typed
<1>6. Single' BY <1>a, <1>c, <1>u DEF Single
<1>7. OpenEnds'
  <2> SUFFICES ASSUME NEW j \in Pipes
               PROVE  /\ pipe'[j].readopen <=> Live(j, FALSE)'
                      /\ pipe'[j].writeopen <=> Live(j, TRUE)'
                      /\ pipe'[j].free <=> ~(Live(j, FALSE)' \/ Live(j, TRUE)')
    BY Zenon DEF OpenEnds
  <2>0. /\ pipe[j].readopen <=> Live(j, FALSE)
        /\ pipe[j].writeopen <=> Live(j, TRUE)
        /\ pipe[j].free <=> ~(Live(j, FALSE) \/ Live(j, TRUE))
    BY Zenon, <1>a DEF OpenEnds
  <2>1. CASE j # i
    <3>1. pipe'[j] = pipe[j] BY Zenon, <2>1, <1>a, <1>b, ClosedOK
    <3> QED BY Zenon, <3>1, <2>0, <2>1, <1>h
  <2>2. CASE j = i /\ w
    <3>1. /\ ~pipe[i].readopen => pipe'[i] = EmptyPipe(FALSE)
          /\ pipe[i].readopen => /\ pipe'[i].readopen = (pipe[i].readopen /\ w)
                                 /\ pipe'[i].writeopen = (pipe[i].writeopen /\ ~w)
                                 /\ pipe'[i].free = pipe[i].free
      BY ZenonT(60), <2>2, <1>a, <1>b, ClosedOK
    <3>2. (Live(i, FALSE)' <=> Live(i, FALSE)) /\ ~Live(i, TRUE)' BY Zenon, <2>2, <1>g, <1>h
    <3>3. EmptyPipe(FALSE).readopen = FALSE /\ EmptyPipe(FALSE).writeopen = FALSE
          /\ EmptyPipe(FALSE).free = TRUE
      BY Zenon DEF EmptyPipe
    <3> QED BY Zenon, <3>1, <3>2, <3>3, <2>0, <2>2, <1>i
  <2>3. CASE j = i /\ ~w
    <3>1. /\ ~pipe[i].writeopen => pipe'[i] = EmptyPipe(FALSE)
          /\ pipe[i].writeopen => /\ pipe'[i].readopen = (pipe[i].readopen /\ w)
                                  /\ pipe'[i].writeopen = (pipe[i].writeopen /\ ~w)
                                  /\ pipe'[i].free = pipe[i].free
      BY ZenonT(60), <2>3, <1>a, <1>b, ClosedOK
    <3>2. (Live(i, TRUE)' <=> Live(i, TRUE)) /\ ~Live(i, FALSE)' BY Zenon, <2>3, <1>g, <1>h
    <3>3. EmptyPipe(FALSE).readopen = FALSE /\ EmptyPipe(FALSE).writeopen = FALSE
          /\ EmptyPipe(FALSE).free = TRUE
      BY Zenon DEF EmptyPipe
    <3> QED BY Zenon, <3>1, <3>2, <3>3, <2>0, <2>3, <1>i
  <2> QED BY Zenon, <2>1, <2>2, <2>3
<1>9. InCall'
  <2> SUFFICES ASSUME NEW q \in Procs, pc'[q] \in InPipe PROVE InCall!(q)!2' BY Zenon DEF InCall
  <2>1. /\ pc[q] \in InPipe /\ (pc'[q] \in Writing <=> pc[q] \in Writing)
        /\ pc'[q] # "wloop" => pc[q] # "wloop"
    BY <1>d DEF InPipe, Writing
  <2>2. InCall!(q)!2 BY Zenon, <2>1, <1>a DEF InCall
  <2> QED BY Zenon, <2>1, <2>2, <1>u
<1>10. OnlyAt(i)
  <2>1. \A j \in Pipes \ {i} : pipe'[j] = pipe[j] BY Zenon, <1>a, <1>b, ClosedOK
  <2>2. \A q \in Procs : pc'[q] = "wloop" <=> pc[q] = "wloop" BY <1>d
  <2>3. ASSUME NEW q \in Procs, pc'[q] \in {"rsleep", "wsleep"}
        PROVE  pc'[q] = pc[q] /\ io[q] \in Pipes \ {i}
    <3>1. pc'[q] = pc[q] /\ pc[q] \in InPipe BY <2>3, <1>d DEF InPipe
    <3>2. io[q] \in Pipes BY Zenon, <3>1, InCallEnd
    <3>3. PICK f \in FileSet : file[f] = IF pc[q] \in Writing THEN PipeEnd(io[q], TRUE)
                                                              ELSE PipeEnd(io[q], FALSE)
      BY Zenon, <3>1, InCallEnd
    <3>4. io[q] # i BY Zenon, <3>1, <3>3, <2>3, <1>d, <1>f DEF Writing
    <3> QED BY <3>1, <3>2, <3>4
  <2>4. Count(i)' <= PIPESIZE
    <3>1. \/ pipe'[i].nread = 0 /\ pipe'[i].nwrite = 0
          \/ pipe'[i].nread = pipe[i].nread /\ pipe'[i].nwrite = pipe[i].nwrite
      BY Zenon, <1>a, <1>b, ClosedOK, EmptyOK
    <3>2. CASE pipe'[i].nread = 0 /\ pipe'[i].nwrite = 0
      <4>1. (0 + WRAP - 0) % WRAP = 0 /\ 0 <= PIPESIZE BY SizesOK
      <4> QED BY <4>1, <3>2 DEF Count
    <3>3. CASE pipe'[i].nread = pipe[i].nread /\ pipe'[i].nwrite = pipe[i].nwrite
      BY <3>3, <1>a DEF Count, Bounded
    <3> QED BY <3>1, <3>2, <3>3
  <2> QED BY Zenon, <2>1, <2>2, <2>3, <2>4, <1>u DEF OnlyAt
<1>11. OneWriter' /\ Bounded' /\ SleepersHaveReason' BY Zenon, <1>a, <1>10, OnlyAtKeeps
<1> QED BY Zenon, <1>a, <1>u, <1>1, <1>2, <1>3, <1>4, <1>5, <1>6, <1>7, <1>9, <1>11 DEF IInv

\* A free page is nobody's pipe.
LEMMA FreePage ==
  ASSUME FiniteSetFacts, IInv, NEW i \in Pipes, pipe[i].free
  PROVE  /\ \A f \in FileSet, w \in BOOLEAN : file[f] # PipeEnd(i, w)
         /\ \A q \in Procs, w \in BOOLEAN : ff[q] # PipeEnd(i, w)
         /\ \A q \in Procs : pc[q] \in InPipe => io[q] \in Pipes \ {i}
<1>a. Types /\ Single /\ OpenEnds BY Zenon DEF IInv
<1>1. ~Live(i, FALSE) /\ ~Live(i, TRUE) BY Zenon, <1>a DEF OpenEnds
<1>2. \A w \in BOOLEAN : ~Live(i, w) BY Zenon, <1>1
<1>3. \A q \in Procs, w \in BOOLEAN : ff[q] # PipeEnd(i, w) BY Zenon, <1>2 DEF Live
<1>4. ASSUME NEW f \in FileSet, NEW w \in BOOLEAN, file[f] = PipeEnd(i, w) PROVE FALSE
  <2>1. ~(ref[f] > 0) BY Zenon, <1>4, <1>2 DEF Live
  <2>2. ref[f] = 0 BY <2>1, <1>a DEF Types
  <2> QED BY <2>2, <1>4, <1>a, EndsApart DEF Single
<1>5. ASSUME NEW q \in Procs, pc[q] \in InPipe PROVE io[q] \in Pipes \ {i}
  <2>1. PICK f \in FileSet : file[f] = IF pc[q] \in Writing THEN PipeEnd(io[q], TRUE)
                                                            ELSE PipeEnd(io[q], FALSE)
    BY Zenon, <1>5, InCallEnd
  <2>2. io[q] \in Pipes BY Zenon, <1>5, InCallEnd
  <2>3. CASE pc[q] \in Writing BY Zenon, <2>1, <2>2, <2>3, <1>4
  <2>4. CASE pc[q] \notin Writing BY Zenon, <2>1, <2>2, <2>4, <1>4
  <2> QED BY <2>3, <2>4
<1> QED BY Zenon, <1>3, <1>4, <1>5

\* The references of pipealloc() become descriptors, or wait for fileclose().
AllocMoves(p, ok, f0, f1) ==
  \/ /\ ok /\ pc' = [pc EXCEPT ![p] = "user"]
     /\ \E x0, x1 \in Fds :
          /\ x0 # x1 /\ ofile[p][x0] = None /\ ofile[p][x1] = None
          /\ ofile'[p][x0] = f0 /\ ofile'[p][x1] = f1
          /\ ofile'[p][RF] = None /\ ofile'[p][WF] = None
          /\ \A q \in Procs, y \in Places :
               q # p \/ y \notin {x0, x1, RF, WF} => ofile'[q][y] = ofile[q][y]
  \/ ~ok /\ pc' = [pc EXCEPT ![p] = "close"] /\ ofile' = ofile

\* The references of pipealloc() change their places, not their number.
LEMMA AllocSteps ==
  ASSUME FiniteSetFacts, Types, NEW p \in Procs, NEW i \in Pipes, NEW ok \in BOOLEAN,
         PipeAlloc(p, i, ok)
  PROVE  /\ AllocMoves(p, ok, ofile[p][RF], ofile[p][WF])
         /\ ofile' \in [Procs -> [Places -> FileSet \cup {None}]]
         /\ \A g \in FileSet : Cardinality(RefsIn(ofile', g)) = Cardinality(RefsIn(ofile, g))
<1>1. CASE ok
  <2>1. PICK x0, x1 \in Fds : /\ x0 = First(FreeFds(p)) /\ x1 = First(FreeFds(p) \ {x0})
                              /\ x0 # x1 /\ ofile[p][x0] = None /\ ofile[p][x1] = None
    BY Zenon, <1>1, FirstPlaces DEF PipeAlloc, FreeFds
  <2>2. /\ x0 \in Places /\ x1 \in Places /\ RF \in Places /\ WF \in Places /\ RF # WF
        /\ x0 # RF /\ x0 # WF /\ x1 # RF /\ x1 # WF
    BY PlacesOK
  <2>3. /\ ofile' = [ofile EXCEPT ![p][x0] = ofile[p][RF], ![p][RF] = None,
                                  ![p][x1] = ofile[p][WF], ![p][WF] = None]
        /\ pc' = [pc EXCEPT ![p] = "user"]
    BY Zenon, <1>1, <2>1 DEF PipeAlloc, Goto
  <2>4. ofile \in [Procs -> [Places -> FileSet \cup {None}]] BY DEF Types
  <2>5. PICK o1 : o1 = [ofile EXCEPT ![p][x0] = ofile[p][RF], ![p][RF] = None] BY Zenon
  <2>6. /\ o1 \in [Procs -> [Places -> FileSet \cup {None}]]
        /\ o1[p][x1] = None /\ o1[p][WF] = ofile[p][WF]
        /\ Moved(ofile, o1, p, RF, x0)
    BY <2>1, <2>2, <2>4, <2>5 DEF Moved
  <2>7. ofile' = [o1 EXCEPT ![p][x1] = o1[p][WF], ![p][WF] = None]
    BY Zenon, <2>2, <2>3, <2>4, <2>5, <2>6
  <2>8. /\ ofile' \in [Procs -> [Places -> FileSet \cup {None}]]
        /\ Moved(o1, ofile', p, WF, x1)
    BY <2>2, <2>6, <2>7 DEF Moved
  <2>9. \A g \in FileSet : Cardinality(RefsIn(ofile', g)) = Cardinality(RefsIn(ofile, g))
    <3>1. \A g \in FileSet : Cardinality(RefsIn(o1, g)) = Cardinality(RefsIn(ofile, g))
      BY Zenon, <2>1, <2>2, <2>4, <2>6, MoveRef DEF OfileSet
    <3>2. \A g \in FileSet : Cardinality(RefsIn(ofile', g)) = Cardinality(RefsIn(o1, g))
      BY Zenon, <2>2, <2>6, <2>8, MoveRef DEF OfileSet
    <3> QED BY Zenon, <3>1, <3>2
  <2>10. /\ ofile'[p][x0] = ofile[p][RF] /\ ofile'[p][x1] = ofile[p][WF]
         /\ ofile'[p][RF] = None /\ ofile'[p][WF] = None
         /\ \A q \in Procs, y \in Places :
               q # p \/ y \notin {x0, x1, RF, WF} => ofile'[q][y] = ofile[q][y]
    <3>1. ofile'[p][x1] = ofile[p][WF] /\ ofile'[p][WF] = None BY Zenon, <2>6, <2>8 DEF Moved
    <3>2. ofile'[p][x0] = o1[p][x0] /\ ofile'[p][RF] = o1[p][RF] BY Zenon, <2>1, <2>2, <2>8 DEF Moved
    <3>3. ofile'[p][x0] = ofile[p][RF] /\ ofile'[p][RF] = None BY Zenon, <3>2, <2>6 DEF Moved
    <3>4. ASSUME NEW q \in Procs, NEW y \in Places, q # p \/ y \notin {x0, x1, RF, WF}
          PROVE  ofile'[q][y] = ofile[q][y]
      BY <3>4, <2>6, <2>8 DEF Moved
    <3> QED BY Zenon, <3>1, <3>3, <3>4
  <2>11. AllocMoves(p, ok, ofile[p][RF], ofile[p][WF])
    BY Zenon, <1>1, <2>1, <2>3, <2>10 DEF AllocMoves
  <2> QED BY Zenon, <2>8, <2>9, <2>11
<1>2. CASE ~ok
  <2>1. pc' = [pc EXCEPT ![p] = "close"] /\ ofile' = ofile BY Zenon, <1>2 DEF PipeAlloc, Goto
  <2> QED BY Zenon, <1>2, <2>1 DEF AllocMoves, Types
<1> QED BY <1>1, <1>2

\* pipealloc() initialises the pipe and its files, sys_pipe() makes them descriptors.
LEMMA PipeAllocKeeps ==
  ASSUME FiniteSetFacts, IInv, NEW p \in Procs, NEW i \in Pipes, NEW ok \in BOOLEAN,
         PipeAlloc(p, i, ok)
  PROVE  IInv'
<1>a. /\ Types /\ Counted /\ Held /\ Fresh /\ Typed /\ Single /\ OpenEnds /\ InCall /\ ~fpanic
      /\ OneWriter /\ Bounded /\ SleepersHaveReason BY Zenon DEF IInv
<1>u. /\ io' = io /\ left' = left /\ killed' = killed /\ got' = got
      /\ ref' = ref /\ ff' = ff /\ fpanic' = fpanic BY DEF PipeAlloc
<1>b. /\ pc[p] = "kalloc" /\ pipe[i].free /\ pipe' = [pipe EXCEPT ![i] = EmptyPipe(TRUE)]
      /\ stale' = [stale EXCEPT ![i] = FALSE]
  BY Zenon DEF PipeAlloc
<1>0. PICK f0, f1 \in FileSet : f0 = ofile[p][RF] /\ f1 = ofile[p][WF]
  BY <1>a, <1>b, PlacesOK DEF Types, Held
<1>c. /\ RF \in Places /\ WF \in Places /\ RF # WF /\ RF \notin Fds /\ WF \notin Fds
      /\ f0 # None /\ f1 # None
  BY Zenon, PlacesOK, FilesConstants
<1>d. /\ file[f0] = NoFile /\ file[f1] = NoFile
      /\ \A q \in Procs, y \in Places : /\ ofile[q][y] = f0 => q = p /\ y = RF
                                        /\ ofile[q][y] = f1 => q = p /\ y = WF
  <2>1. Fresh /\ pc[p] \in {"file1", "kalloc"} BY <1>a, <1>b
  <2>2. RF \in {RF, WF} /\ WF \in {RF, WF} OBVIOUS
  <2>3. /\ file[ofile[p][RF]] = NoFile
        /\ \A q \in Procs, y \in Places : ofile[q][y] = ofile[p][RF] => q = p /\ y = RF
    BY Zenon, <2>1, <2>2, <1>0, <1>c, FreshAt
  <2>4. /\ file[ofile[p][WF]] = NoFile
        /\ \A q \in Procs, y \in Places : ofile[q][y] = ofile[p][WF] => q = p /\ y = WF
    BY Zenon, <2>1, <2>2, <1>0, <1>c, FreshAt
  <2> QED BY Zenon, <2>3, <2>4, <1>0
<1>e. f0 # f1 BY <1>0, <1>c, <1>d
<1>f. ref[f0] > 0 /\ ref[f1] > 0 BY <1>0, <1>a, <1>c, RefsKnown DEF Types
<1>g. \A g \in FileSet : file'[g] = IF g = f0 THEN PipeEnd(i, FALSE)
                                    ELSE IF g = f1 THEN PipeEnd(i, TRUE) ELSE file[g]
  <2>1. file' = [file EXCEPT ![f0] = PipeEnd(i, FALSE), ![f1] = PipeEnd(i, TRUE)]
    BY Zenon, <1>0 DEF PipeAlloc
  <2> QED BY Zenon, <2>1, <1>a, <1>e DEF Types
<1>h. /\ AllocMoves(p, ok, f0, f1)
      /\ ofile' \in [Procs -> [Places -> FileSet \cup {None}]]
      /\ \A g \in FileSet : Cardinality(RefsIn(ofile', g)) = Cardinality(RefsIn(ofile, g))
  BY Zenon, <1>0, <1>a, AllocSteps
<1>i. /\ \A g \in FileSet, w \in BOOLEAN : file[g] # PipeEnd(i, w)
      /\ \A q \in Procs, w \in BOOLEAN : ff[q] # PipeEnd(i, w)
      /\ \A q \in Procs : pc[q] \in InPipe => io[q] \in Pipes \ {i}
  BY Zenon, <1>b, FreePage
<1>j. /\ PipeEnd(i, FALSE) # NoFile /\ PipeEnd(i, TRUE) # NoFile
      /\ PipeEnd(i, FALSE) # PipeEnd(i, TRUE)
      /\ PipeEnd(i, FALSE) \in Ends /\ PipeEnd(i, TRUE) \in Ends
  <2>1. PipeEnd(i, FALSE) # NoFile /\ PipeEnd(i, TRUE) # NoFile BY Zenon, EndsApart
  <2>2. PipeEnd(i, FALSE) # PipeEnd(i, TRUE) BY DEF PipeEnd
  <2>3. PipeEnd(i, FALSE) \in Ends /\ PipeEnd(i, TRUE) \in Ends
    <3>1. \A w \in BOOLEAN : PipeEnd(i, w) \in Ends BY DEF Ends
    <3> QED BY Zenon, <3>1
  <2> QED BY Zenon, <2>1, <2>2, <2>3
<1>k. \A q \in Procs \ {p}, y \in Places : ofile'[q][y] = ofile[q][y]
  BY <1>h DEF AllocMoves
<1>l. PICK l \in {"user", "close"} : pc' = [pc EXCEPT ![p] = l] /\ l = IF ok THEN "user" ELSE "close"
  BY <1>h DEF AllocMoves
<1>m. \A q \in Procs : pc'[q] = IF q = p THEN l ELSE pc[q] BY <1>l, <1>a DEF Types
<1>n. \A fd \in Fds : ofile'[p][fd] = ofile[p][fd] \/ ofile'[p][fd] \in {f0, f1}
  <2>1. CASE ok
    <3>1. PICK x0, x1 \in Fds : /\ ofile'[p][x0] = f0 /\ ofile'[p][x1] = f1
                                /\ \A q \in Procs, y \in Places :
                                     q # p \/ y \notin {x0, x1, RF, WF} => ofile'[q][y] = ofile[q][y]
      BY Zenon, <2>1, <1>h DEF AllocMoves
    <3> QED BY <3>1, <1>c, PlacesOK
  <2>2. CASE ~ok BY <2>2, <1>h DEF AllocMoves
  <2> QED BY <2>1, <2>2
<1>1. Types'
  <2>1. pipe' \in [Pipes -> PipeRec] BY Zenon, <1>a, <1>b, EmptyOK DEF Types
  <2>2. pc' \in [Procs -> Pcs] BY <1>a, <1>l DEF Types, Pcs
  <2>3. stale' \in [Pipes -> BOOLEAN] BY <1>a, <1>b DEF Types
  <2>4. file' \in [FileSet -> Ends \cup {NoFile}]
    <3>1. file' = [file EXCEPT ![f0] = PipeEnd(i, FALSE), ![f1] = PipeEnd(i, TRUE)]
      BY Zenon, <1>0 DEF PipeAlloc
    <3> QED BY Zenon, <3>1, <1>a, <1>j DEF Types
  <2> QED BY Zenon, <2>1, <2>2, <2>3, <2>4, <1>a, <1>h, <1>u DEF Types
<1>2. Counted' BY Zenon, <1>a, <1>h, <1>u DEF Counted, Refs, RefsIn
<1>3. Held'
  <2> SUFFICES ASSUME NEW q \in Procs PROVE Held!(q)' BY Zenon DEF Held
  <2>1. CASE q = p
    <3>1. ff'[p] = NoFile BY <1>a, <1>b, <1>u DEF Held
    <3>2. ok => ofile'[p][RF] = None /\ ofile'[p][WF] = None BY Zenon, <1>h DEF AllocMoves
    <3>3. pc'[p] = IF ok THEN "user" ELSE "close" BY Zenon, <1>l, <1>m
    <3> QED BY <2>1, <3>1, <3>2, <3>3
  <2>2. CASE q # p BY <2>2, <1>a, <1>c, <1>k, <1>m, <1>u DEF Held
  <2> QED BY <2>1, <2>2
<1>o. \A q \in Procs \ {p}, y \in Places : ofile[q][y] # f0 /\ ofile[q][y] # f1 BY <1>d
<1>4. Fresh'
  <2> SUFFICES ASSUME NEW q \in Procs, NEW y \in {RF, WF},
                      pc'[q] \in {"file1", "kalloc"}, ofile'[q][y] # None
               PROVE  /\ file'[ofile'[q][y]] = NoFile
                      /\ \A r \in Procs, z \in Places : ofile'[r][z] = ofile'[q][y] => r = q /\ z = y
    BY Zenon DEF Fresh
  <2>1. q # p /\ y \in Places /\ ofile'[q][y] = ofile[q][y] BY <1>c, <1>k, <1>m
  <2>2. /\ file[ofile[q][y]] = NoFile
        /\ \A r \in Procs, z \in Places : ofile[r][z] = ofile[q][y] => r = q /\ z = y
    <3>1. pc[q] \in {"file1", "kalloc"} BY <2>1, <1>m
    <3>2. ofile[q][y] # None BY Zenon, <2>1
    <3> QED BY Zenon, <3>1, <3>2, <1>a, FreshAt
  <2>3. ofile[q][y] \in FileSet /\ ofile[q][y] # f0 /\ ofile[q][y] # f1
    <3>1. ofile \in [Procs -> [Places -> FileSet \cup {None}]] BY Zenon, <1>a DEF Types
    <3> QED BY <3>1, <2>1, <1>o
  <2>4. ASSUME NEW r \in Procs, NEW z \in Places, ofile'[r][z] = ofile'[q][y]
        PROVE  r = q /\ z = y
    <3>1. CASE r # p BY <3>1, <2>1, <2>2, <2>4, <1>k
    <3>2. CASE r = p
      <4>1. ofile'[p][z] = ofile[p][z] \/ ofile'[p][z] \in {f0, f1, None}
        BY <1>n, <1>h, PlacesOK DEF AllocMoves
      <4>2. ofile'[p][z] = ofile[q][y] BY Zenon, <3>2, <2>1, <2>4
      <4>3. ofile[p][z] = ofile[q][y] BY <4>1, <4>2, <2>1, <2>3
      <4> QED BY Zenon, <4>3, <3>2, <2>2
    <3> QED BY <3>1, <3>2
  <2> QED BY Zenon, <2>1, <2>2, <2>3, <2>4, <1>g
<1>5. Typed'
  <2> SUFFICES ASSUME NEW q \in Procs, NEW fd \in Fds, ofile'[q][fd] # None
               PROVE  file'[ofile'[q][fd]] \in Ends
    BY Zenon DEF Typed
  <2>0. fd \in Places BY PlacesOK
  <2>1. ofile'[q][fd] \in FileSet BY <2>0, <1>1 DEF Types
  <2>2. CASE ofile'[q][fd] \in {f0, f1} BY Zenon, <2>2, <1>g, <1>j
  <2>3. CASE ofile'[q][fd] \notin {f0, f1}
    <3>1. ofile'[q][fd] = ofile[q][fd] BY <2>0, <2>3, <1>k, <1>n
    <3>2. file'[ofile'[q][fd]] = file[ofile'[q][fd]] BY Zenon, <2>1, <2>3, <1>g
    <3> QED BY <3>1, <3>2, <1>a DEF Typed
  <2> QED BY <2>2, <2>3
<1>6. Single'
  <2>1. \A g, h \in FileSet : file'[g] = file'[h] /\ file'[g] # NoFile => g = h
    BY ZenonT(60), <1>a, <1>g, <1>i, <1>j DEF Single
  <2>2. \A q \in Procs, g \in FileSet : ff'[q] = file'[g] => ff'[q] = NoFile
    BY Zenon, <1>a, <1>g, <1>i, <1>u DEF Single
  <2>3. \A g \in FileSet : ref'[g] = 0 => file'[g] = NoFile
    <3>1. \A g \in FileSet : ref'[g] = 0 => g # f0 /\ g # f1 BY <1>f, <1>u
    <3> QED BY Zenon, <3>1, <1>a, <1>g, <1>u DEF Single
  <2>4. \A q, r \in Procs : ff'[q] = ff'[r] /\ ff'[q] # NoFile => q = r
    BY Zenon, <1>a, <1>u DEF Single
  <2> QED BY Zenon, <2>1, <2>2, <2>3, <2>4 DEF Single
<1>7. OpenEnds'
  <2> SUFFICES ASSUME NEW j \in Pipes
               PROVE  /\ pipe'[j].readopen <=> Live(j, FALSE)'
                      /\ pipe'[j].writeopen <=> Live(j, TRUE)'
                      /\ pipe'[j].free <=> ~(Live(j, FALSE)' \/ Live(j, TRUE)')
    BY Zenon DEF OpenEnds
  <2>1. CASE j = i
    <3>1. pipe'[i] = EmptyPipe(TRUE) BY <1>a, <1>b DEF Types
    <3>2. EmptyPipe(TRUE).readopen /\ EmptyPipe(TRUE).writeopen /\ ~EmptyPipe(TRUE).free
      BY Zenon DEF EmptyPipe
    <3>3. ref'[f0] > 0 /\ file'[f0] = PipeEnd(i, FALSE) BY Zenon, <1>f, <1>g, <1>u
    <3>4. ref'[f1] > 0 /\ file'[f1] = PipeEnd(i, TRUE) BY Zenon, <1>e, <1>f, <1>g, <1>u
    <3>5. Live(i, FALSE)' /\ Live(i, TRUE)' BY Zenon, <3>3, <3>4 DEF Live
    <3> QED BY Zenon, <2>1, <3>1, <3>2, <3>5
  <2>2. CASE j # i
    <3>1. pipe'[j] = pipe[j] BY <2>2, <1>a, <1>b DEF Types
    <3>2. ASSUME NEW v \in BOOLEAN PROVE Live(j, v)' <=> Live(j, v)
      <4>1. PipeEnd(j, v) # NoFile /\ \A w : PipeEnd(j, v) # PipeEnd(i, w) BY <2>2, EndsApart
      <4>2. \A g \in FileSet : file'[g] = PipeEnd(j, v) <=> file[g] = PipeEnd(j, v)
        BY Zenon, <4>1, <1>d, <1>g
      <4> QED BY Zenon, <4>2, <1>u DEF Live
    <3>3. /\ pipe[j].readopen <=> Live(j, FALSE)
          /\ pipe[j].writeopen <=> Live(j, TRUE)
          /\ pipe[j].free <=> ~(Live(j, FALSE) \/ Live(j, TRUE))
      BY Zenon, <1>a DEF OpenEnds
    <3>4. (Live(j, FALSE)' <=> Live(j, FALSE)) /\ (Live(j, TRUE)' <=> Live(j, TRUE)) BY Zenon, <3>2
    <3> QED BY Zenon, <3>1, <3>3, <3>4
  <2> QED BY Zenon, <2>1, <2>2
<1>9. InCall'
  <2> SUFFICES ASSUME NEW q \in Procs, pc'[q] \in InPipe PROVE InCall!(q)!2' BY Zenon DEF InCall
  <2>1. q # p /\ pc'[q] = pc[q] BY <1>m DEF InPipe
  <2>2. PICK fd \in Fds : /\ ofile[q][fd] # None
                          /\ file[ofile[q][fd]] = IF pc[q] \in Writing THEN PipeEnd(io[q], TRUE)
                                                                       ELSE PipeEnd(io[q], FALSE)
    BY Zenon, <2>1, <1>a DEF InCall
  <2>3. fd \in Places BY PlacesOK
  <2>5. ofile[q][fd] \in FileSet BY <2>2, <2>3, <1>a DEF Types
  <2>4. ofile'[q][fd] = ofile[q][fd] /\ file'[ofile[q][fd]] = file[ofile[q][fd]]
    BY ZenonT(60), <2>1, <2>3, <2>5, <1>g, <1>k, <1>o
  <2> QED BY Zenon, <2>1, <2>2, <2>4, <1>a, <1>u DEF InCall
<1>10. OnlyAt(i)
  <2>1. \A j \in Pipes \ {i} : pipe'[j] = pipe[j] /\ stale'[j] = stale[j]
    BY <1>a, <1>b DEF Types
  <2>2. \A q \in Procs : pc'[q] = "wloop" <=> pc[q] = "wloop" BY <1>b, <1>m
  <2>3. ASSUME NEW q \in Procs, pc'[q] \in {"rsleep", "wsleep"}
        PROVE  pc'[q] = pc[q] /\ io[q] \in Pipes \ {i}
    BY <2>3, <1>i, <1>m DEF InPipe
  <2>4. Count(i)' <= PIPESIZE
    <3>1. pipe'[i].nread = 0 /\ pipe'[i].nwrite = 0 BY Zenon, <1>a, <1>b, EmptyOK DEF Types
    <3>2. (0 + WRAP - 0) % WRAP = 0 /\ 0 <= PIPESIZE BY SizesOK
    <3> QED BY <3>1, <3>2 DEF Count
  <2> QED BY Zenon, <2>1, <2>2, <2>3, <2>4, <1>u DEF OnlyAt
<1>11. OneWriter' /\ Bounded' /\ SleepersHaveReason' BY Zenon, <1>a, <1>10, OnlyAtKeeps
<1> QED BY Zenon, <1>a, <1>u, <1>1, <1>2, <1>3, <1>4, <1>5, <1>6, <1>7, <1>9, <1>11 DEF IInv

=============================================================================
