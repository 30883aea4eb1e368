----------------------------- MODULE LogProofs ------------------------------
(***************************************************************************)
(* The invariant of Log that says who may be where when (Base), for every  *)
(* number of processes, blocks and contents and every size of the log;     *)
(* from it follow that home blocks are only overwritten from a committed   *)
(* log (WriteAheadNext) and, with the blocks that operations may still     *)
(* log, that begin_op()'s reservation keeps log_write() from running out   *)
(* of log space (SpaceNext). With the invariant about the contents of      *)
(* buffers, log and home blocks (Contents: which copies of a block agree   *)
(* at each step of commit() and of recovery) the steps of Log are steps of *)
(* AtomicFs: group commit, crashes at any disk write and recovery that may *)
(* itself be interrupted leave, after every crash, the whole contents of   *)
(* some moment at which no operation was in progress. The lemmas that      *)
(* count operations or blocks take the facts about finite sets they use as *)
(* a hypothesis (FiniteSetFacts), which is derived before the theorems.    *)
(***************************************************************************)
EXTENDS Log, FiniteFacts, TLAPS

(* The inductive invariant *)

\* log.outstanding counts the operations between begin_op() and end_op(); none of
\* them is in progress during a commit, there is one committer at a time, and
\* nobody is in the log while it recovers.  A process holds a buffer from its
\* bread() to its log_write().
Turns ==
  /\ outstanding = Cardinality(Active)
  /\ committing => Active = {}
  /\ mode # "up" => \A p \in Procs : pc[p] = "idle"
  /\ \A p \in Procs : pc[p] \in CommitPcs => committing
  /\ \A p, q \in Procs : pc[p] \in CommitPcs /\ pc[q] \in CommitPcs => p = q
  /\ \A p \in Procs : pc[p] = "log" <=> held[p] # None

\* How far commit() or recovery has got says what the two headers and the loop
\* index are; between transactions the header is empty.
Headers ==
  /\ \A p \in Procs :
       /\ pc[p] = "write_log" => tail < Len(lh)
       /\ pc[p] = "write_head" => Len(lh) > 0
       /\ pc[p] = "install" => dhead = lh /\ tail < Len(lh)
       /\ pc[p] \in {"clear", "finish"} => lh = <<>>
  /\ mode = "install" => dhead = lh /\ tail < Len(lh)
  /\ mode = "clear" => lh = <<>>
  /\ mode = "up" /\ ~committing /\ Active = {} => lh = <<>>

Base == TypeOK /\ Turns /\ Headers
-----------------------------------------------------------------------------
(* Lemmas *)

\* The operations in progress are finitely many.
LEMMA ActiveFinite == FiniteSetFacts => IsFiniteSet(Active)
BY Zenon, LogConstants DEF Active, FiniteSetFacts, SubsetFact

\* begin_op() adds one operation, end_op() takes one away.
LEMMA ActivePlus ==
  ASSUME FiniteSetFacts, NEW p \in Procs, p \notin Active, Active' = Active \cup {p}
  PROVE  Cardinality(Active') = Cardinality(Active) + 1
BY Zenon, ActiveFinite DEF FiniteSetFacts, AddFact

\* end_op() takes one operation away.
LEMMA ActiveMinus ==
  ASSUME FiniteSetFacts, NEW p \in Active, Active' = Active \ {p}
  PROVE  /\ Cardinality(Active') = Cardinality(Active) - 1
         /\ Cardinality(Active) \in Nat \ {0}
         /\ Cardinality(Active') = 0 => Active' = {}
<1>1. IsFiniteSet(Active') BY Zenon, ActiveFinite DEF FiniteSetFacts, SubsetFact
<1>2. Cardinality(Active') = Cardinality(Active) - 1
  BY Zenon, ActiveFinite DEF FiniteSetFacts, RemoveFact
<1>3. Cardinality(Active) \in Nat /\ Cardinality(Active') \in Nat
  BY Zenon, <1>1, ActiveFinite DEF FiniteSetFacts, CountFact
<1>4. Cardinality(Active') = 0 => Active' = {}
  BY Zenon, <1>1 DEF FiniteSetFacts, EmptyFact, CountFact
<1> QED BY <1>2, <1>3, <1>4

\* Base holds at boot.
LEMMA BaseInit == FiniteSetFacts /\ Init => Base
<1> SUFFICES ASSUME FiniteSetFacts, Init PROVE Base BY Zenon
<1>a. dlog \in [1..LOGSIZE -> Vals] BY Zenon DEF Init
<1>b. <<>> \in Seq(Blocks) /\ Len(<<>>) = 0 OBVIOUS
<1>c. 0 \in 0..LOGSIZE /\ 0 <= LOGSIZE BY LogConstants
<1>d. pc \in [Procs -> {"idle", "begin", "asleep"} \cup OpPcs \cup CommitPcs] BY Zenon DEF Init
<1>1. TypeOK BY Zenon, <1>a, <1>b, <1>c, <1>d DEF Init, TypeOK
<1>2. Active = {} BY Zenon DEF Init, Active, OpPcs
<1>3. Turns BY Zenon, <1>2 DEF Init, Turns, CommitPcs, FiniteSetFacts, EmptyFact, CountFact
<1>4. Headers BY Zenon DEF Init, Headers
<1> QED BY Zenon, <1>1, <1>3, <1>4 DEF Base

\* Every step keeps the types; the loops of commit() and recovery stay inside the
\* header because their index is below its length.
LEMMA TypeStep == FiniteSetFacts /\ Base /\ Next => TypeOK'
<1> SUFFICES ASSUME FiniteSetFacts, Base, Next PROVE TypeOK' BY Zenon
<1> USE LogConstants DEF Base, TypeOK, OpPcs, CommitPcs
<1>0. ASSUME lh' = <<>> PROVE lh' \in Seq(Blocks) /\ Len(lh') <= LOGSIZE
  <2>1. <<>> \in Seq(Blocks) /\ Len(<<>>) = 0 OBVIOUS
  <2> QED BY <1>0, <2>1
<1>1. ASSUME NEW p \in Procs, Call(p) PROVE TypeOK' BY Zenon, <1>1 DEF Call, diskVars
<1>2. ASSUME NEW p \in Procs, BeginSleep(p) PROVE TypeOK' BY Zenon, <1>2 DEF BeginSleep, diskVars
<1>3. ASSUME NEW p \in Procs, BeginOp(p) PROVE TypeOK' BY <1>3 DEF BeginOp, diskVars
<1>4. ASSUME NEW p \in Procs, KillWakes(p) PROVE TypeOK' BY Zenon, <1>4 DEF KillWakes, diskVars
<1>5. ASSUME NEW p \in Procs, NEW b \in Blocks, NEW v \in Vals, Modify(p, b, v) PROVE TypeOK'
  BY Zenon, <1>5 DEF Modify, diskVars
<1>6. ASSUME NEW p \in Procs, LogWrite(p) PROVE TypeOK'
  <2>1. held[p] \in Blocks BY Zenon, <1>6 DEF LogWrite, Turns
  <2>2. Append(lh, held[p]) \in Seq(Blocks) /\ Len(Append(lh, held[p])) = Len(lh) + 1
    BY <2>1
  <2>3. lh' \in Seq(Blocks) /\ Len(lh') <= LOGSIZE
    <3>1. CASE lh' = lh BY Zenon, <3>1
    <3>2. CASE Len(lh) < LOGSIZE /\ lh' = Append(lh, held[p])
      <4>1. Len(lh) + 1 <= LOGSIZE BY <3>2
      <4> QED BY Zenon, <2>2, <3>2, <4>1
    <3> QED BY <1>6, <3>1, <3>2 DEF LogWrite, LogWritePanics
  <2>4. held' \in [Procs -> Blocks \cup {None}] /\ wset' \in [Procs -> SUBSET Blocks]
    BY <1>6, <2>1 DEF LogWrite
  <2>5. pc' \in [Procs -> {"idle", "begin", "asleep"} \cup OpPcs \cup CommitPcs]
    BY Zenon, <1>6 DEF LogWrite
  <2> QED BY Zenon, <1>6, <2>3, <2>4, <2>5 DEF LogWrite, diskVars
<1>7. ASSUME NEW b \in Blocks, Evict(b) PROVE TypeOK' BY Zenon, <1>7 DEF Evict, diskVars, opVars
<1>8. ASSUME NEW p \in Procs, EndOp(p) PROVE TypeOK'
  <2>1. p \in Active BY Zenon, <1>8 DEF EndOp, Active
  <2>2. outstanding' \in Nat
    BY <1>8, <2>1, ActiveFinite DEF EndOp, Turns, FiniteSetFacts, CountFact, EmptyFact
  <2>3. pc' \in [Procs -> {"idle", "begin", "asleep"} \cup OpPcs \cup CommitPcs]
    BY Zenon, <1>8 DEF EndOp, Wakeup
  <2> QED BY Zenon, <1>8, <2>2, <2>3 DEF EndOp, diskVars
<1>9. ASSUME NEW p \in Procs, Commit(p) PROVE TypeOK' BY <1>9 DEF Commit, diskVars
<1>10. ASSUME NEW p \in Procs, WriteLog(p) PROVE TypeOK'
  <2>1. tail < Len(lh) BY Zenon, <1>10 DEF WriteLog, Headers
  <2>2. tail + 1 \in 1..Len(lh) /\ tail + 1 \in 1..LOGSIZE BY <2>1
  <2>3. cache[lh[tail + 1]] \in Vals BY <2>2
  <2> QED BY <1>10, <2>2, <2>3 DEF WriteLog
<1>11. ASSUME NEW p \in Procs, WriteHead(p) PROVE TypeOK' BY <1>11 DEF WriteHead
<1>12. ASSUME InstallBlock, tail < Len(lh)
       PROVE /\ cache' \in [Blocks -> Vals] /\ disk' \in [Blocks -> Vals]
             /\ tail + 1 \in 0..LOGSIZE
  <2>1. tail + 1 \in 1..Len(lh) /\ tail + 1 \in 1..LOGSIZE BY <1>12
  <2>2. dlog[tail + 1] \in Vals BY Zenon, <2>1
  <2> QED BY <1>12, <2>1, <2>2 DEF InstallBlock
<1>13. ASSUME NEW p \in Procs, InstallTrans(p) PROVE TypeOK'
  <2>1. tail < Len(lh) BY Zenon, <1>13 DEF InstallTrans, Headers
  <2>2. lh' \in Seq(Blocks) /\ Len(lh') <= LOGSIZE BY Zenon, <1>0, <1>13 DEF InstallTrans
  <2>3. tail' \in 0..LOGSIZE BY <1>12, <1>13, <2>1 DEF InstallTrans
  <2> QED BY Zenon, <1>12, <1>13, <2>1, <2>2, <2>3 DEF InstallTrans
<1>14. ASSUME NEW p \in Procs, ClearHead(p) PROVE TypeOK' BY Zenon, <1>14 DEF ClearHead
<1>15. ASSUME NEW p \in Procs, EndCommit(p) PROVE TypeOK'
  BY Zenon, <1>15 DEF EndCommit, Wakeup, diskVars
<1>16. CASE Crash
  <2>1. lh' \in Seq(Blocks) /\ Len(lh') <= LOGSIZE BY Zenon, <1>0, <1>16 DEF Crash
  <2>2. pc' \in [Procs -> {"idle", "begin", "asleep"} \cup OpPcs \cup CommitPcs]
    BY Zenon, <1>16 DEF Crash
  <2>3. held' \in [Procs -> Blocks \cup {None}] /\ wset' \in [Procs -> SUBSET Blocks]
    BY Zenon, <1>16 DEF Crash
  <2>4. UNCHANGED diskVars /\ cache' = disk BY Zenon, <1>16 DEF Crash
  <2>5. outstanding' \in Nat /\ tail' \in 0..LOGSIZE BY <1>16 DEF Crash
  <2>6. committing' \in BOOLEAN /\ panicked' \in BOOLEAN BY Zenon, <1>16 DEF Crash
  <2>7. mode' \in {"up", "read_head", "install", "clear"} BY Zenon, <1>16 DEF Crash
  <2> QED BY Zenon, <2>1, <2>2, <2>3, <2>4, <2>5, <2>6, <2>7 DEF diskVars
<1>17. CASE ReadHead BY <1>17 DEF ReadHead, diskVars, opVars
<1>18. CASE RecoverInstall
  <2>1. tail < Len(lh) BY Zenon, <1>18 DEF RecoverInstall, Headers
  <2>2. lh' \in Seq(Blocks) /\ Len(lh') <= LOGSIZE BY Zenon, <1>0, <1>18 DEF RecoverInstall
  <2>3. tail' \in 0..LOGSIZE BY <1>12, <1>18, <2>1 DEF RecoverInstall
  <2> QED BY Zenon, <1>12, <1>18, <2>1, <2>2, <2>3 DEF RecoverInstall, opVars
<1>19. CASE RecoverClear BY Zenon, <1>19 DEF RecoverClear, opVars
<1> QED BY Zenon, <1>1, <1>2, <1>3, <1>4, <1>5, <1>6, <1>7, <1>8, <1>9, <1>10, <1>11, <1>13,
           <1>14, <1>15, <1>16, <1>17, <1>18, <1>19 DEF Next, CommitStep, Recover

\* end_op() makes the last operation the only committer, which takes turns with
\* begin_op(): nobody is admitted while it commits.
LEMMA TurnsStep == FiniteSetFacts /\ Base /\ Next => Turns'
<1> SUFFICES ASSUME FiniteSetFacts, Base, Next PROVE Turns' BY Zenon
<1> USE LogConstants DEF Base, TypeOK, OpPcs, CommitPcs
<1>0. ASSUME Active' = Active, outstanding' = outstanding, committing' = committing,
             mode' = mode \/ mode' = "up",
             \A q \in Procs : mode # "up" => pc'[q] = pc[q],
             \A q \in Procs : pc'[q] \in CommitPcs => pc[q] \in CommitPcs,
             \A q \in Procs : pc'[q] = "log" <=> held'[q] # None
      PROVE Turns'
  BY Zenon, <1>0 DEF Turns
<1>1. ASSUME NEW p \in Procs, Call(p) PROVE Turns'
  BY <1>0, <1>1 DEF Call, Turns, Active
<1>2. ASSUME NEW p \in Procs, BeginSleep(p) PROVE Turns'
  BY <1>0, <1>2 DEF BeginSleep, Turns, Active
<1>3. ASSUME NEW p \in Procs, BeginOp(p) PROVE Turns'
  <2>1. p \notin Active /\ Active' = Active \cup {p} BY <1>3 DEF BeginOp, Active
  <2>2. outstanding' = Cardinality(Active') BY Zenon, <1>3, <2>1, ActivePlus DEF BeginOp, Turns
  <2> QED BY <1>3, <2>2 DEF BeginOp, Turns
<1>4. ASSUME NEW p \in Procs, KillWakes(p) PROVE Turns'
  BY <1>0, <1>4 DEF KillWakes, Turns, Active
<1>5. ASSUME NEW p \in Procs, NEW b \in Blocks, NEW v \in Vals, Modify(p, b, v) PROVE Turns'
  BY <1>0, <1>5 DEF Modify, Turns, Active
<1>6. ASSUME NEW p \in Procs, LogWrite(p) PROVE Turns'
  BY <1>0, <1>6 DEF LogWrite, Turns, Active
<1>7. ASSUME NEW b \in Blocks, Evict(b) PROVE Turns'
  BY Zenon, <1>0, <1>7 DEF Evict, Turns, Active, opVars
<1>8. ASSUME NEW p \in Procs, EndOp(p) PROVE Turns'
  <2>1. p \in Active /\ ~committing BY Zenon, <1>8 DEF EndOp, Turns, Active
  <2>2. Active' = Active \ {p} BY Zenon, <1>8, <2>1 DEF EndOp, Wakeup, Active
  <2>3. outstanding' = Cardinality(Active') /\ (outstanding' = 0 => Active' = {})
    BY Zenon, <1>8, <2>1, <2>2, ActiveMinus DEF EndOp, Turns
  <2>4. CASE outstanding' = 0
    <3>1. committing' /\ Active' = {} /\ mode' = "up" BY Zenon, <1>8, <2>1, <2>3, <2>4 DEF EndOp
    <3>2. \A q \in Procs : pc'[q] \in CommitPcs => q = p
      BY <1>8, <2>1, <2>4 DEF EndOp, Turns
    <3>3. \A q \in Procs : pc'[q] = "log" <=> held'[q] # None
      BY <1>8, <2>1, <2>4 DEF EndOp, Turns
    <3> QED BY Zenon, <2>3, <3>1, <3>2, <3>3 DEF Turns
  <2>5. CASE outstanding' # 0
    <3>1. ~committing' /\ mode' = "up" BY Zenon, <1>8, <2>1, <2>5 DEF EndOp
    <3>a. \A q \in Procs : pc[q] \notin CommitPcs BY Zenon, <2>1 DEF Turns
    <3>b. \A q \in Procs : pc'[q] \in {pc[q], "begin", "idle"}
      BY Zenon, <1>8, <2>1, <2>5 DEF EndOp, Wakeup
    <3>2. \A q \in Procs : pc'[q] \notin CommitPcs BY Zenon, <3>a, <3>b
    <3>3. \A q \in Procs : pc'[q] = "log" <=> held'[q] # None
      BY Zenon, <1>8, <2>1, <2>5 DEF EndOp, Turns, Wakeup
    <3> QED BY Zenon, <2>3, <3>1, <3>2, <3>3 DEF Turns
  <2> QED BY Zenon, <2>4, <2>5
<1>9. ASSUME NEW p \in Procs, Commit(p) PROVE Turns'
  BY <1>0, <1>9 DEF Commit, Turns, Active
<1>10. ASSUME NEW p \in Procs, WriteLog(p) PROVE Turns'
  BY <1>0, <1>10 DEF WriteLog, Turns, Active
<1>11. ASSUME NEW p \in Procs, WriteHead(p) PROVE Turns'
  BY <1>0, <1>11 DEF WriteHead, Turns, Active
<1>12. ASSUME NEW p \in Procs, InstallTrans(p) PROVE Turns'
  BY <1>0, <1>12 DEF InstallTrans, Turns, Active
<1>13. ASSUME NEW p \in Procs, ClearHead(p) PROVE Turns'
  BY <1>0, <1>13 DEF ClearHead, Turns, Active
<1>14. ASSUME NEW p \in Procs, EndCommit(p) PROVE Turns'
  <2>1. Active' = Active BY Zenon, <1>14 DEF EndCommit, Wakeup, Active
  <2>2. \A q \in Procs : pc'[q] \notin CommitPcs
    BY Zenon, <1>14 DEF EndCommit, Wakeup, Turns
  <2>3. \A q \in Procs : pc'[q] = "log" <=> held'[q] # None
    BY Zenon, <1>14 DEF EndCommit, Wakeup, Turns
  <2> QED BY Zenon, <1>14, <2>1, <2>2, <2>3 DEF EndCommit, Turns
<1>15. CASE Crash
  <2>1. Active' = {} BY Zenon, <1>15 DEF Crash, Active
  <2> QED BY Zenon, <1>15, <2>1 DEF Crash, Turns, FiniteSetFacts, EmptyFact, CountFact
<1>16. CASE Recover
  BY Zenon, <1>0, <1>16 DEF Recover, ReadHead, RecoverInstall, RecoverClear, opVars, Turns, Active
<1> QED BY <1>1, <1>2, <1>3, <1>4, <1>5, <1>6, <1>7, <1>8, <1>9, <1>10, <1>11, <1>12,
           <1>13, <1>14, <1>15, <1>16 DEF Next, CommitStep
-----------------------------------------------------------------------------
\* commit() and recovery move the headers along: the on-disk header is the
\* in-memory one while blocks are installed, and both end up empty.
LEMMA HeadersStep == FiniteSetFacts /\ Base /\ Next => Headers'
<1> SUFFICES ASSUME FiniteSetFacts, Base, Next PROVE Headers' BY Zenon
<1> USE LogConstants DEF Base, TypeOK, OpPcs, CommitPcs
<1>0. ASSUME UNCHANGED <<lh, dhead, tail, mode>>, 
             \A q \in Procs : pc'[q] = pc[q] \/ pc'[q] \notin CommitPcs \ {"commit"},
             mode = "up" /\ ~committing' /\ Active' = {} => ~committing /\ Active = {}
      PROVE Headers'
  BY Zenon, <1>0 DEF Headers
<1>1. ASSUME NEW p \in Procs, Call(p) \/ BeginSleep(p) \/ KillWakes(p) PROVE Headers'
  <2>1. Active' = Active BY Zenon, <1>1 DEF Call, BeginSleep, KillWakes, Active
  <2> QED BY <1>0, <1>1, <2>1 DEF Call, BeginSleep, KillWakes, diskVars
<1>2. ASSUME NEW p \in Procs, BeginOp(p) PROVE Headers'
  <2>1. p \in Active' BY Zenon, <1>2 DEF BeginOp, Active
  <2> QED BY Zenon, <1>0, <1>2, <2>1 DEF BeginOp, diskVars
<1>3. ASSUME NEW p \in Procs, NEW b \in Blocks, NEW v \in Vals, Modify(p, b, v) PROVE Headers'
  <2>1. p \in Active' BY Zenon, <1>3 DEF Modify, Active
  <2> QED BY Zenon, <1>0, <1>3, <2>1 DEF Modify, diskVars
<1>4. ASSUME NEW p \in Procs, LogWrite(p) PROVE Headers'
  <2>1. p \in Active /\ p \in Active' BY Zenon, <1>4 DEF LogWrite, Active
  <2>2. \A q \in Procs : pc[q] \notin CommitPcs BY Zenon, <2>1 DEF Turns
  <2>3. \A q \in Procs : pc'[q] \notin CommitPcs BY <1>4, <2>2 DEF LogWrite
  <2> QED BY Zenon, <1>4, <2>1, <2>3 DEF LogWrite, Headers
<1>5. ASSUME NEW b \in Blocks, Evict(b) PROVE Headers'
  <2>1. Active' = Active BY Zenon, <1>5 DEF Evict, opVars, Active
  <2> QED BY Zenon, <1>0, <1>5, <2>1 DEF Evict, diskVars, opVars
<1>6. ASSUME NEW p \in Procs, EndOp(p) PROVE Headers'
  <2>1. p \in Active /\ ~committing BY Zenon, <1>6 DEF EndOp, Turns, Active
  <2>2. Active' = Active \ {p} BY Zenon, <1>6, <2>1 DEF EndOp, Wakeup, Active
  <2>3. outstanding' # 0 => Active' # {}
    BY Zenon, <1>6, <2>1, <2>2, ActiveMinus DEF EndOp, Turns, FiniteSetFacts, EmptyFact, CountFact
  <2>4. ~committing' => Active' # {} BY Zenon, <1>6, <2>1, <2>3 DEF EndOp
  <2>5. \A q \in Procs : pc'[q] = pc[q] \/ pc'[q] \notin CommitPcs \ {"commit"}
    BY Zenon, <1>6 DEF EndOp, Wakeup
  <2> QED BY Zenon, <1>0, <1>6, <2>4, <2>5 DEF EndOp, diskVars
<1>7. ASSUME NEW p \in Procs, CommitStep(p), mode = "up", committing,
             \A q \in Procs : q # p => pc'[q] \notin CommitPcs
      PROVE Headers'
  <2>0. mode' = "up" BY Zenon, <1>7 DEF CommitStep, Commit, WriteLog, WriteHead, InstallTrans, ClearHead, EndCommit
  <2>1. CASE Commit(p) BY <1>7, <2>0, <2>1 DEF Commit, Headers
  <2>2. CASE WriteLog(p) BY <1>7, <2>0, <2>2 DEF WriteLog, Headers
  <2>3. CASE WriteHead(p) BY Zenon, <1>7, <2>0, <2>3 DEF WriteHead, Headers
  <2>4. CASE InstallTrans(p) BY <1>7, <2>0, <2>4 DEF InstallTrans, Headers
  <2>5. CASE ClearHead(p) BY Zenon, <1>7, <2>0, <2>5 DEF ClearHead, Headers
  <2>6. CASE EndCommit(p)
    <3>1. lh' = <<>> BY Zenon, <2>6 DEF EndCommit, Headers
    <3>2. \A q \in Procs : pc'[q] \notin CommitPcs BY Zenon, <1>7, <2>6 DEF EndCommit, Wakeup
    <3> QED BY Zenon, <2>0, <3>1, <3>2 DEF Headers
  <2> QED BY Zenon, <1>7, <2>1, <2>2, <2>3, <2>4, <2>5, <2>6 DEF CommitStep
<1>8. ASSUME NEW p \in Procs, CommitStep(p) PROVE Headers'
  <2>1. mode = "up" /\ pc[p] \in CommitPcs
    BY Zenon, <1>8 DEF CommitStep, Commit, WriteLog, WriteHead, InstallTrans, ClearHead, EndCommit
  <2>2. \A q \in Procs : q # p => pc[q] \notin CommitPcs BY Zenon, <2>1 DEF Turns
  <2>3. \A q \in Procs : q # p => pc'[q] \in {pc[q], "begin"}
    BY Zenon, <1>8 DEF CommitStep, Commit, WriteLog, WriteHead, InstallTrans, ClearHead, EndCommit, Wakeup
  <2>4. \A q \in Procs : q # p => pc'[q] \notin CommitPcs BY Zenon, <2>2, <2>3
  <2>5. committing BY Zenon, <2>1 DEF Turns
  <2> QED BY Zenon, <1>7, <1>8, <2>1, <2>4, <2>5
<1>9. CASE Crash BY Zenon, <1>9 DEF Crash, Headers
<1>10. ASSUME Recover PROVE Headers'
  <2>1. \A q \in Procs : pc'[q] = "idle"
    BY Zenon, <1>10 DEF Recover, ReadHead, RecoverInstall, RecoverClear, opVars, Turns
  <2>2. CASE ReadHead BY <2>1, <2>2 DEF ReadHead, diskVars, Headers
  <2>3. CASE RecoverInstall BY <2>1, <2>3 DEF RecoverInstall, Headers
  <2>4. CASE RecoverClear BY Zenon, <2>1, <2>4 DEF RecoverClear, Headers
  <2> QED BY Zenon, <1>10, <2>2, <2>3, <2>4 DEF Recover
<1> QED BY Zenon, <1>1, <1>2, <1>3, <1>4, <1>5, <1>6, <1>8, <1>9, <1>10 DEF Next

\* Every step keeps Base.
LEMMA BaseNext == FiniteSetFacts /\ Base /\ [Next]_vars => Base'
<1> SUFFICES ASSUME FiniteSetFacts, Base, [Next]_vars PROVE Base' BY Zenon
<1>1. CASE Next BY Zenon, <1>1, TypeStep, TurnsStep, HeadersStep DEF Base
<1>2. CASE UNCHANGED vars
  BY <1>2 DEF vars, Base, TypeOK, Turns, Headers, Active
<1> QED BY Zenon, <1>1, <1>2
-----------------------------------------------------------------------------
(* The write-ahead rule *)

\* The home block of b changes to the copy that the log has of it, while the on-disk
\* header names b.
FromLog ==
  \A b \in Blocks : disk'[b] # disk[b] =>
    \E i \in DOMAIN dhead : dhead[i] = b /\ disk'[b] = dlog[i]

\* Only install_trans() writes home blocks, and it does so while the on-disk header
\* names the block and the log holds the copy, in commit() and in recovery alike.
LEMMA WriteAheadNext == Base /\ [Next]_vars => [FromLog]_vars
<1>1. ASSUME Base, InstallBlock, dhead = lh, tail < Len(lh) PROVE FromLog
  <2>1. tail + 1 \in DOMAIN dhead BY <1>1 DEF Base, TypeOK
  <2>2. \A b \in Blocks : disk'[b] # disk[b] => b = dhead[tail + 1] /\ disk'[b] = dlog[tail + 1]
    BY Zenon, <1>1, <2>1 DEF Base, TypeOK, InstallBlock
  <2> QED BY Zenon, <2>1, <2>2 DEF FromLog
<1>2. ASSUME Base, Next PROVE FromLog
  <2>1. ASSUME NEW p \in Procs, InstallTrans(p) PROVE FromLog
    BY Zenon, <1>1, <1>2, <2>1 DEF InstallTrans, Base, Headers
  <2>2. ASSUME RecoverInstall PROVE FromLog
    BY Zenon, <1>1, <1>2, <2>2 DEF RecoverInstall, Base, Headers
  <2>3. \/ \E p \in Procs : InstallTrans(p)
        \/ RecoverInstall
        \/ disk' = disk
    BY Zenon, <1>2 DEF Next, Call, BeginSleep, BeginOp, KillWakes, LogWrite, EndOp, CommitStep,
         Commit, WriteLog, WriteHead, ClearHead, EndCommit, Modify, Evict, Crash, Recover,
         ReadHead, RecoverClear, diskVars
  <2> QED BY Zenon, <2>1, <2>2, <2>3 DEF FromLog
<1> QED BY Zenon, <1>2
-----------------------------------------------------------------------------
(* Log space: the inductive invariant, with Base *)

\* What an operation in progress has logged is in the header, and it keeps to its
\* budget of OPBLOCKS.
Budget ==
  \A p \in Active :
    /\ wset[p] \subseteq Range(lh)
    /\ Cardinality(wset[p]) <= OPBLOCKS
    /\ pc[p] = "log" => Cardinality(wset[p] \cup {held[p]}) <= OPBLOCKS

\* The blocks that operations in progress may still log, one element for each.
Left == {x \in Active \X (1..OPBLOCKS) : x[2] > Cardinality(wset[x[1]])}

\* The header has grown by one operation that is alone in the transaction, or by
\* operations of which two were admitted at once, whose reservations leave a slack
\* of MAXOPBLOCKS - OPBLOCKS each.
Space ==
  mode = "up" /\ ~committing =>
    \/ Active = {}
    \/ \E p \in Procs : Active = {p} /\ Len(lh) <= Cardinality(wset[p])
    \/ Len(lh) + Cardinality(Left) + 2 * (MAXOPBLOCKS - OPBLOCKS) <= LOGSIZE
-----------------------------------------------------------------------------
(* Lemmas *)

\* No operation is in progress during a commit, and its steps start none.
LEMMA NoOpsInCommit ==
  ASSUME Base, NEW p \in Procs, CommitStep(p)
  PROVE  Active' = {}
<1>1. pc[p] \in CommitPcs
  BY Zenon DEF CommitStep, Commit, WriteLog, WriteHead, InstallTrans, ClearHead, EndCommit, CommitPcs
<1>2. Active = {} BY Zenon, <1>1 DEF Base, Turns
<1>3. \A q \in Procs : pc'[q] \in CommitPcs \cup {"begin", "idle", pc[q]}
  <2> USE DEF Base, TypeOK, CommitPcs
  <2>1. CASE Commit(p) BY Zenon, <2>1 DEF Commit
  <2>2. CASE WriteLog(p) BY Zenon, <2>2 DEF WriteLog
  <2>3. CASE WriteHead(p) BY Zenon, <2>3 DEF WriteHead
  <2>4. CASE InstallTrans(p) BY Zenon, <2>4 DEF InstallTrans
  <2>5. CASE ClearHead(p) BY Zenon, <2>5 DEF ClearHead
  <2>6. CASE EndCommit(p) BY Zenon, <2>6 DEF EndCommit, Wakeup
  <2> QED BY Zenon, <2>1, <2>2, <2>3, <2>4, <2>5, <2>6 DEF CommitStep
<1>4. \A q \in Procs : pc[q] \notin OpPcs BY Zenon, <1>2 DEF Active
<1>5. \A q \in Procs : pc'[q] \notin OpPcs BY Zenon, <1>3, <1>4 DEF OpPcs, CommitPcs
<1> QED BY Zenon, <1>5 DEF Active

\* Nothing an operation in progress relies on changes, except by its own steps and
\* by the header growing.
LEMMA BudgetStep == FiniteSetFacts /\ Base /\ Budget /\ Next => Budget'
<1> SUFFICES ASSUME FiniteSetFacts, Base, Budget, Next PROVE Budget' BY Zenon
<1> USE LogConstants DEF Base, TypeOK, OpPcs, CommitPcs
<1>0. ASSUME \A q \in Active' : /\ q \in Active /\ pc'[q] = pc[q]
                               /\ wset'[q] = wset[q] /\ held'[q] = held[q],
             lh' = lh
      PROVE Budget'
  BY Zenon, <1>0 DEF Budget
<1>1. ASSUME Active' = {} PROVE Budget' BY Zenon, <1>1 DEF Budget
<1>2. ASSUME NEW p \in Procs, Call(p) \/ BeginSleep(p) \/ KillWakes(p) \/ EndOp(p) PROVE Budget'
  BY Zenon, <1>0, <1>2 DEF Call, BeginSleep, KillWakes, EndOp, Wakeup, Active
<1>3. ASSUME NEW p \in Procs, BeginOp(p) PROVE Budget'
  <2>1. lh' = lh /\ held' = held /\ wset'[p] = {} /\ pc'[p] = "op" BY Zenon, <1>3 DEF BeginOp
  <2>2. \A q \in Active' : q = p \/ (q \in Active /\ pc'[q] = pc[q] /\ wset'[q] = wset[q])
    BY Zenon, <1>3 DEF BeginOp, Active
  <2>3. Cardinality(wset'[p]) <= OPBLOCKS BY <2>1 DEF FiniteSetFacts, EmptyFact, CountFact
  <2>4. wset'[p] \subseteq Range(lh') BY Zenon, <2>1
  <2> QED BY Zenon, <2>1, <2>2, <2>3, <2>4 DEF Budget
<1>4. ASSUME NEW p \in Procs, NEW b \in Blocks, NEW v \in Vals, Modify(p, b, v) PROVE Budget'
  <2>1. p \in Active /\ Active' = Active BY Zenon, <1>4 DEF Modify, Active
  <2>2. lh' = lh /\ wset' = wset /\ held'[p] = b BY Zenon, <1>4 DEF Modify
  <2>3. \A q \in Active' : q # p => pc'[q] = pc[q] /\ held'[q] = held[q]
    BY Zenon, <1>4 DEF Modify, Active
  <2>4. Cardinality(wset[p] \cup {b}) <= OPBLOCKS BY Zenon, <1>4 DEF Modify
  <2> QED BY Zenon, <2>1, <2>2, <2>3, <2>4 DEF Budget
<1>5. ASSUME NEW p \in Procs, LogWrite(p) PROVE Budget'
  <2>1. p \in Active /\ Active' = Active /\ pc[p] = "log" BY Zenon, <1>5 DEF LogWrite, Active
  <2>2. CASE LogWritePanics BY Zenon, <1>0, <1>5, <2>1, <2>2 DEF LogWrite
  <2>3. CASE ~LogWritePanics
    <3>1. held[p] \in Blocks BY Zenon, <2>1 DEF Turns
    <3>2. /\ wset'[p] = wset[p] \cup {held[p]} /\ pc'[p] = "op"
          /\ \A q \in Active' : q # p => /\ pc'[q] = pc[q] /\ held'[q] = held[q]
                                         /\ wset'[q] = wset[q]
      BY <1>5, <2>3 DEF LogWrite, Active
    <3>3. Range(lh) \cup {held[p]} \subseteq Range(lh')
      <4>1. CASE lh' = lh /\ held[p] \in Range(lh) BY Zenon, <4>1
      <4>2. CASE lh' = Append(lh, held[p])
        <5>1. DOMAIN lh' = 1..(Len(lh) + 1) /\ DOMAIN lh = 1..Len(lh) /\ Len(lh) \in Nat
          BY <3>1, <4>2
        <5>2. \A i \in DOMAIN lh : lh'[i] = lh[i] BY <3>1, <4>2
        <5>3. lh'[Len(lh) + 1] = held[p] BY <3>1, <4>2
        <5>4. DOMAIN lh \subseteq DOMAIN lh' /\ Len(lh) + 1 \in DOMAIN lh' BY <5>1
        <5>5. \A i \in DOMAIN lh' : lh'[i] \in Range(lh') BY Zenon DEF Range
        <5>6. held[p] \in Range(lh') BY Zenon, <5>3, <5>4, <5>5
        <5>7. \A x \in Range(lh) : \E i \in DOMAIN lh : x = lh[i] BY Zenon DEF Range
        <5>8. \A x \in Range(lh) : x \in Range(lh') BY <5>2, <5>4, <5>5, <5>7
        <5> QED BY Zenon, <5>6, <5>8
      <4> QED BY Zenon, <1>5, <2>3, <4>1, <4>2 DEF LogWrite
    <3> QED BY Zenon, <2>1, <3>2, <3>3 DEF Budget
  <2> QED BY Zenon, <2>2, <2>3
<1>6. ASSUME NEW b \in Blocks, Evict(b) PROVE Budget'
  BY Zenon, <1>0, <1>6 DEF Evict, opVars, Active
<1>7. ASSUME NEW p \in Procs, CommitStep(p) PROVE Budget'
  BY Zenon, <1>1, <1>7, NoOpsInCommit
<1>8. CASE Crash
  <2>1. Active' = {} BY Zenon, <1>8 DEF Crash, Active
  <2> QED BY Zenon, <1>1, <2>1
<1>9. CASE Recover
  <2>1. Active' = {}
    BY Zenon, <1>9 DEF Recover, ReadHead, RecoverInstall, RecoverClear, opVars, Turns, Active
  <2> QED BY Zenon, <1>1, <2>1
<1> QED BY Zenon, <1>2, <1>3, <1>4, <1>5, <1>6, <1>7, <1>8, <1>9 DEF Next

\* What operations in progress may still log is at most their number times OPBLOCKS.
LEMMA LeftBound ==
  FiniteSetFacts =>
    /\ IsFiniteSet(Left) /\ Cardinality(Left) \in Nat
    /\ Cardinality(Left) <= Cardinality(Active) * OPBLOCKS
<1> SUFFICES ASSUME FiniteSetFacts
             PROVE  /\ IsFiniteSet(Left) /\ Cardinality(Left) \in Nat
                    /\ Cardinality(Left) <= Cardinality(Active) * OPBLOCKS
  BY Zenon
<1>1. IsFiniteSet(1..OPBLOCKS) /\ Cardinality(1..OPBLOCKS) = OPBLOCKS
  BY LogConstants DEF FiniteSetFacts, IntervalFact
<1>2. /\ IsFiniteSet(Active \X (1..OPBLOCKS))
      /\ Cardinality(Active \X (1..OPBLOCKS)) = Cardinality(Active) * OPBLOCKS
  BY Zenon, <1>1, ActiveFinite DEF FiniteSetFacts, ProductFact
<1>3. Left \subseteq Active \X (1..OPBLOCKS) BY Zenon DEF Left
<1> QED BY Zenon, <1>2, <1>3 DEF FiniteSetFacts, SubsetFact, CountFact

\* Two or more reservations exceed what their operations log by twice the slack.
LEMMA Slack ==
  ASSUME NEW n \in Nat, n >= 2
  PROVE  n * MAXOPBLOCKS >= n * OPBLOCKS + 2 * (MAXOPBLOCKS - OPBLOCKS)
<1>1. PICK d \in Nat : MAXOPBLOCKS = OPBLOCKS + d
  <2>1. MAXOPBLOCKS - OPBLOCKS \in Nat BY LogConstants
  <2> QED BY <2>1, LogConstants
<1>2. n * d >= 2 * d
  <2>1. PICK k \in Nat : n = k + 2
    <3>1. n - 2 \in Nat OBVIOUS
    <3> QED BY <3>1
  <2>2. k * d \in Nat BY <1>1, <2>1
  <2>3. (k + 2) * d = k * d + 2 * d BY <1>1, <2>1
  <2> QED BY <1>1, <2>1, <2>2, <2>3
<1>3. n * (OPBLOCKS + d) = n * OPBLOCKS + n * d BY <1>1, LogConstants
<1> QED BY <1>1, <1>2, <1>3, LogConstants

\* begin_op()'s reservation covers what the admitted operations will log, and each
\* log_write() uses up some of it.
LEMMA SpaceStep == FiniteSetFacts /\ Base /\ Budget /\ Space /\ Next => Space'
<1> SUFFICES ASSUME FiniteSetFacts, Base, Budget, Space, Next PROVE Space' BY Zenon
<1> USE LogConstants DEF Base, TypeOK, OpPcs, CommitPcs
<1>1. ASSUME Active' = {} PROVE Space' BY Zenon, <1>1 DEF Space
<1>2. ASSUME committing' PROVE Space' BY Zenon, <1>2 DEF Space
<1>3. ASSUME UNCHANGED <<lh, mode, committing, wset>>, Active' = Active PROVE Space'
  <2>1. Left' = Left BY Zenon, <1>3 DEF Left
  <2> QED BY Zenon, <1>3, <2>1 DEF Space
<1>4. ASSUME NEW p \in Procs, Call(p) \/ BeginSleep(p) \/ KillWakes(p) PROVE Space'
  BY Zenon, <1>3, <1>4 DEF Call, BeginSleep, KillWakes, Active
<1>5. ASSUME NEW p \in Procs, BeginOp(p) PROVE Space'
  <2>1. p \notin Active /\ Active' = Active \cup {p} BY <1>5 DEF BeginOp, Active
  <2>2. CASE Active = {}
    <3>1. lh' = <<>> /\ wset'[p] = {} BY Zenon, <1>5, <2>2 DEF BeginOp, Headers
    <3>2. Len(lh') <= Cardinality(wset'[p]) BY <3>1 DEF FiniteSetFacts, EmptyFact, CountFact
    <3> QED BY Zenon, <2>1, <2>2, <3>2 DEF Space
  <2>3. CASE Active # {}
    <3> DEFINE n == Cardinality(Active')
    <3>1. n = outstanding + 1 BY Zenon, <2>1, ActivePlus DEF Turns
    <3>2. outstanding # 0 BY Zenon, <2>3, ActiveFinite DEF Turns, FiniteSetFacts, EmptyFact, CountFact
    <3>3. n \in Nat /\ n >= 2 BY <3>1, <3>2
    <3>4. Len(lh) + n * MAXOPBLOCKS <= LOGSIZE BY Zenon, <1>5, <3>1 DEF BeginOp, RoomForOp
    <3>5. Cardinality(Left') \in Nat /\ Cardinality(Left') <= n * OPBLOCKS
      <4>1. (Cardinality(Left) \in Nat /\ Cardinality(Left) <= Cardinality(Active) * OPBLOCKS)'
        BY LeftBound, PTL
      <4> QED BY Zenon, <4>1
    <3>6. n * MAXOPBLOCKS >= n * OPBLOCKS + 2 * (MAXOPBLOCKS - OPBLOCKS) BY Zenon, <3>3, Slack
    <3> HIDE DEF n
    <3>7. n * MAXOPBLOCKS \in Nat /\ n * OPBLOCKS \in Nat BY <3>3
    <3>8. Len(lh) + Cardinality(Left') + 2 * (MAXOPBLOCKS - OPBLOCKS) <= LOGSIZE
      BY <3>4, <3>5, <3>6, <3>7
    <3> QED BY Zenon, <1>5, <3>8 DEF BeginOp, Space
  <2> QED BY Zenon, <2>2, <2>3
<1>6. ASSUME NEW p \in Procs, NEW b \in Blocks, NEW v \in Vals, Modify(p, b, v) PROVE Space'
  BY Zenon, <1>3, <1>6 DEF Modify, Active
<1>7. ASSUME NEW p \in Procs, LogWrite(p) PROVE Space'
  <2>1. p \in Active /\ Active' = Active /\ pc[p] = "log" BY Zenon, <1>7 DEF LogWrite, Active
  <2>2. CASE LogWritePanics BY Zenon, <1>3, <1>7, <2>1, <2>2 DEF LogWrite
  <2>3. CASE ~LogWritePanics
    <3> DEFINE c == Cardinality(wset[p])
    <3>0. /\ UNCHANGED <<mode, committing>> /\ mode = "up" /\ ~committing
          /\ wset' = [wset EXCEPT ![p] = wset[p] \cup {held[p]}]
          /\ \/ lh' = lh
             \/ held[p] \notin Range(lh) /\ lh' = Append(lh, held[p])
      BY Zenon, <1>7, <2>1, <2>3 DEF LogWrite, Turns
    <3>1. held[p] \in Blocks BY Zenon, <2>1 DEF Turns
    <3>2. IsFiniteSet(wset[p]) /\ c \in Nat BY Zenon DEF FiniteSetFacts, SubsetFact, CountFact
    <3>3. CASE held[p] \in wset[p]
      <4>1. wset' = wset BY <3>0, <3>3
      <4>2. lh' = lh BY Zenon, <2>1, <3>0, <3>3 DEF Budget
      <4> QED BY Zenon, <1>3, <2>1, <3>0, <4>1, <4>2
    <3>4. CASE held[p] \notin wset[p]
      <4>0. wset'[p] = wset[p] \cup {held[p]} BY Zenon, <3>0
      <4>1. Cardinality(wset'[p]) = c + 1
        <5>1. Cardinality(wset[p] \cup {held[p]}) = c + 1 BY Zenon, <3>2, <3>4 DEF FiniteSetFacts, AddFact
        <5> QED BY Zenon, <4>0, <5>1
      <4>2. c + 1 <= OPBLOCKS BY Zenon, <2>1, <3>0, <4>1 DEF Budget
      <4>3. Len(lh') <= Len(lh) + 1 /\ Len(lh') \in Nat BY <3>0, <3>1
      <4>4. Cardinality(Left') = Cardinality(Left) - 1
        <5> DEFINE x == <<p, c + 1>>
        <5>1. x \in Left BY <2>1, <3>2, <4>2 DEF Left
        <5>2. Left' = Left \ {x}
          <6>1. \A q \in Active, i \in 1..OPBLOCKS :
                  i > Cardinality(wset'[q]) <=>
                    i > Cardinality(wset[q]) /\ <<q, i>> # x
            BY <3>0, <3>2, <4>1 DEF Active
          <6> QED BY <2>1, <6>1 DEF Left
        <5> HIDE DEF x
        <5>3. IsFiniteSet(Left) BY Zenon, LeftBound
        <5>4. Cardinality(Left \ {x}) = Cardinality(Left) - 1 BY Zenon, <5>1, <5>3 DEF FiniteSetFacts, RemoveFact
        <5> QED BY Zenon, <5>2, <5>4
      <4>5. Cardinality(Left) \in Nat BY Zenon, LeftBound
      <4>6. CASE \E q \in Procs : Active = {q} /\ Len(lh) <= Cardinality(wset[q])
        <5>1. Active = {p} /\ Len(lh) <= c BY Zenon, <2>1, <4>6
        <5>2. Len(lh') <= Cardinality(wset'[p]) BY <3>2, <4>1, <4>3, <5>1
        <5> QED BY Zenon, <2>1, <5>1, <5>2 DEF Space
      <4>7. CASE Len(lh) + Cardinality(Left) + 2 * (MAXOPBLOCKS - OPBLOCKS) <= LOGSIZE
        <5>1. Len(lh') + Cardinality(Left') + 2 * (MAXOPBLOCKS - OPBLOCKS) <= LOGSIZE
          BY <4>3, <4>4, <4>5, <4>7
        <5> QED BY Zenon, <5>1 DEF Space
      <4> QED BY Zenon, <2>1, <3>0, <4>6, <4>7 DEF Space
    <3> QED BY Zenon, <3>3, <3>4
  <2> QED BY Zenon, <2>2, <2>3
<1>8. ASSUME NEW b \in Blocks, Evict(b) PROVE Space'
  BY Zenon, <1>3, <1>8 DEF Evict, opVars, Active
<1>9. ASSUME NEW p \in Procs, EndOp(p) PROVE Space'
  <2>1. p \in Active /\ Active' = Active \ {p} BY Zenon, <1>9 DEF EndOp, Wakeup, Turns, Active
  <2>2. UNCHANGED <<lh, mode, wset>> /\ ~committing BY Zenon, <1>9, <2>1 DEF EndOp, Turns
  <2>3. Left' \subseteq Left BY Zenon, <2>1, <2>2 DEF Left
  <2>4. Cardinality(Left') <= Cardinality(Left) /\ Cardinality(Left') \in Nat /\ Cardinality(Left) \in Nat
    BY Zenon, <2>3, LeftBound DEF FiniteSetFacts, SubsetFact, CountFact
  <2>5. CASE \E q \in Procs : Active = {q} /\ Len(lh) <= Cardinality(wset[q])
    BY Zenon, <1>1, <2>1, <2>5
  <2>6. CASE Len(lh) + Cardinality(Left) + 2 * (MAXOPBLOCKS - OPBLOCKS) <= LOGSIZE
    <3>1. Len(lh') + Cardinality(Left') + 2 * (MAXOPBLOCKS - OPBLOCKS) <= LOGSIZE
      BY <2>2, <2>4, <2>6
    <3> QED BY Zenon, <3>1 DEF Space
  <2> QED BY Zenon, <1>9, <2>1, <2>2, <2>5, <2>6 DEF Space, EndOp
<1>10. ASSUME NEW p \in Procs, CommitStep(p) PROVE Space'
  BY Zenon, <1>1, <1>10, NoOpsInCommit
<1>11. CASE Crash \/ Recover
  BY Zenon, <1>1, <1>11 DEF Crash, Recover, ReadHead, RecoverInstall, RecoverClear, opVars, Turns, Active
<1> QED BY Zenon, <1>4, <1>5, <1>6, <1>7, <1>8, <1>9, <1>10, <1>11 DEF Next

\* panicked becomes true only in log_write() without space, or without an operation
\* in progress, and in end_op() during a commit.
LEMMA PanicStep ==
  ASSUME FiniteSetFacts, WithinBudget, Base, Budget, Space, ~panicked, Next
  PROVE  ~panicked'
<1> USE LogConstants DEF Base, TypeOK, OpPcs, CommitPcs
<1>1. ASSUME NEW p \in Procs, LogWrite(p) PROVE ~panicked'
  <2>1. p \in Active /\ mode = "up" /\ pc[p] = "log" BY Zenon, <1>1 DEF LogWrite, Active
  <2>2. ~committing BY Zenon, <2>1 DEF Turns
  <2>3. outstanding >= 1 BY <2>1, ActiveFinite DEF Turns, FiniteSetFacts, EmptyFact, CountFact
  <2>4. CASE \E q \in Procs : Active = {q} /\ Len(lh) <= Cardinality(wset[q])
    <3>1. Len(lh) <= Cardinality(wset[p]) BY Zenon, <2>1, <2>4
    <3>2. Cardinality(wset[p]) <= OPBLOCKS BY Zenon, <2>1 DEF Budget
    <3>3. Cardinality(wset[p]) \in Nat BY Zenon DEF FiniteSetFacts, SubsetFact, CountFact
    <3>4. Len(lh) <= OPBLOCKS BY <3>1, <3>2, <3>3
    <3>5. ~LogWritePanics BY <2>3, <3>4 DEF LogWritePanics, WithinBudget
    <3> QED BY Zenon, <1>1, <3>5 DEF LogWrite
  <2>5. CASE Len(lh) + Cardinality(Left) + 2 * (MAXOPBLOCKS - OPBLOCKS) <= LOGSIZE
    <3>1. Cardinality(Left) \in Nat BY Zenon, LeftBound
    <3>2. Len(lh) + 2 * (MAXOPBLOCKS - OPBLOCKS) <= LOGSIZE BY <2>5, <3>1
    <3>3. ~LogWritePanics BY <2>3, <3>2 DEF LogWritePanics, WithinBudget
    <3> QED BY Zenon, <1>1, <3>3 DEF LogWrite
  <2> QED BY Zenon, <2>1, <2>2, <2>4, <2>5 DEF Space
<1>2. ASSUME NEW p \in Procs, EndOp(p) PROVE ~panicked'
  BY Zenon, <1>2 DEF EndOp, Turns, Active
<1>3. \/ \E p \in Procs : LogWrite(p) \/ EndOp(p)
      \/ panicked' = panicked
      \/ panicked' = FALSE
  BY Zenon DEF Next, Call, BeginSleep, BeginOp, KillWakes, CommitStep, Commit, WriteLog,
       WriteHead, InstallTrans, ClearHead, EndCommit, Modify, Evict, Crash, Recover,
       ReadHead, RecoverInstall, RecoverClear
<1> QED BY Zenon, <1>1, <1>2, <1>3

\* Base, Budget and Space together are kept, and log_write() does not panic.
LEMMA SpaceNext ==
  ASSUME FiniteSetFacts, WithinBudget, Base, Base', Budget, Space, ~panicked, [Next]_vars
  PROVE  Budget' /\ Space' /\ ~panicked'
<1>1. CASE Next BY Zenon, <1>1, BudgetStep, SpaceStep, PanicStep
<1>2. CASE UNCHANGED vars
  <2>1. UNCHANGED <<Active, Left>> BY Zenon, <1>2 DEF vars, Active, Left
  <2>2. Budget' BY Zenon, <1>2, <2>1 DEF vars, Budget
  <2>3. Space' BY Zenon, <1>2, <2>1 DEF vars, Space
  <2> QED BY Zenon, <1>2, <2>2, <2>3 DEF vars
<1> QED BY Zenon, <1>1, <1>2
-----------------------------------------------------------------------------
(* The refinement: the inductive invariant about contents, with Base *)

Installing == \E p \in Procs : pc[p] = "install"

\* Block b is in the header and install_trans() has not got to it.
Pinned(b) == \E i \in DOMAIN lh : lh[i] = b /\ (Installing => i > tail)

Distinct(s) == \A i, j \in DOMAIN s : s[i] = s[j] => i = j

\* log absorption: a block is logged once.
Absorbed == Distinct(lh) /\ Distinct(dhead)

\* log_write() pins each block of the header, install_trans() unpins it; a buffer
\* that is neither pinned nor being modified has the contents of its home block, so
\* that bget() may recycle it.
Buffers ==
  /\ mode = "up" =>
       /\ pins \in [Blocks -> Nat]
       /\ \A b \in Blocks : pins[b] = IF Pinned(b) THEN 1 ELSE 0
       /\ \A b \in Blocks :
            ~Pinned(b) /\ (\A p \in Procs : held[p] # b) => cache[b] = disk[b]
  /\ mode # "up" => cache = disk /\ pins = [b \in Blocks |-> 0]

\* The on-disk header names blocks only between the commit point and its erasure.
Erased ==
  mode = "up" /\ (\A p \in Procs : pc[p] \notin {"install", "clear"}) => dhead = <<>>

\* The blocks that have got to the log, and from it to their home.
Copies ==
  /\ \A p \in Procs :
       /\ pc[p] = "write_log" => \A i \in 1..tail : dlog[i] = cache[lh[i]]
       /\ pc[p] \in {"write_head", "install"} =>
            \A i \in DOMAIN lh : dlog[i] = cache[lh[i]]
       /\ pc[p] = "install" => \A i \in 1..tail : disk[lh[i]] = dlog[i]
       /\ pc[p] = "clear" => \A i \in DOMAIN dhead : disk[dhead[i]] = dlog[i]
  /\ mode = "install" => \A i \in 1..tail : disk[lh[i]] = dlog[i]
  /\ mode = "clear" => \A i \in DOMAIN dhead : disk[dhead[i]] = dlog[i]

Contents == Absorbed /\ Buffers /\ Erased /\ Copies

DataPcs == {"write_log", "write_head", "install", "clear"}
-----------------------------------------------------------------------------
(* Steps that leave the log and the buffers alone *)

\* A step that only moves processes outside the loops of commit() keeps Contents.
LEMMA QuietStep ==
  ASSUME Contents,
         UNCHANGED <<disk, dlog, dhead, cache, pins, lh, tail, held, mode>>,
         \A q \in Procs : pc'[q] # pc[q] => pc[q] \notin DataPcs /\ pc'[q] \notin DataPcs
  PROVE  Contents'
<1>1. Installing' <=> Installing BY Zenon DEF Installing, DataPcs
<1>2. \A b : Pinned(b)' <=> Pinned(b) BY Zenon, <1>1 DEF Pinned
<1>3. Absorbed' BY Zenon DEF Contents, Absorbed, Distinct
<1>4. Buffers' BY Zenon, <1>2 DEF Contents, Buffers
<1>5. Erased' BY Zenon DEF Contents, Erased, DataPcs
<1>6. Copies' BY DEF Contents, Copies, DataPcs
<1> QED BY Zenon, <1>3, <1>4, <1>5, <1>6 DEF Contents

\* bget() recycles a buffer without changing what bread() returns.
LEMMA EvictSame ==
  ASSUME Base, Contents, NEW b \in Blocks, Evict(b)
  PROVE  cache' = cache
<1>1. mode = "up" /\ pins[b] = 0 /\ \A p \in Procs : held[p] # b BY Zenon DEF Evict
<1>2. ~Pinned(b) BY <1>1 DEF Contents, Buffers
<1>3. cache[b] = disk[b] BY Zenon, <1>1, <1>2 DEF Contents, Buffers
<1> QED BY Zenon, <1>3 DEF Evict, Base, TypeOK

\* install_trans() in commit() copies back what the buffer holds already.
LEMMA InstallSame ==
  ASSUME Base, Contents, NEW p \in Procs, InstallTrans(p)
  PROVE  /\ cache' = cache
         /\ tail + 1 \in DOMAIN lh /\ lh[tail + 1] \in Blocks
         /\ dlog[tail + 1] = cache[lh[tail + 1]]
<1>1. pc[p] = "install" BY Zenon DEF InstallTrans
<1>2. tail + 1 \in DOMAIN lh BY <1>1 DEF Base, TypeOK, Headers
<1>3. lh[tail + 1] \in Blocks BY <1>2 DEF Base, TypeOK
<1>4. dlog[tail + 1] = cache[lh[tail + 1]] BY Zenon, <1>1, <1>2 DEF Contents, Copies
<1> QED BY Zenon, <1>2, <1>3, <1>4 DEF InstallTrans, InstallBlock, Base, TypeOK
-----------------------------------------------------------------------------
(* Every action keeps Contents *)

\* Between begin_op() and end_op() there is no committer.
LEMMA NoCommitter ==
  ASSUME Base, NEW p \in Procs, pc[p] \in OpPcs
  PROVE  (\A q \in Procs : pc[q] \notin CommitPcs) /\ ~Installing
BY Zenon DEF Base, Turns, Active, Installing, CommitPcs

\* There is one committer.
LEMMA OneCommitter ==
  ASSUME Base, NEW p \in Procs, pc[p] \in CommitPcs
  PROVE  /\ \A q \in Procs : q # p => pc[q] \notin CommitPcs
         /\ \A q \in Procs : held[q] = None
BY Zenon DEF Base, Turns, Active, OpPcs, CommitPcs

\* Modifying a buffer under its lock.
LEMMA ModifyStep ==
  ASSUME Base, Contents, NEW p \in Procs, NEW b \in Blocks, NEW v \in Vals, Modify(p, b, v)
  PROVE  Contents'
<1> USE DEF Base, TypeOK
<1>1. /\ mode = "up" /\ pc[p] = "op" /\ cache' = [cache EXCEPT ![b] = v]
      /\ held' = [held EXCEPT ![p] = b] /\ pc' = [pc EXCEPT ![p] = "log"]
      /\ UNCHANGED <<disk, dlog, dhead, pins, lh, tail, mode>>
  BY Zenon DEF Modify, diskVars
<1>2. (\A q \in Procs : pc[q] \notin CommitPcs) /\ ~Installing
  BY Zenon, <1>1, NoCommitter DEF OpPcs
<1>3. (\A q \in Procs : pc'[q] \notin CommitPcs) /\ ~Installing'
  BY Zenon, <1>1, <1>2 DEF CommitPcs, Installing
<1>4. \A c : Pinned(c)' <=> Pinned(c) BY Zenon, <1>1, <1>2, <1>3 DEF Pinned
<1>5. held[p] = None BY Zenon, <1>1 DEF Turns
<1>6. Absorbed' BY Zenon, <1>1 DEF Contents, Absorbed, Distinct
<1>7. Buffers'
  <2>1. ASSUME NEW c \in Blocks, ~Pinned(c)', \A q \in Procs : held'[q] # c
        PROVE cache'[c] = disk'[c]
    <3>1. c # b BY Zenon, <1>1, <2>1
    <3>2. \A q \in Procs : held[q] # c BY Zenon, <1>1, <1>5, <2>1, LogConstants
    <3>3. cache[c] = disk[c] BY Zenon, <1>1, <1>4, <2>1, <3>2 DEF Contents, Buffers
    <3> QED BY Zenon, <1>1, <3>1, <3>3
  <2> QED BY Zenon, <1>1, <1>4, <2>1 DEF Contents, Buffers
<1>8. Erased' BY Zenon, <1>1, <1>2 DEF Contents, Erased, CommitPcs
<1>9. Copies' BY Zenon, <1>1, <1>3 DEF Copies, CommitPcs
<1> QED BY Zenon, <1>6, <1>7, <1>8, <1>9 DEF Contents

\* log_write() pins the buffer that the caller still holds.
LEMMA LogWriteStep ==
  ASSUME Base, Contents, NEW p \in Procs, LogWrite(p)
  PROVE  Contents'
<1> USE DEF Base, TypeOK
<1> DEFINE b == held[p]
<1>1. /\ mode = "up" /\ pc[p] = "log"
      /\ UNCHANGED <<disk, dlog, dhead, cache, tail, mode>>
  BY Zenon DEF LogWrite, diskVars
<1>2. (\A q \in Procs : pc[q] \notin CommitPcs) /\ ~Installing
  BY Zenon, <1>1, NoCommitter DEF OpPcs
<1>3. CASE LogWritePanics BY Zenon, <1>1, <1>3, QuietStep DEF LogWrite
<1>4. CASE ~LogWritePanics
  <2>1. /\ held' = [held EXCEPT ![p] = None] /\ pc' = [pc EXCEPT ![p] = "op"]
        /\ \/ b \in Range(lh) /\ lh' = lh /\ pins' = pins
           \/ b \notin Range(lh) /\ lh' = Append(lh, b) /\ pins' = Bpin(b)
    BY Zenon, <1>4 DEF LogWrite
  <2>2. b \in Blocks BY Zenon, <1>1 DEF Turns
  <2>3. (\A q \in Procs : pc'[q] \notin CommitPcs) /\ ~Installing'
    BY Zenon, <1>2, <2>1 DEF CommitPcs, Installing
  <2>4. \A c : Pinned(c) <=> c \in Range(lh) BY Zenon, <1>2 DEF Pinned, Range
  <2>5. \A c : Pinned(c)' <=> c \in Range(lh') BY Zenon, <2>3 DEF Pinned, Range
  <2>6. Range(lh') = Range(lh) \cup {b} /\ Distinct(lh')
    <3>1. CASE b \in Range(lh) /\ lh' = lh BY Zenon, <3>1 DEF Contents, Absorbed
    <3>2. CASE b \notin Range(lh) /\ lh' = Append(lh, b)
      <4>1. DOMAIN lh' = 1..(Len(lh) + 1) /\ DOMAIN lh = 1..Len(lh) /\ Len(lh) \in Nat
        BY <2>2, <3>2
      <4>2. \A i \in DOMAIN lh : lh'[i] = lh[i] BY <2>2, <3>2
      <4>3. lh'[Len(lh) + 1] = b BY <2>2, <3>2
      <4>4. DOMAIN lh' = DOMAIN lh \cup {Len(lh) + 1} BY <4>1
      <4>5. Range(lh') = Range(lh) \cup {b}
        <5>1. Range(lh') = {lh'[i] : i \in DOMAIN lh} \cup {lh'[Len(lh) + 1]}
          BY Zenon, <4>4 DEF Range
        <5>2. {lh'[i] : i \in DOMAIN lh} = Range(lh) BY Zenon, <4>2 DEF Range
        <5> QED BY Zenon, <4>3, <5>1, <5>2
      <4>6. \A i \in DOMAIN lh : lh[i] # b BY Zenon, <3>2 DEF Range
      <4>7. Distinct(lh')
        BY Zenon, <4>2, <4>3, <4>4, <4>6 DEF Contents, Absorbed, Distinct
      <4> QED BY Zenon, <4>5, <4>7
    <3> QED BY Zenon, <2>1, <3>1, <3>2
  <2>7. Absorbed' BY Zenon, <1>1, <2>6 DEF Contents, Absorbed, Distinct
  <2>8. Buffers'
    <3>1. pins \in [Blocks -> Nat] /\ \A c \in Blocks : pins[c] = IF c \in Range(lh) THEN 1 ELSE 0
      BY Zenon, <1>1, <2>4 DEF Contents, Buffers
    <3>2. /\ pins' \in [Blocks -> Nat]
          /\ \A c \in Blocks : pins'[c] = IF c \in Range(lh') THEN 1 ELSE 0
      BY <2>1, <2>2, <2>6, <3>1 DEF Bpin
    <3>3. ASSUME NEW c \in Blocks, c \notin Range(lh'), \A q \in Procs : held'[q] # c
          PROVE cache'[c] = disk'[c]
      <4>1. c # b /\ c \notin Range(lh) BY Zenon, <2>6, <3>3
      <4>2. \A q \in Procs : held[q] # c BY Zenon, <2>1, <3>3, <4>1
      <4>3. cache[c] = disk[c] BY Zenon, <1>1, <2>4, <4>1, <4>2 DEF Contents, Buffers
      <4> QED BY Zenon, <1>1, <4>3
    <3> QED BY Zenon, <1>1, <2>5, <3>2, <3>3 DEF Buffers
  <2>9. Erased' BY Zenon, <1>1, <1>2 DEF Contents, Erased, CommitPcs
  <2>10. Copies' BY Zenon, <1>1, <2>3 DEF Copies, CommitPcs
  <2> QED BY Zenon, <2>7, <2>8, <2>9, <2>10 DEF Contents
<1> QED BY Zenon, <1>3, <1>4

\* commit() up to the commit point: the log blocks, then the header.
LEMMA CommitSteps ==
  ASSUME Base, Contents, NEW p \in Procs, Commit(p) \/ WriteLog(p) \/ WriteHead(p)
  PROVE  Contents'
<1> USE DEF Base, TypeOK
<1>1. /\ mode = "up" /\ pc[p] \in {"commit", "write_log", "write_head"}
      /\ UNCHANGED <<disk, cache, pins, lh, held, mode>>
      /\ \A q \in Procs : q # p => pc'[q] = pc[q]
  BY Zenon DEF Commit, WriteLog, WriteHead, diskVars
<1>2. \A q \in Procs : q # p => pc[q] \notin CommitPcs /\ pc'[q] \notin CommitPcs
  BY Zenon, <1>1, OneCommitter DEF CommitPcs
<1>3. ~Installing BY Zenon, <1>1, <1>2 DEF Installing, CommitPcs
<1>4. dhead = <<>>
  <2>1. \A q \in Procs : pc[q] \notin {"install", "clear"} BY Zenon, <1>1, <1>2 DEF CommitPcs
  <2> QED BY Zenon, <1>1, <2>1 DEF Contents, Erased
<1>5. CASE Commit(p)
  <2>1. dhead' = dhead /\ dlog' = dlog /\ tail' = 0 /\ pc'[p] \in {"write_log", "finish"}
    BY Zenon, <1>5 DEF Commit, diskVars
  <2>2. ~Installing' BY Zenon, <1>2, <2>1 DEF Installing, CommitPcs
  <2>3. \A b : Pinned(b)' <=> Pinned(b) BY Zenon, <1>1, <1>3, <2>2 DEF Pinned
  <2>4. Absorbed' BY Zenon, <1>1, <2>1 DEF Contents, Absorbed, Distinct
  <2>5. Buffers' BY Zenon, <1>1, <2>3 DEF Contents, Buffers
  <2>6. Erased' BY Zenon, <1>4, <2>1 DEF Erased
  <2>7. Copies' BY <1>1, <1>2, <2>1 DEF Copies, CommitPcs
  <2> QED BY Zenon, <2>4, <2>5, <2>6, <2>7 DEF Contents
<1>6. CASE WriteLog(p)
  <2>1. /\ dhead' = dhead /\ dlog' = [dlog EXCEPT ![tail + 1] = cache[lh[tail + 1]]]
        /\ tail' = tail + 1 /\ pc[p] = "write_log"
        /\ pc'[p] = IF tail + 1 = Len(lh) THEN "write_head" ELSE "write_log"
    BY Zenon, <1>6 DEF WriteLog
  <2>2. ~Installing' BY Zenon, <1>2, <2>1 DEF Installing, CommitPcs
  <2>3. \A b : Pinned(b)' <=> Pinned(b) BY Zenon, <1>1, <1>3, <2>2 DEF Pinned
  <2>4. Absorbed' BY Zenon, <1>1, <2>1 DEF Contents, Absorbed, Distinct
  <2>5. Buffers' BY Zenon, <1>1, <2>3 DEF Contents, Buffers
  <2>6. Erased' BY Zenon, <1>4, <2>1 DEF Erased
  <2>7. tail < Len(lh) /\ Len(lh) \in Nat /\ DOMAIN lh = 1..Len(lh) BY <2>1 DEF Headers
  <2>8. \A i \in 1..(tail + 1) : dlog'[i] = cache[lh[i]]
    <3>1. \A i \in 1..tail : dlog[i] = cache[lh[i]] BY Zenon, <2>1 DEF Contents, Copies
    <3>a. tail + 1 \in 1..LOGSIZE BY <2>7, LogConstants
    <3>2. tail + 1 \in DOMAIN dlog BY Zenon, <3>a
    <3> QED BY <2>1, <3>1, <3>2
  <2>9. Copies'
    <3>1. \A q \in Procs : q # p => pc'[q] \notin DataPcs BY Zenon, <1>2 DEF CommitPcs, DataPcs
    <3>2. pc'[p] = "write_log" => \A i \in 1..tail' : dlog'[i] = cache'[lh'[i]]
      BY Zenon, <1>1, <2>1, <2>8
    <3>3. pc'[p] = "write_head" => \A i \in DOMAIN lh' : dlog'[i] = cache'[lh'[i]]
      BY Zenon, <1>1, <2>1, <2>7, <2>8
    <3>4. pc'[p] \notin {"install", "clear"} /\ mode' = "up" BY Zenon, <1>1, <2>1
    <3> QED BY Zenon, <3>1, <3>2, <3>3, <3>4 DEF Copies, DataPcs
  <2> QED BY Zenon, <2>4, <2>5, <2>6, <2>9 DEF Contents
<1>7. CASE WriteHead(p)
  <2>1. /\ dhead' = lh /\ dlog' = dlog /\ tail' = 0 /\ pc[p] = "write_head"
        /\ pc'[p] = "install"
    BY Zenon, <1>7 DEF WriteHead
  <2>2. \A b : Pinned(b)' <=> Pinned(b)
    <3>1. \A i \in DOMAIN lh : i > 0 OBVIOUS
    <3> QED BY Zenon, <1>1, <1>3, <2>1, <3>1 DEF Pinned
  <2>3. Absorbed' BY Zenon, <1>1, <2>1 DEF Contents, Absorbed, Distinct
  <2>4. Buffers' BY Zenon, <1>1, <2>2 DEF Contents, Buffers
  <2>5. Erased' BY Zenon, <2>1 DEF Erased
  <2>6. Copies' BY <1>1, <1>2, <2>1 DEF Contents, Copies, CommitPcs
  <2> QED BY Zenon, <2>3, <2>4, <2>5, <2>6 DEF Contents
<1> QED BY Zenon, <1>5, <1>6, <1>7
-----------------------------------------------------------------------------
\* One block goes home; the blocks before it in the header have got there.
LEMMA InstallCopies ==
  ASSUME Base, Contents, InstallBlock, tail + 1 \in DOMAIN lh,
         \A i \in 1..tail : disk[lh[i]] = dlog[i]
  PROVE  /\ \A i \in 1..(tail + 1) : disk'[lh[i]] = dlog[i]
         /\ \A b \in Blocks : b # lh[tail + 1] => disk'[b] = disk[b]
<1> USE DEF Base, TypeOK
<1>1. /\ disk' = [disk EXCEPT ![lh[tail + 1]] = dlog[tail + 1]]
      /\ lh[tail + 1] \in Blocks
  BY DEF InstallBlock
<1>2. \A i \in 1..tail : i \in DOMAIN lh /\ lh[i] # lh[tail + 1] /\ lh[i] \in Blocks
  <2>1. \A i \in 1..tail : i \in DOMAIN lh /\ i # tail + 1 OBVIOUS
  <2> QED BY <2>1 DEF Contents, Absorbed, Distinct
<1>3. \A i \in 1..(tail + 1) : i \in 1..tail \/ i = tail + 1 OBVIOUS
<1> QED BY Zenon, <1>1, <1>2, <1>3

\* install_trans() in commit(): the block that goes home is unpinned, and its
\* buffer agrees with it; after the last one the header is empty.
LEMMA InstallStep ==
  ASSUME Base, Contents, NEW p \in Procs, InstallTrans(p)
  PROVE  Contents'
<1> USE DEF Base, TypeOK
<1> DEFINE h == lh[tail + 1]
<1>1. /\ mode = "up" /\ pc[p] = "install" /\ dhead = lh /\ pins' = Bunpin(h)
      /\ UNCHANGED <<dlog, dhead, held, mode>> /\ cache' = cache
      /\ tail + 1 \in DOMAIN lh /\ h \in Blocks /\ dlog[tail + 1] = cache[h]
      /\ \A q \in Procs : q # p => pc'[q] = pc[q]
  BY Zenon, InstallSame DEF InstallTrans, Headers
<1>2. \A q \in Procs : q # p => pc[q] \notin CommitPcs /\ pc'[q] \notin CommitPcs
  BY Zenon, <1>1, OneCommitter DEF CommitPcs
<1>3. /\ \A i \in 1..(tail + 1) : disk'[lh[i]] = dlog[i]
      /\ \A b \in Blocks : b # h => disk'[b] = disk[b]
  BY Zenon, <1>1, InstallCopies DEF InstallTrans, Contents, Copies
<1>4. disk'[h] = cache[h] BY <1>1, <1>3
<1>5. Installing BY Zenon, <1>1 DEF Installing
<1>6. \A b : Pinned(b) <=> \E i \in DOMAIN lh : lh[i] = b /\ i > tail BY Zenon, <1>5 DEF Pinned
<1>7. \A b : Pinned(b)' <=> Pinned(b) /\ b # h
  <2>1. CASE tail + 1 = Len(lh)
    <3>1. lh' = <<>> BY Zenon, <2>1 DEF InstallTrans
    <3>2. \A b : ~Pinned(b)' BY <3>1 DEF Pinned
    <3>3. \A i \in DOMAIN lh : i > tail => i = tail + 1 BY <1>1, <2>1
    <3> QED BY Zenon, <1>6, <3>2, <3>3
  <2>2. CASE tail + 1 # Len(lh)
    <3>1. lh' = lh /\ tail' = tail + 1 /\ pc' = pc BY Zenon, <2>2 DEF InstallTrans
    <3>2. \A b : Pinned(b)' <=> \E i \in DOMAIN lh : lh[i] = b /\ i > tail + 1
      BY Zenon, <1>5, <3>1 DEF Pinned, Installing
    <3>3. \A i \in DOMAIN lh : i > tail + 1 <=> i > tail /\ i # tail + 1 OBVIOUS
    <3>4. \A i \in DOMAIN lh : lh[i] = h <=> i = tail + 1
      BY Zenon, <1>1 DEF Contents, Absorbed, Distinct
    <3> QED BY Zenon, <1>6, <3>2, <3>3, <3>4
  <2> QED BY Zenon, <2>1, <2>2
<1>8. Absorbed'
  <2>1. Distinct(lh') BY DEF Contents, Absorbed, Distinct, InstallTrans
  <2> QED BY <1>1, <2>1 DEF Contents, Absorbed, Distinct
<1>9. Buffers'
  <2>1. pins \in [Blocks -> Nat] /\ \A b \in Blocks : pins[b] = IF Pinned(b) THEN 1 ELSE 0
    BY Zenon, <1>1 DEF Contents, Buffers
  <2>2. Pinned(h) BY <1>1, <1>6
  <2>3. pins[h] = 1 BY Zenon, <1>1, <2>1, <2>2
  <2>4. pins' = [pins EXCEPT ![h] = 0] BY <1>1, <2>3 DEF Bunpin
  <2>5. pins' \in [Blocks -> Nat] /\ \A b \in Blocks : pins'[b] = IF Pinned(b)' THEN 1 ELSE 0
    BY <1>1, <1>7, <2>1, <2>4
  <2>6. ASSUME NEW b \in Blocks, ~Pinned(b)', \A q \in Procs : held'[q] # b
        PROVE cache'[b] = disk'[b]
    <3>1. CASE b = h BY Zenon, <1>1, <1>4, <3>1
    <3>2. CASE b # h
      <4>1. cache[b] = disk[b] BY Zenon, <1>1, <1>7, <2>6, <3>2 DEF Contents, Buffers
      <4> QED BY Zenon, <1>1, <1>3, <3>2, <4>1
    <3> QED BY Zenon, <3>1, <3>2
  <2> QED BY Zenon, <1>1, <2>5, <2>6 DEF Buffers
<1>10. Erased'
  <2>1. pc'[p] \in {"install", "clear"} BY Zenon, <1>1 DEF InstallTrans
  <2> QED BY Zenon, <2>1 DEF Erased
<1>11. Copies'
  <2>1. \A q \in Procs : q # p => pc'[q] \notin DataPcs BY Zenon, <1>2 DEF CommitPcs, DataPcs
  <2>2. CASE tail + 1 = Len(lh)
    <3>1. pc'[p] = "clear" BY Zenon, <2>2 DEF InstallTrans
    <3>2. \A i \in DOMAIN dhead' : disk'[dhead'[i]] = dlog'[i] BY <1>1, <1>3, <2>2
    <3> QED BY Zenon, <1>1, <2>1, <3>1, <3>2 DEF Copies, DataPcs
  <2>3. CASE tail + 1 # Len(lh)
    <3>1. lh' = lh /\ tail' = tail + 1 /\ pc' = pc BY Zenon, <2>3 DEF InstallTrans
    <3>2. \A i \in DOMAIN lh' : dlog'[i] = cache'[lh'[i]] BY Zenon, <1>1, <3>1 DEF Contents, Copies
    <3>3. \A i \in 1..tail' : disk'[lh'[i]] = dlog'[i] BY Zenon, <1>1, <1>3, <3>1
    <3> QED BY Zenon, <1>1, <2>1, <3>1, <3>2, <3>3 DEF Copies, DataPcs
  <2> QED BY Zenon, <2>2, <2>3
<1> QED BY Zenon, <1>8, <1>9, <1>10, <1>11 DEF Contents

\* The transaction is erased once all its blocks are home.
LEMMA ClearStep ==
  ASSUME Base, Contents, NEW p \in Procs, ClearHead(p)
  PROVE  Contents'
<1> USE DEF Base, TypeOK
<1>1. /\ mode = "up" /\ pc[p] = "clear" /\ lh = <<>> /\ dhead' = <<>>
      /\ pc' = [pc EXCEPT ![p] = "finish"]
      /\ UNCHANGED <<disk, dlog, cache, pins, lh, tail, held, mode>>
  BY Zenon DEF ClearHead, Headers
<1>2. \A q \in Procs : pc'[q] \notin DataPcs
  BY Zenon, <1>1, OneCommitter DEF CommitPcs, DataPcs
<1>3. \A b : ~Pinned(b) /\ ~Pinned(b)' BY <1>1 DEF Pinned
<1>4. Absorbed' BY <1>1 DEF Absorbed, Distinct
<1>5. Buffers' BY Zenon, <1>1, <1>3 DEF Contents, Buffers
<1>6. Erased' BY Zenon, <1>1 DEF Erased
<1>7. Copies' BY Zenon, <1>1, <1>2 DEF Copies, DataPcs
<1> QED BY Zenon, <1>4, <1>5, <1>6, <1>7 DEF Contents

\* A crash, and recovery, which starts again from the on-disk header if it is
\* interrupted.
LEMMA RecoverStep ==
  ASSUME Base, Contents, Crash \/ Recover
  PROVE  Contents'
<1> USE DEF Base, TypeOK
<1>1. \A q \in Procs : pc'[q] = "idle"
  BY Zenon DEF Crash, Recover, ReadHead, RecoverInstall, RecoverClear, opVars, Turns
<1>2. CASE Crash
  <2>1. Absorbed' BY <1>2 DEF Crash, diskVars, Contents, Absorbed, Distinct
  <2>2. mode' = "read_head" /\ cache' = disk' /\ pins' = [b \in Blocks |-> 0]
    BY Zenon, <1>2 DEF Crash, diskVars
  <2> QED BY Zenon, <1>1, <2>1, <2>2 DEF Contents, Buffers, Erased, Copies
<1>3. CASE ReadHead
  <2>1. /\ lh' = dhead /\ tail' = 0 /\ mode = "read_head" /\ mode' # "up"
        /\ UNCHANGED <<disk, dlog, dhead, cache, pins>>
        /\ mode' = "clear" => Len(dhead) = 0
    BY <1>3 DEF ReadHead, diskVars
  <2>2. Absorbed' BY Zenon, <2>1 DEF Contents, Absorbed, Distinct
  <2>3. Buffers' /\ Erased' BY Zenon, <2>1 DEF Contents, Buffers, Erased
  <2>4. Copies' BY <1>1, <2>1 DEF Copies
  <2> QED BY Zenon, <2>2, <2>3, <2>4 DEF Contents
<1>4. CASE RecoverInstall
  <2>1. mode = "install" /\ InstallBlock /\ dhead = lh /\ tail + 1 \in DOMAIN lh
    BY <1>4 DEF RecoverInstall, Headers
  <2>2. \A i \in 1..(tail + 1) : disk'[lh[i]] = dlog[i]
    BY Zenon, <2>1, InstallCopies DEF Contents, Copies
  <2>3. UNCHANGED <<dlog, dhead, pins>> /\ mode' \in {"install", "clear"}
    BY Zenon, <1>4 DEF RecoverInstall
  <2>4. cache' = disk' BY Zenon, <2>1 DEF Contents, Buffers, InstallBlock
  <2>5. Absorbed'
    <3>1. Distinct(lh') BY <1>4 DEF Contents, Absorbed, Distinct, RecoverInstall
    <3> QED BY Zenon, <2>3, <3>1 DEF Contents, Absorbed, Distinct
  <2>6. Buffers' /\ Erased' BY Zenon, <2>1, <2>3, <2>4 DEF Contents, Buffers, Erased
  <2>7. Copies'
    <3>1. CASE tail + 1 = Len(lh)
      <4>1. mode' = "clear" BY Zenon, <1>4, <3>1 DEF RecoverInstall
      <4> QED BY <1>1, <2>1, <2>2, <2>3, <3>1, <4>1 DEF Copies
    <3>2. CASE tail + 1 # Len(lh)
      <4>1. mode' = "install" /\ lh' = lh /\ tail' = tail + 1
        BY Zenon, <1>4, <3>2 DEF RecoverInstall
      <4> QED BY Zenon, <1>1, <2>2, <2>3, <4>1 DEF Copies
    <3> QED BY Zenon, <3>1, <3>2
  <2> QED BY Zenon, <2>5, <2>6, <2>7 DEF Contents
<1>5. CASE RecoverClear
  <2>1. /\ mode = "clear" /\ mode' = "up" /\ lh' = <<>> /\ dhead' = <<>>
        /\ UNCHANGED <<disk, dlog, cache, pins>>
    BY Zenon, <1>5 DEF RecoverClear, Headers
  <2>2. \A b : ~Pinned(b)' BY <2>1 DEF Pinned
  <2>3. Absorbed' BY <2>1 DEF Absorbed, Distinct
  <2>4. Buffers' BY <2>1, <2>2 DEF Contents, Buffers
  <2>5. Erased' /\ Copies' BY Zenon, <1>1, <2>1 DEF Erased, Copies
  <2> QED BY Zenon, <2>3, <2>4, <2>5 DEF Contents
<1> QED BY Zenon, <1>2, <1>3, <1>4, <1>5 DEF Recover

\* Contents holds at boot.
LEMMA ContentsInit == Init => Contents
<1> SUFFICES ASSUME Init PROVE Contents BY Zenon
<1>1. Absorbed BY DEF Init, Absorbed, Distinct
<1>2. Buffers BY Zenon DEF Init, Buffers
<1>3. Erased /\ Copies BY Zenon DEF Init, Erased, Copies
<1> QED BY Zenon, <1>1, <1>2, <1>3 DEF Contents

\* Every step keeps Contents.
LEMMA ContentsNext == Base /\ Contents /\ [Next]_vars => Contents'
<1> SUFFICES ASSUME Base, Contents, [Next]_vars PROVE Contents' BY Zenon
<1>1. ASSUME NEW p \in Procs,
             Call(p) \/ BeginSleep(p) \/ BeginOp(p) \/ KillWakes(p) \/ EndOp(p) \/ EndCommit(p)
      PROVE Contents'
  <2>1. UNCHANGED <<disk, dlog, dhead, cache, pins, lh, tail, held, mode>>
    BY Zenon, <1>1 DEF Call, BeginSleep, BeginOp, KillWakes, EndOp, EndCommit, diskVars
  <2>2. \A q \in Procs : pc'[q] # pc[q] => pc[q] \notin DataPcs /\ pc'[q] \notin DataPcs
    BY Zenon, <1>1 DEF Call, BeginSleep, BeginOp, KillWakes, EndOp, EndCommit, Wakeup, DataPcs, Base, TypeOK
  <2> QED BY Zenon, <2>1, <2>2, QuietStep
<1>2. ASSUME NEW b \in Blocks, Evict(b) PROVE Contents'
  <2>1. cache' = cache BY Zenon, <1>2, EvictSame
  <2> QED BY Zenon, <1>2, <2>1, QuietStep DEF Evict, diskVars, opVars
<1>3. CASE UNCHANGED vars BY Zenon, <1>3, QuietStep DEF vars
<1> QED BY Zenon, <1>1, <1>2, <1>3, ModifyStep, LogWriteStep, CommitSteps, InstallStep, ClearStep,
           RecoverStep DEF Next, CommitStep
-----------------------------------------------------------------------------
\* What recovery leaves: the log's copy for a block the on-disk header names, the
\* home block for any other.
LEMMA RecoveredIs ==
  ASSUME Base, Contents
  PROVE  /\ Recovered = [b \in Blocks |-> Recovered[b]]
         /\ \A i \in DOMAIN dhead : Recovered[dhead[i]] = dlog[i]
         /\ \A b \in Blocks : b \notin Range(dhead) => Recovered[b] = disk[b]
<1>1. Recovered = [b \in Blocks |-> Recovered[b]] BY DEF Recovered
<1>2. ASSUME NEW i \in DOMAIN dhead PROVE Recovered[dhead[i]] = dlog[i]
  <2>1. dhead[i] \in Blocks /\ dhead[i] \in Range(dhead) BY DEF Base, TypeOK, Range
  <2>2. (CHOOSE j \in DOMAIN dhead : dhead[j] = dhead[i]) = i
    BY Zenon DEF Contents, Absorbed, Distinct
  <2> QED BY Zenon, <2>1, <2>2 DEF Recovered
<1>3. \A b \in Blocks : b \notin Range(dhead) => Recovered[b] = disk[b] BY Zenon DEF Recovered
<1> QED BY Zenon, <1>1, <1>2, <1>3

\* When the header is empty, or all it names is home, recovery changes nothing.
LEMMA RecoveredDisk ==
  ASSUME Base, Contents, \A i \in DOMAIN dhead : disk[dhead[i]] = dlog[i]
  PROVE  Recovered = disk
<1>1. ASSUME NEW b \in Blocks PROVE Recovered[b] = disk[b]
  <2>1. CASE b \in Range(dhead)
    <3>1. PICK i \in DOMAIN dhead : b = dhead[i] BY Zenon, <2>1 DEF Range
    <3> QED BY Zenon, <3>1, RecoveredIs
  <2>2. CASE b \notin Range(dhead) BY Zenon, <2>2, RecoveredIs
  <2> QED BY Zenon, <2>1, <2>2
<1> QED BY Zenon, <1>1, RecoveredIs DEF Base, TypeOK

\* install_trans() changes nothing of what recovery would leave.
LEMMA InstallRecovered ==
  ASSUME Base, InstallBlock, dhead = lh, dhead' = dhead,
         dlog' = dlog, tail + 1 \in DOMAIN lh
  PROVE  Recovered' = Recovered
<1>1. ASSUME NEW b \in Blocks PROVE Recovered'[b] = Recovered[b]
  <2>1. CASE b \in Range(dhead) BY <2>1 DEF Recovered
  <2>2. CASE b \notin Range(dhead)
    <3>1. b # lh[tail + 1] BY Zenon, <2>2 DEF Range
    <3>2. disk'[b] = disk[b] BY Zenon, <3>1 DEF InstallBlock, Base, TypeOK
    <3>3. Recovered[b] = disk[b] BY Zenon, <2>2 DEF Recovered
    <3>4. Recovered'[b] = disk'[b] BY Zenon, <2>2 DEF Recovered
    <3> QED BY Zenon, <3>2, <3>3, <3>4
  <2> QED BY Zenon, <2>1, <2>2
<1>2. Recovered = [b \in Blocks |-> Recovered[b]] BY DEF Recovered
<1>3. Recovered' = [b \in Blocks |-> Recovered'[b]] BY DEF Recovered
<1> QED BY Zenon, <1>1, <1>2, <1>3

\* Each step of log.c is a step of AtomicFs or changes nothing it shows.
LEMMA StepRefines == Base /\ Contents /\ Base' /\ Contents' /\ [Next]_vars => [Abstract!Next]_(Abstract!vars)
<1> SUFFICES ASSUME Base, Contents, Base', Contents', [Next]_vars
             PROVE  Abstract!Next \/ UNCHANGED Abstract!vars
  BY Zenon DEF Abstract!vars
<1> DEFINE mem == IF mode = "up" THEN cache ELSE Recovered
<1>0. ASSUME UNCHANGED <<disk, dlog, dhead>> PROVE Recovered' = Recovered BY <1>0 DEF Recovered
<1>1. ASSUME mem' = mem, Recovered' = Recovered, Active' = Active PROVE UNCHANGED Abstract!vars
  BY Zenon, <1>1 DEF Abstract!vars
<1>2. ASSUME NEW p \in Procs, Call(p) \/ BeginSleep(p) \/ KillWakes(p) \/ LogWrite(p) \/ Commit(p)
                                \/ EndCommit(p)
      PROVE UNCHANGED Abstract!vars
  <2>1. Active' = Active
    BY Zenon, <1>2 DEF Call, BeginSleep, KillWakes, LogWrite, Commit, EndCommit, Wakeup, Active, OpPcs,
         Base, TypeOK
  <2>2. UNCHANGED <<disk, dlog, dhead, cache, mode>>
    BY Zenon, <1>2 DEF Call, BeginSleep, KillWakes, LogWrite, Commit, EndCommit, diskVars
  <2> QED BY Zenon, <1>0, <1>1, <2>1, <2>2
<1>3. ASSUME NEW p \in Procs, BeginOp(p) PROVE Abstract!Begin(p)
  <2>1. p \notin Active /\ Active' = Active \cup {p} BY <1>3 DEF BeginOp, Active, OpPcs, Base, TypeOK
  <2>2. UNCHANGED <<disk, dlog, dhead, cache, mode>> BY Zenon, <1>3 DEF BeginOp, diskVars
  <2> QED BY Zenon, <1>0, <2>1, <2>2 DEF Abstract!Begin
<1>4. ASSUME NEW p \in Procs, NEW b \in Blocks, NEW v \in Vals, Modify(p, b, v)
      PROVE Abstract!Write(p, b, v)
  <2>1. p \in Active /\ Active' = Active BY Zenon, <1>4 DEF Modify, Active, OpPcs, Base, TypeOK
  <2>2. UNCHANGED <<disk, dlog, dhead, mode>> /\ mode = "up" BY Zenon, <1>4 DEF Modify, diskVars
  <2>3. cache' = [cache EXCEPT ![b] = v] BY Zenon, <1>4 DEF Modify
  <2> QED BY Zenon, <1>0, <2>1, <2>2, <2>3 DEF Abstract!Write
<1>5. ASSUME NEW b \in Blocks, Evict(b) PROVE UNCHANGED Abstract!vars
  <2>1. cache' = cache BY Zenon, <1>5, EvictSame
  <2>2. UNCHANGED <<disk, dlog, dhead, mode>> /\ Active' = Active
    BY Zenon, <1>5 DEF Evict, diskVars, opVars, Active
  <2> QED BY Zenon, <1>0, <1>1, <2>1, <2>2
<1>6. ASSUME NEW p \in Procs, EndOp(p) PROVE Abstract!End(p)
  <2>a. p \in Active BY Zenon, <1>6 DEF EndOp, Active, OpPcs
  <2>b. ~committing BY Zenon, <2>a DEF Base, Turns
  <2>1. p \in Active /\ Active' = Active \ {p}
    BY Zenon, <1>6, <2>a, <2>b DEF EndOp, Wakeup, Active, OpPcs, Base, TypeOK
  <2>2. UNCHANGED <<disk, dlog, dhead, cache, mode>> BY Zenon, <1>6 DEF EndOp, diskVars
  <2> QED BY Zenon, <1>0, <2>1, <2>2 DEF Abstract!End
<1>7. ASSUME NEW p \in Procs, WriteLog(p) PROVE UNCHANGED Abstract!vars
  <2>1. dhead = <<>> /\ dhead' = <<>>
    <3>1. \A q \in Procs : pc[q] \notin {"install", "clear"}
      BY Zenon, <1>7, OneCommitter DEF WriteLog, CommitPcs
    <3> QED BY Zenon, <1>7, <3>1 DEF WriteLog, Contents, Erased
  <2>2. UNCHANGED <<disk, cache, mode>> /\ Active' = Active
    BY Zenon, <1>7 DEF WriteLog, Active, OpPcs, Base, TypeOK
  <2>3. Recovered = disk BY <2>1, RecoveredDisk
  <2>4. Recovered' = disk'
    BY <2>1, <2>2 DEF Recovered, Range, Base, TypeOK
  <2> QED BY Zenon, <1>1, <2>2, <2>3, <2>4
<1>8. ASSUME NEW p \in Procs, WriteHead(p) PROVE Abstract!Commit
  <2>1. /\ mode = "up" /\ pc[p] = "write_head" /\ dhead' = lh
        /\ UNCHANGED <<disk, dlog, cache, lh, mode>>
    BY Zenon, <1>8 DEF WriteHead
  <2>2. Active = {} /\ Active' = {}
    BY Zenon, <1>8, <2>1 DEF WriteHead, Base, TypeOK, Turns, Active, CommitPcs, OpPcs
  <2>3. (\A q \in Procs : held[q] = None) /\ ~Installing
    BY Zenon, <2>1, OneCommitter DEF CommitPcs, Installing
  <2>4. ASSUME NEW b \in Blocks PROVE Recovered'[b] = cache[b]
    <3>1. CASE b \in Range(lh)
      <4>1. PICK i \in DOMAIN lh : lh[i] = b BY Zenon, <3>1 DEF Range
      <4>2. (CHOOSE j \in DOMAIN lh : lh[j] = b) = i BY Zenon, <4>1 DEF Contents, Absorbed, Distinct
      <4>3. Recovered'[b] = dlog[i] BY Zenon, <2>1, <3>1, <4>2 DEF Recovered
      <4>4. dlog[i] = cache[b] BY Zenon, <2>1, <4>1 DEF Contents, Copies
      <4> QED BY Zenon, <4>3, <4>4
    <3>2. CASE b \notin Range(lh)
      <4>1. Recovered'[b] = disk[b] BY Zenon, <2>1, <3>2 DEF Recovered
      <4>2. ~Pinned(b) BY Zenon, <3>2 DEF Pinned, Range
      <4>3. \A q \in Procs : held[q] # b BY Zenon, <2>3, LogConstants
      <4>4. cache[b] = disk[b] BY Zenon, <2>1, <4>2, <4>3 DEF Contents, Buffers
      <4> QED BY Zenon, <4>1, <4>4
    <3> QED BY Zenon, <3>1, <3>2
  <2>5. Recovered' = [b \in Blocks |-> Recovered'[b]] BY DEF Recovered
  <2>6. Recovered' = cache BY Zenon, <2>4, <2>5 DEF Base, TypeOK
  <2> QED BY Zenon, <2>1, <2>2, <2>6 DEF Abstract!Commit
<1>9. ASSUME NEW p \in Procs, InstallTrans(p) PROVE UNCHANGED Abstract!vars
  <2>1. cache' = cache /\ tail + 1 \in DOMAIN lh BY Zenon, <1>9, InstallSame
  <2>2. dhead = lh /\ InstallBlock /\ UNCHANGED <<dhead, dlog, mode>> /\ mode = "up"
    BY Zenon, <1>9 DEF InstallTrans, Base, Headers
  <2>3. Active' = Active BY Zenon, <1>9 DEF InstallTrans, Active, OpPcs, Base, TypeOK
  <2>4. Recovered' = Recovered BY Zenon, <2>1, <2>2, InstallRecovered
  <2> QED BY Zenon, <1>1, <2>1, <2>2, <2>3, <2>4
<1>10. ASSUME NEW p \in Procs, ClearHead(p) PROVE UNCHANGED Abstract!vars
  <2>1. UNCHANGED <<disk, cache, mode>> /\ dhead' = <<>> /\ pc[p] = "clear"
    BY Zenon, <1>10 DEF ClearHead, Base, Headers
  <2>2. Active' = Active BY Zenon, <1>10 DEF ClearHead, Active, OpPcs, Base, TypeOK
  <2>3. Recovered = disk BY Zenon, <2>1, RecoveredDisk DEF Contents, Copies
  <2>4. Recovered' = disk' BY <2>1 DEF Recovered, Range, Base, TypeOK
  <2> QED BY Zenon, <1>1, <2>1, <2>2, <2>3, <2>4
<1>11. ASSUME Crash PROVE Abstract!Crash
  <2>1. Active' = {} /\ mode' = "read_head" BY Zenon, <1>11 DEF Crash, Active, OpPcs
  <2>2. Recovered' = Recovered BY Zenon, <1>0, <1>11 DEF Crash, diskVars
  <2> QED BY Zenon, <2>1, <2>2 DEF Abstract!Crash
<1>12. ASSUME Recover PROVE UNCHANGED Abstract!vars
  <2>1. Active' = Active /\ mode # "up"
    BY Zenon, <1>12 DEF Recover, ReadHead, RecoverInstall, RecoverClear, opVars, Active
  <2>2. CASE ReadHead
    <3>1. Recovered' = Recovered /\ mode' # "up" BY Zenon, <1>0, <2>2 DEF ReadHead, diskVars
    <3> QED BY Zenon, <1>1, <2>1, <3>1
  <2>3. CASE RecoverInstall
    <3>1. dhead = lh /\ tail + 1 \in DOMAIN lh BY <2>3 DEF RecoverInstall, Base, TypeOK, Headers
    <3>2. Recovered' = Recovered BY Zenon, <2>3, <3>1, InstallRecovered DEF RecoverInstall
    <3>3. mode' # "up" BY Zenon, <2>1, <2>3 DEF RecoverInstall
    <3> QED BY Zenon, <1>1, <2>1, <3>2, <3>3
  <2>4. CASE RecoverClear
    <3>1. mode = "clear" /\ mode' = "up" /\ dhead' = <<>> /\ UNCHANGED <<disk, cache>>
      BY Zenon, <2>4 DEF RecoverClear, Base, Headers
    <3>2. Recovered = disk BY Zenon, <3>1, RecoveredDisk DEF Contents, Copies
    <3>3. Recovered' = disk' BY <3>1 DEF Recovered, Range, Base, TypeOK
    <3>4. cache = disk BY Zenon, <3>1 DEF Contents, Buffers
    <3> QED BY Zenon, <1>1, <2>1, <3>1, <3>2, <3>3, <3>4
  <2> QED BY Zenon, <1>12, <2>2, <2>3, <2>4 DEF Recover
<1>13. CASE UNCHANGED vars
  BY Zenon, <1>0, <1>1, <1>13 DEF vars, Active
<1> QED BY <1>2, <1>3, <1>4, <1>5, <1>6, <1>7, <1>8, <1>9, <1>10, <1>11, <1>12, <1>13
        DEF Next, CommitStep, Abstract!Next

\* Log starts where AtomicFs does.
LEMMA InitRefines == Init => Abstract!Init
<1> SUFFICES ASSUME Init PROVE Abstract!Init BY Zenon
<1>1. Active = {} BY Zenon DEF Init, Active, OpPcs
<1>2. Recovered = disk BY DEF Init, Recovered, Range
<1> QED BY Zenon, <1>1, <1>2 DEF Init, Abstract!Init
-----------------------------------------------------------------------------
(* Theorems *)

Library == INSTANCE FiniteSetTheorems
Orders == INSTANCE WellFoundedInduction

\* The library speaks of the same finite sets.
LEMMA SameFiniteSets ==
  /\ \A S : Library!Cardinality(S) = Cardinality(S)
  /\ \A S : Library!IsFiniteSet(S) <=> IsFiniteSet(S)
BY DEF Library!Cardinality, Cardinality, Library!IsFiniteSet, IsFiniteSet

\* The library proves the facts that the lemmas take as a hypothesis.
LEMMA FiniteSetsAreSo == FiniteSetFacts
<1> USE SameFiniteSets
<1>1. EmptyFact /\ CountFact
  BY Library!FS_EmptySet, Library!FS_CardinalityType DEF EmptyFact, CountFact
<1>2. SubsetFact BY Library!FS_Subset DEF SubsetFact
<1>3. AddFact BY Library!FS_AddElement DEF AddFact
<1>4. RemoveFact BY Library!FS_RemoveElement DEF RemoveFact
<1>5. IntervalFact BY Library!FS_Interval DEF IntervalFact
<1>6. ProductFact BY Library!FS_Product DEF ProductFact
<1>7. UnionFact BY Library!FS_Union DEF UnionFact
<1>8. InjectionFact
  <2>1. \A f, S, T : OneToOne(f, S, T) => f \in Library!Injection(S, T)
    BY DEF OneToOne, Library!Injection, Library!IsInjective
  <2> QED BY <2>1, Library!FS_Injection DEF InjectionFact
<1>9. LeastFact
  <2> SUFFICES ASSUME NEW S \in SUBSET Nat, S # {} PROVE \E x \in S : \A y \in S : x <= y
    BY Zenon DEF LeastFact
  <2>1. PICK x \in S : \A y \in S : <<y, x>> \notin Orders!OpToRel(<, Nat)
    BY Zenon, Orders!NatLessThanWellFounded, Orders!WFMin
  <2>2. \A y \in S : ~(y < x) BY Zenon, <2>1 DEF Orders!OpToRel
  <2>3. \A y \in S : x <= y BY <2>2
  <2> QED BY Zenon, <2>3
<1> QED
  BY Zenon, <1>1, <1>2, <1>3, <1>4, <1>5, <1>6, <1>7, <1>8, <1>9 DEF FiniteSetFacts

\* Base is an invariant.
LEMMA BaseInv == Spec => []Base
<1>1. Init => Base BY Zenon, FiniteSetsAreSo, BaseInit
<1>2. Base /\ [Next]_vars => Base' BY Zenon, FiniteSetsAreSo, BaseNext
<1> QED BY <1>1, <1>2, PTL DEF Spec

\* Only install_trans() writes home blocks, and it does so while the on-disk header
\* names the block and the log holds the copy, in commit() and in recovery alike.
THEOREM WriteAheadRule == Spec => WriteAhead
<1>1. Base /\ [Next]_vars => [FromLog]_vars BY Zenon, WriteAheadNext
<1> QED BY <1>1, BaseInv, PTL DEF Spec, WriteAhead, FromLog

\* However many processes share the log, and whatever it is sized for, operations that
\* keep to WithinBudget's number of blocks never make log_write() or end_op() panic.
THEOREM LogNeverOverflows ==
  ASSUME WithinBudget
  PROVE  Spec => []NoPanic
<1> DEFINE IInv == Base /\ Budget /\ Space /\ ~panicked
<1>1. Init => IInv
  <2> SUFFICES ASSUME Init PROVE IInv BY Zenon
  <2>1. Active = {} BY Zenon DEF Init, Active, OpPcs
  <2>2. Budget BY Zenon, <2>1 DEF Budget
  <2>3. Space BY Zenon, <2>1 DEF Space
  <2>4. ~panicked BY Zenon DEF Init
  <2> QED BY Zenon, FiniteSetsAreSo, BaseInit, <2>2, <2>3, <2>4
<1>2. Base' /\ IInv /\ [Next]_vars => IInv' BY Zenon, FiniteSetsAreSo, SpaceNext
<1>3. IInv => NoPanic BY Zenon DEF NoPanic
<1> QED BY <1>1, <1>2, <1>3, BaseInv, PTL DEF Spec

\* The log implements AtomicFs: what survives a crash, at any moment, is the whole
\* contents of a moment with no operation in progress.
THEOREM LogImplementsAtomicFs == Spec => ImplementsAtomicFs
<1>1. Init => Abstract!Init BY Zenon, InitRefines
<1>2. Init => Contents BY Zenon, ContentsInit
<1>3. Base /\ Contents /\ [Next]_vars => Contents' BY Zenon, ContentsNext
<1>4. Base /\ Contents /\ Base' /\ Contents' /\ [Next]_vars => [Abstract!Next]_(Abstract!vars)
  BY Zenon, StepRefines
<1> QED
  BY <1>1, <1>2, <1>3, <1>4, BaseInv, PTL DEF Spec, ImplementsAtomicFs, Abstract!Spec
=============================================================================
