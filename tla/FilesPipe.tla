------------------------------ MODULE FilesPipe -----------------------------
(***************************************************************************)
(* The steps of pipewrite() and piperead(): what they do to the ring       *)
(* buffer, that they keep the invariant of FilesInv, and what they do to   *)
(* the sequence of bytes it holds. The counters wrap at WRAP, a multiple   *)
(* of PIPESIZE, so the place of a byte does not depend on it.              *)
(***************************************************************************)
EXTENDS FilesInv, TLAPS

(* Arithmetic of the counters. *)

\* A counter below the modulus is its own remainder.
LEMMA ModSmall == ASSUME NEW m \in Nat \ {0}, NEW a \in 0..m - 1 PROVE a % m = a
OBVIOUS

\* A counter that wrapped once loses the modulus.
LEMMA ModOnce ==
  ASSUME NEW m \in Nat \ {0}, NEW a \in Int, NEW b \in 0..m - 1, a = b + m PROVE a % m = b
OBVIOUS

\* A remainder is below the modulus.
LEMMA ModRange == ASSUME NEW m \in Nat \ {0}, NEW a \in Nat PROVE a % m \in 0..m - 1
OBVIOUS

\* Quotient and remainder.
LEMMA DivMod ==
  ASSUME NEW m \in Nat \ {0}, NEW a \in Nat PROVE \E q \in Nat : a = q * m + (a % m)
<1>1. a \div m \in Nat OBVIOUS
<1>2. a = (a \div m) * m + (a % m) OBVIOUS
<1> QED BY Zenon, <1>1, <1>2

\* The remainder of a sum in quotient form.
LEMMA ModOf ==
  ASSUME NEW m \in Nat \ {0}, NEW q \in Nat, NEW r \in 0..m - 1 PROVE (q * m + r) % m = r
OBVIOUS

\* Fewer than PIPESIZE places apart, two bytes do not share a place.
LEMMA ModApart ==
  ASSUME NEW m \in Nat \ {0}, NEW a \in Nat, NEW b \in Nat, a < b, b < a + m
  PROVE  a % m # b % m
<1> SUFFICES ASSUME a % m = b % m PROVE FALSE OBVIOUS
<1>1. PICK q \in Nat : a = q * m + (a % m) BY Zenon, DivMod
<1>2. PICK s \in Nat : b = s * m + (b % m) BY Zenon, DivMod
<1>3. a % m \in Nat BY ModRange
<1> DEFINE d == s - q
<1>4. b - a = d * m BY <1>1, <1>2, <1>3
<1>5. d \in Int OBVIOUS
<1> HIDE DEF d
<1>6. d > 0 BY <1>4, <1>5
<1>7. d < 1 BY <1>4, <1>5
<1> QED BY <1>5, <1>6, <1>7
-----------------------------------------------------------------------------
(* The number of bytes in a pipe. *)

\* What the constants give: counters wrap, later than the buffer is full.
LEMMA WrapOK == WRAP \in Nat \ {0} /\ PIPESIZE \in Nat \ {0} /\ PIPESIZE < WRAP
BY PipeConstants

\* PIPESIZE divides WRAP: a counter modulo WRAP finds the same place of data.
LEMMA Place ==
  ASSUME NEW a \in Nat, NEW b \in Nat
  PROVE  ((a % WRAP) + b) % PIPESIZE = (a + b) % PIPESIZE
<1> USE WrapOK
<1>1. PICK c \in Nat : WRAP = c * PIPESIZE
  <2>1. PICK c \in Nat : WRAP = c * PIPESIZE + (WRAP % PIPESIZE) BY Zenon, DivMod
  <2> QED BY <2>1, PipeConstants
<1>2. PICK q \in Nat : a = q * WRAP + (a % WRAP) BY Zenon, DivMod
<1> DEFINE e == (a % WRAP) + b
<1>3. a % WRAP \in Nat BY ModRange
<1>4. e \in Nat BY <1>3
<1>5. PICK s \in Nat : e = s * PIPESIZE + (e % PIPESIZE) BY Zenon, <1>4, DivMod
<1>6. a + b = q * WRAP + e BY <1>2, <1>3
<1>7. q * WRAP = (q * c) * PIPESIZE BY <1>1
<1>8. e % PIPESIZE \in 0..PIPESIZE - 1 BY <1>4, ModRange
<1>9. a + b = (q * c + s) * PIPESIZE + (e % PIPESIZE) BY <1>5, <1>6, <1>7, <1>8, <1>4
<1>10. q * c + s \in Nat OBVIOUS
<1> HIDE DEF e
<1>11. ((q * c + s) * PIPESIZE + (e % PIPESIZE)) % PIPESIZE = e % PIPESIZE BY Zenon, <1>8, <1>10, ModOf
<1>12. (a + b) % PIPESIZE = e % PIPESIZE BY <1>9, <1>11
<1> QED BY <1>12 DEF e

\* nwrite - nread modulo WRAP, with and without a wrapped counter.
LEMMA RingCount ==
  ASSUME NEW r \in Ring, NEW n \in Ring, NEW c, c = (n + WRAP - r) % WRAP
  PROVE  /\ c \in Nat /\ c = IF n >= r THEN n - r ELSE n + WRAP - r
         /\ c = 0 <=> n = r
         /\ c = PIPESIZE <=> n = (r + PIPESIZE) % WRAP
<1> USE WrapOK DEF Ring
<1>1. ASSUME n >= r PROVE (n + WRAP - r) % WRAP = n - r
  <2>1. n - r \in 0..WRAP - 1 /\ n + WRAP - r = (n - r) + WRAP /\ n + WRAP - r \in Int BY <1>1
  <2> QED BY <2>1, ModOnce
<1>2. ASSUME n < r PROVE (n + WRAP - r) % WRAP = n + WRAP - r BY <1>2, ModSmall
<1>3. c = IF n >= r THEN n - r ELSE n + WRAP - r BY <1>1, <1>2
<1>4. c \in Nat /\ (c = 0 <=> n = r) BY <1>3
<1>5. ASSUME r + PIPESIZE < WRAP PROVE c = PIPESIZE <=> n = (r + PIPESIZE) % WRAP
  <2>1. (r + PIPESIZE) % WRAP = r + PIPESIZE BY <1>5, ModSmall
  <2> QED BY <2>1, <1>3, <1>5
<1>6. ASSUME r + PIPESIZE >= WRAP PROVE c = PIPESIZE <=> n = (r + PIPESIZE) % WRAP
  <2> DEFINE b == r + PIPESIZE - WRAP
  <2>1. b \in 0..WRAP - 1 /\ r + PIPESIZE = b + WRAP /\ r + PIPESIZE \in Int BY <1>6
  <2>2. (r + PIPESIZE) % WRAP = b BY <2>1, ModOnce
  <2> QED BY <2>2, <1>3, <1>6
<1> QED BY <1>3, <1>4, <1>5, <1>6

\* The tests of pipewrite() and piperead() are tests of that number.
LEMMA CountIs ==
  ASSUME Types, NEW i \in Pipes
  PROVE  LET r == pipe[i].nread
             n == pipe[i].nwrite
         IN  /\ r \in Ring /\ n \in Ring /\ Count(i) \in Nat
             /\ Count(i) = IF n >= r THEN n - r ELSE n + WRAP - r
             /\ IsEmpty(i) <=> Count(i) = 0
             /\ Full(i) <=> Count(i) = PIPESIZE
<1>1. pipe[i].nread \in Ring /\ pipe[i].nwrite \in Ring BY DEF Types, PipeRec
<1> QED BY <1>1, RingCount DEF Count, IsEmpty, Full

\* pi->nwrite++ and pi->nread++ change it by one, and stay unsigned.
LEMMA Advance ==
  ASSUME NEW r \in Ring, NEW n \in Ring, NEW c \in Nat,
         c = IF n >= r THEN n - r ELSE n + WRAP - r
  PROVE  /\ c + 1 < WRAP => (((n + 1) % WRAP) + WRAP - r) % WRAP = c + 1
         /\ \A k \in 0..c : (n + WRAP - ((r + k) % WRAP)) % WRAP = c - k
         /\ n = (r + c) % WRAP
<1> USE WrapOK DEF Ring
<1>1. ASSUME c + 1 < WRAP PROVE (((n + 1) % WRAP) + WRAP - r) % WRAP = c + 1
  <2>1. CASE n + 1 < WRAP
    <3>1. (n + 1) % WRAP = n + 1 BY <2>1, ModSmall
    <3>2. CASE n >= r
      <4>1. c + 1 \in 0..WRAP - 1 /\ n + 1 + WRAP - r = (c + 1) + WRAP /\ n + 1 + WRAP - r \in Int
        BY <3>2, <1>1
      <4> QED BY <3>1, <4>1, ModOnce
    <3>3. CASE n < r
      <4>1. n + 1 + WRAP - r \in 0..WRAP - 1 BY <3>3, <1>1, <2>1
      <4> QED BY <3>1, <4>1, <3>3, ModSmall
    <3> QED BY <3>2, <3>3
  <2>2. CASE n + 1 = WRAP
    <3>1. (n + 1) % WRAP = 0 BY <2>2, ModOnce
    <3>2. n >= r /\ WRAP - r \in 0..WRAP - 1 BY <2>2, <1>1
    <3> QED BY <3>1, <3>2, <2>2, ModSmall
  <2> QED BY <2>1, <2>2
<1>2. ASSUME NEW k \in 0..c PROVE (n + WRAP - ((r + k) % WRAP)) % WRAP = c - k
  <2>1. CASE r + k < WRAP
    <3>1. (r + k) % WRAP = r + k BY <2>1, ModSmall
    <3>2. CASE n >= r
      <4>1. c - k \in 0..WRAP - 1 /\ n + WRAP - (r + k) = (c - k) + WRAP /\ n + WRAP - (r + k) \in Int
        BY <3>2
      <4> QED BY <4>1, <3>1, ModOnce
    <3>3. CASE n < r
      <4>1. n + WRAP - (r + k) \in 0..WRAP - 1 /\ n + WRAP - (r + k) = c - k BY <3>3
      <4>2. (n + WRAP - (r + k)) % WRAP = c - k BY <4>1, ModSmall
      <4> QED BY <4>2, <3>1
    <3> QED BY <3>2, <3>3
  <2>2. CASE r + k >= WRAP
    <3> DEFINE s == r + k - WRAP
    <3>1. n < r BY <2>2
    <3>2. s \in 0..WRAP - 1 /\ r + k = s + WRAP /\ r + k \in Int BY <2>2, <3>1
    <3>3. (r + k) % WRAP = s BY <3>2, ModOnce
    <3>4. c - k \in 0..WRAP - 1 /\ n + WRAP - s = (c - k) + WRAP /\ n + WRAP - s \in Int
      BY <3>1, <3>2
    <3>5. (n + WRAP - s) % WRAP = c - k BY <3>4, ModOnce
    <3> QED BY <3>3, <3>5
  <2> QED BY <2>1, <2>2
<1>3. n = (r + c) % WRAP
  <2>1. CASE n >= r BY <2>1, ModSmall
  <2>2. CASE n < r BY <2>2, ModOnce
  <2> QED BY <2>1, <2>2
<1> QED BY <1>1, <1>2, <1>3
\* wakeup() moves exactly the sleepers on its channel.
LEMMA WakeupOK ==
  ASSUME Types, NEW i, NEW l, NEW to \in Pcs
  PROVE  /\ Wakeup(pc, i, l, to) \in [Procs -> Pcs]
         /\ \A q \in Procs : Wakeup(pc, i, l, to)[q] = IF pc[q] = l /\ io[q] = i THEN to ELSE pc[q]
BY DEF Wakeup, Types

\* The pipe after a byte was put in, and after some were taken out.
LEMMA PutOK ==
  ASSUME Types, InCall, NEW p \in Procs, NEW v \in Vals, WriteByte(p, v)
  PROVE  /\ io[p] \in Pipes /\ pipe' \in [Pipes -> PipeRec]
         /\ \A j \in Pipes \ {io[p]} : pipe'[j] = pipe[j]
         /\ pipe'[io[p]].data = [pipe[io[p]].data EXCEPT ![pipe[io[p]].nwrite % PIPESIZE] = v]
         /\ pipe'[io[p]].nwrite = (pipe[io[p]].nwrite + 1) % WRAP
         /\ pipe'[io[p]].nread = pipe[io[p]].nread
         /\ pipe'[io[p]].readopen = pipe[io[p]].readopen
         /\ pipe'[io[p]].writeopen = pipe[io[p]].writeopen
         /\ pipe'[io[p]].free = pipe[io[p]].free
<1> DEFINE i == io[p]
           n == pipe[i].nwrite
           rec == [pipe[i] EXCEPT !.data[n % PIPESIZE] = v, !.nwrite = (@ + 1) % WRAP]
<1>0. i \in Pipes BY Zenon DEF InCall, WriteByte, InPipe
<1>1. pipe[i] \in PipeRec /\ n \in Ring /\ DOMAIN pipe = Pipes BY <1>0 DEF Types, PipeRec
<1>2. (n + 1) % WRAP \in Ring
  <2>1. n + 1 \in Nat BY <1>1 DEF Ring
  <2> QED BY Zenon, <2>1, ModRange, WrapOK DEF Ring
<1>3. rec.data = [pipe[i].data EXCEPT ![n % PIPESIZE] = v]
  BY <1>1 DEF PipeRec
<1>4. /\ rec.nwrite = (n + 1) % WRAP /\ rec.nread = pipe[i].nread
      /\ rec.readopen = pipe[i].readopen /\ rec.writeopen = pipe[i].writeopen
      /\ rec.free = pipe[i].free
  BY <1>1 DEF PipeRec
<1>5. rec \in PipeRec
  <2>1. pipe[i].data \in [0..PIPESIZE - 1 -> Vals \cup {None}] BY <1>1 DEF PipeRec
  <2>2. [pipe[i].data EXCEPT ![n % PIPESIZE] = v] \in [0..PIPESIZE - 1 -> Vals \cup {None}]
    BY Zenon, <2>1
  <2> QED BY Zenon, <2>2, <1>1, <1>2 DEF PipeRec
<1>6. pipe' = [pipe EXCEPT ![i] = rec] BY Zenon, <1>0, <1>1 DEF WriteByte
<1> HIDE DEF rec, n, i
<1>7. pipe' \in [Pipes -> PipeRec] BY <1>0, <1>5, <1>6 DEF Types
<1>8. pipe'[i] = rec /\ \A j \in Pipes \ {i} : pipe'[j] = pipe[j] BY <1>0, <1>1, <1>6
<1> QED BY <1>0, <1>3, <1>4, <1>7, <1>8 DEF i, n

\* What copying k bytes out changes in the pipe.
LEMMA TakeOK ==
  ASSUME Types, InCall, NEW p \in Procs, NEW k \in 0..PIPESIZE, NEW lost \in 0..1,
         ReadCopy(p, k, lost)
  PROVE  /\ io[p] \in Pipes /\ pipe' \in [Pipes -> PipeRec]
         /\ \A j \in Pipes \ {io[p]} : pipe'[j] = pipe[j]
         /\ \A x \in 0..PIPESIZE - 1 :
              x \notin Taken(io[p], k + lost) => pipe'[io[p]].data[x] = pipe[io[p]].data[x]
         /\ pipe'[io[p]].nread = (pipe[io[p]].nread + (k + lost)) % WRAP
         /\ pipe'[io[p]].nwrite = pipe[io[p]].nwrite
         /\ pipe'[io[p]].readopen = pipe[io[p]].readopen
         /\ pipe'[io[p]].writeopen = pipe[io[p]].writeopen
         /\ pipe'[io[p]].free = pipe[io[p]].free
<1> DEFINE i == io[p]
           d == [x \in DOMAIN pipe[i].data |-> IF x \in Taken(i, k + lost)
                                               THEN None ELSE pipe[i].data[x]]
           rec == [pipe[i] EXCEPT !.nread = (@ + k + lost) % WRAP, !.data = d]
<1>0. i \in Pipes BY Zenon DEF InCall, ReadCopy, InPipe
<1>1. /\ pipe[i] \in PipeRec /\ pipe[i].nread \in Nat /\ DOMAIN pipe = Pipes
      /\ pipe[i].data \in [0..PIPESIZE - 1 -> Vals \cup {None}] BY <1>0 DEF Types, PipeRec, Ring
<1>2. /\ (pipe[i].nread + k + lost) % WRAP \in Ring
      /\ (pipe[i].nread + k + lost) % WRAP = (pipe[i].nread + (k + lost)) % WRAP
  <2>1. /\ pipe[i].nread + k + lost \in Nat
        /\ pipe[i].nread + k + lost = pipe[i].nread + (k + lost) BY <1>1
  <2> QED BY Zenon, <2>1, ModRange, WrapOK DEF Ring
<1>3. /\ d \in [0..PIPESIZE - 1 -> Vals \cup {None}]
      /\ \A x \in 0..PIPESIZE - 1 : x \notin Taken(i, k + lost) => d[x] = pipe[i].data[x]
  BY Zenon, <1>1
<1>4. pipe' = [pipe EXCEPT ![i] = rec] BY Zenon, <1>0, <1>1 DEF ReadCopy
<1> HIDE DEF d
<1>5. /\ rec.data = d /\ rec.nread = (pipe[i].nread + k + lost) % WRAP
      /\ rec.nwrite = pipe[i].nwrite
      /\ rec.readopen = pipe[i].readopen /\ rec.writeopen = pipe[i].writeopen
      /\ rec.free = pipe[i].free
  BY <1>1 DEF PipeRec
<1>6. rec \in PipeRec BY Zenon, <1>1, <1>2, <1>3 DEF PipeRec
<1> HIDE DEF rec, i
<1>7. pipe' \in [Pipes -> PipeRec] BY <1>0, <1>4, <1>6 DEF Types
<1>8. pipe'[i] = rec /\ \A j \in Pipes \ {i} : pipe'[j] = pipe[j] BY <1>0, <1>1, <1>4
<1> QED BY Zenon, <1>0, <1>2, <1>3, <1>5, <1>7, <1>8 DEF i

-----------------------------------------------------------------------------
(* Steps inside pipewrite() and piperead() *)

\* Such a step leaves files and the flags of pipes alone, and moves a process from a
\* read or a write only to another point of the same call, or out of it.
Moves(p, q) ==
  \/ pc'[q] = pc[q] /\ io'[q] = io[q] /\ (pc[q] # "wloop" => left'[q] = left[q])
  \/ /\ pc[q] \in InPipe /\ pc'[q] \in InPipe /\ io'[q] = io[q]
     /\ left'[q] = left[q] /\ left[q] > 0
     /\ pc[q] \in Writing <=> pc'[q] \in Writing
     /\ pc'[q] = "wloop" => q = p /\ LockFree(io[p])
  \/ pc[q] \in InPipe /\ pc'[q] \in {"user", "ret"}

Within ==
  /\ UNCHANGED fileVars
  /\ \A i \in Pipes : /\ pipe'[i].readopen = pipe[i].readopen
                      /\ pipe'[i].writeopen = pipe[i].writeopen
                      /\ pipe'[i].free = pipe[i].free
  /\ \E p \in Procs : \A q \in Procs : Moves(p, q)

\* Every step of pipewrite() and piperead() is one of them.
LEMMA PipeWithin ==
  ASSUME Types, InCall, NEW p \in Procs, PipeStep(p), UNCHANGED fileVars
  PROVE  Types' /\ Within
<1> DEFINE PT == /\ pipe' \in [Pipes -> PipeRec]
                 /\ killed' \in [Procs -> BOOLEAN]
                 /\ pc' \in [Procs -> Pcs]
                 /\ io' \in [Procs -> Pipes \cup {None}]
                 /\ left' \in [Procs -> Nat]
                 /\ got' \in [Procs -> Seq(Vals \cup {None}) \cup {None}]
           ST == stale' \in [Pipes -> BOOLEAN]
           Flags == \A i \in Pipes : /\ pipe'[i].readopen = pipe[i].readopen
                                     /\ pipe'[i].writeopen = pipe[i].writeopen
                                     /\ pipe'[i].free = pipe[i].free
<1>a. /\ DOMAIN pc = Procs /\ pc[p] \in Pcs /\ left[p] \in Nat
      /\ DOMAIN io = Procs /\ DOMAIN left = Procs BY DEF Types
<1>b. \A q \in Procs : pc[q] \in InPipe /\ pc[q] # "wloop" => left[q] > 0 BY Zenon DEF InCall
<1>c. ASSUME PT, ST, Flags, \A q \in Procs : Moves(p, q) PROVE Types' /\ Within
  <2>1. /\ ref' = ref /\ file' = file /\ ofile' = ofile /\ ff' = ff /\ fpanic' = fpanic
    BY DEF fileVars
  <2>2. Types' BY Zenon, <1>c, <2>1 DEF Types
  <2>3. Within BY Zenon, <1>c DEF Within
  <2> QED BY <2>2, <2>3
<1>1. CASE WriteLock(p)
  <2>1. PT BY <1>1 DEF WriteLock, Goto, Types, Pcs
  <2>2. Flags BY <1>1 DEF WriteLock
  <2>3. \A q \in Procs : Moves(p, q) BY <1>1, <1>a, <1>b DEF Moves, WriteLock, Goto, InPipe, Writing
  <2>s. ST BY Zenon, <1>1 DEF WriteLock, Types
  <2> QED BY Zenon, <2>1, <2>2, <2>3, <2>s, <1>c
<1>2. CASE WriteAbort(p)
  <2>1. PT BY <1>2 DEF WriteAbort, Finish, Goto, Types, Pcs
  <2>2. Flags BY <1>2 DEF WriteAbort
  <2>3. \A q \in Procs : Moves(p, q) BY <1>2, <1>a DEF Moves, WriteAbort, Goto, InPipe, Finish
  <2>s. ST BY Zenon, <1>2 DEF WriteAbort, IsEmpty, Types
  <2> QED BY Zenon, <2>1, <2>2, <2>3, <2>s, <1>c
<1>3. CASE WriteSleep(p)
  <2>1. pc' = [Wakeup(pc, io[p], "rsleep", "read") EXCEPT ![p] = "wsleep"] /\ pc[p] = "wloop"
    BY <1>3 DEF WriteSleep, WakeReaders
  <2>p. pc' \in [Procs -> Pcs] BY <2>1, WakeupOK DEF Pcs
  <2>2. PT BY <1>3, <2>p DEF WriteSleep, Types
  <2>3. Flags BY <1>3 DEF WriteSleep
  <2>4. ASSUME NEW q \in Procs PROVE Moves(p, q)
    <3>1. pc'[q] = IF q = p THEN "wsleep"
                   ELSE IF pc[q] = "rsleep" /\ io[q] = io[p] THEN "read" ELSE pc[q]
      BY <2>1, WakeupOK DEF Pcs
    <3> QED BY <3>1, <2>1, <1>3, <1>b DEF Moves, WriteSleep, InPipe, Writing
  <2>s. ST BY Zenon, <1>3 DEF WriteSleep, Types
  <2> QED BY Zenon, <2>2, <2>3, <2>4, <2>s, <1>c
<1>4. CASE WriteDone(p)
  <2>1. pc' = [Wakeup(pc, io[p], "rsleep", "read") EXCEPT ![p] = "user"] /\ pc[p] = "wloop"
    BY <1>4 DEF WriteDone, WakeReaders
  <2>p. pc' \in [Procs -> Pcs] BY <2>1, WakeupOK DEF Pcs
  <2>2. PT BY <1>4, <2>p DEF WriteDone, Finish, Types
  <2>3. Flags BY <1>4 DEF WriteDone
  <2>4. ASSUME NEW q \in Procs PROVE Moves(p, q)
    <3>1. pc'[q] = IF q = p THEN "user"
                   ELSE IF pc[q] = "rsleep" /\ io[q] = io[p] THEN "read" ELSE pc[q]
      BY <2>1, WakeupOK DEF Pcs
    <3>2. q # p => io'[q] = io[q] /\ left'[q] = left[q] BY <1>4, <1>a DEF WriteDone, Finish
    <3> QED BY <3>1, <3>2, <2>1, <1>b DEF Moves, InPipe, Writing
  <2>s. ST BY Zenon, <1>4 DEF WriteDone, Types
  <2> QED BY Zenon, <2>2, <2>3, <2>4, <2>s, <1>c
<1>5. CASE ReadSleep(p)
  <2>1. PT BY <1>5 DEF ReadSleep, Goto, Types, Pcs
  <2>2. Flags BY <1>5 DEF ReadSleep
  <2>3. \A q \in Procs : Moves(p, q) BY <1>5, <1>a, <1>b DEF Moves, ReadSleep, Goto, InPipe, Writing
  <2>s. ST BY Zenon, <1>5 DEF ReadSleep, Types
  <2> QED BY Zenon, <2>1, <2>2, <2>3, <2>s, <1>c
<1>6. CASE ReadAbort(p)
  <2>1. PT BY <1>6 DEF ReadAbort, Finish, Goto, Types, Pcs
  <2>2. Flags BY <1>6 DEF ReadAbort
  <2>3. \A q \in Procs : Moves(p, q) BY <1>6, <1>a DEF Moves, ReadAbort, Goto, InPipe, Finish
  <2>s. ST BY Zenon, <1>6 DEF ReadAbort, Types
  <2> QED BY Zenon, <2>1, <2>2, <2>3, <2>s, <1>c
<1>7. CASE Kill(p)
  <2>1. pc' = [pc EXCEPT ![p] = CASE pc[p] = "rsleep" -> "read" [] pc[p] = "wsleep" -> "write"
                                [] OTHER -> pc[p]]
    BY <1>7 DEF Kill
  <2>2. pc'[p] = IF pc[p] = "rsleep" THEN "read" ELSE IF pc[p] = "wsleep" THEN "write" ELSE pc[p]
    BY <2>1, <1>a
  <2>3. \A q \in Procs \ {p} : pc'[q] = pc[q] BY <2>1, <1>a
  <2>4. pc' \in [Procs -> Pcs] BY <2>1, <2>2, <1>a DEF Types, Pcs
  <2>5. PT BY <1>7, <2>4 DEF Kill, Types
  <2>6. Flags BY <1>7 DEF Kill
  <2>7. \A q \in Procs : Moves(p, q) BY <1>7, <2>2, <2>3, <1>b DEF Moves, Kill, InPipe, Writing
  <2>s. ST BY Zenon, <1>7 DEF Kill, Types
  <2> QED BY Zenon, <2>5, <2>6, <2>7, <2>s, <1>c
<1>8. ASSUME NEW v \in Vals, WriteByte(p, v) PROVE Types' /\ Within
  <2>3. pipe' \in [Pipes -> PipeRec] /\ Flags BY ZenonT(60), <1>8, PutOK
  <2>4. PT BY <1>8, <2>3 DEF WriteByte, Types
  <2>5. \A q \in Procs : Moves(p, q) BY <1>8, <1>a DEF Moves, WriteByte
  <2>s. ST BY Zenon, <1>8 DEF WriteByte, Types
  <2> QED BY Zenon, <2>3, <2>4, <2>5, <2>s, <1>c
<1>9. ASSUME NEW k \in 0..PIPESIZE, NEW lost \in 0..1, ReadCopy(p, k, lost)
      PROVE  Types' /\ Within
  <2>3. pipe' \in [Pipes -> PipeRec] /\ Flags BY ZenonT(60), <1>9, TakeOK
  <2>4. pc' = [Wakeup(pc, io[p], "wsleep", "write") EXCEPT ![p] = "ret"] /\ pc[p] = "read"
    BY <1>9 DEF ReadCopy, WakeWriters
  <2>p. pc' \in [Procs -> Pcs] BY <2>4, WakeupOK DEF Pcs
  <2>g. got' \in [Procs -> Seq(Vals \cup {None}) \cup {None}]
    <3>1. PICK i \in Pipes : i = io[p] BY Zenon, <1>9, TakeOK
    <3> DEFINE at(j) == (pipe[i].nread + j - 1) % PIPESIZE
               bytes == [j \in 1..k |-> pipe[i].data[at(j)]]
    <3>2. pipe[i].data \in [0..PIPESIZE - 1 -> Vals \cup {None}] /\ pipe[i].nread \in Nat
      BY WrapOK DEF Types, PipeRec, Ring
    <3>3. ASSUME NEW j \in 1..k PROVE at(j) \in 0..PIPESIZE - 1
      <4>1. pipe[i].nread + j - 1 \in Nat BY <3>2
      <4> QED BY Zenon, <4>1, WrapOK, ModRange
    <3>4. got' = [got EXCEPT ![p] = bytes] BY <1>9, <3>1 DEF ReadCopy
    <3> HIDE DEF at
    <3>5. \A j \in 1..k : pipe[i].data[at(j)] \in Vals \cup {None} BY Zenon, <3>2, <3>3
    <3>6. k \in Nat BY WrapOK
    <3>7. bytes \in Seq(Vals \cup {None}) BY <3>5, <3>6
    <3> HIDE DEF bytes
    <3> QED BY <3>4, <3>7 DEF Types
  <2>5. PT BY Zenon, <1>9, <2>3, <2>p, <2>g DEF ReadCopy, Finish, Types
  <2>6. ASSUME NEW q \in Procs PROVE Moves(p, q)
    <3>1. pc'[q] = IF q = p THEN "ret"
                   ELSE IF pc[q] = "wsleep" /\ io[q] = io[p] THEN "write" ELSE pc[q]
      BY <2>4, WakeupOK DEF Pcs
    <3>2. q # p => io'[q] = io[q] /\ left'[q] = left[q] BY <1>9, <1>a DEF ReadCopy, Finish
    <3> QED BY <3>1, <3>2, <2>4, <1>b DEF Moves, InPipe, Writing
  <2>s. ST BY Zenon, <1>9 DEF ReadCopy, Types
  <2> QED BY Zenon, <2>3, <2>5, <2>6, <2>s, <1>c
<1> QED BY Zenon, <1>1, <1>2, <1>3, <1>4, <1>5, <1>6, <1>7, <1>8, <1>9 DEF PipeStep

\* So it keeps what relates files, descriptors and calls.
LEMMA WithinKeeps ==
  ASSUME Types, Types', Within, Counted, Held, Fresh, Typed, Single, OpenEnds, InCall, OneWriter
  PROVE  /\ Counted' /\ Held' /\ Fresh' /\ Typed' /\ Single' /\ OpenEnds' /\ InCall'
         /\ OneWriter'
<1>1. ref' = ref /\ file' = file /\ ofile' = ofile /\ ff' = ff BY DEF Within, fileVars
<1>2. PICK p \in Procs : \A q \in Procs : Moves(p, q) BY Zenon DEF Within
<1>3. \A q \in Procs : pc'[q] \in {"file1", "kalloc", "close", "exit", "dead"} <=>
                       pc[q] \in {"file1", "kalloc", "close", "exit", "dead"}
  BY <1>2 DEF Moves, InPipe
<1>4. \A q \in Procs : pc'[q] # pc[q] => pc[q] \in InPipe /\ pc'[q] \in InPipe \cup {"user", "ret"}
  BY <1>2 DEF Moves
<1>5. Counted' BY Zenon, <1>1 DEF Counted, Refs
<1>6. Held'
  <2> SUFFICES ASSUME NEW q \in Procs PROVE Held!(q)' BY Zenon DEF Held
  <2> QED BY <1>1, <1>4 DEF Held, InPipe
<1>7. Fresh' BY <1>1, <1>4 DEF Fresh, InPipe
<1>8. Typed' /\ Single' BY Zenon, <1>1 DEF Typed, Single
<1>9. OpenEnds'
  <2>1. \A i \in Pipes, w \in BOOLEAN : Live(i, w)' = Live(i, w) BY Zenon, <1>1 DEF Live
  <2> QED BY Zenon, <2>1 DEF OpenEnds, Within
<1>10. ASSUME NEW q \in Procs, pc'[q] \in InPipe
       PROVE  /\ io'[q] \in Pipes
              /\ pc'[q] # "wloop" => left'[q] > 0
              /\ \E fd \in Fds : /\ ofile'[q][fd] # None
                                 /\ file'[ofile'[q][fd]] = IF pc'[q] \in Writing THEN PipeEnd(io'[q], TRUE)
                                                                       ELSE PipeEnd(io'[q], FALSE)
  <2>1. /\ pc[q] \in InPipe /\ io'[q] = io[q]
        /\ pc[q] \in Writing <=> pc'[q] \in Writing
        /\ pc'[q] # "wloop" => left'[q] = left[q] /\ left[q] > 0
    BY Zenon, <1>10, <1>2 DEF Moves, InPipe, InCall
  <2> QED BY Zenon, <2>1, <1>1 DEF InCall
<1>11. InCall' BY Zenon, <1>10 DEF InCall
<1>12. OneWriter'
  <2> SUFFICES ASSUME NEW q \in Procs, NEW r \in Procs,
                      pc'[q] = "wloop", pc'[r] = "wloop", io'[q] = io'[r]
               PROVE  q = r
    BY Zenon DEF OneWriter
  <2>1. \A s \in Procs : pc'[s] = "wloop" => io'[s] = io[s] /\ (pc[s] = "wloop" \/ (s = p /\ LockFree(io[p])))
    BY <1>2 DEF Moves
  <2> QED BY <2>1 DEF OneWriter, LockFree
<1> QED BY Zenon, <1>5, <1>6, <1>7, <1>8, <1>9, <1>11, <1>12
-----------------------------------------------------------------------------
(* What a pipe holds, and who sleeps *)

\* A write adds one byte, and the buffer stays within PIPESIZE.
LEMMA CountPut ==
  ASSUME Types, Types', InCall, Bounded, NEW p \in Procs, NEW v \in Vals, WriteByte(p, v)
  PROVE  /\ Count(io[p])' = Count(io[p]) + 1 /\ Count(io[p]) < PIPESIZE
         /\ \A i \in Pipes \ {io[p]} : Count(i)' = Count(i)
<1>1. io[p] \in Pipes /\ io' = io BY Zenon, PutOK DEF WriteByte
<1>2. Count(io[p]) < PIPESIZE
  <2>1. Count(io[p]) # PIPESIZE BY Zenon, <1>1, CountIs DEF WriteByte
  <2>2. Count(io[p]) \in Nat BY Zenon, <1>1, CountIs
  <2> QED BY <1>1, <2>1, <2>2, WrapOK DEF Bounded
<1>3. Count(io[p])' = Count(io[p]) + 1
  <2> DEFINE r == pipe[io[p]].nread
             n == pipe[io[p]].nwrite
             c == Count(io[p])
  <2>1. /\ r \in Ring /\ n \in Ring /\ c \in Nat
        /\ c = IF n >= r THEN n - r ELSE n + WRAP - r BY <1>1, CountIs
  <2>2. c + 1 < WRAP BY <1>2, <2>1, WrapOK
  <2>3. (((n + 1) % WRAP) + WRAP - r) % WRAP = c + 1 BY <2>1, <2>2, Advance
  <2>4. Count(io[p])' = (pipe'[io[p]].nwrite + WRAP - pipe'[io[p]].nread) % WRAP
    BY Zenon, <1>1 DEF Count
  <2>5. pipe'[io[p]].nwrite = (n + 1) % WRAP /\ pipe'[io[p]].nread = r BY Zenon, PutOK
  <2> QED BY <2>3, <2>4, <2>5
<1>4. \A i \in Pipes \ {io[p]} : Count(i)' = Count(i) BY Zenon, PutOK DEF Count
<1> QED BY <1>2, <1>3, <1>4

\* A read takes k bytes out.
LEMMA CountTake ==
  ASSUME Types, InCall, Bounded, NEW p \in Procs, NEW k \in 0..PIPESIZE,
         NEW lost \in 0..1, ReadCopy(p, k, lost)
  PROVE  \A i \in Pipes : Count(i)' = IF i = io[p] THEN Count(i) - (k + lost) ELSE Count(i)
<1>1. io[p] \in Pipes BY Zenon, TakeOK
<1>2. ASSUME NEW i, i = io[p] PROVE Count(i)' = Count(i) - (k + lost)
  <2> DEFINE r == pipe[i].nread
             n == pipe[i].nwrite
             c == Count(i)
  <2>1. /\ r \in Ring /\ n \in Ring /\ c \in Nat
        /\ c = IF n >= r THEN n - r ELSE n + WRAP - r BY <1>1, <1>2, CountIs
  <2>2. k + lost \in 0..c BY <2>1, <1>2 DEF ReadCopy
  <2>3. (n + WRAP - ((r + (k + lost)) % WRAP)) % WRAP = c - (k + lost) BY <2>1, <2>2, Advance
  <2>4. pipe'[i].nwrite = n /\ pipe'[i].nread = (r + (k + lost)) % WRAP BY <1>2, TakeOK
  <2>5. Count(i)' = (pipe'[i].nwrite + WRAP - pipe'[i].nread) % WRAP BY Zenon DEF Count
  <2> QED BY <2>3, <2>4, <2>5
<1>3. \A i \in Pipes \ {io[p]} : Count(i)' = Count(i) BY Zenon, TakeOK DEF Count
<1> QED BY <1>2, <1>3

\* The steps of the calls keep Bounded and SleepersHaveReason: nobody goes to sleep
\* without a reason, and who takes the reason away wakes the sleeper.
LEMMA SleepersPipe ==
  ASSUME Types, Types', InCall, OneWriter, Bounded, SleepersHaveReason,
         NEW p \in Procs, PipeStep(p)
  PROVE  Bounded' /\ SleepersHaveReason'
<1> DEFINE Reason(q) ==
      /\ pc[q] = "rsleep" => pipe[io[q]].writeopen /\
           (IsEmpty(io[q]) \/ stale[io[q]] \/ ~LockFree(io[q]))
      /\ pc[q] = "wsleep" => pipe[io[q]].readopen /\ Full(io[q])
<1>a. /\ DOMAIN pc = Procs /\ DOMAIN io = Procs /\ DOMAIN stale = Pipes /\ DOMAIN pipe = Pipes
  BY DEF Types
<1>b. \A q \in Procs : Reason(q) BY DEF SleepersHaveReason
<1>c. \A q \in Procs : pc[q] \in {"rsleep", "wsleep", "wloop", "read"} => io[q] \in Pipes
  BY Zenon DEF InCall, InPipe
<1>d. ASSUME pipe' = pipe
      PROVE  Bounded' /\ \A i : IsEmpty(i)' = IsEmpty(i) /\ Full(i)' = Full(i)
  BY Zenon, <1>d DEF Bounded, Count, IsEmpty, Full
<1>e. (\A q \in Procs : Reason(q)') => SleepersHaveReason' BY Zenon DEF SleepersHaveReason
<1>1. CASE WriteLock(p)
  <2>1. pipe' = pipe /\ io' = io /\ stale' = stale BY <1>1 DEF WriteLock
  <2>2. \A q \in Procs : pc'[q] = IF q = p THEN "wloop" ELSE pc[q]
    BY <1>1, <1>a DEF WriteLock, Goto
  <2>3. \A i : LockFree(i)' => LockFree(i) BY <2>1, <2>2 DEF LockFree
  <2>4. \A q \in Procs : Reason(q)' BY <2>1, <2>2, <2>3, <1>b, <1>d
  <2> QED BY <2>1, <2>4, <1>d, <1>e
<1>2. CASE WriteAbort(p)
  <2>1. /\ pipe' = pipe /\ \A q \in Procs \ {p} : io'[q] = io[q]
        /\ \A i \in Pipes : stale'[i] = IF i = io[p] THEN stale[i] \/ ~IsEmpty(i) ELSE stale[i]
    BY <1>2, <1>a DEF WriteAbort, Finish
  <2>2. \A q \in Procs : pc'[q] = IF q = p THEN "user" ELSE pc[q]
    BY <1>2, <1>a DEF WriteAbort, Goto
  <2>3. \A i \in Pipes \ {io[p]} : LockFree(i)' => LockFree(i) BY <2>1, <2>2 DEF LockFree
  <2>4. ASSUME NEW q \in Procs PROVE Reason(q)'
    <3>1. CASE q = p BY <3>1, <2>2
    <3>2. CASE q # p /\ io[q] = io[p]
      <4>1. ASSUME pc[q] = "rsleep" PROVE stale'[io[q]] \/ IsEmpty(io[q])
        <5>1. io[p] \in Pipes BY Zenon, <4>1, <3>2, <1>c
        <5> QED BY Zenon, <5>1, <3>2, <2>1
      <4>2. IsEmpty(io[q])' = IsEmpty(io[q]) /\ io'[q] = io[q] BY <3>2, <2>1 DEF IsEmpty
      <4> QED BY <4>1, <4>2, <3>2, <2>1, <2>2, <1>b, <1>d
    <3>3. CASE q # p /\ io[q] # io[p] BY <3>3, <2>1, <2>2, <2>3, <1>b, <1>c, <1>d
    <3> QED BY <3>1, <3>2, <3>3
  <2> QED BY <2>1, <2>4, <1>d, <1>e
<1>3. CASE WriteSleep(p)
  <2>1. /\ pipe' = pipe /\ io' = io
        /\ \A i \in Pipes \ {io[p]} : stale'[i] = stale[i]
    BY <1>3, <1>a DEF WriteSleep
  <2>2. \A q \in Procs : pc'[q] = IF q = p THEN "wsleep"
                                  ELSE IF pc[q] = "rsleep" /\ io[q] = io[p] THEN "read" ELSE pc[q]
    BY <1>3, WakeupOK DEF Pcs, WriteSleep, WakeReaders
  <2>3. \A i \in Pipes \ {io[p]} : LockFree(i)' => LockFree(i) BY <2>1, <2>2 DEF LockFree
  <2>4. pipe[io[p]].readopen /\ Full(io[p]) BY <1>3 DEF WriteSleep, WriteAborts
  <2>5. ASSUME NEW q \in Procs PROVE Reason(q)'
    BY <2>1, <2>2, <2>3, <2>4, <1>b, <1>c, <1>d
  <2> QED BY <2>1, <2>5, <1>d, <1>e
<1>4. CASE WriteDone(p)
  <2>1. /\ pipe' = pipe /\ \A q \in Procs \ {p} : io'[q] = io[q]
        /\ \A i \in Pipes \ {io[p]} : stale'[i] = stale[i]
    BY <1>4, <1>a DEF WriteDone, Finish
  <2>2. \A q \in Procs : pc'[q] = IF q = p THEN "user"
                                  ELSE IF pc[q] = "rsleep" /\ io[q] = io[p] THEN "read" ELSE pc[q]
    BY <1>4, WakeupOK DEF Pcs, WriteDone, WakeReaders
  <2>3. \A i \in Pipes \ {io[p]} : LockFree(i)' => LockFree(i) BY <2>1, <2>2 DEF LockFree
  <2>4. ASSUME NEW q \in Procs PROVE Reason(q)'
    BY <2>1, <2>2, <2>3, <1>b, <1>c, <1>d
  <2> QED BY <2>1, <2>4, <1>d, <1>e
<1>5. CASE ReadSleep(p)
  <2>1. pipe' = pipe /\ io' = io /\ stale' = stale BY <1>5 DEF ReadSleep
  <2>2. \A q \in Procs : pc'[q] = IF q = p THEN "rsleep" ELSE pc[q]
    BY <1>5, <1>a DEF ReadSleep, Goto
  <2>3. pipe[io[p]].writeopen /\ IsEmpty(io[p]) /\ pc[p] = "read"
    BY <1>5 DEF ReadSleep, NothingYet
  <2>4. \A i : LockFree(i)' => LockFree(i) BY <2>1, <2>2, <2>3 DEF LockFree
  <2>5. ASSUME NEW q \in Procs PROVE Reason(q)' BY <2>1, <2>2, <2>3, <2>4, <1>b, <1>d
  <2> QED BY <2>1, <2>5, <1>d, <1>e
<1>6. CASE ReadAbort(p)
  <2>1. pipe' = pipe /\ stale' = stale /\ \A q \in Procs \ {p} : io'[q] = io[q]
    BY <1>6, <1>a DEF ReadAbort, Finish
  <2>2. \A q \in Procs : pc'[q] = IF q = p THEN "user" ELSE pc[q]
    BY <1>6, <1>a DEF ReadAbort, Goto
  <2>3. \A i : LockFree(i)' => LockFree(i) BY <1>6, <2>1, <2>2 DEF LockFree, ReadAbort
  <2>4. ASSUME NEW q \in Procs PROVE Reason(q)' BY <2>1, <2>2, <2>3, <1>b, <1>d
  <2> QED BY <2>1, <2>4, <1>d, <1>e
<1>7. CASE Kill(p)
  <2>1. pipe' = pipe /\ stale' = stale /\ io' = io BY <1>7 DEF Kill
  <2>2. /\ \A q \in Procs \ {p} : pc'[q] = pc[q]
        /\ pc'[p] \notin {"rsleep", "wsleep"} /\ (pc[p] = "wloop" => pc'[p] = "wloop")
    BY <1>7, <1>a DEF Kill
  <2>3. \A i : LockFree(i)' => LockFree(i) BY <2>1, <2>2 DEF LockFree
  <2>4. ASSUME NEW q \in Procs PROVE Reason(q)' BY <2>1, <2>2, <2>3, <1>b, <1>d
  <2> QED BY <2>1, <2>4, <1>d, <1>e
<1>8. ASSUME NEW v \in Vals, WriteByte(p, v) PROVE Bounded' /\ SleepersHaveReason'
  <2>1. /\ io' = io /\ pc' = pc /\ stale' = stale /\ pc[p] = "wloop" /\ ~Full(io[p])
        /\ io[p] \in Pipes
    BY <1>8, <1>c DEF WriteByte
  <2>2. Bounded'
    <3> SUFFICES ASSUME NEW i \in Pipes PROVE Count(i)' <= PIPESIZE BY DEF Bounded
    <3>1. CASE i = io[p]
      <4>1. Count(i) \in Nat /\ Count(i) < PIPESIZE BY Zenon, <3>1, <1>8, CountIs, CountPut
      <4>2. Count(io[p])' = Count(io[p]) + 1 BY Zenon, <1>8, CountPut
      <4>3. Count(io[p])' = Count(i)' BY <3>1, <2>1 DEF Count
      <4> QED BY <4>1, <4>2, <4>3, <3>1, WrapOK
    <3>2. CASE i # io[p] BY <3>2, <1>8, CountPut DEF Bounded
    <3> QED BY <3>1, <3>2
  <2>3. \A i \in Pipes : /\ pipe'[i].readopen = pipe[i].readopen
                         /\ pipe'[i].writeopen = pipe[i].writeopen
                         /\ i # io[p] => pipe'[i] = pipe[i]
    BY Zenon, <1>8, PutOK
  <2>4. \A i \in Pipes \ {io[p]} : (Full(i)' <=> Full(i)) /\ (IsEmpty(i)' <=> IsEmpty(i))
    BY <2>3 DEF Full, IsEmpty
  <2>5. \A i : LockFree(i)' = LockFree(i) BY Zenon, <2>1 DEF LockFree
  <2>6. ~LockFree(io[p]) BY <2>1 DEF LockFree
  <2>7. ASSUME NEW q \in Procs PROVE Reason(q)'
    <3>1. CASE io[q] = io[p] BY <3>1, <2>1, <2>3, <2>5, <2>6, <1>b
    <3>2. CASE io[q] # io[p] BY <3>2, <2>1, <2>3, <2>4, <2>5, <1>b, <1>c
    <3> QED BY <3>1, <3>2
  <2> QED BY <2>2, <2>7, <1>e
<1>9. ASSUME NEW k \in 0..PIPESIZE, NEW lost \in 0..1, ReadCopy(p, k, lost)
      PROVE  Bounded' /\ SleepersHaveReason'
  <2>0. PICK i \in Pipes : i = io[p] BY Zenon, <1>9, TakeOK
  <2>1. /\ i \in Pipes /\ pc[p] = "read" /\ LockFree(i) /\ ~(IsEmpty(i) /\ pipe[i].writeopen)
        /\ k + lost <= Count(i)
        /\ \A q \in Procs \ {p} : io'[q] = io[q]
        /\ \A j \in Pipes : stale'[j] = IF j = i THEN stale[i] /\ k + lost < Count(i) ELSE stale[j]
    BY Zenon, <1>9, <2>0, <1>a DEF ReadCopy, NothingYet, Finish
  <2>2. Count(i) \in Nat BY <2>1, CountIs
  <2>3. Bounded'
    <3> SUFFICES ASSUME NEW j \in Pipes PROVE Count(j)' <= PIPESIZE BY DEF Bounded
    <3>1. Count(j)' = IF j = i THEN Count(j) - (k + lost) ELSE Count(j) BY Zenon, <1>9, <2>0, CountTake
    <3>2. Count(j) \in Nat /\ Count(j) <= PIPESIZE BY CountIs DEF Bounded
    <3> QED BY <3>1, <3>2, WrapOK
  <2>4. \A q \in Procs : pc'[q] = IF q = p THEN "ret"
                                  ELSE IF pc[q] = "wsleep" /\ io[q] = i THEN "write" ELSE pc[q]
    BY <1>9, <2>0, WakeupOK DEF Pcs, ReadCopy, WakeWriters
  <2>5. \A j \in Pipes : /\ pipe'[j].readopen = pipe[j].readopen
                         /\ pipe'[j].writeopen = pipe[j].writeopen
                         /\ j # i => pipe'[j] = pipe[j]
    BY Zenon, <1>9, <2>0, TakeOK
  <2>6. \A j \in Pipes \ {i} : (Full(j)' <=> Full(j)) /\ (IsEmpty(j)' <=> IsEmpty(j))
    BY <2>5 DEF Full, IsEmpty
  <2>7. \A j : LockFree(j)' => LockFree(j) BY <2>1, <2>4 DEF LockFree
  <2>8. k + lost = Count(i) => IsEmpty(i)'
    <3> SUFFICES ASSUME k + lost = Count(i) PROVE IsEmpty(i)' BY Zenon
    <3>1. Count(i)' = Count(i) - (k + lost) BY Zenon, <1>9, <2>0, CountTake
    <3>2. pipe'[i].nread \in Ring /\ pipe'[i].nwrite \in Ring BY DEF Types, PipeRec
    <3>3. Count(i)' = (pipe'[i].nwrite + WRAP - pipe'[i].nread) % WRAP BY Zenon DEF Count
    <3>4. Count(i)' = 0 BY <3>1, <2>2
    <3> QED BY <3>2, <3>3, <3>4, RingCount DEF IsEmpty
  <2>9. ASSUME NEW q \in Procs PROVE Reason(q)'
    <3>1. CASE q = p BY <3>1, <2>4
    <3>2. CASE q # p /\ io[q] = i
      <4>1. pc'[q] # "wsleep" /\ io'[q] = i BY <3>2, <2>1, <2>4
      <4>2. ASSUME pc[q] = "rsleep" PROVE pipe[i].writeopen /\ stale[i] BY Zenon, <4>2, <3>2, <2>1, <1>b
      <4>3. ASSUME pc[q] = "rsleep" PROVE pipe'[i].writeopen /\ (stale'[i] \/ IsEmpty(i)')
        <5>1. k + lost < Count(i) \/ k + lost = Count(i) BY <2>1, <2>2
        <5>2. k + lost < Count(i) => stale'[i] BY Zenon, <4>2, <4>3, <2>1
        <5> QED BY Zenon, <5>1, <5>2, <4>2, <4>3, <2>5, <2>8
      <4>4. pc'[q] = "rsleep" => pc[q] = "rsleep" BY <3>2, <2>4
      <4>5. IsEmpty(i)' => IsEmpty(io[q])' BY <4>1 DEF IsEmpty
      <4> QED BY Zenon, <4>1, <4>3, <4>4, <4>5
    <3>3. CASE q # p /\ io[q] # i BY <3>3, <2>1, <2>4, <2>5, <2>6, <2>7, <1>b, <1>c
    <3> QED BY <3>1, <3>2, <3>3
  <2> QED BY <2>3, <2>9, <1>e
<1> QED BY Zenon, <1>1, <1>2, <1>3, <1>4, <1>5, <1>6, <1>7, <1>8, <1>9 DEF PipeStep
-----------------------------------------------------------------------------
(* What a pipe holds, as a sequence *)

\* Contents(i), byte by byte: bytes nread, nread + 1, ... modulo PIPESIZE.
LEMMA ContentsIs ==
  ASSUME Types, NEW i \in Pipes
  PROVE  /\ Contents(i) \in Seq(Vals \cup {None}) /\ Len(Contents(i)) = Count(i)
         /\ \A j \in 1..Count(i) : /\ (pipe[i].nread + j - 1) % PIPESIZE \in 0..PIPESIZE - 1
                                   /\ Contents(i)[j] = pipe[i].data[(pipe[i].nread + j - 1) % PIPESIZE]
<1>1. pipe[i].data \in [0..PIPESIZE - 1 -> Vals \cup {None}] /\ pipe[i].nread \in Nat
  BY WrapOK DEF Types, PipeRec, Ring
<1>2. Count(i) \in Nat BY CountIs
<1> DEFINE at(j) == (pipe[i].nread + j - 1) % PIPESIZE
<1>3. ASSUME NEW j \in 1..Count(i) PROVE at(j) \in 0..PIPESIZE - 1
  <2>1. pipe[i].nread + j - 1 \in Nat BY <1>1, <1>2
  <2> QED BY Zenon, <2>1, WrapOK, ModRange
<1>4. Contents(i) = [j \in 1..Count(i) |-> pipe[i].data[at(j)]] BY DEF Contents
<1> HIDE DEF at
<1>5. \A j \in 1..Count(i) : pipe[i].data[at(j)] \in Vals \cup {None} BY Zenon, <1>1, <1>3
<1>6. /\ Contents(i) \in Seq(Vals \cup {None}) /\ Len(Contents(i)) = Count(i)
      /\ \A j \in 1..Count(i) : Contents(i)[j] = pipe[i].data[at(j)]
  BY <1>2, <1>4, <1>5
<1> QED BY <1>3, <1>6 DEF at

\* pipewrite() puts its byte behind the others.
LEMMA PutContents ==
  ASSUME Types, Types', InCall, Bounded, NEW p \in Procs, NEW v \in Vals, WriteByte(p, v),
         NEW i \in Pipes, i = io[p]
  PROVE  Contents(i)' = Append(Contents(i), v) /\ Len(Contents(i)) < PIPESIZE
<1>1. PICK c \in Nat : c = Count(i) /\ Count(i)' = c + 1 /\ c < PIPESIZE
  <2>1. Count(i) \in Nat BY CountIs
  <2>2. Count(io[p])' = Count(io[p]) + 1 /\ Count(io[p]) < PIPESIZE BY Zenon, CountPut
  <2>3. io' = io BY DEF WriteByte
  <2>4. Count(i)' = Count(i) + 1 BY <2>2, <2>3 DEF Count
  <2> QED BY <2>1, <2>2, <2>4
<1>2. PICK r \in Nat, n \in Nat : r = pipe[i].nread /\ n = pipe[i].nwrite /\ n = (r + c) % WRAP
  <2>1. /\ pipe[i].nread \in Ring /\ pipe[i].nwrite \in Ring
        /\ c = IF pipe[i].nwrite >= pipe[i].nread THEN pipe[i].nwrite - pipe[i].nread
               ELSE pipe[i].nwrite + WRAP - pipe[i].nread
    BY <1>1, CountIs
  <2>2. pipe[i].nwrite = (pipe[i].nread + c) % WRAP BY <2>1, Advance
  <2>3. pipe[i].nread \in Nat /\ pipe[i].nwrite \in Nat BY <2>1, WrapOK DEF Ring
  <2> QED BY Zenon, <2>2, <2>3
<1>3. n % PIPESIZE = (r + c) % PIPESIZE
  <2>1. (((r + c) % WRAP) + 0) % PIPESIZE = ((r + c) + 0) % PIPESIZE BY Place
  <2>2. (r + c) % WRAP \in Nat BY WrapOK, ModRange
  <2> QED BY <2>1, <2>2, <1>2
<1>4. /\ pipe'[i].data = [pipe[i].data EXCEPT ![n % PIPESIZE] = v] /\ pipe'[i].nread = r
  <2>1. /\ pipe'[io[p]].data = [pipe[io[p]].data EXCEPT ![pipe[io[p]].nwrite % PIPESIZE] = v]
        /\ pipe'[io[p]].nread = pipe[io[p]].nread
    BY Zenon, PutOK
  <2> QED BY Zenon, <2>1, <1>2
<1>5. pipe[i].data \in [0..PIPESIZE - 1 -> Vals \cup {None}] BY DEF Types, PipeRec
<1>6. r + c \in Nat /\ (r + c) % PIPESIZE \in 0..PIPESIZE - 1 BY WrapOK, ModRange
<1>7. ASSUME NEW j \in 1..c
      PROVE  /\ (r + j - 1) % PIPESIZE \in 0..PIPESIZE - 1
             /\ (r + j - 1) % PIPESIZE # (r + c) % PIPESIZE
  <2>1. r + j - 1 \in Nat /\ r + j - 1 < r + c /\ r + c < (r + j - 1) + PIPESIZE
    BY <1>1, WrapOK
  <2> QED BY Zenon, <2>1, <1>6, WrapOK, ModRange, ModApart
<1> DEFINE at(j) == (r + j - 1) % PIPESIZE
           s == [j \in 1..c + 1 |-> pipe'[i].data[at(j)]]
<1>8. Contents(i)' = s BY <1>1, <1>4 DEF Contents
<1>9. Contents(i) \in Seq(Vals \cup {None}) /\ Len(Contents(i)) = c
      /\ \A j \in 1..c : Contents(i)[j] = pipe[i].data[at(j)]
  BY Zenon, <1>1, <1>2, ContentsIs
<1>10. at(c + 1) = n % PIPESIZE
  <2>1. r + (c + 1) - 1 = r + c OBVIOUS
  <2> QED BY <2>1, <1>3
<1>11. \A j \in 1..c : at(j) \in 0..PIPESIZE - 1 /\ at(j) # n % PIPESIZE BY Zenon, <1>3, <1>7
<1>12. n % PIPESIZE \in 0..PIPESIZE - 1 BY <1>3, <1>6
<1> HIDE DEF at
<1>13. pipe'[i].data[at(c + 1)] = v BY Zenon, <1>4, <1>5, <1>10, <1>12
<1>14. \A j \in 1..c : pipe'[i].data[at(j)] = pipe[i].data[at(j)] BY <1>4, <1>5, <1>11
<1>15. PICK t \in Seq(Vals \cup {None}) : t = Contents(i) BY <1>9
<1>16. s = Append(t, v)
  <2>1. Len(t) = c /\ \A j \in 1..c : t[j] = pipe[i].data[at(j)] BY <1>9, <1>15
  <2>2. \A j \in 1..c + 1 : pipe'[i].data[at(j)] = IF j = c + 1 THEN v ELSE t[j]
    BY <2>1, <1>13, <1>14
  <2>3. /\ Append(t, v) \in Seq(Vals \cup {None}) /\ Len(Append(t, v)) = c + 1
        /\ \A j \in 1..c + 1 : Append(t, v)[j] = IF j = c + 1 THEN v ELSE t[j]
    BY <2>1
  <2>4. s \in Seq(Vals \cup {None}) /\ Len(s) = c + 1
    BY <2>2, <2>1
  <2>5. \A j \in 1..c + 1 : s[j] = Append(t, v)[j] BY <2>2, <2>3
  <2> HIDE DEF s
  <2> QED BY <2>3, <2>4, <2>5
<1> QED BY Zenon, <1>1, <1>8, <1>9, <1>15, <1>16

\* piperead() takes its bytes from the front.
LEMMA TakeContents ==
  ASSUME Types, Types', InCall, Bounded, NEW p \in Procs, NEW k \in 0..PIPESIZE,
         NEW lost \in 0..1, ReadCopy(p, k, lost), NEW i \in Pipes, i = io[p]
  PROVE  /\ k + lost <= Len(Contents(i))
         /\ Contents(i)' = SubSeq(Contents(i), k + lost + 1, Len(Contents(i)))
         /\ got' = [got EXCEPT ![p] = SubSeq(Contents(i), 1, k)]
<1>1. PICK c \in Nat, m \in Nat : /\ c = Count(i) /\ m = k + lost /\ m <= c /\ c <= PIPESIZE
                                  /\ Count(i)' = c - m
  <2>1. Count(i) \in Nat BY CountIs
  <2>2. Count(i)' = Count(i) - (k + lost) BY CountTake
  <2>3. k + lost \in Nat /\ k + lost <= Count(i) BY DEF ReadCopy
  <2>4. Count(i) <= PIPESIZE BY DEF Bounded
  <2> QED BY <2>1, <2>2, <2>3, <2>4
<1>2. PICK r \in Nat : r = pipe[i].nread
  <2>1. pipe[i].nread \in Nat BY CountIs, WrapOK DEF Ring
  <2> QED BY <2>1
<1>3. /\ pipe'[i].nread = (r + m) % WRAP
      /\ \A x \in 0..PIPESIZE - 1 : x \notin Taken(i, m) => pipe'[i].data[x] = pipe[i].data[x]
  <2>1. /\ pipe'[io[p]].nread = (pipe[io[p]].nread + (k + lost)) % WRAP
        /\ \A x \in 0..PIPESIZE - 1 :
             x \notin Taken(io[p], k + lost) => pipe'[io[p]].data[x] = pipe[io[p]].data[x]
    BY Zenon, TakeOK
  <2>2. io[p] = i /\ k + lost = m /\ pipe[i].nread = r BY Zenon, <1>1, <1>2
  <2> QED BY <2>1, <2>2
<1> DEFINE at(j) == (r + j - 1) % PIPESIZE
<1>4. ASSUME NEW j \in 1..c - m
      PROVE  /\ (pipe'[i].nread + j - 1) % PIPESIZE = at(m + j)
             /\ at(m + j) \in 0..PIPESIZE - 1 /\ at(m + j) \notin Taken(i, m)
  <2>1. r + m \in Nat /\ j - 1 \in Nat /\ r + (m + j) - 1 \in Nat
        /\ (r + m) + (j - 1) = r + (m + j) - 1
    BY <1>1
  <2>2. (((r + m) % WRAP) + (j - 1)) % PIPESIZE = ((r + m) + (j - 1)) % PIPESIZE BY <2>1, Place
  <2>3. (r + m) % WRAP \in Nat BY <2>1, WrapOK, ModRange
  <2>4. (pipe'[i].nread + j - 1) % PIPESIZE = at(m + j)
    <3>1. pipe'[i].nread + j - 1 = ((r + m) % WRAP) + (j - 1) BY <1>3, <2>3
    <3> QED BY Zenon, <3>1, <2>1, <2>2
  <2>5. at(m + j) \in 0..PIPESIZE - 1 BY <2>1, WrapOK, ModRange
  <2>6. ASSUME NEW l \in 1..m PROVE at(l) # at(m + j)
    <3>1. /\ r + l - 1 \in Nat /\ r + l - 1 < r + (m + j) - 1
          /\ r + (m + j) - 1 < (r + l - 1) + PIPESIZE
      BY <1>1, WrapOK
    <3> QED BY Zenon, <3>1, <2>1, WrapOK, ModApart
  <2>7. Taken(i, m) = {at(l) : l \in 1..m} BY Zenon, <1>2 DEF Taken
  <2> HIDE DEF at
  <2> QED BY <2>4, <2>5, <2>6, <2>7
<1>5. PICK t \in Seq(Vals \cup {None}) :
        t = Contents(i) /\ Len(t) = c /\ \A j \in 1..c : t[j] = pipe[i].data[at(j)]
  BY Zenon, <1>1, <1>2, ContentsIs
<1> DEFINE s == [j \in 1..c - m |-> pipe'[i].data[(pipe'[i].nread + j - 1) % PIPESIZE]]
           u == [j \in 1..k |-> pipe[i].data[at(j)]]
<1>6. Contents(i)' = s BY <1>1 DEF Contents
<1>7. got' = [got EXCEPT ![p] = u] BY Zenon, <1>2 DEF ReadCopy
<1> HIDE DEF at
<1>8. \A j \in 1..c - m : pipe'[i].data[(pipe'[i].nread + j - 1) % PIPESIZE] = t[m + j]
  <2> SUFFICES ASSUME NEW j \in 1..c - m
               PROVE  pipe'[i].data[(pipe'[i].nread + j - 1) % PIPESIZE] = t[m + j]
    OBVIOUS
  <2>1. m + j \in 1..c BY <1>1
  <2>2. pipe'[i].data[at(m + j)] = pipe[i].data[at(m + j)] BY Zenon, <1>3, <1>4
  <2> QED BY Zenon, <2>1, <2>2, <1>4, <1>5
<1>9. s = SubSeq(t, m + 1, c)
  <2>1. s = [j \in 1..c - m |-> t[m + j]] BY Zenon, <1>8
  <2>2. \A j \in 1..c - m : t[m + j] \in Vals \cup {None} BY <1>1, <1>5
  <2>3. /\ s \in Seq(Vals \cup {None}) /\ Len(s) = c - m
        /\ \A j \in 1..c - m : s[j] = t[m + j]
    <3>1. PICK n \in Nat : n = c - m BY <1>1
    <3>2. s = [j \in 1..n |-> t[m + j]] /\ \A j \in 1..n : t[m + j] \in Vals \cup {None}
      BY Zenon, <2>1, <2>2, <3>1
    <3> HIDE DEF s
    <3>3. s \in Seq(Vals \cup {None}) /\ Len(s) = n /\ \A j \in 1..n : s[j] = t[m + j]
      BY <3>2
    <3> QED BY Zenon, <3>1, <3>3
  <2>4. /\ SubSeq(t, m + 1, c) \in Seq(Vals \cup {None}) /\ Len(SubSeq(t, m + 1, c)) = c - m
        /\ \A j \in 1..c - m : SubSeq(t, m + 1, c)[j] = t[m + j]
    BY <1>1, <1>5
  <2> HIDE DEF s
  <2> QED BY <2>3, <2>4
<1>10. u = SubSeq(t, 1, k)
  <2>1. \A j \in 1..k : j \in 1..c BY <1>1
  <2>2. u = [j \in 1..k |-> t[j]] BY Zenon, <2>1, <1>5
  <2> QED BY <2>2, <1>1, <1>5
<1>11. k + lost <= Len(t) /\ m + 1 = k + lost + 1 BY <1>1, <1>5
<1> QED BY Zenon, <1>5, <1>6, <1>7, <1>9, <1>10, <1>11, <1>1
=============================================================================
