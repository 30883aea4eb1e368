------------------------------ MODULE Content -------------------------------
(***************************************************************************)
(* The contents of files: the free-block bitmap, the block addresses of    *)
(* inodes with the indirect block, writei(), readi() and itrunc() of       *)
(* kernel/fs.c, under fileread() and filewrite() of kernel/file.c and      *)
(* open() with O_TRUNC, for concurrent processes that share files.         *)
(*                                                                         *)
(* A block holds BSIZE units, which are file contents or block numbers.    *)
(* Process p writes the value p.  A step is one locked use of the bitmap   *)
(* together with the use of a block that only the holder of ip->lock can   *)
(* reach.  That a system call is atomic with respect to crashes is Log's;  *)
(* here c.logs collects the blocks that it logs.                           *)
(***************************************************************************)
EXTENDS Integers, Sequences, FiniteSets, FiniteSetsExt

CONSTANTS Procs,        \* process numbers
          Files, Inums, None,
          NBLOCKS,      \* data blocks of the disk, numbered from 1
          BSIZE, NDIRECT, NINDIRECT, MAXOPBLOCKS,
          ReadSizes, WriteSizes,  \* the numbers of units that processes read and write
          MAXCALLS                \* bound: system calls in a behaviour

Blocks == 1..NBLOCKS
MAXFILE == NDIRECT + NINDIRECT

ASSUME ContentConstants ==
  /\ {NBLOCKS, BSIZE, NDIRECT, NINDIRECT} \subseteq Nat \ {0} /\ NINDIRECT <= BSIZE
  /\ MAXOPBLOCKS \in Nat /\ MAXOPBLOCKS >= 6
  /\ Procs \subseteq Nat \ {0} /\ ReadSizes \cup WriteSizes \subseteq Nat \ {0} /\ MAXCALLS \in Nat
  /\ None \notin Files \cup Inums

VARIABLES
  disk,     \* the bitmap and the data blocks, see Init
  ip,       \* the entries of the inode table: size and addrs
  dinode,   \* the inodes on disk
  lock,     \* ip->lock
  file,     \* the file table: ip and off, or None if free
  call,     \* the system call of each process, see Idle
  img,      \* history: the values that each unit of a file may have
  calls,    \* system calls so far
  panicked

vars == <<disk, ip, dinode, lock, file, call, img, calls, panicked>>

Zeros == [k \in 0..(BSIZE - 1) |-> 0]
Empty == [size |-> 0, addrs |-> [k \in 0..NDIRECT |-> 0]]

\* left: n - i of filewrite(); n1, tot, from: n, tot and the first off of writei();
\* idx: the loop index of itrunc(); bad: units that a failing copy has changed.
Idle == [pc |-> "idle", f |-> None, i |-> None, left |-> 0, n1 |-> 0, tot |-> 0, from |-> 0,
         idx |-> 0, bad |-> 0, logs |-> {}]

\* used: the bitmap; data: the blocks in the buffer cache; stale: what the disk has of
\* a block that was changed in the cache without log_write(), else <<>>.
Init ==
  /\ disk = [used |-> {}, data |-> [b \in Blocks |-> Zeros], stale |-> [b \in Blocks |-> <<>>]]
  /\ ip = [i \in Inums |-> Empty] /\ dinode = ip
  /\ lock = [i \in Inums |-> None]
  /\ file \in [Files -> {None} \cup {[ip |-> i, off |-> 0] : i \in Inums}]
  /\ call = [p \in Procs |-> Idle]
  /\ img = [i \in Inums |-> <<>>]
  /\ calls = 0 /\ panicked = FALSE
-----------------------------------------------------------------------------
(* The block layer: each operator is the disk d after a call *)

\* The blocks that log_write() counts besides the data blocks.
BBLOCK == 0
IBLOCK == -1

\* The disk after log_write() of block b with contents c.
Logged(d, b, c) == [d EXCEPT !.data[b] = c, !.stale[b] = <<>>]

FreeBlocks == Blocks \ disk.used

\* balloc() of b, the first free block.
Balloc(d, b) == Logged([d EXCEPT !.used = @ \cup {b}], b, Zeros)

\* bfree() for the address b, if there is one.
Bfree(d, b) == [d EXCEPT !.used = @ \ {b}]
BfreePanics(d, b) == b # 0 /\ b \notin d.used

\* An address in an inode ino with the blocks of disk d; the indirect block exists.
Addr(d, ino, bn) ==
  IF bn < NDIRECT THEN ino.addrs[bn] ELSE d.data[ino.addrs[NDIRECT]][bn - NDIRECT]
-----------------------------------------------------------------------------
(* filewrite() and writei() *)

\* p makes a system call.
Calls(p) == call[p].pc = "idle" /\ calls < MAXCALLS /\ calls' = calls + 1

Filewrite(p, f, n) ==
  /\ Calls(p) /\ file[f] # None
  /\ call' = [call EXCEPT ![p] = [Idle EXCEPT !.pc = "begin", !.f = f, !.i = file[f].ip,
                                             !.left = n]]
  /\ UNCHANGED <<disk, ip, dinode, lock, file, img, panicked>>

\* Mutant: the slop for the metadata is forgotten.
MaxWriteAll == (MAXOPBLOCKS \div 2) * BSIZE

\* max of filewrite()
MaxWrite == ((MAXOPBLOCKS - 1 - 1 - 2) \div 2) * BSIZE

\* The early returns of writei().
WriteiFails(off, size, n) == off > size \/ off + n > MAXFILE * BSIZE

\* begin_op(), ilock() and the tests of writei().
WriteBegin(p) ==
  LET c == call[p]
      n1 == Min({c.left, MaxWrite})
      off == file[c.f].off
  IN  /\ c.pc = "begin" /\ lock[c.i] = None
      /\ IF WriteiFails(off, ip[c.i].size, n1)
         THEN call' = [call EXCEPT ![p] = Idle] /\ UNCHANGED lock
         ELSE /\ call' = [call EXCEPT ![p] = [c EXCEPT !.pc = "write", !.n1 = n1, !.tot = 0,
                                                       !.from = off, !.logs = {}]]
              /\ lock' = [lock EXCEPT ![c.i] = p]
      /\ UNCHANGED <<disk, ip, dinode, file, img, panicked, calls>>

Off(c) == c.from + c.tot
Bn(c) == Off(c) \div BSIZE

\* p is at the call of bmap() in writei().
AtBmap(p) == call[p].pc = "write" /\ call[p].tot < call[p].n1 /\ ~panicked

NeedsIndirect(c) == Bn(c) >= NDIRECT /\ ip[c.i].addrs[NDIRECT] = 0

\* bmap() panics for a block out of range; it returns 0 when balloc() does.
BmapFail(p) ==
  LET c == call[p] IN
  /\ AtBmap(p)
  /\ Bn(c) < MAXFILE => FreeBlocks = {} /\ (~NeedsIndirect(c) => Addr(disk, ip[c.i], Bn(c)) = 0)
  /\ panicked' = (Bn(c) >= MAXFILE)
  /\ call' = [call EXCEPT ![p].pc = "end"]
  /\ UNCHANGED <<disk, ip, dinode, lock, file, img, calls>>

\* bmap() allocates the indirect block.
BmapIndirect(p) ==
  LET c == call[p]
      b == Min(FreeBlocks)
  IN  /\ AtBmap(p) /\ Bn(c) < MAXFILE /\ NeedsIndirect(c) /\ FreeBlocks # {}
      /\ disk' = Balloc(disk, b)
      /\ ip' = [ip EXCEPT ![c.i].addrs[NDIRECT] = b]
      /\ call' = [call EXCEPT ![p].logs = @ \cup {BBLOCK, b}]
      /\ UNCHANGED <<dinode, lock, file, img, panicked, calls>>

\* bmap() allocates block Bn(c) of the file.
BmapAlloc(p) ==
  LET c == call[p]
      b == Min(FreeBlocks)
      ind == ip[c.i].addrs[NDIRECT]
      d == Balloc(disk, b)
  IN  /\ AtBmap(p) /\ Bn(c) < MAXFILE /\ ~NeedsIndirect(c) /\ FreeBlocks # {}
      /\ Addr(disk, ip[c.i], Bn(c)) = 0
      /\ IF Bn(c) < NDIRECT
         THEN /\ ip' = [ip EXCEPT ![c.i].addrs[Bn(c)] = b]
              /\ disk' = d
              /\ call' = [call EXCEPT ![p].logs = @ \cup {BBLOCK, b}]
         ELSE /\ disk' = Logged(d, ind, [d.data[ind] EXCEPT ![Bn(c) - NDIRECT] = b])
              /\ call' = [call EXCEPT ![p].logs = @ \cup {BBLOCK, b, ind}]
              /\ UNCHANGED ip
      /\ UNCHANGED <<dinode, lock, file, img, panicked, calls>>

\* m of writei()
Chunk(c) == Min({c.n1 - c.tot, BSIZE - (Off(c) % BSIZE)})

\* Contents w of a block after n units of p have been copied to it from offset o on.
Copied(w, o, n, p) == [k \in DOMAIN w |-> IF k \in o..(o + n - 1) THEN p ELSE w[k]]

\* The block is there; either_copyin() copies all of the chunk or, at a bad address,
\* only its first k units.  In that case the block stays as it is in the cache, and
\* the disk does not get it unless it is logged anyway.
WriteBlock(p, k) ==
  LET c == call[p]
      b == Addr(disk, ip[c.i], Bn(c))
      w == Copied(disk.data[b], Off(c) % BSIZE, k, p)
      old == IF disk.stale[b] = <<>> THEN <<disk.data[b]>> ELSE disk.stale[b]
  IN  /\ AtBmap(p) /\ Bn(c) < MAXFILE /\ ~NeedsIndirect(c) /\ b # 0
      /\ IF k = Chunk(c)
         THEN /\ disk' = Logged(disk, b, w)
              /\ call' = [call EXCEPT ![p].tot = @ + k, ![p].logs = @ \cup {b}]
         ELSE /\ disk' = [disk EXCEPT !.data[b] = w,
                                      !.stale[b] = IF b \in c.logs \/ k = 0 THEN @ ELSE old]
              /\ call' = [call EXCEPT ![p].pc = "end", ![p].bad = k]
      /\ UNCHANGED <<ip, dinode, lock, file, img, panicked, calls>>

\* bget() recycles a buffer that was changed without log_write().
Evict(b) ==
  /\ disk.stale[b] # <<>>
  /\ disk' = Logged(disk, b, disk.stale[b][1])
  /\ UNCHANGED <<ip, dinode, lock, file, call, img, panicked, calls>>

\* What writei() has promised about a file with promise s: tot units from off on are
\* p's, the rest of a chunk that was not copied completely may be.
Promised(s, c, p, size) ==
  [u \in 1..size |->
     IF u - 1 \in c.from..(Off(c) - 1) THEN {p}
     ELSE s[u] \cup (IF u - 1 \in Off(c)..(Off(c) + c.bad - 1) THEN {p} ELSE {})]

\* Mutant: iupdate() only when the size has changed.
IupdateIfGrown(i, new) == IF new.size # ip[i].size THEN [dinode EXCEPT ![i] = new] ELSE dinode

\* iupdate()
Iupdate(i, new) == [dinode EXCEPT ![i] = new]

\* The end of writei(), and of the round of filewrite()'s loop.
WriteEnd(p) ==
  LET c == call[p]
      new == [ip[c.i] EXCEPT !.size = Max({@, Off(c)})]
      left == c.left - c.tot
  IN  /\ c.pc = "end" \/ (c.pc = "write" /\ c.tot = c.n1)
      /\ ip' = [ip EXCEPT ![c.i] = new]
      /\ dinode' = Iupdate(c.i, new)
      /\ img' = [img EXCEPT ![c.i] = Promised(@, c, p, new.size)]
      /\ file' = [file EXCEPT ![c.f].off = @ + c.tot]
      /\ lock' = [lock EXCEPT ![c.i] = None]
      /\ call' = [call EXCEPT ![p] = IF c.tot = c.n1 /\ left > 0
                                       THEN [Idle EXCEPT !.pc = "begin", !.f = c.f, !.i = c.i,
                                                         !.left = left]
                                       ELSE Idle]
      /\ UNCHANGED <<disk, panicked, calls>>
-----------------------------------------------------------------------------
(* fileread(), sys_open() of an existing file, fileclose() *)

Fileread(p, f, n) ==
  /\ Calls(p) /\ file[f] # None /\ lock[file[f].ip] = None
  /\ LET left == ip[file[f].ip].size - file[f].off
     IN  file' = [file EXCEPT ![f].off = @ + Max({0, Min({n, left})})]
  /\ UNCHANGED <<disk, ip, dinode, lock, call, img, panicked>>

\* No system call uses f.
Unused(f) == \A q \in Procs : call[q].f # f

Open(p, f, i) ==
  /\ Calls(p) /\ file[f] = None /\ Unused(f) /\ lock[i] = None
  /\ file' = [file EXCEPT ![f] = [ip |-> i, off |-> 0]]
  /\ UNCHANGED <<disk, ip, dinode, lock, call, img, panicked>>

\* With O_TRUNC itrunc() is called with the inode locked.
OpenTrunc(p, f, i) ==
  /\ Calls(p) /\ file[f] = None /\ Unused(f) /\ lock[i] = None
  /\ lock' = [lock EXCEPT ![i] = p]
  /\ call' = [call EXCEPT ![p] = [Idle EXCEPT !.pc = "trunc", !.f = f, !.i = i]]
  /\ UNCHANGED <<disk, ip, dinode, file, img, panicked>>

\* The last fileclose() of f.
Close(p, f) ==
  /\ Calls(p) /\ file[f] # None /\ Unused(f)
  /\ file' = [file EXCEPT ![f] = None]
  /\ UNCHANGED <<disk, ip, dinode, lock, call, img, panicked>>

AtTrunc(p) == call[p].pc = "trunc" /\ ~panicked

TruncDirect(p) ==
  LET c == call[p]
      b == ip[c.i].addrs[c.idx]
  IN  /\ AtTrunc(p) /\ c.idx < NDIRECT
      /\ disk' = Bfree(disk, b)
      /\ panicked' = BfreePanics(disk, b)
      /\ ip' = [ip EXCEPT ![c.i].addrs[c.idx] = 0]
      /\ call' = [call EXCEPT ![p].idx = @ + 1,
                              ![p].logs = IF b # 0 THEN @ \cup {BBLOCK} ELSE @]
      /\ UNCHANGED <<dinode, lock, file, img, calls>>

TruncIndirect(p) ==
  LET c == call[p]
      b == Addr(disk, ip[c.i], c.idx)
  IN  /\ AtTrunc(p) /\ c.idx \in NDIRECT..(MAXFILE - 1) /\ ip[c.i].addrs[NDIRECT] # 0
      /\ disk' = Bfree(disk, b)
      /\ panicked' = BfreePanics(disk, b)
      /\ call' = [call EXCEPT ![p].idx = @ + 1,
                              ![p].logs = IF b # 0 THEN @ \cup {BBLOCK} ELSE @]
      /\ UNCHANGED <<ip, dinode, lock, file, img, calls>>

\* Mutant: the indirect block itself is not freed.
IndirectKept(d, b) == d

\* bfree() of the indirect block
IndirectFreed(d, b) == Bfree(d, b)

\* The indirect block is freed, the size becomes 0, iupdate(); then sys_open() returns.
TruncEnd(p) ==
  LET c == call[p]
      b == ip[c.i].addrs[NDIRECT]
  IN  /\ AtTrunc(p) /\ c.idx = (IF b = 0 THEN NDIRECT ELSE MAXFILE)
      /\ disk' = IndirectFreed(disk, b)
      /\ panicked' = BfreePanics(disk, b)
      /\ ip' = [ip EXCEPT ![c.i] = [size |-> 0, addrs |-> [@.addrs EXCEPT ![NDIRECT] = 0]]]
      /\ dinode' = Iupdate(c.i, ip'[c.i])
      /\ img' = [img EXCEPT ![c.i] = <<>>]
      /\ lock' = [lock EXCEPT ![c.i] = None]
      /\ file' = [file EXCEPT ![c.f] = [ip |-> c.i, off |-> 0]]
      /\ call' = [call EXCEPT ![p] = Idle]
      /\ UNCHANGED calls
-----------------------------------------------------------------------------
Step(p) ==
  \/ \E f \in Files, n \in WriteSizes : Filewrite(p, f, n)
  \/ \E f \in Files, n \in ReadSizes : Fileread(p, f, n)
  \/ WriteBegin(p) \/ BmapFail(p) \/ BmapIndirect(p) \/ BmapAlloc(p)
  \/ \E k \in 0..Chunk(call[p]) : WriteBlock(p, k)
  \/ WriteEnd(p)
  \/ \E f \in Files, i \in Inums : Open(p, f, i) \/ OpenTrunc(p, f, i)
  \/ \E f \in Files : Close(p, f)
  \/ TruncDirect(p) \/ TruncIndirect(p) \/ TruncEnd(p)

\* The bound is reached and all calls have returned.
Done == calls = MAXCALLS /\ (\A p \in Procs : call[p].pc = "idle") /\ UNCHANGED vars

Next ==
  \/ \E p \in Procs : Step(p)
  \/ \E b \in Blocks : Evict(b)
  \/ Done

Spec == Init /\ [][Next]_vars
-----------------------------------------------------------------------------
(* Properties *)

\* The blocks that itrunc() has freed and not erased from the indirect block of i.
Gone(i) == {n \in 0..(NINDIRECT - 1) :
              \E p \in Procs : call[p].pc = "trunc" /\ call[p].i = i /\ NDIRECT + n < call[p].idx}

\* The addresses in inode i and in its indirect block: pairs of a place and a block.
Refs(i) ==
  LET ind == ip[i].addrs[NDIRECT]
      direct == {<<n, ip[i].addrs[n]>> : n \in 0..NDIRECT}
      indirect == {<<NDIRECT + 1 + n, disk.data[ind][n]>> : n \in (0..(NINDIRECT - 1)) \ Gone(i)}
  IN  {x \in direct \cup (IF ind = 0 THEN {} ELSE indirect) : x[2] # 0}

\* balloc()/bmap()/bfree()/itrunc(): a block is marked in the bitmap exactly if one place
\* of one inode refers to it, also while files are truncated and after writes that ran
\* out of blocks half way; so the panics of bfree() ("freeing free block") and bmap()
\* ("out of range") are not reached.
BlocksExact ==
  LET refs == UNION {{<<i, x>> : x \in Refs(i)} : i \in Inums}
  IN  /\ ~panicked
      /\ {r[2][2] : r \in refs} = disk.used
      /\ Cardinality(refs) = Cardinality(disk.used)

\* Unit u of a file whose inode is ino, -1 if it has no block.
Unit(ino, u) ==
  LET bn == u \div BSIZE IN
  IF bn >= NDIRECT /\ ino.addrs[NDIRECT] = 0 THEN -1
  ELSE IF Addr(disk, ino, bn) = 0 THEN -1
  ELSE disk.data[Addr(disk, ino, bn)][u % BSIZE]

\* writei()/iupdate(): whenever its inode is not locked, a file has the size and the
\* contents that the results of writei() and itrunc() promise, read through the inode
\* on disk, whatever other processes write, truncate and reallocate meanwhile.
ContentsKept ==
  \A i \in Inums : lock[i] = None =>
    /\ dinode[i] = ip[i]
    /\ ip[i].size = Len(img[i])
    /\ \A u \in 0..(ip[i].size - 1) : Unit(dinode[i], u) \in img[i][u + 1]

\* filewrite()/itrunc(): a transaction logs fewer than MAXOPBLOCKS blocks, however the
\* write is aligned and whatever it has to allocate.  This is what Log needs of its
\* OPBLOCKS when the log on disk has LOGSIZE blocks (WithinBudget).
OpWithinBudget ==
  \A p \in Procs :
    Cardinality(call[p].logs \cup IF call[p].pc \in {"write", "end", "trunc"}
                                    THEN {IBLOCK} ELSE {}) < MAXOPBLOCKS
=============================================================================
