------------------------------- MODULE Inode --------------------------------
(***************************************************************************)
(* The inode and directory layers of kernel/fs.c under the path system     *)
(* calls of kernel/sysfile.c: the inode table with its references and      *)
(* sleep-locks, the inodes on disk, directories, and link(), unlink(),     *)
(* open(), mkdir() and chdir() of concurrent processes.                    *)
(*                                                                         *)
(* A step runs from one ilock() to the next, or to the next iput().  Of an *)
(* inode only type and nlink are modelled; a directory is a function from  *)
(* names to inode numbers.  The table has one entry per referenced inode   *)
(* number, so entries are named by that number.  A process has at most one *)
(* file open, and the second path of link() starts at the working          *)
(* directory.                                                              *)
(***************************************************************************)
EXTENDS Naturals, Sequences, FiniteSets

CONSTANTS Procs, None,
          NINODES,  \* inodes on disk; number 1 is the root
          NINODE,   \* entries of the inode table
          Names,    \* names in directories, other than "." and ".."
          Calls     \* the calls that processes may make: op, from, path, new

ROOTINO == 1
Inums == 1..NINODES

ASSUME InodeConstants ==
  /\ NINODES \in Nat \ {0} /\ NINODE \in Nat \ {0}
  /\ None \notin Procs /\ None \notin Inums /\ ".." \notin Names
  /\ \A c \in Calls : /\ c.op \in {"open", "create", "mkdir", "unlink", "link", "chdir"}
                      /\ c.from \in {"cwd", "root"}
                      /\ {c.path, c.new} \subseteq Seq(Names \cup {".."})

VARIABLES
  fs,    \* the disk and the inode table, see FsInit
  cwd,   \* p->cwd
  fd,    \* the inode of the one file that a process may have open
  call,  \* the system call of each process, see Idle
  puts,  \* the iput() calls a process makes before its next step
  drop   \* the inode that iput() has freed and not dropped yet

vars == <<fs, cwd, fd, call, puts, drop>>

Free == [type |-> "none", nlink |-> 0]
NoEnts == [n \in Names \cup {".."} |-> 0]

\* dino: the inodes on disk; ents: the entries in the blocks of directories; ref,
\* valid, mem, lock: the table, where ref 0 means no entry.  mkfs makes the root.
FsInit ==
  [dino  |-> [i \in Inums |-> IF i = ROOTINO THEN [type |-> "dir", nlink |-> 1] ELSE Free],
   ents  |-> [i \in Inums |-> IF i = ROOTINO THEN [NoEnts EXCEPT ![".."] = ROOTINO] ELSE NoEnts],
   ref   |-> [i \in Inums |-> IF i = ROOTINO THEN Cardinality(Procs) ELSE 0],
   valid |-> [i \in Inums |-> FALSE],
   mem   |-> [i \in Inums |-> Free],
   lock  |-> [i \in Inums |-> None],
   panicked |-> FALSE]

\* at: ip of namex(), then the directory dp; tgt: ip of the system call.
Idle == [pc |-> "idle", op |-> "none", path |-> <<>>, new |-> <<>>, at |-> None, tgt |-> None]

\* The working directory of all processes is the root.
Init ==
  /\ fs = FsInit
  /\ cwd = [p \in Procs |-> ROOTINO] /\ fd = [p \in Procs |-> None]
  /\ call = [p \in Procs |-> Idle]
  /\ puts = [p \in Procs |-> <<>>] /\ drop = [p \in Procs |-> None]
-----------------------------------------------------------------------------
(* The inode layer: each operator is the state s after a call *)

PanicIf(s, cond) == [s EXCEPT !.panicked = @ \/ cond]

Iget(s, i) ==
  LET full == s.ref[i] = 0 /\ Cardinality({j \in Inums : s.ref[j] > 0}) >= NINODE
  IN  PanicIf([s EXCEPT !.ref[i] = @ + 1, !.valid[i] = @ /\ s.ref[i] > 0], full)

Ilock(s, i, p) ==
  LET read == IF s.valid[i] THEN s.mem[i] ELSE s.dino[i]
  IN  PanicIf([s EXCEPT !.mem[i] = read, !.valid[i] = TRUE, !.lock[i] = p],
              s.ref[i] < 1 \/ (~s.valid[i] /\ read.type = "none"))

Iunlock(s, i) == [s EXCEPT !.lock[i] = None]

\* ip->nlink = n; iupdate(ip)
SetNlink(s, i, n) ==
  LET ip == [s.mem[i] EXCEPT !.nlink = n] IN [s EXCEPT !.mem[i] = ip, !.dino[i] = ip]

FreeInums == {i \in Inums : fs.dino[i].type = "none"}

\* ialloc() takes the first free inode.
FirstInum == CHOOSE i \in FreeInums : \A j \in FreeInums : i <= j

\* ... with i = FirstInum
Ialloc(s, i, type) == Iget([s EXCEPT !.dino[i] = [type |-> type, nlink |-> 0]], i)

\* Mutant: the inode is freed although others refer to it.
LastOfUnlinkedAny(i) == fs.valid[i] /\ fs.mem[i].nlink = 0

\* ip->ref == 1 && ip->valid && ip->nlink == 0
LastOfUnlinked(i) == fs.ref[i] = 1 /\ fs.valid[i] /\ fs.mem[i].nlink = 0

\* p has nothing to iput().
NoPuts(p) == ~fs.panicked /\ puts[p] = <<>> /\ drop[p] = None

IputKeep(p) ==
  /\ ~fs.panicked /\ puts[p] # <<>> /\ drop[p] = None /\ ~LastOfUnlinked(Head(puts[p]))
  /\ fs' = [fs EXCEPT !.ref[Head(puts[p])] = @ - 1]
  /\ puts' = [puts EXCEPT ![p] = Tail(@)]
  /\ UNCHANGED <<cwd, fd, call, drop>>

\* Mutant: valid stays set.
FreedStillValid(s, i) == [s EXCEPT !.dino[i] = Free, !.mem[i] = Free, !.ents[i] = NoEnts]

\* itrunc(ip), ip->type = 0, iupdate(ip), ip->valid = 0
Freed(s, i) ==
  [s EXCEPT !.dino[i] = Free, !.mem[i] = Free, !.ents[i] = NoEnts, !.valid[i] = FALSE]

\* If acquiresleep() had to wait it would do so with itable.lock held, and sched()
\* would panic.
IputFree(p) ==
  /\ ~fs.panicked /\ puts[p] # <<>> /\ drop[p] = None /\ LastOfUnlinked(Head(puts[p]))
  /\ LET i == Head(puts[p]) IN
     /\ fs' = PanicIf(Freed(fs, i), fs.lock[i] # None)
     /\ drop' = [drop EXCEPT ![p] = i]
  /\ puts' = [puts EXCEPT ![p] = Tail(@)]
  /\ UNCHANGED <<cwd, fd, call>>

\* itable.lock is taken again to decrement ref.
IputDrop(p) ==
  /\ ~fs.panicked /\ drop[p] # None
  /\ fs' = [fs EXCEPT !.ref[drop[p]] = @ - 1]
  /\ drop' = [drop EXCEPT ![p] = None]
  /\ UNCHANGED <<cwd, fd, call, puts>>
-----------------------------------------------------------------------------
(* The parts of the system calls *)

\* The step of p: the file system becomes s, its call c, and iput() is called for rest.
Do(p, s, c, rest) ==
  /\ fs' = s
  /\ call' = [call EXCEPT ![p] = c]
  /\ puts' = [puts EXCEPT ![p] = rest]

\* p is at l and can lock inode i.
AtLock(p, l, i) == NoPuts(p) /\ call[p].pc = l /\ fs.lock[i] = None

ParentOps == {"create", "mkdir", "unlink", "link2"}

\* begin_op() and the start of namex().
Call(p, c) ==
  /\ NoPuts(p) /\ call[p].pc = "idle"
  /\ c.op \in {"open", "create"} => fd[p] = None
  /\ LET i == IF c.from = "root" THEN ROOTINO ELSE cwd[p]
     IN  Do(p, Iget(fs, i),
            [Idle EXCEPT !.pc = "walk", !.op = c.op, !.path = c.path, !.new = c.new, !.at = i],
            <<>>)
  /\ UNCHANGED <<cwd, fd, drop>>

\* The call when namex() returns 0.
NotFound(c) == IF c.op = "link2" THEN [c EXCEPT !.pc = "link_bad", !.at = None] ELSE Idle

\* One round of namex()'s loop: ilock(), the type, the last element for
\* nameiparent(), dirlookup(), iunlock() and iput().
Walk(p) ==
  LET c == call[p]
      s == Ilock(fs, c.at, p)
      u == Iunlock(s, c.at)
      next == fs.ents[c.at][Head(c.path)]
  IN  /\ AtLock(p, "walk", c.at) /\ c.path # <<>>
      /\ \/ /\ s.mem[c.at].type # "dir"
            /\ Do(p, u, NotFound(c), <<c.at>>)
         \/ /\ s.mem[c.at].type = "dir" /\ c.op \in ParentOps /\ Len(c.path) = 1
            /\ Do(p, u, [c EXCEPT !.pc = "dir"], <<>>)
         \/ /\ s.mem[c.at].type = "dir" /\ ~(c.op \in ParentOps /\ Len(c.path) = 1)
            /\ next = 0
            /\ Do(p, u, NotFound(c), <<c.at>>)
         \/ /\ s.mem[c.at].type = "dir" /\ ~(c.op \in ParentOps /\ Len(c.path) = 1)
            /\ next # 0
            /\ Do(p, Iget(u, next), [c EXCEPT !.at = next, !.path = Tail(@)], <<c.at>>)
      /\ UNCHANGED <<cwd, fd, drop>>

\* p is at l, has looked up the directory dp of its call and locks it.
AtDir(p, o) == call[p].op = o /\ AtLock(p, "dir", call[p].at)

Name(p) == Head(call[p].path)
Entry(p) == fs.ents[call[p].at][Name(p)]
-----------------------------------------------------------------------------
(* sys_unlink() *)

UnlinkLookup(p) ==
  LET c == call[p]
      s == Ilock(fs, c.at, p)
  IN  /\ AtDir(p, "unlink")
      /\ IF Entry(p) = 0 \/ Name(p) = ".."
         THEN Do(p, Iunlock(s, c.at), Idle, <<c.at>>)
         ELSE Do(p, Iget(s, Entry(p)), [c EXCEPT !.pc = "unlink_ip", !.tgt = Entry(p)], <<>>)
      /\ UNCHANGED <<cwd, fd, drop>>

IsDirEmpty(s, i) == \A n \in Names : s.ents[i][n] = 0

UnlinkEntry(p) ==
  LET c == call[p]
      s == Ilock(fs, c.tgt, p)
      isdir == s.mem[c.tgt].type = "dir"
      erased == [s EXCEPT !.ents[c.at][Name(p)] = 0]
  IN  /\ AtLock(p, "unlink_ip", c.tgt)
      /\ IF isdir /\ ~IsDirEmpty(s, c.tgt)
         THEN Do(p, Iunlock(s, c.tgt), [c EXCEPT !.pc = "bad", !.tgt = None], <<c.tgt>>)
         ELSE Do(p, PanicIf(Iunlock(IF isdir THEN SetNlink(erased, c.at, fs.mem[c.at].nlink - 1)
                                             ELSE erased, c.at),
                            s.mem[c.tgt].nlink < 1),
                 [c EXCEPT !.pc = "unlink_drop", !.at = None], <<c.at>>)
      /\ UNCHANGED <<cwd, fd, drop>>

\* ip->nlink--; iupdate(ip)
Unlinked(s, i) == SetNlink(s, i, s.mem[i].nlink - 1)

UnlinkDrop(p) ==
  LET c == call[p] IN
  /\ NoPuts(p) /\ c.pc = "unlink_drop"
  /\ Do(p, Iunlock(Unlinked(fs, c.tgt), c.tgt), Idle, <<c.tgt>>)
  /\ UNCHANGED <<cwd, fd, drop>>

\* The failure exits of sys_unlink() and create() that still hold dp.
Bad(p) ==
  LET c == call[p] IN
  /\ NoPuts(p) /\ c.pc = "bad"
  /\ Do(p, Iunlock(fs, c.at), Idle, <<c.at>>)
  /\ UNCHANGED <<cwd, fd, drop>>
-----------------------------------------------------------------------------
(* create(), sys_mkdir(), sys_open() *)

CreateLookup(p) ==
  LET c == call[p]
      s == Ilock(fs, c.at, p)
      type == IF c.op = "mkdir" THEN "dir" ELSE "file"
  IN  /\ AtDir(p, "create") \/ AtDir(p, "mkdir")
      /\ \/ /\ Entry(p) # 0
            /\ Do(p, Iunlock(Iget(s, Entry(p)), c.at),
                  [c EXCEPT !.pc = "create_old", !.at = None, !.tgt = Entry(p)], <<c.at>>)
         \/ /\ Entry(p) = 0 /\ FreeInums = {}
            /\ Do(p, Iunlock(s, c.at), Idle, <<c.at>>)
         \/ /\ Entry(p) = 0 /\ FreeInums # {}
            /\ Do(p, Ialloc(s, FirstInum, type),
                  [c EXCEPT !.pc = "create_new", !.tgt = FirstInum], <<>>)
      /\ UNCHANGED <<cwd, fd, drop>>

\* Mutant: iunlock() instead of iunlockput() after a failure.
OpenEndLeaks(p, s, i, ok) ==
  /\ Do(p, Iunlock(s, i), Idle, <<>>)
  /\ fd' = [fd EXCEPT ![p] = IF ok THEN i ELSE @]

\* The rest of sys_open() with i locked in s: filealloc() and fdalloc() may fail.
OpenEnd(p, s, i, ok) ==
  IF ok THEN Do(p, Iunlock(s, i), Idle, <<>>) /\ fd' = [fd EXCEPT ![p] = i]
        ELSE Do(p, Iunlock(s, i), Idle, <<i>>) /\ UNCHANGED fd

CreateOld(p, ok) ==
  LET c == call[p]
      s == Ilock(fs, c.tgt, p)
  IN  /\ AtLock(p, "create_old", c.tgt)
      /\ IF c.op = "create" /\ s.mem[c.tgt].type = "file"
         THEN OpenEnd(p, s, c.tgt, ok)
         ELSE Do(p, Iunlock(s, c.tgt), Idle, <<c.tgt>>) /\ UNCHANGED fd
      /\ UNCHANGED <<cwd, drop>>

\* dirlink() fails when writei() gets no block: done tells how far create() comes.
CreateNew(p, done) ==
  LET c == call[p]
      s == SetNlink(Ilock(fs, c.tgt, p), c.tgt, 1)
      isdir == c.op = "mkdir"
      dots == IF isdir /\ done # "nothing" THEN [s EXCEPT !.ents[c.tgt][".."] = c.at] ELSE s
      named == [dots EXCEPT !.ents[c.at][Name(p)] = c.tgt]
  IN  /\ AtLock(p, "create_new", c.tgt)
      /\ IF done = "named"
         THEN Do(p, Iunlock(IF isdir THEN SetNlink(named, c.at, s.mem[c.at].nlink + 1)
                                     ELSE named, c.at),
                 [c EXCEPT !.pc = "create_end", !.at = None], <<c.at>>)
         ELSE Do(p, Iunlock(SetNlink(dots, c.tgt, 0), c.tgt),
                 [c EXCEPT !.pc = "bad", !.tgt = None], <<c.tgt>>)
      /\ UNCHANGED <<cwd, fd, drop>>

CreateEnd(p, ok) ==
  LET c == call[p] IN
  /\ NoPuts(p) /\ c.pc = "create_end"
  /\ IF c.op = "create" THEN OpenEnd(p, fs, c.tgt, ok)
                        ELSE Do(p, Iunlock(fs, c.tgt), Idle, <<c.tgt>>) /\ UNCHANGED fd
  /\ UNCHANGED <<cwd, drop>>

\* namei() has found the inode: path is empty.
AtInode(p, o) == call[p].op = o /\ call[p].path = <<>> /\ AtLock(p, "walk", call[p].at)

\* Without O_CREATE; a directory is opened for reading only (else ok = FALSE).
Open(p, ok) ==
  /\ AtInode(p, "open")
  /\ OpenEnd(p, Ilock(fs, call[p].at, p), call[p].at, ok)
  /\ UNCHANGED <<cwd, drop>>

\* sys_close(), when it is the last reference to the file.
Close(p) ==
  /\ NoPuts(p) /\ call[p].pc = "idle" /\ fd[p] # None
  /\ Do(p, fs, Idle, <<fd[p]>>)
  /\ fd' = [fd EXCEPT ![p] = None]
  /\ UNCHANGED <<cwd, drop>>

Chdir(p) ==
  LET c == call[p]
      s == Ilock(fs, c.at, p)
      u == Iunlock(s, c.at)
  IN  /\ AtInode(p, "chdir")
      /\ IF s.mem[c.at].type = "dir"
         THEN Do(p, u, Idle, <<cwd[p]>>) /\ cwd' = [cwd EXCEPT ![p] = c.at]
         ELSE Do(p, u, Idle, <<c.at>>) /\ UNCHANGED cwd
      /\ UNCHANGED <<fd, drop>>
-----------------------------------------------------------------------------
(* sys_link() *)

\* The count goes up first; then nameiparent(new) starts.
LinkOld(p) ==
  LET c == call[p]
      s == Ilock(fs, c.at, p)
      more == Iunlock(SetNlink(s, c.at, s.mem[c.at].nlink + 1), c.at)
  IN  /\ AtInode(p, "link")
      /\ IF s.mem[c.at].type = "dir"
         THEN Do(p, Iunlock(s, c.at), Idle, <<c.at>>)
         ELSE Do(p, Iget(more, cwd[p]),
                 [c EXCEPT !.op = "link2", !.path = c.new, !.at = cwd[p], !.tgt = c.at], <<>>)
      /\ UNCHANGED <<cwd, fd, drop>>

\* dirlink() in dp; it fails for a name in use and when there is no block.  The
\* reference that dirlookup() takes to an inode of that name is dropped at once, under
\* the lock of dp: the entry exists, so it cannot be the last of an unlinked inode.
LinkNew(p, linked) ==
  LET c == call[p]
      s == Ilock(fs, c.at, p)
  IN  /\ AtDir(p, "link2")
      /\ IF Entry(p) = 0 /\ linked
         THEN Do(p, Iunlock([s EXCEPT !.ents[c.at][Name(p)] = c.tgt], c.at), Idle,
                 <<c.at, c.tgt>>)
         ELSE Do(p, Iunlock(s, c.at), [c EXCEPT !.pc = "link_bad", !.at = None], <<c.at>>)
      /\ UNCHANGED <<cwd, fd, drop>>

\* Mutant: the count is not taken back.
LinkUndoneNot(s, i) == s

\* ip->nlink--; iupdate(ip)
LinkUndone(s, i) == SetNlink(s, i, s.mem[i].nlink - 1)

LinkBad(p) ==
  LET c == call[p] IN
  /\ AtLock(p, "link_bad", c.tgt)
  /\ Do(p, Iunlock(LinkUndone(Ilock(fs, c.tgt, p), c.tgt), c.tgt), Idle, <<c.tgt>>)
  /\ UNCHANGED <<cwd, fd, drop>>
-----------------------------------------------------------------------------
Step(p) ==
  \/ \E c \in Calls : Call(p, c)
  \/ Walk(p) \/ IputKeep(p) \/ IputFree(p) \/ IputDrop(p)
  \/ UnlinkLookup(p) \/ UnlinkEntry(p) \/ UnlinkDrop(p) \/ Bad(p)
  \/ CreateLookup(p)
  \/ \E ok \in BOOLEAN : CreateOld(p, ok) \/ CreateEnd(p, ok) \/ Open(p, ok)
  \/ \E done \in {"nothing", "dots", "named"} : CreateNew(p, done)
  \/ Close(p) \/ Chdir(p) \/ LinkOld(p) \/ LinkBad(p)
  \/ \E linked \in BOOLEAN : LinkNew(p, linked)

Next == \E p \in Procs : Step(p)

Spec == Init /\ [][Next]_vars
-----------------------------------------------------------------------------
(* Properties *)

\* The references that processes have to inode i.
Refs(i) ==
  Cardinality({p \in Procs : cwd[p] = i}) + Cardinality({p \in Procs : fd[p] = i})
  + Cardinality({p \in Procs : call[p].at = i}) + Cardinality({p \in Procs : call[p].tgt = i})
  + Cardinality({p \in Procs : drop[p] = i})
  + Cardinality({x \in Procs \X (1..2) : x[2] <= Len(puts[x[1]]) /\ puts[x[1]][x[2]] = i})

\* iget()/idup()/iput(): ip->ref counts the pointers to the entry exactly, on every
\* path through the calls.
RefsExact == \A i \in Inums : fs.ref[i] = Refs(i)

\* iupdate()/iput()/ialloc(): a valid entry agrees with the disk, also when ialloc()
\* reuses an inode that iput() has freed but not dropped yet.
CacheCoherent == \A i \in Inums : fs.valid[i] /\ fs.ref[i] > 0 => fs.mem[i] = fs.dino[i]

\* iput(): the inode of an open file or a working directory has not been freed, and
\* the panics of ilock(), iget(), sys_unlink() and, through iput(), sched() are not
\* reached.
InUseNotFreed ==
  /\ ~fs.panicked
  /\ \A p \in Procs : \A i \in {fd[p], cwd[p]} \ {None} : fs.dino[i].type # "none"

\* Inode d has an entry in a directory, or is the root.
Named(d) == d = ROOTINO \/ \E x \in Inums \X Names : fs.ents[x[1]][x[2]] = d

\* Entries for i in directories, and the ".." entries of directories that are named.
Links(i) ==
  Cardinality({x \in Inums \X Names : fs.ents[x[1]][x[2]] = i})
  + Cardinality({d \in Inums : Named(d) /\ fs.ents[d][".."] = i})

\* The link that a call has counted and not yet made, or erased and not yet uncounted.
Pending(i) ==
  Cardinality({p \in Procs : call[p].tgt = i /\
                 (call[p].op = "link2" \/ call[p].pc = "unlink_drop")})

\* sys_link()/sys_unlink()/create(): nlink is the number of directory entries, and a
\* call between its two updates accounts for the difference.
LinksExact == \A i \in Inums : fs.dino[i].nlink = Links(i) + Pending(i)

\* iput(): an allocated inode without links is still referred to, so it will be freed.
NoOrphan ==
  \A i \in Inums : fs.dino[i].type # "none" /\ fs.dino[i].nlink = 0 => fs.ref[i] > 0
=============================================================================
