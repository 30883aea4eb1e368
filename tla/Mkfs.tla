-------------------------------- MODULE Mkfs --------------------------------
(***************************************************************************)
(* mkfs/mkfs.c, which builds the first file system image, and what the     *)
(* kernel makes of that image: the invariants of Content.  A block holds   *)
(* BSIZE units as in Content; a unit of the root directory is an entry,    *)
(* kept as its inode number, and the units of file i have the value i.     *)
(***************************************************************************)
EXTENDS Content

CONSTANTS FSSIZE,         \* blocks of the image
          NLOGBLOCKS,     \* nlog
          NINODES, IPB,   \* inodes, and inodes per block
          BPB,            \* bits per block
          MAXMKFILES      \* bound: files on the command line

ninodeblocks == NINODES \div IPB + 1
nbitmap == FSSIZE \div BPB + 1
inodestart == 2 + NLOGBLOCKS
bmapstart == inodestart + ninodeblocks
nmeta == 2 + NLOGBLOCKS + ninodeblocks + nbitmap
ROOTINO == 1

ASSUME MkfsConstants ==
  /\ {FSSIZE, NLOGBLOCKS, NINODES, IPB, BPB} \subseteq Nat \ {0} /\ MAXMKFILES \in Nat
  /\ nmeta < FSSIZE

VARIABLES
  image,   \* inodes, data blocks and bitmap as written to fs.img
  next,    \* freeinode and freeblock
  stage    \* where main() is

mkfsVars == <<image, next, stage>>

NoInode == [type |-> "none", nlink |-> 0, size |-> 0, addrs |-> [k \in 0..NDIRECT |-> 0]]

\* The start of main(), up to the superblock.
MkfsInit ==
  /\ image = [ino |-> [i \in 1..(NINODES - 1) |-> NoInode],
              blk |-> [b \in nmeta..(FSSIZE - 1) |-> Zeros],
              map |-> {}]
  /\ next = [inode |-> ROOTINO, block |-> nmeta]
  /\ stage = "root"

\* ialloc()
MkIalloc(g, i, t) == [g EXCEPT !.ino[i] = [NoInode EXCEPT !.type = t, !.nlink = 1]]

\* iappend(): the block of the image g for block fbn of inode i is found, or taken
\* from freeblock f on.
MkBlock(g, f, i, fbn) ==
  LET ind == g.ino[i].addrs[NDIRECT] IN
  IF fbn < NDIRECT
  THEN IF g.ino[i].addrs[fbn] # 0 THEN [g |-> g, f |-> f, x |-> g.ino[i].addrs[fbn]]
       ELSE [g |-> [g EXCEPT !.ino[i].addrs[fbn] = f], f |-> f + 1, x |-> f]
  ELSE LET at == IF ind = 0 THEN f ELSE ind
           f1 == IF ind = 0 THEN f + 1 ELSE f
           h == [g EXCEPT !.ino[i].addrs[NDIRECT] = at]
           b == h.blk[at][fbn - NDIRECT]
       IN  IF b # 0 THEN [g |-> h, f |-> f1, x |-> b]
           ELSE [g |-> [h EXCEPT !.blk[at][fbn - NDIRECT] = f1], f |-> f1 + 1, x |-> f1]

Fbn(off) == off \div BSIZE

\* iappend() of one unit; n units are appended one by one, which differs from the
\* code's pieces only in how often a block is read and written.
Put(gf, i, v) ==
  LET off == gf.g.ino[i].size
      m == MkBlock(gf.g, gf.f, i, Fbn(off))
  IN  [g |-> [m.g EXCEPT !.blk[m.x][off % BSIZE] = v, !.ino[i].size = off + 1], f |-> m.f]

\* n times v to inode i.
Iappend(g, f, i, v, n) ==
  FoldFunction(LAMBDA u, gf : Put(gf, i, u), [g |-> g, f |-> f], [k \in 1..n |-> v])

\* assert(fbn < MAXFILE); that the image has room is assumed, as mkfs does not check it.
MkRoom(i, n) == /\ Fbn(image.ino[i].size + n - 1) < MAXFILE
                /\ next.block + 1 + n <= FSSIZE

\* The root directory with . and ..
MkRoot ==
  /\ stage = "root"
  /\ LET r == Iappend(MkIalloc(image, ROOTINO, "dir"), next.block, ROOTINO, ROOTINO, 2) IN
     image' = r.g /\ next' = [inode |-> next.inode + 1, block |-> r.f]
  /\ stage' = "files"

\* The next file on the command line: ialloc() and its entry.
MkFile ==
  /\ stage = "files"
  /\ next.inode <= MAXMKFILES + 1 /\ next.inode < NINODES /\ MkRoom(ROOTINO, 1)
  /\ LET r == Iappend(MkIalloc(image, next.inode, "file"), next.block, ROOTINO, next.inode, 1) IN
     image' = r.g /\ next' = [inode |-> next.inode + 1, block |-> r.f]
  /\ UNCHANGED stage

\* One read() of that file returns n units.
MkRead(n) ==
  /\ stage = "files" /\ next.inode > ROOTINO + 1
  /\ LET i == next.inode - 1
         r == Iappend(image, next.block, i, i, n)
     IN  /\ MkRoom(i, n)
         /\ image' = r.g /\ next' = [next EXCEPT !.block = r.f]
  /\ UNCHANGED stage

\* Mutant: the last block is not marked.
UsedButLast(used) == 0..(used - 2)

\* The bits that balloc() sets.
UsedBits(used) == 0..(used - 1)

\* The root directory gets whole blocks, and the bitmap is written.
MkFinish ==
  /\ stage = "files" /\ next.block < BPB
  /\ image' = [image EXCEPT !.ino[ROOTINO].size = (@ \div BSIZE + 1) * BSIZE,
                            !.map = UsedBits(next.block)]
  /\ stage' = "done"
  /\ UNCHANGED next

MkfsNext == MkRoot \/ MkFile \/ (\E n \in 1..BSIZE : MkRead(n)) \/ MkFinish
-----------------------------------------------------------------------------
(* The image as Content sees it, which numbers the data blocks from 1. *)

nblocks == FSSIZE - nmeta
Rel(b) == IF b = 0 THEN 0 ELSE b - nmeta + 1
MkInums == 1..(NINODES - 1)
Indirects == {image.ino[i].addrs[NDIRECT] : i \in MkInums}
MkIp == [i \in MkInums |-> [size |-> image.ino[i].size,
                            addrs |-> [k \in 0..NDIRECT |-> Rel(image.ino[i].addrs[k])]]]
MkDisk ==
  [used |-> {Rel(b) : b \in image.map \cap (nmeta..(FSSIZE - 1))},
   data |-> [b \in 1..nblocks |-> LET c == image.blk[b + nmeta - 1] IN
               IF b + nmeta - 1 \in Indirects THEN [k \in DOMAIN c |-> Rel(c[k])] ELSE c],
   stale |-> [b \in 1..nblocks |-> <<>>]]

\* The entries of the root directory, then free ones; a last block that holds no
\* entry has not been allocated.
RootEntries == <<ROOTINO, ROOTINO>> \o [k \in 1..(next.inode - 2) |-> k + 1]
MkImg ==
  [i \in MkInums |->
     [u \in 1..image.ino[i].size |->
        IF i # ROOTINO THEN {i}
        ELSE IF u <= Len(RootEntries) THEN {RootEntries[u]}
        ELSE IF Len(RootEntries) % BSIZE = 0 THEN {-1} ELSE {0}]]

Kernel == INSTANCE Content WITH
            NBLOCKS <- nblocks, Inums <- MkInums, disk <- MkDisk, ip <- MkIp, dinode <- MkIp, img <- MkImg,
            lock <- [i \in MkInums |-> None], file <- [f \in Files |-> None],
            call <- [p \in Procs |-> Idle], calls <- 0, panicked <- FALSE

\* main() of mkfs: the image that it leaves satisfies the kernel's invariants:
\* the bitmap has exactly the blocks of the metadata and those that one inode
\* refers to, every file reads back as it was given, the root directory has an
\* entry for each, and the inode and bitmap blocks that the kernel computes
\* (IBLOCK, BBLOCK) lie in their places.
ImageAsKernelExpects ==
  stage = "done" =>
    /\ Kernel!BlocksExact /\ Kernel!ContentsKept
    /\ 0..(nmeta - 1) \subseteq image.map /\ image.map \subseteq 0..(FSSIZE - 1)
    /\ \A i \in 1..(NINODES - 1) : inodestart + i \div IPB < bmapstart
    /\ \A b \in image.map : bmapstart + b \div BPB < nmeta
    /\ \A i \in 1..(next.inode - 1) : image.ino[i].nlink = 1
=============================================================================
