------------------------------ MODULE Umalloc -------------------------------
(***************************************************************************)
(* malloc() and free() of user/umalloc.c.  Addresses count units of one    *)
(* Header; base is a variable of the program and lies below the heap.      *)
(* The program may call sbrk() itself, so what morecore() gets need not    *)
(* follow what it got before.                                              *)
(***************************************************************************)
EXTENDS Naturals, FiniteSets

CONSTANTS MINCORE,      \* units that morecore() asks for at least
          HEAPTOP,      \* bound: sbrk() fails beyond this address
          Requests      \* bound: sizes in units, header included, of malloc() calls

ASSUME UmallocConstants ==
  /\ MINCORE \in Nat \ {0} /\ HEAPTOP \in Nat /\ Requests \subseteq Nat \ {0, 1}

base == 0
HeapStart == 2
NotYet == HEAPTOP + 1   \* freep before the first malloc()
Blank == [ptr |-> 0, size |-> 0]

VARIABLES
  heap,   \* the headers by address, freep, and the break
  held,   \* addresses of the blocks that the program has
  mine    \* units that the program has from sbrk()

heapVars == <<heap, held, mine>>

HeapInit ==
  /\ heap = [hdr |-> [a \in 0..HEAPTOP |-> Blank], freep |-> NotYet, brk |-> HeapStart]
  /\ held = {} /\ mine = {}

\* p is where the loop of free() stops.
Place(h, bp, p) ==
  LET q == h.hdr[p].ptr IN (bp > p /\ bp < q) \/ (p >= q /\ (bp > p \/ bp < q))

\* The free list from p on, in the order of its pointers.
RECURSIVE ListFrom(_, _, _)
ListFrom(h, p, seen) == IF p \in seen THEN seen ELSE ListFrom(h, h.hdr[p].ptr, seen \cup {p})
FreeList(h) == ListFrom(h, h.freep, {})

RECURSIVE Walk(_, _, _)
Walk(h, bp, p) == IF Place(h, bp, p) THEN p ELSE Walk(h, bp, h.hdr[p].ptr)

\* Mutant: the header is not counted.
JoinsLate(h, bp, next) == bp + h.hdr[bp].size + 1 = next

\* The block bp ends where the block next begins.
Joins(h, bp, next) == bp + h.hdr[bp].size = next

\* The tests of free() that merge; headers that are merged away are blanked, as
\* nothing reads them again.
Freed(h, bp) ==
  LET p == Walk(h, bp, h.freep)
      next == h.hdr[p].ptr
      up == IF Joins(h, bp, next)
            THEN [h.hdr EXCEPT ![bp] = [ptr |-> h.hdr[next].ptr,
                                        size |-> @.size + h.hdr[next].size], ![next] = Blank]
            ELSE [h.hdr EXCEPT ![bp].ptr = next]
      all == IF Joins(h, p, bp)
             THEN [up EXCEPT ![p] = [ptr |-> up[bp].ptr, size |-> @.size + up[bp].size],
                             ![bp] = Blank]
             ELSE [up EXCEPT ![p].ptr = bp]
  IN  [h EXCEPT !.hdr = all, !.freep = p]

\* sbrk(n)
CanGrow(h, n) == h.brk + n <= HEAPTOP
Grown(h, n) == [h EXCEPT !.brk = @ + n]

\* morecore()
Core(n) == IF n < MINCORE THEN MINCORE ELSE n
MoreCore(h, n) ==
  Freed([Grown(h, Core(n)) EXCEPT !.hdr[h.brk] = [ptr |-> 0, size |-> Core(n)]], h.brk)

\* A fit at p, after prevp: the whole block, or its tail.
Taken(h, prevp, p, n) ==
  LET a == p + h.hdr[p].size - n IN
  [at |-> a,
   heap |-> [h EXCEPT !.freep = prevp,
               !.hdr = IF a = p THEN [@ EXCEPT ![prevp].ptr = h.hdr[p].ptr, ![p].ptr = 0]
                       ELSE [@ EXCEPT ![p].size = @ - n, ![a] = [ptr |-> 0, size |-> n]]]]

\* The loop of malloc(); at is 0 when it returns 0.
RECURSIVE Search(_, _, _, _)
Search(h, prevp, p, n) ==
  IF h.hdr[p].size >= n THEN Taken(h, prevp, p, n)
  ELSE IF p # h.freep THEN Search(h, p, h.hdr[p].ptr, n)
  ELSE IF ~CanGrow(h, Core(n)) THEN [at |-> 0, heap |-> h]
  ELSE LET g == MoreCore(h, n) IN Search(g, g.freep, g.hdr[g.freep].ptr, n)

Started(h) == IF h.freep # NotYet THEN h ELSE [h EXCEPT !.freep = base, !.hdr[base] = Blank]

Malloc(n) ==
  LET h == Started(heap)
      r == Search(h, h.freep, h.hdr[h.freep].ptr, n)
  IN  /\ heap' = r.heap
      /\ held' = held \cup ({r.at} \ {0})
      /\ UNCHANGED mine

\* free() of a block that malloc() has returned.
FreeBlock(a) ==
  /\ a \in held
  /\ heap' = Freed(heap, a)
  /\ held' = held \ {a}
  /\ UNCHANGED mine

\* The program calls sbrk() for itself.
Sbrk ==
  /\ CanGrow(heap, 1)
  /\ heap' = Grown(heap, 1)
  /\ mine' = mine \cup {heap.brk}
  /\ UNCHANGED held

HeapNext == (\E n \in Requests : Malloc(n)) \/ (\E a \in held : FreeBlock(a)) \/ Sbrk
-----------------------------------------------------------------------------
Units(a) == a..(a + heap.hdr[a].size - 1)

\* malloc()/free()/morecore(): every unit below the break belongs to exactly one
\* block on the free list, one block of the program, or the program's own sbrk();
\* the free list is a ring in the order of addresses through base, and no two free
\* blocks touch, whatever the order in which blocks come and go.
HeapSound ==
  heap.freep # NotYet =>
    LET L == FreeList(heap)
        blocks == (L \ {base}) \cup held
    IN  /\ base \in L /\ L \cap held = {}
        /\ (UNION {Units(a) : a \in blocks}) \cup mine = HeapStart..(heap.brk - 1)
        /\ \A a, b \in blocks : a # b => Units(a) \cap Units(b) = {}
        /\ \A a \in blocks : Units(a) \cap mine = {}
        /\ \A a \in L : LET q == heap.hdr[a].ptr
                            above == {b \in L : b > a}
                        IN  /\ IF above = {} THEN q = base
                               ELSE q \in above /\ \A b \in above : q <= b
                            /\ a # base => a + heap.hdr[a].size # q
=============================================================================
