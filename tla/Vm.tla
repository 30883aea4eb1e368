--------------------------------- MODULE Vm ---------------------------------
(***************************************************************************)
(* Memory: the page allocator (kernel/kalloc.c), user page tables          *)
(* (kernel/vm.c, proc_pagetable() in kernel/proc.c) and the operations     *)
(* that build and free them: fork(), exec(), growproc(), freeproc() and    *)
(* the trapframe copy of sigalarm()/sigreturn().                           *)
(*                                                                         *)
(* Page tables are private to a process and only kalloc() and kfree() take *)
(* a lock.  An operation is therefore one action, in which other CPUs show *)
(* only as kalloc() failing at any point: fuel is the number of pages that *)
(* the operation gets.  Pages are counted, and every place that may hold a *)
(* page is modelled, so a page lost or freed twice upsets the sum.         *)
(***************************************************************************)
EXTENDS Integers, Sequences, FiniteSets

CONSTANTS Procs,
          NPAGES,   \* pages of physical memory
          PGSIZE,   \* units of sz per page; more than 1, so that sz may be unaligned
          MAXSZ,    \* bound on p->sz
          Images,   \* programs: the end (vaddr + memsz) of each segment, in order
          Grow,     \* arguments of sbrk()
          REARM     \* programs call sigalarm() inside the handler

ASSUME VmConstants ==
  /\ NPAGES \in Nat /\ PGSIZE \in Nat \ {0} /\ MAXSZ \in Nat /\ Grow \subseteq Int
  /\ REARM \in BOOLEAN

VARIABLES
  free,   \* pages on kmem.freelist
  proc,   \* per slot: used, frame (p->trapframe), pt, sz, backup (p->trap_backup), alarm
  panic   \* "vm": one of the panics of vm.c; "null": a null pointer is used

vars == <<free, proc, panic>>

PGROUNDUP(n) == (n + PGSIZE - 1) \div PGSIZE   \* in pages

NoPt == [exists |-> FALSE, top |-> 0, low |-> 0, tramp |-> FALSE, tf |-> FALSE, leaf |-> {}]

\* freeproc() leaves a slot like this.
Unused == [used |-> FALSE, frame |-> FALSE, pt |-> NoPt, sz |-> 0,
           backup |-> FALSE, alarm |-> "off"]

\* A page table: top and low are the numbers of table pages below the root for
\* the highest addresses (trampoline, trapframe) and for user memory, leaf the
\* user pages that are mapped.
EmptyPt == [NoPt EXCEPT !.exists = TRUE]

PtPages(t) == IF t.exists THEN 1 + t.top + t.low + Cardinality(t.leaf) ELSE 0
-----------------------------------------------------------------------------
(* The state m of an operation: free, fuel, the page table pt, ok, panic *)

Begin(fuel, t) == [free |-> free, fuel |-> fuel, pt |-> t, ok |-> TRUE, panic |-> panic]

Kalloc(m) == IF m.fuel = 0 THEN [m EXCEPT !.ok = FALSE]
                           ELSE [m EXCEPT !.fuel = @ - 1, !.free = @ - 1]
Kfree(m, n) == [m EXCEPT !.free = @ + n]
PanicIf(m, c) == IF c THEN [m EXCEPT !.panic = "vm"] ELSE m

\* One level of walk() with alloc: r is "top" or "low".
Level(m, r) ==
  IF ~m.ok \/ m.pt[r] = 2 THEN m
  ELSE LET k == Kalloc(m) IN IF k.ok THEN [k EXCEPT !.pt[r] = @ + 1] ELSE k
Walk(m, r) == Level(Level(m, r), r)

\* mappages() of the trampoline or the trapframe.
MapTop(m, f) ==
  LET w == Walk(m, "top") IN
  IF w.ok THEN PanicIf([w EXCEPT !.pt[f] = TRUE], w.pt[f]) ELSE w

\* mappages() of user page v.
MapUser(m, v) ==
  LET w == Walk(m, "low") IN
  IF w.ok THEN PanicIf([w EXCEPT !.pt.leaf = @ \cup {v}], v \in w.pt.leaf) ELSE w

\* uvmunmap() with do_free of the user pages lo..hi - 1.
UvmUnmap(m, lo, hi) ==
  PanicIf(Kfree([m EXCEPT !.pt.leaf = @ \ lo..(hi - 1)], Cardinality(lo..(hi - 1))),
          ~(lo..(hi - 1) \subseteq m.pt.leaf))

\* freewalk(): all leaves must be gone.
Freewalk(m) ==
  PanicIf(Kfree([m EXCEPT !.pt = NoPt], 1 + m.pt.top + m.pt.low),
          m.pt.leaf # {} \/ m.pt.tramp \/ m.pt.tf)

UvmFree(m, sz) == Freewalk(UvmUnmap(m, 0, PGROUNDUP(sz)))

\* proc_freepagetable(): the trampoline and the trapframe are unmapped, not freed.
ProcFreePagetable(m, sz) ==
  UvmFree(PanicIf([m EXCEPT !.pt.tramp = FALSE, !.pt.tf = FALSE], ~(m.pt.tramp /\ m.pt.tf)), sz)

ProcPagetable(m) ==
  LET k == Kalloc(m)
      t == MapTop([k EXCEPT !.pt = EmptyPt], "tramp")
      f == MapTop(t, "tf")
  IN  IF ~k.ok THEN k
      ELSE IF ~t.ok THEN UvmFree(t, 0)
      ELSE IF ~f.ok THEN UvmFree([f EXCEPT !.pt.tramp = FALSE], 0)
      ELSE f

\* Mutant: newsz is rounded down.
UvmDeallocDown(m, oldsz, newsz) ==
  IF newsz >= oldsz THEN m ELSE UvmUnmap(m, newsz \div PGSIZE, PGROUNDUP(oldsz))

UvmDealloc(m, oldsz, newsz) ==
  IF newsz >= oldsz THEN m ELSE UvmUnmap(m, PGROUNDUP(newsz), PGROUNDUP(oldsz))

\* uvmalloc() when mappages() fails for page a: mem is freed too.
UvmAllocUndo(m, a, base) == UvmDealloc(Kfree(m, 1), a * PGSIZE, base * PGSIZE)

RECURSIVE UvmAllocFrom(_, _, _, _)
UvmAllocFrom(m, a, base, newsz) ==
  LET k == Kalloc(m)
      w == MapUser(k, a)
  IN  IF a * PGSIZE >= newsz THEN m
      ELSE IF ~k.ok THEN UvmDealloc(k, a * PGSIZE, base * PGSIZE)
      ELSE IF ~w.ok THEN UvmAllocUndo(w, a, base)
      ELSE UvmAllocFrom(w, a + 1, base, newsz)

UvmAlloc(m, oldsz, newsz) ==
  IF newsz < oldsz THEN m ELSE UvmAllocFrom(m, PGROUNDUP(oldsz), PGROUNDUP(oldsz), newsz)

\* err: of uvmcopy()
UvmCopyUndo(m, i) == UvmUnmap(m, 0, i)

RECURSIVE UvmCopyFrom(_, _, _, _)
UvmCopyFrom(m, old, i, sz) ==
  LET k == Kalloc(PanicIf(m, i \notin old.leaf))
      w == MapUser(k, i)
  IN  IF i * PGSIZE >= sz THEN m
      ELSE IF ~k.ok THEN UvmCopyUndo(k, i)
      ELSE IF ~w.ok THEN UvmCopyUndo(Kfree(w, 1), i)
      ELSE UvmCopyFrom(w, old, i + 1, sz)

UvmCopy(m, old, sz) == UvmCopyFrom(m, old, 0, sz)
-----------------------------------------------------------------------------
(* The operations *)

Running(p) == panic = "no" /\ proc[p].used

\* The end of an operation of p that leaves the slot r.
Done(p, m, r) ==
  /\ free' = m.free /\ panic' = m.panic
  /\ proc' = [proc EXCEPT ![p] = r]

\* userinit(): with all of memory free nothing fails.
Init ==
  LET m == MapUser([ProcPagetable([free |-> NPAGES - 1, fuel |-> NPAGES, pt |-> NoPt,
                                   ok |-> TRUE, panic |-> "no"])
                    EXCEPT !.free = @ - 1], 0)
  IN  /\ free = m.free /\ panic = m.panic
      /\ \E p0 \in Procs :
           proc = [p \in Procs |-> IF p = p0 THEN [Unused EXCEPT !.used = TRUE, !.frame = TRUE,
                                                   !.pt = m.pt, !.sz = PGSIZE]
                                             ELSE Unused]

\* The child's slot after freeproc(): the trapframe and, if there is one, the page
\* table with size sz are freed.
FreeProc(m, frame, backup, sz) ==
  LET n == Kfree(m, Cardinality({x \in {<<"frame", frame>>, <<"backup", backup>>} : x[2]}))
  IN  IF m.pt.exists THEN ProcFreePagetable(n, sz) ELSE n

\* fork() and allocproc() into slot q.
Fork(p, q, fuel) ==
  LET f == Kalloc(Begin(fuel, NoPt))
      t == ProcPagetable(f)
      c == UvmCopy(t, proc[p].pt, proc[p].sz)
  IN  /\ Running(p) /\ ~proc[q].used
      /\ \/ /\ ~f.ok
            /\ Done(q, FreeProc(f, FALSE, FALSE, 0), Unused)
         \/ /\ f.ok /\ ~t.ok
            /\ Done(q, FreeProc(t, TRUE, FALSE, 0), Unused)
         \/ /\ f.ok /\ t.ok /\ ~c.ok
            /\ Done(q, FreeProc(c, TRUE, FALSE, 0), Unused)
         \/ /\ f.ok /\ t.ok /\ c.ok
            /\ Done(q, c, [Unused EXCEPT !.used = TRUE, !.frame = TRUE, !.pt = c.pt,
                                         !.sz = proc[p].sz])

\* growproc(n): sz + n is unsigned, so a negative sum is a very large number, which
\* uvmdealloc() takes for no shrinking.
Sbrk(p, n, fuel) ==
  LET r == proc[p]
      m == Begin(fuel, r.pt)
      a == UvmAlloc(m, r.sz, r.sz + n)
      d == IF r.sz + n < 0 THEN m ELSE UvmDealloc(m, r.sz, r.sz + n)
      g == IF n > 0 THEN a ELSE d
      newsz == IF g.ok /\ r.sz + n >= 0 THEN r.sz + n ELSE r.sz
  IN  /\ Running(p) /\ r.sz + n <= MAXSZ
      /\ Done(p, g, [r EXCEPT !.pt = g.pt, !.sz = newsz])

\* The loop of exec() over the segments from i on; loadseg() of segment bad fails.
RECURSIVE Load(_, _, _, _, _)
Load(m, image, i, sz, bad) ==
  LET a == UvmAlloc(m, sz, image[i])
      newsz == IF image[i] < sz THEN sz ELSE image[i]
  IN  IF i > Len(image) THEN [m |-> m, sz |-> sz]
      ELSE IF ~a.ok \/ newsz = 0 THEN [m |-> [a EXCEPT !.ok = FALSE], sz |-> sz]
      ELSE IF i = bad THEN [m |-> [a EXCEPT !.ok = FALSE], sz |-> newsz]
      ELSE Load(a, image, i + 1, newsz, bad)

\* The size that bad: in exec() hands to proc_freepagetable().
BadSz(p, sz) == sz

\* exec() of an image; bad is the segment, or argument list, that is not in order.
Exec(p, image, bad, fuel) ==
  LET r == proc[p]
      t == ProcPagetable(Begin(fuel, NoPt))
      l == Load(t, image, 1, 0, bad)
      base == PGROUNDUP(l.sz) * PGSIZE
      s == UvmAlloc(l.m, base, base + 2 * PGSIZE)
      sz == base + 2 * PGSIZE
      Fail(m, n) == Done(p, ProcFreePagetable(m, BadSz(p, n)), r)
  IN  /\ Running(p)
      /\ \/ ~t.ok /\ Done(p, t, r)
         \/ t.ok /\ ~l.m.ok /\ Fail(l.m, l.sz)
         \/ t.ok /\ l.m.ok /\ ~s.ok /\ Fail(s, base)
         \/ t.ok /\ l.m.ok /\ s.ok /\ bad = Len(image) + 1 /\ Fail(s, sz)
         \/ /\ t.ok /\ l.m.ok /\ s.ok /\ bad # Len(image) + 1
            /\ LET old == ProcFreePagetable([s EXCEPT !.pt = r.pt], r.sz)
               IN  Done(p, old, [r EXCEPT !.pt = s.pt, !.sz = sz])

\* wait() frees the zombie: freeproc().  Some process, init, never exits; which slot it
\* has makes no difference to memory.
ExitWait(p) ==
  /\ Running(p) /\ \E q \in Procs \ {p} : proc[q].used
  /\ Done(p, FreeProc(Begin(0, proc[p].pt), proc[p].frame, proc[p].backup, proc[p].sz), Unused)

SigAlarm(p, on) ==
  /\ Running(p)
  /\ proc[p].alarm = "running" => REARM
  /\ Done(p, Begin(0, NoPt), [proc[p] EXCEPT !.alarm = IF on THEN "armed" ELSE "off"])

\* usertrap(): the alarm is due.  kalloc() is not checked.
AlarmFires(p, fuel) ==
  LET k == Kalloc(Begin(fuel, NoPt)) IN
  /\ Running(p) /\ proc[p].alarm = "armed"
  /\ IF k.ok THEN Done(p, k, [proc[p] EXCEPT !.alarm = "running", !.backup = TRUE])
             ELSE panic' = "null" /\ UNCHANGED <<free, proc>>

\* Mutant: sigreturn() does not free the copy.
SigReturnPagesNone(p) == 0

SigReturnPages(p) == IF proc[p].backup THEN 1 ELSE 0

\* Programs call sigreturn() at the end of the handler.
SigReturn(p) ==
  /\ Running(p) /\ proc[p].backup
  /\ Done(p, Kfree(Begin(0, NoPt), SigReturnPages(p)),
          [proc[p] EXCEPT !.backup = FALSE, !.alarm = IF @ = "running" THEN "armed" ELSE @])

Step(p) ==
  \/ \E q \in Procs, fuel \in 0..free : Fork(p, q, fuel)
  \/ \E n \in Grow, fuel \in 0..free : Sbrk(p, n, fuel)
  \/ \E image \in Images, fuel \in 0..free : \E bad \in 0..Len(image) + 1 :
       Exec(p, image, bad, fuel)
  \/ ExitWait(p)
  \/ \E on \in BOOLEAN : SigAlarm(p, on)
  \/ \E fuel \in 0..free : AlarmFires(p, fuel)
  \/ SigReturn(p)

Next == \E p \in Procs : Step(p)

Spec == Init /\ [][Next]_vars
-----------------------------------------------------------------------------
(* Properties *)

\* Pages that belong to process p.
Owned(p) ==
  PtPages(proc[p].pt) + (IF proc[p].frame THEN 1 ELSE 0) + (IF proc[p].backup THEN 1 ELSE 0)

RECURSIVE SumOwned(_)
SumOwned(S) == IF S = {} THEN 0
               ELSE LET p == CHOOSE x \in S : TRUE IN Owned(p) + SumOwned(S \ {p})

\* kalloc()/kfree(): however an operation ends, every page is either free or owned
\* by a process: none is lost and none is freed twice.
PagesConserved == free + SumOwned(Procs) = NPAGES

\* uvmalloc()/uvmdealloc()/exec()/fork(): a process has exactly the pages of its
\* size, whatever failed before, and the two pages that usertrapret() needs; so the
\* panics of mappages(), uvmunmap(), uvmcopy() and freewalk() are not reached.
SizeMatchesMapping ==
  /\ panic # "vm"
  /\ \A p \in Procs : proc[p].used =>
       /\ proc[p].pt.leaf = 0..(PGROUNDUP(proc[p].sz) - 1)
       /\ proc[p].pt.tramp /\ proc[p].pt.tf
=============================================================================
