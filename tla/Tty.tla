--------------------------------- MODULE Tty --------------------------------
(***************************************************************************)
(* kernel/console.c and kernel/uart.c: processes in consoleread(),         *)
(* consolewrite(), kernel printf() and panic(), the interrupt handler      *)
(* uartintr(), and the UART.  consoleread() is one action from a wake-up   *)
(* to its next sleep() or its return, under cons.lock; consoleintr() keeps *)
(* cons.lock while it echoes.  uartputc_sync() looks at the line status    *)
(* and writes the transmit register without any lock, so these are two     *)
(* actions, and so they are in uartstart().                                *)
(***************************************************************************)
EXTENDS Naturals, Sequences, FiniteSets

CONSTANTS
  TtyProcs, Intr,               \* processes; the interrupt handler
  Plain, Newline, Eof, Return,  \* characters: control-d is Eof, '\r' is Return
  Backspace, KillLine, ProcDump, Nul, \* control-h, control-u, control-p, 0
  OutVals,                      \* characters of write()
  INPUT_BUF_SIZE, UART_TX_BUF_SIZE,
  UWRAP,                        \* cons.r, w, e are unsigned: modulo 2^32
  TWRAP,                        \* and uart_tx_r, w: modulo 2^64
  RXFIFO, TXFIFO,               \* depth of the UART's FIFOs
  Sessions,                     \* which calls processes make, and which keys are typed
  MAXREAD, MAXWRITE,            \* bounds on n of read() and write()
  Nil

Threads == TtyProcs \cup {Intr}
Stored == Plain \cup {Newline, Eof}

ASSUME TtyConstants ==
  /\ INPUT_BUF_SIZE \in Nat \ {0} /\ UART_TX_BUF_SIZE \in Nat \ {0}
  /\ UWRAP % INPUT_BUF_SIZE = 0 /\ UWRAP > INPUT_BUF_SIZE
  /\ TWRAP % UART_TX_BUF_SIZE = 0 /\ TWRAP > UART_TX_BUF_SIZE
  /\ TXFIFO >= Cardinality(Threads)   \* at most one thread per CPU writes it
  /\ Nil \notin OutVals \cup Stored \cup TtyProcs /\ Intr \notin TtyProcs

VARIABLES
  cons,      \* cons.buf, r, w, e
  conslock,  \* the handler holds cons.lock
  ring,      \* uart_tx_buf, uart_tx_r, uart_tx_w
  txlock,    \* the holder of uart_tx_lock
  prlock,    \* the holder of pr.lock
  locking,   \* pr.locking
  panicked,
  rx,        \* number of characters in the receive FIFO
  thr,       \* the transmit FIFO; Nil is a character of uartputc_sync()
  uirq,      \* the UART's interrupt is pending at the PLIC
  tpc,       \* where a thread is
  left,      \* n of consoleread(), and n - i of consolewrite()
  char,      \* c of uartstart(), between the ring and the UART
  sync,      \* how many characters a thread has to pass to uartputc_sync()
  job,       \* why: to echo, in printf(), or in panic()
  taken,     \* what a call of consoleread() has stored
  tkilled,   \* p->killed
  calls      \* the calls a process makes; at Intr, the keys that are typed

consVars == <<cons, conslock, taken, left, tkilled>>
outVars == <<ring, txlock>>
prVars == <<prlock, locking, panicked, sync, job>>
uartVars == <<rx, thr, uirq>>
ttyVars == <<consVars, outVars, prVars, uartVars, tpc, char, calls>>

\* consoleinit(), uartinit(), printfinit()
TtyInit ==
  /\ cons = [buf |-> [i \in 0..INPUT_BUF_SIZE - 1 |-> Nil], r |-> 0, w |-> 0, e |-> 0]
  /\ ring = [buf |-> [i \in 0..UART_TX_BUF_SIZE - 1 |-> Nil], r |-> 0, w |-> 0]
  /\ conslock = FALSE /\ txlock = Nil /\ prlock = Nil
  /\ locking = TRUE /\ panicked = FALSE
  /\ rx = 0 /\ thr = <<>> /\ uirq = FALSE
  /\ tpc = [t \in Threads |-> IF t = Intr THEN "idle" ELSE "user"]
  /\ left = [p \in TtyProcs |-> 0]
  /\ char = [t \in Threads |-> Nil]
  /\ sync = [t \in Threads |-> 0]
  /\ job = [t \in Threads |-> Nil]
  /\ taken = [p \in TtyProcs |-> Nil]
  /\ tkilled = [p \in TtyProcs |-> FALSE]
  /\ calls \in Sessions

At(t, l) == tpc[t] = l
MayCall(p, x) == At(p, "user") /\ x \in calls[p]
Jump(t, l) == tpc' = [tpc EXCEPT ![t] = l]
Upd(f, t, x) == [f EXCEPT ![t] = x]

\* Unsigned subtraction.
Minus(a, b) == (a + UWRAP - b) % UWRAP

\* How many characters are in the ring.
InTx == (ring.w + TWRAP - ring.r) % TWRAP

\* wakeup(): the threads that sleep at l go on at m.
WakeAll(l, m) == [t \in Threads |-> IF tpc[t] = l THEN m ELSE tpc[t]]
-----------------------------------------------------------------------------
(* consoleread() *)

Slice(a, k) == [j \in 1..k |-> cons.buf[(a + j - 1) % INPUT_BUF_SIZE]]

\* cons.buf[r..w)
Entered == Slice(cons.r, Minus(cons.w, cons.r))

\* cons.buf[w..e)
Editing == Slice(cons.w, Minus(cons.e, cons.w))

\* What has been read is dead, except to the model's state count: forget it.
Advance(k) ==
  [cons EXCEPT !.r = (@ + k) % UWRAP,
               !.buf = [i \in DOMAIN @ |->
                 IF \E j \in 0..k - 1 : i = (cons.r + j) % INPUT_BUF_SIZE THEN Nil ELSE @[i]]]

ConsoleRead(p, n) ==
  /\ MayCall(p, "read")
  /\ left' = Upd(left, p, n)
  /\ taken' = Upd(taken, p, <<>>)
  /\ Jump(p, "read")
  /\ UNCHANGED <<cons, conslock, tkilled, outVars, prVars, uartVars, char>>

\* How many characters the loop stores: n of them, or all, or up to a newline, or
\* up to a control-d.
Ends == {j \in 1..Len(Entered) : Entered[j] \in {Newline, Eof}}
Fits(p) ==
  CHOOSE k \in 0..left[p] :
    /\ k <= Len(Entered)
    /\ \A j \in Ends : IF Entered[j] = Newline THEN k <= j ELSE k < j
    /\ \/ k \in {left[p], Len(Entered)}
       \/ k \in Ends
       \/ k + 1 \in Ends /\ Entered[k + 1] = Eof

\* k characters are stored, and lost more are taken.
Stores(p, k, lost) ==
  /\ taken' = [taken EXCEPT ![p] = @ \o SubSeq(Entered, 1, k)]
  /\ left' = [left EXCEPT ![p] = @ - k]
  /\ cons' = Advance(k + lost)

\* Mutant: control-d is consumed by the call that returns what precedes it.
KeepsEofNever(p, k) == FALSE

\* n < target: the control-d is left for the next call.
KeepsEof(p, k) == Len(taken[p]) + k > 0

\* From acquire(), or the return from sleep(), to sleep() or the end of the call.
ReadRun(p) ==
  /\ At(p, "read") /\ ~conslock
  /\ LET k == Fits(p)
         newline == k \in Ends
         eof == k < left[p] /\ k + 1 \in Ends /\ ~newline
     IN  /\ Stores(p, k, IF eof /\ ~KeepsEof(p, k) THEN 1 ELSE 0)
         /\ Jump(p, IF k = left[p] \/ newline \/ eof \/ tkilled[p] THEN "ret" ELSE "rsleep")
  /\ UNCHANGED <<conslock, tkilled, outVars, prVars, uartVars, char>>

\* either_copyout() fails for a character: it is gone.
ReadFault(p, k) ==
  /\ At(p, "read") /\ ~conslock
  /\ k < Fits(p)
  /\ Stores(p, k, 1)
  /\ Jump(p, "ret")
  /\ UNCHANGED <<conslock, tkilled, outVars, prVars, uartVars, char>>

\* The call returns; a killed process exits, and another takes its place.
ReadReturn(p) ==
  /\ At(p, "ret")
  /\ taken' = Upd(taken, p, Nil)
  /\ left' = Upd(left, p, 0)
  /\ tkilled' = Upd(tkilled, p, FALSE)
  /\ Jump(p, "user")
  /\ UNCHANGED <<cons, conslock, outVars, prVars, uartVars, char>>

\* kill() of a process in a read() makes it runnable; uartputc() goes back to sleep.
TtyKill(p) ==
  /\ ~tkilled[p] /\ tpc[p] \in {"read", "rsleep"}
  /\ tkilled' = Upd(tkilled, p, TRUE)
  /\ Jump(p, "read")
  /\ UNCHANGED <<cons, conslock, taken, left, outVars, prVars, uartVars, char>>
-----------------------------------------------------------------------------
(* consolewrite(), uartputc(), uartstart() *)

ConsoleWrite(p, n) ==
  /\ MayCall(p, "write")
  /\ left' = Upd(left, p, n)
  /\ Jump(p, "putc")
  /\ UNCHANGED <<cons, conslock, taken, tkilled, outVars, prVars, uartVars, char>>

\* either_copyin() fails, or everything is written.
WriteReturn(p) ==
  /\ At(p, "putc")
  /\ left' = Upd(left, p, 0)
  /\ Jump(p, "user")
  /\ UNCHANGED <<cons, conslock, taken, tkilled, outVars, prVars, uartVars, char>>

\* uart_tx_w == uart_tx_r + UART_TX_BUF_SIZE
RingFull == ring.w = (ring.r + UART_TX_BUF_SIZE) % TWRAP

\* uartputc(v); after a panic() it spins with the lock.
Putc(p, v) ==
  /\ tpc[p] \in {"putc", "putw"} /\ left[p] > 0 /\ txlock = Nil
  /\ IF panicked
     THEN txlock' = p /\ Jump(p, "spin") /\ UNCHANGED <<ring, left>>
     ELSE IF RingFull
     THEN Jump(p, "psleep") /\ UNCHANGED <<ring, txlock, left>>
     ELSE /\ ring' = [ring EXCEPT !.buf[ring.w % UART_TX_BUF_SIZE] = v,
                                  !.w = (@ + 1) % TWRAP]
          /\ txlock' = p
          /\ left' = [left EXCEPT ![p] = @ - 1]
          /\ Jump(p, "start")
  /\ UNCHANGED <<cons, conslock, taken, tkilled, prVars, uartVars, char>>

\* LSR_TX_IDLE
TxIdle == thr = <<>>

\* wakeup(&uart_tx_r)
WakeWriters == WakeAll("psleep", "putw")

\* uartstart(): there is a character to send and the UART is idle.
StartTake(t) ==
  /\ At(t, "start") /\ ring.w # ring.r /\ TxIdle
  /\ char' = Upd(char, t, ring.buf[ring.r % UART_TX_BUF_SIZE])
  /\ ring' = [ring EXCEPT !.buf[ring.r % UART_TX_BUF_SIZE] = Nil, !.r = (@ + 1) % TWRAP]
  /\ tpc' = [WakeWriters EXCEPT ![t] = "startw"]
  /\ UNCHANGED <<consVars, txlock, prVars, uartVars>>

\* WriteReg(THR, c): a character that finds the FIFO full is lost.
Transmit(c) == thr' = IF Len(thr) < TXFIFO THEN Append(thr, c) ELSE thr

StartWrite(t) ==
  /\ At(t, "startw")
  /\ Transmit(char[t])
  /\ char' = Upd(char, t, Nil)
  /\ Jump(t, "start")
  /\ UNCHANGED <<consVars, outVars, prVars, rx, uirq>>

\* Nothing to send, or the UART is busy: uartstart() returns, the lock is released.
StartEnd(t) ==
  /\ At(t, "start") /\ (ring.w = ring.r \/ ~TxIdle)
  /\ txlock' = Nil
  /\ Jump(t, IF t = Intr THEN "idle" ELSE "putc")
  /\ UNCHANGED <<consVars, ring, prVars, uartVars, char>>
-----------------------------------------------------------------------------
(* printf(), panic(), uartputc_sync() *)

Printf(p) ==
  /\ MayCall(p, "printf")
  /\ job' = Upd(job, p, "print") /\ sync' = Upd(sync, p, 1)
  /\ Jump(p, "pr")
  /\ UNCHANGED <<consVars, outVars, prlock, locking, panicked, uartVars, char>>

\* pr.locking = 0, then printf().
Panic(p) ==
  /\ MayCall(p, "panic") /\ locking
  /\ locking' = FALSE
  /\ job' = Upd(job, p, "panic") /\ sync' = Upd(sync, p, 1)
  /\ Jump(p, "pr")
  /\ UNCHANGED <<consVars, outVars, prlock, panicked, uartVars, char>>

PrintLock(t) ==
  /\ At(t, "pr")
  /\ locking => prlock = Nil
  /\ prlock' = IF locking THEN t ELSE prlock
  /\ Jump(t, "sync")
  /\ UNCHANGED <<consVars, outVars, locking, panicked, sync, job, uartVars, char>>

\* uartputc_sync() sees LSR_TX_IDLE; once panicked is set it spins.
SyncIdle(t) ==
  /\ At(t, "sync") /\ sync[t] > 0 /\ ~panicked /\ TxIdle
  /\ Jump(t, "syncw")
  /\ UNCHANGED <<consVars, outVars, prVars, uartVars, char>>

SyncWrite(t) ==
  /\ At(t, "syncw")
  /\ Transmit(Nil)
  /\ sync' = [sync EXCEPT ![t] = @ - 1]
  /\ Jump(t, "sync")
  /\ UNCHANGED <<consVars, outVars, prlock, locking, panicked, job, rx, uirq, char>>

SyncEnd(t) ==
  /\ At(t, "sync") /\ sync[t] = 0
  /\ prlock' = IF prlock = t THEN Nil ELSE prlock
  /\ panicked' = (panicked \/ job[t] = "panic")
  /\ job' = Upd(job, t, Nil)
  /\ conslock' = (conslock /\ t # Intr)
  /\ Jump(t, CASE t = Intr -> "rx" [] job[t] = "panic" -> "halt" [] OTHER -> "user")
  /\ UNCHANGED <<cons, taken, left, tkilled, outVars, locking, sync, uartVars, char>>
-----------------------------------------------------------------------------
(* uartintr(), consoleintr() *)

\* plic_claim()
IntrClaim ==
  /\ At(Intr, "idle") /\ uirq
  /\ uirq' = FALSE
  /\ Jump(Intr, "rx")
  /\ UNCHANGED <<consVars, outVars, prVars, rx, thr, char>>

\* cons.e - cons.r < INPUT_BUF_SIZE
HasRoom == Minus(cons.e, cons.r) < INPUT_BUF_SIZE

\* How many characters of the line control-h and control-u erase.
Erased(c) ==
  IF c = Backspace THEN IF cons.e # cons.w THEN 1 ELSE 0
  ELSE LET n == Len(Editing)
           keep == {j \in 1..n : Editing[j] = Newline}
       IN  IF keep = {} THEN n ELSE n - (CHOOSE j \in keep : \A i \in keep : i <= j)

\* Mutant: a full buffer is not handed over without the end of a line.
EntersLineOnly(c) == c \in {Newline, Eof}

\* The condition for cons.w = cons.e and wakeup(), after c is stored.
Enters(c) == c \in {Newline, Eof} \/ Minus(cons.e + 1, cons.r) = INPUT_BUF_SIZE

\* What consoleintr(c) does to the buffer.
Edited(c) ==
  IF c \in Stored /\ HasRoom
  THEN [cons EXCEPT !.buf[cons.e % INPUT_BUF_SIZE] = c,
                    !.e = (@ + 1) % UWRAP,
                    !.w = IF Enters(c) THEN (cons.e + 1) % UWRAP ELSE @]
  ELSE IF c \in {Backspace, KillLine}
  THEN [cons EXCEPT !.e = Minus(@, Erased(c)),
                    !.buf = [i \in DOMAIN @ |->
                       IF \E j \in 1..Erased(c) : i = Minus(cons.e, j) % INPUT_BUF_SIZE
                       THEN Nil ELSE @[i]]]
  ELSE cons

\* How many characters it echoes; BACKSPACE is three.
Echoed(c) ==
  CASE c = ProcDump -> 1
    [] c \in {Backspace, KillLine} -> 3 * Erased(c)
    [] OTHER -> IF c # Nul /\ HasRoom THEN 1 ELSE 0

\* uartgetc() returns key, and consoleintr() takes cons.lock, which it keeps until
\* the echo is out: that it echoes before it stores cannot be told from outside.
IntrChar(key) ==
  /\ At(Intr, "rx") /\ rx > 0
  /\ rx' = rx - 1
  /\ LET c == IF key = Return THEN Newline ELSE key IN
     /\ cons' = Edited(c)
     /\ sync' = Upd(sync, Intr, Echoed(c))
     /\ tpc' = [IF c \in Stored /\ HasRoom /\ Enters(c) THEN WakeAll("rsleep", "read") ELSE tpc
                  EXCEPT ![Intr] = IF c = ProcDump THEN "pr" ELSE "sync"]
  /\ conslock' = TRUE
  /\ job' = Upd(job, Intr, "echo")
  /\ UNCHANGED <<taken, left, tkilled, outVars, prlock, locking, panicked, thr, uirq, char>>

\* uartgetc() returns -1; the handler takes uart_tx_lock for uartstart().
IntrTx ==
  /\ At(Intr, "rx") /\ rx = 0 /\ txlock = Nil
  /\ txlock' = Intr
  /\ Jump(Intr, "start")
  /\ UNCHANGED <<consVars, ring, prVars, uartVars, char>>
-----------------------------------------------------------------------------
(* The UART *)

\* A character arrives and raises the interrupt; which one is seen when it is read.
UartReceive ==
  /\ rx < RXFIFO
  /\ rx' = rx + 1
  /\ uirq' = TRUE
  /\ UNCHANGED <<consVars, outVars, prVars, thr, tpc, char>>

\* A character is sent; when none is left the UART is idle and interrupts.
UartSend ==
  /\ thr # <<>>
  /\ thr' = Tail(thr)
  /\ uirq' = (uirq \/ Len(thr) = 1)
  /\ UNCHANGED <<consVars, outVars, prVars, rx, tpc, char>>

\* After panic() everything may have come to rest.
Halted == panicked /\ UNCHANGED ttyVars

TtyStep ==
  \/ \E p \in TtyProcs :
       \/ ReadRun(p) \/ ReadReturn(p) \/ TtyKill(p) \/ WriteReturn(p) \/ Printf(p) \/ Panic(p)
       \/ \E n \in 1..MAXREAD : ConsoleRead(p, n)
       \/ \E n \in 1..MAXWRITE : ConsoleWrite(p, n)
       \/ \E k \in 0..MAXREAD - 1 : ReadFault(p, k)
       \/ \E v \in OutVals : Putc(p, v)
  \/ \E t \in Threads :
       \/ StartTake(t) \/ StartWrite(t) \/ StartEnd(t)
       \/ PrintLock(t) \/ SyncIdle(t) \/ SyncWrite(t) \/ SyncEnd(t)
  \/ \E c \in calls[Intr] : IntrChar(c)
  \/ IntrClaim \/ IntrTx \/ UartReceive \/ UartSend

TtyNext == (TtyStep /\ UNCHANGED calls) \/ Halted
-----------------------------------------------------------------------------
(* Properties *)

\* consoleintr(), consoleread(), uartputc(), uartstart(), uartintr(): a reader sleeps
\* only while nothing is entered, and a full buffer counts as entered, so that typing
\* never has to stop for ever.  A writer sleeps only while the ring is full, and what
\* is in the ring is sent: as long as nobody is in uartstart(), the UART is busy, or
\* its interrupt is pending, or the handler has yet to come to uartstart().
NobodyWaitsInVain ==
  /\ \A p \in TtyProcs : At(p, "rsleep") => cons.r = cons.w
  /\ ~HasRoom => cons.w = cons.e
  /\ \A p \in TtyProcs : At(p, "psleep") => RingFull
  /\ ring.r # ring.w =>
       txlock # Nil \/ thr # <<>> \/ uirq \/ ~At(Intr, "idle")

\* In-order subsequence of the characters of write() among those in the FIFO.
FromRing == SelectSeq(thr, LAMBDA v : v # Nil)
InHand == IF txlock # Nil /\ At(txlock, "startw") THEN <<char[txlock]>> ELSE <<>>
InRing == [j \in 1..InTx |-> ring.buf[(ring.r + j - 1) % UART_TX_BUF_SIZE]]

\* The ring buffers, their free-running indices and the lock-free echo implement
\* Terminal: nothing is lost, duplicated or reordered on its way in or out.
Line == INSTANCE Terminal WITH
  Procs <- TtyProcs, Vals <- OutVals, None <- Nil, InSize <- INPUT_BUF_SIZE,
  OutSize <- UART_TX_BUF_SIZE + TXFIFO + 1,
  line <- Editing, entered <- Entered, outq <- FromRing \o InHand \o InRing

ImplementsTerminal == Line!Spec
=============================================================================
