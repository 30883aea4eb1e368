------------------------------ MODULE Terminal ------------------------------
(***************************************************************************)
(* What the terminal promises.  Typed characters are edited in a line      *)
(* until they are entered; entered characters are read in order, once      *)
(* each, a line at a time at most.  Characters of write() appear in the    *)
(* order in which the driver accepted them, once each.                     *)
(***************************************************************************)
EXTENDS Naturals, Sequences

CONSTANTS Procs, Vals,
          Plain, Newline, Eof,  \* typed characters that enter the buffer
          InSize, OutSize,      \* limits on what the terminal holds
          None

VARIABLES line,    \* typed, and not yet entered
          entered, \* entered, and not yet read
          outq,    \* accepted from write(), and not yet sent
          taken    \* what a call of read() has read so far

vars == <<line, entered, outq, taken>>

Init ==
  /\ line = <<>> /\ entered = <<>> /\ outq = <<>>
  /\ taken = [p \in Procs |-> None]

Room == Len(entered) + Len(line) < InSize

\* A character is typed; the end of a line, and the last one that fits, enter it.
Type(c) ==
  /\ Room
  /\ IF c \in {Newline, Eof} \/ Len(entered) + Len(line) + 1 = InSize
     THEN entered' = entered \o Append(line, c) /\ line' = <<>>
     ELSE line' = Append(line, c) /\ UNCHANGED entered
  /\ UNCHANGED <<outq, taken>>

\* Backspace, and control-U.
Erase ==
  /\ line # <<>>
  /\ line' \in {<<>>, SubSeq(line, 1, Len(line) - 1)}
  /\ UNCHANGED <<entered, outq, taken>>

BeginRead(p) ==
  /\ taken[p] = None
  /\ taken' = [taken EXCEPT ![p] = <<>>]
  /\ UNCHANGED <<line, entered, outq>>

\* A read takes k characters, which reach the caller unless the last one cannot be
\* stored (lost = 1); a line ends the call, so it is only ever the last of them.
Take(p, k, lost) ==
  /\ taken[p] # None /\ k > 0 /\ k <= Len(entered)
  /\ \A i \in 1..k - 1 : entered[i] \notin {Newline, Eof}
  /\ entered[k] # Eof
  /\ taken' = [taken EXCEPT ![p] = @ \o SubSeq(entered, 1, k - lost)]
  /\ entered' = SubSeq(entered, k + 1, Len(entered))
  /\ UNCHANGED <<line, outq>>

\* The end of file is taken by a read that has read nothing.
TakeEof(p) ==
  /\ taken[p] = <<>> /\ entered # <<>> /\ Head(entered) = Eof
  /\ entered' = Tail(entered)
  /\ UNCHANGED <<line, outq, taken>>

EndRead(p) ==
  /\ taken[p] # None
  /\ taken' = [taken EXCEPT ![p] = None]
  /\ UNCHANGED <<line, entered, outq>>

Accept(v) ==
  /\ Len(outq) < OutSize
  /\ outq' = Append(outq, v)
  /\ UNCHANGED <<line, entered, taken>>

Send ==
  /\ outq # <<>>
  /\ outq' = Tail(outq)
  /\ UNCHANGED <<line, entered, taken>>

Next ==
  \/ \E c \in Plain \cup {Newline, Eof} : Type(c)
  \/ Erase \/ Send
  \/ \E v \in Vals : Accept(v)
  \/ \E p \in Procs :
       \/ BeginRead(p) \/ TakeEof(p) \/ EndRead(p)
       \/ \E k \in 1..InSize, lost \in 0..1 : Take(p, k, lost)

Spec == Init /\ [][Next]_vars
=============================================================================
