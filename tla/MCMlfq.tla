------------------------------- MODULE MCMlfq -------------------------------
(***************************************************************************)
(* Instances for TLC of the MLFQ and FCFS policies and of the terminal     *)
(* driver.  They share no state, so that one run explores each of them by  *)
(* itself: part says which of them moves.                                  *)
(***************************************************************************)
EXTENDS Mlfq, Fcfs, Tty, TLC

CONSTANTS t1, t2

VARIABLE part

\* One tick in queue 0, two in queue 1.
Slices2 == [q \in 0..1 |-> q + 1]

\* The sessions at the terminal: one reader and every key; two readers; two writers;
\* a writer and kernel messages, with the handler printing too; a panic().
Session(x, y, keys) == t1 :> x @@ t2 :> y @@ Intr :> keys
TwoWriters == Session({"write"}, {"write"}, {Nul})
Terminals ==
  { Session({"read"}, {}, Stored \cup {Return, Backspace, KillLine, ProcDump, Nul}),
    Session({"read"}, {"read"}, {Newline}),
    TwoWriters,
    Session({"write"}, {"printf"}, {ProcDump}),
    Session({"write"}, {"panic"}, {Nul}) }

MCInit ==
  /\ Init /\ FcfsInit /\ TtyInit
  /\ \/ part \in {"mlfq", "fcfs"} /\ calls = TwoWriters
     \/ part = "tty"

MCNext ==
  /\ UNCHANGED part
  /\ \/ part = "mlfq" /\ Next /\ UNCHANGED <<fcfsVars, ttyVars>>
     \/ part = "fcfs" /\ FcfsNext /\ UNCHANGED <<vars, ttyVars>>
     \/ part = "tty" /\ TtyNext /\ UNCHANGED <<vars, fcfsVars>>

MCSpec == MCInit /\ [][MCNext]_<<vars, fcfsVars, ttyVars, part>>
=============================================================================
