----------------------------- MODULE MCContent ------------------------------
(* Instances of Content and Mkfs for TLC: `part' says which of them moves. *)
EXTENDS Mkfs, TLC

VARIABLE part

mcVars == <<vars, mkfsVars, part>>

MCInit ==
  /\ part \in {"kernel", "mkfs"}
  /\ Init /\ MkfsInit
  /\ part = "mkfs" => file = [f \in Files |-> None]

\* mkfs has exited.
MkfsDone == stage = "done" /\ UNCHANGED mkfsVars

MCNext ==
  \/ part = "kernel" /\ Next /\ UNCHANGED <<mkfsVars, part>>
  \/ part = "mkfs" /\ (MkfsNext \/ MkfsDone) /\ UNCHANGED <<vars, part>>

MCSpec == MCInit /\ [][MCNext]_mcVars

Symmetry == Permutations(Files) \cup Permutations(Inums)
=============================================================================
