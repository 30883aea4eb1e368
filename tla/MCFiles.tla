------------------------------ MODULE MCFiles -------------------------------
(* Instances of Files for TLC. *)
EXTENDS Files, TLC

CONSTANTS p1, p2, p3

Two == {p1, p2}
Three == {p1, p2, p3}
Perms == Permutations(Procs)
=============================================================================
