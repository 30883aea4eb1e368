-------------------------------- MODULE MCVm --------------------------------
(* Instances of Vm for TLC. *)
EXTENDS Vm, TLC

CONSTANTS p1, p2, p3

Three == {p1, p2, p3}
Perms == Permutations(Procs)

\* One and two segments, unaligned ends, a second segment below the first.
SmallImages == {<<1>>, <<2, 3>>, <<3, 1>>}

Steps == {3, 1, -1, -4}
=============================================================================
