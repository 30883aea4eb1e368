------------------------------ MODULE MCInode -------------------------------
(* Instances of Inode for TLC. *)
EXTENDS Inode, TLC

CONSTANTS p1, p2

Two == {p1, p2}
Perms == Permutations(Procs)

C(o, from, path, to) == [op |-> o, from |-> from, path |-> path, new |-> to]

\* Files in the root and in one directory; "d" is made and never removed.
FileCalls ==
  {C("open", "root", <<"a">>, <<>>), C("open", "root", <<"a", "b">>, <<>>),
   C("create", "cwd", <<"a">>, <<>>), C("mkdir", "root", <<"d">>, <<>>),
   C("unlink", "cwd", <<"a">>, <<>>), C("unlink", "root", <<"b">>, <<>>),
   C("link", "cwd", <<"a">>, <<"b">>), C("link", "root", <<"b">>, <<"d", "a">>),
   C("chdir", "root", <<"d">>, <<>>)}
=============================================================================
