------------------------------ MODULE MCInodes ------------------------------
(* Inodes for TLC: paths of up to two elements. *)
EXTENDS Inodes, TLC

Abs(s) == [abs |-> TRUE, elems |-> s]
Rel(s) == [abs |-> FALSE, elems |-> s]
MCPaths == {Abs(<<"a">>), Rel(<<"a">>)}
MCDirPaths == {Abs(<<"a">>), Abs(<<>>)}
OrphanPaths == {Abs(<<"a">>), Abs(<<"a", "a">>), Rel(<<"..">>)}
OrphanDirPaths == {Abs(<<"a", "a">>)}
ProcSymmetry == Permutations(Procs)
=============================================================================
