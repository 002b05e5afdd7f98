-------------------------- MODULE MCMemoryManager --------------------------
(* Two processes and one pool id. *)
EXTENDS MemoryManager, TLC

CONSTANTS p1, p2
MCProc == {p1, p2}
Symmetry == Permutations(MCProc)
=============================================================================
