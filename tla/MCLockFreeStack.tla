-------------------------- MODULE MCLockFreeStack --------------------------
(* Two processes and two blocks, both with the first process: enough for a *)
(* pop to sleep while the other process pops, reuses and pushes back.      *)
EXTENDS LockFreeStack, TLC

CONSTANTS p1, p2, b1, b2
MCBlock == {b1, b2}
Symmetry == Permutations(MCBlock)

MCOwner == [b \in Block |-> p1]
=============================================================================
