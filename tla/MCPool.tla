------------------------------- MODULE MCPool -------------------------------
(* A pool with two indices.  The numbers a process draws for its temporary *)
(* files are its own: two processes that draw the same one of 65536 at the *)
(* same time are outside the model.                                        *)
EXTENDS Pool

CONSTANTS p1, p2
MCRand == [p \in {p1, p2} |-> IF p = p1 THEN {1} ELSE {2}]
=============================================================================
