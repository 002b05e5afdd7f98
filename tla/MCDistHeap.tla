----------------------------- MODULE MCDistHeap -----------------------------
(* Processes a and b live side by side; c runs under the pid of a once a   *)
(* has gone.  Who is blind: nobody, on one node whose /proc tells all; to   *)
(* themselves, with a name that /proc shows with a space; to each other, on *)
(* two nodes; or b to itself and a, and the others to b.                    *)
EXTENDS DistHeap

CONSTANTS a, b, c, ta, tb, tc

MCHome == [t \in User |-> CASE t = ta -> a [] t = tb -> b [] t = tc -> c]
MCPid == [p \in Proc |-> IF p = b THEN 2 ELSE 1]
MCClear == [p \in Proc |-> {}]
MCSelf == [p \in Proc |-> {p}]
MCNodes == [p \in Proc |-> Proc \ {p}]
MCBlind == [p \in Proc |-> IF p = b THEN {a, b} ELSE {b}]
MCBtime == [p \in Proc |-> IF p = c THEN 2 ELSE 1]
=============================================================================
