--------------------------- MODULE MCEpochManager ---------------------------
(* Small instances of the epoch protocol: the processes are named, thread  *)
(* t3 runs in p2 and the others in p1.  Either every process can kill every *)
(* other, or each one only itself.                                         *)
EXTENDS EpochManager

CONSTANTS p1, p2, p3, t1, t2, t3

MCHome == [t \in Thread |-> IF t = t3 THEN p2 ELSE p1]
MCReachAll == [p \in Proc |-> Proc]
MCReachOwn == [p \in Proc |-> {p}]
=============================================================================
