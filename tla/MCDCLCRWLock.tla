---------------------------- MODULE MCDCLCRWLock ----------------------------
(* Three threads on two counters: t1 and t2 collide in the first one, so   *)
(* a reader's announcement can be hidden by another's.                     *)
EXTENDS DCLCRWLock

CONSTANTS t1, t2, t3

MCBucketOf == [t \in Thread |-> IF t = t3 THEN 2 ELSE 1]
=============================================================================
