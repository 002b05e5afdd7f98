--------------------------- MODULE MCDelayedFree ---------------------------
(* Two processes, each with an application thread and a background worker. *)
EXTENDS DelayedFree

CONSTANTS p1, p2, t1, t2, w1, w2

MCHome == [t \in Thread |-> IF t \in {t2, w2} THEN p2 ELSE p1]
=============================================================================
