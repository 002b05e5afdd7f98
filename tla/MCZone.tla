------------------------------- MODULE MCZone -------------------------------
(* Zones of eight units (four where one collection is enough).  The        *)
(* constructor asks for at least 64 units, but nothing the runs look at    *)
(* depends on that number.  The size arithmetic is checked on words of 8   *)
(* bits instead of 64: the same number of shifts for the length of a word, *)
(* and every request and minimum size can be enumerated.                   *)
EXTENDS ZoneSizes, TLC

CONSTANTS p1, p2
MCProc == {p1, p2}
Symmetry == Permutations(MCProc)
=============================================================================
