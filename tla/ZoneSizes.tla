------------------------------ MODULE ZoneSizes ------------------------------
(***************************************************************************)
(* The zone with the size arithmetic that chooses the level of a request.  *)
(***************************************************************************)
EXTENDS Zone, SizeClass

\* The size of the whole zone can be asked for.
ASSUME ZoneSizesAssumption == MaxLevel <= Width - 2

(* Every list alloc takes chunks from, and the levels split and merge put  *)
(* chunks on, serve the requests of their size class and no others.        *)
LevelRight == \A l \in Level : free_list[l] # {} => l \in RightLevels
=============================================================================
