----------------------------- MODULE ShelfManager -----------------------------
(***************************************************************************)
(* The table of the shelves a process has mapped:                          *)
(* shelf_mgmt/shelf_manager.cc.  It outlives the objects that use a shelf: *)
(* who opens a shelf that is in the table gets the mapping it has.  Its    *)
(* operations run under the mutex of the table.  A mapping is the number   *)
(* of the file it was made from, negative when it is marked invalid.       *)
(***************************************************************************)
EXTENDS Integers

VARIABLE map   \* map_ of every process

None == 0      \* no file, no mapping

IsInvalid(p, s) == map[p][s] < None

LookupShelf(p, s) == IF map[p][s] > None THEN map[p][s] ELSE None

\* Of the files in base; a valid mapping stays, an invalid one is replaced.
RegisterShelf(p, S, base) ==
  map' = [map EXCEPT ![p] = [s \in DOMAIN @ |->
            IF s \in S /\ LookupShelf(p, s) = None THEN base[s] ELSE @[s]]]

UnregisterShelf(p, S) ==
  map' = [map EXCEPT ![p] = [s \in DOMAIN @ |-> IF s \in S THEN None ELSE @[s]]]

MarkInvalid(p, S) ==
  map' = [map EXCEPT ![p] = [s \in DOMAIN @ |->
            IF s \in S /\ @[s] > None THEN -@[s] ELSE @[s]]]

\* The slow path of FindBase: what is not in the table is mapped and registered;
\* what is marked invalid gives NULL.
FindBase(p, s, base) == map[p][s] = None /\ RegisterShelf(p, {s}, base)
=============================================================================
