----------------------------- MODULE ShelfPool -----------------------------
(***************************************************************************)
(* What a pool promises to a heap that keeps its shelves there: a shelf is *)
(* added in one step and removed in one step, at an index that has no      *)
(* other, and its file is complete from the one step to the other.  Every  *)
(* shelf gets a version that its index had for no other shelf: versions    *)
(* are given out once, and one that an operation took and did not use is   *)
(* lost.                                                                   *)
(***************************************************************************)
EXTENDS Naturals

CONSTANTS Index, Maker

VARIABLES ready,     \* can the pool be used
          shelves,   \* the shelves in it: index, version, and who made the file
          version    \* the version given out last, of every index

vars == <<ready, shelves, version>>

NoVersion == [i \in Index |-> 0]
Free(i) == \A s \in shelves : s.idx # i

Init ==
  /\ ready = TRUE
  /\ shelves = {}
  /\ version \in [Index -> Nat]

TakeVersion(i) ==
  /\ ready /\ Free(i)
  /\ version' = [version EXCEPT ![i] = @ + 1]
  /\ UNCHANGED <<ready, shelves>>

AddShelf(i, m) ==
  /\ ready /\ Free(i)
  /\ shelves' = shelves \cup {[idx |-> i, ver |-> version[i], maker |-> m]}
  /\ UNCHANGED <<ready, version>>

RemoveShelf(s) ==
  /\ ready
  /\ shelves' = shelves \ {s}
  /\ version' = [version EXCEPT ![s.idx] = @ + 1]
  /\ UNCHANGED ready

Destroy ==
  /\ ready /\ shelves = {}
  /\ ready' = FALSE
  /\ version' = NoVersion
  /\ UNCHANGED shelves

Create ==
  /\ ~ready
  /\ ready' = TRUE
  /\ UNCHANGED <<shelves, version>>

Next ==
  \/ \E i \in Index : TakeVersion(i) \/ \E m \in Maker : AddShelf(i, m)
  \/ \E s \in shelves : RemoveShelf(s)
  \/ Destroy \/ Create

Spec == Init /\ [][Next]_vars
=============================================================================
