----------------------------- MODULE ObjectHeap -----------------------------
(***************************************************************************)
(* What a distributed heap promises to its application: an object is       *)
(* allocated in one step, and freed in one step; it goes back to its shelf *)
(* once, with the call or, where another process has the shelf, in a step  *)
(* of its own.  On the way it is dropped only if the heap has no room for  *)
(* more such objects, and lost only with a thread: one for every thread    *)
(* that dies with its process.                                             *)
(***************************************************************************)
EXTENDS Integers

CONSTANTS Pointer, Proc,
          crew,         \* crew[p]: the threads of process p
          BlockCount    \* room for the pointers to freed objects

VARIABLES allocated,   \* objects that have been allocated
          live,        \* those the application has
          pending,     \* those that were freed and not given back yet
          reclaimed,   \* how often each was given back to its shelf
          dropped,     \* those there was no room for
          room,        \* what is left of the room
          dead         \* processes that died

vars == <<allocated, live, pending, reclaimed, dropped, room, dead>>

Init ==
  /\ allocated = {} /\ live = {} /\ pending = {} /\ dropped = {} /\ dead = {}
  /\ reclaimed = [ptr \in Pointer |-> 0]
  /\ room = BlockCount

Alloc(ptr) ==
  /\ ptr \notin allocated
  /\ allocated' = allocated \cup {ptr}
  /\ live' = live \cup {ptr}
  /\ UNCHANGED <<pending, reclaimed, dropped, room, dead>>

GivenBack(ptr) == reclaimed' = [reclaimed EXCEPT ![ptr] = @ + 1]

Free(ptr) ==
  /\ ptr \in live
  /\ live' = live \ {ptr}
  /\ \/ GivenBack(ptr) /\ UNCHANGED pending
     \/ pending' = pending \cup {ptr} /\ UNCHANGED reclaimed
  /\ UNCHANGED <<allocated, dropped, room, dead>>

GiveBack(ptr) ==
  /\ ptr \in pending
  /\ pending' = pending \ {ptr}
  /\ GivenBack(ptr)
  /\ UNCHANGED <<allocated, live, dropped, room, dead>>

UseRoom ==
  /\ room > 0
  /\ room' = room - 1
  /\ UNCHANGED <<allocated, live, pending, reclaimed, dropped, dead>>

Drop(ptr) ==
  /\ ptr \in pending /\ room = 0
  /\ pending' = pending \ {ptr}
  /\ dropped' = dropped \cup {ptr}
  /\ UNCHANGED <<allocated, live, reclaimed, room, dead>>

Die(p) ==
  /\ p \notin dead
  /\ dead' = dead \cup {p}
  /\ \E lost \in SUBSET pending : \E by \in [lost -> crew[p]] :
       /\ \A x, y \in lost : by[x] = by[y] => x = y
       /\ pending' = pending \ lost
  /\ UNCHANGED <<allocated, live, reclaimed, dropped, room>>

\* The heap is formatted, or destroyed: its objects are no more.
Clear ==
  /\ allocated' = {} /\ live' = {} /\ pending' = {} /\ dropped' = {}
  /\ reclaimed' = [ptr \in Pointer |-> 0]
  /\ room' = BlockCount
  /\ UNCHANGED dead

Next ==
  \/ \E ptr \in Pointer : Alloc(ptr) \/ Free(ptr) \/ GiveBack(ptr) \/ Drop(ptr)
  \/ \E p \in Proc : Die(p)
  \/ UseRoom \/ Clear

Spec == Init /\ [][Next]_vars
=============================================================================
