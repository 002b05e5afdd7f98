------------------------------- MODULE RWLock -------------------------------
(***************************************************************************)
(* What a reader-writer lock promises its clients: a thread holds the lock *)
(* in shared mode, in exclusive mode, or not at all, and an exclusive      *)
(* holder is alone.  How a thread waits is not visible here.               *)
(***************************************************************************)
CONSTANT Thread

VARIABLE mode        \* mode[t]: how thread t holds the lock

Mode == {"none", "shared", "exclusive"}

Init == mode = [t \in Thread |-> "none"]

\* A shared grant requires that nobody holds the lock exclusively.
GrantShared(t) ==
  /\ mode[t] = "none"
  /\ \A u \in Thread : mode[u] # "exclusive"
  /\ mode' = [mode EXCEPT ![t] = "shared"]

\* An exclusive grant requires that nobody holds the lock at all.
GrantExclusive(t) ==
  /\ \A u \in Thread : mode[u] = "none"
  /\ mode' = [mode EXCEPT ![t] = "exclusive"]

Release(t) ==
  /\ mode[t] # "none"
  /\ mode' = [mode EXCEPT ![t] = "none"]

Next == \E t \in Thread : GrantShared(t) \/ GrantExclusive(t) \/ Release(t)

Spec == Init /\ [][Next]_mode
=============================================================================
