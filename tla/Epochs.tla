------------------------------- MODULE Epochs -------------------------------
(***************************************************************************)
(* What the epoch protocol promises to the code that defers frees to it.   *)
(* There is a global frontier epoch; a participating process has a         *)
(* reported epoch, which stands still while any of its threads is inside   *)
(* an epoch operation; and the frontier moves past an epoch only when      *)
(* every participant reports it.                                           *)
(***************************************************************************)
EXTENDS Naturals

CONSTANTS Proc,       \* participating processes
          Thread,     \* their threads
          home,       \* the process of a thread
          FirstEpoch, \* EPOCH_MIN_ACTIVE
          MaxEpoch    \* bound on the frontier

VARIABLES frontier,   \* the frontier epoch
          epoch,      \* the epoch a process has reported, 0 if none
          inOp        \* the threads inside an epoch operation

vars == <<frontier, epoch, inOp>>

Members(p) == {t \in Thread : home[t] = p}

TypeOK ==
  /\ frontier \in Nat
  /\ epoch \in [Proc -> Nat]
  /\ inOp \in SUBSET Thread

Init ==
  /\ frontier = FirstEpoch
  /\ epoch = [p \in Proc |-> 0]
  /\ inOp = {}

Join(p) ==
  /\ epoch[p] = 0
  /\ epoch' = [epoch EXCEPT ![p] = frontier]
  /\ UNCHANGED <<frontier, inOp>>

\* A process catches up with the frontier only between its operations.
Report(p) ==
  /\ epoch[p] # 0
  /\ inOp \cap Members(p) = {}
  /\ epoch' = [epoch EXCEPT ![p] = frontier]
  /\ UNCHANGED <<frontier, inOp>>

\* The first operation of a process may catch up as it begins; the others
\* run in the epoch it reported.
BeginOp(t) ==
  LET p == home[t] IN
  /\ epoch[p] # 0
  /\ t \notin inOp
  /\ inOp' = inOp \cup {t}
  /\ \/ UNCHANGED epoch
     \/ inOp \cap Members(p) = {} /\ epoch' = [epoch EXCEPT ![p] = frontier]
  /\ UNCHANGED frontier

EndOp(t) ==
  /\ t \in inOp
  /\ inOp' = inOp \ {t}
  /\ UNCHANGED <<frontier, epoch>>

\* A process that leaves or dies takes its operations with it.
Leave(p) ==
  /\ epoch' = [epoch EXCEPT ![p] = 0]
  /\ inOp' = inOp \ Members(p)
  /\ UNCHANGED frontier

Advance ==
  /\ frontier < MaxEpoch
  /\ \A p \in Proc : epoch[p] \in {0, frontier}
  /\ frontier' = frontier + 1
  /\ UNCHANGED <<epoch, inOp>>

Next ==
  \/ \E p \in Proc : Join(p) \/ Report(p) \/ Leave(p)
  \/ \E t \in Thread : BeginOp(t) \/ EndOp(t)
  \/ Advance

Spec == Init /\ [][Next]_vars
=============================================================================
