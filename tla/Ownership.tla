------------------------------ MODULE Ownership ------------------------------
(***************************************************************************)
(* Who owns a shelf of a distributed heap: shelf_usage/ownership.cc over   *)
(* process ids (common/process_id.cc) and the 128-bit atomics of           *)
(* common/fam_atomic_x86.c.  An item is two words in FAM, the pid and the  *)
(* start time of its owner.  A compare-and-store acts on both at once; a   *)
(* read loads one after the other, so it may see halves of two owners.     *)
(* A process is one incarnation: another may later run under its pid.      *)
(* Who a process is, and whether it lives, is asked of /proc and kill on   *)
(* the node of the one who asks, and that may fail.                        *)
(***************************************************************************)
EXTENDS Integers

CONSTANTS Proc,
          pidOf, btimeOf,   \* the identity of a process
          First,            \* the processes that run from the start
          blind,            \* blind[p]: of whom p may fail to learn the start
                            \* time: other nodes, /proc; p itself among them
          ItemCount         \* kMaxShelfCount

ASSUME OwnershipAssumption ==
  /\ pidOf \in [Proc -> Nat \ {0}]
  /\ btimeOf \in [Proc -> Nat \ {0}]
  /\ First \subseteq Proc
  /\ blind \in [Proc -> SUBSET Proc]
  /\ ItemCount \in Nat \ {0}

\* What the ownership rests on: one node, where /proc tells the start time of
\* every process; pid and start time are of one process, and who starts later
\* has a start time of its own, in ticks of the clock.
Identified ==
  /\ \A p \in Proc : blind[p] = {}
  /\ \A p, q \in Proc : pidOf[p] = pidOf[q] /\ btimeOf[p] = btimeOf[q] => p = q
  /\ \A p, q \in Proc : p # q /\ btimeOf[p] = btimeOf[q] => {p, q} \subseteq First

VARIABLES items,   \* the owners, in FAM
          life     \* "new", "up" or "dead": the processes

Item == 0 .. ItemCount - 1

NoID == [pid |-> 0, btime |-> 0]
ID(p) == [pid |-> pidOf[p], btime |-> btimeOf[p]]
ProcessID == {NoID} \cup {ID(p) : p \in Proc}
Pid == {id.pid : id \in ProcessID}

IsValid(id) == id.pid # 0 /\ id.btime # 0

\* SetPid: the identity of the caller, or none when GetBtime returns 0.  pid_ is
\* one of the ownership object, and every SetPid of the process writes it.
SetPid(p) == {ID(p)} \cup (IF p \in blind[p] THEN {NoID} ELSE {})

\* What p may answer: whether kill(pid, 0) finds the process and /proc shows the
\* start time of the item.
IsAlive(p, id) ==
  LET owners == {q \in Proc : life[q] = "up" /\ ID(q) = id} IN
  {v \in BOOLEAN : IF v THEN owners # {} ELSE owners \subseteq blind[p]}

OwnershipInit ==   \* Ownership::Create: the items are cleared
  /\ items = [i \in Item |-> NoID]
  /\ life = [p \in Proc |-> IF p \in First THEN "up" ELSE "new"]

\* fam_atomic_u128_read: two plain loads.
ReadPid(i) == items[i].pid
ReadOwner(i, pid) == [pid |-> pid, btime |-> items[i].btime]

\* fam_atomic_u128_compare_and_store, and whether it stored.
CompareAndStore(i, old, new) ==
  items' = IF items[i] = old THEN [items EXCEPT ![i] = new] ELSE items

Stored(i, old) == items[i] = old

\* Without an identity of its own the caller stores nothing, and has acquired
\* the item all the same.
AcquireItem(p, i) == \E id \in SetPid(p) : CompareAndStore(i, NoID, id)
Acquired(i) == Stored(i, NoID)

\* id: what pid_ holds.
ReleaseItem(i, id) == CompareAndStore(i, id, NoID)
Released(i, id) == Stored(i, id)

BadTakeOver(p, i, old) ==    \* a mutant: the verdict is not checked again
  \E id \in SetPid(p) : items' = [items EXCEPT ![i] = id]

\* CheckAndRevokeItem: take the item over from the dead process ...
TakeOver(p, i, old) == \E id \in SetPid(p) : CompareAndStore(i, old, id)

\* ... and write the outcome of the recovery: nobody, or the dead process again.
Write(i, id) == items' = [items EXCEPT ![i] = id]

\* A pid is used again only when its process is gone, or on another node.
Birth(p) ==
  /\ life[p] = "new"
  /\ \A q \in Proc : life[q] = "up" /\ pidOf[q] = pidOf[p] => q \in blind[p]
  /\ life' = [life EXCEPT ![p] = "up"]
=============================================================================
