------------------------- MODULE DelayedFreeProofs -------------------------
(***************************************************************************)
(* Proofs about DelayedFree for any number of processes, threads, workers, *)
(* blocks and epochs.                                                      *)
(*                                                                         *)
(* The argument: an operation in progress keeps the frontier within one of *)
(* its own epoch (Synchronized), so when a block was freed in epoch r, and *)
(* an operation that was in progress then still is, every participant is   *)
(* in an epoch of r - 1 .. r + 2 (Pending).  None of these is congruent to *)
(* r + 3 modulo kListCnt, so no worker drains the block's list.            *)
(***************************************************************************)
EXTENDS DelayedFree, TLAPS

Synchronized ==
  /\ frontier >= FirstEpoch
  /\ \A p \in Proc : epoch[p] # 0 =>
       epoch[p] \in {frontier, frontier - 1} /\ epoch[p] >= FirstEpoch
  /\ \A t \in inOp : epoch[home[t]] # 0

\* A worker holds a block only inside its operation and its loop.
WorkersInOp == \A w \in Worker : held[w] # {} => w \in inOp /\ popped[w] < kFreeCnt

\* The epoch r in which the block on list l was freed, as seen from an
\* operation t that was in progress then and still is.
Pending(l, t) ==
  \E r \in Nat : /\ l = (r + 3) % kListCnt
                 /\ r <= frontier
                 /\ r \in {epoch[home[t]] - 1, epoch[home[t]], epoch[home[t]] + 1}

Holders ==
  /\ \A b \in Block : holders[b] \subseteq inOp
  /\ \A b \in used : holders[b] = {}
  /\ \A l \in List : \A b \in delayed[l] : \A t \in holders[b] : Pending(l, t)

IInv == TypeOK /\ Synchronized /\ WorkersInOp /\ InOnePlace /\ Holders /\ NoEarlyReclaim

-----------------------------------------------------------------------------
(* Five lists keep epochs at most four apart on different lists.           *)
LEMMA FiveLists ==
  ASSUME NEW a \in Nat, NEW b \in Nat, a < b, b <= a + 4
  PROVE  a % kListCnt # b % kListCnt
  BY DEF kListCnt

LEMMA ListTyped == \A n \in Nat : n % kListCnt \in List
  BY DEF kListCnt, List

LEMMA HomeTyped == \A t \in Thread : home[t] \in Proc
  BY DelayedFreeAssumption

(* The epoch service: what a step of it, or a stutter, leaves true.        *)
EpochSafe ==
  /\ E!TypeOK'
  /\ Synchronized'
  /\ frontier <= frontier'
  /\ \A t \in inOp \cap inOp' : epoch'[home[t]] = epoch[home[t]]

LEMMA EpochSteps ==
  ASSUME E!TypeOK, Synchronized, E!Next \/ UNCHANGED epochVars
  PROVE  EpochSafe
<1> USE DelayedFreeAssumption, HomeTyped DEF EpochSafe, E!TypeOK, Synchronized
<1>1. ASSUME NEW p \in Proc, E!Join(p) PROVE EpochSafe
  BY <1>1 DEF E!Join
<1>2. ASSUME NEW p \in Proc, E!Report(p) PROVE EpochSafe
  BY <1>2 DEF E!Report, E!Members
<1>3. ASSUME NEW p \in Proc, E!Leave(p) PROVE EpochSafe
  BY <1>3 DEF E!Leave, E!Members
<1>4. ASSUME NEW t \in Thread, E!BeginOp(t) PROVE EpochSafe
  <2>1. CASE UNCHANGED epoch
    BY <1>4, <2>1 DEF E!BeginOp
  <2>2. CASE /\ inOp \cap E!Members(home[t]) = {}
             /\ epoch' = [epoch EXCEPT ![home[t]] = frontier]
    BY <1>4, <2>2 DEF E!BeginOp, E!Members
  <2> QED BY <1>4, <2>1, <2>2 DEF E!BeginOp
<1>5. ASSUME NEW t \in Thread, E!EndOp(t) PROVE EpochSafe
  BY <1>5 DEF E!EndOp
<1>6. ASSUME E!Advance PROVE EpochSafe
  BY <1>6 DEF E!Advance
<1>7. ASSUME UNCHANGED epochVars PROVE EpochSafe
  BY <1>7 DEF epochVars
<1> QED BY <1>1, <1>2, <1>3, <1>4, <1>5, <1>6, <1>7 DEF E!Next

LEMMA PendingStays ==
  ASSUME EpochSafe, E!TypeOK, NEW l \in List, NEW t \in inOp \cap inOp', Pending(l, t)
  PROVE  Pending(l, t)'
  BY DEF EpochSafe, E!TypeOK, Pending

-----------------------------------------------------------------------------
(* A worker in an operation drains no list that holds a block whose        *)
(* holders are not gone.                                                   *)
LEMMA DrainedListIsFree ==
  ASSUME E!TypeOK, Synchronized, NEW w \in inOp, NEW t \in inOp,
         Pending(DrainedList(w), t)
  PROVE  FALSE
<1> USE DelayedFreeAssumption, HomeTyped DEF E!TypeOK
<1> DEFINE e == epoch[home[w]]
<1>1. e \in Nat /\ e \in {frontier, frontier - 1}
  BY DEF Synchronized
<1>2. epoch[home[t]] \in Nat /\ epoch[home[t]] \in {frontier, frontier - 1}
  BY DEF Synchronized
<1>3. PICK r \in Nat : /\ e % kListCnt = (r + 3) % kListCnt
                       /\ r <= frontier
                       /\ r \in {epoch[home[t]] - 1, epoch[home[t]], epoch[home[t]] + 1}
  BY DEF Pending, DrainedList, reported_epoch
<1>4. e < r + 3 /\ r + 3 <= e + 4
  BY <1>1, <1>2, <1>3
<1> QED BY <1>1, <1>3, <1>4, FiveLists

(* A block freed now is pending for every operation in progress.           *)
LEMMA FreedIsPending ==
  ASSUME E!TypeOK, Synchronized, NEW s \in inOp, NEW t \in inOp
  PROVE  Pending(TargetList(s), t) /\ TargetList(s) \in List
<1> USE DelayedFreeAssumption, HomeTyped DEF E!TypeOK
<1> DEFINE r == epoch[home[s]]
<1>1. r \in Nat /\ r \in {frontier, frontier - 1}
  BY DEF Synchronized
<1>2. epoch[home[t]] \in Nat /\ epoch[home[t]] \in {frontier, frontier - 1}
  BY DEF Synchronized
<1>3. /\ r <= frontier
      /\ r \in {epoch[home[t]] - 1, epoch[home[t]], epoch[home[t]] + 1}
  BY <1>1, <1>2
<1> QED BY <1>1, <1>3, ListTyped DEF Pending, TargetList, reported_epoch

(* No operation pushes onto a list that a worker is draining.              *)
LEMMA PushesApart == TypeOK /\ Synchronized => PushPopApart
<1> SUFFICES ASSUME TypeOK, Synchronized,
                    NEW t \in App \cap inOp, NEW w \in Worker \cap inOp
             PROVE  TargetList(t) # DrainedList(w)
  BY DEF PushPopApart
<1>1. E!TypeOK /\ t \in inOp /\ w \in inOp
  BY DEF TypeOK
<1>2. Pending(TargetList(t), w)
  BY <1>1, FreedIsPending
<1>3. ~ Pending(DrainedList(w), w)
  BY <1>1, DrainedListIsFree
<1> QED BY <1>2, <1>3

-----------------------------------------------------------------------------
(* The inductive step.  Each step of the heap is a step of the epoch       *)
(* service or leaves it alone.                                             *)
LEMMA HeapOverEpochs == Next => E!Next \/ UNCHANGED epochVars
  BY DelayedFreeAssumption
  DEF Next, Application, BackgroundWorker, EpochStep, BeginOp, EndOp, Alloc, Free,
      FreeNow, WorkerBegin, WorkerPop, WorkerFree, WorkerEnd, OfflineFree, Leave,
      App, E!Next, epochVars

(* A step that moves no block and only forgets holders.                    *)
LEMMA QuietStep ==
  ASSUME IInv, EpochSafe, UNCHANGED <<used, free, delayed>>,
         popped' \in [Worker -> 0 .. kFreeCnt],
         held' \in [Worker -> SUBSET Block],
         \A w \in Worker : held'[w] \in {{}, held[w]},
         WorkersInOp',
         holders' \in [Block -> SUBSET Thread],
         \A b \in Block : holders'[b] \subseteq holders[b] \cap inOp'
  PROVE  IInv'
<1>1. TypeOK'
  BY DEF IInv, TypeOK, EpochSafe
<1>2. Synchronized'
  BY DEF EpochSafe
<1>3. InOnePlace'
  BY DEF IInv, InOnePlace, Reclaimed
<1>4. Holders'
  <2>1. \A b \in Block : holders'[b] \subseteq inOp'
    OBVIOUS
  <2>2. \A b \in used' : holders'[b] = {}
    BY DEF IInv, Holders, TypeOK
  <2>3. ASSUME NEW l \in List, NEW b \in delayed'[l], NEW t \in holders'[b]
        PROVE  Pending(l, t)'
    <3>1. b \in Block /\ b \in delayed[l] /\ t \in holders[b] /\ t \in inOp'
      BY <2>3 DEF IInv, TypeOK
    <3>2. Pending(l, t) /\ t \in inOp
      BY <3>1 DEF IInv, Holders
    <3> QED BY <3>1, <3>2, PendingStays DEF IInv, TypeOK
  <2> QED BY <2>1, <2>2, <2>3 DEF Holders
<1>5. NoEarlyReclaim'
  BY DEF IInv, NoEarlyReclaim, Reclaimed, TypeOK
<1> QED BY <1>1, <1>2, <1>3, <1>4, <1>5 DEF IInv

LEMMA InductiveStep == IInv /\ [Next]_vars => IInv'
<1> SUFFICES ASSUME IInv, [Next]_vars PROVE IInv'
  OBVIOUS
<1> USE DelayedFreeAssumption
<1>0. TypeOK /\ E!TypeOK
  BY DEF IInv, TypeOK
<1>1. EpochSafe
  <2>1. E!Next \/ UNCHANGED epochVars
    BY HeapOverEpochs DEF vars, epochVars
  <2> QED BY <1>0, <2>1, EpochSteps DEF IInv
<1>2. CASE UNCHANGED vars
  BY <1>0, <1>1, <1>2, QuietStep DEF vars, IInv, TypeOK, WorkersInOp, Holders
<1>3. ASSUME NEW t \in Thread, BeginOp(t) PROVE IInv'
  BY <1>0, <1>1, <1>3, QuietStep
  DEF BeginOp, E!BeginOp, IInv, TypeOK, WorkersInOp, Holders
<1>4. ASSUME NEW t \in Thread, EndOp(t) PROVE IInv'
  BY <1>0, <1>1, <1>4, QuietStep
  DEF EndOp, App, E!EndOp, Forget, IInv, TypeOK, WorkersInOp, Holders
<1>5. ASSUME NEW t \in Thread, NEW b \in Block, Alloc(t, b) PROVE IInv'
  <2> USE <1>0, <1>1, <1>5 DEF Alloc, epochVars
  <2>1. TypeOK' /\ Synchronized' /\ WorkersInOp'
    BY DEF IInv, TypeOK, EpochSafe, WorkersInOp
  <2>2. InOnePlace'
    BY DEF IInv, InOnePlace, Reclaimed, TypeOK
  <2>3. holders[b] = {}
    BY DEF IInv, NoEarlyReclaim, Reclaimed
  <2>4. Holders'
    BY <2>3, PendingStays DEF IInv, Holders, TypeOK
  <2>5. NoEarlyReclaim'
    BY DEF IInv, NoEarlyReclaim, Reclaimed
  <2> QED BY <2>1, <2>2, <2>4, <2>5 DEF IInv
<1>6. ASSUME NEW b \in Block, FreeNow(b) PROVE IInv'
  <2> USE <1>0, <1>1, <1>6 DEF FreeNow, epochVars
  <2>1. TypeOK' /\ Synchronized' /\ WorkersInOp'
    BY DEF IInv, TypeOK, EpochSafe, WorkersInOp
  <2>2. InOnePlace'
    BY DEF IInv, InOnePlace, Reclaimed, TypeOK
  <2>4. Holders'
    BY PendingStays DEF IInv, Holders, TypeOK
  <2>5. NoEarlyReclaim'
    BY DEF IInv, NoEarlyReclaim, Reclaimed, Holders
  <2> QED BY <2>1, <2>2, <2>4, <2>5 DEF IInv
<1>7. ASSUME NEW t \in Thread, NEW b \in Block, Free(t, b) PROVE IInv'
  <2> USE <1>0, <1>1, <1>7 DEF Free, epochVars
  <2>0. TargetList(t) \in List
    BY FreedIsPending DEF IInv
  <2>1. TypeOK' /\ Synchronized' /\ WorkersInOp'
    BY <2>0 DEF IInv, TypeOK, EpochSafe, WorkersInOp, E!TypeOK
  <2>2. b \notin Reclaimed /\ \A l \in List : b \notin delayed[l]
    BY DEF IInv, InOnePlace
  <2>3. InOnePlace'
    BY <2>0, <2>2 DEF IInv, InOnePlace, Reclaimed, TypeOK
  <2>4. Holders'
    <3>1. \A x \in Block : holders'[x] \subseteq inOp'
      BY DEF IInv, Holders, TypeOK
    <3>2. \A x \in used' : holders'[x] = {}
      BY DEF IInv, Holders, TypeOK
    <3>3. ASSUME NEW l \in List, NEW x \in delayed'[l], NEW u \in holders'[x]
          PROVE  Pending(l, u)'
      <4>1. u \in inOp /\ u \in inOp'
        BY <3>1 DEF TypeOK, IInv, Holders
      <4>2. Pending(l, u)
        <5>1. CASE x = b
          <6>1. l = TargetList(t)
            BY <2>2, <5>1 DEF TypeOK
          <6> QED BY <4>1, <6>1, FreedIsPending DEF IInv
        <5>2. CASE x # b
          BY <5>2, <2>0 DEF IInv, Holders, TypeOK
        <5> QED BY <5>1, <5>2
      <4> QED BY <4>1, <4>2, PendingStays
    <3> QED BY <3>1, <3>2, <3>3 DEF Holders
  <2>5. NoEarlyReclaim'
    BY <2>2 DEF IInv, NoEarlyReclaim, Reclaimed, TypeOK
  <2> QED BY <2>1, <2>3, <2>4, <2>5 DEF IInv
<1>8. ASSUME NEW w \in Worker, WorkerBegin(w) PROVE IInv'
  BY <1>0, <1>1, <1>8, QuietStep
  DEF WorkerBegin, E!BeginOp, IInv, TypeOK, WorkersInOp, Holders
<1>9. ASSUME NEW w \in Worker, NEW b \in Block, WorkerPop(w, b) PROVE IInv'
  <2> USE <1>0, <1>1, <1>9 DEF WorkerPop, epochVars
  <2>0. DrainedList(w) \in List
    BY ListTyped, HomeTyped DEF DrainedList, reported_epoch, E!TypeOK
  <2>1. TypeOK' /\ Synchronized' /\ WorkersInOp'
    BY <2>0 DEF IInv, TypeOK, EpochSafe, WorkersInOp, E!TypeOK
  <2>2. b \notin free /\ b \notin used /\ \A v \in Worker : b \notin held[v]
    BY <2>0 DEF IInv, InOnePlace, Reclaimed
  <2>3. \A l \in List : l # DrainedList(w) => b \notin delayed[l]
    BY <2>0 DEF IInv, InOnePlace
  <2>4. \A v \in Worker : held'[v] = IF v = w THEN {b} ELSE held[v]
    BY DEF TypeOK
  <2>5. \A l \in List : delayed'[l] = IF l = DrainedList(w) THEN delayed[l] \ {b}
                                                           ELSE delayed[l]
    BY <2>0 DEF TypeOK
  <2>6. \A x : x \in Reclaimed' <=> x \in Reclaimed \/ x = b
    BY <2>4 DEF Reclaimed
  <2>7. InOnePlace'
    BY <2>2, <2>3, <2>4, <2>5, <2>6 DEF IInv, InOnePlace
  <2>8. holders[b] = {}
    <3> SUFFICES ASSUME NEW t \in holders[b] PROVE FALSE
      OBVIOUS
    <3>1. Pending(DrainedList(w), t) /\ t \in inOp
      BY <2>0 DEF IInv, Holders
    <3> QED BY <3>1, DrainedListIsFree DEF IInv
  <2>9. Holders'
    BY <2>5, PendingStays DEF IInv, Holders, TypeOK
  <2>10. NoEarlyReclaim'
    BY <2>6, <2>8 DEF IInv, NoEarlyReclaim
  <2> QED BY <2>1, <2>7, <2>9, <2>10 DEF IInv
<1>10. ASSUME NEW w \in Worker, WorkerFree(w) PROVE IInv'
  <2> USE <1>0, <1>1, <1>10 DEF WorkerFree, epochVars
  <2>1. TypeOK' /\ Synchronized' /\ WorkersInOp'
    BY DEF IInv, TypeOK, EpochSafe, WorkersInOp, E!TypeOK
  <2>2. \A v \in Worker : held'[v] = IF v = w THEN {} ELSE held[v]
    BY DEF TypeOK
  <2>3. \A x : x \in Reclaimed' <=> x \in Reclaimed
    BY <2>2 DEF Reclaimed
  <2>4. InOnePlace'
    BY <2>2, <2>3 DEF IInv, InOnePlace, Reclaimed
  <2>5. Holders'
    BY PendingStays DEF IInv, Holders, TypeOK
  <2>6. NoEarlyReclaim'
    BY <2>3 DEF IInv, NoEarlyReclaim
  <2> QED BY <2>1, <2>4, <2>5, <2>6 DEF IInv
<1>11. ASSUME NEW w \in Worker, WorkerEnd(w) PROVE IInv'
  BY <1>0, <1>1, <1>11, QuietStep
  DEF WorkerEnd, E!EndOp, Forget, IInv, TypeOK, WorkersInOp, Holders
<1>12. ASSUME OfflineFree PROVE IInv'
  <2> USE <1>0, <1>1, <1>12 DEF OfflineFree, epochVars
  <2>1. TypeOK' /\ Synchronized' /\ WorkersInOp'
    BY DEF IInv, TypeOK, EpochSafe, WorkersInOp, E!TypeOK
  <2>2. InOnePlace'
    BY DEF IInv, InOnePlace, Reclaimed, TypeOK
  <2>3. Holders'
    BY DEF IInv, Holders, TypeOK
  <2>4. NoEarlyReclaim'
    BY DEF IInv, NoEarlyReclaim, Reclaimed
  <2> QED BY <2>1, <2>2, <2>3, <2>4 DEF IInv
<1>13. ASSUME NEW p \in Proc, Leave(p) PROVE IInv'
  BY <1>0, <1>1, <1>13, QuietStep
  DEF Leave, E!Leave, E!Members, Forget, IInv, TypeOK, WorkersInOp, Holders
<1>14. ASSUME EpochStep PROVE IInv'
  BY <1>0, <1>1, <1>14, QuietStep
  DEF EpochStep, E!Join, E!Report, E!Advance, IInv, TypeOK, WorkersInOp, Holders
<1> QED
  BY <1>2, <1>3, <1>4, <1>5, <1>6, <1>7, <1>8, <1>9, <1>10, <1>11, <1>12, <1>13, <1>14
  DEF Next, Application, BackgroundWorker

LEMMA InitSafe == Init => IInv
  BY DelayedFreeAssumption
  DEF Init, E!Init, IInv, TypeOK, E!TypeOK, Synchronized, WorkersInOp, InOnePlace,
      Holders, NoEarlyReclaim, Reclaimed, List, kListCnt

THEOREM Invariance == Spec => []IInv
  BY InitSafe, InductiveStep, PTL DEF Spec

-----------------------------------------------------------------------------
(* Every variable has its type.                                            *)
THEOREM TypeCorrect == Spec => []TypeOK
  BY Invariance, PTL DEF IInv

(* Delayed free keeps the README's promise: a block is not reclaimed while *)
(* an operation that was in progress when it was freed still is, whatever  *)
(* the interleaving of applications, workers, frontier advances and        *)
(* crashes.                                                                *)
THEOREM NoEarlyReclaimTheorem == Spec => []NoEarlyReclaim
  BY Invariance, PTL DEF IInv

(* Free(EpochOp), BackgroundWorker and OfflineFree never put a block in    *)
(* two places.                                                             *)
THEOREM InOnePlaceTheorem == Spec => []InOnePlace
  BY Invariance, PTL DEF IInv

(* Five lists suffice: no list is pushed to while a worker drains it.      *)
THEOREM PushPopApartTheorem == Spec => []PushPopApart
<1>1. IInv => PushPopApart
  BY PushesApart DEF IInv
<1> QED BY Invariance, <1>1, PTL
=============================================================================
