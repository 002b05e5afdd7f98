---------------------------- MODULE DelayedFree ----------------------------
(***************************************************************************)
(* Epoch-based delayed free of EpochZoneHeap (allocator/                   *)
(* epoch_zone_heap.cc): the kListCnt lists of a shelf in fabric-attached   *)
(* memory, the operations of the application on them and the background    *)
(* worker of every process, over the epoch service of module Epochs.       *)
(*                                                                         *)
(* One shelf: the code keeps the lists of each shelf apart, and opens an   *)
(* operation of its own for each.  A list is a set: which block a pop      *)
(* returns does not matter here.  The buddy allocator behind Alloc and     *)
(* Free is the set of its free blocks.                                     *)
(***************************************************************************)
EXTENDS Integers, FiniteSets

CONSTANTS Proc, Thread, home, FirstEpoch, MaxEpoch,   \* as in Epochs
          Worker,     \* the threads that run BackgroundWorker
          Block,      \* blocks of the shelf
          kFreeCnt    \* most blocks a worker frees in one operation

ASSUME DelayedFreeAssumption ==
  /\ home \in [Thread -> Proc]
  /\ FirstEpoch \in Nat \ {0}
  /\ MaxEpoch \in Nat
  /\ Worker \subseteq Thread
  /\ kFreeCnt \in Nat

BadListCnt == 4   \* mutants of the definitions they precede are named Bad...
kListCnt == 5
List == 0 .. kListCnt - 1

VARIABLES
  frontier, epoch, inOp,   \* the epoch service
  used,      \* blocks handed out by Alloc and not freed
  free,      \* blocks the zone allocator can hand out again
  delayed,   \* the blocks of each global list
  held,      \* blocks a worker has popped and not yet freed
  popped,    \* loop counter i of a worker
  holders    \* history: operations in progress when the block was freed,
             \* and still in progress

epochVars == <<frontier, epoch, inOp>>
vars == <<frontier, epoch, inOp, used, free, delayed, held, popped, holders>>

E == INSTANCE Epochs

TypeOK ==
  /\ E!TypeOK
  /\ used \subseteq Block
  /\ free \subseteq Block
  /\ delayed \in [List -> SUBSET Block]
  /\ held \in [Worker -> SUBSET Block]
  /\ popped \in [Worker -> 0 .. kFreeCnt]
  /\ holders \in [Block -> SUBSET Thread]

Init ==
  /\ E!Init
  /\ used = {}
  /\ free = Block
  /\ delayed = [l \in List |-> {}]
  /\ held = [w \in Worker |-> {}]
  /\ popped = [w \in Worker |-> 0]
  /\ holders = [b \in Block |-> {}]

App == Thread \ Worker

\* EpochOp::reported_epoch, asked from inside the operation of thread t.
reported_epoch(t) == epoch[home[t]]

-----------------------------------------------------------------------------
(* The application.                                                        *)

BeginOp(t) ==
  /\ t \in App
  /\ E!BeginOp(t)
  /\ UNCHANGED <<used, free, delayed, held, popped, holders>>

\* The destructor of an EpochOp: the operation holds no block any more.
Forget(threads) == holders' = [b \in Block |-> holders[b] \ threads]

EndOp(t) ==
  /\ t \in App
  /\ E!EndOp(t)
  /\ Forget({t})
  /\ UNCHANGED <<used, free, delayed, held, popped>>

\* Alloc(op, size): the block is zeroed and marked before it is returned.
Alloc(t, b) ==
  /\ t \in App \cap inOp
  /\ b \in free
  /\ free' = free \ {b}
  /\ used' = used \cup {b}
  /\ UNCHANGED <<epochVars, delayed, held, popped, holders>>

\* Free(ptr): immediate, for a block its owner never shared.
FreeNow(b) ==
  /\ b \in used
  /\ used' = used \ {b}
  /\ free' = free \cup {b}
  /\ UNCHANGED <<epochVars, delayed, held, popped, holders>>

\* Free(op, ptr): onto the list of the epoch three ahead.  Any operation in
\* progress may have reached the block before it was unlinked.
BadTargetList(t) == (reported_epoch(t) + 2) % kListCnt
TargetList(t) == (reported_epoch(t) + 3) % kListCnt
Free(t, b) ==
  /\ t \in App \cap inOp
  /\ b \in used
  /\ used' = used \ {b}
  /\ delayed' = [delayed EXCEPT ![TargetList(t)] = @ \cup {b}]
  /\ holders' = [holders EXCEPT ![b] = inOp]
  /\ UNCHANGED <<epochVars, free, held, popped>>

-----------------------------------------------------------------------------
(* BackgroundWorker: in an operation of its own, up to kFreeCnt blocks of  *)
(* the list of its epoch, each popped and then freed.                      *)

WorkerBegin(w) ==
  /\ E!BeginOp(w)
  /\ popped' = [popped EXCEPT ![w] = 0]
  /\ UNCHANGED <<used, free, delayed, held, holders>>

BadDrainedList(w) == (reported_epoch(w) + 1) % kListCnt
DrainedList(w) == reported_epoch(w) % kListCnt
BadWorkerPeek(w, b) ==   \* the block stays on the list
  /\ w \in inOp
  /\ held[w] = {}
  /\ popped[w] < kFreeCnt
  /\ b \in delayed[DrainedList(w)]
  /\ held' = [held EXCEPT ![w] = {b}]
  /\ UNCHANGED <<epochVars, used, free, delayed, popped, holders>>

BadWorkerPop(w, b) ==   \* kFreeCnt is not looked at
  LET l == DrainedList(w) IN
  /\ w \in inOp
  /\ held[w] = {}
  /\ b \in delayed[l]
  /\ delayed' = [delayed EXCEPT ![l] = @ \ {b}]
  /\ held' = [held EXCEPT ![w] = {b}]
  /\ UNCHANGED <<epochVars, used, free, popped, holders>>

WorkerPop(w, b) ==
  LET l == DrainedList(w) IN
  /\ w \in inOp
  /\ held[w] = {}
  /\ popped[w] < kFreeCnt
  /\ b \in delayed[l]
  /\ delayed' = [delayed EXCEPT ![l] = @ \ {b}]
  /\ held' = [held EXCEPT ![w] = {b}]
  /\ UNCHANGED <<epochVars, used, free, popped, holders>>

WorkerFree(w) ==
  /\ held[w] # {}
  /\ free' = free \cup held[w]
  /\ held' = [held EXCEPT ![w] = {}]
  /\ popped' = [popped EXCEPT ![w] = @ + 1]
  /\ UNCHANGED <<epochVars, used, delayed, holders>>

WorkerEnd(w) ==
  /\ held[w] = {}
  /\ popped[w] = kFreeCnt \/ delayed[DrainedList(w)] = {}
  /\ E!EndOp(w)
  /\ Forget({w})
  /\ UNCHANGED <<used, free, delayed, held, popped>>

-----------------------------------------------------------------------------
\* OfflineFree pops every list without an operation.  Its comment leaves it to
\* the caller to know that everything delayed can be freed.
OfflineFree ==
  LET all == UNION {delayed[l] : l \in List} IN
  /\ \A b \in all : holders[b] = {}
  /\ free' = free \cup all
  /\ delayed' = [l \in List |-> {}]
  /\ UNCHANGED <<epochVars, used, held, popped, holders>>

\* A process stops or dies.  A block its worker had popped leaks: it is on no
\* list and its allocation bit stays set.
Leave(p) ==
  /\ E!Leave(p)
  /\ Forget(E!Members(p))
  /\ held' = [w \in Worker |-> IF home[w] = p THEN {} ELSE held[w]]
  /\ UNCHANGED <<used, free, delayed, popped>>

\* The epoch manager's own steps.
EpochStep ==
  /\ E!Advance \/ \E p \in Proc : E!Join(p) \/ E!Report(p)
  /\ UNCHANGED <<used, free, delayed, held, popped, holders>>

Application(t) ==
  \/ BeginOp(t) \/ EndOp(t)
  \/ \E b \in Block : Alloc(t, b) \/ Free(t, b)
BackgroundWorker(w) ==
  \/ WorkerBegin(w) \/ WorkerFree(w) \/ WorkerEnd(w)
  \/ \E b \in Block : WorkerPop(w, b)

Next ==
  \/ \E t \in Thread : Application(t)
  \/ \E w \in Worker : BackgroundWorker(w)
  \/ \E b \in Block : FreeNow(b)
  \/ OfflineFree
  \/ \E p \in Proc : Leave(p)
  \/ EpochStep

Spec == Init /\ [][Next]_vars

-----------------------------------------------------------------------------
(* README: "memory will not be reclaimed until after every epoch operation *)
(* in progress when the delayed free is called has finished".  A block a   *)
(* worker has popped, or the allocator may hand out, has no such operation.*)
Reclaimed == free \cup UNION {held[w] : w \in Worker}
NoEarlyReclaim == \A b \in Reclaimed : holders[b] = {}

(* A block is in one place: with the application, on one list, in the      *)
(* hands of one worker, or free.  No pop and no crash frees it twice.      *)
InOnePlace ==
  /\ used \cap (Reclaimed \cup UNION {delayed[l] : l \in List}) = {}
  /\ \A l \in List : delayed[l] \cap Reclaimed = {}
  /\ \A l, m \in List : l # m => delayed[l] \cap delayed[m] = {}
  /\ \A w \in Worker : held[w] \cap free = {}
  /\ \A v, w \in Worker : v # w => held[v] \cap held[w] = {}

(* Why there are five lists: no operation pushes onto a list that a worker *)
(* in its operation is draining, in any process.                           *)
PushPopApart ==
  \A t \in App \cap inOp, w \in Worker \cap inOp : TargetList(t) # DrainedList(w)
=============================================================================
