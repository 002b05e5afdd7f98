------------------------------ MODULE DistHeap ------------------------------
(***************************************************************************)
(* The distributed heap, allocator/dist_heap.cc: every process owns and    *)
(* maps at most one shelf of the pool and allocates from it; a pointer of  *)
(* a shelf that is not mapped goes to the free list of that shelf; a       *)
(* cleaner thread per process takes shelves over from dead owners and      *)
(* empties the free lists of the shelves of its own process.  A shelf is   *)
(* a bump allocator (NvHeapLayout), and giving memory back to it does      *)
(* nothing.  Any process may die between two steps; adding a shelf to the  *)
(* pool is one step here (module Pool has its own).                        *)
(***************************************************************************)
EXTENDS Ownership, FreeLists, FiniteSets, FiniteSetsExt

CONSTANTS
  User, home,       \* application threads and the processes they run in
  Capacity,         \* objects a shelf has room for
  MaxEvents         \* bound: calls (but of Free), failures and deaths

ASSUME DistHeapAssumption ==
  /\ home \in [User -> Proc] /\ User \cap Proc = {}
  /\ IsFiniteSet(User) /\ IsFiniteSet(Proc)
  /\ ListCount = ItemCount
  /\ {Capacity, MaxEvents} \subseteq Nat

VARIABLES
  heap,        \* the pool: "absent", "raw" (not formatted), "ready", or
               \* "dying": being destroyed
  shelf,       \* the shelves in the pool
  next_free,   \* next_free[s]: objects allocated from shelf s so far
  is_open, map,      \* of every process; map: the shelves it has mapped
  writer,      \* rwlock_ of every process: is the write lock taken?
  pc, loc,     \* of the user threads, and of the cleaner of every process
  live,        \* history: pointers allocated and not yet freed
  reclaimed,   \* history: pointers given back to their shelf, as often
  dropped,     \* history: pointers PutPointer had no block for
  events       \* calls but of Free, failures and deaths so far

pool == <<heap, shelf, next_free>>
handle == <<is_open, map, writer>>
history == <<live, reclaimed, dropped>>
vars == <<items, life, blocks, pool, handle, pc, loc, history, events>>

kMaxOwnedHeap == 1

Actor == User \cup Proc      \* a process stands for its cleaner thread
Home(x) == IF x \in Proc THEN x ELSE home[x]
Pointer == Item \X (0 .. Capacity - 1)
NoPointer == << >>

ScanPC == {"check", "take", "claim", "add", "unadd"}
OwnPC == {"open", "release"}
UsingPC == {"add", "unadd"} \cup OwnPC     \* the thread has the item
SettlingPC == {"recover", "settle"}        \* the cleaner has it
PutPC == {"put", "raise", "push"}
UserPC == {"idle", "format", "destroy", "want", "stop"}
            \cup ScanPC \cup OwnPC \cup PutPC
CleanerPC == {"off", "sleep", "check", "owner", "revoke", "lists", "fba", "free"}
               \cup SettlingPC

\* s: the shelf; stage: how far the search for a shelf is, and who searches;
\* pid, old: the first word of an item, and both; blk, ptr: what it carries.
NoLocals == [s |-> 0, stage |-> "none", pid |-> 0, old |-> NoID,
             blk |-> NoBlock, ptr |-> NoPointer]

\* The searches: existing shelves, then any (AcquireShelfHeap), and once more
\* any (the last resort of Alloc).
Stage == {"none", "full", "old", "any", "last", "open_old", "open_any", "close"}

Locals == [s : Item, stage : Stage, pid : Pid, old : [pid : Pid, btime : Nat],
           blk : Block \cup {NoBlock}, ptr : Pointer \cup {NoPointer}]

FamTypes ==
  /\ items \in [Item -> ProcessID]
  /\ freelists \in [List -> Seq(Block)] /\ first_free \in Seq(Block)
  /\ never_allocated \in 0 .. BlockCount
  /\ free_ptr \in [Block -> Pointer \cup {NoPointer}]
  /\ heap \in {"absent", "raw", "ready", "dying"} /\ shelf \subseteq Item
  /\ next_free \in [Item -> 0 .. Capacity]

ProcTypes ==
  /\ life \in [Proc -> {"new", "up", "dead"}]
  /\ is_open \in [Proc -> BOOLEAN] /\ map \in [Proc -> SUBSET Item]
  /\ writer \in [Proc -> BOOLEAN]
  /\ pc \in [Actor -> UserPC \cup CleanerPC] /\ loc \in [Actor -> Locals]
  /\ \A t \in User : pc[t] \in UserPC
  /\ \A p \in Proc : pc[p] \in CleanerPC

HistoryTypes ==
  /\ live \subseteq Pointer /\ dropped \subseteq Pointer
  /\ reclaimed \in [Pointer -> Nat]
  /\ events \in 0 .. MaxEvents

\* ... and no process owns more shelves than it may.
TypeOK == FamTypes /\ ProcTypes /\ HistoryTypes
            /\ \A p \in Proc : Cardinality(map[p]) <= kMaxOwnedHeap

Init ==
  /\ OwnershipInit /\ FreeListsInit
  /\ heap = "ready" /\ shelf = {} /\ next_free = [s \in Item |-> 0]
  /\ is_open = [p \in Proc |-> FALSE] /\ map = [p \in Proc |-> {}]
  /\ writer = [p \in Proc |-> FALSE]
  /\ pc = [x \in Actor |-> IF x \in Proc THEN "off" ELSE "idle"]
  /\ loc = [x \in Actor |-> NoLocals]
  /\ live = {} /\ dropped = {} /\ reclaimed = [ptr \in Pointer |-> 0]
  /\ events = 0

-----------------------------------------------------------------------------
(* Control *)

Goto(x, label) == pc' = [pc EXCEPT ![x] = label]
With(x, l) == loc' = [loc EXCEPT ![x] = l]
Done(x) == Goto(x, "idle") /\ With(x, NoLocals)

Quiet(p) == pc[p] = "off" /\ \A t \in User : home[t] = p => pc[t] = "idle"
Event == events < MaxEvents /\ events' = events + 1

Stopping(p) == \E t \in User : home[t] = p /\ pc[t] = "stop"

\* An operation on an open heap; Create, Destroy, Open and Close are called
\* when no other thread of the process uses the heap.
Call(t, label, l) ==
  /\ pc[t] = "idle"
  /\ life[home[t]] = "up"
  /\ is_open[home[t]] /\ ~Stopping(home[t])
  /\ Goto(t, label)
  /\ With(t, l)

\* The cleaner holds the read lock while it empties the free lists.
Reading(p) == pc[p] \in {"fba", "free"}
WriteLock(p) == ~writer[p] /\ ~Reading(p) /\ writer' = [writer EXCEPT ![p] = TRUE]
Unlock(p) == writer' = [writer EXCEPT ![p] = FALSE]

\* A process dies, or one of its threads fails an assert (they are compiled in).
Vanish(p) ==
  /\ life' = [life EXCEPT ![p] = "dead"]
  /\ pc' = [x \in Actor |-> IF Home(x) # p THEN pc[x] ELSE IF x \in Proc THEN "off" ELSE "idle"]
  /\ loc' = [x \in Actor |-> IF Home(x) # p THEN loc[x] ELSE NoLocals]
  /\ is_open' = [is_open EXCEPT ![p] = FALSE]
  /\ map' = [map EXCEPT ![p] = {}]
  /\ Unlock(p)

-----------------------------------------------------------------------------
(* Create and Destroy: nobody else uses the heap, and nobody opens what a   *)
(* crash has left of one that was being destroyed; to destroy it again is   *)
(* what the code provides for.                                              *)

Alone == \A p \in Proc : ~is_open[p] /\ Quiet(p)

CreatePool(t) ==
  /\ heap = "absent" /\ Alone /\ life[home[t]] = "up" /\ Event
  /\ heap' = "raw"
  /\ Goto(t, "format")
  /\ UNCHANGED <<items, life, blocks, shelf, next_free, handle, loc, history>>

Format(t) ==   \* Ownership::Create and FreeLists::Create
  /\ pc[t] = "format"
  /\ heap' = "ready"
  /\ items' = [i \in Item |-> NoID]
  /\ FreeListsClear
  /\ Done(t)
  /\ UNCHANGED <<life, shelf, next_free, handle, history, events>>

Destroy(t) ==
  /\ heap # "absent" /\ Alone /\ life[home[t]] = "up" /\ Event
  /\ heap' = "dying"
  /\ Goto(t, "destroy")
  /\ UNCHANGED <<items, life, blocks, shelf, next_free, handle, loc, history>>

RemoveShelf(t) ==
  /\ pc[t] = "destroy" /\ shelf # {}
  /\ shelf' = shelf \ {Min(shelf)}
  /\ UNCHANGED <<items, life, blocks, heap, next_free, handle, pc, loc, history, events>>

DestroyPool(t) ==   \* the pointers into the heap mean nothing from now on
  /\ pc[t] = "destroy" /\ shelf = {}
  /\ heap' = "absent"
  /\ next_free' = [s \in Item |-> 0]
  /\ live' = {} /\ dropped' = {} /\ reclaimed' = [ptr \in Pointer |-> 0]
  /\ FreeListsClear
  /\ items' = [i \in Item |-> NoID]
  /\ Done(t)
  /\ UNCHANGED <<life, shelf, handle, events>>

-----------------------------------------------------------------------------
(* AcquireShelfHeap: the scans, in the order of the indices.  The caller    *)
(* holds the write lock.                                                    *)

Scan(t, stage) == Goto(t, "check") /\ With(t, [NoLocals EXCEPT !.stage = stage])

\* The end of Open: StartWorker.
Opened(t) ==
  LET p == home[t] IN
  /\ pc' = [pc EXCEPT ![t] = "idle", ![p] = "sleep"]
  /\ With(t, NoLocals)
  /\ is_open' = [is_open EXCEPT ![p] = TRUE]
  /\ Unlock(p)

\* The scan found nothing at its last index: the next scan, or the caller
\* goes on without a new shelf.
NextScan(t) ==
  LET p == home[t] st == loc[t].stage IN
  \/ st = "old" /\ Scan(t, "any") /\ UNCHANGED handle
  \/ st = "any" /\ Scan(t, "last") /\ UNCHANGED handle
  \/ st = "open_old" /\ Scan(t, "open_any") /\ UNCHANGED handle
  \/ st = "last" /\ Done(t) /\ Unlock(p) /\ UNCHANGED <<is_open, map>>
  \/ st = "open_any" /\ Opened(t) /\ UNCHANGED map

Advance(t) ==
  IF loc[t].s + 1 \in Item
    THEN /\ Goto(t, "check")
         /\ With(t, [NoLocals EXCEPT !.stage = loc[t].stage, !.s = loc[t].s + 1])
         /\ UNCHANGED handle
    ELSE NextScan(t)

Existing == {"old", "open_old"}   \* the scans for shelves that exist

\* CheckItem and CheckShelf.  Only whether the item has an owner matters, and
\* that is what it was when one of its words was read: one step.
Check(t) ==
  LET s == loc[t].s IN
  /\ t \in User /\ pc[t] = "check"
  /\ IF IsValid(items[s]) \/ (s \notin shelf /\ loc[t].stage \in Existing)
       THEN Advance(t)
       ELSE /\ Goto(t, IF s \in shelf THEN "take" ELSE "claim")
            /\ UNCHANGED <<loc, handle>>
  /\ UNCHANGED <<items, life, blocks, pool, history, events>>

Acquire(t) ==
  LET s == loc[t].s IN
  /\ pc[t] \in {"take", "claim"}
  /\ AcquireItem(home[t], s)
  /\ IF Acquired(s)
       THEN /\ Goto(t, IF pc[t] = "take" THEN "open" ELSE "add")
            /\ UNCHANGED <<loc, handle>>
       ELSE Advance(t)
  /\ UNCHANGED <<life, blocks, pool, history, events>>

\* AddShelf formats a file for the shelf and marks the item of the pool.
AddShelf(t) ==
  LET s == loc[t].s IN
  /\ pc[t] = "add"
  /\ \/ /\ s \notin shelf
        /\ shelf' = shelf \cup {s}
        /\ next_free' = [next_free EXCEPT ![s] = 0]
        /\ Goto(t, "open")
        /\ UNCHANGED events
     \/ /\ IF s \in shelf THEN UNCHANGED events ELSE Event
        /\ Goto(t, "unadd")
        /\ UNCHANGED <<shelf, next_free>>
  /\ UNCHANGED <<items, life, blocks, heap, handle, loc, history>>

\* The scan goes on, or ends when the item is not given up.
AddFailed(t) ==
  /\ pc[t] = "unadd"
  /\ \E id \in SetPid(home[t]) :
       /\ ReleaseItem(loc[t].s, id)
       /\ IF Released(loc[t].s, id) THEN Advance(t) ELSE NextScan(t)
  /\ UNCHANGED <<life, blocks, pool, history, events>>

-----------------------------------------------------------------------------
(* Open, Close and Alloc *)

OpenHeap(t) ==
  LET p == home[t] IN
  /\ heap = "ready" /\ ~is_open[p] /\ Quiet(p) /\ life[p] = "up"
  /\ \A u \in User : pc[u] \notin {"format", "destroy"}
  /\ WriteLock(p)
  /\ Scan(t, "open_old")
  /\ UNCHANGED <<items, life, blocks, pool, is_open, map, history, events>>

BadRoom(s) == next_free[s] <= Capacity   \* a mutant: one object too many

\* NvHeapLayout::Alloc: the bump pointer is raised by compare-and-store.
Room(s) == next_free[s] < Capacity

Bump(s) ==
  /\ next_free' = [next_free EXCEPT ![s] = @ + 1]
  /\ live' = live \cup {<<s, next_free[s]>>}

Alloc(t) ==        \* under the read lock, from the shelves that are mapped
  LET p == home[t] IN
  /\ ~writer[p] /\ Event
  /\ IF \E s \in map[p] : Room(s)
       THEN (\E s \in map[p] : Room(s) /\ Bump(s)) /\ Call(t, "idle", NoLocals)
       ELSE Call(t, "want", NoLocals) /\ UNCHANGED <<next_free, live>>
  /\ UNCHANGED <<items, life, blocks, heap, shelf, handle, reclaimed, dropped>>

\* CloseShelfHeap unmaps the shelf; the next step gives up the item.
CloseShelfHeap(t, s, stage) ==
  /\ map' = [map EXCEPT ![home[t]] = @ \ {s}]
  /\ Goto(t, "release")
  /\ With(t, [NoLocals EXCEPT !.s = s, !.stage = stage])

AllocWant(t) ==    \* a process at its limit gives its shelf away first
  LET p == home[t] IN
  /\ pc[t] = "want"
  /\ WriteLock(p)
  /\ IF Cardinality(map[p]) = kMaxOwnedHeap
       THEN CloseShelfHeap(t, Min(map[p]), "full")
       ELSE Scan(t, "old") /\ UNCHANGED map
  /\ UNCHANGED <<items, life, blocks, pool, is_open, history, events>>

\* OpenShelfHeap.  In Open, the cleaner starts then.  In Alloc, the shelf is
\* asked at once; one that is full is kept only by the last resort.
OpenShelfHeap(t) ==
  LET p == home[t] s == loc[t].s st == loc[t].stage
      Map == map' = [map EXCEPT ![p] = @ \cup {s}] IN
  /\ pc[t] = "open"
  /\ \/ /\ st \in {"open_old", "open_any"}
        /\ Map
        /\ Opened(t)
        /\ UNCHANGED <<next_free, live>>
     \/ /\ st \notin {"open_old", "open_any"} /\ Room(s)
        /\ Map
        /\ Bump(s)
        /\ Done(t) /\ Unlock(p)
        /\ UNCHANGED is_open
     \/ /\ st = "last" /\ ~Room(s)
        /\ Map
        /\ Done(t) /\ Unlock(p)
        /\ UNCHANGED <<is_open, next_free, live>>
     \/ /\ st \in {"old", "any"} /\ ~Room(s)
        /\ CloseShelfHeap(t, s, st)
        /\ UNCHANGED <<is_open, writer, next_free, live>>
  /\ UNCHANGED <<items, life, blocks, heap, shelf, reclaimed, dropped, events>>

\* It fails: the early return leaves the item with the process.
OpenShelfFails(t) ==
  /\ pc[t] = "open"
  /\ Event
  /\ Done(t)
  /\ Unlock(home[t])
  /\ UNCHANGED <<items, life, blocks, pool, is_open, map, history>>

\* What follows a release: the search, the last resort, or the end of Close.
AfterRelease(t) ==
  \/ loc[t].stage = "full" /\ Scan(t, "old") /\ UNCHANGED <<is_open, writer>>
  \/ loc[t].stage \in {"old", "any"} /\ Scan(t, "last") /\ UNCHANGED <<is_open, writer>>
  \/ /\ loc[t].stage = "close"
     /\ Done(t)
     /\ is_open' = [is_open EXCEPT ![home[t]] = FALSE]
     /\ Unlock(home[t])

GiveUp(t) ==
  /\ pc[t] = "release"
  /\ \E id \in SetPid(home[t]) :
       /\ ReleaseItem(loc[t].s, id)
       /\ IF Released(loc[t].s, id)
            THEN AfterRelease(t)
            ELSE Done(t) /\ Unlock(home[t]) /\ UNCHANGED is_open
  /\ UNCHANGED <<life, blocks, pool, map, history, events>>

Abort(t) ==
  /\ pc[t] = "release" /\ ~IsValid(items[loc[t].s])
  /\ Vanish(home[t])
  /\ UNCHANGED <<items, blocks, pool, history, events>>

\* owned: what the assertion on the item finds.  An owner may still lose it
\* until the item is given up; the caller returns when that fails.
ReleaseShelfHeap(t) ==
  \E owned \in {TRUE, IsValid(items[loc[t].s])} :
    IF owned THEN GiveUp(t) ELSE Abort(t)

\* Close stops the cleaner: it is joined when it looks at cleaner_stop_.
CloseHeap(t) ==
  LET p == home[t] IN
  /\ \A u \in User \ {t} : home[u] = p => pc[u] = "idle"
  /\ Call(t, "stop", NoLocals)
  /\ UNCHANGED <<items, life, blocks, pool, handle, history, events>>

CloseMapped(t) ==
  LET p == home[t] IN
  /\ pc[t] = "stop" /\ pc[p] = "off"
  /\ IF map[p] = {}
       THEN /\ Done(t) /\ is_open' = [is_open EXCEPT ![p] = FALSE]
            /\ UNCHANGED <<map, writer>>
       ELSE WriteLock(p) /\ CloseShelfHeap(t, Min(map[p]), "close") /\ UNCHANGED is_open
  /\ UNCHANGED <<items, life, blocks, pool, history, events>>

-----------------------------------------------------------------------------
(* Free and PutPointer *)

Free(t, ptr) ==
  LET p == home[t] IN
  /\ ptr \in live /\ ~writer[p]
  /\ live' = live \ {ptr}
  /\ IF ptr[1] \in map[p]
       THEN /\ Call(t, "idle", NoLocals)
            /\ reclaimed' = [reclaimed EXCEPT ![ptr] = @ + 1]
       ELSE Call(t, "put", [NoLocals EXCEPT !.ptr = ptr]) /\ UNCHANGED reclaimed
  /\ UNCHANGED <<items, life, blocks, pool, handle, dropped, events>>

PutReuse(t) ==
  /\ pc[t] = "put"
  /\ PopFirstFree
  /\ Goto(t, "push")
  /\ With(t, [loc[t] EXCEPT !.blk = Head(first_free)])
  /\ UNCHANGED <<items, life, pool, handle, history, events>>

\* No freed block: the watermark is read (blk holds it).
PutWatermark(t) ==
  /\ pc[t] = "put" /\ first_free = << >>
  /\ Goto(t, "raise")
  /\ With(t, [loc[t] EXCEPT !.blk = never_allocated])
  /\ UNCHANGED <<items, life, blocks, pool, handle, history, events>>

\* The block behind the watermark, or another try with its new value.
PutRaise(t) ==
  LET old == loc[t].blk IN
  /\ pc[t] = "raise"
  /\ RaiseWatermark(old)
  /\ IF Raised(old)
       THEN Goto(t, "push") /\ With(t, [loc[t] EXCEPT !.blk = old + 1])
       ELSE UNCHANGED pc /\ With(t, [loc[t] EXCEPT !.blk = never_allocated])
  /\ UNCHANGED <<items, life, pool, handle, history, events>>

\* No block is left: PutPointer returns NO_ERROR and the pointer is gone.
PutDrop(t) ==
  /\ pc[t] = "raise" /\ loc[t].blk = BlockCount
  /\ dropped' = dropped \cup {loc[t].ptr}
  /\ Done(t)
  /\ UNCHANGED <<items, life, blocks, pool, handle, live, reclaimed, events>>

PutPush(t) ==
  LET l == loc[t] IN
  /\ pc[t] = "push"
  /\ Push(l.ptr[1], l.blk, l.ptr)
  /\ Done(t)
  /\ UNCHANGED <<items, life, pool, handle, history, events>>

-----------------------------------------------------------------------------
(* BackgroundWorker: take shelves over from the dead, then free one pointer *)
(* from the free list of every shelf that is mapped.                        *)

NextItem(p) ==
  IF loc[p].s + 1 \in Item
    THEN Goto(p, "check") /\ With(p, [NoLocals EXCEPT !.s = loc[p].s + 1])
    ELSE Goto(p, "lists") /\ With(p, NoLocals)

\* Asleep, and not told to stop; or on the way through the items.  Reads the
\* first word of the next one; no process has the pid 0.
RevokeCheck(p) ==
  LET pid == ReadPid(loc[p].s) IN
  /\ pc[p] = "check" \/ (pc[p] = "sleep" /\ ~Stopping(p))
  /\ p \in Proc
  /\ IF pid = 0 THEN NextItem(p)
                ELSE Goto(p, "owner") /\ With(p, [loc[p] EXCEPT !.pid = pid])
  /\ UNCHANGED <<items, life, blocks, pool, handle, history, events>>

CleanerStop(p) ==
  /\ pc[p] = "sleep" /\ Stopping(p)
  /\ Goto(p, "off")
  /\ UNCHANGED <<items, life, blocks, pool, handle, loc, history, events>>

RevokeDead(p) ==
  LET old == ReadOwner(loc[p].s, loc[p].pid) IN
  /\ p \in Proc /\ pc[p] = "owner"
  /\ \E alive \in IsAlive(p, old) :
       IF IsValid(old) /\ ~alive
         THEN Goto(p, "revoke") /\ With(p, [loc[p] EXCEPT !.old = old])
         ELSE NextItem(p)
  /\ UNCHANGED <<items, life, blocks, pool, handle, history, events>>

RevokeTake(p) ==
  LET l == loc[p] IN
  /\ pc[p] = "revoke"
  /\ TakeOver(p, l.s, l.old)
  /\ IF Stored(l.s, l.old) THEN Goto(p, "recover") /\ UNCHANGED loc ELSE NextItem(p)
  /\ UNCHANGED <<life, blocks, pool, handle, history, events>>

\* RecoverShelfHeap has nothing to recover.  It aborts when the pool has no
\* such shelf, and may find no memory.
Recover(p) ==
  /\ pc[p] = "recover" /\ loc[p].s \in shelf
  /\ \/ /\ With(p, [loc[p] EXCEPT !.old = NoID]) /\ UNCHANGED events
     \/ /\ Event /\ UNCHANGED loc
  /\ Goto(p, "settle")
  /\ UNCHANGED <<items, life, blocks, pool, handle, history>>

RecoverAborts(p) ==
  /\ pc[p] = "recover" /\ loc[p].s \notin shelf
  /\ Vanish(p)
  /\ UNCHANGED <<items, blocks, pool, history, events>>

RevokeSettle(p) ==
  /\ pc[p] = "settle"
  /\ Write(loc[p].s, loc[p].old)
  /\ NextItem(p)
  /\ UNCHANGED <<life, blocks, pool, handle, history, events>>

\* ReadLock, and GetPointer for the shelf that is mapped, if there is one.
GetPointer(p) ==
  /\ pc[p] = "lists" /\ ~writer[p]
  /\ IF \E s \in map[p] : freelists[s] # << >>
       THEN \E s \in map[p] :
              /\ Pop(s)
              /\ Goto(p, "fba")
              /\ With(p, [NoLocals EXCEPT !.s = s, !.blk = Head(freelists[s])])
       ELSE Goto(p, "sleep") /\ With(p, NoLocals) /\ UNCHANGED blocks
  /\ UNCHANGED <<items, life, pool, handle, history, events>>

GetFree(p) ==
  /\ pc[p] = "fba"
  /\ FreeBlock(loc[p].blk)
  /\ Goto(p, "free")
  /\ With(p, [loc[p] EXCEPT !.ptr = free_ptr[loc[p].blk], !.blk = NoBlock])
  /\ UNCHANGED <<items, life, pool, handle, history, events>>

\* Free(ptr), whose shelf is mapped, and ReadUnlock.
CleanerFree(p) ==
  /\ pc[p] = "free"
  /\ reclaimed' = [reclaimed EXCEPT ![loc[p].ptr] = @ + 1]
  /\ Goto(p, "sleep")
  /\ With(p, NoLocals)
  /\ UNCHANGED <<items, life, blocks, pool, handle, live, dropped, events>>

-----------------------------------------------------------------------------
Start(p) == Birth(p) /\ UNCHANGED <<items, blocks, pool, handle, pc, loc, history, events>>

Die(p) ==
  /\ life[p] = "up"
  /\ Event
  /\ Vanish(p)
  /\ UNCHANGED <<items, blocks, pool, history>>

LifeCycle(t) ==
  \/ CreatePool(t) \/ Format(t) \/ Destroy(t) \/ RemoveShelf(t) \/ DestroyPool(t)
  \/ OpenHeap(t) \/ CloseHeap(t) \/ CloseMapped(t)

AcquireShelfHeap(t) ==
  Check(t) \/ Acquire(t) \/ AddShelf(t) \/ AddFailed(t)

AllocStep(t) ==
  \/ Alloc(t) \/ AllocWant(t)
  \/ OpenShelfHeap(t) \/ OpenShelfFails(t) \/ ReleaseShelfHeap(t)

PutPointer(t) ==
  PutReuse(t) \/ PutWatermark(t) \/ PutRaise(t) \/ PutDrop(t) \/ PutPush(t)

BackgroundWorker(p) ==
  \/ RevokeCheck(p) \/ CleanerStop(p) \/ RevokeDead(p) \/ RevokeTake(p)
  \/ Recover(p) \/ RecoverAborts(p) \/ RevokeSettle(p)
  \/ GetPointer(p) \/ GetFree(p) \/ CleanerFree(p)

Next ==
  \/ \E t \in User :
       \/ LifeCycle(t) \/ AcquireShelfHeap(t) \/ AllocStep(t) \/ PutPointer(t)
       \/ \E ptr \in Pointer : Free(t, ptr)
  \/ \E p \in Proc : Start(p) \/ Die(p) \/ BackgroundWorker(p)

Spec == Init /\ [][Next]_vars

-----------------------------------------------------------------------------
(* The uses of a shelf: it is mapped, it is on its way in or out of the map, *)
(* or a cleaner recovers it.                                                *)
Uses(s) ==
  {<<p, "map", p>> : p \in {q \in Proc : s \in map[q]}}
    \cup {<<home[t], "user", t>> : t \in {u \in User : pc[u] \in UsingPC /\ loc[u].s = s}}
    \cup {<<p, "cleaner", p>> : p \in {q \in Proc : pc[q] \in SettlingPC /\ loc[q].s = s}}

(* Where processes are identified, a shelf is used in one place at a time,  *)
(* by the process its item names: whoever scans with an old look at the     *)
(* item, reads two halves of it, or comes back under the pid of a dead      *)
(* owner, CheckAndRevokeItem takes a shelf only from the dead and           *)
(* AcquireItem only from nobody.                                            *)
OneHolder ==
  \A s \in Item : \A u \in Uses(s) : items[s] = ID(u[1]) /\ Uses(s) = {u}

(* Two threads never use one shelf: a second AcquireItem fails, and a shelf *)
(* is taken over from the dead only.                                        *)
SoleUser == \A s \in Item : \A u, v \in Uses(s) : u = v

(* RecoverShelfHeap, run as the recovery of CheckAndRevokeItem: it asserts  *)
(* that the shelf of the item it took over from the dead can be recovered.  *)
RecoverFindsShelf == \A p \in Proc : pc[p] = "recover" => loc[p].s \in shelf

\* Where a block is: on lists, free, or between its pop and its push.
InHand(b) == {t \in User : pc[t] = "push" /\ loc[t].blk = b}
               \cup {p \in Proc : pc[p] = "fba" /\ loc[p].blk = b}
Listed(b) == {x \in Item \X Block : /\ x[2] \in DOMAIN freelists[x[1]]
                                    /\ freelists[x[1]][x[2]] = b}
Freed(b) == {i \in DOMAIN first_free : first_free[i] = b}

\* Where a pointer is: with the application, in a block of its own shelf's
\* list, on its way there or back, given back, or dropped.
Copies(ptr) ==
  Cardinality({x \in Actor : loc[x].ptr = ptr})
    + Cardinality({b \in Block : free_ptr[b] = ptr /\
                     (\E i \in Block : <<ptr[1], i>> \in Listed(b)
                       \/ \E p \in Proc : pc[p] = "fba" /\ loc[p].blk = b)})
    + reclaimed[ptr]
    + (IF ptr \in live THEN 1 ELSE 0) + (IF ptr \in dropped THEN 1 ELSE 0)
Allocated == {ptr \in Pointer : ptr[2] < next_free[ptr[1]]}
Carriers == {x \in Actor : life[Home(x)] = "dead"}

(* FreeLists: a block is in one place, a pointer is freed at most once and  *)
(* where its shelf is mapped, and is lost only with the thread that carried *)
(* it or when PutPointer finds that every block has been handed out.        *)
FreedOnce ==
  /\ \A b \in Block :
       Cardinality(InHand(b)) + Cardinality(Listed(b)) + Cardinality(Freed(b))
         <= (IF b <= never_allocated THEN 1 ELSE 0)
  /\ \A ptr \in Pointer : Copies(ptr) <= (IF ptr \in Allocated THEN 1 ELSE 0)
  /\ Cardinality({ptr \in Allocated : Copies(ptr) = 0}) <= Cardinality(Carriers)
  /\ dropped # {} => never_allocated = BlockCount

-----------------------------------------------------------------------------
(* The heap as its application sees it *)

\* The block and the pointer a thread or a cleaner has in hand.
Held(x) == IF pc[x] \in {"push", "fba"} THEN loc[x].blk ELSE NoBlock
Carry(x) == loc[x].ptr

\* The blocks that carry a pointer: on the lists, or popped and not yet read.
OnList(s) == Range(freelists[s])
Full == {b \in Block : (\E s \in Item : b \in OnList(s)) \/ \E p \in Proc : Held(p) = b}

\* The pointers on their way: with a thread or a cleaner, or in a block.
Moving == {Carry(x) : x \in Actor} \ {NoPointer}
Boxed == {free_ptr[b] : b \in Full}
Pending == Moving \cup Boxed

\* The threads and the cleaner of a process.
Crew(p) == {x \in Actor : Home(x) = p}

Objects == INSTANCE ObjectHeap WITH
  crew <- [p \in Proc |-> Crew(p)],
  allocated <- Allocated,
  pending <- Pending,
  room <- BlockCount - never_allocated,
  dead <- {p \in Proc : life[p] = "dead"}

(* Every step of a thread or a cleaner is one step of ObjectHeap, or none:  *)
(* what the free lists and the crashes do to a pointer that another process *)
(* has to free is never more than Free, GiveBack, Drop and Die say.         *)
ImplementsObjectHeap == Objects!Spec
=============================================================================
