---------------------------- MODULE EpochZoneHeap ----------------------------
(***************************************************************************)
(* The life of one heap: allocator/epoch_zone_heap.cc with the parts of    *)
(* zone_shelf_heap.cc, shelf_file.cc and shelf_manager.cc that keep its    *)
(* shelves mapped.  In fabric-attached memory there is a pool of shelves   *)
(* (module Pool; one of its operations is one step here): shelf 0 holds    *)
(* the header, the others hold a zone each (module Zone).  Every process   *)
(* has at most one object of the heap, a thread that uses it, the cleaner  *)
(* thread, and the table of the shelves it ever mapped.  Which of these    *)
(* operations a process may start, and when, is said in MemoryManager.     *)
(***************************************************************************)
EXTENDS ShelfManager

CONSTANTS Proc,
          MaxData,             \* kMaxShelfCount - 1, the shelves with a zone
          MaxLives, MaxEvents, \* bounds of the runs; PermLives: the lives in
          PermLives            \* which permissions are changed

ASSUME HeapAssumption == {MaxData, MaxLives, MaxEvents, PermLives} \subseteq Nat \ {0}

VARIABLES pool,    \* does the pool exist
          file,    \* which heap's file a shelf has: the number of its life
          perm,    \* the permission of that file
          total,   \* total_shelfs in the header
          op,      \* op_in_progress in the header
          dying,   \* the lives whose header says destroy_in_progress
          boot,    \* the root shelf and the epoch shelf: absent, raw, ready
          at,      \* what the thread of a process does next
          loc,     \* its locals
          h,       \* its EpochZoneHeap (or PoolRegion)
          rmb,     \* the file an opened shelf was mapped from
          wk,      \* the cleaner thread
          lives,   \* history: how often the pool was created
          torn,    \* history: a SetPermission of this life ended half-way
          events   \* failures and deaths so far

header == <<total, op, dying>>
fam == <<pool, file, perm, header>>
views == <<h, rmb, map, wk>>
history == <<lives, torn>>

Shelf == 0 .. MaxData
Data == 1 .. MaxData
Perm == {1, 2}
Life == 1 .. MaxLives

NoShelves == [s \in Data |-> None]
NoHandle == [kind |-> "none", open |-> FALSE,
             hdr |-> None,                  \* gh_: whose header is mapped
             mapped |-> 0,                  \* total_mapped_shelfs_
             failed |-> FALSE,              \* history: OpenNewShelfs failed on a
                                            \* shelf that is there
             invalid |-> FALSE, nobg |-> FALSE,
             start |-> FALSE, stop |-> FALSE, running |-> FALSE]
NoLocals == [call |-> "none", ok |-> FALSE,
             n |-> 0, k |-> 0, perm |-> 1]  \* bounds and indices of its loops

CreatePC == {"create", "create_header", "create_zone", "create_total"}
DestroyPC == {"destroy", "destroy_shelf", "destroy_pool"}
PermPC == {"perm_read", "perm_shelf", "perm_done"}
UsePC == {"open_shelves", "open_wait", "join", "close", "access", "refresh",
          "resize_read", "resize_clean", "resize_add", "resize_count",
          "resize_done"} \cup PermPC

HeapTypeOK ==
  /\ pool \in BOOLEAN
  /\ file \in [Shelf -> Life \cup {None}]
  /\ perm \in [Shelf -> Perm]
  /\ total \in 0 .. MaxData
  /\ op \in {"none", "resize", "perm"}
  /\ dying \subseteq Life
  /\ \A p \in Proc : /\ h[p].hdr \in Life \cup {None}
                     /\ h[p].mapped \in 0 .. MaxData
                     /\ loc[p].n \in 0 .. MaxData
  /\ rmb \in [Proc -> [Data -> Life \cup {None}]]
  /\ map \in [Proc -> [Data -> -MaxLives .. MaxLives]]
  /\ wk \in [Proc -> {"none", "sleep", "work", "selfclose", "exited"}]
  /\ lives \in 0 .. MaxLives
  /\ torn \in BOOLEAN
  /\ events \in 0 .. MaxEvents

HeapInit ==
  /\ pool = FALSE
  /\ file = [s \in Shelf |-> None]
  /\ perm = [s \in Shelf |-> 1]
  /\ total = 0
  /\ op = "none"
  /\ dying = {}
  /\ loc = [p \in Proc |-> NoLocals]
  /\ h = [p \in Proc |-> NoHandle]
  /\ rmb = [p \in Proc |-> NoShelves]
  /\ map = [p \in Proc |-> NoShelves]
  /\ wk = [p \in Proc |-> "none"]
  /\ lives = 0
  /\ torn = FALSE
  /\ events = 0

-----------------------------------------------------------------------------
(* Control *)

Goto(p, label, l) ==
  /\ at' = [at EXCEPT ![p] = label]
  /\ loc' = [loc EXCEPT ![p] = l]
Finish(p) == Goto(p, "idle", NoLocals)
\* Create and Destroy return to the memory manager.
Return(p, ok) == Goto(p, "returned", [NoLocals EXCEPT !.call = loc[p].call, !.ok = ok])
\* An assertion fails or a null pointer is used.
AbortIn(p, c) == Goto(p, "abort", [loc[p] EXCEPT !.call = c])
Abort(p) == AbortIn(p, loc[p].call)

\* A SetPermission has changed some of the shelves.
HalfWay(p) == at[p] = "perm_shelf" /\ loc[p].k > 1

Event == events < MaxEvents /\ events' = events + 1
NoEvent == UNCHANGED events

-----------------------------------------------------------------------------
(* Create *)

\* The pool exists, or it is created (and counted as a life) and opened.
CreatePool(p) ==
  /\ at[p] = "create"
  /\ IF pool THEN /\ Return(p, FALSE)
                  /\ UNCHANGED <<pool, lives, torn>>
             ELSE /\ lives < MaxLives
                  /\ Goto(p, IF loc[p].call = "createregion" THEN "region_shelf"
                             ELSE "create_header", loc[p])
                  /\ pool' = TRUE
                  /\ lives' = lives + 1
                  /\ torn' = FALSE
  /\ NoEvent
  /\ UNCHANGED <<file, perm, header, views>>

\* AddShelf in the life of the pool, or its failure: no space for the file.
AddShelf(s, mode) ==
  /\ file' = [file EXCEPT ![s] = lives]
  /\ perm' = [perm EXCEPT ![s] = mode]
RemoveShelf(s) ==
  /\ file' = [file EXCEPT ![s] = None]
  /\ perm' = [perm EXCEPT ![s] = 1]
RemoveShelves ==
  /\ file' = [s \in Shelf |-> None]
  /\ perm' = [s \in Shelf |-> 1]

CreateFails(p) ==
  /\ at[p] \in {"create_header", "create_zone", "region_shelf"}
  /\ Event
  /\ Return(p, FALSE)
  /\ UNCHANGED <<fam, views, history>>

\* The header shelf, which is cleared.
CreateHeader(p) ==
  /\ at[p] = "create_header"
  /\ AddShelf(0, 1)
  /\ total' = 0 /\ op' = "none"
  /\ Goto(p, "create_zone", loc[p])
  /\ NoEvent
  /\ UNCHANGED <<pool, dying, views, history>>

CreateZone(p) ==
  /\ at[p] = "create_zone"
  /\ AddShelf(1, 1)
  /\ Goto(p, "create_total", loc[p])
  /\ NoEvent
  /\ UNCHANGED <<pool, header, views, history>>

WriteTotal(p) ==
  /\ at[p] = "create_total"
  /\ total' = 1
  /\ Return(p, TRUE)
  /\ NoEvent
  /\ UNCHANGED <<pool, file, perm, op, dying, views, history>>

-----------------------------------------------------------------------------
(* Destroy *)

\* The header is told first; then it says how many shelves there are.
DestroyBegin(p) ==
  /\ at[p] = "destroy"
  /\ IF pool /\ file[0] # None
     THEN /\ dying' = dying \cup {file[0]}
          /\ Goto(p, "destroy_shelf", [loc[p] EXCEPT !.k = 1, !.n = total])
     ELSE Return(p, FALSE) /\ UNCHANGED dying
  /\ NoEvent
  /\ UNCHANGED <<pool, file, perm, total, op, views, history>>

\* ShelfHeap::Destroy unregisters the mapping of this process, RemoveShelf drops
\* the shelf; the header goes last.  A shelf that is missing fails an assertion.
DestroyShelf(p) ==
  LET k == IF loc[p].k <= loc[p].n THEN loc[p].k ELSE 0
  IN  /\ at[p] = "destroy_shelf"
      /\ IF file[k] = None
         THEN Abort(p) /\ UNCHANGED <<file, perm, map>>
         ELSE /\ RemoveShelf(k)
              /\ UnregisterShelf(p, {k})
              /\ IF k = 0 THEN Goto(p, "destroy_pool", loc[p])
                          ELSE Goto(p, "destroy_shelf", [loc[p] EXCEPT !.k = k + 1])
      /\ NoEvent
      /\ UNCHANGED <<pool, header, h, rmb, wk, history>>

\* Pool::Destroy removes every shelf that is left.
DestroyPool(p) ==
  /\ at[p] = "destroy_pool"
  /\ pool' = FALSE
  /\ RemoveShelves
  /\ total' = 0 /\ op' = "none"
  /\ Return(p, TRUE)
  /\ NoEvent
  /\ UNCHANGED <<dying, views, history>>

-----------------------------------------------------------------------------
(* Open and OpenNewShelfs *)

\* ShelfFile::Map of the files that are there now.
MapShelves(p, S) == RegisterShelf(p, S, file)

\* OpenShelf of the shelves from lo to hi.
OpenShelves(p, lo, hi) ==
  /\ MapShelves(p, lo .. hi)
  /\ rmb' = [rmb EXCEPT ![p] = [s \in Data |-> IF s \in lo .. hi THEN map'[p][s] ELSE @[s]]]

\* OpenShelf fails on the first shelf that is missing.
LastOpened(lo, hi) ==
  CHOOSE t \in lo - 1 .. hi : /\ \A s \in lo .. t : file[s] # None
                              /\ t = hi \/ file[t + 1] = None

\* It may also fail on a shelf that is there, when its part of the header cannot be
\* mapped or its file not be opened or mapped.  (That the header gives another size
\* than the file has cannot be: Resize writes the size before it counts the shelf.)
OpensTo(lo, hi, top) ==
  \/ top = LastOpened(lo, hi) /\ NoEvent
  \/ top \in lo - 1 .. LastOpened(lo, hi) - 1 /\ Event

\* The shelves other processes added.
OpenNewShelfs(p) ==
  LET lo == h[p].mapped + 1
  IN  \E top \in Shelf :
        /\ OpensTo(lo, total, top)
        /\ OpenShelves(p, lo, top)
        /\ h' = [h EXCEPT ![p] = [@ EXCEPT !.mapped = top,
                                          !.failed = top < LastOpened(lo, total)]]

\* The pool and the header; a header without shelves cannot be mapped.
OpenHeader(p) ==
  /\ IF pool /\ file[0] # None /\ total > 0
     THEN /\ h' = [h EXCEPT ![p].hdr = file[0]]
          /\ Goto(p, "open_shelves", [loc[p] EXCEPT !.n = total])
     ELSE Finish(p) /\ UNCHANGED h
  /\ UNCHANGED <<rmb, map, wk>>

\* StartWorker: an object whose cleaner was started and never joined starts no
\* other one, and its cleaner_running_ is still set.
StartWorker(p) ==
  IF h[p].start THEN UNCHANGED wk ELSE wk' = [wk EXCEPT ![p] = "sleep"]

\* Every shelf the header counted, or none (what was mapped stays registered);
\* then the cleaner, if it is wanted.
OpenAll(p) ==
  /\ at[p] = "open_shelves"
  /\ \E top \in Shelf :
       LET opened == [h[p] EXCEPT !.open = TRUE, !.mapped = top, !.failed = FALSE]
       IN  /\ OpensTo(1, loc[p].n, top)
           /\ \/ /\ top < loc[p].n
                 /\ MapShelves(p, 1 .. top)
                 /\ h' = [h EXCEPT ![p] = [@ EXCEPT !.mapped = top, !.hdr = None]]
                 /\ Finish(p)
                 /\ UNCHANGED <<rmb, wk>>
              \/ /\ top = loc[p].n
                 /\ OpenShelves(p, 1, top)
                 /\ h' = [h EXCEPT ![p] = [opened EXCEPT !.nobg = TRUE]]
                 /\ Finish(p)
                 /\ UNCHANGED wk
              \/ /\ top = loc[p].n
                 /\ OpenShelves(p, 1, top)
                 /\ h' = [h EXCEPT ![p] = [opened EXCEPT !.start = TRUE]]
                 /\ Goto(p, "open_wait", loc[p])
                 /\ StartWorker(p)
  /\ UNCHANGED <<fam, history>>

OpenWait(p) ==
  /\ at[p] = "open_wait"
  /\ h[p].running
  /\ h' = [h EXCEPT ![p].nobg = FALSE]
  /\ Finish(p)
  /\ NoEvent
  /\ UNCHANGED <<fam, rmb, map, wk, history>>

-----------------------------------------------------------------------------
(* Close and the cleaner *)

CloseBegin(p) ==
  LET stops == ~h[p].invalid /\ ~h[p].nobg /\ h[p].running /\ h[p].start
  IN  /\ h' = [h EXCEPT ![p].stop = stops]
      /\ Goto(p, IF stops THEN "join" ELSE "close", [loc[p] EXCEPT !.call = "close"])
      /\ UNCHANGED <<rmb, map, wk>>

Join(p) ==
  /\ at[p] = "join"
  /\ wk[p] = "exited"
  /\ wk' = [wk EXCEPT ![p] = "none"]
  /\ h' = [h EXCEPT ![p] = [@ EXCEPT !.start = FALSE, !.stop = FALSE, !.running = FALSE]]
  /\ Goto(p, "close", loc[p])
  /\ NoEvent
  /\ UNCHANGED <<fam, rmb, map, history>>

Closed(p) ==
  /\ rmb' = [rmb EXCEPT ![p] = NoShelves]
  /\ h' = [h EXCEPT ![p].open = FALSE, ![p].hdr = None]

\* ShelfHeap::Close unmaps a shelf that is marked invalid; otherwise it fails if the
\* file is gone, and leaves the mapping registered if not.
CloseFails(p, s) == file[s] = None /\ ~IsInvalid(p, s)

\* CloseShelf of the shelves above lo.
CloseShelf(p, lo) ==
  rmb' = [rmb EXCEPT ![p] = [s \in Data |-> IF s <= lo THEN @[s] ELSE None]]

\* The shelves from the last one down, until one fails.
CloseShelves(p) ==
  LET fails == {s \in 1 .. h[p].mapped : CloseFails(p, s)}
      last == IF fails = {} THEN 0 ELSE CHOOSE s \in fails : \A t \in fails : t <= s
  IN  /\ at[p] = "close"
      /\ IF \E s \in (last .. h[p].mapped) \ {0} : rmb[p][s] = None
         THEN Abort(p) /\ UNCHANGED <<h, rmb>>
         ELSE /\ Finish(p)
              /\ IF last = 0 THEN Closed(p) ELSE CloseShelf(p, last) /\ UNCHANGED h
      /\ NoEvent
      /\ UNCHANGED <<fam, map, wk, history>>

\* RootShelf::Open, EpochShelf::Open.
Booted(f) == boot[f] = "ready"

\* BackgroundWorker: it says that it runs, looks whether it is to stop, gets the
\* epoch manager and looks whether the heap is being destroyed.  A pass over the
\* lists is module DelayedFree's; here it is a stutter.
Wake(p) ==
  /\ wk[p] = "sleep"
  /\ h[p].stop \/ Booted("epoch")
  /\ h' = [h EXCEPT ![p].running = TRUE]
  /\ wk' = [wk EXCEPT ![p] = CASE h[p].stop -> "exited"
                                 [] ~h[p].stop /\ h[p].hdr \in dying -> "work"
                                 [] OTHER -> "sleep"]
  /\ NoEvent
  /\ UNCHANGED <<fam, at, loc, rmb, map, history>>

\* Without the epoch shelf EpochManager::GetInstance ends the process.
NoEpochManager(p) ==
  /\ wk[p] = "sleep" /\ ~h[p].stop
  /\ ~Booted("epoch")
  /\ AbortIn(p, "exit")
  /\ wk' = [wk EXCEPT ![p] = "none"]
  /\ torn' = (torn \/ HalfWay(p))
  /\ NoEvent
  /\ UNCHANGED <<fam, h, rmb, map, lives>>

\* The heap is being destroyed: the object and the mappings are invalid.
Work(p) ==
  /\ wk[p] = "work"
  /\ h' = [h EXCEPT ![p].invalid = TRUE]
  /\ MarkInvalid(p, 1 .. h[p].mapped)
  /\ wk' = [wk EXCEPT ![p] = "selfclose"]
  /\ NoEvent
  /\ UNCHANGED <<fam, at, loc, rmb, history>>

\* The cleaner closes the heap; nobody joins it any more.
SelfClose(p) ==
  /\ wk[p] = "selfclose"
  /\ wk' = [wk EXCEPT ![p] = "exited"]
  /\ Closed(p)
  /\ NoEvent
  /\ UNCHANGED <<fam, at, loc, map, history>>

-----------------------------------------------------------------------------
(* Resize *)

BadResizeBegin(p) ==   \* a mutant: op_in_progress is not tested
  /\ op' = "resize"
  /\ Goto(p, "resize_read", [loc[p] EXCEPT !.call = "resize"])

\* The compare-and-store of op_in_progress; another operation makes it HEAP_BUSY.
ResizeBegin(p) ==
  /\ op = "none"
  /\ op' = "resize"
  /\ Goto(p, "resize_read", [loc[p] EXCEPT !.call = "resize"])

BadExtensible == total <= MaxData   \* a mutant: off by one

\* One of the kMaxShelfCount shelves is the header.
Extensible == total < MaxData

\* What the header says; the heap may be large enough, or full.
ResizeRead(p) ==
  /\ at[p] = "resize_read"
  /\ \/ /\ Extensible
        /\ Goto(p, "resize_clean", [loc[p] EXCEPT !.n = total, !.perm = perm[0]])
        /\ UNCHANGED op
     \/ op' = "none" /\ Finish(p)
  /\ NoEvent
  /\ UNCHANGED <<pool, file, perm, total, dying, views, history>>

\* The shelf an unfinished resize has left is removed.
ResizeClean(p) ==
  /\ at[p] = "resize_clean"
  /\ RemoveShelf(loc[p].n + 1)
  /\ Goto(p, "resize_add", loc[p])
  /\ NoEvent
  /\ UNCHANGED <<pool, header, views, history>>

BadResizeAdd(p) ==   \* a mutant: the shelf gets the default permission
  /\ at[p] = "resize_add"
  /\ AddShelf(loc[p].n + 1, 1)
  /\ Goto(p, "resize_count", [NoLocals EXCEPT !.call = "resize"])
  /\ NoEvent
  /\ UNCHANGED <<pool, header, views, history>>

ResizeAdd(p) ==
  /\ at[p] = "resize_add"
  /\ AddShelf(loc[p].n + 1, loc[p].perm)
  /\ Goto(p, "resize_count", [NoLocals EXCEPT !.call = "resize"])
  /\ NoEvent
  /\ UNCHANGED <<pool, header, views, history>>

ResizeFails(p) ==
  /\ at[p] = "resize_add"
  /\ Event
  /\ op' = "none"
  /\ Finish(p)
  /\ UNCHANGED <<pool, file, perm, total, dying, views, history>>

ResizeCount(p) ==
  /\ at[p] = "resize_count"
  /\ total' = total + 1
  /\ Goto(p, "resize_done", loc[p])
  /\ NoEvent
  /\ UNCHANGED <<pool, file, perm, op, dying, views, history>>

ResizeDone(p) ==
  /\ at[p] = "resize_done"
  /\ op' = "none"
  /\ Goto(p, "refresh", loc[p])
  /\ NoEvent
  /\ UNCHANGED <<pool, file, perm, total, dying, views, history>>

Refresh(p) ==
  /\ at[p] = "refresh"
  /\ OpenNewShelfs(p)
  /\ Finish(p)
  /\ UNCHANGED <<fam, wk, history>>

-----------------------------------------------------------------------------
(* SetPermission *)

PermBegin(p, mode) ==
  /\ op = "none"
  /\ op' = "perm"
  /\ Goto(p, "perm_read", [loc[p] EXCEPT !.call = "perm", !.perm = mode])

\* The header has the mode already, or the shelves that are new are opened; what
\* came of that is not looked at.  (The shelf of the pool's metadata is changed too.)
PermRead(p) ==
  /\ at[p] = "perm_read"
  /\ \/ /\ perm[0] = loc[p].perm
        /\ op' = "none" /\ Finish(p)
        /\ NoEvent
        /\ UNCHANGED <<h, rmb, map>>
     \/ /\ perm[0] # loc[p].perm
        /\ OpenNewShelfs(p)
        /\ Goto(p, "perm_shelf", [loc[p] EXCEPT !.k = 1, !.n = total])
        /\ UNCHANGED op
  /\ UNCHANGED <<pool, file, perm, total, dying, wk, history>>

\* The next shelf was not opened: there is no object for it, or a closed one.
Unopened(p) == at[p] = "perm_shelf" /\ loc[p].k <= loc[p].n /\ rmb[p][loc[p].k] = None

\* One shelf after the other, and the header last.
PermShelf(p) ==
  LET k == IF loc[p].k <= loc[p].n THEN loc[p].k ELSE 0
  IN  /\ at[p] = "perm_shelf"
      /\ IF Unopened(p)
         THEN Abort(p) /\ torn' = (torn \/ HalfWay(p)) /\ UNCHANGED perm
         ELSE /\ perm' = [perm EXCEPT ![k] = loc[p].perm]
              /\ IF k = 0 THEN Goto(p, "perm_done", loc[p])
                          ELSE Goto(p, "perm_shelf", [loc[p] EXCEPT !.k = k + 1])
              /\ UNCHANGED torn
      /\ NoEvent
      /\ UNCHANGED <<pool, file, header, views, lives>>

\* A permission cannot be read or changed: what was changed before stays so.
PermFails(p) ==
  /\ at[p] \in {"perm_read", "perm_shelf"}
  /\ IF Unopened(p) THEN NoEvent ELSE Event
  /\ op' = "none"
  /\ torn' = (torn \/ HalfWay(p))
  /\ Finish(p)
  /\ UNCHANGED <<pool, file, perm, total, dying, views, lives>>

PermDone(p) ==
  /\ at[p] = "perm_done"
  /\ op' = "none"
  /\ torn' = FALSE
  /\ Finish(p)
  /\ NoEvent
  /\ UNCHANGED <<pool, file, perm, total, dying, views, lives>>

-----------------------------------------------------------------------------
(* Alloc and Free, Merge, Size and the recoveries, pointers *)

\* Alloc goes from one shelf that has no room to the next; past the last one it has
\* open it opens the new ones, and goes on whatever came of that.
Alloc(p, s) ==
  /\ s <= h[p].mapped + 1 /\ s <= total
  /\ IF s > h[p].mapped THEN OpenNewShelfs(p) ELSE NoEvent /\ UNCHANGED <<h, rmb, map>>
  /\ IF rmb'[p][s] = None THEN AbortIn(p, "alloc") ELSE UNCHANGED <<at, loc>>

BadFree(p, s) ==   \* a mutant: the result of OpenNewShelfs is not looked at
  /\ IF s > h[p].mapped THEN OpenNewShelfs(p) ELSE NoEvent /\ UNCHANGED <<h, rmb, map>>
  /\ IF rmb'[p][s] = None THEN AbortIn(p, "access") ELSE UNCHANGED <<at, loc>>

\* Free of a pointer that any process got into shelf s; it gives up when the new
\* shelves cannot be opened.
Free(p, s) ==
  /\ IF s > h[p].mapped THEN OpenNewShelfs(p) ELSE NoEvent /\ UNCHANGED <<h, rmb, map>>
  /\ IF rmb'[p][s] = None /\ (s <= h[p].mapped \/ h'[p].mapped = total)
     THEN AbortIn(p, "access") ELSE UNCHANGED <<at, loc>>

\* Map and OffsetToLocal open no shelf.
OffsetToLocal(p, s) ==
  /\ NoEvent
  /\ UNCHANGED <<h, rmb, map>>
  /\ IF rmb[p][s] = None THEN AbortIn(p, "pointer") ELSE UNCHANGED <<at, loc>>

\* Merge, Size, OnlineRecover and Stats visit the shelves that are open then.
Merge(p) ==
  /\ OpenNewShelfs(p)
  /\ IF \E s \in 1 .. h'[p].mapped : rmb'[p][s] = None THEN AbortIn(p, "access")
     ELSE UNCHANGED <<at, loc>>

OfflineRecover(p) ==
  /\ OpenNewShelfs(p)
  /\ op' = "none"
  /\ UNCHANGED <<at, loc>>

\* MemoryManager::GlobalToLocal.
Translate(p, s) == FindBase(p, s, file) /\ UNCHANGED <<h, rmb>>

-----------------------------------------------------------------------------

HeapStep(p) ==
  \/ CreatePool(p) \/ CreateFails(p) \/ CreateHeader(p) \/ CreateZone(p) \/ WriteTotal(p)
  \/ DestroyBegin(p) \/ DestroyShelf(p) \/ DestroyPool(p)
  \/ OpenAll(p) \/ OpenWait(p)
  \/ Join(p) \/ CloseShelves(p) \/ Wake(p) \/ Work(p) \/ NoEpochManager(p)
  \/ SelfClose(p)
  \/ ResizeRead(p) \/ ResizeClean(p) \/ ResizeAdd(p) \/ ResizeFails(p)
  \/ ResizeCount(p) \/ ResizeDone(p) \/ Refresh(p)
  \/ PermRead(p) \/ PermShelf(p) \/ PermFails(p) \/ PermDone(p)
=============================================================================
