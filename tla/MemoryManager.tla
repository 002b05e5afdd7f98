---------------------------- MODULE MemoryManager ----------------------------
(***************************************************************************)
(* memory_manager.cc over the heaps and regions of one pool id.  In fabric-*)
(* attached memory the root shelf holds, for every id, a ticket spinlock   *)
(* and the type of the pool; CreateHeap, DestroyHeap, FindHeap and the     *)
(* region calls take that lock.  Processes boot (StartNVMM, Init), call,   *)
(* use their heap as module EpochZoneHeap says, and die at any step.       *)
(*                                                                         *)
(* The usage rules of memory_manager.h bound what is started:  one process *)
(* at a time runs StartNVMM, ResetNVMM runs alone, and who destroys a heap *)
(* makes sure that nobody is accessing it: the objects of the other        *)
(* processes are closed, or open and left to their cleaners.               *)
(***************************************************************************)
EXTENDS EpochZoneHeap, Sequences, FiniteSets

CONSTANT Gone   \* a ticket whose process is dead

ASSUME MemoryManagerAssumption == Gone \notin Proc

VARIABLES type,   \* types_[id]
          lock    \* the tickets of locks_[id] that are not served: the first holds it

mm == <<type, lock, boot>>
vars == <<fam, at, loc, views, history, events, mm>>

Calls == {"createheap", "destroyheap", "findheap",
          "createregion", "destroyregion", "findregion"}
Boots == {"root", "epoch"}
StartPC == {"boot_create", "boot_init"}
ChangePC == CreatePC \cup DestroyPC \cup {"region_shelf", "region_destroy", "returned"}

TypeOK ==
  /\ HeapTypeOK
  /\ type \in {"none", "heap", "region"}
  /\ lock \in Seq(Proc \cup {Gone})
  /\ boot \in [Boots -> {"absent", "raw", "ready"}]
  /\ at \in [Proc -> {"down", "boot_attach", "idle", "spin", "unlock", "find", "abort"}
                     \cup StartPC \cup ChangePC \cup UsePC]

Init ==
  /\ HeapInit
  /\ type = "none"
  /\ lock = <<>>
  /\ boot = [f \in Boots |-> "absent"]
  /\ at = [p \in Proc |-> "down"]

-----------------------------------------------------------------------------
(* Boot *)

\* StartNVMM looks for one shelf after the other; if both are there it does nothing.
Following(f) == IF f = "root" THEN "epoch" ELSE "attach"
BootGoto(p, f) ==
  IF f = "attach" THEN Goto(p, "boot_attach", NoLocals)
                  ELSE Goto(p, "boot_create", [NoLocals EXCEPT !.call = f])

StartNVMM(p) ==
  /\ at[p] = "down"
  /\ \E f \in Boots : boot[f] = "absent"
  /\ \A q \in Proc : at[q] \notin StartPC
  /\ BootGoto(p, "root")
  /\ NoEvent
  /\ UNCHANGED <<fam, views, history, mm>>

\* RootShelf::Exist and Create, EpochShelf likewise: the file is there, or it is
\* made without contents.
CreateShelf(p) ==
  LET f == loc[p].call
  IN  /\ at[p] = "boot_create"
      /\ IF boot[f] = "absent"
         THEN boot' = [boot EXCEPT ![f] = "raw"] /\ Goto(p, "boot_init", loc[p])
         ELSE UNCHANGED boot /\ BootGoto(p, Following(f))
      /\ NoEvent
      /\ UNCHANGED <<fam, views, history, type, lock>>

\* The contents, and the magic number at last.
InitRootShelf(p) ==
  /\ at[p] = "boot_init" /\ loc[p].call = "root"
  /\ boot' = [boot EXCEPT !["root"] = "ready"]
  /\ lock' = <<>> /\ type' = "none"
  /\ BootGoto(p, Following("root"))
  /\ NoEvent
  /\ UNCHANGED <<fam, views, history>>

InitEpochShelf(p) ==
  /\ at[p] = "boot_init" /\ loc[p].call = "epoch"
  /\ boot' = [boot EXCEPT !["epoch"] = "ready"]
  /\ BootGoto(p, Following("epoch"))
  /\ NoEvent
  /\ UNCHANGED <<fam, views, history, lock, type>>

\* MemoryManager::Init; without the root shelf the process exits.
Attach(p) ==
  /\ at[p] \in {"down", "boot_attach"}
  /\ Goto(p, IF Booted("root") THEN "idle" ELSE "down", NoLocals)
  /\ NoEvent
  /\ UNCHANGED <<fam, views, history, mm>>

ResetNVMM ==
  /\ \A p \in Proc : at[p] = "down"
  /\ boot' = [f \in Boots |-> "absent"]
  /\ lock' = <<>> /\ type' = "none"
  /\ pool' = FALSE
  /\ RemoveShelves
  /\ total' = 0 /\ op' = "none"
  /\ torn' = FALSE
  /\ NoEvent
  /\ UNCHANGED <<dying, at, loc, views, lives>>

-----------------------------------------------------------------------------
(* The calls on the pool id *)

\* Nobody else is accessing the heap or the region.
Left(q) == /\ at[q] \notin UsePC
           /\ h[q].open => h[q].kind = "heap" /\ wk[q] \in {"sleep", "work"} /\ ~h[q].nobg

\* fam_spin_lock draws a ticket and waits until it is served; fam_spin_unlock
\* serves the next one, whether or not its process is alive.
Draw(p) == lock' = Append(lock, p)

BadServed(p) == lock # <<>>   \* a mutant: the turn is not waited for

Served(p) == lock # <<>> /\ Head(lock) = p

ServeNext == lock' = Tail(lock)

Destroying == \E q \in Proc : loc[q].call \in {"destroyheap", "destroyregion"}

\* Lock.
Ask(p, c) ==
  /\ at[p] = "idle"
  /\ c \in {"findheap", "findregion"} => h[p].kind = "none"
  /\ c \in {"destroyheap", "destroyregion"} => ~h[p].open /\ \A q \in Proc \ {p} : Left(q)
  /\ Draw(p)
  /\ Goto(p, "spin", [NoLocals EXCEPT !.call = c])
  /\ NoEvent
  /\ UNCHANGED <<fam, views, history, type, boot>>

\* The ticket is served: the call goes on at a label if GetType says what it
\* wants; FindHeap and FindRegion have nothing more to do under the lock.
Begin(p, c, wanted, label) ==
  /\ at[p] = "spin" /\ loc[p].call = c
  /\ Served(p)
  /\ IF type = wanted THEN Goto(p, label, [loc[p] EXCEPT !.ok = (label = "unlock")])
                      ELSE Goto(p, "unlock", loc[p])
  /\ NoEvent
  /\ UNCHANGED <<fam, views, history, mm>>

CreateHeap(p)    == Begin(p, "createheap", "none", "create")
CreateRegion(p)  == Begin(p, "createregion", "none", "create")
DestroyHeap(p)   == Begin(p, "destroyheap", "heap", "destroy")
DestroyRegion(p) == Begin(p, "destroyregion", "region", "region_destroy")
FindHeap(p)      == Begin(p, "findheap", "heap", "unlock")
FindRegion(p)    == Begin(p, "findregion", "region", "unlock")

\* PoolRegion::Create after the pool: one shelf.
RegionShelf(p) ==
  /\ at[p] = "region_shelf"
  /\ AddShelf(0, 1)
  /\ Return(p, TRUE)
  /\ NoEvent
  /\ UNCHANGED <<pool, header, views, history, mm>>

\* PoolRegion::Destroy: every shelf, then the pool.
RegionDestroy(p) ==
  /\ at[p] = "region_destroy"
  /\ IF pool THEN RemoveShelves /\ Goto(p, "destroy_pool", loc[p])
             ELSE Return(p, FALSE) /\ UNCHANGED <<file, perm>>
  /\ NoEvent
  /\ UNCHANGED <<pool, header, views, history, mm>>

\* SetType, of a call that did what it wanted.
SetType(p) ==
  /\ at[p] = "returned"
  /\ type' = IF ~loc[p].ok THEN type
             ELSE CASE loc[p].call = "createheap" -> "heap"
                    [] loc[p].call = "createregion" -> "region"
                    [] OTHER -> "none"
  /\ Goto(p, "unlock", [loc[p] EXCEPT !.ok = FALSE])
  /\ NoEvent
  /\ UNCHANGED <<fam, views, history, lock, boot>>

Unlock(p) ==
  /\ at[p] = "unlock"
  /\ ServeNext
  /\ IF loc[p].ok THEN Goto(p, "find", loc[p]) ELSE Finish(p)
  /\ NoEvent
  /\ UNCHANGED <<fam, views, history, type, boot>>

\* FindHeap and FindRegion look for the pool without the lock.
Find(p) ==
  /\ at[p] = "find"
  /\ h' = IF ~pool THEN h
          ELSE [h EXCEPT ![p].kind = IF loc[p].call = "findheap" THEN "heap" ELSE "region"]
  /\ Finish(p)
  /\ NoEvent
  /\ UNCHANGED <<fam, rmb, map, wk, history, mm>>

-----------------------------------------------------------------------------
(* The use of the heap or region *)

\* An object is opened while the pool is what it was, and never again once it
\* IsInvalid().
Open(p) ==
  /\ at[p] = "idle"
  /\ h[p].kind = type /\ type # "none" /\ ~h[p].open /\ ~h[p].invalid /\ ~Destroying
  /\ IF type = "heap" THEN OpenHeader(p)
     ELSE /\ h' = IF pool /\ file[0] # None
                  THEN [h EXCEPT ![p] = [@ EXCEPT !.open = TRUE, !.hdr = file[0]]] ELSE h
          /\ UNCHANGED <<at, loc, rmb, map, wk>>
  /\ NoEvent
  /\ UNCHANGED <<fam, history, mm>>

Close(p) ==
  /\ at[p] = "idle"
  /\ h[p].open
  /\ IF h[p].kind = "heap" THEN CloseBegin(p)
     ELSE Closed(p) /\ UNCHANGED <<at, loc, map, wk>>
  /\ NoEvent
  /\ UNCHANGED <<fam, history, mm>>

\* The object is deleted; a cleaner that nobody joined ends the process.
Discard(p) ==
  /\ at[p] = "idle"
  /\ h[p].kind # "none" /\ ~h[p].open
  /\ h' = [h EXCEPT ![p] = NoHandle]
  /\ wk' = [wk EXCEPT ![p] = "none"]
  /\ IF wk[p] # "none" THEN AbortIn(p, "discard")
                       ELSE UNCHANGED <<at, loc>>
  /\ NoEvent
  /\ UNCHANGED <<fam, rmb, map, history, mm>>

InUse(p) == /\ at[p] = "idle"
            /\ h[p].kind = "heap" /\ h[p].open
            /\ h[p].hdr = file[0] /\ h[p].hdr \notin dying /\ ~Destroying

\* The shelves somebody may have a pointer into.
Known == {s \in Data : file[s] # None /\ \E q \in Proc : rmb[q][s] = file[s]}

Use(p) ==
  /\ InUse(p)
  /\ \/ /\ ResizeBegin(p)
        /\ NoEvent
        /\ UNCHANGED <<pool, file, perm, total, dying, views>>
     \/ /\ lives <= PermLives /\ \E mode \in Perm : PermBegin(p, mode)
        /\ NoEvent
        /\ UNCHANGED <<pool, file, perm, total, dying, views>>
     \/ /\ \/ Merge(p)
           \/ \E s \in Data : Alloc(p, s)
           \/ \E s \in Known : Free(p, s) \/ OffsetToLocal(p, s)
        /\ UNCHANGED <<fam, wk>>
     \/ /\ OfflineRecover(p) /\ op # "none"
        /\ \A q \in Proc \ {p} : ~h[q].open /\ at[q] \notin UsePC
        /\ UNCHANGED <<pool, file, perm, total, dying, wk>>
     \/ /\ \E s \in Known : Translate(p, s)
        /\ NoEvent
        /\ UNCHANGED <<fam, wk, at, loc>>
  /\ UNCHANGED <<history, mm>>

-----------------------------------------------------------------------------

\* A process dies, at any step; its ticket will never be served.
Die(p) ==
  /\ at[p] # "down"
  /\ IF at[p] = "abort" THEN NoEvent ELSE Event
  /\ Goto(p, "down", NoLocals)
  /\ h' = [h EXCEPT ![p] = NoHandle]
  /\ rmb' = [rmb EXCEPT ![p] = NoShelves]
  /\ map' = [map EXCEPT ![p] = NoShelves]
  /\ wk' = [wk EXCEPT ![p] = "none"]
  /\ torn' = (torn \/ HalfWay(p))
  /\ lock' = [i \in DOMAIN lock |-> IF lock[i] = p THEN Gone ELSE lock[i]]
  /\ UNCHANGED <<fam, lives, type, boot>>

Next ==
  \/ ResetNVMM
  \/ \E p \in Proc :
       \/ StartNVMM(p) \/ CreateShelf(p) \/ InitRootShelf(p) \/ InitEpochShelf(p)
       \/ Attach(p)
       \/ \E c \in Calls : Ask(p, c)
       \/ CreateHeap(p) \/ DestroyHeap(p) \/ FindHeap(p)
       \/ CreateRegion(p) \/ DestroyRegion(p) \/ FindRegion(p)
       \/ RegionShelf(p) \/ RegionDestroy(p) \/ SetType(p) \/ Unlock(p) \/ Find(p)
       \/ Open(p) \/ Close(p) \/ Discard(p) \/ Use(p)
       \/ HeapStep(p) /\ UNCHANGED mm
       \/ Die(p)

Spec == Init /\ [][Next]_vars

-----------------------------------------------------------------------------

Changers == {p \in Proc : at[p] \in ChangePC}
Settled == lock = <<>>

\* The calls that change what the id is come one at a time, and when no ticket is
\* out the type tells what is in the pool (a failed or interrupted creation leaves
\* a pool without a type).
TypeTells ==
  /\ Cardinality(Changers) <= 1
  /\ Settled => /\ type # "none" => pool /\ file[0] # None
                /\ type = "heap" => total > 0
                /\ type = "region" => \A s \in Data : file[s] = None

\* A heap that nobody is destroying has every shelf its header counts.
CountedShelvesExist ==
  pool /\ file[0] # None /\ file[0] \notin dying => \A s \in 1 .. total : file[s] # None

\* When no operation is in progress every shelf that is counted has the permission
\* of the header, unless a SetPermission failed or its process died after it had
\* changed some of them, and none has succeeded since.
Idle == type = "heap" /\ op = "none" /\ Changers = {}
Agree == \A s \in 1 .. total : file[s] # None => perm[s] = perm[0]
PermissionsAgree == Idle /\ ~torn => Agree

\* The permission of the header is that of the shelves whenever nobody changes it.
HeaderRight == Idle => Agree

\* No operation uses a shelf that is not open, but for Alloc and SetPermission after a
\* shelf that is there could not be opened.  What else fails is Close or the deletion
\* of an object, which race the cleaner that closes a destroyed heap, a process
\* without an epoch shelf, and a pointer into a shelf that another process added.
NoNullShelf ==
  \A p \in Proc : at[p] = "abort" =>
    \/ loc[p].call \in {"close", "discard", "exit", "pointer"}
    \/ loc[p].call \in {"alloc", "perm"} /\ h[p].failed

\* ShelfHeap::Alloc is called of a shelf that is open.
AllocFindsShelf == \A p \in Proc : at[p] = "abort" => loc[p].call # "alloc"

\* Who has an object can close it and delete it, whatever its cleaner did.
CleanerSparesUser ==
  \A p \in Proc : at[p] = "abort" => loc[p].call \notin {"close", "discard"}

\* The mapping through which a process uses a heap is of the heap it opened.
MappingCurrent ==
  \A p \in Proc : InUse(p) => \A s \in 1 .. h[p].mapped : rmb[p][s] = h[p].hdr
=============================================================================
