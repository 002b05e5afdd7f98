------------------------ MODULE MemoryManagerProofs ------------------------
(***************************************************************************)
(* What the memory manager and the heap promise for any processes, shelves *)
(* and lives of a pool id: the calls that change the id come one at a time *)
(* and the type tells what is there, a header counts shelves that exist    *)
(* and have its permission, and no operation uses a shelf that is not open.*)
(***************************************************************************)
EXTENDS MemoryManager, FiniteSetTheorems, WellFoundedInduction, TLAPS

ResizePC == {"resize_read", "resize_clean", "resize_add", "resize_count", "resize_done"}
WritePC == ResizePC \cup PermPC
HeaderPC == WritePC \cup {"refresh"}
NewPC == {"create_header", "create_zone", "create_total", "region_shelf"}
OpenPC == {"open_shelves", "open_wait"}
EarlyPC == {"down", "boot_attach"} \cup StartPC
WaitPC == {"spin", "unlock"} \cup ChangePC
FindCalls == {"findheap", "findregion"}
DestroyCalls == {"destroyheap", "destroyregion"}

Handle == [kind : {"none", "heap", "region"}, open : BOOLEAN, hdr : Life \cup {None},
           mapped : 0 .. MaxData, failed : BOOLEAN, invalid : BOOLEAN, nobg : BOOLEAN,
           start : BOOLEAN, stop : BOOLEAN, running : BOOLEAN]
CallName == Calls \cup Boots
              \cup {"none", "close", "discard", "exit", "pointer", "alloc", "access", "resize", "perm"}
Locals == [call : CallName, ok : BOOLEAN, n : 0 .. MaxData, k : 0 .. MaxData + 1, perm : Perm]
Typed == TypeOK /\ h \in [Proc -> Handle] /\ loc \in [Proc -> Locals]

\* Who has a ticket, and that only the first one goes on.
Ticket(p) == \E i \in DOMAIN lock : lock[i] = p
Tickets ==
  /\ \A i, j \in DOMAIN lock : lock[i] = lock[j] /\ lock[i] \in Proc => i = j
  /\ \A p \in Proc :
       /\ Ticket(p) => at[p] \in WaitPC \cup {"abort"}
       /\ at[p] \in WaitPC => Ticket(p)
       /\ at[p] \in ChangePC \cup {"unlock"} => Served(p)

\* One process boots, and before the root shelf is there nobody does anything else.
Booting ==
  /\ \A p \in Proc :
       /\ at[p] \in EarlyPC => h[p] = NoHandle /\ wk[p] = "none"
       /\ at[p] \notin EarlyPC => Booted("root")
       /\ at[p] \in StartPC => loc[p].call \in Boots
       /\ at[p] = "boot_init" /\ loc[p].call = "root" => boot["root"] = "raw"
  /\ \A p, q \in Proc : at[p] \in StartPC /\ at[q] \in StartPC => p = q
  /\ ~Booted("root") => lock = <<>> /\ type = "none"

\* What a thread is doing is what it was called for.
Called(p) ==
  /\ at[p] = "spin" => loc[p].call \in Calls /\ ~loc[p].ok
  /\ at[p] = "create" => loc[p].call \in {"createheap", "createregion"}
  /\ at[p] \in NewPC \ {"region_shelf"} => loc[p].call = "createheap"
  /\ at[p] = "region_shelf" => loc[p].call = "createregion"
  /\ at[p] \in {"destroy", "destroy_shelf"} => loc[p].call = "destroyheap"
  /\ at[p] = "region_destroy" => loc[p].call = "destroyregion"
  /\ at[p] = "destroy_pool" => loc[p].call \in DestroyCalls
  /\ at[p] = "returned" => loc[p].call \in DestroyCalls \cup {"createheap", "createregion"}
  /\ at[p] = "unlock" /\ loc[p].ok => loc[p].call \in FindCalls
  /\ at[p] = "find" => loc[p].call \in FindCalls
  /\ at[p] \in {"join", "close"} => loc[p].call = "close"
  /\ loc[p].call \in FindCalls => h[p].kind = "none"

\* Files are of the pool that is there, and mappings are not of a later one.
Present ==
  /\ pool => lives > 0
  /\ \A s \in Shelf : file[s] # None => pool /\ file[s] = lives
  /\ ~pool => total = 0
  /\ \A d \in dying : d <= lives
Past(q) ==
  /\ h[q].hdr <= lives
  /\ \A s \in Data :
       /\ rmb[q][s] <= lives /\ map[q][s] <= lives
       /\ pool /\ (rmb[q][s] = lives \/ map[q][s] = lives) => s <= total

\* A pool that is being created is empty, and nobody has it open.
Unknown == type = "none" /\ pool /\ lives \notin dying /\ \A q \in Proc : h[q].hdr # lives
Creating(p) ==
  /\ at[p] = "create" => type = "none"
  /\ at[p] \in NewPC => Unknown /\ total = 0
  /\ at[p] \in {"create_header", "region_shelf"} => \A s \in Shelf : file[s] = None
  /\ at[p] \in {"create_zone", "create_total"} => file[0] # None /\ perm[0] = 1
  /\ at[p] = "create_zone" => \A s \in Data : file[s] = None
  /\ at[p] = "create_total" => file[1] # None /\ perm[1] = 1
  /\ at[p] = "returned" /\ loc[p].ok =>
       /\ loc[p].call \in {"createheap", "createregion"} => Unknown /\ file[0] # None
       /\ loc[p].call = "createheap" => total > 0
       /\ loc[p].call = "createregion" => \A s \in Data : file[s] = None
       /\ loc[p].call \in DestroyCalls => ~pool

\* Nobody uses a pool that is being destroyed, and its shelves go in order.
Abandoned == Destroying => \A q \in Proc : at[q] \notin HeaderPC \cup OpenPC
Removing(p) ==
  at[p] = "destroy_shelf" =>
    /\ pool /\ file[0] # None /\ file[0] \in dying
    /\ loc[p].n = total /\ 1 <= loc[p].k /\ loc[p].k <= loc[p].n + 1
    /\ \A s \in 1 .. total : file[s] = None <=> s < loc[p].k

\* op_in_progress is a lock.
Writing(p) ==
  /\ at[p] \in ResizePC => op = "resize"
  /\ at[p] \in PermPC => op = "perm"
OneWriter == \A p, q \in Proc : at[p] \in WritePC /\ at[q] \in WritePC => p = q

\* Who works on a heap has it open, and has mapped what he thinks he has.
Holds(q) == h[q].hdr # None /\ h[q].hdr = file[0] /\ h[q].kind = "heap"
Using(q) == Holds(q) /\ h[q].open /\ h[q].hdr \notin dying
Opened(q) ==
  /\ at[q] \in HeaderPC => Using(q)
  /\ at[q] = "open_shelves" => Holds(q) /\ ~h[q].open /\ ~h[q].invalid /\ loc[q].n <= total
  /\ at[q] = "open_wait" => h[q].kind = "heap"
  /\ Holds(q) /\ h[q].hdr \notin dying => type = "heap"
  /\ Using(q) => h[q].mapped <= total /\ \A s \in 1 .. h[q].mapped : rmb[q][s] # None

\* The cleaner runs only while its heap is open, and Close stops it.
Cleaning(q) ==
  /\ h[q].open => h[q].hdr # None /\ h[q].kind # "none"
  /\ h[q].kind # "heap" => wk[q] = "none" /\ ~h[q].invalid
  /\ h[q].kind = "none" => h[q].hdr = None
  /\ wk[q] \in {"sleep", "work"} /\ at[q] # "abort" =>
       /\ h[q].open /\ h[q].start /\ ~h[q].invalid
       /\ at[q] # "open_wait" => ~h[q].nobg /\ h[q].running
       /\ at[q] \notin {"open_shelves", "close"}
  /\ wk[q] = "selfclose" => h[q].invalid
  /\ wk[q] \in {"work", "selfclose"} => h[q].hdr \in dying \cup {None}

\* What a resize has read and done so far.
Resizing(p) ==
  /\ at[p] \in {"resize_clean", "resize_add"} =>
       loc[p].n = total /\ total < MaxData /\ loc[p].perm = perm[0]
  /\ at[p] = "resize_count" =>
       total < MaxData /\ file[total + 1] # None /\ perm[total + 1] = perm[0]

\* What a change of the permissions has done so far.
Permitting(p) ==
  /\ at[p] \in PermPC => loc[p].call = "perm"
  /\ at[p] = "perm_shelf" =>
       /\ loc[p].n = total /\ 1 <= loc[p].k /\ loc[p].k <= loc[p].n + 1
       /\ h[p].mapped = total \/ h[p].failed
       /\ \A s \in 1 .. loc[p].k - 1 : perm[s] = loc[p].perm
  /\ at[p] = "perm_done" => Agree
Agreed == ~torn /\ (\A p \in Proc : ~HalfWay(p)) => Agree

\* The type tells what is there while the one that is served, if there is one, lives
\* and has not begun to change it.
Untouched(p) == \/ at[p] \in {"spin", "unlock", "create", "destroy", "region_destroy"}
                \/ at[p] = "returned" /\ ~loc[p].ok
Orderly == lock # <<>> => \E p \in Proc : Served(p) /\ Untouched(p)
Tells ==
  /\ type # "none" => pool /\ file[0] # None
  /\ type = "heap" => total > 0
  /\ type = "region" => \A s \in Data : file[s] = None
  /\ file[0] \notin dying
Told == Orderly => Tells

Local(p) ==
  /\ Called(p) /\ Past(p) /\ Creating(p) /\ Removing(p) /\ Writing(p)
  /\ Opened(p) /\ Cleaning(p) /\ Resizing(p) /\ Permitting(p)
IInv ==
  /\ Typed /\ Tickets /\ Booting /\ Present
  /\ \A p \in Proc : Local(p)
  /\ Abandoned /\ OneWriter /\ Agreed /\ Told
  /\ CountedShelvesExist /\ NoNullShelf

-----------------------------------------------------------------------------
\* The constants, from the assumptions.
LEMMA Constants ==
  /\ MaxData \in Nat /\ MaxData > 0 /\ MaxLives \in Nat /\ MaxLives > 0
  /\ MaxEvents \in Nat /\ PermLives \in Nat /\ Gone \notin Proc
  /\ 0 \in Shelf /\ 1 \in Shelf /\ 1 \in Data
  BY HeapAssumption, MemoryManagerAssumption DEF Shelf, Data

\* The locals and handles that are empty have their types.
LEMMA Empty ==
  /\ NoLocals \in Locals /\ NoHandle \in Handle
  /\ NoLocals.call = "none" /\ NoLocals.ok = FALSE
  /\ NoHandle.kind = "none" /\ NoHandle.open = FALSE /\ NoHandle.hdr = None
  /\ NoHandle.invalid = FALSE
  BY Constants DEF NoLocals, NoHandle, Locals, Handle, CallName, Perm, None

\* The types of what the proofs below read.
LEMMA Types ==
  ASSUME Typed
  PROVE  /\ at \in [Proc -> {"down", "boot_attach", "idle", "spin", "unlock", "find", "abort"}
                              \cup StartPC \cup ChangePC \cup UsePC]
         /\ loc \in [Proc -> Locals] /\ h \in [Proc -> Handle]
         /\ rmb \in [Proc -> [Data -> Life \cup {None}]]
         /\ map \in [Proc -> [Data -> -MaxLives .. MaxLives]]
         /\ wk \in [Proc -> {"none", "sleep", "work", "selfclose", "exited"}]
         /\ pool \in BOOLEAN /\ file \in [Shelf -> Life \cup {None}] /\ perm \in [Shelf -> Perm]
         /\ total \in 0 .. MaxData /\ total \in Nat /\ op \in {"none", "resize", "perm"}
         /\ dying \subseteq Life /\ lives \in 0 .. MaxLives /\ lives \in Nat
         /\ torn \in BOOLEAN /\ events \in 0 .. MaxEvents
         /\ type \in {"none", "heap", "region"} /\ lock \in Seq(Proc \cup {Gone})
         /\ boot \in [Boots -> {"absent", "raw", "ready"}]
         /\ 0 \notin dying /\ None = 0
  BY Constants DEF Typed, TypeOK, HeapTypeOK, Life, None

\* Going to a label concerns the process that goes only.
LEMMA GotoEffect ==
  ASSUME Typed, NEW p \in Proc, NEW label, NEW l, Goto(p, label, l)
  PROVE  /\ at'[p] = label /\ loc'[p] = l
         /\ \A q \in Proc \ {p} : at'[q] = at[q] /\ loc'[q] = loc[q]
         /\ DOMAIN at' = Proc /\ DOMAIN loc' = Proc
  BY Types DEF Goto

\* The last shelf that OpenShelf opens exists, and every one before it.
LEMMA LastOpenedExists ==
  ASSUME NEW lo \in Nat, NEW hi \in Nat, lo >= 1, lo <= hi + 1
  PROVE  LET t == LastOpened(lo, hi)
         IN  /\ t \in lo - 1 .. hi
             /\ \A s \in lo .. t : file[s] # None
             /\ t = hi \/ file[t + 1] = None
  <1> DEFINE Stop(t) == t = hi \/ file[t + 1] = None
             Stops == {t \in lo - 1 .. hi : Stop(t)}
  <1>1. Stops \subseteq Nat /\ hi \in Stops
    OBVIOUS
  <1>2. PICK t \in Stops : \A u \in Stops : ~(<<u, t>> \in OpToRel(<, Nat))
    <2>1. Stops # {}
      BY <1>1
    <2>2. QED
      BY <1>1, <2>1, NatLessThanWellFounded, WFMin
  <1>3. \A u \in Stops : ~(u < t)
    BY <1>1, <1>2 DEF OpToRel
  <1>4. t \in lo - 1 .. hi /\ Stop(t)
    BY <1>2
  <1>5. ASSUME NEW s \in lo .. t PROVE file[s] # None
    <2>1. s - 1 \in lo - 1 .. hi /\ s - 1 < t /\ (s - 1) + 1 = s
      BY <1>4, <1>5
    <2>2. ~Stop(s - 1)
      BY <1>3, <2>1
    <2>3. QED
      BY <2>1, <2>2
  <1>6. QED
    BY <1>4, <1>5 DEF LastOpened

\* It is the last one there is, if they all exist.
LEMMA LastOpenedAll ==
  ASSUME NEW lo \in Nat, NEW hi \in Nat, lo >= 1, lo <= hi + 1, \A s \in lo .. hi : file[s] # None
  PROVE  LastOpened(lo, hi) = hi
  <1> DEFINE t == LastOpened(lo, hi)
  <1>1. t \in lo - 1 .. hi /\ (t = hi \/ file[t + 1] = None)
    BY LastOpenedExists
  <1>2. CASE t # hi
    <2>1. t + 1 \in lo .. hi
      BY <1>1, <1>2
    <2>2. QED
      BY <1>1, <1>2, <2>1
  <1>3. QED
    BY <1>1, <1>2

\* Mapping shelves keeps the mappings that are valid.
LEMMA RegisterEffect ==
  ASSUME Typed, NEW p \in Proc, NEW S, RegisterShelf(p, S, file)
  PROVE  /\ map' \in [Proc -> [Data -> -MaxLives .. MaxLives]]
         /\ \A q \in Proc \ {p} : map'[q] = map[q]
         /\ \A s \in Data : map'[p][s] = IF s \in S /\ map[p][s] <= 0 THEN file[s] ELSE map[p][s]
  <1>1. /\ DOMAIN map[p] = Data /\ \A s \in Data : map[p][s] \in -MaxLives .. MaxLives
        /\ \A s \in Data : file[s] \in 0 .. MaxLives
    <2>1. map[p] \in [Data -> -MaxLives .. MaxLives]
      BY Types
    <2>2. \A s \in Data : file[s] \in 0 .. MaxLives
      BY Types, Constants DEF Data, Shelf, Life
    <2>3. QED
      BY <2>1, <2>2
  <1>2. map' = [map EXCEPT ![p] = [s \in Data |->
                  IF s \in S /\ LookupShelf(p, s) = None THEN file[s] ELSE map[p][s]]]
    BY <1>1, Types DEF RegisterShelf
  <1>3. \A s \in Data : LookupShelf(p, s) = None <=> map[p][s] <= 0
    BY <1>1, Constants DEF LookupShelf, None
  <1>4. \A s \in Data : map'[p][s] = IF s \in S /\ map[p][s] <= 0 THEN file[s] ELSE map[p][s]
    BY <1>2, <1>3, Types
  <1>5. map' \in [Proc -> [Data -> -MaxLives .. MaxLives]]
    BY <1>1, <1>2, Types, Constants
  <1>6. QED
    BY <1>2, <1>4, <1>5, Types

\* Opening shelves maps those that are there.
LEMMA OpenShelvesEffect ==
  ASSUME Typed, NEW p \in Proc, NEW lo \in Nat, NEW hi \in Nat, OpenShelves(p, lo, hi)
  PROVE  /\ map' \in [Proc -> [Data -> -MaxLives .. MaxLives]]
         /\ rmb' \in [Proc -> [Data -> Life \cup {None}]]
         /\ \A q \in Proc \ {p} : map'[q] = map[q] /\ rmb'[q] = rmb[q]
         /\ \A s \in Data :
              /\ map'[p][s] = IF s \in lo .. hi /\ map[p][s] <= 0 THEN file[s] ELSE map[p][s]
              /\ rmb'[p][s] = IF s \in lo .. hi THEN map'[p][s] ELSE rmb[p][s]
              /\ s \in lo .. hi /\ file[s] # None => rmb'[p][s] # None
  <1>1. RegisterShelf(p, lo .. hi, file)
    BY DEF OpenShelves, MapShelves
  <1>2. \A s \in Data : map'[p][s] = IF s \in lo .. hi /\ map[p][s] <= 0 THEN file[s] ELSE map[p][s]
    BY <1>1, RegisterEffect
  <1>3. rmb' = [rmb EXCEPT ![p] = [s \in Data |-> IF s \in lo .. hi THEN map'[p][s] ELSE rmb[p][s]]]
    BY Types DEF OpenShelves
  <1>4. \A s \in Data : rmb'[p][s] = IF s \in lo .. hi THEN map'[p][s] ELSE rmb[p][s]
    BY <1>3, Types
  <1>5. \A s \in Data : file[s] \in 0 .. MaxLives /\ map[p][s] \in -MaxLives .. MaxLives
    BY Types, Constants DEF Data, Shelf, Life
  <1>6. \A s \in Data : s \in lo .. hi => map'[p][s] \in Life \cup {None}
    BY <1>2, <1>5, Constants DEF Life, None
  <1>7. \A s \in Data : s \in lo .. hi /\ file[s] # None => rmb'[p][s] # None
    BY <1>2, <1>4, <1>5 DEF None
  <1>8. rmb' \in [Proc -> [Data -> Life \cup {None}]]
    BY <1>3, <1>6, Types
  <1>9. QED
    BY <1>1, <1>2, <1>3, <1>4, <1>7, <1>8, RegisterEffect, Types

-----------------------------------------------------------------------------
(* The steps of one process. *)

BootStep(p) == \/ StartNVMM(p) \/ CreateShelf(p) \/ InitRootShelf(p) \/ InitEpochShelf(p)
               \/ Attach(p)
BeginStep(p) == \/ CreateHeap(p) \/ DestroyHeap(p) \/ FindHeap(p)
                \/ CreateRegion(p) \/ DestroyRegion(p) \/ FindRegion(p)
CallStep(p) == \/ \E c \in Calls : Ask(p, c)
               \/ BeginStep(p) \/ RegionShelf(p) \/ RegionDestroy(p) \/ SetType(p) \/ Unlock(p) \/ Find(p)
UserStep(p) == Open(p) \/ Close(p) \/ Discard(p) \/ Use(p)
Acts(p) == \/ BootStep(p) \/ CallStep(p) \/ UserStep(p)
           \/ HeapStep(p) /\ UNCHANGED mm
           \/ Die(p)

\* A process moves only itself.
Still(q) == /\ at'[q] = at[q] /\ loc'[q] = loc[q]
            /\ h'[q] = h[q] /\ rmb'[q] = rmb[q] /\ map'[q] = map[q] /\ wk'[q] = wk[q]

\* A step of a process leaves the state of the others alone.
LEMMA OthersStill ==
  ASSUME Typed, NEW p \in Proc, Acts(p), NEW q \in Proc \ {p} PROVE Still(q)
  <1> USE DEF fam, views, history, mm, Still
  <1>d. /\ DOMAIN at = Proc /\ DOMAIN loc = Proc /\ DOMAIN h = Proc /\ DOMAIN rmb = Proc
        /\ DOMAIN map = Proc /\ DOMAIN wk = Proc
    BY Types
  <1>1. ASSUME NEW label, NEW l, Goto(p, label, l) PROVE at'[q] = at[q] /\ loc'[q] = loc[q]
    BY <1>1, GotoEffect
  <1>2. Finish(p) => at'[q] = at[q] /\ loc'[q] = loc[q]
    BY <1>1 DEF Finish
  <1>3. \A ok : Return(p, ok) => at'[q] = at[q] /\ loc'[q] = loc[q]
    BY <1>1 DEF Return
  <1>4. \A c : AbortIn(p, c) => at'[q] = at[q] /\ loc'[q] = loc[q]
    BY <1>1 DEF AbortIn
  <1>5. Abort(p) => at'[q] = at[q] /\ loc'[q] = loc[q]
    BY <1>4 DEF Abort
  <1>6. OpenNewShelfs(p) => h'[q] = h[q] /\ rmb'[q] = rmb[q] /\ map'[q] = map[q]
    BY <1>d DEF OpenNewShelfs, OpenShelves, MapShelves, RegisterShelf
  <1>7. CASE BootStep(p)
    BY <1>1, <1>7 DEF BootStep, StartNVMM, CreateShelf, InitRootShelf, InitEpochShelf, Attach, BootGoto
  <1>8. CASE CallStep(p)
    <2>1. CASE \E c \in Calls : Ask(p, c)
      BY <1>1, <2>1 DEF Ask
    <2>2. CASE BeginStep(p)
      BY <1>1, <2>2 DEF BeginStep, CreateHeap, DestroyHeap, FindHeap, CreateRegion, DestroyRegion,
         FindRegion, Begin
    <2>3. CASE RegionShelf(p) \/ RegionDestroy(p) \/ SetType(p) \/ Unlock(p)
      BY <1>1, <1>2, <1>3, <2>3 DEF RegionShelf, RegionDestroy, SetType, Unlock
    <2>4. CASE Find(p)
      BY <1>2, <1>d, <2>4 DEF Find
    <2>5. QED
      BY <1>8, <2>1, <2>2, <2>3, <2>4 DEF CallStep
  <1>9. CASE UserStep(p)
    <2>1. CASE Open(p)
      BY <1>1, <1>2, <1>d, <2>1 DEF Open, OpenHeader
    <2>2. CASE Close(p)
      BY <1>1, <1>d, <2>2 DEF Close, CloseBegin, Closed
    <2>3. CASE Discard(p)
      BY <1>4, <1>d, <2>3 DEF Discard
    <2>4. CASE Use(p)
      BY <1>1, <1>4, <1>6, <1>d, <2>4 DEF Use, ResizeBegin, PermBegin, Merge, Alloc, Free, OffsetToLocal,
         OfflineRecover, Translate, FindBase, RegisterShelf
    <2>5. QED
      BY <1>9, <2>1, <2>2, <2>3, <2>4 DEF UserStep
  <1>10. CASE HeapStep(p)
    <2>1. CASE CreatePool(p) \/ CreateFails(p) \/ CreateHeader(p) \/ CreateZone(p) \/ WriteTotal(p)
      BY <1>1, <1>3, <2>1 DEF CreatePool, CreateFails, CreateHeader, CreateZone, WriteTotal
    <2>2. CASE DestroyBegin(p) \/ DestroyShelf(p) \/ DestroyPool(p)
      BY <1>1, <1>3, <1>5, <1>d, <2>2 DEF DestroyBegin, DestroyShelf, DestroyPool, UnregisterShelf
    <2>3. CASE OpenAll(p) \/ OpenWait(p)
      BY <1>1, <1>2, <1>d, <2>3 DEF OpenAll, OpenWait, OpenShelves, MapShelves, RegisterShelf, StartWorker
    <2>4. CASE Join(p) \/ CloseShelves(p) \/ Wake(p) \/ Work(p) \/ NoEpochManager(p) \/ SelfClose(p)
      BY <1>1, <1>2, <1>4, <1>5, <1>d, <2>4 DEF Join, CloseShelves, Wake, Work, NoEpochManager,
         SelfClose, Closed, CloseShelf, MarkInvalid
    <2>5. CASE ResizeRead(p) \/ ResizeClean(p) \/ ResizeAdd(p) \/ ResizeFails(p) \/ ResizeCount(p)
               \/ ResizeDone(p) \/ Refresh(p)
      BY <1>1, <1>2, <1>6, <2>5 DEF ResizeRead, ResizeClean, ResizeAdd, ResizeFails, ResizeCount,
         ResizeDone, Refresh
    <2>6. CASE PermRead(p) \/ PermShelf(p) \/ PermFails(p) \/ PermDone(p)
      BY <1>1, <1>2, <1>5, <1>6, <2>6 DEF PermRead, PermShelf, PermFails, PermDone
    <2>7. QED
      BY <1>10, <2>1, <2>2, <2>3, <2>4, <2>5, <2>6 DEF HeapStep
  <1>11. CASE Die(p)
    BY <1>1, <1>d, <1>11 DEF Die
  <1>12. QED
    BY <1>7, <1>8, <1>9, <1>10, <1>11 DEF Acts

-----------------------------------------------------------------------------
(* What the invariant says of a process, beside its parts. *)

\* The calls that change the id, and the release of the lock, come one at a time.
LEMMA OneChanger ==
  ASSUME Typed, Tickets, NEW p \in Proc, NEW q \in Proc,
         at[p] \in ChangePC \cup {"unlock"}, at[q] \in ChangePC \cup {"unlock"}
  PROVE  p = q
  BY DEF Tickets, Served

\* A heap in use is of the pool that is there, and its header counts shelves that exist.
LEMMA UsingFacts ==
  ASSUME IInv, NEW q \in Proc, Using(q)
  PROVE  /\ h[q].hdr = lives /\ pool /\ file[0] = lives /\ lives > 0 /\ lives \notin dying
         /\ type = "heap" /\ h[q].mapped \in 0 .. total
         /\ \A s \in 1 .. h[q].mapped : rmb[q][s] # None
         /\ \A s \in 1 .. total : file[s] # None
         /\ \A p \in Proc : Creating(p)
         /\ \A p \in Proc : at[p] \notin NewPC \cup {"create"}
         /\ \A p \in Proc : at[p] = "returned" /\ loc[p].ok => loc[p].call \in DestroyCalls /\ Called(p)
  <1>1. Typed /\ Present /\ CountedShelvesExist /\ Opened(q) /\ \A p \in Proc : Creating(p) /\ Called(p)
    BY DEF IInv, Local
  <1>2. file[0] # None /\ file[0] = h[q].hdr /\ h[q].hdr \notin dying
    BY DEF Using, Holds
  <1>3. pool /\ file[0] = lives
    BY <1>1, <1>2, Constants DEF Present
  <1>4. h[q].mapped \in 0 .. MaxData /\ total \in Nat /\ lives \in Nat
    BY <1>1, Types DEF Handle
  <1>5. type = "heap" /\ h[q].mapped <= total /\ \A s \in 1 .. h[q].mapped : rmb[q][s] # None
    BY <1>1 DEF Opened, Using
  <1>6. \A p \in Proc : at[p] \notin NewPC \cup {"create"}
    BY <1>1, <1>5 DEF Creating, Unknown
  <1>7. \A p \in Proc : at[p] = "returned" /\ loc[p].ok => loc[p].call \in DestroyCalls
    BY <1>1, <1>5 DEF Creating, Unknown, Called
  <1>8. QED
    BY <1>1, <1>2, <1>3, <1>4, <1>5, <1>6, <1>7 DEF CountedShelvesExist, None

\* Who uses a heap, in an operation or to begin one, has it open.
LEMMA Users ==
  ASSUME IInv, NEW p \in Proc, at[p] \in HeaderPC \/ InUse(p) PROVE Using(p)
  BY DEF IInv, Local, Opened, Cleaning, InUse, Using, Holds

\* What a process has open after it has opened shelves up to top.
HasOpened(p, top) ==
  /\ top \in h[p].mapped .. total
  /\ h' = [h EXCEPT ![p] = [@ EXCEPT !.mapped = top, !.failed = (top < total)]]
  /\ h' \in [Proc -> Handle]
  /\ \A s \in 1 .. top : rmb'[p][s] # None

\* The rest of its handle stays.
LEMMA OpenedHandle ==
  ASSUME Typed, NEW p \in Proc, NEW top, HasOpened(p, top)
  PROVE  /\ h'[p].mapped = top /\ h'[p].failed = (top < total)
         /\ h'[p].hdr = h[p].hdr /\ h'[p].kind = h[p].kind /\ h'[p].open = h[p].open
         /\ h'[p].invalid = h[p].invalid /\ h'[p].nobg = h[p].nobg /\ h'[p].start = h[p].start
         /\ h'[p].stop = h[p].stop /\ h'[p].running = h[p].running
         /\ \A q \in Proc \ {p} : h'[q] = h[q]
  <1>1. h \in [Proc -> Handle] /\ h[p] \in Handle
    BY Types
  <1>2. h'[p] = [h[p] EXCEPT !.mapped = top, !.failed = (top < total)]
    BY <1>1 DEF HasOpened
  <1>3. QED
    BY <1>1, <1>2 DEF HasOpened, Handle

\* The shelves that are new to a process are all there, and it maps them, or fails.
LEMMA NewShelves ==
  ASSUME IInv, NEW p \in Proc, Using(p), OpenNewShelfs(p)
  PROVE  /\ \E top \in 0 .. total : HasOpened(p, top)
         /\ map' \in [Proc -> [Data -> -MaxLives .. MaxLives]]
         /\ rmb' \in [Proc -> [Data -> Life \cup {None}]]
         /\ \A s \in Data :
              /\ map'[p][s] = map[p][s] \/ (s <= total /\ map'[p][s] = file[s])
              /\ rmb'[p][s] = rmb[p][s] \/ (s <= total /\ rmb'[p][s] = map'[p][s])
         /\ events' \in 0 .. MaxEvents
  <1> DEFINE lo == h[p].mapped + 1
  <1>1. Typed /\ total \in 0 .. MaxData /\ MaxData \in Nat
    BY Types, Constants DEF IInv
  <1>2. h[p].mapped \in 0 .. total /\ \A s \in 1 .. h[p].mapped : rmb[p][s] # None
    BY UsingFacts
  <1>3. \A s \in 1 .. total : file[s] # None
    BY UsingFacts
  <1>4. lo \in Nat /\ total \in Nat /\ lo >= 1 /\ lo <= total + 1
    BY <1>1, <1>2
  <1>5. LastOpened(lo, total) = total
    BY <1>1, <1>2, <1>3, <1>4, LastOpenedAll
  <1>6. PICK top \in Shelf : /\ OpensTo(lo, total, top) /\ OpenShelves(p, lo, top)
                             /\ h' = [h EXCEPT ![p] = [@ EXCEPT !.mapped = top, !.failed = (top < total)]]
    BY <1>5 DEF OpenNewShelfs
  <1>7. top \in h[p].mapped .. total /\ top \in 0 .. total /\ top \in Nat /\ top \in 0 .. MaxData
    BY <1>1, <1>2, <1>5, <1>6 DEF OpensTo
  <1>8. h' \in [Proc -> Handle]
    <2>1. h[p] \in Handle /\ h \in [Proc -> Handle]
      BY <1>1, Types
    <2>2. (top < total) \in BOOLEAN
      BY <1>1, <1>7
    <2>3. [h[p] EXCEPT !.mapped = top, !.failed = (top < total)] \in Handle
      BY <1>7, <2>1, <2>2 DEF Handle
    <2>4. QED
      BY <1>6, <2>1, <2>3
  <1>9. \A s \in 1 .. top : s \in Data /\ s \in 1 .. total /\ (s \in 1 .. h[p].mapped \/ s \in lo .. top)
    BY <1>1, <1>2, <1>7 DEF Data
  <1>10. \A s \in 1 .. top : rmb'[p][s] # None
    <2>1. SUFFICES ASSUME NEW s \in 1 .. top PROVE rmb'[p][s] # None
      OBVIOUS
    <2>2. CASE s \in lo .. top
      BY <1>1, <1>3, <1>4, <1>6, <1>7, <1>9, <2>2, OpenShelvesEffect
    <2>3. CASE s \notin lo .. top
      BY <1>1, <1>2, <1>4, <1>6, <1>7, <1>9, <2>3, OpenShelvesEffect
    <2>4. QED
      BY <2>2, <2>3
  <1>11. \A s \in lo .. top : s <= total
    BY <1>4, <1>7
  <1>12. \A s \in Data : /\ map'[p][s] = map[p][s] \/ (s <= total /\ map'[p][s] = file[s])
                         /\ rmb'[p][s] = rmb[p][s] \/ (s <= total /\ rmb'[p][s] = map'[p][s])
    BY <1>1, <1>4, <1>6, <1>7, <1>11, OpenShelvesEffect
  <1>13. HasOpened(p, top)
    BY <1>6, <1>7, <1>8, <1>10 DEF HasOpened
  <1>14. events' \in 0 .. MaxEvents
    BY <1>1, <1>6, Types, Constants DEF OpensTo, Event, NoEvent
  <1>15. QED
    BY <1>1, <1>4, <1>6, <1>7, <1>12, <1>13, <1>14, OpenShelvesEffect

\* A destroyer is alone with the pool.
LEMMA Destroyers ==
  ASSUME IInv, NEW p \in Proc,
         at[p] \in DestroyPC \cup {"region_destroy"} \/ loc[p].call \in DestroyCalls
  PROVE  \A q \in Proc : at[q] \notin HeaderPC \cup OpenPC
  <1>1. loc[p].call \in DestroyCalls
    BY DEF IInv, Local, Called, DestroyPC, DestroyCalls
  <1>2. QED
    BY <1>1 DEF IInv, Abandoned, Destroying, DestroyCalls

-----------------------------------------------------------------------------
\* The uses of a heap.
UseResize(p) == ResizeBegin(p) /\ UNCHANGED <<pool, file, perm, total, dying, views>>
UsePerm(p) ==
  /\ \E mode \in Perm : PermBegin(p, mode)
  /\ UNCHANGED <<pool, file, perm, total, dying, views>>
UseShelves(p) ==
  /\ \/ Merge(p)
     \/ \E s \in Data : Alloc(p, s)
     \/ \E s \in Known : Free(p, s) \/ OffsetToLocal(p, s)
  /\ UNCHANGED <<fam, wk>>
UseRecover(p) ==
  /\ OfflineRecover(p)
  /\ \A q \in Proc \ {p} : ~h[q].open /\ at[q] \notin UsePC
  /\ UNCHANGED <<pool, file, perm, total, dying, wk>>
UseTranslate(p) == (\E s \in Known : Translate(p, s)) /\ UNCHANGED <<fam, wk, at, loc>>

\* A use is one of them.
LEMMA UseCases ==
  ASSUME NEW p \in Proc, Use(p)
  PROVE  /\ InUse(p) /\ UNCHANGED <<lives, torn, type, lock, boot>>
         /\ UseResize(p) \/ UsePerm(p) \/ UseShelves(p) \/ UseRecover(p) \/ UseTranslate(p)
  BY DEF Use, history, mm, UseResize, UsePerm, UseShelves, UseRecover, UseTranslate

-----------------------------------------------------------------------------
(* What a step changes of what all processes share. *)

Quiet == UNCHANGED <<pool, file, perm, total, op, dying, lives, type>>
SetsOp(p) ==
  /\ UNCHANGED <<pool, file, perm, total, dying, lives, type>>
  /\ \/ /\ InUse(p) /\ op = "none" /\ torn' = torn
        /\ \/ at'[p] = "resize_read" /\ op' = "resize"
           \/ at'[p] = "perm_read" /\ op' = "perm"
     \/ /\ at[p] \in WritePC /\ at'[p] \in {"idle", "refresh"} /\ op' = "none"
        /\ torn' = torn \/ at[p] = "perm_done" \/ PermFails(p)
     \/ /\ InUse(p) /\ at'[p] = "idle" /\ op' = "none" /\ torn' = torn
        /\ \A q \in Proc \ {p} : at[q] \notin UsePC
Resizes(p) == ResizeClean(p) \/ ResizeAdd(p) \/ ResizeCount(p)
Creates(p) == CreatePool(p) \/ CreateHeader(p) \/ CreateZone(p) \/ WriteTotal(p) \/ RegionShelf(p)
Destroys(p) == DestroyBegin(p) \/ DestroyShelf(p) \/ DestroyPool(p) \/ RegionDestroy(p)
SharedMove(p) == \/ Quiet \/ SetsOp(p) \/ Resizes(p) \/ PermShelf(p)
                 \/ Creates(p) \/ Destroys(p) \/ SetType(p)

\* Every step changes one thing at most.
LEMMA SharedEffect ==
  ASSUME IInv, NEW p \in Proc, Acts(p) PROVE SharedMove(p)
  <1> USE DEF fam, header, views, history, mm, SharedMove, Quiet
  <1>t. Typed /\ Booting
    BY DEF IInv
  <1>d. at[p] \in WritePC => at[p] # "idle"
    BY DEF WritePC, ResizePC, PermPC
  <1>1. ASSUME NEW label, NEW l, Goto(p, label, l) PROVE at'[p] = label
    BY <1>1, <1>t, GotoEffect
  <1>2. Finish(p) => at'[p] = "idle"
    BY <1>1 DEF Finish
  <1>7. CASE BootStep(p)
    <2>1. CASE InitRootShelf(p)
      <3>1. type = "none" /\ type' = "none"
        BY <1>t, <2>1 DEF InitRootShelf, Booting, Booted
      <3>2. QED
        BY <2>1, <3>1 DEF InitRootShelf
    <2>2. CASE ~InitRootShelf(p)
      BY <1>7, <2>2 DEF BootStep, StartNVMM, CreateShelf, InitEpochShelf, Attach
    <2>3. QED
      BY <2>1, <2>2
  <1>8. CASE CallStep(p)
    <2>1. CASE \E c \in Calls : Ask(p, c)
      BY <2>1 DEF Ask
    <2>2. CASE BeginStep(p)
      BY <2>2 DEF BeginStep, CreateHeap, DestroyHeap, FindHeap, CreateRegion, DestroyRegion,
         FindRegion, Begin
    <2>3. CASE RegionShelf(p) \/ RegionDestroy(p) \/ SetType(p) \/ Unlock(p) \/ Find(p)
      BY <2>3 DEF Unlock, Find, Creates, Destroys
    <2>4. QED
      BY <1>8, <2>1, <2>2, <2>3 DEF CallStep
  <1>9. CASE UserStep(p)
    <2>1. CASE Open(p) \/ Close(p) \/ Discard(p)
      BY <2>1 DEF Open, Close, Discard
    <2>2. CASE Use(p)
      <3>1. InUse(p) /\ UNCHANGED <<lives, torn, type, lock, boot>>
        BY <2>2 DEF Use
      <3>2. CASE UseResize(p)
        BY <1>1, <3>1, <3>2 DEF UseResize, ResizeBegin, SetsOp
      <3>3. CASE UsePerm(p)
        BY <1>1, <3>1, <3>3 DEF UsePerm, PermBegin, SetsOp
      <3>4. CASE UseRecover(p)
        BY <3>1, <3>4 DEF UseRecover, OfflineRecover, SetsOp, InUse
      <3>5. CASE UseShelves(p) \/ UseTranslate(p)
        BY <3>1, <3>5 DEF UseShelves, UseTranslate
      <3>6. QED
        BY <2>2, <3>2, <3>3, <3>4, <3>5, UseCases
    <2>3. QED
      BY <1>9, <2>1, <2>2 DEF UserStep
  <1>10. CASE HeapStep(p) /\ UNCHANGED mm
    <2>1. CASE CreatePool(p) \/ CreateFails(p) \/ CreateHeader(p) \/ CreateZone(p) \/ WriteTotal(p)
      BY <1>10, <2>1 DEF CreateFails, Creates
    <2>2. CASE DestroyBegin(p) \/ DestroyShelf(p) \/ DestroyPool(p)
      BY <2>2 DEF Destroys
    <2>3. CASE OpenAll(p) \/ OpenWait(p) \/ Join(p) \/ CloseShelves(p) \/ Wake(p) \/ Work(p)
               \/ NoEpochManager(p) \/ SelfClose(p)
      BY <1>10, <2>3 DEF OpenAll, OpenWait, Join, CloseShelves, Wake, Work, NoEpochManager, SelfClose
    <2>4. CASE ResizeClean(p) \/ ResizeAdd(p) \/ ResizeCount(p) \/ PermShelf(p)
      BY <2>4 DEF Resizes
    <2>5. CASE ResizeRead(p) \/ ResizeFails(p) \/ ResizeDone(p) \/ Refresh(p)
      BY <1>1, <1>2, <1>10, <2>5 DEF ResizeRead, ResizeFails, ResizeDone, Refresh, SetsOp, WritePC, ResizePC
    <2>6. CASE PermRead(p) \/ PermFails(p) \/ PermDone(p)
      BY <1>2, <1>10, <2>6 DEF PermRead, PermFails, PermDone, SetsOp, WritePC, PermPC
    <2>7. QED
      BY <1>10, <2>1, <2>2, <2>3, <2>4, <2>5, <2>6 DEF HeapStep
  <1>11. CASE Die(p)
    BY <1>11 DEF Die
  <1>12. QED
    BY <1>7, <1>8, <1>9, <1>10, <1>11 DEF Acts

-----------------------------------------------------------------------------
(* The lock. *)

\* What a thread that has a ticket does, and one that has none.
Keeps(p) ==
  /\ lock' = lock
  /\ at[p] \in WaitPC => at'[p] \in WaitPC \cup {"abort"}
  /\ at[p] = "abort" => at'[p] = "abort"
  /\ at'[p] \in WaitPC => at[p] \in WaitPC
  /\ at'[p] \in ChangePC \cup {"unlock"} => at[p] \in ChangePC \cup {"unlock"} \/ Served(p)
Asks(p) == at[p] = "idle" /\ at'[p] = "spin" /\ lock' = Append(lock, p)
Unlocks(p) == at[p] = "unlock" /\ at'[p] \in {"find", "idle"} /\ lock' = Tail(lock)
Dies(p) == at'[p] = "down" /\ lock' = [i \in DOMAIN lock |-> IF lock[i] = p THEN Gone ELSE lock[i]]

\* A process asks, waits until it is served, and unlocks, or dies.
LEMMA Flow ==
  ASSUME IInv, NEW p \in Proc, Acts(p) PROVE Keeps(p) \/ Asks(p) \/ Unlocks(p) \/ Dies(p)
  <1> USE DEF history, mm, Keeps, WaitPC, ChangePC, CreatePC, DestroyPC
  <1>t. Typed /\ Booting
    BY DEF IInv
  <1>1. ASSUME NEW label, NEW l, Goto(p, label, l) PROVE at'[p] = label
    BY <1>1, <1>t, GotoEffect
  <1>2. Finish(p) => at'[p] = "idle"
    BY <1>1 DEF Finish
  <1>3. \A ok : Return(p, ok) => at'[p] = "returned"
    BY <1>1 DEF Return
  <1>4. \A c : AbortIn(p, c) => at'[p] = "abort"
    BY <1>1 DEF AbortIn
  <1>5. Abort(p) => at'[p] = "abort"
    BY <1>4 DEF Abort
  <1>7. CASE BootStep(p)
    <2> USE DEF BootGoto
    <2>1. CASE InitRootShelf(p)
      <3>1. lock = <<>> /\ lock' = <<>>
        BY <1>t, <2>1 DEF InitRootShelf, Booting, Booted
      <3>2. QED
        BY <1>1, <2>1, <3>1 DEF InitRootShelf
    <2>2. CASE StartNVMM(p) \/ CreateShelf(p)
      BY <1>1, <2>2 DEF StartNVMM, CreateShelf
    <2>3. CASE InitEpochShelf(p) \/ Attach(p)
      BY <1>1, <2>3 DEF InitEpochShelf, Attach
    <2>4. QED
      BY <1>7, <2>1, <2>2, <2>3 DEF BootStep
  <1>8. CASE CallStep(p)
    <2>1. CASE \E c \in Calls : Ask(p, c)
      BY <1>1, <2>1 DEF Ask, Draw, Asks
    <2>2. CASE BeginStep(p)
      BY <1>1, <2>2 DEF BeginStep, CreateHeap, DestroyHeap, FindHeap, CreateRegion, DestroyRegion,
         FindRegion, Begin
    <2>3. CASE RegionShelf(p) \/ RegionDestroy(p) \/ SetType(p)
      BY <1>1, <1>3, <2>3 DEF RegionShelf, RegionDestroy, SetType
    <2>4. CASE Unlock(p)
      BY <1>1, <1>2, <2>4 DEF Unlock, ServeNext, Unlocks
    <2>5. CASE Find(p)
      BY <1>2, <2>5 DEF Find
    <2>6. QED
      BY <1>8, <2>1, <2>2, <2>3, <2>4, <2>5 DEF CallStep
  <1>9. CASE UserStep(p)
    <2>1. CASE Open(p) \/ Close(p) \/ Discard(p)
      BY <1>1, <1>2, <1>4, <2>1 DEF Open, OpenHeader, Close, CloseBegin, Discard
    <2>2. CASE Use(p)
      <3>1. InUse(p) /\ lock' = lock
        BY <2>2, UseCases
      <3>2. at'[p] \in {"idle", "abort", "resize_read", "perm_read"}
        BY <1>1, <1>4, <2>2, <3>1, UseCases DEF UseResize, UsePerm, UseShelves, UseRecover, UseTranslate,
           ResizeBegin, PermBegin, Merge, Alloc, Free, OffsetToLocal, OfflineRecover, InUse
      <3>3. QED
        BY <3>1, <3>2 DEF InUse
    <2>3. QED
      BY <1>9, <2>1, <2>2 DEF UserStep
  <1>10. CASE HeapStep(p) /\ UNCHANGED mm
    <2>1. CASE CreatePool(p) \/ CreateFails(p) \/ CreateHeader(p) \/ CreateZone(p) \/ WriteTotal(p)
      BY <1>1, <1>3, <1>10, <2>1 DEF CreatePool, CreateFails, CreateHeader, CreateZone, WriteTotal
    <2>2. CASE DestroyBegin(p) \/ DestroyShelf(p) \/ DestroyPool(p)
      BY <1>1, <1>3, <1>5, <1>10, <2>2 DEF DestroyBegin, DestroyShelf, DestroyPool
    <2>3. CASE OpenAll(p) \/ OpenWait(p) \/ Join(p) \/ CloseShelves(p)
      BY <1>1, <1>2, <1>5, <1>10, <2>3 DEF OpenAll, OpenWait, Join, CloseShelves
    <2>4. CASE Wake(p) \/ Work(p) \/ NoEpochManager(p) \/ SelfClose(p)
      BY <1>4, <1>10, <2>4 DEF Wake, Work, NoEpochManager, SelfClose
    <2>5. CASE ResizeRead(p) \/ ResizeClean(p) \/ ResizeAdd(p) \/ ResizeFails(p) \/ ResizeCount(p)
               \/ ResizeDone(p) \/ Refresh(p)
      BY <1>1, <1>2, <1>10, <2>5 DEF ResizeRead, ResizeClean, ResizeAdd, ResizeFails, ResizeCount,
         ResizeDone, Refresh
    <2>6. CASE PermRead(p) \/ PermShelf(p) \/ PermFails(p) \/ PermDone(p)
      BY <1>1, <1>2, <1>5, <1>10, <2>6 DEF PermRead, PermShelf, PermFails, PermDone
    <2>7. QED
      BY <1>10, <2>1, <2>2, <2>3, <2>4, <2>5, <2>6 DEF HeapStep
  <1>11. CASE Die(p)
    BY <1>1, <1>11 DEF Die, Dies
  <1>12. QED
    BY <1>7, <1>8, <1>9, <1>10, <1>11 DEF Acts

\* The tickets stay in order.
LEMMA NextTickets ==
  ASSUME IInv, NEW p \in Proc, Acts(p) PROVE Tickets' /\ lock' \in Seq(Proc \cup {Gone})
  <1> USE DEF WaitPC, ChangePC, CreatePC, DestroyPC
  <1>t. Typed /\ Tickets /\ lock \in Seq(Proc \cup {Gone}) /\ Gone \notin Proc
    BY Types, Constants DEF IInv
  <1>o. \A q \in Proc \ {p} : at'[q] = at[q]
    BY <1>t, OthersStill DEF Still
  <1>1. CASE Keeps(p)
    <2>1. \A q \in Proc : (Ticket(q)' <=> Ticket(q)) /\ (Served(q)' <=> Served(q))
      BY <1>1 DEF Keeps, Ticket, Served
    <2>2. \A i, j \in DOMAIN lock' : lock'[i] = lock'[j] /\ lock'[i] \in Proc => i = j
      BY <1>1, <1>t DEF Keeps, Tickets
    <2>3. QED
      BY <1>1, <1>t, <1>o, <2>1, <2>2 DEF Keeps, Tickets
  <1>2. CASE Asks(p)
    <2>1. ~Ticket(p)
      BY <1>2, <1>t DEF Asks, Tickets
    <2>2. /\ DOMAIN lock' = 1 .. Len(lock) + 1 /\ Len(lock) \in Nat /\ DOMAIN lock = 1 .. Len(lock)
          /\ lock'[Len(lock) + 1] = p
          /\ \A i \in DOMAIN lock : i \in DOMAIN lock' /\ lock'[i] = lock[i]
          /\ \A i \in DOMAIN lock' : i \in DOMAIN lock \/ i = Len(lock) + 1
      BY <1>2, <1>t DEF Asks
    <2>3. \A q \in Proc : Ticket(q)' <=> Ticket(q) \/ q = p
      BY <2>2 DEF Ticket
    <2>4. \A q \in Proc \ {p} : Served(q) => Served(q)'
      BY <1>t, <1>2, <2>2 DEF Served, Asks
    <2>5. \A i, j \in DOMAIN lock' : lock'[i] = lock'[j] /\ lock'[i] \in Proc => i = j
      BY <1>t, <2>1, <2>2 DEF Tickets, Ticket
    <2>6. QED
      BY <1>t, <1>o, <1>2, <2>3, <2>4, <2>5 DEF Tickets, Asks
  <1>3. CASE Unlocks(p)
    <2>1. lock # <<>> /\ Head(lock) = p /\ lock[1] = p
      BY <1>3, <1>t DEF Unlocks, Tickets, Served
    <2>2. /\ Len(lock) \in Nat /\ DOMAIN lock = 1 .. Len(lock) /\ DOMAIN lock' = 1 .. Len(lock) - 1
          /\ \A i \in DOMAIN lock' : i + 1 \in DOMAIN lock /\ lock'[i] = lock[i + 1]
          /\ \A i \in DOMAIN lock : i # 1 => i - 1 \in DOMAIN lock' /\ lock'[i - 1] = lock[i]
          /\ lock' \in Seq(Proc \cup {Gone})
      BY <1>3, <1>t, <2>1 DEF Unlocks
    <2>3. 1 \in DOMAIN lock
      BY <1>t, <2>1, <2>2
    <2>4. \A i \in DOMAIN lock : lock[i] = p => i = 1
      BY <1>t, <2>1, <2>3 DEF Tickets
    <2>5. ~Ticket(p)' /\ \A q \in Proc \ {p} : Ticket(q)' <=> Ticket(q)
      BY <2>1, <2>2, <2>4 DEF Ticket
    <2>6. \A q \in Proc \ {p} : at[q] \notin ChangePC \cup {"unlock"}
      BY <1>3, <1>t, OneChanger DEF Unlocks
    <2>7. \A i, j \in DOMAIN lock' : lock'[i] = lock'[j] /\ lock'[i] \in Proc => i = j
      BY <1>t, <2>2 DEF Tickets
    <2>8. QED
      BY <1>t, <1>o, <1>3, <2>2, <2>5, <2>6, <2>7 DEF Tickets, Unlocks
  <1>4. CASE Dies(p)
    <2>1. /\ DOMAIN lock' = DOMAIN lock
          /\ \A i \in DOMAIN lock : lock'[i] = IF lock[i] = p THEN Gone ELSE lock[i]
      BY <1>4 DEF Dies
    <2>2. lock' \in Seq(Proc \cup {Gone})
      BY <1>4, <1>t DEF Dies
    <2>3. ~Ticket(p)' /\ \A q \in Proc \ {p} : Ticket(q)' <=> Ticket(q)
      BY <1>t, <2>1 DEF Ticket
    <2>4. \A q \in Proc \ {p} : Served(q) => Served(q)'
      <3>1. lock # <<>> => 1 \in DOMAIN lock /\ Head(lock) = lock[1] /\ lock' # <<>> /\ Head(lock') = lock'[1]
        BY <1>t, <2>1, <2>2
      <3>2. QED
        BY <2>1, <3>1 DEF Served
    <2>5. \A i, j \in DOMAIN lock' : lock'[i] = lock'[j] /\ lock'[i] \in Proc => i = j
      BY <1>t, <2>1 DEF Tickets
    <2>6. QED
      BY <1>t, <1>o, <1>4, <2>2, <2>3, <2>4, <2>5 DEF Tickets, Dies
  <1>5. lock' \in Seq(Proc \cup {Gone})
    BY <1>1, <1>2, <1>3, <1>4, <1>t, Flow DEF Keeps, Asks, Unlocks, Dies, Tickets, Served
  <1>6. QED
    BY <1>1, <1>2, <1>3, <1>4, <1>5, Flow

\* The step at which a call begins, and the steps after it, are of the one that is served.
LEMMA Turn == ASSUME IInv, NEW p \in Proc, at[p] \in ChangePC \cup {"unlock"} PROVE Served(p) /\ lock # <<>>
  BY DEF IInv, Tickets, Served

-----------------------------------------------------------------------------
(* Boot. *)

\* A process that is not up boots, and that is all.
LEMMA EarlySteps ==
  ASSUME IInv, NEW p \in Proc, Acts(p), at[p] \in EarlyPC \/ at'[p] \in EarlyPC
  PROVE  BootStep(p) \/ Die(p)
  <1> USE DEF EarlyPC, StartPC
  <1>t. Typed /\ Booting
    BY DEF IInv
  <1>w. at[p] \in EarlyPC => wk[p] = "none" /\ at[p] # "idle"
    BY <1>t DEF Booting
  <1>1. ASSUME NEW label, NEW l, Goto(p, label, l) PROVE at'[p] = label
    BY <1>1, <1>t, GotoEffect
  <1>2. Finish(p) => at'[p] = "idle"
    BY <1>1 DEF Finish
  <1>3. \A ok : Return(p, ok) => at'[p] = "returned"
    BY <1>1 DEF Return
  <1>4. \A c : AbortIn(p, c) => at'[p] = "abort"
    BY <1>1 DEF AbortIn
  <1>5. Abort(p) => at'[p] = "abort"
    BY <1>4 DEF Abort
  <1>8. ~CallStep(p)
    <2>1. ~ \E c \in Calls : Ask(p, c)
      BY <1>1 DEF Ask
    <2>2. ~BeginStep(p)
      BY <1>1 DEF BeginStep, CreateHeap, DestroyHeap, FindHeap, CreateRegion, DestroyRegion,
         FindRegion, Begin
    <2>3. ~RegionShelf(p) /\ ~RegionDestroy(p) /\ ~SetType(p)
      BY <1>1, <1>3 DEF RegionShelf, RegionDestroy, SetType
    <2>4. ~Unlock(p) /\ ~Find(p)
      BY <1>1, <1>2 DEF Unlock, Find
    <2>5. QED
      BY <2>1, <2>2, <2>3, <2>4 DEF CallStep
  <1>9. ~UserStep(p)
    <2>1. ~Open(p) /\ ~Close(p) /\ ~Discard(p)
      BY <1>1, <1>2, <1>4 DEF Open, OpenHeader, Close, CloseBegin, Discard
    <2>2. ASSUME Use(p) PROVE FALSE
      <3>1. InUse(p)
        BY <2>2, UseCases
      <3>2. at'[p] \in {"idle", "abort", "resize_read", "perm_read"}
        BY <1>1, <1>4, <2>2, <3>1, UseCases DEF UseResize, UsePerm, UseShelves, UseRecover, UseTranslate,
           ResizeBegin, PermBegin, Merge, Alloc, Free, OffsetToLocal, OfflineRecover, InUse
      <3>3. QED
        BY <3>1, <3>2 DEF InUse
    <2>3. QED
      BY <2>1, <2>2 DEF UserStep
  <1>10. ~HeapStep(p)
    <2>1. ~CreatePool(p) /\ ~CreateFails(p) /\ ~CreateHeader(p) /\ ~CreateZone(p) /\ ~WriteTotal(p)
      BY <1>1, <1>3 DEF CreatePool, CreateFails, CreateHeader, CreateZone, WriteTotal
    <2>2. ~DestroyBegin(p) /\ ~DestroyShelf(p) /\ ~DestroyPool(p)
      BY <1>1, <1>3, <1>5 DEF DestroyBegin, DestroyShelf, DestroyPool
    <2>3. ~OpenAll(p) /\ ~OpenWait(p) /\ ~Join(p) /\ ~CloseShelves(p)
      BY <1>1, <1>2, <1>5 DEF OpenAll, OpenWait, Join, CloseShelves
    <2>4. ~Wake(p) /\ ~Work(p) /\ ~NoEpochManager(p) /\ ~SelfClose(p)
      BY <1>4, <1>w DEF Wake, Work, NoEpochManager, SelfClose
    <2>5. /\ ~ResizeRead(p) /\ ~ResizeClean(p) /\ ~ResizeAdd(p) /\ ~ResizeFails(p)
          /\ ~ResizeCount(p) /\ ~ResizeDone(p) /\ ~Refresh(p)
      BY <1>1, <1>2 DEF ResizeRead, ResizeClean, ResizeAdd, ResizeFails, ResizeCount, ResizeDone, Refresh
    <2>6. ~PermRead(p) /\ ~PermShelf(p) /\ ~PermFails(p) /\ ~PermDone(p)
      BY <1>1, <1>2, <1>5 DEF PermRead, PermShelf, PermFails, PermDone
    <2>7. QED
      BY <2>1, <2>2, <2>3, <2>4, <2>5, <2>6 DEF HeapStep
  <1>11. QED
    BY <1>8, <1>9, <1>10 DEF Acts

\* What booting does.
LEMMA BootEffect ==
  ASSUME IInv, NEW p \in Proc, BootStep(p)
  PROVE  /\ at[p] \in EarlyPC /\ at'[p] \in EarlyPC \cup {"idle"}
         /\ at[p] = "down" \/ at[p] \in StartPC \cup {"boot_attach"}
         /\ h' = h /\ wk' = wk /\ rmb' = rmb /\ map' = map /\ torn' = torn /\ events' = events
         /\ boot' \in [Boots -> {"absent", "raw", "ready"}]
         /\ boot' # boot => at[p] \in StartPC
         /\ Booted("root") => boot'["root"] = "ready"
         /\ at'[p] = "idle" => Booted("root")
         /\ at'[p] \in StartPC => /\ loc'[p].call \in Boots
                                  /\ at[p] \in StartPC \/ \A q \in Proc : at[q] \notin StartPC
         /\ at'[p] = "boot_init" /\ loc'[p].call = "root" => boot'["root"] = "raw"
         /\ loc'[p] \in Locals /\ loc'[p].call \notin Calls
  <1> USE DEF EarlyPC, StartPC, BootGoto, Following, views, history, mm, NoEvent
  <1>t. /\ Typed /\ boot \in [Boots -> {"absent", "raw", "ready"}] /\ loc[p] \in Locals
        /\ at[p] \in StartPC => loc[p].call \in Boots
    BY Types DEF IInv, Booting
  <1>1. ASSUME NEW label, NEW l, Goto(p, label, l) PROVE at'[p] = label /\ loc'[p] = l
    BY <1>1, <1>t, GotoEffect
  <1>b. Boots = {"root", "epoch"} /\ \A c \in Boots : c \notin Calls
    BY DEF Boots, Calls
  <1>l. /\ NoLocals \in Locals /\ NoLocals.call \notin Calls
        /\ \A f \in Boots : LET l == [NoLocals EXCEPT !.call = f] IN l \in Locals /\ l.call = f
    <2>1. NoLocals \in Locals /\ NoLocals.call = "none"
      BY Empty
    <2>2. QED
      BY <2>1 DEF Locals, CallName, Calls
  <1>g. ASSUME NEW f \in {"root", "epoch", "attach"}, BootGoto(p, f)
        PROVE  /\ at'[p] \in {"boot_attach", "boot_create"} /\ loc'[p] \in Locals /\ loc'[p].call \notin Calls
               /\ at'[p] = "boot_create" => loc'[p].call \in Boots
    <2>1. CASE f = "attach"
      <3>1. Goto(p, "boot_attach", NoLocals)
        BY <1>g, <2>1
      <3>2. QED
        BY <1>1, <1>l, <3>1
    <2>2. CASE f # "attach"
      <3>1. f \in Boots /\ Goto(p, "boot_create", [NoLocals EXCEPT !.call = f])
        BY <1>g, <1>b, <2>2
      <3>2. at'[p] = "boot_create" /\ loc'[p] = [NoLocals EXCEPT !.call = f]
        BY <1>1, <3>1
      <3>3. loc'[p] \in Locals /\ loc'[p].call = f
        BY <1>l, <3>1, <3>2
      <3>4. QED
        BY <1>b, <3>1, <3>2, <3>3
    <2>3. QED
      BY <2>1, <2>2
  <1>2. CASE StartNVMM(p)
    <2>1. BootGoto(p, "root")
      BY <1>2 DEF StartNVMM
    <2>2. /\ at[p] = "down" /\ \A q \in Proc : at[q] \notin StartPC
          /\ UNCHANGED <<h, wk, rmb, map, torn, events, boot>>
      BY <1>2 DEF StartNVMM
    <2>3. QED
      BY <1>g, <1>t, <2>1, <2>2 DEF Booted
  <1>3. CASE CreateShelf(p)
    <2> DEFINE f == loc[p].call
    <2>1. f \in Boots /\ at[p] = "boot_create" /\ UNCHANGED <<h, wk, rmb, map, torn, events>>
      BY <1>3, <1>t DEF CreateShelf
    <2>2. CASE boot[f] = "absent"
      <3>1. boot' = [boot EXCEPT ![f] = "raw"] /\ at'[p] = "boot_init" /\ loc'[p] = loc[p]
        BY <1>1, <1>3, <2>2 DEF CreateShelf
      <3>2. boot' \in [Boots -> {"absent", "raw", "ready"}] /\ boot'[f] = "raw"
        BY <1>t, <2>1, <3>1
      <3>3. Booted("root") => boot'["root"] = "ready"
        BY <1>t, <1>b, <2>2, <3>1 DEF Booted
      <3>4. QED
        BY <1>b, <1>t, <2>1, <3>1, <3>2, <3>3
    <2>3. CASE boot[f] # "absent"
      <3>1. UNCHANGED boot /\ BootGoto(p, Following(f)) /\ Following(f) \in {"root", "epoch", "attach"}
        BY <1>3, <2>3 DEF CreateShelf
      <3>2. QED
        BY <1>g, <1>t, <2>1, <3>1 DEF Booted
    <2>4. QED
      BY <2>2, <2>3
  <1>4. CASE InitRootShelf(p)
    <2>1. /\ at[p] = "boot_init" /\ UNCHANGED <<h, wk, rmb, map, torn, events>>
          /\ boot' = [boot EXCEPT !["root"] = "ready"] /\ BootGoto(p, "epoch")
      BY <1>4 DEF InitRootShelf
    <2>2. boot' \in [Boots -> {"absent", "raw", "ready"}] /\ boot'["root"] = "ready"
      BY <1>b, <1>t, <2>1
    <2>3. QED
      BY <1>g, <1>t, <2>1, <2>2
  <1>5. CASE InitEpochShelf(p)
    <2>1. /\ at[p] = "boot_init" /\ UNCHANGED <<h, wk, rmb, map, torn, events>>
          /\ boot' = [boot EXCEPT !["epoch"] = "ready"] /\ BootGoto(p, "attach")
      BY <1>5 DEF InitEpochShelf
    <2>2. boot' \in [Boots -> {"absent", "raw", "ready"}] /\ boot'["root"] = boot["root"]
      BY <1>b, <1>t, <2>1
    <2>3. QED
      BY <1>g, <1>t, <2>1, <2>2 DEF Booted
  <1>6. CASE Attach(p)
    BY <1>1, <1>6, <1>b, <1>l, <1>t DEF Attach, Booted
  <1>7. QED
    BY <1>2, <1>3, <1>4, <1>5, <1>6 DEF BootStep

\* What a death does.
LEMMA DieEffect ==
  ASSUME IInv, NEW p \in Proc, Die(p)
  PROVE  /\ at'[p] = "down" /\ loc'[p] = NoLocals /\ h'[p] = NoHandle /\ wk'[p] = "none"
         /\ rmb'[p] = NoShelves /\ map'[p] = NoShelves
         /\ boot' = boot /\ Quiet /\ torn' = (torn \/ HalfWay(p))
         /\ events' \in 0 .. MaxEvents
  <1>t. Typed
    BY DEF IInv
  <1>1. events' \in 0 .. MaxEvents
    BY <1>t, Types, Constants DEF Die, NoEvent, Event
  <1>2. QED
    BY <1>t, <1>1, Types, GotoEffect DEF Die, Quiet, fam, header

\* Only booting changes what is booted.
LEMMA BootStays ==
  ASSUME IInv, NEW p \in Proc, Acts(p), ~BootStep(p) PROVE boot' = boot
  <1>1. CASE CallStep(p)
    BY <1>1 DEF CallStep, BeginStep, CreateHeap, DestroyHeap, FindHeap, CreateRegion, DestroyRegion,
       FindRegion, Begin, Ask, RegionShelf, RegionDestroy, SetType, Unlock, Find, mm
  <1>2. CASE UserStep(p)
    BY <1>2 DEF UserStep, Open, Close, Discard, Use, mm
  <1>3. QED
    BY <1>1, <1>2 DEF Acts, Die, mm

\* One process boots at a time, and before the root shelf is ready nobody is up.
LEMMA NextBooting ==
  ASSUME IInv, NEW p \in Proc, Acts(p) PROVE Booting'
  <1>t. Typed /\ Tickets /\ Booting /\ \A q \in Proc \ {p} : Still(q)
    BY OthersStill DEF IInv
  <1>1. Booted("root") => boot'["root"] = "ready"
    BY BootEffect, BootStays DEF Booted
  <1>2. CASE BootStep(p)
    <2>1. \A q \in Proc \ {p} : at[p] \in StartPC => at[q] \notin StartPC
      BY <1>t DEF Booting
    <2>2. type' = type /\ lock' = lock
      <3>1. type' = type
        BY <1>t, <1>2 DEF BootStep, StartNVMM, CreateShelf, InitRootShelf, InitEpochShelf, Attach,
           mm, Booting, Booted
      <3>2. lock' = lock
        BY <1>t, <1>2 DEF BootStep, StartNVMM, CreateShelf, InitRootShelf, InitEpochShelf, Attach,
           mm, Booting, Booted
      <3>3. QED
        BY <3>1, <3>2
    <2>3. at'[p] \in EarlyPC \/ at'[p] = "idle"
      BY <1>2, BootEffect
    <2>4. "idle" \notin EarlyPC
      BY DEF EarlyPC, StartPC
    <2>5. StartPC \subseteq EarlyPC
      BY DEF EarlyPC
    <2>6. /\ at'[p] \in EarlyPC => h'[p] = NoHandle /\ wk'[p] = "none"
          /\ at'[p] \notin EarlyPC => Booted("root")'
          /\ at'[p] \in StartPC => loc'[p].call \in Boots
          /\ at'[p] = "boot_init" /\ loc'[p].call = "root" => boot'["root"] = "raw"
      BY <1>t, <1>1, <1>2, BootEffect DEF Booting, Booted
    <2>7. ASSUME NEW q \in Proc \ {p}
          PROVE  /\ at'[q] \in EarlyPC => h'[q] = NoHandle /\ wk'[q] = "none"
                 /\ at'[q] \notin EarlyPC => Booted("root")'
                 /\ at'[q] \in StartPC => loc'[q].call \in Boots
                 /\ at'[q] = "boot_init" /\ loc'[q].call = "root" => boot'["root"] = "raw"
      <3>1. at[q] = "boot_init" => at[q] \in StartPC
        BY DEF StartPC
      <3>2. at[q] \in StartPC => boot' = boot
        BY <1>2, <2>1, BootEffect
      <3>3. QED
        BY <1>t, <1>1, <3>1, <3>2 DEF Booting, Still, Booted
    <2>8. \A q, r \in Proc : at'[q] \in StartPC /\ at'[r] \in StartPC => q = r
      BY <1>t, <1>2, <2>1, BootEffect DEF Booting, Still
    <2>9. ~Booted("root")' => lock' = <<>> /\ type' = "none"
      BY <1>t, <1>1, <2>2 DEF Booting, Booted
    <2>10. QED
      BY <2>6, <2>7, <2>8, <2>9 DEF Booting
  <1>3. CASE ~BootStep(p)
    <2>1. boot' = boot
      BY <1>3, BootStays
    <2>2. CASE Die(p)
      <3>1. "down" \in EarlyPC /\ "down" \notin StartPC /\ "down" # "boot_init"
        BY DEF EarlyPC, StartPC
      <3>2. type' = type /\ (lock = <<>> => lock' = <<>>)
        BY <2>2, DieEffect DEF Quiet, Die
      <3>3. at'[p] = "down" /\ h'[p] = NoHandle /\ wk'[p] = "none"
        BY <2>2, DieEffect
      <3>4. QED
        BY <1>t, <2>1, <3>1, <3>2, <3>3 DEF Booting, Still, Booted
    <2>3. CASE ~Die(p)
      <3>1. at[p] \notin EarlyPC /\ at'[p] \notin EarlyPC
        BY <1>3, <2>3, EarlySteps
      <3>2. Booted("root")
        BY <1>t, <3>1 DEF Booting
      <3>3. "boot_init" \in EarlyPC /\ StartPC \subseteq EarlyPC
        BY DEF EarlyPC, StartPC
      <3>4. QED
        BY <1>t, <2>1, <3>1, <3>2, <3>3 DEF Booting, Still, Booted
    <2>4. QED
      BY <2>2, <2>3
  <1>4. QED
    BY <1>2, <1>3

-----------------------------------------------------------------------------
(* Where a thread comes from. *)

\* The thread of a process goes on only in its own steps, not in those of its cleaner.
Stays(p) == at'[p] = at[p] /\ loc'[p] = loc[p]
ToCall(p) == \/ (\E c \in Calls : Ask(p, c)) /\ at'[p] = "spin"
             \/ BeginStep(p) /\ at'[p] \in {"unlock", "create", "destroy", "region_destroy"}
             \/ SetType(p) /\ at'[p] = "unlock"
             \/ Unlock(p) /\ at'[p] \in {"find", "idle"}
             \/ Find(p) /\ at'[p] = "idle"
ToCreate(p) == \/ CreatePool(p) /\ at'[p] \in {"returned", "create_header", "region_shelf"}
               \/ CreateFails(p) /\ at'[p] = "returned"
               \/ CreateHeader(p) /\ at'[p] = "create_zone"
               \/ CreateZone(p) /\ at'[p] = "create_total"
               \/ WriteTotal(p) /\ at'[p] = "returned"
               \/ RegionShelf(p) /\ at'[p] = "returned"
ToDestroy(p) == \/ DestroyBegin(p) /\ at'[p] \in {"destroy_shelf", "returned"}
                \/ DestroyShelf(p) /\ at'[p] \in {"destroy_shelf", "destroy_pool", "abort"}
                \/ RegionDestroy(p) /\ at'[p] \in {"destroy_pool", "returned"}
                \/ DestroyPool(p) /\ at'[p] = "returned"
ToOpen(p) == \/ Open(p) /\ at'[p] \in {"open_shelves", "idle"}
             \/ OpenAll(p) /\ at'[p] \in {"open_wait", "idle"}
             \/ OpenWait(p) /\ at'[p] = "idle"
             \/ Close(p) /\ at'[p] \in {"join", "close", "idle"}
             \/ Join(p) /\ at'[p] = "close"
             \/ CloseShelves(p) /\ at'[p] \in {"abort", "idle"}
             \/ Discard(p) /\ at'[p] \in {"abort", "idle"}
             \/ NoEpochManager(p) /\ at'[p] = "abort"
ToWrite(p) == \/ Use(p) /\ at'[p] \in {"idle", "abort", "resize_read", "perm_read"}
              \/ ResizeRead(p) /\ at'[p] \in {"resize_clean", "idle"}
              \/ ResizeClean(p) /\ at'[p] = "resize_add"
              \/ ResizeAdd(p) /\ at'[p] = "resize_count"
              \/ ResizeFails(p) /\ at'[p] = "idle"
              \/ ResizeCount(p) /\ at'[p] = "resize_done"
              \/ ResizeDone(p) /\ at'[p] = "refresh"
              \/ Refresh(p) /\ at'[p] = "idle"
              \/ PermRead(p) /\ at'[p] \in {"perm_shelf", "idle"}
              \/ PermShelf(p) /\ at'[p] \in {"perm_shelf", "perm_done", "abort"}
              \/ PermFails(p) /\ at'[p] = "idle"
              \/ PermDone(p) /\ at'[p] = "idle"
Cleans(p) == (Wake(p) \/ Work(p) \/ SelfClose(p)) /\ Stays(p)
Boots1(p) == BootStep(p) /\ at'[p] \in EarlyPC \cup {"idle"}
Moves(p) == \/ Boots1(p) \/ ToCall(p) \/ ToCreate(p) \/ ToDestroy(p) \/ ToOpen(p)
            \/ ToWrite(p) \/ Cleans(p)
            \/ Die(p) /\ at'[p] = "down"

\* Every step goes where its code says.
LEMMA Arrive == ASSUME IInv, NEW p \in Proc, Acts(p) PROVE Moves(p)
  <1> USE DEF Moves
  <1>t. Typed
    BY DEF IInv
  <1>1. ASSUME NEW label, NEW l, Goto(p, label, l) PROVE at'[p] = label
    BY <1>1, <1>t, GotoEffect
  <1>2. Finish(p) => at'[p] = "idle"
    BY <1>1 DEF Finish
  <1>3. \A ok : Return(p, ok) => at'[p] = "returned"
    BY <1>1 DEF Return
  <1>4. \A c : AbortIn(p, c) => at'[p] = "abort"
    BY <1>1 DEF AbortIn
  <1>5. Abort(p) => at'[p] = "abort"
    BY <1>4 DEF Abort
  <1>7. CASE BootStep(p)
    BY <1>7, BootEffect DEF Boots1
  <1>8. CASE CallStep(p)
    <2>1. (\E c \in Calls : Ask(p, c)) => at'[p] = "spin"
      BY <1>1 DEF Ask
    <2>2. BeginStep(p) => at'[p] \in {"unlock", "create", "destroy", "region_destroy"}
      BY <1>1 DEF BeginStep, CreateHeap, DestroyHeap, FindHeap, CreateRegion, DestroyRegion,
         FindRegion, Begin
    <2>3. RegionShelf(p) => at'[p] = "returned"
      BY <1>3 DEF RegionShelf
    <2>4. RegionDestroy(p) => at'[p] \in {"destroy_pool", "returned"}
      BY <1>1, <1>3 DEF RegionDestroy
    <2>5. SetType(p) => at'[p] = "unlock"
      BY <1>1 DEF SetType
    <2>6. Unlock(p) => at'[p] \in {"find", "idle"}
      BY <1>1, <1>2 DEF Unlock
    <2>7. Find(p) => at'[p] = "idle"
      BY <1>2 DEF Find
    <2>8. QED
      BY <1>8, <2>1, <2>2, <2>3, <2>4, <2>5, <2>6, <2>7 DEF CallStep, ToCall, ToCreate, ToDestroy
  <1>9. CASE UserStep(p)
    <2>1. Open(p) => at'[p] \in {"open_shelves", "idle"}
      BY <1>1, <1>2 DEF Open, OpenHeader
    <2>2. Close(p) => at'[p] \in {"join", "close", "idle"}
      BY <1>1 DEF Close, CloseBegin
    <2>3. Discard(p) => at'[p] \in {"abort", "idle"}
      BY <1>4 DEF Discard
    <2>4. Use(p) => at'[p] \in {"idle", "abort", "resize_read", "perm_read"}
      BY <1>1, <1>4, UseCases DEF UseResize, UsePerm, UseShelves, UseRecover, UseTranslate,
         ResizeBegin, PermBegin, Merge, Alloc, Free, OffsetToLocal, OfflineRecover, InUse
    <2>5. QED
      BY <1>9, <2>1, <2>2, <2>3, <2>4 DEF UserStep, ToOpen, ToWrite
  <1>10. CASE HeapStep(p) /\ UNCHANGED mm
    <2>1. CreatePool(p) => at'[p] \in {"returned", "create_header", "region_shelf"}
      BY <1>1, <1>3 DEF CreatePool
    <2>2. /\ CreateFails(p) => at'[p] = "returned"
          /\ CreateHeader(p) => at'[p] = "create_zone"
          /\ CreateZone(p) => at'[p] = "create_total"
          /\ WriteTotal(p) => at'[p] = "returned"
      BY <1>1, <1>3 DEF CreateFails, CreateHeader, CreateZone, WriteTotal
    <2>3. /\ DestroyBegin(p) => at'[p] \in {"destroy_shelf", "returned"}
          /\ DestroyShelf(p) => at'[p] \in {"destroy_shelf", "destroy_pool", "abort"}
          /\ DestroyPool(p) => at'[p] = "returned"
      BY <1>1, <1>3, <1>5 DEF DestroyBegin, DestroyShelf, DestroyPool
    <2>4. /\ OpenAll(p) => at'[p] \in {"open_wait", "idle"}
          /\ OpenWait(p) => at'[p] = "idle"
          /\ Join(p) => at'[p] = "close"
          /\ CloseShelves(p) => at'[p] \in {"abort", "idle"}
          /\ NoEpochManager(p) => at'[p] = "abort"
      BY <1>1, <1>2, <1>4, <1>5 DEF OpenAll, OpenWait, Join, CloseShelves, NoEpochManager
    <2>5. Wake(p) \/ Work(p) \/ SelfClose(p) => Stays(p)
      BY DEF Wake, Work, SelfClose, Stays
    <2>6. /\ ResizeRead(p) => at'[p] \in {"resize_clean", "idle"}
          /\ ResizeClean(p) => at'[p] = "resize_add"
          /\ ResizeAdd(p) => at'[p] = "resize_count"
          /\ ResizeFails(p) => at'[p] = "idle"
          /\ ResizeCount(p) => at'[p] = "resize_done"
          /\ ResizeDone(p) => at'[p] = "refresh"
          /\ Refresh(p) => at'[p] = "idle"
      BY <1>1, <1>2 DEF ResizeRead, ResizeClean, ResizeAdd, ResizeFails, ResizeCount, ResizeDone, Refresh
    <2>7. /\ PermRead(p) => at'[p] \in {"perm_shelf", "idle"}
          /\ PermShelf(p) => at'[p] \in {"perm_shelf", "perm_done", "abort"}
          /\ PermFails(p) => at'[p] = "idle"
          /\ PermDone(p) => at'[p] = "idle"
      BY <1>1, <1>2, <1>5 DEF PermRead, PermShelf, PermFails, PermDone
    <2>8. QED
      BY <1>10, <2>1, <2>2, <2>3, <2>4, <2>5, <2>6, <2>7
         DEF HeapStep, ToCreate, ToDestroy, ToOpen, ToWrite, Cleans
  <1>11. CASE Die(p)
    BY <1>11, DieEffect
  <1>12. QED
    BY <1>7, <1>8, <1>9, <1>10, <1>11 DEF Acts

-----------------------------------------------------------------------------
(* What a process changes of what it sees. *)

Sees(p) == h'[p] = h[p] /\ rmb'[p] = rmb[p] /\ map'[p] = map[p] /\ wk'[p] = wk[p]
ViewStep(p) ==
  \/ Find(p) \/ Open(p) \/ Close(p) \/ Discard(p) \/ Use(p) \/ DestroyShelf(p)
  \/ OpenAll(p) \/ OpenWait(p) \/ Join(p) \/ CloseShelves(p)
  \/ Wake(p) \/ Work(p) \/ NoEpochManager(p) \/ SelfClose(p)
  \/ Refresh(p) \/ PermRead(p) \/ Die(p)
SharedPC == {"open_shelves", "open_wait", "join", "close"}

\* The other steps change no handle and no mapping, and are not those of Open and Close.
LEMMA ViewMoves ==
  ASSUME IInv, NEW p \in Proc, Acts(p)
  PROVE  \/ ViewStep(p)
         \/ UNCHANGED views /\ at[p] \notin SharedPC \cup {"abort"} /\ at'[p] \notin SharedPC
  <1> USE DEF ViewStep, SharedPC
  <1>m. Moves(p)
    BY Arrive
  <1>1. CASE Boots1(p)
    <2>1. UNCHANGED views
      BY <1>1, BootEffect DEF Boots1, views
    <2>2. at[p] \in EarlyPC /\ at'[p] \in EarlyPC \cup {"idle"}
      BY <1>1, BootEffect DEF Boots1
    <2>3. QED
      BY <2>1, <2>2 DEF EarlyPC, StartPC
  <1>2. CASE ToCall(p)
    BY <1>2 DEF ToCall, Ask, BeginStep, CreateHeap, DestroyHeap, FindHeap, CreateRegion, DestroyRegion,
       FindRegion, Begin, SetType, Unlock
  <1>3. CASE ToCreate(p)
    BY <1>3 DEF ToCreate, CreatePool, CreateFails, CreateHeader, CreateZone, WriteTotal, RegionShelf
  <1>4. CASE ToDestroy(p)
    BY <1>4 DEF ToDestroy, DestroyBegin, RegionDestroy, DestroyPool
  <1>5. CASE ToOpen(p) \/ Cleans(p) \/ Die(p)
    BY <1>5 DEF ToOpen, Cleans
  <1>6. CASE ToWrite(p)
    BY <1>6 DEF ToWrite, ResizeRead, ResizeClean, ResizeAdd, ResizeFails, ResizeCount, ResizeDone,
       PermShelf, PermFails, PermDone
  <1>7. QED
    BY <1>m, <1>1, <1>2, <1>3, <1>4, <1>5, <1>6 DEF Moves

\* A shelf somebody may have a pointer into is counted.
LEMMA KnownCounted ==
  ASSUME IInv, NEW s \in Known PROVE s \in 1 .. total
  <1>1. PICK q \in Proc : s \in Data /\ file[s] # None /\ rmb[q][s] = file[s]
    BY DEF Known
  <1>2. Typed /\ Present /\ Past(q)
    BY DEF IInv, Local
  <1>3. s \in Shelf /\ s \in Nat /\ s >= 1
    BY <1>1, Constants DEF Data, Shelf
  <1>4. pool /\ file[s] = lives
    BY <1>1, <1>2, <1>3 DEF Present
  <1>5. s <= total
    BY <1>1, <1>2, <1>4 DEF Past
  <1>6. QED
    BY <1>2, <1>3, <1>5, Types

\* How a mapping may change.
Maps(p) ==
  /\ map' \in [Proc -> [Data -> -MaxLives .. MaxLives]]
  /\ rmb' \in [Proc -> [Data -> Life \cup {None}]]
  /\ \A s \in Data :
       /\ \/ map'[p][s] = map[p][s] \/ map'[p][s] <= 0
          \/ s <= total /\ map'[p][s] = file[s]
       /\ \/ rmb'[p][s] = rmb[p][s] \/ rmb'[p][s] = 0
          \/ s <= total /\ rmb'[p][s] = map'[p][s]

\* What a use of a heap does to the mappings, to the handle and to the thread.
UseSees(p) ==
  /\ Maps(p) /\ wk' = wk
  /\ \/ h' = h /\ \A s \in 1 .. h[p].mapped : rmb'[p][s] # None
     \/ \E top \in 0 .. total : HasOpened(p, top)
UseGoes(p) == \/ at'[p] = "abort" /\ loc'[p] = [loc[p] EXCEPT !.call = "pointer"]
              \/ at'[p] = "abort" /\ loc'[p] = [loc[p] EXCEPT !.call = "alloc"] /\ h'[p].failed
              \/ Stays(p)

LEMMA UseViews ==
  ASSUME IInv, NEW p \in Proc, Use(p)
  PROVE  /\ Using(p) /\ UseSees(p)
         /\ UseResize(p) \/ UsePerm(p) \/ UseGoes(p)
  <1>t. Typed /\ rmb \in [Proc -> [Data -> Life \cup {None}]] /\ h \in [Proc -> Handle] /\ h[p] \in Handle
    BY Types DEF IInv
  <1>u. Using(p)
    BY Users, UseCases
  <1>f. h[p].mapped \in 0 .. total /\ \A s \in 1 .. h[p].mapped : rmb[p][s] # None
    BY <1>u, UsingFacts
  <1>s. ASSUME UNCHANGED <<h, rmb, map, wk>> PROVE UseSees(p)
    BY <1>s, <1>t, <1>f, Types DEF Maps, UseSees
  <1>n. ASSUME OpenNewShelfs(p) PROVE Maps(p) /\ \E top \in 0 .. total : HasOpened(p, top)
    BY <1>n, <1>u, NewShelves DEF Maps
  <1>h. ASSUME NEW top \in 0 .. total, HasOpened(p, top)
        PROVE  h'[p].mapped = top /\ h'[p].failed = (top < total)
    BY <1>h, <1>t, OpenedHandle
  <1>i. total \in 0 .. MaxData /\ MaxData \in Nat /\ h[p].mapped \in Nat
    BY <1>t, Types, Constants DEF Handle
  <1>1. CASE UseResize(p) \/ UsePerm(p)
    BY <1>1, <1>s, <1>u DEF UseResize, UsePerm, views
  <1>2. CASE UseShelves(p)
    <2>w. wk' = wk
      BY <1>2 DEF UseShelves
    <2>1. CASE Merge(p)
      <3>1. OpenNewShelfs(p)
        BY <2>1 DEF Merge
      <3>2. PICK top \in 0 .. total : HasOpened(p, top)
        BY <3>1, <1>n
      <3>3. \A s \in 1 .. h'[p].mapped : rmb'[p][s] # None
        BY <3>2, <1>h DEF HasOpened
      <3>4. UNCHANGED <<at, loc>>
        BY <2>1, <3>3 DEF Merge
      <3>5. QED
        BY <2>w, <3>1, <3>4, <1>n, <1>u DEF UseSees, UseGoes, Stays
    <2>2. CASE \E s \in Data : Alloc(p, s)
      <3>1. PICK s \in Data : Alloc(p, s)
        BY <2>2
      <3>2. s \in 1 .. total /\ s <= h[p].mapped + 1
        BY <1>i, <3>1 DEF Alloc, Data
      <3>3. CASE s > h[p].mapped
        <4>1. OpenNewShelfs(p)
          BY <3>1, <3>3 DEF Alloc
        <4>2. PICK top \in 0 .. total : HasOpened(p, top)
          BY <4>1, <1>n
        <4>3. CASE rmb'[p][s] = None
          <5>1. top < total
            BY <1>i, <3>2, <4>2, <4>3 DEF HasOpened
          <5>2. h'[p].failed
            BY <4>2, <5>1, <1>h
          <5>3. AbortIn(p, "alloc")
            BY <3>1, <4>3 DEF Alloc
          <5>4. at'[p] = "abort" /\ loc'[p] = [loc[p] EXCEPT !.call = "alloc"]
            BY <1>t, <5>3, GotoEffect DEF AbortIn
          <5>5. QED
            BY <2>w, <4>1, <5>2, <5>4, <1>n, <1>u DEF UseSees, UseGoes
        <4>4. CASE rmb'[p][s] # None
          <5>1. UNCHANGED <<at, loc>>
            BY <3>1, <4>4 DEF Alloc
          <5>2. QED
            BY <2>w, <4>1, <5>1, <1>n, <1>u DEF UseSees, UseGoes, Stays
        <4>5. QED
          BY <4>3, <4>4
      <3>4. CASE ~(s > h[p].mapped)
        <4>1. UNCHANGED <<h, rmb, map>>
          BY <3>1, <3>4 DEF Alloc
        <4>2. s \in 1 .. h[p].mapped
          BY <1>f, <1>i, <3>2, <3>4
        <4>3. UNCHANGED <<at, loc>>
          BY <1>f, <3>1, <4>1, <4>2 DEF Alloc
        <4>4. QED
          BY <2>w, <4>1, <4>3, <1>s, <1>u DEF UseGoes, Stays
      <3>5. QED
        BY <3>3, <3>4
    <2>5. CASE \E s \in Known : Free(p, s)
      <3>1. PICK s \in Known : Free(p, s)
        BY <2>5
      <3>2. s \in 1 .. total
        BY KnownCounted
      <3>3. CASE s > h[p].mapped
        <4>1. OpenNewShelfs(p)
          BY <3>1, <3>3 DEF Free
        <4>2. PICK top \in 0 .. total : HasOpened(p, top)
          BY <4>1, <1>n
        <4>3. h'[p].mapped = total => rmb'[p][s] # None
          BY <3>2, <4>2, <1>h DEF HasOpened
        <4>4. ~(s <= h[p].mapped)
          BY <3>2, <3>3, <1>i
        <4>5. UNCHANGED <<at, loc>>
          BY <3>1, <4>3, <4>4 DEF Free
        <4>6. QED
          BY <2>w, <4>1, <4>5, <1>n, <1>u DEF UseSees, UseGoes, Stays
      <3>4. CASE ~(s > h[p].mapped)
        <4>1. UNCHANGED <<h, rmb, map>>
          BY <3>1, <3>4 DEF Free
        <4>2. s \in 1 .. h[p].mapped
          BY <1>f, <1>i, <3>2, <3>4
        <4>3. UNCHANGED <<at, loc>>
          BY <1>f, <3>1, <4>1, <4>2 DEF Free
        <4>4. QED
          BY <2>w, <4>1, <4>3, <1>s, <1>u DEF UseGoes, Stays
      <3>5. QED
        BY <3>3, <3>4
    <2>3. CASE \E s \in Known : OffsetToLocal(p, s)
      <3>1. UNCHANGED <<h, rmb, map>> /\ (AbortIn(p, "pointer") \/ UNCHANGED <<at, loc>>)
        BY <2>3 DEF OffsetToLocal
      <3>2. UseGoes(p)
        BY <1>t, <3>1, GotoEffect DEF AbortIn, UseGoes, Stays
      <3>3. QED
        BY <2>w, <3>1, <3>2, <1>s, <1>u
    <2>4. QED
      BY <1>2, <2>1, <2>2, <2>3, <2>5 DEF UseShelves
  <1>3. CASE UseRecover(p)
    <2>1. OpenNewShelfs(p) /\ UNCHANGED <<at, loc, wk>>
      BY <1>3 DEF UseRecover, OfflineRecover
    <2>2. QED
      BY <2>1, <1>n, <1>u DEF UseSees, UseGoes, Stays
  <1>4. CASE UseTranslate(p)
    <2>1. PICK s \in Known : map[p][s] = None /\ RegisterShelf(p, {s}, file) /\ UNCHANGED <<h, rmb, wk, at, loc>>
      BY <1>4 DEF UseTranslate, Translate, FindBase
    <2>2. s \in 1 .. total
      BY KnownCounted
    <2>3. /\ map' \in [Proc -> [Data -> -MaxLives .. MaxLives]]
          /\ \A t \in Data : map'[p][t] = IF t \in {s} /\ map[p][t] <= 0 THEN file[t] ELSE map[p][t]
      BY <1>t, <2>1, RegisterEffect
    <2>4. Maps(p)
      BY <1>t, <2>1, <2>2, <2>3 DEF Maps
    <2>5. QED
      BY <1>f, <1>u, <2>1, <2>4 DEF UseSees, UseGoes, Stays
  <1>5. QED
    BY <1>1, <1>2, <1>3, <1>4, UseCases

\* The mappings that Open makes are of shelves that are counted.
OpenedAll(p, top) ==
  \/ top < loc[p].n /\ UNCHANGED wk /\ at'[p] = "idle"
     /\ h' = [h EXCEPT ![p] = [@ EXCEPT !.mapped = top, !.hdr = None]]
  \/ /\ UNCHANGED wk /\ at'[p] = "idle"
     /\ h' = [h EXCEPT ![p] = [@ EXCEPT !.open = TRUE, !.mapped = top, !.failed = FALSE, !.nobg = TRUE]]
     /\ \A s \in 1 .. top : rmb'[p][s] # None
  \/ /\ StartWorker(p) /\ at'[p] = "open_wait"
     /\ h' = [h EXCEPT ![p] = [@ EXCEPT !.open = TRUE, !.mapped = top, !.failed = FALSE, !.start = TRUE]]
     /\ \A s \in 1 .. top : rmb'[p][s] # None
LEMMA OpenAllViews ==
  ASSUME IInv, NEW p \in Proc, OpenAll(p)
  PROVE  /\ Maps(p) /\ events' \in 0 .. MaxEvents
         /\ Holds(p) /\ ~h[p].open /\ ~h[p].invalid
         /\ \E top \in 0 .. total : top <= loc[p].n /\ OpenedAll(p, top)
  <1> DEFINE n == loc[p].n
             opened(t) == [h[p] EXCEPT !.open = TRUE, !.mapped = t, !.failed = FALSE]
             Fails(t) == /\ t < n /\ MapShelves(p, 1 .. t)
                         /\ h' = [h EXCEPT ![p] = [@ EXCEPT !.mapped = t, !.hdr = None]]
                         /\ Finish(p)
                         /\ UNCHANGED <<rmb, wk>>
             Plain(t) == /\ t = n /\ OpenShelves(p, 1, t)
                         /\ h' = [h EXCEPT ![p] = [opened(t) EXCEPT !.nobg = TRUE]]
                         /\ Finish(p)
                         /\ UNCHANGED wk
             Cleaned(t) == /\ t = n /\ OpenShelves(p, 1, t)
                           /\ h' = [h EXCEPT ![p] = [opened(t) EXCEPT !.start = TRUE]]
                           /\ Goto(p, "open_wait", loc[p])
                           /\ StartWorker(p)
  <1>t. Typed /\ loc[p] \in Locals /\ total \in 0 .. MaxData /\ rmb \in [Proc -> [Data -> Life \cup {None}]]
        /\ events \in 0 .. MaxEvents
    BY Types DEF IInv
  <1>0. PICK top \in Shelf : OpensTo(1, n, top) /\ (Fails(top) \/ Plain(top) \/ Cleaned(top))
    BY DEF OpenAll
  <1>1. at[p] = "open_shelves" /\ Opened(p)
    BY DEF OpenAll, IInv, Local
  <1>2. Holds(p) /\ ~h[p].open /\ ~h[p].invalid /\ n <= total
    BY <1>1 DEF Opened
  <1>3. n \in Nat /\ 1 \in Nat /\ 1 <= n + 1
    BY <1>t, Constants DEF Locals
  <1>4. top \in 0 .. n /\ \A s \in 1 .. top : file[s] # None
    <2>1. LastOpened(1, n) \in 1 - 1 .. n /\ \A s \in 1 .. LastOpened(1, n) : file[s] # None
      BY <1>3, LastOpenedExists
    <2>2. top \in 0 .. LastOpened(1, n)
      BY <1>0, <1>3, <2>1 DEF OpensTo
    <2>3. QED
      BY <1>3, <2>1, <2>2
  <1>5. top \in 0 .. total /\ top \in Nat /\ \A s \in 1 .. top : s <= total /\ s \in Data
    BY <1>t, <1>2, <1>3, <1>4, Constants DEF Data
  <1>e. events' \in 0 .. MaxEvents
    BY <1>0, <1>t, Constants DEF OpensTo, Event, NoEvent
  <1>g. ASSUME NEW label, NEW l, Goto(p, label, l) PROVE at'[p] = label
    BY <1>g, <1>t, GotoEffect
  <1>6. ASSUME OpenShelves(p, 1, top) PROVE Maps(p) /\ \A s \in 1 .. top : rmb'[p][s] # None
    <2>1. Maps(p)
      BY <1>t, <1>5, <1>6, OpenShelvesEffect DEF Maps
    <2>2. QED
      BY <1>t, <1>4, <1>5, <1>6, <2>1, OpenShelvesEffect
  <1>7. ASSUME Fails(top) PROVE Maps(p) /\ OpenedAll(p, top)
    <2>1. RegisterShelf(p, 1 .. top, file)
      BY <1>7 DEF MapShelves
    <2>2. Maps(p)
      BY <1>t, <1>5, <1>7, <2>1, RegisterEffect DEF Maps
    <2>3. QED
      BY <1>7, <1>g, <2>2 DEF Finish, OpenedAll
  <1>8. ASSUME Plain(top) PROVE Maps(p) /\ OpenedAll(p, top)
    <2>1. h' = [h EXCEPT ![p] = [@ EXCEPT !.open = TRUE, !.mapped = top, !.failed = FALSE, !.nobg = TRUE]]
      BY <1>8
    <2>2. at'[p] = "idle" /\ UNCHANGED wk
      BY <1>8, <1>g DEF Finish
    <2>3. QED
      BY <1>6, <1>8, <2>1, <2>2 DEF OpenedAll
  <1>9. ASSUME Cleaned(top) PROVE Maps(p) /\ OpenedAll(p, top)
    <2>1. h' = [h EXCEPT ![p] = [@ EXCEPT !.open = TRUE, !.mapped = top, !.failed = FALSE, !.start = TRUE]]
      BY <1>9
    <2>2. at'[p] = "open_wait" /\ StartWorker(p)
      BY <1>9, <1>g
    <2>3. QED
      BY <1>6, <1>9, <2>1, <2>2 DEF OpenedAll
  <1>10. Maps(p) /\ OpenedAll(p, top)
    BY <1>0, <1>7, <1>8, <1>9
  <1>11. top <= n
    BY <1>3, <1>4
  <1>12. QED
    BY <1>2, <1>5, <1>e, <1>10, <1>11

\* What is typed of what a process sees, and where the header and the kind of its object
\* come from.
SeesTyped(p) ==
  /\ Maps(p) /\ h' \in [Proc -> Handle]
  /\ wk' \in [Proc -> {"none", "sleep", "work", "selfclose", "exited"}]
  /\ \/ h'[p].hdr \in {h[p].hdr, None}
     \/ Open(p) /\ type # "none" /\ ~Destroying /\ h'[p].hdr = file[0]
  /\ h'[p].kind = h[p].kind \/ h'[p] = NoHandle \/ Find(p)

LEMMA Views == ASSUME IInv, NEW p \in Proc, Acts(p) PROVE SeesTyped(p)
  <1> USE DEF SeesTyped
  <1>t. /\ Typed /\ h \in [Proc -> Handle] /\ h[p] \in Handle
        /\ rmb \in [Proc -> [Data -> Life \cup {None}]]
        /\ map \in [Proc -> [Data -> -MaxLives .. MaxLives]]
        /\ wk \in [Proc -> {"none", "sleep", "work", "selfclose", "exited"}]
        /\ file \in [Shelf -> Life \cup {None}] /\ total \in 0 .. MaxData
    BY Types DEF IInv
  <1>s. UNCHANGED <<rmb, map>> => Maps(p)
    BY <1>t DEF Maps
  <1>f. file[0] \in Life \cup {None}
    BY <1>t, Constants
  <1>h. ASSUME NEW e \in Handle, h' = [h EXCEPT ![p] = e]
        PROVE  h' \in [Proc -> Handle] /\ h'[p] = e
    BY <1>h, <1>t
  <1>c. ASSUME Closed(p)
        PROVE  /\ h' \in [Proc -> Handle] /\ h'[p] = [h[p] EXCEPT !.open = FALSE, !.hdr = None]
               /\ UNCHANGED map => Maps(p)
    <2>1. /\ h' = [h EXCEPT ![p] = [h[p] EXCEPT !.open = FALSE, !.hdr = None]]
          /\ rmb' = [rmb EXCEPT ![p] = NoShelves]
      BY <1>c, <1>t DEF Closed, Handle
    <2>2. [h[p] EXCEPT !.open = FALSE, !.hdr = None] \in Handle
      BY <1>t DEF Handle
    <2>3. NoShelves \in [Data -> Life \cup {None}] /\ \A s \in Data : NoShelves[s] = None
      BY DEF NoShelves
    <2>4. UNCHANGED map => Maps(p)
      BY <1>t, <2>1, <2>3 DEF Maps, None
    <2>5. QED
      BY <2>1, <2>2, <2>4, <1>h
  <1>1. CASE UNCHANGED views
    BY <1>1, <1>s, <1>t DEF views
  <1>2. CASE Find(p)
    <2>1. UNCHANGED <<rmb, map, wk>>
      BY <1>2 DEF Find
    <2>2. h' = h \/ \E k \in {"heap", "region"} : h' = [h EXCEPT ![p] = [h[p] EXCEPT !.kind = k]]
      BY <1>2 DEF Find
    <2>3. \A k \in {"heap", "region"} : [h[p] EXCEPT !.kind = k] \in Handle /\ [h[p] EXCEPT !.kind = k].hdr = h[p].hdr
      BY <1>t DEF Handle
    <2>4. QED
      BY <1>2, <1>s, <1>t, <1>h, <2>1, <2>2, <2>3
  <1>3. CASE Open(p)
    <2>1. UNCHANGED <<rmb, map, wk>> /\ type # "none" /\ ~Destroying
      BY <1>3 DEF Open, OpenHeader
    <2>2. \/ h' = h \/ h' = [h EXCEPT ![p] = [h[p] EXCEPT !.hdr = file[0]]]
          \/ h' = [h EXCEPT ![p] = [h[p] EXCEPT !.open = TRUE, !.hdr = file[0]]]
      BY <1>3 DEF Open, OpenHeader
    <2>3. /\ [h[p] EXCEPT !.hdr = file[0]] \in Handle
          /\ [h[p] EXCEPT !.open = TRUE, !.hdr = file[0]] \in Handle
          /\ [h[p] EXCEPT !.hdr = file[0]].kind = h[p].kind
          /\ [h[p] EXCEPT !.open = TRUE, !.hdr = file[0]].kind = h[p].kind
          /\ [h[p] EXCEPT !.hdr = file[0]].hdr = file[0]
          /\ [h[p] EXCEPT !.open = TRUE, !.hdr = file[0]].hdr = file[0]
      BY <1>t, <1>f DEF Handle
    <2>4. QED
      BY <1>3, <1>s, <1>t, <1>h, <2>1, <2>2, <2>3
  <1>4. CASE Close(p)
    <2>1. UNCHANGED <<map, wk>>
      BY <1>4 DEF Close, CloseBegin
    <2>2. CASE h[p].kind = "heap"
      <3>1. UNCHANGED rmb /\ \E b \in BOOLEAN : h' = [h EXCEPT ![p] = [h[p] EXCEPT !.stop = b]]
        BY <1>4, <1>t, <2>2 DEF Close, CloseBegin, Handle
      <3>2. \A b \in BOOLEAN : LET e == [h[p] EXCEPT !.stop = b]
                               IN  e \in Handle /\ e.hdr = h[p].hdr /\ e.kind = h[p].kind
        BY <1>t DEF Handle
      <3>3. QED
        BY <1>s, <1>t, <1>h, <2>1, <3>1, <3>2
    <2>3. CASE h[p].kind # "heap"
      <3>1. Closed(p)
        BY <1>4, <2>3 DEF Close
      <3>2. QED
        BY <1>c, <1>t, <2>1, <3>1 DEF Handle
    <2>4. QED
      BY <2>2, <2>3
  <1>5. CASE Discard(p)
    <2>1. UNCHANGED <<rmb, map>> /\ h' = [h EXCEPT ![p] = NoHandle] /\ wk' = [wk EXCEPT ![p] = "none"]
      BY <1>5 DEF Discard
    <2>2. QED
      BY <1>s, <1>t, <1>h, <2>1, Empty
  <1>6. CASE Use(p)
    <2>1. UseSees(p)
      BY <1>6, UseViews
    <2>2. h' \in [Proc -> Handle] /\ h'[p].hdr = h[p].hdr /\ h'[p].kind = h[p].kind
      <3>1. h' = h \/ \E top \in 0 .. total : HasOpened(p, top)
        BY <2>1 DEF UseSees
      <3>2. QED
        BY <1>t, <3>1, OpenedHandle DEF HasOpened
    <2>3. QED
      BY <1>t, <2>1, <2>2 DEF UseSees
  <1>7. CASE DestroyShelf(p)
    <2>1. /\ UNCHANGED <<h, rmb, wk>>
          /\ map' = map \/ \E k \in Int : UnregisterShelf(p, {k})
      <3> DEFINE k == IF loc[p].k <= loc[p].n THEN loc[p].k ELSE 0
      <3>1. loc[p] \in Locals
        BY <1>t, Types
      <3>2. k \in Int
        BY <3>1, Constants DEF Locals
      <3>3. UNCHANGED <<h, rmb, wk>> /\ (map' = map \/ UnregisterShelf(p, {k}))
        BY <1>7 DEF DestroyShelf
      <3>4. QED
        BY <3>2, <3>3
    <2>2. CASE \E k \in Int : UnregisterShelf(p, {k})
      <3>1. PICK k \in Int : UnregisterShelf(p, {k})
        BY <2>2
      <3>2. DOMAIN map[p] = Data
        BY <1>t
      <3>3. map' = [map EXCEPT ![p] = [s \in Data |-> IF s \in {k} THEN None ELSE map[p][s]]]
        BY <1>t, <3>1, <3>2 DEF UnregisterShelf
      <3>4. /\ map' \in [Proc -> [Data -> -MaxLives .. MaxLives]]
            /\ \A s \in Data : map'[p][s] = map[p][s] \/ map'[p][s] = None
        BY <1>t, <3>3, Constants DEF None
      <3>5. Maps(p)
        BY <1>t, <2>1, <3>4 DEF Maps, None
      <3>6. QED
        BY <1>t, <2>1, <3>5
    <2>3. QED
      BY <1>s, <1>t, <2>1, <2>2
  <1>8. CASE OpenAll(p)
    <2>1. PICK top \in 0 .. total : OpenedAll(p, top)
      BY <1>8, OpenAllViews
    <2>2. Maps(p) /\ wk' \in [Proc -> {"none", "sleep", "work", "selfclose", "exited"}]
      BY <1>8, <1>t, <2>1, OpenAllViews DEF StartWorker, OpenedAll
    <2>3. top \in 0 .. MaxData
      BY <1>t, <2>1, Constants
    <2> DEFINE shut == [h[p] EXCEPT !.mapped = top, !.hdr = None]
               plain == [h[p] EXCEPT !.open = TRUE, !.mapped = top, !.failed = FALSE, !.nobg = TRUE]
               cleaned == [h[p] EXCEPT !.open = TRUE, !.mapped = top, !.failed = FALSE, !.start = TRUE]
    <2>4. /\ shut \in Handle /\ shut.kind = h[p].kind /\ shut.hdr = None
          /\ plain \in Handle /\ plain.kind = h[p].kind /\ plain.hdr = h[p].hdr
          /\ cleaned \in Handle /\ cleaned.kind = h[p].kind /\ cleaned.hdr = h[p].hdr
      BY <1>t, <2>3 DEF Handle
    <2>5. h' \in [Proc -> Handle] /\ h'[p].hdr \in {h[p].hdr, None} /\ h'[p].kind = h[p].kind
      <3>1. \E e \in {shut, plain, cleaned} : h' = [h EXCEPT ![p] = e]
        BY <2>1 DEF OpenedAll
      <3>2. PICK e \in Handle : h' = [h EXCEPT ![p] = e] /\ e.hdr \in {h[p].hdr, None} /\ e.kind = h[p].kind
        <4> HIDE DEF shut, plain, cleaned
        <4>1. QED
          BY <2>4, <3>1
      <3>3. QED
        BY <1>h, <3>2
    <2>6. QED
      BY <2>2, <2>5
  <1>9. CASE OpenWait(p) \/ Join(p) \/ Wake(p)
    <2>1. /\ UNCHANGED <<rmb, map>>
          /\ wk' \in [Proc -> {"none", "sleep", "work", "selfclose", "exited"}]
      BY <1>9, <1>t DEF OpenWait, Join, Wake
    <2>2. \E e \in {[h[p] EXCEPT !.nobg = FALSE],
                    [h[p] EXCEPT !.start = FALSE, !.stop = FALSE, !.running = FALSE],
                    [h[p] EXCEPT !.running = TRUE]} : h' = [h EXCEPT ![p] = e]
      BY <1>9 DEF OpenWait, Join, Wake
    <2>3. /\ [h[p] EXCEPT !.nobg = FALSE] \in Handle
          /\ [h[p] EXCEPT !.start = FALSE, !.stop = FALSE, !.running = FALSE] \in Handle
          /\ [h[p] EXCEPT !.running = TRUE] \in Handle
      BY <1>t DEF Handle
    <2>4. h' \in [Proc -> Handle] /\ h'[p].hdr = h[p].hdr /\ h'[p].kind = h[p].kind
      <3>1. PICK e \in Handle : h' = [h EXCEPT ![p] = e] /\ e.hdr = h[p].hdr /\ e.kind = h[p].kind
        <4>1. /\ [h[p] EXCEPT !.nobg = FALSE].kind = h[p].kind
              /\ [h[p] EXCEPT !.nobg = FALSE].hdr = h[p].hdr
              /\ [h[p] EXCEPT !.start = FALSE, !.stop = FALSE, !.running = FALSE].kind = h[p].kind
              /\ [h[p] EXCEPT !.start = FALSE, !.stop = FALSE, !.running = FALSE].hdr = h[p].hdr
              /\ [h[p] EXCEPT !.running = TRUE].kind = h[p].kind
              /\ [h[p] EXCEPT !.running = TRUE].hdr = h[p].hdr
          BY <1>t DEF Handle
        <4>2. QED
          BY <2>2, <2>3, <4>1
      <3>2. QED
        BY <1>h, <3>1
    <2>5. QED
      BY <1>s, <2>1, <2>4
  <1>10. CASE CloseShelves(p)
    <2>1. UNCHANGED <<map, wk>>
      BY <1>10 DEF CloseShelves
    <2>2. UNCHANGED <<h, rmb>> \/ Closed(p) \/ (\E lo : CloseShelf(p, lo) /\ UNCHANGED h)
      BY <1>10 DEF CloseShelves
    <2>3. ASSUME NEW lo, CloseShelf(p, lo), UNCHANGED h PROVE Maps(p)
      <3>1. DOMAIN rmb[p] = Data /\ rmb' = [rmb EXCEPT ![p] = [s \in Data |-> IF s <= lo THEN rmb[p][s] ELSE None]]
        BY <1>t, <2>3 DEF CloseShelf
      <3>2. QED
        BY <1>t, <2>1, <3>1 DEF Maps, None
    <2>4. CASE Closed(p)
      BY <1>c, <1>t, <2>1, <2>4 DEF Handle
    <2>5. QED
      BY <1>s, <1>t, <2>1, <2>2, <2>3, <2>4
  <1>11. CASE Work(p)
    <2>1. /\ UNCHANGED rmb /\ wk' = [wk EXCEPT ![p] = "selfclose"] /\ MarkInvalid(p, 1 .. h[p].mapped)
          /\ h' = [h EXCEPT ![p] = [h[p] EXCEPT !.invalid = TRUE]]
      BY <1>11 DEF Work
    <2>2. DOMAIN map[p] = Data /\ \A s \in Data : map[p][s] \in -MaxLives .. MaxLives
      BY <1>t
    <2>3. map' = [map EXCEPT ![p] = [s \in Data |->
                    IF s \in 1 .. h[p].mapped /\ map[p][s] > None THEN -map[p][s] ELSE map[p][s]]]
      BY <1>t, <2>1, <2>2 DEF MarkInvalid
    <2>4. \A s \in Data : (IF s \in 1 .. h[p].mapped /\ map[p][s] > None THEN -map[p][s] ELSE map[p][s])
                            \in -MaxLives .. MaxLives
      BY <2>2, Constants DEF None
    <2>5. /\ map' \in [Proc -> [Data -> -MaxLives .. MaxLives]]
          /\ \A s \in Data : map'[p][s] = map[p][s] \/ (map[p][s] > 0 /\ map'[p][s] = -map[p][s])
      BY <1>t, <2>3, <2>4 DEF None
    <2>6. \A s \in Data : map'[p][s] = map[p][s] \/ map'[p][s] <= 0
      BY <2>2, <2>5, Constants
    <2>7. Maps(p)
      BY <1>t, <2>1, <2>5, <2>6 DEF Maps
    <2>8. [h[p] EXCEPT !.invalid = TRUE] \in Handle
      BY <1>t DEF Handle
    <2>9. QED
      BY <1>t, <1>h, <2>1, <2>7, <2>8
  <1>12. CASE NoEpochManager(p)
    BY <1>12, <1>s, <1>t DEF NoEpochManager
  <1>13. CASE SelfClose(p)
    BY <1>13, <1>c, <1>t DEF SelfClose, Handle
  <1>14. CASE Refresh(p) \/ PermRead(p)
    <2>1. Using(p)
      BY <1>14, Users DEF Refresh, PermRead, HeaderPC, WritePC, PermPC
    <2>2. UNCHANGED wk /\ (UNCHANGED <<h, rmb, map>> \/ OpenNewShelfs(p))
      BY <1>14 DEF Refresh, PermRead
    <2>3. CASE OpenNewShelfs(p)
      <3>1. Maps(p) /\ \E top \in 0 .. total : HasOpened(p, top)
        BY <2>1, <2>3, NewShelves DEF Maps
      <3>2. h' \in [Proc -> Handle] /\ h'[p].hdr = h[p].hdr /\ h'[p].kind = h[p].kind
        BY <1>t, <3>1, OpenedHandle DEF HasOpened
      <3>3. QED
        BY <1>t, <2>2, <3>1, <3>2
    <2>4. QED
      BY <1>s, <1>t, <2>2, <2>3
  <1>15. CASE Die(p)
    <2>1. /\ h' = [h EXCEPT ![p] = NoHandle] /\ wk' = [wk EXCEPT ![p] = "none"]
          /\ rmb' = [rmb EXCEPT ![p] = NoShelves] /\ map' = [map EXCEPT ![p] = NoShelves]
      BY <1>15 DEF Die
    <2>2. /\ NoShelves \in [Data -> Life \cup {None}] /\ NoShelves \in [Data -> -MaxLives .. MaxLives]
          /\ \A s \in Data : NoShelves[s] = 0
      BY Constants DEF NoShelves, None
    <2>3. Maps(p)
      BY <1>t, <2>1, <2>2 DEF Maps
    <2>4. QED
      BY <1>t, <1>h, <2>1, <2>3, Empty
  <1>16. QED
    BY <1>1, <1>2, <1>3, <1>4, <1>5, <1>6, <1>7, <1>8, <1>9, <1>10, <1>11, <1>12, <1>13, <1>14, <1>15,
       ViewMoves DEF ViewStep

-----------------------------------------------------------------------------
(* The locals. *)

Label == {"down", "boot_attach", "idle", "spin", "unlock", "find", "abort"}
           \cup StartPC \cup ChangePC \cup UsePC
\* A call is kept, or given up, or it is the one that was asked for.
Keep(p, l) == l.call = loc[p].call \/ l.call \notin Calls \/ \E c \in Calls : Ask(p, c) /\ l.call = c
Went(p) == \/ UNCHANGED <<at, loc>>
           \/ \E label \in Label, l \in Locals : Goto(p, label, l) /\ Keep(p, l)

LEMMA Goes == ASSUME IInv, NEW p \in Proc, Acts(p) PROVE Went(p)
  <1> USE DEF history, mm
  <1>t. /\ Typed /\ loc[p] \in Locals /\ perm[0] \in Perm /\ total \in 0 .. MaxData
        /\ NoLocals \in Locals /\ NoLocals.call = "none" /\ MaxData \in Nat
    BY Types, Constants, Empty DEF IInv
  <1>c. \A c \in {"none", "close", "discard", "exit", "pointer", "alloc", "access", "resize", "perm"} \cup Boots :
           c \in CallName /\ c \notin Calls
    BY DEF Calls, Boots, CallName
  <1>w. ASSUME NEW label \in Label, NEW l \in Locals, Goto(p, label, l), Keep(p, l) PROVE Went(p)
    BY <1>w DEF Went
  <1>u. UNCHANGED <<at, loc>> => Went(p)
    BY DEF Went
  <1>b. /\ {"down", "boot_attach", "boot_create", "boot_init", "idle", "spin", "unlock", "find", "abort"} \subseteq Label
        /\ {"create", "create_header", "create_zone", "create_total", "destroy", "destroy_shelf",
            "destroy_pool", "region_shelf", "region_destroy", "returned"} \subseteq Label
        /\ UsePC \subseteq Label
    BY DEF Label, StartPC, ChangePC, CreatePC, DestroyPC
  <1>1. ASSUME NEW label \in Label, Goto(p, label, NoLocals) PROVE Went(p)
    BY <1>1, <1>c, <1>t, <1>w DEF Keep
  <1>2. ASSUME NEW label \in Label, Goto(p, label, loc[p]) PROVE Went(p)
    BY <1>2, <1>t, <1>w DEF Keep
  <1>3. ASSUME NEW label \in Label, NEW b \in BOOLEAN, Goto(p, label, [loc[p] EXCEPT !.ok = b]) PROVE Went(p)
    <2>1. [loc[p] EXCEPT !.ok = b] \in Locals /\ [loc[p] EXCEPT !.ok = b].call = loc[p].call
      BY <1>t DEF Locals
    <2>2. QED
      BY <1>3, <1>w, <2>1 DEF Keep
  <1>4. ASSUME NEW b \in BOOLEAN, Return(p, b) PROVE Went(p)
    <2> DEFINE l == [NoLocals EXCEPT !.call = loc[p].call, !.ok = b]
    <2>1. l \in Locals /\ l.call = loc[p].call
      BY <1>t DEF Locals
    <2>2. QED
      BY <1>4, <1>b, <1>w, <2>1 DEF Return, Keep
  <1>5. ASSUME NEW c \in {"none", "close", "discard", "exit", "pointer", "alloc", "access", "resize", "perm"},
               NEW label \in Label, Goto(p, label, [loc[p] EXCEPT !.call = c])
        PROVE  Went(p)
    <2>1. [loc[p] EXCEPT !.call = c] \in Locals /\ [loc[p] EXCEPT !.call = c].call = c
      BY <1>t, <1>c DEF Locals
    <2>2. QED
      BY <1>5, <1>c, <1>w, <2>1 DEF Keep
  <1>6. ASSUME NEW c \in {"discard", "exit", "pointer", "alloc", "access"}, AbortIn(p, c) PROVE Went(p)
    BY <1>6, <1>5, <1>b DEF AbortIn
  <1>7. ASSUME Abort(p) PROVE Went(p)
    <2>1. [loc[p] EXCEPT !.call = loc[p].call] \in Locals /\ [loc[p] EXCEPT !.call = loc[p].call].call = loc[p].call
      BY <1>t DEF Locals
    <2>2. QED
      BY <1>7, <1>b, <1>w, <2>1 DEF Abort, AbortIn, Keep
  <1>8. ASSUME NEW c \in Boots \cup {"resize"}, NEW label \in Label, Goto(p, label, [NoLocals EXCEPT !.call = c])
        PROVE  Went(p)
    <2>1. [NoLocals EXCEPT !.call = c] \in Locals /\ [NoLocals EXCEPT !.call = c].call = c
      BY <1>t, <1>c DEF Locals
    <2>2. QED
      BY <1>8, <1>c, <1>w, <2>1 DEF Keep
  <1>9. ASSUME NEW label \in Label, NEW n \in 0 .. MaxData, NEW k \in 0 .. MaxData + 1,
               Goto(p, label, [loc[p] EXCEPT !.k = k, !.n = n])
        PROVE  Went(p)
    <2>1. [loc[p] EXCEPT !.k = k, !.n = n] \in Locals /\ [loc[p] EXCEPT !.k = k, !.n = n].call = loc[p].call
      BY <1>t DEF Locals
    <2>2. QED
      BY <1>9, <1>w, <2>1 DEF Keep
  <1>10. ASSUME NEW label \in Label, NEW n \in 0 .. MaxData, Goto(p, label, [loc[p] EXCEPT !.n = n])
         PROVE  Went(p)
    <2>1. [loc[p] EXCEPT !.n = n] \in Locals /\ [loc[p] EXCEPT !.n = n].call = loc[p].call
      BY <1>t DEF Locals
    <2>2. QED
      BY <1>10, <1>w, <2>1 DEF Keep
  <1>11. ASSUME NEW label \in Label, loc[p].k <= loc[p].n, Goto(p, label, [loc[p] EXCEPT !.k = loc[p].k + 1])
         PROVE  Went(p)
    <2> DEFINE l == [loc[p] EXCEPT !.k = loc[p].k + 1]
    <2>1. l \in Locals /\ l.call = loc[p].call
      BY <1>t, <1>11 DEF Locals
    <2>2. QED
      BY <1>11, <1>w, <2>1 DEF Keep
  <1>12. CASE BootStep(p)
    <2>1. BootGoto(p, "root") \/ BootGoto(p, "epoch") \/ BootGoto(p, "attach") => Went(p)
      BY <1>1, <1>8, <1>b DEF BootGoto, Boots
    <2>2. StartNVMM(p) => BootGoto(p, "root")
      BY DEF StartNVMM
    <2>3. CreateShelf(p) => \/ Goto(p, "boot_init", loc[p])
                            \/ BootGoto(p, "epoch") \/ BootGoto(p, "attach")
      BY DEF CreateShelf, Following
    <2>4. InitRootShelf(p) \/ InitEpochShelf(p) => BootGoto(p, "epoch") \/ BootGoto(p, "attach")
      BY DEF InitRootShelf, InitEpochShelf, Following
    <2>5. Attach(p) => Goto(p, "idle", NoLocals) \/ Goto(p, "down", NoLocals)
      BY DEF Attach
    <2>6. QED
      BY <1>12, <1>1, <1>2, <1>b, <2>1, <2>2, <2>3, <2>4, <2>5 DEF BootStep
  <1>13. CASE CallStep(p)
    <2>1. CASE \E c \in Calls : Ask(p, c)
      <3>1. PICK c \in Calls : Ask(p, c)
        BY <2>1
      <3> DEFINE l == [NoLocals EXCEPT !.call = c]
      <3>2. l \in Locals /\ l.call = c
        BY <1>t DEF Locals, CallName
      <3>3. Goto(p, "spin", l)
        BY <3>1 DEF Ask
      <3>4. QED
        BY <1>b, <1>w, <3>1, <3>2, <3>3 DEF Keep
    <2>2. CASE BeginStep(p)
      <3>1. \E label \in {"create", "destroy", "region_destroy", "unlock"} :
               Goto(p, label, [loc[p] EXCEPT !.ok = (label = "unlock")]) \/ Goto(p, "unlock", loc[p])
        BY <2>2 DEF BeginStep, CreateHeap, DestroyHeap, FindHeap, CreateRegion, DestroyRegion,
           FindRegion, Begin
      <3>2. QED
        BY <1>2, <1>3, <1>b, <3>1
    <2>3. CASE RegionShelf(p) \/ RegionDestroy(p)
      BY <1>2, <1>4, <1>b, <2>3 DEF RegionShelf, RegionDestroy
    <2>4. CASE SetType(p)
      BY <1>3, <1>b, <2>4 DEF SetType
    <2>5. CASE Unlock(p) \/ Find(p)
      BY <1>1, <1>2, <1>b, <2>5 DEF Unlock, Find, Finish
    <2>6. QED
      BY <1>13, <2>1, <2>2, <2>3, <2>4, <2>5 DEF CallStep
  <1>14. CASE UserStep(p)
    <2>1. CASE Open(p)
      <3>1. "open_shelves" \in Label
        BY <1>b DEF UsePC
      <3>2. QED
        BY <1>1, <1>10, <1>b, <1>t, <1>u, <2>1, <3>1 DEF Open, OpenHeader, Finish
    <2>2. CASE Close(p)
      <3>1. "join" \in Label /\ "close" \in Label
        BY <1>b DEF UsePC
      <3>2. UNCHANGED <<at, loc>> \/ \E label \in {"join", "close"} : Goto(p, label, [loc[p] EXCEPT !.call = "close"])
        BY <2>2 DEF Close, CloseBegin
      <3>3. QED
        BY <1>5, <1>u, <3>1, <3>2
    <2>3. CASE Discard(p)
      BY <1>6, <1>u, <2>3 DEF Discard
    <2>4. CASE Use(p)
      <3>1. "resize_read" \in Label /\ "perm_read" \in Label
        BY <1>b DEF UsePC, PermPC
      <3>2. CASE UseResize(p)
        BY <1>5, <3>1, <3>2 DEF UseResize, ResizeBegin
      <3>3. CASE UsePerm(p)
        <4>1. PICK mode \in Perm : Goto(p, "perm_read", [loc[p] EXCEPT !.call = "perm", !.perm = mode])
          BY <3>3 DEF UsePerm, PermBegin
        <4> DEFINE l == [loc[p] EXCEPT !.call = "perm", !.perm = mode]
        <4>2. l \in Locals /\ l.call = "perm"
          BY <1>t, <1>c DEF Locals
        <4>3. QED
          BY <1>c, <1>w, <3>1, <4>1, <4>2 DEF Keep
      <3>4. CASE UseShelves(p)
        BY <1>6, <1>u, <3>4 DEF UseShelves, Merge, Alloc, Free, OffsetToLocal
      <3>5. CASE UseRecover(p) \/ UseTranslate(p)
        BY <1>u, <3>5 DEF UseRecover, OfflineRecover, UseTranslate
      <3>6. QED
        BY <2>4, <3>2, <3>3, <3>4, <3>5, UseCases
    <2>5. QED
      BY <1>14, <2>1, <2>2, <2>3, <2>4 DEF UserStep
  <1>15. CASE HeapStep(p)
    <2>1. CASE CreatePool(p) \/ CreateFails(p) \/ CreateHeader(p) \/ CreateZone(p) \/ WriteTotal(p)
      BY <1>2, <1>4, <1>b, <2>1 DEF CreatePool, CreateFails, CreateHeader, CreateZone, WriteTotal
    <2>2. CASE DestroyBegin(p) \/ DestroyPool(p)
      <3>1. 1 \in 0 .. MaxData + 1
        BY <1>t
      <3>2. QED
        BY <1>4, <1>9, <1>b, <1>t, <2>2, <3>1 DEF DestroyBegin, DestroyPool
    <2>3. CASE DestroyShelf(p)
      <3>1. CASE loc[p].k <= loc[p].n
        BY <1>2, <1>7, <1>11, <1>b, <2>3, <3>1 DEF DestroyShelf
      <3>2. CASE ~(loc[p].k <= loc[p].n)
        BY <1>2, <1>7, <1>b, <2>3, <3>2 DEF DestroyShelf
      <3>3. QED
        BY <3>1, <3>2
    <2>4. CASE OpenAll(p) \/ OpenWait(p)
      <3>1. "open_wait" \in Label
        BY <1>b DEF UsePC
      <3>2. QED
        BY <1>1, <1>2, <1>b, <2>4, <3>1 DEF OpenAll, OpenWait, Finish
    <2>5. CASE Join(p) \/ CloseShelves(p)
      <3>1. "close" \in Label
        BY <1>b DEF UsePC
      <3>2. QED
        BY <1>1, <1>2, <1>7, <1>b, <2>5, <3>1 DEF Join, CloseShelves, Finish
    <2>6. CASE Wake(p) \/ Work(p) \/ SelfClose(p) \/ NoEpochManager(p)
      BY <1>6, <1>u, <2>6 DEF Wake, Work, SelfClose, NoEpochManager
    <2>7. CASE ResizeRead(p)
      <3> DEFINE l == [loc[p] EXCEPT !.n = total, !.perm = perm[0]]
      <3>1. "resize_clean" \in Label
        BY <1>b DEF UsePC
      <3>2. l \in Locals /\ l.call = loc[p].call
        BY <1>t DEF Locals
      <3>3. Goto(p, "resize_clean", l) \/ Goto(p, "idle", NoLocals)
        BY <2>7 DEF ResizeRead, Finish
      <3>4. QED
        BY <1>1, <1>b, <1>w, <3>1, <3>2, <3>3 DEF Keep
    <2>8. CASE ResizeClean(p) \/ ResizeAdd(p) \/ ResizeFails(p) \/ ResizeCount(p) \/ ResizeDone(p) \/ Refresh(p)
      <3>1. {"resize_add", "resize_count", "resize_done", "refresh"} \subseteq Label
        BY <1>b DEF UsePC
      <3>2. QED
        BY <1>1, <1>2, <1>8, <1>b, <2>8, <3>1 DEF ResizeClean, ResizeAdd, ResizeFails, ResizeCount,
           ResizeDone, Refresh, Finish
    <2>9. CASE PermRead(p) \/ PermFails(p) \/ PermDone(p)
      <3>1. "perm_shelf" \in Label /\ 1 \in 0 .. MaxData + 1
        BY <1>b, <1>t DEF UsePC, PermPC
      <3>2. QED
        BY <1>1, <1>9, <1>b, <1>t, <2>9, <3>1 DEF PermRead, PermFails, PermDone, Finish
    <2>10. CASE PermShelf(p)
      <3>1. "perm_shelf" \in Label /\ "perm_done" \in Label
        BY <1>b DEF UsePC, PermPC
      <3>2. CASE loc[p].k <= loc[p].n
        BY <1>2, <1>7, <1>11, <1>b, <2>10, <3>1, <3>2 DEF PermShelf
      <3>3. CASE ~(loc[p].k <= loc[p].n)
        BY <1>2, <1>7, <1>b, <2>10, <3>1, <3>3 DEF PermShelf
      <3>4. QED
        BY <3>2, <3>3
    <2>11. QED
      BY <1>15, <2>1, <2>2, <2>3, <2>4, <2>5, <2>6, <2>7, <2>8, <2>9, <2>10 DEF HeapStep
  <1>16. CASE Die(p)
    BY <1>1, <1>b, <1>16 DEF Die
  <1>17. QED
    BY <1>12, <1>13, <1>14, <1>15, <1>16 DEF Acts

\* What threads do is typed, and a call that destroys is asked for.
LEMMA Calling ==
  ASSUME IInv, NEW p \in Proc, Acts(p)
  PROVE  /\ at' \in [Proc -> Label] /\ loc' \in [Proc -> Locals]
         /\ \/ loc'[p].call = loc[p].call \/ loc'[p].call \notin Calls
            \/ \E c \in Calls : Ask(p, c) /\ loc'[p].call = c
  <1>1. at \in [Proc -> Label] /\ loc \in [Proc -> Locals]
    BY Types DEF IInv, Label
  <1>2. QED
    BY <1>1, Goes DEF Went, Goto, Keep

\* What a thread is doing is what it was called for.
LEMMA NextCalled == ASSUME IInv, NEW p \in Proc, Acts(p), NEW q \in Proc PROVE Called(q)'
  <1>t. Typed /\ Called(p) /\ Called(q) /\ Cleaning(p) /\ loc[p] \in Locals /\ NoLocals \in Locals
    BY Types, Empty DEF IInv, Local
  <1>1. CASE q # p
    <2>1. Still(q)
      BY <1>t, <1>1, OthersStill
    <2>2. QED
      BY <1>t, <2>1 DEF Called, Still
  <1>2. CASE q = p
    <2> SUFFICES Called(p)'
      BY <1>2
    <2> USE DEF NewPC, FindCalls, DestroyCalls
    <2>g. ASSUME NEW label, NEW l, Goto(p, label, l) PROVE at'[p] = label /\ loc'[p] = l
      BY <1>t, <2>g, GotoEffect
    <2>r. ASSUME NEW b \in BOOLEAN, Return(p, b) PROVE at'[p] = "returned" /\ loc'[p].call = loc[p].call
      BY <1>t, <2>r, <2>g DEF Return, Locals
    <2>k. loc'[p].call \in FindCalls => h'[p].kind = "none"
      <3>1. CASE loc[p].call \in FindCalls
        <4>1. h'[p].kind = "none" \/ Find(p)
          BY <1>t, <3>1, Views, Empty DEF SeesTyped, Called
        <4>2. Find(p) => loc'[p] = NoLocals
          BY <2>g DEF Find, Finish
        <4>3. QED
          BY <4>1, <4>2, Empty
      <3>2. CASE \E c \in Calls : Ask(p, c) /\ loc'[p].call = c
        <4>1. PICK c \in Calls : Ask(p, c) /\ loc'[p].call = c
          BY <3>2
        <4>2. h'[p] = h[p] /\ (c \in FindCalls => h[p].kind = "none")
          BY <4>1 DEF Ask, views
        <4>3. QED
          BY <4>1, <4>2
      <3>3. QED
        BY <3>1, <3>2, Calling DEF Calls
    <2>1. CASE Boots1(p) \/ ToWrite(p) \/ Die(p)
      BY <2>1, <2>k, Arrive, BootEffect, DieEffect DEF Boots1, ToWrite, Called, EarlyPC, StartPC
    <2>2. CASE Cleans(p)
      BY <1>t, <2>2, <2>k DEF Cleans, Stays, Called
    <2>3. CASE ToOpen(p)
      <3>1. at'[p] \in {"join", "close"} => loc'[p].call = "close"
        <4>1. Close(p) /\ at'[p] # "idle" => loc'[p] = [loc[p] EXCEPT !.call = "close"]
          BY <2>g DEF Close, CloseBegin
        <4>2. Join(p) => loc'[p] = loc[p] /\ at[p] = "join"
          BY <2>g DEF Join
        <4>3. [loc[p] EXCEPT !.call = "close"].call = "close"
          BY <1>t DEF Locals
        <4>4. QED
          BY <1>t, <2>3, <4>1, <4>2, <4>3 DEF ToOpen, Called
      <3>2. QED
        BY <2>3, <2>k, <3>1 DEF ToOpen, Called
    <2>4. CASE ToDestroy(p)
      <3>1. CASE DestroyBegin(p)
        <4>1. /\ [loc[p] EXCEPT !.k = 1, !.n = total].call = loc[p].call
              /\ at[p] = "destroy"
          BY <1>t, <3>1 DEF Locals, DestroyBegin
        <4>2. at'[p] \in {"destroy_shelf", "returned"} /\ loc'[p].call = loc[p].call
          BY <2>g, <2>r, <3>1, <4>1 DEF DestroyBegin
        <4>3. QED
          BY <1>t, <2>k, <4>1, <4>2 DEF Called
      <3>2. CASE DestroyShelf(p)
        <4>1. \A k : [loc[p] EXCEPT !.k = k].call = loc[p].call
          BY <1>t DEF Locals
        <4>2. at[p] = "destroy_shelf" /\ (at'[p] = "abort" \/ loc'[p].call = loc[p].call)
          BY <2>g, <3>2, <4>1 DEF DestroyShelf, Abort, AbortIn
        <4>3. at'[p] \in {"destroy_shelf", "destroy_pool", "abort"}
          BY <2>g, <3>2 DEF DestroyShelf, Abort, AbortIn
        <4>4. QED
          BY <1>t, <2>k, <4>2, <4>3 DEF Called
      <3>3. CASE RegionDestroy(p)
        <4>1. at[p] = "region_destroy" /\ at'[p] \in {"destroy_pool", "returned"} /\ loc'[p].call = loc[p].call
          BY <2>g, <2>r, <3>3 DEF RegionDestroy
        <4>2. QED
          BY <1>t, <2>k, <4>1 DEF Called
      <3>4. CASE DestroyPool(p)
        <4>1. at[p] = "destroy_pool" /\ at'[p] = "returned" /\ loc'[p].call = loc[p].call
          BY <2>r, <3>4 DEF DestroyPool
        <4>2. QED
          BY <1>t, <2>k, <4>1 DEF Called
      <3>5. QED
        BY <2>4, <3>1, <3>2, <3>3, <3>4 DEF ToDestroy
    <2>5. CASE ToCreate(p)
      <3>1. loc'[p].call = loc[p].call
        BY <2>5, <2>g, <2>r DEF ToCreate, CreatePool, CreateFails, CreateHeader, CreateZone, WriteTotal, RegionShelf
      <3>2. loc[p].call \in {"createheap", "createregion"} /\ (at[p] = "region_shelf" <=> loc[p].call = "createregion" /\ at[p] # "create")
        BY <1>t, <2>5 DEF ToCreate, CreatePool, CreateFails, CreateHeader, CreateZone, WriteTotal, RegionShelf, Called
      <3>3. /\ at'[p] \in {"returned", "create_header", "region_shelf", "create_zone", "create_total"}
            /\ at'[p] \in {"create_header", "create_zone", "create_total"} => loc[p].call = "createheap"
            /\ at'[p] = "region_shelf" => loc[p].call = "createregion"
        <4>1. CreatePool(p) => \/ at'[p] = "returned"
                               \/ at'[p] = IF loc[p].call = "createregion" THEN "region_shelf" ELSE "create_header"
          BY <2>g, <2>r DEF CreatePool
        <4>2. CreateHeader(p) \/ CreateZone(p) => at[p] \in {"create_header", "create_zone"}
          BY DEF CreateHeader, CreateZone
        <4>3. QED
          BY <2>5, <3>2, <4>1, <4>2 DEF ToCreate
      <3>4. QED
        BY <2>k, <3>1, <3>2, <3>3 DEF Called
    <2>6. CASE ToCall(p)
      <3>e. \A b : [loc[p] EXCEPT !.ok = b].call = loc[p].call /\ [loc[p] EXCEPT !.ok = b].ok = b
        BY <1>t DEF Locals
      <3>1. CASE \E c \in Calls : Ask(p, c)
        <4>1. PICK c \in Calls : Ask(p, c)
          BY <3>1
        <4>2. at'[p] = "spin" /\ loc'[p] = [NoLocals EXCEPT !.call = c]
          BY <2>g, <4>1 DEF Ask
        <4>3. [NoLocals EXCEPT !.call = c].call = c /\ ~[NoLocals EXCEPT !.call = c].ok
          BY <1>t, Empty DEF Locals
        <4>4. QED
          BY <2>k, <4>2, <4>3 DEF Called
      <3>2. CASE BeginStep(p)
        <4>1. ASSUME NEW c \in Calls, NEW wanted, NEW label, Begin(p, c, wanted, label)
              PROVE  /\ at[p] = "spin" /\ loc'[p].call = c
                     /\ \/ at'[p] = label /\ loc'[p].ok = (label = "unlock")
                        \/ at'[p] = "unlock" /\ ~loc'[p].ok
          <5>1. at[p] = "spin" /\ loc[p].call = c
            BY <4>1 DEF Begin
          <5>2. ~loc[p].ok
            BY <1>t, <5>1 DEF Called
          <5>3. \/ at'[p] = label /\ loc'[p] = [loc[p] EXCEPT !.ok = (label = "unlock")]
                \/ at'[p] = "unlock" /\ loc'[p] = loc[p]
            BY <2>g, <4>1 DEF Begin
          <5>4. QED
            BY <3>e, <5>1, <5>2, <5>3
        <4>2. {"createheap", "destroyheap", "findheap", "createregion", "destroyregion", "findregion"} = Calls
          BY DEF Calls
        <4>3. CASE CreateHeap(p) \/ CreateRegion(p)
          BY <2>k, <4>1, <4>2, <4>3 DEF CreateHeap, CreateRegion, Called
        <4>4. CASE DestroyHeap(p)
          BY <2>k, <4>1, <4>2, <4>4 DEF DestroyHeap, Called
        <4>5. CASE DestroyRegion(p)
          BY <2>k, <4>1, <4>2, <4>5 DEF DestroyRegion, Called
        <4>6. CASE FindHeap(p) \/ FindRegion(p)
          BY <2>k, <4>1, <4>2, <4>6 DEF FindHeap, FindRegion, Called
        <4>7. QED
          BY <3>2, <4>3, <4>4, <4>5, <4>6 DEF BeginStep
      <3>3. CASE SetType(p)
        BY <2>g, <2>k, <3>3, <3>e DEF SetType, Called
      <3>4. CASE Unlock(p)
        <4>1. at[p] = "unlock" /\ (at'[p] = "idle" \/ (at'[p] = "find" /\ loc'[p] = loc[p] /\ loc[p].ok))
          BY <2>g, <3>4 DEF Unlock, Finish
        <4>2. QED
          BY <1>t, <2>k, <4>1 DEF Called
      <3>5. CASE Find(p)
        BY <2>g, <2>k, <3>5 DEF Find, Finish, Called
      <3>6. QED
        BY <2>6, <3>1, <3>2, <3>3, <3>4, <3>5 DEF ToCall
    <2>7. QED
      BY <1>2, <2>1, <2>2, <2>3, <2>4, <2>5, <2>6, Arrive DEF Moves
  <1>3. QED
    BY <1>1, <1>2

-----------------------------------------------------------------------------
(* What all processes share. *)

\* Only SetType changes the type.
LEMMA TypeStays == ASSUME IInv, NEW p \in Proc, Acts(p), ~SetType(p) PROVE type' = type
  <1> USE DEF mm
  <1>t. Booting
    BY DEF IInv
  <1>1. CASE BootStep(p)
    BY <1>1, <1>t DEF BootStep, StartNVMM, CreateShelf, InitRootShelf, InitEpochShelf, Attach, Booting, Booted
  <1>2. CASE CallStep(p)
    BY <1>2 DEF CallStep, BeginStep, CreateHeap, DestroyHeap, FindHeap, CreateRegion, DestroyRegion,
       FindRegion, Begin, Ask, RegionShelf, RegionDestroy, Unlock, Find
  <1>3. CASE UserStep(p)
    BY <1>3 DEF UserStep, Open, Close, Discard, Use
  <1>4. QED
    BY <1>1, <1>2, <1>3 DEF Acts, Die

\* Who resizes or changes permissions uses a heap, who creates has the pool to himself.
LEMMA Workers ==
  ASSUME IInv, NEW p \in Proc
  PROVE  /\ Resizes(p) \/ PermShelf(p) => Using(p) /\ at[p] \in WritePC
         /\ Creates(p) => at[p] \in NewPC \cup {"create"}
         /\ Destroys(p) => at[p] \in DestroyPC \cup {"region_destroy"}
         /\ Resizes(p) \/ PermShelf(p) \/ Creates(p) \/ Destroys(p) => ~SetType(p)
  <1> USE DEF Resizes, Creates, Destroys
  <1>1. Resizes(p) \/ PermShelf(p) => at[p] \in WritePC
    BY DEF ResizeClean, ResizeAdd, ResizeCount, PermShelf, WritePC, ResizePC, PermPC
  <1>2. Creates(p) => at[p] \in NewPC \cup {"create"}
    BY DEF CreatePool, CreateHeader, CreateZone, WriteTotal, RegionShelf, NewPC
  <1>3. Destroys(p) => at[p] \in DestroyPC \cup {"region_destroy"}
    BY DEF DestroyBegin, DestroyShelf, DestroyPool, RegionDestroy, DestroyPC
  <1>4. SetType(p) => at[p] = "returned"
    BY DEF SetType
  <1>5. QED
    BY <1>1, <1>2, <1>3, <1>4, Users DEF HeaderPC, WritePC, ResizePC, PermPC, NewPC, DestroyPC

\* The shared state is typed, files are of the pool that is there, and until it is
\* destroyed it only grows.
SharedTyped ==
  /\ pool \in BOOLEAN /\ file \in [Shelf -> Life \cup {None}] /\ perm \in [Shelf -> Perm]
  /\ total \in 0 .. MaxData /\ op \in {"none", "resize", "perm"}
  /\ dying \subseteq Life /\ lives \in 0 .. MaxLives /\ type \in {"none", "heap", "region"}
Grows == /\ dying \subseteq dying'
         /\ \/ lives' = lives /\ (pool' => pool /\ total' >= total)
            \/ lives' = lives + 1 /\ ~pool

LEMMA NextPresent ==
  ASSUME IInv, NEW p \in Proc, Acts(p) PROVE SharedTyped' /\ Present' /\ Grows
  <1> USE DEF SharedTyped, Present, Grows, None, Life
  <1>t. /\ Typed /\ SharedTyped /\ Present /\ total \in Nat /\ lives \in Nat /\ MaxData \in Nat /\ MaxLives \in Nat
        /\ loc[p] \in Locals /\ 0 \in Shelf /\ 1 \in Shelf /\ 1 <= MaxData
    BY Types, Constants DEF IInv
  <1>a. ASSUME pool, NEW s, NEW mode \in Perm, AddShelf(s, mode), UNCHANGED <<pool, lives>>
        PROVE  /\ file' \in [Shelf -> Life \cup {None}] /\ perm' \in [Shelf -> Perm]
               /\ \A t \in Shelf : file'[t] # None => pool' /\ file'[t] = lives'
    <2>1. lives \in Life
      BY <1>a, <1>t
    <2>2. QED
      BY <1>a, <1>t, <2>1 DEF AddShelf
  <1>r. ASSUME NEW s, RemoveShelf(s), UNCHANGED <<pool, lives>>
        PROVE  /\ file' \in [Shelf -> Life \cup {None}] /\ perm' \in [Shelf -> Perm]
               /\ \A t \in Shelf : file'[t] # None => pool' /\ file'[t] = lives'
    BY <1>r, <1>t DEF RemoveShelf, Perm
  <1>c. ASSUME RemoveShelves
        PROVE  /\ file' \in [Shelf -> Life \cup {None}] /\ perm' \in [Shelf -> Perm]
               /\ \A t \in Shelf : file'[t] = None
    BY <1>c, <1>t DEF RemoveShelves, Perm
  <1>1. CASE Quiet
    BY <1>1, <1>t DEF Quiet
  <1>2. CASE SetsOp(p)
    <2>1. UNCHANGED <<pool, file, perm, total, dying, lives, type>>
      BY <1>2 DEF SetsOp
    <2>2. op' \in {"none", "resize", "perm"}
      BY <1>2 DEF SetsOp
    <2>3. QED
      BY <1>t, <2>1, <2>2
  <1>w. ASSUME Using(p) PROVE pool
    BY <1>w, UsingFacts
  <1>3. CASE Resizes(p)
    <2>1. pool /\ type' = type /\ Resizing(p)
      BY <1>3, <1>w, Workers, TypeStays DEF IInv, Local
    <2>2. CASE ResizeClean(p)
      BY <1>t, <1>r, <2>1, <2>2 DEF ResizeClean, header, history
    <2>3. CASE ResizeAdd(p)
      <3>1. loc[p].perm \in Perm
        BY <1>t DEF Locals
      <3>2. AddShelf(loc[p].n + 1, loc[p].perm) /\ UNCHANGED <<pool, total, op, dying, lives>>
        BY <2>3 DEF ResizeAdd, header, history
      <3>3. QED
        BY <1>t, <1>a, <2>1, <3>1, <3>2
    <2>4. CASE ResizeCount(p)
      <3>1. total' = total + 1 /\ total < MaxData /\ UNCHANGED <<pool, file, perm, op, dying, lives>>
        BY <2>1, <2>4 DEF ResizeCount, Resizing, history
      <3>2. QED
        BY <1>t, <2>1, <3>1
    <2>5. QED
      BY <1>3, <2>2, <2>3, <2>4 DEF Resizes
  <1>4. CASE PermShelf(p)
    <2>1. pool /\ type' = type /\ loc[p].perm \in Perm
      BY <1>4, <1>t, <1>w, Workers, TypeStays DEF Locals
    <2>2. UNCHANGED <<pool, file, total, op, dying, lives>> /\ perm' \in [Shelf -> Perm]
      BY <1>4, <1>t, <2>1 DEF PermShelf, header, history
    <2>3. QED
      BY <1>t, <2>1, <2>2
  <1>5. CASE Creates(p)
    <2>1. type' = type /\ Creating(p) /\ 1 \in Perm
      BY <1>5, Workers, TypeStays DEF IInv, Local, Perm
    <2>2. CASE CreatePool(p)
      <3>1. UNCHANGED <<file, perm, total, op, dying>>
        BY <2>2 DEF CreatePool, header
      <3>2. UNCHANGED <<pool, lives>> \/ (~pool /\ pool' = TRUE /\ lives < MaxLives /\ lives' = lives + 1)
        BY <2>2 DEF CreatePool
      <3>3. CASE UNCHANGED <<pool, lives>>
        BY <1>t, <2>1, <3>1, <3>3
      <3>4. CASE ~pool /\ pool' = TRUE /\ lives < MaxLives /\ lives' = lives + 1
        <4>1. \A s \in Shelf : file'[s] = None
          BY <1>t, <3>1, <3>4
        <4>2. lives' \in 0 .. MaxLives /\ lives' > 0 /\ lives' >= lives
          BY <1>t, <3>4
        <4>3. \A d \in dying' : d <= lives'
          BY <1>t, <3>1, <4>2
        <4>4. Present'
          BY <1>t, <3>1, <3>4, <4>1, <4>2, <4>3
        <4>5. Grows
          BY <3>1, <3>4
        <4>6. SharedTyped'
          BY <1>t, <2>1, <3>1, <3>4, <4>2
        <4>7. QED
          BY <4>4, <4>5, <4>6
      <3>5. QED
        BY <3>2, <3>3, <3>4
    <2>3. CASE ~CreatePool(p)
      <3>1. pool /\ total = 0 /\ UNCHANGED <<pool, dying, lives>>
        BY <1>5, <2>1, <2>3, Workers DEF Creates, Creating, Unknown, NewPC, CreateHeader, CreateZone,
           WriteTotal, RegionShelf, header, history
      <3>2. CASE CreateHeader(p) \/ CreateZone(p) \/ RegionShelf(p)
        <4>1. AddShelf(0, 1) \/ AddShelf(1, 1)
          BY <3>2 DEF CreateHeader, CreateZone, RegionShelf
        <4>2. total' = 0 /\ op' \in {"none", op}
          BY <3>1, <3>2 DEF CreateHeader, CreateZone, RegionShelf, header
        <4>3. QED
          BY <1>t, <1>a, <2>1, <3>1, <4>1, <4>2
      <3>3. CASE WriteTotal(p)
        BY <1>t, <2>1, <3>1, <3>3 DEF WriteTotal
      <3>4. QED
        BY <1>5, <2>3, <3>2, <3>3 DEF Creates
    <2>4. QED
      BY <2>2, <2>3
  <1>6. CASE Destroys(p)
    <2>1. type' = type
      BY <1>6, Workers, TypeStays
    <2>2. CASE DestroyBegin(p)
      <3>1. UNCHANGED <<pool, file, perm, total, op, lives>>
        BY <2>2 DEF DestroyBegin, history
      <3>2. dying' = dying \/ (dying' = dying \cup {file[0]} /\ pool /\ file[0] # None)
        BY <2>2 DEF DestroyBegin
      <3>3. dying' \subseteq Life /\ dying \subseteq dying' /\ \A d \in dying' : d <= lives'
        <4>1. CASE dying' = dying
          BY <1>t, <3>1, <4>1
        <4>2. CASE dying' = dying \cup {file[0]} /\ pool /\ file[0] # None
          <5>1. file[0] = lives /\ file[0] \in Life
            BY <1>t, <4>2
          <5>2. QED
            BY <1>t, <3>1, <4>2, <5>1
        <4>3. QED
          BY <3>2, <4>1, <4>2
      <3>4. QED
        BY <1>t, <2>1, <3>1, <3>3
    <2>3. CASE DestroyShelf(p)
      <3>1. UNCHANGED <<pool, total, op, dying, lives>>
        BY <2>3 DEF DestroyShelf, header, history
      <3>2. UNCHANGED <<file, perm>> \/ \E k : RemoveShelf(k)
        BY <2>3 DEF DestroyShelf
      <3>3. QED
        BY <1>t, <1>r, <2>1, <3>1, <3>2
    <2>4. CASE DestroyPool(p)
      <3>1. pool' = FALSE /\ RemoveShelves /\ total' = 0 /\ op' = "none" /\ UNCHANGED <<dying, lives>>
        BY <2>4 DEF DestroyPool, history
      <3>2. /\ file' \in [Shelf -> Life \cup {None}] /\ perm' \in [Shelf -> Perm]
            /\ \A t \in Shelf : file'[t] = None
        BY <1>c, <3>1
      <3>3. SharedTyped'
        <4>1. pool' \in BOOLEAN
          BY <3>1
        <4>2. op' \in {"none", "resize", "perm"}
          BY <3>1
        <4>3. total' \in 0 .. MaxData
          <5>1. total' = 0
            BY <3>1
          <5>2. QED
            BY <1>t, <5>1
        <4>4. QED
          BY <1>t, <2>1, <3>1, <3>2, <4>1, <4>2, <4>3
      <3>4. Present'
        <4>1. ~pool' /\ total' = 0 /\ \A t \in Shelf : file'[t] = None
          BY <3>1, <3>2
        <4>2. \A d \in dying' : d <= lives'
          BY <1>t, <3>1
        <4>3. QED
          BY <4>1, <4>2
      <3>5. Grows
        BY <3>1
      <3>6. QED
        BY <3>3, <3>4, <3>5
    <2>5. CASE RegionDestroy(p)
      <3>1. UNCHANGED <<pool, total, op, dying, lives>> /\ (RemoveShelves \/ UNCHANGED <<file, perm>>)
        BY <2>5 DEF RegionDestroy, header, history
      <3>2. CASE RemoveShelves
        <4>1. /\ file' \in [Shelf -> Life \cup {None}] /\ perm' \in [Shelf -> Perm]
              /\ \A t \in Shelf : file'[t] = None
          BY <1>c, <3>2
        <4>2. QED
          BY <1>t, <2>1, <3>1, <4>1
      <3>3. QED
        BY <1>t, <2>1, <3>1, <3>2
    <2>6. QED
      BY <1>6, <2>2, <2>3, <2>4, <2>5 DEF Destroys
  <1>7. CASE SetType(p)
    <2>1. UNCHANGED <<pool, file, perm, total, op, dying, lives>> /\ type' \in {type, "none", "heap", "region"}
      BY <1>7 DEF SetType, fam, header, history
    <2>2. QED
      BY <1>t, <2>1
  <1>8. QED
    BY <1>1, <1>2, <1>3, <1>4, <1>5, <1>6, <1>7, SharedEffect DEF SharedMove

\* What is mapped is of a pool that was, and of the pool that is only what is counted.
LEMMA NextPast == ASSUME IInv, NEW p \in Proc, Acts(p), NEW q \in Proc PROVE Past(q)'
  <1>t. /\ Typed /\ Past(q) /\ Grows /\ Present /\ lives \in Nat /\ total \in Nat
        /\ lives' \in Nat /\ total' \in Nat /\ Present'
    BY NextPresent, Types DEF IInv, Local, SharedTyped
  <1>f. \A s \in Shelf : file[s] \in Nat /\ file[s] <= lives
    BY <1>t, Types, Constants DEF Present, Life, None
  <1>d. \A s \in Data : s \in Shelf /\ s \in Nat
    BY DEF Data, Shelf
  <1>m. h[q].hdr \in Nat /\ \A s \in Data : rmb[q][s] \in Nat /\ map[q][s] \in Int
    BY <1>t, Types, Constants DEF Handle, Life, None
  <1>g. ASSUME NEW x \in Int, x <= lives PROVE x <= lives' /\ (pool' /\ x = lives' => pool /\ x = lives /\ total' >= total)
    BY <1>g, <1>t DEF Grows
  <1>1. CASE q # p
    <2>1. Still(q)
      BY <1>t, <1>1, OthersStill
    <2>2. h'[q].hdr <= lives'
      BY <1>m, <1>g, <1>t, <2>1 DEF Still, Past
    <2>3. \A s \in Data : /\ rmb'[q][s] <= lives' /\ map'[q][s] <= lives'
                          /\ pool' /\ (rmb'[q][s] = lives' \/ map'[q][s] = lives') => s <= total'
      BY <1>d, <1>m, <1>g, <1>t, <2>1 DEF Still, Past
    <2>4. QED
      BY <2>2, <2>3 DEF Past
  <1>2. CASE q = p
    <2>1. Maps(p) /\ h'[p].hdr \in {h[p].hdr, None, file[0]}
      BY Views DEF SeesTyped
    <2>2. h'[p].hdr <= lives'
      <3>1. h[p].hdr <= lives /\ file[0] <= lives /\ None <= lives /\ file[0] \in Int /\ None \in Int
        BY <1>2, <1>t, <1>f, Constants DEF Past, None
      <3>2. QED
        BY <1>2, <1>m, <1>g, <2>1, <3>1
    <2>3. ASSUME NEW s \in Data
          PROVE  map'[p][s] <= lives' /\ (pool' /\ map'[p][s] = lives' => s <= total')
      <3>1. map'[p][s] \in Int
        BY <2>1, Constants DEF Maps
      <3>2. CASE map'[p][s] = map[p][s]
        BY <1>2, <1>d, <1>m, <1>g, <1>t, <3>2 DEF Past
      <3>3. CASE map'[p][s] <= 0
        BY <1>t, <3>1, <3>3 DEF Present
      <3>4. CASE s <= total /\ map'[p][s] = file[s]
        BY <1>d, <1>f, <1>g, <1>t, <3>4
      <3>5. QED
        BY <2>1, <3>2, <3>3, <3>4 DEF Maps
    <2>4. ASSUME NEW s \in Data
          PROVE  rmb'[p][s] <= lives' /\ (pool' /\ rmb'[p][s] = lives' => s <= total')
      <3>1. CASE rmb'[p][s] = rmb[p][s]
        BY <1>2, <1>d, <1>m, <1>g, <1>t, <3>1 DEF Past
      <3>2. CASE rmb'[p][s] = 0
        BY <1>t, <3>2 DEF Present
      <3>3. QED
        BY <2>1, <2>3, <3>1, <3>2 DEF Maps
    <2>5. QED
      BY <1>2, <2>2, <2>3, <2>4 DEF Past
  <1>3. QED
    BY <1>1, <1>2

-----------------------------------------------------------------------------
(* Create and Destroy. *)

\* Nobody opens a pool that has no type.
LEMMA StaysUnknown ==
  ASSUME IInv, NEW p \in Proc, Acts(p), Unknown, UNCHANGED <<type, pool, lives, dying>>
  PROVE  Unknown'
  <1>t. Typed /\ Present
    BY DEF IInv
  <1>1. lives # None
    BY <1>t DEF Unknown, Present, None
  <1>2. h'[p].hdr # lives
    BY <1>1, Views DEF SeesTyped, Unknown
  <1>3. \A q \in Proc : h'[q].hdr # lives
    BY <1>t, <1>2, OthersStill DEF Unknown, Still
  <1>4. QED
    BY <1>3 DEF Unknown

\* While one process changes the id, what the others do leaves all but op_in_progress alone.
LEMMA OthersWait ==
  ASSUME IInv, NEW p \in Proc, Acts(p), NEW q \in Proc \ {p}, at[q] \in ChangePC
  PROVE  \/ Quiet \/ SetsOp(p)
         \/ (Resizes(p) \/ PermShelf(p)) /\ Using(p)
  <1>1. at[p] \notin ChangePC
    BY OneChanger DEF IInv
  <1>2. ~Creates(p) /\ ~Destroys(p) /\ ~SetType(p)
    BY <1>1, Workers DEF ChangePC, CreatePC, DestroyPC, NewPC, SetType
  <1>3. QED
    BY <1>2, SharedEffect, Workers DEF SharedMove

\* The steps of the cleaner are quiet.
LEMMA CleansQuiet == ASSUME IInv, NEW p \in Proc, Acts(p), Cleans(p) PROVE Quiet
  <1>1. UNCHANGED <<fam, history>>
    BY DEF Cleans, Wake, Work, SelfClose, history
  <1>2. type' = type
    <2>1. CASE SetType(p)
      <3>1. at[p] = "returned" /\ at'[p] = "unlock"
        BY <2>1, GotoEffect DEF SetType, IInv
      <3>2. QED
        BY <3>1 DEF Cleans, Stays
    <2>2. QED
      BY <2>1, TypeStays
  <1>3. QED
    BY <1>1, <1>2 DEF Quiet, fam, header, history

\* The pool that is created is empty, and unknown until SetType.
LEMMA NextCreating == ASSUME IInv, NEW p \in Proc, Acts(p), NEW q \in Proc PROVE Creating(q)'
  <1> DEFINE Active == at[q] \in {"create", "returned"} \cup NewPC
  <1>t. /\ Typed /\ Present /\ Creating(q) /\ Called(q) /\ loc[q] \in Locals /\ NoLocals \in Locals
        /\ lives \in Nat /\ 0 \in Shelf /\ 1 \in Shelf /\ 1 \in Data /\ file \in [Shelf -> Life \cup {None}]
        /\ perm \in [Shelf -> Perm]
        /\ \A s \in Data : s \in Shelf /\ s # 0
    BY Types, Empty, Constants DEF IInv, Local, Data, Shelf
  <1>q. ASSUME UNCHANGED <<type, pool, lives, dying, file, perm, total>>, at'[q] = at[q], loc'[q] = loc[q]
        PROVE  Creating(q)'
    <2>1. Unknown => Unknown'
      BY <1>q, StaysUnknown
    <2>2. QED
      BY <1>q, <1>t, <2>1 DEF Creating
  <1>1. CASE q # p
    <2>1. at'[q] = at[q] /\ loc'[q] = loc[q]
      BY <1>t, <1>1, OthersStill DEF Still
    <2>2. CASE at[q] \notin {"create", "returned"} \cup NewPC
      BY <2>1, <2>2 DEF Creating, NewPC
    <2>3. CASE at[q] \in {"create", "returned"} \cup NewPC
      <3>1. at[q] \in ChangePC
        BY <2>3 DEF ChangePC, CreatePC, NewPC
      <3>2. CASE Quiet \/ SetsOp(p)
        BY <1>q, <2>1, <3>2 DEF Quiet, SetsOp
      <3>3. CASE (Resizes(p) \/ PermShelf(p)) /\ Using(p)
        <4>1. at[q] = "returned" /\ ~loc[q].ok
          BY <1>t, <2>3, <3>3, UsingFacts DEF Creating, DestroyCalls
        <4>2. QED
          BY <2>1, <4>1 DEF Creating, NewPC
      <3>4. QED
        BY <1>1, <3>1, <3>2, <3>3, OthersWait
    <2>4. QED
      BY <2>2, <2>3
  <1>2. CASE q = p
    <2> SUFFICES Creating(p)'
      BY <1>2
    <2> USE DEF NewPC, DestroyCalls
    <2>g. ASSUME NEW label, NEW l, Goto(p, label, l) PROVE at'[p] = label /\ loc'[p] = l
      BY <1>t, <2>g, GotoEffect
    <2>r. ASSUME NEW b \in BOOLEAN, Return(p, b)
          PROVE  at'[p] = "returned" /\ loc'[p].call = loc[p].call /\ loc'[p].ok = b
      <3>1. at'[p] = "returned" /\ loc'[p] = [NoLocals EXCEPT !.call = loc[p].call, !.ok = b]
        BY <2>r, <2>g DEF Return
      <3>2. QED
        BY <1>t, <3>1 DEF Locals
    <2>f. Return(p, FALSE) => Creating(p)'
      BY <2>r DEF Creating
    <2>1. CASE Boots1(p) \/ ToWrite(p) \/ ToOpen(p) \/ Die(p)
      BY <2>1, Arrive, BootEffect, DieEffect DEF Boots1, ToWrite, ToOpen, Creating, EarlyPC, StartPC
    <2>2. CASE Cleans(p)
      BY <1>2, <1>q, <2>2, CleansQuiet DEF Cleans, Stays, Quiet
    <2>3. CASE ToCall(p)
      <3>1. at'[p] = "create" => type = "none" /\ type' = type
        <4>1. at'[p] = "create" => BeginStep(p)
          BY <2>3 DEF ToCall
        <4>2. BeginStep(p) /\ at'[p] = "create" => type = "none" /\ type' = type
          BY <2>g DEF BeginStep, CreateHeap, DestroyHeap, FindHeap, CreateRegion, DestroyRegion,
             FindRegion, Begin, mm
        <4>3. QED
          BY <4>1, <4>2
      <3>2. at'[p] \in {"spin", "unlock", "create", "destroy", "region_destroy", "find", "idle"}
        BY <2>3 DEF ToCall
      <3>3. QED
        BY <3>1, <3>2 DEF Creating
    <2>4. CASE CreatePool(p)
      <3>1. type = "none" /\ type' = type
        BY <1>2, <1>t, <2>4, Workers, TypeStays DEF Creating, CreatePool, Creates
      <3>2. CASE pool
        BY <2>4, <2>f, <3>2 DEF CreatePool
      <3>3. CASE ~pool
        <4>1. /\ pool' = TRUE /\ lives' = lives + 1 /\ UNCHANGED <<file, perm, total, op, dying, h>>
              /\ at'[p] \in {"create_header", "region_shelf"}
          BY <2>4, <2>g, <3>3 DEF CreatePool, header, views
        <4>2. total = 0 /\ \A s \in Shelf : file[s] = None
          BY <1>t, <3>3 DEF Present
        <4>3. lives + 1 \notin dying
          BY <1>t DEF Present
        <4>4. \A r \in Proc : h[r].hdr # lives + 1
          <5>1. \A r \in Proc : h[r].hdr <= lives /\ h[r].hdr \in Int
            BY <1>t, Types, Constants DEF IInv, Local, Past, Handle, Life, None
          <5>2. QED
            BY <1>t, <5>1
        <4>5. Unknown'
          BY <3>1, <4>1, <4>3, <4>4 DEF Unknown
        <4>6. QED
          BY <4>1, <4>2, <4>5 DEF Creating
      <3>4. QED
        BY <3>2, <3>3
    <2>5. CASE CreateFails(p)
      BY <2>5, <2>f DEF CreateFails
    <2>6. CASE CreateHeader(p) \/ CreateZone(p) \/ WriteTotal(p) \/ RegionShelf(p)
      <3>1. /\ Unknown /\ total = 0
            /\ at[p] \in {"create_header", "region_shelf"} => \A s \in Shelf : file[s] = None
            /\ at[p] \in {"create_zone", "create_total"} => file[0] # None /\ perm[0] = 1
            /\ at[p] = "create_zone" => \A s \in Data : file[s] = None
            /\ at[p] = "create_total" => file[1] # None /\ perm[1] = 1
        BY <1>2, <1>t, <2>6 DEF Creating, CreateHeader, CreateZone, WriteTotal, RegionShelf
      <3>2. UNCHANGED <<type, pool, lives, dying>>
        BY <2>6, Workers, TypeStays DEF Creates, CreateHeader, CreateZone, WriteTotal, RegionShelf, header, history
      <3>3. Unknown' /\ lives # None
        BY <1>t, <3>1, <3>2, StaysUnknown DEF Unknown, Present, None
      <3>4. CASE CreateHeader(p)
        <4>1. at'[p] = "create_zone" /\ total' = 0 /\ at[p] = "create_header"
          BY <2>g, <3>4 DEF CreateHeader
        <4>2. file' = [file EXCEPT ![0] = lives] /\ perm' = [perm EXCEPT ![0] = 1]
          BY <3>4 DEF CreateHeader, AddShelf
        <4>3. file'[0] # None /\ perm'[0] = 1 /\ \A s \in Data : file'[s] = None
          BY <1>t, <3>1, <3>3, <4>1, <4>2
        <4>4. QED
          BY <3>3, <4>1, <4>3 DEF Creating
      <3>5. CASE CreateZone(p)
        <4>1. at'[p] = "create_total" /\ total' = total /\ at[p] = "create_zone"
          BY <2>g, <3>5 DEF CreateZone, header
        <4>2. file' = [file EXCEPT ![1] = lives] /\ perm' = [perm EXCEPT ![1] = 1]
          BY <3>5 DEF CreateZone, AddShelf
        <4>3. file'[0] # None /\ perm'[0] = 1 /\ file'[1] # None /\ perm'[1] = 1
          BY <1>t, <3>1, <3>3, <4>1, <4>2
        <4>4. QED
          BY <3>1, <3>3, <4>1, <4>3 DEF Creating
      <3>6. CASE WriteTotal(p)
        <4>1. total' = 1 /\ at[p] = "create_total" /\ file' = file /\ Return(p, TRUE)
          BY <3>6 DEF WriteTotal
        <4>2. loc[p].call = "createheap"
          BY <1>2, <1>t, <4>1 DEF Called
        <4>3. at'[p] = "returned" /\ loc'[p].call = "createheap"
          BY <2>r, <4>1, <4>2
        <4>4. QED
          BY <1>t, <3>1, <3>3, <4>1, <4>3 DEF Creating
      <3>7. CASE RegionShelf(p)
        <4>1. at[p] = "region_shelf" /\ Return(p, TRUE)
          BY <3>7 DEF RegionShelf
        <4>2. loc[p].call = "createregion"
          BY <1>2, <1>t, <4>1 DEF Called
        <4>3. at'[p] = "returned" /\ loc'[p].call = "createregion"
          BY <2>r, <4>1, <4>2
        <4>4. file' = [file EXCEPT ![0] = lives]
          BY <3>7 DEF RegionShelf, AddShelf
        <4>5. file'[0] # None /\ \A s \in Data : file'[s] = None
          BY <1>t, <3>1, <3>3, <4>1, <4>4
        <4>6. QED
          BY <3>3, <4>3, <4>5 DEF Creating
      <3>8. QED
        BY <2>6, <3>4, <3>5, <3>6, <3>7
    <2>7. CASE DestroyPool(p)
      <3>1. ~pool' /\ Return(p, TRUE) /\ at[p] = "destroy_pool"
        BY <2>7 DEF DestroyPool
      <3>2. loc[p].call \in DestroyCalls
        BY <1>2, <1>t, <3>1 DEF Called
      <3>3. at'[p] = "returned" /\ loc'[p].call \in DestroyCalls
        BY <2>r, <3>1, <3>2
      <3>4. QED
        BY <3>1, <3>3 DEF Creating
    <2>8. CASE DestroyBegin(p) \/ DestroyShelf(p) \/ RegionDestroy(p)
      <3>1. at'[p] \in {"destroy_shelf", "destroy_pool", "abort"} \/ Return(p, FALSE)
        BY <2>8, <2>g DEF DestroyBegin, DestroyShelf, RegionDestroy, Abort, AbortIn
      <3>2. QED
        BY <2>f, <3>1 DEF Creating
    <2>9. QED
      BY <2>1, <2>2, <2>3, <2>4, <2>5, <2>6, <2>7, <2>8, Arrive DEF Moves, ToCreate, ToDestroy
  <1>3. QED
    BY <1>1, <1>2

\* Who is served and has not begun can rely on the type.
LEMMA TellsTheServed ==
  ASSUME IInv, NEW p \in Proc, Served(p), Untouched(p) PROVE Tells
  BY DEF IInv, Told, Orderly

\* The shelves of a heap are removed in order.
LEMMA NextRemoving == ASSUME IInv, NEW p \in Proc, Acts(p), NEW q \in Proc PROVE Removing(q)'
  <1>t. /\ Typed /\ Removing(q) /\ CountedShelvesExist /\ loc[q] \in Locals /\ total \in Nat /\ 0 \in Shelf
        /\ file \in [Shelf -> Life \cup {None}] /\ 0 \notin dying
        /\ \A s \in 1 .. total : s \in Shelf /\ s \in Nat /\ s # 0
    BY Types, Constants DEF IInv, Local, Shelf
  <1>q. ASSUME UNCHANGED <<pool, file, dying, total>>, at'[q] = at[q], loc'[q] = loc[q] PROVE Removing(q)'
    BY <1>q, <1>t DEF Removing
  <1>1. CASE q # p
    <2>1. at'[q] = at[q] /\ loc'[q] = loc[q]
      BY <1>t, <1>1, OthersStill DEF Still
    <2>2. CASE at[q] = "destroy_shelf"
      <3>1. at[q] \in ChangePC /\ at[q] \in DestroyPC
        BY <2>2 DEF ChangePC, DestroyPC
      <3>2. ~Resizes(p) /\ ~PermShelf(p)
        BY <3>1, Destroyers, Workers DEF HeaderPC
      <3>3. QED
        BY <1>1, <1>q, <2>1, <3>1, <3>2, OthersWait DEF Quiet, SetsOp
    <2>3. QED
      BY <2>1, <2>2 DEF Removing
  <1>2. CASE q = p
    <2> SUFFICES Removing(p)'
      BY <1>2
    <2>g. ASSUME NEW label, NEW l, Goto(p, label, l) PROVE at'[p] = label /\ loc'[p] = l
      BY <1>t, <2>g, GotoEffect
    <2>1. CASE Cleans(p)
      BY <1>2, <1>q, <2>1, CleansQuiet DEF Cleans, Stays, Quiet
    <2>2. CASE DestroyBegin(p) /\ at'[p] = "destroy_shelf"
      <3>1. at[p] = "destroy" /\ pool /\ file[0] # None
        BY <2>2, <2>g DEF DestroyBegin, Return
      <3>2. Tells
        BY <3>1, Turn, TellsTheServed DEF Untouched, ChangePC, DestroyPC
      <3>3. \A s \in 1 .. total : file[s] # None
        BY <1>t, <3>1, <3>2 DEF Tells, CountedShelvesExist
      <3>4. /\ dying' = dying \cup {file[0]} /\ UNCHANGED <<pool, file, total>>
            /\ loc'[p] = [loc[p] EXCEPT !.k = 1, !.n = total]
        BY <2>2, <2>g, <3>1 DEF DestroyBegin
      <3>5. loc'[p].k = 1 /\ loc'[p].n = total
        BY <1>2, <1>t, <3>4 DEF Locals
      <3>6. QED
        BY <1>t, <3>1, <3>3, <3>4, <3>5 DEF Removing
    <2>3. CASE DestroyShelf(p) /\ at'[p] = "destroy_shelf"
      <3> DEFINE k == loc[p].k
      <3>1. /\ pool /\ file[0] # None /\ file[0] \in dying
            /\ loc[p].n = total /\ 1 <= k /\ k <= total + 1 /\ k \in Nat
            /\ \A s \in 1 .. total : file[s] = None <=> s < k
        BY <1>2, <1>t, <2>3 DEF Removing, DestroyShelf, Locals
      <3>2. k <= total
        <4>1. CASE ~(k <= total)
          <5>1. at'[p] = "abort" \/ at'[p] = "destroy_pool"
            BY <2>3, <2>g, <3>1, <4>1 DEF DestroyShelf, Abort, AbortIn
          <5>2. QED
            BY <2>3, <5>1
        <4>2. QED
          BY <4>1
      <3>3. file[k] # None
        BY <3>1, <3>2
      <3>4. /\ RemoveShelf(k) /\ UNCHANGED <<pool, total, dying>>
            /\ loc'[p] = [loc[p] EXCEPT !.k = k + 1]
        BY <2>3, <2>g, <3>1, <3>2, <3>3 DEF DestroyShelf, header
      <3>5. loc'[p].k = k + 1 /\ loc'[p].n = total
        BY <1>2, <1>t, <3>1, <3>4 DEF Locals
      <3>6. /\ file'[0] = file[0]
            /\ \A s \in 1 .. total : file'[s] = IF s = k THEN None ELSE file[s]
        BY <1>t, <3>1, <3>4 DEF RemoveShelf
      <3>7. \A s \in 1 .. total : file'[s] = None <=> s < k + 1
        BY <1>t, <3>1, <3>6
      <3>8. QED
        <4>1. 1 <= k + 1 /\ k + 1 <= total + 1 /\ total' = total
          BY <1>t, <3>1, <3>2, <3>4
        <4>2. pool' /\ file'[0] # None /\ file'[0] \in dying'
          BY <3>1, <3>4, <3>6
        <4>3. QED
          BY <3>5, <3>7, <4>1, <4>2 DEF Removing
    <2>4. at'[p] # "destroy_shelf" \/ DestroyBegin(p) \/ DestroyShelf(p) \/ Cleans(p)
      BY Arrive, BootEffect DEF Moves, Boots1, ToCall, ToCreate, ToDestroy, ToOpen, ToWrite, EarlyPC, StartPC
    <2>5. QED
      BY <2>1, <2>2, <2>3, <2>4 DEF Removing
  <1>3. QED
    BY <1>1, <1>2

\* Nobody begins to use a heap that is being destroyed.
LEMMA NextAbandoned == ASSUME IInv, NEW p \in Proc, Acts(p) PROVE Abandoned'
  <1> DEFINE Uses == HeaderPC \cup OpenPC
  <1>t. Typed /\ Abandoned
    BY DEF IInv
  <1>o. \A q \in Proc \ {p} : at'[q] = at[q] /\ loc'[q] = loc[q]
    BY <1>t, OthersStill DEF Still
  <1>u. Uses = {"open_shelves", "open_wait", "refresh", "resize_read", "resize_clean", "resize_add",
                "resize_count", "resize_done", "perm_read", "perm_shelf", "perm_done"}
    BY DEF HeaderPC, WritePC, ResizePC, PermPC, OpenPC
  <1>s. Uses \subseteq UsePC
    BY <1>u DEF UsePC, PermPC
  <1>1. CASE Destroying
    <2>1. \A q \in Proc : at[q] \notin Uses
      BY <1>1, <1>t DEF Abandoned
    <2>2. ~Open(p) /\ ~Use(p)
      BY <1>1, UseCases DEF Open, InUse
    <2>3. at'[p] \in Uses => at[p] \in Uses
      <3> USE <1>u
      <3>1. CASE Boots1(p) \/ Die(p)
        BY <3>1, BootEffect, DieEffect DEF EarlyPC, StartPC, Boots1
      <3>2. CASE ToCall(p) \/ ToCreate(p) \/ ToDestroy(p)
        BY <3>2 DEF ToCall, ToCreate, ToDestroy
      <3>3. CASE ToOpen(p)
        BY <2>2, <3>3 DEF ToOpen, OpenAll
      <3>4. CASE ToWrite(p)
        BY <2>2, <3>4 DEF ToWrite, ResizeRead, ResizeClean, ResizeAdd, ResizeCount, ResizeDone, PermRead, PermShelf
      <3>5. CASE Cleans(p)
        BY <3>5 DEF Cleans, Stays
      <3>6. QED
        BY <3>1, <3>2, <3>3, <3>4, <3>5, Arrive DEF Moves
    <2>4. QED
      BY <1>o, <2>1, <2>3 DEF Abandoned
  <1>2. CASE ~Destroying
    <2>1. SUFFICES ASSUME Destroying' PROVE \A q \in Proc : at'[q] \notin Uses
      BY DEF Abandoned
    <2>2. loc'[p].call \in {"destroyheap", "destroyregion"} /\ loc[p].call \notin {"destroyheap", "destroyregion"}
      BY <1>2, <1>o, <2>1 DEF Destroying
    <2>3. PICK c \in Calls : Ask(p, c) /\ loc'[p].call = c
      BY <2>2, Calling DEF Calls
    <2>4. \A q \in Proc \ {p} : at[q] \notin Uses
      BY <1>s, <2>2, <2>3 DEF Ask, Left
    <2>5. at'[p] = "spin"
      BY <1>t, <2>3, GotoEffect DEF Ask
    <2>6. QED
      BY <1>o, <1>u, <2>4, <2>5
  <1>3. QED
    BY <1>1, <1>2

\* op_in_progress keeps the writers apart.
LEMMA NextWriters ==
  ASSUME IInv, NEW p \in Proc, Acts(p) PROVE OneWriter' /\ \A q \in Proc : Writing(q)'
  <1>t. Typed /\ OneWriter /\ \A q \in Proc : Writing(q)
    BY DEF IInv, Local
  <1>o. \A q \in Proc \ {p} : at'[q] = at[q]
    BY <1>t, OthersStill DEF Still
  <1>w. WritePC = {"resize_read", "resize_clean", "resize_add", "resize_count", "resize_done",
                   "perm_read", "perm_shelf", "perm_done"} /\ WritePC \subseteq HeaderPC /\ WritePC \subseteq UsePC
    BY DEF WritePC, ResizePC, PermPC, HeaderPC, UsePC
  <1>g. ASSUME NEW label, NEW l, Goto(p, label, l) PROVE at'[p] = label
    BY <1>t, <1>g, GotoEffect
  \* A writer comes from a writer, or op_in_progress was none.
  <1>1. at'[p] \in WritePC =>
          \/ at[p] \in WritePC /\ op' = op
             /\ (at'[p] \in ResizePC <=> at[p] \in ResizePC) /\ (at'[p] \in PermPC <=> at[p] \in PermPC)
          \/ op = "none" /\ (at'[p] \in ResizePC => op' = "resize") /\ (at'[p] \in PermPC => op' = "perm")
    <2> USE <1>w DEF ResizePC, PermPC
    <2>1. CASE Boots1(p) \/ Die(p)
      BY <2>1, BootEffect, DieEffect DEF EarlyPC, StartPC, Boots1
    <2>2. CASE ToCall(p) \/ ToCreate(p) \/ ToDestroy(p) \/ ToOpen(p)
      BY <2>2 DEF ToCall, ToCreate, ToDestroy, ToOpen
    <2>3. CASE Cleans(p)
      BY <2>3, CleansQuiet DEF Cleans, Stays, Quiet
    <2>4. CASE Use(p)
      <3>1. CASE UseResize(p)
        BY <1>g, <3>1 DEF UseResize, ResizeBegin
      <3>2. CASE UsePerm(p)
        BY <1>g, <3>2 DEF UsePerm, PermBegin
      <3>3. CASE UseGoes(p)
        BY <2>4, <3>3, UseCases DEF UseGoes, Stays, InUse
      <3>4. QED
        BY <2>4, <3>1, <3>2, <3>3, UseViews
    <2>5. CASE ToWrite(p) /\ ~Use(p)
      <3>1. CASE ResizeRead(p) \/ ResizeClean(p) \/ ResizeAdd(p)
        BY <2>5, <3>1, <1>g DEF ResizeRead, ResizeClean, ResizeAdd, Finish, header
      <3>2. CASE ResizeFails(p) \/ ResizeCount(p) \/ ResizeDone(p) \/ Refresh(p)
        BY <2>5, <3>2, <1>g DEF ResizeFails, ResizeCount, ResizeDone, Refresh, Finish
      <3>3. CASE PermRead(p) \/ PermShelf(p) \/ PermDone(p)
        BY <2>5, <3>3, <1>g DEF PermRead, PermShelf, PermDone, Finish, Abort, AbortIn, header
      <3>4. QED
        BY <2>5, <3>1, <3>2, <3>3 DEF ToWrite
    <2>6. QED
      BY <2>1, <2>2, <2>3, <2>4, <2>5, Arrive DEF Moves
  <1>r. \A q \in Proc : at[q] \in WritePC => op # "none"
    BY <1>t DEF Writing, WritePC
  <1>2. OneWriter'
    <2>1. \A q \in Proc \ {p} : at'[p] \in WritePC => at'[q] \notin WritePC
      BY <1>t, <1>o, <1>1, <1>r DEF OneWriter
    <2>2. QED
      BY <1>t, <1>o, <2>1 DEF OneWriter
  <1>3. ASSUME NEW q \in Proc PROVE Writing(q)'
    <2>1. CASE q = p
      <3>1. Writing(p)'
        BY <1>t, <1>1 DEF Writing, WritePC
      <3>2. QED
        BY <2>1, <3>1
    <2>2. CASE q # p
      <3>1. at'[q] = at[q]
        BY <1>o, <2>2
      <3>2. CASE at[q] \in WritePC
        <4>1. at[p] \notin WritePC /\ op # "none"
          BY <1>t, <1>r, <2>2, <3>2 DEF OneWriter
        <4>2. ~SetsOp(p)
          BY <1>w, <2>2, <3>2, <4>1 DEF SetsOp
        <4>3. Using(q)
          BY <1>w, <3>2, Users
        <4>4. ~Creates(p)
          BY <4>3, Workers, UsingFacts
        <4>5. ~Destroys(p)
          BY <1>w, <3>2, Destroyers, Workers
        <4>6. ~Resizes(p) /\ ~PermShelf(p)
          BY <4>1, Workers
        <4>7. op' = op
          BY <4>2, <4>4, <4>5, <4>6, SharedEffect DEF SharedMove, Quiet, SetType, fam, header
        <4>8. QED
          BY <1>t, <3>1, <4>7 DEF Writing
      <3>3. CASE at[q] \notin WritePC
        BY <3>1, <3>3 DEF Writing, WritePC
      <3>4. QED
        BY <3>2, <3>3
    <2>3. QED
      BY <2>1, <2>2
  <1>4. QED
    BY <1>2, <1>3

-----------------------------------------------------------------------------
(* Open and Close. *)

\* The file of the header is made by Create, removed by Destroy, and nobody else
\* touches it.
LEMMA HeaderStays ==
  ASSUME IInv, NEW p \in Proc, Acts(p)
  PROVE  \/ file'[0] = file[0] /\ (dying' = dying \/ DestroyBegin(p))
         \/ Creates(p) /\ Unknown /\ dying' = dying
         \/ Destroys(p) /\ file'[0] = None /\ dying' = dying
  <1>t. /\ Typed /\ 0 \in Shelf /\ 1 \in Shelf /\ loc[p] \in Locals /\ Creating(p) /\ Resizing(p)
        /\ file \in [Shelf -> Life \cup {None}] /\ total \in Nat /\ Typed
    BY Types, Constants DEF IInv, Local
  <1>1. CASE Quiet \/ SetsOp(p) \/ SetType(p)
    BY <1>1 DEF Quiet, SetsOp, SetType, fam, header
  <1>2. CASE Resizes(p) \/ PermShelf(p)
    <2>1. dying' = dying
      BY <1>2 DEF Resizes, ResizeClean, ResizeAdd, ResizeCount, PermShelf, header
    <2>2. loc[p].n + 1 # 0
      BY <1>t DEF Locals
    <2>3. file'[0] = file[0]
      BY <1>2, <1>t, <2>2 DEF Resizes, ResizeClean, ResizeAdd, ResizeCount, PermShelf, RemoveShelf, AddShelf
    <2>4. QED
      BY <2>1, <2>3
  <1>3. CASE Creates(p)
    <2>1. dying' = dying
      BY <1>3 DEF Creates, CreatePool, CreateHeader, CreateZone, WriteTotal, RegionShelf, header
    <2>2. CASE CreatePool(p)
      BY <2>1, <2>2 DEF CreatePool
    <2>3. CASE ~CreatePool(p)
      BY <1>3, <1>t, <2>1, <2>3 DEF Creates, CreateHeader, CreateZone, WriteTotal, RegionShelf, Creating, NewPC
    <2>4. QED
      BY <2>2, <2>3
  <1>4. CASE Destroys(p)
    <2>1. CASE DestroyBegin(p)
      BY <2>1 DEF DestroyBegin
    <2>2. CASE DestroyShelf(p)
      <3>1. UNCHANGED file \/ \E k : RemoveShelf(k)
        BY <2>2 DEF DestroyShelf
      <3>2. file'[0] = file[0] \/ file'[0] = None
        BY <1>t, <3>1 DEF RemoveShelf
      <3>3. QED
        BY <1>4, <2>2, <3>2 DEF DestroyShelf, header
    <2>3. CASE DestroyPool(p) \/ RegionDestroy(p)
      <3>1. UNCHANGED file \/ RemoveShelves
        BY <2>3 DEF DestroyPool, RegionDestroy
      <3>2. file'[0] = file[0] \/ file'[0] = None
        BY <1>t, <3>1 DEF RemoveShelves
      <3>3. dying' = dying
        BY <2>3 DEF DestroyPool, RegionDestroy, header
      <3>4. QED
        BY <1>4, <3>2, <3>3
    <2>4. QED
      BY <1>4, <2>1, <2>2, <2>3 DEF Destroys
  <1>5. QED
    BY <1>1, <1>2, <1>3, <1>4, SharedEffect DEF SharedMove

\* Who has a header that is still there had it before, and the heap has only grown.
LEMMA HadIt ==
  ASSUME IInv, NEW p \in Proc, Acts(p), NEW q \in Proc, h[q].hdr # None, h[q].hdr = file'[0]
  PROVE  /\ file[0] = h[q].hdr /\ total' >= total /\ dying \subseteq dying'
         /\ type = "heap" => type' = "heap"
  <1>t. /\ Typed /\ Present /\ Present' /\ Grows /\ h[q].hdr <= lives /\ h[q].hdr \in Nat
        /\ lives \in Nat /\ lives' \in Nat /\ 0 \in Shelf /\ Creating(p) /\ Called(p)
    <2>1. Typed /\ Present /\ Past(q) /\ Creating(p) /\ Called(p)
      BY DEF IInv, Local
    <2>2. lives' \in Nat
      BY NextPresent, Constants DEF SharedTyped
    <2>3. QED
      BY <2>1, <2>2, NextPresent, Types, Constants DEF Past, Handle, Life, None
  <1>1. pool' /\ h[q].hdr = lives'
    BY <1>t DEF Present
  <1>2. lives' = lives /\ pool /\ total' >= total /\ dying \subseteq dying'
    BY <1>t, <1>1 DEF Grows
  <1>3. ~Unknown
    BY <1>1, <1>2 DEF Unknown
  <1>4. file'[0] = file[0]
    BY <1>3, HeaderStays
  <1>5. CASE SetType(p) /\ loc[p].ok
    <2>1. at[p] = "returned"
      BY <1>5 DEF SetType
    <2>2. FALSE
      BY <1>2, <1>3, <1>5, <1>t, <2>1 DEF Creating, Called
    <2>3. QED
      BY <2>2
  <1>6. CASE ~(SetType(p) /\ loc[p].ok)
    BY <1>2, <1>4, <1>6, TypeStays DEF SetType
  <1>7. QED
    BY <1>5, <1>6

\* Who works on a heap, or opens it, is not disturbed.
LEMMA Undisturbed ==
  ASSUME IInv, NEW p \in Proc, Acts(p), NEW q \in Proc, Holds(q), at[q] \in HeaderPC \cup OpenPC
  PROVE  file'[0] = file[0] /\ dying' = dying /\ total' >= total /\ pool
  <1>1. Present /\ file[0] # None /\ file[0] = h[q].hdr
    BY DEF IInv, Holds
  <1>2. pool /\ h[q].hdr = lives
    BY <1>1, Constants DEF Present
  <1>3. ~Unknown
    BY <1>2 DEF Unknown
  <1>4. ~Destroys(p)
    BY Destroyers, Workers
  <1>5. file'[0] = file[0] /\ dying' = dying
    BY <1>3, <1>4, HeaderStays DEF Destroys
  <1>6. total' >= total
    BY <1>1, <1>5, HadIt
  <1>7. QED
    BY <1>2, <1>5, <1>6

\* The fields of the object of a process that tell whether it uses a heap.
Same(p) == /\ h'[p].hdr = h[p].hdr /\ h'[p].kind = h[p].kind
           /\ h'[p].open = h[p].open /\ h'[p].mapped = h[p].mapped

\* What each step does to the object.
HandleStep(p) ==
  \/ UNCHANGED <<h, rmb>>
  \/ Same(p) /\ rmb' = rmb
  \/ Same(p) /\ Use(p) /\ \A s \in 1 .. h[p].mapped : rmb'[p][s] # None
  \/ ~h'[p].open
  \/ h'[p].kind # "heap"
  \/ /\ h'[p].mapped <= total /\ h'[p].hdr = h[p].hdr /\ h'[p].kind = h[p].kind /\ h'[p].open = h[p].open
     /\ \A s \in 1 .. h'[p].mapped : rmb'[p][s] # None
  \/ /\ OpenAll(p) /\ h'[p].mapped <= total
     /\ \A s \in 1 .. h'[p].mapped : rmb'[p][s] # None
  \/ CloseShelves(p) /\ h' = h /\ ~Using(p)

LEMMA HandleSteps == ASSUME IInv, NEW p \in Proc, Acts(p) PROVE HandleStep(p)
  <1> USE DEF Same
  <1>t. /\ Typed /\ h \in [Proc -> Handle] /\ h[p] \in Handle /\ Cleaning(p) /\ Called(p) /\ total \in Nat
        /\ rmb \in [Proc -> [Data -> Life \cup {None}]]
    BY Types DEF IInv, Local
  <1>c. Closed(p) => ~h'[p].open
    BY <1>t DEF Closed, Handle
  <1>1. CASE UNCHANGED views
    BY <1>1 DEF views, HandleStep
  <1>2. CASE Find(p)
    <2>1. h[p].kind = "none"
      BY <1>2, <1>t DEF Find, Called
    <2>2. ~h[p].open
      BY <1>t, <2>1 DEF Cleaning
    <2>3. h' = h \/ \E k \in {"heap", "region"} : h' = [h EXCEPT ![p] = [h[p] EXCEPT !.kind = k]]
      BY <1>2 DEF Find
    <2>4. ~h'[p].open
      BY <1>t, <2>2, <2>3 DEF Handle
    <2>5. QED
      BY <2>4 DEF HandleStep
  <1>3. CASE Open(p)
    <2>1. CASE type = "heap"
      <3>1. ~h[p].open /\ (h' = h \/ h' = [h EXCEPT ![p] = [h[p] EXCEPT !.hdr = file[0]]])
        BY <1>3, <2>1 DEF Open, OpenHeader
      <3>2. ~h'[p].open
        BY <1>t, <3>1 DEF Handle
      <3>3. QED
        BY <3>2 DEF HandleStep
    <2>2. CASE type # "heap"
      <3>1. h[p].kind # "heap" /\ (h' = h \/ h' = [h EXCEPT ![p] = [h[p] EXCEPT !.open = TRUE, !.hdr = file[0]]])
        BY <1>3, <2>2 DEF Open
      <3>2. h'[p].kind # "heap"
        BY <1>t, <3>1 DEF Handle
      <3>3. QED
        BY <3>2 DEF HandleStep
    <2>3. QED
      BY <2>1, <2>2
  <1>4. CASE Close(p)
    <2>1. CASE h[p].kind = "heap"
      <3>1. UNCHANGED rmb /\ \E b : h' = [h EXCEPT ![p] = [h[p] EXCEPT !.stop = b]]
        BY <1>4, <2>1 DEF Close, CloseBegin
      <3>2. Same(p)
        BY <1>t, <3>1 DEF Handle
      <3>3. QED
        BY <3>1, <3>2 DEF HandleStep
    <2>2. CASE h[p].kind # "heap"
      BY <1>4, <1>c, <2>2 DEF Close, HandleStep
    <2>3. QED
      BY <2>1, <2>2
  <1>5. CASE Discard(p) \/ Die(p)
    <2>1. h' = [h EXCEPT ![p] = NoHandle]
      BY <1>5 DEF Discard, Die
    <2>2. ~h'[p].open
      BY <1>t, <2>1, Empty
    <2>3. QED
      BY <2>2 DEF HandleStep
  <1>n. ASSUME NEW top \in 0 .. total, HasOpened(p, top) PROVE HandleStep(p)
    <2>1. /\ h'[p].mapped = top /\ h'[p].hdr = h[p].hdr /\ h'[p].kind = h[p].kind
          /\ h'[p].open = h[p].open
      BY <1>n, <1>t, OpenedHandle
    <2>2. top <= total /\ \A s \in 1 .. top : rmb'[p][s] # None
      BY <1>n, <1>t DEF HasOpened
    <2>3. QED
      BY <2>1, <2>2 DEF HandleStep
  <1>6. CASE Use(p)
    <2>1. UseSees(p)
      BY <1>6, UseViews
    <2>2. CASE h' = h /\ \A s \in 1 .. h[p].mapped : rmb'[p][s] # None
      BY <1>6, <2>2 DEF HandleStep
    <2>3. QED
      BY <1>n, <2>1, <2>2 DEF UseSees
  <1>7. CASE DestroyShelf(p) \/ NoEpochManager(p)
    BY <1>7 DEF DestroyShelf, NoEpochManager, HandleStep
  <1>8. CASE OpenAll(p)
    <2>1. PICK top \in 0 .. total : OpenedAll(p, top)
      BY <1>8, OpenAllViews
    <2>2. ~h[p].open
      BY <1>8, OpenAllViews
    <2>3. CASE h' = [h EXCEPT ![p] = [@ EXCEPT !.mapped = top, !.hdr = None]]
      <3>1. ~h'[p].open
        BY <1>t, <2>2, <2>3 DEF Handle
      <3>2. QED
        BY <3>1 DEF HandleStep
    <2>4. CASE /\ \/ h' = [h EXCEPT ![p] = [@ EXCEPT !.open = TRUE, !.mapped = top, !.failed = FALSE, !.nobg = TRUE]]
                  \/ h' = [h EXCEPT ![p] = [@ EXCEPT !.open = TRUE, !.mapped = top, !.failed = FALSE, !.start = TRUE]]
               /\ \A s \in 1 .. top : rmb'[p][s] # None
      <3>1. h'[p].mapped = top
        BY <1>t, <2>4 DEF Handle
      <3>2. top <= total
        BY <1>t, <2>1
      <3>3. QED
        BY <1>8, <2>4, <3>1, <3>2 DEF HandleStep
    <2>5. QED
      BY <2>1, <2>3, <2>4 DEF OpenedAll
  <1>9. CASE OpenWait(p) \/ Join(p) \/ Wake(p) \/ Work(p)
    <2>1. UNCHANGED rmb
      BY <1>9 DEF OpenWait, Join, Wake, Work
    <2>3. Same(p)
      <3>1. CASE OpenWait(p)
        BY <1>t, <3>1 DEF OpenWait, Handle
      <3>2. CASE Join(p)
        BY <1>t, <3>2 DEF Join, Handle
      <3>3. CASE Wake(p)
        BY <1>t, <3>3 DEF Wake, Handle
      <3>4. CASE Work(p)
        BY <1>t, <3>4 DEF Work, Handle
      <3>5. QED
        BY <1>9, <3>1, <3>2, <3>3, <3>4
    <2>4. QED
      BY <2>1, <2>3 DEF HandleStep
  <1>10. CASE CloseShelves(p)
    <2> DEFINE fails == {s \in 1 .. h[p].mapped : CloseFails(p, s)}
    <2>1. CASE Using(p)
      <3>1. \A s \in 1 .. h[p].mapped : file[s] # None
        BY <1>t, <2>1, UsingFacts
      <3>2. fails = {}
        BY <3>1 DEF CloseFails
      <3>3. UNCHANGED <<h, rmb>> \/ Closed(p)
        BY <1>10, <3>2 DEF CloseShelves
      <3>4. QED
        BY <1>c, <3>3 DEF HandleStep
    <2>2. CASE ~Using(p)
      BY <1>10, <1>c, <2>2 DEF CloseShelves, HandleStep
    <2>3. QED
      BY <2>1, <2>2
  <1>11. CASE SelfClose(p)
    BY <1>11, <1>c DEF SelfClose, HandleStep
  <1>12. CASE Refresh(p) \/ PermRead(p)
    <2>1. Using(p)
      BY <1>12, Users DEF Refresh, PermRead, HeaderPC, WritePC, PermPC
    <2>2. UNCHANGED <<h, rmb, map>> \/ OpenNewShelfs(p)
      BY <1>12 DEF Refresh, PermRead
    <2>3. CASE OpenNewShelfs(p)
      BY <1>n, <2>1, <2>3, NewShelves
    <2>4. QED
      BY <2>2, <2>3 DEF HandleStep
  <1>13. QED
    BY <1>1, <1>2, <1>3, <1>4, <1>5, <1>6, <1>7, <1>8, <1>9, <1>10, <1>11, <1>12, ViewMoves DEF ViewStep

\* Who works on a heap has it open, and has mapped what it thinks it has.
LEMMA NextOpened == ASSUME IInv, NEW p \in Proc, Acts(p), NEW q \in Proc PROVE Opened(q)'
  <1>t. /\ Typed /\ Opened(q) /\ Cleaning(q) /\ Called(q) /\ total \in Nat /\ total' \in Nat
        /\ h[q] \in Handle /\ h[q].mapped \in Nat /\ loc[q] \in Locals
    <2>1. total' \in Nat
      BY NextPresent, Constants DEF SharedTyped
    <2>2. QED
      BY <2>1, Types, Constants DEF IInv, Local, Handle
  <1>h. {"open_shelves", "open_wait"} = OpenPC
    BY DEF OpenPC
  <1>k. ASSUME h'[q].hdr = h[q].hdr, h'[q].kind = h[q].kind, Holds(q)'
        PROVE  /\ Holds(q) /\ total' >= total /\ dying \subseteq dying' /\ h[q].hdr = file'[0]
               /\ type = "heap" => type' = "heap"
    BY <1>k, HadIt DEF Holds
  <1>u. ASSUME h'[q].hdr = h[q].hdr, h'[q].kind = h[q].kind, h'[q].open = h[q].open, Using(q)' PROVE Using(q)
    BY <1>k, <1>u DEF Using
  <1>s. ASSUME h'[q].hdr = h[q].hdr, h'[q].kind = h[q].kind, h'[q].open = h[q].open,
               h'[q].mapped = h[q].mapped, rmb'[q] = rmb[q], Using(q)'
        PROVE  h'[q].mapped <= total' /\ \A s \in 1 .. h'[q].mapped : rmb'[q][s] # None
    <2>1. Using(q) /\ total' >= total
      BY <1>k, <1>s, <1>u DEF Using
    <2>2. QED
      BY <1>s, <1>t, <2>1 DEF Opened
  <1>1. CASE q # p
    <2>1. Still(q)
      BY <1>1, <1>t, OthersStill
    <2>2. at'[q] \in HeaderPC => Using(q)'
      BY <1>t, <2>1, Undisturbed DEF Opened, Still, Using, Holds
    <2>3. at'[q] = "open_shelves" => Holds(q)' /\ ~h'[q].open /\ ~h'[q].invalid /\ loc'[q].n <= total'
      <3>1. CASE at[q] = "open_shelves"
        <4>1. Holds(q) /\ ~h[q].open /\ ~h[q].invalid /\ loc[q].n <= total
          BY <1>t, <3>1 DEF Opened
        <4>2. file'[0] = file[0] /\ total' >= total
          BY <1>h, <3>1, <4>1, Undisturbed
        <4>3. loc[q].n \in Nat
          BY <1>t, Constants DEF Locals
        <4>4. QED
          BY <1>t, <2>1, <4>1, <4>2, <4>3 DEF Holds, Still
      <3>2. QED
        BY <2>1, <3>1 DEF Still
    <2>4. at'[q] = "open_wait" => h'[q].kind = "heap"
      BY <1>t, <2>1 DEF Opened, Still
    <2>5. Holds(q)' /\ h'[q].hdr \notin dying' => type' = "heap"
      BY <1>k, <1>t, <2>1 DEF Opened, Still
    <2>6. Using(q)' => h'[q].mapped <= total' /\ \A s \in 1 .. h'[q].mapped : rmb'[q][s] # None
      BY <1>s, <2>1 DEF Still
    <2>7. QED
      BY <2>2, <2>3, <2>4, <2>5, <2>6 DEF Opened
  <1>2. CASE q = p
    <2>t. h[p] \in Handle /\ loc[p] \in Locals /\ Opened(p) /\ Cleaning(p) /\ Called(p) /\ h \in [Proc -> Handle]
      BY <1>2, <1>t, Types
    <2>w. WritePC \subseteq HeaderPC /\ "refresh" \in HeaderPC
      BY DEF HeaderPC
    <2>c. at[p] \in HeaderPC \cup {"open_shelves"} => wk[p] \notin {"work", "selfclose"}
      BY <2>t DEF Opened, Using, Holds, Cleaning
    \* The cleaner only says that it runs.
    <2>d. Cleans(p) /\ at[p] \in HeaderPC \cup {"open_shelves"} =>
            h'[p] = [h[p] EXCEPT !.running = TRUE] /\ wk[p] = "sleep"
      BY <2>c, <2>t DEF Cleans, Wake, Work, SelfClose
    <2>1. at'[p] \in HeaderPC => Using(p)'
      <3>1. SUFFICES ASSUME at'[p] \in HeaderPC PROVE Using(p)'
        OBVIOUS
      <3>2. at[p] \in HeaderPC \/ Use(p)
        <4> USE DEF HeaderPC, WritePC, ResizePC, PermPC
        <4>1. CASE Boots1(p) \/ Die(p)
          BY <3>1, <4>1, BootEffect, DieEffect DEF EarlyPC, StartPC, Boots1
        <4>2. CASE ToCall(p) \/ ToCreate(p) \/ ToDestroy(p) \/ ToOpen(p)
          BY <3>1, <4>2 DEF ToCall, ToCreate, ToDestroy, ToOpen
        <4>3. CASE ToWrite(p) \/ Cleans(p)
          BY <3>1, <4>3 DEF Cleans, Stays, ToWrite, ResizeRead, ResizeClean, ResizeAdd, ResizeCount,
             ResizeDone, PermRead, PermShelf, PermFails, ResizeFails, Refresh, PermDone
        <4>4. QED
          BY <4>1, <4>2, <4>3, Arrive DEF Moves
      <3>3. Using(p)
        BY <3>2, Users, UseViews
      <3>4. file'[0] = file[0] /\ dying' = dying
        <4>1. CASE at[p] \in HeaderPC
          BY <3>3, <4>1, Undisturbed DEF Using
        <4>2. CASE Use(p) /\ at[p] \notin HeaderPC
          <5>1. at[p] = "idle"
            BY <4>2, UseCases DEF InUse
          <5>2. ~UseGoes(p)
            BY <3>1, <5>1, <4>2 DEF UseGoes, Stays, HeaderPC, WritePC, ResizePC, PermPC
          <5>3. QED
            BY <4>2, <5>2, UseViews DEF UseResize, UsePerm
        <4>3. QED
          BY <3>2, <4>1, <4>2
      <3>5. h'[p].hdr = h[p].hdr /\ h'[p].kind = h[p].kind /\ h'[p].open = h[p].open
        <4>n. ASSUME NEW top \in 0 .. total, HasOpened(p, top)
              PROVE  h'[p].hdr = h[p].hdr /\ h'[p].kind = h[p].kind /\ h'[p].open = h[p].open
          BY <4>n, <1>t, OpenedHandle
        <4>1. CASE Use(p)
          BY <4>1, <4>n, UseViews DEF UseSees
        <4>2. CASE Cleans(p) /\ ~Use(p)
          BY <2>d, <2>t, <3>2, <4>2 DEF Handle
        <4>3. CASE ~Use(p) /\ ~Cleans(p)
          <5>1. at[p] \in HeaderPC /\ ToWrite(p)
            <6>1. at[p] \in HeaderPC /\ ~Boots1(p) /\ ~Die(p) /\ ~ToCall(p) /\ ~ToCreate(p) /\ ~ToDestroy(p) /\ ~ToOpen(p)
              BY <3>1, <3>2, <4>3, BootEffect, DieEffect DEF EarlyPC, StartPC, Boots1,
                 ToCall, ToCreate, ToDestroy, ToOpen, HeaderPC, WritePC, ResizePC, PermPC
            <6>2. QED
              BY <4>3, <6>1, Arrive DEF Moves
          <5>2. CASE Refresh(p) \/ PermRead(p)
            <6>1. UNCHANGED h \/ OpenNewShelfs(p)
              BY <5>2 DEF Refresh, PermRead
            <6>2. QED
              BY <3>3, <4>n, <6>1, NewShelves
          <5>3. CASE ~(Refresh(p) \/ PermRead(p))
            BY <4>3, <5>1, <5>3 DEF ToWrite, views, ResizeRead, ResizeClean, ResizeAdd, ResizeFails, ResizeCount,
               ResizeDone, PermShelf, PermFails, PermDone
          <5>4. QED
            BY <5>2, <5>3
        <4>4. QED
          BY <4>1, <4>2, <4>3
      <3>6. QED
        BY <3>3, <3>4, <3>5 DEF Using, Holds
    <2>2. at'[p] = "open_shelves" => Holds(p)' /\ ~h'[p].open /\ ~h'[p].invalid /\ loc'[p].n <= total'
      <3>1. CASE Open(p) /\ at'[p] = "open_shelves"
        <4>1. at[p] = "idle" /\ UNCHANGED <<file, total>> /\ ~h[p].open /\ ~h[p].invalid /\ h[p].kind = type
          BY <3>1 DEF Open, fam, header
        <4>2. type = "heap" /\ OpenHeader(p)
          BY <3>1, <4>1 DEF Open
        <4>3. Finish(p) => at'[p] = "idle"
          BY <1>t, GotoEffect DEF Finish
        <4>4. /\ file[0] # None /\ h' = [h EXCEPT ![p].hdr = file[0]]
              /\ Goto(p, "open_shelves", [loc[p] EXCEPT !.n = total])
          BY <3>1, <4>2, <4>3 DEF OpenHeader
        <4>5. loc'[p] = [loc[p] EXCEPT !.n = total]
          BY <1>t, <4>4, GotoEffect
        <4>6. loc'[p].n = total /\ total <= total'
          BY <1>t, <2>t, <4>1, <4>5 DEF Locals
        <4>7. h'[p].hdr = file[0] /\ h'[p].kind = "heap" /\ ~h'[p].open /\ ~h'[p].invalid
          BY <2>t, <4>1, <4>2, <4>4 DEF Handle
        <4>8. QED
          BY <4>1, <4>4, <4>6, <4>7 DEF Holds
      <3>2. CASE Cleans(p) /\ at[p] = "open_shelves"
        <4>1. ~h[p].open /\ wk[p] = "sleep"
          BY <2>d, <2>t, <3>2 DEF Opened
        <4>2. FALSE
          BY <2>t, <3>2, <4>1 DEF Cleaning
        <4>3. QED
          BY <4>2
      <3>3. at'[p] = "open_shelves" => Open(p) \/ (Cleans(p) /\ at[p] = "open_shelves")
        BY Arrive, BootEffect DEF Moves, Boots1, ToCall, ToCreate, ToDestroy, ToOpen, ToWrite, EarlyPC, StartPC,
           Cleans, Stays
      <3>4. QED
        BY <3>1, <3>2, <3>3
    <2>3. at'[p] = "open_wait" => h'[p].kind = "heap"
      <3>1. at'[p] = "open_wait" => OpenAll(p) \/ (Cleans(p) /\ at[p] = "open_wait")
        BY Arrive, BootEffect DEF Moves, Boots1, ToCall, ToCreate, ToDestroy, ToOpen, ToWrite, EarlyPC, StartPC,
           Cleans, Stays
      <3>2. at'[p] = "open_wait" => h[p].kind = "heap"
        BY <2>t, <3>1, OpenAllViews DEF Opened, Holds
      <3>3. CASE OpenAll(p)
        <4>1. PICK top \in 0 .. total : OpenedAll(p, top)
          BY <3>3, OpenAllViews
        <4>2. h'[p].kind = h[p].kind
          BY <2>t, <4>1 DEF OpenedAll, Handle
        <4>3. QED
          BY <3>2, <4>2
      <3>4. CASE Cleans(p)
        <4>1. h'[p].kind = h[p].kind
          BY <2>t, <3>4 DEF Cleans, Wake, Work, SelfClose, Closed, Handle
        <4>2. QED
          BY <3>2, <4>1
      <3>5. QED
        BY <3>1, <3>3, <3>4
    <2>4. Holds(p)' /\ h'[p].hdr \notin dying' => type' = "heap"
      <3>1. SUFFICES ASSUME Holds(p)', h'[p].hdr \notin dying' PROVE type' = "heap"
        OBVIOUS
      <3>2. h'[p].hdr # None /\ h'[p].kind = "heap" /\ h'[p].hdr = file'[0]
        BY <3>1 DEF Holds
      <3>3. CASE h'[p].hdr = h[p].hdr
        <4>1. ~Find(p)
          BY <2>t, <3>2, <3>3 DEF Find, Called, Cleaning
        <4>2. h'[p].kind = h[p].kind
          BY <3>2, <4>1, Views, Empty DEF SeesTyped
        <4>3. Holds(p) /\ dying \subseteq dying' /\ (type = "heap" => type' = "heap")
          BY <1>2, <1>k, <3>1, <3>3, <4>2
        <4>4. QED
          BY <2>t, <3>1, <3>3, <4>3 DEF Opened
      <3>4. CASE h'[p].hdr # h[p].hdr
        <4>1. Open(p)
          BY <3>2, <3>4, Views DEF SeesTyped
        <4>2. h'[p].kind = h[p].kind
          BY <3>2, <4>1, Views, Empty DEF SeesTyped, Open, Find
        <4>3. QED
          BY <3>2, <4>1, <4>2 DEF Open, mm
      <3>5. QED
        BY <3>3, <3>4
    <2>5. Using(p)' => h'[p].mapped <= total' /\ \A s \in 1 .. h'[p].mapped : rmb'[p][s] # None
      <3>1. SUFFICES ASSUME Using(p)' PROVE h'[p].mapped <= total' /\ \A s \in 1 .. h'[p].mapped : rmb'[p][s] # None
        OBVIOUS
      <3>2. h'[p].open /\ h'[p].kind = "heap"
        BY <3>1 DEF Using, Holds
      <3>3. CASE UNCHANGED <<h, rmb>>
        BY <1>2, <1>s, <3>1, <3>3
      <3>4. CASE Same(p) /\ rmb' = rmb
        BY <1>2, <1>s, <3>1, <3>4 DEF Same
      <3>5. CASE Same(p) /\ Use(p) /\ \A s \in 1 .. h[p].mapped : rmb'[p][s] # None
        <4>1. Using(p) /\ total' >= total
          BY <1>2, <1>k, <1>u, <3>1, <3>5 DEF Same, Using
        <4>2. h[p].mapped <= total /\ h'[p].mapped = h[p].mapped
          BY <2>t, <3>5, <4>1 DEF Opened, Same
        <4>3. QED
          BY <1>2, <1>t, <3>5, <4>1, <4>2
      <3>6. CASE /\ h'[p].mapped <= total /\ h'[p].hdr = h[p].hdr /\ h'[p].kind = h[p].kind /\ h'[p].open = h[p].open
                 /\ \A s \in 1 .. h'[p].mapped : rmb'[p][s] # None
        <4>1. total <= total'
          BY <1>2, <1>k, <3>1, <3>6 DEF Using
        <4>2. h'[p].mapped \in Nat
          BY Views, Constants DEF SeesTyped, Handle
        <4>3. QED
          BY <1>t, <3>6, <4>1, <4>2
      <3>7. CASE /\ OpenAll(p) /\ h'[p].mapped <= total
                 /\ \A s \in 1 .. h'[p].mapped : rmb'[p][s] # None
        BY <3>7 DEF OpenAll, fam, header
      <3>8. CASE CloseShelves(p) /\ h' = h /\ ~Using(p)
        BY <1>2, <1>u, <3>1, <3>8
      <3>9. QED
        BY <3>2, <3>3, <3>4, <3>5, <3>6, <3>7, <3>8, HandleSteps DEF HandleStep
    <2>6. Opened(p)'
      BY <2>1, <2>2, <2>3, <2>4, <2>5 DEF Opened
    <2>7. QED
      BY <1>2, <2>6
  <1>3. QED
    BY <1>1, <1>2

-----------------------------------------------------------------------------
(* The cleaner. *)

\* The cleaner runs only while its heap is open, and Close stops it.
LEMMA NextCleaning == ASSUME IInv, NEW p \in Proc, Acts(p), NEW q \in Proc PROVE Cleaning(q)'
  <1>t. /\ Typed /\ Cleaning(q) /\ Called(q) /\ Opened(q) /\ h \in [Proc -> Handle] /\ h[q] \in Handle
        /\ wk \in [Proc -> {"none", "sleep", "work", "selfclose", "exited"}] /\ dying \subseteq dying'
    BY NextPresent, Types DEF IInv, Local, Grows
  <1>1. CASE q # p
    <2>1. Still(q)
      BY <1>t, <1>1, OthersStill
    <2>2. QED
      BY <1>t, <2>1 DEF Cleaning, Still
  <1>2. CASE q = p
    <2> SUFFICES Cleaning(p)'
      BY <1>2
    <2>t. /\ Cleaning(p) /\ Called(p) /\ Opened(p) /\ h[p] \in Handle
          /\ wk[p] \in {"none", "sleep", "work", "selfclose", "exited"}
      BY <1>2, <1>t
    <2>g. ASSUME NEW label, NEW l, Goto(p, label, l) PROVE at'[p] = label
      BY <1>t, <2>g, GotoEffect
    <2>f. Finish(p) => at'[p] = "idle"
      BY <2>g DEF Finish
    \* A step that is not of Open or Close, and changes no more than what is mapped.
    <2> DEFINE Kept == /\ h'[p].kind = h[p].kind /\ h'[p].open = h[p].open /\ h'[p].hdr = h[p].hdr
                       /\ h'[p].invalid = h[p].invalid /\ h'[p].nobg = h[p].nobg
                       /\ h'[p].start = h[p].start /\ h'[p].running = h[p].running
    <2>k. ASSUME h'[p] = h[p] \/ \E top : HasOpened(p, top),
                 wk'[p] = wk[p],
                 at[p] \notin {"open_wait", "abort"}, at'[p] \notin {"open_shelves", "close"}
          PROVE  Cleaning(p)'
      <3>1. CASE h'[p] = h[p]
        BY <1>t, <2>k, <2>t, <3>1 DEF Cleaning
      <3>2. CASE \E top : HasOpened(p, top)
        <4>1. Kept
          BY <1>t, <3>2, OpenedHandle
        <4>2. QED
          BY <1>t, <2>k, <2>t, <4>1 DEF Cleaning
      <3>3. QED
        BY <2>k, <3>1, <3>2
    \* An object that is empty, or closed without a cleaner.
    <2>e. ASSUME h'[p] = NoHandle, wk'[p] = "none" PROVE Cleaning(p)'
      BY <2>e DEF Cleaning, NoHandle
    <2>c. ASSUME Closed(p), wk'[p] \in {"none", "exited", "selfclose"},
                 wk'[p] = wk[p] \/ (wk[p] = "selfclose" /\ wk'[p] = "exited")
          PROVE  Cleaning(p)'
      <3>1. h'[p] = [h[p] EXCEPT !.open = FALSE, !.hdr = None]
        BY <1>t, <2>c DEF Closed, Handle
      <3>2. /\ ~h'[p].open /\ h'[p].hdr = None
            /\ h'[p].kind = h[p].kind /\ h'[p].invalid = h[p].invalid
        BY <2>t, <3>1 DEF Handle
      <3>3. h[p].kind # "heap" => wk'[p] = "none" /\ ~h[p].invalid
        BY <2>c, <2>t DEF Cleaning
      <3>4. wk'[p] = "selfclose" => h[p].invalid
        BY <2>c, <2>t DEF Cleaning
      <3>5. QED
        BY <2>c, <3>2, <3>3, <3>4 DEF Cleaning
    <2>1. CASE UNCHANGED views /\ at[p] \notin SharedPC \cup {"abort"} /\ at'[p] \notin SharedPC
      BY <2>k, <2>1 DEF views, SharedPC
    <2>2. CASE Die(p)
      BY <2>e, <2>2, DieEffect
    <2>3. CASE Discard(p)
      <3>1. h'[p] = NoHandle /\ wk'[p] = "none"
        BY <1>t, <2>3 DEF Discard
      <3>2. QED
        BY <2>e, <3>1
    <2>4. CASE Find(p)
      <3>1. at[p] = "find" /\ wk'[p] = wk[p] /\ h[p].kind = "none" /\ at'[p] = "idle"
        BY <2>4, <2>f, <2>t DEF Find, Called
      <3>2. wk[p] = "none" /\ ~h[p].open /\ h[p].hdr = None /\ ~h[p].invalid
        BY <2>t, <3>1 DEF Cleaning
      <3>3. h' = h \/ \E k \in {"heap", "region"} : h' = [h EXCEPT ![p] = [h[p] EXCEPT !.kind = k]]
        BY <2>4 DEF Find
      <3>4. ~h'[p].open /\ h'[p].hdr = None /\ ~h'[p].invalid
        BY <1>t, <2>t, <3>2, <3>3 DEF Handle
      <3>5. QED
        BY <3>1, <3>2, <3>4 DEF Cleaning
    <2>5. CASE Open(p)
      <3>1. at[p] = "idle" /\ ~h[p].open /\ ~h[p].invalid /\ h[p].kind = type /\ type # "none" /\ wk' = wk
        BY <2>5 DEF Open, OpenHeader
      <3>2. wk[p] \in {"none", "exited"}
        BY <2>t, <3>1 DEF Cleaning
      <3>3. CASE h' = h
        BY <1>t, <2>t, <3>1, <3>2, <3>3 DEF Cleaning
      <3>4. CASE h' # h
        <4>1. CASE type = "heap"
          <5>1. h'[p] = [h[p] EXCEPT !.hdr = file[0]]
            BY <1>t, <2>5, <3>4, <4>1 DEF Open, OpenHeader
          <5>2. h'[p].kind = "heap" /\ ~h'[p].open
            BY <2>t, <3>1, <4>1, <5>1 DEF Handle
          <5>3. QED
            BY <3>1, <3>2, <5>2 DEF Cleaning
        <4>2. CASE type # "heap"
          <5>1. h'[p] = [h[p] EXCEPT !.open = TRUE, !.hdr = file[0]] /\ file[0] # None
            BY <1>t, <2>5, <3>4, <4>2 DEF Open
          <5>2. h'[p].kind = type /\ h'[p].hdr # None /\ ~h'[p].invalid
            BY <2>t, <3>1, <5>1 DEF Handle
          <5>3. wk[p] = "none"
            BY <2>t, <3>1, <4>2 DEF Cleaning
          <5>4. QED
            BY <3>1, <4>2, <5>2, <5>3 DEF Cleaning
        <4>3. QED
          BY <4>1, <4>2
      <3>5. QED
        BY <3>3, <3>4
    <2>6. CASE Close(p)
      <3>1. at[p] = "idle" /\ h[p].open
        BY <2>6 DEF Close
      <3>2. CASE h[p].kind = "heap"
        <4> DEFINE stops == ~h[p].invalid /\ ~h[p].nobg /\ h[p].running /\ h[p].start
        <4>1. h' = [h EXCEPT ![p].stop = stops] /\ wk' = wk /\ at'[p] = IF stops THEN "join" ELSE "close"
          BY <2>6, <2>g, <3>2 DEF Close, CloseBegin
        <4>2. /\ h'[p].kind = h[p].kind /\ h'[p].open = h[p].open /\ h'[p].hdr = h[p].hdr
              /\ h'[p].invalid = h[p].invalid /\ h'[p].nobg = h[p].nobg
              /\ h'[p].start = h[p].start /\ h'[p].running = h[p].running
          BY <1>t, <2>t, <4>1 DEF Handle
        <4>3. wk[p] \in {"sleep", "work"} => at'[p] = "join"
          BY <2>t, <3>1, <4>1 DEF Cleaning
        <4>4. at[p] # "open_wait" /\ at[p] # "abort" /\ at'[p] \in {"join", "close"}
          BY <3>1, <4>1
        <4> HIDE DEF stops
        <4>5. QED
          BY <1>t, <2>t, <4>1, <4>2, <4>3, <4>4 DEF Cleaning
      <3>3. CASE h[p].kind # "heap"
        <4>1. Closed(p) /\ wk' = wk
          BY <2>6, <3>3 DEF Close
        <4>2. wk[p] = "none"
          BY <2>t, <3>3 DEF Cleaning
        <4>3. QED
          BY <2>c, <4>1, <4>2
      <3>4. QED
        BY <3>2, <3>3
    <2>7. CASE Use(p)
      <3>1. at[p] = "idle" /\ wk' = wk
        BY <2>7, UseCases, UseViews DEF InUse, UseSees
      <3>2. at'[p] \notin {"open_shelves", "close"}
        BY <2>7, <2>g, <3>1, UseViews DEF UseGoes, Stays, UseResize, UsePerm, ResizeBegin, PermBegin
      <3>3. h'[p] = h[p] \/ \E top : HasOpened(p, top)
        BY <2>7, UseViews DEF UseSees
      <3>4. QED
        BY <2>k, <3>1, <3>2, <3>3
    <2>8. CASE Refresh(p) \/ PermRead(p)
      <3>1. at[p] \in {"refresh", "perm_read"} /\ wk' = wk
        BY <2>8 DEF Refresh, PermRead
      <3>2. at'[p] \in {"idle", "perm_shelf"}
        BY <2>8, <2>f, <2>g DEF Refresh, PermRead
      <3>3. Using(p)
        BY <2>8, <3>1, Users DEF HeaderPC, WritePC, PermPC
      <3>4. h'[p] = h[p] \/ OpenNewShelfs(p)
        BY <2>8 DEF Refresh, PermRead
      <3>5. h'[p] = h[p] \/ \E top : HasOpened(p, top)
        BY <3>3, <3>4, NewShelves
      <3>6. QED
        BY <2>k, <3>1, <3>2, <3>5
    <2>9. CASE DestroyShelf(p)
      <3>1. at[p] = "destroy_shelf" /\ h' = h /\ wk' = wk
        BY <2>9 DEF DestroyShelf
      <3>2. at'[p] \in {"destroy_shelf", "destroy_pool", "abort"}
        BY <2>9, <2>g DEF DestroyShelf, Abort, AbortIn
      <3>3. QED
        BY <2>k, <3>1, <3>2
    <2>10. CASE OpenAll(p)
      <3>1. h[p].kind = "heap" /\ h[p].hdr # None /\ ~h[p].open /\ ~h[p].invalid /\ at[p] = "open_shelves"
        BY <2>10, OpenAllViews DEF Holds, OpenAll
      <3>2. wk[p] \in {"none", "exited"}
        BY <2>t, <3>1 DEF Cleaning
      <3>3. PICK top \in 0 .. total : OpenedAll(p, top)
        BY <2>10, OpenAllViews
      <3>4. CASE UNCHANGED wk /\ at'[p] = "idle" /\ h' = [h EXCEPT ![p] = [@ EXCEPT !.mapped = top, !.hdr = None]]
        <4>1. h'[p].kind = "heap" /\ ~h'[p].open
          BY <1>t, <2>t, <3>1, <3>4 DEF Handle
        <4>2. QED
          BY <3>2, <3>4, <4>1 DEF Cleaning
      <3>5. CASE UNCHANGED wk /\ at'[p] = "idle"
                 /\ h' = [h EXCEPT ![p] = [@ EXCEPT !.open = TRUE, !.mapped = top, !.failed = FALSE, !.nobg = TRUE]]
        <4>1. h'[p].kind = "heap" /\ h'[p].hdr = h[p].hdr
          BY <1>t, <2>t, <3>1, <3>5 DEF Handle
        <4>2. QED
          BY <3>1, <3>2, <3>5, <4>1 DEF Cleaning
      <3>6. CASE StartWorker(p) /\ at'[p] = "open_wait"
                 /\ h' = [h EXCEPT ![p] = [@ EXCEPT !.open = TRUE, !.mapped = top, !.failed = FALSE, !.start = TRUE]]
        <4>1. h'[p].kind = "heap" /\ h'[p].hdr = h[p].hdr /\ h'[p].open /\ h'[p].start /\ ~h'[p].invalid
          BY <1>t, <2>t, <3>1, <3>6 DEF Handle
        <4>2. wk'[p] \in {"none", "exited", "sleep"}
          BY <1>t, <3>2, <3>6 DEF StartWorker
        <4>3. QED
          BY <3>1, <3>6, <4>1, <4>2 DEF Cleaning
      <3>7. QED
        BY <3>3, <3>4, <3>5, <3>6 DEF OpenedAll
    <2>11. CASE OpenWait(p)
      <3>1. at[p] = "open_wait" /\ h[p].running /\ wk' = wk /\ at'[p] = "idle" /\ h' = [h EXCEPT ![p].nobg = FALSE]
        BY <2>11, <2>f DEF OpenWait
      <3>2. /\ h'[p].kind = h[p].kind /\ h'[p].open = h[p].open /\ h'[p].hdr = h[p].hdr
            /\ h'[p].invalid = h[p].invalid /\ ~h'[p].nobg
            /\ h'[p].start = h[p].start /\ h'[p].running = h[p].running
        BY <1>t, <2>t, <3>1 DEF Handle
      <3>3. QED
        BY <1>t, <2>t, <3>1, <3>2 DEF Cleaning
    <2>12. CASE Join(p)
      <3>1. wk'[p] = "none" /\ h' = [h EXCEPT ![p] = [@ EXCEPT !.start = FALSE, !.stop = FALSE, !.running = FALSE]]
        BY <1>t, <2>12 DEF Join
      <3>2. /\ h'[p].kind = h[p].kind /\ h'[p].open = h[p].open /\ h'[p].hdr = h[p].hdr
            /\ h'[p].invalid = h[p].invalid
        BY <1>t, <2>t, <3>1 DEF Handle
      <3>3. QED
        BY <2>t, <3>1, <3>2 DEF Cleaning
    <2>13. CASE CloseShelves(p)
      <3>1. at[p] = "close" /\ wk' = wk
        BY <2>13 DEF CloseShelves
      <3>2. wk[p] \in {"none", "exited", "selfclose"}
        BY <2>t, <3>1 DEF Cleaning
      <3>3. CASE h' = h
        BY <1>t, <2>t, <3>1, <3>2, <3>3 DEF Cleaning
      <3>4. CASE Closed(p)
        BY <2>c, <3>1, <3>2, <3>4
      <3>5. QED
        BY <2>13, <3>3, <3>4 DEF CloseShelves
    <2>14. CASE Wake(p)
      <3>1. /\ wk[p] = "sleep" /\ Stays(p) /\ dying' = dying
            /\ h' = [h EXCEPT ![p].running = TRUE]
            /\ wk'[p] \in {"exited", "work", "sleep"} /\ (wk'[p] = "work" => h[p].hdr \in dying)
        BY <1>t, <2>14 DEF Wake, Stays, fam, header
      <3>2. /\ h'[p].kind = h[p].kind /\ h'[p].open = h[p].open /\ h'[p].hdr = h[p].hdr
            /\ h'[p].invalid = h[p].invalid /\ h'[p].nobg = h[p].nobg
            /\ h'[p].start = h[p].start /\ h'[p].running
        BY <1>t, <2>t, <3>1 DEF Handle
      <3>3. QED
        BY <2>t, <3>1, <3>2 DEF Cleaning, Stays
    <2>15. CASE Work(p)
      <3>1. wk[p] = "work" /\ wk'[p] = "selfclose" /\ dying' = dying /\ h' = [h EXCEPT ![p].invalid = TRUE]
        BY <1>t, <2>15 DEF Work, fam, header
      <3>2. h'[p].kind = h[p].kind /\ h'[p].open = h[p].open /\ h'[p].hdr = h[p].hdr /\ h'[p].invalid
        BY <1>t, <2>t, <3>1 DEF Handle
      <3>3. QED
        BY <2>t, <3>1, <3>2 DEF Cleaning
    <2>16. CASE NoEpochManager(p)
      <3>1. at'[p] = "abort" /\ wk'[p] = "none" /\ h' = h
        BY <1>t, <2>16, <2>g DEF NoEpochManager, AbortIn
      <3>2. QED
        BY <2>t, <3>1 DEF Cleaning
    <2>17. CASE SelfClose(p)
      <3>1. wk'[p] = "exited" /\ Closed(p)
        BY <1>t, <2>17 DEF SelfClose
      <3>2. wk[p] = "selfclose"
        BY <2>17 DEF SelfClose
      <3>3. QED
        BY <2>c, <3>1, <3>2
    <2>18. QED
      BY <2>1, <2>2, <2>3, <2>4, <2>5, <2>6, <2>7, <2>8, <2>9, <2>10, <2>11, <2>12, <2>13, <2>14, <2>15,
         <2>16, <2>17, ViewMoves DEF ViewStep
  <1>3. QED
    BY <1>1, <1>2

-----------------------------------------------------------------------------
(* Resize and SetPermission. *)

\* While one process resizes or changes permissions, nobody else changes the pool.
LEMMA WriterAlone ==
  ASSUME IInv, NEW p \in Proc, Acts(p), NEW q \in Proc \ {p}, at[q] \in WritePC
  PROVE  UNCHANGED <<pool, file, perm, total>>
  <1>1. Using(q)
    BY Users DEF HeaderPC
  <1>2. ~Creates(p)
    BY <1>1, UsingFacts, Workers
  <1>3. ~Destroys(p)
    BY Destroyers, Workers DEF HeaderPC
  <1>4. ~Resizes(p) /\ ~PermShelf(p)
    BY Workers DEF IInv, OneWriter
  <1>5. QED
    BY <1>2, <1>3, <1>4, SharedEffect DEF SharedMove, Quiet, SetsOp, SetType, fam, header

\* What a resize has read stays true until it is done.
LEMMA NextResizing == ASSUME IInv, NEW p \in Proc, Acts(p), NEW q \in Proc PROVE Resizing(q)'
  <1> USE DEF Resizing
  <1>t. /\ Typed /\ Resizing(q) /\ loc[q] \in Locals /\ total \in Nat /\ MaxData \in Nat /\ 0 \in Shelf
        /\ file \in [Shelf -> Life \cup {None}] /\ perm \in [Shelf -> Perm]
    BY Types, Constants DEF IInv, Local
  <1>1. CASE q # p
    <2>1. at'[q] = at[q] /\ loc'[q] = loc[q]
      BY <1>t, <1>1, OthersStill DEF Still
    <2>2. CASE at[q] \in ResizePC
      <3>1. UNCHANGED <<pool, file, perm, total>>
        BY <1>1, <2>2, WriterAlone DEF WritePC
      <3>2. QED
        BY <1>t, <2>1, <3>1
    <2>3. QED
      BY <2>1, <2>2 DEF ResizePC
  <1>2. CASE q = p
    <2> SUFFICES Resizing(p)'
      BY <1>2
    <2>t. Resizing(p) /\ loc[p] \in Locals
      BY <1>2, <1>t
    <2>g. ASSUME NEW label, NEW l, Goto(p, label, l) PROVE at'[p] = label /\ loc'[p] = l
      BY <1>t, <2>g, GotoEffect
    <2>1. CASE Cleans(p)
      BY <2>t, <2>1, CleansQuiet DEF Cleans, Stays, Quiet
    <2>2. CASE ResizeRead(p) /\ at'[p] = "resize_clean"
      <3>1. /\ total < MaxData /\ UNCHANGED <<perm, total>>
            /\ loc'[p] = [loc[p] EXCEPT !.n = total, !.perm = perm[0]]
        BY <2>2, <2>g DEF ResizeRead, Extensible, Finish
      <3>2. loc'[p].n = total /\ loc'[p].perm = perm[0]
        BY <2>t, <3>1 DEF Locals
      <3>3. QED
        BY <2>2, <3>1, <3>2
    <2>3. CASE ResizeClean(p)
      <3>1. /\ at[p] = "resize_clean" /\ at'[p] = "resize_add" /\ loc'[p] = loc[p] /\ total' = total
            /\ perm' = [perm EXCEPT ![loc[p].n + 1] = 1]
        BY <2>3, <2>g DEF ResizeClean, RemoveShelf, header
      <3>2. perm'[0] = perm[0]
        BY <1>t, <2>t, <3>1
      <3>3. QED
        BY <2>t, <3>1, <3>2
    <2>4. CASE ResizeAdd(p)
      <3>1. /\ at[p] = "resize_add" /\ at'[p] = "resize_count" /\ total' = total
            /\ perm' = [perm EXCEPT ![loc[p].n + 1] = loc[p].perm]
            /\ file' = [file EXCEPT ![loc[p].n + 1] = lives]
        BY <2>4, <2>g DEF ResizeAdd, AddShelf, header
      <3>2. loc[p].n = total /\ total < MaxData /\ loc[p].perm = perm[0] /\ total + 1 \in Shelf /\ total + 1 # 0
        BY <1>t, <2>t, <3>1 DEF Shelf
      <3>3. lives # None
        BY <3>1, Users, UsingFacts DEF HeaderPC, WritePC, ResizePC, None
      <3>4. perm'[0] = perm[0] /\ perm'[total + 1] = perm[0] /\ file'[total + 1] # None
        BY <1>t, <3>1, <3>2, <3>3
      <3>5. QED
        BY <3>1, <3>2, <3>4
    <2>5. at'[p] \in {"resize_clean", "resize_add", "resize_count"} =>
            Cleans(p) \/ ResizeRead(p) \/ ResizeClean(p) \/ ResizeAdd(p)
      BY Arrive, BootEffect DEF Moves, Boots1, ToCall, ToCreate, ToDestroy, ToOpen, ToWrite, EarlyPC, StartPC
    <2>6. ResizeRead(p) => at'[p] \in {"resize_clean", "idle"}
      BY <2>g DEF ResizeRead, Finish
    <2>7. QED
      BY <2>1, <2>2, <2>3, <2>4, <2>5, <2>6
  <1>3. QED
    BY <1>1, <1>2

\* A change of permissions has written every shelf below the one it is at.
LEMMA NextPermitting == ASSUME IInv, NEW p \in Proc, Acts(p), NEW q \in Proc PROVE Permitting(q)'
  <1>t. /\ Typed /\ Permitting(q) /\ loc[q] \in Locals /\ total \in Nat /\ MaxData \in Nat /\ 0 \in Shelf
        /\ h[q] \in Handle /\ h \in [Proc -> Handle] /\ total <= MaxData
        /\ file \in [Shelf -> Life \cup {None}] /\ perm \in [Shelf -> Perm]
    BY Types, Constants DEF IInv, Local
  <1>q. ASSUME UNCHANGED <<file, perm, total>>, at'[q] = at[q], loc'[q] = loc[q],
               h'[q].mapped = h[q].mapped, h'[q].failed = h[q].failed
        PROVE  Permitting(q)'
    BY <1>q, <1>t DEF Permitting, Agree
  <1>1. CASE q # p
    <2>1. at'[q] = at[q] /\ loc'[q] = loc[q] /\ h'[q] = h[q]
      BY <1>t, <1>1, OthersStill DEF Still
    <2>2. CASE at[q] \in PermPC
      <3>1. UNCHANGED <<pool, file, perm, total>>
        BY <1>1, <2>2, WriterAlone DEF WritePC
      <3>2. QED
        BY <1>q, <2>1, <3>1
    <2>3. QED
      BY <2>1, <2>2 DEF PermPC, Permitting
  <1>2. CASE q = p
    <2> SUFFICES Permitting(p)'
      BY <1>2
    <2>t. Permitting(p) /\ loc[p] \in Locals /\ h[p] \in Handle
      BY <1>2, <1>t
    <2>g. ASSUME NEW label, NEW l, Goto(p, label, l) PROVE at'[p] = label /\ loc'[p] = l
      BY <1>t, <2>g, GotoEffect
    <2>1. CASE Cleans(p)
      <3>1. h'[p].mapped = h[p].mapped /\ h'[p].failed = h[p].failed
        <4>1. CASE Wake(p)
          BY <1>t, <2>t, <4>1 DEF Wake, Handle
        <4>2. CASE Work(p)
          BY <1>t, <2>t, <4>2 DEF Work, Handle
        <4>3. CASE SelfClose(p)
          BY <1>t, <2>t, <4>3 DEF SelfClose, Closed, Handle
        <4>4. QED
          BY <2>1, <4>1, <4>2, <4>3 DEF Cleans
      <3>2. QED
        BY <1>2, <1>q, <2>1, <3>1, CleansQuiet DEF Cleans, Stays, Quiet
    <2>2. CASE PermRead(p) /\ at'[p] = "perm_shelf"
      <3>1. Using(p)
        BY <2>2, Users DEF PermRead, HeaderPC, WritePC, PermPC
      <3>2. /\ OpenNewShelfs(p) /\ UNCHANGED <<perm, total>>
            /\ loc'[p] = [loc[p] EXCEPT !.k = 1, !.n = total]
        BY <2>2, <2>g DEF PermRead, Finish
      <3>3. PICK top \in 0 .. total : HasOpened(p, top)
        BY <3>1, <3>2, NewShelves
      <3>4. h'[p].mapped = top /\ h'[p].failed = (top < total)
        BY <1>t, <3>3, OpenedHandle
      <3>5. h'[p].mapped = total' \/ h'[p].failed
        <4>1. top = total \/ top < total
          BY <1>t, <3>3
        <4>2. total' = total
          BY <3>2
        <4>3. QED
          BY <3>4, <4>1, <4>2
      <3>6. loc'[p].n = total /\ loc'[p].k = 1 /\ loc'[p].call = loc[p].call
        BY <2>t, <3>2 DEF Locals
      <3>7. loc[p].call = "perm"
        BY <2>2, <2>t DEF PermRead, Permitting, PermPC
      <3>8. QED
        BY <1>t, <2>2, <3>2, <3>5, <3>6, <3>7 DEF Permitting
    <2>3. CASE PermShelf(p)
      <3> DEFINE k == loc[p].k
                 m == loc[p].perm
      <3>1. /\ at[p] = "perm_shelf" /\ UNCHANGED <<file, total>> /\ h' = h
            /\ k \in Nat /\ loc[p].n = total /\ 1 <= k /\ k <= total + 1
            /\ h[p].mapped = total \/ h[p].failed
            /\ loc[p].call = "perm"
            /\ \A s \in 1 .. k - 1 : perm[s] = m
        BY <1>t, <2>t, <2>3 DEF PermShelf, Permitting, PermPC, Locals, header, views
      <3>2. CASE k <= total
        <4>1. k \in Shelf /\ k > 0
          BY <1>t, <3>1, <3>2 DEF Shelf
        <4>2. at'[p] = "abort" \/ /\ perm' = [perm EXCEPT ![k] = m] /\ at'[p] = "perm_shelf"
                                  /\ loc'[p] = [loc[p] EXCEPT !.k = k + 1]
          BY <2>3, <2>g, <3>1, <3>2, <4>1 DEF PermShelf, Abort, AbortIn
        <4>3. CASE at'[p] = "abort"
          BY <4>3 DEF Permitting, PermPC
        <4>4. CASE /\ perm' = [perm EXCEPT ![k] = m] /\ at'[p] = "perm_shelf"
                   /\ loc'[p] = [loc[p] EXCEPT !.k = k + 1]
          <5>1. loc'[p].k = k + 1 /\ loc'[p].n = total /\ loc'[p].perm = m /\ loc'[p].call = "perm"
            BY <2>t, <3>1, <4>4 DEF Locals
          <5>2. \A s \in 1 .. k : perm'[s] = m
            <6>1. SUFFICES ASSUME NEW s \in 1 .. k PROVE perm'[s] = m
              OBVIOUS
            <6>2. CASE s = k
              BY <1>t, <4>1, <4>4, <6>2
            <6>3. CASE s # k
              BY <1>t, <3>1, <4>4, <6>3
            <6>4. QED
              BY <6>2, <6>3
          <5>3. (k + 1) - 1 = k
            BY <3>1
          <5>4. (h'[p].mapped = total' \/ h'[p].failed) /\ 1 <= k + 1 /\ k + 1 <= total' + 1
            BY <1>t, <3>1, <3>2
          <5>5. \A s \in 1 .. loc'[p].k - 1 : perm'[s] = loc'[p].perm
            BY <5>1, <5>2, <5>3
          <5>6. QED
            BY <3>1, <4>4, <5>1, <5>4, <5>5 DEF Permitting
        <4>5. QED
          BY <4>2, <4>3, <4>4
      <3>3. CASE ~(k <= total)
        <4>1. perm' = [perm EXCEPT ![0] = m] /\ at'[p] = "perm_done" /\ loc'[p] = loc[p]
          BY <2>3, <2>g, <3>1, <3>3 DEF PermShelf, Unopened
        <4>2. k - 1 = total /\ \A s \in 1 .. total : s # 0
          BY <1>t, <3>1, <3>3
        <4>3. perm'[0] = m /\ \A s \in 1 .. total : perm'[s] = m
          BY <1>t, <3>1, <4>1, <4>2
        <4>4. QED
          BY <3>1, <4>1, <4>3 DEF Permitting, Agree
      <3>4. QED
        BY <3>2, <3>3
    <2>8. CASE Use(p)
      <3>1. at[p] = "idle"
        BY <2>8 DEF Use, InUse
      <3>2. CASE UsePerm(p)
        <4>1. PICK mode \in Perm : PermBegin(p, mode)
          BY <3>2 DEF UsePerm
        <4>2. at'[p] = "perm_read" /\ loc'[p] = [loc[p] EXCEPT !.call = "perm", !.perm = mode]
          BY <2>g, <4>1 DEF PermBegin
        <4>3. loc'[p].call = "perm"
          BY <2>t, <4>2 DEF Locals
        <4>4. QED
          BY <4>2, <4>3 DEF Permitting
      <3>3. CASE UseResize(p)
        BY <2>g, <3>3 DEF UseResize, ResizeBegin, Permitting, PermPC
      <3>4. CASE UseGoes(p)
        BY <3>1, <3>4 DEF UseGoes, Stays, Permitting, PermPC
      <3>5. QED
        BY <2>8, <3>2, <3>3, <3>4, UseViews
    <2>4. at'[p] \in PermPC => Cleans(p) \/ PermRead(p) \/ PermShelf(p) \/ Use(p)
      BY Arrive, BootEffect DEF Moves, Boots1, ToCall, ToCreate, ToDestroy, ToOpen, ToWrite, EarlyPC, StartPC,
         PermPC
    <2>5. PermRead(p) => at'[p] \in {"perm_shelf", "idle"}
      BY <2>g DEF PermRead, Finish
    <2>6. at'[p] \notin PermPC => Permitting(p)'
      BY DEF Permitting, PermPC
    <2>7. QED
      BY <2>1, <2>2, <2>3, <2>4, <2>5, <2>6, <2>8 DEF PermPC
  <1>3. QED
    BY <1>1, <1>2

\* Every step but those of SetPermission keeps the permissions in agreement.
LEMMA AgreeStays == ASSUME IInv, NEW p \in Proc, Acts(p), Agree, ~PermShelf(p) PROVE Agree'
  <1>t. /\ Typed /\ Resizing(p) /\ Creating(p) /\ Removing(p) /\ loc[p] \in Locals /\ total \in Nat /\ 0 \in Shelf
        /\ file \in [Shelf -> Life \cup {None}] /\ perm \in [Shelf -> Perm] /\ total <= MaxData
        /\ \A s \in 1 .. total : s \in Shelf /\ s # 0 /\ s # total + 1 /\ s \in Nat
    BY Types, Constants DEF IInv, Local, Shelf
  <1>e. ASSUME UNCHANGED total, UNCHANGED <<file, perm>> \/ RemoveShelves PROVE Agree'
    <2>1. \A s \in 1 .. total : s \in Shelf
      BY <1>t
    <2>2. CASE RemoveShelves
      BY <1>e, <2>1, <2>2 DEF Agree, RemoveShelves
    <2>3. QED
      BY <1>e, <2>2 DEF Agree
  <1>1. CASE Quiet \/ SetsOp(p) \/ SetType(p)
    BY <1>1, <1>e DEF Quiet, SetsOp, SetType, fam, header
  <1>2. CASE Resizes(p)
    <2>1. CASE ResizeClean(p)
      <3>1. /\ loc[p].n = total /\ total' = total /\ file' = [file EXCEPT ![total + 1] = None]
            /\ perm' = [perm EXCEPT ![total + 1] = 1]
        BY <1>t, <2>1 DEF ResizeClean, Resizing, RemoveShelf, header
      <3>2. QED
        BY <1>t, <3>1 DEF Agree
    <2>2. CASE ResizeAdd(p)
      <3>1. /\ loc[p].n = total /\ total' = total /\ file' = [file EXCEPT ![total + 1] = lives]
            /\ perm' = [perm EXCEPT ![total + 1] = loc[p].perm]
        BY <1>t, <2>2 DEF ResizeAdd, Resizing, AddShelf, header
      <3>2. QED
        BY <1>t, <3>1 DEF Agree
    <2>3. CASE ResizeCount(p)
      <3>1. perm[total + 1] = perm[0] /\ total' = total + 1 /\ UNCHANGED <<file, perm>>
        BY <1>t, <2>3 DEF ResizeCount, Resizing
      <3>2. \A s \in 1 .. total' : s \in 1 .. total \/ s = total + 1
        BY <1>t, <3>1
      <3>3. QED
        BY <3>1, <3>2 DEF Agree
    <2>4. QED
      BY <1>2, <2>1, <2>2, <2>3 DEF Resizes
  <1>3. CASE Creates(p)
    <2>1. CASE CreatePool(p)
      BY <1>e, <2>1 DEF CreatePool, header
    <2>2. CASE CreateHeader(p) \/ CreateZone(p) \/ RegionShelf(p)
      <3>1. total' = 0
        BY <1>t, <2>2 DEF CreateHeader, CreateZone, RegionShelf, Creating, NewPC, header
      <3>2. QED
        BY <3>1 DEF Agree
    <2>3. CASE WriteTotal(p)
      <3>1. total' = 1 /\ UNCHANGED <<file, perm>> /\ perm[0] = 1 /\ perm[1] = 1
        BY <1>t, <2>3 DEF WriteTotal, Creating
      <3>2. \A s \in 1 .. total' : s = 1
        BY <3>1
      <3>3. QED
        BY <3>1, <3>2 DEF Agree
    <2>4. QED
      BY <1>3, <2>1, <2>2, <2>3 DEF Creates
  <1>4. CASE Destroys(p)
    <2>1. CASE DestroyBegin(p)
      BY <1>e, <2>1 DEF DestroyBegin
    <2>2. CASE DestroyShelf(p)
      <3> DEFINE k == IF loc[p].k <= loc[p].n THEN loc[p].k ELSE 0
      <3>1. /\ total' = total /\ loc[p].n = total /\ loc[p].k \in Nat /\ 1 <= loc[p].k /\ loc[p].k <= total + 1
            /\ \A s \in 1 .. total : file[s] = None <=> s < loc[p].k
        BY <1>t, <2>2 DEF DestroyShelf, Removing, Locals, header
      <3>2. UNCHANGED <<file, perm>> \/ RemoveShelf(k)
        BY <2>2 DEF DestroyShelf
      <3>3. CASE RemoveShelf(k) /\ k # 0
        <4>1. file' = [file EXCEPT ![k] = None] /\ perm' = [perm EXCEPT ![k] = 1] /\ perm'[0] = perm[0]
          BY <1>t, <3>3 DEF RemoveShelf
        <4>2. QED
          BY <1>t, <3>1, <4>1 DEF Agree
      <3>4. CASE RemoveShelf(k) /\ k = 0
        <4>1. file' = [file EXCEPT ![0] = None]
          BY <3>4 DEF RemoveShelf
        <4>2. \A s \in 1 .. total : file[s] = None
          BY <1>t, <3>1, <3>4
        <4>3. QED
          BY <1>t, <3>1, <4>1, <4>2 DEF Agree
      <3>5. QED
        BY <1>e, <3>1, <3>2, <3>3, <3>4
    <2>3. CASE DestroyPool(p)
      <3>1. total' = 0
        BY <2>3 DEF DestroyPool
      <3>2. QED
        BY <3>1 DEF Agree
    <2>4. CASE RegionDestroy(p)
      BY <1>e, <2>4 DEF RegionDestroy, header
    <2>5. QED
      BY <1>4, <2>1, <2>2, <2>3, <2>4 DEF Destroys
  <1>5. QED
    BY <1>1, <1>2, <1>3, <1>4, SharedEffect DEF SharedMove

\* A change that stopped half-way is forgotten by the next life, or the next change.
LEMMA TornStays ==
  ASSUME IInv, NEW p \in Proc, Acts(p)
  PROVE  \/ /\ torn' = torn /\ ~Die(p) /\ ~NoEpochManager(p) /\ ~PermFails(p)
            /\ ~(PermShelf(p) /\ Unopened(p))
         \/ torn' = (torn \/ HalfWay(p))
         \/ CreatePool(p) /\ ~pool
         \/ PermDone(p)
  <1> USE DEF history
  <1>1. CASE Die(p) \/ NoEpochManager(p) \/ PermFails(p) \/ (PermShelf(p) /\ Unopened(p))
    BY <1>1 DEF Die, NoEpochManager, PermFails, PermShelf
  <1>2. CASE BootStep(p)
    BY <1>1, <1>2, BootEffect
  <1>3. CASE CallStep(p)
    BY <1>1, <1>3 DEF CallStep, BeginStep, CreateHeap, DestroyHeap, FindHeap, CreateRegion, DestroyRegion,
       FindRegion, Begin, Ask, RegionShelf, RegionDestroy, SetType, Unlock, Find
  <1>4. CASE UserStep(p)
    BY <1>1, <1>4 DEF UserStep, Open, Close, Discard, Use
  <1>5. CASE HeapStep(p)
    <2>1. CASE CreatePool(p)
      BY <1>1, <2>1 DEF CreatePool
    <2>2. CASE PermShelf(p)
      BY <1>1, <2>2 DEF PermShelf
    <2>3. CASE ~CreatePool(p) /\ ~PermDone(p) /\ ~PermShelf(p)
      BY <1>1, <1>5, <2>3 DEF HeapStep, CreateFails, CreateHeader, CreateZone, WriteTotal, DestroyBegin,
         DestroyShelf, DestroyPool, OpenAll, OpenWait, Join, CloseShelves, Wake, Work, SelfClose, ResizeRead,
         ResizeClean, ResizeAdd, ResizeFails, ResizeCount, ResizeDone, Refresh, PermRead
    <2>4. QED
      BY <2>1, <2>2, <2>3
  <1>6. QED
    BY <1>1, <1>2, <1>3, <1>4, <1>5 DEF Acts

\* Who has changed some of the shelves goes on, or the change stops half-way.
LEMMA HalfWayStays ==
  ASSUME IInv, NEW p \in Proc, Acts(p), HalfWay(p)
  PROVE  PermShelf(p) \/ HalfWay(p)' \/ torn'
  <1>1. at[p] = "perm_shelf"
    BY DEF HalfWay
  <1>2. CASE Die(p) \/ NoEpochManager(p) \/ PermFails(p)
    BY <1>2 DEF Die, NoEpochManager, PermFails
  <1>3. CASE Cleans(p)
    BY <1>3 DEF Cleans, Stays, HalfWay
  <1>4. ~Boots1(p)
    BY <1>1, BootEffect DEF Boots1, EarlyPC, StartPC
  <1>5. ~ToCall(p) /\ ~ToCreate(p) /\ ~ToDestroy(p)
    BY <1>1 DEF ToCall, Ask, BeginStep, CreateHeap, DestroyHeap, FindHeap, CreateRegion, DestroyRegion,
       FindRegion, Begin, SetType, Unlock, Find, ToCreate, CreatePool, CreateFails, CreateHeader,
       CreateZone, WriteTotal, RegionShelf, ToDestroy, DestroyBegin, DestroyShelf, RegionDestroy, DestroyPool
  <1>6. ToOpen(p) => NoEpochManager(p)
    BY <1>1 DEF ToOpen, Open, OpenAll, OpenWait, Close, Join, CloseShelves, Discard
  <1>7. ToWrite(p) => PermShelf(p) \/ PermFails(p)
    BY <1>1, UseCases DEF ToWrite, InUse, ResizeRead, ResizeClean, ResizeAdd, ResizeFails, ResizeCount,
       ResizeDone, Refresh, PermRead, PermDone
  <1>8. QED
    BY <1>2, <1>3, <1>4, <1>5, <1>6, <1>7, Arrive DEF Moves

\* The permissions agree when nobody is changing them, unless a change stopped half-way.
LEMMA NextAgreed == ASSUME IInv, NEW p \in Proc, Acts(p) PROVE Agreed'
  <1>1. SUFFICES ASSUME ~torn', \A q \in Proc : ~HalfWay(q)' PROVE Agree'
    BY DEF Agreed
  <1>t. Typed /\ Agreed /\ Creating(p) /\ Permitting(p) /\ Present /\ total \in Nat /\ loc[p] \in Locals
    BY Types DEF IInv, Local
  <1>o. \A q \in Proc \ {p} : ~HalfWay(q)
    BY <1>1, <1>t, OthersStill DEF Still, HalfWay
  <1>2. CASE PermShelf(p) /\ Unopened(p)
    <2>1. UNCHANGED <<perm, total, file>> /\ torn' = (torn \/ HalfWay(p))
      BY <1>2 DEF PermShelf, header
    <2>2. Agree
      BY <1>1, <1>o, <1>t, <2>1 DEF Agreed
    <2>3. QED
      BY <2>1, <2>2 DEF Agree
  <1>3. CASE PermShelf(p) /\ ~Unopened(p)
    <2>1. loc[p].k \in Nat /\ 1 <= loc[p].k
      BY <1>3, <1>t DEF PermShelf, Permitting, Locals
    <2>2. ASSUME NEW label, NEW l, Goto(p, label, l) PROVE at'[p] = label /\ loc'[p] = l
      BY <1>t, <2>2, GotoEffect
    <2>3. CASE loc[p].k <= loc[p].n
      <3>1. at'[p] = "perm_shelf" /\ loc'[p] = [loc[p] EXCEPT !.k = loc[p].k + 1]
        BY <1>3, <2>1, <2>2, <2>3 DEF PermShelf
      <3>2. loc'[p].k > 1
        BY <1>t, <2>1, <3>1 DEF Locals
      <3>3. QED
        BY <1>1, <3>1, <3>2 DEF HalfWay
    <2>4. CASE ~(loc[p].k <= loc[p].n)
      <3>1. at'[p] = "perm_done"
        BY <1>3, <2>2, <2>4 DEF PermShelf
      <3>2. QED
        BY <3>1, NextPermitting DEF Permitting
    <2>5. QED
      BY <2>3, <2>4
  <1>4. CASE ~PermShelf(p)
    <2>1. \A q \in Proc : ~HalfWay(q)
      BY <1>1, <1>4, <1>o, HalfWayStays
    <2>2. CASE ~torn
      BY <1>4, <1>t, <2>1, <2>2, AgreeStays DEF Agreed
    <2>3. CASE PermDone(p)
      <3>1. Agree
        BY <1>t, <2>3 DEF PermDone, Permitting
      <3>2. QED
        BY <1>4, <3>1, AgreeStays
    <2>4. CASE CreatePool(p) /\ ~pool
      <3>1. total' = 0
        BY <1>t, <2>4 DEF CreatePool, Present, header
      <3>2. QED
        BY <3>1 DEF Agree
    <2>5. QED
      BY <1>1, <2>2, <2>3, <2>4, TornStays
  <1>5. QED
    BY <1>2, <1>3, <1>4

-----------------------------------------------------------------------------
(* The type. *)

\* Who has not begun to change the id has just asked, or had not before.
LEMMA CameUntouched ==
  ASSUME IInv, NEW p \in Proc, Acts(p), Untouched(p)'
  PROVE  Untouched(p) \/ Asks(p) \/ CreateFails(p) \/ SetType(p)
  <1> USE DEF Untouched
  <1>t. Typed /\ loc[p] \in Locals /\ NoLocals \in Locals
    BY Types, Empty DEF IInv
  <1>r. ASSUME Return(p, TRUE) PROVE FALSE
    <2>1. at'[p] = "returned" /\ loc'[p] = [NoLocals EXCEPT !.call = loc[p].call, !.ok = TRUE]
      BY <1>t, <1>r, GotoEffect DEF Return
    <2>2. loc'[p].ok = TRUE
      BY <1>t, <2>1 DEF Locals
    <2>3. QED
      BY <2>1, <2>2
  <1>1. CASE Boots1(p) \/ Die(p) \/ ToOpen(p) \/ ToWrite(p)
    BY <1>1, BootEffect, DieEffect DEF Boots1, EarlyPC, StartPC, ToOpen, ToWrite
  <1>2. CASE ToCall(p)
    BY <1>2 DEF ToCall, Ask, Draw, Asks, BeginStep, CreateHeap, DestroyHeap, FindHeap, CreateRegion,
       DestroyRegion, FindRegion, Begin, Unlock
  <1>3. CASE ToCreate(p)
    BY <1>3, <1>r DEF ToCreate, CreatePool, WriteTotal, RegionShelf
  <1>4. CASE ToDestroy(p)
    BY <1>4, <1>r DEF ToDestroy, DestroyBegin, DestroyPool, RegionDestroy
  <1>5. CASE Cleans(p)
    BY <1>5 DEF Cleans, Stays
  <1>6. QED
    BY <1>1, <1>2, <1>3, <1>4, <1>5, Arrive DEF Moves

\* If nobody has begun to change the id, then nobody had before.
LEMMA WasOrderly ==
  ASSUME IInv, NEW p \in Proc, Acts(p), Orderly' PROVE Orderly \/ CreateFails(p) \/ SetType(p)
  <1>1. SUFFICES ASSUME ~CreateFails(p), ~SetType(p), lock # <<>> PROVE \E q \in Proc : Served(q) /\ Untouched(q)
    BY DEF Orderly
  <1>t. Typed /\ Tickets /\ lock \in Seq(Proc \cup {Gone}) /\ Gone \notin Proc
    BY Types, Constants DEF IInv
  <1>o. \A q \in Proc \ {p} : Untouched(q)' => Untouched(q)
    BY <1>t, OthersStill DEF Still, Untouched
  <1>2. CASE Keeps(p)
    <2>1. PICK q \in Proc : Served(q)' /\ Untouched(q)'
      BY <1>1, <1>2 DEF Keeps, Orderly
    <2>2. Served(q)
      BY <1>2, <2>1 DEF Keeps, Served
    <2>3. ~Asks(p)
      <3>1. Len(Append(lock, p)) = Len(lock) + 1
        BY <1>t
      <3>2. Append(lock, p) # lock
        BY <1>t, <3>1
      <3>3. QED
        BY <1>2, <3>2 DEF Keeps, Asks
    <2>4. Untouched(q)
      BY <1>1, <1>o, <2>1, <2>3, CameUntouched
    <2>5. QED
      BY <2>2, <2>4
  <1>3. CASE Asks(p)
    <2>1. lock' # <<>> /\ Head(lock') = Head(lock)
      BY <1>1, <1>3, <1>t DEF Asks
    <2>2. PICK q \in Proc : Served(q)' /\ Untouched(q)'
      BY <2>1 DEF Orderly
    <2>3. Served(q) /\ Ticket(q)
      <3>1. Served(q) /\ 1 \in DOMAIN lock /\ Head(lock) = lock[1]
        BY <1>1, <1>t, <2>1, <2>2 DEF Served
      <3>2. QED
        BY <3>1 DEF Served, Ticket
    <2>4. q # p
      BY <1>3, <1>t, <2>3 DEF Asks, Tickets, WaitPC, ChangePC, CreatePC, DestroyPC
    <2>5. QED
      BY <1>o, <2>2, <2>3, <2>4
  <1>4. CASE Unlocks(p)
    BY <1>4, Turn DEF Unlocks, Untouched
  <1>5. CASE Dies(p)
    <2>1. /\ DOMAIN lock' = DOMAIN lock
          /\ \A i \in DOMAIN lock : lock'[i] = IF lock[i] = p THEN Gone ELSE lock[i]
      BY <1>5 DEF Dies
    <2>2. lock' \in Seq(Proc \cup {Gone})
      BY NextTickets
    <2>3. 1 \in DOMAIN lock /\ Head(lock) = lock[1] /\ lock' # <<>> /\ Head(lock') = lock'[1]
      BY <1>1, <1>t, <2>1, <2>2
    <2>4. PICK q \in Proc : Served(q)' /\ Untouched(q)'
      BY <2>3 DEF Orderly
    <2>5. lock[1] = q /\ q # p
      BY <1>t, <2>1, <2>3, <2>4 DEF Served
    <2>6. QED
      BY <1>1, <1>o, <2>3, <2>4, <2>5 DEF Served
  <1>6. QED
    BY <1>2, <1>3, <1>4, <1>5, Flow

\* The type tells what is there while the one that is served has not begun to change it.
LEMMA NextTold == ASSUME IInv, NEW p \in Proc, Acts(p) PROVE Told'
  <1>1. SUFFICES ASSUME Orderly' PROVE Tells'
    BY DEF Told
  <1>t. /\ Typed /\ Present /\ Told /\ Creating(p) /\ Called(p) /\ Resizing(p) /\ loc[p] \in Locals
        /\ 0 \in Shelf /\ 1 \in Shelf /\ 0 \notin dying /\ None = 0 /\ total \in Nat
        /\ file \in [Shelf -> Life \cup {None}] /\ \A s \in Data : s \in Shelf /\ s # 0
    BY Types, Constants DEF IInv, Local, Data, Shelf
  <1>f. file[0] \in {None, lives}
    BY <1>t DEF Present
  <1>2. CASE SetType(p)
    <2>1. at[p] = "returned" /\ UNCHANGED <<pool, file, total, dying>>
      BY <1>2 DEF SetType, fam, header
    <2>2. CASE ~loc[p].ok
      <3>1. Tells
        BY <2>1, <2>2, Turn, TellsTheServed DEF Untouched, ChangePC
      <3>2. type' = type
        BY <1>2, <2>2 DEF SetType
      <3>3. QED
        BY <2>1, <3>1, <3>2 DEF Tells
    <2>3. CASE loc[p].ok
      <3>1. type' = CASE loc[p].call = "createheap" -> "heap"
                      [] loc[p].call = "createregion" -> "region"
                      [] OTHER -> "none"
        BY <1>2, <2>3 DEF SetType
      <3>2. CASE loc[p].call = "createheap"
        <4>1. Unknown /\ file[0] # None /\ total > 0 /\ type' = "heap"
          BY <1>t, <2>1, <2>3, <3>1, <3>2 DEF Creating
        <4>2. QED
          BY <1>f, <2>1, <4>1 DEF Tells, Unknown
      <3>3. CASE loc[p].call = "createregion"
        <4>1. Unknown /\ file[0] # None /\ type' = "region" /\ \A s \in Data : file[s] = None
          BY <1>t, <2>1, <2>3, <3>1, <3>3 DEF Creating
        <4>2. QED
          BY <1>f, <2>1, <4>1 DEF Tells, Unknown
      <3>4. CASE loc[p].call \in DestroyCalls
        <4>1. ~pool /\ type' = "none"
          BY <1>t, <2>1, <2>3, <3>1, <3>4 DEF Creating, DestroyCalls
        <4>2. file[0] = None
          BY <1>t, <4>1 DEF Present
        <4>3. QED
          BY <1>t, <2>1, <4>1, <4>2 DEF Tells
      <3>5. QED
        BY <1>t, <2>1, <3>2, <3>3, <3>4 DEF Called
    <2>4. QED
      BY <2>2, <2>3
  <1>n. ASSUME Unknown, type' = type, dying' = dying, file'[0] \in {None, file[0], lives} PROVE Tells'
    BY <1>n, <1>t, <1>f DEF Tells, Unknown
  <1>3. CASE CreateFails(p)
    <2>1. at[p] \in NewPC /\ UNCHANGED fam /\ ~SetType(p)
      BY <1>3 DEF CreateFails, NewPC, SetType
    <2>2. Unknown /\ type' = type
      BY <1>t, <2>1, TypeStays DEF Creating
    <2>3. QED
      BY <1>n, <2>1, <2>2 DEF fam, header
  <1>4. CASE ~SetType(p) /\ ~CreateFails(p)
    <2>1. Tells
      BY <1>1, <1>4, <1>t, WasOrderly DEF Told
    <2>2. type' = type
      BY <1>4, TypeStays
    <2>3. CASE Quiet \/ SetsOp(p)
      BY <2>1, <2>3 DEF Quiet, SetsOp, Tells
    <2>4. CASE Resizes(p) \/ PermShelf(p)
      <3>1. Using(p) /\ type = "heap" /\ pool
        BY <2>4, Workers, UsingFacts
      <3>2. ~Unknown /\ at[p] \in HeaderPC
        BY <2>4, <3>1, Workers DEF Unknown, HeaderPC
      <3>3. file'[0] = file[0] /\ dying' = dying /\ total' >= total
        BY <3>1, <3>2, Undisturbed DEF Using
      <3>4. pool' = pool /\ total' \in Nat
        <4>1. total' \in Nat
          BY NextPresent, Constants DEF SharedTyped
        <4>2. QED
          BY <2>4, <4>1 DEF Resizes, ResizeClean, ResizeAdd, ResizeCount, PermShelf
      <3>5. QED
        BY <1>t, <2>1, <2>2, <3>1, <3>3, <3>4 DEF Tells
    <2>5. CASE Creates(p)
      <3>1. CASE CreatePool(p)
        <4>1. type = "none" /\ UNCHANGED <<file, dying>>
          BY <1>t, <3>1 DEF CreatePool, Creating, header
        <4>2. QED
          BY <2>1, <2>2, <4>1 DEF Tells
      <3>2. CASE ~CreatePool(p)
        <4>1. Unknown /\ dying' = dying
          BY <1>t, <2>5, <3>2 DEF Creates, CreateHeader, CreateZone, WriteTotal, RegionShelf, Creating, NewPC, header
        <4>2. file'[0] \in {None, file[0], lives}
          BY <1>t, <2>5, <3>2 DEF Creates, CreateHeader, CreateZone, WriteTotal, RegionShelf, AddShelf
        <4>3. QED
          BY <1>n, <2>2, <4>1, <4>2
      <3>3. QED
        BY <3>1, <3>2
    <2>6. CASE Destroys(p)
      <3>1. at[p] \in ChangePC /\ at[p] \in DestroyPC \cup {"region_destroy"}
        BY <2>6, Workers DEF ChangePC
      <3>2. Served(p) /\ lock # <<>>
        BY <3>1, Turn
      <3>3. at'[p] \in {"destroy_shelf", "destroy_pool", "abort"} \/ Return(p, FALSE) \/ Return(p, TRUE)
        BY <1>t, <2>6, GotoEffect DEF Destroys, DestroyBegin, DestroyShelf, DestroyPool, RegionDestroy, Abort, AbortIn
      <3>4. at'[p] \in {"destroy_shelf", "destroy_pool", "abort", "returned"}
        BY <1>t, <3>3, GotoEffect DEF Return
      <3>5. Keeps(p)
        BY <3>1, <3>4, Flow DEF Asks, Unlocks, Dies, DestroyPC
      <3>6. Untouched(p)'
        BY <1>1, <3>2, <3>5 DEF Keeps, Orderly, Served
      <3>7. Untouched(p)
        BY <1>4, <3>1, <3>6, CameUntouched DEF Asks, DestroyPC
      <3>8. DestroyBegin(p) \/ RegionDestroy(p)
        BY <2>6, <3>7 DEF Destroys, DestroyShelf, DestroyPool, Untouched
      <3>9. at'[p] = "returned"
        BY <3>4, <3>6 DEF Untouched
      <3>10. UNCHANGED <<pool, file, total, dying>>
        <4>1. ASSUME NEW label, NEW l, Goto(p, label, l) PROVE at'[p] = label
          BY <1>t, <4>1, GotoEffect
        <4>2. CASE DestroyBegin(p)
          BY <3>9, <4>1, <4>2 DEF DestroyBegin
        <4>3. CASE RegionDestroy(p)
          BY <3>9, <4>1, <4>3 DEF RegionDestroy, header
        <4>4. QED
          BY <3>8, <4>2, <4>3
      <3>11. QED
        BY <2>1, <2>2, <3>10 DEF Tells
    <2>7. QED
      BY <1>4, <2>3, <2>4, <2>5, <2>6, SharedEffect DEF SharedMove
  <1>5. QED
    BY <1>2, <1>3, <1>4

-----------------------------------------------------------------------------
(* The properties. *)

\* A heap that nobody is destroying keeps every shelf that is counted.
LEMMA NextCounted == ASSUME IInv, NEW p \in Proc, Acts(p) PROVE CountedShelvesExist'
  <1> USE DEF CountedShelvesExist
  <1>t. /\ Typed /\ Present /\ CountedShelvesExist /\ Creating(p) /\ Removing(p) /\ Resizing(p)
        /\ loc[p] \in Locals /\ total \in Nat /\ 0 \in Shelf /\ total <= MaxData
        /\ file \in [Shelf -> Life \cup {None}]
        /\ \A s \in 1 .. total : s \in Shelf /\ s \in Nat /\ s # 0 /\ s # total + 1
    BY Types, Constants DEF IInv, Local, Shelf
  <1>u. ASSUME UNCHANGED <<pool, file, total, dying>> PROVE CountedShelvesExist'
    BY <1>u, <1>t
  <1>1. CASE Quiet \/ SetsOp(p) \/ SetType(p)
    BY <1>1, <1>u DEF Quiet, SetsOp, SetType, fam, header
  <1>2. CASE PermShelf(p)
    BY <1>2, <1>u DEF PermShelf, header
  <1>3. CASE Resizes(p)
    <2>1. CASE ResizeClean(p) \/ ResizeAdd(p)
      <3>1. /\ loc[p].n = total /\ UNCHANGED <<pool, total, dying>>
            /\ \E f : file' = [file EXCEPT ![total + 1] = f]
        BY <1>t, <2>1 DEF ResizeClean, ResizeAdd, Resizing, RemoveShelf, AddShelf, header
      <3>2. file'[0] = file[0] /\ \A s \in 1 .. total : file'[s] = file[s]
        BY <1>t, <3>1
      <3>3. QED
        BY <1>t, <3>1, <3>2
    <2>2. CASE ResizeCount(p)
      <3>1. total' = total + 1 /\ file[total + 1] # None /\ UNCHANGED <<pool, file, dying>>
        BY <1>t, <2>2 DEF ResizeCount, Resizing
      <3>2. \A s \in 1 .. total' : s \in 1 .. total \/ s = total + 1
        BY <1>t, <3>1
      <3>3. QED
        BY <1>t, <3>1, <3>2
    <2>3. QED
      BY <1>3, <2>1, <2>2 DEF Resizes
  <1>4. CASE Creates(p)
    <2>1. CASE CreatePool(p)
      <3>1. UNCHANGED <<file, total, dying>> /\ (pool' = pool \/ ~pool)
        BY <2>1 DEF CreatePool, header
      <3>2. QED
        BY <1>t, <3>1 DEF Present
    <2>2. CASE CreateHeader(p) \/ CreateZone(p) \/ RegionShelf(p)
      <3>1. total' = 0
        BY <1>t, <2>2 DEF CreateHeader, CreateZone, RegionShelf, Creating, NewPC, header
      <3>2. QED
        BY <3>1
    <2>3. CASE WriteTotal(p)
      <3>1. total' = 1 /\ file' = file /\ file[1] # None
        BY <1>t, <2>3 DEF WriteTotal, Creating
      <3>2. \A s \in 1 .. total' : s = 1
        BY <3>1
      <3>3. QED
        BY <3>1, <3>2
    <2>4. QED
      BY <1>4, <2>1, <2>2, <2>3 DEF Creates
  <1>5. CASE Destroys(p)
    <2>1. CASE DestroyBegin(p)
      BY <1>t, <2>1 DEF DestroyBegin
    <2>2. CASE DestroyShelf(p)
      <3>1. file[0] \in dying /\ dying' = dying
        BY <1>t, <2>2 DEF DestroyShelf, Removing, header
      <3>2. UNCHANGED file \/ \E k : RemoveShelf(k)
        BY <2>2 DEF DestroyShelf
      <3>3. file'[0] = file[0] \/ file'[0] = None
        BY <1>t, <3>2 DEF RemoveShelf
      <3>4. QED
        BY <3>1, <3>3
    <2>3. CASE DestroyPool(p)
      BY <2>3 DEF DestroyPool
    <2>4. CASE RegionDestroy(p)
      <3>1. UNCHANGED <<pool, file, total, dying>> \/ file'[0] = None
        BY <1>t, <2>4 DEF RegionDestroy, RemoveShelves, header
      <3>2. QED
        BY <1>u, <3>1
    <2>5. QED
      BY <1>5, <2>1, <2>2, <2>3, <2>4 DEF Destroys
  <1>6. QED
    BY <1>1, <1>2, <1>3, <1>4, <1>5, SharedEffect DEF SharedMove

\* Only Close, the deletion of an object, the cleaner's start and a pointer can fail,
\* and what goes on after shelves could not be opened.
LEMMA NextNoNullShelf == ASSUME IInv, NEW p \in Proc, Acts(p) PROVE NoNullShelf'
  <1> DEFINE Plain(c) == c \in {"close", "discard", "exit", "pointer"}
             Excused == Plain(loc'[p].call) \/ (loc'[p].call \in {"alloc", "perm"} /\ h'[p].failed)
  <1>t. /\ Typed /\ NoNullShelf /\ Removing(p) /\ Called(p) /\ Permitting(p) /\ loc[p] \in Locals
        /\ total \in Nat /\ h \in [Proc -> Handle] /\ h[p] \in Handle
    BY Types DEF IInv, Local
  <1>1. \A q \in Proc \ {p} : at'[q] = at[q] /\ loc'[q] = loc[q] /\ h'[q] = h[q]
    BY <1>t, OthersStill DEF Still
  <1>2. SUFFICES ASSUME at'[p] = "abort" PROVE Excused
    BY <1>1, <1>t DEF NoNullShelf
  <1>a. ASSUME NEW c, AbortIn(p, c) PROVE loc'[p].call = c
    <2>1. loc'[p] = [loc[p] EXCEPT !.call = c]
      BY <1>a, <1>t, GotoEffect DEF AbortIn
    <2>2. QED
      BY <1>t, <2>1 DEF Locals
  <1>g. ASSUME NEW label, NEW l, Goto(p, label, l) PROVE at'[p] = label
    BY <1>t, <1>g, GotoEffect
  <1>3. CASE Cleans(p)
    <2>1. h'[p].failed = h[p].failed
      <3>1. CASE Wake(p)
        BY <1>t, <3>1 DEF Wake, Handle
      <3>2. CASE Work(p)
        BY <1>t, <3>2 DEF Work, Handle
      <3>3. CASE SelfClose(p)
        BY <1>t, <3>3 DEF SelfClose, Closed, Handle
      <3>4. QED
        BY <1>3, <3>1, <3>2, <3>3 DEF Cleans
    <2>2. QED
      BY <1>2, <1>3, <1>t, <2>1 DEF Cleans, Stays, NoNullShelf
  <1>4. CASE Use(p)
    <2>1. at[p] = "idle"
      BY <1>4, UseCases DEF InUse
    <2>2. ~UseResize(p) /\ ~UsePerm(p)
      BY <1>2, <1>g DEF UseResize, UsePerm, ResizeBegin, PermBegin
    <2>3. \/ loc'[p] = [loc[p] EXCEPT !.call = "pointer"]
          \/ loc'[p] = [loc[p] EXCEPT !.call = "alloc"] /\ h'[p].failed
      BY <1>2, <1>4, <2>1, <2>2, UseViews DEF UseGoes, Stays
    <2>4. loc'[p].call = "pointer" \/ (loc'[p].call = "alloc" /\ h'[p].failed)
      BY <1>t, <2>3 DEF Locals
    <2>5. QED
      BY <2>4
  <1>5. CASE Discard(p) \/ NoEpochManager(p)
    <2>1. Discard(p) => AbortIn(p, "discard") \/ at'[p] = "idle"
      BY DEF Discard
    <2>2. QED
      BY <1>2, <1>5, <1>a, <2>1 DEF NoEpochManager
  <1>6. CASE CloseShelves(p)
    <2>1. AbortIn(p, loc[p].call) /\ loc[p].call = "close"
      BY <1>2, <1>6, <1>g, <1>t DEF CloseShelves, Finish, Abort, Called
    <2>2. QED
      BY <1>a, <2>1
  <1>7. CASE DestroyShelf(p)
    <2> DEFINE k == IF loc[p].k <= loc[p].n THEN loc[p].k ELSE 0
    <2>1. /\ file[0] # None /\ loc[p].n = total /\ loc[p].k \in Nat /\ 1 <= loc[p].k
          /\ \A s \in 1 .. total : file[s] = None <=> s < loc[p].k
      BY <1>7, <1>t DEF DestroyShelf, Removing, Locals
    <2>2. file[k] # None
      BY <1>t, <2>1
    <2>3. QED
      BY <1>2, <1>7, <1>g, <2>2 DEF DestroyShelf
  <1>8. CASE PermShelf(p)
    <2>1. at[p] = "perm_shelf" /\ Using(p)
      BY <1>8, Users DEF PermShelf, HeaderPC, WritePC, PermPC
    <2>2. /\ loc[p].n = total /\ loc[p].k \in Nat /\ 1 <= loc[p].k /\ loc[p].call = "perm"
          /\ h[p].mapped = total \/ h[p].failed
      BY <1>t, <2>1 DEF Permitting, PermPC, Locals
    <2>3. Unopened(p)
      BY <1>2, <1>8, <1>g DEF PermShelf
    <2>4. h[p].mapped # total
      BY <2>1, <2>2, <2>3, UsingFacts DEF Unopened
    <2>5. AbortIn(p, loc[p].call) /\ h' = h
      BY <1>8, <2>3 DEF PermShelf, Abort, views
    <2>6. loc'[p].call = "perm" /\ h'[p].failed
      BY <1>a, <2>2, <2>4, <2>5
    <2>7. QED
      BY <2>6
  <1>9. QED
    BY <1>2, <1>3, <1>4, <1>5, <1>6, <1>7, <1>8, Arrive, BootEffect
       DEF Moves, Boots1, EarlyPC, StartPC, ToCall, ToCreate, ToDestroy, ToOpen, ToWrite

\* The failures and deaths are counted.
LEMMA NextEvents == ASSUME IInv, NEW p \in Proc, Acts(p) PROVE events' \in 0 .. MaxEvents
  <1>t. events \in 0 .. MaxEvents /\ MaxEvents \in Nat
    BY Types, Constants DEF IInv
  <1>1. CASE BootStep(p) \/ Die(p)
    BY <1>1, <1>t, BootEffect, DieEffect
  <1>2. CASE CallStep(p)
    BY <1>2, <1>t DEF CallStep, BeginStep, CreateHeap, DestroyHeap, FindHeap, CreateRegion, DestroyRegion,
       FindRegion, Begin, Ask, RegionShelf, RegionDestroy, SetType, Unlock, Find, NoEvent
  <1>o. ASSUME OpenNewShelfs(p), Using(p) PROVE events' \in 0 .. MaxEvents
    BY <1>o, NewShelves
  <1>3. CASE UserStep(p)
    <2>1. CASE Use(p)
      <3>1. Using(p)
        BY <2>1, UseViews
      <3>2. events' = events \/ OpenNewShelfs(p)
        BY <2>1 DEF Use, NoEvent, Merge, Alloc, Free, OffsetToLocal, OfflineRecover
      <3>3. QED
        BY <1>o, <1>t, <3>1, <3>2
    <2>2. CASE ~Use(p)
      BY <1>3, <1>t, <2>2 DEF UserStep, Open, Close, Discard, NoEvent
    <2>3. QED
      BY <2>1, <2>2
  <1>4. CASE HeapStep(p)
    <2>1. CASE CreateFails(p) \/ ResizeFails(p) \/ PermFails(p)
      <3>1. events' = events \/ (events < MaxEvents /\ events' = events + 1)
        BY <2>1 DEF CreateFails, ResizeFails, PermFails, Event, NoEvent
      <3>2. QED
        BY <1>t, <3>1
    <2>4. CASE OpenAll(p)
      BY <2>4, OpenAllViews
    <2>5. CASE Refresh(p) \/ PermRead(p)
      <3>1. Using(p)
        BY <2>5, Users DEF Refresh, PermRead, HeaderPC, WritePC, PermPC
      <3>2. events' = events \/ OpenNewShelfs(p)
        BY <2>5 DEF Refresh, PermRead, NoEvent
      <3>3. QED
        BY <1>o, <1>t, <3>1, <3>2
    <2>2. CASE ~(CreateFails(p) \/ ResizeFails(p) \/ PermFails(p) \/ OpenAll(p) \/ Refresh(p) \/ PermRead(p))
      BY <1>4, <1>t, <2>2 DEF HeapStep, NoEvent, CreatePool, CreateHeader, CreateZone, WriteTotal, DestroyBegin,
         DestroyShelf, DestroyPool, OpenWait, Join, CloseShelves, Wake, Work, NoEpochManager, SelfClose,
         ResizeRead, ResizeClean, ResizeAdd, ResizeCount, ResizeDone, PermShelf, PermDone
    <2>3. QED
      BY <2>1, <2>2, <2>4, <2>5
  <1>5. QED
    BY <1>1, <1>2, <1>3, <1>4 DEF Acts

\* The types.
LEMMA NextTyped == ASSUME IInv, NEW p \in Proc, Acts(p) PROVE Typed'
  <1>t. Typed /\ torn \in BOOLEAN /\ boot \in [Boots -> {"absent", "raw", "ready"}]
    BY Types DEF IInv
  <1>1. SharedTyped'
    BY NextPresent
  <1>2. /\ h' \in [Proc -> Handle] /\ Maps(p)
        /\ wk' \in [Proc -> {"none", "sleep", "work", "selfclose", "exited"}]
    BY Views DEF SeesTyped
  <1>3. at' \in [Proc -> Label] /\ loc' \in [Proc -> Locals]
    BY Calling
  <1>4. lock' \in Seq(Proc \cup {Gone})
    BY NextTickets
  <1>5. boot' \in [Boots -> {"absent", "raw", "ready"}]
    BY <1>t, BootEffect, BootStays
  <1>6. torn' \in BOOLEAN
    <2>1. CASE CreatePool(p) /\ ~pool
      BY <2>1 DEF CreatePool
    <2>2. CASE PermDone(p)
      BY <2>2 DEF PermDone
    <2>3. CASE torn' = (torn \/ HalfWay(p))
      BY <2>3
    <2>4. QED
      BY <1>t, <2>1, <2>2, <2>3, TornStays
  <1>7. events' \in 0 .. MaxEvents
    BY NextEvents
  <1>8. \A q \in Proc : /\ h'[q].hdr \in Life \cup {None} /\ h'[q].mapped \in 0 .. MaxData
                        /\ loc'[q].n \in 0 .. MaxData
    BY <1>2, <1>3 DEF Handle, Locals
  <1>9. HeapTypeOK'
    BY <1>1, <1>2, <1>6, <1>7, <1>8 DEF HeapTypeOK, SharedTyped, Maps
  <1>10. QED
    BY <1>1, <1>2, <1>3, <1>4, <1>5, <1>9 DEF Typed, TypeOK, SharedTyped, Label

-----------------------------------------------------------------------------
(* The invariant. *)

\* Every step of a process keeps it.
LEMMA NextIInv == ASSUME IInv, NEW p \in Proc, Acts(p) PROVE IInv'
  <1>1. \A q \in Proc : Local(q)'
    <2>1. SUFFICES ASSUME NEW q \in Proc PROVE Local(q)'
      OBVIOUS
    <2>2. Called(q)' /\ Past(q)' /\ Creating(q)' /\ Removing(q)'
      BY NextCalled, NextPast, NextCreating, NextRemoving
    <2>3. Writing(q)' /\ Opened(q)' /\ Cleaning(q)'
      BY NextWriters, NextOpened, NextCleaning
    <2>4. Resizing(q)' /\ Permitting(q)'
      BY NextResizing, NextPermitting
    <2>5. QED
      BY <2>2, <2>3, <2>4 DEF Local
  <1>2. Typed' /\ Tickets' /\ Booting' /\ Present'
    BY NextTyped, NextTickets, NextBooting, NextPresent
  <1>3. Abandoned' /\ OneWriter' /\ Agreed' /\ Told'
    BY NextAbandoned, NextWriters, NextAgreed, NextTold
  <1>4. CountedShelvesExist' /\ NoNullShelf'
    BY NextCounted, NextNoNullShelf
  <1>5. QED
    BY <1>1, <1>2, <1>3, <1>4 DEF IInv

\* A process that is down sees nothing, and is in no operation.
LEMMA AllDown ==
  ASSUME NEW p \in Proc, at[p] = "down", h[p] = NoHandle, wk[p] = "none"
  PROVE  /\ Called(p) /\ Creating(p) /\ Removing(p) /\ Writing(p) /\ Opened(p)
         /\ Cleaning(p) /\ Resizing(p) /\ Permitting(p)
  <1> USE DEF HeaderPC, NewPC, WritePC, ResizePC, PermPC, NoHandle
  <1>1. Called(p) /\ Creating(p) /\ Removing(p) /\ Writing(p)
    BY DEF Called, Creating, Removing, Writing
  <1>2. Opened(p) /\ Resizing(p) /\ Permitting(p)
    BY DEF Opened, Holds, Using, Resizing, Permitting
  <1>3. Cleaning(p)
    BY DEF Cleaning
  <1>4. QED
    BY <1>1, <1>2, <1>3

\* Without a pool, and without a process, the rest holds too.
Nothing ==
  /\ \A p \in Proc : at[p] = "down" /\ h[p] = NoHandle /\ wk[p] = "none" /\ Past(p)
  /\ Typed /\ ~pool /\ total = 0 /\ type = "none" /\ lock = <<>>
  /\ \A s \in Shelf : file[s] = None
  /\ \A d \in dying : d <= lives

LEMMA NothingThere == Nothing => IInv
  <1> SUFFICES ASSUME Nothing PROVE IInv
    OBVIOUS
  <1> USE DEF Nothing
  <1>c. 0 \in Shelf /\ 0 \notin dying /\ None = 0
    BY Types, Constants
  <1>1. Present
    BY DEF Present
  <1>2. Tickets /\ Booting
    BY DEF Tickets, Ticket, WaitPC, ChangePC, CreatePC, DestroyPC, Booting, EarlyPC, StartPC
  <1>3. \A p \in Proc : Local(p)
    BY AllDown DEF Local
  <1>4. Abandoned /\ OneWriter
    BY DEF Abandoned, OneWriter, HeaderPC, OpenPC, WritePC, ResizePC, PermPC
  <1>5. Agreed /\ CountedShelvesExist /\ NoNullShelf
    BY DEF Agreed, Agree, CountedShelvesExist, NoNullShelf
  <1>6. Told
    BY <1>c DEF Told, Tells
  <1>7. QED
    BY <1>1, <1>2, <1>3, <1>4, <1>5, <1>6 DEF IInv

\* The initial states.
LEMMA InitIInv == Init => IInv
  <1>1. SUFFICES ASSUME Init PROVE IInv
    OBVIOUS
  <1>2. /\ at = [p \in Proc |-> "down"] /\ loc = [p \in Proc |-> NoLocals]
        /\ h = [p \in Proc |-> NoHandle] /\ wk = [p \in Proc |-> "none"]
        /\ rmb = [p \in Proc |-> NoShelves] /\ map = [p \in Proc |-> NoShelves]
        /\ file = [s \in Shelf |-> None] /\ perm = [s \in Shelf |-> 1]
        /\ boot = [f \in Boots |-> "absent"] /\ lock = <<>> /\ type = "none"
        /\ pool = FALSE /\ total = 0 /\ op = "none" /\ dying = {}
        /\ lives = 0 /\ torn = FALSE /\ events = 0
    BY <1>1 DEF Init, HeapInit
  <1>3. Typed
    <2>1. /\ NoShelves \in [Data -> Life \cup {None}]
          /\ NoShelves \in [Data -> -MaxLives .. MaxLives]
      BY Constants DEF NoShelves, None
    <2>2. h \in [Proc -> Handle] /\ loc \in [Proc -> Locals]
      BY <1>2, Empty
    <2>3. \A p \in Proc : h[p].hdr \in Life \cup {None} /\ h[p].mapped \in 0 .. MaxData /\ loc[p].n \in 0 .. MaxData
      BY <2>2 DEF Handle, Locals
    <2>4. pool \in BOOLEAN /\ torn \in BOOLEAN
      BY <1>2
    <2>5. /\ file \in [Shelf -> Life \cup {None}] /\ perm \in [Shelf -> Perm]
          /\ total \in 0 .. MaxData /\ op \in {"none", "resize", "perm"} /\ dying \subseteq Life
          /\ lives \in 0 .. MaxLives /\ events \in 0 .. MaxEvents
      BY <1>2, Constants DEF Perm
    <2>6. /\ rmb \in [Proc -> [Data -> Life \cup {None}]]
          /\ map \in [Proc -> [Data -> -MaxLives .. MaxLives]]
          /\ wk \in [Proc -> {"none", "sleep", "work", "selfclose", "exited"}]
      BY <1>2, <2>1
    <2>7. HeapTypeOK
      BY <2>3, <2>4, <2>5, <2>6 DEF HeapTypeOK
    <2>8. /\ type \in {"none", "heap", "region"} /\ lock \in Seq(Proc \cup {Gone})
          /\ boot \in [Boots -> {"absent", "raw", "ready"}]
      BY <1>2
    <2>9. at \in [Proc -> Label]
      BY <1>2 DEF Label
    <2>10. QED
      BY <2>2, <2>7, <2>8, <2>9 DEF Typed, TypeOK, Label
  <1>4. \A p \in Proc : at[p] = "down" /\ h[p] = NoHandle /\ wk[p] = "none" /\ Past(p)
    BY <1>2, Constants DEF Past, NoHandle, NoShelves, None
  <1>5. ~pool /\ total = 0 /\ type = "none" /\ lock = <<>>
    BY <1>2
  <1>6. (\A s \in Shelf : file[s] = None) /\ \A d \in dying : d <= lives
    BY <1>2
  <1>7. QED
    BY <1>3, <1>4, <1>5, <1>6, NothingThere DEF Nothing

\* ResetNVMM removes everything, while nobody is up.
LEMMA ResetIInv == IInv /\ ResetNVMM => IInv'
  <1>1. SUFFICES ASSUME IInv, ResetNVMM PROVE IInv'
    OBVIOUS
  <1>2. /\ \A p \in Proc : at[p] = "down"
        /\ boot' = [f \in Boots |-> "absent"] /\ lock' = <<>> /\ type' = "none" /\ pool' = FALSE
        /\ file' = [s \in Shelf |-> None] /\ perm' = [s \in Shelf |-> 1]
        /\ total' = 0 /\ op' = "none" /\ torn' = FALSE
        /\ UNCHANGED <<dying, at, loc, h, rmb, map, wk, lives, events>>
    BY <1>1 DEF ResetNVMM, RemoveShelves, NoEvent, views
  <1>t. Typed /\ Booting /\ Present /\ \A p \in Proc : Past(p)
    BY <1>1 DEF IInv, Local
  <1>3. Typed'
    <2>1. pool' \in BOOLEAN /\ torn' \in BOOLEAN
      BY <1>2
    <2>2. /\ file' \in [Shelf -> Life \cup {None}] /\ perm' \in [Shelf -> Perm]
          /\ total' \in 0 .. MaxData /\ op' \in {"none", "resize", "perm"}
      BY <1>2, Constants DEF Perm
    <2>3. HeapTypeOK'
      BY <1>2, <1>t, <2>1, <2>2 DEF Typed, TypeOK, HeapTypeOK
    <2>4. /\ type' \in {"none", "heap", "region"} /\ lock' \in Seq(Proc \cup {Gone})
          /\ boot' \in [Boots -> {"absent", "raw", "ready"}]
      BY <1>2
    <2>5. QED
      BY <1>2, <1>t, <2>3, <2>4 DEF Typed, TypeOK
  <1>4. \A p \in Proc : at'[p] = "down" /\ h'[p] = NoHandle /\ wk'[p] = "none"
    BY <1>2, <1>t DEF Booting, EarlyPC
  <1>5. \A p \in Proc : Past(p)'
    BY <1>2, <1>t DEF Past
  <1>6. ~pool' /\ total' = 0 /\ type' = "none" /\ lock' = <<>> /\ \A s \in Shelf : file'[s] = None
    BY <1>2
  <1>7. \A d \in dying' : d <= lives'
    BY <1>2, <1>t DEF Present
  <1>8. Nothing'
    BY <1>3, <1>4, <1>5, <1>6, <1>7 DEF Nothing
  <1>9. QED
    BY <1>8, NothingThere, PTL

\* No step breaks the invariant.
LEMMA Inductive == IInv /\ [Next]_vars => IInv'
  <1>1. SUFFICES ASSUME IInv, [Next]_vars PROVE IInv'
    OBVIOUS
  <1>2. CASE ResetNVMM
    BY <1>1, <1>2, ResetIInv
  <1>3. CASE \E p \in Proc : Acts(p)
    BY <1>1, <1>3, NextIInv
  <1>4. CASE UNCHANGED vars
    <2>1. UNCHANGED <<pool, file, perm, total, op, dying, boot, at, loc, h, rmb, map, wk, lives, torn, events, type, lock>>
      BY <1>4 DEF vars, fam, header, views, history, mm
    <2>2. Typed' /\ Tickets' /\ Booting' /\ Present'
      BY <1>1, <2>1 DEF IInv, Typed, TypeOK, HeapTypeOK, Tickets, Ticket, Served, Booting, Booted, Present
    <2>3. \A p \in Proc : Local(p)'
      <3>1. SUFFICES ASSUME NEW p \in Proc PROVE Local(p)'
        OBVIOUS
      <3>2. Called(p)' /\ Past(p)' /\ Creating(p)' /\ Removing(p)' /\ Writing(p)'
        BY <1>1, <2>1 DEF IInv, Local, Called, Past, Creating, Unknown, Removing, Writing
      <3>3. Opened(p)' /\ Cleaning(p)' /\ Resizing(p)' /\ Permitting(p)'
        BY <1>1, <2>1 DEF IInv, Local, Opened, Using, Holds, Cleaning, Resizing, Permitting, PermPC, Agree
      <3>4. QED
        BY <3>2, <3>3 DEF Local
    <2>4. Abandoned' /\ OneWriter' /\ Agreed' /\ Told' /\ CountedShelvesExist' /\ NoNullShelf'
      BY <1>1, <2>1 DEF IInv, Abandoned, Destroying, OneWriter, Agreed, HalfWay, Agree, Told, Orderly, Served, Untouched,
         Tells, CountedShelvesExist, NoNullShelf
    <2>5. QED
      BY <2>2, <2>3, <2>4 DEF IInv
  <1>5. Next => ResetNVMM \/ \E p \in Proc : Acts(p)
    BY DEF Next, Acts, BootStep, CallStep, BeginStep, UserStep
  <1>6. QED
    BY <1>1, <1>2, <1>3, <1>4, <1>5

\* The inductive invariant holds in every state.
THEOREM Invariance == Spec => []IInv
  BY InitIInv, Inductive, PTL DEF Spec

\* What the memory manager and the heaps of an id keep in fabric-attached memory and in
\* the processes has its type: no counter of shelves passes the header's table, and
\* every ticket of the lock is of a process, alive or dead.
THEOREM TypeCorrect == Spec => []TypeOK
  <1>1. IInv => TypeOK
    BY DEF IInv, Typed
  <1>2. QED
    BY <1>1, Invariance, PTL

\* The calls of memory_manager.cc that change an id come one at a time, and when no
\* ticket of the id's lock is out, the type says what is there: none, or a heap with a
\* header and a shelf, or a region with its one shelf, whoever died or failed before.
THEOREM TypeTellsTheorem == Spec => []TypeTells
  <1>1. IInv => TypeTells
    <2>1. SUFFICES ASSUME IInv PROVE TypeTells
      OBVIOUS
    <2>2. \A p, q \in Changers : p = q
      BY <2>1, OneChanger DEF IInv, Changers
    <2>3. Cardinality(Changers) <= 1
      <3>1. CASE Changers = {}
        BY <3>1, FS_EmptySet
      <3>2. CASE Changers # {}
        <4>1. PICK p \in Changers : Changers = {p}
          BY <2>2, <3>2
        <4>2. Cardinality({p}) = 1
          BY FS_Singleton
        <4>3. QED
          BY <4>1, <4>2
      <3>3. QED
        BY <3>1, <3>2
    <2>4. Settled => Tells
      BY <2>1 DEF Settled, IInv, Told, Orderly
    <2>5. QED
      BY <2>3, <2>4 DEF TypeTells, Tells, Settled
  <1>2. QED
    BY <1>1, Invariance, PTL

\* Resize writes the count after the shelf, and Destroy tells the header before it
\* removes one: every shelf that the header of a living heap counts has its file, at
\* every step of every process and after every death.
THEOREM CountedShelvesExistTheorem == Spec => []CountedShelvesExist
  <1>1. IInv => CountedShelvesExist
    BY DEF IInv
  <1>2. QED
    BY <1>1, Invariance, PTL

\* op_in_progress keeps Resize and SetPermission apart: when neither is in progress the
\* shelves of the heap have the permission that its header has, unless a SetPermission
\* failed, or its process died, after it had changed some of them and before another
\* one has succeeded.
THEOREM PermissionsAgreeTheorem == Spec => []PermissionsAgree
  <1>1. IInv => PermissionsAgree
    <2>1. SUFFICES ASSUME IInv, op = "none", ~torn PROVE Agree
      BY DEF PermissionsAgree, Idle
    <2>2. \A p \in Proc : at[p] # "perm_shelf"
      BY <2>1 DEF IInv, Local, Writing, PermPC
    <2>3. QED
      BY <2>1, <2>2 DEF IInv, Agreed, HalfWay
  <1>2. QED
    BY <1>1, Invariance, PTL

\* No operation of a heap uses a shelf that it has not mapped, but for Alloc and
\* SetPermission, which do not look whether OpenNewShelfs failed.  What else can fail
\* is Close and the deletion of an object, the start of a cleaner without the epoch
\* shelf, and a pointer into a shelf that another process added.
THEOREM NoNullShelfTheorem == Spec => []NoNullShelf
  <1>1. IInv => NoNullShelf
    BY DEF IInv
  <1>2. QED
    BY <1>1, Invariance, PTL
=============================================================================
