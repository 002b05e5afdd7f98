-------------------------------- MODULE Pool --------------------------------
(***************************************************************************)
(* A pool of shelves: shelf_mgmt/pool.cc, the items of                     *)
(* shelf_mgmt/membership.h and the file operations of                      *)
(* shelf_mgmt/shelf_file.cc it uses.  An item (a valid bit and a version)  *)
(* is compared and stored in one step; the files are named by index and    *)
(* version, and creating, renaming and deleting a file is one step of the  *)
(* file system.  Item and file change in different steps, any process may  *)
(* die between them, and Recover may run at any time next to AddShelf and  *)
(* RemoveShelf.                                                            *)
(***************************************************************************)
EXTENDS Integers, FiniteSets

CONSTANTS Proc,
          ShelfCount,     \* kMaxShelfCount
          VersionCount,   \* 2^15: the values of kMaskVersionNum
          StartVersion,   \* the version of every item of a pool in use
          Rand,           \* the numbers RandForAddShelf returns to a process
          Nobody,
          MaxEvents, MaxVersion, MaxLives   \* bounds of the runs

ASSUME PoolAssumption ==
  /\ {ShelfCount, VersionCount} \subseteq Nat \ {0}
  /\ StartVersion \in 0 .. VersionCount - 1
  /\ \A p \in Proc : Rand[p] \subseteq 0 .. 2 * VersionCount - 1
  /\ Nobody \notin Proc
  /\ {MaxEvents, MaxVersion, MaxLives} \subseteq Nat

VARIABLES slot,      \* the items, in FAM
          files,     \* the files of the pool, by name
          meta,      \* the metadata shelf: absent, created, or ready
          open,      \* is_open_ of the Pool object of every process
          at,        \* what a process does next
          loc,       \* its local variables
          life,      \* history: how often the pool was created
          solo,      \* history: the process whose operation nobody disturbed
          events     \* how often a shelf was added or removed or a process died

shared == <<slot, files, meta>>
vars == <<slot, files, meta, open, at, loc, life, solo, events>>

Index == 0 .. ShelfCount - 1
Version == 0 .. VersionCount - 1

\* A file name: a temporary one ends in "add" and has a random number.
Name == [idx : Index, ver : 0 .. 2 * VersionCount - 1, tmp : BOOLEAN]
Final(i, v) == [idx |-> i, ver |-> v, tmp |-> FALSE]
Temp(i, r) == [idx |-> i, ver |-> r, tmp |-> TRUE]

\* A file: whether it was formatted, and (history) by whom and for which pool.
File == [formatted : BOOLEAN, by : Proc, life : Nat]
Item == [valid : BOOLEAN, ver : Version]

AddPC == {"create", "format", "scan", "get", "bump", "rename", "mark",
          "addfailed"}
RemovePC == {"load", "free", "unlink"}
RecoverPC == {"item", "sweep", "recovered"}
PoolPC == {"items", "drop", "wipe", "delete"}
PC == {"idle"} \cup AddPC \cup RemovePC \cup RecoverPC \cup PoolPC

\* The locals of the operations; a process that is idle has none.
NoLocals == [req |-> 0, diff |-> FALSE,    \* AddShelf: arguments
             start |-> 0, idx |-> 0,       \* start_idx, shelf_idx
             item |-> [valid |-> FALSE, ver |-> 0],   \* what it read or took
             name |-> Final(0, 0),         \* path_ of the ShelfFile
             todo |-> {},                  \* the directory being read
             bad |-> FALSE,                \* POOL_INCONSISTENCY_FOUND
             then |-> "idle"]              \* the caller of Recover

TypeOK ==
  /\ slot \in [Index -> Item]
  /\ DOMAIN files \subseteq Name
  /\ \A n \in DOMAIN files : files[n] \in File
  /\ meta \in {"absent", "raw", "ready"}
  /\ open \in [Proc -> BOOLEAN]
  /\ at \in [Proc -> PC]
  /\ \A p \in Proc : /\ loc[p].idx \in Index
                     /\ loc[p].item \in Item
                     /\ loc[p].name \in Name
                     /\ loc[p].todo \subseteq Name
                     /\ loc[p].then \in {"idle", "close", "drop"}
  /\ life \in Nat
  /\ solo \in Proc \cup {Nobody}
  /\ events \in 0 .. MaxEvents

Init ==
  /\ slot = [i \in Index |-> [valid |-> FALSE, ver |-> StartVersion]]
  /\ files = << >>
  /\ meta = "ready"
  /\ open = [p \in Proc |-> FALSE]
  /\ at = [p \in Proc |-> "idle"]
  /\ loc = [p \in Proc |-> NoLocals]
  /\ life = 1
  /\ solo = Nobody
  /\ events = 0

-----------------------------------------------------------------------------
(* Items *)

BadIncVersionNum(v) == v       \* a mutant: the version stays
BadDecVersionNum(v) == v - 1   \* a mutant: the version goes down

\* IncVersionNum: the version is masked to its 15 bits.
IncVersionNum(v) == (v + 1) % VersionCount

\* CASonFAM: the item changes if it still is what was read.
CAS(i, expected, desired) ==
  /\ slot[i] = expected
  /\ slot' = [slot EXCEPT ![i] = desired]

-----------------------------------------------------------------------------
(* Files *)

Exist(n) == n \in DOMAIN files

Creat(p, n) ==
  files' = [m \in DOMAIN files \cup {n} |->
              IF m = n THEN [formatted |-> FALSE, by |-> p, life |-> life]
                       ELSE files[m]]

\* Destroy: it is no error that the file is gone.
Unlink(n) == files' = [m \in DOMAIN files \ {n} |-> files[m]]

\* rename: an existing file of the new name is replaced.
Rename(old, new) ==
  files' = [m \in (DOMAIN files \ {old}) \cup {new} |->
              IF m = new THEN files[old] ELSE files[m]]

-----------------------------------------------------------------------------
(* Control.  Begin starts an operation and Step continues it; both keep     *)
(* account of who was alone.                                                *)

Begin(p, label, l) ==
  /\ at[p] = "idle"
  /\ at' = [at EXCEPT ![p] = label]
  /\ loc' = [loc EXCEPT ![p] = l]
  /\ solo' = p

Step(p, from, to, l) ==
  /\ at[p] = from
  /\ at' = [at EXCEPT ![p] = to]
  /\ loc' = [loc EXCEPT ![p] = IF to = "idle" THEN NoLocals ELSE l]
  /\ solo' = IF solo = p /\ to # "idle" THEN p ELSE Nobody
  /\ UNCHANGED events

\* The runs bound how much happens.
Event == events < MaxEvents /\ events' = events + 1

\* Create and Destroy are not synchronised with anything: the user calls them
\* when nobody else uses the pool.
Alone(p) == \A q \in Proc \ {p} : at[q] = "idle" /\ ~open[q]
Exclusive == \E p \in Proc : at[p] \in PoolPC \/ loc[p].then = "drop"

-----------------------------------------------------------------------------
(* AddShelf.  NewShelf is AddShelf of index 0 with another index allowed.   *)

AddBegin(p) ==
  /\ open[p]
  /\ Event
  /\ \E i \in Index, diff \in BOOLEAN :
       Begin(p, "create", [NoLocals EXCEPT !.req = i, !.idx = i, !.start = i, !.diff = diff])
  /\ UNCHANGED <<shared, open, life>>

\* RandForAddShelf and ShelfFile::Create: a name that is taken is drawn again.
CreateTemp(p) ==
  /\ \E r \in Rand[p] :
       LET n == Temp(loc[p].idx, r)
       IN  /\ ~Exist(n)
           /\ Creat(p, n)
           /\ Step(p, "create", "format", [loc[p] EXCEPT !.name = n])
  /\ UNCHANGED <<slot, meta, open, life>>

\* TruncateShelfFile: it fails when Recover has deleted the file.
Format(p) ==
  LET n == loc[p].name
  IN  /\ IF Exist(n)
         THEN /\ Step(p, "format", IF loc[p].diff THEN "scan" ELSE "get", loc[p])
              /\ files' = [files EXCEPT ![n].formatted = TRUE]
         ELSE /\ Step(p, "format", "addfailed", loc[p])
              /\ UNCHANGED files
      /\ UNCHANGED <<slot, meta, open, life>>

\* FindFirstFreeSlot looks at one item after the other, from start_idx round to
\* end_idx, the index before the requested one.
EndIndex(p) == (loc[p].req + ShelfCount - 1) % ShelfCount

ScanSlot(p) ==
  LET i == loc[p].start % ShelfCount
  IN  /\ IF ~slot[i].valid
         THEN Step(p, "scan", "get", [loc[p] EXCEPT !.idx = i, !.start = 0])
         ELSE IF i = EndIndex(p)
         THEN Step(p, "scan", "addfailed", loc[p])
         ELSE Step(p, "scan", "scan", [loc[p] EXCEPT !.start = i + 1])
      /\ UNCHANGED <<shared, open, life>>

\* Someone is competing: the next index, if another one is allowed.
NextIndex(p, from) ==
  LET start == loc[p].idx + 1
  IN  IF loc[p].diff /\ start <= loc[p].req + ShelfCount - 1
      THEN Step(p, from, "scan", [loc[p] EXCEPT !.start = start, !.item = NoLocals.item])
      ELSE Step(p, from, "addfailed", loc[p])

\* GetFreeSlot: the load.
GetFreeSlot(p) ==
  LET v == slot[loc[p].idx]
  IN  /\ IF v.valid THEN NextIndex(p, "get")
                    ELSE Step(p, "get", "bump", [loc[p] EXCEPT !.item = v])
      /\ UNCHANGED <<shared, open, life>>

\* GetFreeSlot: the compare and store of the next version.
TakeVersion(p) ==
  LET new == [valid |-> FALSE, ver |-> IncVersionNum(loc[p].item.ver)]
  IN  /\ \/ /\ loc[p].item.ver < MaxVersion
            /\ CAS(loc[p].idx, loc[p].item, new)
            /\ Step(p, "bump", "rename", [loc[p] EXCEPT !.item = new])
         \/ /\ slot[loc[p].idx] # loc[p].item
            /\ NextIndex(p, "bump")
            /\ UNCHANGED slot
      /\ UNCHANGED <<files, meta, open, life>>

Target(p) == Final(loc[p].idx, loc[p].item.ver)

\* Rename to the name of the version; the file may have been deleted by Recover.
RenameFile(p) ==
  /\ IF Exist(loc[p].name)
     THEN /\ Step(p, "rename", "mark", [loc[p] EXCEPT !.name = Target(p)])
          /\ Rename(loc[p].name, Target(p))
     ELSE /\ Step(p, "rename", "addfailed", loc[p])
          /\ UNCHANGED files
  /\ UNCHANGED <<slot, meta, open, life>>

\* A mutant: the item is marked whatever its version is.
BadMarkSlotUsed(p) ==
  /\ slot' = [slot EXCEPT ![loc[p].idx].valid = TRUE]
  /\ Step(p, "mark", "idle", NoLocals)
  /\ UNCHANGED <<files, meta, open, life>>

\* The item is marked if it still is what GetFreeSlot left there.
MarkSlotUsed(p) ==
  /\ \/ /\ CAS(loc[p].idx, loc[p].item, [loc[p].item EXCEPT !.valid = TRUE])
        /\ Step(p, "mark", "idle", NoLocals)
     \/ /\ slot[loc[p].idx] # loc[p].item
        /\ NextIndex(p, "mark")
        /\ UNCHANGED slot
  /\ UNCHANGED <<files, meta, open, life>>

AddFailed(p) ==
  /\ Step(p, "addfailed", "idle", NoLocals)
  /\ UNCHANGED <<shared, open, life>>

-----------------------------------------------------------------------------
(* RemoveShelf *)

RemoveBegin(p) ==
  /\ open[p]
  /\ Event
  /\ \E i \in Index : Begin(p, "load", [NoLocals EXCEPT !.idx = i])
  /\ UNCHANGED <<shared, open, life>>

\* RemoveShelf is over: Destroy goes on with the next index.
Removed(p, from) ==
  IF loc[p].then = "drop"
  THEN Step(p, from, IF loc[p].idx = ShelfCount - 1 THEN "wipe" ELSE "drop",
            [loc[p] EXCEPT !.idx = (@ + 1) % ShelfCount])
  ELSE Step(p, from, "idle", loc[p])

\* A mutant: the file is deleted before the item is freed.
BadLoadSlot(p) ==
  LET v == slot[loc[p].idx]
  IN  /\ IF v.valid THEN /\ Step(p, "load", "free", [loc[p] EXCEPT !.item = v])
                        /\ Unlink(Final(loc[p].idx, v.ver))
                    ELSE Removed(p, "load") /\ UNCHANGED files
      /\ UNCHANGED <<slot, meta, open, life>>

\* MarkSlotFree: the load.
LoadSlot(p) ==
  LET v == slot[loc[p].idx]
  IN  /\ IF v.valid THEN Step(p, "load", "free", [loc[p] EXCEPT !.item = v])
                    ELSE Removed(p, "load")
      /\ UNCHANGED <<shared, open, life>>

\* MarkSlotFree: the compare and store of the next version, not valid.
MarkSlotFree(p) ==
  LET old == loc[p].item
      new == [valid |-> FALSE, ver |-> IncVersionNum(old.ver)]
  IN  /\ \/ CAS(loc[p].idx, old, new) /\ Step(p, "free", "unlink", loc[p])
         \/ slot[loc[p].idx] # old /\ Removed(p, "free") /\ UNCHANGED slot
      /\ UNCHANGED <<files, meta, open, life>>

\* The file of the version that was valid is deleted; it may be gone already.
UnlinkShelf(p) ==
  /\ Unlink(Target(p))
  /\ Removed(p, "unlink")
  /\ UNCHANGED <<slot, meta, open, life>>

-----------------------------------------------------------------------------
(* Recover *)

RecoverBegin(p) ==
  /\ open[p]
  /\ Begin(p, "item", NoLocals)
  /\ UNCHANGED <<events, shared, open, life>>

BadSpareTemp(n, i, v) == n.idx = i /\ ~n.tmp /\ n.ver < v   \* a mutant: no "add"

\* RemoveOldShelfFiles deletes temporary files and files of older versions.
Old(n, i, v) == n.idx = i /\ (n.tmp \/ n.ver < v)

NextItem(p, from, bad) ==
  LET l == [loc[p] EXCEPT !.bad = bad, !.idx = (@ + 1) % ShelfCount,
                          !.item = NoLocals.item]
  IN  Step(p, from, IF loc[p].idx = ShelfCount - 1 THEN "recovered" ELSE "item", l)

\* The item is read once.  One that was never used is skipped.
ReadItem(p) ==
  LET i == loc[p].idx
      v == slot[i]
  IN  /\ IF ~v.valid /\ v.ver = 0
         THEN NextItem(p, "item", loc[p].bad)
         ELSE Step(p, "item", "sweep",
                   [loc[p] EXCEPT !.item = v,
                                  !.todo = {n \in DOMAIN files : Old(n, i, v.ver)}])
      /\ UNCHANGED <<shared, open, life>>

\* The directory is read: a file that was there from the start is found, one
\* that appears meanwhile may be.
SweepFile(p) ==
  /\ \E n \in loc[p].todo \cup {m \in DOMAIN files : Old(m, loc[p].idx, loc[p].item.ver)} :
       /\ Unlink(n)
       /\ Step(p, "sweep", "sweep", [loc[p] EXCEPT !.todo = @ \ {n}])
  /\ UNCHANGED <<slot, meta, open, life>>

\* The file must be there exactly if the item was valid.
VerifyItem(p) ==
  /\ loc[p].todo = {}
  /\ NextItem(p, "sweep", loc[p].bad \/ Exist(Target(p)) # loc[p].item.valid)
  /\ UNCHANGED <<shared, open, life>>

\* Recover returns, to Close or to Destroy too.
RecoverReturn(p) ==
  /\ Step(p, "recovered", IF loc[p].then = "drop" THEN "drop" ELSE "idle", loc[p])
  /\ open' = [open EXCEPT ![p] = loc[p].then # "close"]
  /\ UNCHANGED <<shared, life>>

-----------------------------------------------------------------------------
(* The pool itself *)

\* Open, which runs Recover if it is asked to.
OpenPool(p) ==
  /\ ~open[p] /\ meta = "ready" /\ ~Exclusive
  /\ open' = [open EXCEPT ![p] = TRUE]
  /\ \/ at[p] = "idle" /\ UNCHANGED <<at, loc, solo>>
     \/ Begin(p, "item", NoLocals)
  /\ UNCHANGED <<events, shared, life>>

\* Close, which runs Recover first if it is asked to.
ClosePool(p) ==
  /\ open[p] /\ at[p] = "idle"
  /\ \/ /\ open' = [open EXCEPT ![p] = FALSE]
        /\ UNCHANGED <<at, loc, solo>>
     \/ /\ Begin(p, "item", [NoLocals EXCEPT !.then = "close"])
        /\ UNCHANGED open
  /\ UNCHANGED <<events, shared, life>>

\* Create: the metadata shelf, then its items and the magic number.
CreatePool(p) ==
  /\ ~open[p] /\ meta = "absent" /\ Alone(p) /\ life < MaxLives
  /\ Begin(p, "items", NoLocals)
  /\ meta' = "raw"
  /\ life' = life + 1
  /\ UNCHANGED <<events, slot, files, open>>

CreateItems(p) ==
  /\ Step(p, "items", "idle", NoLocals)
  /\ slot' = [i \in Index |-> [valid |-> FALSE, ver |-> 0]]
  /\ meta' = "ready"
  /\ UNCHANGED <<files, open, life>>

\* Destroy opens the pool, recovers it and removes every shelf; then it clears
\* and deletes the metadata shelf.
DestroyPool(p) ==
  /\ ~open[p] /\ meta = "ready" /\ Alone(p)
  /\ Begin(p, "item", [NoLocals EXCEPT !.then = "drop"])
  /\ open' = [open EXCEPT ![p] = TRUE]
  /\ UNCHANGED <<events, shared, life>>

\* CheckShelf, then RemoveShelf.
DropShelf(p) ==
  /\ IF slot[loc[p].idx].valid THEN Step(p, "drop", "load", loc[p])
                               ELSE Removed(p, "drop")
  /\ UNCHANGED <<shared, open, life>>

WipeItems(p) ==
  /\ Step(p, "wipe", "delete", loc[p])
  /\ slot' = [i \in Index |-> [valid |-> FALSE, ver |-> 0]]
  /\ meta' = "raw"
  /\ open' = [open EXCEPT ![p] = FALSE]
  /\ UNCHANGED <<files, life>>

DeleteMetadata(p) ==
  /\ Step(p, "delete", "idle", NoLocals)
  /\ meta' = "absent"
  /\ UNCHANGED <<slot, files, open, life>>

\* A process dies in an operation: its Pool object and its locals are lost.  One
\* that dies between operations is as good as closed.
Crash(p) ==
  /\ at[p] # "idle"
  /\ Event
  /\ at' = [at EXCEPT ![p] = "idle"]
  /\ loc' = [loc EXCEPT ![p] = NoLocals]
  /\ open' = [open EXCEPT ![p] = FALSE]
  /\ solo' = IF solo = p THEN Nobody ELSE solo
  /\ UNCHANGED <<shared, life>>

AddStep(p) ==
  \/ AddBegin(p) \/ CreateTemp(p) \/ Format(p) \/ ScanSlot(p)
  \/ GetFreeSlot(p) \/ TakeVersion(p) \/ RenameFile(p) \/ MarkSlotUsed(p)
  \/ AddFailed(p)

RemoveStep(p) ==
  RemoveBegin(p) \/ LoadSlot(p) \/ MarkSlotFree(p) \/ UnlinkShelf(p)

RecoverStep(p) ==
  \/ RecoverBegin(p) \/ ReadItem(p) \/ SweepFile(p) \/ VerifyItem(p)
  \/ RecoverReturn(p)

PoolStep(p) ==
  \/ OpenPool(p) \/ ClosePool(p) \/ CreatePool(p) \/ CreateItems(p)
  \/ DestroyPool(p) \/ DropShelf(p) \/ WipeItems(p) \/ DeleteMetadata(p)
  \/ Crash(p)

Next == \E p \in Proc : AddStep(p) \/ RemoveStep(p) \/ RecoverStep(p) \/ PoolStep(p)

Spec == Init /\ [][Next]_vars

-----------------------------------------------------------------------------
(* Properties *)

\* A shelf that is in the pool has its file, and the file was formatted: an item
\* is marked only after the rename, and neither Recover nor RemoveShelf ever
\* deletes the file of the version that is valid.
ValidHasFile ==
  meta = "ready" =>
    \A i \in Index : slot[i].valid =>
      /\ Exist(Final(i, slot[i].ver))
      /\ files[Final(i, slot[i].ver)].formatted
      /\ files[Final(i, slot[i].ver)].life = life

\* AddShelf returns NO_ERROR for a shelf that "was created by us": the file of the
\* item a process marks is the one it created and formatted itself.
MarksOwnFile ==
  [][\A i \in Index, p \in Proc :
       at[p] = "mark" /\ at'[p] = "idle" /\ ~slot[i].valid /\ slot'[i].valid =>
         LET n == Final(i, slot'[i].ver) IN Exist(n) /\ files[n].by = p]_vars

\* A version of an index names one shelf only: the rename of AddShelf never
\* replaces a file of this pool, and two processes never hold the same version.
VersionOnce ==
  /\ \A p \in Proc : at[p] = "rename" /\ Exist(Target(p)) => files[Target(p)].life < life
  /\ \A p, q \in Proc :
       p # q /\ {at[p], at[q]} \subseteq {"rename", "mark"} => Target(p) # Target(q)

\* What Recover leaves when it ran alone: the files of the shelves in the pool,
\* the file of an index whose AddShelf stopped between rename and mark (and only
\* then does it report an inconsistency), and what it does not look at: files of an
\* index that was never used, or of an earlier pool.
Remnant(n) == ~n.tmp /\ ~slot[n.idx].valid /\ n.ver = slot[n.idx].ver
SoloRecoverCleans ==
  \A p \in Proc : at[p] = "recovered" /\ solo = p =>
    /\ \A n \in DOMAIN files : slot[n.idx].ver > 0 /\ files[n].life = life =>
         n = Final(n.idx, slot[n.idx].ver)
    /\ loc[p].bad <=> \E n \in DOMAIN files : slot[n.idx].ver > 0 /\ Remnant(n)

\* What module ShelfPool sees of a pool: the shelves whose item is valid, each with
\* the process that made its file (nobody, if the file is not there or not complete).
MadeBy(i) ==
  LET n == Final(i, slot[i].ver)
  IN  IF Exist(n) /\ files[n].formatted /\ files[n].life = life THEN files[n].by ELSE Nobody
ShelvesInPool ==
  {[idx |-> i, ver |-> slot[i].ver, maker |-> MadeBy(i)] :
     i \in {j \in Index : meta = "ready" /\ slot[j].valid}}
Promise == INSTANCE ShelfPool WITH
  Maker <- Proc,
  ready <- (meta = "ready"),
  shelves <- ShelvesInPool,
  version <- [i \in Index |-> IF meta = "ready" THEN slot[i].ver ELSE 0]

\* A heap may take AddShelf and RemoveShelf for single steps: item and file change in
\* different steps of several processes, but the pool shows a shelf from the mark of its
\* item to the next version of it, complete all the time, whoever dies or recovers.
ImplementsShelfPool == Promise!Spec
=============================================================================
