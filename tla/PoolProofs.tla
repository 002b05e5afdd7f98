----------------------------- MODULE PoolProofs -----------------------------
(***************************************************************************)
(* What a pool promises for any processes, indices and files: a shelf that *)
(* is in the pool has its file, a version of an index names one shelf, and *)
(* a Recover that nobody disturbs cleans up.                               *)
(* Two hypotheses: the versions of an index do not wrap around (NoWrap),   *)
(* and no two processes draw the same random number (OwnNames).            *)
(***************************************************************************)
EXTENDS Pool, TLAPS

\* The 2^15 versions of an index are enough for the life of the pool.
NoWrap == MaxVersion + 1 < VersionCount /\ StartVersion <= MaxVersion + 1

\* RandForAddShelf never gives two processes the same name of a temporary file.
OwnNames == \A p, q \in Proc : p # q => Rand[p] \cap Rand[q] = {}

Locals == [req : Index, diff : BOOLEAN, start : Nat, idx : Index, item : Item,
           name : Name, todo : SUBSET Name, bad : BOOLEAN,
           then : {"idle", "close", "drop"}]
Typed == TypeOK /\ loc \in [Proc -> Locals]

\* Who has the pool open, and who has it for himself.
Mine(p) == at[p] \in PoolPC \/ loc[p].then = "drop"
OpenedFor(p) ==
  /\ at[p] = "idle" => loc[p] = NoLocals
  /\ at[p] \in AddPC \cup RemovePC \cup RecoverPC \cup {"drop", "wipe"} => open[p]
  /\ open[p] => meta = "ready"
  /\ at[p] \in {"items", "delete"} => meta = "raw"
  /\ Mine(p) => Alone(p)
Opened == \A p \in Proc : OpenedFor(p)

\* An item in use has a version that TakeVersion gave it.
Bounded ==
  \A i \in Index : /\ slot[i].ver <= MaxVersion + 1
                   /\ slot[i].valid => slot[i].ver <= MaxVersion

\* What an operation knows of an item is true or out of date.
Knows(p) ==
  LET s == slot[loc[p].idx]
      v == loc[p].item
  IN  /\ at[p] \in {"rename", "mark"} =>
           /\ ~v.valid /\ v.ver <= MaxVersion /\ v.ver <= s.ver
           /\ v.ver = s.ver => ~s.valid
      /\ at[p] = "free" => v.valid
      /\ at[p] = "unlink" => v.ver < s.ver
      /\ at[p] = "sweep" =>
           v.ver <= s.ver /\ \A n \in loc[p].todo : Old(n, loc[p].idx, v.ver)

\* A file that AddShelf works on: temporary, or of a version it gave up.
Searching == {"scan", "get", "bump", "rename"}
HasName(p) ==
  LET n == loc[p].name
  IN  /\ at[p] = "format" => n.tmp
      /\ at[p] \in Searching /\ ~n.tmp => n.ver < slot[n.idx].ver
      /\ at[p] \in {"format"} \cup Searching /\ n.tmp => n.ver \in Rand[p]
      /\ at[p] = "mark" => n = Target(p)
      /\ at[p] \in {"format", "mark"} \cup Searching /\ Exist(n) =>
           /\ files[n].by = p /\ files[n].life = life
           /\ at[p] # "format" => files[n].formatted
      /\ at[p] = "mark" /\ slot[loc[p].idx] = loc[p].item => Exist(n)

\* The final names an AddShelf uses are its own.
Claims(p) ==
  {n \in {Target(p)} : at[p] \in {"rename", "mark"}}
    \cup {n \in {loc[p].name} : at[p] \in Searching /\ ~n.tmp}
Apart == \A p, q \in Proc : p # q => Claims(p) \cap Claims(q) = {}

\* No file of this pool has a version that was not given out yet.
FilesKnown ==
  /\ \A n \in DOMAIN files :
       /\ files[n].life <= life
       /\ meta = "ready" /\ ~n.tmp /\ files[n].life = life => n.ver <= slot[n.idx].ver
  /\ \A p \in Proc :
       /\ at[p] = "rename" /\ Exist(Target(p)) => files[Target(p)].life < life
       /\ at[p] = "items" => \A n \in DOMAIN files : files[n].life < life

IInv ==
  /\ Typed /\ Opened /\ Bounded
  /\ \A p \in Proc : Knows(p) /\ HasName(p)
  /\ Apart /\ FilesKnown /\ ValidHasFile

-----------------------------------------------------------------------------
\* The constants, from PoolAssumption.
LEMMA Constants ==
  /\ ShelfCount \in Nat /\ ShelfCount > 0 /\ VersionCount \in Nat /\ VersionCount > 0
  /\ 0 \in Index /\ 0 \in Version /\ StartVersion \in Version
  /\ MaxEvents \in Nat /\ MaxVersion \in Nat /\ MaxLives \in Nat
  BY PoolAssumption DEF Index, Version

\* Indices and versions are taken modulo their number.
LEMMA Modulo ==
  /\ \A k \in Nat : k % ShelfCount \in Index
  /\ \A v \in Version : IncVersionNum(v) \in Version
  BY Constants DEF Index, Version, IncVersionNum

\* The locals of an idle process have their types.
LEMMA NoLocalsType == NoLocals \in Locals
  BY Constants DEF NoLocals, Locals, Item, Name, Final, Version

\* The names of files.
LEMMA NameType ==
  /\ \A i \in Index, v \in Version : Final(i, v) \in Name
  /\ \A i \in Index, p \in Proc : \A r \in Rand[p] : Temp(i, r) \in Name
  BY Constants, PoolAssumption DEF Final, Temp, Name, Version

\* What continuing an operation does to the control state.
LEMMA StepEffect ==
  ASSUME Typed, NEW p \in Proc, NEW from, NEW to \in PC, NEW l \in Locals, Step(p, from, to, l)
  PROVE  /\ at[p] = from /\ at'[p] = to /\ loc'[p] = IF to = "idle" THEN NoLocals ELSE l
         /\ \A q \in Proc \ {p} : at'[q] = at[q] /\ loc'[q] = loc[q]
         /\ at' \in [Proc -> PC] /\ loc' \in [Proc -> Locals]
         /\ solo' \in Proc \cup {Nobody} /\ events' = events
  BY NoLocalsType DEF Step, Typed, TypeOK

\* What beginning an operation does to the control state.
LEMMA BeginEffect ==
  ASSUME Typed, NEW p \in Proc, NEW label \in PC, NEW l \in Locals, Begin(p, label, l)
  PROVE  /\ at[p] = "idle" /\ at'[p] = label /\ loc'[p] = l
         /\ \A q \in Proc \ {p} : at'[q] = at[q] /\ loc'[q] = loc[q]
         /\ at' \in [Proc -> PC] /\ loc' \in [Proc -> Locals]
         /\ solo' \in Proc \cup {Nobody}
  BY DEF Begin, Typed, TypeOK

\* The operations that continue in one of several ways.
LEMMA NextIndexStep ==
  ASSUME Typed, NEW p \in Proc, NEW from, NextIndex(p, from)
  PROVE  \E to \in {"scan", "addfailed"}, l \in Locals :
           Step(p, from, to, l) /\ l.name = loc[p].name /\ l.then = loc[p].then
  <1>1. CASE loc[p].diff /\ loc[p].idx + 1 <= loc[p].req + ShelfCount - 1
    <2> DEFINE l == [loc[p] EXCEPT !.start = loc[p].idx + 1, !.item = NoLocals.item]
    <2>1. Step(p, from, "scan", l)
      BY <1>1 DEF NextIndex
    <2>2. NoLocals.item \in Item /\ loc[p].idx + 1 \in Nat /\ loc[p] \in Locals
      BY Constants DEF Typed, Locals, Index, NoLocals, Item
    <2>3. l \in Locals /\ l.name = loc[p].name /\ l.then = loc[p].then
      BY <2>2 DEF Locals
    <2>4. QED
      BY <2>1, <2>3
  <1>2. CASE ~(loc[p].diff /\ loc[p].idx + 1 <= loc[p].req + ShelfCount - 1)
    BY <1>2 DEF NextIndex, Typed
  <1>3. QED
    BY <1>1, <1>2

\* RemoveShelf is over: it goes back to Destroy if Destroy called it.
LEMMA RemovedStep ==
  ASSUME Typed, NEW p \in Proc, NEW from, Removed(p, from)
  PROVE  \E to \in {"idle", "drop", "wipe"}, l \in Locals :
           /\ Step(p, from, to, l) /\ l.then = loc[p].then
           /\ to # "idle" <=> loc[p].then = "drop"
  <1> DEFINE l == [loc[p] EXCEPT !.idx = (@ + 1) % ShelfCount]
  <1>1. loc[p] \in Locals /\ loc[p].idx + 1 \in Nat
    BY Constants DEF Typed, Locals, Index
  <1>2. l \in Locals /\ l.then = loc[p].then
    BY <1>1, Modulo DEF Locals
  <1>3. CASE loc[p].then = "drop"
    <2>1. Step(p, from, IF loc[p].idx = ShelfCount - 1 THEN "wipe" ELSE "drop", l)
      BY <1>3 DEF Removed
    <2>2. QED
      BY <1>2, <1>3, <2>1
  <1>4. CASE loc[p].then # "drop"
    BY <1>1, <1>4 DEF Removed
  <1>5. QED
    BY <1>3, <1>4

\* Recover goes on with the next item, or it is done.
LEMMA NextItemStep ==
  ASSUME Typed, NEW p \in Proc, NEW from, NEW bad \in BOOLEAN, NextItem(p, from, bad)
  PROVE  \E to \in {"recovered", "item"}, l \in Locals :
           Step(p, from, to, l) /\ l.then = loc[p].then
  <1> DEFINE l == [loc[p] EXCEPT !.bad = bad, !.idx = (@ + 1) % ShelfCount, !.item = NoLocals.item]
  <1>1. loc[p] \in Locals /\ loc[p].idx + 1 \in Nat /\ NoLocals.item \in Item
    BY Constants DEF Typed, Locals, Index, NoLocals, Item
  <1>2. l \in Locals /\ l.then = loc[p].then
    BY <1>1, Modulo DEF Locals
  <1>3. Step(p, from, IF loc[p].idx = ShelfCount - 1 THEN "recovered" ELSE "item", l)
    BY DEF NextItem
  <1>4. QED
    BY <1>2, <1>3

\* A file of any of its names is a file.
FilesTyped == DOMAIN files \subseteq Name /\ \A n \in DOMAIN files : files[n] \in File

\* The operations of the file system make files.
LEMMA FileEffects ==
  ASSUME FilesTyped, life \in Nat
  PROVE  /\ \A p \in Proc, n \in Name : Creat(p, n) => FilesTyped'
         /\ \A n \in DOMAIN files : files' = [files EXCEPT ![n].formatted = TRUE] => FilesTyped'
         /\ \A n : Unlink(n) => FilesTyped'
         /\ \A old \in DOMAIN files, new \in Name : Rename(old, new) => FilesTyped'
  <1>1. ASSUME NEW p \in Proc, NEW n \in Name, Creat(p, n) PROVE FilesTyped'
    BY <1>1 DEF Creat, FilesTyped, File
  <1>2. ASSUME NEW n \in DOMAIN files, files' = [files EXCEPT ![n].formatted = TRUE] PROVE FilesTyped'
    BY <1>2 DEF FilesTyped, File
  <1>3. ASSUME NEW n, Unlink(n) PROVE FilesTyped'
    BY <1>3 DEF Unlink, FilesTyped
  <1>4. ASSUME NEW old \in DOMAIN files, NEW new \in Name, Rename(old, new) PROVE FilesTyped'
    BY <1>4 DEF Rename, FilesTyped
  <1>5. QED
    BY <1>1, <1>2, <1>3, <1>4

-----------------------------------------------------------------------------
\* The types of what only some actions change.
SharedTyped ==
  /\ slot \in [Index -> Item] /\ FilesTyped
  /\ meta \in {"absent", "raw", "ready"} /\ open \in [Proc -> BOOLEAN] /\ life \in Nat
Moved ==
  /\ at' \in [Proc -> PC] /\ loc' \in [Proc -> Locals]
  /\ solo' \in Proc \cup {Nobody} /\ events' \in 0 .. MaxEvents

\* The types, in the two parts that the actions change.
LEMMA TypedParts ==
  /\ Typed => SharedTyped
  /\ SharedTyped' /\ Moved => Typed'
  <1>1. Typed => SharedTyped
    BY DEF Typed, TypeOK, SharedTyped, FilesTyped
  <1>2. ASSUME SharedTyped', Moved PROVE Typed'
    BY <1>2 DEF Typed, TypeOK, SharedTyped, FilesTyped, Moved, Locals
  <1>3. QED
    BY <1>1, <1>2

\* Continuing an operation keeps the types of the control state.
LEMMA StepMoved ==
  ASSUME Typed, NEW p \in Proc, NEW from, NEW to \in PC, NEW l \in Locals, Step(p, from, to, l)
  PROVE  Moved
  BY StepEffect DEF Moved, Typed, TypeOK

\* Beginning one does too.
LEMMA BeginMoved ==
  ASSUME Typed, NEW p \in Proc, NEW label \in PC, NEW l \in Locals, Begin(p, label, l),
         UNCHANGED events \/ Event
  PROVE  Moved
  BY BeginEffect, Constants DEF Moved, Typed, TypeOK, Event

\* AddShelf keeps the types.
LEMMA AddTyped ==
  ASSUME Typed, NEW p \in Proc, AddStep(p) PROVE Typed'
  <1> USE DEF shared, PC, AddPC, RemovePC, RecoverPC, PoolPC
  <1>l. loc[p] \in Locals /\ SharedTyped /\ life \in Nat
    BY TypedParts DEF Typed, SharedTyped
  <1>s. SharedTyped' \/ ~UNCHANGED <<shared, open, life>>
    BY <1>l DEF SharedTyped, FilesTyped
  <1>i. \A l \in Locals, v \in Item : [l EXCEPT !.item = v] \in Locals
    BY DEF Locals
  <1>1. CASE AddBegin(p)
    <2>1. PICK i \in Index, d \in BOOLEAN :
            Begin(p, "create", [NoLocals EXCEPT !.req = i, !.idx = i, !.start = i, !.diff = d])
      BY <1>1 DEF AddBegin
    <2>2. [NoLocals EXCEPT !.req = i, !.idx = i, !.start = i, !.diff = d] \in Locals
      <3>1. [NoLocals EXCEPT !.req = i, !.idx = i, !.start = i] \in Locals
        <4>1. i \in Nat
          BY Constants DEF Index
        <4>2. QED
          BY <4>1, NoLocalsType DEF Locals
      <3>2. \A l \in Locals : [l EXCEPT !.diff = d] \in Locals
        BY DEF Locals
      <3>3. [NoLocals EXCEPT !.req = i, !.idx = i, !.start = i, !.diff = d]
              = [[NoLocals EXCEPT !.req = i, !.idx = i, !.start = i] EXCEPT !.diff = d]
        BY DEF NoLocals
      <3>4. QED
        BY <3>1, <3>2, <3>3
    <2>3. Moved
      BY <1>1, <2>1, <2>2, BeginMoved DEF AddBegin
    <2>4. QED
      BY <1>1, <1>s, <2>3, TypedParts DEF AddBegin
  <1>2. CASE CreateTemp(p)
    <2>1. PICK r \in Rand[p] :
            /\ Creat(p, Temp(loc[p].idx, r))
            /\ Step(p, "create", "format", [loc[p] EXCEPT !.name = Temp(loc[p].idx, r)])
      BY <1>2 DEF CreateTemp
    <2>2. Temp(loc[p].idx, r) \in Name
      BY <1>l, NameType DEF Locals
    <2>3. [loc[p] EXCEPT !.name = Temp(loc[p].idx, r)] \in Locals
      BY <1>l, <2>2 DEF Locals
    <2>4. SharedTyped'
      BY <1>2, <1>l, <2>1, <2>2, FileEffects DEF SharedTyped, CreateTemp
    <2>5. QED
      BY <2>1, <2>3, <2>4, StepMoved, TypedParts
  <1>3. CASE Format(p)
    <2>1. SharedTyped'
      BY <1>3, <1>l, FileEffects DEF SharedTyped, Format, Exist, FilesTyped
    <2>2. \E to \in {"scan", "get", "addfailed"} : Step(p, "format", to, loc[p])
      BY <1>3 DEF Format
    <2>3. QED
      BY <1>l, <2>1, <2>2, StepMoved, TypedParts
  <1>4. CASE ScanSlot(p)
    <2> DEFINE i == loc[p].start % ShelfCount
    <2>1. i \in Index /\ i + 1 \in Nat /\ 0 \in Nat
      BY <1>l, Modulo, Constants DEF Locals, Index
    <2>2. /\ [loc[p] EXCEPT !.idx = i, !.start = 0] \in Locals
          /\ [loc[p] EXCEPT !.start = i + 1] \in Locals
      BY <1>l, <2>1 DEF Locals
    <2>3. \E to \in {"scan", "get", "addfailed"}, l \in Locals : Step(p, "scan", to, l)
      BY <1>4, <1>l, <2>2 DEF ScanSlot
    <2>4. QED
      BY <1>4, <1>s, <2>3, StepMoved, TypedParts DEF ScanSlot
  <1>5. CASE GetFreeSlot(p)
    <2>1. slot[loc[p].idx] \in Item
      BY <1>l DEF SharedTyped, Locals
    <2>2. \E to \in {"scan", "bump", "addfailed"}, l \in Locals : Step(p, "get", to, l)
      BY <1>5, <1>l, <1>i, <2>1, NextIndexStep DEF GetFreeSlot
    <2>3. QED
      BY <1>5, <1>s, <2>2, StepMoved, TypedParts DEF GetFreeSlot
  <1>6. CASE TakeVersion(p)
    <2> DEFINE new == [valid |-> FALSE, ver |-> IncVersionNum(loc[p].item.ver)]
    <2>1. new \in Item
      BY <1>l, Modulo DEF Locals, Item
    <2>2. slot' \in [Index -> Item]
      BY <1>6, <1>l, <2>1 DEF TakeVersion, CAS, SharedTyped
    <2>3. SharedTyped'
      BY <1>6, <1>l, <2>2 DEF TakeVersion, SharedTyped, FilesTyped
    <2>4. \E to \in {"scan", "rename", "addfailed"}, l \in Locals : Step(p, "bump", to, l)
      BY <1>6, <1>l, <1>i, <2>1, NextIndexStep DEF TakeVersion
    <2>5. QED
      BY <2>3, <2>4, StepMoved, TypedParts
  <1>7. CASE RenameFile(p)
    <2>1. Target(p) \in Name
      BY <1>l, NameType DEF Target, Locals, Item
    <2>2. SharedTyped'
      BY <1>7, <1>l, <2>1, FileEffects DEF SharedTyped, RenameFile, Exist, FilesTyped
    <2>3. [loc[p] EXCEPT !.name = Target(p)] \in Locals
      BY <1>l, <2>1 DEF Locals
    <2>4. QED
      BY <1>7, <1>l, <2>2, <2>3, StepMoved, TypedParts DEF RenameFile
  <1>8. CASE MarkSlotUsed(p)
    <2>1. [loc[p].item EXCEPT !.valid = TRUE] \in Item
      BY <1>l DEF Locals, Item
    <2>2. slot' \in [Index -> Item]
      BY <1>8, <1>l, <2>1 DEF MarkSlotUsed, CAS, SharedTyped
    <2>3. SharedTyped'
      BY <1>8, <1>l, <2>2 DEF MarkSlotUsed, SharedTyped, FilesTyped
    <2>4. \E to \in {"scan", "idle", "addfailed"}, l \in Locals : Step(p, "mark", to, l)
      BY <1>8, <1>l, NoLocalsType, NextIndexStep DEF MarkSlotUsed
    <2>5. QED
      BY <2>3, <2>4, StepMoved, TypedParts
  <1>9. CASE AddFailed(p)
    BY <1>9, <1>s, NoLocalsType, StepMoved, TypedParts DEF AddFailed
  <1>10. QED
    BY <1>1, <1>2, <1>3, <1>4, <1>5, <1>6, <1>7, <1>8, <1>9 DEF AddStep

\* RemoveShelf keeps the types.
LEMMA RemoveTyped ==
  ASSUME Typed, NEW p \in Proc, RemoveStep(p) PROVE Typed'
  <1> USE DEF shared, PC, AddPC, RemovePC, RecoverPC, PoolPC
  <1>l. loc[p] \in Locals /\ SharedTyped /\ life \in Nat
    BY TypedParts DEF Typed, SharedTyped
  <1>s. SharedTyped' \/ ~UNCHANGED <<shared, open, life>>
    BY <1>l DEF SharedTyped, FilesTyped
  <1>1. CASE RemoveBegin(p)
    <2>1. PICK i \in Index : Begin(p, "load", [NoLocals EXCEPT !.idx = i])
      BY <1>1 DEF RemoveBegin
    <2>2. [NoLocals EXCEPT !.idx = i] \in Locals
      BY NoLocalsType DEF Locals
    <2>3. Moved
      BY <1>1, <2>1, <2>2, BeginMoved DEF RemoveBegin
    <2>4. QED
      BY <1>1, <1>s, <2>3, TypedParts DEF RemoveBegin
  <1>2. CASE LoadSlot(p)
    <2>1. [loc[p] EXCEPT !.item = slot[loc[p].idx]] \in Locals
      BY <1>l DEF SharedTyped, Locals
    <2>2. \E to \in {"free", "idle", "drop", "wipe"}, l \in Locals : Step(p, "load", to, l)
      BY <1>2, <2>1, RemovedStep DEF LoadSlot
    <2>3. QED
      BY <1>2, <1>s, <2>2, StepMoved, TypedParts DEF LoadSlot
  <1>3. CASE MarkSlotFree(p)
    <2> DEFINE new == [valid |-> FALSE, ver |-> IncVersionNum(loc[p].item.ver)]
    <2>1. new \in Item
      BY <1>l, Modulo DEF Locals, Item
    <2>2. slot' \in [Index -> Item]
      BY <1>3, <1>l, <2>1 DEF MarkSlotFree, CAS, SharedTyped
    <2>3. SharedTyped'
      BY <1>3, <1>l, <2>2 DEF MarkSlotFree, SharedTyped, FilesTyped
    <2>4. \E to \in {"unlink", "idle", "drop", "wipe"}, l \in Locals : Step(p, "free", to, l)
      BY <1>3, <1>l, RemovedStep DEF MarkSlotFree
    <2>5. QED
      BY <2>3, <2>4, StepMoved, TypedParts
  <1>4. CASE UnlinkShelf(p)
    <2>1. SharedTyped'
      BY <1>4, <1>l, FileEffects DEF SharedTyped, UnlinkShelf
    <2>2. \E to \in {"idle", "drop", "wipe"}, l \in Locals : Step(p, "unlink", to, l)
      BY <1>4, RemovedStep DEF UnlinkShelf
    <2>3. QED
      BY <2>1, <2>2, StepMoved, TypedParts
  <1>5. QED
    BY <1>1, <1>2, <1>3, <1>4 DEF RemoveStep

\* Recover keeps the types.
LEMMA RecoverTyped ==
  ASSUME Typed, NEW p \in Proc, RecoverStep(p) PROVE Typed'
  <1> USE DEF shared, PC, AddPC, RemovePC, RecoverPC, PoolPC
  <1>l. loc[p] \in Locals /\ SharedTyped /\ life \in Nat
    BY TypedParts DEF Typed, SharedTyped
  <1>s. SharedTyped' \/ ~UNCHANGED <<shared, open, life>>
    BY <1>l DEF SharedTyped, FilesTyped
  <1>1. CASE RecoverBegin(p)
    <2>1. Moved
      BY <1>1, NoLocalsType, BeginMoved DEF RecoverBegin
    <2>2. QED
      BY <1>1, <1>s, <2>1, TypedParts DEF RecoverBegin
  <1>2. CASE ReadItem(p)
    <2> DEFINE i == loc[p].idx
               l == [loc[p] EXCEPT !.item = slot[i], !.todo = {n \in DOMAIN files : Old(n, i, slot[i].ver)}]
    <2>1. l \in Locals
      BY <1>l DEF SharedTyped, FilesTyped, Locals
    <2>2. loc[p].bad \in BOOLEAN
      BY <1>l DEF Locals
    <2>3. \E to \in {"sweep", "recovered", "item"}, x \in Locals : Step(p, "item", to, x)
      BY <1>2, <2>1, <2>2, NextItemStep DEF ReadItem
    <2>4. QED
      BY <1>2, <1>s, <2>3, StepMoved, TypedParts DEF ReadItem
  <1>3. CASE SweepFile(p)
    <2>1. PICK n : Unlink(n) /\ Step(p, "sweep", "sweep", [loc[p] EXCEPT !.todo = @ \ {n}])
      BY <1>3 DEF SweepFile
    <2>2. [loc[p] EXCEPT !.todo = @ \ {n}] \in Locals
      BY <1>l DEF Locals
    <2>3. SharedTyped'
      BY <1>3, <1>l, <2>1, FileEffects DEF SharedTyped, SweepFile
    <2>4. QED
      BY <2>1, <2>2, <2>3, StepMoved, TypedParts
  <1>4. CASE VerifyItem(p)
    <2>1. (loc[p].bad \/ Exist(Target(p)) # loc[p].item.valid) \in BOOLEAN
      BY <1>l DEF Locals
    <2>2. \E to \in {"recovered", "item"}, x \in Locals : Step(p, "sweep", to, x)
      BY <1>4, <2>1, NextItemStep DEF VerifyItem
    <2>3. QED
      BY <1>4, <1>s, <2>2, StepMoved, TypedParts DEF VerifyItem
  <1>5. CASE RecoverReturn(p)
    <2>1. SharedTyped'
      BY <1>5, <1>l DEF RecoverReturn, SharedTyped, FilesTyped
    <2>2. \E to \in {"drop", "idle"} : Step(p, "recovered", to, loc[p])
      BY <1>5 DEF RecoverReturn
    <2>3. QED
      BY <1>l, <2>1, <2>2, StepMoved, TypedParts
  <1>6. QED
    BY <1>1, <1>2, <1>3, <1>4, <1>5 DEF RecoverStep

\* The operations on the pool itself keep the types.
LEMMA PoolTyped ==
  ASSUME Typed, NEW p \in Proc, PoolStep(p) PROVE Typed'
  <1> USE DEF shared, PC, AddPC, RemovePC, RecoverPC, PoolPC
  <1>l. loc[p] \in Locals /\ SharedTyped /\ life \in Nat
    BY TypedParts DEF Typed, SharedTyped
  <1>m. UNCHANGED <<at, loc, solo, events>> => Moved
    BY DEF Moved, Typed, TypeOK
  <1>t. \A x \in {"close", "drop"} : [NoLocals EXCEPT !.then = x] \in Locals
    BY NoLocalsType DEF Locals
  <1>n. [i \in Index |-> [valid |-> FALSE, ver |-> 0]] \in [Index -> Item]
    BY Constants DEF Item
  <1>1. CASE OpenPool(p) \/ ClosePool(p) \/ DestroyPool(p)
    <2>1. SharedTyped'
      BY <1>1, <1>l DEF OpenPool, ClosePool, DestroyPool, SharedTyped, FilesTyped
    <2>2. /\ UNCHANGED events
          /\ UNCHANGED <<at, loc, solo>> \/ \E l \in Locals : Begin(p, "item", l)
      <3>1. CASE OpenPool(p)
        BY <3>1, NoLocalsType DEF OpenPool
      <3>2. CASE ClosePool(p)
        BY <3>2, <1>t DEF ClosePool
      <3>3. CASE DestroyPool(p)
        BY <3>3, <1>t DEF DestroyPool
      <3>4. QED
        BY <1>1, <3>1, <3>2, <3>3
    <2>3. QED
      BY <1>m, <2>1, <2>2, BeginMoved, TypedParts
  <1>2. CASE CreatePool(p)
    <2>1. SharedTyped'
      BY <1>2, <1>l DEF CreatePool, SharedTyped, FilesTyped
    <2>2. QED
      BY <1>2, <2>1, NoLocalsType, BeginMoved, TypedParts DEF CreatePool
  <1>3. CASE CreateItems(p)
    <2>1. SharedTyped'
      BY <1>3, <1>l, <1>n DEF CreateItems, SharedTyped, FilesTyped
    <2>2. QED
      BY <1>3, <2>1, NoLocalsType, StepMoved, TypedParts DEF CreateItems
  <1>4. CASE DropShelf(p)
    <2>1. \E to \in {"load", "idle", "drop", "wipe"}, l \in Locals : Step(p, "drop", to, l)
      BY <1>4, <1>l, RemovedStep DEF DropShelf
    <2>2. SharedTyped'
      BY <1>4, <1>l DEF DropShelf, SharedTyped, FilesTyped
    <2>3. QED
      BY <2>1, <2>2, StepMoved, TypedParts
  <1>5. CASE WipeItems(p)
    <2>1. SharedTyped'
      BY <1>5, <1>l, <1>n DEF WipeItems, SharedTyped, FilesTyped
    <2>2. QED
      BY <1>5, <1>l, <2>1, StepMoved, TypedParts DEF WipeItems
  <1>6. CASE DeleteMetadata(p)
    <2>1. SharedTyped'
      BY <1>6, <1>l DEF DeleteMetadata, SharedTyped, FilesTyped
    <2>2. QED
      BY <1>6, <2>1, NoLocalsType, StepMoved, TypedParts DEF DeleteMetadata
  <1>7. CASE Crash(p)
    <2>1. SharedTyped'
      BY <1>7, <1>l DEF Crash, SharedTyped, FilesTyped
    <2>2. Moved
      BY <1>7, NoLocalsType, Constants DEF Crash, Moved, Typed, TypeOK, Event
    <2>3. QED
      BY <2>1, <2>2, TypedParts
  <1>8. QED
    BY <1>1, <1>2, <1>3, <1>4, <1>5, <1>6, <1>7 DEF PoolStep

\* Every step keeps the types.
LEMMA NextTyped == ASSUME Typed, [Next]_vars PROVE Typed'
  <1>1. CASE UNCHANGED vars
    <2>1. SharedTyped' /\ Moved
      BY <1>1, TypedParts DEF vars, shared, SharedTyped, FilesTyped, Moved, Typed, TypeOK
    <2>2. QED
      BY <2>1, TypedParts
  <1>2. QED
    BY <1>1, AddTyped, RemoveTyped, RecoverTyped, PoolTyped DEF Next

-----------------------------------------------------------------------------
Acts(p) == AddStep(p) \/ RemoveStep(p) \/ RecoverStep(p) \/ PoolStep(p)

\* A process moves only itself.
Stays(q) == at'[q] = at[q] /\ loc'[q] = loc[q] /\ open'[q] = open[q]

\* A step of a process leaves the control state of the others alone.
LEMMA OthersStay ==
  ASSUME Typed, NEW p \in Proc, Acts(p), NEW q \in Proc \ {p} PROVE Stays(q)
  <1> USE DEF shared, Stays
  <1>d. DOMAIN at = Proc /\ DOMAIN loc = Proc /\ DOMAIN open = Proc
    BY DEF Typed, TypeOK
  <1>1. ASSUME NEW from, NEW to, NEW l, Step(p, from, to, l) PROVE at'[q] = at[q] /\ loc'[q] = loc[q]
    BY <1>1, <1>d DEF Step
  <1>2. ASSUME NEW label, NEW l, Begin(p, label, l) PROVE at'[q] = at[q] /\ loc'[q] = loc[q]
    BY <1>2, <1>d DEF Begin
  <1>3. CASE AddStep(p)
    BY <1>1, <1>2, <1>3 DEF AddStep, AddBegin, CreateTemp, Format, ScanSlot, GetFreeSlot, TakeVersion,
       RenameFile, MarkSlotUsed, AddFailed, NextIndex
  <1>4. CASE RemoveStep(p)
    BY <1>1, <1>2, <1>4 DEF RemoveStep, RemoveBegin, LoadSlot, MarkSlotFree, UnlinkShelf, Removed
  <1>5. CASE RecoverStep(p)
    BY <1>1, <1>2, <1>5, <1>d DEF RecoverStep, RecoverBegin, ReadItem, SweepFile, VerifyItem,
       RecoverReturn, NextItem
  <1>6. CASE PoolStep(p)
    <2>1. CASE OpenPool(p) \/ ClosePool(p) \/ CreatePool(p) \/ CreateItems(p)
      BY <1>1, <1>2, <1>d, <2>1 DEF OpenPool, ClosePool, CreatePool, CreateItems
    <2>2. CASE DestroyPool(p) \/ DropShelf(p) \/ WipeItems(p) \/ DeleteMetadata(p) \/ Crash(p)
      BY <1>1, <1>2, <1>d, <2>2 DEF DestroyPool, DropShelf, WipeItems, DeleteMetadata, Crash, Removed
    <2>3. QED
      BY <1>6, <2>1, <2>2 DEF PoolStep
  <1>7. QED
    BY <1>3, <1>4, <1>5, <1>6 DEF Acts

\* An operation begins in a pool that is open, and goes on or ends.
Begins(p) ==
  /\ UNCHANGED <<slot, files, meta, life, open>>
  /\ open[p] /\ at[p] = "idle"
  /\ at'[p] \in {"create", "load", "item"} /\ loc'[p].then = "idle"
Continues(p) ==
  /\ UNCHANGED <<meta, life, open>>
  /\ at[p] \in AddPC \cup RemovePC \cup RecoverPC \cup {"drop"}
  /\ \/ at'[p] = "idle" /\ loc'[p] = NoLocals
     \/ at'[p] \in AddPC \cup RemovePC \cup RecoverPC /\ loc'[p].then = loc[p].then
     \/ at'[p] \in {"drop", "wipe"} /\ loc[p].then = "drop" /\ loc'[p].then = "drop"

\* AddShelf neither opens nor closes the pool.
LEMMA AddContinues ==
  ASSUME Typed, NEW p \in Proc, AddStep(p) PROVE Begins(p) \/ Continues(p)
  <1> USE DEF shared, AddPC
  <1>d. DOMAIN at = Proc /\ DOMAIN loc = Proc /\ loc[p] \in Locals
    BY DEF Typed, TypeOK
  <1>1. ASSUME NEW from \in AddPC, NEW to \in AddPC, NEW l, l.then = loc[p].then, Step(p, from, to, l),
               UNCHANGED <<meta, life, open>>
        PROVE  Continues(p)
    BY <1>1, <1>d DEF Step, Continues
  <1>2. ASSUME NEW from \in AddPC, NEW l, Step(p, from, "idle", l), UNCHANGED <<meta, life, open>>
        PROVE  Continues(p)
    BY <1>2, <1>d DEF Step, Continues
  <1>3. ASSUME NEW from \in AddPC, NextIndex(p, from), UNCHANGED <<meta, life, open>> PROVE Continues(p)
    BY <1>1, <1>3, NextIndexStep
  <1>4. CASE AddBegin(p)
    BY <1>4, <1>d DEF AddBegin, Begin, Begins, NoLocals
  <1>5. CASE CreateTemp(p)
    <2>1. PICK n : Step(p, "create", "format", [loc[p] EXCEPT !.name = n])
      BY <1>5 DEF CreateTemp
    <2>2. [loc[p] EXCEPT !.name = n].then = loc[p].then
      BY <1>d DEF Locals
    <2>3. QED
      BY <1>1, <1>5, <2>1, <2>2 DEF CreateTemp
  <1>6. CASE Format(p)
    BY <1>1, <1>6 DEF Format
  <1>7. CASE ScanSlot(p)
    <2>1. \A i : /\ [loc[p] EXCEPT !.idx = i, !.start = 0].then = loc[p].then
                 /\ [loc[p] EXCEPT !.start = i].then = loc[p].then
      BY <1>d DEF Locals
    <2>2. QED
      BY <1>1, <1>7, <2>1 DEF ScanSlot
  <1>8. CASE GetFreeSlot(p) \/ TakeVersion(p) \/ MarkSlotUsed(p)
    <2>1. \A v : [loc[p] EXCEPT !.item = v].then = loc[p].then
      BY <1>d DEF Locals
    <2>2. CASE GetFreeSlot(p)
      BY <1>1, <1>3, <2>1, <2>2 DEF GetFreeSlot
    <2>3. CASE TakeVersion(p)
      BY <1>1, <1>3, <2>1, <2>3 DEF TakeVersion
    <2>4. CASE MarkSlotUsed(p)
      BY <1>2, <1>3, <2>4 DEF MarkSlotUsed
    <2>5. QED
      BY <1>8, <2>2, <2>3, <2>4
  <1>9. CASE RenameFile(p)
    <2>1. [loc[p] EXCEPT !.name = Target(p)].then = loc[p].then
      BY <1>d DEF Locals
    <2>2. QED
      BY <1>1, <1>9, <2>1 DEF RenameFile
  <1>10. CASE AddFailed(p)
    BY <1>2, <1>10 DEF AddFailed
  <1>11. QED
    BY <1>4, <1>5, <1>6, <1>7, <1>8, <1>9, <1>10 DEF AddStep

\* RemoveShelf ends without a change to the pool itself.
LEMMA RemovedContinues ==
  ASSUME Typed, NEW p \in Proc, NEW from \in RemovePC \cup {"drop"}, Removed(p, from),
         UNCHANGED <<meta, life, open>>
  PROVE  Continues(p)
  <1>1. PICK to \in {"idle", "drop", "wipe"}, l \in Locals :
          Step(p, from, to, l) /\ l.then = loc[p].then /\ (to # "idle" <=> loc[p].then = "drop")
    BY RemovedStep
  <1>2. at[p] = from /\ at'[p] = to /\ loc'[p] = IF to = "idle" THEN NoLocals ELSE l
    BY <1>1 DEF Step, Typed, TypeOK
  <1>3. QED
    BY <1>1, <1>2 DEF Continues

\* RemoveShelf, and the loop of Destroy, neither open nor close the pool.
LEMMA RemoveContinues ==
  ASSUME Typed, NEW p \in Proc, RemoveStep(p) \/ DropShelf(p) PROVE Begins(p) \/ Continues(p)
  <1> USE DEF shared, RemovePC
  <1>d. DOMAIN at = Proc /\ DOMAIN loc = Proc /\ loc[p] \in Locals
    BY DEF Typed, TypeOK
  <1>1. ASSUME NEW from \in RemovePC \cup {"drop"}, NEW to \in RemovePC, NEW l,
               l.then = loc[p].then, Step(p, from, to, l), UNCHANGED <<meta, life, open>>
        PROVE  Continues(p)
    BY <1>1, <1>d DEF Step, Continues
  <1>2. CASE RemoveBegin(p)
    <2>1. PICK i : Begin(p, "load", [NoLocals EXCEPT !.idx = i])
      BY <1>2 DEF RemoveBegin
    <2>2. [NoLocals EXCEPT !.idx = i].then = "idle"
      BY DEF NoLocals
    <2>3. QED
      BY <1>2, <1>d, <2>1, <2>2 DEF RemoveBegin, Begin, Begins
  <1>3. CASE LoadSlot(p)
    <2>1. \A v : [loc[p] EXCEPT !.item = v].then = loc[p].then
      BY <1>d DEF Locals
    <2>2. QED
      BY <1>1, <1>3, <2>1, RemovedContinues DEF LoadSlot
  <1>4. CASE MarkSlotFree(p)
    BY <1>1, <1>4, RemovedContinues DEF MarkSlotFree
  <1>5. CASE UnlinkShelf(p)
    BY <1>5, RemovedContinues DEF UnlinkShelf
  <1>6. CASE DropShelf(p)
    BY <1>1, <1>6, RemovedContinues DEF DropShelf
  <1>7. QED
    BY <1>2, <1>3, <1>4, <1>5, <1>6 DEF RemoveStep

\* Recover closes the pool only where it returns.
LEMMA RecoverContinues ==
  ASSUME Typed, NEW p \in Proc, RecoverStep(p)
  PROVE  Begins(p) \/ Continues(p) \/ RecoverReturn(p)
  <1> USE DEF shared, RecoverPC
  <1>d. DOMAIN at = Proc /\ DOMAIN loc = Proc /\ loc[p] \in Locals
    BY DEF Typed, TypeOK
  <1>1. ASSUME NEW from \in RecoverPC, NEW to \in RecoverPC, NEW l,
               l.then = loc[p].then, Step(p, from, to, l), UNCHANGED <<meta, life, open>>
        PROVE  Continues(p)
    BY <1>1, <1>d DEF Step, Continues
  <1>2. ASSUME NEW from \in RecoverPC, NEW bad \in BOOLEAN, NextItem(p, from, bad),
               UNCHANGED <<meta, life, open>>
        PROVE  Continues(p)
    BY <1>1, <1>2, NextItemStep
  <1>3. CASE RecoverBegin(p)
    BY <1>3, <1>d DEF RecoverBegin, Begin, Begins, NoLocals
  <1>4. CASE ReadItem(p)
    <2>1. \A v, s : [loc[p] EXCEPT !.item = v, !.todo = s].then = loc[p].then
      BY <1>d DEF Locals
    <2>2. loc[p].bad \in BOOLEAN
      BY <1>d DEF Locals
    <2>3. QED
      BY <1>1, <1>2, <1>4, <2>1, <2>2 DEF ReadItem
  <1>5. CASE SweepFile(p)
    <2>1. PICK n : Step(p, "sweep", "sweep", [loc[p] EXCEPT !.todo = @ \ {n}])
      BY <1>5 DEF SweepFile
    <2>2. [loc[p] EXCEPT !.todo = @ \ {n}].then = loc[p].then
      BY <1>d DEF Locals
    <2>3. QED
      BY <1>1, <1>5, <2>1, <2>2 DEF SweepFile
  <1>6. CASE VerifyItem(p)
    <2>1. (loc[p].bad \/ Exist(Target(p)) # loc[p].item.valid) \in BOOLEAN
      BY <1>d DEF Locals
    <2>2. QED
      BY <1>2, <1>6, <2>1 DEF VerifyItem
  <1>7. QED
    BY <1>3, <1>4, <1>5, <1>6 DEF RecoverStep

-----------------------------------------------------------------------------
\* Who has the pool for himself is alone: nobody else does anything.
LEMMA MineBlocks ==
  ASSUME Typed, Opened, NEW p \in Proc, Acts(p), NEW q \in Proc \ {p} PROVE ~Mine(q)
  <1> SUFFICES ASSUME Mine(q) PROVE FALSE
    OBVIOUS
  <1> USE DEF PoolPC, AddPC, RemovePC, RecoverPC
  <1>1. Alone(q) /\ at[p] = "idle" /\ ~open[p]
    BY DEF Opened, OpenedFor, Alone
  <1>2. ~Begins(p) /\ ~Continues(p)
    BY <1>1 DEF Begins, Continues
  <1>3. at[q] # "idle"
    BY DEF Opened, OpenedFor, NoLocals, Mine
  <1>4. ~Alone(p)
    BY <1>3 DEF Alone
  <1>5. Exclusive
    BY DEF Mine, Exclusive
  <1>6. ~RecoverReturn(p)
    BY <1>1 DEF RecoverReturn, Step
  <1>7. ~PoolStep(p)
    <2>1. ~OpenPool(p) /\ ~ClosePool(p) /\ ~CreatePool(p) /\ ~DestroyPool(p)
      BY <1>1, <1>4, <1>5 DEF OpenPool, ClosePool, CreatePool, DestroyPool
    <2>2. ~CreateItems(p) /\ ~WipeItems(p) /\ ~DeleteMetadata(p) /\ ~Crash(p)
      BY <1>1 DEF CreateItems, WipeItems, DeleteMetadata, Crash, Step
    <2>3. ~DropShelf(p)
      BY <1>2, RemoveContinues
    <2>4. QED
      BY <2>1, <2>2, <2>3 DEF PoolStep
  <1>8. QED
    BY <1>2, <1>6, <1>7, AddContinues, RemoveContinues, RecoverContinues DEF Acts

\* The operations on the pool itself that change its metadata.
Rebuilds(p) == CreatePool(p) \/ CreateItems(p) \/ WipeItems(p) \/ DeleteMetadata(p)

\* Only the operations on the pool itself change the metadata shelf.
LEMMA MetaKept ==
  ASSUME Typed, NEW p \in Proc, Acts(p) PROVE Rebuilds(p) \/ UNCHANGED <<meta, life>>
  <1>1. Begins(p) \/ Continues(p) => UNCHANGED <<meta, life>>
    BY DEF Begins, Continues
  <1>2. RecoverReturn(p) \/ OpenPool(p) \/ ClosePool(p) \/ DestroyPool(p) \/ Crash(p) => UNCHANGED <<meta, life>>
    BY DEF RecoverReturn, OpenPool, ClosePool, DestroyPool, Crash, shared
  <1>3. QED
    BY <1>1, <1>2, AddContinues, RemoveContinues, RecoverContinues DEF Acts, PoolStep, Rebuilds

\* They run alone.
LEMMA RebuildsAlone ==
  ASSUME Typed, Opened, NEW p \in Proc, Rebuilds(p) PROVE Alone(p)
  <1>1. CreatePool(p) => Alone(p)
    BY DEF CreatePool
  <1>2. CreateItems(p) \/ WipeItems(p) \/ DeleteMetadata(p) => Mine(p)
    BY DEF CreateItems, WipeItems, DeleteMetadata, Step, Mine, PoolPC
  <1>3. QED
    BY <1>1, <1>2 DEF Rebuilds, Opened, OpenedFor

\* The process that moves keeps its part of Opened.
LEMMA OpenedSelf ==
  ASSUME Typed, Opened, NEW p \in Proc, Acts(p) PROVE OpenedFor(p)'
  <1> USE DEF PoolPC, AddPC, RemovePC, RecoverPC
  <1>d. DOMAIN at = Proc /\ DOMAIN loc = Proc /\ DOMAIN open = Proc
    BY DEF Typed, TypeOK
  <1>o. OpenedFor(p)
    BY DEF Opened
  <1>a. Alone(p) => Alone(p)'
    BY OthersStay DEF Alone, Stays
  <1>n. NoLocals.then = "idle"
    BY DEF NoLocals
  <1>1. CASE Begins(p)
    BY <1>1, <1>o DEF Begins, OpenedFor, Mine
  <1>2. CASE Continues(p)
    BY <1>2, <1>o, <1>a, <1>n DEF Continues, OpenedFor, Mine
  <1>3. CASE RecoverReturn(p)
    BY <1>3, <1>o, <1>a, <1>d, <1>n DEF RecoverReturn, Step, shared, OpenedFor, Mine
  <1>4. CASE OpenPool(p) \/ ClosePool(p)
    <2>1. \A x : [NoLocals EXCEPT !.then = x].then = x
      BY DEF NoLocals
    <2>2. CASE OpenPool(p)
      BY <2>2, <1>o, <1>a, <1>d, <1>n DEF OpenPool, Begin, shared, OpenedFor, Mine
    <2>3. CASE ClosePool(p)
      BY <2>3, <2>1, <1>o, <1>a, <1>d, <1>n DEF ClosePool, Begin, shared, OpenedFor, Mine
    <2>4. QED
      BY <1>4, <2>2, <2>3
  <1>5. CASE CreatePool(p)
    BY <1>5, <1>o, <1>a, <1>d, <1>n DEF CreatePool, Begin, OpenedFor, Mine
  <1>6. CASE CreateItems(p)
    BY <1>6, <1>o, <1>a, <1>d, <1>n DEF CreateItems, Step, OpenedFor, Mine
  <1>7. CASE DestroyPool(p)
    BY <1>7, <1>o, <1>a, <1>d, <1>n DEF DestroyPool, Begin, shared, OpenedFor, Mine
  <1>8. CASE WipeItems(p)
    BY <1>8, <1>o, <1>a, <1>d, <1>n DEF WipeItems, Step, OpenedFor, Mine
  <1>9. CASE DeleteMetadata(p)
    BY <1>9, <1>o, <1>a, <1>d, <1>n DEF DeleteMetadata, Step, OpenedFor, Mine
  <1>10. CASE Crash(p)
    BY <1>10, <1>o, <1>d, <1>n DEF Crash, shared, OpenedFor, Mine
  <1>11. QED
    BY <1>1, <1>2, <1>3, <1>4, <1>5, <1>6, <1>7, <1>8, <1>9, <1>10, AddContinues, RemoveContinues,
       RecoverContinues DEF Acts, PoolStep

\* Every step keeps Opened.
LEMMA NextOpened ==
  ASSUME Typed, Opened, [Next]_vars PROVE Opened'
  <1>1. CASE UNCHANGED vars
    BY <1>1 DEF vars, shared, Opened, OpenedFor, Mine, Alone
  <1>2. ASSUME NEW p \in Proc, Acts(p) PROVE Opened'
    <2>1. OpenedFor(p)'
      BY <1>2, OpenedSelf
    <2>2. ASSUME NEW q \in Proc \ {p} PROVE OpenedFor(q)'
      <3>1. Stays(q) /\ OpenedFor(q) /\ ~Mine(q)
        BY <1>2, OthersStay, MineBlocks DEF Opened
      <3>2. ~Mine(q)'
        BY <3>1 DEF Mine, Stays
      <3>3. open[q] => meta' = meta
        BY <1>2, MetaKept, RebuildsAlone DEF Alone
      <3>4. QED
        BY <3>1, <3>2, <3>3 DEF OpenedFor, Stays, Mine, PoolPC
    <2>3. QED
      BY <2>1, <2>2 DEF Opened
  <1>3. QED
    BY <1>1, <1>2 DEF Next, Acts

-----------------------------------------------------------------------------
(* What an operation does to the items. *)

Takes(p) ==
  LET i == loc[p].idx
  IN  /\ at[p] = "bump" /\ at'[p] = "rename" /\ slot[i] = loc[p].item /\ slot[i].ver < MaxVersion
      /\ slot' = [slot EXCEPT ![i] = [valid |-> FALSE, ver |-> slot[i].ver + 1]]
      /\ loc'[p] = [loc[p] EXCEPT !.item = [valid |-> FALSE, ver |-> slot[i].ver + 1]]
Frees(p) ==
  LET i == loc[p].idx
  IN  /\ at[p] = "free" /\ at'[p] = "unlink" /\ slot[i] = loc[p].item /\ slot[i].ver <= MaxVersion
      /\ slot' = [slot EXCEPT ![i] = [valid |-> FALSE, ver |-> slot[i].ver + 1]]
      /\ loc'[p] = loc[p]
Marks(p) ==
  LET i == loc[p].idx
  IN  /\ at[p] = "mark" /\ at'[p] = "idle" /\ slot[i] = loc[p].item
      /\ slot' = [slot EXCEPT ![i] = [loc[p].item EXCEPT !.valid = TRUE]]
SlotChange(p) == UNCHANGED slot \/ Takes(p) \/ Frees(p) \/ Marks(p)

\* While the versions do not wrap around, the next one is one more.
LEMMA NextVersion ==
  ASSUME NoWrap, NEW v \in Version, v <= MaxVersion PROVE IncVersionNum(v) = v + 1
  BY Constants DEF NoWrap, Version, IncVersionNum

\* Setting the valid bit leaves the version alone.
LEMMA MarkedItem ==
  \A v \in Item : [v EXCEPT !.valid = TRUE].valid /\ [v EXCEPT !.valid = TRUE].ver = v.ver
  BY DEF Item

\* No step changes an item in another way than these.
LEMMA SlotEffect ==
  ASSUME NoWrap, Typed, Bounded, NEW p \in Proc, Knows(p), Acts(p)
  PROVE  Rebuilds(p) \/ SlotChange(p)
  <1>d. /\ DOMAIN at = Proc /\ DOMAIN loc = Proc /\ loc[p] \in Locals /\ slot \in [Index -> Item]
        /\ loc[p].idx \in Index /\ loc[p].item \in Item /\ MaxVersion \in Nat
    BY Constants DEF Typed, TypeOK, Locals
  <1>1. CASE TakeVersion(p) /\ ~UNCHANGED slot
    <2> DEFINE new == [valid |-> FALSE, ver |-> IncVersionNum(loc[p].item.ver)]
    <2>1. /\ loc[p].item.ver < MaxVersion /\ slot[loc[p].idx] = loc[p].item
          /\ slot' = [slot EXCEPT ![loc[p].idx] = new]
          /\ Step(p, "bump", "rename", [loc[p] EXCEPT !.item = new])
      BY <1>1 DEF TakeVersion, CAS
    <2>2. IncVersionNum(loc[p].item.ver) = slot[loc[p].idx].ver + 1
      BY <1>d, <2>1, NextVersion DEF Item, Version
    <2>3. at[p] = "bump" /\ at'[p] = "rename" /\ loc'[p] = [loc[p] EXCEPT !.item = new]
      BY <1>d, <2>1 DEF Step
    <2>4. QED
      BY <2>1, <2>2, <2>3 DEF Takes, SlotChange
  <1>2. CASE MarkSlotFree(p) /\ ~UNCHANGED slot
    <2> DEFINE new == [valid |-> FALSE, ver |-> IncVersionNum(loc[p].item.ver)]
    <2>1. /\ slot[loc[p].idx] = loc[p].item
          /\ slot' = [slot EXCEPT ![loc[p].idx] = new]
          /\ Step(p, "free", "unlink", loc[p])
      BY <1>2 DEF MarkSlotFree, CAS
    <2>2. at[p] = "free" /\ at'[p] = "unlink" /\ loc'[p] = loc[p]
      BY <1>d, <2>1 DEF Step
    <2>3. slot[loc[p].idx].ver <= MaxVersion
      BY <1>d, <2>1, <2>2 DEF Knows, Bounded
    <2>4. IncVersionNum(loc[p].item.ver) = slot[loc[p].idx].ver + 1
      BY <1>d, <2>1, <2>3, NextVersion DEF Item
    <2>5. QED
      BY <2>1, <2>2, <2>3, <2>4 DEF Frees, SlotChange
  <1>3. CASE MarkSlotUsed(p) /\ ~UNCHANGED slot
    <2>1. /\ slot[loc[p].idx] = loc[p].item
          /\ slot' = [slot EXCEPT ![loc[p].idx] = [loc[p].item EXCEPT !.valid = TRUE]]
          /\ Step(p, "mark", "idle", NoLocals)
      BY <1>3 DEF MarkSlotUsed, CAS
    <2>3. at[p] = "mark" /\ at'[p] = "idle"
      BY <1>d, <2>1 DEF Step
    <2>4. QED
      BY <2>1, <2>3 DEF Marks, SlotChange
  <1> USE DEF shared
  <1>4. CASE AddStep(p)
    BY <1>1, <1>3, <1>4 DEF AddStep, AddBegin, CreateTemp, Format, ScanSlot, GetFreeSlot,
       RenameFile, AddFailed, SlotChange
  <1>5. CASE RemoveStep(p)
    BY <1>2, <1>5 DEF RemoveStep, RemoveBegin, LoadSlot, UnlinkShelf, SlotChange
  <1>6. CASE RecoverStep(p)
    BY <1>6 DEF RecoverStep, RecoverBegin, ReadItem, SweepFile, VerifyItem, RecoverReturn, SlotChange
  <1>7. CASE PoolStep(p)
    BY <1>7 DEF PoolStep, Rebuilds, OpenPool, ClosePool, DestroyPool, DropShelf, Crash, SlotChange
  <1>8. QED
    BY <1>4, <1>5, <1>6, <1>7 DEF Acts

\* The versions of an item only grow; an item becomes valid only by a mark.
Grows(p) ==
  \A i \in Index :
    /\ slot[i].ver <= slot'[i].ver
    /\ slot'[i].ver = slot[i].ver /\ slot'[i] # slot[i] =>
         /\ ~slot[i].valid /\ slot'[i].valid /\ at[p] = "mark"
         /\ i = loc[p].idx /\ slot[i] = loc[p].item
    /\ slot'[i].ver # slot[i].ver => ~slot'[i].valid

\* So versions only grow.
LEMMA SlotGrows ==
  ASSUME Typed, NEW p \in Proc, Knows(p), SlotChange(p) PROVE Grows(p)
  <1>d. /\ slot \in [Index -> Item] /\ loc[p].idx \in Index /\ \A i \in Index : slot[i].ver \in Nat
    BY Constants DEF Typed, TypeOK, Item, Version
  <1>1. CASE UNCHANGED slot
    BY <1>1, <1>d DEF Grows
  <1>2. CASE Takes(p) \/ Frees(p)
    BY <1>2, <1>d DEF Takes, Frees, Grows
  <1>3. CASE Marks(p)
    <2>1. ~slot[loc[p].idx].valid
      BY <1>3 DEF Marks, Knows
    <2>2. loc[p].item \in Item
      BY DEF Typed, TypeOK
    <2>3. QED
      BY <1>3, <1>d, <2>1, <2>2, MarkedItem DEF Marks, Grows
  <1>4. QED
    BY <1>1, <1>2, <1>3 DEF SlotChange

\* Every step keeps Bounded.
LEMMA NextBounded ==
  ASSUME NoWrap, Typed, Bounded, \A p \in Proc : Knows(p), [Next]_vars PROVE Bounded'
  <1>d. /\ slot \in [Index -> Item] /\ \A i \in Index : slot[i].ver \in Nat
        /\ MaxVersion \in Nat
    BY Constants DEF Typed, TypeOK, Item, Version
  <1>1. CASE UNCHANGED vars
    BY <1>1 DEF vars, shared, Bounded
  <1>2. ASSUME NEW p \in Proc, Acts(p) PROVE Bounded'
    <2>i. loc[p].idx \in Index
      BY DEF Typed, TypeOK
    <2>1. CASE CreatePool(p) \/ DeleteMetadata(p) \/ UNCHANGED slot
      BY <2>1 DEF CreatePool, DeleteMetadata, Bounded
    <2>2. CASE CreateItems(p) \/ WipeItems(p)
      BY <2>2, <1>d DEF CreateItems, WipeItems, Bounded
    <2>3. CASE Takes(p) \/ Frees(p)
      BY <2>3, <1>d, <2>i DEF Takes, Frees, Bounded
    <2>4. CASE Marks(p)
      <3>1. slot[loc[p].idx].ver <= MaxVersion
        BY <2>4 DEF Marks, Knows
      <3>2. loc[p].item \in Item
        BY DEF Typed, TypeOK
      <3>3. QED
        BY <2>4, <1>d, <2>i, <3>1, <3>2, MarkedItem DEF Marks, Bounded
    <2>5. QED
      BY <1>2, <2>1, <2>2, <2>3, <2>4, SlotEffect DEF Rebuilds, SlotChange
  <1>3. QED
    BY <1>1, <1>2 DEF Next, Acts

-----------------------------------------------------------------------------
(* What an operation does to the files. *)

Superseded(n) == n.tmp \/ n.ver < slot[n.idx].ver

Creates(p) ==
  /\ at[p] = "create" /\ at'[p] = "format"
  /\ \E r \in Rand[p] :
       LET n == Temp(loc[p].idx, r)
       IN  ~Exist(n) /\ Creat(p, n) /\ loc'[p] = [loc[p] EXCEPT !.name = n]
Formats(p) ==
  /\ at[p] = "format" /\ Exist(loc[p].name)
  /\ files' = [files EXCEPT ![loc[p].name].formatted = TRUE]
Renames(p) ==
  /\ at[p] = "rename" /\ at'[p] = "mark" /\ Exist(loc[p].name)
  /\ Rename(loc[p].name, Target(p)) /\ loc'[p] = [loc[p] EXCEPT !.name = Target(p)]
Deletes(p) == at[p] \in {"unlink", "sweep"} /\ \E n \in Name : Unlink(n) /\ Superseded(n)
FileChange(p) == UNCHANGED files \/ Creates(p) \/ Formats(p) \/ Renames(p) \/ Deletes(p)

\* No step changes the files in another way than these.
LEMMA FileEffect ==
  ASSUME Typed, NEW p \in Proc, Knows(p), Acts(p) PROVE FileChange(p)
  <1>d. /\ DOMAIN at = Proc /\ DOMAIN loc = Proc /\ loc[p] \in Locals /\ slot \in [Index -> Item]
        /\ loc[p].idx \in Index /\ loc[p].item \in Item /\ DOMAIN files \subseteq Name
    BY DEF Typed, TypeOK, Locals
  <1>v. \A i \in Index : slot[i].ver \in Nat
    BY <1>d, Constants DEF Item, Version
  <1>1. CASE CreateTemp(p)
    BY <1>1, <1>d DEF CreateTemp, Step, Creates, FileChange
  <1>2. CASE Format(p)
    BY <1>2, <1>d DEF Format, Step, Formats, FileChange
  <1>3. CASE RenameFile(p)
    BY <1>3, <1>d DEF RenameFile, Step, Renames, FileChange
  <1>4. CASE UnlinkShelf(p)
    <2>1. at[p] = "unlink"
      <3>1. PICK to \in {"idle", "drop", "wipe"}, l \in Locals : Step(p, "unlink", to, l)
        BY <1>4, RemovedStep DEF UnlinkShelf
      <3>2. QED
        BY <3>1 DEF Step
    <2>2. Target(p) \in Name
      BY <1>d, NameType DEF Target, Item
    <2>3. Target(p).idx = loc[p].idx /\ Target(p).ver = loc[p].item.ver
      BY DEF Target, Final
    <2>4. Superseded(Target(p))
      BY <2>1, <2>3 DEF Knows, Superseded
    <2>5. QED
      BY <1>4, <2>1, <2>2, <2>4 DEF UnlinkShelf, Deletes, FileChange
  <1>5. CASE SweepFile(p)
    <2>1. PICK n \in loc[p].todo \cup {m \in DOMAIN files : Old(m, loc[p].idx, loc[p].item.ver)} :
            Unlink(n) /\ at[p] = "sweep"
      BY <1>5 DEF SweepFile, Step
    <2>2. Old(n, loc[p].idx, loc[p].item.ver) /\ loc[p].item.ver <= slot[loc[p].idx].ver
      BY <2>1 DEF Knows
    <2>3. n \in Name
      BY <1>d, <2>1 DEF Locals
    <2>4. n.ver \in Nat /\ loc[p].item.ver \in Nat
      BY <1>d, <2>3, Constants DEF Name, Item, Version
    <2>5. Superseded(n)
      BY <1>d, <1>v, <2>2, <2>4 DEF Old, Superseded
    <2>6. QED
      BY <2>1, <2>3, <2>5 DEF Deletes, FileChange
  <1> USE DEF shared
  <1>6. CASE AddStep(p)
    BY <1>1, <1>2, <1>3, <1>6 DEF AddStep, AddBegin, ScanSlot, GetFreeSlot, TakeVersion, MarkSlotUsed,
       AddFailed, FileChange
  <1>7. CASE RemoveStep(p)
    BY <1>4, <1>7 DEF RemoveStep, RemoveBegin, LoadSlot, MarkSlotFree, FileChange
  <1>8. CASE RecoverStep(p)
    BY <1>5, <1>8 DEF RecoverStep, RecoverBegin, ReadItem, VerifyItem, RecoverReturn, FileChange
  <1>9. CASE PoolStep(p)
    BY <1>9 DEF PoolStep, OpenPool, ClosePool, CreatePool, CreateItems, DestroyPool, DropShelf,
       WipeItems, DeleteMetadata, Crash, FileChange
  <1>10. QED
    BY <1>6, <1>7, <1>8, <1>9 DEF Acts

\* A file that goes was temporary or of an old version; one that comes was created
\* with a random number of the process, or renamed to the version the process took.
Same(n) ==
  /\ files'[n].by = files[n].by /\ files'[n].life = files[n].life
  /\ files[n].formatted => files'[n].formatted
FilesMove(p) ==
  /\ \A n \in DOMAIN files : n \notin DOMAIN files' => Superseded(n)
  /\ \A n \in DOMAIN files' :
       \/ n \in DOMAIN files /\ Same(n)
       \/ /\ Creates(p) /\ n = loc'[p].name /\ n.tmp /\ n.ver \in Rand[p]
          /\ files'[n].by = p /\ files'[n].life = life
       \/ Renames(p) /\ n = Target(p) /\ files'[n] = files[loc[p].name]

\* So a file that goes was superseded, and one that comes has a name of its own.
LEMMA FilesMoved ==
  ASSUME Typed, NEW p \in Proc, HasName(p), FileChange(p) PROVE FilesMove(p)
  <1>1. CASE UNCHANGED files
    BY <1>1 DEF FilesMove, Same
  <1>2. CASE Creates(p)
    <2>1. PICK r \in Rand[p] : /\ Creat(p, Temp(loc[p].idx, r)) /\ ~Exist(Temp(loc[p].idx, r))
                               /\ loc'[p] = [loc[p] EXCEPT !.name = Temp(loc[p].idx, r)]
      BY <1>2 DEF Creates
    <2>2. loc'[p].name = Temp(loc[p].idx, r)
      BY <2>1 DEF Typed, Locals
    <2>3. Temp(loc[p].idx, r).tmp /\ Temp(loc[p].idx, r).ver = r
      BY DEF Temp
    <2>4. DOMAIN files' = DOMAIN files \cup {loc'[p].name}
      BY <2>1, <2>2 DEF Creat
    <2>5. \A n \in DOMAIN files : Same(n)
      BY <2>1 DEF Creat, Same, Exist
    <2>6. files'[loc'[p].name].by = p /\ files'[loc'[p].name].life = life
      BY <2>1, <2>2 DEF Creat
    <2>7. QED
      BY <1>2, <2>2, <2>3, <2>4, <2>5, <2>6 DEF FilesMove
  <1>3. CASE Formats(p)
    <2>1. \A n \in DOMAIN files : files[n] \in File
      BY DEF Typed, TypeOK
    <2>2. QED
      BY <1>3, <2>1 DEF Formats, FilesMove, Same, File, Exist
  <1>4. CASE Renames(p)
    <2>1. DOMAIN files' = (DOMAIN files \ {loc[p].name}) \cup {Target(p)}
      BY <1>4 DEF Renames, Rename
    <2>2. Superseded(loc[p].name)
      BY <1>4 DEF Renames, HasName, Searching, Superseded
    <2>3. files'[Target(p)] = files[loc[p].name]
      BY <1>4 DEF Renames, Rename
    <2>4. \A n \in DOMAIN files \ {loc[p].name, Target(p)} : Same(n)
      BY <1>4 DEF Renames, Rename, Same
    <2>5. QED
      BY <1>4, <2>1, <2>2, <2>3, <2>4 DEF FilesMove
  <1>5. CASE Deletes(p)
    <2>1. PICK n \in Name : Unlink(n) /\ Superseded(n)
      BY <1>5 DEF Deletes
    <2>2. DOMAIN files' = DOMAIN files \ {n} /\ \A m \in DOMAIN files' : Same(m)
      BY <2>1 DEF Unlink, Same
    <2>3. QED
      BY <2>1, <2>2 DEF FilesMove
  <1>6. QED
    BY <1>1, <1>2, <1>3, <1>4, <1>5 DEF FileChange

-----------------------------------------------------------------------------
(* The steps of an AddShelf that has a file. *)

WithFile == {"format", "mark"} \cup Searching

Looks(p) ==
  /\ at[p] \in {"scan", "get", "bump", "mark"} /\ at'[p] \in {"scan", "get", "bump"}
  /\ loc'[p].name = loc[p].name /\ UNCHANGED <<slot, files>>
  /\ at[p] = "mark" => slot[loc[p].idx] # loc[p].item
AddMove(p) ==
  /\ UNCHANGED <<meta, life>> /\ open[p]
  /\ \/ Creates(p) /\ UNCHANGED slot
     \/ Formats(p) /\ at'[p] \in {"scan", "get"} /\ UNCHANGED <<slot, loc>>
     \/ Looks(p)
     \/ Takes(p) /\ UNCHANGED files
     \/ Renames(p) /\ UNCHANGED slot

\* Nothing else ends with a file of AddShelf.
LEMMA OtherMoves ==
  ASSUME Typed, NEW p \in Proc, RemoveStep(p) \/ RecoverStep(p) \/ PoolStep(p)
  PROVE  at'[p] \notin WithFile
  <1> USE DEF WithFile, Searching
  <1>d. DOMAIN at = Proc /\ loc[p] \in Locals
    BY DEF Typed, TypeOK
  <1>1. ASSUME NEW from, NEW to, NEW l, Step(p, from, to, l) PROVE at'[p] = to
    BY <1>1, <1>d DEF Step
  <1>2. ASSUME NEW label, NEW l, Begin(p, label, l) PROVE at'[p] = label
    BY <1>2, <1>d DEF Begin
  <1>3. ASSUME NEW from, Removed(p, from) PROVE at'[p] \notin WithFile
    BY <1>1, <1>3, RemovedStep
  <1>4. ASSUME NEW from, NEW bad \in BOOLEAN, NextItem(p, from, bad) PROVE at'[p] \notin WithFile
    BY <1>1, <1>4, NextItemStep
  <1>5. CASE RemoveStep(p)
    BY <1>1, <1>2, <1>3, <1>5 DEF RemoveStep, RemoveBegin, LoadSlot, MarkSlotFree, UnlinkShelf
  <1>6. CASE RecoverStep(p)
    <2>1. loc[p].bad \in BOOLEAN /\ (loc[p].bad \/ Exist(Target(p)) # loc[p].item.valid) \in BOOLEAN
      BY <1>d DEF Locals
    <2>2. QED
      BY <1>1, <1>2, <1>4, <1>6, <2>1 DEF RecoverStep, RecoverBegin, ReadItem, SweepFile, VerifyItem,
         RecoverReturn
  <1>7. CASE PoolStep(p)
    <2>1. CASE OpenPool(p) \/ ClosePool(p) \/ CreatePool(p) \/ CreateItems(p)
      BY <1>1, <1>2, <2>1 DEF OpenPool, ClosePool, CreatePool, CreateItems
    <2>2. CASE DestroyPool(p) \/ DropShelf(p) \/ WipeItems(p) \/ DeleteMetadata(p) \/ Crash(p)
      BY <1>1, <1>2, <1>3, <1>d, <2>2 DEF DestroyPool, DropShelf, WipeItems, DeleteMetadata, Crash
    <2>3. QED
      BY <1>7, <2>1, <2>2 DEF PoolStep
  <1>8. QED
    BY <1>5, <1>6, <1>7

\* A process that ends a step with a file is in AddShelf.
LEMMA AddMoves ==
  ASSUME NoWrap, Typed, Opened, Bounded, NEW p \in Proc, Knows(p), Acts(p), at'[p] \in WithFile
  PROVE  AddMove(p)
  <1> USE DEF WithFile, Searching
  <1>d. DOMAIN at = Proc /\ DOMAIN loc = Proc /\ loc[p] \in Locals
    BY DEF Typed, TypeOK
  <1>a. AddStep(p)
    BY OtherMoves DEF Acts
  <1>k. UNCHANGED <<meta, life>> /\ open[p]
    BY <1>a, AddContinues DEF Begins, Continues, Opened, OpenedFor, AddPC, RemovePC, RecoverPC
  <1>1. ASSUME NEW from, NEW to, NEW l, Step(p, from, to, l)
        PROVE  at[p] = from /\ at'[p] = to /\ (to # "idle" => loc'[p] = l)
    BY <1>1, <1>d DEF Step
  <1>2. ASSUME NEW from \in {"get", "bump", "mark"}, NextIndex(p, from), UNCHANGED <<slot, files>>,
               from = "mark" => slot[loc[p].idx] # loc[p].item
        PROVE  Looks(p)
    <2>1. PICK to \in {"scan", "addfailed"}, l \in Locals : Step(p, from, to, l) /\ l.name = loc[p].name
      BY <1>2, NextIndexStep
    <2>2. QED
      BY <1>1, <1>2, <2>1 DEF Looks
  <1>3. CASE AddBegin(p) \/ AddFailed(p)
    <2>1. CASE AddBegin(p)
      <3>1. PICK l : Begin(p, "create", l)
        BY <2>1 DEF AddBegin
      <3>2. QED
        BY <3>1, <1>d DEF Begin
    <2>2. CASE AddFailed(p)
      <3>1. at'[p] = "idle"
        BY <1>1, <2>2 DEF AddFailed
      <3>2. QED
        BY <3>1
    <2>3. QED
      BY <1>3, <2>1, <2>2
  <1>4. CASE CreateTemp(p)
    BY <1>1, <1>4, <1>k DEF CreateTemp, Creates, AddMove
  <1>5. CASE Format(p)
    <2>1. Exist(loc[p].name) /\ files' = [files EXCEPT ![loc[p].name].formatted = TRUE]
      BY <1>1, <1>5 DEF Format
    <2>2. /\ Step(p, "format", IF loc[p].diff THEN "scan" ELSE "get", loc[p])
      BY <1>5, <2>1 DEF Format
    <2>3. UNCHANGED loc
      BY <2>2, <1>d DEF Step, Typed
    <2>4. QED
      BY <1>1, <1>5, <1>k, <2>1, <2>2, <2>3 DEF Format, Formats, AddMove
  <1>6. CASE ScanSlot(p)
    <2>1. \A i : /\ [loc[p] EXCEPT !.idx = i, !.start = 0].name = loc[p].name
                 /\ [loc[p] EXCEPT !.start = i].name = loc[p].name
      BY <1>d DEF Locals
    <2>2. QED
      <3>1. \E to \in {"get", "addfailed", "scan"} : \E l : Step(p, "scan", to, l) /\ l.name = loc[p].name
        BY <1>6, <2>1 DEF ScanSlot
      <3>2. QED
        BY <1>1, <1>6, <1>k, <3>1 DEF ScanSlot, shared, Looks, AddMove
  <1>7. CASE GetFreeSlot(p)
    <2>1. \A v : [loc[p] EXCEPT !.item = v].name = loc[p].name
      BY <1>d DEF Locals
    <2>2. QED
      <3>1. UNCHANGED <<slot, files>>
        BY <1>7 DEF GetFreeSlot, shared
      <3>2. NextIndex(p, "get") => Looks(p)
        BY <1>2, <3>1
      <3>3. ASSUME NEW v, Step(p, "get", "bump", [loc[p] EXCEPT !.item = v]) PROVE Looks(p)
          <4>1. at[p] = "get" /\ at'[p] = "bump" /\ loc'[p] = [loc[p] EXCEPT !.item = v]
            BY <1>1, <3>3
          <4>2. loc'[p].name = loc[p].name
            BY <2>1, <4>1
          <4>3. QED
            BY <3>1, <4>1, <4>2 DEF Looks
      <3>4. QED
        BY <1>7, <1>k, <3>2, <3>3 DEF GetFreeSlot, AddMove
  <1>8. CASE TakeVersion(p) \/ MarkSlotUsed(p)
    <2>1. UNCHANGED files
      BY <1>8 DEF TakeVersion, MarkSlotUsed
    <2>2. CASE UNCHANGED slot /\ slot[loc[p].idx] # loc[p].item
      <3>1. NextIndex(p, "bump") \/ NextIndex(p, "mark")
        BY <1>8, <2>2 DEF TakeVersion, MarkSlotUsed, CAS
      <3>2. QED
        BY <1>2, <1>k, <2>1, <2>2, <3>1 DEF AddMove
    <2>3. CASE slot[loc[p].idx] = loc[p].item
      <3>1. TakeVersion(p) /\ at[p] = "bump" /\ at'[p] = "rename"
        BY <1>1, <1>8, <2>3 DEF TakeVersion, MarkSlotUsed
      <3>2. loc[p].item.ver < MaxVersion
        BY <2>3, <3>1 DEF TakeVersion
      <3>3. loc[p].item.ver \in Version /\ loc[p].item.ver \in Nat
        BY <1>d, Constants DEF Locals, Item, Version
      <3>4. IncVersionNum(loc[p].item.ver) = loc[p].item.ver + 1
        BY <3>2, <3>3, NextVersion, Constants
      <3>5. loc'[p] = [loc[p] EXCEPT !.item = [valid |-> FALSE, ver |-> IncVersionNum(loc[p].item.ver)]]
        BY <1>1, <2>3, <3>1 DEF TakeVersion
      <3>6. slot' = [slot EXCEPT ![loc[p].idx] = [valid |-> FALSE, ver |-> IncVersionNum(loc[p].item.ver)]]
        BY <2>3, <3>1 DEF TakeVersion, CAS
      <3>7. Takes(p)
        BY <2>3, <3>1, <3>2, <3>4, <3>5, <3>6 DEF Takes
      <3>8. QED
        BY <1>k, <2>1, <3>7 DEF AddMove
    <2>4. QED
      BY <1>8, <2>2, <2>3 DEF TakeVersion, MarkSlotUsed, CAS
  <1>9. CASE RenameFile(p)
    BY <1>1, <1>9, <1>k DEF RenameFile, Renames, AddMove
  <1>10. QED
    BY <1>a, <1>3, <1>4, <1>5, <1>6, <1>7, <1>8, <1>9 DEF AddStep

\* AddShelf stays in AddShelf until it returns.
LEMMA AddContinuesInAdd ==
  ASSUME Typed, NEW p \in Proc, AddStep(p) PROVE at'[p] \in AddPC \cup {"idle"}
  <1> USE DEF AddPC
  <1>d. DOMAIN at = Proc
    BY DEF Typed, TypeOK
  <1>1. ASSUME NEW from, NEW to, NEW l, Step(p, from, to, l) PROVE at'[p] = to
    BY <1>1, <1>d DEF Step
  <1>2. ASSUME NEW from, NextIndex(p, from) PROVE at'[p] \in AddPC
    BY <1>1, <1>2, NextIndexStep
  <1>3. CASE AddBegin(p) \/ CreateTemp(p) \/ Format(p) \/ ScanSlot(p) \/ AddFailed(p)
    BY <1>1, <1>3, <1>d DEF AddBegin, Begin, CreateTemp, Format, ScanSlot, AddFailed
  <1>4. CASE GetFreeSlot(p) \/ TakeVersion(p) \/ RenameFile(p) \/ MarkSlotUsed(p)
    BY <1>1, <1>2, <1>4 DEF GetFreeSlot, TakeVersion, RenameFile, MarkSlotUsed
  <1>5. QED
    BY <1>3, <1>4 DEF AddStep

-----------------------------------------------------------------------------
(* What an operation knows stays true. *)

\* The types of what the proofs below read.
LEMMA Fields ==
  ASSUME Typed, NEW p \in Proc
  PROVE  /\ loc[p].idx \in Index /\ loc[p].item \in Item /\ loc[p].name \in Name
         /\ loc[p].item.ver \in Nat /\ loc[p].name.ver \in Nat /\ loc[p].name.idx \in Index
         /\ slot \in [Index -> Item]
         /\ \A i \in Index : slot[i] \in Item /\ slot[i].ver \in Nat
         /\ Target(p).idx = loc[p].idx /\ Target(p).ver = loc[p].item.ver /\ ~Target(p).tmp
         /\ loc[p] \in Locals
  BY Constants DEF Typed, TypeOK, Item, Name, Version, Target, Final

\* The process that moves knows what it read, took or freed.
LEMMA KnowsSelf ==
  ASSUME NoWrap, Typed, Opened, Bounded, NEW p \in Proc, Knows(p), Acts(p) PROVE Knows(p)'
  <1>d. DOMAIN at = Proc /\ DOMAIN loc = Proc /\ loc[p] \in Locals
    BY DEF Typed, TypeOK
  <1>f. Typed'
    BY NextTyped DEF Acts, Next
  <1>1. ASSUME at'[p] \in {"rename", "mark"} PROVE Knows(p)'
    <2>1. AddMove(p)
      BY <1>1, AddMoves DEF WithFile, Searching
    <2>2. CASE Takes(p)
      <3>1. loc'[p].item = slot'[loc[p].idx] /\ loc'[p].idx = loc[p].idx
        BY <2>2, Fields DEF Takes, Locals
      <3>2. ~slot'[loc[p].idx].valid /\ slot'[loc[p].idx].ver <= MaxVersion
        BY <2>2, Fields, Constants DEF Takes
      <3>3. slot'[loc[p].idx].ver \in Nat
        BY <2>2, Fields, Constants DEF Takes
      <3>4. QED
        BY <2>2, <3>1, <3>2, <3>3 DEF Takes, Knows
    <2>3. CASE Renames(p) /\ UNCHANGED slot
      <3>1. loc'[p].item = loc[p].item /\ loc'[p].idx = loc[p].idx
        BY <2>3, <1>d DEF Renames, Locals
      <3>2. QED
        BY <2>3, <3>1 DEF Renames, Knows
    <2>4. QED
      BY <1>1, <2>1, <2>2, <2>3 DEF AddMove, Creates, Looks
  <1>2. ASSUME at'[p] \in {"free", "unlink", "sweep"} PROVE Knows(p)'
    <2>1. ASSUME NEW from, NEW to, NEW l, Step(p, from, to, l)
          PROVE  at[p] = from /\ at'[p] = to /\ (to # "idle" => loc'[p] = l)
      BY <2>1, <1>d DEF Step
    <2>2. ASSUME NEW label, NEW l, Begin(p, label, l) PROVE at'[p] = label
      BY <2>2, <1>d DEF Begin
    <2>3. ASSUME NEW from, Removed(p, from) PROVE at'[p] \in {"idle", "drop", "wipe"}
      BY <2>1, <2>3, RemovedStep
    <2>4. ASSUME NEW from, NEW bad \in BOOLEAN, NextItem(p, from, bad) PROVE at'[p] \in {"recovered", "item"}
      BY <2>1, <2>4, NextItemStep
    <2>b. loc[p].bad \in BOOLEAN /\ (loc[p].bad \/ Exist(Target(p)) # loc[p].item.valid) \in BOOLEAN
      BY <1>d DEF Locals
    <2>5. CASE LoadSlot(p)
      <3>1. /\ slot[loc[p].idx].valid /\ at'[p] = "free"
            /\ loc'[p] = [loc[p] EXCEPT !.item = slot[loc[p].idx]]
        BY <1>2, <2>1, <2>3, <2>5 DEF LoadSlot
      <3>2. loc'[p].item.valid
        BY <3>1, <1>d DEF Locals
      <3>3. QED
        BY <3>1, <3>2 DEF Knows
    <2>6. CASE MarkSlotFree(p)
      <3>1. at[p] = "free" /\ at'[p] = "unlink" /\ ~UNCHANGED slot
        <4>1. CAS(loc[p].idx, loc[p].item,
                  [valid |-> FALSE, ver |-> IncVersionNum(loc[p].item.ver)]) /\ Step(p, "free", "unlink", loc[p])
          BY <1>2, <2>3, <2>6 DEF MarkSlotFree
        <4>2. at[p] = "free" /\ at'[p] = "unlink"
          BY <2>1, <4>1
        <4>3. slot[loc[p].idx] = loc[p].item /\ loc[p].item.valid
          BY <4>1, <4>2 DEF CAS, Knows
        <4>4. ~slot'[loc[p].idx].valid
          BY <4>1, Fields DEF CAS
        <4>5. QED
          BY <4>2, <4>3, <4>4
      <3>2. SlotChange(p)
        BY <2>6, <3>1, SlotEffect DEF Rebuilds, CreatePool, CreateItems, WipeItems, DeleteMetadata, Begin, Step
      <3>3. Frees(p)
        BY <3>1, <3>2 DEF SlotChange, Takes, Marks
      <3>4. QED
        BY <3>1, <3>3, Fields DEF Frees, Knows
    <2>7. CASE ReadItem(p)
      <3> DEFINE i == loc[p].idx
                 l == [loc[p] EXCEPT !.item = slot[i], !.todo = {n \in DOMAIN files : Old(n, i, slot[i].ver)}]
      <3>1. at'[p] = "sweep" /\ loc'[p] = l /\ UNCHANGED slot
        BY <1>2, <2>1, <2>4, <2>7, <2>b DEF ReadItem, shared
      <3>2. l.idx = i /\ l.item = slot[i] /\ l.todo = {n \in DOMAIN files : Old(n, i, slot[i].ver)}
        BY <1>d DEF Locals
      <3>3. QED
        BY <3>1, <3>2, Fields DEF Knows
    <2>8. CASE SweepFile(p)
      <3>1. PICK n : Step(p, "sweep", "sweep", [loc[p] EXCEPT !.todo = @ \ {n}])
        BY <2>8 DEF SweepFile
      <3>2. /\ at[p] = "sweep" /\ at'[p] = "sweep" /\ UNCHANGED slot
            /\ loc'[p].todo = loc[p].todo \ {n} /\ loc'[p].item = loc[p].item /\ loc'[p].idx = loc[p].idx
        BY <2>1, <2>8, <3>1, <1>d DEF SweepFile, Locals
      <3>3. QED
        BY <3>2 DEF Knows
    <2>9. CASE AddStep(p)
      BY <1>2, <2>9, AddContinuesInAdd DEF AddPC
    <2>10. CASE RemoveBegin(p) \/ UnlinkShelf(p)
      BY <1>2, <2>2, <2>3, <2>10 DEF RemoveBegin, UnlinkShelf
    <2>11. CASE RecoverBegin(p) \/ VerifyItem(p) \/ RecoverReturn(p)
      <3>1. RecoverBegin(p) => at'[p] = "item"
        BY <2>2 DEF RecoverBegin
      <3>2. VerifyItem(p) => at'[p] \in {"recovered", "item"}
        BY <2>4, <2>b DEF VerifyItem
      <3>3. RecoverReturn(p) => at'[p] \in {"drop", "idle"}
        BY <2>1 DEF RecoverReturn
      <3>4. QED
        BY <1>2, <2>11, <3>1, <3>2, <3>3
    <2>12. CASE OpenPool(p) \/ ClosePool(p) \/ CreatePool(p) \/ CreateItems(p)
      BY <1>2, <2>1, <2>2, <2>12 DEF OpenPool, ClosePool, CreatePool, CreateItems
    <2>13. CASE DestroyPool(p) \/ DropShelf(p) \/ WipeItems(p) \/ DeleteMetadata(p) \/ Crash(p)
      BY <1>2, <1>d, <2>1, <2>2, <2>3, <2>13 DEF DestroyPool, DropShelf, WipeItems, DeleteMetadata, Crash
    <2>14. QED
      BY <2>5, <2>6, <2>7, <2>8, <2>9, <2>10, <2>11, <2>12, <2>13 DEF Acts, RemoveStep, RecoverStep, PoolStep
  <1>3. QED
    BY <1>1, <1>2 DEF Knows

-----------------------------------------------------------------------------
(* The other processes. *)

\* An operation on the pool itself is no AddShelf and touches no file of a shelf.
LEMMA RebuildsSelf ==
  ASSUME Typed, NEW p \in Proc, Rebuilds(p)
  PROVE  at'[p] \in {"items", "delete", "idle"} /\ UNCHANGED files
  BY DEF Typed, TypeOK, Rebuilds, CreatePool, CreateItems, WipeItems, DeleteMetadata, Begin, Step

\* A process that is not in the middle of an AddShelf claims nothing.
LEMMA Quiet ==
  ASSUME NEW q \in Proc, at[q] \in {"items", "delete", "idle"}
  PROVE  Knows(q) /\ HasName(q) /\ Claims(q) = {}
  BY DEF Knows, HasName, Claims, Searching

\* While the pool itself changes nobody is in the middle of an AddShelf.
LEMMA RebuildsQuiet ==
  ASSUME Typed, Opened, NEW p \in Proc, Acts(p), Rebuilds(p), NEW q \in Proc
  PROVE  Knows(q)' /\ HasName(q)' /\ Claims(q)' = {}
  <1>1. at'[q] \in {"items", "delete", "idle"}
    BY RebuildsSelf, RebuildsAlone, OthersStay DEF Alone, Stays
  <1>2. QED
    BY <1>1 DEF Knows, HasName, Claims, Searching

\* Two processes that took a version have different names.
LEMMA TargetsApart ==
  ASSUME Apart, NEW p \in Proc, NEW q \in Proc \ {p}, at[p] \in {"rename", "mark"}
  PROVE  /\ at[q] \in {"rename", "mark"} => Target(p) # Target(q)
         /\ at[q] \in Searching /\ ~loc[q].name.tmp => Target(p) # loc[q].name
  <1>1. Target(p) \in Claims(p) /\ Claims(p) \cap Claims(q) = {}
    BY DEF Claims, Apart
  <1>2. at[q] \in {"rename", "mark"} => Target(q) \in Claims(q)
    BY DEF Claims
  <1>3. at[q] \in Searching /\ ~loc[q].name.tmp => loc[q].name \in Claims(q)
    BY DEF Claims
  <1>4. QED
    BY <1>1, <1>2, <1>3

\* What another process does makes no knowledge false: an item it took is marked by nobody else.
LEMMA KnowsOther ==
  ASSUME NoWrap, IInv, NEW p \in Proc, Acts(p), NEW q \in Proc \ {p} PROVE Knows(q)'
  <1>a. Typed /\ Opened /\ Bounded /\ Knows(p) /\ Knows(q) /\ Apart
    BY DEF IInv
  <1>1. CASE Rebuilds(p)
    BY <1>1, <1>a, RebuildsQuiet
  <1>2. CASE SlotChange(p)
    <2>1. Grows(p) /\ Stays(q)
      BY <1>2, <1>a, SlotGrows, OthersStay
    <2> DEFINE i == loc[q].idx
               v == loc[q].item
    <2>2. i \in Index /\ v.ver \in Nat /\ slot[i].ver \in Nat
      BY <1>a, Fields
    <2>3. slot[i].ver <= slot'[i].ver
      BY <2>1, <2>2 DEF Grows
    <2>4. slot'[i].ver \in Nat
      <3>1. Typed'
        BY <1>a, NextTyped DEF Acts, Next
      <3>2. slot'[i] \in Item
        BY <2>2, <3>1 DEF Typed, TypeOK
      <3>3. QED
        BY <3>2, Constants DEF Item, Version
    <2>5. ASSUME at[q] \in {"rename", "mark"}, v.ver = slot'[i].ver PROVE ~slot'[i].valid
      <3>1. v.ver = slot[i].ver /\ ~slot[i].valid /\ ~v.valid
        BY <1>a, <2>2, <2>3, <2>4, <2>5 DEF Knows
      <3>2. SUFFICES ASSUME slot'[i] # slot[i] PROVE FALSE
        BY <3>1
      <3>3. at[p] = "mark" /\ i = loc[p].idx /\ slot[i] = loc[p].item
        BY <2>1, <2>2, <2>5, <3>1, <3>2 DEF Grows
      <3>4. Target(p) = Target(q)
        BY <3>1, <3>3 DEF Target
      <3>5. QED
        BY <1>a, <2>5, <3>3, <3>4, TargetsApart
    <2>6. QED
      BY <1>a, <2>1, <2>2, <2>3, <2>4, <2>5 DEF Knows, Stays
  <1>3. QED
    BY <1>a, <1>1, <1>2, SlotEffect

\* Nobody else deletes or replaces a file that AddShelf still needs.
LEMMA HasNameOther ==
  ASSUME NoWrap, OwnNames, IInv, NEW p \in Proc, Acts(p), NEW q \in Proc \ {p} PROVE HasName(q)'
  <1>a. /\ Typed /\ Opened /\ Bounded /\ Knows(p) /\ Knows(q) /\ HasName(p) /\ HasName(q) /\ Apart
        /\ FilesKnown
    BY DEF IInv
  <1>1. CASE Rebuilds(p)
    BY <1>1, <1>a, RebuildsQuiet
  <1>2. CASE SlotChange(p) /\ UNCHANGED <<meta, life>>
    <2>1. Grows(p) /\ Stays(q) /\ FilesMove(p)
      BY <1>2, <1>a, SlotGrows, OthersStay, FileEffect, FilesMoved
    <2> DEFINE n == loc[q].name
               i == loc[q].idx
    <2>2. /\ loc'[q] = loc[q] /\ at'[q] = at[q] /\ i \in Index /\ n.idx \in Index /\ n.ver \in Nat
          /\ \A j \in Index : slot[j] \in Item /\ slot[j].ver \in Nat
          /\ loc[q].item.ver \in Nat /\ loc[q].item \in Item
      BY <2>1, <1>a, Fields DEF Stays
    <2>3. \A j \in Index : slot'[j].ver \in Nat
      <3>1. Typed'
        BY <1>a, NextTyped DEF Acts, Next
      <3>2. \A j \in Index : slot'[j] \in Item
        BY <3>1 DEF Typed, TypeOK
      <3>3. QED
        BY <3>2, Constants DEF Item, Version
    <2>4. n.ver < slot[n.idx].ver => n.ver < slot'[n.idx].ver
      BY <2>1, <2>2, <2>3 DEF Grows
    <2>5. ASSUME at[q] \in {"format", "mark"} \cup Searching, n \in DOMAIN files'
          PROVE  n \in DOMAIN files /\ Same(n)
      <3>1. CASE Creates(p) /\ n.tmp /\ n.ver \in Rand[p]
        <4>1. at[q] \in {"format"} \cup Searching
          <5>1. at[q] # "mark"
            BY <1>a, <3>1, Fields DEF HasName
          <5>2. QED
            BY <2>5, <5>1
        <4>2. n.ver \in Rand[q]
          BY <1>a, <3>1, <4>1 DEF HasName
        <4>3. QED
          BY <3>1, <4>2 DEF OwnNames
      <3>2. CASE Renames(p) /\ n = Target(p)
        <4>1. at[p] = "rename" /\ ~n.tmp
          BY <1>a, <3>2, Fields DEF Renames
        <4>2. at[q] # "format"
          BY <1>a, <4>1 DEF HasName
        <4>3. at[q] \notin Searching
          BY <1>a, <3>2, <4>1, TargetsApart
        <4>4. at[q] = "mark" /\ n = Target(q)
          BY <1>a, <2>5, <4>2, <4>3 DEF HasName
        <4>5. QED
          BY <1>a, <3>2, <4>1, <4>4, TargetsApart
      <3>3. QED
        BY <2>1, <2>5, <3>1, <3>2 DEF FilesMove
    <2>6. ASSUME at[q] = "mark", slot'[i] = loc[q].item PROVE n \in DOMAIN files'
      <3>1. loc[q].item.ver <= slot[i].ver /\ ~loc[q].item.valid
        BY <1>a, <2>6 DEF Knows
      <3>2. slot'[i].ver = slot[i].ver
        BY <2>1, <2>2, <2>3, <2>6, <3>1 DEF Grows
      <3>3. slot'[i] = slot[i]
        BY <2>1, <2>2, <2>6, <3>1, <3>2 DEF Grows
      <3>4. n \in DOMAIN files /\ n = Target(q)
        BY <1>a, <2>6, <3>3 DEF HasName, Exist
      <3>5. ~Superseded(n)
        <4>1. n.idx = i /\ n.ver = loc[q].item.ver /\ ~n.tmp
          BY <3>4 DEF Target, Final
        <4>2. slot[n.idx].ver = n.ver
          BY <2>6, <3>3, <4>1
        <4>3. QED
          BY <2>2, <4>1, <4>2 DEF Superseded
      <3>6. QED
        BY <2>1, <3>4, <3>5 DEF FilesMove
    <2>7. Target(q)' = Target(q)
      BY <2>2 DEF Target
    <2>8. QED
      BY <1>2, <1>a, <2>2, <2>4, <2>5, <2>6, <2>7 DEF HasName, Exist, Searching, Same
  <1>3. QED
    BY <1>a, <1>1, <1>2, SlotEffect, MetaKept

-----------------------------------------------------------------------------
(* The process itself, and the names of the files. *)

\* Two items that are not valid differ in their versions only.
LEMMA ItemEqual == \A a, b \in Item : ~a.valid /\ ~b.valid /\ a.ver = b.ver => a = b
  BY DEF Item

\* The process that moves keeps hold of its file.
LEMMA HasNameSelf ==
  ASSUME NoWrap, IInv, NEW p \in Proc, Acts(p) PROVE HasName(p)'
  <1>a. Typed /\ Opened /\ Bounded /\ Knows(p) /\ HasName(p)
    BY DEF IInv
  <1>1. CASE at'[p] \notin WithFile
    BY <1>1 DEF WithFile, HasName, Searching
  <1>2. CASE at'[p] \in WithFile
    <2> DEFINE n == loc[p].name
    <2>1. AddMove(p) /\ life' = life
      BY <1>2, <1>a, AddMoves DEF AddMove
    <2>2. loc[p] \in Locals /\ n.idx \in Index /\ \A i \in Index : slot[i].ver \in Nat
      BY <1>a, Fields
    <2>3. CASE Creates(p)
      <3>1. PICK r \in Rand[p] : /\ Creat(p, Temp(loc[p].idx, r))
                                 /\ loc'[p] = [loc[p] EXCEPT !.name = Temp(loc[p].idx, r)]
        BY <2>3 DEF Creates
      <3>2. loc'[p].name = Temp(loc[p].idx, r)
        BY <3>1, <2>2 DEF Locals
      <3>3. Temp(loc[p].idx, r).tmp /\ Temp(loc[p].idx, r).ver = r
        BY DEF Temp
      <3>4. files'[Temp(loc[p].idx, r)].by = p /\ files'[Temp(loc[p].idx, r)].life = life
        BY <3>1 DEF Creat
      <3>5. QED
        BY <2>1, <2>3, <3>2, <3>3, <3>4 DEF Creates, HasName, Searching
    <2>4. CASE Formats(p) /\ at'[p] \in {"scan", "get"} /\ UNCHANGED <<slot, loc>>
      <3>1. n \in DOMAIN files /\ files[n] \in File
        BY <2>4, <1>a DEF Formats, Exist, Typed, TypeOK
      <3>2. /\ files'[n].formatted /\ files'[n].by = files[n].by /\ files'[n].life = files[n].life
            /\ DOMAIN files' = DOMAIN files
        BY <2>4, <3>1 DEF Formats, File
      <3>3. n.tmp /\ n.ver \in Rand[p] /\ files[n].by = p /\ files[n].life = life
        BY <2>4, <1>a, <3>1 DEF Formats, HasName, Exist
      <3>4. QED
        BY <2>1, <2>4, <3>2, <3>3 DEF HasName, Searching, Exist
    <2>5. CASE Looks(p)
      <3>1. CASE at[p] = "mark"
        <4>1. n = Target(p) /\ slot[loc[p].idx] # loc[p].item /\ loc[p].item.ver <= slot[loc[p].idx].ver
          BY <1>a, <2>5, <3>1 DEF Looks, HasName, Knows
        <4>2. loc[p].item.ver # slot[loc[p].idx].ver
          <5>1. loc[p].item \in Item /\ slot[loc[p].idx] \in Item
            BY <1>a, Fields
          <5>2. loc[p].item.ver = slot[loc[p].idx].ver => ~slot[loc[p].idx].valid /\ ~loc[p].item.valid
            BY <1>a, <3>1 DEF Knows
          <5>3. QED
            BY <4>1, <5>1, <5>2, ItemEqual
        <4>3. ~n.tmp /\ n.idx = loc[p].idx /\ n.ver = loc[p].item.ver
          BY <4>1 DEF Target, Final
        <4>4. n.ver < slot[n.idx].ver
          BY <1>a, <4>1, <4>2, <4>3, Fields
        <4>5. QED
          BY <1>a, <2>1, <2>5, <3>1, <4>3, <4>4 DEF Looks, HasName, Searching, Exist
      <3>2. CASE at[p] # "mark"
        BY <1>a, <2>1, <2>5, <3>2 DEF Looks, HasName, Searching, Exist
      <3>3. QED
        BY <3>1, <3>2
    <2>6. CASE Takes(p) /\ UNCHANGED files
      <3>1. loc'[p].name = n
        BY <2>2, <2>6 DEF Takes, Locals
      <3>2. slot'[n.idx].ver \in Nat /\ slot[n.idx].ver <= slot'[n.idx].ver
        BY <1>a, <2>2, <2>6, Fields DEF Takes
      <3>3. n.ver \in Nat
        BY <1>a, Fields
      <3>4. n.ver < slot[n.idx].ver => n.ver < slot'[n.idx].ver
        BY <2>2, <3>2, <3>3
      <3>5. QED
        BY <1>a, <2>1, <2>6, <3>1, <3>4 DEF Takes, HasName, Searching, Exist
    <2>7. CASE Renames(p) /\ UNCHANGED slot
      <3>1. loc'[p].name = Target(p) /\ loc'[p].idx = loc[p].idx /\ loc'[p].item = loc[p].item
        BY <2>2, <2>7 DEF Renames, Locals
      <3>2. Target(p)' = Target(p)
        BY <3>1 DEF Target
      <3>3. Target(p) \in DOMAIN files' /\ files'[Target(p)] = files[n]
        BY <2>7 DEF Renames, Rename
      <3>4. files[n].by = p /\ files[n].life = life /\ files[n].formatted
        BY <1>a, <2>7 DEF Renames, HasName, Searching
      <3>5. QED
        BY <2>1, <2>7, <3>1, <3>2, <3>3, <3>4 DEF Renames, HasName, Searching, Exist
    <2>8. QED
      BY <2>1, <2>3, <2>4, <2>5, <2>6, <2>7 DEF AddMove
  <1>3. QED
    BY <1>1, <1>2

\* No name that is claimed has a version that was not given out yet.
LEMMA ClaimsBelow ==
  ASSUME Typed, NEW q \in Proc, Knows(q), HasName(q), NEW n \in Claims(q)
  PROVE  n.ver <= slot[n.idx].ver /\ ~n.tmp
  <1>1. CASE at[q] \in {"rename", "mark"} /\ n = Target(q)
    BY <1>1, Fields DEF Knows
  <1>2. CASE at[q] \in Searching /\ ~loc[q].name.tmp /\ n = loc[q].name
    BY <1>2, Fields DEF HasName
  <1>3. QED
    BY <1>1, <1>2 DEF Claims

\* A name that a process claims in a step is one it had, or that nobody had.
LEMMA ClaimsSelf ==
  ASSUME NoWrap, IInv, NEW p \in Proc, Acts(p), NEW n \in Claims(p)'
  PROVE  n \in Claims(p) \/ n.ver > slot[n.idx].ver
  <1>a. Typed /\ Opened /\ Bounded /\ Knows(p) /\ HasName(p)
    BY DEF IInv
  <1>1. at'[p] \in WithFile
    BY DEF Claims, WithFile, Searching
  <1>2. AddMove(p) /\ loc[p] \in Locals
    BY <1>1, <1>a, AddMoves, Fields
  <1>3. CASE Creates(p)
    <2>1. at'[p] = "format"
      BY <1>3 DEF Creates
    <2>2. QED
      BY <2>1 DEF Claims, Searching
  <1>4. CASE Formats(p) /\ at'[p] \in {"scan", "get"} /\ UNCHANGED <<slot, loc>>
    <2>1. loc[p].name.tmp
      BY <1>4, <1>a DEF Formats, HasName
    <2>2. QED
      BY <1>4, <2>1 DEF Claims
  <1>5. CASE Looks(p)
    <2>1. n = loc[p].name /\ ~n.tmp
      BY <1>5 DEF Looks, Claims
    <2>2. at[p] = "mark" => n = Target(p)
      BY <1>a, <2>1 DEF HasName
    <2>3. QED
      BY <1>5, <2>1, <2>2 DEF Looks, Claims, Searching
  <1>6. CASE Takes(p)
    <2>1. loc'[p].name = loc[p].name /\ loc'[p].idx = loc[p].idx
      BY <1>2, <1>6 DEF Takes, Locals
    <2>2. loc'[p].item.ver = slot[loc[p].idx].ver + 1
      BY <1>2, <1>6 DEF Takes, Locals
    <2>3. n = Target(p)' => n.idx = loc[p].idx /\ n.ver = slot[loc[p].idx].ver + 1
      BY <2>1, <2>2 DEF Target, Final
    <2>4. n = Target(p)' => n.ver > slot[n.idx].ver
      BY <1>a, <2>3, Fields
    <2>5. n # Target(p)' => n = loc[p].name /\ ~n.tmp
      BY <2>1 DEF Claims
    <2>6. QED
      BY <1>6, <2>4, <2>5 DEF Takes, Claims, Searching
  <1>7. CASE Renames(p)
    <2>1. loc'[p].idx = loc[p].idx /\ loc'[p].item = loc[p].item
      BY <1>2, <1>7 DEF Renames, Locals
    <2>2. Target(p)' = Target(p)
      BY <2>1 DEF Target
    <2>3. QED
      BY <1>7, <2>2 DEF Renames, Claims, Searching
  <1>8. QED
    BY <1>2, <1>3, <1>4, <1>5, <1>6, <1>7 DEF AddMove

\* Every step keeps the claims apart.
LEMMA NextApart ==
  ASSUME NoWrap, IInv, NEW p \in Proc, Acts(p) PROVE Apart'
  <1>a. Typed /\ Apart /\ \A q \in Proc : Knows(q) /\ HasName(q)
    BY DEF IInv
  <1>1. \A q \in Proc \ {p} : Claims(q)' = Claims(q)
    BY <1>a, OthersStay DEF Stays, Claims, Target
  <1>2. ASSUME NEW q \in Proc \ {p} PROVE Claims(p)' \cap Claims(q) = {}
    <2>1. SUFFICES ASSUME NEW n \in Claims(p)', n \in Claims(q) PROVE FALSE
      OBVIOUS
    <2>2. n.ver <= slot[n.idx].ver
      BY <1>a, <2>1, ClaimsBelow
    <2>3. n.ver \in Nat /\ slot[n.idx].ver \in Nat
      BY <1>a, <2>1, Fields DEF Claims
    <2>4. n \in Claims(p)
      BY <2>1, <2>2, <2>3, ClaimsSelf
    <2>5. QED
      BY <1>a, <2>1, <2>4 DEF Apart
  <1>3. QED
    BY <1>a, <1>1, <1>2 DEF Apart

-----------------------------------------------------------------------------
(* The files of this pool. *)

\* Only Create formats the items of a new pool.
LEMMA ItemsBegin ==
  ASSUME Typed, NEW p \in Proc, Acts(p), at'[p] = "items" PROVE CreatePool(p)
  <1>d. DOMAIN at = Proc
    BY DEF Typed, TypeOK
  <1>1. ~Begins(p) /\ ~Continues(p)
    BY DEF Begins, Continues, AddPC, RemovePC, RecoverPC
  <1>2. ~RecoverReturn(p)
    BY <1>d DEF RecoverReturn, Step
  <1>3. ~OpenPool(p) /\ ~ClosePool(p) /\ ~CreateItems(p) /\ ~DestroyPool(p)
    BY <1>d DEF OpenPool, ClosePool, CreateItems, DestroyPool, Begin, Step
  <1>4. ~WipeItems(p) /\ ~DeleteMetadata(p) /\ ~Crash(p)
    BY <1>d DEF WipeItems, DeleteMetadata, Crash, Step
  <1>5. QED
    BY <1>1, <1>2, <1>3, <1>4, AddContinues, RemoveContinues, RecoverContinues DEF Acts, PoolStep

\* Every step keeps FilesKnown.
LEMMA NextFilesKnown ==
  ASSUME NoWrap, IInv, NEW p \in Proc, Acts(p) PROVE FilesKnown'
  <1>a. /\ Typed /\ Opened /\ Bounded /\ Apart /\ FilesKnown
        /\ \A q \in Proc : Knows(q) /\ HasName(q)
    BY DEF IInv
  <1>t. /\ life \in Nat /\ DOMAIN files \subseteq Name /\ \A n \in DOMAIN files : files[n].life \in Nat
        /\ \A n \in Name : n.idx \in Index /\ n.ver \in Nat
        /\ \A i \in Index : slot[i].ver \in Nat
    BY <1>a, Fields, Constants DEF Typed, TypeOK, File, Name
  <1>1. CASE Rebuilds(p)
    <2>1. UNCHANGED files /\ \A q \in Proc : at'[q] # "rename"
      <3>1. \A q \in Proc : at'[q] \in {"items", "delete", "idle"}
        BY <1>1, <1>a, RebuildsSelf, RebuildsAlone, OthersStay DEF Alone, Stays
      <3>2. QED
        BY <1>1, <1>a, <3>1, RebuildsSelf
    <2>2. CASE CreatePool(p)
      <3>1. life' = life + 1 /\ meta' = "raw"
        BY <2>2 DEF CreatePool
      <3>2. \A n \in DOMAIN files : files[n].life < life'
        BY <1>a, <1>t, <3>1 DEF FilesKnown
      <3>3. QED
        BY <1>t, <2>1, <3>1, <3>2 DEF FilesKnown
    <2>3. CASE CreateItems(p) \/ WipeItems(p) \/ DeleteMetadata(p)
      <3>1. life' = life /\ (meta' = "ready" => at[p] = "items")
        BY <2>3 DEF CreateItems, WipeItems, DeleteMetadata, Step
      <3>2. \A q \in Proc : at'[q] # "items"
        <4>1. at'[p] # "items"
          BY <1>a, <2>3, ItemsBegin DEF CreatePool, CreateItems, WipeItems, DeleteMetadata, Step, Begin
        <4>2. \A q \in Proc \ {p} : at'[q] = "idle"
          BY <1>1, <1>a, RebuildsAlone, OthersStay DEF Alone, Stays
        <4>3. QED
          BY <4>1, <4>2
      <3>3. meta' = "ready" => \A n \in DOMAIN files : files[n].life < life
        BY <1>a, <3>1 DEF FilesKnown
      <3>4. QED
        BY <1>a, <1>t, <2>1, <3>1, <3>2, <3>3 DEF FilesKnown
    <2>4. QED
      BY <1>1, <2>2, <2>3 DEF Rebuilds
  <1>2. CASE SlotChange(p) /\ ~Rebuilds(p)
    <2>1. Grows(p) /\ FilesMove(p) /\ meta' = meta /\ life' = life
      BY <1>2, <1>a, SlotGrows, FileEffect, FilesMoved, MetaKept
    <2>2. \A i \in Index : slot'[i].ver \in Nat
      <3>1. Typed'
        BY <1>a, NextTyped DEF Acts, Next
      <3>2. \A i \in Index : slot'[i] \in Item
        BY <3>1 DEF Typed, TypeOK
      <3>3. QED
        BY <3>2, Constants DEF Item, Version
    <2>3. ASSUME NEW n \in DOMAIN files'
          PROVE  /\ files'[n].life <= life
                 /\ meta = "ready" /\ ~n.tmp /\ files'[n].life = life => n.ver <= slot'[n.idx].ver
      <3>1. CASE n \in DOMAIN files /\ Same(n)
        <4>1. n.idx \in Index /\ n.ver \in Nat
          BY <1>t, <3>1
        <4>2. slot[n.idx].ver <= slot'[n.idx].ver
          BY <2>1, <4>1 DEF Grows
        <4>3. QED
          BY <1>a, <1>t, <2>2, <3>1, <4>1, <4>2 DEF FilesKnown, Same
      <3>2. CASE n.tmp /\ files'[n].life = life
        BY <3>2, <1>t
      <3>3. CASE Renames(p) /\ n = Target(p) /\ files'[n] = files[loc[p].name]
        <4>1. at[p] = "rename" /\ files[loc[p].name].life = life
          BY <3>3, <1>a DEF Renames, HasName, Searching
        <4>2. n.idx = loc[p].idx /\ n.ver = loc[p].item.ver /\ n.idx \in Index /\ n.ver \in Nat
          BY <1>a, <3>3, Fields
        <4>3. n.ver <= slot[n.idx].ver
          BY <1>a, <4>1, <4>2 DEF Knows
        <4>4. slot[n.idx].ver <= slot'[n.idx].ver
          BY <2>1, <4>2 DEF Grows
        <4>5. QED
          BY <1>t, <2>2, <3>3, <4>1, <4>2, <4>3, <4>4
      <3>4. QED
        BY <2>1, <3>1, <3>2, <3>3 DEF FilesMove
    <2>4. ASSUME at'[p] = "rename", Target(p)' \in DOMAIN files' PROVE files'[Target(p)'].life < life
      <3>1. Takes(p) /\ UNCHANGED files /\ open[p]
        BY <1>a, <2>4, AddMoves DEF AddMove, WithFile, Searching, Creates, Looks, Renames
      <3>2. loc'[p].idx = loc[p].idx /\ loc'[p].item.ver = slot[loc[p].idx].ver + 1
        BY <1>a, <3>1, Fields DEF Takes, Locals
      <3>3. Target(p)'.idx = loc[p].idx /\ Target(p)'.ver = slot[loc[p].idx].ver + 1 /\ ~Target(p)'.tmp
        BY <3>2 DEF Target, Final
      <3>4. meta = "ready"
        BY <1>a, <3>1 DEF Opened, OpenedFor
      <3>5. loc[p].idx \in Index
        BY <1>a, Fields
      <3>6. QED
        BY <1>a, <1>t, <2>4, <3>1, <3>3, <3>4, <3>5 DEF FilesKnown
    <2>5. ASSUME NEW q \in Proc \ {p}, at'[q] = "rename", Target(q)' \in DOMAIN files'
          PROVE  files'[Target(q)'].life < life
      <3>1. at[q] = "rename" /\ Target(q)' = Target(q) /\ ~Target(q).tmp
        BY <1>a, <2>5, OthersStay, Fields DEF Stays, Target
      <3>2. ~(Renames(p) /\ Target(q) = Target(p))
        BY <1>a, <3>1, TargetsApart DEF Renames
      <3>3. Target(q) \in DOMAIN files /\ Same(Target(q))
        BY <2>1, <2>5, <3>1, <3>2 DEF FilesMove
      <3>4. QED
        BY <1>a, <3>1, <3>3 DEF FilesKnown, Exist, Same
    <2>6. \A q \in Proc : at'[q] # "items"
      <3>1. at'[p] # "items"
        BY <1>2, <1>a, ItemsBegin DEF Rebuilds
      <3>2. \A q \in Proc \ {p} : at'[q] # "items"
        BY <1>a, MineBlocks, OthersStay DEF Stays, Mine, PoolPC
      <3>3. QED
        BY <3>1, <3>2
    <2>7. QED
      BY <2>1, <2>3, <2>4, <2>5, <2>6 DEF FilesKnown, Exist
  <1>3. QED
    BY <1>a, <1>1, <1>2, SlotEffect

\* The file of a shelf that stays in the pool stays too, and is not replaced.
LEMMA ValidFileStays ==
  ASSUME NoWrap, IInv, NEW p \in Proc, Acts(p), ~Rebuilds(p), meta = "ready",
         NEW i \in Index, slot[i].valid, slot'[i] = slot[i]
  PROVE  LET n == Final(i, slot[i].ver) IN n \in DOMAIN files' /\ Same(n)
  <1> DEFINE n == Final(i, slot[i].ver)
  <1>1. Typed /\ Bounded /\ Knows(p) /\ HasName(p) /\ ValidHasFile
    BY DEF IInv
  <1>2. FilesMove(p)
    BY <1>1, FileEffect, FilesMoved
  <1>3. n.idx = i /\ n.ver = slot[i].ver /\ ~n.tmp
    BY DEF Final
  <1>4. n \in DOMAIN files
    BY <1>1 DEF ValidHasFile, Exist
  <1>5. ~Superseded(n)
    BY <1>1, <1>3, Fields DEF Superseded
  <1>6. n \in DOMAIN files'
    BY <1>2, <1>4, <1>5 DEF FilesMove
  <1>7. ~(Renames(p) /\ n = Target(p))
    <2>1. SUFFICES ASSUME Renames(p), n = Target(p) PROVE FALSE
      OBVIOUS
    <2>2. i = loc[p].idx /\ loc[p].item.ver = slot[i].ver
      BY <1>1, <1>3, <2>1, Fields
    <2>3. ~slot[i].valid
      BY <1>1, <2>1, <2>2 DEF Renames, Knows
    <2>4. QED
      BY <2>3
  <1>8. Same(n)
    BY <1>2, <1>3, <1>6, <1>7 DEF FilesMove
  <1>9. QED
    BY <1>6, <1>8

\* Every step keeps ValidHasFile.
LEMMA NextValidHasFile ==
  ASSUME NoWrap, IInv, NEW p \in Proc, Acts(p) PROVE ValidHasFile'
  <1>a. Typed /\ Opened /\ Bounded /\ Knows(p) /\ HasName(p) /\ ValidHasFile
    BY DEF IInv
  <1>1. CASE Rebuilds(p)
    <2>1. meta' = "ready" => CreateItems(p)
      BY <1>1 DEF Rebuilds, CreatePool, WipeItems, DeleteMetadata
    <2>2. CreateItems(p) => \A i \in Index : ~slot'[i].valid
      BY DEF CreateItems
    <2>3. QED
      BY <2>1, <2>2 DEF ValidHasFile
  <1>2. CASE SlotChange(p) /\ ~Rebuilds(p)
    <2>1. Grows(p) /\ FilesMove(p) /\ FileChange(p) /\ meta' = meta /\ life' = life
      BY <1>2, <1>a, SlotGrows, FileEffect, FilesMoved, MetaKept
    <2>2. ASSUME meta = "ready", NEW i \in Index, slot'[i].valid
          PROVE  LET n == Final(i, slot'[i].ver)
                 IN  n \in DOMAIN files' /\ files'[n].formatted /\ files'[n].life = life
      <3> DEFINE n == Final(i, slot[i].ver)
      <3>f. n.idx = i /\ n.ver = slot[i].ver /\ ~n.tmp
        BY DEF Final
      <3>1. slot'[i].ver = slot[i].ver
        BY <2>1, <2>2 DEF Grows
      <3>2. CASE slot'[i] = slot[i]
        <4>1. n \in DOMAIN files /\ files[n].formatted /\ files[n].life = life
          BY <1>a, <2>2, <3>2 DEF ValidHasFile, Exist
        <4>2. n \in DOMAIN files' /\ Same(n)
          BY <1>2, <2>2, <3>2, ValidFileStays
        <4>3. QED
          BY <3>1, <4>1, <4>2, <2>1 DEF Same
      <3>3. CASE slot'[i] # slot[i]
        <4>1. at[p] = "mark" /\ i = loc[p].idx /\ slot[i] = loc[p].item
          BY <2>1, <3>1, <3>3 DEF Grows
        <4>2. UNCHANGED files
          BY <2>1, <4>1 DEF FileChange, Creates, Formats, Renames, Deletes
        <4>3. n = loc[p].name
          BY <1>a, <4>1 DEF HasName, Target
        <4>4. n \in DOMAIN files /\ files[n].formatted /\ files[n].life = life
          BY <1>a, <4>1, <4>3 DEF HasName, Exist
        <4>5. QED
          BY <3>1, <4>2, <4>4
      <3>4. QED
        BY <3>2, <3>3
    <2>3. QED
      BY <2>1, <2>2 DEF ValidHasFile, Exist
  <1>3. QED
    BY <1>a, <1>1, <1>2, SlotEffect

-----------------------------------------------------------------------------
(* The theorems. *)

\* The types hold at the start.
LEMMA InitTyped == ASSUME Init PROVE Typed
  <1>1. DOMAIN files = {}
    BY DEF Init
  <1>2. SharedTyped
    BY <1>1, Constants DEF Init, SharedTyped, FilesTyped, Item
  <1>3. /\ at \in [Proc -> PC] /\ loc \in [Proc -> Locals] /\ solo = Nobody /\ events = 0
    BY NoLocalsType DEF Init, PC
  <1>4. QED
    BY <1>2, <1>3, Constants DEF SharedTyped, FilesTyped, Typed, TypeOK, Locals

\* The inductive invariant holds at the start.
LEMMA InitIInv == ASSUME NoWrap, Init PROVE IInv
  <1>1. \A p \in Proc : at[p] = "idle" /\ loc[p] = NoLocals /\ ~open[p]
    BY DEF Init
  <1>2. DOMAIN files = {}
    BY DEF Init
  <1>3. Typed
    BY InitTyped
  <1>4. Opened
    <2>1. NoLocals.then = "idle"
      BY DEF NoLocals
    <2>2. QED
      BY <1>1, <2>1 DEF Opened, OpenedFor, Mine, AddPC, RemovePC, RecoverPC, PoolPC
  <1>5. Bounded /\ ValidHasFile
    BY DEF Init, NoWrap, Bounded, ValidHasFile
  <1>6. \A p \in Proc : Knows(p) /\ HasName(p) /\ Claims(p) = {}
    BY <1>1, Quiet
  <1>7. FilesKnown
    BY <1>1, <1>2 DEF FilesKnown, Exist
  <1>8. QED
    BY <1>3, <1>4, <1>5, <1>6, <1>7 DEF IInv, Apart

\* It is inductive.
LEMMA Inductive == ASSUME NoWrap, OwnNames, IInv, [Next]_vars PROVE IInv'
  <1>a. Typed /\ Opened /\ Bounded /\ \A p \in Proc : Knows(p)
    BY DEF IInv
  <1>1. CASE UNCHANGED vars
    <2>1. Typed' /\ Opened' /\ Bounded'
      BY <1>a, NextTyped, NextOpened, NextBounded
    <2>2. \A p \in Proc : Claims(p)' = Claims(p)
      BY <1>1 DEF vars, shared, Claims, Target
    <2>3. \A p \in Proc : Knows(p)' /\ HasName(p)'
      BY <1>1 DEF vars, shared, IInv, Knows, HasName, Target, Exist
    <2>4. FilesKnown' /\ ValidHasFile'
      BY <1>1 DEF vars, shared, IInv, FilesKnown, ValidHasFile, Target, Exist
    <2>5. Apart'
      BY <2>2 DEF IInv, Apart
    <2>6. QED
      BY <2>1, <2>3, <2>4, <2>5 DEF IInv
  <1>2. ASSUME NEW p \in Proc, Acts(p) PROVE IInv'
    <2>1. Typed' /\ Opened' /\ Bounded'
      BY <1>2, <1>a, NextTyped, NextOpened, NextBounded DEF Next, Acts
    <2>2. \A q \in Proc : Knows(q)' /\ HasName(q)'
      BY <1>2, <1>a, KnowsSelf, HasNameSelf, KnowsOther, HasNameOther
    <2>3. QED
      BY <1>2, <2>1, <2>2, NextApart, NextFilesKnown, NextValidHasFile DEF IInv
  <1>3. QED
    BY <1>1, <1>2 DEF Next, Acts

\* It is an invariant.
LEMMA Invariance == ASSUME NoWrap, OwnNames PROVE Spec => []IInv
  <1>1. Init => IInv
    BY InitIInv
  <1>2. IInv /\ [Next]_vars => IInv'
    BY Inductive
  <1>3. QED
    BY <1>1, <1>2, PTL DEF Spec

\* The variables have their types; no hypothesis is needed.
THEOREM TypeCorrect == Spec => []TypeOK
  <1>1. Init => Typed
    BY InitTyped
  <1>2. Typed /\ [Next]_vars => Typed'
    BY NextTyped
  <1>3. Typed => TypeOK
    BY DEF Typed
  <1>4. QED
    BY <1>1, <1>2, <1>3, PTL DEF Spec

\* A shelf that is in the pool has its file, formatted and of this pool: Recover and
\* RemoveShelf never delete it, and AddShelf marks only what it renamed.
THEOREM ValidHasFileTheorem == ASSUME NoWrap, OwnNames PROVE Spec => []ValidHasFile
  <1>1. IInv => ValidHasFile
    BY DEF IInv
  <1>2. QED
    BY <1>1, Invariance, PTL

\* A version of an index names one shelf: no rename replaces a file of this pool, and
\* no two processes hold the same version.
THEOREM VersionOnceTheorem == ASSUME NoWrap, OwnNames PROVE Spec => []VersionOnce
  <1>1. IInv => VersionOnce
    <2>1. SUFFICES ASSUME IInv PROVE VersionOnce
      OBVIOUS
    <2>2. Apart /\ FilesKnown
      BY <2>1 DEF IInv
    <2>3. \A p, q \in Proc :
            p # q /\ {at[p], at[q]} \subseteq {"rename", "mark"} => Target(p) # Target(q)
      BY <2>2, TargetsApart
    <2>4. QED
      BY <2>2, <2>3 DEF VersionOnce, FilesKnown
  <1>2. QED
    BY <1>1, Invariance, PTL

\* The file of the item that a process marks is the one it created itself.
THEOREM MarksOwnFileTheorem == ASSUME NoWrap, OwnNames PROVE Spec => MarksOwnFile
  <1> DEFINE Marked(i, p) == at[p] = "mark" /\ at'[p] = "idle" /\ ~slot[i].valid /\ slot'[i].valid
             Mark == \A i \in Index, p \in Proc :
                       Marked(i, p) => LET n == Final(i, slot'[i].ver) IN Exist(n) /\ files[n].by = p
  <1>1. ASSUME IInv, [Next]_vars PROVE [Mark]_vars
    <2>1. SUFFICES ASSUME NEW i \in Index, NEW p \in Proc, Marked(i, p), Next
                   PROVE  LET n == Final(i, slot'[i].ver) IN Exist(n) /\ files[n].by = p
      BY <1>1
    <2>2. Typed /\ Bounded /\ Knows(p) /\ HasName(p)
      BY <1>1 DEF IInv
    <2>3. Acts(p)
      BY <2>1, <2>2, OthersStay DEF Next, Acts, Stays
    <2>4. ~Rebuilds(p)
      BY <2>1 DEF Rebuilds, CreatePool, CreateItems, WipeItems, DeleteMetadata, Begin, Step
    <2>5. Grows(p)
      BY <2>2, <2>3, <2>4, SlotEffect, SlotGrows
    <2>6. slot'[i].ver = slot[i].ver /\ i = loc[p].idx /\ slot[i] = loc[p].item
      BY <2>1, <2>5 DEF Grows
    <2>7. loc[p].name = Final(i, slot'[i].ver) /\ Exist(loc[p].name) /\ files[loc[p].name].by = p
      BY <2>1, <2>2, <2>6 DEF HasName, Target
    <2>8. QED
      BY <2>7
  <1>2. QED
    BY <1>1, Invariance, PTL DEF Spec, MarksOwnFile

-----------------------------------------------------------------------------
(* What a Recover that nobody disturbs leaves. *)

\* The items it has gone past, and what it must report of one.
Past(p, i) == at[p] = "recovered" \/ i < loc[p].idx
Leftover(i) == slot[i].ver > 0 /\ ~slot[i].valid /\ Exist(Final(i, slot[i].ver))
Clean(n) == slot[n.idx].ver > 0 /\ files[n].life = life => n = Final(n.idx, slot[n.idx].ver)
Swept(p) ==
  LET i == loc[p].idx
  IN  at[p] = "sweep" =>
        /\ loc[p].item = slot[i] /\ (slot[i].valid \/ slot[i].ver > 0)
        /\ \A n \in DOMAIN files : Old(n, i, slot[i].ver) => n \in loc[p].todo
Cleaned(p) ==
  solo = p /\ at[p] \in RecoverPC =>
    /\ \A n \in DOMAIN files : Past(p, n.idx) => Clean(n)
    /\ loc[p].bad <=> \E i \in Index : Past(p, i) /\ Leftover(i)
    /\ Swept(p)

\* Nobody else does anything that Recover could see.
LEMMA SoloUndisturbed ==
  ASSUME Typed, NEW p \in Proc, NEW q \in Proc \ {p}, Acts(q), solo' = p
  PROVE  solo = p /\ UNCHANGED <<slot, files, life>>
  <1> USE DEF shared
  <1>n. p # Nobody
    BY PoolAssumption
  <1>1. ASSUME NEW from, NEW to, NEW l, Step(q, from, to, l) PROVE FALSE
    BY <1>1, <1>n DEF Step
  <1>2. ASSUME NEW label, NEW l, Begin(q, label, l) PROVE FALSE
    BY <1>2, <1>n DEF Begin
  <1>3. CASE AddStep(q)
    BY <1>1, <1>2, <1>3 DEF AddStep, AddBegin, CreateTemp, Format, ScanSlot, GetFreeSlot, TakeVersion,
       RenameFile, MarkSlotUsed, AddFailed, NextIndex
  <1>4. CASE RemoveStep(q)
    BY <1>1, <1>2, <1>4 DEF RemoveStep, RemoveBegin, LoadSlot, MarkSlotFree, UnlinkShelf, Removed
  <1>5. CASE RecoverStep(q)
    BY <1>1, <1>2, <1>5 DEF RecoverStep, RecoverBegin, ReadItem, SweepFile, VerifyItem,
       RecoverReturn, NextItem
  <1>6. CASE PoolStep(q)
    <2>1. CASE OpenPool(q) \/ ClosePool(q) \/ CreatePool(q) \/ CreateItems(q)
      BY <1>1, <1>2, <2>1 DEF OpenPool, ClosePool, CreatePool, CreateItems
    <2>2. CASE DestroyPool(q) \/ DropShelf(q) \/ WipeItems(q) \/ DeleteMetadata(q) \/ Crash(q)
      BY <1>1, <1>2, <1>n, <2>2 DEF DestroyPool, DropShelf, WipeItems, DeleteMetadata, Crash, Removed
    <2>3. QED
      BY <1>6, <2>1, <2>2 DEF PoolStep
  <1>7. QED
    BY <1>3, <1>4, <1>5, <1>6 DEF Acts

\* Recover begins with the first item ...
RecoverStarts(p) ==
  /\ UNCHANGED <<slot, files, life>>
  /\ at'[p] = "item" /\ loc'[p].idx = 0 /\ loc'[p].bad = FALSE

\* ... and only its own steps lead on.
LEMMA RecoverPaths ==
  ASSUME Typed, NEW p \in Proc, Acts(p), at'[p] \in RecoverPC
  PROVE  RecoverStarts(p) \/ ReadItem(p) \/ SweepFile(p) \/ VerifyItem(p)
  <1> USE DEF shared, RecoverPC
  <1>d. DOMAIN at = Proc /\ DOMAIN loc = Proc
    BY DEF Typed, TypeOK
  <1>1. ASSUME NEW from, NEW to, NEW l, Step(p, from, to, l) PROVE at'[p] = to
    BY <1>1, <1>d DEF Step
  <1>2. ASSUME NEW label, NEW l, Begin(p, label, l) PROVE at[p] = "idle" /\ at'[p] = label /\ loc'[p] = l
    BY <1>2, <1>d DEF Begin
  <1>3. \A t : LET l == [NoLocals EXCEPT !.then = t] IN l.idx = 0 /\ l.bad = FALSE
    BY DEF NoLocals
  <1>4. NoLocals.idx = 0 /\ NoLocals.bad = FALSE
    BY DEF NoLocals
  <1>5. ~AddStep(p)
    BY AddContinuesInAdd DEF AddPC
  <1>r. ASSUME NEW from, Removed(p, from) PROVE at'[p] \notin RecoverPC
    BY <1>1, <1>r, RemovedStep
  <1>6. ~RemoveStep(p)
    <2>1. ~RemoveBegin(p)
      <3>1. SUFFICES ASSUME RemoveBegin(p) PROVE FALSE
        OBVIOUS
      <3>2. PICK i \in Index : Begin(p, "load", [NoLocals EXCEPT !.idx = i])
        BY <3>1 DEF RemoveBegin
      <3>3. at'[p] = "load"
        BY <1>2, <3>2
      <3>4. QED
        BY <3>3
    <2>2. ~LoadSlot(p) /\ ~MarkSlotFree(p)
      BY <1>1, <1>r DEF LoadSlot, MarkSlotFree
    <2>3. ~UnlinkShelf(p)
      BY <1>r DEF UnlinkShelf
    <2>4. QED
      BY <2>1, <2>2, <2>3 DEF RemoveStep
  <1>7. CASE RecoverStep(p)
    BY <1>1, <1>2, <1>4, <1>7 DEF RecoverStep, RecoverBegin, RecoverStarts, RecoverReturn
  <1>8. CASE PoolStep(p)
    <2>1. CASE OpenPool(p)
      BY <1>2, <1>4, <2>1 DEF OpenPool, RecoverStarts
    <2>2. CASE ClosePool(p)
      BY <1>2, <1>3, <2>2 DEF ClosePool, RecoverStarts
    <2>3. CASE DestroyPool(p)
      BY <1>2, <1>3, <2>3 DEF DestroyPool, RecoverStarts
    <2>4. CASE CreatePool(p) \/ CreateItems(p) \/ WipeItems(p) \/ DeleteMetadata(p) \/ Crash(p)
      BY <1>1, <1>2, <1>d, <2>4 DEF CreatePool, CreateItems, WipeItems, DeleteMetadata, Crash
    <2>5. CASE DropShelf(p)
      BY <1>1, <1>r, <2>5 DEF DropShelf
    <2>6. QED
      BY <1>8, <2>1, <2>2, <2>3, <2>4, <2>5 DEF PoolStep
  <1>9. QED
    BY <1>5, <1>6, <1>7, <1>8 DEF Acts

\* It goes past an item of which it left what it should, and has reported the rest.
LEMMA NextItemCleaned ==
  ASSUME Typed, NEW p \in Proc, Cleaned(p), NEW from \in RecoverPC \ {"recovered"},
         NEW bad \in BOOLEAN, NextItem(p, from, bad),
         UNCHANGED <<slot, files, life>>, solo = p,
         \A n \in DOMAIN files : n.idx = loc[p].idx => Clean(n),
         bad <=> loc[p].bad \/ Leftover(loc[p].idx)
  PROVE  Cleaned(p)'
  <1> DEFINE i == loc[p].idx
             l == [loc[p] EXCEPT !.bad = bad, !.idx = (@ + 1) % ShelfCount, !.item = NoLocals.item]
             to == IF i = ShelfCount - 1 THEN "recovered" ELSE "item"
  <1>1. Step(p, from, to, l)
    BY DEF NextItem
  <1>2. loc[p] \in Locals /\ i \in Index /\ DOMAIN at = Proc /\ DOMAIN loc = Proc
    BY DEF Typed, TypeOK, Locals
  <1>3. at[p] = from /\ at'[p] = to /\ loc'[p] = l
    BY <1>1, <1>2 DEF Step
  <1>4. l.bad = bad /\ l.idx = (i + 1) % ShelfCount
    BY <1>2 DEF Locals
  <1>5. \A j \in Index : Past(p, j)' <=> Past(p, j) \/ j = i
    <2>1. CASE i = ShelfCount - 1
      BY <1>2, <1>3, <2>1, Constants DEF Past, Index
    <2>2. CASE i # ShelfCount - 1
      <3>1. i + 1 \in 0 .. ShelfCount - 1
        BY <1>2, <2>2, Constants DEF Index
      <3>2. (i + 1) % ShelfCount = i + 1
        BY <3>1, Constants
      <3>3. QED
        BY <1>2, <1>3, <1>4, <2>2, <3>2, Constants DEF Past, Index
    <2>3. QED
      BY <2>1, <2>2
  <1>6. \A n \in DOMAIN files : n.idx \in Index
    BY DEF Typed, TypeOK, Name
  <1>7. \A n \in DOMAIN files' : Past(p, n.idx)' => Clean(n)'
    BY <1>3, <1>5, <1>6 DEF Cleaned, Clean
  <1>8. bad <=> \E j \in Index : Past(p, j)' /\ Leftover(j)
    BY <1>2, <1>3, <1>5 DEF Cleaned
  <1>9. \A j \in Index : Leftover(j)' <=> Leftover(j)
    BY DEF Leftover, Exist
  <1>10. QED
    BY <1>3, <1>4, <1>7, <1>8, <1>9 DEF Cleaned, Swept

\* So what it went past is clean, after every step.
LEMMA CleanedSelf ==
  ASSUME IInv, NEW p \in Proc, Cleaned(p), Acts(p), Typed' PROVE Cleaned(p)'
  <1> SUFFICES ASSUME solo' = p, at'[p] \in RecoverPC PROVE Cleaned(p)'
    BY DEF Cleaned
  <1> DEFINE i == loc[p].idx
             v == slot[i]
  <1> USE DEF shared
  <1>t. Typed /\ Knows(p) /\ FilesKnown /\ ValidHasFile
    BY DEF IInv
  <1>d. /\ loc[p] \in Locals /\ loc[p].bad \in BOOLEAN /\ i \in Index /\ DOMAIN at = Proc
        /\ DOMAIN loc = Proc /\ v.ver \in Nat /\ v \in Item
        /\ \A n \in DOMAIN files : n \in Name /\ n.idx \in Index /\ n.ver \in Nat
    BY <1>t, Fields, Constants DEF Typed, TypeOK, Locals, Name
  <1>n. p # Nobody
    BY PoolAssumption
  <1>m. at[p] \in RecoverPC => meta = "ready"
    BY DEF IInv, Opened, OpenedFor
  <1>1. CASE RecoverStarts(p)
    <2>1. \A j \in Index : ~Past(p, j)'
      BY <1>1, Constants DEF RecoverStarts, Past, Index
    <2>2. QED
      BY <1>1, <1>d, <2>1 DEF RecoverStarts, Cleaned, Swept
  <1>2. CASE ReadItem(p)
    <2>1. UNCHANGED <<slot, files, life>> /\ at[p] = "item"
      BY <1>2 DEF ReadItem, NextItem, Step
    <2>2. CASE ~v.valid /\ v.ver = 0
      <3>1. NextItem(p, "item", loc[p].bad)
        BY <1>2, <2>2 DEF ReadItem
      <3>2. solo = p
        BY <1>n, <3>1 DEF NextItem, Step
      <3>3. QED
        BY <1>t, <1>d, <2>1, <2>2, <3>1, <3>2, NextItemCleaned DEF Clean, Leftover, RecoverPC
    <2>3. CASE ~(~v.valid /\ v.ver = 0)
      <3> DEFINE l == [loc[p] EXCEPT !.item = v, !.todo = {n \in DOMAIN files : Old(n, i, v.ver)}]
      <3>1. Step(p, "item", "sweep", l)
        BY <1>2, <2>3 DEF ReadItem
      <3>2. /\ solo = p /\ at'[p] = "sweep" /\ loc'[p] = l
        BY <1>n, <1>d, <3>1 DEF Step
      <3>3. /\ l.idx = i /\ l.bad = loc[p].bad /\ l.item = v
            /\ l.todo = {n \in DOMAIN files : Old(n, i, v.ver)}
        BY <1>d DEF Locals
      <3>4. \A j : Past(p, j)' <=> Past(p, j)
        BY <2>1, <3>2, <3>3 DEF Past
      <3>5. Swept(p)'
        BY <1>d, <2>1, <2>3, <3>2, <3>3 DEF Swept
      <3>6. QED
        BY <2>1, <3>2, <3>3, <3>4, <3>5 DEF Cleaned, Clean, Leftover, Exist, RecoverPC
    <2>4. QED
      BY <2>2, <2>3
  <1>3. CASE SweepFile(p)
    <2>1. PICK n \in loc[p].todo \cup {m \in DOMAIN files : Old(m, i, loc[p].item.ver)} :
            Unlink(n) /\ Step(p, "sweep", "sweep", [loc[p] EXCEPT !.todo = @ \ {n}])
      BY <1>3 DEF SweepFile
    <2> DEFINE l == [loc[p] EXCEPT !.todo = @ \ {n}]
    <2>2. /\ at[p] = "sweep" /\ at'[p] = "sweep" /\ loc'[p] = l /\ solo = p /\ UNCHANGED <<slot, life>>
      BY <1>3, <1>n, <1>d, <2>1 DEF Step, SweepFile
    <2>3. l.idx = i /\ l.bad = loc[p].bad /\ l.item = loc[p].item /\ l.todo = loc[p].todo \ {n}
      BY <1>d DEF Locals
    <2>4. n.idx = i /\ (n.tmp \/ n.ver < v.ver) /\ loc[p].item = v
      BY <1>t, <2>1, <2>2 DEF Knows, Old, Cleaned, Swept, RecoverPC
    <2>5. DOMAIN files' = DOMAIN files \ {n} /\ \A m \in DOMAIN files' : files'[m] = files[m]
      BY <2>1 DEF Unlink
    <2>6. \A j \in Index : Final(j, slot[j].ver) # n
      BY <1>d, <2>4 DEF Final
    <2>7. \A j \in Index : Leftover(j)' <=> Leftover(j)
      BY <2>2, <2>5, <2>6 DEF Leftover, Exist
    <2>8. \A j : Past(p, j)' <=> Past(p, j)
      BY <2>2, <2>3 DEF Past
    <2>9. Swept(p)'
      BY <2>2, <2>3, <2>5 DEF Swept, Cleaned, RecoverPC
    <2>10. \A m \in DOMAIN files' : Past(p, m.idx)' => Clean(m)'
      BY <2>2, <2>5, <2>8 DEF Cleaned, Clean, RecoverPC
    <2>11. QED
      BY <2>2, <2>3, <2>7, <2>8, <2>9, <2>10 DEF Cleaned, RecoverPC
  <1>4. CASE VerifyItem(p)
    <2> DEFINE bad == loc[p].bad \/ Exist(Target(p)) # loc[p].item.valid
    <2>1. NextItem(p, "sweep", bad) /\ loc[p].todo = {} /\ UNCHANGED <<slot, files, life>>
      BY <1>4 DEF VerifyItem
    <2>2. solo = p /\ at[p] = "sweep"
      BY <1>n, <2>1 DEF NextItem, Step
    <2>3. loc[p].item = v /\ (v.valid \/ v.ver > 0) /\ \A n \in DOMAIN files : ~Old(n, i, v.ver)
      BY <2>1, <2>2 DEF Cleaned, Swept, RecoverPC
    <2>4. ASSUME NEW n \in DOMAIN files, n.idx = i PROVE Clean(n)
      <3>1. SUFFICES ASSUME files[n].life = life PROVE n = Final(i, v.ver)
        BY <2>4 DEF Clean
      <3>2. n.tmp = FALSE /\ ~(n.ver < v.ver)
        BY <1>d, <2>3, <2>4 DEF Old, Name
      <3>3. n.ver <= v.ver
        BY <1>t, <1>m, <2>2, <2>4, <3>1, <3>2 DEF FilesKnown, RecoverPC
      <3>4. QED
        BY <1>d, <2>4, <3>2, <3>3 DEF Final, Name
    <2>5. v.valid => Exist(Target(p))
      BY <1>t, <1>m, <1>d, <2>2, <2>3 DEF ValidHasFile, Target, RecoverPC
    <2>6. Exist(Target(p)) # v.valid <=> Leftover(i)
      <3>1. v.valid \in BOOLEAN
        BY <1>d DEF Item
      <3>2. Exist(Target(p)) \in BOOLEAN /\ Target(p) = Final(i, v.ver)
        BY <2>3 DEF Exist, Target
      <3>3. QED
        BY <2>3, <2>5, <3>1, <3>2 DEF Leftover
    <2>7. bad \in BOOLEAN /\ (bad <=> loc[p].bad \/ Leftover(i))
      BY <1>d, <2>3, <2>6
    <2>8. QED
      BY <1>t, <2>1, <2>2, <2>4, <2>7, NextItemCleaned DEF RecoverPC
  <1>5. QED
    BY <1>t, <1>1, <1>2, <1>3, <1>4, RecoverPaths

\* What Recover leaves when nobody disturbs it is the files of the shelves that are in the
\* pool and of an AddShelf that stopped before its mark, and it reports the latter.
THEOREM SoloRecoverCleansTheorem == ASSUME NoWrap, OwnNames PROVE Spec => []SoloRecoverCleans
  <1> DEFINE All == \A p \in Proc : Cleaned(p)
  <1>1. Init => All
    BY DEF Init, Cleaned, RecoverPC
  <1>2. ASSUME IInv, All, [Next]_vars, IInv' PROVE All'
    <2>t. Typed /\ Typed'
      BY <1>2 DEF IInv
    <2>1. CASE UNCHANGED vars
      BY <1>2, <2>1 DEF vars, shared, Cleaned, Past, Clean, Leftover, Swept, Exist
    <2>2. ASSUME NEW q \in Proc, Acts(q), NEW p \in Proc PROVE Cleaned(p)'
      <3>1. CASE p = q
        BY <1>2, <2>t, <2>2, <3>1, CleanedSelf
      <3>2. CASE p # q /\ solo' = p
        <4>1. solo = p /\ UNCHANGED <<slot, files, life>>
          BY <2>t, <2>2, <3>2, SoloUndisturbed
        <4>2. at'[p] = at[p] /\ loc'[p] = loc[p]
          BY <2>t, <2>2, <3>2, OthersStay DEF Stays
        <4>3. QED
          BY <1>2, <4>1, <4>2 DEF Cleaned, Past, Clean, Leftover, Swept, Exist
      <3>3. QED
        BY <3>1, <3>2 DEF Cleaned
    <2>3. QED
      BY <1>2, <2>1, <2>2 DEF Next, Acts
  <1>3. ASSUME IInv, All PROVE SoloRecoverCleans
    <2>1. SUFFICES ASSUME NEW p \in Proc, at[p] = "recovered", solo = p
                   PROVE  /\ \A n \in DOMAIN files : slot[n.idx].ver > 0 /\ files[n].life = life =>
                               n = Final(n.idx, slot[n.idx].ver)
                          /\ loc[p].bad <=> \E n \in DOMAIN files : slot[n.idx].ver > 0 /\ Remnant(n)
      BY DEF SoloRecoverCleans
    <2>2. /\ \A n \in DOMAIN files : Clean(n)
          /\ loc[p].bad <=> \E i \in Index : Leftover(i)
      BY <1>3, <2>1 DEF Cleaned, Past, RecoverPC
    <2>3. ASSUME NEW i \in Index, Leftover(i)
          PROVE  \E n \in DOMAIN files : slot[n.idx].ver > 0 /\ Remnant(n)
      <3>1. Final(i, slot[i].ver) \in DOMAIN files
        BY <2>3 DEF Leftover, Exist
      <3>2. LET n == Final(i, slot[i].ver) IN slot[n.idx].ver > 0 /\ Remnant(n)
        BY <2>3 DEF Leftover, Remnant, Final
      <3>3. QED
        BY <3>1, <3>2
    <2>4. ASSUME NEW n \in DOMAIN files, slot[n.idx].ver > 0, Remnant(n)
          PROVE  n.idx \in Index /\ Leftover(n.idx)
      <3>1. n \in Name
        BY <1>3 DEF IInv, Typed, TypeOK
      <3>2. n.tmp = FALSE /\ n = Final(n.idx, slot[n.idx].ver)
        BY <2>4, <3>1 DEF Remnant, Final, Name
      <3>3. QED
        BY <2>4, <3>1, <3>2 DEF Leftover, Exist, Remnant, Name
    <2>5. QED
      BY <2>2, <2>3, <2>4 DEF Clean
  <1>4. QED
    BY <1>1, <1>2, <1>3, Invariance, PTL DEF Spec

-----------------------------------------------------------------------------
(* A pool implements ShelfPool.  Destroy ends the pool when no shelf is left *)
(* in it: the indices it has gone past have none, and nobody adds one.       *)

Dropped(p) ==
  LET past == \A j \in Index : j < loc[p].idx => ~slot[j].valid
  IN  /\ at[p] = "recovered" => loc[p].idx = 0
      /\ at[p] = "drop" => past
      /\ at[p] \in RemovePC /\ loc[p].then = "drop" =>
           /\ past
           /\ at[p] = "free" => slot[loc[p].idx] = loc[p].item
           /\ at[p] = "unlink" => ~slot[loc[p].idx].valid
      /\ at[p] = "wipe" => \A j \in Index : ~slot[j].valid

\* RemoveShelf leaves the index without a shelf, and Destroy goes past it.
LEMMA RemovedDropped ==
  ASSUME Typed, NEW p \in Proc, NEW from, Removed(p, from),
         loc[p].then = "drop" => /\ \A j \in Index : j < loc[p].idx => ~slot[j].valid
                                 /\ ~slot[loc[p].idx].valid,
         UNCHANGED slot
  PROVE  Dropped(p)'
  <1> DEFINE i == loc[p].idx
             l == [loc[p] EXCEPT !.idx = (@ + 1) % ShelfCount]
  <1>1. loc[p] \in Locals /\ i \in Index /\ DOMAIN at = Proc /\ DOMAIN loc = Proc
    BY DEF Typed, TypeOK
  <1>2. CASE loc[p].then # "drop"
    <2>1. at'[p] = "idle"
      BY <1>1, <1>2 DEF Removed, Step
    <2>2. QED
      BY <2>1 DEF Dropped, RemovePC
  <1>3. CASE loc[p].then = "drop" /\ i = ShelfCount - 1
    <2>1. at'[p] = "wipe"
      BY <1>1, <1>3 DEF Removed, Step
    <2>2. \A j \in Index : j < i \/ j = i
      BY <1>1, <1>3, Constants DEF Index
    <2>3. \A j \in Index : ~slot'[j].valid
      BY <1>3, <2>2
    <2>4. QED
      BY <2>1, <2>3 DEF Dropped, RemovePC
  <1>4. CASE loc[p].then = "drop" /\ i # ShelfCount - 1
    <2>1. at'[p] = "drop" /\ loc'[p] = l
      BY <1>1, <1>4 DEF Removed, Step
    <2>2. i + 1 \in 0 .. ShelfCount - 1
      BY <1>1, <1>4, Constants DEF Index
    <2>3. (i + 1) % ShelfCount = i + 1
      BY <2>2, Constants
    <2>4. l.idx = i + 1
      BY <1>1, <2>3 DEF Locals
    <2>5. \A j \in Index : j < i + 1 => j < i \/ j = i
      BY <1>1, Constants DEF Index
    <2>6. \A j \in Index : j < loc'[p].idx => ~slot'[j].valid
      BY <1>4, <2>1, <2>4, <2>5
    <2>7. QED
      BY <2>1, <2>6 DEF Dropped, RemovePC
  <1>5. QED
    BY <1>2, <1>3, <1>4

\* Destroy keeps account of the shelves it removed.
LEMMA DroppedSelf ==
  ASSUME NoWrap, IInv, NEW p \in Proc, Dropped(p), Acts(p) PROVE Dropped(p)'
  <1> DEFINE i == loc[p].idx
             v == slot[i]
  <1> USE DEF shared
  <1>d. /\ Typed /\ Knows(p) /\ loc[p] \in Locals /\ i \in Index /\ slot \in [Index -> Item]
        /\ DOMAIN at = Proc /\ DOMAIN loc = Proc /\ \A j \in Index : j \in Nat
    BY Fields, Constants DEF IInv, Typed, TypeOK, Index
  <1>q. at'[p] \notin {"recovered", "drop", "wipe"} \cup RemovePC => Dropped(p)'
    BY DEF Dropped
  <1>1. ASSUME NEW from, NEW to, NEW l, Step(p, from, to, l)
        PROVE  at[p] = from /\ at'[p] = to /\ (to # "idle" => loc'[p] = l)
    BY <1>1, <1>d DEF Step
  <1>2. ASSUME NEW label, NEW l, Begin(p, label, l) PROVE at'[p] = label /\ loc'[p] = l
    BY <1>2, <1>d DEF Begin
  <1>3. CASE AddStep(p)
    BY <1>3, <1>d, <1>q, AddContinuesInAdd DEF AddPC, RemovePC
  <1>4. CASE RemoveBegin(p)
    <2>1. PICK j \in Index : Begin(p, "load", [NoLocals EXCEPT !.idx = j])
      BY <1>4 DEF RemoveBegin
    <2>2. at'[p] = "load" /\ loc'[p] = [NoLocals EXCEPT !.idx = j]
      BY <1>2, <2>1
    <2>3. loc'[p].then = "idle"
      BY <2>2 DEF NoLocals
    <2>4. QED
      BY <2>2, <2>3 DEF Dropped
  <1>5. CASE LoadSlot(p)
    <2>1. UNCHANGED slot
      BY <1>5 DEF LoadSlot
    <2>2. CASE v.valid
      <3>1. Step(p, "load", "free", [loc[p] EXCEPT !.item = v])
        BY <1>5, <2>2 DEF LoadSlot
      <3>2. at[p] = "load" /\ at'[p] = "free" /\ loc'[p] = [loc[p] EXCEPT !.item = v]
        BY <1>1, <3>1
      <3>3. loc'[p].idx = i /\ loc'[p].then = loc[p].then /\ loc'[p].item = v
        BY <1>d, <3>2 DEF Locals
      <3>4. QED
        BY <2>1, <3>2, <3>3 DEF Dropped, RemovePC
    <2>3. CASE ~v.valid
      <3>1. Removed(p, "load")
        BY <1>5, <2>3 DEF LoadSlot
      <3>2. at[p] = "load"
        BY <1>1, <3>1 DEF Removed
      <3>3. QED
        BY <1>d, <2>1, <2>3, <3>1, <3>2, RemovedDropped DEF Dropped, RemovePC
    <2>4. QED
      BY <2>2, <2>3
  <1>6. CASE MarkSlotFree(p)
    <2> DEFINE new == [valid |-> FALSE, ver |-> IncVersionNum(loc[p].item.ver)]
    <2>1. CASE CAS(i, loc[p].item, new) /\ Step(p, "free", "unlink", loc[p])
      <3>1. at[p] = "free" /\ at'[p] = "unlink" /\ loc'[p] = loc[p]
        BY <1>1, <2>1
      <3>2. slot' = [slot EXCEPT ![i] = new] /\ ~new.valid
        BY <2>1 DEF CAS
      <3>3. \A j \in Index : ~slot[j].valid => ~slot'[j].valid
        BY <1>d, <3>2
      <3>4. ~slot'[i].valid
        BY <1>d, <3>2
      <3>5. QED
        BY <3>1, <3>3, <3>4 DEF Dropped, RemovePC
    <2>2. CASE slot[i] # loc[p].item /\ Removed(p, "free") /\ UNCHANGED slot
      <3>1. at[p] = "free"
        BY <1>1, <2>2 DEF Removed
      <3>2. loc[p].then # "drop"
        BY <2>2, <3>1 DEF Dropped, RemovePC
      <3>3. QED
        BY <1>d, <2>2, <3>2, RemovedDropped
    <2>3. QED
      BY <1>6, <2>1, <2>2 DEF MarkSlotFree
  <1>7. CASE UnlinkShelf(p)
    <2>1. Removed(p, "unlink") /\ UNCHANGED slot
      BY <1>7 DEF UnlinkShelf
    <2>2. at[p] = "unlink"
      BY <1>1, <2>1 DEF Removed
    <2>3. QED
      BY <1>d, <2>1, <2>2, RemovedDropped DEF Dropped, RemovePC
  <1>n. ASSUME NEW from, NEW bad \in BOOLEAN, NextItem(p, from, bad) PROVE Dropped(p)'
    <2> DEFINE l == [loc[p] EXCEPT !.bad = bad, !.idx = (@ + 1) % ShelfCount, !.item = NoLocals.item]
    <2>1. at'[p] = (IF i = ShelfCount - 1 THEN "recovered" ELSE "item") /\ loc'[p] = l
      BY <1>1, <1>n DEF NextItem
    <2>2. CASE i = ShelfCount - 1
      <3>1. (i + 1) % ShelfCount = 0
        BY <2>2, Constants
      <3>2. l.idx = 0
        BY <1>d, <3>1 DEF Locals
      <3>3. QED
        BY <2>1, <2>2, <3>2 DEF Dropped, RemovePC
    <2>3. CASE i # ShelfCount - 1
      BY <1>q, <2>1, <2>3 DEF RemovePC
    <2>4. QED
      BY <2>2, <2>3
  <1>8. CASE RecoverBegin(p) \/ SweepFile(p)
    <2>1. RecoverBegin(p) => at'[p] = "item"
      BY <1>2 DEF RecoverBegin
    <2>2. SweepFile(p) => at'[p] = "sweep"
      BY <1>1 DEF SweepFile
    <2>3. QED
      BY <1>8, <1>q, <2>1, <2>2 DEF RemovePC
  <1>9. CASE ReadItem(p)
    <2>1. CASE NextItem(p, "item", loc[p].bad)
      BY <1>d, <1>n, <2>1 DEF Locals
    <2>2. CASE ~NextItem(p, "item", loc[p].bad)
      BY <1>1, <1>9, <1>q, <2>2 DEF ReadItem, RemovePC
    <2>3. QED
      BY <2>1, <2>2
  <1>10. CASE VerifyItem(p)
    <2>1. (loc[p].bad \/ Exist(Target(p)) # loc[p].item.valid) \in BOOLEAN
      BY <1>d DEF Locals
    <2>2. QED
      BY <1>10, <1>n, <2>1 DEF VerifyItem
  <1>11. CASE RecoverReturn(p)
    <2>1. at[p] = "recovered" /\ at'[p] \in {"drop", "idle"} /\ (at'[p] # "idle" => loc'[p] = loc[p])
      BY <1>1, <1>11 DEF RecoverReturn
    <2>2. \A j \in Index : ~(j < 0)
      BY Constants DEF Index
    <2>3. i = 0
      BY <2>1 DEF Dropped
    <2>4. QED
      BY <2>1, <2>2, <2>3 DEF Dropped, RemovePC
  <1>12. CASE OpenPool(p) \/ ClosePool(p)
    <2>1. CASE UNCHANGED <<at, loc, solo>>
      BY <1>12, <2>1, <1>q DEF OpenPool, ClosePool, Begin, RemovePC
    <2>2. CASE ~UNCHANGED <<at, loc, solo>>
      <3>1. at'[p] = "item"
        BY <1>2, <1>12, <2>2 DEF OpenPool, ClosePool
      <3>2. QED
        BY <1>q, <3>1 DEF RemovePC
    <2>3. QED
      BY <2>1, <2>2
  <1>13. CASE CreatePool(p) \/ CreateItems(p) \/ DestroyPool(p) \/ WipeItems(p) \/ DeleteMetadata(p)
    <2>1. at'[p] \in {"items", "idle", "item", "delete"}
      BY <1>1, <1>2, <1>13 DEF CreatePool, CreateItems, DestroyPool, WipeItems, DeleteMetadata
    <2>2. QED
      BY <1>q, <2>1 DEF RemovePC
  <1>14. CASE Crash(p)
    BY <1>14, <1>d, <1>q DEF Crash, RemovePC
  <1>15. CASE DropShelf(p)
    <2>1. UNCHANGED slot
      BY <1>15 DEF DropShelf
    <2>2. CASE v.valid
      <3>1. at[p] = "drop" /\ at'[p] = "load" /\ loc'[p] = loc[p]
        BY <1>1, <1>15, <2>2 DEF DropShelf
      <3>2. QED
        BY <2>1, <3>1 DEF Dropped
    <2>3. CASE ~v.valid
      <3>1. Removed(p, "drop")
        BY <1>15, <2>3 DEF DropShelf
      <3>2. at[p] = "drop"
        BY <1>1, <3>1 DEF Removed
      <3>3. QED
        BY <1>d, <2>1, <2>3, <3>1, <3>2, RemovedDropped DEF Dropped
    <2>4. QED
      BY <2>2, <2>3
  <1>16. QED
    BY <1>3, <1>4, <1>5, <1>6, <1>7, <1>8, <1>9, <1>10, <1>11, <1>12, <1>13, <1>14, <1>15
       DEF Acts, RemoveStep, RecoverStep, PoolStep

\* Nobody else moves while it does.
LEMMA DroppedOther ==
  ASSUME IInv, NEW p \in Proc, Acts(p), NEW q \in Proc \ {p}, Dropped(q) PROVE Dropped(q)'
  <1>1. Stays(q)
    BY OthersStay DEF IInv
  <1>2. ~Mine(q)
    BY MineBlocks DEF IInv
  <1>3. at[q] \notin {"drop", "wipe"} /\ loc[q].then # "drop"
    BY <1>2 DEF Mine, PoolPC
  <1>4. QED
    BY <1>1, <1>3 DEF Stays, Dropped

\* The shelf of an index, and those that are in the pool.
ShelfOf(i) == [idx |-> i, ver |-> slot[i].ver, maker |-> MadeBy(i)]
Shown == {j \in Index : meta = "ready" /\ slot[j].valid}

\* An index has one shelf or none.
LEMMA ShelvesShown ==
  /\ ShelvesInPool = {ShelfOf(i) : i \in Shown}
  /\ \A i \in Index \ Shown : \A s \in ShelvesInPool : s.idx # i
  /\ \A i, j \in Index : ShelfOf(i) = ShelfOf(j) => i = j
  /\ \A i \in Index : ShelfOf(i).idx = i /\ ShelfOf(i).ver = slot[i].ver
  BY DEF ShelvesInPool, ShelfOf, Shown

\* A shelf that stays is the same shelf.
LEMMA ShelfStays ==
  ASSUME NoWrap, IInv, NEW p \in Proc, Acts(p), ~Rebuilds(p),
         NEW i \in Shown, slot'[i] = slot[i]
  PROVE  ShelfOf(i)' = ShelfOf(i)
  <1> DEFINE n == Final(i, slot[i].ver)
  <1>1. n \in DOMAIN files /\ files[n].formatted /\ files[n].life = life
    BY DEF IInv, ValidHasFile, Exist, Shown
  <1>2. n \in DOMAIN files' /\ Same(n)
    BY ValidFileStays DEF Shown
  <1>3. life' = life
    BY MetaKept DEF IInv
  <1>4. MadeBy(i) = files[n].by
    BY <1>1 DEF MadeBy, Exist
  <1>5. MadeBy(i)' = files'[n].by
    <2>1. files'[n].formatted /\ files'[n].life = life'
      BY <1>1, <1>2, <1>3 DEF Same
    <2>2. QED
      BY <1>2, <2>1 DEF MadeBy, Exist
  <1>6. QED
    BY <1>2, <1>4, <1>5 DEF ShelfOf, Same

\* A shelf that is in the pool after a step was made by a process.
LEMMA ShelfMade == ASSUME IInv', NEW i \in Shown' PROVE MadeBy(i)' \in Proc
  <1> DEFINE n == Final(i, slot'[i].ver)
  <1>1. n \in DOMAIN files' /\ files'[n].formatted /\ files'[n].life = life'
    BY DEF IInv, ValidHasFile, Exist, Shown
  <1>2. files'[n].by \in Proc
    BY <1>1 DEF IInv, Typed, TypeOK, File
  <1>3. QED
    BY <1>1, <1>2 DEF MadeBy, Exist

\* The version given out last, of every index.
LastVersion == [i \in Index |-> IF meta = "ready" THEN slot[i].ver ELSE 0]

\* Taking a version of an index that has a shelf removes the shelf; marking its item
\* adds one.  Every other step of AddShelf, RemoveShelf and Recover shows nothing.
LEMMA OperationStep ==
  ASSUME NoWrap, IInv, NEW p \in Proc, Acts(p), ~Rebuilds(p), IInv'
  PROVE  [Promise!Next]_(Promise!vars)
  <1>k. PICK k \in Index : k = loc[p].idx
    BY Fields DEF IInv
  <1>t. /\ Typed /\ Bounded /\ Knows(p) /\ slot \in [Index -> Item] /\ k \in Index
        /\ UNCHANGED <<meta, life>> /\ SlotChange(p)
        /\ \A i \in Index : slot[i].ver \in Nat
    BY <1>k, SlotEffect, MetaKept, Fields DEF IInv
  <1>s. ASSUME NEW i \in Shown, slot'[i] = slot[i] PROVE ShelfOf(i)' = ShelfOf(i)
    BY <1>s, ShelfStays
  <1>p. ShelvesInPool' = {ShelfOf(i)' : i \in Shown'}
    BY DEF ShelvesInPool, ShelfOf, Shown
  <1>v. Promise!vars = <<meta = "ready", ShelvesInPool, LastVersion>>
    BY DEF Promise!vars, LastVersion
  <1>1. CASE UNCHANGED slot \/ meta # "ready"
    <2>1. Shown' = Shown
      BY <1>1, <1>t DEF Shown
    <2>2. \A i \in Shown : ShelfOf(i)' = ShelfOf(i)
      BY <1>1, <1>s DEF Shown
    <2>3. ShelvesInPool' = ShelvesInPool
      BY <1>p, <2>1, <2>2, ShelvesShown
    <2>4. LastVersion' = LastVersion
      BY <1>1, <1>t DEF LastVersion
    <2>5. QED
      BY <1>t, <1>v, <2>3, <2>4 DEF Promise!vars, LastVersion
  <1>2. CASE meta = "ready" /\ (Takes(p) \/ Frees(p))
    <2>1. slot' = [slot EXCEPT ![k] = [valid |-> FALSE, ver |-> slot[k].ver + 1]]
      BY <1>2, <1>k DEF Takes, Frees
    <2>2. Shown' = Shown \ {k}
      BY <1>2, <1>t, <2>1 DEF Shown
    <2>3. \A i \in Shown \ {k} : ShelfOf(i)' = ShelfOf(i)
      BY <1>t, <1>s, <2>1 DEF Shown
    <2>4. ShelvesInPool' = {ShelfOf(i) : i \in Shown \ {k}}
      BY <1>p, <2>2, <2>3
    <2>5. LastVersion' = [LastVersion EXCEPT ![k] = @ + 1]
      BY <1>2, <1>t, <2>1 DEF LastVersion
    <2>6. CASE slot[k].valid
      <3>1. k \in Shown
        BY <1>2, <1>t, <2>6 DEF Shown
      <3>2. ShelfOf(k) \in ShelvesInPool /\ ShelfOf(k).idx = k
        BY <1>t, <3>1, ShelvesShown
      <3>3. Shown \subseteq Index
        BY DEF Shown
      <3>4. ShelvesInPool' = ShelvesInPool \ {ShelfOf(k)}
        BY <1>t, <2>4, <3>3, ShelvesShown
      <3>5. PICK s \in ShelvesInPool : s = ShelfOf(k)
        BY <3>2
      <3>6. Promise!RemoveShelf(s)
        BY <1>2, <1>t, <2>5, <3>2, <3>4, <3>5 DEF Promise!RemoveShelf, LastVersion
      <3>7. QED
        BY <3>6 DEF Promise!Next
    <2>7. CASE ~slot[k].valid
      <3>1. k \notin Shown /\ Shown \ {k} = Shown
        BY <2>7 DEF Shown
      <3>2. ShelvesInPool' = ShelvesInPool
        BY <2>4, <3>1, ShelvesShown
      <3>3. Promise!Free(k)
        BY <1>t, <3>1, ShelvesShown DEF Promise!Free
      <3>4. Promise!TakeVersion(k)
        BY <1>2, <1>t, <2>5, <3>2, <3>3 DEF Promise!TakeVersion, LastVersion
      <3>5. QED
        BY <1>t, <3>4 DEF Promise!Next
    <2>8. QED
      BY <2>6, <2>7
  <1>3. CASE meta = "ready" /\ Marks(p)
    <2>1. slot' = [slot EXCEPT ![k] = [loc[p].item EXCEPT !.valid = TRUE]] /\ slot[k] = loc[p].item
      BY <1>3, <1>k DEF Marks
    <2>2. slot'[k].valid /\ slot'[k].ver = slot[k].ver
      BY <1>k, <1>t, <2>1, MarkedItem, Fields
    <2>3. ~slot[k].valid
      BY <1>3, <1>k, <1>t, <2>1 DEF Marks, Knows
    <2>4. Shown' = Shown \cup {k} /\ k \notin Shown /\ k \in Shown'
      BY <1>3, <1>t, <2>1, <2>2, <2>3 DEF Shown
    <2>5. \A i \in Shown : ShelfOf(i)' = ShelfOf(i)
      BY <1>t, <1>s, <2>1, <2>4 DEF Shown
    <2>6. ShelvesInPool' = ShelvesInPool \cup {ShelfOf(k)'}
      BY <1>p, <2>4, <2>5, ShelvesShown
    <2>7. LastVersion' = LastVersion
      BY <1>t, <2>1, <2>2 DEF LastVersion
    <2>8. ShelfOf(k)' = [idx |-> k, ver |-> LastVersion[k], maker |-> MadeBy(k)']
      BY <1>3, <1>t, <2>2 DEF ShelfOf, LastVersion
    <2>9. MadeBy(k)' \in Proc
      BY <2>4, ShelfMade
    <2>10. Promise!Free(k)
      BY <1>t, <2>4, ShelvesShown DEF Promise!Free
    <2>11. PICK m \in Proc : m = MadeBy(k)'
      BY <2>9
    <2>12. Promise!AddShelf(k, m)
      BY <1>3, <1>t, <2>6, <2>7, <2>8, <2>10, <2>11 DEF Promise!AddShelf, LastVersion
    <2>13. QED
      BY <1>t, <2>12 DEF Promise!Next
  <1>4. QED
    BY <1>t, <1>1, <1>2, <1>3 DEF SlotChange

\* Creating and destroying the pool are single steps too; no shelf is left at the second.
LEMMA RebuildStep ==
  ASSUME IInv, NEW p \in Proc, Rebuilds(p), Dropped(p) PROVE [Promise!Next]_(Promise!vars)
  <1>1. OpenedFor(p) /\ DOMAIN at = Proc
    BY DEF IInv, Opened, Typed, TypeOK
  <1>2. meta # "ready" => ShelvesInPool = {} /\ LastVersion = [i \in Index |-> 0]
    BY DEF ShelvesInPool, LastVersion
  <1>3. meta' # "ready" => ShelvesInPool' = {} /\ LastVersion' = [i \in Index |-> 0]
    BY DEF ShelvesInPool, LastVersion
  <1>4. CASE CreatePool(p) \/ DeleteMetadata(p)
    <2>1. meta # "ready" /\ meta' # "ready"
      BY <1>1, <1>4 DEF CreatePool, DeleteMetadata, Step, OpenedFor
    <2>2. QED
      BY <1>2, <1>3, <2>1 DEF Promise!vars, LastVersion
  <1>5. CASE CreateItems(p)
    <2>1. meta = "raw" /\ meta' = "ready" /\ slot' = [i \in Index |-> [valid |-> FALSE, ver |-> 0]]
      BY <1>1, <1>5 DEF CreateItems, Step, OpenedFor
    <2>2. ShelvesInPool' = {}
      BY <2>1 DEF ShelvesInPool
    <2>3. LastVersion' = [i \in Index |-> 0]
      BY <2>1 DEF LastVersion
    <2>4. Promise!Create
      BY <1>2, <2>1, <2>2, <2>3 DEF Promise!Create, LastVersion
    <2>5. QED
      BY <2>4 DEF Promise!Next
  <1>6. CASE WipeItems(p)
    <2>1. at[p] = "wipe" /\ meta' = "raw"
      BY <1>6 DEF WipeItems, Step
    <2>2. meta = "ready" /\ \A i \in Index : ~slot[i].valid
      BY <1>1, <2>1 DEF OpenedFor, Dropped
    <2>3. ShelvesInPool = {}
      BY <2>2 DEF ShelvesInPool
    <2>4. Promise!Destroy
      BY <1>3, <2>1, <2>2, <2>3 DEF Promise!Destroy, Promise!NoVersion, LastVersion
    <2>5. QED
      BY <2>4 DEF Promise!Next
  <1>7. QED
    BY <1>4, <1>5, <1>6 DEF Rebuilds

\* A pool implements ShelfPool: its users may take the addition and the removal of a shelf
\* for one step each, whoever else adds, removes, recovers or dies meanwhile.
THEOREM Refinement == ASSUME NoWrap, OwnNames PROVE Spec => ImplementsShelfPool
  <1> DEFINE All == \A p \in Proc : Dropped(p)
  <1>1. Init => All
    BY DEF Init, Dropped, RemovePC
  <1>2. ASSUME IInv, All, [Next]_vars PROVE All'
    <2>1. CASE UNCHANGED vars
      BY <1>2, <2>1 DEF vars, shared, Dropped
    <2>2. ASSUME NEW p \in Proc, Acts(p) PROVE All'
      BY <1>2, <2>2, DroppedSelf, DroppedOther
    <2>3. QED
      BY <1>2, <2>1, <2>2 DEF Next, Acts
  <1>3. Init => Promise!Init
    <2>1. SUFFICES ASSUME Init PROVE Promise!Init
      OBVIOUS
    <2>2. meta = "ready" /\ \A i \in Index : ~slot[i].valid /\ slot[i].ver = StartVersion
      BY <2>1 DEF Init
    <2>3. ShelvesInPool = {}
      BY <2>2 DEF ShelvesInPool
    <2>4. [i \in Index |-> IF meta = "ready" THEN slot[i].ver ELSE 0] \in [Index -> Nat]
      BY <2>2, Constants DEF Version
    <2>5. QED
      BY <2>2, <2>3, <2>4 DEF Promise!Init
  <1>4. ASSUME IInv, All, [Next]_vars, IInv' PROVE [Promise!Next]_(Promise!vars)
    <2>1. CASE UNCHANGED vars
      <3>1. ShelvesInPool' = ShelvesInPool
        BY <2>1 DEF vars, shared, ShelvesInPool, MadeBy, Exist
      <3>2. QED
        BY <2>1, <3>1 DEF vars, shared, Promise!vars
    <2>2. ASSUME NEW p \in Proc, Acts(p) PROVE [Promise!Next]_(Promise!vars)
      BY <1>4, <2>2, OperationStep, RebuildStep
    <2>3. QED
      BY <1>4, <2>1, <2>2 DEF Next, Acts
  <1>5. QED
    BY <1>1, <1>2, <1>3, <1>4, Invariance, PTL DEF Spec, ImplementsShelfPool, Promise!Spec
=============================================================================
