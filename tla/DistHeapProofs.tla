--------------------------- MODULE DistHeapProofs ---------------------------
(***************************************************************************)
(* Proofs about module DistHeap, for any number of processes, threads,     *)
(* shelves, blocks and failures.                                           *)
(***************************************************************************)
EXTENDS DistHeap, FiniteSetTheorems, TLAPS

LockPC == ScanPC \cup OwnPC      \* the thread holds the write lock
OpeningStage == {"open_old", "open_any"}

Locking(t) == pc[t] \in LockPC
Opening(t) == Locking(t) /\ loc[t].stage \in OpeningStage
Using(t) == pc[t] \in UsingPC
Settling(p) == pc[p] \in SettlingPC
Forming(t) == pc[t] \in {"format", "destroy"}
Closing(t) == pc[t] = "stop" \/ (pc[t] = "release" /\ loc[t].stage = "close")

\* A process maps one shelf at most, and only while it has the heap open.
Mapped ==
  \A p \in Proc : /\ \A s1, s2 \in map[p] : s1 = s2
                  /\ ~is_open[p] => map[p] = {}

\* Who acts or maps a shelf runs; the first processes have been started from the
\* beginning.
Running ==
  /\ \A t \in User : pc[t] # "idle" => life[home[t]] = "up"
  /\ \A p \in Proc : pc[p] # "off" => life[p] = "up"
  /\ \A p \in Proc : map[p] # {} => life[p] = "up"
  /\ \A p \in First : life[p] # "new"

\* A thread at work has the heap open, or opens it, or nobody else has it.
Working ==
  /\ \A t \in User : pc[t] # "idle" /\ ~Forming(t) /\ ~Opening(t) => is_open[home[t]]
  /\ \A t, u \in User : Closing(t) /\ u # t /\ home[u] = home[t] => pc[u] = "idle"
  /\ \A t \in User : Forming(t) =>
       /\ \A u \in User \ {t} : pc[u] = "idle"
       /\ \A p \in Proc : pc[p] = "off" /\ ~is_open[p]

\* The write lock is held by one thread, whose process maps no shelf then.
Locked ==
  \A t \in User : Locking(t) =>
    /\ writer[home[t]] /\ map[home[t]] = {}
    /\ \A u \in User : Locking(u) /\ home[u] = home[t] => u = t

\* What a cleaner took off an item, and may write back, is an owner or nobody.
Recovers == \A p \in Proc : Settling(p) => loc[p].old \in ProcessID

\* Where processes are identified: who has its name on an item has been started, ...
Named == Identified => \A p \in Proc, s \in Item : items[s] = ID(p) => life[p] # "new"

\* ... a cleaner takes a shelf over from the dead only, ...
Verdicts == Identified =>
  \A p \in Proc : pc[p] = "revoke" \/ Settling(p) =>
    \A q \in Proc : ID(q) = loc[p].old => life[q] = "dead"

\* ... an item names the process that uses the shelf, and its cleaner has no part
\* in a shelf that the process uses otherwise.
Holding == Identified =>
  /\ \A p \in Proc : \A s \in map[p] : items[s] = ID(p)
  /\ \A t \in User : Using(t) => items[loc[t].s] = ID(home[t])
  /\ \A p \in Proc : Settling(p) =>
       /\ items[loc[p].s] = ID(p)
       /\ loc[p].s \notin map[p]
       /\ \A t \in User : Using(t) /\ home[t] = p => loc[t].s # loc[p].s

\* Who pushes has a block and a pointer.
Carried ==
  /\ \A t \in User : pc[t] \in PutPC => loc[t].ptr \in Pointer
  /\ \A t \in User : pc[t] = "push" => loc[t].blk \in Block
  /\ \A p \in Proc : pc[p] = "fba" => loc[p].blk \in Block

Types == FamTypes /\ ProcTypes /\ HistoryTypes

IInv ==
  /\ Types /\ Carried
  /\ Mapped /\ Running /\ Working /\ Locked /\ Recovers
  /\ Named /\ Verdicts /\ Holding

-----------------------------------------------------------------------------
(* Identities and records *)

\* Nobody has the identity of an item without an owner, and where processes are
\* identified no two have the same.
LEMMA Identity ==
  /\ \A p \in Proc : ID(p) \in ProcessID /\ ID(p) # NoID
  /\ Identified => \A p, q \in Proc : ID(p) = ID(q) => p = q
  /\ NoID \in ProcessID
  /\ \A id \in ProcessID : id = NoID \/ \E p \in Proc : id = ID(p)
  /\ \A id \in ProcessID : id.pid \in Pid /\ id.btime \in Nat /\ id \in [pid : Pid, btime : Nat]
  /\ 0 \in Pid
  /\ \A p \in Proc : ID(p).pid = pidOf[p] /\ ID(p).btime = btimeOf[p]
  <1>1. \A p \in Proc : ID(p) \in ProcessID /\ ID(p) # NoID
    BY OwnershipAssumption DEF ID, NoID, ProcessID
  <1>2. Identified => \A p, q \in Proc : ID(p) = ID(q) => p = q
    BY DEF ID, Identified
  <1>3. NoID \in ProcessID /\ \A id \in ProcessID : id = NoID \/ \E p \in Proc : id = ID(p)
    BY DEF ProcessID
  <1>4. NoID.pid = 0 /\ NoID.btime = 0
    BY DEF NoID
  <1>5. \A p \in Proc : ID(p).pid = pidOf[p] /\ ID(p).btime = btimeOf[p]
    BY DEF ID
  <1>6. \A id \in ProcessID : id.pid \in Pid
    BY DEF Pid
  <1>7. \A id \in ProcessID : id.btime \in Nat
    BY <1>3, <1>4, <1>5, OwnershipAssumption
  <1>8. \A id \in ProcessID : id = [pid |-> id.pid, btime |-> id.btime]
    BY DEF ProcessID, NoID, ID
  <1>9. \A id \in ProcessID : id \in [pid : Pid, btime : Nat]
    BY <1>6, <1>7, <1>8
  <1>10. 0 \in Pid
    BY <1>3, <1>4, <1>6
  <1>11. QED
    BY <1>1, <1>2, <1>3, <1>5, <1>6, <1>7, <1>9, <1>10

\* What a thread that carries nothing has.
LEMMA Nothing ==
  /\ NoLocals \in Locals
  /\ NoLocals.s = 0 /\ NoLocals.stage = "none" /\ 0 \in Item
  <1>1. 0 \in Item
    BY OwnershipAssumption DEF Item
  <1>2. QED
    BY <1>1, Identity DEF NoLocals, Locals, Stage, NoID, NoBlock

\* A thread may change one thing that it carries.
LEMMA Carries ==
  ASSUME NEW l \in Locals
  PROVE  /\ l.s \in Item /\ l.stage \in Stage /\ l.pid \in Pid
         /\ l.old \in [pid : Pid, btime : Nat]
         /\ l.blk \in Block \cup {NoBlock} /\ l.ptr \in Pointer \cup {NoPointer}
         /\ \A s \in Item : [l EXCEPT !.s = s] \in Locals
         /\ \A b \in Block \cup {NoBlock} : [l EXCEPT !.blk = b] \in Locals
         /\ \A i \in Pid : [l EXCEPT !.pid = i] \in Locals
         /\ \A o \in [pid : Pid, btime : Nat] : [l EXCEPT !.old = o] \in Locals
         /\ \A st \in Stage : [l EXCEPT !.stage = st] \in Locals
         /\ \A ptr \in Pointer : [l EXCEPT !.ptr = ptr] \in Locals
  BY DEF Locals

\* A scan starts at the first item or goes on at the next one.
LEMMA ScanLocals ==
  ASSUME NEW st \in Stage, NEW s \in Item
  PROVE  LET l == [NoLocals EXCEPT !.stage = st]
             k == [NoLocals EXCEPT !.stage = st, !.s = s]
             n == [NoLocals EXCEPT !.s = s, !.stage = st]
         IN  /\ l \in Locals /\ l.stage = st
             /\ k \in Locals /\ k.stage = st /\ k.s = s
             /\ n \in Locals /\ n.stage = st /\ n.s = s
             /\ [NoLocals EXCEPT !.s = s] \in Locals
  BY Nothing DEF Locals

-----------------------------------------------------------------------------
(* Moves of one thread *)

Control == /\ pc \in [Actor -> UserPC \cup CleanerPC] /\ loc \in [Actor -> Locals]
           /\ \A t \in User : pc[t] \in UserPC
           /\ \A p \in Proc : pc[p] \in CleanerPC

Moved(x, label, l) ==
  /\ pc'[x] = label /\ loc'[x] = l
  /\ \A y \in Actor \ {x} : pc'[y] = pc[y] /\ loc'[y] = loc[y]

\* Threads and cleaners are apart, and both have a process.
LEMMA Homes ==
  /\ \A t \in User : t \in Actor /\ t \notin Proc /\ home[t] \in Proc /\ Home(t) = home[t]
  /\ \A p \in Proc : p \in Actor /\ p \notin User /\ Home(p) = p
  /\ \A x \in Actor : x \in User \/ x \in Proc
  BY DistHeapAssumption DEF Actor, Home

\* A step of one thread or cleaner leaves the others where they are.
LEMMA Move ==
  ASSUME Control, NEW x \in Actor, NEW label, NEW l \in Locals,
         Goto(x, label), With(x, l),
         x \in User => label \in UserPC, x \in Proc => label \in CleanerPC
  PROVE  Control' /\ Moved(x, label, l)
  BY Homes DEF Control, Moved, Goto, With

\* Scan, Done, Opened and Advance as moves.
LEMMA ScanMoves ==
  ASSUME Types, NEW t \in User, NEW st \in Stage, Scan(t, st)
  PROVE  Control' /\ \E l \in Locals : Moved(t, "check", l) /\ l.stage = st
  <1> DEFINE l == [NoLocals EXCEPT !.stage = st]
  <1>1. l \in Locals /\ l.stage = st
    BY Nothing, ScanLocals
  <1>2. Goto(t, "check") /\ With(t, l)
    BY DEF Scan
  <1>3. Control /\ "check" \in UserPC
    BY DEF Types, ProcTypes, Control, UserPC, ScanPC
  <1> HIDE DEF l
  <1>4. Control' /\ Moved(t, "check", l)
    BY <1>1, <1>2, <1>3, Homes, Move
  <1>5. QED
    BY <1>1, <1>4

LEMMA DoneMoves ==
  ASSUME Types, NEW t \in User, Done(t)
  PROVE  Control' /\ Moved(t, "idle", NoLocals)
  BY Move, Nothing, Homes DEF Done, Types, ProcTypes, Control, UserPC

LEMMA OpenedMoves ==
  ASSUME Types, NEW t \in User, Opened(t)
  PROVE  /\ Control'
         /\ pc'[t] = "idle" /\ loc'[t] = NoLocals /\ pc'[home[t]] = "sleep"
         /\ \A y \in Actor \ {t} : loc'[y] = loc[y] /\ (y # home[t] => pc'[y] = pc[y])
  <1> DEFINE p == home[t]
  <1>1. t \in Actor /\ p \in Actor /\ t # p /\ p \in Proc /\ t \notin Proc
    BY Homes
  <1>2. /\ pc \in [Actor -> UserPC \cup CleanerPC] /\ loc \in [Actor -> Locals]
        /\ \A u \in User : pc[u] \in UserPC
        /\ \A q \in Proc : pc[q] \in CleanerPC
    BY DEF Types, ProcTypes
  <1>3. pc' = [pc EXCEPT ![t] = "idle", ![p] = "sleep"] /\ loc' = [loc EXCEPT ![t] = NoLocals]
    BY DEF Opened, With
  <1>4. "idle" \in UserPC /\ "sleep" \in CleanerPC
    BY DEF UserPC, CleanerPC
  <1>5. pc' \in [Actor -> UserPC \cup CleanerPC] /\ loc' \in [Actor -> Locals]
    BY <1>1, <1>2, <1>3, <1>4, Nothing
  <1>6. /\ pc'[t] = "idle" /\ loc'[t] = NoLocals /\ pc'[p] = "sleep"
        /\ \A y \in Actor \ {t} : loc'[y] = loc[y] /\ (y # p => pc'[y] = pc[y])
    BY <1>1, <1>2, <1>3
  <1>7. \A u \in User : u \in Actor /\ u # p /\ \A q \in Proc : q \in Actor /\ q # t
    BY <1>1, Homes
  <1>8. (\A u \in User : pc'[u] \in UserPC) /\ \A q \in Proc : pc'[q] \in CleanerPC
    BY <1>2, <1>4, <1>6, <1>7
  <1>9. QED
    BY <1>5, <1>6, <1>8 DEF Control

LEMMA AdvanceMoves ==
  ASSUME Types, NEW t \in User, Advance(t) \/ NextScan(t)
  PROVE  /\ Control'
         /\ \/ \E l \in Locals : /\ Moved(t, "check", l)
                                 /\ l.stage \in OpeningStage <=> loc[t].stage \in OpeningStage
                                 /\ UNCHANGED handle
            \/ /\ loc[t].stage = "last"
               /\ Done(t) /\ Unlock(home[t]) /\ UNCHANGED <<is_open, map>>
            \/ loc[t].stage = "open_any" /\ Opened(t) /\ UNCHANGED map
  <1>1. loc[t].stage \in Stage
    BY Homes, Carries DEF Types, ProcTypes
  <1>2. CASE Advance(t) /\ loc[t].s + 1 \in Item
    <2> DEFINE l == [NoLocals EXCEPT !.stage = loc[t].stage, !.s = loc[t].s + 1]
    <2>1. l \in Locals /\ l.stage = loc[t].stage
      BY <1>1, <1>2, ScanLocals
    <2>2. Goto(t, "check") /\ With(t, l) /\ UNCHANGED handle
      BY <1>2 DEF Advance
    <2>3. Control /\ "check" \in UserPC
      BY DEF Types, ProcTypes, Control, UserPC, ScanPC
    <2> HIDE DEF l
    <2>4. Control' /\ Moved(t, "check", l)
      BY <2>1, <2>2, <2>3, Homes, Move
    <2>5. QED
      BY <2>1, <2>2, <2>4
  <1>3. CASE NextScan(t)
    <2>1. {"any", "last", "open_any"} \subseteq Stage
      BY DEF Stage
    <2>2. QED
      BY <1>3, <2>1, ScanMoves, DoneMoves, OpenedMoves DEF NextScan, OpeningStage
  <1>4. QED
    BY <1>2, <1>3 DEF Advance

-----------------------------------------------------------------------------
(* What the steps of a thread do to the invariant, one kind of step at a time *)

Core == Mapped /\ Running /\ Working /\ Locked /\ Recovers /\ Named /\ Verdicts /\ Holding

\* A step that takes no lock and touches no shelf.
LEMMA CalmStep ==
  ASSUME Types, Core, NEW t \in User, NEW label, NEW l \in Locals, Moved(t, label, l),
         UNCHANGED <<items, life, handle>>,
         label \notin LockPC, label \notin {"format", "destroy"},
         label # "idle" => life[home[t]] = "up" /\ is_open[home[t]],
         label # "idle" => \A u \in User : u # t /\ home[u] = home[t] => ~Closing(u),
         label = "stop" => \A u \in User \ {t} : home[u] = home[t] => pc[u] = "idle"
  PROVE  Core'
  <1>1. pc'[t] = label /\ \A y \in Actor \ {t} : pc'[y] = pc[y] /\ loc'[y] = loc[y]
    BY DEF Moved
  <1>2. /\ \A p \in Proc : pc'[p] = pc[p] /\ loc'[p] = loc[p]
        /\ \A u \in User : u # t => pc'[u] = pc[u] /\ loc'[u] = loc[u]
    BY <1>1, Homes
  <1>3. UNCHANGED <<items, life, is_open, map, writer>>
    BY DEF handle
  <1>4. Mapped' /\ Running' /\ Recovers' /\ Named'
    BY <1>1, <1>2, <1>3 DEF Core, Mapped, Running, Recovers, Named, Settling
  <1>5. label # "release" /\ label \notin UsingPC
    BY DEF LockPC, OwnPC, UsingPC, ScanPC
  <1>6. Working'
    <2>1. /\ ~Forming(t)' /\ ~Opening(t)' /\ (Closing(t)' => label = "stop")
          /\ \A u \in User \ {t} : /\ Forming(u)' = Forming(u) /\ Opening(u)' = Opening(u)
                                  /\ Closing(u)' = Closing(u)
      BY <1>1, <1>2, <1>5 DEF Forming, Opening, Closing, Locking
    <2>2. \A u \in User : pc'[u] # "idle" /\ ~Forming(u)' /\ ~Opening(u)' => is_open'[home[u]]
      BY <1>1, <1>2, <1>3, <2>1 DEF Core, Working
    <2>3. \A v, u \in User : Closing(v)' /\ u # v /\ home[u] = home[v] => pc'[u] = "idle"
      BY <1>1, <1>2, <2>1 DEF Core, Working
    <2>4. \A v \in User : Forming(v)' =>
            /\ \A u \in User \ {v} : pc'[u] = "idle"
            /\ \A p \in Proc : pc'[p] = "off" /\ ~is_open'[p]
      BY <1>1, <1>2, <1>3, <2>1, Homes DEF Core, Working
    <2>5. QED
      BY <2>2, <2>3, <2>4 DEF Working
  <1>7. Locked'
    BY <1>1, <1>2, <1>3 DEF Core, Locked, Locking
  <1>8. Verdicts'
    BY <1>1, <1>2, <1>3 DEF Core, Verdicts, Settling
  <1>9. Holding'
    BY <1>1, <1>2, <1>3, <1>5 DEF Core, Holding, Settling, Using
  <1>10. QED
    BY <1>4, <1>6, <1>7, <1>8, <1>9 DEF Core

\* A step that takes the write lock; the shelf of the process is unmapped, to be
\* given away, or there is none.
LEMMA EnterStep ==
  ASSUME Types, Core, NEW t \in User, NEW label \in {"check", "release"}, NEW l \in Locals,
         Moved(t, label, l), UNCHANGED <<items, life, is_open>>,
         ~writer[home[t]], writer' = [writer EXCEPT ![home[t]] = TRUE],
         map' = [map EXCEPT ![home[t]] = {}],
         life[home[t]] = "up", (l.stage \in OpeningStage /\ label = "check") \/ is_open[home[t]],
         label = "release" => l.s \in map[home[t]],
         label = "release" /\ l.stage = "close" =>
           \A u \in User \ {t} : home[u] = home[t] => pc[u] = "idle",
         \A u \in User \ {t} : ~Forming(u) /\ (home[u] = home[t] => ~Closing(u))
  PROVE  Core'
  <1>1. pc'[t] = label /\ loc'[t] = l /\ \A y \in Actor \ {t} : pc'[y] = pc[y] /\ loc'[y] = loc[y]
    BY DEF Moved
  <1>2. /\ \A p \in Proc : pc'[p] = pc[p] /\ loc'[p] = loc[p]
        /\ \A u \in User : u # t => pc'[u] = pc[u] /\ loc'[u] = loc[u]
    BY <1>1, Homes
  <1>3. /\ home[t] \in Proc
        /\ writer'[home[t]] /\ \A p \in Proc : p # home[t] => writer'[p] = writer[p]
        /\ map'[home[t]] = {} /\ \A p \in Proc : p # home[t] => map'[p] = map[p]
    BY Homes DEF Types, ProcTypes
  <1>4. \A u \in User : home[u] = home[t] => ~Locking(u)
    BY DEF Core, Locked
  <1>5. /\ Locking(t)' /\ ~Forming(t)' /\ (Opening(t)' <=> l.stage \in OpeningStage)
        /\ (Closing(t)' <=> label = "release" /\ l.stage = "close")
        /\ (Using(t)' <=> label = "release")
        /\ \A u \in User \ {t} : /\ Forming(u)' = Forming(u) /\ Opening(u)' = Opening(u)
                                /\ Closing(u)' = Closing(u) /\ Locking(u)' = Locking(u)
                                /\ Using(u)' = Using(u)
        /\ \A p \in Proc : Settling(p)' = Settling(p)
    BY <1>1, <1>2 DEF Forming, Opening, Closing, Locking, Using, Settling, LockPC, ScanPC,
                      OwnPC, UsingPC
  <1>6. Mapped'
    BY <1>3 DEF Core, Mapped
  <1>7. Running' /\ Recovers' /\ Named'
    BY <1>1, <1>2, <1>3, <1>5 DEF Core, Running, Recovers, Named
  <1>8. Working'
    <2>1. \A u \in User : pc'[u] # "idle" /\ ~Forming(u)' /\ ~Opening(u)' => is_open'[home[u]]
      BY <1>1, <1>2, <1>5 DEF Core, Working
    <2>2. \A v, u \in User : Closing(v)' /\ u # v /\ home[u] = home[v] => pc'[u] = "idle"
      BY <1>1, <1>2, <1>5 DEF Core, Working
    <2>3. QED
      BY <1>1, <1>2, <1>5, <2>1, <2>2 DEF Working
  <1>9. Locked'
    <2>1. ASSUME NEW u \in User, Locking(u)'
          PROVE  /\ writer'[home[u]] /\ map'[home[u]] = {}
                 /\ \A v \in User : Locking(v)' /\ home[v] = home[u] => v = u
      <3>1. CASE u = t
        BY <1>3, <1>4, <1>5, <3>1
      <3>2. CASE u # t
        BY <1>3, <1>4, <1>5, <2>1, <3>2, Homes DEF Core, Locked
      <3>3. QED
        BY <3>1, <3>2
    <2>2. QED
      BY <2>1 DEF Locked
  <1>10. Verdicts'
    BY <1>2, <1>5 DEF Core, Verdicts
  <1>11. Holding'
    <2> SUFFICES ASSUME Identified PROVE Holding'
      BY DEF Holding
    <2>1. \A p \in Proc : \A s \in map'[p] : s \in map[p]
      BY <1>3
    <2>2. \A p \in Proc : \A s \in map'[p] : items'[s] = ID(p)
      BY <2>1 DEF Core, Holding
    <2>3. \A u \in User : Using(u)' => items'[loc'[u].s] = ID(home[u])
      BY <1>1, <1>2, <1>5, Homes DEF Core, Holding
    <2>4. ASSUME NEW p \in Proc, Settling(p)'
          PROVE  /\ items'[loc'[p].s] = ID(p)
                 /\ loc'[p].s \notin map'[p]
                 /\ \A u \in User : Using(u)' /\ home[u] = p => loc'[u].s # loc'[p].s
      BY <1>1, <1>2, <1>5, <2>1, <2>4 DEF Core, Holding
    <2>5. QED
      BY <2>2, <2>3, <2>4 DEF Holding
  <1>12. QED
    BY <1>6, <1>7, <1>8, <1>9, <1>10, <1>11 DEF Core

\* What a step of a thread with the write lock may do to the items.
Acquires(t, s) == items[s] = NoID /\ items' = [items EXCEPT ![s] = ID(home[t])]
GivesUp(t) == Using(t) /\ items' = [items EXCEPT ![loc[t].s] = NoID]

\* ... the items of the shelves that others use stay as they are.
LEMMA OthersKeep ==
  ASSUME Types, Core, Identified, NEW t \in User, Locking(t), NEW s \in Item,
         items' = items \/ Acquires(t, s) \/ GivesUp(t)
  PROVE  /\ \A p \in Proc : p # home[t] => \A i \in Item : items[i] = ID(p) => items'[i] = ID(p)
         /\ \A p \in Proc : p # home[t] => \A i \in Item : items'[i] = ID(p) => items[i] = ID(p)
         /\ Settling(home[t]) => items'[loc[home[t]].s] = ID(home[t])
  <1>1. items \in [Item -> ProcessID] /\ home[t] \in Proc /\ loc[t].s \in Item
    BY Homes, Carries DEF Types, FamTypes, ProcTypes
  <1>2. CASE items' = items
    BY <1>1, <1>2 DEF Core, Holding
  <1>3. CASE Acquires(t, s)
    BY <1>1, <1>3, Identity DEF Core, Holding, Acquires
  <1>4. CASE GivesUp(t)
    <2>1. items[loc[t].s] = ID(home[t])
      BY <1>4 DEF GivesUp, Core, Holding
    <2>2. Settling(home[t]) => loc[home[t]].s # loc[t].s /\ items[loc[home[t]].s] = ID(home[t])
      BY <1>1, <1>4 DEF GivesUp, Core, Holding
    <2>3. \A p \in Proc : p # home[t] => ID(p) # ID(home[t]) /\ ID(p) # NoID
      BY <1>1, Identity
    <2>4. Settling(home[t]) => loc[home[t]].s \in Item
      BY <1>1, Homes, Carries DEF Types, ProcTypes
    <2>5. QED
      BY <1>1, <1>4, <2>1, <2>2, <2>3, <2>4 DEF GivesUp
  <1>5. QED
    BY <1>2, <1>3, <1>4

\* A step of a thread that keeps the write lock.
LEMMA SearchStep ==
  ASSUME Types, Core, NEW t \in User, Locking(t), NEW label \in LockPC, NEW l \in Locals,
         Moved(t, label, l), UNCHANGED <<life, handle>>,
         l.stage \in OpeningStage <=> loc[t].stage \in OpeningStage,
         ~(label = "release" /\ l.stage = "close"),
         Identified => \/ items' = items /\ (label \in UsingPC => Using(t) /\ l.s = loc[t].s)
                       \/ Acquires(t, l.s)
                       \/ GivesUp(t) /\ label \notin UsingPC
  PROVE  Core'
  <1>1. pc'[t] = label /\ loc'[t] = l /\ \A y \in Actor \ {t} : pc'[y] = pc[y] /\ loc'[y] = loc[y]
    BY DEF Moved
  <1>2. /\ \A p \in Proc : pc'[p] = pc[p] /\ loc'[p] = loc[p]
        /\ \A u \in User : u # t => pc'[u] = pc[u] /\ loc'[u] = loc[u]
    BY <1>1, Homes
  <1>3. UNCHANGED <<life, is_open, map, writer>>
    BY DEF handle
  <1>4. /\ pc[t] # "idle" /\ label # "stop" /\ label \notin {"idle", "format", "destroy"}
        /\ life[home[t]] = "up"
    BY DEF Locking, LockPC, ScanPC, OwnPC, Core, Running
  <1>5. /\ Locking(t)' /\ ~Forming(t)' /\ ~Forming(t) /\ (Opening(t)' <=> Opening(t)) /\ ~Closing(t)'
        /\ (Using(t)' <=> label \in UsingPC)
        /\ \A u \in User \ {t} : /\ Forming(u)' = Forming(u) /\ Opening(u)' = Opening(u)
                                /\ Closing(u)' = Closing(u) /\ Locking(u)' = Locking(u)
                                /\ Using(u)' = Using(u)
        /\ \A p \in Proc : Settling(p)' = Settling(p)
    BY <1>1, <1>2, <1>4 DEF Forming, Opening, Closing, Locking, Using, Settling, LockPC, ScanPC, OwnPC
  <1>6. Mapped'
    BY <1>3 DEF Core, Mapped
  <1>7. home[t] \in Proc /\ l.s \in Item /\ loc[t].s \in Item /\ items \in [Item -> ProcessID]
    BY Homes, Carries DEF Types, FamTypes, ProcTypes
  <1>8. Identified => items' = items \/ Acquires(t, l.s) \/ GivesUp(t)
    OBVIOUS
  <1>9. ASSUME Identified
        PROVE
        /\ \A p \in Proc : p # home[t] => \A i \in Item : items[i] = ID(p) => items'[i] = ID(p)
        /\ \A p \in Proc : p # home[t] => \A i \in Item : items'[i] = ID(p) => items[i] = ID(p)
        /\ Settling(home[t]) => items'[loc[home[t]].s] = ID(home[t])
    BY <1>7, <1>8, <1>9, OthersKeep
  <1>10. Running' /\ Recovers' /\ Named'
    BY <1>1, <1>2, <1>3, <1>4, <1>5, <1>9 DEF Core, Running, Recovers, Named
  <1>11. Working'
    <2>1. \A u \in User : pc'[u] # "idle" /\ ~Forming(u)' /\ ~Opening(u)' => is_open'[home[u]]
      BY <1>1, <1>2, <1>3, <1>4, <1>5 DEF Core, Working
    <2>2. \A v, u \in User : Closing(v)' /\ u # v /\ home[u] = home[v] => pc'[u] = "idle"
      BY <1>1, <1>2, <1>4, <1>5 DEF Core, Working
    <2>3. \A v \in User : ~Forming(v)'
      BY <1>4, <1>5 DEF Core, Working
    <2>4. QED
      BY <2>1, <2>2, <2>3 DEF Working
  <1>12. Locked'
    BY <1>3, <1>5 DEF Core, Locked
  <1>13. Verdicts'
    BY <1>2, <1>3, <1>5 DEF Core, Verdicts
  <1>14. Holding'
    <2> SUFFICES ASSUME Identified PROVE Holding'
      BY DEF Holding
    <2>1. map[home[t]] = {} /\ \A u \in User : u # t /\ Using(u) => home[u] # home[t]
      BY DEF Core, Locked, Locking, Using, LockPC, ScanPC, UsingPC
    <2>2. ASSUME NEW p \in Proc, NEW s \in map'[p] PROVE items'[s] = ID(p)
      BY <1>3, <1>9, <2>1, <2>2 DEF Core, Holding, Types, ProcTypes
    <2>3. label \in UsingPC => items'[l.s] = ID(home[t])
      BY <1>7, Identity DEF Core, Holding, Acquires
    <2>4. ASSUME NEW u \in User, Using(u)' PROVE items'[loc'[u].s] = ID(home[u])
      <3>1. CASE u = t
        BY <1>1, <1>5, <2>3, <2>4, <3>1
      <3>2. CASE u # t
        <4>1. Using(u) /\ loc'[u] = loc[u] /\ home[u] # home[t] /\ loc[u].s \in Item /\ home[u] \in Proc
          BY <1>2, <1>5, <2>1, <2>4, <3>2, Homes, Carries DEF Types, ProcTypes
        <4>2. QED
          BY <1>9, <4>1 DEF Core, Holding
      <3>3. QED
        BY <3>1, <3>2
    <2>5. label \in UsingPC /\ Settling(home[t]) => l.s # loc[home[t]].s
      BY <1>7, Identity DEF Core, Holding, Acquires
    <2>6. ASSUME NEW p \in Proc, Settling(p)'
          PROVE  /\ items'[loc'[p].s] = ID(p)
                 /\ loc'[p].s \notin map'[p]
                 /\ \A u \in User : Using(u)' /\ home[u] = p => loc'[u].s # loc'[p].s
      <3>1. Settling(p) /\ loc'[p] = loc[p] /\ loc[p].s \in Item
        BY <1>2, <1>5, <2>6, Homes, Carries DEF Types, ProcTypes
      <3>2. items'[loc'[p].s] = ID(p) /\ loc'[p].s \notin map'[p]
        BY <1>3, <1>9, <3>1 DEF Core, Holding
      <3>3. ASSUME NEW u \in User, Using(u)', home[u] = p PROVE loc'[u].s # loc'[p].s
        <4>1. CASE u = t
          BY <1>1, <1>5, <2>5, <3>1, <3>3, <4>1
        <4>2. CASE u # t
          BY <1>2, <1>5, <3>1, <3>3, <4>2 DEF Core, Holding
        <4>3. QED
          BY <4>1, <4>2
      <3>4. QED
        BY <3>2, <3>3
    <2>7. QED
      BY <2>2, <2>4, <2>6 DEF Holding
  <1>15. QED
    BY <1>6, <1>10, <1>11, <1>12, <1>13, <1>14 DEF Core

\* A step that gives the write lock back: with the shelf it has found, or without;
\* at the end of Open the cleaner starts.
LEMMA LeaveStep ==
  ASSUME Types, Core, NEW t \in User, Locking(t), pc'[t] = "idle",
         \A u \in User \ {t} : pc'[u] = pc[u] /\ loc'[u] = loc[u],
         \A p \in Proc : loc'[p] = loc[p] /\ (pc'[p] = pc[p] \/ (p = home[t] /\ pc'[p] = "sleep")),
         life' = life, writer' = [writer EXCEPT ![home[t]] = FALSE],
         Identified => items' = items \/ (GivesUp(t) /\ map' = map),
         \/ map' = map
         \/ /\ Using(t) /\ map' = [map EXCEPT ![home[t]] = {loc[t].s}]
            /\ is_open'[home[t]],
         \/ is_open' = is_open
         \/ is_open' = [is_open EXCEPT ![home[t]] = TRUE]
         \/ Closing(t) /\ is_open' = [is_open EXCEPT ![home[t]] = FALSE] /\ map' = map
  PROVE  Core'
  <1> DEFINE h == home[t]
  <1>1. h \in Proc /\ loc[t].s \in Item /\ items \in [Item -> ProcessID]
    BY Homes, Carries DEF Types, FamTypes, ProcTypes
  <1>2. is_open \in [Proc -> BOOLEAN] /\ map \in [Proc -> SUBSET Item] /\ writer \in [Proc -> BOOLEAN]
    BY DEF Types, ProcTypes
  <1>3. /\ pc[t] # "idle" /\ life[h] = "up" /\ map[h] = {} /\ writer[h]
        /\ \A u \in User : u # t /\ home[u] = h => ~Locking(u)
    BY DEF Locking, LockPC, ScanPC, OwnPC, Core, Running, Locked
  <1>4. /\ ~Locking(t)' /\ ~Forming(t)' /\ ~Using(t)' /\ ~Closing(t)' /\ ~Forming(t)
        /\ \A u \in User \ {t} : /\ Forming(u)' = Forming(u) /\ Opening(u)' = Opening(u)
                                /\ Closing(u)' = Closing(u) /\ Locking(u)' = Locking(u)
                                /\ Using(u)' = Using(u)
        /\ \A p \in Proc : (Settling(p)' => Settling(p)) /\ (pc'[p] = "revoke" => pc[p] = "revoke")
    BY DEF Forming, Opening, Closing, Locking, Using, Settling, LockPC, ScanPC, OwnPC, UsingPC, SettlingPC
  <1>5. \A p \in Proc : p # h => map'[p] = map[p] /\ is_open'[p] = is_open[p] /\ writer'[p] = writer[p]
    BY <1>1, <1>2
  <1>6. \A s \in map'[h] :
          s = loc[t].s /\ Using(t) /\ is_open'[h] /\ (Identified => items' = items)
    BY <1>1, <1>2, <1>3
  <1>7. Identified => items' = items \/ Acquires(t, loc[t].s) \/ GivesUp(t)
    OBVIOUS
  <1>8. ASSUME Identified
        PROVE
        /\ \A p \in Proc : p # h => \A i \in Item : items[i] = ID(p) => items'[i] = ID(p)
        /\ \A p \in Proc : p # h => \A i \in Item : items'[i] = ID(p) => items[i] = ID(p)
        /\ Settling(h) => items'[loc[h].s] = ID(h)
    BY <1>1, <1>7, <1>8, OthersKeep
  <1>9. Mapped'
    BY <1>3, <1>5, <1>6 DEF Core, Mapped
  <1>10. Running' /\ Recovers' /\ Named'
    BY <1>3, <1>4, <1>5, <1>8 DEF Core, Running, Recovers, Named
  <1>11. Working'
    <2>1. ASSUME NEW u \in User, pc'[u] # "idle", ~Forming(u)', ~Opening(u)' PROVE is_open'[home[u]]
      <3>1. u # t /\ is_open[home[u]] /\ (Closing(t) => home[u] # h)
        BY <1>4, <2>1 DEF Core, Working
      <3>2. QED
        BY <1>1, <1>2, <3>1, Homes
    <2>2. \A v, u \in User : Closing(v)' /\ u # v /\ home[u] = home[v] => pc'[u] = "idle"
      BY <1>4 DEF Core, Working
    <2>3. \A v \in User : ~Forming(v)'
      BY <1>3, <1>4 DEF Core, Working
    <2>4. QED
      BY <2>1, <2>2, <2>3 DEF Working
  <1>12. Locked'
    <2>1. ASSUME NEW u \in User, Locking(u)'
          PROVE  /\ writer'[home[u]] /\ map'[home[u]] = {}
                 /\ \A v \in User : Locking(v)' /\ home[v] = home[u] => v = u
      <3>1. u # t /\ Locking(u) /\ home[u] # h /\ home[u] \in Proc
        BY <1>3, <1>4, <2>1, Homes
      <3>2. \A v \in User : Locking(v)' => Locking(v)
        BY <1>4
      <3>3. QED
        BY <1>5, <3>1, <3>2 DEF Core, Locked
    <2>2. QED
      BY <2>1 DEF Locked
  <1>13. Verdicts'
    BY <1>4 DEF Core, Verdicts
  <1>14. Holding'
    <2> SUFFICES ASSUME Identified PROVE Holding'
      BY DEF Holding
    <2>1. ASSUME NEW p \in Proc, NEW s \in map'[p] PROVE items'[s] = ID(p)
      <3>1. CASE p = h
        BY <1>6, <2>1, <3>1 DEF Core, Holding
      <3>2. CASE p # h
        BY <1>2, <1>5, <1>8, <2>1, <3>2 DEF Core, Holding
      <3>3. QED
        BY <3>1, <3>2
    <2>2. ASSUME NEW u \in User, Using(u)' PROVE items'[loc'[u].s] = ID(home[u])
      <3>1. u # t /\ Using(u) /\ loc'[u] = loc[u] /\ Locking(u)
        BY <1>4, <2>2 DEF Using, Locking, UsingPC, LockPC, ScanPC
      <3>2. home[u] # h /\ home[u] \in Proc /\ loc[u].s \in Item
        BY <1>3, <3>1, Homes, Carries DEF Types, ProcTypes
      <3>3. QED
        BY <1>8, <3>1, <3>2 DEF Core, Holding
    <2>3. ASSUME NEW p \in Proc, Settling(p)'
          PROVE  /\ items'[loc'[p].s] = ID(p)
                 /\ loc'[p].s \notin map'[p]
                 /\ \A u \in User : Using(u)' /\ home[u] = p => loc'[u].s # loc'[p].s
      <3>1. Settling(p) /\ loc'[p] = loc[p] /\ loc[p].s \in Item
        BY <1>4, <2>3, Homes, Carries DEF Types, ProcTypes
      <3>2. items'[loc'[p].s] = ID(p)
        BY <1>8, <3>1 DEF Core, Holding
      <3>3. loc'[p].s \notin map'[p]
        BY <1>5, <1>6, <3>1 DEF Core, Holding
      <3>4. \A u \in User : Using(u)' => u # t /\ Using(u) /\ loc'[u] = loc[u]
        BY <1>4
      <3>5. QED
        BY <3>1, <3>2, <3>3, <3>4 DEF Core, Holding
    <2>4. QED
      BY <2>1, <2>2, <2>3 DEF Holding
  <1>15. QED
    BY <1>9, <1>10, <1>11, <1>12, <1>13, <1>14 DEF Core

\* A step of none of this.
LEMMA StillStep ==
  ASSUME Core, UNCHANGED <<items, life, is_open, map, writer, pc, loc>>
  PROVE  Core'
  BY DEF Core, Mapped, Running, Working, Locked, Recovers, Named, Verdicts, Holding, Forming,
         Opening, Closing, Locking, Using, Settling

\* Create and Destroy begin: nobody has the heap open.
LEMMA FormStep ==
  ASSUME Types, Core, NEW t \in User, NEW label \in {"format", "destroy"}, NEW l \in Locals,
         Moved(t, label, l), UNCHANGED <<items, life, handle>>, Alone, life[home[t]] = "up"
  PROVE  Core'
  <1>1. pc'[t] = label /\ loc'[t] = l /\ \A y \in Actor \ {t} : pc'[y] = pc[y] /\ loc'[y] = loc[y]
    BY DEF Moved
  <1>2. /\ \A p \in Proc : pc'[p] = pc[p] /\ loc'[p] = loc[p]
        /\ \A u \in User : u # t => pc'[u] = pc[u] /\ loc'[u] = loc[u]
    BY <1>1, Homes
  <1>3. UNCHANGED <<items, life, is_open, map, writer>>
    BY DEF handle
  <1>4. \A p \in Proc : ~is_open[p] /\ pc[p] = "off"
    BY DEF Alone, Quiet
  <1>5. \A u \in User : pc[u] = "idle"
    BY Homes DEF Alone, Quiet
  <1>6. /\ \A u \in User : ~Locking(u)' /\ ~Using(u)' /\ ~Opening(u)' /\ ~Closing(u)'
        /\ \A p \in Proc : ~Settling(p)' /\ pc'[p] # "revoke"
    BY <1>1, <1>2, <1>4, <1>5 DEF Opening, Closing, Locking, Using, Settling, LockPC, ScanPC,
       OwnPC, UsingPC, SettlingPC
  <1>7. Mapped' /\ Running' /\ Working'
    BY <1>1, <1>2, <1>3, <1>4, <1>5, <1>6 DEF Core, Mapped, Running, Working, Forming
  <1>8. Locked' /\ Recovers' /\ Verdicts'
    BY <1>6 DEF Locked, Recovers, Verdicts
  <1>9. Named' /\ Holding'
    BY <1>3, <1>6 DEF Core, Named, Holding
  <1>10. QED
    BY <1>7, <1>8, <1>9 DEF Core

\* ... and end: no item has an owner.
LEMMA FormedStep ==
  ASSUME Types, Core, NEW t \in User, NEW l \in Locals, Moved(t, "idle", l), Forming(t),
         UNCHANGED <<life, handle>>, items' = [i \in Item |-> NoID]
  PROVE  Core'
  <1>1. pc'[t] = "idle" /\ \A y \in Actor \ {t} : pc'[y] = pc[y] /\ loc'[y] = loc[y]
    BY DEF Moved
  <1>2. /\ \A p \in Proc : pc'[p] = pc[p] /\ loc'[p] = loc[p]
        /\ \A u \in User : u # t => pc'[u] = pc[u] /\ loc'[u] = loc[u]
    BY <1>1, Homes
  <1>3. UNCHANGED <<life, is_open, map, writer>>
    BY DEF handle
  <1>4. /\ \A p \in Proc : ~is_open[p] /\ pc'[p] = "off" /\ map[p] = {}
        /\ \A u \in User : pc'[u] = "idle"
    BY <1>1, <1>2 DEF Core, Working, Mapped
  <1>5. /\ \A u \in User : ~Locking(u)' /\ ~Using(u)' /\ ~Opening(u)' /\ ~Closing(u)' /\ ~Forming(u)'
        /\ \A p \in Proc : ~Settling(p)' /\ pc'[p] # "revoke"
    BY <1>4 DEF Opening, Closing, Forming, Locking, Using, Settling, LockPC, ScanPC,
       OwnPC, UsingPC, SettlingPC
  <1>6. \A p \in Proc, s \in Item : items'[s] # ID(p)
    BY Identity
  <1>7. Mapped' /\ Running' /\ Working' /\ Named'
    BY <1>3, <1>4, <1>5, <1>6 DEF Core, Mapped, Running, Working, Named
  <1>8. Locked' /\ Recovers' /\ Verdicts' /\ Holding'
    BY <1>3, <1>4, <1>5 DEF Locked, Recovers, Verdicts, Holding
  <1>9. QED
    BY <1>7, <1>8 DEF Core

-----------------------------------------------------------------------------
(* What the steps of a cleaner, the deaths and the births do to it *)

\* A cleaner takes a shelf over, from the dead, or writes what came of it.
TakesOver(p) ==
  /\ pc[p] = "revoke" /\ items[loc[p].s] = loc[p].old
  /\ items' = [items EXCEPT ![loc[p].s] = ID(p)]
Settles(p) == pc[p] = "settle" /\ items' = [items EXCEPT ![loc[p].s] = loc[p].old]

\* ... when nobody else uses it.
LEMMA NobodyElse ==
  ASSUME Types, Core, Identified, NEW p \in Proc, TakesOver(p) \/ Settles(p)
  PROVE  /\ \A q \in Proc : loc[p].s \notin map[q]
         /\ \A t \in User : Using(t) => loc[t].s # loc[p].s
         /\ \A q \in Proc : q # p /\ Settling(q) => loc[q].s # loc[p].s
  <1> DEFINE s == loc[p].s
  <1>1. CASE TakesOver(p)
    <2>1. \A q \in Proc : items[s] = ID(q) => life[q] = "dead"
      BY <1>1 DEF TakesOver, Core, Verdicts
    <2>2. \A t \in User : Using(t) => pc[t] # "idle" /\ home[t] \in Proc
      BY Homes DEF Using, UsingPC, OwnPC
    <2>3. \A q \in Proc : Settling(q) => pc[q] # "off"
      BY DEF Settling, SettlingPC
    <2>4. QED
      BY <2>1, <2>2, <2>3 DEF Core, Running, Holding
  <1>2. CASE Settles(p)
    <2>1. Settling(p)
      BY <1>2 DEF Settles, Settling, SettlingPC
    <2>2. \A q \in Proc : items[s] = ID(q) => q = p
      BY <2>1, Identity DEF Core, Holding
    <2>3. QED
      BY <2>1, <2>2, Homes DEF Core, Holding
  <1>3. QED
    BY <1>1, <1>2

LEMMA CleanerStep ==
  ASSUME Types, Core, NEW p \in Proc, NEW label, NEW l \in Locals, Moved(p, label, l),
         UNCHANGED <<life, handle>>, pc[p] # "off",
         Identified /\ label = "revoke" => \A q \in Proc : ID(q) = l.old => life[q] = "dead",
         label \in SettlingPC => l.old \in ProcessID,
         Identified =>
           \/ /\ items' = items
              /\ label \in SettlingPC =>
                   Settling(p) /\ l.s = loc[p].s /\ l.old \in {loc[p].old, NoID}
           \/ TakesOver(p) /\ label = "recover" /\ l = loc[p]
           \/ Settles(p) /\ label \notin SettlingPC
  PROVE  Core'
  <1>1. pc'[p] = label /\ loc'[p] = l /\ \A y \in Actor \ {p} : pc'[y] = pc[y] /\ loc'[y] = loc[y]
    BY DEF Moved
  <1>2. /\ \A t \in User : pc'[t] = pc[t] /\ loc'[t] = loc[t]
        /\ \A q \in Proc : q # p => pc'[q] = pc[q] /\ loc'[q] = loc[q]
    BY <1>1, Homes
  <1>3. UNCHANGED <<life, is_open, map, writer>>
    BY DEF handle
  <1>4. /\ \A u \in User : /\ Forming(u)' = Forming(u) /\ Opening(u)' = Opening(u)
                           /\ Closing(u)' = Closing(u) /\ Locking(u)' = Locking(u)
                           /\ Using(u)' = Using(u)
        /\ \A q \in Proc : q # p => Settling(q)' = Settling(q)
        /\ Settling(p)' <=> label \in SettlingPC
    BY <1>1, <1>2 DEF Forming, Opening, Closing, Locking, Using, Settling
  <1>5. items \in [Item -> ProcessID] /\ loc[p].s \in Item /\ l.s \in Item
    BY Homes, Carries DEF Types, FamTypes, ProcTypes
  <1>6. life[p] = "up"
    BY DEF Core, Running
  <1>7. pc[p] = "settle" => Settling(p)
    BY DEF Settling, SettlingPC
  <1>8. Identified =>
        \A i \in Item : items'[i] = items[i] \/ (i = loc[p].s /\ (TakesOver(p) \/ Settles(p)))
    BY <1>5 DEF TakesOver, Settles
  <1>9. Mapped' /\ Locked'
    BY <1>3, <1>4 DEF Core, Mapped, Locked
  <1>10. Working'
    BY <1>1, <1>2, <1>3, <1>4 DEF Core, Working
  <1>11. Running' /\ Recovers' /\ Named'
    <2>1. ASSUME Identified, NEW q \in Proc, NEW i \in Item, items'[i] = ID(q)
          PROVE  life'[q] # "new"
      <3>1. CASE items'[i] = items[i]
        <4>1. items[i] = ID(q)
          BY <2>1, <3>1
        <4>2. life[q] # "new"
          BY <2>1, <4>1 DEF Core, Named
        <4>3. QED
          BY <1>3, <4>2
      <3>2. CASE i = loc[p].s /\ TakesOver(p)
        BY <1>3, <1>5, <1>6, <2>1, <3>2, Identity DEF TakesOver
      <3>3. CASE i = loc[p].s /\ Settles(p)
        BY <1>3, <1>5, <1>7, <2>1, <3>3 DEF Settles, Core, Verdicts
      <3>4. QED
        BY <1>8, <2>1, <3>1, <3>2, <3>3
    <2>2. QED
      BY <1>1, <1>2, <1>3, <1>4, <1>6, <2>1 DEF Core, Running, Recovers, Named
  <1>12. Verdicts'
    <2>1. ASSUME Identified, NEW q \in Proc, pc'[q] = "revoke" \/ Settling(q)'
          PROVE  \A r \in Proc : ID(r) = loc'[q].old => life'[r] = "dead"
      <3>1. CASE q # p
        BY <1>2, <1>3, <1>4, <2>1, <3>1 DEF Core, Verdicts
      <3>2. CASE q = p /\ label = "revoke"
        BY <1>1, <1>3, <1>4, <2>1, <3>2 DEF SettlingPC
      <3>3. CASE q = p /\ TakesOver(p) /\ label = "recover" /\ l = loc[p]
        BY <1>1, <1>3, <1>5, <2>1, <3>3 DEF Core, Verdicts, TakesOver
      <3>4. CASE q = p /\ Settling(p) /\ l.old \in {loc[p].old, NoID}
        BY <1>1, <1>3, <2>1, <3>4, Identity DEF Core, Verdicts
      <3>5. QED
        BY <1>1, <1>4, <2>1, <3>1, <3>2, <3>3, <3>4
    <2>2. QED
      BY <2>1 DEF Verdicts
  <1>13. Holding'
    <2> SUFFICES ASSUME Identified PROVE Holding'
      BY DEF Holding
    <2>1. ASSUME NEW q \in Proc, NEW s \in map'[q] PROVE items'[s] = ID(q)
      BY <1>3, <1>8, <2>1, NobodyElse DEF Core, Holding, Types, ProcTypes
    <2>2. ASSUME NEW u \in User, Using(u)' PROVE items'[loc'[u].s] = ID(home[u])
      <3>1. loc[u].s \in Item
        BY Homes, Carries DEF Types, ProcTypes
      <3>2. QED
        BY <1>2, <1>4, <1>8, <2>2, <3>1, NobodyElse DEF Core, Holding
    <2>3. ASSUME NEW q \in Proc, Settling(q)'
          PROVE  /\ items'[loc'[q].s] = ID(q)
                 /\ loc'[q].s \notin map'[q]
                 /\ \A u \in User : Using(u)' /\ home[u] = q => loc'[u].s # loc'[q].s
      <3>1. loc[q].s \in Item
        BY Homes, Carries DEF Types, ProcTypes
      <3>2. CASE q # p
        BY <1>2, <1>3, <1>4, <1>8, <2>3, <3>1, <3>2, NobodyElse DEF Core, Holding
      <3>3. CASE q = p /\ TakesOver(p) /\ l = loc[p]
        <4>1. items'[loc'[p].s] = ID(p)
          BY <1>1, <1>5, <3>3 DEF TakesOver
        <4>2. /\ \A r \in Proc : loc[p].s \notin map[r]
              /\ \A u \in User : Using(u) => loc[u].s # loc[p].s
          BY <3>3, NobodyElse
        <4>3. QED
          BY <1>1, <1>2, <1>3, <1>4, <3>3, <4>1, <4>2
      <3>4. CASE q = p /\ items' = items /\ Settling(p) /\ l.s = loc[p].s
        BY <1>1, <1>2, <1>3, <1>4, <3>4 DEF Core, Holding
      <3>5. QED
        BY <1>4, <2>3, <3>2, <3>3, <3>4
    <2>4. QED
      BY <2>1, <2>2, <2>3 DEF Holding
  <1>14. QED
    BY <1>9, <1>10, <1>11, <1>12, <1>13 DEF Core

\* A process that dies takes its threads with it.
LEMMA VanishMoves ==
  ASSUME Types, NEW p \in Proc, Vanish(p)
  PROVE  /\ Control'
         /\ \A t \in User : IF home[t] = p THEN pc'[t] = "idle" /\ loc'[t] = NoLocals
                            ELSE pc'[t] = pc[t] /\ loc'[t] = loc[t]
         /\ \A q \in Proc : IF q = p THEN pc'[q] = "off" /\ loc'[q] = NoLocals
                            ELSE pc'[q] = pc[q] /\ loc'[q] = loc[q]
  <1>1. /\ \A t \in User : IF home[t] = p THEN pc'[t] = "idle" /\ loc'[t] = NoLocals
                           ELSE pc'[t] = pc[t] /\ loc'[t] = loc[t]
        /\ \A q \in Proc : IF q = p THEN pc'[q] = "off" /\ loc'[q] = NoLocals
                           ELSE pc'[q] = pc[q] /\ loc'[q] = loc[q]
    BY Homes DEF Vanish
  <1>2. Control
    BY DEF Types, ProcTypes, Control
  <1>3. /\ \A t \in User : pc'[t] \in UserPC /\ loc'[t] \in Locals
        /\ \A q \in Proc : pc'[q] \in CleanerPC /\ loc'[q] \in Locals
    BY <1>1, <1>2, Nothing, Homes DEF Control, UserPC, CleanerPC
  <1>4. \A x \in Actor : pc'[x] \in UserPC \cup CleanerPC /\ loc'[x] \in Locals
    BY <1>3, Homes
  <1>5. pc' = [x \in Actor |-> pc'[x]] /\ loc' = [x \in Actor |-> loc'[x]]
    BY DEF Vanish
  <1>6. pc' \in [Actor -> UserPC \cup CleanerPC] /\ loc' \in [Actor -> Locals]
    BY <1>4, <1>5
  <1>7. QED
    BY <1>1, <1>3, <1>6 DEF Control

\* A death leaves what the others hold: its own name stays on its items.
LEMMA VanishStep ==
  ASSUME Types, Core, NEW p \in Proc, Vanish(p), life[p] = "up", UNCHANGED items
  PROVE  Core'
  <1>1. /\ \A t \in User : IF home[t] = p THEN pc'[t] = "idle" /\ loc'[t] = NoLocals
                           ELSE pc'[t] = pc[t] /\ loc'[t] = loc[t]
        /\ \A q \in Proc : IF q = p THEN pc'[q] = "off" /\ loc'[q] = NoLocals
                           ELSE pc'[q] = pc[q] /\ loc'[q] = loc[q]
    BY VanishMoves
  <1>2. /\ life'[p] = "dead" /\ \A q \in Proc : q # p => life'[q] = life[q]
        /\ map'[p] = {} /\ \A q \in Proc : q # p => map'[q] = map[q]
        /\ ~is_open'[p] /\ \A q \in Proc : q # p => is_open'[q] = is_open[q]
        /\ ~writer'[p] /\ \A q \in Proc : q # p => writer'[q] = writer[q]
    BY DEF Vanish, Unlock, Types, ProcTypes
  <1>3. /\ \A u \in User : home[u] = p =>
             ~Locking(u)' /\ ~Using(u)' /\ ~Opening(u)' /\ ~Closing(u)' /\ ~Forming(u)'
        /\ ~Settling(p)' /\ pc'[p] # "revoke"
    BY <1>1 DEF Opening, Closing, Forming, Locking, Using, Settling, LockPC, ScanPC,
       OwnPC, UsingPC, SettlingPC
  <1>4. /\ \A u \in User : home[u] # p =>
             /\ Forming(u)' = Forming(u) /\ Opening(u)' = Opening(u)
             /\ Closing(u)' = Closing(u) /\ Locking(u)' = Locking(u) /\ Using(u)' = Using(u)
        /\ \A q \in Proc : q # p => Settling(q)' = Settling(q)
    BY <1>1 DEF Forming, Opening, Closing, Locking, Using, Settling
  <1>5. Mapped'
    BY <1>2 DEF Core, Mapped
  <1>6. Running' /\ Recovers' /\ Named'
    <2>1. First \subseteq First /\ \A q \in Proc : life'[q] = "new" => life[q] = "new" /\ q # p
      BY <1>2
    <2>2. \A t \in User : pc'[t] # "idle" => life'[home[t]] = "up"
      BY <1>1, <1>2, Homes DEF Core, Running
    <2>3. \A q \in Proc : pc'[q] # "off" \/ map'[q] # {} => life'[q] = "up"
      BY <1>1, <1>2 DEF Core, Running
    <2>4. Recovers' /\ Named'
      BY <1>1, <1>3, <1>4, <2>1 DEF Core, Recovers, Named
    <2>5. \A q \in First : life'[q] # "new"
      BY OwnershipAssumption DEF Core, Running, Vanish, Types, ProcTypes
    <2>6. QED
      BY <2>2, <2>3, <2>4, <2>5 DEF Running
  <1>7. Working'
    <2>1. \A u \in User : pc'[u] # "idle" /\ ~Forming(u)' /\ ~Opening(u)' => is_open'[home[u]]
      BY <1>1, <1>2, <1>4, Homes DEF Core, Working
    <2>2. \A v, u \in User : Closing(v)' /\ u # v /\ home[u] = home[v] => pc'[u] = "idle"
      BY <1>1, <1>3, <1>4 DEF Core, Working
    <2>3. \A v \in User : Forming(v)' =>
            /\ \A u \in User \ {v} : pc'[u] = "idle"
            /\ \A q \in Proc : pc'[q] = "off" /\ ~is_open'[q]
      BY <1>1, <1>2, <1>3, <1>4 DEF Core, Working
    <2>4. QED
      BY <2>1, <2>2, <2>3 DEF Working
  <1>8. Locked'
    BY <1>2, <1>3, <1>4, Homes DEF Core, Locked
  <1>9. Verdicts'
    BY <1>1, <1>2, <1>3, <1>4 DEF Core, Verdicts
  <1>10. Holding'
    BY <1>1, <1>2, <1>3, <1>4, Homes DEF Core, Holding
  <1>11. QED
    BY <1>5, <1>6, <1>7, <1>8, <1>9, <1>10 DEF Core

\* A process that starts is nobody a cleaner has given up: an item names it from
\* its first step on only.
LEMMA BirthStep ==
  ASSUME Types, Core, NEW p \in Proc, Birth(p),
         UNCHANGED <<items, is_open, map, writer, pc, loc>>
  PROVE  Core'
  <1>1. /\ life[p] = "new" /\ life'[p] = "up" /\ \A q \in Proc : q # p => life'[q] = life[q]
    BY DEF Birth, Types, ProcTypes
  <1>2. \A q \in First : life'[q] # "new"
    BY OwnershipAssumption DEF Birth, Core, Running, Types, ProcTypes
  <1>3. Running' /\ Recovers' /\ Named'
    BY <1>1, <1>2, Homes DEF Core, Running, Recovers, Named, Settling
  <1>4. Verdicts'
    BY <1>1 DEF Core, Verdicts, Settling
  <1>5. QED
    BY <1>3, <1>4 DEF Core, Mapped, Working, Locked, Holding, Forming, Opening, Closing,
       Locking, Using, Settling

-----------------------------------------------------------------------------
(* The beginning, and what follows from the invariant *)

\* Nobody does anything at the start.
LEMMA CoreAtStart == Init => Core
  <1> SUFFICES ASSUME Init PROVE Core
    OBVIOUS
  <1>1. /\ \A t \in User : pc[t] = "idle"
        /\ \A p \in Proc : pc[p] = "off" /\ map[p] = {} /\ ~is_open[p]
        /\ \A s \in Item : items[s] = NoID
    BY Homes DEF Init, OwnershipInit
  <1>2. \A p \in First : p \in Proc /\ life[p] = "up"
    BY OwnershipAssumption DEF Init, OwnershipInit
  <1>3. QED
    BY <1>1, <1>2, Identity DEF Core, Mapped, Running, Working, Locked, Recovers, Named, Verdicts,
       Holding, Forming,
       Opening, Closing, Locking, Using, Settling, LockPC, ScanPC, OwnPC, UsingPC, SettlingPC

\* Every use of a shelf is one of three kinds.
LEMMA Kinds ==
  ASSUME Core, Identified, NEW s \in Item, NEW u \in Uses(s)
  PROVE  /\ u[1] \in Proc /\ items[s] = ID(u[1])
         /\ \/ u = <<u[1], "map", u[1]>> /\ s \in map[u[1]]
            \/ \E t \in User : /\ u = <<u[1], "user", t>> /\ u[1] = home[t]
                               /\ Using(t) /\ loc[t].s = s
            \/ u = <<u[1], "cleaner", u[1]>> /\ Settling(u[1]) /\ loc[u[1]].s = s
  <1>1. CASE \E p \in Proc : u = <<p, "map", p>> /\ s \in map[p]
    BY <1>1 DEF Core, Holding
  <1>2. CASE \E t \in User : u = <<home[t], "user", t>> /\ pc[t] \in UsingPC /\ loc[t].s = s
    BY <1>2, Homes DEF Core, Holding, Using
  <1>3. CASE \E p \in Proc : u = <<p, "cleaner", p>> /\ pc[p] \in SettlingPC /\ loc[p].s = s
    BY <1>3 DEF Core, Holding, Settling
  <1>4. QED
    BY <1>1, <1>2, <1>3 DEF Uses

\* Two uses of a shelf are one: the item names one process, and a process uses a
\* shelf in one way.
LEMMA CoreOneHolder == Core /\ Identified => OneHolder
  <1> SUFFICES ASSUME Core, Identified, NEW s \in Item, NEW u \in Uses(s), NEW v \in Uses(s)
               PROVE  items[s] = ID(u[1]) /\ v = u
    BY DEF OneHolder
  <1> DEFINE p == u[1]
  <1>1. p \in Proc /\ items[s] = ID(p) /\ v[1] = p
    BY Kinds, Identity
  <1>2. \A t \in User : Using(t) => Locking(t)
    BY DEF Using, Locking, LockPC, UsingPC, ScanPC
  <1>3. CASE u = <<p, "map", p>> /\ s \in map[p]
    BY <1>1, <1>2, <1>3, Kinds DEF Core, Locked, Holding
  <1>4. CASE \E t \in User : u = <<p, "user", t>> /\ p = home[t] /\ Using(t) /\ loc[t].s = s
    BY <1>1, <1>2, <1>4, Kinds DEF Core, Locked, Holding
  <1>5. CASE u = <<p, "cleaner", p>> /\ Settling(p) /\ loc[p].s = s
    BY <1>1, <1>2, <1>5, Kinds DEF Core, Holding
  <1>6. QED
    BY <1>3, <1>4, <1>5, Kinds

\* A process with one shelf or none owns no more than kMaxOwnedHeap.
LEMMA OneShelf ==
  ASSUME NEW S, \A a, b \in S : a = b
  PROVE  /\ Cardinality(S) <= kMaxOwnedHeap
         /\ (Cardinality(S) = kMaxOwnedHeap <=> S # {})
         /\ S # {} => \E s \in S : S = {s}
  <1>1. CASE S = {}
    BY <1>1, FS_EmptySet DEF kMaxOwnedHeap
  <1>2. CASE S # {}
    <2>1. PICK s \in S : S = {s}
      BY <1>2
    <2>2. QED
      BY <2>1, FS_Singleton DEF kMaxOwnedHeap
  <1>3. QED
    BY <1>1, <1>2

-----------------------------------------------------------------------------
(* Types *)

\* A step that changes the label only.
LEMMA GotoMoves ==
  ASSUME Control, NEW x \in Actor, NEW label, Goto(x, label), UNCHANGED loc,
         x \in User => label \in UserPC, x \in Proc => label \in CleanerPC
  PROVE  Control' /\ Moved(x, label, loc[x]) /\ loc[x] \in Locals
  BY Homes DEF Control, Moved, Goto

\* What the types say of single variables.
LEMMA TypesGive ==
  ASSUME Types
  PROVE  /\ Control
         /\ items \in [Item -> ProcessID] /\ loc \in [Actor -> Locals] /\ map \in [Proc -> SUBSET Item]
         /\ is_open \in [Proc -> BOOLEAN] /\ writer \in [Proc -> BOOLEAN]
         /\ \A x \in Actor : loc[x] \in Locals /\ loc[x].s \in Item
         /\ \A t \in User : loc[t] \in Locals /\ loc[t].s \in Item
         /\ \A p \in Proc : loc[p] \in Locals /\ loc[p].s \in Item
  BY Homes, Carries DEF Types, FamTypes, ProcTypes, Control

\* The types of what a step leaves alone.
LEMMA FamKept ==
  ASSUME FamTypes, items' \in [Item -> ProcessID], UNCHANGED <<blocks, pool>>
  PROVE  FamTypes'
  BY DEF FamTypes, blocks, pool

LEMMA ProcKept ==
  ASSUME ProcTypes, Control', UNCHANGED life,
         is_open' \in [Proc -> BOOLEAN], map' \in [Proc -> SUBSET Item], writer' \in [Proc -> BOOLEAN]
  PROVE  ProcTypes'
  BY DEF ProcTypes, Control

LEMMA HandleKept ==
  ASSUME ProcTypes, Control', UNCHANGED <<life, handle>>
  PROVE  ProcTypes'
  BY DEF ProcTypes, Control, handle

LEMMA EventTyped ==
  ASSUME HistoryTypes, events' = events \/ Event
  PROVE  events' \in 0 .. MaxEvents
  BY DistHeapAssumption DEF HistoryTypes, Event

LEMMA HistoryKept ==
  ASSUME HistoryTypes, UNCHANGED history, events' = events \/ Event
  PROVE  HistoryTypes'
  BY EventTyped DEF HistoryTypes, history

\* A step of one thread keeps what the threads carry.
LEMMA CarriedMoves ==
  ASSUME Carried, NEW x \in Actor, NEW label, NEW l \in Locals, Moved(x, label, l),
         label \in PutPC => l.ptr \in Pointer, label \in {"push", "fba"} => l.blk \in Block
  PROVE  Carried'
  BY Homes DEF Carried, Moved

-----------------------------------------------------------------------------
(* AcquireShelfHeap *)

\* The steps of AcquireShelfHeap that end in a scan, or give the lock back.
LEMMA UnlockTyped ==
  ASSUME Types, NEW p \in Proc, Unlock(p) PROVE writer' \in [Proc -> BOOLEAN]
  BY TypesGive DEF Unlock

LEMMA OpenedStep ==
  ASSUME Types, Carried, Core, NEW t \in User, Locking(t), Opened(t), UNCHANGED life,
         Identified => items' = items \/ (GivesUp(t) /\ map' = map),
         map' = map \/ (Using(t) /\ map' = [map EXCEPT ![home[t]] = {loc[t].s}])
  PROVE  ProcTypes' /\ Carried' /\ Core'
  <1>1. /\ Control'
        /\ pc'[t] = "idle" /\ loc'[t] = NoLocals /\ pc'[home[t]] = "sleep"
        /\ \A y \in Actor \ {t} : loc'[y] = loc[y] /\ (y # home[t] => pc'[y] = pc[y])
    BY OpenedMoves
  <1>2. /\ \A u \in User \ {t} : pc'[u] = pc[u] /\ loc'[u] = loc[u]
        /\ \A p \in Proc : loc'[p] = loc[p] /\ (pc'[p] = pc[p] \/ (p = home[t] /\ pc'[p] = "sleep"))
    BY <1>1, Homes
  <1>3. home[t] \in Proc /\ loc[t].s \in Item
    BY Homes, TypesGive
  <1>4. /\ is_open' = [is_open EXCEPT ![home[t]] = TRUE] /\ is_open'[home[t]]
        /\ writer' = [writer EXCEPT ![home[t]] = FALSE]
    BY <1>3, TypesGive DEF Opened, Unlock
  <1>5. ProcTypes'
    BY <1>1, <1>3, <1>4, TypesGive, ProcKept DEF Types
  <1>6. Carried'
    BY <1>1, <1>2 DEF Carried, PutPC
  <1>7. Core'
    BY <1>1, <1>2, <1>4, LeaveStep
  <1>8. QED
    BY <1>5, <1>6, <1>7

LEMMA DoneStep ==
  ASSUME Types, Carried, Core, NEW t \in User, Locking(t), Done(t), Unlock(home[t]), UNCHANGED life,
         Identified => items' = items \/ (GivesUp(t) /\ map' = map),
         \/ map' = map
         \/ Using(t) /\ map' = [map EXCEPT ![home[t]] = {loc[t].s}] /\ is_open'[home[t]],
         \/ is_open' = is_open
         \/ Closing(t) /\ is_open' = [is_open EXCEPT ![home[t]] = FALSE] /\ map' = map
  PROVE  ProcTypes' /\ Carried' /\ Core'
  <1>1. Control' /\ Moved(t, "idle", NoLocals)
    BY DoneMoves
  <1>2. /\ pc'[t] = "idle" /\ \A u \in User \ {t} : pc'[u] = pc[u] /\ loc'[u] = loc[u]
        /\ \A p \in Proc : loc'[p] = loc[p] /\ pc'[p] = pc[p]
    BY <1>1, Homes DEF Moved
  <1>3. home[t] \in Proc /\ loc[t].s \in Item
    BY Homes, TypesGive
  <1>4. ProcTypes'
    <2>1. is_open' \in [Proc -> BOOLEAN]
      BY <1>3, TypesGive
    <2>2. map' \in [Proc -> SUBSET Item]
      BY <1>3, TypesGive
    <2>3. writer' \in [Proc -> BOOLEAN]
      BY <1>3, UnlockTyped
    <2>4. QED
      BY <1>1, <2>1, <2>2, <2>3, ProcKept DEF Types
  <1>5. Carried'
    BY <1>1, Nothing, Homes, CarriedMoves DEF PutPC
  <1>6. writer' = [writer EXCEPT ![home[t]] = FALSE]
    BY DEF Unlock
  <1>7. Core'
    BY <1>2, <1>6, LeaveStep
  <1>8. QED
    BY <1>4, <1>5, <1>7

\* On to the next item, the next scan, or the end of the search.
LEMMA AdvanceStep ==
  ASSUME Types, Carried, Core, NEW t \in User, Locking(t), Advance(t) \/ NextScan(t),
         UNCHANGED life, Identified => items' = items \/ GivesUp(t)
  PROVE  ProcTypes' /\ Carried' /\ Core'
  <1>1. CASE \E l \in Locals : /\ Moved(t, "check", l)
                               /\ l.stage \in OpeningStage <=> loc[t].stage \in OpeningStage
                               /\ UNCHANGED handle
    <2>1. PICK l \in Locals : /\ Moved(t, "check", l)
                              /\ l.stage \in OpeningStage <=> loc[t].stage \in OpeningStage
                              /\ UNCHANGED handle
      BY <1>1
    <2>2. Control'
      BY AdvanceMoves
    <2>3. ProcTypes' /\ Carried'
      BY <2>1, <2>2, HandleKept, CarriedMoves, Homes DEF Types, PutPC
    <2>4. "check" \in LockPC /\ "check" \notin UsingPC
      BY DEF LockPC, ScanPC, UsingPC, OwnPC
    <2>5. Core'
      BY <2>1, <2>4, SearchStep
    <2>6. QED
      BY <2>3, <2>5
  <1>2. CASE loc[t].stage = "last" /\ Done(t) /\ Unlock(home[t]) /\ UNCHANGED <<is_open, map>>
    BY <1>2, DoneStep
  <1>3. CASE loc[t].stage = "open_any" /\ Opened(t) /\ UNCHANGED map
    BY <1>3, OpenedStep
  <1>4. QED
    BY <1>1, <1>2, <1>3, AdvanceMoves

\* A process knows itself, or takes itself for nobody.
LEMMA OwnIdentity ==
  ASSUME NEW p \in Proc, NEW id \in SetPid(p)
  PROVE  id \in ProcessID /\ (Identified => id = ID(p))
  BY Identity DEF SetPid, Identified

\* A step on the items is one of those.
LEMMA AcquireItems ==
  ASSUME Types, NEW t \in User, NEW s \in Item, AcquireItem(home[t], s)
  PROVE  /\ items' \in [Item -> ProcessID]
         /\ Identified => IF Acquired(s) THEN Acquires(t, s) ELSE items' = items
  <1>1. PICK id \in SetPid(home[t]) : CompareAndStore(s, NoID, id)
    BY DEF AcquireItem
  <1>2. id \in ProcessID /\ (Identified => id = ID(home[t])) /\ items \in [Item -> ProcessID]
    BY OwnIdentity, Homes, TypesGive
  <1>3. QED
    BY <1>1, <1>2 DEF CompareAndStore, Acquired, Stored, Acquires

LEMMA ReleaseItems ==
  ASSUME Types, Core, NEW t \in User, Using(t), NEW id \in SetPid(home[t]),
         ReleaseItem(loc[t].s, id)
  PROVE  items' \in [Item -> ProcessID] /\ (Identified => GivesUp(t))
  <1>1. items \in [Item -> ProcessID] /\ NoID \in ProcessID
    BY TypesGive, Identity
  <1>2. items' = IF items[loc[t].s] = id THEN [items EXCEPT ![loc[t].s] = NoID] ELSE items
    BY DEF ReleaseItem, CompareAndStore
  <1>3. Identified => items[loc[t].s] = id
    BY Homes, OwnIdentity DEF Core, Holding
  <1>4. QED
    BY <1>1, <1>2, <1>3 DEF GivesUp

\* The labels of a thread, and what they say of it.
LEMMA Labels ==
  ASSUME NEW t \in User
  PROVE  /\ pc[t] \in ScanPC \cup OwnPC => Locking(t)
         /\ pc[t] \in UsingPC => Using(t) /\ Locking(t)
         /\ {"idle", "format", "destroy", "want", "stop"} \cup ScanPC \cup OwnPC \cup PutPC
              \subseteq UserPC
         /\ UsingPC \subseteq LockPC /\ {"check", "take", "claim"} \subseteq LockPC \ UsingPC
         /\ LockPC \cap PutPC = {} /\ "fba" \notin LockPC
  BY DEF Locking, LockPC, UsingPC, Using, ScanPC, OwnPC, PutPC, UserPC

\* Check, Acquire, AddShelf and AddFailed.
LEMMA CheckKeeps ==
  ASSUME IInv, NEW t \in User, Check(t)
  PROVE  Types' /\ Carried' /\ Core'
  <1> USE DEF IInv, Core
  <1>1. Locking(t)
    BY Labels DEF Check, ScanPC
  <1>2. UNCHANGED <<items, life, blocks, pool, history, events>>
    BY DEF Check
  <1>3. FamTypes' /\ HistoryTypes'
    BY <1>2, FamKept, HistoryKept DEF Types, FamTypes
  <1>4. CASE Advance(t)
    BY <1>1, <1>2, <1>3, <1>4, AdvanceStep DEF Types
  <1>5. ASSUME NEW label \in {"take", "claim"}, Goto(t, label), UNCHANGED <<loc, handle>>
        PROVE  Types' /\ Carried' /\ Core'
    <2>1. Control' /\ Moved(t, label, loc[t]) /\ loc[t] \in Locals
      BY <1>5, GotoMoves, TypesGive, Homes, Labels DEF ScanPC
    <2>2. ProcTypes' /\ Carried'
      BY <1>2, <1>5, <2>1, HandleKept, CarriedMoves, Homes DEF Types, PutPC
    <2>3. Core'
      <3>1. label \in LockPC /\ label \notin UsingPC /\ label # "release"
        BY <1>5, Labels
      <3>2. QED
        BY <1>1, <1>2, <1>5, <2>1, <3>1, SearchStep
    <2>4. QED
      BY <1>3, <2>2, <2>3 DEF Types
  <1>6. QED
    BY <1>4, <1>5 DEF Check

\* An item that has no owner is taken; another is passed over.
LEMMA AcquireKeeps ==
  ASSUME IInv, NEW t \in User, Acquire(t)
  PROVE  Types' /\ Carried' /\ Core'
  <1> USE DEF IInv, Core
  <1> DEFINE s == loc[t].s
  <1>1. Locking(t) /\ s \in Item
    BY Labels, TypesGive DEF Acquire, ScanPC
  <1>2. UNCHANGED <<life, blocks, pool, history, events>> /\ AcquireItem(home[t], s)
    BY DEF Acquire
  <1>3. /\ items' \in [Item -> ProcessID]
        /\ Identified => IF Acquired(s) THEN Acquires(t, s) ELSE items' = items
    BY <1>1, <1>2, AcquireItems
  <1>4. FamTypes' /\ HistoryTypes'
    BY <1>2, <1>3, FamKept, HistoryKept DEF Types
  <1>5. CASE ~Acquired(s) /\ Advance(t)
    BY <1>1, <1>2, <1>3, <1>4, <1>5, AdvanceStep DEF Types
  <1>6. ASSUME NEW label \in {"open", "add"}, Acquired(s), Goto(t, label), UNCHANGED <<loc, handle>>
        PROVE  Types' /\ Carried' /\ Core'
    <2>1. Control' /\ Moved(t, label, loc[t]) /\ loc[t] \in Locals
      BY <1>6, GotoMoves, TypesGive, Homes, Labels DEF ScanPC, OwnPC
    <2>2. ProcTypes' /\ Carried'
      BY <1>2, <1>6, <2>1, HandleKept, CarriedMoves, Homes DEF Types, PutPC
    <2>3. Core'
      <3>1. label \in LockPC /\ label # "release"
        BY <1>6 DEF LockPC, ScanPC, OwnPC
      <3>2. QED
        BY <1>1, <1>2, <1>3, <1>6, <2>1, <3>1, SearchStep
    <2>4. QED
      BY <1>4, <2>2, <2>3 DEF Types
  <1>7. QED
    BY <1>5, <1>6 DEF Acquire

LEMMA AddShelfKeeps ==
  ASSUME IInv, NEW t \in User, AddShelf(t)
  PROVE  Types' /\ Carried' /\ Core'
  <1> USE DEF IInv, Core
  <1>1. Locking(t) /\ Using(t) /\ loc[t].s \in Item
    BY Labels, TypesGive DEF AddShelf, ScanPC, UsingPC
  <1>2. UNCHANGED <<items, life, blocks, heap, handle, loc, history>>
    BY DEF AddShelf
  <1>3. PICK label \in {"open", "unadd"} : Goto(t, label)
    BY DEF AddShelf
  <1>4. Control' /\ Moved(t, label, loc[t]) /\ loc[t] \in Locals
    BY <1>2, <1>3, GotoMoves, TypesGive, Homes, Labels DEF ScanPC, OwnPC
  <1>5. ProcTypes' /\ Carried'
    BY <1>2, <1>3, <1>4, HandleKept, CarriedMoves, Homes DEF Types, PutPC
  <1>6. FamTypes'
    <2>1. shelf' \subseteq Item /\ next_free' \in [Item -> 0 .. Capacity]
      BY <1>1, DistHeapAssumption DEF AddShelf, Types, FamTypes
    <2>2. QED
      BY <1>2, <2>1 DEF Types, FamTypes, blocks
  <1>7. HistoryTypes'
    <2>1. events' = events \/ Event
      BY DEF AddShelf
    <2>2. QED
      BY <1>2, <2>1, HistoryKept DEF Types
  <1>8. label \in LockPC /\ label # "release"
    BY DEF LockPC, ScanPC, OwnPC
  <1>9. Core'
    BY <1>1, <1>2, <1>4, <1>8, SearchStep
  <1>10. QED
    BY <1>5, <1>6, <1>7, <1>9 DEF Types

LEMMA AddFailedKeeps ==
  ASSUME IInv, NEW t \in User, AddFailed(t)
  PROVE  Types' /\ Carried' /\ Core'
  <1> USE DEF IInv, Core
  <1>1. Locking(t) /\ Using(t)
    BY Labels DEF AddFailed, ScanPC, UsingPC
  <1>2. UNCHANGED <<life, blocks, pool, history, events>> /\ (Advance(t) \/ NextScan(t))
    BY DEF AddFailed
  <1>3. items' \in [Item -> ProcessID] /\ (Identified => GivesUp(t))
    BY <1>1, ReleaseItems DEF AddFailed
  <1>4. FamTypes' /\ HistoryTypes'
    BY <1>2, <1>3, FamKept, HistoryKept DEF Types
  <1>5. QED
    BY <1>1, <1>2, <1>3, <1>4, AdvanceStep DEF Types

-----------------------------------------------------------------------------
(* Open, Close, Alloc and Free *)

\* An object is allocated where there is room.
LEMMA Bumped ==
  ASSUME Types, NEW s \in Item, Room(s), Bump(s),
         UNCHANGED <<items, blocks, heap, shelf, reclaimed, dropped>>, events' = events \/ Event
  PROVE  FamTypes' /\ HistoryTypes'
  <1>1. next_free[s] \in 0 .. Capacity - 1 /\ next_free \in [Item -> 0 .. Capacity]
    BY DistHeapAssumption DEF Types, FamTypes, Room
  <1>2. next_free' \in [Item -> 0 .. Capacity] /\ live' \subseteq Pointer
    BY <1>1, DistHeapAssumption DEF Bump, Types, HistoryTypes, Pointer
  <1>3. QED
    BY <1>2, EventTyped DEF Types, FamTypes, HistoryTypes, blocks

\* What the thread unmaps is its own, and it waits in "release" for its item.
LEMMA ClosingLocals ==
  ASSUME NEW s \in Item, NEW st \in Stage
  PROVE  LET l == [NoLocals EXCEPT !.s = s, !.stage = st]
         IN  l \in Locals /\ l.s = s /\ l.stage = st
  BY ScanLocals

\* OpenShelfHeap and ReleaseShelfHeap, and the early return of the first.
LEMMA OpenShelfHeapKeeps ==
  ASSUME IInv, NEW t \in User, OpenShelfHeap(t)
  PROVE  Types' /\ Carried' /\ Core'
  <1> USE DEF IInv, Core
  <1> DEFINE h == home[t] s == loc[t].s st == loc[t].stage
             Map == map' = [map EXCEPT ![h] = {s}]
  <1>1. Locking(t) /\ Using(t) /\ s \in Item /\ h \in Proc /\ st \in Stage
    BY Labels, TypesGive, Homes, Carries DEF OpenShelfHeap, UsingPC, OwnPC
  <1>2. map[h] = {} /\ map \in [Proc -> SUBSET Item]
    BY <1>1, TypesGive DEF Locked
  <1>3. /\ UNCHANGED <<items, life, blocks, heap, shelf, reclaimed, dropped, events>>
        /\ pc[t] = "open"
    BY DEF OpenShelfHeap
  <1>4. map' = [map EXCEPT ![h] = @ \cup {s}] => Map
    BY <1>1, <1>2
  <1>5. st \notin OpeningStage => is_open[h]
    BY <1>3 DEF Working, Forming, Opening
  <1>6. UNCHANGED <<next_free, live>> => FamTypes' /\ HistoryTypes'
    BY <1>3, FamKept, HistoryKept DEF Types, FamTypes, pool, history
  <1>7. CASE Map /\ Opened(t) /\ UNCHANGED <<next_free, live>>
    BY <1>1, <1>3, <1>6, <1>7, OpenedStep DEF Types
  <1>8. CASE Map /\ Done(t) /\ Unlock(h) /\ is_open' = is_open /\ is_open[h] /\ FamTypes' /\ HistoryTypes'
    BY <1>1, <1>3, <1>8, DoneStep DEF Types
  <1>9. CASE st \in {"old", "any"} /\ CloseShelfHeap(t, s, st) /\ UNCHANGED <<is_open, writer, next_free, live>>
    <2> DEFINE l == [NoLocals EXCEPT !.s = s, !.stage = st]
    <2>1. l \in Locals /\ l.s = s /\ l.stage = st
      BY <1>1, ClosingLocals
    <2>2. map' = map
      BY <1>1, <1>2, <1>9 DEF CloseShelfHeap
    <2>3. Goto(t, "release") /\ With(t, l)
      BY <1>9 DEF CloseShelfHeap
    <2> HIDE DEF l
    <2>4. Control' /\ Moved(t, "release", l)
      BY <2>1, <2>3, Move, TypesGive, Homes, Labels DEF OwnPC
    <2>5. UNCHANGED handle
      BY <1>9, <2>2 DEF handle
    <2>6. ProcTypes' /\ Carried'
      BY <1>3, <2>1, <2>4, <2>5, HandleKept, CarriedMoves, Homes DEF Types, PutPC
    <2>7. "release" \in LockPC /\ "release" \in UsingPC
      BY DEF LockPC, OwnPC, UsingPC
    <2>8. Core'
      BY <1>1, <1>3, <1>9, <2>1, <2>4, <2>5, <2>7, SearchStep
    <2>9. QED
      BY <1>6, <1>9, <2>6, <2>8 DEF Types
  <1>10. CASE st \notin OpeningStage /\ Room(s) /\ Map /\ Bump(s) /\ Done(t) /\ Unlock(h) /\ UNCHANGED is_open
    BY <1>1, <1>3, <1>5, <1>8, <1>10, Bumped
  <1>11. CASE st = "last" /\ Map /\ Done(t) /\ Unlock(h) /\ UNCHANGED <<is_open, next_free, live>>
    BY <1>5, <1>6, <1>8, <1>11 DEF OpeningStage
  <1>12. QED
    BY <1>4, <1>7, <1>9, <1>10, <1>11 DEF OpenShelfHeap, OpeningStage

LEMMA OpenShelfFailsKeeps ==
  ASSUME IInv, NEW t \in User, OpenShelfFails(t)
  PROVE  Types' /\ Carried' /\ Core'
  <1> USE DEF IInv, Core
  <1>1. Locking(t)
    BY Labels DEF OpenShelfFails, OwnPC
  <1>2. /\ UNCHANGED <<items, life, blocks, pool, is_open, map, history>>
        /\ Event /\ Done(t) /\ Unlock(home[t])
    BY DEF OpenShelfFails
  <1>3. FamTypes' /\ HistoryTypes'
    BY <1>2, FamKept, HistoryKept DEF Types, FamTypes
  <1>4. QED
    BY <1>1, <1>2, <1>3, DoneStep DEF Types

LEMMA GiveUpKeeps ==
  ASSUME IInv, NEW t \in User, GiveUp(t)
  PROVE  Types' /\ Carried' /\ Core'
  <1> USE DEF IInv, Core
  <1>1. Locking(t) /\ Using(t) /\ pc[t] = "release"
    BY Labels DEF GiveUp, OwnPC, UsingPC
  <1>2. /\ UNCHANGED <<life, blocks, pool, map, history, events>>
        /\ AfterRelease(t) \/ (Done(t) /\ Unlock(home[t]) /\ UNCHANGED is_open)
    BY DEF GiveUp
  <1>3. items' \in [Item -> ProcessID] /\ (Identified => GivesUp(t))
    BY <1>1, ReleaseItems DEF GiveUp
  <1>4. FamTypes' /\ HistoryTypes'
    BY <1>2, <1>3, FamKept, HistoryKept DEF Types
  <1>5. ASSUME NEW st \in {"old", "last"}, Scan(t, st), UNCHANGED <<is_open, writer>>,
               loc[t].stage \notin OpeningStage
        PROVE  Types' /\ Carried' /\ Core'
    <2>1. st \in Stage /\ st \notin OpeningStage
      BY DEF Stage, OpeningStage
    <2>2. Control' /\ \E l \in Locals : Moved(t, "check", l) /\ l.stage = st
      BY <1>5, <2>1, ScanMoves
    <2>3. PICK l \in Locals : Moved(t, "check", l) /\ l.stage = st
      BY <2>2
    <2>4. UNCHANGED handle
      BY <1>2, <1>5 DEF handle
    <2>5. ProcTypes' /\ Carried'
      BY <1>2, <2>2, <2>3, <2>4, HandleKept, CarriedMoves, Homes DEF Types, PutPC
    <2>6. "check" \in LockPC /\ "check" \notin UsingPC
      BY Labels
    <2>7. Core'
      BY <1>1, <1>2, <1>3, <1>5, <2>1, <2>3, <2>4, <2>6, SearchStep
    <2>8. QED
      BY <1>4, <2>5, <2>7 DEF Types
  <1>6. CASE /\ loc[t].stage = "close" /\ Done(t)
             /\ is_open' = [is_open EXCEPT ![home[t]] = FALSE] /\ Unlock(home[t])
    BY <1>1, <1>2, <1>3, <1>4, <1>6, DoneStep DEF Types, Closing
  <1>7. CASE Done(t) /\ Unlock(home[t]) /\ UNCHANGED is_open
    BY <1>1, <1>2, <1>3, <1>4, <1>7, DoneStep DEF Types
  <1>8. QED
    BY <1>2, <1>5, <1>6, <1>7 DEF AfterRelease, OpeningStage

\* Who takes the write lock finds nobody in it.
LEMMA EnterKeeps ==
  ASSUME Types, Carried, Core, NEW t \in User, NEW label \in {"check", "release"}, NEW l \in Locals,
         Control', Moved(t, label, l), WriteLock(home[t]), UNCHANGED <<life, is_open>>,
         items' = items, map' = [map EXCEPT ![home[t]] = {}], life[home[t]] = "up",
         (l.stage \in OpeningStage /\ label = "check") \/ is_open[home[t]],
         label = "release" => l.s \in map[home[t]],
         label = "release" /\ l.stage = "close" =>
           \A u \in User \ {t} : home[u] = home[t] => pc[u] = "idle",
         \A u \in User \ {t} : ~Forming(u) /\ (home[u] = home[t] => ~Closing(u))
  PROVE  ProcTypes' /\ Carried' /\ Core'
  <1>1. ~writer[home[t]] /\ writer' = [writer EXCEPT ![home[t]] = TRUE]
    BY DEF WriteLock
  <1>2. writer' \in [Proc -> BOOLEAN] /\ map' \in [Proc -> SUBSET Item] /\ is_open' \in [Proc -> BOOLEAN]
    BY <1>1, TypesGive, Homes
  <1>3. ProcTypes'
    BY <1>2, ProcKept DEF Types
  <1>4. Carried'
    BY CarriedMoves, Homes DEF PutPC
  <1>5. Core'
    BY <1>1, EnterStep
  <1>6. QED
    BY <1>3, <1>4, <1>5

\* Open begins when nobody else is in the process.
LEMMA OpenHeapKeeps ==
  ASSUME IInv, NEW t \in User, OpenHeap(t)
  PROVE  Types' /\ Carried' /\ Core'
  <1> USE DEF IInv, Core
  <1>1. UNCHANGED <<items, life, blocks, pool, is_open, map, history, events>> /\ home[t] \in Proc
    BY Homes DEF OpenHeap
  <1>2. FamTypes' /\ HistoryTypes'
    BY <1>1, FamKept, HistoryKept DEF Types, FamTypes
  <1>3. "open_old" \in Stage /\ "open_old" \in OpeningStage /\ Scan(t, "open_old")
    BY DEF Stage, OpeningStage, OpenHeap
  <1>4. Control' /\ \E l \in Locals : Moved(t, "check", l) /\ l.stage = "open_old"
    BY <1>3, ScanMoves
  <1>5. PICK l \in Locals : Moved(t, "check", l) /\ l.stage = "open_old"
    BY <1>4
  <1>6. map' = [map EXCEPT ![home[t]] = {}]
    BY <1>1, TypesGive DEF OpenHeap, Mapped
  <1>7. \A u \in User \ {t} : ~Forming(u) /\ (home[u] = home[t] => ~Closing(u))
    BY DEF OpenHeap, Quiet, Forming, Closing
  <1>8. ProcTypes' /\ Carried' /\ Core'
    BY <1>1, <1>3, <1>4, <1>5, <1>6, <1>7, EnterKeeps DEF OpenHeap
  <1>9. QED
    BY <1>2, <1>8 DEF Types

\* CloseShelfHeap of the shelf of the process, under the write lock.
LEMMA CloseShelfHeapKeeps ==
  ASSUME IInv, NEW t \in User, pc[t] \in {"want", "stop"}, NEW stage \in {"full", "close"},
         stage = "close" => pc[t] = "stop",
         map[home[t]] # {}, WriteLock(home[t]), CloseShelfHeap(t, Min(map[home[t]]), stage),
         UNCHANGED <<items, life, is_open>>
  PROVE  ProcTypes' /\ Carried' /\ Core'
  <1>0. Types /\ Carried /\ Core /\ Mapped /\ Working /\ Running
    BY DEF IInv, Core
  <1> DEFINE h == home[t]
  <1>1. h \in Proc /\ map \in [Proc -> SUBSET Item]
    BY <1>0, Homes, TypesGive
  <1>2. PICK s \in map[h] : map[h] = {s}
    BY <1>0, <1>1 DEF Mapped
  <1>3. s \in Item /\ s = Min(map[h])
    <2>1. Item \subseteq Int /\ s \in Item
      BY <1>1, <1>2 DEF Item
    <2>2. QED
      BY <1>2, <2>1 DEF Min
  <1>4. stage \in Stage /\ CloseShelfHeap(t, s, stage)
    BY <1>3 DEF Stage
  <1> DEFINE l == [NoLocals EXCEPT !.s = s, !.stage = stage]
  <1>5. l \in Locals /\ l.s = s /\ l.stage = stage
    BY <1>3, <1>4, Nothing DEF Locals
  <1>6. Goto(t, "release") /\ With(t, l) /\ map' = [map EXCEPT ![h] = {}]
    BY <1>1, <1>2, <1>4 DEF CloseShelfHeap
  <1> HIDE DEF l
  <1>7. Control' /\ Moved(t, "release", l)
    BY <1>0, <1>5, <1>6, Move, TypesGive, Homes, Labels DEF OwnPC
  <1>8. /\ is_open[h] /\ life[h] = "up"
        /\ \A u \in User \ {t} : ~Forming(u) /\ (home[u] = h => ~Closing(u))
    <2>1. pc[t] # "idle" /\ ~Forming(t) /\ ~Opening(t)
      BY DEF Forming, Opening, Locking, LockPC, ScanPC, OwnPC
    <2>2. QED
      BY <1>0, <2>1 DEF Working, Running
  <1>9. l.stage = "close" => \A u \in User \ {t} : home[u] = h => pc[u] = "idle"
    BY <1>0, <1>5 DEF Working, Closing
  <1>10. l.s \in map[h]
    BY <1>2, <1>5
  <1>11. "release" \in {"check", "release"} /\ life' = life /\ is_open' = is_open /\ items' = items
    OBVIOUS
  <1>12. QED
    BY <1>0, <1>5, <1>6, <1>7, <1>8, <1>9, <1>10, <1>11, EnterKeeps

\* Alloc gives the shelf of the process away or searches.
LEMMA AllocWantKeeps ==
  ASSUME IInv, NEW t \in User, AllocWant(t)
  PROVE  Types' /\ Carried' /\ Core'
  <1> USE DEF IInv, Core
  <1> DEFINE h == home[t]
  <1>1. /\ UNCHANGED <<items, life, blocks, pool, is_open, history, events>>
        /\ h \in Proc /\ pc[t] = "want" /\ WriteLock(h)
    BY Homes DEF AllocWant
  <1>2. FamTypes' /\ HistoryTypes'
    BY <1>1, FamKept, HistoryKept DEF Types, FamTypes
  <1>3. Cardinality(map[h]) = kMaxOwnedHeap <=> map[h] # {}
    BY <1>1, OneShelf DEF Mapped
  <1>4. CASE map[h] # {}
    <2>1. CloseShelfHeap(t, Min(map[h]), "full")
      BY <1>3, <1>4 DEF AllocWant
    <2>2. ProcTypes' /\ Carried' /\ Core'
      BY <1>1, <1>4, <2>1, CloseShelfHeapKeeps
    <2>3. QED
      BY <1>2, <2>2 DEF Types
  <1>5. CASE map[h] = {}
    <2>1. Scan(t, "old") /\ UNCHANGED map
      BY <1>3, <1>5 DEF AllocWant
    <2>2. "old" \in Stage
      BY DEF Stage
    <2>3. Control' /\ \E l \in Locals : Moved(t, "check", l) /\ l.stage = "old"
      BY <2>1, <2>2, ScanMoves
    <2>4. PICK l \in Locals : Moved(t, "check", l) /\ l.stage = "old"
      BY <2>3
    <2>5. map' = [map EXCEPT ![h] = {}]
      BY <1>5, <2>1, TypesGive
    <2>6. pc[t] # "idle" /\ ~Forming(t) /\ ~Opening(t)
      BY <1>1 DEF Forming, Opening, Locking, LockPC, ScanPC, OwnPC
    <2>7. /\ is_open[h] /\ life[h] = "up"
          /\ \A u \in User \ {t} : ~Forming(u) /\ (home[u] = h => ~Closing(u))
      BY <1>1, <2>6 DEF Working, Running
    <2>8. ProcTypes' /\ Carried' /\ Core'
      BY <1>1, <2>3, <2>4, <2>5, <2>7, EnterKeeps
    <2>9. QED
      BY <1>2, <2>8 DEF Types
  <1>6. QED
    BY <1>4, <1>5

\* A step that takes no lock and touches no shelf, with its types.
LEMMA CalmKeeps ==
  ASSUME Types, Carried, Core, NEW t \in User, NEW label \in UserPC, NEW l \in Locals,
         Goto(t, label), With(t, l), UNCHANGED <<items, life, handle>>,
         label \notin LockPC, label \notin {"format", "destroy"},
         label # "idle" => life[home[t]] = "up" /\ is_open[home[t]],
         label # "idle" => \A u \in User : u # t /\ home[u] = home[t] => ~Closing(u),
         label = "stop" => \A u \in User \ {t} : home[u] = home[t] => pc[u] = "idle",
         label \in PutPC => l.ptr \in Pointer, label = "push" => l.blk \in Block
  PROVE  ProcTypes' /\ Carried' /\ Core'
  <1>1. Control' /\ Moved(t, label, l)
    BY Move, TypesGive, Homes
  <1>2. ProcTypes'
    BY <1>1, HandleKept DEF Types
  <1>3. label # "fba"
    BY DEF UserPC, ScanPC, OwnPC, PutPC
  <1>4. Carried'
    BY <1>1, <1>3, CarriedMoves, Homes
  <1>5. Core'
    BY <1>1, CalmStep
  <1>6. QED
    BY <1>2, <1>4, <1>5

\* Close unmaps the shelf, or is done.
LEMMA CloseMappedKeeps ==
  ASSUME IInv, NEW t \in User, CloseMapped(t)
  PROVE  Types' /\ Carried' /\ Core'
  <1> DEFINE h == home[t]
  <1>0. Types /\ Carried /\ Core /\ Mapped /\ Working /\ Running /\ h \in Proc
    BY Homes DEF IInv, Core
  <1>1. /\ UNCHANGED <<items, life, blocks, pool, history, events>>
        /\ pc[t] = "stop"
    BY DEF CloseMapped
  <1>2. FamTypes' /\ HistoryTypes'
    BY <1>0, <1>1, FamKept, HistoryKept DEF Types, FamTypes
  <1>3. CASE map[h] # {}
    <2>1. WriteLock(h) /\ CloseShelfHeap(t, Min(map[h]), "close") /\ UNCHANGED is_open
      BY <1>3 DEF CloseMapped
    <2>2. ProcTypes' /\ Carried' /\ Core'
      BY <1>1, <1>3, <2>1, CloseShelfHeapKeeps
    <2>3. QED
      BY <1>2, <2>2 DEF Types
  <1>4. CASE map[h] = {}
    <2>1. Done(t) /\ is_open' = [is_open EXCEPT ![h] = FALSE] /\ UNCHANGED <<map, writer>>
      BY <1>4 DEF CloseMapped
    <2>2. Control' /\ Moved(t, "idle", NoLocals)
      BY <1>0, <2>1, DoneMoves
    <2>3. ProcTypes'
      BY <1>0, <1>1, <2>1, <2>2, TypesGive, ProcKept DEF Types
    <2>4. Carried'
      BY <1>0, <2>2, Nothing, Homes, CarriedMoves DEF PutPC
    <2>5. /\ pc'[t] = "idle" /\ \A u \in User \ {t} : pc'[u] = pc[u] /\ loc'[u] = loc[u]
          /\ \A p \in Proc : loc'[p] = loc[p] /\ pc'[p] = pc[p]
      BY <2>2, Homes DEF Moved
    <2>6. /\ \A u \in User \ {t} : home[u] = h => pc[u] = "idle"
          /\ \A u \in User : ~Forming(u)
      <3>1. Closing(t) /\ ~Forming(t) /\ pc[t] # "idle"
        BY <1>1 DEF Closing, Forming
      <3>2. QED
        BY <1>0, <3>1 DEF Working
    <2>7. /\ ~Locking(t)' /\ ~Using(t)' /\ ~Opening(t)' /\ ~Closing(t)' /\ ~Forming(t)'
          /\ \A u \in User \ {t} : /\ Forming(u)' = Forming(u) /\ Opening(u)' = Opening(u)
                                  /\ Closing(u)' = Closing(u) /\ Locking(u)' = Locking(u)
                                  /\ Using(u)' = Using(u)
          /\ \A p \in Proc : Settling(p)' = Settling(p)
      BY <2>5 DEF Forming, Opening, Closing, Locking, Using, Settling, LockPC, ScanPC, OwnPC, UsingPC
    <2>8. \A p \in Proc : p # h => is_open'[p] = is_open[p]
      BY <1>0, <2>1, TypesGive
    <2>9. Mapped'
      BY <1>0, <1>4, <2>1, <2>8 DEF Mapped
    <2>10. Running'
      BY <1>0, <1>1, <2>1, <2>5 DEF Running
    <2>11. Working'
      <3>1. \A u \in User : pc'[u] # "idle" /\ ~Forming(u)' /\ ~Opening(u)' => is_open'[home[u]]
        BY <1>0, <2>5, <2>6, <2>7, <2>8, Homes DEF Working
      <3>2. \A v, u \in User : Closing(v)' /\ u # v /\ home[u] = home[v] => pc'[u] = "idle"
        BY <1>0, <2>5, <2>7 DEF Working
      <3>3. QED
        BY <2>6, <2>7, <3>1, <3>2 DEF Working
    <2>12. Locked' /\ Recovers' /\ Named' /\ Verdicts' /\ Holding'
      <3>1. Locked'
        BY <1>0, <2>1, <2>7 DEF Core, Locked
      <3>2. Recovers' /\ Named' /\ Verdicts'
        BY <1>0, <1>1, <2>5, <2>7 DEF Core, Recovers, Named, Verdicts
      <3>3. Holding'
        BY <1>0, <1>1, <2>1, <2>5, <2>7 DEF Core, Holding
      <3>4. QED
        BY <3>1, <3>2, <3>3
    <2>13. QED
      BY <1>2, <2>3, <2>4, <2>9, <2>10, <2>11, <2>12 DEF Types, Core
  <1>5. QED
    BY <1>3, <1>4

\* A call on an open heap that takes no lock.
LEMMA CallKeeps ==
  ASSUME IInv, NEW t \in User, NEW label \in {"idle", "want", "put", "stop"}, NEW l \in Locals,
         Call(t, label, l), UNCHANGED <<items, life, handle>>,
         ~writer[home[t]] \/ label = "stop", label = "put" => l.ptr \in Pointer,
         label = "stop" => \A u \in User \ {t} : home[u] = home[t] => pc[u] = "idle"
  PROVE  ProcTypes' /\ Carried' /\ Core'
  <1>0. Types /\ Carried /\ Core /\ Locked
    BY DEF IInv, Core
  <1>1. /\ life[home[t]] = "up" /\ is_open[home[t]] /\ ~Stopping(home[t])
        /\ Goto(t, label) /\ With(t, l)
    BY DEF Call
  <1>2. label \in UserPC /\ label \notin LockPC /\ (label \in PutPC => label = "put")
    BY DEF UserPC, LockPC, ScanPC, OwnPC, PutPC
  <1>3. ASSUME NEW u \in User, u # t, home[u] = home[t], Closing(u) PROVE FALSE
    <2>1. pc[u] = "stop" => Stopping(home[t])
      BY <1>3 DEF Stopping
    <2>2. pc[u] = "release" => writer[home[t]]
      BY <1>0, <1>3 DEF Locked, Locking, LockPC, OwnPC
    <2>3. QED
      BY <1>1, <1>3, <2>1, <2>2 DEF Closing
  <1>4. QED
    BY <1>0, <1>1, <1>2, <1>3, CalmKeeps

\* The calls.
LEMMA AllocKeeps ==
  ASSUME IInv, NEW t \in User, Alloc(t)
  PROVE  Types' /\ Carried' /\ Core'
  <1>0. Types
    BY DEF IInv
  <1>1. /\ UNCHANGED <<items, life, blocks, heap, shelf, handle, reclaimed, dropped>>
        /\ ~writer[home[t]] /\ Event /\ home[t] \in Proc
    BY Homes DEF Alloc
  <1>2. CASE \E s \in map[home[t]] : Room(s)
    <2>1. PICK s \in map[home[t]] : Room(s) /\ Bump(s)
      BY <1>2 DEF Alloc
    <2>2. s \in Item
      BY <1>0, <1>1, TypesGive
    <2>3. FamTypes' /\ HistoryTypes'
      BY <1>0, <1>1, <2>1, <2>2, Bumped
    <2>4. Call(t, "idle", NoLocals)
      BY <1>2 DEF Alloc
    <2>5. ProcTypes' /\ Carried' /\ Core'
      BY <1>1, <2>4, Nothing, CallKeeps
    <2>6. QED
      BY <2>3, <2>5 DEF Types
  <1>3. CASE ~\E s \in map[home[t]] : Room(s)
    <2>1. Call(t, "want", NoLocals) /\ UNCHANGED <<next_free, live>>
      BY <1>3 DEF Alloc
    <2>2. ProcTypes' /\ Carried' /\ Core'
      BY <1>1, <2>1, Nothing, CallKeeps
    <2>3. FamTypes' /\ HistoryTypes'
      BY <1>0, <1>1, <2>1, FamKept, HistoryKept DEF Types, FamTypes, pool, history
    <2>4. QED
      BY <2>2, <2>3 DEF Types
  <1>4. QED
    BY <1>2, <1>3

LEMMA CloseHeapKeeps ==
  ASSUME IInv, NEW t \in User, CloseHeap(t)
  PROVE  Types' /\ Carried' /\ Core'
  <1>0. Types
    BY DEF IInv
  <1>1. /\ UNCHANGED <<items, life, blocks, pool, handle, history, events>>
        /\ Call(t, "stop", NoLocals)
        /\ \A u \in User \ {t} : home[u] = home[t] => pc[u] = "idle"
    BY DEF CloseHeap
  <1>2. FamTypes' /\ HistoryTypes'
    BY <1>0, <1>1, FamKept, HistoryKept DEF Types, FamTypes
  <1>3. ProcTypes' /\ Carried' /\ Core'
    BY <1>1, Nothing, CallKeeps
  <1>4. QED
    BY <1>2, <1>3 DEF Types

LEMMA FreeKeeps ==
  ASSUME IInv, NEW t \in User, NEW ptr \in Pointer, Free(t, ptr)
  PROVE  Types' /\ Carried' /\ Core'
  <1>0. Types
    BY DEF IInv
  <1>1. /\ UNCHANGED <<items, life, blocks, pool, handle, dropped, events>>
        /\ ~writer[home[t]] /\ live' = live \ {ptr}
        /\ UNCHANGED reclaimed \/ reclaimed' = [reclaimed EXCEPT ![ptr] = @ + 1]
    BY DEF Free
  <1>2. FamTypes'
    BY <1>0, <1>1, FamKept DEF Types, FamTypes
  <1>3. HistoryTypes'
    BY <1>0, <1>1 DEF Types, HistoryTypes
  <1> DEFINE l == [NoLocals EXCEPT !.ptr = ptr]
  <1>4. l \in Locals /\ l.ptr = ptr
    BY Nothing DEF Locals
  <1> HIDE DEF l
  <1>5. Call(t, "idle", NoLocals) \/ Call(t, "put", l)
    BY DEF Free, l
  <1>6. ProcTypes' /\ Carried' /\ Core'
    BY <1>1, <1>4, <1>5, Nothing, CallKeeps
  <1>7. QED
    BY <1>2, <1>3, <1>6 DEF Types

-----------------------------------------------------------------------------
(* PutPointer *)

\* A step of PutPointer.
LEMMA PutKeeps ==
  ASSUME IInv, NEW t \in User, pc[t] \in PutPC, NEW label \in {"raise", "push", "idle"},
         NEW l \in Locals, Goto(t, label), With(t, l), UNCHANGED <<items, life, handle>>,
         label # "idle" => l.ptr \in Pointer, label = "push" => l.blk \in Block
  PROVE  ProcTypes' /\ Carried' /\ Core'
  <1>0. Types /\ Carried /\ Core /\ Running /\ Working
    BY DEF IInv, Core
  <1>1. /\ pc[t] # "idle" /\ ~Forming(t) /\ ~Opening(t)
        /\ label \in UserPC /\ label \notin LockPC
    BY DEF Forming, Opening, Locking, LockPC, ScanPC, OwnPC, PutPC, UserPC
  <1>2. life[home[t]] = "up" /\ is_open[home[t]]
    BY <1>0, <1>1 DEF Running, Working
  <1>3. \A u \in User : u # t /\ home[u] = home[t] => ~Closing(u)
    BY <1>0, <1>1 DEF Working
  <1>4. QED
    BY <1>0, <1>1, <1>2, <1>3, CalmKeeps DEF PutPC

\* The area of the free lists keeps its types.
LEMMA BlocksTyped ==
  ASSUME FamTypes, UNCHANGED <<items, pool>>,
         freelists' \in [List -> Seq(Block)], first_free' \in Seq(Block),
         never_allocated' \in 0 .. BlockCount, free_ptr' \in [Block -> Pointer \cup {NoPointer}]
  PROVE  FamTypes'
  BY DEF FamTypes, pool

LEMMA PutReuseKeeps ==
  ASSUME IInv, NEW t \in User, PutReuse(t)
  PROVE  Types' /\ Carried' /\ Core'
  <1> DEFINE l == [loc[t] EXCEPT !.blk = Head(first_free)]
  <1>0. Types /\ Carried
    BY DEF IInv
  <1>1. UNCHANGED <<items, life, pool, handle, history, events>> /\ pc[t] = "put"
    BY DEF PutReuse
  <1>2. /\ Head(first_free) \in Block /\ first_free' \in Seq(Block)
        /\ UNCHANGED <<freelists, never_allocated, free_ptr>>
    BY <1>0 DEF Types, FamTypes, PutReuse, PopFirstFree
  <1>3. FamTypes' /\ HistoryTypes'
    BY <1>0, <1>1, <1>2, BlocksTyped, HistoryKept DEF Types, FamTypes
  <1>4. loc[t] \in Locals /\ loc[t].ptr \in Pointer
    BY <1>0, <1>1, TypesGive DEF Carried, PutPC
  <1>5. l \in Locals /\ l.ptr \in Pointer /\ l.blk \in Block
    BY <1>2, <1>4 DEF Locals
  <1>6. Goto(t, "push") /\ With(t, l)
    BY DEF PutReuse
  <1> HIDE DEF l
  <1>7. ProcTypes' /\ Carried' /\ Core'
    BY <1>1, <1>5, <1>6, PutKeeps DEF PutPC
  <1>8. QED
    BY <1>3, <1>7 DEF Types

\* The watermark is an offset that may be read into blk.
LEMMA Watermark ==
  ASSUME Types
  PROVE  /\ never_allocated \in Block \cup {NoBlock}
         /\ \A b \in Block \cup {NoBlock} : b < BlockCount => b + 1 \in Block
  BY FreeListsAssumption DEF Types, FamTypes, Block, NoBlock

LEMMA PutWatermarkKeeps ==
  ASSUME IInv, NEW t \in User, PutWatermark(t)
  PROVE  Types' /\ Carried' /\ Core'
  <1> DEFINE l == [loc[t] EXCEPT !.blk = never_allocated]
  <1>0. Types /\ Carried
    BY DEF IInv
  <1>1. UNCHANGED <<items, life, blocks, pool, handle, history, events>> /\ pc[t] = "put"
    BY DEF PutWatermark
  <1>2. FamTypes' /\ HistoryTypes'
    BY <1>0, <1>1, FamKept, HistoryKept DEF Types, FamTypes
  <1>3. loc[t] \in Locals /\ loc[t].ptr \in Pointer
    BY <1>0, <1>1, TypesGive DEF Carried, PutPC
  <1>4. l \in Locals /\ l.ptr \in Pointer
    BY <1>0, <1>3, Watermark DEF Locals
  <1>5. Goto(t, "raise") /\ With(t, l)
    BY DEF PutWatermark
  <1> HIDE DEF l
  <1>6. ProcTypes' /\ Carried' /\ Core'
    BY <1>1, <1>4, <1>5, PutKeeps DEF PutPC
  <1>7. QED
    BY <1>2, <1>6 DEF Types

LEMMA PutRaiseKeeps ==
  ASSUME IInv, NEW t \in User, PutRaise(t)
  PROVE  Types' /\ Carried' /\ Core'
  <1> DEFINE old == loc[t].blk
             l == [loc[t] EXCEPT !.blk = old + 1]
             k == [loc[t] EXCEPT !.blk = never_allocated]
  <1>0. Types /\ Carried /\ Control
    BY TypesGive DEF IInv
  <1>1. UNCHANGED <<items, life, pool, handle, history, events>> /\ pc[t] = "raise"
    BY DEF PutRaise
  <1>2. loc[t] \in Locals /\ loc[t].ptr \in Pointer /\ old \in Block \cup {NoBlock} /\ old < BlockCount
    BY <1>0, <1>1, TypesGive, Carries DEF Carried, PutPC, PutRaise, RaiseWatermark
  <1>3. old + 1 \in Block /\ never_allocated \in Block \cup {NoBlock}
    BY <1>0, <1>2, Watermark
  <1>4. /\ never_allocated' = never_allocated \/ never_allocated' = old + 1
        /\ UNCHANGED <<freelists, first_free, free_ptr>>
    BY DEF PutRaise, RaiseWatermark, Raise
  <1>5. never_allocated' \in 0 .. BlockCount
    BY <1>0, <1>3, <1>4 DEF Block, Types, FamTypes
  <1>6. FamTypes' /\ HistoryTypes'
    BY <1>0, <1>1, <1>4, <1>5, BlocksTyped, HistoryKept DEF Types, FamTypes
  <1>7. l \in Locals /\ l.ptr \in Pointer /\ l.blk \in Block /\ k \in Locals /\ k.ptr \in Pointer
    BY <1>2, <1>3 DEF Locals
  <1>8. CASE Goto(t, "push") /\ With(t, l)
    <2> HIDE DEF l
    <2>1. ProcTypes' /\ Carried' /\ Core'
      BY <1>1, <1>7, <1>8, PutKeeps DEF PutPC
    <2>2. QED
      BY <1>6, <2>1 DEF Types
  <1>9. CASE UNCHANGED pc /\ With(t, k)
    <2> HIDE DEF k
    <2>1. Goto(t, "raise")
      BY <1>0, <1>1, <1>9, Homes DEF Goto, Control
    <2>2. ProcTypes' /\ Carried' /\ Core'
      BY <1>1, <1>7, <1>9, <2>1, PutKeeps DEF PutPC
    <2>3. QED
      BY <1>6, <2>2 DEF Types
  <1>10. QED
    BY <1>8, <1>9 DEF PutRaise

LEMMA PutDropKeeps ==
  ASSUME IInv, NEW t \in User, PutDrop(t)
  PROVE  Types' /\ Carried' /\ Core'
  <1>0. Types /\ Carried
    BY DEF IInv
  <1>1. /\ UNCHANGED <<items, life, blocks, pool, handle, live, reclaimed, events>> /\ pc[t] = "raise"
        /\ dropped' = dropped \cup {loc[t].ptr} /\ Done(t)
    BY DEF PutDrop
  <1>2. loc[t].ptr \in Pointer
    BY <1>0, <1>1 DEF Carried, PutPC
  <1>3. FamTypes' /\ HistoryTypes'
    BY <1>0, <1>1, <1>2, FamKept DEF Types, FamTypes, HistoryTypes
  <1>4. ProcTypes' /\ Carried' /\ Core'
    BY <1>1, Nothing, PutKeeps DEF PutPC, Done
  <1>5. QED
    BY <1>3, <1>4 DEF Types

LEMMA PutPushKeeps ==
  ASSUME IInv, NEW t \in User, PutPush(t)
  PROVE  Types' /\ Carried' /\ Core'
  <1>0. Types /\ Carried
    BY DEF IInv
  <1>1. /\ UNCHANGED <<items, life, pool, handle, history, events>> /\ pc[t] = "push"
        /\ Push(loc[t].ptr[1], loc[t].blk, loc[t].ptr) /\ Done(t)
    BY DEF PutPush
  <1>2. loc[t].ptr \in Pointer /\ loc[t].blk \in Block
    BY <1>0, <1>1 DEF Carried, PutPC
  <1>3. /\ freelists' \in [List -> Seq(Block)] /\ free_ptr' \in [Block -> Pointer \cup {NoPointer}]
        /\ UNCHANGED <<first_free, never_allocated>>
    <2>1. freelists \in [List -> Seq(Block)] /\ free_ptr \in [Block -> Pointer \cup {NoPointer}]
      BY <1>0 DEF Types, FamTypes
    <2>2. \A q \in Seq(Block) : <<loc[t].blk>> \o q \in Seq(Block)
      BY <1>2
    <2>3. QED
      BY <1>1, <1>2, <2>1, <2>2 DEF Push
  <1>4. FamTypes' /\ HistoryTypes'
    BY <1>0, <1>1, <1>3, BlocksTyped, HistoryKept DEF Types, FamTypes
  <1>5. ProcTypes' /\ Carried' /\ Core'
    BY <1>1, Nothing, PutKeeps DEF PutPC, Done
  <1>6. QED
    BY <1>4, <1>5 DEF Types

-----------------------------------------------------------------------------
(* Create and Destroy *)

\* Create and Destroy begin.
LEMMA FormKeeps ==
  ASSUME IInv, NEW t \in User, NEW label \in {"format", "destroy"}, Alone, life[home[t]] = "up",
         Goto(t, label), UNCHANGED <<items, life, handle, loc>>
  PROVE  ProcTypes' /\ Carried' /\ Core'
  <1>0. Types /\ Carried /\ Core
    BY DEF IInv, Core
  <1>1. Control' /\ Moved(t, label, loc[t]) /\ loc[t] \in Locals
    BY <1>0, GotoMoves, TypesGive, Homes, Labels
  <1>2. ProcTypes' /\ Carried'
    BY <1>0, <1>1, HandleKept, CarriedMoves, Homes DEF Types, PutPC
  <1>3. Core'
    BY <1>0, <1>1, FormStep
  <1>4. QED
    BY <1>2, <1>3

LEMMA CreatePoolKeeps ==
  ASSUME IInv, NEW t \in User, CreatePool(t) \/ Destroy(t)
  PROVE  Types' /\ Carried' /\ Core'
  <1>0. Types
    BY DEF IInv
  <1>1. /\ UNCHANGED <<items, life, blocks, shelf, next_free, handle, loc, history>>
        /\ heap' \in {"raw", "dying"} /\ Event /\ Alone /\ life[home[t]] = "up"
        /\ Goto(t, "format") \/ Goto(t, "destroy")
    BY DEF CreatePool, Destroy
  <1>2. FamTypes' /\ HistoryTypes'
    BY <1>0, <1>1, HistoryKept DEF Types, FamTypes, blocks
  <1>3. ProcTypes' /\ Carried' /\ Core'
    BY <1>1, FormKeeps
  <1>4. QED
    BY <1>2, <1>3 DEF Types

\* ... and end.
LEMMA FormedKeeps ==
  ASSUME IInv, NEW t \in User, Format(t) \/ DestroyPool(t)
  PROVE  Types' /\ Carried' /\ Core'
  <1>0. Types /\ Carried /\ Core
    BY DEF IInv, Core
  <1>1. /\ UNCHANGED <<life, shelf, handle, events>> /\ Forming(t)
        /\ heap' \in {"ready", "absent"} /\ items' = [i \in Item |-> NoID]
        /\ next_free' = next_free \/ next_free' = [s \in Item |-> 0]
        /\ FreeListsClear /\ Done(t)
    BY DEF Format, DestroyPool, Forming
  <1>2. UNCHANGED history \/ (live' = {} /\ dropped' = {} /\ reclaimed' = [ptr \in Pointer |-> 0])
    BY DEF Format, DestroyPool
  <1>3. FamTypes'
    <2>1. items' \in [Item -> ProcessID] /\ next_free' \in [Item -> 0 .. Capacity]
      BY <1>0, <1>1, Identity, DistHeapAssumption DEF Types, FamTypes
    <2>2. /\ freelists' \in [List -> Seq(Block)] /\ first_free' \in Seq(Block)
          /\ never_allocated' \in 0 .. BlockCount /\ free_ptr' \in [Block -> Pointer \cup {NoPointer}]
      BY <1>1, FreeListsAssumption DEF FreeListsClear, NoPointer
    <2>3. QED
      BY <1>0, <1>1, <2>1, <2>2 DEF Types, FamTypes
  <1>4. HistoryTypes'
    BY <1>0, <1>1, <1>2 DEF Types, HistoryTypes, history
  <1>5. Control' /\ Moved(t, "idle", NoLocals)
    BY <1>0, <1>1, DoneMoves
  <1>6. ProcTypes' /\ Carried'
    BY <1>0, <1>1, <1>5, HandleKept, CarriedMoves, Nothing, Homes DEF Types, PutPC
  <1>7. Core'
    BY <1>0, <1>1, <1>5, Nothing, FormedStep
  <1>8. QED
    BY <1>3, <1>4, <1>6, <1>7 DEF Types

\* Destroy removes a shelf, which nobody uses.
LEMMA RemoveShelfKeeps ==
  ASSUME IInv, NEW t \in User, RemoveShelf(t)
  PROVE  Types' /\ Carried' /\ Core'
  <1>0. Types /\ Carried /\ Core
    BY DEF IInv, Core
  <1>1. /\ UNCHANGED <<items, life, blocks, heap, next_free, handle, pc, loc, history, events>>
        /\ shelf' \subseteq shelf
    BY DEF RemoveShelf
  <1>2. FamTypes' /\ HistoryTypes' /\ ProcTypes' /\ Carried'
    BY <1>0, <1>1 DEF Types, FamTypes, HistoryTypes, ProcTypes, Carried, blocks, history, handle
  <1>3. Core'
    BY <1>0, <1>1, StillStep DEF handle
  <1>4. QED
    BY <1>2, <1>3 DEF Types

-----------------------------------------------------------------------------
(* BackgroundWorker, death and birth *)

\* A step of a cleaner, with its types.
LEMMA CleanerKeeps ==
  ASSUME IInv, NEW p \in Proc, NEW label \in CleanerPC, NEW l \in Locals,
         Goto(p, label), With(p, l), UNCHANGED <<life, handle>>, pc[p] # "off",
         Identified /\ label = "revoke" => \A q \in Proc : ID(q) = l.old => life[q] = "dead",
         label \in SettlingPC => l.old \in ProcessID,
         label = "fba" => l.blk \in Block,
         Identified =>
           \/ /\ items' = items
              /\ label \in SettlingPC =>
                   Settling(p) /\ l.s = loc[p].s /\ l.old \in {loc[p].old, NoID}
           \/ TakesOver(p) /\ label = "recover" /\ l = loc[p]
           \/ Settles(p) /\ label \notin SettlingPC
  PROVE  ProcTypes' /\ Carried' /\ Core'
  <1>0. Types /\ Carried /\ Core
    BY DEF IInv, Core
  <1>1. Control' /\ Moved(p, label, l)
    BY <1>0, Move, TypesGive, Homes
  <1>2. ProcTypes'
    BY <1>0, <1>1, HandleKept DEF Types
  <1>3. label \notin PutPC /\ label # "push"
    BY DEF CleanerPC, SettlingPC, PutPC
  <1>4. Carried'
    BY <1>0, <1>1, <1>3, CarriedMoves, Homes
  <1>5. Core'
    BY <1>0, <1>1, CleanerStep
  <1>6. QED
    BY <1>2, <1>4, <1>5

\* On to the next item, or to the free lists.
LEMMA NextItemMoves ==
  ASSUME NEW p \in Proc, NextItem(p)
  PROVE  \E label \in {"check", "lists"}, l \in Locals : Goto(p, label) /\ With(p, l)
  <1>1. CASE loc[p].s + 1 \in Item
    <2> DEFINE l == [NoLocals EXCEPT !.s = loc[p].s + 1]
    <2>1. l \in Locals
      BY <1>1, Nothing DEF Locals
    <2>2. Goto(p, "check") /\ With(p, l)
      BY <1>1 DEF NextItem
    <2> HIDE DEF l
    <2>3. QED
      BY <2>1, <2>2
  <1>2. CASE loc[p].s + 1 \notin Item
    BY <1>2, Nothing DEF NextItem
  <1>3. QED
    BY <1>1, <1>2

\* ... that goes on with the next item.
LEMMA NextItemKeeps ==
  ASSUME IInv, NEW p \in Proc, NextItem(p), UNCHANGED <<life, handle>>, pc[p] # "off",
         Identified => items' = items \/ Settles(p)
  PROVE  ProcTypes' /\ Carried' /\ Core'
  <1>1. PICK label \in {"check", "lists"}, l \in Locals : Goto(p, label) /\ With(p, l)
    BY NextItemMoves
  <1>2. label \in CleanerPC /\ label \notin SettlingPC /\ label # "revoke" /\ label # "fba"
    BY DEF CleanerPC, SettlingPC
  <1>3. QED
    BY <1>1, <1>2, CleanerKeeps

\* The scan for dead owners.
LEMMA RevokeCheckKeeps ==
  ASSUME IInv, NEW p \in Proc, RevokeCheck(p)
  PROVE  Types' /\ Carried' /\ Core'
  <1> DEFINE pid == ReadPid(loc[p].s) l == [loc[p] EXCEPT !.pid = pid]
  <1>0. Types
    BY DEF IInv
  <1>1. UNCHANGED <<items, life, blocks, pool, handle, history, events>> /\ pc[p] # "off"
    BY DEF RevokeCheck
  <1>2. FamTypes' /\ HistoryTypes'
    BY <1>0, <1>1, FamKept, HistoryKept DEF Types, FamTypes
  <1>3. loc[p] \in Locals /\ pid \in Pid
    BY <1>0, TypesGive, Identity DEF ReadPid
  <1>4. l \in Locals
    BY <1>3 DEF Locals
  <1>5. CASE NextItem(p)
    BY <1>1, <1>2, <1>5, NextItemKeeps DEF Types
  <1>6. CASE Goto(p, "owner") /\ With(p, l)
    <2> HIDE DEF l
    <2>1. "owner" \in CleanerPC /\ "owner" \notin SettlingPC
      BY DEF CleanerPC, SettlingPC
    <2>2. ProcTypes' /\ Carried' /\ Core'
      BY <1>1, <1>4, <1>6, <2>1, CleanerKeeps
    <2>3. QED
      BY <1>2, <2>2 DEF Types
  <1>7. QED
    BY <1>5, <1>6 DEF RevokeCheck

LEMMA CleanerStopKeeps ==
  ASSUME IInv, NEW p \in Proc, CleanerStop(p)
  PROVE  Types' /\ Carried' /\ Core'
  <1>0. Types
    BY DEF IInv
  <1>1. /\ UNCHANGED <<items, life, blocks, pool, handle, loc, history, events>>
        /\ pc[p] = "sleep" /\ Goto(p, "off")
    BY DEF CleanerStop
  <1>2. FamTypes' /\ HistoryTypes'
    BY <1>0, <1>1, FamKept, HistoryKept DEF Types, FamTypes
  <1>3. With(p, loc[p]) /\ loc[p] \in Locals
    BY <1>0, <1>1, TypesGive, Homes DEF With
  <1>4. "off" \in CleanerPC /\ "off" \notin SettlingPC
    BY DEF CleanerPC, SettlingPC
  <1>5. ProcTypes' /\ Carried' /\ Core'
    BY <1>1, <1>3, <1>4, CleanerKeeps
  <1>6. QED
    BY <1>2, <1>5 DEF Types

\* The process a cleaner finds dead is dead, though it reads the item in two parts:
\* only processes that run from the start share a start time.
LEMMA Verdict ==
  ASSUME IInv, Identified, NEW s \in Item, NEW pid, NEW old, old = ReadOwner(s, pid),
         IsValid(old), NEW p \in Proc, FALSE \in IsAlive(p, old)
  PROVE  \A q \in Proc : ID(q) = old => life[q] = "dead"
  <1>0. Types /\ Running /\ Named
    BY DEF IInv
  <1> SUFFICES ASSUME NEW q \in Proc, ID(q) = old PROVE life[q] = "dead"
    OBVIOUS
  <1>1. life[q] \in {"new", "up", "dead"} /\ life[q] # "up"
    BY <1>0 DEF Types, ProcTypes, IsAlive, Identified
  <1>2. old.btime = items[s].btime /\ old.btime # 0
    BY DEF ReadOwner, IsValid
  <1>3. items[s] # NoID /\ items[s] \in ProcessID
    BY <1>0, <1>2, TypesGive DEF NoID
  <1>4. PICK r \in Proc : items[s] = ID(r)
    BY <1>3, Identity
  <1>5. life[r] # "new" /\ btimeOf[r] = btimeOf[q]
    <2>1. life[r] # "new"
      BY <1>0, <1>4 DEF Named
    <2>2. ID(r).btime = btimeOf[r] /\ ID(q).btime = btimeOf[q]
      BY Identity
    <2>3. QED
      BY <1>2, <1>4, <2>1, <2>2
  <1>6. CASE r = q
    BY <1>1, <1>5, <1>6
  <1>7. CASE r # q
    <2>1. q \in First
      BY <1>5, <1>7 DEF Identified
    <2>2. QED
      BY <1>0, <1>1, <2>1 DEF Running
  <1>8. QED
    BY <1>6, <1>7

\* CheckAndRevokeItem: the verdict, the take-over, the recovery and its outcome.
LEMMA RevokeDeadKeeps ==
  ASSUME IInv, NEW p \in Proc, RevokeDead(p)
  PROVE  Types' /\ Carried' /\ Core'
  <1> DEFINE old == ReadOwner(loc[p].s, loc[p].pid) l == [loc[p] EXCEPT !.old = old]
  <1>0. Types
    BY DEF IInv
  <1>1. UNCHANGED <<items, life, blocks, pool, handle, history, events>> /\ pc[p] = "owner"
    BY DEF RevokeDead
  <1>2. FamTypes' /\ HistoryTypes'
    BY <1>0, <1>1, FamKept, HistoryKept DEF Types, FamTypes
  <1>3. loc[p] \in Locals /\ loc[p].s \in Item /\ loc[p].pid \in Pid
    BY <1>0, TypesGive, Carries
  <1>4. old \in [pid : Pid, btime : Nat]
    BY <1>0, <1>3, TypesGive, Identity DEF ReadOwner
  <1>5. l \in Locals /\ l.old = old
    BY <1>3, <1>4 DEF Locals
  <1>6. CASE NextItem(p)
    BY <1>1, <1>2, <1>6, NextItemKeeps DEF Types
  <1>7. CASE IsValid(old) /\ FALSE \in IsAlive(p, old) /\ Goto(p, "revoke") /\ With(p, l)
    <2>1. Identified => \A q \in Proc : ID(q) = l.old => life[q] = "dead"
      BY <1>3, <1>5, <1>7, Verdict
    <2> HIDE DEF l
    <2>2. "revoke" \in CleanerPC /\ "revoke" \notin SettlingPC
      BY DEF CleanerPC, SettlingPC
    <2>3. ProcTypes' /\ Carried' /\ Core'
      BY <1>1, <1>5, <1>7, <2>1, <2>2, CleanerKeeps
    <2>4. QED
      BY <1>2, <2>3 DEF Types
  <1>8. QED
    BY <1>6, <1>7 DEF RevokeDead, IsAlive

LEMMA RevokeTakeKeeps ==
  ASSUME IInv, NEW p \in Proc, RevokeTake(p)
  PROVE  Types' /\ Carried' /\ Core'
  <1>0. Types
    BY DEF IInv
  <1>1. UNCHANGED <<life, blocks, pool, handle, history, events>> /\ pc[p] = "revoke"
    BY DEF RevokeTake
  <1>2. PICK id \in SetPid(p) : CompareAndStore(loc[p].s, loc[p].old, id)
    BY DEF RevokeTake, TakeOver
  <1>3. FamTypes' /\ HistoryTypes'
    <2>1. items' \in [Item -> ProcessID]
      BY <1>0, <1>2, TypesGive, OwnIdentity DEF CompareAndStore
    <2>2. QED
      BY <1>0, <1>1, <2>1, FamKept, HistoryKept DEF Types
  <1>4. CASE items' = items /\ NextItem(p)
    BY <1>1, <1>3, <1>4, NextItemKeeps DEF Types
  <1>5. CASE Stored(loc[p].s, loc[p].old) /\ Goto(p, "recover") /\ UNCHANGED loc
    <2>1. With(p, loc[p]) /\ loc[p] \in Locals /\ loc[p].s \in Item
      BY <1>0, <1>5, TypesGive, Homes DEF With
    <2>2. "recover" \in CleanerPC /\ loc[p].old \in ProcessID
      BY <1>0, <1>5, <2>1, TypesGive DEF CleanerPC, SettlingPC, Stored
    <2>3. Identified => TakesOver(p)
      BY <1>1, <1>2, <1>5, OwnIdentity DEF TakesOver, CompareAndStore, Stored
    <2>4. ProcTypes' /\ Carried' /\ Core'
      BY <1>1, <1>5, <2>1, <2>2, <2>3, CleanerKeeps
    <2>5. QED
      BY <1>3, <2>4 DEF Types
  <1>6. QED
    BY <1>2, <1>4, <1>5 DEF RevokeTake, CompareAndStore, Stored

LEMMA RecoverKeeps ==
  ASSUME IInv, NEW p \in Proc, Recover(p)
  PROVE  Types' /\ Carried' /\ Core'
  <1> DEFINE l == [loc[p] EXCEPT !.old = NoID]
  <1>0. Types
    BY DEF IInv
  <1>1. /\ UNCHANGED <<items, life, blocks, pool, handle, history>>
        /\ pc[p] = "recover" /\ Goto(p, "settle")
        /\ events' = events \/ Event
    BY DEF Recover
  <1>2. FamTypes' /\ HistoryTypes'
    BY <1>0, <1>1, FamKept, HistoryKept DEF Types, FamTypes
  <1>3. loc[p] \in Locals /\ (UNCHANGED loc => With(p, loc[p]))
    BY <1>0, TypesGive, Homes DEF With
  <1>4. l \in Locals /\ l.s = loc[p].s /\ l.old = NoID
    BY <1>3, Identity DEF Locals
  <1>5. With(p, l) \/ With(p, loc[p])
    BY <1>3 DEF Recover
  <1> HIDE DEF l
  <1>6. "settle" \in CleanerPC /\ "recover" \in SettlingPC
    BY DEF CleanerPC, SettlingPC
  <1>7. Settling(p) /\ pc[p] # "off" /\ loc[p].old \in ProcessID /\ NoID \in ProcessID
    BY <1>1, <1>6, Identity DEF Settling, IInv, Recovers
  <1>8. CASE With(p, l)
    BY <1>1, <1>2, <1>4, <1>6, <1>7, <1>8, CleanerKeeps DEF Types
  <1>9. CASE With(p, loc[p])
    BY <1>1, <1>2, <1>3, <1>6, <1>7, <1>9, CleanerKeeps DEF Types
  <1>10. QED
    BY <1>5, <1>8, <1>9

LEMMA RevokeSettleKeeps ==
  ASSUME IInv, NEW p \in Proc, RevokeSettle(p)
  PROVE  Types' /\ Carried' /\ Core'
  <1>0. Types /\ Recovers
    BY DEF IInv
  <1>1. /\ UNCHANGED <<life, blocks, pool, handle, history, events>> /\ pc[p] = "settle"
        /\ NextItem(p) /\ items' = [items EXCEPT ![loc[p].s] = loc[p].old]
    BY DEF RevokeSettle, Write
  <1>2. loc[p].old \in ProcessID
    BY <1>0, <1>1 DEF Recovers, Settling, SettlingPC
  <1>3. items' \in [Item -> ProcessID]
    BY <1>0, <1>1, <1>2, TypesGive
  <1>4. FamTypes' /\ HistoryTypes'
    BY <1>0, <1>1, <1>3, FamKept, HistoryKept DEF Types
  <1>5. ProcTypes' /\ Carried' /\ Core'
    BY <1>1, NextItemKeeps DEF Settles
  <1>6. QED
    BY <1>4, <1>5 DEF Types

\* A step of the cleaner on the free lists.
LEMMA ListKeeps ==
  ASSUME IInv, NEW p \in Proc, NEW label \in {"fba", "free", "sleep"}, NEW l \in Locals,
         Goto(p, label), With(p, l), UNCHANGED <<items, life, handle>>, pc[p] # "off",
         label = "fba" => l.blk \in Block
  PROVE  ProcTypes' /\ Carried' /\ Core'
  <1>1. label \in CleanerPC /\ label \notin SettlingPC /\ label # "revoke"
    BY DEF CleanerPC, SettlingPC
  <1>2. QED
    BY <1>1, CleanerKeeps

\* GetPointer and Free.
LEMMA GetPointerKeeps ==
  ASSUME IInv, NEW p \in Proc, GetPointer(p)
  PROVE  Types' /\ Carried' /\ Core'
  <1>0. Types
    BY DEF IInv
  <1>1. UNCHANGED <<items, life, pool, handle, history, events>> /\ pc[p] = "lists"
    BY DEF GetPointer
  <1>2. HistoryTypes'
    BY <1>0, <1>1, HistoryKept DEF Types
  <1>3. CASE Goto(p, "sleep") /\ With(p, NoLocals) /\ UNCHANGED blocks
    <2>1. FamTypes'
      BY <1>0, <1>1, <1>3, FamKept DEF Types, FamTypes
    <2>2. ProcTypes' /\ Carried' /\ Core'
      BY <1>1, <1>3, Nothing, ListKeeps
    <2>3. QED
      BY <1>2, <2>1, <2>2 DEF Types
  <1>4. ASSUME NEW s \in map[p], Pop(s), Goto(p, "fba"),
               With(p, [NoLocals EXCEPT !.s = s, !.blk = Head(freelists[s])])
        PROVE  Types' /\ Carried' /\ Core'
    <2> DEFINE b == Head(freelists[s]) l == [NoLocals EXCEPT !.s = s, !.blk = b]
    <2>1. s \in Item /\ s \in List /\ freelists \in [List -> Seq(Block)]
      BY <1>0, TypesGive, DistHeapAssumption DEF Item, List, Types, FamTypes
    <2>2. /\ b \in Block /\ freelists' \in [List -> Seq(Block)]
          /\ UNCHANGED <<first_free, never_allocated, free_ptr>>
      <3>1. freelists[s] \in Seq(Block) /\ freelists[s] # << >>
        BY <1>4, <2>1 DEF Pop
      <3>2. b \in Block /\ Tail(freelists[s]) \in Seq(Block)
        BY <3>1
      <3>3. QED
        BY <1>4, <2>1, <3>2 DEF Pop
    <2>3. FamTypes'
      BY <1>0, <1>1, <2>2, BlocksTyped DEF Types, FamTypes
    <2> HIDE DEF b
    <2>4. l \in Locals /\ l.blk \in Block
      BY <2>1, <2>2, Nothing DEF Locals
    <2>5. With(p, l)
      BY <1>4 DEF b
    <2> HIDE DEF l
    <2>6. ProcTypes' /\ Carried' /\ Core'
      BY <1>1, <1>4, <2>4, <2>5, ListKeeps
    <2>7. QED
      BY <1>2, <2>3, <2>6 DEF Types
  <1>5. QED
    BY <1>3, <1>4 DEF GetPointer

LEMMA GetFreeKeeps ==
  ASSUME IInv, NEW p \in Proc, GetFree(p)
  PROVE  Types' /\ Carried' /\ Core'
  <1> DEFINE b == loc[p].blk l == [loc[p] EXCEPT !.ptr = free_ptr[b], !.blk = NoBlock]
  <1>0. Types /\ Carried
    BY DEF IInv
  <1>1. UNCHANGED <<items, life, pool, handle, history, events>> /\ pc[p] = "fba"
    BY DEF GetFree
  <1>2. loc[p] \in Locals /\ b \in Block
    BY <1>0, <1>1, TypesGive DEF Carried
  <1>3. /\ first_free' \in Seq(Block) /\ UNCHANGED <<freelists, never_allocated, free_ptr>>
        /\ free_ptr[b] \in Pointer \cup {NoPointer}
    BY <1>0, <1>2 DEF GetFree, FreeBlock, Types, FamTypes
  <1>4. FamTypes' /\ HistoryTypes'
    BY <1>0, <1>1, <1>3, BlocksTyped, HistoryKept DEF Types, FamTypes
  <1>5. l \in Locals
    BY <1>2, <1>3 DEF Locals
  <1>6. Goto(p, "free") /\ With(p, l)
    BY DEF GetFree
  <1> HIDE DEF l
  <1>7. ProcTypes' /\ Carried' /\ Core'
    BY <1>1, <1>5, <1>6, ListKeeps
  <1>8. QED
    BY <1>4, <1>7 DEF Types

LEMMA CleanerFreeKeeps ==
  ASSUME IInv, NEW p \in Proc, CleanerFree(p)
  PROVE  Types' /\ Carried' /\ Core'
  <1>0. Types
    BY DEF IInv
  <1>1. /\ UNCHANGED <<items, life, blocks, pool, handle, live, dropped, events>> /\ pc[p] = "free"
        /\ reclaimed' = [reclaimed EXCEPT ![loc[p].ptr] = @ + 1]
        /\ Goto(p, "sleep") /\ With(p, NoLocals)
    BY DEF CleanerFree
  <1>2. FamTypes'
    BY <1>0, <1>1, FamKept DEF Types, FamTypes
  <1>3. HistoryTypes'
    <2>1. reclaimed \in [Pointer -> Nat]
      BY <1>0 DEF Types, HistoryTypes
    <2>2. CASE loc[p].ptr \in Pointer
      BY <1>0, <1>1, <2>1, <2>2 DEF Types, HistoryTypes
    <2>3. CASE loc[p].ptr \notin Pointer
      <3>1. reclaimed' \in [Pointer -> Nat]
        BY <1>1, <2>1, <2>3
      <3>2. QED
        BY <1>0, <1>1, <3>1 DEF Types, HistoryTypes
    <2>4. QED
      BY <2>2, <2>3
  <1>4. ProcTypes' /\ Carried' /\ Core'
    BY <1>1, Nothing, ListKeeps
  <1>5. QED
    BY <1>2, <1>3, <1>4 DEF Types

\* Deaths and births.
LEMMA VanishKeeps ==
  ASSUME IInv, NEW p \in Proc, Vanish(p), life[p] = "up", UNCHANGED <<items, blocks, pool, history>>,
         events' = events \/ Event
  PROVE  Types' /\ Carried' /\ Core'
  <1>0. Types /\ Carried /\ Core
    BY DEF IInv, Core
  <1>1. FamTypes' /\ HistoryTypes'
    BY <1>0, FamKept, HistoryKept DEF Types, FamTypes
  <1>2. /\ Control'
        /\ \A t \in User : IF home[t] = p THEN pc'[t] = "idle" /\ loc'[t] = NoLocals
                           ELSE pc'[t] = pc[t] /\ loc'[t] = loc[t]
        /\ \A q \in Proc : IF q = p THEN pc'[q] = "off" /\ loc'[q] = NoLocals
                           ELSE pc'[q] = pc[q] /\ loc'[q] = loc[q]
    BY <1>0, VanishMoves
  <1>3. ProcTypes'
    <2>1. /\ life' \in [Proc -> {"new", "up", "dead"}] /\ is_open' \in [Proc -> BOOLEAN]
          /\ map' \in [Proc -> SUBSET Item] /\ writer' \in [Proc -> BOOLEAN]
      BY <1>0 DEF Types, ProcTypes, Vanish, Unlock
    <2>2. QED
      BY <1>2, <2>1 DEF ProcTypes, Control
  <1>4. Carried'
    BY <1>0, <1>2 DEF Carried, PutPC
  <1>5. Core'
    BY <1>0, VanishStep
  <1>6. QED
    BY <1>1, <1>3, <1>4, <1>5 DEF Types

LEMMA StartKeeps ==
  ASSUME IInv, NEW p \in Proc, Start(p)
  PROVE  Types' /\ Carried' /\ Core'
  <1>0. Types /\ Carried /\ Core
    BY DEF IInv, Core
  <1>1. UNCHANGED <<items, blocks, pool, handle, pc, loc, history, events>> /\ Birth(p)
    BY DEF Start
  <1>2. FamTypes' /\ HistoryTypes' /\ Carried'
    BY <1>0, <1>1, FamKept, HistoryKept DEF Types, FamTypes, Carried
  <1>3. ProcTypes'
    BY <1>0, <1>1 DEF Types, ProcTypes, Birth, handle
  <1>4. Core'
    BY <1>0, <1>1, BirthStep DEF handle
  <1>5. QED
    BY <1>2, <1>3, <1>4 DEF Types

-----------------------------------------------------------------------------
(* The invariant, and the theorems *)

\* The invariant holds at first, is kept by every step, and implies the properties.
LEMMA Beginning == Init => IInv
  <1> SUFFICES ASSUME Init PROVE IInv
    OBVIOUS
  <1>1. FamTypes
    BY Identity, FreeListsAssumption, DistHeapAssumption
    DEF FamTypes, Init, OwnershipInit, FreeListsInit, NoPointer
  <1>2. ProcTypes
    <2>1. pc \in [Actor -> UserPC \cup CleanerPC] /\ loc \in [Actor -> Locals]
      BY Nothing, Homes DEF Init, UserPC, CleanerPC
    <2>2. (\A t \in User : pc[t] \in UserPC) /\ \A p \in Proc : pc[p] \in CleanerPC
      BY Homes DEF Init, UserPC, CleanerPC
    <2>3. QED
      BY <2>1, <2>2 DEF ProcTypes, Init, OwnershipInit
  <1>3. HistoryTypes
    BY DistHeapAssumption DEF HistoryTypes, Init
  <1>4. Carried
    BY Homes DEF Carried, Init, PutPC
  <1>5. QED
    BY <1>1, <1>2, <1>3, <1>4, CoreAtStart DEF IInv, Core, Types

LEMMA Inductive == IInv /\ [Next]_vars => IInv'
  <1> SUFFICES ASSUME IInv, [Next]_vars PROVE Types' /\ Carried' /\ Core'
    BY DEF IInv, Core
  <1>1. CASE UNCHANGED vars
    <2>1. UNCHANGED <<items, life, blocks, pool, handle, pc, loc, history, events>>
      BY <1>1 DEF vars
    <2>2. Types' /\ Carried'
      BY <2>1 DEF IInv, Types, FamTypes, ProcTypes, HistoryTypes, Carried, blocks, pool, handle, history
    <2>3. Core'
      BY <2>1, StillStep DEF IInv, Core, handle
    <2>4. QED
      BY <2>2, <2>3
  <1>2. ASSUME NEW t \in User, LifeCycle(t) PROVE Types' /\ Carried' /\ Core'
    BY <1>2, CreatePoolKeeps, FormedKeeps, RemoveShelfKeeps, OpenHeapKeeps, CloseHeapKeeps,
       CloseMappedKeeps DEF LifeCycle
  <1>3. ASSUME NEW t \in User, AcquireShelfHeap(t) PROVE Types' /\ Carried' /\ Core'
    BY <1>3, CheckKeeps, AcquireKeeps, AddShelfKeeps, AddFailedKeeps DEF AcquireShelfHeap
  <1>4. ASSUME NEW t \in User, AllocStep(t) PROVE Types' /\ Carried' /\ Core'
    <2>1. CASE Abort(t)
      <3>1. pc[t] = "release" => life[home[t]] = "up"
        BY DEF IInv, Running
      <3>2. QED
        BY <2>1, <3>1, Homes, VanishKeeps DEF Abort
    <2>2. QED
      BY <1>4, <2>1, AllocKeeps, AllocWantKeeps, OpenShelfHeapKeeps, OpenShelfFailsKeeps,
         GiveUpKeeps DEF AllocStep, ReleaseShelfHeap
  <1>5. ASSUME NEW t \in User, PutPointer(t) PROVE Types' /\ Carried' /\ Core'
    BY <1>5, PutReuseKeeps, PutWatermarkKeeps, PutRaiseKeeps, PutDropKeeps, PutPushKeeps
    DEF PutPointer
  <1>6. ASSUME NEW t \in User, NEW ptr \in Pointer, Free(t, ptr) PROVE Types' /\ Carried' /\ Core'
    BY <1>6, FreeKeeps
  <1>7. ASSUME NEW p \in Proc, Die(p) PROVE Types' /\ Carried' /\ Core'
    BY <1>7, VanishKeeps DEF Die
  <1>8. ASSUME NEW p \in Proc, BackgroundWorker(p) PROVE Types' /\ Carried' /\ Core'
    <2>1. CASE RecoverAborts(p)
      <3>1. pc[p] # "off" => life[p] = "up"
        BY DEF IInv, Running
      <3>2. QED
        BY <2>1, <3>1, VanishKeeps DEF RecoverAborts
    <2>2. CASE GetPointer(p) \/ GetFree(p) \/ CleanerFree(p)
      BY <2>2, GetPointerKeeps, GetFreeKeeps, CleanerFreeKeeps
    <2>3. CASE RevokeCheck(p) \/ CleanerStop(p) \/ RevokeDead(p)
      BY <2>3, RevokeCheckKeeps, CleanerStopKeeps, RevokeDeadKeeps
    <2>4. CASE RevokeTake(p) \/ Recover(p) \/ RevokeSettle(p)
      BY <2>4, RevokeTakeKeeps, RecoverKeeps, RevokeSettleKeeps
    <2>5. QED
      BY <1>8, <2>1, <2>2, <2>3, <2>4 DEF BackgroundWorker
  <1>9. QED
    BY <1>1, <1>2, <1>3, <1>4, <1>5, <1>6, <1>7, <1>8, StartKeeps DEF Next

LEMMA Invariance == Spec => []IInv
  BY Beginning, Inductive, PTL DEF Spec

LEMMA TypesFollow == IInv => TypeOK
  <1> SUFFICES ASSUME IInv PROVE TypeOK
    OBVIOUS
  <1>1. \A p \in Proc : Cardinality(map[p]) <= kMaxOwnedHeap
    BY OneShelf DEF IInv, Mapped
  <1>2. QED
    BY <1>1 DEF IInv, Types, TypeOK

\* Every variable of a distributed heap keeps its type, and no process maps more
\* shelves than kMaxOwnedHeap (DistHeap::Alloc, Open and Close).
THEOREM TypeCorrect == Spec => []TypeOK
  BY Invariance, TypesFollow, PTL

\* On one node whose /proc tells the start time of every process: however processes
\* die, start again under old pids, race for the items or read them in two halves, a
\* shelf is used in one place at a time, by the process its item names
\* (Ownership::AcquireItem, CheckAndRevokeItem, DistHeap's callers).
THEOREM OneHolderTheorem ==
  ASSUME Identified
  PROVE  Spec => []OneHolder
  <1>1. IInv => OneHolder
    BY CoreOneHolder DEF IInv, Core
  <1>2. QED
    BY <1>1, Invariance, PTL

-----------------------------------------------------------------------------
(* The free lists lose no pointer and free none twice                       *)

Busy == PutPC \cup {"fba", "free"}   \* a pointer is on its way to or from a block

\* Where else a pointer can be, and those that are nowhere.
Given == {ptr \in Pointer : reclaimed[ptr] # 0}
Lost == Allocated \ (live \cup Moving \cup Boxed \cup Given \cup dropped)

Once(seq) == \A i, j \in DOMAIN seq : seq[i] = seq[j] => i = j

\* Nobody has a pointer or a block but on the way to a list or back.
Hands ==
  /\ \A x \in Actor : Carry(x) # NoPointer => pc[x] \in Busy \ {"fba"} /\ Carry(x) \in Pointer
  /\ \A x \in Actor : Held(x) # NoBlock => Held(x) \in Block
  /\ \A t \in User : pc[t] = "raise" => loc[t].blk <= never_allocated

\* A block has been handed out, and is in one place.
BlocksOnce ==
  /\ \A s \in Item : /\ Once(freelists[s])
                     /\ \A b \in OnList(s) : b <= never_allocated /\ b \notin Range(first_free)
  /\ \A s, u \in Item : s # u => OnList(s) \cap OnList(u) = {}
  /\ Once(first_free)
  /\ \A b \in Range(first_free) : b <= never_allocated
  /\ \A x \in Actor : Held(x) # NoBlock =>
       /\ Held(x) <= never_allocated
       /\ Held(x) \notin Range(first_free)
       /\ \A s \in Item : Held(x) \notin OnList(s)
       /\ \A y \in Actor : Held(y) = Held(x) => y = x

\* A pointer has been allocated, and is in one place: on its own shelf's list,
\* when it is on a list.
PointersOnce ==
  /\ \A s \in Item : \A b \in OnList(s) : free_ptr[b] \in Pointer /\ free_ptr[b][1] = s
  /\ Boxed \subseteq Pointer
  /\ \A b, c \in Full : free_ptr[b] = free_ptr[c] => b = c
  /\ \A x, y \in Actor : Carry(x) = Carry(y) /\ Carry(x) # NoPointer => x = y
  /\ \A ptr \in Pointer : reclaimed[ptr] \in {0, 1}
  /\ live \cup Moving \cup Boxed \cup Given \cup dropped \subseteq Allocated
  /\ live \cap (Moving \cup Boxed \cup Given \cup dropped) = {}
  /\ Moving \cap (Boxed \cup Given \cup dropped) = {}
  /\ Boxed \cap (Given \cup dropped) = {}
  /\ Given \cap dropped = {}

\* A shelf that is not in the pool has allocated nothing; the heap is open only
\* when it is formatted; a process uses shelves of the pool; who opens the heap
\* has no cleaner yet.
Standing ==
  /\ \A s \in Item : heap \in {"absent", "raw"} \/ (heap = "ready" /\ s \notin shelf)
                       => next_free[s] = 0
  /\ \A p \in Proc : map[p] \subseteq shelf /\ (is_open[p] => heap = "ready")
  /\ \A t \in User : /\ pc[t] = "format" => heap = "raw"
                     /\ pc[t] = "destroy" => heap = "dying"
                     /\ pc[t] \notin {"idle", "format", "destroy"} => heap = "ready"
                     /\ pc[t] \in {"take", "open"} => loc[t].s \in shelf
                     /\ Opening(t) => pc[home[t]] = "off"

Balance ==
  /\ Cardinality(Lost) <= Cardinality(Carriers)
  /\ dropped # {} => never_allocated = BlockCount

FInv == Hands /\ BlocksOnce /\ PointersOnce /\ Standing /\ Balance

\* A step that allocates nothing; what is on its way back to its shelf stays so.
Stays == Pending' = Pending /\ Allocated' = Allocated

\* A step that allocates an object.
NewObject ==
  /\ Pending' = Pending
  /\ \E ptr \in Pointer : /\ ptr \notin Allocated /\ Allocated' = Allocated \cup {ptr}
                         /\ live' = live \cup {ptr}
Allocates == NewObject \/ (Stays /\ UNCHANGED live)

-----------------------------------------------------------------------------
(* Stacks and small sets *)

\* A block is pushed on a stack that does not have it ...
LEMMA Pushed ==
  ASSUME NEW S, NEW seq \in Seq(S), NEW b \in S
  PROVE  /\ <<b>> \o seq \in Seq(S)
         /\ Range(<<b>> \o seq) = {b} \cup Range(seq)
         /\ Once(seq) /\ b \notin Range(seq) => Once(<<b>> \o seq)
  <1> DEFINE new == <<b>> \o seq
  <1>1. /\ new \in Seq(S) /\ Len(new) = Len(seq) + 1 /\ Len(seq) \in Nat
        /\ DOMAIN new = 1 .. Len(new) /\ DOMAIN seq = 1 .. Len(seq)
        /\ \A i \in 1 .. Len(new) : new[i] = IF i = 1 THEN b ELSE seq[i - 1]
    OBVIOUS
  <1> HIDE DEF new
  <1>2. Range(new) \subseteq {b} \cup Range(seq)
    <2>1. \A i \in 1 .. Len(new) : i # 1 => i - 1 \in 1 .. Len(seq)
      BY <1>1
    <2>2. QED
      BY <1>1, <2>1 DEF Range
  <1>3. {b} \cup Range(seq) \subseteq Range(new)
    <2>1. 1 \in 1 .. Len(new) /\ new[1] = b
      BY <1>1
    <2>2. \A i \in 1 .. Len(seq) : i + 1 \in 1 .. Len(new) /\ new[i + 1] = seq[i]
      BY <1>1
    <2>3. QED
      BY <1>1, <2>1, <2>2 DEF Range
  <1>4. ASSUME Once(seq), b \notin Range(seq) PROVE Once(new)
    <2>1. \A i \in 1 .. Len(new) : i # 1 => i - 1 \in 1 .. Len(seq) /\ new[i] = seq[i - 1]
      BY <1>1
    <2>2. \A i \in 1 .. Len(seq) : seq[i] # b
      BY <1>1, <1>4 DEF Range
    <2>3. SUFFICES ASSUME NEW i \in 1 .. Len(new), NEW j \in 1 .. Len(new), new[i] = new[j] PROVE i = j
      BY <1>1 DEF Once
    <2>4. CASE i = 1 \/ j = 1
      BY <1>1, <2>1, <2>2, <2>3, <2>4
    <2>5. CASE i # 1 /\ j # 1
      <3>1. i - 1 = j - 1
        BY <1>1, <1>4, <2>1, <2>3, <2>5 DEF Once
      <3>2. QED
        BY <3>1
    <2>6. QED
      BY <2>4, <2>5
  <1>5. QED
    BY <1>1, <1>2, <1>3, <1>4 DEF new

\* ... and popped from one that has it once.
LEMMA Popped ==
  ASSUME NEW S, NEW seq \in Seq(S), seq # << >>
  PROVE  /\ Head(seq) \in S /\ Tail(seq) \in Seq(S)
         /\ Range(seq) = {Head(seq)} \cup Range(Tail(seq))
         /\ Once(seq) => Once(Tail(seq)) /\ Head(seq) \notin Range(Tail(seq))
  <1> DEFINE tail == Tail(seq)
  <1>1. /\ Len(seq) \in Nat \ {0} /\ DOMAIN seq = 1 .. Len(seq) /\ Head(seq) = seq[1] /\ Head(seq) \in S
        /\ tail \in Seq(S) /\ Len(tail) = Len(seq) - 1 /\ DOMAIN tail = 1 .. Len(tail)
        /\ \A i \in 1 .. Len(tail) : tail[i] = seq[i + 1]
    OBVIOUS
  <1> HIDE DEF tail
  <1>2. \A i \in 1 .. Len(tail) : i + 1 \in 1 .. Len(seq) /\ i + 1 # 1
    BY <1>1
  <1>3. \A i \in 1 .. Len(seq) : i # 1 => i - 1 \in 1 .. Len(tail) /\ tail[i - 1] = seq[i]
    BY <1>1
  <1>4. 1 \in 1 .. Len(seq)
    BY <1>1
  <1>5. Range(seq) \subseteq {Head(seq)} \cup Range(tail)
    <2>1. ASSUME NEW i \in 1 .. Len(seq), i # 1 PROVE seq[i] \in Range(tail)
      <3>1. i - 1 \in DOMAIN tail /\ tail[i - 1] = seq[i]
        BY <1>1, <1>3, <2>1
      <3>2. QED
        BY <3>1 DEF Range
    <2>2. QED
      BY <1>1, <2>1 DEF Range
  <1>6. {Head(seq)} \cup Range(tail) \subseteq Range(seq)
    BY <1>1, <1>2, <1>4 DEF Range
  <1>7. ASSUME Once(seq) PROVE Once(tail) /\ Head(seq) \notin Range(tail)
    <2>1. \A i \in 1 .. Len(tail) : tail[i] # seq[1]
      BY <1>1, <1>2, <1>4, <1>7 DEF Once
    <2>2. ASSUME NEW i \in 1 .. Len(tail), NEW j \in 1 .. Len(tail), tail[i] = tail[j] PROVE i = j
      <3>1. i + 1 \in DOMAIN seq /\ j + 1 \in DOMAIN seq /\ seq[i + 1] = seq[j + 1]
        BY <1>1, <1>2, <2>2
      <3>2. i + 1 = j + 1
        BY <1>7, <3>1 DEF Once
      <3>3. QED
        BY <1>1, <3>2
    <2>3. \A i, j \in 1 .. Len(tail) : tail[i] = tail[j] => i = j
      BY <2>2
    <2>4. QED
      BY <1>1, <2>1, <2>3 DEF Once, Range
  <1>8. QED
    BY <1>1, <1>5, <1>6, <1>7 DEF tail

\* A set with no two elements.
LEMMA AtMostOne ==
  ASSUME NEW S, \A a, b \in S : a = b
  PROVE  /\ IsFiniteSet(S) /\ Cardinality(S) \in {0, 1}
         /\ Cardinality(S) = 0 <=> S = {}
  <1>1. CASE S = {}
    BY <1>1, FS_EmptySet
  <1>2. CASE S # {}
    <2>1. PICK s \in S : S = {s}
      BY <1>2
    <2>2. Cardinality({s}) = 1 /\ IsFiniteSet({s})
      BY FS_Singleton
    <2>3. QED
      BY <1>2, <2>1, <2>2
  <1>3. QED
    BY <1>1, <1>2

\* There are finitely many actors and pointers, and so of whatever is some of them.
LEMMA Finite ==
  /\ IsFiniteSet(Actor) /\ IsFiniteSet(Pointer)
  /\ IsFiniteSet(Carriers) /\ IsFiniteSet(Lost)
  <1>1. IsFiniteSet(Actor)
    BY DistHeapAssumption, FS_Union DEF Actor
  <1>2. IsFiniteSet(Pointer)
    <2>1. 0 \in Int /\ ItemCount - 1 \in Int /\ Capacity - 1 \in Int
      BY OwnershipAssumption, DistHeapAssumption
    <2>2. IsFiniteSet(Item) /\ IsFiniteSet(0 .. Capacity - 1)
      BY <2>1, FS_Interval DEF Item
    <2>3. QED
      BY <2>2, FS_Product DEF Pointer
  <1>3. Carriers \subseteq Actor /\ Lost \subseteq Pointer
    BY DEF Carriers, Lost, Allocated
  <1>4. QED
    BY <1>1, <1>2, <1>3, FS_Subset

-----------------------------------------------------------------------------
(* The invariant at the beginning, and what it implies *)

LEMMA Shelves ==
  ASSUME Types
  PROVE  /\ Item = List /\ Item \subseteq Int
         /\ freelists \in [Item -> Seq(Block)] /\ first_free \in Seq(Block)
         /\ never_allocated \in Nat /\ never_allocated <= BlockCount
         /\ \A s \in Item : OnList(s) \subseteq Block
         /\ Range(first_free) \subseteq Block
         /\ NoBlock \notin Block /\ Block \subseteq Nat
  <1>1. Item = List
    BY DistHeapAssumption DEF Item, List
  <1>2. /\ freelists \in [Item -> Seq(Block)] /\ first_free \in Seq(Block)
        /\ never_allocated \in 0 .. BlockCount
    BY <1>1 DEF Types, FamTypes
  <1>3. \A seq \in Seq(Block) : Range(seq) \subseteq Block
    BY DEF Range
  <1>4. QED
    BY <1>1, <1>2, <1>3, FreeListsAssumption DEF OnList, Block, NoBlock, Item

\* Nothing has been allocated, and nobody has anything in hand.
Blank ==
  /\ \A x \in Actor : Held(x) = NoBlock /\ Carry(x) = NoPointer
  /\ \A s \in Item : freelists[s] = << >> /\ next_free[s] = 0
  /\ first_free = << >> /\ live = {} /\ dropped = {}
  /\ reclaimed = [ptr \in Pointer |-> 0]

LEMMA BlankOnce == Blank => BlocksOnce /\ PointersOnce /\ Balance /\ Pending = {} /\ Allocated = {}
  <1> SUFFICES ASSUME Blank PROVE BlocksOnce /\ PointersOnce /\ Balance /\ Pending = {} /\ Allocated = {}
    OBVIOUS
  <1>1. Once(<< >>) /\ Range(<< >>) = {}
    BY DEF Once, Range
  <1>2. /\ \A s \in Item : Once(freelists[s]) /\ OnList(s) = {}
        /\ Once(first_free) /\ Range(first_free) = {}
    BY <1>1 DEF Blank, OnList
  <1>3. Full = {} /\ Boxed = {} /\ Moving = {} /\ Given = {} /\ Allocated = {}
    <2>1. {Carry(x) : x \in Actor} \subseteq {NoPointer}
      BY DEF Blank
    <2>2. Full = {}
      BY <1>2, Homes DEF Full, Blank, Block, NoBlock
    <2>3. Boxed = {} /\ Moving = {}
      BY <2>1, <2>2 DEF Boxed, Moving
    <2>4. Given = {}
      BY DEF Given, Blank
    <2>5. Allocated = {}
      <3>1. \A ptr \in Pointer : ptr[1] \in Item /\ ptr[2] \in Nat
        BY DistHeapAssumption DEF Pointer
      <3>2. QED
        BY <3>1 DEF Allocated, Blank
    <2>6. QED
      BY <2>2, <2>3, <2>4, <2>5
  <1>4. BlocksOnce
    BY <1>2 DEF BlocksOnce, Blank
  <1>5. PointersOnce
    BY <1>2, <1>3 DEF PointersOnce, Blank
  <1>6. Balance
    <2>1. Lost = {}
      BY <1>3 DEF Lost
    <2>2. Cardinality(Lost) = 0 /\ Cardinality(Carriers) \in Nat
      BY <2>1, Finite, FS_EmptySet, FS_CardinalityType
    <2>3. QED
      BY <2>2 DEF Balance, Blank
  <1>7. QED
    BY <1>3, <1>4, <1>5, <1>6 DEF Pending

LEMMA FBeginning == Init => FInv
  <1> SUFFICES ASSUME Init PROVE FInv
    OBVIOUS
  <1>0. IInv
    BY Beginning
  <1>1. /\ \A t \in User : pc[t] = "idle" /\ loc[t] = NoLocals
        /\ \A p \in Proc : pc[p] = "off" /\ loc[p] = NoLocals /\ map[p] = {} /\ ~is_open[p]
    BY Homes DEF Init
  <1>2. \A x \in Actor : Held(x) = NoBlock /\ Carry(x) = NoPointer
    BY <1>1, Homes DEF Held, Carry, NoLocals
  <1>3. Blank
    <2>1. \A s \in Item : freelists[s] = << >> /\ next_free[s] = 0
      BY DistHeapAssumption DEF Init, FreeListsInit, Item, List
    <2>2. QED
      BY <1>2, <2>1 DEF Blank, Init, FreeListsInit
  <1>4. Hands
    BY <1>1, <1>2 DEF Hands
  <1>5. Standing
    BY <1>1 DEF Standing, Init, Opening, Locking, LockPC, ScanPC, OwnPC
  <1>6. QED
    BY <1>3, <1>4, <1>5, BlankOnce DEF FInv

-----------------------------------------------------------------------------
(* The invariant implies the property *)

\* A list has each of its blocks once, and so no more of them than there are.
LEMMA ShortLists ==
  ASSUME NEW seq \in Seq(Block), Once(seq)
  PROVE  DOMAIN seq \subseteq Block
  <1>1. Len(seq) \in Nat /\ DOMAIN seq = 1 .. Len(seq) /\ seq \in [1 .. Len(seq) -> Block]
    OBVIOUS
  <1>2. IsFiniteSet(Block) /\ Cardinality(Block) = BlockCount
    <2>1. 1 \in Int /\ BlockCount \in Int /\ (IF 1 > BlockCount THEN 0 ELSE BlockCount - 1 + 1) = BlockCount
      BY FreeListsAssumption
    <2>2. QED
      BY <2>1, FS_Interval DEF Block
  <1>3. IsFiniteSet(1 .. Len(seq)) /\ Cardinality(1 .. Len(seq)) = Len(seq)
    <2>1. 1 \in Int /\ Len(seq) \in Int /\ (IF 1 > Len(seq) THEN 0 ELSE Len(seq) - 1 + 1) = Len(seq)
      BY <1>1
    <2>2. QED
      BY <2>1, FS_Interval
  <1>4. seq \in Injection(1 .. Len(seq), Block)
    BY <1>1 DEF Once, Injection, IsInjective
  <1>5. Len(seq) <= BlockCount
    BY <1>2, <1>3, <1>4, FS_Injection
  <1>6. QED
    BY <1>1, <1>5, FreeListsAssumption DEF Block

\* What is in hand, by the label of who has it.
LEMMA InHands ==
  ASSUME Types, Carried
  PROVE  /\ \A t \in User : Held(t) = IF pc[t] = "push" THEN loc[t].blk ELSE NoBlock
         /\ \A p \in Proc : Held(p) = IF pc[p] = "fba" THEN loc[p].blk ELSE NoBlock
         /\ \A x \in Actor : Held(x) \in Block \cup {NoBlock}
  <1>1. /\ \A t \in User : pc[t] \in UserPC /\ pc[t] # "fba"
        /\ \A p \in Proc : pc[p] \in CleanerPC /\ pc[p] # "push"
    BY DEF Types, ProcTypes, UserPC, CleanerPC, ScanPC, OwnPC, PutPC, SettlingPC
  <1>2. QED
    BY <1>1, Homes DEF Held, Carried

\* A block is in one place at most, and nowhere when it was never handed out.
LEMMA BlockPlaces ==
  ASSUME Types, Carried, FInv, NEW b \in Block
  PROVE  Cardinality(InHand(b)) + Cardinality(Listed(b)) + Cardinality(Freed(b))
           <= (IF b <= never_allocated THEN 1 ELSE 0)
  <1> USE DEF FInv
  <1>0. b # NoBlock /\ b \in Nat /\ never_allocated \in Nat
    BY Shelves
  <1>1. InHand(b) = {x \in Actor : Held(x) = b}
    BY <1>0, InHands, Homes DEF InHand
  <1>2. \A x, y \in InHand(b) : x = y
    BY <1>0, <1>1 DEF BlocksOnce
  <1>3. \A x \in Listed(b) : x[1] \in Item /\ b \in OnList(x[1])
    BY DEF Listed, OnList, Range
  <1>4. \A x, y \in Listed(b) : x = y
    <2>1. SUFFICES ASSUME NEW x \in Listed(b), NEW y \in Listed(b) PROVE x = y
      OBVIOUS
    <2>2. x = <<x[1], x[2]>> /\ y = <<y[1], y[2]>>
      BY DEF Listed
    <2>3. x[1] = y[1]
      BY <1>3 DEF BlocksOnce
    <2>4. x[2] = y[2]
      BY <1>3, <2>3 DEF Listed, BlocksOnce, Once
    <2>5. QED
      BY <2>2, <2>3, <2>4
  <1>5. \A i, j \in Freed(b) : i = j
    BY DEF Freed, BlocksOnce, Once
  <1>6. \A i \in Freed(b) : b \in Range(first_free)
    BY DEF Freed, Range
  <1>7. /\ InHand(b) # {} => b <= never_allocated /\ Listed(b) = {} /\ Freed(b) = {}
        /\ Listed(b) # {} => b <= never_allocated /\ Freed(b) = {}
        /\ Freed(b) # {} => b <= never_allocated
    BY <1>0, <1>1, <1>3, <1>6 DEF BlocksOnce
  <1>8. /\ Cardinality(InHand(b)) \in {0, 1} /\ (Cardinality(InHand(b)) = 0 <=> InHand(b) = {})
        /\ Cardinality(Listed(b)) \in {0, 1} /\ (Cardinality(Listed(b)) = 0 <=> Listed(b) = {})
        /\ Cardinality(Freed(b)) \in {0, 1} /\ (Cardinality(Freed(b)) = 0 <=> Freed(b) = {})
    BY <1>2, <1>4, <1>5, AtMostOne
  <1>9. QED
    BY <1>7, <1>8

\* So is a pointer, and nowhere when it was not allocated.
LEMMA PointerPlaces ==
  ASSUME Types, Carried, FInv, NEW ptr \in Pointer
  PROVE  /\ Copies(ptr) <= (IF ptr \in Allocated THEN 1 ELSE 0)
         /\ Copies(ptr) = 0 => ptr \notin live \cup Moving \cup Boxed \cup Given \cup dropped
  <1> USE DEF FInv
  <1> DEFINE A == {x \in Actor : loc[x].ptr = ptr}
             B == {b \in Block : free_ptr[b] = ptr /\
                     (\E i \in Block : <<ptr[1], i>> \in Listed(b)
                       \/ \E p \in Proc : pc[p] = "fba" /\ loc[p].blk = b)}
             n == IF ptr \in live THEN 1 ELSE 0
             d == IF ptr \in dropped THEN 1 ELSE 0
  <1>1. ptr # NoPointer /\ ptr[1] \in Item
    <2>1. ptr = <<ptr[1], ptr[2]>> /\ ptr[1] \in Item
      BY DEF Pointer
    <2>2. \A i, j : <<i, j>> # << >>
      OBVIOUS
    <2>3. QED
      BY <2>1, <2>2 DEF NoPointer
  <1>2. (\A x, y \in A : x = y) /\ (A # {} <=> ptr \in Moving)
    BY <1>1 DEF PointersOnce, Carry, Moving
  <1>3. ASSUME NEW b \in B PROVE b \in Full
    <2>1. CASE \E i \in Block : <<ptr[1], i>> \in Listed(b)
      <3>1. b \in Range(freelists[ptr[1]])
        BY <2>1 DEF Listed, Range
      <3>2. QED
        BY <1>1, <3>1 DEF Full, OnList
    <2>2. CASE \E p \in Proc : pc[p] = "fba" /\ loc[p].blk = b
      <3>1. PICK p \in Proc : pc[p] = "fba" /\ loc[p].blk = b
        BY <2>2
      <3>2. Held(p) = b /\ b # NoBlock
        BY <3>1, Shelves DEF Held
      <3>3. QED
        BY <3>2 DEF Full
    <2>3. QED
      BY <1>3, <2>1, <2>2
  <1>4. \A b, c \in B : b = c
    <2>1. \A b \in B : b \in Full /\ free_ptr[b] = ptr
      BY <1>3
    <2>2. \A b, c \in Full : free_ptr[b] = free_ptr[c] => b = c
      BY DEF PointersOnce
    <2> HIDE DEF B
    <2>3. QED
      BY <2>1, <2>2
  <1>5. B # {} => ptr \in Boxed
    BY <1>3 DEF Boxed
  <1>6. ASSUME ptr \in Boxed PROVE B # {}
    <2>1. PICK b \in Full : free_ptr[b] = ptr
      BY <1>6 DEF Boxed
    <2>2. ASSUME NEW s \in Item, b \in OnList(s) PROVE b \in B
      <3>1. ptr[1] = s /\ b \in Block
        BY <2>1, <2>2, Shelves DEF PointersOnce
      <3>2. PICK i \in DOMAIN freelists[s] : freelists[s][i] = b
        BY <2>2 DEF OnList, Range
      <3>3. i \in Block
        <4>1. freelists[s] \in Seq(Block) /\ Once(freelists[s])
          BY Shelves DEF BlocksOnce
        <4>2. QED
          BY <3>2, <4>1, ShortLists
      <3>4. <<ptr[1], i>> \in Listed(b)
        BY <3>1, <3>2, <3>3 DEF Listed
      <3>5. QED
        BY <2>1, <3>1, <3>3, <3>4
    <2>3. ASSUME NEW p \in Proc, Held(p) = b, b # NoBlock PROVE b \in B
      <3>1. pc[p] = "fba" /\ loc[p].blk = b /\ b \in Block
        BY <2>3, InHands, Homes
      <3>2. QED
        BY <2>1, <3>1
    <2>4. QED
      BY <2>2, <2>3, Shelves DEF Full
  <1>7. /\ Cardinality(A) \in {0, 1} /\ (Cardinality(A) = 0 <=> A = {})
        /\ Cardinality(B) \in {0, 1} /\ (Cardinality(B) = 0 <=> B = {})
    BY <1>2, <1>4, AtMostOne
  <1>8. reclaimed[ptr] \in {0, 1} /\ (reclaimed[ptr] = 0 <=> ptr \notin Given)
    BY DEF PointersOnce, Given
  <1>9. /\ ptr \in live => ptr \notin Moving \cup Boxed \cup Given \cup dropped
        /\ ptr \in Moving => ptr \notin Boxed \cup Given \cup dropped
        /\ ptr \in Boxed => ptr \notin Given \cup dropped
        /\ ptr \in Given => ptr \notin dropped
        /\ ptr \in live \cup Moving \cup Boxed \cup Given \cup dropped => ptr \in Allocated
    BY DEF PointersOnce
  <1>10. Copies(ptr) = Cardinality(A) + Cardinality(B) + reclaimed[ptr] + n + d
    BY DEF Copies
  <1>11. n \in {0, 1} /\ (n = 0 <=> ptr \notin live) /\ d \in {0, 1} /\ (d = 0 <=> ptr \notin dropped)
    OBVIOUS
  <1>12. (B # {} <=> ptr \in Boxed) /\ (A # {} <=> ptr \in Moving)
    BY <1>2, <1>5, <1>6
  <1> HIDE DEF A, B, n, d
  <1>13. QED
    BY <1>7, <1>8, <1>9, <1>10, <1>11, <1>12

LEMMA FreedOnceFollows == Types /\ Carried /\ FInv => FreedOnce
  <1> SUFFICES ASSUME Types, Carried, FInv PROVE FreedOnce
    OBVIOUS
  <1> DEFINE Gone == {ptr \in Allocated : Copies(ptr) = 0}
  <1>1. Gone \subseteq Lost
    <2>1. Allocated \subseteq Pointer
      BY DEF Allocated
    <2>2. QED
      BY <2>1, PointerPlaces DEF Lost
  <1>2. Cardinality(Gone) <= Cardinality(Lost)
    BY <1>1, Finite, FS_Subset
  <1>3. Cardinality(Gone) <= Cardinality(Carriers)
    <2>1. IsFiniteSet(Gone)
      BY <1>1, Finite, FS_Subset
    <2>2. /\ Cardinality(Gone) \in Nat /\ Cardinality(Lost) \in Nat /\ Cardinality(Carriers) \in Nat
          /\ Cardinality(Lost) <= Cardinality(Carriers)
      BY <2>1, Finite, FS_CardinalityType DEF FInv, Balance
    <2>3. QED
      BY <1>2, <2>2
  <1>4. dropped # {} => never_allocated = BlockCount
    BY DEF FInv, Balance
  <1>5. QED
    BY <1>3, <1>4, BlockPlaces, PointerPlaces DEF FreedOnce

-----------------------------------------------------------------------------
(* Steps that move no block and no pointer *)

\* What the invariant is about apart from where the threads are.
Stock == BlocksOnce /\ PointersOnce /\ Balance

\* Whoever has a block or a pointer keeps it, and the rest stays as it is.
LEMMA Steady ==
  ASSUME Stock, UNCHANGED <<blocks, live, reclaimed, dropped>>, Allocated' = Allocated,
         Carriers' = Carriers, \A x \in Actor : Held(x)' = Held(x) /\ Carry(x)' = Carry(x)
  PROVE  Stock' /\ Stays
  <1>1. UNCHANGED <<freelists, first_free, never_allocated, free_ptr>>
    BY DEF blocks
  <1>2. /\ \A s \in Item : OnList(s)' = OnList(s)
        /\ \A p \in Proc : Held(p)' = Held(p)
    BY <1>1, Homes DEF OnList
  <1>3. Full' = Full /\ Boxed' = Boxed
    <2>1. Full' = Full
      BY <1>2 DEF Full
    <2>2. QED
      BY <1>1, <2>1 DEF Boxed
  <1>4. Moving' = Moving /\ Given' = Given
    BY DEF Moving, Given
  <1>5. Lost' = Lost
    BY <1>3, <1>4 DEF Lost
  <1>6. BlocksOnce'
    BY <1>1, <1>2 DEF Stock, BlocksOnce
  <1>7. PointersOnce'
    BY <1>1, <1>2, <1>3, <1>4 DEF Stock, PointersOnce
  <1>8. Balance'
    BY <1>1, <1>5 DEF Stock, Balance
  <1>9. QED
    BY <1>3, <1>4, <1>6, <1>7, <1>8 DEF Stock, Stays, Pending

\* Who stays, or is away from the blocks before and after the step.
Plain(x) ==
  \/ pc'[x] = pc[x] /\ loc'[x] = loc[x]
  \/ pc[x] \notin Busy /\ pc'[x] \notin Busy /\ Carry(x)' = NoPointer

LEMMA PlainHands ==
  ASSUME Hands, \A x \in Actor : Plain(x), UNCHANGED never_allocated
  PROVE  Hands' /\ \A x \in Actor : Held(x)' = Held(x) /\ Carry(x)' = Carry(x)
  <1>1. \A x \in Actor : Held(x)' = Held(x) /\ Carry(x)' = Carry(x) /\ (pc[x] \in Busy => pc'[x] = pc[x])
    BY DEF Hands, Plain, Busy, PutPC, Held, Carry
  <1>2. \A t \in User : pc'[t] = "raise" => pc[t] = "raise" /\ loc'[t] = loc[t]
    BY Homes DEF Plain, Busy, PutPC
  <1>3. QED
    BY <1>1, <1>2 DEF Hands

LEMMA PlainStep ==
  ASSUME Hands, Stock, \A x \in Actor : Plain(x),
         UNCHANGED <<blocks, live, reclaimed, dropped>>, Allocated' = Allocated, Carriers' = Carriers
  PROVE  Hands' /\ Stock' /\ Stays
  <1>1. UNCHANGED never_allocated
    BY DEF blocks
  <1>2. Hands' /\ \A x \in Actor : Held(x)' = Held(x) /\ Carry(x)' = Carry(x)
    BY <1>1, PlainHands
  <1>3. QED
    BY <1>2, Steady

-----------------------------------------------------------------------------
(* The search for a shelf *)

\* The thread turns to one of the labels with no pointer, nobody else moves but
\* the cleaner that it starts, and it does not begin to open the heap.
Turns(t, labels) ==
  /\ pc'[t] \in labels /\ Carry(t)' = NoPointer
  /\ \A y \in Actor \ {t} :
       loc'[y] = loc[y] /\ (pc'[y] = pc[y] \/ (y = home[t] /\ pc'[y] = "sleep" /\ Opening(t)))
  /\ Opening(t)' => Opening(t) /\ pc'[home[t]] = pc[home[t]]

\* Scan, Done, Advance and CloseShelfHeap.
LEMMA ScanTurns ==
  ASSUME Types, NEW t \in User, NEW st \in Stage, Scan(t, st), st \in OpeningStage => Opening(t)
  PROVE  Turns(t, {"check"})
  <1> DEFINE l == [NoLocals EXCEPT !.stage = st]
  <1>1. l.ptr = NoPointer /\ l.stage = st /\ l \in Locals
    BY Nothing, ScanLocals DEF NoLocals
  <1>2. Goto(t, "check") /\ With(t, l)
    BY DEF Scan
  <1> HIDE DEF l
  <1>3. Moved(t, "check", l)
    BY <1>1, <1>2, Homes, TypesGive, Move DEF UserPC, ScanPC
  <1>4. QED
    BY <1>1, <1>3, Homes DEF Moved, Turns, Carry, Opening

LEMMA DoneTurns ==
  ASSUME Types, NEW t \in User, Done(t)
  PROVE  Turns(t, {"idle"})
  <1>1. Moved(t, "idle", NoLocals) /\ NoLocals.ptr = NoPointer
    BY DoneMoves DEF NoLocals
  <1>2. QED
    BY <1>1, Homes DEF Moved, Turns, Carry, Opening, Locking, LockPC, ScanPC, OwnPC

LEMMA OpenedTurns ==
  ASSUME Types, NEW t \in User, Opened(t), Opening(t)
  PROVE  Turns(t, {"idle"})
  <1>1. /\ pc'[t] = "idle" /\ loc'[t] = NoLocals /\ pc'[home[t]] = "sleep"
        /\ \A y \in Actor \ {t} : loc'[y] = loc[y] /\ (y # home[t] => pc'[y] = pc[y])
        /\ NoLocals.ptr = NoPointer
    BY OpenedMoves DEF NoLocals
  <1>2. QED
    BY <1>1, Homes DEF Turns, Carry, Opening, Locking, LockPC, ScanPC, OwnPC

LEMMA AdvanceTurns ==
  ASSUME Types, NEW t \in User, Advance(t) \/ NextScan(t), Locking(t)
  PROVE  Turns(t, {"check", "idle"})
  <1>0. loc[t].stage \in Stage
    BY Homes, TypesGive, Carries
  <1>1. CASE Advance(t) /\ loc[t].s + 1 \in Item
    <2> DEFINE l == [NoLocals EXCEPT !.stage = loc[t].stage, !.s = loc[t].s + 1]
    <2>1. l.ptr = NoPointer /\ l.stage = loc[t].stage /\ l \in Locals
      BY <1>0, <1>1, ScanLocals DEF NoLocals
    <2>2. Goto(t, "check") /\ With(t, l)
      BY <1>1 DEF Advance
    <2> HIDE DEF l
    <2>3. Moved(t, "check", l)
      BY <2>1, <2>2, Homes, TypesGive, Move DEF UserPC, ScanPC
    <2>4. QED
      BY <2>1, <2>3, Homes DEF Moved, Turns, Carry, Opening
  <1>2. CASE NextScan(t)
    <2>1. {"any", "last", "open_any"} \subseteq Stage
      BY DEF Stage
    <2>2. ASSUME NEW st \in {"any", "last", "open_any"}, Scan(t, st),
                 st = "open_any" => loc[t].stage = "open_old"
          PROVE  Turns(t, {"check"})
      BY <2>1, <2>2, ScanTurns DEF Opening, OpeningStage
    <2>3. CASE loc[t].stage = "open_any" /\ Opened(t)
      BY <2>3, OpenedTurns DEF Opening, OpeningStage, Turns
    <2>4. CASE Done(t)
      BY <2>4, DoneTurns DEF Turns
    <2>5. QED
      BY <1>2, <2>2, <2>3, <2>4 DEF NextScan, Turns
  <1>3. QED
    BY <1>1, <1>2 DEF Advance

LEMMA CloseTurns ==
  ASSUME Types, NEW t \in User, NEW s \in Item, NEW st \in Stage \ OpeningStage,
         CloseShelfHeap(t, s, st)
  PROVE  Turns(t, {"release"})
  <1> DEFINE l == [NoLocals EXCEPT !.s = s, !.stage = st]
  <1>1. l.ptr = NoPointer /\ l.stage = st /\ l \in Locals
    BY ScanLocals DEF NoLocals
  <1>2. Goto(t, "release") /\ With(t, l)
    BY DEF CloseShelfHeap
  <1> HIDE DEF l
  <1>3. Moved(t, "release", l)
    BY <1>1, <1>2, Homes, TypesGive, Move DEF UserPC, OwnPC
  <1>4. QED
    BY <1>1, <1>3, Homes DEF Moved, Turns, Carry, Opening

\* A thread that waits with its locals turns to another label.
LEMMA GotoTurns ==
  ASSUME Types, Hands, NEW t \in User, pc[t] \notin Busy, NEW label \in UserPC, label \notin Busy,
         Goto(t, label), UNCHANGED loc, label \in LockPC => Locking(t)
  PROVE  Turns(t, {label})
  <1>1. Moved(t, label, loc[t])
    BY Homes, TypesGive, GotoMoves
  <1>2. Carry(t) = NoPointer
    BY Homes DEF Hands
  <1>3. QED
    BY <1>1, <1>2, Homes DEF Moved, Turns, Carry, Opening, Locking

\* A turn is plain.
LEMMA TurnPlain ==
  ASSUME Hands, Standing, NEW t \in User, NEW labels, Turns(t, labels), pc[t] \notin Busy,
         labels \cap Busy = {}
  PROVE  \A x \in Actor : Plain(x)
  <1>1. Plain(t)
    BY DEF Turns, Plain
  <1>2. ASSUME NEW y \in Actor \ {t} PROVE Plain(y)
    <2>1. CASE pc'[y] = pc[y] /\ loc'[y] = loc[y]
      BY <2>1 DEF Plain
    <2>2. CASE y = home[t] /\ pc'[y] = "sleep" /\ Opening(t) /\ loc'[y] = loc[y]
      <3>1. pc[y] = "off"
        BY <2>2 DEF Standing
      <3>2. pc[y] \notin Busy /\ pc'[y] \notin Busy
        BY <2>2, <3>1 DEF Busy, PutPC
      <3>3. Carry(y)' = NoPointer
        BY <2>2, <3>2 DEF Hands, Carry
      <3>4. QED
        BY <3>2, <3>3 DEF Plain
    <2>3. QED
      BY <2>1, <2>2 DEF Turns
  <1>3. QED
    BY <1>1, <1>2

\* The heap stays as formatted and as open as it is when a thread turns, whatever
\* it allocates from a shelf of the pool and adds to it.
LEMMA TurnStands ==
  ASSUME Types, Core, Standing, NEW t \in User, NEW labels, Turns(t, labels),
         labels \cap {"format", "destroy"} = {}, UNCHANGED heap,
         labels = {"idle"} \/ heap = "ready", shelf \subseteq shelf',
         \A s \in Item : s \notin shelf => s \in shelf' \/ next_free'[s] = next_free[s],
         heap # "ready" => next_free' = next_free,
         \A p \in Proc : map'[p] \subseteq shelf' /\ (is_open'[p] => is_open[p] \/ heap = "ready"),
         pc'[t] \in {"take", "open"} => loc'[t].s \in shelf'
  PROVE  Standing'
  <1>1. \A u \in User \ {t} : pc'[u] = pc[u] /\ loc'[u] = loc[u] /\ Opening(u)' = Opening(u)
    BY Homes DEF Turns, Opening, Locking
  <1>2. ASSUME NEW u \in User, Opening(u)' PROVE pc'[home[u]] = "off"
    <2>1. CASE u = t
      BY <1>2, <2>1 DEF Turns, Standing
    <2>2. CASE u # t
      <3>1. Opening(u) /\ pc[home[u]] = "off" /\ home[u] \in Actor \ {t}
        BY <1>1, <1>2, <2>2, Homes DEF Standing
      <3>2. Opening(t) => home[u] # home[t]
        BY <2>2, <3>1 DEF Core, Locked, Opening
      <3>3. QED
        BY <3>1, <3>2 DEF Turns
    <2>3. QED
      BY <2>1, <2>2
  <1>3. \A u \in User : /\ pc'[u] = "format" => heap' = "raw"
                        /\ pc'[u] = "destroy" => heap' = "dying"
                        /\ pc'[u] \notin {"idle", "format", "destroy"} => heap' = "ready"
                        /\ pc'[u] \in {"take", "open"} => loc'[u].s \in shelf'
    BY <1>1 DEF Turns, Standing
  <1>4. \A s \in Item : heap' \in {"absent", "raw"} \/ (heap' = "ready" /\ s \notin shelf')
                          => next_free'[s] = 0
    BY DEF Standing
  <1>5. \A p \in Proc : map'[p] \subseteq shelf' /\ (is_open'[p] => heap' = "ready")
    BY DEF Standing
  <1>6. QED
    BY <1>2, <1>3, <1>4, <1>5 DEF Standing

\* A step of the search or of Open and Close: the lists stay as they are.
LEMMA TurnKeeps ==
  ASSUME IInv, FInv, NEW t \in User, NEW labels, Turns(t, labels), pc[t] \notin Busy,
         labels \cap Busy = {}, labels \cap {"format", "destroy"} = {},
         UNCHANGED <<life, blocks, history, heap>>, Allocated' = Allocated,
         labels = {"idle"} \/ heap = "ready", shelf \subseteq shelf',
         \A s \in Item : s \notin shelf => s \in shelf' \/ next_free'[s] = next_free[s],
         heap # "ready" => next_free' = next_free,
         \A p \in Proc : map'[p] \subseteq shelf' /\ (is_open'[p] => is_open[p] \/ heap = "ready"),
         pc'[t] \in {"take", "open"} => loc'[t].s \in shelf'
  PROVE  FInv' /\ Stays
  <1>1. \A x \in Actor : Plain(x)
    BY TurnPlain DEF FInv
  <1>2. Carriers' = Carriers
    BY DEF Carriers
  <1>3. Hands' /\ Stock' /\ Stays
    BY <1>1, <1>2, PlainStep DEF FInv, Stock, history
  <1>4. Standing'
    BY TurnStands DEF FInv, IInv, Core
  <1>5. QED
    BY <1>3, <1>4 DEF FInv, Stock

\* The labels of the search are not those of the lists.
SearchPC == {"idle", "check", "take", "claim", "open", "add", "unadd", "release"}

LEMMA Away ==
  /\ SearchPC \cap Busy = {} /\ SearchPC \cap {"format", "destroy"} = {}
  /\ SearchPC \subseteq UserPC /\ SearchPC \ {"idle"} \subseteq LockPC
  BY DEF SearchPC, Busy, PutPC, UserPC, LockPC, ScanPC, OwnPC

\* ... and so do the pool and the map.
LEMMA SearchKeeps ==
  ASSUME IInv, FInv, NEW t \in User, NEW labels \in SUBSET SearchPC, Turns(t, labels), Locking(t),
         UNCHANGED <<life, blocks, history, pool, map>>,
         "take" \in labels \/ "open" \in labels => loc'[t].s \in shelf
  PROVE  FInv' /\ Stays
  <1>1. pc[t] \notin Busy /\ pc[t] \notin {"idle", "format", "destroy"}
    BY DEF Locking, LockPC, ScanPC, OwnPC, Busy, PutPC
  <1>2. heap = "ready"
    BY <1>1 DEF FInv, Standing
  <1>3. \A p \in Proc : map'[p] \subseteq shelf
    BY DEF FInv, Standing
  <1>4. UNCHANGED <<heap, shelf, next_free>> /\ Allocated' = Allocated
    BY DEF pool, Allocated
  <1>5. pc'[t] \in {"take", "open"} => loc'[t].s \in shelf'
    BY <1>4 DEF Turns
  <1>6. labels \cap Busy = {} /\ labels \cap {"format", "destroy"} = {}
    BY Away
  <1>7. QED
    BY <1>1, <1>2, <1>3, <1>4, <1>5, <1>6, TurnKeeps

LEMMA ScanLabels ==
  /\ {"check", "idle"} \in SUBSET SearchPC /\ {"check"} \in SUBSET SearchPC
  /\ {"idle"} \in SUBSET SearchPC /\ {"release"} \in SUBSET SearchPC
  BY DEF SearchPC

\* The thread goes on with its locals.
LEMMA GoesOn ==
  ASSUME IInv, FInv, NEW t \in User, NEW label \in SearchPC \ {"idle"}, Goto(t, label), Locking(t),
         UNCHANGED <<life, blocks, history, pool, map, loc>>,
         label \in {"take", "open"} => loc[t].s \in shelf
  PROVE  FInv' /\ Stays
  <1>1. pc[t] \notin Busy
    BY DEF Locking, LockPC, ScanPC, OwnPC, Busy, PutPC
  <1>2. label \in UserPC /\ label \notin Busy /\ {label} \in SUBSET SearchPC
    BY Away
  <1>3. Turns(t, {label})
    BY <1>1, <1>2, GotoTurns DEF IInv, FInv
  <1>4. QED
    BY <1>2, <1>3, SearchKeeps

\* The thread looks at the next item, or ends its scan.
LEMMA GoesAhead ==
  ASSUME IInv, FInv, NEW t \in User, Advance(t) \/ NextScan(t), Locking(t),
         UNCHANGED <<life, blocks, history, pool>>
  PROVE  FInv' /\ Stays
  <1>1. Turns(t, {"check", "idle"}) /\ map' = map
    BY AdvanceTurns, AdvanceMoves DEF handle, IInv
  <1>2. QED
    BY <1>1, ScanLabels, SearchKeeps

LEMMA CheckLists ==
  ASSUME IInv, FInv, NEW t \in User, Check(t)
  PROVE  FInv' /\ Stays
  <1>1. Locking(t) /\ UNCHANGED <<life, blocks, history, pool>>
    BY Labels DEF Check, ScanPC
  <1>2. ASSUME NEW label \in {"take", "claim"}, Goto(t, label), UNCHANGED <<loc, handle>>,
               label = "take" => loc[t].s \in shelf
        PROVE  FInv' /\ Stays
    BY <1>1, <1>2, GoesOn DEF handle, SearchPC
  <1>3. QED
    BY <1>1, <1>2, GoesAhead DEF Check

LEMMA AcquireLists ==
  ASSUME IInv, FInv, NEW t \in User, Acquire(t)
  PROVE  FInv' /\ Stays
  <1>1. Locking(t) /\ UNCHANGED <<life, blocks, history, pool>>
    BY Labels DEF Acquire, ScanPC
  <1>2. ASSUME NEW label \in {"open", "add"}, Goto(t, label), UNCHANGED <<loc, handle>>,
               label = "open" => pc[t] = "take"
        PROVE  FInv' /\ Stays
    <2>1. label = "open" => loc[t].s \in shelf
      BY <1>2 DEF FInv, Standing
    <2>2. QED
      BY <1>1, <1>2, <2>1, GoesOn DEF handle, SearchPC
  <1>3. QED
    BY <1>1, <1>2, GoesAhead DEF Acquire

\* A shelf that is added had allocated nothing.
LEMMA AddShelfLists ==
  ASSUME IInv, FInv, NEW t \in User, AddShelf(t)
  PROVE  FInv' /\ Stays
  <1>0. Types /\ Hands /\ Locking(t) /\ pc[t] = "add" /\ pc[t] \notin Busy
    BY Labels DEF IInv, FInv, AddShelf, ScanPC, Busy, PutPC
  <1>1. UNCHANGED <<life, blocks, history, heap, handle, loc>>
    BY DEF AddShelf
  <1>2. heap = "ready" /\ loc[t].s \in Item /\ next_free \in [Item -> 0 .. Capacity]
    BY <1>0, TypesGive DEF FInv, Standing, Types, FamTypes
  <1>3. CASE /\ loc[t].s \notin shelf
             /\ shelf' = shelf \cup {loc[t].s}
             /\ next_free' = [next_free EXCEPT ![loc[t].s] = 0]
             /\ Goto(t, "open")
    <2>1. next_free' = next_free
      BY <1>2, <1>3 DEF FInv, Standing
    <2>2. "open" \in SearchPC /\ "open" \notin Busy /\ "open" \in UserPC
      BY Away DEF SearchPC
    <2>3. Turns(t, {"open"})
      BY <1>0, <1>1, <1>3, <2>2, GotoTurns
    <2>4. Allocated' = Allocated
      BY <2>1 DEF Allocated
    <2>5. \A p \in Proc : map'[p] \subseteq shelf' /\ (is_open'[p] => is_open[p])
      BY <1>1, <1>3 DEF FInv, Standing, handle
    <2>6. {"open"} \cap Busy = {} /\ {"open"} \cap {"format", "destroy"} = {}
      BY <2>2
    <2>7. shelf \subseteq shelf' /\ loc'[t].s \in shelf'
      BY <1>1, <1>3
    <2>8. QED
      BY <1>0, <1>1, <1>2, <2>1, <2>3, <2>4, <2>5, <2>6, <2>7, TurnKeeps
  <1>4. CASE Goto(t, "unadd") /\ UNCHANGED <<shelf, next_free>>
    BY <1>0, <1>1, <1>4, GoesOn DEF pool, handle, SearchPC
  <1>5. QED
    BY <1>3, <1>4 DEF AddShelf

LEMMA AddFailedLists ==
  ASSUME IInv, FInv, NEW t \in User, AddFailed(t)
  PROVE  FInv' /\ Stays
  BY Labels, GoesAhead DEF AddFailed, ScanPC

LEMMA OpenShelfFailsLists ==
  ASSUME IInv, FInv, NEW t \in User, OpenShelfFails(t)
  PROVE  FInv' /\ Stays
  <1>0. Types /\ Locking(t)
    BY Labels DEF IInv, OpenShelfFails, OwnPC
  <1>1. UNCHANGED <<life, blocks, history, pool, map>> /\ Done(t)
    BY DEF OpenShelfFails
  <1>2. Turns(t, {"idle"})
    BY <1>0, <1>1, DoneTurns
  <1>3. QED
    BY <1>0, <1>1, <1>2, ScanLabels, SearchKeeps

LEMMA GiveUpLists ==
  ASSUME IInv, FInv, NEW t \in User, GiveUp(t)
  PROVE  FInv' /\ Stays
  <1>0. Types /\ Locking(t)
    BY Labels DEF IInv, GiveUp, OwnPC
  <1>1. UNCHANGED <<life, blocks, history, pool, map>> /\ (AfterRelease(t) \/ Done(t))
    BY DEF GiveUp
  <1>2. {"old", "last"} \subseteq Stage \ OpeningStage
    BY DEF Stage, OpeningStage
  <1>3. Turns(t, {"check"}) \/ Turns(t, {"idle"})
    BY <1>0, <1>1, <1>2, ScanTurns, DoneTurns DEF AfterRelease
  <1>4. QED
    BY <1>0, <1>1, <1>3, ScanLabels, SearchKeeps

-----------------------------------------------------------------------------
(* Open, Close and Alloc *)

\* A step after which no more pointers are lost.
LEMMA NoneLost ==
  ASSUME Balance, Lost' \subseteq Lost, Carriers' = Carriers,
         dropped' # {} => never_allocated' = BlockCount
  PROVE  Balance'
  <1>1. IsFiniteSet(Lost) /\ IsFiniteSet(Carriers) /\ IsFiniteSet(Lost')
    BY Finite, FS_Subset
  <1>2. Cardinality(Lost') <= Cardinality(Lost)
    BY <1>1, FS_Subset
  <1>3. Cardinality(Lost') \in Nat /\ Cardinality(Lost) \in Nat /\ Cardinality(Carriers) \in Nat
    BY <1>1, FS_CardinalityType
  <1>4. QED
    BY <1>2, <1>3 DEF Balance

\* The pointer that is allocated is a new one.
LEMMA BumpStock ==
  ASSUME Types, Hands, Stock, \A x \in Actor : Plain(x), NEW s \in Item, Room(s), Bump(s),
         UNCHANGED <<life, blocks, reclaimed, dropped>>
  PROVE  Hands' /\ Stock' /\ NewObject
  <1> DEFINE ptr == <<s, next_free[s]>>
  <1>1. UNCHANGED <<freelists, first_free, never_allocated, free_ptr>>
    BY DEF blocks
  <1>2. Hands' /\ \A x \in Actor : Held(x)' = Held(x) /\ Carry(x)' = Carry(x)
    BY <1>1, PlainHands
  <1>3. /\ \A u \in Item : OnList(u)' = OnList(u)
        /\ \A p \in Proc : Held(p)' = Held(p)
    BY <1>1, <1>2, Homes DEF OnList
  <1>4. Full' = Full
    BY <1>3 DEF Full
  <1>5. Boxed' = Boxed
    BY <1>1, <1>4 DEF Boxed
  <1>6. Moving' = Moving /\ Given' = Given
    BY <1>2 DEF Moving, Given
  <1>7. ptr \in Pointer /\ ptr \notin Allocated /\ Allocated' = Allocated \cup {ptr}
    <2>1. next_free \in [Item -> 0 .. Capacity] /\ next_free[s] \in 0 .. Capacity - 1
      BY DistHeapAssumption DEF Types, FamTypes, Room
    <2>2. ptr \in Pointer /\ ptr[1] = s /\ ptr[2] = next_free[s]
      BY <2>1 DEF Pointer
    <2>3. next_free' = [next_free EXCEPT ![s] = next_free[s] + 1]
      BY <2>1 DEF Bump
    <2>4. \A q \in Pointer : /\ q[1] \in Item /\ q[2] \in Nat /\ q = <<q[1], q[2]>>
      BY DistHeapAssumption DEF Pointer
    <2>5. \A q \in Pointer : q[2] < next_free'[q[1]] <=> q[2] < next_free[q[1]] \/ q = ptr
      <3>1. SUFFICES ASSUME NEW q \in Pointer
                     PROVE  q[2] < next_free'[q[1]] <=> q[2] < next_free[q[1]] \/ q = ptr
        OBVIOUS
      <3>2. CASE q[1] = s
        <4>1. next_free'[q[1]] = next_free[s] + 1
          BY <2>1, <2>3, <3>2
        <4>2. q = ptr <=> q[2] = next_free[s]
          BY <2>2, <2>4, <3>2
        <4>3. QED
          BY <2>1, <2>4, <3>2, <4>1, <4>2
      <3>3. CASE q[1] # s
        <4>1. next_free'[q[1]] = next_free[q[1]] /\ q # ptr
          BY <2>1, <2>2, <2>3, <2>4, <3>3
        <4>2. QED
          BY <4>1
      <3>4. QED
        BY <3>2, <3>3
    <2>6. ~(ptr[2] < next_free[ptr[1]])
      BY <2>1, <2>2
    <2> HIDE DEF ptr
    <2>7. QED
      BY <2>2, <2>5, <2>6 DEF Allocated
  <1>8. live' = live \cup {ptr}
    BY DEF Bump
  <1> HIDE DEF ptr
  <1>9. BlocksOnce'
    BY <1>1, <1>2, <1>3 DEF Stock, BlocksOnce
  <1>10. PointersOnce'
    BY <1>1, <1>2, <1>3, <1>4, <1>5, <1>6, <1>7, <1>8 DEF Stock, PointersOnce
  <1>11. Lost' \subseteq Lost
    BY <1>5, <1>6, <1>7, <1>8 DEF Lost
  <1>12. Balance'
    BY <1>1, <1>11, NoneLost DEF Stock, Balance, Carriers
  <1>13. QED
    BY <1>2, <1>5, <1>6, <1>7, <1>8, <1>9, <1>10, <1>12 DEF Stock, NewObject, Pending

\* The thread maps its shelf.
LEMMA MapsShelf ==
  ASSUME IInv, FInv, NEW t \in User, pc[t] = "open",
         map' = map \/ map' = [map EXCEPT ![home[t]] = @ \cup {loc[t].s}]
  PROVE  /\ heap = "ready" /\ loc[t].s \in shelf
         /\ \A p \in Proc : map'[p] \subseteq shelf
  <1>1. heap = "ready" /\ loc[t].s \in shelf /\ \A p \in Proc : map[p] \subseteq shelf
    BY DEF FInv, Standing
  <1>2. home[t] \in Proc /\ map \in [Proc -> SUBSET Item]
    BY Homes, TypesGive DEF IInv
  <1>3. QED
    BY <1>1, <1>2

LEMMA OpenShelfHeapLists ==
  ASSUME IInv, FInv, NEW t \in User, OpenShelfHeap(t)
  PROVE  FInv' /\ Allocates
  <1> DEFINE s == loc[t].s
  <1>0. Types /\ Locking(t) /\ pc[t] = "open" /\ pc[t] \notin Busy /\ s \in Item
    BY Labels, TypesGive DEF IInv, OpenShelfHeap, OwnPC, Busy, PutPC
  <1>1. UNCHANGED <<items, life, blocks, heap, shelf, reclaimed, dropped, events>>
    BY DEF OpenShelfHeap
  <1>2. CASE Turns(t, {"idle"}) /\ UNCHANGED <<next_free, live>>
             /\ map' = [map EXCEPT ![home[t]] = @ \cup {s}]
    <2>1. /\ heap = "ready" /\ \A p \in Proc : map'[p] \subseteq shelf'
      BY <1>0, <1>1, <1>2, MapsShelf
    <2>2. Allocated' = Allocated /\ UNCHANGED history
      BY <1>1, <1>2 DEF Allocated, history
    <2>3. {"idle"} \cap Busy = {} /\ {"idle"} \cap {"format", "destroy"} = {}
      BY DEF Busy, PutPC
    <2>4. pc'[t] = "idle"
      BY <1>2 DEF Turns
    <2>5. QED
      BY <1>0, <1>1, <1>2, <2>1, <2>2, <2>3, <2>4, TurnKeeps DEF Allocates
  <1>3. CASE Turns(t, {"idle"}) /\ Room(s) /\ Bump(s)
             /\ map' = [map EXCEPT ![home[t]] = @ \cup {s}]
    <2>1. /\ heap = "ready" /\ s \in shelf /\ \A p \in Proc : map'[p] \subseteq shelf'
      BY <1>0, <1>1, <1>3, MapsShelf
    <2>2. {"idle"} \cap Busy = {} /\ {"idle"} \cap {"format", "destroy"} = {} /\ pc'[t] = "idle"
      BY <1>3 DEF Busy, PutPC, Turns
    <2>3. \A x \in Actor : Plain(x)
      BY <1>0, <1>3, <2>2, TurnPlain DEF FInv
    <2>4. Hands' /\ Stock' /\ NewObject
      BY <1>0, <1>1, <1>3, <2>3, BumpStock DEF FInv, Stock
    <2>5. \A u \in Item : u \notin shelf => next_free'[u] = next_free[u]
      BY <1>0, <1>3, <2>1 DEF Bump, Types, FamTypes
    <2>6. Standing'
      BY <1>0, <1>1, <1>3, <2>1, <2>2, <2>5, TurnStands DEF FInv, IInv, Core
    <2>7. QED
      BY <2>4, <2>6 DEF FInv, Stock, Allocates
  <1>4. CASE CloseShelfHeap(t, s, loc[t].stage) /\ loc[t].stage \in {"old", "any"}
             /\ UNCHANGED <<is_open, writer, next_free, live>>
    <2>1. loc[t].stage \in Stage \ OpeningStage
      BY <1>4 DEF Stage, OpeningStage
    <2>2. Turns(t, {"release"})
      BY <1>0, <1>4, <2>1, CloseTurns
    <2>3. map' = map
      <3>1. map[home[t]] = {} /\ home[t] \in Proc /\ map \in [Proc -> SUBSET Item]
        BY <1>0, Homes, TypesGive DEF IInv, Locked
      <3>2. QED
        BY <1>4, <3>1 DEF CloseShelfHeap
    <2>4. QED
      BY <1>0, <1>1, <1>4, <2>2, <2>3, ScanLabels, SearchKeeps DEF pool, history, Allocates
  <1>5. CASE loc[t].stage \in OpeningStage /\ Opened(t)
    <2>1. Turns(t, {"idle"})
      BY <1>0, <1>5, OpenedTurns DEF Opening
    <2>2. QED
      BY <1>2, <1>5, <2>1 DEF OpenShelfHeap, OpeningStage
  <1>6. CASE Done(t)
    <2>1. Turns(t, {"idle"})
      BY <1>0, <1>6, DoneTurns
    <2>2. QED
      BY <1>2, <1>3, <1>4, <1>6, <2>1, <1>5 DEF OpenShelfHeap, OpeningStage
  <1>7. QED
    BY <1>4, <1>5, <1>6 DEF OpenShelfHeap, OpeningStage

\* Open begins when the process has no cleaner and no other thread at work.
LEMMA OpenHeapLists ==
  ASSUME IInv, FInv, NEW t \in User, OpenHeap(t)
  PROVE  FInv' /\ Stays
  <1>0. Types /\ Hands /\ Stock /\ Standing /\ home[t] \in Proc
    BY Homes DEF IInv, FInv, Stock
  <1>1. /\ UNCHANGED <<items, life, blocks, pool, is_open, map, history, events>>
        /\ heap = "ready" /\ Quiet(home[t]) /\ Scan(t, "open_old")
    BY DEF OpenHeap
  <1> DEFINE l == [NoLocals EXCEPT !.stage = "open_old"]
  <1>2. "open_old" \in Stage /\ NoLocals.ptr = NoPointer
    BY DEF Stage, NoLocals
  <1>3. l \in Locals /\ l.ptr = NoPointer
    BY <1>2, Nothing, ScanLocals DEF Locals
  <1>4. Goto(t, "check") /\ With(t, l)
    BY <1>1 DEF Scan
  <1> HIDE DEF l
  <1>5. Moved(t, "check", l)
    BY <1>0, <1>3, <1>4, Homes, TypesGive, Move DEF UserPC, ScanPC
  <1>6. /\ pc'[t] = "check" /\ loc'[t] = l
        /\ \A u \in User \ {t} : pc'[u] = pc[u] /\ loc'[u] = loc[u]
        /\ \A p \in Proc : pc'[p] = pc[p] /\ loc'[p] = loc[p]
    BY <1>5, Homes DEF Moved
  <1>7. pc[t] = "idle" /\ pc[home[t]] = "off"
    BY <1>1 DEF Quiet
  <1>8. \A x \in Actor : Plain(x)
    <2>1. pc[t] \notin Busy /\ pc'[t] \notin Busy
      BY <1>6, <1>7 DEF Busy, PutPC
    <2>2. QED
      BY <1>3, <1>6, <2>1, Homes DEF Plain, Carry
  <1>9. Allocated' = Allocated /\ Carriers' = Carriers /\ UNCHANGED <<live, reclaimed, dropped>>
    BY <1>1 DEF Allocated, Carriers, pool, history
  <1>10. Hands' /\ Stock' /\ Stays
    BY <1>0, <1>1, <1>8, <1>9, PlainStep
  <1>11. Standing'
    <2>1. UNCHANGED <<heap, shelf, next_free>>
      BY <1>1 DEF pool
    <2>2. \A u \in User \ {t} : Opening(u)' = Opening(u)
      BY <1>6 DEF Opening, Locking
    <2>3. \A u \in User : Opening(u)' => pc'[home[u]] = "off"
      BY <1>0, <1>6, <1>7, <2>2, Homes DEF Standing
    <2>4. QED
      BY <1>0, <1>1, <1>6, <2>1, <2>3 DEF Standing
  <1>12. QED
    BY <1>10, <1>11 DEF FInv, Stock

\* A call that takes no pointer along.
LEMMA CallTurns ==
  ASSUME Types, NEW t \in User, NEW label \in {"idle", "want", "stop"}, Call(t, label, NoLocals)
  PROVE  Turns(t, {label}) /\ pc[t] = "idle" /\ is_open[home[t]]
  <1>1. Goto(t, label) /\ With(t, NoLocals) /\ pc[t] = "idle" /\ is_open[home[t]]
    BY DEF Call
  <1>2. Moved(t, label, NoLocals) /\ NoLocals.ptr = NoPointer
    BY <1>1, Homes, TypesGive, Move, Nothing DEF UserPC, NoLocals
  <1>3. QED
    BY <1>1, <1>2, Homes DEF Moved, Turns, Carry, Opening, Locking, LockPC, ScanPC, OwnPC

\* A step of a thread that uses the heap without a pointer and without the lock.
LEMMA CalmLists ==
  ASSUME IInv, FInv, NEW t \in User, NEW label \in {"idle", "want", "stop", "check", "release"},
         Turns(t, {label}), pc[t] \notin Busy, heap = "ready",
         UNCHANGED <<life, blocks, history, pool>>,
         \A p \in Proc : map'[p] \subseteq map[p] /\ (is_open'[p] => is_open[p])
  PROVE  FInv' /\ Stays
  <1>1. UNCHANGED <<heap, shelf, next_free>> /\ Allocated' = Allocated
    BY DEF pool, Allocated
  <1>2. {label} \cap Busy = {} /\ {label} \cap {"format", "destroy"} = {}
    BY DEF Busy, PutPC
  <1>3. \A p \in Proc : map'[p] \subseteq shelf
    BY DEF FInv, Standing
  <1>4. pc'[t] \notin {"take", "open"}
    BY DEF Turns
  <1>5. QED
    BY <1>1, <1>2, <1>3, <1>4, TurnKeeps

LEMMA CloseHeapLists ==
  ASSUME IInv, FInv, NEW t \in User, CloseHeap(t)
  PROVE  FInv' /\ Stays
  <1>1. UNCHANGED <<items, life, blocks, pool, handle, history, events>> /\ Call(t, "stop", NoLocals)
    BY DEF CloseHeap
  <1>2. Turns(t, {"stop"}) /\ pc[t] = "idle" /\ is_open[home[t]]
    BY <1>1, CallTurns DEF IInv
  <1>3. heap = "ready" /\ pc[t] \notin Busy /\ UNCHANGED <<map, is_open>>
    BY <1>1, <1>2, Homes DEF FInv, Standing, Busy, PutPC, handle
  <1>4. QED
    BY <1>1, <1>2, <1>3, CalmLists

\* CloseShelfHeap unmaps what the process has mapped.
LEMMA ClosesLists ==
  ASSUME IInv, FInv, NEW t \in User, pc[t] \in {"want", "stop"}, map[home[t]] # {},
         NEW st \in {"full", "close"}, CloseShelfHeap(t, Min(map[home[t]]), st),
         UNCHANGED <<life, blocks, history, pool, is_open>>
  PROVE  FInv' /\ Stays
  <1>0. Types /\ Mapped /\ home[t] \in Proc /\ map \in [Proc -> SUBSET Item]
    BY Homes, TypesGive DEF IInv
  <1>1. PICK s \in map[home[t]] : map[home[t]] = {s}
    BY <1>0 DEF Mapped
  <1>2. s \in Item /\ s = Min(map[home[t]])
    <2>1. Item \subseteq Int /\ s \in Item
      BY <1>0, <1>1 DEF Item
    <2>2. QED
      BY <1>1, <2>1 DEF Min
  <1>3. st \in Stage \ OpeningStage
    BY DEF Stage, OpeningStage
  <1>4. Turns(t, {"release"})
    BY <1>0, <1>2, <1>3, CloseTurns
  <1>5. heap = "ready" /\ pc[t] \notin Busy
    BY DEF FInv, Standing, Busy, PutPC
  <1>6. \A p \in Proc : map'[p] \subseteq map[p]
    BY <1>0 DEF CloseShelfHeap
  <1>7. QED
    BY <1>4, <1>5, <1>6, CalmLists

LEMMA CloseMappedLists ==
  ASSUME IInv, FInv, NEW t \in User, CloseMapped(t)
  PROVE  FInv' /\ Stays
  <1>0. Types /\ home[t] \in Proc /\ is_open \in [Proc -> BOOLEAN]
    BY Homes, TypesGive DEF IInv
  <1>1. UNCHANGED <<items, life, blocks, pool, history, events>> /\ pc[t] = "stop"
    BY DEF CloseMapped
  <1>2. CASE map[home[t]] # {}
    <2>1. CloseShelfHeap(t, Min(map[home[t]]), "close") /\ UNCHANGED is_open
      BY <1>2 DEF CloseMapped
    <2>2. QED
      BY <1>1, <1>2, <2>1, ClosesLists
  <1>3. CASE map[home[t]] = {}
    <2>1. Done(t) /\ is_open' = [is_open EXCEPT ![home[t]] = FALSE] /\ UNCHANGED map
      BY <1>3 DEF CloseMapped
    <2>2. Turns(t, {"idle"})
      BY <1>0, <2>1, DoneTurns
    <2>3. heap = "ready" /\ pc[t] \notin Busy
      BY <1>1 DEF FInv, Standing, Busy, PutPC
    <2>4. \A p \in Proc : is_open'[p] => is_open[p]
      BY <1>0, <2>1
    <2>5. QED
      BY <1>1, <2>1, <2>2, <2>3, <2>4, CalmLists
  <1>4. QED
    BY <1>2, <1>3

LEMMA AllocWantLists ==
  ASSUME IInv, FInv, NEW t \in User, AllocWant(t)
  PROVE  FInv' /\ Stays
  <1>0. Types /\ Mapped /\ home[t] \in Proc
    BY Homes DEF IInv
  <1>1. UNCHANGED <<items, life, blocks, pool, is_open, history, events>> /\ pc[t] = "want"
    BY DEF AllocWant
  <1>2. CASE Cardinality(map[home[t]]) = kMaxOwnedHeap /\ CloseShelfHeap(t, Min(map[home[t]]), "full")
    <2>1. map[home[t]] # {}
      BY <1>0, <1>2, OneShelf DEF Mapped
    <2>2. QED
      BY <1>1, <1>2, <2>1, ClosesLists
  <1>3. CASE Scan(t, "old") /\ UNCHANGED map
    <2>1. "old" \in Stage \ OpeningStage
      BY DEF Stage, OpeningStage
    <2>2. Turns(t, {"check"})
      BY <1>0, <1>3, <2>1, ScanTurns
    <2>3. heap = "ready" /\ pc[t] \notin Busy
      BY <1>1 DEF FInv, Standing, Busy, PutPC
    <2>4. QED
      BY <1>1, <1>3, <2>2, <2>3, CalmLists
  <1>4. QED
    BY <1>2, <1>3 DEF AllocWant

LEMMA AllocLists ==
  ASSUME IInv, FInv, NEW t \in User, Alloc(t)
  PROVE  FInv' /\ Allocates
  <1>0. Types /\ home[t] \in Proc /\ map \in [Proc -> SUBSET Item]
    BY Homes, TypesGive DEF IInv
  <1>1. UNCHANGED <<items, life, blocks, heap, shelf, handle, reclaimed, dropped>>
    BY DEF Alloc
  <1>2. CASE ~\E s \in map[home[t]] : Room(s)
    <2>1. Call(t, "want", NoLocals) /\ UNCHANGED <<next_free, live>>
      BY <1>2 DEF Alloc
    <2>2. Turns(t, {"want"}) /\ pc[t] = "idle" /\ is_open[home[t]]
      BY <1>0, <2>1, CallTurns
    <2>3. heap = "ready" /\ pc[t] \notin Busy /\ UNCHANGED <<map, is_open, pool, history>>
      BY <1>0, <1>1, <2>1, <2>2 DEF FInv, Standing, Busy, PutPC, handle, pool, history
    <2>4. QED
      BY <1>1, <2>1, <2>2, <2>3, CalmLists DEF Allocates
  <1>3. ASSUME NEW s \in map[home[t]], Room(s), Bump(s), Call(t, "idle", NoLocals) PROVE FInv' /\ Allocates
    <2>1. Turns(t, {"idle"}) /\ pc[t] = "idle" /\ is_open[home[t]]
      BY <1>0, <1>3, CallTurns
    <2>2. /\ heap = "ready" /\ pc[t] \notin Busy /\ UNCHANGED <<map, is_open>> /\ s \in Item
          /\ s \in shelf /\ \A p \in Proc : map[p] \subseteq shelf
      BY <1>0, <1>1, <1>3, <2>1 DEF FInv, Standing, Busy, PutPC, handle
    <2>3. {"idle"} \cap Busy = {} /\ {"idle"} \cap {"format", "destroy"} = {} /\ pc'[t] = "idle"
      BY <2>1 DEF Busy, PutPC, Turns
    <2>4. \A x \in Actor : Plain(x)
      BY <2>1, <2>2, <2>3, TurnPlain DEF FInv
    <2>5. Hands' /\ Stock' /\ NewObject
      BY <1>0, <1>1, <1>3, <2>2, <2>4, BumpStock DEF FInv, Stock
    <2>6. \A u \in Item : u \notin shelf => next_free'[u] = next_free[u]
      BY <1>0, <1>3, <2>2 DEF Bump, Types, FamTypes
    <2>7. Standing'
      BY <1>0, <1>1, <2>1, <2>2, <2>3, <2>6, TurnStands DEF FInv, IInv, Core
    <2>8. QED
      BY <2>5, <2>7 DEF FInv, Stock, Allocates
  <1>4. QED
    BY <1>2, <1>3 DEF Alloc

-----------------------------------------------------------------------------
(* One step of one thread on the lists *)

\* The others keep what they have in hand.
LEMMA OthersHold ==
  ASSUME NEW x \in Actor, NEW label, NEW l, Moved(x, label, l)
  PROVE  /\ Held(x)' = IF label \in {"push", "fba"} THEN l.blk ELSE NoBlock
         /\ Carry(x)' = l.ptr
         /\ \A y \in Actor \ {x} : Held(y)' = Held(y) /\ Carry(y)' = Carry(y)
  BY DEF Moved, Held, Carry

LEMMA HandsMove ==
  ASSUME Hands, NEW x \in Actor, NEW label, NEW l, Moved(x, label, l),
         l.ptr # NoPointer => label \in Busy \ {"fba"} /\ l.ptr \in Pointer,
         label \in {"push", "fba"} => l.blk \in Block,
         label = "raise" => l.blk <= never_allocated',
         \A i \in Nat : i <= never_allocated => i <= never_allocated',
         \A t \in User : pc[t] = "raise" => loc[t].blk \in Nat
  PROVE  Hands'
  <1>1. \A y \in Actor \ {x} : pc'[y] = pc[y] /\ loc'[y] = loc[y]
    BY DEF Moved
  <1>2. pc'[x] = label /\ loc'[x] = l
    BY DEF Moved
  <1>3. \A y \in Actor : Carry(y)' # NoPointer => pc'[y] \in Busy \ {"fba"} /\ Carry(y)' \in Pointer
    BY <1>1, <1>2 DEF Hands, Carry
  <1>4. \A y \in Actor : Held(y)' # NoBlock => Held(y)' \in Block
    BY <1>1, <1>2 DEF Hands, Held
  <1>5. \A t \in User : pc'[t] = "raise" => loc'[t].blk <= never_allocated'
    BY <1>1, <1>2, Homes DEF Hands
  <1>6. QED
    BY <1>3, <1>4, <1>5 DEF Hands

\* The pointers on the way change by those of the thread.
LEMMA MovingMoves ==
  ASSUME PointersOnce, NEW x \in Actor, \A y \in Actor \ {x} : Carry(y)' = Carry(y)
  PROVE  /\ Carry(x)' = Carry(x) => Moving' = Moving
         /\ Carry(x) = NoPointer => Moving' = Moving \cup ({Carry(x)'} \ {NoPointer})
         /\ Carry(x)' = NoPointer => Moving' = Moving \ {Carry(x)}
  <1>1. \A y \in Actor \ {x} : Carry(y) # NoPointer => Carry(y) # Carry(x)
    BY DEF PointersOnce
  <1>2. ASSUME Carry(x)' = Carry(x) PROVE Moving' = Moving
    BY <1>2 DEF Moving
  <1>3. ASSUME Carry(x) = NoPointer PROVE Moving' = Moving \cup ({Carry(x)'} \ {NoPointer})
    BY <1>3 DEF Moving
  <1>4. ASSUME Carry(x)' = NoPointer PROVE Moving' = Moving \ {Carry(x)}
    BY <1>1, <1>4 DEF Moving
  <1>5. QED
    BY <1>2, <1>3, <1>4

\* Pointers stay where they are while a block changes hands.
LEMMA PointersStay ==
  ASSUME PointersOnce, Full' = Full, \A s \in Item : OnList(s)' \subseteq OnList(s),
         \A x \in Actor : Carry(x)' = Carry(x),
         UNCHANGED <<free_ptr, live, reclaimed, dropped>>, Allocated' = Allocated
  PROVE  PointersOnce' /\ Lost' = Lost /\ Stays
  <1>1. Boxed' = Boxed /\ Moving' = Moving /\ Given' = Given
    BY DEF Boxed, Moving, Given
  <1>2. QED
    BY <1>1 DEF PointersOnce, Lost, Stays, Pending

\* A thread takes a block that nobody else has.
LEMMA TakesBlock ==
  ASSUME BlocksOnce, NEW x \in Actor, NEW b \in Block, Held(x) = NoBlock, Held(x)' = b,
         \A y \in Actor \ {x} : Held(y)' = Held(y), \A y \in Actor \ {x} : Held(y) # b,
         \A i \in Block : i <= never_allocated => i <= never_allocated', b <= never_allocated',
         \A y \in Actor : Held(y) \in Block \cup {NoBlock},
         \A s \in Item : /\ Once(freelists[s])' /\ OnList(s)' \subseteq OnList(s) \ {b}
                         /\ OnList(s) \subseteq Block,
         Once(first_free)', Range(first_free)' \subseteq Range(first_free) \ {b},
         Range(first_free) \subseteq Block
  PROVE  BlocksOnce'
  <1>1. b # NoBlock
    BY DEF Block, NoBlock
  <1>2. ASSUME NEW y \in Actor, Held(y)' # NoBlock
        PROVE  /\ Held(y)' <= never_allocated' /\ Held(y)' \notin Range(first_free)'
               /\ \A s \in Item : Held(y)' \notin OnList(s)'
               /\ \A z \in Actor : Held(z)' = Held(y)' => z = y
    BY <1>1, <1>2 DEF BlocksOnce
  <1>3. \A s, u \in Item : s # u => OnList(s)' \cap OnList(u)' = {}
    BY DEF BlocksOnce
  <1>4. \A s \in Item : \A c \in OnList(s)' : c <= never_allocated' /\ c \notin Range(first_free)'
    BY DEF BlocksOnce
  <1>5. \A c \in Range(first_free)' : c <= never_allocated'
    BY DEF BlocksOnce
  <1>6. QED
    BY <1>2, <1>3, <1>4, <1>5 DEF BlocksOnce

\* A thread of an open heap moves along the path of PutPointer.
LEMMA PutStands ==
  ASSUME Standing, NEW t \in User, NEW label \in PutPC \cup {"idle"}, NEW l, Moved(t, label, l),
         heap = "ready", UNCHANGED <<pool, handle>>
  PROVE  Standing'
  <1>1. label \notin LockPC /\ label \notin {"format", "destroy", "take", "open"}
    BY DEF LockPC, ScanPC, OwnPC, PutPC
  <1>2. /\ pc'[t] = label /\ \A u \in User \ {t} : pc'[u] = pc[u] /\ loc'[u] = loc[u]
        /\ \A p \in Proc : pc'[p] = pc[p]
    BY Homes DEF Moved
  <1>3. ~Opening(t)' /\ \A u \in User \ {t} : Opening(u)' = Opening(u)
    BY <1>1, <1>2 DEF Opening, Locking
  <1>4. UNCHANGED <<heap, shelf, next_free, map, is_open>>
    BY DEF pool, handle
  <1>5. QED
    BY <1>1, <1>2, <1>3, <1>4, Homes DEF Standing

\* A cleaner that runs moves.
LEMMA CleanerStands ==
  ASSUME Standing, NEW p \in Proc, NEW label, NEW l, Moved(p, label, l), pc[p] # "off",
         UNCHANGED <<pool, handle>>
  PROVE  Standing'
  <1>1. /\ \A u \in User : pc'[u] = pc[u] /\ loc'[u] = loc[u]
        /\ \A q \in Proc : q # p => pc'[q] = pc[q]
    BY Homes DEF Moved
  <1>2. \A u \in User : Opening(u)' = Opening(u)
    BY <1>1 DEF Opening, Locking
  <1>3. UNCHANGED <<heap, shelf, next_free, map, is_open>>
    BY DEF pool, handle
  <1>4. \A u \in User : Opening(u) => home[u] # p
    BY DEF Standing
  <1>5. QED
    BY <1>1, <1>2, <1>3, <1>4, Homes DEF Standing

-----------------------------------------------------------------------------
(* PutPointer *)

\* What a thread on its way to a list has.
LEMMA Putting ==
  ASSUME IInv, FInv, NEW t \in User, pc[t] \in PutPC
  PROVE  /\ t \in Actor /\ heap = "ready"
         /\ loc[t] \in Locals /\ loc[t].ptr \in Pointer /\ loc[t].ptr # NoPointer
         /\ Carry(t) = loc[t].ptr /\ Carry(t) \in Moving
  <1>1. t \in Actor /\ loc[t] \in Locals /\ loc[t].ptr \in Pointer
    BY Homes, TypesGive DEF IInv, Carried
  <1>2. heap = "ready"
    BY DEF FInv, Standing, PutPC
  <1>3. loc[t].ptr # NoPointer
    <2>1. \A q \in Pointer : q = <<q[1], q[2]>>
      BY DEF Pointer
    <2>2. \A i, j : <<i, j>> # << >>
      OBVIOUS
    <2>3. QED
      BY <1>1, <2>1, <2>2 DEF NoPointer
  <1>4. QED
    BY <1>1, <1>2, <1>3 DEF Carry, Moving

\* Blocks and their numbers.
LEMMA Numbers ==
  ASSUME IInv, FInv
  PROVE  /\ \A s \in Item : OnList(s) \subseteq Block
         /\ Range(first_free) \subseteq Block
         /\ \A x \in Actor : Held(x) \in Block \cup {NoBlock}
         /\ \A t \in User : loc[t].blk \in Nat
         /\ never_allocated \in Nat /\ never_allocated <= BlockCount /\ BlockCount \in Nat
  <1>1. \A t \in User : loc[t].blk \in Block \cup {NoBlock}
    BY TypesGive, Carries DEF IInv
  <1>2. Block \cup {NoBlock} \subseteq Nat
    BY DEF Block, NoBlock
  <1>3. QED
    BY <1>1, <1>2, Shelves, InHands, FreeListsAssumption DEF IInv

LEMMA PutReuseLists ==
  ASSUME IInv, FInv, NEW t \in User, PutReuse(t)
  PROVE  FInv' /\ Stays
  <1> DEFINE b == Head(first_free) l == [loc[t] EXCEPT !.blk = Head(first_free)]
  <1>0. /\ Types /\ t \in Actor /\ Hands /\ BlocksOnce /\ PointersOnce /\ Standing /\ Balance
        /\ pc[t] = "put" /\ pc[t] \in PutPC
    BY Homes DEF IInv, FInv, PutReuse, PutPC
  <1>1. /\ UNCHANGED <<items, life, pool, handle, history, events>>
        /\ UNCHANGED <<freelists, never_allocated, free_ptr>>
        /\ first_free # << >> /\ first_free' = Tail(first_free)
        /\ Goto(t, "push") /\ With(t, l)
    BY DEF PutReuse, PopFirstFree
  <1>2. /\ b \in Block
        /\ Range(first_free) = {b} \cup Range(Tail(first_free))
        /\ Once(Tail(first_free)) /\ b \notin Range(Tail(first_free))
    BY <1>0, <1>1, Shelves, Popped DEF BlocksOnce
  <1>3. l \in Locals /\ l.ptr = loc[t].ptr /\ l.blk = b
    BY <1>0, <1>2, Putting DEF Locals
  <1> HIDE DEF l
  <1>4. Moved(t, "push", l)
    BY <1>0, <1>1, <1>3, Homes, TypesGive, Move DEF UserPC, PutPC
  <1>5. /\ Held(t)' = b /\ Carry(t)' = Carry(t) /\ Held(t) = NoBlock
        /\ \A y \in Actor \ {t} : Held(y)' = Held(y) /\ Carry(y)' = Carry(y)
    BY <1>0, <1>3, <1>4, OthersHold DEF Held, Carry
  <1> HIDE DEF b
  <1>6. Hands'
    BY <1>0, <1>1, <1>2, <1>3, <1>4, Putting, Numbers, HandsMove DEF Busy, PutPC
  <1>7. b # NoBlock /\ b \in Range(first_free)
    BY <1>2 DEF Block, NoBlock
  <1>8. /\ \A s \in Item : OnList(s)' = OnList(s) /\ b \notin OnList(s)
        /\ Range(first_free)' = Range(Tail(first_free))
    BY <1>0, <1>1, <1>7 DEF OnList, BlocksOnce
  <1>9. BlocksOnce'
    <2>1. \A y \in Actor : Held(y) # b
      BY <1>0, <1>7 DEF BlocksOnce
    <2>2. \A s \in Item : Once(freelists[s])'
      BY <1>0, <1>1 DEF BlocksOnce
    <2>3. b <= never_allocated
      BY <1>0, <1>7 DEF BlocksOnce
    <2>4. Once(first_free)'
      BY <1>1, <1>2
    <2>5. QED
      BY <1>0, <1>1, <1>2, <1>5, <1>8, <2>1, <2>2, <2>3, <2>4, Numbers, TakesBlock
  <1>10. Full' = Full
    <2>1. \A p \in Proc : Held(p)' = Held(p)
      BY <1>5, Homes
    <2>2. QED
      BY <1>8, <2>1 DEF Full
  <1>11. Allocated' = Allocated /\ Carriers' = Carriers /\ UNCHANGED <<live, reclaimed, dropped>>
    BY <1>1 DEF pool, Allocated, history, Carriers
  <1>12. PointersOnce' /\ Lost' = Lost /\ Stays
    BY <1>0, <1>1, <1>5, <1>8, <1>10, <1>11, PointersStay
  <1>13. Balance'
    BY <1>0, <1>1, <1>11, <1>12 DEF Balance
  <1>14. Standing'
    BY <1>0, <1>1, <1>4, Putting, PutStands DEF PutPC
  <1>15. QED
    BY <1>6, <1>9, <1>12, <1>13, <1>14 DEF FInv

\* The watermark is read, or read again.
LEMMA ReadsWatermark ==
  ASSUME IInv, FInv, NEW t \in User, pc[t] \in {"put", "raise"}, NEW l, l = [loc[t] EXCEPT !.blk = never_allocated],
         pc' = [pc EXCEPT ![t] = "raise"], With(t, l), UNCHANGED <<life, blocks, pool, handle, history>>
  PROVE  FInv' /\ Stays
  <1>0. /\ Types /\ t \in Actor /\ Hands /\ Stock /\ Standing /\ pc[t] \in PutPC
    BY Homes DEF IInv, FInv, Stock, PutPC
  <1>1. /\ loc[t] \in Locals /\ Goto(t, "raise") /\ never_allocated \in Block \cup {NoBlock}
    BY <1>0, TypesGive, Numbers DEF Goto, Block, NoBlock
  <1>2. l \in Locals /\ l.ptr = loc[t].ptr /\ l.blk = never_allocated
    BY <1>1 DEF Locals
  <1>3. Moved(t, "raise", l)
    BY <1>0, <1>1, <1>2, Homes, TypesGive, Move DEF UserPC, PutPC
  <1>4. UNCHANGED never_allocated
    BY DEF blocks
  <1>5. Hands'
    <2>1. l.ptr \in Pointer /\ "raise" \in Busy
      BY <1>0, <1>2, Putting DEF Busy, PutPC
    <2>2. l.blk <= never_allocated' /\ \A i \in Nat : i <= never_allocated => i <= never_allocated'
      BY <1>2, <1>4, Numbers
    <2>3. \A u \in User : pc[u] = "raise" => loc[u].blk \in Nat
      BY Numbers
    <2>4. "raise" \in Busy \ {"fba"} /\ "raise" \notin {"push", "fba"}
      BY <2>1
    <2>5. QED
      BY <1>0, <1>3, <2>1, <2>2, <2>3, <2>4, HandsMove
  <1>6. \A x \in Actor : Held(x)' = Held(x) /\ Carry(x)' = Carry(x)
    <2>1. /\ Held(t)' = NoBlock /\ Carry(t)' = l.ptr
          /\ \A y \in Actor \ {t} : Held(y)' = Held(y) /\ Carry(y)' = Carry(y)
      BY <1>0, <1>3, OthersHold
    <2>2. Held(t) = NoBlock /\ Carry(t) = loc[t].ptr
      BY DEF Held, Carry
    <2>3. QED
      BY <1>2, <2>1, <2>2
  <1>7. Allocated' = Allocated /\ Carriers' = Carriers /\ UNCHANGED <<live, reclaimed, dropped>>
    BY DEF pool, Allocated, history, Carriers
  <1>8. Stock' /\ Stays
    BY <1>0, <1>6, <1>7, Steady
  <1>9. Standing'
    BY <1>0, <1>3, Putting, PutStands DEF PutPC
  <1>10. QED
    BY <1>5, <1>8, <1>9 DEF FInv, Stock

LEMMA PutWatermarkLists ==
  ASSUME IInv, FInv, NEW t \in User, PutWatermark(t)
  PROVE  FInv' /\ Stays
  BY ReadsWatermark DEF PutWatermark, Goto

\* The block behind the watermark is new.
LEMMA PutRaiseLists ==
  ASSUME IInv, FInv, NEW t \in User, PutRaise(t)
  PROVE  FInv' /\ Stays
  <1> DEFINE old == loc[t].blk b == old + 1 l == [loc[t] EXCEPT !.blk = b]
  <1>0. /\ Types /\ t \in Actor /\ Hands /\ BlocksOnce /\ PointersOnce /\ Standing /\ Balance
        /\ pc[t] = "raise" /\ pc[t] \in PutPC
    BY Homes DEF IInv, FInv, PutRaise, PutPC
  <1>1. /\ UNCHANGED <<items, life, pool, handle, history, events>>
        /\ UNCHANGED <<freelists, first_free, free_ptr>>
        /\ old < BlockCount
    BY DEF PutRaise, RaiseWatermark
  <1>2. CASE ~Raised(old)
    <2>1. UNCHANGED never_allocated
      BY <1>2 DEF PutRaise, RaiseWatermark, Raise, Raised
    <2>2. pc' = [pc EXCEPT ![t] = "raise"]
      <3>1. UNCHANGED pc
        BY <1>2 DEF PutRaise
      <3>2. pc \in [Actor -> UserPC \cup CleanerPC]
        BY <1>0, TypesGive DEF Control
      <3>3. QED
        BY <1>0, <3>1, <3>2
    <2>3. With(t, [loc[t] EXCEPT !.blk = never_allocated])
      BY <1>2 DEF PutRaise
    <2>4. UNCHANGED blocks
      BY <1>1, <2>1 DEF blocks
    <2>5. QED
      BY <1>0, <1>1, <2>2, <2>3, <2>4, ReadsWatermark
  <1>3. CASE Raised(old)
    <2>1. /\ old = never_allocated /\ never_allocated' = b
          /\ Goto(t, "push") /\ With(t, l)
      BY <1>3 DEF PutRaise, RaiseWatermark, Raise, Raised
    <2>2. b \in Block /\ never_allocated < b /\ never_allocated \in Nat /\ b \in Nat /\ b # NoBlock
      BY <1>0, <1>1, <2>1, Numbers DEF Block, NoBlock
    <2>3. l \in Locals /\ l.ptr = loc[t].ptr /\ l.blk = b
      BY <1>0, <2>2, Putting DEF Locals
    <2> HIDE DEF l, b
    <2>4. Moved(t, "push", l)
      BY <1>0, <2>1, <2>3, Homes, TypesGive, Move DEF UserPC, PutPC
    <2>5. /\ Held(t)' = b /\ Carry(t)' = Carry(t) /\ Held(t) = NoBlock
          /\ \A y \in Actor \ {t} : Held(y)' = Held(y) /\ Carry(y)' = Carry(y)
      BY <1>0, <2>3, <2>4, OthersHold DEF Held, Carry
    <2>6. \A i \in Nat : i <= never_allocated => i <= never_allocated' /\ i # b
      BY <2>1, <2>2
    <2>7. Hands'
      BY <1>0, <2>2, <2>3, <2>4, <2>6, Putting, Numbers, HandsMove DEF Busy, PutPC
    <2>8. /\ \A s \in Item : OnList(s)' = OnList(s) /\ b \notin OnList(s)
          /\ Range(first_free)' = Range(first_free) /\ b \notin Range(first_free)
          /\ \A y \in Actor : Held(y) # b
      <3>1. Block \subseteq Nat
        BY DEF Block
      <3>2. QED
        BY <1>0, <1>1, <2>2, <2>6, <3>1, Numbers DEF OnList, BlocksOnce
    <2>9. BlocksOnce'
      <3>1. (\A s \in Item : Once(freelists[s])') /\ Once(first_free)'
        BY <1>0, <1>1 DEF BlocksOnce
      <3>2. \A i \in Block : i <= never_allocated => i <= never_allocated'
        BY <2>6 DEF Block
      <3>3. b <= never_allocated'
        BY <2>1, <2>2
      <3>4. QED
        BY <1>0, <2>2, <2>5, <2>8, <3>1, <3>2, <3>3, Numbers, TakesBlock
    <2>10. Full' = Full
      <3>1. \A p \in Proc : Held(p)' = Held(p)
        BY <2>5, Homes
      <3>2. QED
        BY <2>8, <3>1 DEF Full
    <2>11. Allocated' = Allocated /\ Carriers' = Carriers /\ UNCHANGED <<live, reclaimed, dropped>>
      BY <1>1 DEF pool, Allocated, history, Carriers
    <2>12. PointersOnce' /\ Lost' = Lost /\ Stays
      BY <1>0, <1>1, <2>5, <2>8, <2>10, <2>11, PointersStay
    <2>13. Balance'
      <3>1. dropped = {}
        BY <1>0, <1>1, <2>1, Numbers DEF Balance
      <3>2. QED
        BY <1>0, <2>11, <2>12, <3>1 DEF Balance
    <2>14. Standing'
      BY <1>0, <1>1, <2>4, Putting, PutStands DEF PutPC
    <2>15. QED
      BY <2>7, <2>9, <2>12, <2>13, <2>14 DEF FInv
  <1>4. QED
    BY <1>2, <1>3

\* A pointer is dropped when every block has been handed out.
LEMMA PutDropLists ==
  ASSUME IInv, FInv, NEW t \in User, PutDrop(t)
  PROVE  /\ FInv' /\ Allocated' = Allocated
         /\ loc[t].ptr \in Pointer \cap Pending /\ Pending' = Pending \ {loc[t].ptr}
         /\ never_allocated = BlockCount
  <1> DEFINE ptr == loc[t].ptr
  <1>0. /\ Types /\ t \in Actor /\ Hands /\ BlocksOnce /\ PointersOnce /\ Standing /\ Balance
        /\ pc[t] = "raise" /\ pc[t] \in PutPC
    BY Homes DEF IInv, FInv, PutDrop, PutPC
  <1>1. /\ UNCHANGED <<items, life, blocks, pool, handle, live, reclaimed, events>>
        /\ loc[t].blk = BlockCount /\ dropped' = dropped \cup {ptr} /\ Done(t)
    BY DEF PutDrop
  <1>2. never_allocated = BlockCount
    BY <1>0, <1>1, Numbers DEF Hands
  <1>3. Moved(t, "idle", NoLocals) /\ NoLocals.ptr = NoPointer
    BY <1>0, <1>1, DoneMoves DEF NoLocals
  <1>4. UNCHANGED <<freelists, first_free, never_allocated, free_ptr>>
    BY <1>1 DEF blocks
  <1>5. Hands'
    BY <1>0, <1>3, <1>4, Numbers, HandsMove
  <1>6. /\ \A x \in Actor : Held(x)' = Held(x)
        /\ Carry(t)' = NoPointer /\ \A y \in Actor \ {t} : Carry(y)' = Carry(y)
    BY <1>0, <1>3, OthersHold DEF Held
  <1>7. ptr \in Pointer /\ ptr # NoPointer /\ Carry(t) = ptr /\ ptr \in Moving
    BY <1>0, Putting
  <1> HIDE DEF ptr
  <1>8. Moving' = Moving \ {ptr}
    BY <1>0, <1>6, <1>7, MovingMoves
  <1>9. /\ \A s \in Item : OnList(s)' = OnList(s)
        /\ Full' = Full /\ Boxed' = Boxed /\ Given' = Given /\ Allocated' = Allocated
    <2>1. \A s \in Item : OnList(s)' = OnList(s)
      BY <1>4 DEF OnList
    <2>2. Full' = Full
      BY <1>6, <2>1, Homes DEF Full
    <2>3. QED
      BY <1>1, <1>4, <2>1, <2>2 DEF Boxed, Given, Allocated, pool
  <1>10. BlocksOnce'
    BY <1>0, <1>4, <1>6, <1>9 DEF BlocksOnce
  <1>11. PointersOnce'
    <2>1. \A x, y \in Actor : Carry(x)' = Carry(y)' /\ Carry(x)' # NoPointer => x = y
      BY <1>0, <1>6 DEF PointersOnce
    <2>2. QED
      BY <1>0, <1>1, <1>4, <1>7, <1>8, <1>9, <2>1 DEF PointersOnce
  <1>12. Balance'
    <2>1. Lost' \subseteq Lost /\ Carriers' = Carriers
      BY <1>1, <1>8, <1>9 DEF Lost, Carriers
    <2>2. QED
      BY <1>0, <1>2, <1>4, <2>1, NoneLost
  <1>13. Standing'
    BY <1>0, <1>1, <1>3, Putting, PutStands
  <1>14. ptr \in Pending /\ Pending' = Pending \ {ptr}
    <2>1. ptr \notin Boxed
      BY <1>0, <1>7 DEF PointersOnce
    <2>2. QED
      BY <1>7, <1>8, <1>9, <2>1 DEF Pending
  <1>15. ptr = loc[t].ptr
    BY DEF ptr
  <1>16. QED
    BY <1>2, <1>5, <1>7, <1>9, <1>10, <1>11, <1>12, <1>13, <1>14, <1>15 DEF FInv

\* The block goes on the list with the pointer in it.
LEMMA PutPushLists ==
  ASSUME IInv, FInv, NEW t \in User, PutPush(t)
  PROVE  FInv' /\ Stays
  <1>a. PICK ptr, b, s : ptr = loc[t].ptr /\ b = loc[t].blk /\ s = ptr[1]
    OBVIOUS
  <1>0. /\ Types /\ t \in Actor /\ Hands /\ BlocksOnce /\ PointersOnce /\ Standing /\ Balance
        /\ pc[t] = "push" /\ pc[t] \in PutPC
    BY Homes DEF IInv, FInv, PutPush, PutPC
  <1>1. /\ UNCHANGED <<items, life, pool, handle, history, events>>
        /\ free_ptr' = [free_ptr EXCEPT ![b] = ptr]
        /\ freelists' = [freelists EXCEPT ![s] = <<b>> \o @]
        /\ UNCHANGED <<first_free, never_allocated>> /\ Done(t)
    BY <1>a DEF PutPush, Push
  <1>2. ptr \in Pointer /\ ptr # NoPointer /\ Carry(t) = ptr /\ ptr \in Moving /\ s \in Item
    BY <1>0, <1>a, Putting DEF Pointer
  <1>3. b \in Block /\ Held(t) = b /\ b # NoBlock
    <2>1. b \in Block
      BY <1>0, <1>a DEF IInv, Carried
    <2>2. QED
      BY <1>0, <1>a, <2>1, Shelves DEF Held
  <1>4. Moved(t, "idle", NoLocals) /\ NoLocals.ptr = NoPointer
    BY <1>0, <1>1, DoneMoves DEF NoLocals
  <1>5. Hands'
    BY <1>0, <1>1, <1>4, Numbers, HandsMove
  <1>6. /\ Held(t)' = NoBlock /\ \A y \in Actor \ {t} : Held(y)' = Held(y)
        /\ Carry(t)' = NoPointer /\ \A y \in Actor \ {t} : Carry(y)' = Carry(y)
    BY <1>0, <1>4, OthersHold
  <1>7. /\ b <= never_allocated /\ b \notin Range(first_free)
        /\ \A u \in Item : b \notin OnList(u)
        /\ \A y \in Actor : Held(y) = b => y = t
    BY <1>0, <1>3 DEF BlocksOnce
  <1>8. /\ OnList(s)' = OnList(s) \cup {b} /\ Once(freelists[s])'
        /\ \A u \in Item \ {s} : OnList(u)' = OnList(u) /\ freelists'[u] = freelists[u]
    <2>1. freelists[s] \in Seq(Block) /\ Once(freelists[s]) /\ b \notin Range(freelists[s])
      BY <1>0, <1>2, <1>7, Shelves DEF BlocksOnce, OnList
    <2>2. /\ Range(<<b>> \o freelists[s]) = {b} \cup Range(freelists[s])
          /\ Once(<<b>> \o freelists[s])
      BY <1>3, <2>1, Pushed
    <2>3. freelists'[s] = <<b>> \o freelists[s] /\ \A u \in Item \ {s} : freelists'[u] = freelists[u]
      BY <1>0, <1>1, <1>2, Shelves
    <2>4. QED
      BY <2>2, <2>3 DEF OnList
  <1>9. BlocksOnce'
    <2>1. ASSUME NEW u \in Item
          PROVE  /\ Once(freelists[u])'
                 /\ \A c \in OnList(u)' : c <= never_allocated' /\ c \notin Range(first_free)'
      BY <1>0, <1>1, <1>7, <1>8 DEF BlocksOnce
    <2>2. ASSUME NEW u \in Item, NEW v \in Item, u # v PROVE OnList(u)' \cap OnList(v)' = {}
      BY <1>0, <1>7, <1>8, <2>2 DEF BlocksOnce
    <2>3. ASSUME NEW y \in Actor, Held(y)' # NoBlock
          PROVE  /\ Held(y)' <= never_allocated' /\ Held(y)' \notin Range(first_free)'
                 /\ \A u \in Item : Held(y)' \notin OnList(u)'
                 /\ \A z \in Actor : Held(z)' = Held(y)' => z = y
      <3>1. y # t /\ Held(y)' = Held(y) /\ Held(y) # b
        BY <1>6, <1>7, <2>3
      <3>2. QED
        BY <1>0, <1>1, <1>6, <1>8, <2>3, <3>1 DEF BlocksOnce
    <2>4. QED
      BY <1>0, <1>1, <2>1, <2>2, <2>3 DEF BlocksOnce
  <1>10. b \notin Full /\ Full' = Full \cup {b}
    <2>1. \A p \in Proc : Held(p)' = Held(p) /\ Held(p) # b /\ p # t
      BY <1>6, <1>7, Homes
    <2>2. QED
      BY <1>2, <1>3, <1>7, <1>8, <2>1 DEF Full
  <1>11. free_ptr'[b] = ptr /\ \A c \in Block : c # b => free_ptr'[c] = free_ptr[c]
    BY <1>0, <1>1, <1>3 DEF Types, FamTypes
  <1>12. Full \subseteq Block /\ Boxed' = Boxed \cup {ptr}
    <2>1. Full \subseteq Block
      BY DEF Full
    <2>2. QED
      BY <1>10, <1>11, <2>1 DEF Boxed
  <1>13. Moving' = Moving \ {ptr}
    BY <1>0, <1>2, <1>6, MovingMoves
  <1>14. Given' = Given /\ Allocated' = Allocated /\ Carriers' = Carriers /\ UNCHANGED <<live, reclaimed, dropped>>
    BY <1>1 DEF Given, Allocated, Carriers, pool, history
  <1>15. PointersOnce'
    <2>1. \A u \in Item : \A c \in OnList(u)' : free_ptr'[c] \in Pointer /\ free_ptr'[c][1] = u
      <3>1. \A u \in Item : OnList(u) \subseteq Block
        BY Numbers
      <3>2. \A u \in Item : \A c \in OnList(u) : free_ptr'[c] \in Pointer /\ free_ptr'[c][1] = u
        BY <1>0, <1>7, <1>11, <3>1 DEF PointersOnce
      <3>3. free_ptr'[b] \in Pointer /\ free_ptr'[b][1] = s
        BY <1>2, <1>11, <1>a
      <3>4. QED
        BY <1>8, <3>2, <3>3
    <2>2. \A c, d \in Full' : free_ptr'[c] = free_ptr'[d] => c = d
      <3>1. \A c \in Full : free_ptr'[c] = free_ptr[c] /\ free_ptr[c] # ptr
        <4>1. ptr \notin Boxed
          BY <1>0, <1>2 DEF PointersOnce
        <4>2. QED
          BY <1>10, <1>11, <1>12, <4>1 DEF Boxed
      <3>2. QED
        BY <1>0, <1>10, <1>11, <3>1 DEF PointersOnce
    <2>3. \A x, y \in Actor : Carry(x)' = Carry(y)' /\ Carry(x)' # NoPointer => x = y
      BY <1>0, <1>6 DEF PointersOnce
    <2>4. QED
      BY <1>0, <1>2, <1>12, <1>13, <1>14, <2>1, <2>2, <2>3 DEF PointersOnce
  <1>16. Balance'
    <2>1. Lost' \subseteq Lost
      BY <1>12, <1>13, <1>14 DEF Lost
    <2>2. QED
      BY <1>0, <1>1, <1>14, <2>1, NoneLost DEF Balance
  <1>17. Standing'
    BY <1>0, <1>1, <1>4, Putting, PutStands
  <1>18. QED
    BY <1>2, <1>5, <1>9, <1>12, <1>13, <1>14, <1>15, <1>16, <1>17 DEF FInv, Stays, Pending

-----------------------------------------------------------------------------
(* Free *)

\* A pointer that was out is on its way to a list, or given back at once.
LEMMA FreeKeepsLists ==
  ASSUME IInv, FInv, NEW t \in User, NEW ptr \in Pointer, Free(t, ptr)
  PROVE  /\ FInv' /\ Allocated' = Allocated
         /\ \/ Pending' = Pending \cup {ptr} /\ UNCHANGED reclaimed
            \/ Pending' = Pending /\ reclaimed' = [reclaimed EXCEPT ![ptr] = @ + 1]
  <1> DEFINE l == [NoLocals EXCEPT !.ptr = ptr]
  <1>0. /\ Types /\ t \in Actor /\ Hands /\ BlocksOnce /\ PointersOnce /\ Standing /\ Balance
        /\ reclaimed \in [Pointer -> Nat] /\ ptr # NoPointer
    <2>1. ptr = <<ptr[1], ptr[2]>> /\ \A i, j : <<i, j>> # << >>
      BY DEF Pointer
    <2>2. QED
      BY <2>1, Homes DEF IInv, FInv, Types, HistoryTypes, NoPointer
  <1>1. /\ UNCHANGED <<items, life, blocks, pool, handle, dropped, events>>
        /\ ptr \in live /\ live' = live \ {ptr}
    BY DEF Free
  <1>2. UNCHANGED <<freelists, first_free, never_allocated, free_ptr>>
    BY <1>1 DEF blocks
  <1>3. l \in Locals /\ l.ptr = ptr /\ NoLocals.ptr = NoPointer
    BY Nothing DEF Locals, NoLocals
  <1>4. /\ ptr \in Allocated /\ ptr \notin Moving /\ ptr \notin Boxed /\ ptr \notin Given
        /\ ptr \notin dropped
    BY <1>0, <1>1 DEF PointersOnce
  <1> HIDE DEF l
  <1>5. \/ Call(t, "idle", NoLocals) /\ reclaimed' = [reclaimed EXCEPT ![ptr] = @ + 1]
        \/ Call(t, "put", l) /\ UNCHANGED reclaimed
    BY DEF Free, l
  <1>6. \E label \in {"idle", "put"}, k \in {NoLocals, l} :
          /\ Call(t, label, k) /\ (k = l => label = "put" /\ UNCHANGED reclaimed)
          /\ k = NoLocals => label = "idle" /\ reclaimed' = [reclaimed EXCEPT ![ptr] = @ + 1]
    BY <1>0, <1>3, <1>5
  <1>7. PICK label \in {"idle", "put"}, k \in {NoLocals, l} :
          /\ Call(t, label, k) /\ (k = l => label = "put" /\ UNCHANGED reclaimed)
          /\ k = NoLocals => label = "idle" /\ reclaimed' = [reclaimed EXCEPT ![ptr] = @ + 1]
    BY <1>6
  <1>8. /\ pc[t] = "idle" /\ is_open[home[t]] /\ Moved(t, label, k)
        /\ label \notin {"push", "fba", "raise"} /\ (label # "idle" => label \in Busy)
    <2>1. /\ pc[t] = "idle" /\ is_open[home[t]] /\ Goto(t, label) /\ With(t, k)
      BY <1>7 DEF Call
    <2>2. k \in Locals /\ label \in UserPC
      BY <1>3, Nothing DEF UserPC, PutPC
    <2>3. QED
      BY <1>0, <2>1, <2>2, Homes, TypesGive, Move DEF Busy, PutPC
  <1>9. /\ Held(t)' = NoBlock /\ Held(t) = NoBlock /\ Carry(t)' = k.ptr /\ Carry(t) = NoPointer
        /\ \A y \in Actor \ {t} : Held(y)' = Held(y) /\ Carry(y)' = Carry(y)
    BY <1>0, <1>8, OthersHold DEF Hands, Held, Busy, PutPC
  <1>10. Hands'
    BY <1>0, <1>2, <1>3, <1>7, <1>8, Numbers, HandsMove
  <1>11. /\ \A s \in Item : OnList(s)' = OnList(s)
         /\ Full' = Full /\ Boxed' = Boxed /\ Allocated' = Allocated /\ Carriers' = Carriers
    <2>1. \A s \in Item : OnList(s)' = OnList(s)
      BY <1>2 DEF OnList
    <2>2. Full' = Full
      BY <1>9, <2>1, Homes DEF Full
    <2>3. QED
      BY <1>1, <1>2, <2>1, <2>2 DEF Boxed, Allocated, pool, Carriers
  <1>12. BlocksOnce'
    BY <1>0, <1>2, <1>9, <1>11 DEF BlocksOnce
  <1>13. \/ Moving' = Moving \cup {ptr} /\ Given' = Given /\ UNCHANGED reclaimed
         \/ /\ Moving' = Moving /\ Given' = Given \cup {ptr}
            /\ reclaimed[ptr] = 0 /\ reclaimed' = [reclaimed EXCEPT ![ptr] = 1]
            /\ reclaimed' = [reclaimed EXCEPT ![ptr] = @ + 1]
    <2>1. CASE k = l
      BY <1>0, <1>3, <1>7, <1>9, <2>1, MovingMoves DEF Given
    <2>2. CASE k = NoLocals
      <3>1. Moving' = Moving
        BY <1>0, <1>3, <1>9, <2>2, MovingMoves
      <3>2. reclaimed[ptr] = 0 /\ reclaimed' = [reclaimed EXCEPT ![ptr] = 1]
        BY <1>0, <1>4, <1>7, <2>2 DEF Given
      <3>3. Given' = Given \cup {ptr}
        BY <1>0, <3>2 DEF Given
      <3>4. QED
        BY <1>3, <1>7, <2>2, <3>1, <3>2, <3>3
    <2>3. QED
      BY <2>1, <2>2
  <1>14. PointersOnce'
    <2>1. \A x, y \in Actor : Carry(x)' = Carry(y)' /\ Carry(x)' # NoPointer => x = y
      <3>1. \A y \in Actor : Carry(y) # ptr
        BY <1>0, <1>4 DEF Moving
      <3>2. Carry(t)' \in {ptr, NoPointer}
        BY <1>3, <1>9
      <3>3. QED
        BY <1>0, <1>9, <3>1, <3>2 DEF PointersOnce
    <2>2. \A q \in Pointer : reclaimed'[q] \in {0, 1}
      BY <1>0, <1>13 DEF PointersOnce
    <2>3. \A s \in Item : \A b \in OnList(s)' : free_ptr'[b] \in Pointer /\ free_ptr'[b][1] = s
      BY <1>0, <1>2, <1>11 DEF PointersOnce
    <2>4. \A b, c \in Full' : free_ptr'[b] = free_ptr'[c] => b = c
      BY <1>0, <1>2, <1>11 DEF PointersOnce
    <2>5. QED
      BY <1>0, <1>1, <1>4, <1>11, <1>13, <2>1, <2>2, <2>3, <2>4 DEF PointersOnce
  <1>15. Balance'
    <2>1. Lost' \subseteq Lost
      BY <1>1, <1>11, <1>13 DEF Lost
    <2>2. QED
      BY <1>0, <1>1, <1>2, <1>11, <2>1, NoneLost DEF Balance
  <1>16. Standing'
    <2>1. heap = "ready" /\ label \in PutPC \cup {"idle"}
      BY <1>0, <1>8, Homes DEF Standing, PutPC
    <2>2. QED
      BY <1>0, <1>1, <1>8, <2>1, PutStands
  <1>17. QED
    BY <1>10, <1>11, <1>12, <1>13, <1>14, <1>15, <1>16 DEF FInv, Pending

-----------------------------------------------------------------------------
(* The cleaner *)

\* Its steps on the items.
LEMMA CleanerCalm ==
  ASSUME IInv, FInv, NEW p \in Proc, pc[p] # "off", pc[p] \notin Busy,
         NEW label \in CleanerPC \ Busy, NEW l \in Locals, l.ptr = NoPointer,
         Goto(p, label), With(p, l), UNCHANGED <<life, blocks, pool, handle, history>>
  PROVE  FInv' /\ Stays
  <1>0. Types /\ p \in Actor /\ p \notin User /\ Hands /\ Stock /\ Standing
    BY Homes DEF IInv, FInv, Stock
  <1>1. Moved(p, label, l)
    BY <1>0, TypesGive, Move
  <1>2. \A x \in Actor : Plain(x)
    BY <1>0, <1>1 DEF Moved, Plain, Carry
  <1>3. Allocated' = Allocated /\ Carriers' = Carriers /\ UNCHANGED <<live, reclaimed, dropped>>
    BY DEF pool, Allocated, history, Carriers
  <1>4. Hands' /\ Stock' /\ Stays
    BY <1>0, <1>2, <1>3, PlainStep
  <1>5. Standing'
    BY <1>0, <1>1, CleanerStands
  <1>6. QED
    BY <1>4, <1>5 DEF FInv, Stock

LEMMA NextItemLists ==
  ASSUME IInv, FInv, NEW p \in Proc, pc[p] # "off", pc[p] \notin Busy, NextItem(p),
         UNCHANGED <<life, blocks, pool, handle, history>>
  PROVE  FInv' /\ Stays
  <1>1. \A s \in Item : [NoLocals EXCEPT !.s = s] \in Locals /\ [NoLocals EXCEPT !.s = s].ptr = NoPointer
    BY Nothing DEF Locals, NoLocals
  <1>2. NoLocals \in Locals /\ NoLocals.ptr = NoPointer
    BY Nothing DEF NoLocals
  <1>3. {"check", "lists"} \subseteq CleanerPC \ Busy
    BY DEF CleanerPC, Busy, PutPC
  <1>4. CASE loc[p].s + 1 \in Item
    BY <1>1, <1>3, <1>4, CleanerCalm DEF NextItem
  <1>5. CASE loc[p].s + 1 \notin Item
    BY <1>2, <1>3, <1>5, CleanerCalm DEF NextItem
  <1>6. QED
    BY <1>4, <1>5

\* The labels of the cleaner that are not those of the lists.
LEMMA ItemLabels ==
  /\ {"off", "sleep", "check", "owner", "revoke", "recover", "settle", "lists"} \subseteq CleanerPC \ Busy
  /\ "off" \notin {"sleep", "check", "owner", "revoke", "recover", "settle", "lists"}
  BY DEF CleanerPC, SettlingPC, Busy, PutPC

LEMMA ItemsLists ==
  ASSUME IInv, FInv, NEW p \in Proc,
         RevokeCheck(p) \/ CleanerStop(p) \/ RevokeDead(p) \/ RevokeTake(p) \/ Recover(p) \/ RevokeSettle(p)
  PROVE  FInv' /\ Stays
  <1>0. /\ Types /\ p \in Actor /\ loc[p] \in Locals /\ loc[p].s \in Item /\ loc[p].pid \in Pid
        /\ Hands /\ items \in [Item -> ProcessID]
    BY Homes, TypesGive, Carries DEF IInv, FInv
  <1>1. /\ UNCHANGED <<life, blocks, pool, handle, history>>
        /\ pc[p] \in {"sleep", "check", "owner", "revoke", "recover", "settle"}
    BY DEF RevokeCheck, CleanerStop, RevokeDead, RevokeTake, Recover, RevokeSettle
  <1>2. pc[p] # "off" /\ pc[p] \notin Busy /\ loc[p].ptr = NoPointer
    BY <1>0, <1>1, ItemLabels DEF Hands, Carry
  <1>3. CASE NextItem(p)
    BY <1>1, <1>2, <1>3, NextItemLists
  <1>4. ASSUME NEW label \in {"off", "revoke", "recover", "settle", "owner"}, Goto(p, label),
               NEW l \in Locals, l.ptr = NoPointer, With(p, l)
        PROVE  FInv' /\ Stays
    BY <1>1, <1>2, <1>4, ItemLabels, CleanerCalm
  <1>5. ASSUME NEW label \in {"off", "revoke", "recover", "settle", "owner"}, Goto(p, label), UNCHANGED loc
        PROVE  FInv' /\ Stays
    <2>1. With(p, loc[p])
      BY <1>0, <1>5, TypesGive DEF With
    <2>2. QED
      BY <1>0, <1>2, <1>4, <1>5, <2>1
  <1>6. CASE RevokeCheck(p)
    <2> DEFINE l == [loc[p] EXCEPT !.pid = ReadPid(loc[p].s)]
    <2>1. ReadPid(loc[p].s) \in Pid
      BY <1>0, Identity DEF ReadPid
    <2>2. l \in Locals /\ l.ptr = NoPointer
      BY <1>0, <1>2, <2>1 DEF Locals
    <2> HIDE DEF l
    <2>3. NextItem(p) \/ (Goto(p, "owner") /\ With(p, l))
      BY <1>6 DEF RevokeCheck, l
    <2>4. QED
      BY <1>3, <1>4, <2>2, <2>3
  <1>7. CASE RevokeDead(p)
    <2> DEFINE l == [loc[p] EXCEPT !.old = ReadOwner(loc[p].s, loc[p].pid)]
    <2>1. ReadOwner(loc[p].s, loc[p].pid) \in [pid : Pid, btime : Nat]
      BY <1>0, Identity DEF ReadOwner
    <2>2. l \in Locals /\ l.ptr = NoPointer
      BY <1>0, <1>2, <2>1 DEF Locals
    <2> HIDE DEF l
    <2>3. NextItem(p) \/ (Goto(p, "revoke") /\ With(p, l))
      BY <1>7 DEF RevokeDead, l
    <2>4. QED
      BY <1>3, <1>4, <2>2, <2>3
  <1>8. CASE Recover(p)
    <2> DEFINE l == [loc[p] EXCEPT !.old = NoID]
    <2>1. l \in Locals /\ l.ptr = NoPointer
      BY <1>0, <1>2, Identity DEF Locals
    <2> HIDE DEF l
    <2>2. Goto(p, "settle") /\ (With(p, l) \/ UNCHANGED loc)
      BY <1>8 DEF Recover, l
    <2>3. QED
      BY <1>4, <1>5, <2>1, <2>2
  <1>9. CASE CleanerStop(p) \/ RevokeTake(p) \/ RevokeSettle(p)
    BY <1>3, <1>5, <1>9 DEF CleanerStop, RevokeTake, RevokeSettle
  <1>10. QED
    BY <1>6, <1>7, <1>8, <1>9

\* A block is popped from the list of a shelf of the process ...
LEMMA GetPointerLists ==
  ASSUME IInv, FInv, NEW p \in Proc, GetPointer(p)
  PROVE  FInv' /\ Stays
  <1>0. /\ Types /\ p \in Actor /\ p \notin User
        /\ Hands /\ BlocksOnce /\ PointersOnce /\ Standing /\ Balance
        /\ map \in [Proc -> SUBSET Item] /\ pc[p] = "lists" /\ pc[p] \notin Busy /\ pc[p] # "off"
    BY Homes, TypesGive DEF IInv, FInv, GetPointer, Busy, PutPC
  <1>1. UNCHANGED <<items, life, pool, handle, history, events>>
    BY DEF GetPointer
  <1>2. CASE Goto(p, "sleep") /\ With(p, NoLocals) /\ UNCHANGED blocks
    <2>1. NoLocals \in Locals /\ NoLocals.ptr = NoPointer
      BY Nothing DEF NoLocals
    <2>2. QED
      BY <1>0, <1>1, <1>2, <2>1, ItemLabels, CleanerCalm
  <1>3. ASSUME NEW s \in Item, NEW b, b = Head(freelists[s]), Pop(s), Goto(p, "fba"),
               With(p, [NoLocals EXCEPT !.s = s, !.blk = b])
        PROVE  FInv' /\ Stays
    <2> DEFINE l == [NoLocals EXCEPT !.s = s, !.blk = b]
    <2>1. /\ freelists[s] # << >> /\ freelists' = [freelists EXCEPT ![s] = Tail(@)]
          /\ UNCHANGED <<first_free, never_allocated, free_ptr>>
      BY <1>3 DEF Pop
    <2>2. freelists \in [Item -> Seq(Block)] /\ freelists[s] \in Seq(Block)
      BY <1>0, Shelves
    <2>3. /\ b \in Block /\ OnList(s) = {b} \cup Range(Tail(freelists[s]))
          /\ Once(Tail(freelists[s])) /\ b \notin Range(Tail(freelists[s]))
      BY <1>0, <1>3, <2>1, <2>2, Popped DEF BlocksOnce, OnList
    <2>4. /\ freelists'[s] = Tail(freelists[s])
          /\ \A u \in Item \ {s} : freelists'[u] = freelists[u]
      BY <2>1, <2>2
    <2>5. /\ OnList(s) = OnList(s)' \cup {b} /\ b \notin OnList(s)' /\ Once(freelists[s])'
          /\ \A u \in Item \ {s} : OnList(u)' = OnList(u)
      BY <2>3, <2>4 DEF OnList
    <2>6. l \in Locals /\ l.ptr = NoPointer /\ l.blk = b
      BY <2>3, Nothing DEF Locals, NoLocals
    <2>7. With(p, l)
      BY <1>3
    <2> HIDE DEF l
    <2>8. Moved(p, "fba", l)
      BY <1>0, <1>3, <2>6, <2>7, TypesGive, Move DEF CleanerPC
    <2>9. /\ Held(p)' = b /\ Carry(p)' = NoPointer /\ Held(p) = NoBlock /\ Carry(p) = NoPointer
          /\ \A y \in Actor \ {p} : Held(y)' = Held(y) /\ Carry(y)' = Carry(y)
      BY <1>0, <2>6, <2>8, OthersHold DEF Held, Hands, Busy
    <2>10. Hands'
      BY <1>0, <2>1, <2>3, <2>6, <2>8, Numbers, HandsMove
    <2>11. /\ b # NoBlock /\ b \in OnList(s) /\ b <= never_allocated /\ b \notin Range(first_free)
           /\ \A y \in Actor : Held(y) # b
           /\ \A u \in Item \ {s} : b \notin OnList(u)
      BY <1>0, <2>3, <2>5 DEF BlocksOnce, Block, NoBlock
    <2>12. BlocksOnce'
      <3>1. \A u \in Item : /\ Once(freelists[u])' /\ OnList(u)' \subseteq OnList(u) \ {b}
                            /\ OnList(u) \subseteq Block
        BY <1>0, <2>4, <2>5, <2>11, Numbers DEF BlocksOnce
      <3>2. Once(first_free)' /\ Range(first_free)' \subseteq Range(first_free) \ {b}
        BY <1>0, <2>1, <2>11 DEF BlocksOnce
      <3>3. QED
        BY <1>0, <2>1, <2>3, <2>9, <2>11, <3>1, <3>2, Numbers, TakesBlock
    <2>13. Full' = Full
      <3>1. \A q \in Proc : Held(q)' = IF q = p THEN b ELSE Held(q)
        BY <2>9, Homes
      <3>2. Held(p) \notin Block /\ \A u \in Item : OnList(u)' \subseteq OnList(u)
        BY <2>5, <2>9 DEF Block, NoBlock
      <3>3. Full' \subseteq Full
        BY <2>3, <2>11, <3>1, <3>2 DEF Full
      <3>4. Full \subseteq Full'
        BY <2>3, <2>5, <3>1, <3>2 DEF Full
      <3>5. QED
        BY <3>3, <3>4
    <2>14. Allocated' = Allocated /\ Carriers' = Carriers /\ UNCHANGED <<live, reclaimed, dropped>>
      BY <1>1 DEF pool, Allocated, history, Carriers
    <2>15. PointersOnce' /\ Lost' = Lost /\ Stays
      <3>1. \A u \in Item : OnList(u)' \subseteq OnList(u)
        BY <2>5
      <3>2. \A x \in Actor : Carry(x)' = Carry(x)
        BY <2>9
      <3>3. QED
        BY <1>0, <2>1, <2>13, <2>14, <3>1, <3>2, PointersStay
    <2>16. Balance'
      BY <1>0, <2>1, <2>14, <2>15 DEF Balance
    <2>17. Standing'
      BY <1>0, <1>1, <2>8, CleanerStands
    <2>18. QED
      BY <2>10, <2>12, <2>15, <2>16, <2>17 DEF FInv
  <1>4. \A s \in map[p] : s \in Item
    BY <1>0
  <1>5. QED
    BY <1>2, <1>3, <1>4 DEF GetPointer

\* ... its pointer is read and the block is freed ...
LEMMA GetFreeLists ==
  ASSUME IInv, FInv, NEW p \in Proc, GetFree(p)
  PROVE  FInv' /\ Stays
  <1>a. PICK b, ptr : b = loc[p].blk /\ ptr = free_ptr[b]
    OBVIOUS
  <1> DEFINE l == [loc[p] EXCEPT !.ptr = ptr, !.blk = NoBlock]
  <1>0. /\ Types /\ p \in Actor /\ p \notin User
        /\ Hands /\ BlocksOnce /\ PointersOnce /\ Standing /\ Balance
        /\ pc[p] = "fba" /\ pc[p] # "off" /\ loc[p] \in Locals
    BY Homes, TypesGive DEF IInv, FInv, GetFree
  <1>1. /\ UNCHANGED <<items, life, pool, handle, history, events>>
        /\ first_free' = <<b>> \o first_free
        /\ UNCHANGED <<freelists, never_allocated, free_ptr>>
        /\ Goto(p, "free") /\ With(p, l)
    BY <1>a DEF GetFree, FreeBlock
  <1>2. b \in Block /\ Held(p) = b /\ b # NoBlock /\ b \in Full /\ Carry(p) = NoPointer
    <2>1. b \in Block
      BY <1>0, <1>a DEF IInv, Carried
    <2>2. Held(p) = b /\ b # NoBlock
      BY <1>0, <1>a, <2>1, Shelves DEF Held
    <2>3. Carry(p) = NoPointer
      BY <1>0 DEF Hands
    <2>4. QED
      BY <2>1, <2>2, <2>3 DEF Full
  <1>3. ptr \in Boxed /\ ptr \in Pointer /\ ptr # NoPointer /\ ptr \notin Moving
    <2>1. ptr \in Boxed
      BY <1>2, <1>a DEF Boxed
    <2>2. ptr \in Pointer /\ ptr \notin Moving
      BY <1>0, <2>1 DEF PointersOnce
    <2>3. ptr = <<ptr[1], ptr[2]>> /\ \A i, j : <<i, j>> # << >>
      BY <2>2 DEF Pointer
    <2>4. QED
      BY <2>1, <2>2, <2>3 DEF NoPointer
  <1>4. l \in Locals /\ l.ptr = ptr
    BY <1>0, <1>3 DEF Locals
  <1> HIDE DEF l
  <1>5. Moved(p, "free", l)
    BY <1>0, <1>1, <1>4, TypesGive, Move DEF CleanerPC
  <1>6. /\ Held(p)' = NoBlock /\ Carry(p)' = ptr
        /\ \A y \in Actor \ {p} : Held(y)' = Held(y) /\ Carry(y)' = Carry(y)
    BY <1>0, <1>4, <1>5, OthersHold
  <1>7. Hands'
    BY <1>0, <1>1, <1>3, <1>4, <1>5, Numbers, HandsMove DEF Busy
  <1>8. /\ b <= never_allocated /\ b \notin Range(first_free)
        /\ \A u \in Item : b \notin OnList(u)
        /\ \A y \in Actor : Held(y) = b => y = p
    BY <1>0, <1>2 DEF BlocksOnce
  <1>9. /\ Range(first_free)' = {b} \cup Range(first_free) /\ Once(first_free)'
        /\ \A u \in Item : OnList(u)' = OnList(u)
    <2>1. first_free \in Seq(Block) /\ Once(first_free)
      BY <1>0, Shelves DEF BlocksOnce
    <2>2. Range(<<b>> \o first_free) = {b} \cup Range(first_free) /\ Once(<<b>> \o first_free)
      BY <1>2, <1>8, <2>1, Pushed
    <2>3. QED
      BY <1>1, <2>2 DEF OnList
  <1>10. BlocksOnce'
    <2>1. ASSUME NEW y \in Actor, Held(y)' # NoBlock
          PROVE  /\ Held(y)' <= never_allocated' /\ Held(y)' \notin Range(first_free)'
                 /\ \A u \in Item : Held(y)' \notin OnList(u)'
                 /\ \A z \in Actor : Held(z)' = Held(y)' => z = y
      <3>1. y # p /\ Held(y)' = Held(y) /\ Held(y) # b
        BY <1>6, <1>8, <2>1
      <3>2. QED
        BY <1>0, <1>1, <1>6, <1>9, <2>1, <3>1 DEF BlocksOnce
    <2>2. \A u \in Item : /\ Once(freelists[u])'
                          /\ \A c \in OnList(u)' : c <= never_allocated' /\ c \notin Range(first_free)'
      BY <1>0, <1>1, <1>8, <1>9 DEF BlocksOnce
    <2>3. QED
      BY <1>0, <1>1, <1>8, <1>9, <2>1, <2>2 DEF BlocksOnce
  <1>11. Full' = Full \ {b}
    <2>1. \A q \in Proc : Held(q)' = IF q = p THEN NoBlock ELSE Held(q)
      BY <1>6, Homes
    <2>2. \A q \in Proc : Held(q) = b => q = p
      BY <1>8, Homes
    <2>3. Full' \subseteq Full \ {b}
      BY <1>2, <1>8, <1>9, <2>1, <2>2 DEF Full, Block, NoBlock
    <2>4. Full \ {b} \subseteq Full'
      BY <1>2, <1>9, <2>1 DEF Full
    <2>5. QED
      BY <2>3, <2>4
  <1>12. Boxed' = Boxed \ {ptr}
    <2>1. \A c \in Full : free_ptr[c] = ptr <=> c = b
      BY <1>0, <1>2, <1>a DEF PointersOnce
    <2>2. QED
      BY <1>1, <1>11, <2>1 DEF Boxed
  <1>13. Moving' = Moving \cup {ptr}
    BY <1>0, <1>2, <1>3, <1>6, MovingMoves
  <1>14. Given' = Given /\ Allocated' = Allocated /\ Carriers' = Carriers /\ UNCHANGED <<live, reclaimed, dropped>>
    BY <1>1 DEF Given, Allocated, Carriers, pool, history
  <1>15. PointersOnce'
    <2>1. \A x, y \in Actor : Carry(x)' = Carry(y)' /\ Carry(x)' # NoPointer => x = y
      <3>1. \A y \in Actor : Carry(y) # ptr
        BY <1>3 DEF Moving
      <3>2. QED
        BY <1>0, <1>6, <3>1 DEF PointersOnce
    <2>2. \A u \in Item : \A c \in OnList(u)' : free_ptr'[c] \in Pointer /\ free_ptr'[c][1] = u
      BY <1>0, <1>1, <1>9 DEF PointersOnce
    <2>3. \A c, d \in Full' : free_ptr'[c] = free_ptr'[d] => c = d
      BY <1>0, <1>1, <1>11 DEF PointersOnce
    <2>4. QED
      BY <1>0, <1>3, <1>12, <1>13, <1>14, <2>1, <2>2, <2>3 DEF PointersOnce
  <1>16. Balance'
    <2>1. Lost' \subseteq Lost
      BY <1>12, <1>13, <1>14 DEF Lost
    <2>2. QED
      BY <1>0, <1>1, <1>14, <2>1, NoneLost DEF Balance
  <1>17. Standing'
    BY <1>0, <1>1, <1>5, CleanerStands
  <1>18. QED
    BY <1>3, <1>7, <1>10, <1>12, <1>13, <1>14, <1>15, <1>16, <1>17 DEF FInv, Stays, Pending

\* ... and the pointer is given back.
LEMMA CleanerFreeLists ==
  ASSUME IInv, FInv, NEW p \in Proc, CleanerFree(p)
  PROVE  /\ FInv' /\ Allocated' = Allocated
         /\ \/ Pending' = Pending /\ UNCHANGED reclaimed
            \/ /\ loc[p].ptr \in Pointer \cap Pending /\ Pending' = Pending \ {loc[p].ptr}
               /\ reclaimed' = [reclaimed EXCEPT ![loc[p].ptr] = @ + 1]
  <1>a. PICK ptr : ptr = loc[p].ptr
    OBVIOUS
  <1>0. /\ Types /\ p \in Actor /\ p \notin User
        /\ Hands /\ BlocksOnce /\ PointersOnce /\ Standing /\ Balance
        /\ pc[p] = "free" /\ pc[p] # "off" /\ reclaimed \in [Pointer -> Nat]
    BY Homes DEF IInv, FInv, CleanerFree, Types, HistoryTypes
  <1>1. /\ UNCHANGED <<items, life, blocks, pool, handle, live, dropped, events>>
        /\ reclaimed' = [reclaimed EXCEPT ![ptr] = @ + 1]
        /\ Goto(p, "sleep") /\ With(p, NoLocals)
    BY <1>a DEF CleanerFree
  <1>2. UNCHANGED <<freelists, first_free, never_allocated, free_ptr>>
    BY <1>1 DEF blocks
  <1>3. Moved(p, "sleep", NoLocals) /\ NoLocals.ptr = NoPointer
    BY <1>0, <1>1, TypesGive, Move, Nothing DEF CleanerPC, NoLocals
  <1>4. /\ Held(p)' = NoBlock /\ Held(p) = NoBlock /\ Carry(p)' = NoPointer /\ Carry(p) = ptr
        /\ \A y \in Actor \ {p} : Held(y)' = Held(y) /\ Carry(y)' = Carry(y)
    BY <1>0, <1>3, <1>a, OthersHold DEF Held, Carry
  <1>5. Hands'
    BY <1>0, <1>2, <1>3, Numbers, HandsMove
  <1>6. /\ \A s \in Item : OnList(s)' = OnList(s)
        /\ Full' = Full /\ Boxed' = Boxed /\ Allocated' = Allocated /\ Carriers' = Carriers
    <2>1. \A s \in Item : OnList(s)' = OnList(s)
      BY <1>2 DEF OnList
    <2>2. Full' = Full
      BY <1>4, <2>1, Homes DEF Full
    <2>3. QED
      BY <1>1, <1>2, <2>1, <2>2 DEF Boxed, Allocated, pool, Carriers
  <1>7. BlocksOnce'
    BY <1>0, <1>2, <1>4, <1>6 DEF BlocksOnce
  <1>8. Moving' = Moving \ {ptr}
    BY <1>0, <1>4, MovingMoves
  <1>9. CASE ptr \in Pointer /\ ptr # NoPointer
    <2>1. ptr \in Moving /\ ptr \in Allocated /\ ptr \notin live \cup Boxed \cup Given \cup dropped
      <3>1. ptr \in Moving
        BY <1>0, <1>4, <1>9 DEF Moving
      <3>2. QED
        BY <1>0, <3>1 DEF PointersOnce
    <2>2. reclaimed[ptr] = 0 /\ reclaimed' = [reclaimed EXCEPT ![ptr] = 1]
      <3>1. ptr \notin Given
        BY <2>1
      <3>2. reclaimed[ptr] = 0
        BY <1>9, <3>1 DEF Given
      <3>3. QED
        BY <1>1, <3>2
    <2>3. Given' = Given \cup {ptr} /\ \A q \in Pointer : reclaimed'[q] \in {0, 1}
      BY <1>0, <1>9, <2>2 DEF Given, PointersOnce
    <2>4. PointersOnce'
      <3>1. \A x, y \in Actor : Carry(x)' = Carry(y)' /\ Carry(x)' # NoPointer => x = y
        BY <1>0, <1>4 DEF PointersOnce
      <3>2. \A u \in Item : \A c \in OnList(u)' : free_ptr'[c] \in Pointer /\ free_ptr'[c][1] = u
        BY <1>0, <1>2, <1>6 DEF PointersOnce
      <3>3. \A c, d \in Full' : free_ptr'[c] = free_ptr'[d] => c = d
        BY <1>0, <1>2, <1>6 DEF PointersOnce
      <3>4. QED
        BY <1>0, <1>1, <1>6, <1>8, <2>1, <2>3, <3>1, <3>2, <3>3 DEF PointersOnce
    <2>5. Lost' \subseteq Lost
      BY <1>1, <1>6, <1>8, <2>3 DEF Lost
    <2>6. Balance'
      BY <1>0, <1>1, <1>2, <1>6, <2>5, NoneLost DEF Balance
    <2>7. QED
      <3>1. Standing'
        BY <1>0, <1>1, <1>3, CleanerStands
      <3>2. ptr \in Pending /\ Pending' = Pending \ {ptr}
        BY <1>6, <1>8, <2>1 DEF Pending
      <3>3. QED
        BY <1>a, <1>1, <1>5, <1>6, <1>7, <1>9, <2>4, <2>6, <3>1, <3>2 DEF FInv
  <1>10. CASE ptr = NoPointer
    <2>1. \A q \in Pointer : q # ptr
      <3>1. \A q \in Pointer : q = <<q[1], q[2]>>
        BY DEF Pointer
      <3>2. \A i, j : <<i, j>> # << >>
        OBVIOUS
      <3>3. QED
        BY <1>10, <3>1, <3>2 DEF NoPointer
    <2>2. reclaimed' = reclaimed
      BY <1>0, <1>1, <2>1
    <2>3. \A x \in Actor : Held(x)' = Held(x) /\ Carry(x)' = Carry(x)
      BY <1>4, <1>10
    <2>4. Stock' /\ Stays
      BY <1>0, <1>1, <1>6, <2>2, <2>3, Steady DEF Stock
    <2>5. QED
      BY <1>5, <2>2, <2>4, <1>0, <1>1, <1>3, CleanerStands DEF FInv, Stock, Stays
  <1>11. ptr = NoPointer \/ ptr \in Pointer
    BY <1>0, <1>4 DEF Hands
  <1>12. QED
    BY <1>9, <1>10, <1>11

-----------------------------------------------------------------------------
(* Death and birth *)

\* The pointer a thread or a cleaner can lose: the one it carries, or the one in
\* the block it has popped.
Loses(x) == IF pc[x] = "fba" THEN free_ptr[Held(x)] ELSE Carry(x)

\* As many pointers are lost as there are threads, at most.
LEMMA LossBounded ==
  ASSUME Balance, NEW C \in SUBSET Actor, C \cap Carriers = {}, Carriers' = Carriers \cup C,
         Lost' \subseteq Lost \cup {Loses(x) : x \in C}, UNCHANGED <<dropped, never_allocated>>
  PROVE  Balance'
  <1> DEFINE S == {Loses(x) : x \in C}
             f == [x \in C |-> Loses(x)]
  <1>1. IsFiniteSet(C) /\ IsFiniteSet(Lost) /\ IsFiniteSet(Carriers)
    BY Finite, FS_Subset
  <1>2. f \in Surjection(C, S)
    BY DEF Surjection
  <1> HIDE DEF S, f
  <1>3. IsFiniteSet(S) /\ Cardinality(S) <= Cardinality(C)
    BY <1>1, <1>2, FS_Surjection
  <1>4. /\ IsFiniteSet(Lost \cup S)
        /\ Cardinality(Lost \cup S) = Cardinality(Lost) + Cardinality(S) - Cardinality(Lost \cap S)
    BY <1>1, <1>3, FS_Union
  <1>5. Cardinality(Carriers') = Cardinality(Carriers) + Cardinality(C)
    <2>1. Cardinality(Carriers \cup C) = Cardinality(Carriers) + Cardinality(C) - Cardinality(Carriers \cap C)
      BY <1>1, FS_Union
    <2>2. Carriers \cap C = {}
      OBVIOUS
    <2>a. Cardinality(Carriers \cap C) = 0
      BY <2>2, FS_EmptySet
    <2>3. Cardinality(Carriers) \in Nat /\ Cardinality(C) \in Nat
      BY <1>1, FS_CardinalityType
    <2>b. Cardinality(Carriers') = Cardinality(Carriers \cup C)
      OBVIOUS
    <2>4. QED
      BY <2>1, <2>a, <2>b, <2>3
  <1>6. Lost' \subseteq Lost \cup S
    BY DEF S
  <1>7. IsFiniteSet(Lost') /\ Cardinality(Lost') <= Cardinality(Lost \cup S)
    BY <1>4, <1>6, FS_Subset
  <1>8. IsFiniteSet(Lost \cap S)
    BY <1>1, FS_Subset
  <1>9. /\ Cardinality(Lost) \in Nat /\ Cardinality(S) \in Nat /\ Cardinality(Lost \cap S) \in Nat
        /\ Cardinality(Lost') \in Nat /\ Cardinality(Carriers) \in Nat /\ Cardinality(C) \in Nat
        /\ Cardinality(Lost) <= Cardinality(Carriers)
    BY <1>1, <1>3, <1>7, <1>8, FS_CardinalityType DEF Balance
  <1>10. Cardinality(Lost') <= Cardinality(Carriers')
    BY <1>3, <1>4, <1>5, <1>7, <1>9
  <1>11. QED
    BY <1>10 DEF Balance

\* A process dies with its threads.
LEMMA VanishLists ==
  ASSUME IInv, FInv, NEW p \in Proc, Vanish(p), life[p] = "up",
         UNCHANGED <<items, blocks, pool, history>>
  PROVE  /\ FInv' /\ Allocated' = Allocated
         /\ Pending' \subseteq Pending /\ Pending \ Pending' \subseteq {Loses(x) : x \in Crew(p)}
  <1>0. Types /\ Carried /\ Hands /\ BlocksOnce /\ PointersOnce /\ Standing /\ Balance
    BY DEF IInv, FInv
  <1>1. /\ UNCHANGED <<freelists, first_free, never_allocated, free_ptr>>
        /\ UNCHANGED <<heap, shelf, next_free, live, reclaimed, dropped>>
    BY DEF blocks, pool, history
  <1>2. /\ \A x \in Crew(p) : pc'[x] \in {"idle", "off"} /\ loc'[x] = NoLocals
        /\ \A x \in Actor \ Crew(p) : pc'[x] = pc[x] /\ loc'[x] = loc[x]
    BY DEF Vanish, Crew
  <1>3. /\ \A x \in Crew(p) : Held(x)' = NoBlock /\ Carry(x)' = NoPointer
        /\ \A x \in Actor \ Crew(p) : Held(x)' = Held(x) /\ Carry(x)' = Carry(x)
    BY <1>2 DEF Held, Carry, NoLocals
  <1>4. Crew(p) \subseteq Actor /\ p \in Crew(p)
    BY Homes DEF Crew
  <1>5. Hands'
    <2>1. \A x \in Actor : Carry(x)' # NoPointer => pc'[x] \in Busy \ {"fba"} /\ Carry(x)' \in Pointer
      BY <1>0, <1>2, <1>3 DEF Hands
    <2>2. \A x \in Actor : Held(x)' # NoBlock => Held(x)' \in Block
      BY <1>0, <1>3 DEF Hands
    <2>3. \A t \in User : pc'[t] = "raise" => loc'[t].blk <= never_allocated'
      BY <1>0, <1>1, <1>2, Homes DEF Hands
    <2>4. QED
      BY <2>1, <2>2, <2>3 DEF Hands
  <1>6. \A s \in Item : OnList(s)' = OnList(s)
    BY <1>1 DEF OnList
  <1>7. BlocksOnce'
    <2>1. ASSUME NEW x \in Actor, Held(x)' # NoBlock
          PROVE  /\ Held(x)' <= never_allocated' /\ Held(x)' \notin Range(first_free)'
                 /\ \A s \in Item : Held(x)' \notin OnList(s)'
                 /\ \A y \in Actor : Held(y)' = Held(x)' => y = x
      <3>1. Held(x)' = Held(x) /\ \A y \in Actor : Held(y)' = Held(x)' => Held(y) = Held(x)
        BY <1>3, <2>1
      <3>2. QED
        BY <1>0, <1>1, <1>6, <2>1, <3>1 DEF BlocksOnce
    <2>2. \A s \in Item : /\ Once(freelists[s])'
                          /\ \A b \in OnList(s)' : b <= never_allocated' /\ b \notin Range(first_free)'
      BY <1>0, <1>1, <1>6 DEF BlocksOnce
    <2>3. QED
      <3>1. \A s, u \in Item : s # u => OnList(s)' \cap OnList(u)' = {}
        BY <1>0, <1>6 DEF BlocksOnce
      <3>2. Once(first_free)' /\ \A b \in Range(first_free)' : b <= never_allocated'
        BY <1>0, <1>1 DEF BlocksOnce
      <3>3. QED
        BY <2>1, <2>2, <3>1, <3>2 DEF BlocksOnce
  <1>8. Full' \subseteq Full /\ Full \ {Held(p)} \subseteq Full'
    <2>1. \A q \in Proc : q # p => Held(q)' = Held(q)
      BY <1>3, Homes DEF Crew
    <2>2. Held(p)' \notin Block
      BY <1>3, <1>4 DEF Block, NoBlock
    <2>3. QED
      BY <1>6, <2>1, <2>2 DEF Full
  <1>9. /\ Boxed' \subseteq Boxed /\ Moving' \subseteq Moving
        /\ Given' = Given /\ Allocated' = Allocated
    BY <1>1, <1>3, <1>8 DEF Boxed, Moving, Given, Allocated
  <1>10. PointersOnce'
    <2>1. \A s \in Item : \A b \in OnList(s)' : free_ptr'[b] \in Pointer /\ free_ptr'[b][1] = s
      BY <1>0, <1>1, <1>6 DEF PointersOnce
    <2>2. \A b, c \in Full' : free_ptr'[b] = free_ptr'[c] => b = c
      BY <1>0, <1>1, <1>8 DEF PointersOnce
    <2>3. \A x, y \in Actor : Carry(x)' = Carry(y)' /\ Carry(x)' # NoPointer => x = y
      BY <1>0, <1>3 DEF PointersOnce
    <2>4. QED
      BY <1>0, <1>1, <1>9, <2>1, <2>2, <2>3 DEF PointersOnce
  <1>11. /\ Lost' \subseteq Lost \cup {Loses(x) : x \in Crew(p)}
         /\ Pending \ Pending' \subseteq {Loses(x) : x \in Crew(p)}
    <2>1. ASSUME NEW ptr \in Moving, ptr \notin Moving' PROVE \E x \in Crew(p) : ptr = Loses(x)
      <3>1. PICK x \in Actor : ptr = Carry(x) /\ ptr # NoPointer
        BY <2>1 DEF Moving
      <3>2. x \in Crew(p)
        BY <1>3, <2>1, <3>1 DEF Moving
      <3>3. Loses(x) = Carry(x)
        BY <1>0, <3>1 DEF Hands, Loses
      <3>4. QED
        BY <3>1, <3>2, <3>3
    <2>2. ASSUME NEW ptr \in Boxed, ptr \notin Boxed' PROVE ptr = Loses(p)
      <3>1. PICK b \in Full : ptr = free_ptr[b]
        BY <2>2 DEF Boxed
      <3>2. b \notin Full'
        BY <1>1, <2>2, <3>1 DEF Boxed
      <3>3. b = Held(p) /\ b # NoBlock
        BY <1>8, <3>2 DEF Full, Block, NoBlock
      <3>4. pc[p] = "fba"
        BY <1>0, <3>3, InHands
      <3>5. QED
        BY <3>1, <3>3, <3>4 DEF Loses
    <2>3. Lost' \subseteq Lost \cup (Moving \ Moving') \cup (Boxed \ Boxed')
      BY <1>1, <1>9 DEF Lost
    <2>4. \A ptr \in Pending \ Pending' : \E x \in Crew(p) : ptr = Loses(x)
      BY <1>4, <2>1, <2>2 DEF Pending
    <2>5. QED
      BY <1>4, <2>1, <2>2, <2>3, <2>4
  <1>12. Balance'
    <2>1. life \in [Proc -> {"new", "up", "dead"}] /\ life' = [life EXCEPT ![p] = "dead"]
      BY <1>0 DEF Types, ProcTypes, Vanish
    <2>2. \A x \in Actor : Home(x) \in Proc
      BY Homes
    <2>3. Carriers' = Carriers \cup Crew(p)
      BY <2>1, <2>2 DEF Carriers, Crew
    <2>4. Crew(p) \cap Carriers = {}
      BY DEF Carriers, Crew
    <2>5. QED
      BY <1>0, <1>1, <1>4, <1>11, <2>3, <2>4, LossBounded
  <1>13. Standing'
    <2>1. /\ \A t \in User : home[t] = p => pc'[t] \in {"idle", "off"} /\ pc'[t] # "off"
          /\ \A t \in User : home[t] # p => pc'[t] = pc[t] /\ loc'[t] = loc[t]
          /\ \A q \in Proc : q # p => pc'[q] = pc[q]
      BY <1>0, <1>2, Homes, VanishMoves DEF Crew
    <2>2. \A t \in User : Opening(t)' => Opening(t) /\ home[t] # p
      BY <2>1 DEF Opening, Locking, LockPC, ScanPC, OwnPC
    <2>3. \A q \in Proc : map'[q] \subseteq shelf' /\ (is_open'[q] => heap' = "ready")
      BY <1>0, <1>1, TypesGive DEF Vanish, Standing
    <2>4. \A t \in User : /\ pc'[t] = "format" => heap' = "raw"
                          /\ pc'[t] = "destroy" => heap' = "dying"
                          /\ pc'[t] \notin {"idle", "format", "destroy"} => heap' = "ready"
                          /\ pc'[t] \in {"take", "open"} => loc'[t].s \in shelf'
      BY <1>0, <1>1, <2>1 DEF Standing
    <2>5. \A t \in User : Opening(t)' => pc'[home[t]] = "off"
      BY <1>0, <2>1, <2>2, Homes DEF Standing
    <2>6. QED
      BY <1>0, <1>1, <2>3, <2>4, <2>5 DEF Standing
  <1>14. QED
    <2>1. Pending' \subseteq Pending
      BY <1>9 DEF Pending
    <2>2. QED
      BY <1>5, <1>7, <1>9, <1>10, <1>11, <1>12, <1>13, <2>1 DEF FInv

\* A process starts: nobody has died.
LEMMA StartLists ==
  ASSUME IInv, FInv, NEW p \in Proc, Start(p)
  PROVE  FInv' /\ Stays
  <1>1. UNCHANGED <<items, blocks, pool, handle, pc, loc, history, events>> /\ Birth(p)
    BY DEF Start
  <1>2. Carriers' = Carriers
    <2>1. life \in [Proc -> {"new", "up", "dead"}] /\ life[p] = "new" /\ life' = [life EXCEPT ![p] = "up"]
      BY <1>1 DEF IInv, Types, ProcTypes, Birth
    <2>2. \A x \in Actor : Home(x) \in Proc
      BY Homes
    <2>3. QED
      BY <2>1, <2>2 DEF Carriers
  <1>3. Allocated' = Allocated /\ \A x \in Actor : Plain(x)
    BY <1>1 DEF Allocated, pool, Plain
  <1>4. Hands' /\ Stock' /\ Stays
    BY <1>1, <1>2, <1>3, PlainStep DEF FInv, Stock, history
  <1>5. Standing'
    BY <1>1 DEF FInv, Standing, pool, handle, Opening, Locking
  <1>6. QED
    BY <1>4, <1>5 DEF FInv, Stock

-----------------------------------------------------------------------------
(* Create and Destroy *)

\* Nobody is at work, before or after the step, but the thread that creates or
\* destroys the heap.
LEMMA Nobody ==
  ASSUME Types, Hands, NEW t \in User, \A u \in User \ {t} : pc[u] = "idle",
         \A p \in Proc : pc[p] = "off", pc[t] \notin Busy
  PROVE  \A x \in Actor : Held(x) = NoBlock /\ Carry(x) = NoPointer
  <1>1. \A x \in Actor : pc[x] \notin Busy
    BY Homes DEF Busy, PutPC
  <1>2. QED
    BY <1>1 DEF Hands, Held, Busy, PutPC

\* ... begin ...
LEMMA FormLists ==
  ASSUME IInv, FInv, NEW t \in User, CreatePool(t) \/ Destroy(t)
  PROVE  FInv' /\ Stays
  <1>0. Types /\ Hands /\ Stock /\ Standing
    BY DEF IInv, FInv, Stock
  <1>1. /\ UNCHANGED <<items, life, blocks, shelf, next_free, handle, loc, history>> /\ Alone
        /\ (heap = "absent" /\ heap' = "raw" /\ Goto(t, "format"))
             \/ (heap' = "dying" /\ Goto(t, "destroy"))
    BY DEF CreatePool, Destroy
  <1>2. /\ \A u \in User : pc[u] = "idle"
        /\ \A p \in Proc : pc[p] = "off" /\ ~is_open[p]
    BY <1>1, Homes DEF Alone, Quiet
  <1>3. /\ \A x \in Actor \ {t} : pc'[x] = pc[x]
        /\ (heap = "absent" /\ heap' = "raw" /\ pc'[t] = "format")
             \/ (heap' = "dying" /\ pc'[t] = "destroy")
    BY <1>0, <1>1, Homes, TypesGive, GotoMoves DEF UserPC, Moved
  <1>4. \A x \in Actor : Plain(x)
    <2>1. pc[t] \notin Busy /\ pc'[t] \notin Busy /\ Carry(t)' = Carry(t)
      BY <1>1, <1>2, <1>3 DEF Busy, PutPC, Carry
    <2>2. Carry(t) = NoPointer
      BY <1>0, <2>1, Homes DEF Hands
    <2>3. QED
      BY <1>1, <1>3, <2>1, <2>2 DEF Plain
  <1>5. Hands' /\ Stock' /\ Stays
    BY <1>0, <1>1, <1>4, PlainStep DEF history, Allocated, Carriers
  <1>6. Standing'
    <2>1. \A u \in User \ {t} : pc'[u] = "idle"
      BY <1>2, <1>3, Homes
    <2>2. \A u \in User : ~Opening(u)'
      BY <1>3, <2>1 DEF Opening, Locking, LockPC, ScanPC, OwnPC
    <2>3. \A p \in Proc : map'[p] \subseteq shelf' /\ ~is_open'[p]
      BY <1>0, <1>1, <1>2 DEF Standing, handle
    <2>4. \A s \in Item : heap' \in {"absent", "raw"} \/ (heap' = "ready" /\ s \notin shelf')
                            => next_free'[s] = 0
      BY <1>0, <1>1, <1>3 DEF Standing
    <2>5. QED
      BY <1>3, <2>1, <2>2, <2>3, <2>4 DEF Standing
  <1>7. QED
    BY <1>5, <1>6 DEF FInv, Stock

\* ... and end: the heap is blank.
LEMMA FormedLists ==
  ASSUME IInv, FInv, NEW t \in User, Format(t) \/ DestroyPool(t)
  PROVE  /\ FInv' /\ Pending' = {} /\ Allocated' = {}
         /\ live' = {} /\ dropped' = {} /\ reclaimed' = [ptr \in Pointer |-> 0]
  <1>0. Types /\ Hands /\ PointersOnce /\ Standing /\ Forming(t)
    BY DEF IInv, FInv, Format, DestroyPool, Forming
  <1>1. /\ UNCHANGED <<life, shelf, handle>> /\ FreeListsClear /\ Done(t)
        /\ Moved(t, "idle", NoLocals)
    BY <1>0, DoneMoves DEF Format, DestroyPool
  <1>2. /\ \A u \in User : pc'[u] = "idle"
        /\ \A p \in Proc : pc'[p] = "off" /\ ~is_open'[p]
    BY <1>0, <1>1, Homes DEF Moved, IInv, Working, handle
  <1>3. \A x \in Actor : Held(x)' = NoBlock /\ Carry(x)' = NoPointer
    <2>1. pc[t] \notin Busy /\ \A u \in User \ {t} : pc[u] = "idle"
      BY <1>0 DEF Forming, Busy, PutPC, IInv, Working
    <2>2. \A p \in Proc : pc[p] = "off"
      BY <1>0 DEF IInv, Working
    <2>3. \A x \in Actor : Held(x) = NoBlock /\ Carry(x) = NoPointer
      BY <1>0, <2>1, <2>2, Nobody
    <2>4. /\ Held(t)' = NoBlock /\ Carry(t)' = NoPointer
          /\ \A y \in Actor \ {t} : Held(y)' = Held(y) /\ Carry(y)' = Carry(y)
      BY <1>1, Homes, OthersHold DEF NoLocals
    <2>5. QED
      BY <2>3, <2>4
  <1>4. /\ \A s \in Item : next_free'[s] = 0
        /\ live' = {} /\ dropped' = {} /\ reclaimed' = [ptr \in Pointer |-> 0]
    <2>1. CASE Format(t)
      <3>1. heap = "raw" /\ UNCHANGED <<next_free, live, dropped, reclaimed>>
        BY <1>0, <2>1 DEF Format, Standing, history
      <3>2. \A s \in Item : next_free[s] = 0
        BY <1>0, <3>1 DEF Standing
      <3>3. \A ptr \in Pointer : ptr[1] \in Item /\ ptr[2] \in Nat
        BY DistHeapAssumption DEF Pointer
      <3>4. Allocated = {}
        BY <3>2, <3>3 DEF Allocated
      <3>5. live = {} /\ dropped = {} /\ Given = {}
        BY <1>0, <3>4 DEF PointersOnce
      <3>6. reclaimed \in [Pointer -> Nat] /\ \A ptr \in Pointer : reclaimed[ptr] = 0
        BY <1>0, <3>5 DEF Given, Types, HistoryTypes
      <3>7. reclaimed = [ptr \in Pointer |-> 0]
        BY <3>6
      <3>8. QED
        BY <3>1, <3>2, <3>5, <3>7
    <2>2. CASE DestroyPool(t)
      BY <2>2 DEF DestroyPool
    <2>3. QED
      BY <2>1, <2>2
  <1>5. Blank'
    <2>1. (\A s \in Item : freelists'[s] = << >>) /\ first_free' = << >>
      BY <1>0, <1>1, Shelves DEF FreeListsClear
    <2>2. QED
      BY <1>3, <1>4, <2>1 DEF Blank
  <1>6. BlocksOnce' /\ PointersOnce' /\ Balance'
    <2>1. (Blank => BlocksOnce /\ PointersOnce /\ Balance)'
      BY BlankOnce, PTL
    <2>2. QED
      BY <1>5, <2>1
  <1>7. Hands'
    BY <1>2, <1>3 DEF Hands
  <1>8. Standing'
    <2>1. \A u \in User : ~Opening(u)'
      BY <1>2 DEF Opening, Locking, LockPC, ScanPC, OwnPC
    <2>2. \A p \in Proc : map'[p] \subseteq shelf'
      BY <1>0, <1>1 DEF Standing, handle
    <2>3. QED
      BY <1>2, <1>4, <2>1, <2>2 DEF Standing
  <1>9. QED
    <2>1. (Blank => Pending = {} /\ Allocated = {})'
      BY BlankOnce, PTL
    <2>2. QED
      BY <1>4, <1>5, <1>6, <1>7, <1>8, <2>1 DEF FInv

\* A shelf is removed when nobody maps one.
LEMMA RemoveShelfLists ==
  ASSUME IInv, FInv, NEW t \in User, RemoveShelf(t)
  PROVE  FInv' /\ Stays
  <1>0. Hands /\ Stock /\ Standing /\ Forming(t) /\ pc[t] = "destroy"
    BY DEF FInv, Stock, RemoveShelf, Forming
  <1>1. /\ UNCHANGED <<items, life, blocks, heap, next_free, handle, pc, loc, history, events>>
        /\ shelf' \subseteq shelf
    BY DEF RemoveShelf
  <1>2. \A x \in Actor : Plain(x)
    BY <1>1 DEF Plain
  <1>3. Hands' /\ Stock' /\ Stays
    BY <1>0, <1>1, <1>2, PlainStep DEF history, Allocated, Carriers
  <1>4. Standing'
    <2>1. heap = "dying" /\ \A u \in User \ {t} : pc[u] = "idle"
      BY <1>0 DEF Standing, IInv, Working
    <2>2. \A p \in Proc : ~is_open[p] /\ map[p] = {}
      BY <1>0 DEF IInv, Working, Mapped
    <2>3. \A u \in User : ~Opening(u)'
      BY <1>0, <1>1, <2>1 DEF Opening, Locking, LockPC, ScanPC, OwnPC
    <2>4. QED
      BY <1>0, <1>1, <2>1, <2>2, <2>3 DEF Standing, handle
  <1>5. QED
    BY <1>3, <1>4 DEF FInv, Stock

-----------------------------------------------------------------------------
(* The invariant, and the theorem *)

LEMMA FInductive == IInv /\ FInv /\ [Next]_vars => FInv'
  <1> SUFFICES ASSUME IInv, FInv, [Next]_vars PROVE FInv'
    OBVIOUS
  <1>1. CASE UNCHANGED vars
    <2>1. UNCHANGED <<items, life, blocks, pool, handle, pc, loc, history, events>>
      BY <1>1 DEF vars
    <2>2. UNCHANGED <<live, reclaimed, dropped, heap, shelf, next_free, map, is_open>>
      BY <2>1 DEF history, pool, handle
    <2>3. Allocated' = Allocated /\ Carriers' = Carriers /\ \A x \in Actor : Plain(x)
      BY <2>1, <2>2 DEF Allocated, Carriers, Plain
    <2>4. Hands' /\ Stock'
      BY <2>1, <2>2, <2>3, PlainStep DEF FInv, Stock
    <2>5. Standing'
      BY <2>1, <2>2 DEF FInv, Standing, Opening, Locking
    <2>6. QED
      BY <2>4, <2>5 DEF FInv, Stock
  <1>2. ASSUME NEW t \in User, LifeCycle(t) PROVE FInv'
    BY <1>2, FormLists, FormedLists, RemoveShelfLists, OpenHeapLists, CloseHeapLists,
       CloseMappedLists DEF LifeCycle
  <1>3. ASSUME NEW t \in User, AcquireShelfHeap(t) PROVE FInv'
    BY <1>3, CheckLists, AcquireLists, AddShelfLists, AddFailedLists DEF AcquireShelfHeap
  <1>4. ASSUME NEW t \in User, AllocStep(t) PROVE FInv'
    <2>1. CASE Abort(t)
      <3>1. pc[t] = "release" => life[home[t]] = "up"
        BY DEF IInv, Running
      <3>2. QED
        BY <2>1, <3>1, Homes, VanishLists DEF Abort
    <2>2. QED
      BY <1>4, <2>1, AllocLists, AllocWantLists, OpenShelfHeapLists, OpenShelfFailsLists,
         GiveUpLists DEF AllocStep, ReleaseShelfHeap
  <1>5. ASSUME NEW t \in User, PutPointer(t) PROVE FInv'
    BY <1>5, PutReuseLists, PutWatermarkLists, PutRaiseLists, PutDropLists, PutPushLists
    DEF PutPointer
  <1>6. ASSUME NEW t \in User, NEW ptr \in Pointer, Free(t, ptr) PROVE FInv'
    BY <1>6, FreeKeepsLists
  <1>7. ASSUME NEW p \in Proc, Die(p) PROVE FInv'
    BY <1>7, VanishLists DEF Die
  <1>8. ASSUME NEW p \in Proc, BackgroundWorker(p) PROVE FInv'
    <2>1. CASE RecoverAborts(p)
      <3>1. pc[p] # "off" => life[p] = "up"
        BY DEF IInv, Running
      <3>2. QED
        BY <2>1, <3>1, VanishLists DEF RecoverAborts
    <2>2. CASE GetPointer(p) \/ GetFree(p) \/ CleanerFree(p)
      BY <2>2, GetPointerLists, GetFreeLists, CleanerFreeLists
    <2>3. CASE RevokeCheck(p) \/ CleanerStop(p) \/ RevokeDead(p)
               \/ RevokeTake(p) \/ Recover(p) \/ RevokeSettle(p)
      BY <2>3, ItemsLists
    <2>4. QED
      BY <1>8, <2>1, <2>2, <2>3 DEF BackgroundWorker
  <1>9. QED
    BY <1>1, <1>2, <1>3, <1>4, <1>5, <1>6, <1>7, <1>8, StartLists DEF Next

\* Whoever owns the shelves, or thinks so: a block is in one place; a pointer is
\* freed at most once and where its shelf is mapped, and is lost only with the thread that carried it or when every
\* block has been handed out (FreeLists::PutPointer and GetPointer, DistHeap::Free
\* and BackgroundWorker).
THEOREM FreedOnceTheorem == Spec => []FreedOnce
  <1>1. IInv /\ FInv => FreedOnce
    BY FreedOnceFollows DEF IInv
  <1>2. QED
    BY <1>1, Invariance, FBeginning, FInductive, PTL DEF Spec

-----------------------------------------------------------------------------
(* Every step is one of ObjectHeap, or none                                 *)

Dead == {p \in Proc : life[p] = "dead"}

LEMMA ObjectsAtStart == Init => Objects!Init
  <1> SUFFICES ASSUME Init PROVE Objects!Init
    OBVIOUS
  <1>1. (\A x \in Actor : Held(x) = NoBlock /\ Carry(x) = NoPointer) /\ never_allocated = 0
    BY DEF Init, FreeListsInit, Held, Carry, NoLocals
  <1>2. Blank
    BY <1>1, DistHeapAssumption DEF Init, FreeListsInit, Blank, List, Item
  <1>3. Dead = {}
    BY DEF Init, OwnershipInit, Dead
  <1>4. QED
    BY <1>1, <1>2, <1>3, BlankOnce, FreeListsAssumption DEF Objects!Init, Blank, Dead

\* A step that stays leaves the objects as they are.
LEMMA Stutters ==
  ASSUME Stays, UNCHANGED <<life, never_allocated, live, reclaimed, dropped>>
  PROVE  UNCHANGED Objects!vars
  BY DEF Stays, Objects!vars

\* A step of the search, of Open and Close, or of the life of the heap.
LEMMA CalmObjects ==
  ASSUME IInv, FInv, NEW t \in User,
         \/ CreatePool(t) \/ Destroy(t) \/ RemoveShelf(t)
         \/ OpenHeap(t) \/ CloseHeap(t) \/ CloseMapped(t)
         \/ AcquireShelfHeap(t) \/ AllocWant(t) \/ OpenShelfFails(t) \/ GiveUp(t)
  PROVE  UNCHANGED Objects!vars
  <1>1. Stays
    BY FormLists, RemoveShelfLists, OpenHeapLists, CloseHeapLists, CloseMappedLists,
       CheckLists, AcquireLists, AddShelfLists, AddFailedLists, AllocWantLists,
       OpenShelfFailsLists, GiveUpLists DEF AcquireShelfHeap
  <1>2. UNCHANGED <<life, blocks, history>>
    BY DEF CreatePool, Destroy, RemoveShelf, OpenHeap, CloseHeap, CloseMapped, AcquireShelfHeap,
       Check, Acquire, AddShelf, AddFailed, AllocWant, OpenShelfFails, GiveUp
  <1>3. QED
    BY <1>1, <1>2, Stutters DEF blocks, history

\* Format and DestroyPool.
LEMMA FormedObjects ==
  ASSUME IInv, FInv, NEW t \in User, Format(t) \/ DestroyPool(t)
  PROVE  Objects!Clear
  <1>1. UNCHANGED life /\ never_allocated' = 0
    BY DEF Format, DestroyPool, FreeListsClear
  <1>2. /\ Pending' = {} /\ Allocated' = {} /\ live' = {} /\ dropped' = {}
        /\ reclaimed' = [ptr \in Pointer |-> 0]
    BY FormedLists
  <1>3. QED
    BY <1>1, <1>2, FreeListsAssumption DEF Objects!Clear

\* Alloc, from a shelf that is mapped or from one that was searched for.
LEMMA AllocObjects ==
  ASSUME IInv, FInv, NEW t \in User, Alloc(t) \/ OpenShelfHeap(t)
  PROVE  [Objects!Next]_Objects!vars
  <1>1. Allocates
    BY AllocLists, OpenShelfHeapLists
  <1>2. UNCHANGED <<life, blocks, reclaimed, dropped>>
    BY DEF Alloc, OpenShelfHeap
  <1>3. UNCHANGED <<life, never_allocated, reclaimed, dropped>>
    BY <1>2 DEF blocks
  <1>4. CASE NewObject
    <2>1. PICK ptr \in Pointer : /\ ptr \notin Allocated /\ Allocated' = Allocated \cup {ptr}
                                 /\ live' = live \cup {ptr}
      BY <1>4 DEF NewObject
    <2>2. Objects!Alloc(ptr)
      BY <1>3, <1>4, <2>1 DEF Objects!Alloc, NewObject
    <2>3. QED
      BY <2>2 DEF Objects!Next
  <1>5. CASE Stays /\ UNCHANGED live
    BY <1>3, <1>5, Stutters
  <1>6. QED
    BY <1>1, <1>4, <1>5 DEF Allocates

\* Free, whose pointer is given back at once or is on its way.
LEMMA FreeObjects ==
  ASSUME IInv, FInv, NEW t \in User, NEW ptr \in Pointer, Free(t, ptr)
  PROVE  Objects!Free(ptr)
  <1>1. /\ ptr \in live /\ live' = live \ {ptr}
        /\ UNCHANGED <<life, never_allocated, dropped>>
    BY DEF Free, blocks
  <1>2. /\ Allocated' = Allocated
        /\ \/ Pending' = Pending \cup {ptr} /\ UNCHANGED reclaimed
           \/ Pending' = Pending /\ reclaimed' = [reclaimed EXCEPT ![ptr] = @ + 1]
    BY FreeKeepsLists
  <1>3. QED
    BY <1>1, <1>2 DEF Objects!Free, Objects!GivenBack

\* PutPointer: a block is used up, or there is none for the pointer.
LEMMA PutObjects ==
  ASSUME IInv, FInv, NEW t \in User, PutPointer(t)
  PROVE  [Objects!Next]_Objects!vars
  <1>1. never_allocated \in Nat /\ never_allocated <= BlockCount /\ BlockCount \in Nat
    BY Numbers
  <1>2. CASE PutReuse(t) \/ PutWatermark(t) \/ PutPush(t)
    <2>1. Stays
      BY <1>2, PutReuseLists, PutWatermarkLists, PutPushLists
    <2>2. UNCHANGED <<life, history>> /\ UNCHANGED never_allocated
      BY <1>2 DEF PutReuse, PopFirstFree, PutWatermark, blocks, PutPush, Push
    <2>3. QED
      BY <2>1, <2>2, Stutters DEF history
  <1>3. CASE PutRaise(t)
    <2>1. Stays
      BY <1>3, PutRaiseLists
    <2>2. /\ UNCHANGED <<life, live, reclaimed, dropped>> /\ loc[t].blk < BlockCount
          /\ never_allocated' = IF never_allocated = loc[t].blk THEN loc[t].blk + 1 ELSE never_allocated
      BY <1>3 DEF PutRaise, RaiseWatermark, Raise, history
    <2>3. CASE never_allocated = loc[t].blk
      <3>1. /\ BlockCount - never_allocated > 0
            /\ BlockCount - never_allocated' = (BlockCount - never_allocated) - 1
        BY <1>1, <2>2, <2>3
      <3>2. Objects!UseRoom
        BY <2>1, <2>2, <3>1 DEF Objects!UseRoom, Stays
      <3>3. QED
        BY <3>2 DEF Objects!Next
    <2>4. CASE never_allocated # loc[t].blk
      BY <2>1, <2>2, <2>4, Stutters
    <2>5. QED
      BY <2>3, <2>4
  <1>4. CASE PutDrop(t)
    <2>1. PICK ptr : ptr = loc[t].ptr
      OBVIOUS
    <2>2. /\ UNCHANGED <<life, live, reclaimed>> /\ UNCHANGED never_allocated
          /\ dropped' = dropped \cup {ptr}
      BY <1>4, <2>1 DEF PutDrop, blocks
    <2>3. /\ Allocated' = Allocated /\ ptr \in Pointer \cap Pending /\ Pending' = Pending \ {ptr}
          /\ BlockCount - never_allocated = 0
      BY <1>1, <1>4, <2>1, PutDropLists
    <2>4. Objects!Drop(ptr)
      BY <2>2, <2>3 DEF Objects!Drop
    <2>5. QED
      BY <2>3, <2>4 DEF Objects!Next
  <1>5. QED
    BY <1>2, <1>3, <1>4 DEF PutPointer

\* The cleaner gives a pointer back in its last step; it may abort.
LEMMA WorkerObjects ==
  ASSUME IInv, FInv, NEW p \in Proc, BackgroundWorker(p), ~RecoverAborts(p)
  PROVE  [Objects!Next]_Objects!vars
  <1>1. CASE CleanerFree(p)
    <2>1. PICK ptr : ptr = loc[p].ptr
      OBVIOUS
    <2>2. UNCHANGED <<life, never_allocated, live, dropped>>
      BY <1>1 DEF CleanerFree, blocks
    <2>3. /\ Allocated' = Allocated
          /\ \/ Pending' = Pending /\ UNCHANGED reclaimed
             \/ /\ ptr \in Pointer \cap Pending /\ Pending' = Pending \ {ptr}
                /\ reclaimed' = [reclaimed EXCEPT ![ptr] = @ + 1]
      BY <1>1, <2>1, CleanerFreeLists
    <2>4. CASE Pending' = Pending /\ UNCHANGED reclaimed
      BY <2>2, <2>3, <2>4, Stutters DEF Stays
    <2>5. CASE /\ ptr \in Pointer \cap Pending /\ Pending' = Pending \ {ptr}
               /\ reclaimed' = [reclaimed EXCEPT ![ptr] = @ + 1]
      <3>1. Objects!GiveBack(ptr)
        BY <2>2, <2>3, <2>5 DEF Objects!GiveBack, Objects!GivenBack
      <3>2. QED
        BY <2>5, <3>1 DEF Objects!Next
    <2>6. QED
      BY <2>3, <2>4, <2>5
  <1>2. CASE GetPointer(p) \/ GetFree(p)
    <2>1. Stays
      BY <1>2, GetPointerLists, GetFreeLists
    <2>2. UNCHANGED <<life, history>> /\ UNCHANGED never_allocated
      BY <1>2 DEF GetPointer, Pop, GetFree, FreeBlock, blocks
    <2>3. QED
      BY <2>1, <2>2, Stutters DEF history
  <1>3. CASE RevokeCheck(p) \/ CleanerStop(p) \/ RevokeDead(p)
             \/ RevokeTake(p) \/ Recover(p) \/ RevokeSettle(p)
    <2>1. Stays
      BY <1>3, ItemsLists
    <2>2. UNCHANGED <<life, blocks, history>>
      BY <1>3 DEF RevokeCheck, CleanerStop, RevokeDead, RevokeTake, Recover, RevokeSettle
    <2>3. QED
      BY <2>1, <2>2, Stutters DEF blocks, history
  <1>4. QED
    BY <1>1, <1>2, <1>3 DEF BackgroundWorker

\* A process starts, or dies with what its threads carry.
LEMMA StartObjects ==
  ASSUME IInv, FInv, NEW p \in Proc, Start(p)
  PROVE  UNCHANGED Objects!vars
  <1>1. Stays /\ UNCHANGED <<blocks, history>> /\ Birth(p)
    BY StartLists DEF Start
  <1>2. Dead' = Dead
    <2>1. life \in [Proc -> {"new", "up", "dead"}] /\ life[p] = "new" /\ life' = [life EXCEPT ![p] = "up"]
      BY <1>1 DEF IInv, Types, ProcTypes, Birth
    <2>2. QED
      BY <2>1 DEF Dead
  <1>3. QED
    BY <1>1, <1>2 DEF Stays, Objects!vars, Dead, blocks, history

LEMMA VanishObjects ==
  ASSUME IInv, FInv, NEW p \in Proc, Vanish(p), life[p] = "up",
         UNCHANGED <<items, blocks, pool, history>>
  PROVE  Objects!Die(p)
  <1>1. /\ Allocated' = Allocated
        /\ Pending' \subseteq Pending /\ Pending \ Pending' \subseteq {Loses(x) : x \in Crew(p)}
    BY VanishLists
  <1>2. p \notin Dead /\ Dead' = Dead \cup {p}
    <2>1. life \in [Proc -> {"new", "up", "dead"}] /\ life' = [life EXCEPT ![p] = "dead"]
      BY DEF IInv, Types, ProcTypes, Vanish
    <2>2. QED
      BY <2>1 DEF Dead
  <1>3. UNCHANGED <<never_allocated, live, reclaimed, dropped>>
    BY DEF blocks, history
  <1>4. \E lost \in SUBSET Pending : \E by \in [lost -> Crew(p)] :
          /\ \A x, y \in lost : by[x] = by[y] => x = y
          /\ Pending' = Pending \ lost
    <2> DEFINE lost == Pending \ Pending'
               by == [ptr \in lost |-> CHOOSE x \in Crew(p) : Loses(x) = ptr]
    <2>1. \A ptr \in lost : by[ptr] \in Crew(p) /\ Loses(by[ptr]) = ptr
      BY <1>1
    <2>2. by \in [lost -> Crew(p)]
      BY <2>1
    <2>3. lost \in SUBSET Pending /\ Pending' = Pending \ lost
      BY <1>1
    <2> HIDE DEF lost, by
    <2>4. QED
      BY <2>1, <2>2, <2>3
  <1>5. [q \in Proc |-> Crew(q)][p] = Crew(p)
    OBVIOUS
  <1>6. QED
    BY <1>1, <1>2, <1>3, <1>4, <1>5 DEF Objects!Die, Dead

LEMMA NextObjects == IInv /\ FInv /\ [Next]_vars => [Objects!Next]_Objects!vars
  <1> SUFFICES ASSUME IInv, FInv, [Next]_vars PROVE [Objects!Next]_Objects!vars
    OBVIOUS
  <1>1. CASE UNCHANGED vars
    <2>1. UNCHANGED <<life, blocks, pool, loc, pc, history>>
      BY <1>1 DEF vars
    <2>2. Pending' = Pending
      BY <2>1 DEF Pending, Moving, Boxed, Full, Held, Carry, OnList, blocks
    <2>3. Stays
      BY <2>1, <2>2 DEF Stays, Allocated, pool
    <2>4. QED
      BY <2>1, <2>3, Stutters DEF blocks, history
  <1>2. ASSUME NEW t \in User, LifeCycle(t) PROVE [Objects!Next]_Objects!vars
    BY <1>2, CalmObjects, FormedObjects DEF LifeCycle, Objects!Next
  <1>3. ASSUME NEW t \in User, AcquireShelfHeap(t) PROVE [Objects!Next]_Objects!vars
    BY <1>3, CalmObjects
  <1>4. ASSUME NEW t \in User, AllocStep(t) PROVE [Objects!Next]_Objects!vars
    <2>1. CASE Abort(t)
      <3>1. pc[t] = "release" => life[home[t]] = "up"
        BY DEF IInv, Running
      <3>2. home[t] \in Proc /\ Objects!Die(home[t])
        BY <2>1, <3>1, Homes, VanishObjects DEF Abort
      <3>3. QED
        BY <3>2 DEF Objects!Next
    <2>2. QED
      BY <1>4, <2>1, CalmObjects, AllocObjects DEF AllocStep, ReleaseShelfHeap
  <1>5. ASSUME NEW t \in User, NEW ptr \in Pointer, Free(t, ptr) PROVE [Objects!Next]_Objects!vars
    BY <1>5, FreeObjects DEF Objects!Next
  <1>6. ASSUME NEW p \in Proc, Die(p) \/ RecoverAborts(p) PROVE [Objects!Next]_Objects!vars
    <2>1. life[p] = "up" /\ Vanish(p) /\ UNCHANGED <<items, blocks, pool, history>>
      BY <1>6 DEF Die, RecoverAborts, IInv, Running
    <2>2. QED
      BY <2>1, VanishObjects DEF Objects!Next
  <1>7. ASSUME NEW p \in Proc, BackgroundWorker(p) PROVE [Objects!Next]_Objects!vars
    BY <1>6, <1>7, WorkerObjects
  <1>8. QED
    BY <1>1, <1>2, <1>3, <1>4, <1>5, <1>6, <1>7, PutObjects, StartObjects DEF Next

\* The distributed heap implements ObjectHeap: Alloc and Free of the code are
\* single steps to the application, a pointer that another process frees goes
\* back to its shelf once (FreeLists::PutPointer, BackgroundWorker), is dropped
\* only where no block is left, and a crash loses one pointer a thread at most.
THEOREM Refinement == Spec => ImplementsObjectHeap
  <1>1. QED
    BY ObjectsAtStart, NextObjects, Invariance, FBeginning, FInductive, PTL
    DEF Spec, ImplementsObjectHeap, Objects!Spec
=============================================================================
