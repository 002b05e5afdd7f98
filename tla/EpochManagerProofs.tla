------------------------- MODULE EpochManagerProofs -------------------------
(***************************************************************************)
(* The epoch protocol keeps its promises for any processes, threads, slots *)
(* and bound on the frontier, and implements Epochs, provided that every   *)
(* verdict strikes the participant it was passed on (SafeVerdicts: a       *)
(* suspect that lives can be killed, and its slot does not change hands    *)
(* under the scanner).  Each of its three parts is needed: the behaviours  *)
(* it excludes break OperationHoldsFrontier.                               *)
(***************************************************************************)
EXTENDS EpochManager, FiniteSetTheorems, TLAPS

\* Who runs what: a participant has a slot, and its threads, its heartbeat and
\* its monitor run only while it is one.
Running ==
  /\ \A p \in Proc :
       /\ phase[p] \in Registered => mySlot[p] \in Slot
       /\ phase[p] \in {"out", "acquiring"} => seen[p] = NothingSeen
       /\ mon[p] # "idle" => phase[p] \in Joined
       /\ mon[p] \in {"idle", "frontier"} => likelyDead[p] = {}
       /\ hb[p] = "write" => phase[p] = "up"
  /\ \A t \in Thread : tpc[t] # "idle" => phase[home[t]] = "up"

\* epoch_lock_ and active_epoch_mutex_: the heartbeat writes alone, and so does
\* the first operation of a process.
InOperation == {"report", "crit"}
Locked ==
  /\ \A p \in Proc : hb[p] = "write" => NoReader(p)
  /\ \A t, u \in Thread :
       tpc[t] = "report" /\ tpc[u] \in InOperation /\ home[t] = home[u] => t = u

\* active_epoch_count_ is the number of operations.
Operations(p) == {t \in Members(p) : tpc[t] \in InOperation}
CountExact == \A p \in Proc : count[p] = Cardinality(Operations(p))

\* A process finds itself in its slot, in the cached copy too.
OwnCache ==
  \A p \in Proc : phase[p] \in Registered =>
    LET s == mySlot[p] IN
    /\ seenPid[p][s] = p
    /\ seen[p][s] # NotCached => seen[p][s] = reported[s]

\* What a scan has not come to is not cached, except the own slot.
Scanning == {"scan", "epoch", "own"}
ScanAhead ==
  \A p \in Proc, s \in Slot :
    /\ mon[p] = "frontier" /\ s # mySlot[p] => seen[p][s] = NotCached
    /\ mon[p] \in Scanning /\ s # mySlot[p] /\ idx[p] <= s => seen[p][s] = NotCached
    /\ mon[p] \in Scanning /\ s \in likelyDead[p] => s < idx[p]

\* A participant whose slot is condemned is the one that the verdict names, and
\* was found silent alive ...
Verdicts ==
  \A p, q \in Proc : \A s \in likelyDead[p] :
    phase[q] \in Registered /\ mySlot[q] = s => seenPid[p][s] = q /\ FalseSuspicion

\* ... and is dead when its slot is released.
Released ==
  \A p, q \in Proc : \A s \in Slot :
    mon[p] = "release" /\ NextVerdict(p, s) /\ phase[q] \in Registered => mySlot[q] # s

\* A participant is at the frontier or one behind; so is what it is about to
\* report, and that never goes back.
AtMostOneBehind(e) == MinActive <= e /\ e <= frontier /\ frontier <= e + 1
Reporting(p) == hb[p] = "write" \/ ~MutexFree(p)
LagOf(p) ==
  LET r == reported[mySlot[p]] IN
  /\ phase[p] \in {"frozen", "viewed"} => r = MinActive
  /\ phase[p] = "viewed" => AtMostOneBehind(view[p])
  /\ phase[p] \in Joined => AtMostOneBehind(r)
  /\ Reporting(p) => r <= view[p] /\ view[p] <= frontier
Lag == MinActive <= frontier /\ \A p \in Proc : LagOf(p)

\* A scan that may still advance the frontier has passed only participants
\* that are at the frontier.
AtFrontier(q) ==
  /\ phase[q] \in Joined => reported[mySlot[q]] = frontier
  /\ phase[q] = "viewed" => view[q] = frontier
ScanBehind ==
  \A p \in Proc : mon[p] \in Scanning =>
    /\ scanned[p] <= frontier
    /\ allIn[p] /\ scanned[p] = frontier =>
         \A q \in Proc : phase[q] \in Registered /\ mySlot[q] < idx[p] => AtFrontier(q)

\* The inductive invariant.
IInv ==
  /\ TypeOK /\ SlotOwned
  /\ Running /\ Locked /\ CountExact
  /\ OwnCache /\ ScanAhead /\ Verdicts /\ Released
  /\ Lag /\ ScanBehind

-----------------------------------------------------------------------------
\* Every variable starts with a value of its type ...
LEMMA InitTypeOK == Init => TypeOK
  BY ManagerAssumption DEF Init, TypeOK, MinActive, NoParticipant, Slot, Phase, MonitorPc,
     NothingSeen, NotCached

\* SetReported writes naturals, in both copies of the vector.
LEMMA SetReportedType ==
  ASSUME TypeOK, NEW p \in Proc, NEW e \in Nat, SetReported(p, e)
  PROVE  /\ reported' \in [Slot -> Nat]
         /\ seen' \in [Proc -> [Slot -> Nat \cup {NotCached}]]
         /\ seenPid' = seenPid
  BY DEF TypeOK, SetReported

\* A scan judges the slot at its index by the epoch it has cached, or has just read.
Look(p) == IF mon[p] = "scan" THEN seen[p][idx[p]] ELSE reported[idx[p]]
LEMMA ScanSlotCases ==
  ASSUME TypeOK, NEW p \in Proc, NEW b \in BOOLEAN, ScanSlot(p, b)
  PROVE  /\ idx[p] \in Slot /\ mon[p] \in Scanning /\ Look(p) \in Nat
         /\ Judge(p, seenPid[p][idx[p]], Look(p), b)
         /\ mon[p] = "scan" => seen[p][idx[p]] # NotCached
         /\ mon[p] # "scan" /\ b => TornVerdicts \/ slotPid[idx[p]] = seenPid[p][idx[p]]
  <1> USE ManagerAssumption DEF TypeOK, Slot, Scanning, Look
  <1>1. CASE ScanEpoch(p, b)
    BY <1>1 DEF ScanEpoch
  <1>2. CASE ScanCached(p, b)
    BY <1>2 DEF ScanCached
  <1>3. QED
    BY <1>1, <1>2 DEF ScanSlot

\* ... and every step leaves it one.
LEMMA NextTypeOK == ASSUME TypeOK, [Next]_vars PROVE TypeOK'
  <1> USE DEF TypeOK, Phase, MonitorPc, NotCached, NothingSeen, MinActive, NoParticipant,
              NewParticipant, fam, monitorVars, cache, Enter
  <1>h. \A t \in Thread : home[t] \in Proc
    BY ManagerAssumption
  <1>1. CASE UNCHANGED vars
    BY <1>1 DEF vars
  <1>2. ASSUME NEW p \in Proc, Start(p) PROVE TypeOK'
    BY <1>2 DEF Start
  <1>3. ASSUME NEW p \in Proc, AcquireSlot(p) PROVE TypeOK'
    <2>1. idx[p] \in Slot /\ idx[p] + 1 \in 1 .. NrSlots + 1 /\ 1 \in 1 .. NrSlots + 1
      BY <1>3, ManagerAssumption DEF AcquireSlot, Slot
    <2>2. CASE slotPid[idx[p]] = NoProc /\ reported[idx[p]] = NoParticipant
      <3>1. /\ slotPid' = [slotPid EXCEPT ![idx[p]] = p]
            /\ reported' = [reported EXCEPT ![idx[p]] = NewParticipant]
            /\ mySlot' = [mySlot EXCEPT ![p] = idx[p]]
            /\ seenPid' = [seenPid EXCEPT ![p][idx[p]] = p]
            /\ phase' = [phase EXCEPT ![p] = "new"]
            /\ idx' = [idx EXCEPT ![p] = 1]
        BY <1>3, <2>2 DEF AcquireSlot
      <3>2. seenPid' \in [Proc -> [Slot -> Proc \cup {NoProc}]]
        BY <3>1
      <3>3. QED
        BY <1>3, <2>1, <3>1, <3>2 DEF AcquireSlot
    <2>3. CASE ~(slotPid[idx[p]] = NoProc /\ reported[idx[p]] = NoParticipant)
      BY <1>3, <2>1, <2>3 DEF AcquireSlot
    <2>4. QED
      BY <2>2, <2>3
  <1>4. ASSUME NEW p \in Proc, Freeze(p) PROVE TypeOK'
    BY <1>4, SetReportedType DEF Freeze
  <1>5. ASSUME NEW p \in Proc, ViewFrontier(p) PROVE TypeOK'
    BY <1>5 DEF ViewFrontier
  <1>6. ASSUME NEW p \in Proc, Activate(p) PROVE TypeOK'
    BY <1>6, SetReportedType DEF Activate
  <1>7. ASSUME NEW p \in Proc, HeartbeatLock(p) PROVE TypeOK'
    BY <1>7 DEF HeartbeatLock
  <1>8. ASSUME NEW p \in Proc, HeartbeatReport(p) PROVE TypeOK'
    BY <1>8, SetReportedType DEF HeartbeatReport
  <1>9. ASSUME NEW p \in Proc, ScanBegin(p) PROVE TypeOK'
    BY <1>9 DEF ScanBegin
  <1>10. ASSUME NEW p \in Proc, ScanFrontier(p) PROVE TypeOK'
    BY <1>10, ManagerAssumption DEF ScanFrontier
  <1>10a. ASSUME NEW p \in Proc, ScanPid(p) PROVE TypeOK'
    <2>1. seenPid' \in [Proc -> [Slot -> Proc \cup {NoProc}]]
      BY <1>10a, ManagerAssumption DEF ScanPid, Slot
    <2>2. QED
      BY <1>10a, <2>1 DEF ScanPid
  <1>11. ASSUME NEW p \in Proc, NEW b \in BOOLEAN, ScanSlot(p, b) PROVE TypeOK'
    <2>1. idx[p] \in Slot /\ idx[p] + 1 \in 1 .. NrSlots + 1
      BY <1>11, ScanSlotCases, ManagerAssumption DEF Slot
    <2>2. Look(p) \in Nat /\ Judge(p, seenPid[p][idx[p]], Look(p), b)
      BY <1>11, ScanSlotCases
    <2>3. seen' \in [Proc -> [Slot -> Nat \cup {NotCached}]]
      BY <2>1, <2>2 DEF Judge
    <2>4. allIn' \in [Proc -> BOOLEAN] /\ likelyDead' \in [Proc -> SUBSET Slot]
      BY <2>1, <2>2 DEF Judge
    <2>5. QED
      BY <2>1, <2>2, <2>3, <2>4 DEF Judge
  <1>12. ASSUME NEW p \in Proc, AdvanceFrontier(p) PROVE TypeOK'
    <2>0. frontier' \in Nat
      BY <1>12 DEF AdvanceFrontier
    <2>1. frontier' \in Nat /\ phase' \in [Proc -> Phase]
      <3>1. phase' = phase \/ Return(p)
        BY <1>12 DEF AdvanceFrontier
      <3>2. QED
        BY <2>0, <3>1 DEF Return
    <2>2. mon' \in [Proc -> MonitorPc]
      <3>1. \E x \in {"idle", "kill"} : mon' = [mon EXCEPT ![p] = x]
        BY <1>12 DEF AdvanceFrontier
      <3>2. QED
        BY <3>1
    <2>3. QED
      BY <1>12, <2>1, <2>2, ManagerAssumption DEF AdvanceFrontier
  <1>13. ASSUME NEW p \in Proc, Vanish(p) PROVE
           /\ phase' \in [Proc -> Phase] /\ mySlot' \in [Proc -> Slot \cup {0}]
           /\ view' \in [Proc -> Nat] /\ count' \in [Proc -> Int]
           /\ tpc' \in [Thread -> {"idle", "shared", "report", "crit", "leaving"}]
           /\ hb' \in [Proc -> {"idle", "write"}] /\ scanned' \in [Proc -> Nat]
           /\ idx' \in [Proc -> 1 .. NrSlots + 1] /\ allIn' \in [Proc -> BOOLEAN]
           /\ likelyDead' \in [Proc -> SUBSET Slot]
           /\ seenPid' \in [Proc -> [Slot -> Proc \cup {NoProc}]]
           /\ seen' \in [Proc -> [Slot -> Nat \cup {NotCached}]]
    BY <1>13, ManagerAssumption DEF Vanish
  <1>14. ASSUME NEW p \in Proc, NEW s \in Slot, Terminate(p, s) PROVE TypeOK'
    <2>1. mon' \in [Proc -> MonitorPc]
      <3>1. \/ mon' = [mon EXCEPT ![p] = "release"]
            \/ \E q \in Proc, x \in {"idle", "release"} :
                 mon' = [mon EXCEPT ![q] = "idle", ![p] = x]
        BY <1>14 DEF Terminate
      <3>2. QED
        BY <3>1
    <2> DEFINE Hit == /\ seenPid[p][s] # NoProc /\ seenPid[p][s] \in reach[p]
                      /\ phase[seenPid[p][s]] \in Live
    <2>2. CASE Hit
      BY <1>14, <2>1, <2>2, <1>13 DEF Terminate
    <2>3. CASE ~Hit
      BY <1>14, <2>1, <2>3 DEF Terminate
    <2>4. QED
      BY <2>2, <2>3
  <1>15. ASSUME NEW p \in Proc, NEW s \in Slot, Unregister(p, s) PROVE TypeOK'
    <2>1. phase' \in [Proc -> Phase]
      BY <1>15 DEF Unregister, Return
    <2>2. mon' \in [Proc -> MonitorPc]
      <3>1. \E x \in {"idle", "kill"} : mon' = [mon EXCEPT ![p] = x]
        BY <1>15 DEF Unregister
      <3>2. QED
        BY <3>1
    <2>3. QED
      BY <1>15, <2>1, <2>2 DEF Unregister
  <1>16. ASSUME NEW p \in Proc, Stop(p) PROVE TypeOK'
    BY <1>16 DEF Stop
  <1>17. ASSUME NEW p \in Proc, Crash(p) PROVE TypeOK'
    BY <1>17, <1>13 DEF Crash
  <1>18. ASSUME NEW t \in Thread, SharedLock(t) \/ EnterFirst(t) \/ EnterNested(t)
         PROVE  TypeOK'
    <2>1. CASE SharedLock(t)
      BY <2>1 DEF SharedLock
    <2>2. CASE EnterFirst(t)
      BY <2>2, <1>h DEF EnterFirst
    <2>3. CASE EnterNested(t)
      BY <2>3, <1>h DEF EnterNested
    <2>4. QED
      BY <1>18, <2>1, <2>2, <2>3
  <1>19. ASSUME NEW t \in Thread, ReportFrontier(t) PROVE TypeOK'
    BY <1>19, <1>h, SetReportedType DEF ReportFrontier
  <1>20. ASSUME NEW t \in Thread, ExitStep(t) PROVE TypeOK'
    <2>1. CASE ExitCritical(t)
      BY <2>1, <1>h DEF ExitCritical
    <2>2. CASE SharedUnlock(t)
      BY <2>2 DEF SharedUnlock
    <2>3. QED
      BY <1>20, <2>1, <2>2 DEF ExitStep
  <1>21. QED
    BY <1>1, <1>2, <1>3, <1>4, <1>5, <1>6, <1>7, <1>8, <1>9, <1>10, <1>10a, <1>11, <1>12,
       <1>14, <1>15, <1>16, <1>17, <1>18, <1>19, <1>20
       DEF Next, Construct, Heartbeat, Monitor, Recover, EnterStep

-----------------------------------------------------------------------------
(* What the helpers of the module do, entry by entry.                      *)
LEMMA SetReportedEffect ==
  ASSUME TypeOK, NEW p \in Proc, mySlot[p] \in Slot, NEW e, SetReported(p, e)
  PROVE  /\ reported'[mySlot[p]] = e /\ seen'[p][mySlot[p]] = e
         /\ \A s \in Slot \ {mySlot[p]} : reported'[s] = reported[s] /\ seen'[p][s] = seen[p][s]
         /\ \A q \in Proc \ {p} : seen'[q] = seen[q]
         /\ seenPid' = seenPid
  BY DEF TypeOK, SetReported

\* A process that dies loses all its own state, and nobody else any.
LEMMA VanishEffect ==
  ASSUME TypeOK, NEW p \in Proc, Vanish(p)
  PROVE  /\ phase'[p] = "dead" /\ mySlot'[p] = 0 /\ hb'[p] = "idle" /\ likelyDead'[p] = {}
         /\ \A q \in Proc \ {p} :
              /\ phase'[q] = phase[q] /\ mySlot'[q] = mySlot[q] /\ view'[q] = view[q]
              /\ count'[q] = count[q] /\ hb'[q] = hb[q] /\ scanned'[q] = scanned[q]
              /\ idx'[q] = idx[q] /\ allIn'[q] = allIn[q] /\ likelyDead'[q] = likelyDead[q]
              /\ seenPid'[q] = seenPid[q] /\ seen'[q] = seen[q]
         /\ \A t \in Thread : tpc'[t] = IF home[t] = p THEN "idle" ELSE tpc[t]
         /\ count'[p] = 0
  BY DEF TypeOK, Vanish

\* A step that ends a process: a crash, or a verdict that another one carries out.
Ends(p) ==
  /\ Vanish(p) /\ mon'[p] = "idle" /\ UNCHANGED fam
  /\ \A r \in Proc \ {p} : mon'[r] = mon[r] \/ (mon[r] = "kill" /\ mon'[r] = "release")

\* A crash ends its process only.
LEMMA CrashEnds ==
  ASSUME TypeOK, NEW p \in Proc, Crash(p)
  PROVE  Ends(p) /\ \A r \in Proc \ {p} : mon'[r] = mon[r]
  BY DEF TypeOK, Crash, Ends

\* SIGKILL finds nobody whom it can hit, or ends the live process that the verdict names.
LEMMA TerminateCases ==
  ASSUME TypeOK, NEW p \in Proc, NEW s \in Slot, Terminate(p, s)
  PROVE  /\ mon[p] = "kill" /\ NextVerdict(p, s)
         /\ \/ /\ \A q \in Proc : seenPid[p][s] = q => phase[q] \notin Live \/ q \notin reach[p]
               /\ mon' = [mon EXCEPT ![p] = "release"]
               /\ UNCHANGED <<phase, mySlot, view, tpc, count, hb, scanned, idx,
                              allIn, likelyDead, cache, fam>>
            \/ \E q \in Proc :
               /\ seenPid[p][s] = q /\ phase[q] \in Live
               /\ Ends(q)
               /\ p # q => mon'[p] = "release"
               /\ \A r \in Proc \ {p, q} : mon'[r] = mon[r]
  <1> DEFINE Hit == /\ seenPid[p][s] # NoProc /\ seenPid[p][s] \in reach[p]
                    /\ phase[seenPid[p][s]] \in Live
  <1>1. CASE Hit
    <2>1. PICK q \in Proc : seenPid[p][s] = q
      BY <1>1 DEF TypeOK
    <2>2. Vanish(q) /\ mon' = [mon EXCEPT ![q] = "idle", ![p] = IF q = p THEN "idle" ELSE "release"]
          /\ UNCHANGED fam
      BY <1>1, <2>1 DEF Terminate
    <2>3. mon'[q] = "idle" /\ (p # q => mon'[p] = "release")
          /\ \A r \in Proc \ {p, q} : mon'[r] = mon[r]
      BY <2>2 DEF TypeOK
    <2>4. Ends(q)
      BY <2>2, <2>3 DEF Terminate, Ends
    <2>5. QED
      BY <1>1, <2>1, <2>3, <2>4 DEF Terminate
  <1>2. CASE ~Hit
    <2>1. \A q \in Proc : seenPid[p][s] = q => phase[q] \notin Live \/ q \notin reach[p]
      BY <1>2, ManagerAssumption
    <2>2. QED
      BY <1>2, <2>1 DEF Terminate
  <1>3. QED
    BY <1>1, <1>2

\* The compare-and-store of acquire_slot succeeds, or the next slot is tried.
Takes(p, s) ==
  /\ phase[p] = "acquiring" /\ slotPid[s] = NoProc
  /\ ReuseCondemned \/ \A r \in Proc : phase[r] \in Live => s \notin likelyDead[r]
  /\ phase' = [phase EXCEPT ![p] = "new"] /\ mySlot' = [mySlot EXCEPT ![p] = s]
  /\ slotPid' = [slotPid EXCEPT ![s] = p] /\ reported' = [reported EXCEPT ![s] = NewParticipant]
  /\ seenPid' = [seenPid EXCEPT ![p][s] = p]
  /\ idx' = [idx EXCEPT ![p] = 1]
  /\ UNCHANGED <<seen, frontier, view, tpc, count, hb, mon, scanned, allIn, likelyDead>>
Skips(p) ==
  /\ phase[p] = "acquiring"
  /\ idx' = [idx EXCEPT ![p] = @ + 1]
  /\ UNCHANGED <<slotPid, reported, mySlot, seenPid, phase>>
  /\ UNCHANGED <<seen, frontier, view, tpc, count, hb, mon, scanned, allIn, likelyDead>>

\* There is no third outcome, and the slot is one of the vector's.
LEMMA AcquireCases ==
  ASSUME TypeOK, NEW p \in Proc, AcquireSlot(p)
  PROVE  Skips(p) \/ \E s \in Slot : Takes(p, s)
  <1>1. idx[p] \in Slot
    BY ManagerAssumption DEF AcquireSlot, Slot, TypeOK
  <1>2. CASE slotPid[idx[p]] = NoProc /\ reported[idx[p]] = NoParticipant
    <2>1. Takes(p, idx[p])
      BY <1>2 DEF AcquireSlot, Takes
    <2>2. QED
      BY <1>1, <2>1 DEF AcquireSlot
  <1>3. CASE ~(slotPid[idx[p]] = NoProc /\ reported[idx[p]] = NoParticipant)
    BY <1>3 DEF AcquireSlot, Skips
  <1>4. QED
    BY <1>2, <1>3

\* The loop passes one slot: it writes the verdict, the cached copy and no more.
LEMMA ScanSlotEffect ==
  ASSUME TypeOK, NEW p \in Proc, NEW b \in BOOLEAN, ScanSlot(p, b)
  PROVE  /\ mon'[p] = "scan" /\ idx'[p] = idx[p] + 1 /\ seen'[p][idx[p]] = Look(p)
         /\ likelyDead'[p] = IF b THEN likelyDead[p] \cup {idx[p]} ELSE likelyDead[p]
         /\ allIn'[p] = (allIn[p] /\ ~(Look(p) >= MinActive /\ Look(p) # scanned[p]))
         /\ \A s \in Slot \ {idx[p]} : seen'[p][s] = seen[p][s]
         /\ \A q \in Proc \ {p} : /\ mon'[q] = mon[q] /\ idx'[q] = idx[q] /\ seen'[q] = seen[q]
                                  /\ likelyDead'[q] = likelyDead[q] /\ allIn'[q] = allIn[q]
         /\ UNCHANGED <<fam, phase, mySlot, view, tpc, count, hb, scanned, seenPid>>
  <1>1. Judge(p, seenPid[p][idx[p]], Look(p), b) /\ idx[p] \in Slot
    BY ScanSlotCases
  <1>2. mon'[p] = "scan" /\ idx'[p] = idx[p] + 1 /\ seen'[p][idx[p]] = Look(p)
    BY <1>1 DEF Judge, TypeOK
  <1>3. likelyDead'[p] = IF b THEN likelyDead[p] \cup {idx[p]} ELSE likelyDead[p]
    BY <1>1 DEF Judge, TypeOK
  <1>4. allIn'[p] = (allIn[p] /\ ~(Look(p) >= MinActive /\ Look(p) # scanned[p]))
    BY <1>1, Zenon DEF Judge, TypeOK
  <1>5. \A s \in Slot \ {idx[p]} : seen'[p][s] = seen[p][s]
    BY <1>1 DEF Judge, TypeOK
  <1>6. \A q \in Proc \ {p} : /\ mon'[q] = mon[q] /\ idx'[q] = idx[q] /\ seen'[q] = seen[q]
                              /\ likelyDead'[q] = likelyDead[q] /\ allIn'[q] = allIn[q]
    BY <1>1, Zenon DEF Judge, TypeOK
  <1>7. QED
    BY <1>1, <1>2, <1>3, <1>4, <1>5, <1>6 DEF Judge

\* advance_frontier has returned, or goes on with the next verdict.
LEMMA AdvanceEffect ==
  ASSUME TypeOK, NEW p \in Proc, AdvanceFrontier(p)
  PROVE  /\ \/ mon'[p] = "idle" /\ likelyDead[p] = {}
               /\ phase'[p] = IF phase[p] = "starting" THEN "up" ELSE phase[p]
            \/ mon'[p] = "kill" /\ phase'[p] = phase[p]
         /\ \A q \in Proc \ {p} : /\ mon'[q] = mon[q] /\ phase'[q] = phase[q]
                                  /\ idx'[q] = idx[q] /\ scanned'[q] = scanned[q]
                                  /\ allIn'[q] = allIn[q]
  <1>1. CASE likelyDead[p] = {}
    BY <1>1 DEF AdvanceFrontier, Return, TypeOK
  <1>2. CASE likelyDead[p] # {}
    BY <1>2 DEF AdvanceFrontier, TypeOK
  <1>3. QED
    BY <1>1, <1>2

\* release_slot frees the slot of the verdict and no other, and the verdict is done.
LEMMA UnregisterEffect ==
  ASSUME TypeOK, NEW p \in Proc, NEW s \in Slot, Unregister(p, s)
  PROVE  /\ mon[p] = "release" /\ NextVerdict(p, s)
         /\ \/ mon'[p] = "idle" /\ likelyDead'[p] = {}
               /\ phase'[p] = IF phase[p] = "starting" THEN "up" ELSE phase[p]
            \/ mon'[p] = "kill" /\ phase'[p] = phase[p]
         /\ likelyDead'[p] = likelyDead[p] \ {s}
         /\ \A q \in Proc \ {p} : /\ mon'[q] = mon[q] /\ phase'[q] = phase[q]
                                  /\ likelyDead'[q] = likelyDead[q] /\ seen'[q] = seen[q]
         /\ slotPid'[s] = NoProc /\ reported'[s] = 0 /\ seen'[p][s] = NotCached
         /\ \A x \in Slot \ {s} : /\ slotPid'[x] = slotPid[x] /\ reported'[x] = reported[x]
                                 /\ seen'[p][x] = seen[p][x]
  <1>1. /\ likelyDead'[p] = likelyDead[p] \ {s} /\ seen'[p][s] = NotCached
        /\ \A x \in Slot \ {s} : seen'[p][x] = seen[p][x]
        /\ \A q \in Proc \ {p} : likelyDead'[q] = likelyDead[q] /\ seen'[q] = seen[q]
    BY DEF Unregister, TypeOK
  <1>2. /\ slotPid'[s] = NoProc /\ reported'[s] = 0
        /\ \A x \in Slot \ {s} : slotPid'[x] = slotPid[x] /\ reported'[x] = reported[x]
    BY DEF Unregister, TypeOK, NoParticipant
  <1>3. CASE likelyDead[p] \ {s} = {}
    BY <1>1, <1>2, <1>3 DEF Unregister, Return, TypeOK
  <1>4. CASE likelyDead[p] \ {s} # {}
    BY <1>1, <1>2, <1>4 DEF Unregister, TypeOK
  <1>5. QED
    BY <1>3, <1>4

-----------------------------------------------------------------------------
\* Threads, heartbeat and monitor start with a participant and end with it.
LEMMA NextRunning == ASSUME TypeOK, Running, [Next]_vars PROVE Running'
  <1> USE DEF Running, Registered, Joined, Live
  <1>h. \A t \in Thread : home[t] \in Proc
    BY ManagerAssumption
  <1>t. /\ DOMAIN phase = Proc /\ DOMAIN mySlot = Proc /\ DOMAIN seen = Proc
        /\ DOMAIN mon = Proc /\ DOMAIN hb = Proc /\ DOMAIN tpc = Thread
        /\ DOMAIN likelyDead = Proc
    BY DEF TypeOK
  <1>1. CASE UNCHANGED vars
    BY <1>1 DEF vars
  <1>2. ASSUME NEW p \in Proc, Start(p) PROVE Running'
    BY <1>2, <1>t DEF Start, Enter, fam, monitorVars, cache
  <1>3. ASSUME NEW p \in Proc, AcquireSlot(p) PROVE Running'
    <2>1. CASE Skips(p)
      BY <2>1, <1>t DEF Skips
    <2>2. ASSUME NEW s \in Slot, Takes(p, s) PROVE Running'
      <3>1. /\ phase[p] = "acquiring" /\ UNCHANGED <<seen, mon, likelyDead, hb, tpc>>
            /\ phase' = [phase EXCEPT ![p] = "new"] /\ mySlot' = [mySlot EXCEPT ![p] = s]
        BY <2>2 DEF Takes
      <3>2. QED
        BY <1>t, <1>h, <3>1
    <2>3. QED
      BY <1>3, <2>1, <2>2, AcquireCases
  <1>4. ASSUME NEW p \in Proc, ViewFrontier(p) PROVE Running'
    BY <1>4, <1>t DEF ViewFrontier, Enter, fam, monitorVars, cache
  <1>5. ASSUME NEW p \in Proc, NEW e, SetReported(p, e), phase[p] \in Registered
        PROVE  \A q \in Proc : phase[q] \in {"out", "acquiring"} => seen'[q] = seen[q]
    BY <1>5, SetReportedEffect
  <1>6. ASSUME NEW p \in Proc, Freeze(p) PROVE Running'
    BY <1>6, <1>t, <1>5 DEF Freeze, Enter, monitorVars
  <1>7. ASSUME NEW p \in Proc, Activate(p) PROVE Running'
    BY <1>7, <1>t, <1>5 DEF Activate, Enter, monitorVars
  <1>8. ASSUME NEW p \in Proc, HeartbeatLock(p) PROVE Running'
    BY <1>8, <1>t DEF HeartbeatLock, fam, monitorVars, cache
  <1>9. ASSUME NEW p \in Proc, HeartbeatReport(p) PROVE Running'
    BY <1>9, <1>t, <1>5 DEF HeartbeatReport, monitorVars
  <1>10. ASSUME NEW p \in Proc, ScanBegin(p) PROVE Running'
    BY <1>10, <1>t DEF ScanBegin, fam
  <1>11. ASSUME NEW p \in Proc, ScanFrontier(p) PROVE Running'
    BY <1>11, <1>t DEF ScanFrontier, fam, cache
  <1>12. ASSUME NEW p \in Proc, NEW b \in BOOLEAN, ScanSlot(p, b) PROVE Running'
    BY <1>12, <1>t DEF ScanSlot, ScanEpoch, ScanCached, Judge, fam
  <1>12a. ASSUME NEW p \in Proc, ScanPid(p) PROVE Running'
    BY <1>12a, <1>t DEF ScanPid, fam
  <1>13. ASSUME NEW p \in Proc, AdvanceFrontier(p) PROVE Running'
    <2>1. mon[p] = "scan" /\ UNCHANGED <<mySlot, seen, hb, tpc, likelyDead>>
      BY <1>13 DEF AdvanceFrontier, cache
    <2>2. QED
      BY <1>13, <1>h, <2>1, AdvanceEffect
  <1>14. ASSUME NEW p \in Proc, Ends(p) PROVE Running'
    BY <1>14, VanishEffect, <1>h DEF Ends
  <1>15. ASSUME NEW p \in Proc, NEW s \in Slot, Terminate(p, s) PROVE Running'
    <2>1. CASE mon[p] = "kill" /\ mon' = [mon EXCEPT ![p] = "release"]
               /\ UNCHANGED <<phase, mySlot, tpc, hb, likelyDead, cache>>
      BY <1>t, <2>1 DEF cache
    <2>2. QED
      BY <1>14, <1>15, <2>1, TerminateCases
  <1>16. ASSUME NEW p \in Proc, NEW s \in Slot, Unregister(p, s) PROVE Running'
    <2>1. UNCHANGED <<mySlot, hb, tpc>>
      BY <1>16 DEF Unregister
    <2>2. QED
      BY <1>16, <1>h, <2>1, UnregisterEffect
  <1>17. ASSUME NEW p \in Proc, Stop(p) PROVE Running'
    BY <1>17, <1>t, <1>h DEF Stop, Enter, ExclusiveFree, NoReader, NoWriter, Members, monitorVars
  <1>18. ASSUME NEW p \in Proc, Crash(p) PROVE Running'
    BY <1>18, <1>14, CrashEnds
  <1>19. ASSUME NEW t \in Thread, EnterStep(t) PROVE Running'
    <2>1. CASE SharedLock(t) \/ EnterFirst(t) \/ EnterNested(t)
      BY <1>t, <2>1 DEF SharedLock, EnterFirst, EnterNested, fam, monitorVars, cache
    <2>2. CASE ReportFrontier(t)
      BY <1>t, <1>h, <1>5, <2>2 DEF ReportFrontier, monitorVars
    <2>3. QED
      BY <1>19, <2>1, <2>2 DEF EnterStep
  <1>20. ASSUME NEW t \in Thread, ExitStep(t) PROVE Running'
    BY <1>t, <1>20 DEF ExitStep, ExitCritical, SharedUnlock, fam, monitorVars, cache
  <1>21. QED
    BY <1>1, <1>2, <1>3, <1>4, <1>6, <1>7, <1>8, <1>9, <1>10, <1>11, <1>12, <1>12a, <1>13,
       <1>15, <1>16, <1>17, <1>18, <1>19, <1>20
       DEF Next, Construct, Heartbeat, Monitor, Recover

-----------------------------------------------------------------------------
\* A participant was one before, in the same slot, or has just taken its slot.
LEMMA StillThere ==
  ASSUME TypeOK, [Next]_vars, NEW q \in Proc, phase'[q] \in Registered
  PROVE  \/ phase[q] \in Registered /\ mySlot'[q] = mySlot[q]
         \/ \E s \in Slot : Takes(q, s)
  <1> USE DEF Registered
  <1>t. DOMAIN phase = Proc /\ DOMAIN mySlot = Proc
    BY DEF TypeOK
  <1> DEFINE Same == phase[q] \in Registered /\ mySlot'[q] = mySlot[q]
  <1>1. CASE UNCHANGED vars
    BY <1>1 DEF vars
  <1>2. ASSUME NEW p \in Proc, Start(p) PROVE Same
    BY <1>2, <1>t DEF Start, Enter
  <1>3. ASSUME NEW p \in Proc, AcquireSlot(p) PROVE Same \/ \E s \in Slot : Takes(q, s)
    <2>1. CASE Skips(p)
      BY <1>3, <2>1, AcquireCases DEF Skips
    <2>2. ASSUME NEW s \in Slot, Takes(p, s) PROVE Same \/ Takes(q, s)
      BY <1>t, <2>2 DEF Takes
    <2>3. QED
      BY <1>3, <2>1, <2>2, AcquireCases
  <1>4. ASSUME NEW p \in Proc, Freeze(p) \/ ViewFrontier(p) \/ Activate(p) PROVE Same
    BY <1>4, <1>t DEF Freeze, ViewFrontier, Activate, Enter
  <1>5. ASSUME NEW p \in Proc, AdvanceFrontier(p) PROVE Same
    BY <1>5, AdvanceEffect DEF AdvanceFrontier
  <1>6. ASSUME NEW p \in Proc, Ends(p) PROVE Same
    BY <1>6, VanishEffect DEF Ends
  <1>7. ASSUME NEW p \in Proc, NEW s \in Slot, Terminate(p, s) PROVE Same
    BY <1>6, <1>7, TerminateCases
  <1>8. ASSUME NEW p \in Proc, NEW s \in Slot, Unregister(p, s) PROVE Same
    BY <1>8, UnregisterEffect DEF Unregister
  <1>9. ASSUME NEW p \in Proc, Stop(p) PROVE Same
    BY <1>9, <1>t DEF Stop, Enter
  <1>10. ASSUME NEW p \in Proc, Crash(p) PROVE Same
    BY <1>10, <1>6, CrashEnds
  <1>11. CASE UNCHANGED <<phase, mySlot>>
    BY <1>11
  <1>12. ASSUME NEW p \in Proc, NEW b \in BOOLEAN,
                \/ Heartbeat(p) \/ ScanBegin(p) \/ ScanFrontier(p) \/ ScanPid(p)
                \/ ScanSlot(p, b)
         PROVE  UNCHANGED <<phase, mySlot>>
    BY <1>12 DEF Heartbeat, HeartbeatLock, HeartbeatReport, ScanBegin, ScanFrontier, ScanPid,
       ScanSlot, ScanEpoch, ScanCached, Judge
  <1>13. ASSUME NEW t \in Thread, EnterStep(t) \/ ExitStep(t) PROVE UNCHANGED <<phase, mySlot>>
    BY <1>13 DEF EnterStep, ExitStep, SharedLock, EnterFirst, ReportFrontier, EnterNested,
       ExitCritical, SharedUnlock
  <1>14. QED
    BY <1>1, <1>2, <1>3, <1>4, <1>5, <1>7, <1>8, <1>9, <1>10, <1>11, <1>12, <1>13
       DEF Next, Construct, Monitor, Recover

-----------------------------------------------------------------------------
\* No two participants share a slot.
LEMMA Distinct ==
  ASSUME SlotOwned, NEW p \in Proc, NEW q \in Proc, phase[p] \in Registered,
         phase[q] \in Registered, mySlot[p] = mySlot[q]
  PROVE  p = q
  BY DEF SlotOwned

\* A slot that loses its participant has none: acquire_slot takes a free one, the
\* destructor gives up its own, and a recovery releases those of the dead.
LEMMA NextSlotOwned ==
  ASSUME TypeOK, Running, SlotOwned, Released, [Next]_vars PROVE SlotOwned'
  <1> SUFFICES ASSUME NEW q \in Proc, phase'[q] \in Registered
               PROVE  slotPid'[mySlot'[q]] = q
    BY DEF SlotOwned
  <1> DEFINE There == phase[q] \in Registered /\ mySlot'[q] = mySlot[q]
  <1>1. ASSUME NEW s \in Slot, Takes(q, s) PROVE slotPid'[mySlot'[q]] = q
    BY <1>1 DEF Takes, TypeOK
  <1>2. SUFFICES ASSUME There PROVE slotPid'[mySlot[q]] = q
    BY <1>1, StillThere
  <1>3. slotPid[mySlot[q]] = q /\ mySlot[q] \in Slot
    BY <1>2 DEF SlotOwned, Running
  <1>4. CASE UNCHANGED slotPid
    BY <1>3, <1>4
  <1>5. ASSUME NEW p \in Proc, AcquireSlot(p) PROVE slotPid'[mySlot[q]] = q
    <2>1. CASE Skips(p)
      BY <1>3, <2>1 DEF Skips
    <2>2. ASSUME NEW s \in Slot, Takes(p, s) PROVE slotPid'[mySlot[q]] = q
      BY <1>3, <2>2, ManagerAssumption DEF Takes, TypeOK
    <2>3. QED
      BY <1>5, <2>1, <2>2, AcquireCases
  <1>6. ASSUME NEW p \in Proc, NEW s \in Slot, Unregister(p, s) PROVE slotPid'[mySlot[q]] = q
    <2>1. mySlot[q] # s
      BY <1>2, <1>6, UnregisterEffect DEF Released
    <2>2. QED
      BY <1>3, <1>6, <2>1, UnregisterEffect
  <1>7. ASSUME NEW p \in Proc, Stop(p) PROVE slotPid'[mySlot[q]] = q
    <2>1. phase[p] \in Registered /\ p # q /\ slotPid' = [slotPid EXCEPT ![mySlot[p]] = NoProc]
      BY <1>7 DEF Stop, Enter, Registered, TypeOK
    <2>2. mySlot[p] # mySlot[q]
      BY <1>2, <2>1, Distinct
    <2>3. QED
      BY <1>3, <2>1, <2>2 DEF TypeOK
  <1>8. ASSUME NEW p \in Proc, \/ Start(p) \/ Freeze(p) \/ ViewFrontier(p) \/ Activate(p)
                               \/ Heartbeat(p) \/ ScanBegin(p) \/ ScanFrontier(p)
                               \/ AdvanceFrontier(p) \/ Crash(p)
        PROVE  UNCHANGED slotPid
    BY <1>8 DEF Start, Freeze, ViewFrontier, Activate, Heartbeat, HeartbeatLock, HeartbeatReport,
       ScanBegin, ScanFrontier, AdvanceFrontier, Crash, fam
  <1>9. ASSUME NEW p \in Proc, NEW b \in BOOLEAN, ScanPid(p) \/ ScanSlot(p, b)
        PROVE  UNCHANGED slotPid
    BY <1>9 DEF ScanPid, ScanSlot, ScanEpoch, ScanCached, Judge, fam
  <1>10. ASSUME NEW p \in Proc, NEW s \in Slot, Terminate(p, s) PROVE UNCHANGED slotPid
    BY <1>10 DEF Terminate, fam
  <1>11. ASSUME NEW t \in Thread, EnterStep(t) \/ ExitStep(t) PROVE UNCHANGED slotPid
    BY <1>11 DEF EnterStep, ExitStep, SharedLock, EnterFirst, ReportFrontier, EnterNested,
       ExitCritical, SharedUnlock, fam
  <1>12. CASE UNCHANGED vars
    BY <1>4, <1>12 DEF vars
  <1>13. QED
    BY <1>4, <1>5, <1>6, <1>7, <1>8, <1>9, <1>10, <1>11, <1>12
       DEF Next, Construct, Monitor, Recover

-----------------------------------------------------------------------------
\* The steps at which a process writes its slot.
Reports(q) == \/ Freeze(q) \/ Activate(q) \/ HeartbeatReport(q)
              \/ \E t \in Members(q) : ReportFrontier(t)

\* Nobody else writes the slot of a participant.
LEMMA OwnReports ==
  ASSUME TypeOK, Running, SlotOwned, Released, [Next]_vars,
         NEW q \in Proc, phase[q] \in Registered, phase'[q] \in Registered
  PROVE  Reports(q) \/ reported'[mySlot[q]] = reported[mySlot[q]]
  <1> DEFINE Same == reported'[mySlot[q]] = reported[mySlot[q]]
  <1>1. slotPid[mySlot[q]] = q /\ mySlot[q] \in Slot
    BY DEF SlotOwned, Running
  <1>2. CASE UNCHANGED reported
    BY <1>2
  <1>3. ASSUME NEW p \in Proc, AcquireSlot(p) PROVE Same
    <2>1. CASE Skips(p)
      BY <2>1 DEF Skips
    <2>2. ASSUME NEW s \in Slot, Takes(p, s) PROVE Same
      BY <1>1, <2>2, ManagerAssumption DEF Takes, TypeOK
    <2>3. QED
      BY <1>3, <2>1, <2>2, AcquireCases
  <1>4. ASSUME NEW p \in Proc, NEW e, SetReported(p, e), phase[p] \in Registered, p # q
        PROVE  Same
    <2>1. mySlot[p] \in Slot /\ mySlot[p] # mySlot[q]
      BY <1>4, Distinct DEF Running
    <2>2. QED
      BY <1>1, <1>4, <2>1, SetReportedEffect
  <1>5. ASSUME NEW p \in Proc, Freeze(p) \/ Activate(p) PROVE Same \/ Reports(q)
    BY <1>4, <1>5 DEF Freeze, Activate, Enter, Registered, Reports
  <1>6. ASSUME NEW p \in Proc, Heartbeat(p) PROVE Same \/ Reports(q)
    <2>1. CASE HeartbeatLock(p)
      BY <2>1 DEF HeartbeatLock, fam
    <2>2. CASE HeartbeatReport(p)
      <3>1. phase[p] \in Registered
        BY <2>2 DEF HeartbeatReport, Running, Registered
      <3>2. QED
        BY <1>4, <2>2, <3>1 DEF HeartbeatReport, Reports
    <2>3. QED
      BY <1>6, <2>1, <2>2 DEF Heartbeat
  <1>7. ASSUME NEW p \in Proc, NEW s \in Slot, Unregister(p, s) PROVE Same
    <2>1. mySlot[q] # s
      BY <1>7, UnregisterEffect DEF Released
    <2>2. QED
      BY <1>1, <1>7, <2>1, UnregisterEffect
  <1>8. ASSUME NEW p \in Proc, Stop(p) PROVE Same
    <2>1. phase[p] \in Registered /\ p # q /\ reported' = [reported EXCEPT ![mySlot[p]] = NoParticipant]
      BY <1>8 DEF Stop, Enter, Registered, TypeOK
    <2>2. mySlot[p] # mySlot[q]
      BY <2>1, Distinct
    <2>3. QED
      BY <1>1, <2>1, <2>2 DEF TypeOK
  <1>9. ASSUME NEW t \in Thread, EnterStep(t) \/ ExitStep(t) PROVE Same \/ Reports(q)
    <2>1. CASE ReportFrontier(t)
      <3>1. home[t] \in Proc /\ phase[home[t]] \in Registered /\ SetReported(home[t], view[home[t]])
        BY <2>1, ManagerAssumption DEF ReportFrontier, Running, Registered
      <3>2. home[t] = q => t \in Members(q)
        BY DEF Members
      <3>3. QED
        BY <1>4, <2>1, <3>1, <3>2 DEF Reports
    <2>2. CASE ~ReportFrontier(t)
      BY <1>9, <2>2 DEF EnterStep, ExitStep, SharedLock, EnterFirst, EnterNested,
         ExitCritical, SharedUnlock, fam
    <2>3. QED
      BY <2>1, <2>2
  <1>10. ASSUME NEW p \in Proc, \/ Start(p) \/ ViewFrontier(p) \/ ScanBegin(p) \/ ScanFrontier(p)
                                \/ AdvanceFrontier(p) \/ Crash(p)
        PROVE  UNCHANGED reported
    BY <1>10 DEF Start, ViewFrontier, ScanBegin, ScanFrontier, AdvanceFrontier, Crash, fam
  <1>11. ASSUME NEW p \in Proc, NEW b \in BOOLEAN, ScanPid(p) \/ ScanSlot(p, b)
         PROVE  UNCHANGED reported
    BY <1>11 DEF ScanPid, ScanSlot, ScanEpoch, ScanCached, Judge, fam
  <1>12. ASSUME NEW p \in Proc, NEW s \in Slot, Terminate(p, s) PROVE UNCHANGED reported
    BY <1>12 DEF Terminate, fam
  <1>13. CASE UNCHANGED vars
    BY <1>2, <1>13 DEF vars
  <1>14. QED
    BY <1>2, <1>3, <1>5, <1>6, <1>7, <1>8, <1>9, <1>10, <1>11, <1>12, <1>13
       DEF Next, Construct, Monitor, Recover

-----------------------------------------------------------------------------
(* The operations of a process are finite in number.                       *)
LEMMA OperationsFinite ==
  ASSUME NEW p PROVE IsFiniteSet(Operations(p))
  BY FS_Subset, ManagerAssumption DEF Operations, Members

\* A count of zero means that no thread is inside.
LEMMA NoOperation ==
  ASSUME CountExact, NEW p \in Proc, count[p] = 0
  PROVE  \A t \in Thread : home[t] = p => tpc[t] \notin InOperation
  <1>1. Operations(p) = {}
    BY OperationsFinite, FS_EmptySet DEF CountExact
  <1>2. QED
    BY <1>1 DEF Operations, Members

\* Which threads are inside changes only by their own steps and with the process.
LEMMA NextLocked ==
  ASSUME TypeOK, Running, Locked, CountExact, [Next]_vars PROVE Locked'
  <1> USE DEF Locked, NoReader, InOperation
  <1>h. home' = home /\ \A t \in Thread : home[t] \in Proc
    BY ManagerAssumption
  <1>m. \A p \in Proc, t \in Thread : t \in Members(p) <=> home[t] = p
    BY DEF Members
  <1>t. DOMAIN hb = Proc /\ DOMAIN tpc = Thread
    BY DEF TypeOK
  <1>1. CASE UNCHANGED <<hb, tpc>>
    BY <1>1 DEF Members
  <1>2. ASSUME NEW p \in Proc, HeartbeatLock(p) PROVE Locked'
    BY <1>2, <1>t, <1>m DEF HeartbeatLock, ExclusiveFree, Members
  <1>3. ASSUME NEW p \in Proc, HeartbeatReport(p) PROVE Locked'
    BY <1>3, <1>t, <1>m DEF HeartbeatReport, Members
  <1>4. ASSUME NEW p \in Proc, Ends(p) PROVE Locked'
    BY <1>4, <1>m, <1>h, VanishEffect DEF Ends, Members
  <1>5. ASSUME NEW t \in Thread, SharedLock(t) PROVE Locked'
    BY <1>5, <1>t, <1>m, <1>h DEF SharedLock, NoWriter, Members
  <1>6. ASSUME NEW t \in Thread, EnterFirst(t) PROVE Locked'
    <2>1. \A u \in Thread : home[u] = home[t] => tpc[u] \notin InOperation
      BY <1>6, <1>h, NoOperation DEF EnterFirst
    <2>2. tpc' = [tpc EXCEPT ![t] = "report"] /\ tpc[t] = "shared" /\ hb' = hb
      BY <1>6 DEF EnterFirst
    <2>3. QED
      BY <2>1, <2>2, <1>t, <1>m, <1>h DEF Members
  <1>7. ASSUME NEW t \in Thread, ReportFrontier(t) \/ EnterNested(t) PROVE Locked'
    <2>1. tpc' = [tpc EXCEPT ![t] = "crit"] /\ tpc[t] # "idle" /\ hb' = hb
      BY <1>7 DEF ReportFrontier, EnterNested
    <2>2. \A u \in Thread : home[u] = home[t] /\ tpc[u] = "report" => u = t
      BY <1>7 DEF ReportFrontier, EnterNested, MutexFree, Members
    <2>3. QED
      BY <2>1, <2>2, <1>t, <1>m, <1>h DEF Members
  <1>8. ASSUME NEW t \in Thread, ExitStep(t) PROVE Locked'
    <2>1. \E x \in {"idle", "leaving"} :
            tpc' = [tpc EXCEPT ![t] = x] /\ tpc[t] # "idle" /\ hb' = hb
      BY <1>8 DEF ExitStep, ExitCritical, SharedUnlock
    <2>2. QED
      BY <2>1, <1>t, <1>m, <1>h DEF Members
  <1>9. ASSUME NEW p \in Proc, \/ Start(p) \/ Construct(p) \/ ScanBegin(p) \/ ScanFrontier(p)
                               \/ AdvanceFrontier(p) \/ Stop(p)
        PROVE  UNCHANGED <<hb, tpc>>
    BY <1>9 DEF Start, Construct, AcquireSlot, Freeze, ViewFrontier, Activate, ScanBegin,
       ScanFrontier, AdvanceFrontier, Stop
  <1>10. ASSUME NEW p \in Proc, NEW b \in BOOLEAN, ScanPid(p) \/ ScanSlot(p, b)
         PROVE  UNCHANGED <<hb, tpc>>
    BY <1>10 DEF ScanPid, ScanSlot, ScanEpoch, ScanCached, Judge
  <1>11. ASSUME NEW p \in Proc, NEW s \in Slot, Unregister(p, s) PROVE UNCHANGED <<hb, tpc>>
    BY <1>11 DEF Unregister
  <1>12. ASSUME NEW p \in Proc, NEW s \in Slot, Terminate(p, s) PROVE Locked'
    BY <1>1, <1>4, <1>12, TerminateCases
  <1>13. ASSUME NEW p \in Proc, Crash(p) PROVE Locked'
    BY <1>4, <1>13, CrashEnds
  <1>14. CASE UNCHANGED vars
    BY <1>1, <1>14 DEF vars
  <1>15. QED
    BY <1>1, <1>2, <1>3, <1>5, <1>6, <1>7, <1>8, <1>9, <1>10, <1>11, <1>12, <1>13, <1>14
       DEF Next, Heartbeat, Monitor, Recover, EnterStep

\* A thread that begins an operation is counted.
LEMMA BeginExact ==
  ASSUME TypeOK, CountExact, NEW t \in Thread, NEW x \in InOperation, tpc[t] \notin InOperation,
         tpc' = [tpc EXCEPT ![t] = x], count' = [count EXCEPT ![home[t]] = @ + 1]
  PROVE  CountExact'
  <1> SUFFICES ASSUME NEW p \in Proc PROVE count'[p] = Cardinality(Operations(p)')
    BY DEF CountExact
  <1>1. CASE p = home[t]
    <2>1. Operations(p)' = Operations(p) \cup {t} /\ t \notin Operations(p)
      BY <1>1 DEF Operations, Members, TypeOK
    <2>2. Cardinality(Operations(p)') = Cardinality(Operations(p)) + 1
      BY <2>1, OperationsFinite, FS_AddElement
    <2>3. QED
      BY <1>1, <2>2 DEF CountExact, TypeOK
  <1>2. CASE p # home[t]
    <2>1. Operations(p)' = Operations(p)
      BY <1>2 DEF Operations, Members, TypeOK
    <2>2. QED
      BY <1>2, <2>1 DEF CountExact, TypeOK
  <1>3. QED
    BY <1>1, <1>2

\* One that ends is counted down ...
LEMMA EndExact ==
  ASSUME TypeOK, CountExact, NEW t \in Thread, NEW x, x \notin InOperation, tpc[t] \in InOperation,
         tpc' = [tpc EXCEPT ![t] = x], count' = [count EXCEPT ![home[t]] = @ - 1]
  PROVE  CountExact'
  <1> SUFFICES ASSUME NEW p \in Proc PROVE count'[p] = Cardinality(Operations(p)')
    BY DEF CountExact
  <1>1. CASE p = home[t]
    <2>1. Operations(p)' = Operations(p) \ {t} /\ t \in Operations(p)
      BY <1>1 DEF Operations, Members, TypeOK
    <2>2. Cardinality(Operations(p)') = Cardinality(Operations(p)) - 1
      BY <2>1, OperationsFinite, FS_RemoveElement
    <2>3. QED
      BY <1>1, <2>2 DEF CountExact, TypeOK
  <1>2. CASE p # home[t]
    <2>1. Operations(p)' = Operations(p)
      BY <1>2 DEF Operations, Members, TypeOK
    <2>2. QED
      BY <1>2, <2>1 DEF CountExact, TypeOK
  <1>3. QED
    BY <1>1, <1>2

\* ... and one that only takes or gives up a lock is not counted.
LEMMA SameExact ==
  ASSUME TypeOK, CountExact, NEW t \in Thread, NEW x, x \in InOperation <=> tpc[t] \in InOperation,
         tpc' = [tpc EXCEPT ![t] = x], UNCHANGED count
  PROVE  CountExact'
  <1>1. \A p \in Proc : Operations(p)' = Operations(p)
    BY DEF Operations, Members, TypeOK
  <1>2. QED
    BY <1>1 DEF CountExact

\* active_epoch_count_ follows the operations through every step.
LEMMA NextCountExact ==
  ASSUME TypeOK, CountExact, [Next]_vars PROVE CountExact'
  <1> USE DEF InOperation
  <1>1. CASE UNCHANGED <<count, tpc>>
    BY <1>1 DEF CountExact, Operations, Members
  <1>2. ASSUME NEW p \in Proc, Ends(p) PROVE CountExact'
    <2> SUFFICES ASSUME NEW q \in Proc PROVE count'[q] = Cardinality(Operations(q)')
      BY DEF CountExact
    <2>1. CASE q = p
      <3>1. Operations(q)' = {}
        BY <1>2, <2>1, VanishEffect DEF Operations, Members, Ends
      <3>2. QED
        BY <1>2, <2>1, <3>1, VanishEffect, FS_EmptySet DEF Ends
    <2>2. CASE q # p
      <3>1. Operations(q)' = Operations(q)
        BY <1>2, <2>2, VanishEffect DEF Operations, Members, Ends
      <3>2. QED
        BY <1>2, <2>2, <3>1, VanishEffect DEF CountExact, Ends
    <2>3. QED
      BY <2>1, <2>2
  <1>3. ASSUME NEW t \in Thread, EnterFirst(t) \/ EnterNested(t) PROVE CountExact'
    <2>1. PICK x \in InOperation : tpc' = [tpc EXCEPT ![t] = x]
      BY <1>3 DEF EnterFirst, EnterNested
    <2>2. QED
      BY <1>3, <2>1, BeginExact DEF EnterFirst, EnterNested
  <1>4. ASSUME NEW t \in Thread, ExitCritical(t) PROVE CountExact'
    BY <1>4, EndExact DEF ExitCritical
  <1>5. ASSUME NEW t \in Thread, SharedLock(t) \/ ReportFrontier(t) \/ SharedUnlock(t)
        PROVE  CountExact'
    <2>1. PICK x : /\ tpc' = [tpc EXCEPT ![t] = x] /\ UNCHANGED count
                   /\ x \in InOperation <=> tpc[t] \in InOperation
      BY <1>5 DEF SharedLock, ReportFrontier, SharedUnlock
    <2>2. QED
      BY <2>1, SameExact
  <1>6. ASSUME NEW p \in Proc, \/ Start(p) \/ Construct(p) \/ Heartbeat(p) \/ ScanBegin(p)
                               \/ ScanFrontier(p) \/ AdvanceFrontier(p) \/ Stop(p)
        PROVE  UNCHANGED <<count, tpc>>
    BY <1>6 DEF Start, Construct, AcquireSlot, Freeze, ViewFrontier, Activate, Heartbeat,
       HeartbeatLock, HeartbeatReport, ScanBegin, ScanFrontier, AdvanceFrontier, Stop
  <1>7. ASSUME NEW p \in Proc, NEW b \in BOOLEAN, ScanPid(p) \/ ScanSlot(p, b)
        PROVE  UNCHANGED <<count, tpc>>
    BY <1>7 DEF ScanPid, ScanSlot, ScanEpoch, ScanCached, Judge
  <1>8. ASSUME NEW p \in Proc, NEW s \in Slot, Unregister(p, s) PROVE UNCHANGED <<count, tpc>>
    BY <1>8 DEF Unregister
  <1>9. ASSUME NEW p \in Proc, NEW s \in Slot, Terminate(p, s) PROVE CountExact'
    BY <1>1, <1>2, <1>9, TerminateCases
  <1>10. ASSUME NEW p \in Proc, Crash(p) PROVE CountExact'
    BY <1>2, <1>10, CrashEnds
  <1>11. CASE UNCHANGED vars
    BY <1>1, <1>11 DEF vars
  <1>12. QED
    BY <1>1, <1>3, <1>4, <1>5, <1>6, <1>7, <1>8, <1>9, <1>10, <1>11
       DEF Next, Monitor, Recover, EnterStep, ExitStep

-----------------------------------------------------------------------------
\* A step leaves the private state of a process alone, ends the process, or is its own.
Untouched(q) ==
  /\ phase'[q] = phase[q] /\ mySlot'[q] = mySlot[q] /\ view'[q] = view[q]
  /\ hb'[q] = hb[q] /\ \A t \in Members(q) : tpc'[t] = tpc[t]
  /\ mon'[q] = mon[q] /\ scanned'[q] = scanned[q] /\ idx'[q] = idx[q]
  /\ allIn'[q] = allIn[q] /\ likelyDead'[q] = likelyDead[q]
  /\ seenPid'[q] = seenPid[q] /\ seen'[q] = seen[q]

Acts(q) ==
  \/ Start(q) \/ Construct(q) \/ Heartbeat(q) \/ Monitor(q) \/ Stop(q)
  \/ \E t \in Members(q) : EnterStep(t) \/ ExitStep(t)

\* A process changes only its own state, but that a verdict ends another.
LEMMA OthersUntouched ==
  ASSUME TypeOK, Running, NEW p \in Proc, NEW q \in Proc \ {p}, Acts(p)
  PROVE  Ends(q) \/ Untouched(q)
  <1> USE DEF Untouched
  <1>t. /\ DOMAIN phase = Proc /\ DOMAIN mySlot = Proc /\ DOMAIN view = Proc /\ DOMAIN hb = Proc
        /\ DOMAIN mon = Proc /\ DOMAIN scanned = Proc /\ DOMAIN idx = Proc /\ DOMAIN allIn = Proc
        /\ DOMAIN likelyDead = Proc /\ DOMAIN seenPid = Proc /\ DOMAIN seen = Proc
        /\ DOMAIN tpc = Thread
    BY DEF TypeOK
  <1>m. UNCHANGED tpc => \A t \in Members(q) : tpc'[t] = tpc[t]
    OBVIOUS
  <1>1. ASSUME Start(p) PROVE Untouched(q)
    BY <1>1, <1>t, <1>m DEF Start, Enter, fam, monitorVars, cache
  <1>2. ASSUME AcquireSlot(p) PROVE Untouched(q)
    <2>1. CASE Skips(p)
      BY <1>2, <1>t, <1>m, <2>1 DEF Skips
    <2>2. ASSUME NEW s \in Slot, Takes(p, s) PROVE Untouched(q)
      <3>1. /\ phase'[q] = phase[q] /\ mySlot'[q] = mySlot[q] /\ seenPid'[q] = seenPid[q]
            /\ idx'[q] = idx[q]
        BY <1>t, <2>2 DEF Takes
      <3>2. QED
        BY <1>m, <2>2, <3>1 DEF Takes
    <2>3. QED
      BY <1>2, <2>1, <2>2, AcquireCases
  <1>3. ASSUME NEW e, SetReported(p, e)
        PROVE  seen'[q] = seen[q] /\ seenPid'[q] = seenPid[q]
    BY <1>3, <1>t DEF SetReported
  <1>4. ASSUME Freeze(p) \/ Activate(p) PROVE Untouched(q)
    BY <1>4, <1>3, <1>t, <1>m DEF Freeze, Activate, Enter, monitorVars
  <1>5. ASSUME ViewFrontier(p) \/ HeartbeatLock(p) PROVE Untouched(q)
    BY <1>5, <1>t, <1>m DEF ViewFrontier, HeartbeatLock, Enter, fam, monitorVars, cache
  <1>6. ASSUME HeartbeatReport(p) PROVE Untouched(q)
    BY <1>6, <1>3, <1>t, <1>m DEF HeartbeatReport, monitorVars
  <1>7. ASSUME ScanBegin(p) \/ ScanFrontier(p) PROVE Untouched(q)
    BY <1>7, <1>t, <1>m DEF ScanBegin, ScanFrontier, fam, cache
  <1>8. ASSUME NEW b \in BOOLEAN, ScanSlot(p, b) PROVE Untouched(q)
    BY <1>8, <1>m, ScanSlotEffect
  <1>8a. ASSUME ScanPid(p) PROVE Untouched(q)
    BY <1>8a, <1>t, <1>m DEF ScanPid, fam
  <1>9. ASSUME AdvanceFrontier(p) PROVE Untouched(q)
    BY <1>9, <1>m, AdvanceEffect DEF AdvanceFrontier, cache
  <1>10. ASSUME NEW s \in Slot, Terminate(p, s)
         PROVE  Ends(q) \/ Untouched(q)
    <2>1. CASE mon' = [mon EXCEPT ![p] = "release"] /\
               UNCHANGED <<phase, mySlot, view, tpc, count, hb, scanned, idx,
                           allIn, likelyDead, cache, fam>>
      BY <1>t, <1>m, <2>1 DEF cache
    <2>2. ASSUME NEW x \in Proc, Ends(x), \A r \in Proc \ {p, x} : mon'[r] = mon[r]
          PROVE  Ends(q) \/ Untouched(q)
      <3>1. CASE x = q
        BY <2>2, <3>1
      <3>2. CASE x # q
        BY <2>2, <3>2, VanishEffect DEF Ends, Members
      <3>3. QED
        BY <3>1, <3>2
    <2>3. QED
      BY <1>10, <2>1, <2>2, TerminateCases
  <1>11. ASSUME NEW s \in Slot, Unregister(p, s) PROVE Untouched(q)
    <2>1. UNCHANGED <<mySlot, view, tpc, hb, scanned, idx, allIn, seenPid>>
      BY <1>11 DEF Unregister
    <2>2. QED
      BY <1>11, <1>m, <2>1, UnregisterEffect
  <1>12. ASSUME Stop(p) PROVE Untouched(q)
    BY <1>12, <1>t, <1>m DEF Stop, Enter, monitorVars
  <1>13. ASSUME NEW t \in Members(p), EnterStep(t) \/ ExitStep(t) PROVE Untouched(q)
    <2>h. t \in Thread /\ home[t] = p
      BY DEF Members
    <2>1. \A u \in Members(q) : tpc'[u] = tpc[u]
      <3>1. PICK x : tpc' = [tpc EXCEPT ![t] = x]
        BY <1>13 DEF EnterStep, ExitStep, SharedLock, EnterFirst, ReportFrontier, EnterNested,
           ExitCritical, SharedUnlock
      <3>2. QED
        BY <2>h, <1>t, <3>1 DEF Members
    <2>2. CASE ReportFrontier(t)
      BY <2>h, <1>t, <1>3, <1>13, <2>1, <2>2 DEF ReportFrontier, monitorVars
    <2>3. CASE ~ReportFrontier(t)
      BY <2>h, <1>t, <1>13, <2>1, <2>3 DEF EnterStep, ExitStep, SharedLock, EnterFirst, EnterNested,
         ExitCritical, SharedUnlock, fam, monitorVars, cache
    <2>4. QED
      BY <2>2, <2>3
  <1>14. QED
    BY <1>1, <1>2, <1>4, <1>5, <1>6, <1>7, <1>8, <1>8a, <1>9, <1>10, <1>11, <1>12, <1>13
       DEF Acts, Construct, Heartbeat, Monitor, Recover

\* Every step is one of some process, a thread's of the process it runs in.
LEMMA ActorOrCrash ==
  ASSUME [Next]_vars PROVE UNCHANGED vars \/ \E p \in Proc : Acts(p) \/ Crash(p)
  <1>1. \A t \in Thread : home[t] \in Proc /\ t \in Members(home[t])
    BY ManagerAssumption DEF Members
  <1>2. QED
    BY <1>1 DEF Next, Acts

\* A crash touches nobody else.
LEMMA CrashUntouched ==
  ASSUME TypeOK, NEW p \in Proc, NEW q \in Proc \ {p}, Crash(p) PROVE Untouched(q)
  <1>1. \A t \in Members(q) : t \in Thread /\ home[t] # p
    BY DEF Members
  <1>2. QED
    BY <1>1, CrashEnds, VanishEffect DEF Ends, Untouched

\* What is private to a process changes by its own steps, or goes with it.
LEMMA Private ==
  ASSUME TypeOK, Running, [Next]_vars, NEW q \in Proc
  PROVE  Acts(q) \/ Ends(q) \/ Untouched(q)
  <1>1. CASE UNCHANGED vars
    BY <1>1 DEF vars, Untouched
  <1>2. ASSUME NEW p \in Proc, Acts(p) PROVE Acts(q) \/ Ends(q) \/ Untouched(q)
    BY <1>2, OthersUntouched
  <1>3. ASSUME NEW p \in Proc, Crash(p) PROVE Ends(q) \/ Untouched(q)
    BY <1>3, CrashEnds, CrashUntouched
  <1>4. QED
    BY <1>1, <1>2, <1>3, ActorOrCrash

\* Every step is that of one process, which touches no other or ends it.
LEMMA Actor ==
  ASSUME TypeOK, Running, [Next]_vars
  PROVE  \/ UNCHANGED vars
         \/ \E p \in Proc : Ends(p)
         \/ \E p \in Proc : Acts(p) /\ \A q \in Proc \ {p} : Untouched(q)
  BY ActorOrCrash, CrashEnds, OthersUntouched

-----------------------------------------------------------------------------
\* What is written is a natural.
LEMMA ReportsWhat ==
  ASSUME TypeOK, NEW q \in Proc, Reports(q) PROVE \E e \in Nat : SetReported(q, e)
  <1>1. \A t \in Members(q) : home[t] = q
    BY DEF Members
  <1>2. view[q] \in Nat /\ MinActive \in Nat
    BY DEF TypeOK, MinActive
  <1>3. QED
    BY <1>1, <1>2 DEF Reports, Freeze, Activate, HeartbeatReport, ReportFrontier

\* The cached copy of the own slot follows the slot: set_reported writes both, and
\* nobody else writes the slot.
LEMMA NextOwnCache ==
  ASSUME TypeOK, Running, SlotOwned, Released, OwnCache, [Next]_vars PROVE OwnCache'
  <1> SUFFICES ASSUME NEW q \in Proc, phase'[q] \in Registered
               PROVE  LET s == mySlot'[q] IN /\ seenPid'[q][s] = q
                                             /\ seen'[q][s] # NotCached => seen'[q][s] = reported'[s]
    BY DEF OwnCache
  <1>1. ASSUME NEW s \in Slot, Takes(q, s)
        PROVE  mySlot'[q] = s /\ seenPid'[q][s] = q /\ seen'[q][s] = NotCached
    <2>1. mySlot'[q] = s /\ seenPid'[q][s] = q
      BY <1>1 DEF Takes, TypeOK
    <2>2. seen' = seen /\ seen[q] = NothingSeen
      BY <1>1 DEF Takes, Running
    <2>3. QED
      BY <2>1, <2>2 DEF NothingSeen
  <1> DEFINE s == mySlot[q]
  <1>2. SUFFICES ASSUME phase[q] \in Registered, mySlot'[q] = s
                 PROVE  seenPid'[q][s] = q /\ (seen'[q][s] # NotCached => seen'[q][s] = reported'[s])
    BY <1>1, StillThere
  <1>3. /\ s \in Slot /\ slotPid[s] = q /\ seenPid[q][s] = q
        /\ seen[q][s] # NotCached => seen[q][s] = reported[s]
    BY <1>2 DEF Running, SlotOwned, OwnCache
  <1>4. CASE Reports(q)
    BY <1>3, <1>4, ReportsWhat, SetReportedEffect
  <1>5. SUFFICES ASSUME ~Reports(q)
                 PROVE  seenPid'[q][s] = q /\ seen'[q][s] \in {seen[q][s], NotCached, reported[s]}
    BY <1>2, <1>3, <1>4, OwnReports
  <1>6. CASE Untouched(q)
    BY <1>3, <1>6 DEF Untouched
  <1>7. CASE Ends(q)
    BY <1>7, VanishEffect DEF Ends, Registered
  <1>8. CASE UNCHANGED <<seenPid, seen>>
    BY <1>3, <1>8
  <1>9. ASSUME Start(q) \/ Construct(q) \/ Stop(q) PROVE UNCHANGED <<seenPid, seen>>
    <2>1. phase[q] # "acquiring" /\ phase'[q] \in Registered
      BY <1>2 DEF Registered
    <2>2. ~Stop(q)
      BY <2>1 DEF Stop, Enter, TypeOK, Registered
    <2>3. QED
      BY <1>5, <1>9, <2>1, <2>2 DEF Start, Construct, AcquireSlot, Reports, ViewFrontier, cache
  <1>10. ASSUME Heartbeat(q) PROVE UNCHANGED <<seenPid, seen>>
    BY <1>5, <1>10 DEF Heartbeat, Reports, HeartbeatLock, cache
  <1>11. ASSUME NEW t \in Members(q), EnterStep(t) \/ ExitStep(t) PROVE UNCHANGED <<seenPid, seen>>
    BY <1>5, <1>11 DEF EnterStep, ExitStep, Reports, SharedLock, EnterFirst, EnterNested,
       ExitCritical, SharedUnlock, cache
  <1>12. CASE ScanBegin(q)
    BY <1>3, <1>12 DEF ScanBegin, NothingSeen, TypeOK
  <1>13. CASE ScanFrontier(q) \/ AdvanceFrontier(q)
    BY <1>8, <1>13 DEF ScanFrontier, AdvanceFrontier, cache
  <1>13a. CASE ScanPid(q)
    <2>1. seenPid' = [seenPid EXCEPT ![q][idx[q]] = slotPid[idx[q]]] /\ seen' = seen
      BY <1>13a DEF ScanPid
    <2>2. seenPid'[q][s] = q
      BY <1>3, <2>1 DEF TypeOK
    <2>3. QED
      BY <2>1, <2>2
  <1>14. ASSUME NEW b \in BOOLEAN, ScanSlot(q, b)
         PROVE  seenPid'[q][s] = q /\ seen'[q][s] \in {seen[q][s], NotCached, reported[s]}
    <2>1. seenPid' = seenPid /\ seen' = [seen EXCEPT ![q][idx[q]] = Look(q)]
      BY <1>14, ScanSlotCases DEF Judge
    <2>2. idx[q] = s => Look(q) \in {seen[q][s], reported[s]}
      BY DEF Look
    <2>3. seen'[q][s] = IF idx[q] = s THEN Look(q) ELSE seen[q][s]
      BY <1>3, <2>1 DEF TypeOK
    <2>4. QED
      BY <1>3, <2>1, <2>2, <2>3
  <1>15. ASSUME NEW x \in Slot, Terminate(q, x) PROVE UNCHANGED <<seenPid, seen>> \/
           (seenPid'[q][s] = q /\ seen'[q][s] \in {seen[q][s], NotCached, reported[s]})
    <2>1. CASE UNCHANGED cache
      BY <2>1 DEF cache
    <2>2. ASSUME NEW r \in Proc, Ends(r)
          PROVE  seenPid'[q][s] = q /\ seen'[q][s] \in {seen[q][s], NotCached, reported[s]}
      BY <1>3, <1>7, <2>2, VanishEffect DEF Ends
    <2>3. QED
      BY <1>15, <2>1, <2>2, TerminateCases
  <1>16. ASSUME NEW x \in Slot, Unregister(q, x)
         PROVE  seenPid'[q][s] = q /\ seen'[q][s] \in {seen[q][s], NotCached, reported[s]}
    <2>1. seenPid' = seenPid /\ (seen'[q][s] = NotCached \/ seen'[q][s] = seen[q][s])
      BY <1>3, <1>16, UnregisterEffect DEF Unregister
    <2>2. QED
      BY <1>3, <2>1
  <1>17. QED
    BY <1>6, <1>7, <1>8, <1>9, <1>10, <1>11, <1>12, <1>13, <1>13a, <1>14, <1>15, <1>16,
       Private
       DEF Acts, Monitor, Recover

-----------------------------------------------------------------------------
\* Only the scan itself caches a slot that is not its own, and condemns one: each at
\* the index, which it leaves behind.
LEMMA NextScanAhead ==
  ASSUME TypeOK, Running, ScanAhead, [Next]_vars, Running' PROVE ScanAhead'
  <1> USE DEF Scanning
  <1> SUFFICES ASSUME NEW q \in Proc, NEW s \in Slot
               PROVE  /\ mon'[q] = "frontier" /\ s # mySlot'[q] => seen'[q][s] = NotCached
                      /\ mon'[q] \in Scanning /\ s # mySlot'[q] /\ idx'[q] <= s => seen'[q][s] = NotCached
                      /\ mon'[q] \in Scanning /\ s \in likelyDead'[q] => s < idx'[q]
    BY DEF ScanAhead
  <1> DEFINE Calm == mon'[q] \notin {"frontier"} \cup Scanning
             Goal == /\ mon'[q] = "frontier" /\ s # mySlot'[q] => seen'[q][s] = NotCached
                     /\ mon'[q] \in Scanning /\ s # mySlot'[q] /\ idx'[q] <= s => seen'[q][s] = NotCached
                     /\ mon'[q] \in Scanning /\ s \in likelyDead'[q] => s < idx'[q]
             Same == /\ mon'[q] = mon[q] /\ idx'[q] = idx[q] /\ likelyDead'[q] = likelyDead[q]
                     /\ mySlot'[q] = mySlot[q] /\ (s # mySlot[q] => seen'[q][s] = seen[q][s])
  <1>1. CASE Same
    BY <1>1 DEF ScanAhead
  <1>2. CASE Calm
    BY <1>2
  <1>3. CASE Untouched(q)
    BY <1>1, <1>3 DEF Untouched
  <1>4. CASE Ends(q)
    BY <1>4 DEF Ends
  <1>5. ASSUME phase[q] \notin Joined, mon' = mon PROVE Calm
    BY <1>5 DEF Running
  <1>6. ASSUME Start(q) \/ Construct(q) PROVE Calm
    BY <1>5, <1>6 DEF Start, Construct, AcquireSlot, Freeze, ViewFrontier, Activate, Enter, Joined,
       monitorVars
  <1>7. ASSUME Stop(q) PROVE Calm
    BY <1>7 DEF Stop, monitorVars
  <1>8. ASSUME NEW e, SetReported(q, e), phase[q] \in Registered
        PROVE  s # mySlot[q] => seen'[q][s] = seen[q][s]
    BY <1>8, SetReportedEffect DEF Running
  <1>9. ASSUME Heartbeat(q) PROVE Same
    BY <1>8, <1>9 DEF Heartbeat, HeartbeatLock, HeartbeatReport, Running, Registered, monitorVars, cache
  <1>10. ASSUME NEW t \in Members(q), EnterStep(t) \/ ExitStep(t) PROVE Same
    <2>1. CASE ReportFrontier(t)
      <3>1. home[t] = q /\ phase[q] \in Registered
        BY <2>1 DEF ReportFrontier, Running, Registered, Members
      <3>2. QED
        BY <1>8, <2>1, <3>1 DEF ReportFrontier, monitorVars
    <2>2. CASE ~ReportFrontier(t)
      BY <1>10, <2>2 DEF EnterStep, ExitStep, SharedLock, EnterFirst, EnterNested, ExitCritical,
         SharedUnlock, monitorVars, cache
    <2>3. QED
      BY <2>1, <2>2
  <1>11. CASE ScanBegin(q)
    BY <1>11 DEF ScanBegin, NothingSeen, TypeOK
  <1>12. CASE ScanFrontier(q)
    <2>1. /\ mon[q] = "frontier" /\ mon'[q] = "scan" /\ likelyDead'[q] = {}
          /\ UNCHANGED <<mySlot, seen>>
      BY <1>12 DEF ScanFrontier, TypeOK, cache
    <2>2. QED
      BY <2>1 DEF ScanAhead
  <1>12a. CASE ScanPid(q)
    <2>1. /\ mon[q] = "scan" /\ mon'[q] \in Scanning
          /\ UNCHANGED <<mySlot, idx, likelyDead, seen>>
      BY <1>12a DEF ScanPid, TypeOK
    <2>2. QED
      BY <2>1 DEF ScanAhead
  <1>13. ASSUME NEW b \in BOOLEAN, ScanSlot(q, b) PROVE Goal
    <2>1. mon[q] \in Scanning /\ idx[q] \in Int /\ s \in Int
      BY <1>13, ScanSlotCases, ManagerAssumption DEF Slot
    <2>2. /\ mon'[q] = "scan" /\ UNCHANGED mySlot /\ idx'[q] = idx[q] + 1
          /\ s # idx[q] => seen'[q][s] = seen[q][s]
      BY <1>13, ScanSlotEffect
    <2>3. s \in likelyDead'[q] => s \in likelyDead[q] \/ s = idx[q]
      <3>1. likelyDead'[q] = IF b THEN likelyDead[q] \cup {idx[q]} ELSE likelyDead[q]
        BY <1>13, ScanSlotEffect
      <3>2. QED
        BY <3>1
    <2>4. QED
      BY <2>1, <2>2, <2>3 DEF ScanAhead
  <1>14. CASE AdvanceFrontier(q)
    BY <1>14, AdvanceEffect
  <1>15. ASSUME NEW x \in Slot, Terminate(q, x) PROVE Calm
    <2>1. CASE mon' = [mon EXCEPT ![q] = "release"]
      BY <2>1 DEF TypeOK
    <2>2. QED
      BY <1>15, <2>1, TerminateCases DEF Ends
  <1>16. ASSUME NEW x \in Slot, Unregister(q, x) PROVE Calm
    BY <1>16, UnregisterEffect
  <1>17. QED
    BY <1>1, <1>2, <1>3, <1>4, <1>6, <1>7, <1>9, <1>10, <1>11, <1>12, <1>12a, <1>13, <1>14, <1>15,
       <1>16, Private
       DEF Acts, Monitor, Recover

-----------------------------------------------------------------------------
\* A verdict was passed before, with the same pid, or the scan passes it now.
LEMMA VerdictSource ==
  ASSUME TypeOK, Running, ScanAhead, [Next]_vars, Running',
         NEW p \in Proc, NEW s \in likelyDead'[p]
  PROVE  \/ s \in likelyDead[p] /\ seenPid'[p][s] = seenPid[p][s]
         \/ ScanSlot(p, TRUE) /\ s = idx[p]
  <1> DEFINE Same == s \in likelyDead[p] /\ seenPid'[p][s] = seenPid[p][s]
  <1>1. CASE UNCHANGED <<likelyDead, seenPid>>
    BY <1>1
  <1>2. CASE Untouched(p)
    BY <1>2 DEF Untouched
  <1>3. CASE Ends(p)
    BY <1>3, VanishEffect DEF Ends
  <1>4. ASSUME phase[p] \notin Joined, likelyDead' = likelyDead PROVE FALSE
    BY <1>4 DEF Running
  <1>5. ASSUME Start(p) \/ Construct(p) PROVE FALSE
    BY <1>4, <1>5 DEF Start, Construct, AcquireSlot, Freeze, ViewFrontier, Activate, Enter, Joined,
       monitorVars
  <1>6. ASSUME Stop(p) PROVE FALSE
    BY <1>6 DEF Stop, monitorVars, Running
  <1>7. ASSUME Heartbeat(p) PROVE UNCHANGED <<likelyDead, seenPid>>
    BY <1>7 DEF Heartbeat, HeartbeatLock, HeartbeatReport, SetReported, monitorVars, cache
  <1>8. ASSUME NEW t \in Members(p), EnterStep(t) \/ ExitStep(t) PROVE UNCHANGED <<likelyDead, seenPid>>
    BY <1>8 DEF EnterStep, ExitStep, SharedLock, EnterFirst, ReportFrontier, EnterNested,
       ExitCritical, SharedUnlock, SetReported, monitorVars, cache
  <1>9. ASSUME ScanBegin(p) \/ AdvanceFrontier(p) PROVE UNCHANGED <<likelyDead, seenPid>>
    BY <1>9 DEF ScanBegin, AdvanceFrontier, cache
  <1>10. ASSUME ScanFrontier(p) PROVE FALSE
    BY <1>10 DEF ScanFrontier, TypeOK
  <1>11. ASSUME NEW b \in BOOLEAN, ScanSlot(p, b) PROVE Same \/ (b = TRUE /\ s = idx[p])
    <2>1. likelyDead'[p] = IF b THEN likelyDead[p] \cup {idx[p]} ELSE likelyDead[p]
      BY <1>11, ScanSlotEffect
    <2>2. seenPid' = seenPid
      BY <1>11, ScanSlotEffect
    <2>3. QED
      BY <2>1, <2>2
  <1>11a. ASSUME ScanPid(p) PROVE Same
    <2>1. mon[p] \in Scanning /\ UNCHANGED likelyDead
      BY <1>11a DEF ScanPid, Scanning
    <2>2. s # idx[p]
      BY <2>1, ManagerAssumption DEF ScanAhead, TypeOK, Slot
    <2>3. seenPid'[p][s] = seenPid[p][s]
      BY <1>11a, <2>2 DEF ScanPid, TypeOK
    <2>4. QED
      BY <2>1, <2>3
  <1>12. ASSUME NEW x \in Slot, Terminate(p, x) PROVE Same
    <2>1. CASE UNCHANGED <<likelyDead, cache>>
      BY <2>1 DEF cache
    <2>2. ASSUME NEW r \in Proc, Ends(r) PROVE Same
      BY <1>3, <2>2, VanishEffect DEF Ends
    <2>3. QED
      BY <1>12, <2>1, <2>2, TerminateCases
  <1>13. ASSUME NEW x \in Slot, Unregister(p, x) PROVE Same
    <2>1. seenPid' = seenPid
      BY <1>13 DEF Unregister
    <2>2. QED
      BY <1>13, <2>1, UnregisterEffect
  <1>14. QED
    BY <1>1, <1>2, <1>3, <1>5, <1>6, <1>7, <1>8, <1>9, <1>10, <1>11, <1>11a, <1>12, <1>13, Private
       DEF Acts, Monitor, Recover

\* A slot is condemned under the pid of its participant, and not taken while it is.
LEMMA NextVerdicts ==
  ASSUME SafeVerdicts, TypeOK, Running, SlotOwned, OwnCache, ScanAhead, Verdicts,
         [Next]_vars, Running'
  PROVE  Verdicts'
  <1> SUFFICES ASSUME NEW p \in Proc, NEW q \in Proc, NEW s \in likelyDead'[p],
                      phase'[q] \in Registered, mySlot'[q] = s
               PROVE  seenPid'[p][s] = q /\ FalseSuspicion
    BY DEF Verdicts
  <1> DEFINE Old == s \in likelyDead[p] /\ seenPid'[p][s] = seenPid[p][s]
             New == ScanSlot(p, TRUE) /\ s = idx[p]
             There == phase[q] \in Registered /\ mySlot'[q] = mySlot[q]
  <1>1. Old \/ New
    BY VerdictSource
  <1>2. There \/ Takes(q, s)
    <2>1. \A x \in Slot : Takes(q, x) => x = s
      BY DEF Takes, TypeOK
    <2>2. QED
      BY <2>1, StillThere
  <1>3. CASE Old /\ There
    BY <1>3 DEF Verdicts
  <1>4. CASE Old /\ Takes(q, s)
    <2>1. mon[p] # "idle"
      BY <1>4 DEF Running
    <2>2. phase[p] \in Live
      BY <2>1 DEF Running, Joined, Live
    <2>3. QED
      BY <1>4, <2>2 DEF Takes, SafeVerdicts
  <1>5. CASE New /\ There
    <2>1. s \in Slot /\ slotPid[s] = q
      BY <1>5 DEF Running, SlotOwned
    <2>2. /\ mon[p] \in Scanning /\ phase[p] \in Registered
          /\ Judge(p, seenPid[p][s], Look(p), TRUE)
          /\ mon[p] = "scan" => seen[p][s] # NotCached
          /\ mon[p] # "scan" => TornVerdicts \/ slotPid[s] = seenPid[p][s]
      BY <1>5, ScanSlotCases DEF Running, Scanning, Joined, Registered
    <2>3. seenPid[p][s] = q
      <3>1. CASE mon[p] # "scan"
        BY <2>1, <2>2, <3>1 DEF SafeVerdicts
      <3>2. CASE mon[p] = "scan"
        <4>1. s = mySlot[p]
          BY <1>5, <2>1, <2>2, <3>2, ManagerAssumption DEF ScanAhead, Scanning, TypeOK, Slot
        <4>2. p = q
          BY <1>5, <2>2, <4>1, Distinct
        <4>3. QED
          BY <2>2, <4>1, <4>2 DEF OwnCache
      <3>3. QED
        BY <3>1, <3>2
    <2>4. FalseSuspicion
      BY <1>5, <2>2, <2>3, ManagerAssumption DEF Judge, MayBeSilent, Registered, Live
    <2>5. seenPid' = seenPid
      BY <2>2 DEF Judge
    <2>6. QED
      BY <2>3, <2>4, <2>5
  <1>6. CASE New /\ Takes(q, s)
    <2>1. phase' = phase
      BY <1>6, ScanSlotCases DEF Judge
    <2>2. QED
      BY <1>6, <2>1 DEF Takes, TypeOK
  <1>7. QED
    BY <1>1, <1>2, <1>3, <1>4, <1>5, <1>6

\* A release is prepared by a Terminate with the same verdict.
LEMMA ReleaseSource ==
  ASSUME TypeOK, Running, [Next]_vars, NEW p \in Proc, mon'[p] = "release"
  PROVE  /\ likelyDead'[p] = likelyDead[p]
         /\ mon[p] = "release" \/ \E s \in Slot : Terminate(p, s)
  <1> DEFINE Same == likelyDead'[p] = likelyDead[p] /\ mon[p] = "release"
  <1>1. CASE UNCHANGED <<likelyDead, mon>>
    BY <1>1
  <1>2. CASE Untouched(p)
    BY <1>2 DEF Untouched
  <1>3. ASSUME Ends(p) PROVE FALSE
    BY <1>3 DEF Ends
  <1>4. ASSUME Start(p) \/ Construct(p) \/ Stop(p) \/ Heartbeat(p) PROVE UNCHANGED <<likelyDead, mon>>
    BY <1>4 DEF Start, Construct, AcquireSlot, Freeze, ViewFrontier, Activate, Stop, Heartbeat,
       HeartbeatLock, HeartbeatReport, monitorVars
  <1>5. ASSUME NEW t \in Members(p), EnterStep(t) \/ ExitStep(t) PROVE UNCHANGED <<likelyDead, mon>>
    BY <1>5 DEF EnterStep, ExitStep, SharedLock, EnterFirst, ReportFrontier, EnterNested,
       ExitCritical, SharedUnlock, monitorVars
  <1>6. ASSUME ScanBegin(p) \/ ScanFrontier(p) \/ ScanPid(p) PROVE FALSE
    BY <1>6 DEF ScanBegin, ScanFrontier, ScanPid, TypeOK
  <1>7. ASSUME NEW b \in BOOLEAN, ScanSlot(p, b) PROVE FALSE
    BY <1>7, ScanSlotCases DEF Judge, TypeOK
  <1>8. ASSUME AdvanceFrontier(p) PROVE FALSE
    BY <1>8, AdvanceEffect
  <1>9. ASSUME NEW x \in Slot, Terminate(p, x) PROVE likelyDead'[p] = likelyDead[p]
    <2>1. ASSUME NEW r \in Proc, Ends(r) PROVE likelyDead'[p] = likelyDead[p]
      BY <1>3, <2>1, VanishEffect DEF Ends
    <2>2. QED
      BY <1>9, <2>1, TerminateCases
  <1>10. ASSUME NEW x \in Slot, Unregister(p, x) PROVE FALSE
    BY <1>10, UnregisterEffect
  <1>11. QED
    BY <1>1, <1>2, <1>3, <1>4, <1>5, <1>6, <1>7, <1>8, <1>9, <1>10, Private
       DEF Acts, Monitor, Recover

\* When a slot is released its participant is dead, and nobody has taken it since.
LEMMA NextReleased ==
  ASSUME SafeVerdicts, TypeOK, Running, Verdicts, Released, [Next]_vars PROVE Released'
  <1> SUFFICES ASSUME NEW p \in Proc, NEW q \in Proc, NEW s \in Slot, mon'[p] = "release",
                      NextVerdict(p, s)', phase'[q] \in Registered, mySlot'[q] = s
               PROVE  FALSE
    BY DEF Released
  <1>1. likelyDead'[p] = likelyDead[p] /\ NextVerdict(p, s)
    BY ReleaseSource DEF NextVerdict
  <1>2. phase[p] \in Live
    <2>1. mon[p] # "idle"
      BY <1>1 DEF NextVerdict, Running
    <2>2. QED
      BY <2>1 DEF Running, Joined, Live
  <1>3. phase[q] \in Registered /\ mySlot[q] = s
    <2>1. \A x \in Slot : ~Takes(q, x)
      BY <1>1, <1>2 DEF Takes, TypeOK, NextVerdict, SafeVerdicts
    <2>2. QED
      BY <2>1, StillThere
  <1>4. CASE mon[p] = "release"
    BY <1>1, <1>3, <1>4 DEF Released
  <1>5. ASSUME NEW x \in Slot, Terminate(p, x) PROVE FALSE
    <2>1. x = s
      BY <1>1, <1>5, TerminateCases, ManagerAssumption DEF NextVerdict, Slot
    <2>2. seenPid[p][s] = q /\ q \in reach[p]
      BY <1>1, <1>3 DEF Verdicts, NextVerdict, SafeVerdicts
    <2>3. phase[q] \in Live
      BY <1>3 DEF Registered, Live
    <2>4. Ends(q)
      BY <1>5, <2>1, <2>2, <2>3, TerminateCases
    <2>5. QED
      BY <2>4, VanishEffect DEF Ends, Registered
  <1>6. QED
    BY <1>4, <1>5, ReleaseSource

-----------------------------------------------------------------------------
(* What a step does to the epoch of a participant q that it leaves one.    *)
\* Nothing, but that the constructor may return;
Keeps(q) ==
  /\ phase'[q] = phase[q] \/ (phase[q] = "starting" /\ phase'[q] = "up")
  /\ reported'[mySlot[q]] = reported[mySlot[q]] /\ view'[q] = view[q]
  /\ Reporting(q)' => Reporting(q)
\* it freezes the frontier;
Freezes(q) ==
  /\ phase[q] = "new" /\ phase'[q] = "frozen" /\ frontier' = frontier
  /\ reported'[mySlot[q]] = MinActive
\* it reads the frontier;
Views(q) ==
  /\ \/ phase[q] = "frozen" /\ phase'[q] = "viewed"
     \/ phase[q] = "up" /\ phase'[q] = "up"
  /\ reported'[mySlot[q]] = reported[mySlot[q]] /\ frontier' = frontier
  /\ view'[q] = frontier
\* or it reports what it has read.
Publishes(q) ==
  /\ \/ phase[q] = "viewed" /\ phase'[q] = "starting"
     \/ phase[q] = "up" /\ phase'[q] = "up" /\ Reporting(q)
  /\ reported'[mySlot[q]] = view[q] /\ frontier' = frontier
  /\ ~Reporting(q)'

\* There is nothing else that a step can do to a participant's epoch.
LEMMA OwnChange ==
  ASSUME TypeOK, Running, SlotOwned, Locked, Released, [Next]_vars, Running',
         NEW q \in Proc, phase[q] \in Registered, phase'[q] \in Registered
  PROVE  Keeps(q) \/ Freezes(q) \/ Views(q) \/ Publishes(q)
  <1>s. mySlot[q] \in Slot
    BY DEF Running
  <1>t. DOMAIN phase = Proc /\ DOMAIN view = Proc /\ DOMAIN hb = Proc /\ DOMAIN tpc = Thread
    BY DEF TypeOK
  <1>m. \A t \in Members(q) : t \in Thread /\ home[t] = q
    BY DEF Members
  <1>r. UNCHANGED <<hb, tpc>> => (Reporting(q)' => Reporting(q))
    BY DEF Reporting, MutexFree, Members
  <1>n. phase'[q] # "up" => ~Reporting(q)'
    BY DEF Running, Reporting, MutexFree, Members
  <1>1. CASE Freeze(q)
    BY <1>1, <1>s, <1>t, SetReportedEffect DEF Freeze, Freezes, Enter
  <1>2. CASE Activate(q)
    BY <1>2, <1>s, <1>t, <1>n, SetReportedEffect DEF Activate, Publishes, Enter
  <1>3. CASE HeartbeatReport(q)
    <2>1. phase[q] = "up" /\ NoReader(q) /\ UNCHANGED <<phase, tpc, frontier>> /\ hb'[q] = "idle"
      BY <1>3, <1>t DEF HeartbeatReport, Running, Locked
    <2>2. ~Reporting(q)'
      BY <2>1 DEF Reporting, MutexFree, NoReader, Members
    <2>3. QED
      BY <1>3, <1>s, <2>1, <2>2, SetReportedEffect DEF HeartbeatReport, Publishes, Reporting
  <1>4. ASSUME NEW t \in Members(q), ReportFrontier(t) PROVE Publishes(q)
    <2>1. /\ phase[q] = "up" /\ UNCHANGED <<phase, hb, frontier>> /\ tpc[t] = "report"
          /\ tpc' = [tpc EXCEPT ![t] = "crit"] /\ SetReported(q, view[q])
      BY <1>4, <1>m DEF ReportFrontier, Running
    <2>2. hb[q] # "write"
      BY <1>m, <2>1 DEF Locked, NoReader
    <2>3. \A u \in Members(q) : tpc'[u] # "report"
      BY <1>m, <1>t, <2>1 DEF Locked, InOperation
    <2>4. ~Reporting(q)'
      BY <2>1, <2>2, <2>3 DEF Reporting, MutexFree, Members
    <2>5. Reporting(q)
      BY <2>1 DEF Reporting, MutexFree
    <2>6. QED
      BY <1>s, <2>1, <2>4, <2>5, SetReportedEffect DEF Publishes
  <1>5. SUFFICES ASSUME ~Reports(q), reported'[mySlot[q]] = reported[mySlot[q]]
                 PROVE  Keeps(q) \/ Views(q)
    BY <1>1, <1>2, <1>3, <1>4, OwnReports DEF Reports
  <1>6. CASE Untouched(q)
    <2>1. Reporting(q)' => Reporting(q)
      BY <1>6 DEF Untouched, Reporting, MutexFree, Members
    <2>2. QED
      BY <1>5, <1>6, <2>1 DEF Untouched, Keeps
  <1>7. ASSUME Ends(q) PROVE FALSE
    BY <1>7, VanishEffect DEF Ends, Registered
  <1>8. CASE UNCHANGED <<phase, view, hb, tpc>>
    BY <1>5, <1>8, <1>r DEF Keeps
  <1>9. ASSUME Start(q) \/ AcquireSlot(q) \/ Stop(q) PROVE FALSE
    BY <1>9, <1>t DEF Start, AcquireSlot, Stop, Enter, Registered
  <1>10. CASE ViewFrontier(q) \/ HeartbeatLock(q)
    <2>1. CASE ViewFrontier(q)
      <3>1. phase[q] = "frozen" /\ phase'[q] = "viewed" /\ view'[q] = frontier
            /\ UNCHANGED <<tpc, hb, frontier>>
        BY <2>1, <1>t DEF ViewFrontier, Enter, fam
      <3>2. ~Reporting(q)'
        BY <3>1, <1>n
      <3>3. QED
        BY <1>5, <3>1, <3>2 DEF Views
    <2>2. CASE HeartbeatLock(q)
      <3>1. phase[q] = "up" /\ view'[q] = frontier /\ UNCHANGED <<phase, frontier>>
        BY <2>2, <1>t DEF HeartbeatLock, fam
      <3>2. QED
        BY <1>5, <3>1 DEF Views
    <2>3. QED
      BY <1>10, <2>1, <2>2
  <1>11. ASSUME ScanBegin(q) \/ ScanFrontier(q) \/ ScanPid(q)
         PROVE  UNCHANGED <<phase, view, hb, tpc>>
    BY <1>11 DEF ScanBegin, ScanFrontier, ScanPid
  <1>12. ASSUME NEW b \in BOOLEAN, ScanSlot(q, b) PROVE UNCHANGED <<phase, view, hb, tpc>>
    BY <1>12 DEF ScanSlot, ScanEpoch, ScanCached, Judge
  <1>13. CASE AdvanceFrontier(q)
    <2>1. UNCHANGED <<view, hb, tpc>>
      BY <1>13 DEF AdvanceFrontier
    <2>2. QED
      BY <1>5, <1>13, <1>r, <2>1, AdvanceEffect DEF Keeps
  <1>14. ASSUME NEW x \in Slot, Terminate(q, x) PROVE Keeps(q)
    <2>1. ASSUME NEW p \in Proc, Ends(p), p # q PROVE Keeps(q)
      <3>1. phase'[q] = phase[q] /\ view'[q] = view[q] /\ hb'[q] = hb[q]
        BY <2>1, VanishEffect DEF Ends
      <3>2. \A t \in Members(q) : tpc'[t] = tpc[t]
        BY <1>m, <2>1, VanishEffect DEF Ends
      <3>3. Reporting(q)' => Reporting(q)
        BY <3>1, <3>2 DEF Reporting, MutexFree, Members
      <3>4. QED
        BY <1>5, <3>1, <3>3 DEF Keeps
    <2>2. CASE \E p \in Proc : Ends(p)
      BY <1>7, <2>1, <2>2
    <2>3. CASE ~\E p \in Proc : Ends(p)
      <3>1. UNCHANGED <<phase, view, hb, tpc>>
        BY <1>14, <2>3, TerminateCases
      <3>2. QED
        BY <1>5, <1>r, <3>1 DEF Keeps
    <2>4. QED
      BY <2>2, <2>3
  <1>15. ASSUME NEW x \in Slot, Unregister(q, x) PROVE Keeps(q)
    <2>1. UNCHANGED <<view, hb, tpc>>
      BY <1>15 DEF Unregister
    <2>2. QED
      BY <1>5, <1>15, <1>r, <2>1, UnregisterEffect DEF Keeps
  <1>16. ASSUME NEW t \in Members(q), EnterFirst(t) PROVE Views(q)
    BY <1>5, <1>16, <1>t, <1>m DEF EnterFirst, Views, Running, fam
  <1>17. ASSUME NEW t \in Members(q), SharedLock(t) \/ EnterNested(t) \/ ExitStep(t) PROVE Keeps(q)
    <2>1. PICK x \in {"shared", "crit", "leaving", "idle"} : tpc' = [tpc EXCEPT ![t] = x]
      BY <1>17 DEF SharedLock, EnterNested, ExitStep, ExitCritical, SharedUnlock
    <2>2. UNCHANGED <<phase, view, hb>>
      BY <1>17 DEF SharedLock, EnterNested, ExitStep, ExitCritical, SharedUnlock
    <2>3. Reporting(q)' => Reporting(q)
      BY <1>m, <1>t, <2>1, <2>2 DEF Reporting, MutexFree, Members
    <2>4. QED
      BY <1>5, <2>2, <2>3 DEF Keeps
  <1>18. ASSUME NEW t \in Members(q), EnterStep(t) \/ ExitStep(t) PROVE Keeps(q) \/ Views(q)
    BY <1>5, <1>16, <1>17, <1>18 DEF EnterStep, Reports
  <1>19. ASSUME Construct(q) \/ Heartbeat(q) PROVE Keeps(q) \/ Views(q)
    BY <1>5, <1>9, <1>10, <1>19 DEF Construct, Heartbeat, Reports
  <1>20. QED
    BY <1>6, <1>7, <1>8, <1>9, <1>11, <1>12, <1>13, <1>14, <1>15, <1>18, <1>19, Private
       DEF Acts, Monitor, Recover
-----------------------------------------------------------------------------
\* Only the CAS of advance_frontier moves the frontier, by one, and only when it has
\* passed every slot.
LEMMA FrontierStep ==
  ASSUME TypeOK, [Next]_vars
  PROVE  \/ frontier' = frontier
         \/ /\ frontier' = frontier + 1 /\ frontier < MaxEpoch
            /\ \E p \in Proc : /\ AdvanceFrontier(p) /\ mon[p] = "scan" /\ idx[p] > NrSlots
                               /\ allIn[p] /\ frontier = scanned[p]
  <1> DEFINE Moves(p) == /\ frontier' = frontier + 1 /\ frontier < MaxEpoch
                         /\ AdvanceFrontier(p) /\ mon[p] = "scan" /\ idx[p] > NrSlots
                         /\ allIn[p] /\ frontier = scanned[p]
  <1>1. CASE UNCHANGED vars
    BY <1>1 DEF vars
  <1>2. ASSUME NEW p \in Proc, Start(p) \/ Construct(p) PROVE frontier' = frontier
    BY <1>2 DEF Start, Construct, AcquireSlot, Freeze, ViewFrontier, Activate, fam
  <1>3. ASSUME NEW p \in Proc, Heartbeat(p) \/ Stop(p) \/ Crash(p) PROVE frontier' = frontier
    BY <1>3 DEF Heartbeat, HeartbeatLock, HeartbeatReport, Stop, Crash, fam
  <1>4. ASSUME NEW p \in Proc, NEW b \in BOOLEAN, \/ ScanBegin(p) \/ ScanFrontier(p)
                                                    \/ ScanPid(p) \/ ScanSlot(p, b)
        PROVE  frontier' = frontier
    BY <1>4 DEF ScanBegin, ScanFrontier, ScanPid, ScanSlot, ScanEpoch, ScanCached, Judge, fam
  <1>5. ASSUME NEW p \in Proc, AdvanceFrontier(p) PROVE frontier' = frontier \/ Moves(p)
    BY <1>5 DEF AdvanceFrontier
  <1>6. ASSUME NEW p \in Proc, Recover(p) PROVE frontier' = frontier
    BY <1>6 DEF Recover, Terminate, Unregister, fam
  <1>7. ASSUME NEW t \in Thread, EnterStep(t) \/ ExitStep(t) PROVE frontier' = frontier
    BY <1>7 DEF EnterStep, ExitStep, SharedLock, EnterFirst, ReportFrontier, EnterNested,
       ExitCritical, SharedUnlock, fam
  <1>8. QED
    BY <1>1, <1>2, <1>3, <1>4, <1>5, <1>6, <1>7 DEF Next, Monitor

\* When the frontier moves, every participant was at it.
LEMMA AllAtFrontier ==
  ASSUME TypeOK, Running, ScanBehind, [Next]_vars, frontier' # frontier
  PROVE  /\ frontier' = frontier + 1 /\ frontier < MaxEpoch
         /\ \A q \in Proc : phase[q] \in Registered => AtFrontier(q)
         /\ \E p \in Proc : AdvanceFrontier(p)
  <1>1. PICK p \in Proc : /\ frontier' = frontier + 1 /\ frontier < MaxEpoch
                          /\ AdvanceFrontier(p) /\ mon[p] = "scan" /\ idx[p] > NrSlots
                          /\ allIn[p] /\ frontier = scanned[p]
    BY FrontierStep
  <1>2. ASSUME NEW q \in Proc, phase[q] \in Registered PROVE AtFrontier(q)
    <2>1. mySlot[q] \in Slot
      BY <1>2 DEF Running
    <2>2. mySlot[q] < idx[p]
      BY <1>1, <2>1, ManagerAssumption DEF Slot, TypeOK
    <2>3. QED
      BY <1>1, <1>2, <2>2 DEF ScanBehind, Scanning
  <1>3. QED
    BY <1>1, <1>2

\* What a participant is about to report is the frontier or one behind, and so is
\* what it has reported when it reports that.
LEMMA NextLag ==
  ASSUME TypeOK, Running, SlotOwned, Locked, Released, Lag, ScanBehind, [Next]_vars,
         TypeOK', Running'
  PROVE  Lag'
  <1>f. frontier \in Nat /\ MinActive <= frontier /\ (frontier' = frontier \/ frontier' = frontier + 1)
    BY FrontierStep DEF TypeOK, Lag
  <1>1. SUFFICES ASSUME NEW q \in Proc PROVE LagOf(q)'
    BY <1>f DEF Lag, MinActive
  <1>2. Reporting(q)' => phase'[q] = "up"
    BY DEF Running, Reporting, MutexFree, Members
  <1>3. CASE phase'[q] \notin Registered
    BY <1>2, <1>3 DEF LagOf, Registered, Joined
  <1>4. ASSUME NEW s \in Slot, Takes(q, s) PROVE LagOf(q)'
    <2>1. phase'[q] = "new"
      BY <1>4 DEF Takes, TypeOK
    <2>2. QED
      BY <1>2, <2>1 DEF LagOf, Joined
  <1>5. CASE /\ phase[q] \in Registered /\ phase'[q] \in Registered /\ mySlot'[q] = mySlot[q]
    <2> DEFINE r == reported[mySlot[q]]
    <2>1. mySlot[q] \in Slot /\ r \in Nat /\ view[q] \in Nat /\ view'[q] \in Nat
      BY <1>5 DEF Running, TypeOK
    <2>2. LagOf(q)
      BY DEF Lag
    <2>3. CASE Keeps(q)
      <3>1. CASE frontier' = frontier
        BY <1>5, <2>1, <2>2, <2>3, <3>1 DEF LagOf, Keeps, AtMostOneBehind, Joined
      <3>2. CASE frontier' # frontier
        <4>1. AtFrontier(q) /\ frontier' = frontier + 1
          BY <1>5, <3>2, AllAtFrontier
        <4>2. QED
          BY <1>5, <1>f, <2>1, <2>2, <2>3, <4>1
             DEF LagOf, Keeps, AtMostOneBehind, Joined, AtFrontier, MinActive
      <3>3. QED
        BY <3>1, <3>2
    <2>4. CASE Freezes(q)
      BY <1>2, <1>5, <2>4 DEF LagOf, Freezes, Joined
    <2>5. CASE Views(q)
      BY <1>f, <1>2, <1>5, <2>1, <2>2, <2>5 DEF LagOf, Views, AtMostOneBehind, Joined, MinActive
    <2>6. CASE Publishes(q)
      BY <1>f, <1>5, <2>1, <2>2, <2>6 DEF LagOf, Publishes, AtMostOneBehind, Joined, MinActive
    <2>7. QED
      BY <1>5, <2>3, <2>4, <2>5, <2>6, OwnChange
  <1>6. QED
    BY <1>3, <1>4, <1>5, StillThere
-----------------------------------------------------------------------------
\* A scan that goes on has just begun, has passed one slot, or stands where it was.
LEMMA ScanSource ==
  ASSUME TypeOK, Running, [Next]_vars, Running', NEW p \in Proc, mon'[p] \in Scanning
  PROVE  \/ ScanFrontier(p)
         \/ \E b \in BOOLEAN : ScanSlot(p, b)
         \/ /\ mon[p] \in Scanning /\ scanned'[p] = scanned[p]
            /\ idx'[p] = idx[p] /\ allIn'[p] = allIn[p]
  <1> DEFINE Same == /\ mon[p] \in Scanning /\ scanned'[p] = scanned[p]
                     /\ idx'[p] = idx[p] /\ allIn'[p] = allIn[p]
  <1> USE DEF Scanning
  <1>1. CASE UNCHANGED <<mon, scanned, idx, allIn>>
    BY <1>1
  <1>2. CASE Untouched(p)
    BY <1>2 DEF Untouched
  <1>3. ASSUME Ends(p) PROVE FALSE
    BY <1>3 DEF Ends
  <1>4. ASSUME Start(p) \/ Construct(p) PROVE UNCHANGED <<mon, scanned, idx, allIn>>
    <2>1. phase'[p] \in Joined
      BY DEF Running
    <2>2. ~AcquireSlot(p)
      <3>1. ~Skips(p)
        BY <2>1 DEF Skips, Joined
      <3>2. \A x \in Slot : ~Takes(p, x)
        BY <2>1 DEF Takes, TypeOK, Joined
      <3>3. QED
        BY <3>1, <3>2, AcquireCases
    <2>3. QED
      BY <1>4, <2>2 DEF Start, Construct, Freeze, ViewFrontier, Activate, monitorVars
  <1>5. ASSUME Stop(p) \/ Heartbeat(p) PROVE UNCHANGED <<mon, scanned, idx, allIn>>
    BY <1>5 DEF Stop, Heartbeat, HeartbeatLock, HeartbeatReport, monitorVars
  <1>6. ASSUME NEW t \in Members(p), EnterStep(t) \/ ExitStep(t)
        PROVE  UNCHANGED <<mon, scanned, idx, allIn>>
    BY <1>6 DEF EnterStep, ExitStep, SharedLock, EnterFirst, ReportFrontier, EnterNested,
       ExitCritical, SharedUnlock, monitorVars
  <1>7. ASSUME ScanBegin(p) PROVE FALSE
    BY <1>7 DEF ScanBegin, TypeOK
  <1>7a. ASSUME ScanPid(p) PROVE Same
    BY <1>7a DEF ScanPid
  <1>8. ASSUME AdvanceFrontier(p) PROVE FALSE
    BY <1>8, AdvanceEffect
  <1>9. ASSUME NEW x \in Slot, Terminate(p, x) PROVE FALSE
    <2>1. mon' = [mon EXCEPT ![p] = "release"] => mon'[p] = "release"
      BY DEF TypeOK
    <2>2. mon'[p] = "release" \/ Ends(p)
      BY <1>9, <2>1, TerminateCases
    <2>3. QED
      BY <1>3, <2>2
  <1>10. ASSUME NEW x \in Slot, Unregister(p, x) PROVE FALSE
    BY <1>10, UnregisterEffect
  <1>11. QED
    BY <1>1, <1>2, <1>3, <1>4, <1>5, <1>6, <1>7, <1>7a, <1>8, <1>9, <1>10, Private
       DEF Acts, Monitor, Recover

\* A participant at a frontier that stands still stays at it.
LEMMA StaysAtFrontier ==
  ASSUME TypeOK, Running, SlotOwned, Locked, Released, Lag, [Next]_vars, Running',
         frontier' = frontier, NEW q \in Proc, phase'[q] \in Registered,
         phase[q] \in Registered /\ mySlot'[q] = mySlot[q] => AtFrontier(q)
  PROVE  AtFrontier(q)'
  <1>1. ASSUME NEW s \in Slot, Takes(q, s) PROVE AtFrontier(q)'
    BY <1>1 DEF Takes, TypeOK, AtFrontier, Joined
  <1>2. SUFFICES ASSUME phase[q] \in Registered, mySlot'[q] = mySlot[q], AtFrontier(q)
                 PROVE  AtFrontier(q)'
    BY <1>1, StillThere
  <1>3. CASE Keeps(q)
    BY <1>2, <1>3 DEF Keeps, AtFrontier, Joined
  <1>4. CASE Freezes(q)
    BY <1>4 DEF Freezes, AtFrontier, Joined
  <1>5. CASE Views(q)
    BY <1>2, <1>5 DEF Views, AtFrontier, Joined
  <1>6. CASE Publishes(q)
    <2>1. view[q] = frontier
      <3>1. CASE phase[q] = "viewed"
        BY <1>2, <3>1 DEF AtFrontier
      <3>2. CASE phase[q] = "up" /\ Reporting(q)
        <4>1. mySlot[q] \in Slot /\ reported[mySlot[q]] \in Nat /\ view[q] \in Nat /\ frontier \in Nat
          BY <1>2 DEF Running, TypeOK
        <4>2. reported[mySlot[q]] = frontier
          BY <1>2, <3>2 DEF AtFrontier, Joined
        <4>3. reported[mySlot[q]] <= view[q] /\ view[q] <= frontier
          BY <3>2 DEF Lag, LagOf
        <4>4. QED
          BY <4>1, <4>2, <4>3
      <3>3. QED
        BY <1>6, <3>1, <3>2 DEF Publishes
    <2>2. QED
      BY <1>2, <1>6, <2>1 DEF Publishes, AtFrontier, Joined
  <1>7. QED
    BY <1>2, <1>3, <1>4, <1>5, <1>6, OwnChange

\* A participant whose slot a scan passes, and finds no reason not to advance, is at
\* the frontier if that is the frontier the scan has read.
LEMMA PassedAtFrontier ==
  ASSUME TypeOK, Running, SlotOwned, OwnCache, ScanAhead, Lag,
         NEW p \in Proc, NEW b \in BOOLEAN, ScanSlot(p, b), allIn'[p], scanned[p] = frontier,
         NEW q \in Proc, phase[q] \in Registered, mySlot[q] = idx[p]
  PROVE  AtFrontier(q)
  <1> DEFINE s == idx[p]
  <1>1. /\ s \in Slot /\ mon[p] \in Scanning /\ phase[p] \in Registered
        /\ Judge(p, seenPid[p][s], Look(p), b)
        /\ mon[p] = "scan" => seen[p][s] # NotCached
    BY ScanSlotCases DEF Running, Scanning, Joined, Registered
  <1>2. Look(p) = reported[s]
    <2>1. CASE mon[p] # "scan"
      BY <2>1 DEF Look
    <2>2. CASE mon[p] = "scan"
      <3>1. s = mySlot[p]
        BY <1>1, <2>2, ManagerAssumption DEF ScanAhead, Scanning, TypeOK, Slot
      <3>2. QED
        BY <1>1, <2>2, <3>1 DEF Look, OwnCache
    <2>3. QED
      BY <2>1, <2>2
  <1>3. ~(Look(p) >= MinActive /\ Look(p) # scanned[p])
    <2>1. allIn' = [allIn EXCEPT ![p] = @ /\ ~(Look(p) >= MinActive /\ Look(p) # scanned[p])]
      BY <1>1 DEF Judge
    <2>2. QED
      BY <2>1 DEF TypeOK
  <1>4. reported[s] \in Nat /\ view[q] \in Nat /\ frontier \in Nat /\ LagOf(q)
    BY <1>1 DEF TypeOK, Lag
  <1>5. QED
    BY <1>2, <1>3, <1>4 DEF AtFrontier, LagOf, AtMostOneBehind, MinActive, Joined

\* A scan that may advance the frontier knows that who it has passed is at it.
LEMMA NextScanBehind ==
  ASSUME TypeOK, Running, SlotOwned, Locked, OwnCache, ScanAhead, Released, Lag, ScanBehind,
         [Next]_vars, TypeOK', Running'
  PROVE  ScanBehind'
  <1>f. frontier \in Nat /\ frontier' \in Nat /\ (frontier' = frontier \/ frontier' = frontier + 1)
    BY FrontierStep DEF TypeOK
  <1>1. SUFFICES ASSUME NEW p \in Proc, mon'[p] \in Scanning
                 PROVE  /\ scanned'[p] <= frontier'
                        /\ allIn'[p] /\ scanned'[p] = frontier' =>
                             \A q \in Proc : phase'[q] \in Registered /\ mySlot'[q] < idx'[p]
                                               => AtFrontier(q)'
    BY DEF ScanBehind
  <1>2. CASE ScanFrontier(p)
    <2>1. scanned'[p] = frontier /\ idx'[p] = 1
      BY <1>2 DEF ScanFrontier, TypeOK
    <2>2. ASSUME NEW q \in Proc, phase'[q] \in Registered PROVE ~(mySlot'[q] < idx'[p])
      BY <2>1, <2>2, ManagerAssumption DEF Running, Slot
    <2>3. QED
      BY <1>f, <2>1, <2>2
  <1>3. CASE \E b \in BOOLEAN : ScanSlot(p, b)
    <2>1. PICK b \in BOOLEAN : ScanSlot(p, b)
      BY <1>3
    <2>2. /\ mon[p] \in Scanning /\ scanned' = scanned /\ frontier' = frontier
          /\ UNCHANGED <<phase, mySlot>> /\ idx'[p] = idx[p] + 1 /\ (allIn'[p] => allIn[p])
      BY <2>1, ScanSlotCases DEF Judge, fam, TypeOK
    <2>3. scanned[p] <= frontier
      BY <2>2 DEF ScanBehind
    <2>4. ASSUME allIn'[p], scanned'[p] = frontier', NEW q \in Proc,
                 phase'[q] \in Registered, mySlot'[q] < idx'[p]
          PROVE  AtFrontier(q)'
      <3>1. phase[q] \in Registered /\ (mySlot[q] < idx[p] \/ mySlot[q] = idx[p])
        BY <2>2, <2>4, ManagerAssumption DEF Running, Slot, TypeOK
      <3>2. CASE mySlot[q] < idx[p]
        BY <2>2, <2>4, <3>1, <3>2, StaysAtFrontier DEF ScanBehind
      <3>3. CASE mySlot[q] = idx[p]
        BY <2>1, <2>2, <2>4, <3>1, <3>3, PassedAtFrontier, StaysAtFrontier
      <3>4. QED
        BY <3>1, <3>2, <3>3
    <2>5. QED
      BY <2>2, <2>3, <2>4
  <1>4. CASE /\ mon[p] \in Scanning /\ scanned'[p] = scanned[p]
             /\ idx'[p] = idx[p] /\ allIn'[p] = allIn[p]
    <2>1. scanned[p] <= frontier /\ scanned[p] \in Nat
      BY <1>4 DEF ScanBehind, TypeOK
    <2>2. ASSUME allIn'[p], scanned'[p] = frontier', NEW q \in Proc,
                 phase'[q] \in Registered, mySlot'[q] < idx'[p]
          PROVE  AtFrontier(q)'
      <3>1. frontier' = frontier
        BY <1>f, <1>4, <2>1, <2>2
      <3>2. QED
        BY <1>4, <2>2, <3>1, StaysAtFrontier DEF ScanBehind
    <2>3. QED
      BY <1>f, <1>4, <2>1, <2>2
  <1>5. \/ ScanFrontier(p)
        \/ \E b \in BOOLEAN : ScanSlot(p, b)
        \/ /\ mon[p] \in Scanning /\ scanned'[p] = scanned[p]
           /\ idx'[p] = idx[p] /\ allIn'[p] = allIn[p]
    BY <1>1, ScanSource
  <1>6. QED
    BY <1>2, <1>3, <1>4, <1>5
-----------------------------------------------------------------------------
\* The invariant holds when nobody has started ...
LEMMA InitIInv == Init => IInv
  <1> SUFFICES ASSUME Init PROVE IInv
    OBVIOUS
  <1> USE DEF Init, Registered, Joined
  <1>1. TypeOK
    BY InitTypeOK
  <1>2. SlotOwned /\ Running /\ Locked /\ OwnCache
    BY ManagerAssumption DEF SlotOwned, Running, Locked, OwnCache
  <1>3. ScanAhead /\ Verdicts /\ Released /\ ScanBehind
    BY DEF Scanning, ScanAhead, Verdicts, Released, ScanBehind
  <1>4. CountExact
    <2>1. \A p \in Proc : Operations(p) = {}
      BY DEF Operations, Members, InOperation
    <2>2. QED
      BY <2>1, FS_EmptySet DEF CountExact
  <1>5. Lag
    BY DEF Lag, LagOf, Reporting, MutexFree, Members, MinActive
  <1>6. QED
    BY <1>1, <1>2, <1>3, <1>4, <1>5 DEF IInv

\* ... is kept by every step ...
LEMMA Inductive == ASSUME SafeVerdicts, IInv, [Next]_vars PROVE IInv'
  <1> USE DEF IInv
  <1>1. TypeOK' /\ Running' /\ SlotOwned'
    BY NextTypeOK, NextRunning, NextSlotOwned
  <1>2. Locked' /\ CountExact'
    BY NextLocked, NextCountExact
  <1>3. OwnCache' /\ ScanAhead'
    BY <1>1, NextOwnCache, NextScanAhead
  <1>4. Verdicts' /\ Released'
    BY <1>1, NextVerdicts, NextReleased
  <1>5. Lag' /\ ScanBehind'
    BY <1>1, NextLag, NextScanBehind
  <1>6. QED
    BY <1>1, <1>2, <1>3, <1>4, <1>5

\* ... and so holds in every reachable state.
LEMMA Invariance == ASSUME SafeVerdicts PROVE Spec => []IInv
  <1>1. IInv /\ [Next]_vars => IInv'
    BY Inductive
  <1>2. QED
    BY <1>1, InitIInv, PTL DEF Spec

-----------------------------------------------------------------------------
(* Every variable has its type, whatever the verdicts are.                 *)
THEOREM TypeCorrect == Spec => []TypeOK
  <1>1. TypeOK /\ [Next]_vars => TypeOK'
    BY NextTypeOK
  <1>2. QED
    BY <1>1, InitTypeOK, PTL DEF Spec

(* A registered process owns its slot: no acquire_slot takes it, and no    *)
(* release_slot of a recovery resets it, while the process lives, provided *)
(* that verdicts are safe: without that the code does not ensure it.       *)
THEOREM SlotOwnedTheorem == ASSUME SafeVerdicts PROVE Spec => []SlotOwned
  <1>1. IInv => SlotOwned
    BY DEF IInv
  <1>2. QED
    BY <1>1, Invariance, PTL

(* A process with a thread inside an operation has reported the frontier   *)
(* or the epoch before it, whatever advance_frontier of the others does.   *)
THEOREM CriticalLagTheorem == ASSUME SafeVerdicts PROVE Spec => []CriticalLag
  <1>1. IInv => CriticalLag
    <2> SUFFICES ASSUME IInv, NEW t \in Thread, tpc[t] = "crit" PROVE AtMostOneBehind(reported[mySlot[home[t]]])
      BY DEF CriticalLag, AtMostOneBehind
    <2>1. home[t] \in Proc /\ phase[home[t]] \in Joined
      BY ManagerAssumption DEF IInv, Running, Joined
    <2>2. QED
      BY <2>1 DEF IInv, Lag, LagOf
  <1>2. QED
    BY <1>1, Invariance, PTL

(* The epoch of a process stands still while it has an operation open: the *)
(* heartbeat reports only under the exclusive lock, and enter_critical     *)
(* only for the first operation of the process.                            *)
THEOREM EpochStableTheorem == ASSUME SafeVerdicts PROVE Spec => EpochStable
  <1>1. ASSUME IInv, IInv', [Next]_vars
        PROVE  [\A t \in Thread : tpc[t] = "crit" /\ tpc'[t] = "crit"
                  => reported'[mySlot[home[t]]] = reported[mySlot[home[t]]]]_vars
    <2> SUFFICES ASSUME NEW t \in Thread, tpc[t] = "crit", tpc'[t] = "crit"
                 PROVE  reported'[mySlot[home[t]]] = reported[mySlot[home[t]]]
      OBVIOUS
    <2> DEFINE q == home[t]
    <2>1. q \in Proc /\ phase[q] = "up" /\ phase'[q] = "up" /\ t \in Members(q)
      BY <1>1, ManagerAssumption DEF IInv, Running, Members
    <2>2. ~Freeze(q) /\ ~Activate(q)
      BY <2>1 DEF Freeze, Activate, Enter
    <2>3. ~HeartbeatReport(q)
      BY <1>1, <2>1 DEF HeartbeatReport, IInv, Locked, NoReader
    <2>4. ASSUME NEW u \in Members(q), ReportFrontier(u) PROVE FALSE
      BY <1>1, <2>4 DEF ReportFrontier, IInv, Locked, InOperation, Members
    <2>5. QED
      BY <1>1, <2>1, <2>2, <2>3, <2>4, OwnReports DEF Reports, Registered, IInv
  <1>2. QED
    BY <1>1, Invariance, PTL DEF EpochStable, Spec
-----------------------------------------------------------------------------
(* The refinement of Epochs, one process at a time.                        *)
EpochFn == [p \in Proc |-> epochOf(p)]
Inside == {t \in Thread : tpc[t] = "crit"}

\* The test of the slot in epochOf is always true of a participant.
LEMMA EpochOfRegistered ==
  ASSUME SlotOwned, NEW p \in Proc
  PROVE  epochOf(p) = IF phase[p] = "viewed" THEN view[p]
                      ELSE IF phase[p] \in Joined THEN reported[mySlot[p]] ELSE 0
  BY DEF epochOf, SlotOwned, Joined, Registered

\* All that the epoch and the operations of a process depend on, but its slot.
Same(q) ==
  /\ phase'[q] = phase[q] /\ mySlot'[q] = mySlot[q] /\ view'[q] = view[q] /\ hb'[q] = hb[q]
  /\ \A t \in Members(q) : tpc'[t] = tpc[t]

\* At most one process changes its epoch or its operations at a step.
LEMMA OneActor ==
  ASSUME TypeOK, Running, [Next]_vars
  PROVE  UNCHANGED vars \/ \E p \in Proc : \A q \in Proc \ {p} : Same(q)
  <1>1. ASSUME NEW p \in Proc, Ends(p), NEW q \in Proc \ {p} PROVE Same(q)
    BY <1>1, VanishEffect DEF Ends, Same, Members
  <1>2. ASSUME NEW q \in Proc, Untouched(q) PROVE Same(q)
    BY <1>2 DEF Untouched, Same
  <1>3. QED
    BY <1>1, <1>2, Actor

\* The others keep their epochs: nobody writes their slots.
LEMMA SameEpoch ==
  ASSUME TypeOK, Running, SlotOwned, Released, [Next]_vars, SlotOwned', NEW q \in Proc, Same(q)
  PROVE  epochOf(q)' = epochOf(q)
  <1>1. ~Reports(q)
    BY DEF Reports, Freeze, Activate, HeartbeatReport, ReportFrontier, Enter, Same, TypeOK, Members
  <1>2. phase[q] \in Registered => reported'[mySlot[q]] = reported[mySlot[q]]
    BY <1>1, OwnReports DEF Same
  <1>3. /\ epochOf(q) = IF phase[q] = "viewed" THEN view[q]
                        ELSE IF phase[q] \in Joined THEN reported[mySlot[q]] ELSE 0
        /\ epochOf(q)' = IF phase'[q] = "viewed" THEN view'[q]
                         ELSE IF phase'[q] \in Joined THEN reported'[mySlot'[q]] ELSE 0
    BY EpochOfRegistered DEF epochOf, SlotOwned, Joined, Registered
  <1>4. QED
    BY <1>2, <1>3 DEF Same, Joined, Registered

\* A participant keeps its epoch, joins at the frontier, or catches up with it.
LEMMA EpochChange ==
  ASSUME IInv, [Next]_vars, IInv', NEW q \in Proc,
         phase[q] \in Registered, phase'[q] \in Registered, mySlot'[q] = mySlot[q]
  PROVE  \/ epochOf(q)' = epochOf(q)
         \/ phase[q] = "frozen" /\ phase'[q] = "viewed" /\ epochOf(q) = 0 /\ epochOf(q)' = frontier
         \/ phase[q] = "up" /\ Reporting(q) /\ epochOf(q)' = frontier
  <1>1. /\ epochOf(q) = IF phase[q] = "viewed" THEN view[q]
                        ELSE IF phase[q] \in Joined THEN reported[mySlot[q]] ELSE 0
        /\ epochOf(q)' = IF phase'[q] = "viewed" THEN view'[q]
                         ELSE IF phase'[q] \in Joined THEN reported'[mySlot'[q]] ELSE 0
    BY EpochOfRegistered DEF epochOf, SlotOwned, Joined, Registered, IInv
  <1>2. mySlot[q] \in Slot /\ reported[mySlot[q]] \in Nat /\ view[q] \in Nat /\ frontier \in Nat
    BY DEF IInv, Running, TypeOK
  <1>3. CASE Keeps(q)
    BY <1>1, <1>3 DEF Keeps, Joined
  <1>4. CASE Freezes(q)
    BY <1>1, <1>4 DEF Freezes, Joined
  <1>5. CASE Views(q)
    BY <1>1, <1>5 DEF Views, Joined
  <1>6. CASE Publishes(q)
    <2>1. CASE phase[q] = "viewed"
      BY <1>1, <1>6, <2>1 DEF Publishes, Joined
    <2>2. CASE phase[q] = "up" /\ Reporting(q)
      <3>1. AtMostOneBehind(reported[mySlot[q]]) /\ reported[mySlot[q]] <= view[q] /\ view[q] <= frontier
        BY <2>2 DEF IInv, Lag, LagOf, Joined
      <3>2. view[q] = reported[mySlot[q]] \/ view[q] = frontier
        BY <1>2, <3>1 DEF AtMostOneBehind
      <3>3. epochOf(q) = reported[mySlot[q]] /\ epochOf(q)' = view[q]
        BY <1>1, <1>6, <2>2 DEF Publishes, Joined
      <3>4. QED
        BY <2>2, <3>2, <3>3
    <2>3. QED
      BY <1>6, <2>1, <2>2 DEF Publishes
  <1>7. QED
    BY <1>3, <1>4, <1>5, <1>6, OwnChange DEF IInv

\* To be at the frontier is to have it as epoch, or none.
LEMMA StandsAtFrontier ==
  ASSUME SlotOwned, NEW q \in Proc, phase[q] \in Registered => AtFrontier(q)
  PROVE  epochOf(q) \in {0, frontier}
  BY EpochOfRegistered DEF AtFrontier, Registered, Joined

\* Which threads are inside changes by one step of one thread.
LEMMA InsideChange ==
  ASSUME TypeOK, Running, [Next]_vars, NEW p \in Proc, \A q \in Proc \ {p} : Same(q),
         phase'[p] \in Registered
  PROVE  \/ Inside' = Inside
         \/ \E t \in Members(p) : t \notin Inside /\ phase[p] = "up" /\ Inside' = Inside \cup {t}
         \/ \E t \in Members(p) : t \in Inside /\ Inside' = Inside \ {t}
  <1>t. DOMAIN tpc = Thread
    BY DEF TypeOK
  <1>h. \A t \in Thread : home[t] \in Proc /\ t \in Members(home[t])
    BY ManagerAssumption DEF Members
  <1>1. CASE UNCHANGED tpc
    BY <1>1 DEF Inside
  <1>2. ASSUME NEW r \in Proc, Ends(r) PROVE UNCHANGED Inside
    <2>1. r # p
      BY <1>2, VanishEffect DEF Ends, Registered
    <2>2. \A t \in Thread : tpc'[t] = tpc[t]
      BY <1>2, <1>h, <2>1, VanishEffect DEF Ends, Same
    <2>3. QED
      BY <2>2 DEF Inside
  <1>3. ASSUME NEW t \in Thread, NEW x, tpc[t] # x, tpc' = [tpc EXCEPT ![t] = x]
        PROVE  home[t] = p
    BY <1>3, <1>h, <1>t DEF Same
  <1>4. ASSUME NEW t \in Thread, SharedLock(t) \/ EnterFirst(t) \/ SharedUnlock(t)
        PROVE  UNCHANGED Inside
    <2>1. \E x \in {"shared", "report", "idle"} : tpc[t] # "crit" /\ tpc' = [tpc EXCEPT ![t] = x]
      BY <1>4 DEF SharedLock, EnterFirst, SharedUnlock
    <2>2. QED
      BY <1>t, <2>1 DEF Inside
  <1>5. ASSUME NEW t \in Thread, ReportFrontier(t) \/ EnterNested(t)
        PROVE  t \in Members(p) /\ t \notin Inside /\ phase[p] = "up" /\ Inside' = Inside \cup {t}
    <2>1. tpc[t] \in {"report", "shared"} /\ tpc' = [tpc EXCEPT ![t] = "crit"]
      BY <1>5 DEF ReportFrontier, EnterNested
    <2>2. home[t] = p /\ phase[p] = "up"
      BY <1>3, <2>1 DEF Running
    <2>3. QED
      BY <1>t, <1>h, <2>1, <2>2 DEF Inside
  <1>6. ASSUME NEW t \in Thread, ExitCritical(t)
        PROVE  t \in Members(p) /\ t \in Inside /\ Inside' = Inside \ {t}
    <2>1. tpc[t] = "crit" /\ tpc' = [tpc EXCEPT ![t] = "leaving"]
      BY <1>6 DEF ExitCritical
    <2>2. home[t] = p
      BY <1>3, <2>1
    <2>3. QED
      BY <1>t, <1>h, <2>1, <2>2 DEF Inside
  <1>7. CASE UNCHANGED vars
    BY <1>1, <1>7 DEF vars
  <1>8. ASSUME NEW r \in Proc, Start(r) \/ Construct(r) \/ Heartbeat(r) \/ Stop(r) PROVE UNCHANGED tpc
    BY <1>8 DEF Start, Construct, AcquireSlot, Freeze, ViewFrontier, Activate, Heartbeat,
       HeartbeatLock, HeartbeatReport, Stop
  <1>9. ASSUME NEW r \in Proc, NEW b \in BOOLEAN,
               \/ ScanBegin(r) \/ ScanFrontier(r) \/ ScanPid(r) \/ ScanSlot(r, b)
               \/ AdvanceFrontier(r)
        PROVE  UNCHANGED tpc
    BY <1>9 DEF ScanBegin, ScanFrontier, ScanPid, ScanSlot, ScanEpoch, ScanCached, Judge,
       AdvanceFrontier
  <1>10. ASSUME NEW r \in Proc, NEW s \in Slot, Terminate(r, s) PROVE UNCHANGED tpc \/ UNCHANGED Inside
    BY <1>2, <1>10, TerminateCases
  <1>11. ASSUME NEW r \in Proc, NEW s \in Slot, Unregister(r, s) PROVE UNCHANGED tpc
    BY <1>11 DEF Unregister
  <1>12. ASSUME NEW r \in Proc, Crash(r) PROVE UNCHANGED Inside
    BY <1>2, <1>12, CrashEnds
  <1>13. QED
    BY <1>1, <1>4, <1>5, <1>6, <1>7, <1>8, <1>9, <1>10, <1>11, <1>12
       DEF Next, Monitor, Recover, EnterStep, ExitStep

\* Epochs' steps, stated with EpochFn and Inside.
LEMMA EpochFnChange ==
  ASSUME NEW p \in Proc, \A q \in Proc \ {p} : epochOf(q)' = epochOf(q)
  PROVE  EpochFn' = [EpochFn EXCEPT ![p] = epochOf(p)']
  BY DEF EpochFn

\* A process that is not a participant after a step, or has just become one, has
\* left, with its operations.
LEMMA LeaveRefines ==
  ASSUME IInv', frontier' = frontier, NEW p \in Proc,
         \A q \in Proc \ {p} : Same(q) /\ epochOf(q)' = epochOf(q),
         phase'[p] \notin {"viewed"} \cup Joined
  PROVE  Ep!Leave(p)
  <1>1. epochOf(p)' = 0
    BY DEF epochOf
  <1>2. EpochFn' = [EpochFn EXCEPT ![p] = 0]
    BY <1>1, EpochFnChange
  <1>3. \A t \in Members(p) : tpc'[t] = "idle"
    BY DEF IInv, Running, Joined, Members
  <1>4. \A t \in Thread \ Members(p) : tpc'[t] = tpc[t]
    BY ManagerAssumption DEF Same, Members
  <1>5. Inside' = Inside \ Members(p)
    BY <1>3, <1>4 DEF Inside
  <1>6. QED
    BY <1>2, <1>5 DEF Ep!Leave, Ep!Members, Members, EpochFn, Inside

\* The frontier moves when every participant reports it, and nothing else does then.
LEMMA AdvanceRefines ==
  ASSUME IInv, [Next]_vars, IInv', frontier' # frontier
  PROVE  Ep!Advance
  <1>1. /\ frontier' = frontier + 1 /\ frontier < MaxEpoch
        /\ \A q \in Proc : phase[q] \in Registered => AtFrontier(q)
    BY AllAtFrontier DEF IInv
  <1>2. PICK p \in Proc : AdvanceFrontier(p)
    BY AllAtFrontier DEF IInv
  <1>3. \A q \in Proc : epochOf(q) \in {0, frontier}
    BY <1>1, StandsAtFrontier DEF IInv
  <1>4. ASSUME NEW q \in Proc PROVE epochOf(q)' = epochOf(q)
    <2>1. /\ phase'[q] = phase[q] \/ (phase[q] = "starting" /\ phase'[q] = "up")
          /\ UNCHANGED <<mySlot, slotPid, reported, view>>
      BY <1>2, AdvanceEffect DEF IInv, AdvanceFrontier
    <2>2. QED
      BY <2>1 DEF epochOf, Joined
  <1>5. UNCHANGED <<EpochFn, Inside>>
    BY <1>2, <1>4 DEF AdvanceFrontier, EpochFn, Inside
  <1>6. QED
    BY <1>1, <1>3, <1>5 DEF Ep!Advance, EpochFn, Inside

\* Every step of the protocol is one of Epochs or a stutter.
LEMMA StepRefines ==
  ASSUME IInv, [Next]_vars, IInv' PROVE [Ep!Next]_(Ep!vars)
  <1>1. CASE UNCHANGED vars
    BY <1>1 DEF vars, Ep!vars, epochOf
  <1>2. CASE frontier' # frontier
    BY <1>2, AdvanceRefines DEF Ep!Next
  <1>3. ASSUME frontier' = frontier, NEW p \in Proc, \A q \in Proc \ {p} : Same(q)
        PROVE  [Ep!Next]_(Ep!vars)
    <2>1. \A q \in Proc \ {p} : epochOf(q)' = epochOf(q)
      BY <1>3, SameEpoch DEF IInv
    <2>2. CASE phase'[p] \notin {"viewed"} \cup Joined
      BY <1>3, <2>1, <2>2, LeaveRefines DEF Ep!Next
    <2>3. CASE phase'[p] \in {"viewed"} \cup Joined
      <3>1. phase'[p] \in Registered /\ \A s \in Slot : ~Takes(p, s)
        BY <2>3 DEF Takes, Registered, Joined, IInv, TypeOK
      <3>2. phase[p] \in Registered /\ mySlot'[p] = mySlot[p]
        BY <3>1, StillThere DEF IInv
      <3>3. EpochFn' = [EpochFn EXCEPT ![p] = epochOf(p)']
        BY <2>1, EpochFnChange
      <3>4. /\ Members(p) = Ep!Members(p) /\ Members(p) \subseteq Thread
            /\ \A t \in Members(p) : home[t] = p
            /\ EpochFn[p] = epochOf(p)
        BY DEF Members, Ep!Members, EpochFn
      <3>5. Reporting(p) => Inside \cap Members(p) = {}
        BY DEF IInv, Locked, NoReader, Reporting, MutexFree, InOperation, Inside, Members
      <3>6. phase[p] = "up" => epochOf(p) # 0
        <4>1. reported[mySlot[p]] \in Nat
          BY <3>2 DEF IInv, Running, TypeOK
        <4>2. phase[p] = "up" => AtMostOneBehind(reported[mySlot[p]])
          BY DEF IInv, Lag, LagOf, Joined
        <4>3. phase[p] = "up" => epochOf(p) = reported[mySlot[p]]
          BY EpochOfRegistered DEF IInv, Joined
        <4>4. QED
          BY <4>1, <4>2, <4>3 DEF AtMostOneBehind, MinActive
      <3>7. CASE Inside' = Inside /\ epochOf(p)' = epochOf(p)
        <4>1. EpochFn' = EpochFn
          BY <3>3, <3>4, <3>7 DEF EpochFn
        <4>2. QED
          BY <1>3, <3>7, <4>1 DEF Ep!vars, EpochFn, Inside
      <3>8. CASE Inside' = Inside /\ epochOf(p) = 0 /\ epochOf(p)' = frontier
        <4>1. Ep!Join(p)
          BY <1>3, <3>3, <3>4, <3>8 DEF Ep!Join, EpochFn, Inside
        <4>2. QED
          BY <4>1 DEF Ep!Next
      <3>9. CASE Inside' = Inside /\ phase[p] = "up" /\ Reporting(p) /\ epochOf(p)' = frontier
        <4>1. Ep!Report(p)
          BY <1>3, <3>3, <3>4, <3>5, <3>6, <3>9 DEF Ep!Report, EpochFn, Inside
        <4>2. QED
          BY <4>1 DEF Ep!Next
      <3>10. ASSUME NEW t \in Members(p), t \notin Inside, phase[p] = "up", Inside' = Inside \cup {t}
             PROVE  Ep!Next
        <4>1. \/ EpochFn' = EpochFn
              \/ Inside \cap Members(p) = {} /\ EpochFn' = [EpochFn EXCEPT ![p] = frontier]
          BY <3>2, <3>1, <3>3, <3>4, <3>5, <3>10, EpochChange DEF EpochFn
        <4>2. Ep!BeginOp(t)
          BY <1>3, <3>4, <3>6, <3>10, <4>1 DEF Ep!BeginOp, EpochFn, Inside
        <4>3. QED
          BY <3>4, <4>2 DEF Ep!Next
      <3>11. ASSUME NEW t \in Members(p), t \in Inside, Inside' = Inside \ {t}
             PROVE  Ep!Next
        <4>1. ~Reporting(p) /\ phase[p] = "up"
          BY <3>4, <3>5, <3>11 DEF IInv, Running, Inside
        <4>2. EpochFn' = EpochFn
          BY <3>1, <3>2, <3>3, <3>4, <4>1, EpochChange DEF EpochFn
        <4>3. Ep!EndOp(t)
          BY <1>3, <3>11, <4>2 DEF Ep!EndOp, EpochFn, Inside
        <4>4. QED
          BY <3>4, <4>3 DEF Ep!Next
      <3>12. \/ Inside' = Inside
             \/ \E t \in Members(p) : t \notin Inside /\ phase[p] = "up" /\ Inside' = Inside \cup {t}
             \/ \E t \in Members(p) : t \in Inside /\ Inside' = Inside \ {t}
        BY <1>3, <3>1, InsideChange DEF IInv
      <3>13. QED
        BY <3>1, <3>2, <3>7, <3>8, <3>9, <3>10, <3>11, <3>12, EpochChange
    <2>4. QED
      BY <2>2, <2>3
  <1>4. QED
    BY <1>1, <1>2, <1>3, OneActor DEF IInv

\* Nobody participates at first.
LEMMA InitRefines == Init => Ep!Init
  BY DEF Init, Ep!Init, epochOf, Joined

(* The epoch protocol implements Epochs: the participants, threads and     *)
(* crashes of the code give a free that is deferred exactly what it relies *)
(* on, as long as every verdict strikes who it was passed on.              *)
THEOREM Refinement == ASSUME SafeVerdicts PROVE Spec => ImplementsEpochs
  <1>1. IInv /\ [Next]_vars /\ IInv' => [Ep!Next]_(Ep!vars)
    BY StepRefines
  <1>2. QED
    BY <1>1, InitRefines, Invariance, PTL DEF Spec, Ep!Spec, ImplementsEpochs
=============================================================================
