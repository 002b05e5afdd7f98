---------------------------- MODULE EpochManager ----------------------------
(***************************************************************************)
(* The epoch protocol of shelf_usage/epoch_vector.cc and                   *)
(* epoch_manager_impl.cc: one action per access to the epoch vector in     *)
(* fabric-attached memory, by the application threads (enter_critical,     *)
(* exit_critical), the heartbeat thread, the monitor thread                *)
(* (advance_frontier) and the constructor and destructor of every process. *)
(*                                                                         *)
(* The process-local lock epoch_lock_ is the reader-writer lock of module  *)
(* RWLock (DCLCRWLock implements it): threads hold it shared from          *)
(* enter_critical to exit_critical, the heartbeat holds it exclusively     *)
(* while hb is "write" and the monitor while mon is "own"; its exclusive   *)
(* sections without an access to the vector are one step.  Time is         *)
(* abstracted: any participant that lags may be found silent for           *)
(* TIMEOUT_US.  A verdict may be carried out on a process that lives, and  *)
(* the kill may fail, in which case the slot is released all the same.     *)
(***************************************************************************)
EXTENDS Integers, FiniteSets

CONSTANTS Proc,            \* ParticipantIDs, one per incarnation of a process
          NoProc,          \* PID_NO_PARTICIPANT
          Thread,          \* application threads
          home,            \* the process a thread runs in
          NrSlots,         \* NR_PARTICIPANT
          MaxEpoch,        \* bound on the frontier
          Monitored,       \* processes that did not call DisableMonitor
          FalseSuspicion,  \* may a live participant be silent for TIMEOUT_US?
          reach,           \* the processes a process can kill: on its own
                           \* node, and of a user whom it may signal
          TornVerdicts,    \* may a scanner condemn a slot that changes hands
                           \* between its loads of the pid and the epoch?
          ReuseCondemned   \* may acquire_slot take a slot that some live
                           \* scanner has condemned?

Slot == 1 .. NrSlots

ASSUME ManagerAssumption ==
  /\ NoProc \notin Proc
  /\ IsFiniteSet(Thread)
  /\ home \in [Thread -> Proc]
  /\ NrSlots \in Nat
  /\ MaxEpoch \in Nat
  /\ Monitored \subseteq Proc
  /\ FalseSuspicion \in BOOLEAN
  /\ reach \in [Proc -> SUBSET Proc] /\ \A p \in Proc : p \in reach[p]
  /\ TornVerdicts \in BOOLEAN /\ ReuseCondemned \in BOOLEAN

\* A verdict strikes the participant it was passed on: a live suspect can be
\* killed, and a slot does not change hands between a scanner's two loads of it
\* nor between its verdict and its release.  The code ensures none of these.
SafeVerdicts ==
  /\ FalseSuspicion => \A p \in Proc : reach[p] = Proc
  /\ ~TornVerdicts
  /\ ~ReuseCondemned

NoParticipant == 0    \* EPOCH_NO_PARTICIPANT
NewParticipant == 1   \* EPOCH_NEW_PARTICIPANT
MinActive == 2        \* EPOCH_ACTIVE_PARTICIPANT = EPOCH_MIN_ACTIVE

VARIABLES
  \* the epoch vector, in fabric-attached memory
  frontier, slotPid, reported,
  \* per process: lifecycle, slot, frontier value read by report_frontier
  phase, mySlot, view,
  \* application threads and active_epoch_count_
  tpc, count,
  \* heartbeat thread
  hb,
  \* monitor thread: pc, its copy of the frontier, loop index, verdicts
  mon, scanned, idx, allIn, likelyDead,
  \* the volatile copy of the vector: pids, and epochs where it is valid
  seenPid, seen

fam == <<frontier, slotPid, reported>>
monitorVars == <<mon, scanned, idx, allIn, likelyDead>>
cache == <<seenPid, seen>>
vars == <<frontier, slotPid, reported, phase, mySlot, view, tpc, count, hb,
          mon, scanned, idx, allIn, likelyDead, seenPid, seen>>

Phase == {"out", "acquiring", "new", "frozen", "viewed", "starting", "up",
          "gone", "dead"}
Live == {"acquiring", "new", "frozen", "viewed", "starting", "up"}
Registered == {"new", "frozen", "viewed", "starting", "up"}
Joined == {"starting", "up"}

MonitorPc == {"idle", "frontier", "scan", "epoch", "own", "kill", "release"}

NotCached == -1
NothingSeen == [s \in Slot |-> NotCached]

TypeOK ==
  /\ frontier \in Nat
  /\ slotPid \in [Slot -> Proc \cup {NoProc}]
  /\ reported \in [Slot -> Nat]
  /\ phase \in [Proc -> Phase]
  /\ mySlot \in [Proc -> Slot \cup {0}]
  /\ view \in [Proc -> Nat]
  /\ tpc \in [Thread -> {"idle", "shared", "report", "crit", "leaving"}]
  /\ count \in [Proc -> Int]
  /\ hb \in [Proc -> {"idle", "write"}]
  /\ mon \in [Proc -> MonitorPc]
  /\ scanned \in [Proc -> Nat]
  /\ idx \in [Proc -> 1 .. NrSlots + 1]
  /\ allIn \in [Proc -> BOOLEAN]
  /\ likelyDead \in [Proc -> SUBSET Slot]
  /\ seenPid \in [Proc -> [Slot -> Proc \cup {NoProc}]]
  /\ seen \in [Proc -> [Slot -> Nat \cup {NotCached}]]

Members(p) == {t \in Thread : home[t] = p}

\* epoch_lock_: held shared by a thread from sharedLock to sharedUnlock,
\* exclusively by a heartbeat between its two accesses to the vector and by a
\* monitor between its two loads of the own slot.
NoReader(p) == \A t \in Members(p) : tpc[t] = "idle"
NoWriter(p) == hb[p] = "idle" /\ mon[p] # "own"
ExclusiveFree(p) == NoReader(p) /\ NoWriter(p)

\* active_epoch_mutex_ is held across a step only by the thread that reports.
MutexFree(p) == \A t \in Members(p) : tpc[t] # "report"

Init ==
  /\ frontier = MinActive
  /\ slotPid = [s \in Slot |-> NoProc]
  /\ reported = [s \in Slot |-> NoParticipant]
  /\ phase = [p \in Proc |-> "out"]
  /\ mySlot = [p \in Proc |-> 0]
  /\ view = [p \in Proc |-> 0]
  /\ tpc = [t \in Thread |-> "idle"]
  /\ count = [p \in Proc |-> 0]
  /\ hb = [p \in Proc |-> "idle"]
  /\ mon = [p \in Proc |-> "idle"]
  /\ scanned = [p \in Proc |-> 0]
  /\ idx = [p \in Proc |-> 1]
  /\ allIn = [p \in Proc |-> TRUE]
  /\ likelyDead = [p \in Proc |-> {}]
  /\ seenPid = [p \in Proc |-> [s \in Slot |-> NoProc]]
  /\ seen = [p \in Proc |-> NothingSeen]

Enter(p, from, to) == phase[p] = from /\ phase' = [phase EXCEPT ![p] = to]

\* EpochVector::set_reported: the vector first, then the cached copy.
SetReported(p, e) ==
  /\ reported' = [reported EXCEPT ![mySlot[p]] = e]
  /\ seen' = [seen EXCEPT ![p][mySlot[p]] = e]
  /\ UNCHANGED seenPid

-----------------------------------------------------------------------------
(* The constructor: register_participant, activate, advance_frontier.      *)

Start(p) ==
  /\ Enter(p, "out", "acquiring")
  /\ UNCHANGED <<fam, mySlot, view, tpc, count, hb, monitorVars, cache>>

\* Mutants of the definitions they precede are named Bad...
BadAcquireSlot(p) ==   \* the CAS would not compare the pid
  LET s == idx[p] IN
  /\ phase[p] = "acquiring"
  /\ s <= NrSlots
  /\ reported[s] \in {NoParticipant, NewParticipant}
  /\ slotPid' = [slotPid EXCEPT ![s] = p]
  /\ reported' = [reported EXCEPT ![s] = NewParticipant]
  /\ mySlot' = [mySlot EXCEPT ![p] = s]
  /\ seenPid' = [seenPid EXCEPT ![p][s] = p]
  /\ phase' = [phase EXCEPT ![p] = "new"]
  /\ idx' = [idx EXCEPT ![p] = 1]
  /\ UNCHANGED <<seen, frontier, view, tpc, count, hb, mon, scanned, allIn, likelyDead>>

\* One CAS of acquire_slot on the slot at the loop index.
AcquireSlot(p) ==
  LET s == idx[p]
      verdicts == UNION {likelyDead[q] : q \in {r \in Proc : phase[r] \in Live}}
  IN
  /\ phase[p] = "acquiring"
  /\ s <= NrSlots
  /\ IF slotPid[s] = NoProc /\ reported[s] = NoParticipant
       THEN /\ ReuseCondemned \/ s \notin verdicts
            /\ slotPid' = [slotPid EXCEPT ![s] = p]
            /\ reported' = [reported EXCEPT ![s] = NewParticipant]
            /\ mySlot' = [mySlot EXCEPT ![p] = s]
            /\ seenPid' = [seenPid EXCEPT ![p][s] = p]
            /\ phase' = [phase EXCEPT ![p] = "new"]
            /\ idx' = [idx EXCEPT ![p] = 1]
       ELSE /\ idx' = [idx EXCEPT ![p] = @ + 1]
            /\ UNCHANGED <<slotPid, reported, mySlot, seenPid, phase>>
  /\ UNCHANGED <<seen, frontier, view, tpc, count, hb, mon, scanned, allIn, likelyDead>>

\* activate: freeze the frontier, read it, report it.
Freeze(p) ==
  /\ Enter(p, "new", "frozen")
  /\ SetReported(p, MinActive)
  /\ UNCHANGED <<frontier, slotPid, mySlot, view, tpc, count, hb, monitorVars>>

ViewFrontier(p) ==
  /\ Enter(p, "frozen", "viewed")
  /\ view' = [view EXCEPT ![p] = frontier]
  /\ UNCHANGED <<fam, mySlot, tpc, count, hb, monitorVars, cache>>

Activate(p) ==
  /\ Enter(p, "viewed", "starting")
  /\ SetReported(p, view[p])
  /\ view' = [view EXCEPT ![p] = 0]
  /\ UNCHANGED <<frontier, slotPid, mySlot, tpc, count, hb, monitorVars>>

-----------------------------------------------------------------------------
(* enter_critical and exit_critical by a thread of a running process.      *)

SharedLock(t) ==
  /\ phase[home[t]] = "up"
  /\ tpc[t] = "idle"
  /\ NoWriter(home[t])
  /\ tpc' = [tpc EXCEPT ![t] = "shared"]
  /\ UNCHANGED <<fam, phase, mySlot, view, count, hb, monitorVars, cache>>

\* The first operation of the process keeps the mutex and reads the frontier.
EnterFirst(t) ==
  LET p == home[t] IN
  /\ tpc[t] = "shared"
  /\ MutexFree(p)
  /\ count[p] = 0
  /\ count' = [count EXCEPT ![p] = @ + 1]
  /\ view' = [view EXCEPT ![p] = frontier]
  /\ tpc' = [tpc EXCEPT ![t] = "report"]
  /\ UNCHANGED <<fam, phase, mySlot, hb, monitorVars, cache>>

ReportFrontier(t) ==
  LET p == home[t] IN
  /\ tpc[t] = "report"
  /\ SetReported(p, view[p])
  /\ view' = [view EXCEPT ![p] = 0]
  /\ tpc' = [tpc EXCEPT ![t] = "crit"]
  /\ UNCHANGED <<frontier, slotPid, phase, mySlot, count, hb, monitorVars>>

\* Later operations run in the epoch the first one reported.
EnterNested(t) ==
  LET p == home[t] IN
  /\ tpc[t] = "shared"
  /\ MutexFree(p)
  /\ count[p] # 0
  /\ count' = [count EXCEPT ![p] = @ + 1]
  /\ tpc' = [tpc EXCEPT ![t] = "crit"]
  /\ UNCHANGED <<fam, phase, mySlot, view, hb, monitorVars, cache>>

ExitCritical(t) ==
  LET p == home[t] IN
  /\ tpc[t] = "crit"
  /\ MutexFree(p)
  /\ count' = [count EXCEPT ![p] = @ - 1]
  /\ tpc' = [tpc EXCEPT ![t] = "leaving"]
  /\ UNCHANGED <<fam, phase, mySlot, view, hb, monitorVars, cache>>

SharedUnlock(t) ==
  /\ tpc[t] = "leaving"
  /\ tpc' = [tpc EXCEPT ![t] = "idle"]
  /\ UNCHANGED <<fam, phase, mySlot, view, count, hb, monitorVars, cache>>

-----------------------------------------------------------------------------
(* heartbeat_thread_entry: report_frontier under the exclusive lock.       *)

BadHeartbeatLock(p) ==   \* without the exclusive lock
  /\ phase[p] = "up"
  /\ NoWriter(p)
  /\ hb' = [hb EXCEPT ![p] = "write"]
  /\ view' = [view EXCEPT ![p] = frontier]
  /\ UNCHANGED <<fam, phase, mySlot, tpc, count, monitorVars, cache>>

HeartbeatLock(p) ==
  /\ phase[p] = "up"
  /\ ExclusiveFree(p)
  /\ hb' = [hb EXCEPT ![p] = "write"]
  /\ view' = [view EXCEPT ![p] = frontier]
  /\ UNCHANGED <<fam, phase, mySlot, tpc, count, monitorVars, cache>>

HeartbeatReport(p) ==
  /\ hb[p] = "write"
  /\ SetReported(p, view[p])
  /\ view' = [view EXCEPT ![p] = 0]
  /\ hb' = [hb EXCEPT ![p] = "idle"]
  /\ UNCHANGED <<frontier, slotPid, phase, mySlot, tpc, count, monitorVars>>

-----------------------------------------------------------------------------
(* advance_frontier, called once by the constructor and then by the        *)
(* monitor thread.                                                         *)

\* invalidate_cache under the exclusive lock.
ScanBegin(p) ==
  /\ mon[p] = "idle"
  /\ phase[p] = "starting" \/ (phase[p] = "up" /\ p \in Monitored)
  /\ ExclusiveFree(p)
  /\ mon' = [mon EXCEPT ![p] = "frontier"]
  /\ seen' = [seen EXCEPT ![p] = NothingSeen]
  /\ UNCHANGED <<fam, phase, mySlot, view, tpc, count, hb, scanned, idx, allIn,
                 likelyDead, seenPid>>

BadScanFrontier(p) ==   \* the loop starts before the first slot
  /\ mon[p] = "frontier"
  /\ mon' = [mon EXCEPT ![p] = "scan"]
  /\ scanned' = [scanned EXCEPT ![p] = frontier]
  /\ idx' = [idx EXCEPT ![p] = 0]
  /\ allIn' = [allIn EXCEPT ![p] = TRUE]
  /\ likelyDead' = [likelyDead EXCEPT ![p] = {}]
  /\ UNCHANGED <<fam, phase, mySlot, view, tpc, count, hb, cache>>

ScanFrontier(p) ==
  /\ mon[p] = "frontier"
  /\ mon' = [mon EXCEPT ![p] = "scan"]
  /\ scanned' = [scanned EXCEPT ![p] = frontier]
  /\ idx' = [idx EXCEPT ![p] = 1]
  /\ allIn' = [allIn EXCEPT ![p] = TRUE]
  /\ likelyDead' = [likelyDead EXCEPT ![p] = {}]
  /\ UNCHANGED <<fam, phase, mySlot, view, tpc, count, hb, cache>>

\* May participant q have been silent for TIMEOUT_US?
MayBeSilent(q) == IF q = NoProc THEN TRUE ELSE phase[q] \in Live => FalseSuspicion

BadJudge(p, q, e, timedOut) ==   \* the last slot decides
  LET s == idx[p] IN
  /\ timedOut => e # NoParticipant /\ e # scanned[p] /\ MayBeSilent(q)
  /\ seen' = [seen EXCEPT ![p][s] = e]
  /\ allIn' = [allIn EXCEPT ![p] = ~(e >= MinActive /\ e # scanned[p])]
  /\ likelyDead' = [likelyDead EXCEPT ![p] = IF timedOut THEN @ \cup {s} ELSE @]
  /\ idx' = [idx EXCEPT ![p] = @ + 1]
  /\ mon' = [mon EXCEPT ![p] = "scan"]
  /\ UNCHANGED <<fam, phase, mySlot, view, tpc, count, hb, scanned, seenPid>>

\* What the loop concludes of the slot at its index, whose participant is q as
\* far as it knows, from the epoch e.
Judge(p, q, e, timedOut) ==
  LET s == idx[p] IN
  /\ timedOut => e # NoParticipant /\ e # scanned[p] /\ MayBeSilent(q)
  /\ seen' = [seen EXCEPT ![p][s] = e]
  /\ allIn' = [allIn EXCEPT ![p] = @ /\ ~(e >= MinActive /\ e # scanned[p])]
  /\ likelyDead' = [likelyDead EXCEPT ![p] = IF timedOut THEN @ \cup {s} ELSE @]
  /\ idx' = [idx EXCEPT ![p] = @ + 1]
  /\ mon' = [mon EXCEPT ![p] = "scan"]
  /\ UNCHANGED <<fam, phase, mySlot, view, tpc, count, hb, scanned, seenPid>>

\* Participant::reported where the cached copy is not valid: the 128 bits of a
\* slot are two loads, of the pid ...  The own slot is read under the exclusive
\* lock.
ScanPid(p) ==
  LET s == idx[p] IN
  /\ mon[p] = "scan"
  /\ s <= NrSlots
  /\ seen[p][s] = NotCached
  /\ seenPid[p][s] = p => ExclusiveFree(p)
  /\ mon' = [mon EXCEPT ![p] = IF seenPid[p][s] = p THEN "own" ELSE "epoch"]
  /\ seenPid' = [seenPid EXCEPT ![p][s] = slotPid[s]]
  /\ UNCHANGED <<fam, phase, mySlot, view, tpc, count, hb, scanned, idx, allIn,
                 likelyDead, seen>>

\* ... and of the epoch, which may be that of the slot's next owner.
ScanEpoch(p, timedOut) ==
  LET s == idx[p] IN
  /\ mon[p] \in {"epoch", "own"}
  /\ s <= NrSlots
  /\ timedOut => TornVerdicts \/ slotPid[s] = seenPid[p][s]
  /\ Judge(p, seenPid[p][s], reported[s], timedOut)

\* A valid cached copy answers without an access to the vector.
ScanCached(p, timedOut) ==
  LET s == idx[p] IN
  /\ mon[p] = "scan"
  /\ s <= NrSlots
  /\ seen[p][s] # NotCached
  /\ seenPid[p][s] = p => ExclusiveFree(p)
  /\ Judge(p, seenPid[p][s], seen[p][s], timedOut)

ScanSlot(p, timedOut) == ScanEpoch(p, timedOut) \/ ScanCached(p, timedOut)

\* advance_frontier returns; the first time the constructor returns, too.
Return(p) == phase' = [phase EXCEPT ![p] = IF @ = "starting" THEN "up" ELSE @]

BadAdvanceFrontier(p) ==   \* fetch_add instead of the CAS
  /\ mon[p] = "scan"
  /\ idx[p] > NrSlots
  /\ frontier' = IF allIn[p] /\ frontier < MaxEpoch THEN frontier + 1 ELSE frontier
  /\ IF likelyDead[p] = {}
       THEN mon' = [mon EXCEPT ![p] = "idle"] /\ Return(p)
       ELSE mon' = [mon EXCEPT ![p] = "kill"] /\ UNCHANGED phase
  /\ idx' = [idx EXCEPT ![p] = 1]
  /\ allIn' = [allIn EXCEPT ![p] = TRUE]
  /\ scanned' = [scanned EXCEPT ![p] = 0]
  /\ UNCHANGED <<slotPid, reported, mySlot, view, tpc, count, hb, likelyDead, cache>>

\* The loop is over: CAS the frontier if every active participant was in it.
AdvanceFrontier(p) ==
  /\ mon[p] = "scan"
  /\ idx[p] > NrSlots
  /\ frontier' = IF allIn[p] /\ frontier = scanned[p] /\ frontier < MaxEpoch
                   THEN frontier + 1 ELSE frontier
  /\ IF likelyDead[p] = {}
       THEN mon' = [mon EXCEPT ![p] = "idle"] /\ Return(p)
       ELSE mon' = [mon EXCEPT ![p] = "kill"] /\ UNCHANGED phase
  /\ idx' = [idx EXCEPT ![p] = 1]
  /\ allIn' = [allIn EXCEPT ![p] = TRUE]
  /\ scanned' = [scanned EXCEPT ![p] = 0]
  /\ UNCHANGED <<slotPid, reported, mySlot, view, tpc, count, hb, likelyDead, cache>>

\* The verdicts are carried out in slot order.
NextVerdict(p, s) == s \in likelyDead[p] /\ \A x \in likelyDead[p] : s <= x

\* What is left of a process that dies: its slot, and nothing else.
Vanish(p) ==
  /\ phase' = [phase EXCEPT ![p] = "dead"]
  /\ mySlot' = [mySlot EXCEPT ![p] = 0]
  /\ view' = [view EXCEPT ![p] = 0]
  /\ tpc' = [t \in Thread |-> IF home[t] = p THEN "idle" ELSE tpc[t]]
  /\ count' = [count EXCEPT ![p] = 0]
  /\ hb' = [hb EXCEPT ![p] = "idle"]
  /\ scanned' = [scanned EXCEPT ![p] = 0]
  /\ idx' = [idx EXCEPT ![p] = 1]
  /\ allIn' = [allIn EXCEPT ![p] = TRUE]
  /\ likelyDead' = [likelyDead EXCEPT ![p] = {}]
  /\ seenPid' = [seenPid EXCEPT ![p] = [s \in Slot |-> NoProc]]
  /\ seen' = [seen EXCEPT ![p] = NothingSeen]

\* ParticipantManager::terminate(ptc.id()): SIGKILL, which also hits a live
\* process.  A pid that is 0 or gone is skipped; so is a live process on another
\* node (ESRCH, too) and one of another user (EPERM: the exception is caught).
Terminate(p, s) ==
  LET q == seenPid[p][s] IN
  /\ mon[p] = "kill"
  /\ NextVerdict(p, s)
  /\ IF q # NoProc /\ q \in reach[p] /\ phase[q] \in Live
       THEN /\ Vanish(q)
            /\ mon' = [mon EXCEPT ![q] = "idle", ![p] = IF q = p THEN "idle" ELSE "release"]
       ELSE /\ mon' = [mon EXCEPT ![p] = "release"]
            /\ UNCHANGED <<phase, mySlot, view, tpc, count, hb, scanned, idx,
                           allIn, likelyDead, cache>>
  /\ UNCHANGED fam

BadUnregister(p, s) ==   \* killed, but its slot is not released
  LET rest == likelyDead[p] \ {s} IN
  /\ mon[p] = "release"
  /\ NextVerdict(p, s)
  /\ seen' = [seen EXCEPT ![p][s] = NotCached]
  /\ likelyDead' = [likelyDead EXCEPT ![p] = rest]
  /\ IF rest = {}
       THEN mon' = [mon EXCEPT ![p] = "idle"] /\ Return(p)
       ELSE mon' = [mon EXCEPT ![p] = "kill"] /\ UNCHANGED phase
  /\ UNCHANGED <<fam, mySlot, view, tpc, count, hb, scanned, idx, allIn, seenPid>>

\* ptc.unregister(), whether or not the kill succeeded: release_slot writes
\* unconditionally.
Unregister(p, s) ==
  LET rest == likelyDead[p] \ {s} IN
  /\ mon[p] = "release"
  /\ NextVerdict(p, s)
  /\ seen' = [seen EXCEPT ![p][s] = NotCached]
  /\ slotPid' = [slotPid EXCEPT ![s] = NoProc]
  /\ reported' = [reported EXCEPT ![s] = NoParticipant]
  /\ likelyDead' = [likelyDead EXCEPT ![p] = rest]
  /\ IF rest = {}
       THEN mon' = [mon EXCEPT ![p] = "idle"] /\ Return(p)
       ELSE mon' = [mon EXCEPT ![p] = "kill"] /\ UNCHANGED phase
  /\ UNCHANGED <<frontier, mySlot, view, tpc, count, hb, scanned, idx, allIn, seenPid>>

-----------------------------------------------------------------------------
(* The destructor joins the heartbeat and the monitor, then unregisters.   *)
Stop(p) ==
  /\ ExclusiveFree(p)
  /\ mon[p] = "idle"
  /\ Enter(p, "up", "gone")
  /\ slotPid' = [slotPid EXCEPT ![mySlot[p]] = NoProc]
  /\ reported' = [reported EXCEPT ![mySlot[p]] = NoParticipant]
  /\ mySlot' = [mySlot EXCEPT ![p] = 0]
  /\ seenPid' = [seenPid EXCEPT ![p] = [s \in Slot |-> NoProc]]
  /\ seen' = [seen EXCEPT ![p] = NothingSeen]
  /\ UNCHANGED <<frontier, view, tpc, count, hb, monitorVars>>

\* A process dies at any point; so does one that found every slot taken, for
\* its constructor throws.
Crash(p) ==
  /\ phase[p] \in Live
  /\ Vanish(p)
  /\ mon' = [mon EXCEPT ![p] = "idle"]
  /\ UNCHANGED fam

-----------------------------------------------------------------------------
Construct(p) ==
  AcquireSlot(p) \/ Freeze(p) \/ ViewFrontier(p) \/ Activate(p)

EnterStep(t) == SharedLock(t) \/ EnterFirst(t) \/ ReportFrontier(t) \/ EnterNested(t)
ExitStep(t) == ExitCritical(t) \/ SharedUnlock(t)
Heartbeat(p) == HeartbeatLock(p) \/ HeartbeatReport(p)
Recover(p) == \E s \in Slot : Terminate(p, s) \/ Unregister(p, s)
Monitor(p) ==
  \/ ScanBegin(p) \/ ScanFrontier(p) \/ ScanPid(p)
  \/ ScanSlot(p, TRUE) \/ ScanSlot(p, FALSE)
  \/ AdvanceFrontier(p) \/ Recover(p)

Next ==
  \/ \E p \in Proc : \/ Start(p) \/ Construct(p) \/ Heartbeat(p) \/ Monitor(p)
                     \/ Stop(p) \/ Crash(p)
  \/ \E t \in Thread : EnterStep(t) \/ ExitStep(t)

Spec == Init /\ [][Next]_vars

(***************************************************************************)
(* Fairness: the threads of a live process are scheduled, an operation     *)
(* ends, and the exclusive lock is granted to a writer that keeps asking   *)
(* (the writer bit of DCLCRWLock holds new readers off, hence strong       *)
(* fairness on the steps that need the lock).  A participant that is dead  *)
(* and lags is silent for TIMEOUT_US sooner or later.  Nothing makes an    *)
(* application start an operation or a process.                            *)
(***************************************************************************)
ThreadStep(t) == EnterFirst(t) \/ ReportFrontier(t) \/ EnterNested(t) \/ ExitStep(t)
MonitorStep(p) ==
  \/ ScanFrontier(p) \/ ScanEpoch(p, TRUE) \/ ScanEpoch(p, FALSE)
  \/ AdvanceFrontier(p) \/ Recover(p)

FairSpec ==
  /\ Spec
  /\ \A t \in Thread : WF_vars(ThreadStep(t))
  /\ \A p \in Proc :
       /\ SF_vars(HeartbeatLock(p)) /\ WF_vars(HeartbeatReport(p))
       /\ WF_vars(Construct(p) \/ MonitorStep(p))
       /\ SF_vars(ScanBegin(p))
       /\ SF_vars(ScanPid(p) \/ ScanCached(p, FALSE) \/ ScanCached(p, TRUE))
       /\ \A s \in Slot : SF_vars(idx[p] = s /\ ScanEpoch(p, TRUE))

-----------------------------------------------------------------------------
(* The vector's invariant ("Processes may be executing at the frontier     *)
(* epoch or lack behind, but they are never ahead"), and how far behind:   *)
(* a process with a thread in an operation has reported the frontier or    *)
(* the epoch before it, so the frontier cannot run away from a reader.     *)
CriticalLag ==
  \A t \in Thread : tpc[t] = "crit" =>
    LET r == reported[mySlot[home[t]]] IN r <= frontier /\ frontier <= r + 1

(* The same promise from inside an operation, where the epoch is the one   *)
(* EpochOp::reported_epoch answers from the cache: a free deferred to that *)
(* epoch waits until the frontier is two past it (README, delayed free).   *)
OperationHoldsFrontier ==
  \A t \in Thread : tpc[t] = "crit" =>
    LET e == seen[home[t]][mySlot[home[t]]] IN e # NotCached => frontier <= e + 1

(* A registered process owns its slot: no other participant acquires it    *)
(* and no recovery resets it while the process lives.                      *)
SlotOwned ==
  \A p \in Proc : phase[p] \in Registered => slotPid[mySlot[p]] = p

(* The epoch of a process stands still while it has an operation open.     *)
EpochStable ==
  [][\A t \in Thread : tpc[t] = "crit" /\ tpc'[t] = "crit"
       => reported'[mySlot[home[t]]] = reported[mySlot[home[t]]]]_vars

(* Refinement: the protocol gives the code that defers frees exactly the   *)
(* epochs of module Epochs.  A process participates from the moment it     *)
(* has read the frontier in activate.                                      *)
epochOf(p) ==
  IF phase[p] = "viewed" THEN view[p]
  ELSE IF phase[p] \in Joined /\ slotPid[mySlot[p]] = p THEN reported[mySlot[p]]
  ELSE 0
Ep == INSTANCE Epochs WITH
        FirstEpoch <- MinActive,
        epoch <- [p \in Proc |-> epochOf(p)],
        inOp <- {t \in Thread : tpc[t] = "crit"}
ImplementsEpochs == Ep!Spec

(* Progress: the frontier moves past every epoch as long as a process with *)
(* a monitor runs, whoever crashes and wherever: participants that lag     *)
(* catch up through the heartbeat, and dead ones lose their slot.          *)
Monitoring == \E p \in Monitored : phase[p] \in Joined
FrontierMoves == []<>(frontier = MaxEpoch \/ ~Monitoring)
=============================================================================
