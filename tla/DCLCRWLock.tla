----------------------------- MODULE DCLCRWLock -----------------------------
(***************************************************************************)
(* The distributed-cache-line-counter reader-writer lock of                *)
(* shelf_usage/dclcrwlock.cc, one action per atomic operation.  Readers    *)
(* announce themselves in the counter their thread id hashes to (several   *)
(* threads may share one) and then look at writersMutex; a writer takes    *)
(* writersMutex and then waits for the counters, one after the other.      *)
(***************************************************************************)
EXTENDS Integers, FiniteSets

CONSTANTS Thread,      \* the threads of one process
          NumCores,    \* number of counters (hardware_concurrency)
          bucketOf     \* thread2idx: the counter a thread's id hashes to

Bucket == 1 .. NumCores

ASSUME LockAssumption ==
  /\ IsFiniteSet(Thread)
  /\ NumCores \in Nat
  /\ bucketOf \in [Thread -> Bucket]

VARIABLES readersCounters,  \* one counter per bucket
          writersMutex,     \* DCLC_RWL_UNLOCKED = 0, DCLC_RWL_LOCKED = 1
          pc,               \* what each thread does next
          scanned           \* idx of the loop of exclusiveLock, per thread

vars == <<readersCounters, writersMutex, pc, scanned>>

\* Where a thread has its announcement in its counter.
SharedPC == {"s_check", "s_retract", "t_check", "t_retract", "reading"}
\* Where a thread has taken writersMutex.
WriterPC == {"x_scan", "writing"}
PC == {"idle", "s_spin", "x_cas"} \cup SharedPC \cup WriterPC

TypeOK ==
  /\ readersCounters \in [Bucket -> Int]
  /\ writersMutex \in {0, 1}
  /\ pc \in [Thread -> PC]
  /\ scanned \in [Thread -> 1 .. NumCores + 1]

Init ==
  /\ readersCounters = [b \in Bucket |-> 0]
  /\ writersMutex = 0
  /\ pc = [t \in Thread |-> "idle"]
  /\ scanned = [t \in Thread |-> 1]

Goto(t, from, to) == pc[t] = from /\ pc' = [pc EXCEPT ![t] = to]

FetchAdd(t, n) ==
  readersCounters' = [readersCounters EXCEPT ![bucketOf[t]] = @ + n]

-----------------------------------------------------------------------------
(* sharedLock: announce, look at writersMutex, retract and spin if locked. *)

SharedAnnounce(t) ==
  /\ Goto(t, "idle", "s_check")
  /\ FetchAdd(t, 1)
  /\ UNCHANGED <<writersMutex, scanned>>

\* Mutants of the definitions they precede are named Bad...: the checks of
\* this project fail on each of them.
BadSharedCheck(t) ==   \* writersMutex is not looked at
  /\ Goto(t, "s_check", "reading")
  /\ UNCHANGED <<readersCounters, writersMutex, scanned>>

SharedCheck(t) ==
  /\ Goto(t, "s_check", IF writersMutex = 0 THEN "reading" ELSE "s_retract")
  /\ UNCHANGED <<readersCounters, writersMutex, scanned>>

SharedRetract(t) ==
  /\ Goto(t, "s_retract", "s_spin")
  /\ FetchAdd(t, -1)
  /\ UNCHANGED <<writersMutex, scanned>>

BadSharedRetry(t) ==   \* no spinning on writersMutex
  /\ Goto(t, "s_spin", "s_check")
  /\ FetchAdd(t, 1)
  /\ UNCHANGED <<writersMutex, scanned>>

\* The spin loop ends when writersMutex is seen unlocked; then the outer
\* loop announces again.
SharedRetry(t) ==
  /\ writersMutex = 0
  /\ Goto(t, "s_spin", "s_check")
  /\ FetchAdd(t, 1)
  /\ UNCHANGED <<writersMutex, scanned>>

(* trySharedLock: the same without the retry. *)

TryAnnounce(t) ==
  /\ Goto(t, "idle", "t_check")
  /\ FetchAdd(t, 1)
  /\ UNCHANGED <<writersMutex, scanned>>

TryCheck(t) ==
  /\ Goto(t, "t_check", IF writersMutex = 0 THEN "reading" ELSE "t_retract")
  /\ UNCHANGED <<readersCounters, writersMutex, scanned>>

TryRetract(t) ==
  /\ Goto(t, "t_retract", "idle")
  /\ FetchAdd(t, -1)
  /\ UNCHANGED <<writersMutex, scanned>>

\* sharedUnlock, called by a thread that holds the lock shared.
SharedUnlock(t) ==
  /\ Goto(t, "reading", "idle")
  /\ FetchAdd(t, -1)
  /\ UNCHANGED <<writersMutex, scanned>>

-----------------------------------------------------------------------------
(* exclusiveLock: take writersMutex, then wait for each counter in turn.   *)

ExclusiveCall(t) ==
  /\ Goto(t, "idle", "x_cas")
  /\ UNCHANGED <<readersCounters, writersMutex, scanned>>

BadExclusiveCAS(t) ==   \* fetch_add instead of CAS
  /\ Goto(t, "x_cas", "x_scan")
  /\ writersMutex' = writersMutex + 1
  /\ scanned' = [scanned EXCEPT ![t] = 1]
  /\ UNCHANGED readersCounters

ExclusiveCAS(t) ==
  /\ writersMutex = 0
  /\ Goto(t, "x_cas", "x_scan")
  /\ writersMutex' = 1
  /\ scanned' = [scanned EXCEPT ![t] = 1]
  /\ UNCHANGED readersCounters

\* One counter was found at zero: go on to the next one.
ExclusiveScan(t) ==
  /\ pc[t] = "x_scan"
  /\ scanned[t] <= NumCores
  /\ readersCounters[scanned[t]] <= 0
  /\ scanned' = [scanned EXCEPT ![t] = @ + 1]
  /\ UNCHANGED <<readersCounters, writersMutex, pc>>

BadExclusiveAcquired(t) ==   \* the last counter is left out
  /\ scanned[t] >= NumCores
  /\ Goto(t, "x_scan", "writing")
  /\ UNCHANGED <<readersCounters, writersMutex, scanned>>

\* The loop is over: exclusiveLock returns.
ExclusiveAcquired(t) ==
  /\ scanned[t] > NumCores
  /\ Goto(t, "x_scan", "writing")
  /\ UNCHANGED <<readersCounters, writersMutex, scanned>>

BadExclusiveUnlock(t) ==   \* writersMutex stays locked
  /\ writersMutex = 1
  /\ Goto(t, "writing", "idle")
  /\ UNCHANGED <<readersCounters, writersMutex, scanned>>

\* exclusiveUnlock, called by the writer; only it can change writersMutex.
ExclusiveUnlock(t) ==
  /\ writersMutex = 1
  /\ Goto(t, "writing", "idle")
  /\ writersMutex' = 0
  /\ UNCHANGED <<readersCounters, scanned>>

-----------------------------------------------------------------------------
\* The steps a thread takes inside lock(), once it has called it ...
LockStep(t) ==
  \/ SharedCheck(t) \/ SharedRetract(t) \/ SharedRetry(t)
  \/ TryCheck(t) \/ TryRetract(t)
  \/ ExclusiveCAS(t) \/ ExclusiveScan(t) \/ ExclusiveAcquired(t)

\* ... and those by which it gives the lock back.
UnlockStep(t) == SharedUnlock(t) \/ ExclusiveUnlock(t)

Call(t) == SharedAnnounce(t) \/ TryAnnounce(t) \/ ExclusiveCall(t)

Next == \E t \in Thread : Call(t) \/ LockStep(t) \/ UnlockStep(t)

Spec == Init /\ [][Next]_vars

(***************************************************************************)
(* A thread that runs inside the lock keeps running, and a holder          *)
(* eventually releases: epoch operations and the monitor's and heartbeat's *)
(* exclusive sections are finite.  Nobody has to call lock().              *)
(***************************************************************************)
FairSpec ==
  Spec /\ \A t \in Thread : WF_vars(LockStep(t)) /\ WF_vars(UnlockStep(t))

-----------------------------------------------------------------------------
(* Mutual exclusion (enter_critical / heartbeat and monitor): while a      *)
(* thread is between exclusiveLock and exclusiveUnlock no other thread     *)
(* holds the lock in either mode.                                          *)
Exclusion ==
  \A t, u \in Thread :
    pc[t] = "writing" /\ u # t => pc[u] \notin {"reading", "writing"}

(* A counter is exactly the number of threads that announced themselves in *)
(* it (sharedLock, trySharedLock and sharedUnlock pair their fetch_adds),  *)
(* so sharedUnlock by a holder never reports "no matching lock()".         *)
Announced(b) == {t \in Thread : pc[t] \in SharedPC /\ bucketOf[t] = b}
CountersExact ==
  \A b \in Bucket : readersCounters[b] = Cardinality(Announced(b))

(* While a writer scans, no reader holds the lock in a counter the writer  *)
(* has already passed: a reader that arrives behind the scan sees          *)
(* writersMutex locked and retracts.                                       *)
ScanBehind ==
  \A t, r \in Thread :
    pc[t] \in WriterPC /\ pc[r] = "reading" => bucketOf[r] >= scanned[t]

(* writersMutex is locked exactly while one thread scans or writes.        *)
MutexOwned ==
  /\ writersMutex = 1 <=> \E t \in Thread : pc[t] \in WriterPC
  /\ \A t, u \in Thread :
       pc[t] \in WriterPC /\ pc[u] \in WriterPC => t = u

\* Threads that poll with trySharedLock for ever can starve a writer; the
\* library has no such caller.
NobodyPolls == <>[](\A t \in Thread : pc[t] \notin {"t_check", "t_retract"})

(* A writer that got writersMutex gets the lock: readers that keep coming  *)
(* retract and cannot starve it, although several may share a counter.     *)
WriterServed ==
  NobodyPolls => \A t \in Thread : pc[t] = "x_scan" ~> pc[t] = "writing"

(* No livelock: when a thread waits in sharedLock, some thread acquires    *)
(* the lock or the waiting one does (spinning readers make way).           *)
ReaderServed ==
  NobodyPolls =>
    \A t \in Thread :
      pc[t] \in {"s_check", "s_retract", "s_spin"}
        ~> (pc[t] = "reading" \/ \E u \in Thread \ {t} : pc[u] \in {"reading", "writing"})

(* Refinement: what the clients see is a reader-writer lock.               *)
ModeOf(q) == IF q = "reading" THEN "shared"
             ELSE IF q = "writing" THEN "exclusive" ELSE "none"
mode == [t \in Thread |-> ModeOf(pc[t])]
RW == INSTANCE RWLock
ImplementsRWLock == RW!Spec
=============================================================================
