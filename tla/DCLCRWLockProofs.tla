-------------------------- MODULE DCLCRWLockProofs --------------------------
(***************************************************************************)
(* The reader-writer lock excludes, for any finite number of threads, any  *)
(* number of counters and any hash of the threads onto them, and it        *)
(* implements the abstract lock RWLock.                                    *)
(***************************************************************************)
EXTENDS DCLCRWLock, FiniteSetTheorems, TLAPS

\* A writer has passed every counter when exclusiveLock returns.
ScanComplete == \A t \in Thread : pc[t] = "writing" => scanned[t] = NumCores + 1

\* The inductive invariant.
IInv == TypeOK /\ CountersExact /\ MutexOwned /\ ScanBehind /\ ScanComplete

-----------------------------------------------------------------------------
(* The sets of announced threads are finite, so they have a cardinality.   *)
LEMMA AnnouncedFinite ==
  ASSUME NEW b PROVE IsFiniteSet(Announced(b))
  BY FS_Subset, LockAssumption DEF Announced

(* A thread that announces itself (fetch_add(1)) keeps counters exact.     *)
LEMMA AnnounceExact ==
  ASSUME TypeOK, CountersExact, NEW t \in Thread, NEW q \in SharedPC,
         pc[t] \notin SharedPC, pc' = [pc EXCEPT ![t] = q], FetchAdd(t, 1)
  PROVE  CountersExact'
  <1> SUFFICES ASSUME NEW b \in Bucket
               PROVE  readersCounters'[b] = Cardinality(Announced(b)')
    BY DEF CountersExact
  <1>1. bucketOf[t] \in Bucket
    BY LockAssumption
  <1>2. CASE b = bucketOf[t]
    <2>1. Announced(b)' = Announced(b) \cup {t}
      BY <1>2 DEF Announced, TypeOK
    <2>2. t \notin Announced(b)
      BY DEF Announced
    <2>3. Cardinality(Announced(b)') = Cardinality(Announced(b)) + 1
      BY <2>1, <2>2, AnnouncedFinite, FS_AddElement
    <2>4. readersCounters'[b] = readersCounters[b] + 1
      BY <1>1, <1>2 DEF FetchAdd, TypeOK
    <2>5. QED
      BY <2>3, <2>4 DEF CountersExact
  <1>3. CASE b # bucketOf[t]
    <2>1. Announced(b)' = Announced(b)
      BY <1>3 DEF Announced, TypeOK
    <2>2. readersCounters'[b] = readersCounters[b]
      BY <1>3 DEF FetchAdd, TypeOK
    <2>3. QED
      BY <2>1, <2>2 DEF CountersExact
  <1>4. QED
    BY <1>2, <1>3

(* A thread that retracts or unlocks (fetch_add(-1)) keeps counters exact. *)
LEMMA RetractExact ==
  ASSUME TypeOK, CountersExact, NEW t \in Thread, NEW q \in PC \ SharedPC,
         pc[t] \in SharedPC, pc' = [pc EXCEPT ![t] = q], FetchAdd(t, -1)
  PROVE  CountersExact'
  <1> SUFFICES ASSUME NEW b \in Bucket
               PROVE  readersCounters'[b] = Cardinality(Announced(b)')
    BY DEF CountersExact
  <1>1. bucketOf[t] \in Bucket
    BY LockAssumption
  <1>2. CASE b = bucketOf[t]
    <2>1. Announced(b)' = Announced(b) \ {t}
      BY <1>2 DEF Announced, TypeOK
    <2>2. t \in Announced(b)
      BY <1>2 DEF Announced
    <2>3. Cardinality(Announced(b)') = Cardinality(Announced(b)) - 1
      BY <2>1, <2>2, AnnouncedFinite, FS_RemoveElement
    <2>4. readersCounters'[b] = readersCounters[b] - 1
      BY <1>1, <1>2 DEF FetchAdd, TypeOK
    <2>5. QED
      BY <2>3, <2>4 DEF CountersExact
  <1>3. CASE b # bucketOf[t]
    <2>1. Announced(b)' = Announced(b)
      BY <1>3 DEF Announced, TypeOK
    <2>2. readersCounters'[b] = readersCounters[b]
      BY <1>3 DEF FetchAdd, TypeOK
    <2>3. QED
      BY <2>1, <2>2 DEF CountersExact
  <1>4. QED
    BY <1>2, <1>3

(* Any other step leaves the counters and the announced threads alone.     *)
LEMMA SameExact ==
  ASSUME TypeOK, CountersExact, NEW t \in Thread, NEW q \in PC,
         pc[t] \in SharedPC <=> q \in SharedPC,
         pc' = [pc EXCEPT ![t] = q], UNCHANGED readersCounters
  PROVE  CountersExact'
  <1>1. \A b \in Bucket : Announced(b)' = Announced(b)
    BY DEF Announced, TypeOK
  <1>2. QED
    BY <1>1 DEF CountersExact

(* A counter found at zero has no reader in it.                            *)
LEMMA ZeroMeansNobody ==
  ASSUME CountersExact, NEW b \in Bucket, readersCounters[b] <= 0
  PROVE  Announced(b) = {}
  BY AnnouncedFinite, FS_CardinalityType, FS_EmptySet DEF CountersExact

-----------------------------------------------------------------------------
LEMMA InitIInv == Init => IInv
  <1> SUFFICES ASSUME Init PROVE IInv
    OBVIOUS
  <1>1. TypeOK
    BY LockAssumption DEF Init, TypeOK, PC, SharedPC, WriterPC
  <1>2. CountersExact
    <2>1. \A b \in Bucket : Announced(b) = {}
      BY DEF Init, Announced, SharedPC
    <2>2. QED
      BY <2>1, FS_EmptySet DEF Init, CountersExact
  <1>3. MutexOwned /\ ScanBehind /\ ScanComplete
    BY DEF Init, MutexOwned, ScanBehind, ScanComplete, WriterPC
  <1>4. QED
    BY <1>1, <1>2, <1>3 DEF IInv

LEMMA NextTypeOK == ASSUME TypeOK, [Next]_vars PROVE TypeOK'
  <1>1. CASE UNCHANGED vars
    BY <1>1 DEF vars, TypeOK
  <1>2. ASSUME NEW t \in Thread, Call(t) PROVE TypeOK'
    BY <1>2, LockAssumption
       DEF Call, SharedAnnounce, TryAnnounce, ExclusiveCall, Goto, FetchAdd,
           TypeOK, PC, SharedPC, WriterPC
  <1>3. ASSUME NEW t \in Thread, LockStep(t) PROVE TypeOK'
    BY <1>3, LockAssumption
       DEF LockStep, SharedCheck, SharedRetract, SharedRetry, TryCheck,
           TryRetract, ExclusiveCAS, ExclusiveScan, ExclusiveAcquired, Goto,
           FetchAdd, TypeOK, PC, SharedPC, WriterPC
  <1>4. ASSUME NEW t \in Thread, UnlockStep(t) PROVE TypeOK'
    BY <1>4, LockAssumption
       DEF UnlockStep, SharedUnlock, ExclusiveUnlock, Goto, FetchAdd,
           TypeOK, PC, SharedPC, WriterPC
  <1>5. QED
    BY <1>1, <1>2, <1>3, <1>4 DEF Next

LEMMA NextCounters ==
  ASSUME TypeOK, CountersExact, [Next]_vars PROVE CountersExact'
  <1> USE DEF Goto, PC, SharedPC, WriterPC
  <1>1. CASE UNCHANGED vars
    BY <1>1 DEF vars, CountersExact, Announced
  <1>2. ASSUME NEW t \in Thread, Call(t) PROVE CountersExact'
    <2>1. CASE SharedAnnounce(t) \/ TryAnnounce(t)
      BY <2>1, AnnounceExact DEF SharedAnnounce, TryAnnounce
    <2>2. CASE ExclusiveCall(t)
      BY <2>2, SameExact DEF ExclusiveCall
    <2>3. QED
      BY <1>2, <2>1, <2>2 DEF Call
  <1>3. ASSUME NEW t \in Thread, LockStep(t) PROVE CountersExact'
    <2>1. CASE SharedRetract(t) \/ TryRetract(t)
      BY <2>1, RetractExact DEF SharedRetract, TryRetract
    <2>2. CASE SharedRetry(t)
      BY <2>2, AnnounceExact DEF SharedRetry
    <2>3. CASE SharedCheck(t) \/ TryCheck(t)
      <3>1. PICK q \in SharedPC : pc' = [pc EXCEPT ![t] = q]
        BY <2>3 DEF SharedCheck, TryCheck
      <3>2. QED
        BY <2>3, <3>1, SameExact DEF SharedCheck, TryCheck
    <2>4. CASE ExclusiveCAS(t) \/ ExclusiveAcquired(t)
      BY <2>4, SameExact DEF ExclusiveCAS, ExclusiveAcquired
    <2>5. CASE ExclusiveScan(t)
      BY <2>5 DEF ExclusiveScan, CountersExact, Announced
    <2>6. QED
      BY <1>3, <2>1, <2>2, <2>3, <2>4, <2>5 DEF LockStep
  <1>4. ASSUME NEW t \in Thread, UnlockStep(t) PROVE CountersExact'
    <2>1. CASE SharedUnlock(t)
      BY <2>1, RetractExact DEF SharedUnlock
    <2>2. CASE ExclusiveUnlock(t)
      BY <2>2, SameExact DEF ExclusiveUnlock
    <2>3. QED
      BY <1>4, <2>1, <2>2 DEF UnlockStep
  <1>5. QED
    BY <1>1, <1>2, <1>3, <1>4 DEF Next

LEMMA NextMutexOwned ==
  ASSUME TypeOK, MutexOwned, [Next]_vars PROVE MutexOwned'
  <1> USE DEF Goto, PC, SharedPC, WriterPC, MutexOwned, TypeOK
  <1>1. CASE UNCHANGED vars
    BY <1>1 DEF vars
  <1>2. ASSUME NEW t \in Thread, Call(t) PROVE MutexOwned'
    BY <1>2 DEF Call, SharedAnnounce, TryAnnounce, ExclusiveCall
  <1>3. ASSUME NEW t \in Thread, LockStep(t) PROVE MutexOwned'
    <2>1. CASE ExclusiveCAS(t)
      BY <2>1 DEF ExclusiveCAS
    <2>2. CASE ExclusiveScan(t) \/ ExclusiveAcquired(t)
      BY <2>2 DEF ExclusiveScan, ExclusiveAcquired
    <2>3. CASE ~(ExclusiveCAS(t) \/ ExclusiveScan(t) \/ ExclusiveAcquired(t))
      BY <1>3, <2>3
         DEF LockStep, SharedCheck, SharedRetract, SharedRetry, TryCheck, TryRetract
    <2>4. QED
      BY <2>1, <2>2, <2>3
  <1>4. ASSUME NEW t \in Thread, UnlockStep(t) PROVE MutexOwned'
    BY <1>4 DEF UnlockStep, SharedUnlock, ExclusiveUnlock
  <1>5. QED
    BY <1>1, <1>2, <1>3, <1>4 DEF Next

(* No reader gets in behind a scanning writer: the step that matters are   *)
(* the reader's look at writersMutex and the writer's look at a counter.   *)
LEMMA NextScan ==
  ASSUME IInv, [Next]_vars PROVE ScanBehind' /\ ScanComplete'
  <1> USE DEF IInv, Goto, PC, SharedPC, WriterPC, ScanBehind, ScanComplete, TypeOK
  <1>1. CASE UNCHANGED vars
    BY <1>1 DEF vars
  <1>2. ASSUME NEW t \in Thread, Call(t) PROVE ScanBehind' /\ ScanComplete'
    BY <1>2 DEF Call, SharedAnnounce, TryAnnounce, ExclusiveCall
  <1>3. ASSUME NEW t \in Thread, LockStep(t) PROVE ScanBehind' /\ ScanComplete'
    <2>1. CASE SharedCheck(t) \/ TryCheck(t)
      BY <2>1 DEF SharedCheck, TryCheck, MutexOwned
    <2>2. CASE SharedRetract(t) \/ SharedRetry(t) \/ TryRetract(t)
      BY <2>2 DEF SharedRetract, SharedRetry, TryRetract
    <2>3. CASE ExclusiveCAS(t)
      <3>1. \A u \in Thread : pc[u] \notin WriterPC
        BY <2>3 DEF ExclusiveCAS, MutexOwned
      <3>2. \A r \in Thread : bucketOf[r] >= 1
        BY LockAssumption DEF Bucket
      <3>3. QED
        BY <2>3, <3>1, <3>2 DEF ExclusiveCAS
    <2>4. CASE ExclusiveScan(t)
      <3>1. scanned[t] \in Bucket /\ readersCounters[scanned[t]] <= 0
        BY <2>4 DEF ExclusiveScan, Bucket
      <3>2. \A r \in Thread : pc[r] = "reading" => bucketOf[r] # scanned[t]
        BY <3>1, ZeroMeansNobody DEF Announced
      <3>3. \A r \in Thread : bucketOf[r] \in Int /\ scanned[t] \in Int
        BY <3>1, LockAssumption DEF Bucket
      <3>4. QED
        BY <2>4, <3>2, <3>3 DEF ExclusiveScan
    <2>5. CASE ExclusiveAcquired(t)
      <3>1. scanned[t] = NumCores + 1
        BY <2>5, LockAssumption DEF ExclusiveAcquired
      <3>2. QED
        BY <2>5, <3>1 DEF ExclusiveAcquired
    <2>6. QED
      BY <1>3, <2>1, <2>2, <2>3, <2>4, <2>5 DEF LockStep
  <1>4. ASSUME NEW t \in Thread, UnlockStep(t) PROVE ScanBehind' /\ ScanComplete'
    BY <1>4 DEF UnlockStep, SharedUnlock, ExclusiveUnlock
  <1>5. QED
    BY <1>1, <1>2, <1>3, <1>4 DEF Next

LEMMA Inductive == IInv /\ [Next]_vars => IInv'
  BY NextTypeOK, NextCounters, NextMutexOwned, NextScan DEF IInv

LEMMA Invariance == Spec => []IInv
  BY InitIInv, Inductive, PTL DEF Spec

-----------------------------------------------------------------------------
(* A thread between exclusiveLock and exclusiveUnlock is alone.            *)
LEMMA IInvExclusion == IInv => Exclusion
  <1> SUFFICES ASSUME IInv, NEW t \in Thread, NEW u \in Thread,
                      pc[t] = "writing", u # t
               PROVE  pc[u] \notin {"reading", "writing"}
    BY DEF Exclusion
  <1>1. pc[u] # "writing"
    BY DEF IInv, MutexOwned, WriterPC
  <1>2. pc[u] # "reading"
    <2>1. bucketOf[u] \in Int /\ bucketOf[u] <= NumCores
      BY LockAssumption DEF Bucket
    <2>2. scanned[t] = NumCores + 1
      BY DEF IInv, ScanComplete
    <2>3. QED
      BY <2>1, <2>2, LockAssumption DEF IInv, ScanBehind, WriterPC
  <1>3. QED
    BY <1>1, <1>2

(* Type correctness of the lock's state.                                   *)
THEOREM TypeCorrect == Spec => []TypeOK
  BY Invariance, PTL DEF IInv

(* Mutual exclusion of the lock behind enter_critical and the heartbeat.   *)
THEOREM MutualExclusion == Spec => []Exclusion
  BY Invariance, IInvExclusion, PTL

(* Every counter equals the number of threads announced in it.             *)
THEOREM CountersAreExact == Spec => []CountersExact
  BY Invariance, PTL DEF IInv

-----------------------------------------------------------------------------
(* A thread that changes pc by EXCEPT changes mode by EXCEPT.              *)
LEMMA ModeStep ==
  ASSUME TypeOK, NEW t \in Thread, NEW q, pc' = [pc EXCEPT ![t] = q]
  PROVE  mode' = [mode EXCEPT ![t] = ModeOf(q)]
  BY DEF mode, TypeOK

(* Every step of the lock is a step of the abstract lock or a stutter: the *)
(* grants are SharedCheck, TryCheck and ExclusiveAcquired.                 *)
LEMMA StepRefines == IInv /\ [Next]_vars => [RW!Next]_mode
  <1> SUFFICES ASSUME IInv, [Next]_vars PROVE [RW!Next]_mode
    OBVIOUS
  <1>t. TypeOK /\ TypeOK' /\ Exclusion'
    BY Inductive, IInvExclusion, NextTypeOK, PTL DEF IInv
  <1> DEFINE Quiet(x) == x \notin {"reading", "writing"}
  <1>1. ASSUME NEW t \in Thread, NEW q, pc' = [pc EXCEPT ![t] = q],
               Quiet(pc[t]), Quiet(q)
        PROVE  UNCHANGED mode
    BY <1>1, <1>t DEF mode, ModeOf, TypeOK
  <1>2. ASSUME NEW t \in Thread, SharedCheck(t) \/ TryCheck(t), writersMutex = 0
        PROVE  RW!GrantShared(t)
    <2>1. pc' = [pc EXCEPT ![t] = "reading"] /\ Quiet(pc[t])
      BY <1>2 DEF SharedCheck, TryCheck, Goto
    <2>2. \A u \in Thread : pc[u] # "writing"
      BY <1>2 DEF IInv, MutexOwned, WriterPC
    <2>3. QED
      BY <2>1, <2>2, <1>t, ModeStep DEF mode, ModeOf, RW!GrantShared
  <1>3. ASSUME NEW t \in Thread, ExclusiveAcquired(t)
        PROVE  RW!GrantExclusive(t)
    <2>1. pc' = [pc EXCEPT ![t] = "writing"] /\ Quiet(pc[t])
      BY <1>3 DEF ExclusiveAcquired, Goto
    <2>2. \A u \in Thread : Quiet(pc[u])
      BY <2>1, <1>t DEF Exclusion, TypeOK
    <2>3. QED
      BY <2>1, <2>2, <1>t, ModeStep DEF mode, ModeOf, RW!GrantExclusive
  <1>4. ASSUME NEW t \in Thread, UnlockStep(t)
        PROVE  RW!Release(t)
    <2>1. pc' = [pc EXCEPT ![t] = "idle"] /\ ~Quiet(pc[t])
      BY <1>4 DEF UnlockStep, SharedUnlock, ExclusiveUnlock, Goto
    <2>2. mode[t] # "none"
      BY <2>1, <1>t DEF mode, ModeOf, TypeOK
    <2>3. mode' = [mode EXCEPT ![t] = "none"]
      <3>1. mode' = [mode EXCEPT ![t] = ModeOf("idle")]
        BY <2>1, <1>t, ModeStep
      <3>2. ModeOf("idle") = "none"
        BY DEF ModeOf
      <3>3. QED
        BY <3>1, <3>2
    <2>4. QED
      BY <2>2, <2>3 DEF RW!Release
  <1>5. ASSUME NEW t \in Thread, Call(t) PROVE UNCHANGED mode
    BY <1>5, <1>1 DEF Call, SharedAnnounce, TryAnnounce, ExclusiveCall, Goto
  <1>6. ASSUME NEW t \in Thread, LockStep(t) PROVE [RW!Next]_mode
    <2>1. CASE (SharedCheck(t) \/ TryCheck(t)) /\ writersMutex = 0
      BY <2>1, <1>2 DEF RW!Next
    <2>2. CASE (SharedCheck(t) \/ TryCheck(t)) /\ writersMutex # 0
      BY <2>2, <1>1 DEF SharedCheck, TryCheck, Goto
    <2>3. CASE SharedRetract(t) \/ SharedRetry(t) \/ TryRetract(t) \/ ExclusiveCAS(t)
      BY <2>3, <1>1 DEF SharedRetract, SharedRetry, TryRetract, ExclusiveCAS, Goto
    <2>4. CASE ExclusiveScan(t)
      BY <2>4 DEF ExclusiveScan, mode
    <2>5. CASE ExclusiveAcquired(t)
      BY <2>5, <1>3 DEF RW!Next
    <2>6. QED
      BY <1>6, <2>1, <2>2, <2>3, <2>4, <2>5 DEF LockStep
  <1>7. CASE UNCHANGED vars
    BY <1>7 DEF vars, mode
  <1>8. QED
    BY <1>4, <1>5, <1>6, <1>7 DEF Next, RW!Next

(* The counter lock implements the abstract reader-writer lock, which is   *)
(* all that EpochManagerImpl relies on.                                    *)
THEOREM Refinement == Spec => ImplementsRWLock
  <1>1. Init => RW!Init
    BY DEF Init, RW!Init, mode, ModeOf
  <1>2. QED
    BY <1>1, StepRefines, Invariance, PTL DEF Spec, RW!Spec, ImplementsRWLock
=============================================================================
