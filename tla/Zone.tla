-------------------------------- MODULE Zone --------------------------------
(***************************************************************************)
(* The buddy allocator of shelf_usage/zone.cc: allocation with splitting,  *)
(* free, the merge of buddies in eleven persistent steps, the recovery of  *)
(* a merge that crashed, and the offline garbage collection.  All state is *)
(* in fabric-attached memory, shared by the processes and kept when one    *)
(* dies.  The free lists are the stacks of LockFreeStack; here a push or a *)
(* pop is one step and a list is a set, for nothing depends on the order.  *)
(* A zone never grows: ShelfHeap::Create makes it as large as it may get.  *)
(***************************************************************************)
EXTENDS Integers, FiniteSets, FiniteSetsExt

CONSTANTS
  MaxLevel,   \* the zone has 2^MaxLevel units of min_obj_size bytes
  Proc,       \* processes that have the heap open
  NoChunk,    \* nothing in hand
  AllocLevel, \* bound: the levels that are allocated
  MaxDeaths   \* bound on the crashes of processes

ASSUME ZoneAssumption ==
  /\ MaxLevel \in 1 .. 8
  /\ NoChunk \notin Nat \X Nat
  /\ AllocLevel \subseteq 0 .. MaxLevel
  /\ MaxDeaths \in Nat

Size(l) == 2 ^ l                   \* find_size_from_level
Level == 0 .. MaxLevel
Unit == 0 .. Size(MaxLevel) - 1
Beyond == Size(MaxLevel) .. 2 * Size(MaxLevel) - 1   \* the padding of the bitmap
Free == -1                         \* an entry whose allocation bit is clear

\* merge_status
DEFAULT == 0
SWAP_COMPLETED == 1
BITMAP_COMPLETED == 2
FREELIST_COMPLETED == 3

VARIABLES
  free_list,      \* free_list[l]: first units of the free chunks of level l
  entry,          \* entry[u]: level of the chunk allocated at u, or Free
  merge_in_progress, merge_status, current_merge_level,
  safe_copy,      \* is the word safe_copy.head set?
  chain,          \* the chunks that hang from it, once they are detached
  bitmap,         \* bits set in the merge bitmap
  post_merge_level, post_merge_next_level,
  pc, want,       \* what a process does next, and the level it allocates
  hand,           \* the chunk <<first unit, level>> it works on
  mlev,           \* the level it merges or collects
  lost,           \* history: units whose chunk a crash has lost
  collected,      \* offline garbage collection has ended
  deaths          \* crashes so far

header == <<merge_in_progress, merge_status, current_merge_level>>
merging == <<safe_copy, chain, bitmap, post_merge_level, post_merge_next_level>>
local == <<pc, want, hand, mlev>>
history == <<lost, collected, deaths>>
vars == <<free_list, entry, header, merging, local, history>>

Units(c) == c[1] .. c[1] + Size(c[2]) - 1
Apart(c, d) == c[1] + Size(c[2]) <= d[1] \/ d[1] + Size(d[2]) <= c[1]
Aligned(l) == {u \in Unit \cup Beyond : u % Size(l) = 0}

MergePC == {"m_enter", "m_level", "m_copy", "m_swap", "m_swapped", "m_bitmap",
            "m_marked", "m_reset", "m_pairs", "m_next", "m_push_next", "m_rest",
            "m_push_rest", "m_clear", "m_level_off", "m_status_off", "m_leave",
            "m_abandon"}
PC == {"idle", "pop", "split", "mark", "push", "gc"} \cup MergePC

TypeOK ==
  /\ free_list \in [Level -> SUBSET (Unit \cup Beyond)]
  /\ \A l \in Level : free_list[l] \subseteq Aligned(l)
  /\ \A l \in Level : l < MaxLevel => free_list[l] \subseteq Unit
  /\ entry \in [Unit -> Level \cup {Free}]
  /\ merge_in_progress \in {0, 1}
  /\ merge_status \in DEFAULT .. FREELIST_COMPLETED
  /\ current_merge_level \in -1 .. MaxLevel - 1
  /\ safe_copy \in BOOLEAN
  /\ chain \subseteq Unit
  /\ bitmap \subseteq Unit \cup Beyond
  /\ post_merge_level \subseteq Unit
  /\ post_merge_next_level \subseteq Unit
  /\ pc \in [Proc -> PC]
  /\ want \in [Proc -> Level]
  /\ hand \in [Proc -> ((Unit \X Level) \cup {NoChunk})]
  /\ mlev \in [Proc -> -1 .. MaxLevel]
  /\ lost \subseteq Unit
  /\ collected \in BOOLEAN
  /\ deaths \in 0 .. MaxDeaths

\* The constructor: unit 0 is reserved, the rest is cut into chunks of
\* growing size.
Init ==
  /\ free_list = [l \in Level |-> IF l = MaxLevel THEN {} ELSE {Size(l)}]
  /\ entry = [u \in Unit |-> IF u = 0 THEN 0 ELSE Free]
  /\ merge_in_progress = 0 /\ merge_status = DEFAULT /\ current_merge_level = -1
  /\ safe_copy = FALSE /\ chain = {} /\ bitmap = {}
  /\ post_merge_level = {} /\ post_merge_next_level = {}
  /\ pc = [p \in Proc |-> "idle"]
  /\ want = [p \in Proc |-> 0]
  /\ hand = [p \in Proc |-> NoChunk]
  /\ mlev = [p \in Proc |-> 0]
  /\ lost = {} /\ collected = FALSE /\ deaths = 0

\* Garbage collection has the zone for itself.
Online == ~collected /\ \A q \in Proc : pc[q] # "gc"

Goto(p, label) == pc' = [pc EXCEPT ![p] = label]
Take(p, c) == hand' = [hand EXCEPT ![p] = c]
PushFree(l, u) == free_list' = [free_list EXCEPT ![l] = @ \cup {u}]
PopFree(l, u) == free_list' = [free_list EXCEPT ![l] = @ \ {u}]

-----------------------------------------------------------------------------
(* alloc: look for a chunk from the wanted level upwards, split it down to *)
(* the wanted level, set its allocation bit.                               *)

AllocBegin(p, l) ==
  /\ pc[p] = "idle" /\ Online
  /\ Goto(p, "pop")
  /\ want' = [want EXCEPT ![p] = l]
  /\ mlev' = [mlev EXCEPT ![p] = l]
  /\ UNCHANGED <<free_list, entry, header, merging, hand, history>>

AllocPop(p, u) ==
  /\ pc[p] = "pop"
  /\ u \in free_list[mlev[p]]
  /\ PopFree(mlev[p], u)
  /\ Take(p, <<u, mlev[p]>>)
  /\ Goto(p, IF mlev[p] = want[p] THEN "mark" ELSE "split")
  /\ UNCHANGED <<entry, header, merging, want, mlev, history>>

\* The list is empty: go on with the next one, or return 0.
AllocEmpty(p) ==
  /\ pc[p] = "pop"
  /\ free_list[mlev[p]] = {}
  /\ IF mlev[p] < MaxLevel
     THEN mlev' = [mlev EXCEPT ![p] = @ + 1] /\ UNCHANGED <<pc, want>>
     ELSE Goto(p, "idle") /\ mlev' = [mlev EXCEPT ![p] = 0]
          /\ want' = [want EXCEPT ![p] = 0]
  /\ UNCHANGED <<free_list, entry, header, merging, hand, history>>

BadSecondHalf(c) == c[1] + Size(c[2])          \* a mutant: the size is not halved
BadFirstHalf(c) == c[1]                        \* a mutant: the half it keeps
SecondHalf(c) == c[1] + Size(c[2]) \div 2

AllocSplit(p) ==
  /\ pc[p] = "split"
  /\ PushFree(hand[p][2] - 1, SecondHalf(hand[p]))
  /\ Take(p, <<hand[p][1], hand[p][2] - 1>>)
  /\ Goto(p, IF hand[p][2] - 1 = want[p] THEN "mark" ELSE "split")
  /\ UNCHANGED <<entry, header, merging, want, mlev, history>>

BadAllocMark(p) ==   \* a mutant: the level it was found at
  /\ pc[p] = "mark"
  /\ entry' = [entry EXCEPT ![hand[p][1]] = mlev[p]]
  /\ Take(p, NoChunk)
  /\ Goto(p, "idle")
  /\ want' = [want EXCEPT ![p] = 0]
  /\ mlev' = [mlev EXCEPT ![p] = 0]
  /\ UNCHANGED <<free_list, header, merging, history>>

AllocMark(p) ==
  /\ pc[p] = "mark"
  /\ entry' = [entry EXCEPT ![hand[p][1]] = want[p]]
  /\ Take(p, NoChunk)
  /\ Goto(p, "idle")
  /\ want' = [want EXCEPT ![p] = 0]
  /\ mlev' = [mlev EXCEPT ![p] = 0]
  /\ UNCHANGED <<free_list, header, merging, history>>

(* free: clear the allocation bit, push the chunk.  The users free what    *)
(* they have allocated, once.                                              *)

FreeReset(p, u) ==
  /\ pc[p] = "idle" /\ Online
  /\ u # 0 /\ entry[u] # Free
  /\ Take(p, <<u, entry[u]>>)
  /\ entry' = [entry EXCEPT ![u] = Free]
  /\ Goto(p, "push")
  /\ UNCHANGED <<free_list, header, merging, want, mlev, history>>

FreePush(p) ==
  /\ pc[p] = "push"
  /\ PushFree(hand[p][2], hand[p][1])
  /\ Take(p, NoChunk)
  /\ Goto(p, "idle")
  /\ UNCHANGED <<entry, header, merging, want, mlev, history>>

-----------------------------------------------------------------------------
(* merge: every write to the header is a step, for a crash may follow it.  *)

MergeBegin(p) ==
  /\ pc[p] = "idle" /\ Online
  /\ Goto(p, "m_enter")
  /\ mlev' = [mlev EXCEPT ![p] = 0]
  /\ UNCHANGED <<free_list, entry, header, merging, want, hand, history>>

\* 1; when another process merges, the merge is aborted by an exception.
EnterMerge(p) ==
  /\ pc[p] = "m_enter"
  /\ IF merge_in_progress = 0
     THEN merge_in_progress' = 1 /\ Goto(p, "m_level") /\ UNCHANGED mlev
     ELSE Goto(p, "idle") /\ mlev' = [mlev EXCEPT ![p] = 0]
          /\ UNCHANGED merge_in_progress
  /\ UNCHANGED <<free_list, entry, merge_status, current_merge_level, merging,
                 want, hand, history>>

\* 2
SetMergeLevel(p) ==
  /\ pc[p] = "m_level"
  /\ current_merge_level' = mlev[p]
  /\ Goto(p, "m_copy")
  /\ UNCHANGED <<free_list, entry, merge_in_progress, merge_status, merging,
                 want, hand, mlev, history>>

\* 3: copy the head, then detach the list if its head is still the same.
CopyHead(p) ==
  /\ pc[p] = "m_copy"
  /\ safe_copy' = (free_list[mlev[p]] # {})
  /\ Goto(p, "m_swap")
  /\ UNCHANGED <<free_list, entry, header, chain, bitmap, post_merge_level,
                 post_merge_next_level, want, hand, mlev, history>>

SwapFreeList(p) ==
  /\ pc[p] = "m_swap"
  /\ IF safe_copy = (free_list[mlev[p]] # {})
     THEN /\ chain' = free_list[mlev[p]]
          /\ free_list' = [free_list EXCEPT ![mlev[p]] = {}]
          /\ Goto(p, "m_swapped")
     ELSE Goto(p, "m_copy") /\ UNCHANGED <<chain, free_list>>
  /\ UNCHANGED <<entry, header, safe_copy, bitmap, post_merge_level,
                 post_merge_next_level, want, hand, mlev, history>>

\* 4, 6 and 8
SetStatus(p, from, to, status) ==
  /\ pc[p] = from
  /\ merge_status' = status
  /\ Goto(p, to)
  /\ UNCHANGED <<free_list, entry, merge_in_progress, current_merge_level,
                 merging, want, hand, mlev, history>>

\* 5: one bit for every chunk of the list.
CreateBitmap(p) ==
  /\ pc[p] = "m_bitmap"
  /\ bitmap' = (bitmap \cap Beyond) \cup {u \div Size(mlev[p]) : u \in chain}
  /\ Goto(p, "m_marked")
  /\ UNCHANGED <<free_list, entry, header, safe_copy, chain, post_merge_level,
                 post_merge_next_level, want, hand, mlev, history>>

\* 7: buddies become a chunk of the next level, the others stay.
ResetPostMerge(p) ==
  /\ pc[p] = "m_reset"
  /\ post_merge_level' = {} /\ post_merge_next_level' = {}
  /\ Goto(p, "m_pairs")
  /\ UNCHANGED <<free_list, entry, header, safe_copy, chain, bitmap,
                 want, hand, mlev, history>>

\* The pairs of bits that are not on a list yet, by the number of the left one.
PairsLeft(p) ==
  {i \in Unit : /\ i % 2 = 0
                /\ {i, i + 1} \cap bitmap # {}
                /\ \A j \in {i, i + 1} :
                     j * Size(mlev[p]) \notin post_merge_level \cup post_merge_next_level}

BadMergePair(p) ==   \* a mutant: no buddies are seen
  /\ pc[p] = "m_pairs"
  /\ PairsLeft(p) # {}
  /\ LET i == Min(PairsLeft(p))
     IN  post_merge_level' = post_merge_level \cup {j * Size(mlev[p]) : j \in bitmap \cap {i, i + 1}}
  /\ UNCHANGED <<free_list, entry, header, safe_copy, chain, bitmap,
                 post_merge_next_level, local, history>>

MergePair(p) ==
  /\ pc[p] = "m_pairs"
  /\ PairsLeft(p) # {}
  /\ LET i == Min(PairsLeft(p))
         chunks == {j * Size(mlev[p]) : j \in bitmap \cap {i, i + 1}}
     IN  IF {i, i + 1} \subseteq bitmap
         THEN /\ post_merge_next_level' = post_merge_next_level \cup {i * Size(mlev[p])}
              /\ UNCHANGED post_merge_level
         ELSE /\ post_merge_level' = post_merge_level \cup chunks
              /\ UNCHANGED post_merge_next_level
  /\ UNCHANGED <<free_list, entry, header, safe_copy, chain, bitmap,
                 local, history>>

\* 9: move the chunks of a list back to the free lists, one by one.
PopPost(p, u) ==
  \/ /\ pc[p] = "m_next" /\ u \in post_merge_next_level
     /\ post_merge_next_level' = post_merge_next_level \ {u}
     /\ Take(p, <<u, mlev[p] + 1>>)
     /\ Goto(p, "m_push_next")
     /\ UNCHANGED <<free_list, entry, header, safe_copy, chain, bitmap,
                    post_merge_level, want, mlev, history>>
  \/ /\ pc[p] = "m_rest" /\ u \in post_merge_level
     /\ post_merge_level' = post_merge_level \ {u}
     /\ Take(p, <<u, mlev[p]>>)
     /\ Goto(p, "m_push_rest")
     /\ UNCHANGED <<free_list, entry, header, safe_copy, chain, bitmap,
                    post_merge_next_level, want, mlev, history>>

BadPushPost(p) ==   \* a mutant: the merged chunks go to the list of the level
  /\ pc[p] \in {"m_push_next", "m_push_rest"}
  /\ PushFree(mlev[p], hand[p][1])
  /\ Take(p, NoChunk)
  /\ Goto(p, IF pc[p] = "m_push_next" THEN "m_next" ELSE "m_rest")
  /\ UNCHANGED <<entry, header, merging, want, mlev, history>>

PushPost(p) ==
  /\ pc[p] \in {"m_push_next", "m_push_rest"}
  /\ PushFree(hand[p][2], hand[p][1])
  /\ Take(p, NoChunk)
  /\ Goto(p, IF pc[p] = "m_push_next" THEN "m_next" ELSE "m_rest")
  /\ UNCHANGED <<entry, header, merging, want, mlev, history>>

PostEmpty(p) ==
  /\ \/ pc[p] = "m_next" /\ post_merge_next_level = {} /\ Goto(p, "m_rest")
     \/ pc[p] = "m_rest" /\ post_merge_level = {} /\ Goto(p, "m_clear")
  /\ UNCHANGED <<free_list, entry, header, merging, want, hand, mlev, history>>

\* 10
ClearMerge(p) ==
  /\ pc[p] = "m_clear"
  /\ bitmap' = bitmap \cap Beyond
  /\ safe_copy' = FALSE /\ chain' = {}
  /\ Goto(p, "m_level_off")
  /\ UNCHANGED <<free_list, entry, header, post_merge_level, post_merge_next_level,
                 want, hand, mlev, history>>

ResetMergeLevel(p) ==
  /\ pc[p] = "m_level_off"
  /\ current_merge_level' = -1
  /\ Goto(p, "m_status_off")
  /\ UNCHANGED <<free_list, entry, merge_in_progress, merge_status, merging,
                 want, hand, mlev, history>>

\* 11; then the next level, up to the last but one.
LeaveMerge(p) ==
  /\ pc[p] \in {"m_leave", "m_abandon"}
  /\ merge_in_progress' = 0
  /\ IF pc[p] = "m_leave" /\ mlev[p] + 1 < MaxLevel
     THEN Goto(p, "m_enter") /\ mlev' = [mlev EXCEPT ![p] = @ + 1]
     ELSE Goto(p, "idle") /\ mlev' = [mlev EXCEPT ![p] = 0]
  /\ UNCHANGED <<free_list, entry, merge_status, current_merge_level, merging,
                 want, hand, history>>

MergeStep(p) ==
  \/ EnterMerge(p) \/ SetMergeLevel(p) \/ CopyHead(p) \/ SwapFreeList(p)
  \/ SetStatus(p, "m_swapped", "m_bitmap", SWAP_COMPLETED)
  \/ CreateBitmap(p)
  \/ SetStatus(p, "m_marked", "m_reset", BITMAP_COMPLETED)
  \/ ResetPostMerge(p) \/ MergePair(p)
  \/ pc[p] = "m_pairs" /\ PairsLeft(p) = {} /\ SetStatus(p, "m_pairs", "m_next", FREELIST_COMPLETED)
  \/ \E u \in Unit : PopPost(p, u)
  \/ PushPost(p) \/ PostEmpty(p)
  \/ ClearMerge(p) \/ ResetMergeLevel(p)
  \/ SetStatus(p, "m_status_off", "m_leave", DEFAULT)
  \/ LeaveMerge(p)

-----------------------------------------------------------------------------
(* A process dies at any point: what it has in hand is on no list and has  *)
(* no allocation bit.                                                      *)
Die(p) ==
  /\ pc[p] \notin {"idle", "gc"} /\ deaths < MaxDeaths
  /\ deaths' = deaths + 1
  /\ Goto(p, "idle")
  /\ Take(p, NoChunk)
  /\ want' = [want EXCEPT ![p] = 0]
  /\ mlev' = [mlev EXCEPT ![p] = 0]
  /\ lost' = lost \cup (IF hand[p] = NoChunk THEN {} ELSE Units(hand[p]))
  /\ UNCHANGED <<free_list, entry, header, merging, collected>>

Merger == {p \in Proc : pc[p] \in MergePC \ {"m_enter"}}

\* Where a merge goes on, by the state its crash has left.
ResumeDefault ==
  IF current_merge_level = -1 THEN "m_abandon"
  ELSE IF safe_copy THEN "m_leave" ELSE "m_level"
BadResumeAt ==   \* a mutant: the lists are taken as built once there is a bitmap
  IF merge_status = DEFAULT THEN ResumeDefault
  ELSE <<"m_bitmap", "m_next", "m_next">>[merge_status]
ResumeAt ==
  IF merge_status = DEFAULT THEN ResumeDefault
  ELSE <<"m_bitmap", "m_reset", "m_next">>[merge_status]

\* merge_crash_recovery, called when the process that merged has died.  A
\* detached list whose status was not recorded is given up.
RecoverMerge(p) ==
  /\ pc[p] = "idle" /\ Online
  /\ merge_in_progress = 1 /\ Merger = {}
  /\ Goto(p, ResumeAt)
  /\ mlev' = [mlev EXCEPT ![p] = current_merge_level]
  /\ IF ResumeAt = "m_leave"
     THEN /\ lost' = lost \cup UNION {Units(<<u, current_merge_level>>) : u \in chain}
          /\ chain' = {}
     ELSE UNCHANGED <<lost, chain>>
  /\ UNCHANGED <<free_list, entry, header, safe_copy, bitmap, post_merge_level,
                 post_merge_next_level, want, hand, collected, deaths>>

-----------------------------------------------------------------------------
(* garbage_collection, offline: nobody else runs, no merge is unfinished.  *)

GCBegin(p) ==
  /\ \A q \in Proc : pc[q] = "idle"
  /\ merge_in_progress = 0 /\ ~collected
  /\ Goto(p, "gc")
  /\ mlev' = [mlev EXCEPT ![p] = 0]
  /\ bitmap' = bitmap \cap Beyond
  /\ UNCHANGED <<free_list, entry, header, safe_copy, chain, post_merge_level,
                 post_merge_next_level, want, hand, history>>

\* The bits of the chunks of level l that are in use or on the free list.
Known(l) ==
  LET chunks == {u \in Unit : u % Size(l) = 0 /\ entry[u] = l} \cup free_list[l]
  IN  UNION {Units(<<u, l>>) : u \in chunks}

BadLeaks(l, bits) ==   \* a mutant: only the second of a pair is looked for
  LET Full(u) == Units(<<u, l>>) \subseteq bits
  IN  {u + Size(l) : u \in {v \in Unit : v % Size(l + 1) = 0
                                         /\ Full(v) /\ ~Full(v + Size(l))}}

\* Of every two neighbours, the one that is unknown when the other is known.
Leaks(l, bits) ==
  LET Full(u) == Units(<<u, l>>) \subseteq bits
      Lefts == {u \in Unit : u % Size(l + 1) = 0}
  IN  {u \in Lefts : ~Full(u) /\ Full(u + Size(l))}
        \cup {u + Size(l) : u \in {v \in Lefts : Full(v) /\ ~Full(v + Size(l))}}

GCLevel(p) ==
  /\ pc[p] = "gc"
  /\ LET l == mlev[p]
         bits == bitmap \cup Known(l)
         leaks == Leaks(l, bits)
     IN  /\ free_list' = [free_list EXCEPT ![l] = @ \cup leaks]
         /\ bitmap' = bits \cup UNION {Units(<<u, l>>) : u \in leaks}
         /\ lost' = lost \ UNION {Units(<<u, l>>) : u \in leaks}
         /\ IF l < MaxLevel
            THEN mlev' = [mlev EXCEPT ![p] = l + 1] /\ UNCHANGED <<pc, collected>>
            ELSE mlev' = [mlev EXCEPT ![p] = 0] /\ Goto(p, "idle") /\ collected' = TRUE
  /\ UNCHANGED <<entry, header, safe_copy, chain, post_merge_level,
                 post_merge_next_level, want, hand, deaths>>

\* A crash of the collection: it is started again.
GCDie(p) ==
  /\ pc[p] = "gc"
  /\ Goto(p, "idle")
  /\ mlev' = [mlev EXCEPT ![p] = 0]
  /\ UNCHANGED <<free_list, entry, header, merging, want, hand, history>>

Next ==
  \E p \in Proc :
    \/ \E l \in AllocLevel : AllocBegin(p, l)
    \/ \E u \in Unit \cup Beyond : AllocPop(p, u)
    \/ AllocEmpty(p) \/ AllocSplit(p) \/ AllocMark(p)
    \/ \E u \in Unit : FreeReset(p, u)
    \/ FreePush(p)
    \/ MergeBegin(p) \/ MergeStep(p)
    \/ Die(p) \/ RecoverMerge(p)
    \/ GCBegin(p) \/ GCLevel(p) \/ GCDie(p)

Spec == Init /\ [][Next]_vars

-----------------------------------------------------------------------------
\* Where a chunk can be: on a free list, in use, in somebody's hand, or with
\* the merge, which holds what it detached until its lists are complete.
FreeChunks == UNION {{<<u, l>> : u \in free_list[l]} : l \in Level}
UsedChunks == {<<u, entry[u]>> : u \in {v \in Unit : entry[v] # Free}}
HandChunks == {hand[p] : p \in Proc} \ {NoChunk}
MergeChunks ==
  IF merge_status # FREELIST_COMPLETED
  THEN {<<u, current_merge_level>> : u \in chain}
  ELSE {<<u, current_merge_level>> : u \in post_merge_level}
         \cup {<<u, current_merge_level + 1>> : u \in post_merge_next_level}
Places == <<FreeChunks, UsedChunks, HandChunks, MergeChunks>>
Chunks == FreeChunks \cup UsedChunks \cup HandChunks \cup MergeChunks

(* alloc, free, merge and recovery never make one unit part of two chunks, *)
(* nor one chunk the property of two: what split pushes, what merge pushes *)
(* back and what alloc returns are disjoint at every instant.              *)
NoOverlap ==
  /\ \A c, d \in Chunks : c # d => Apart(c, d)
  /\ LET places == Places IN \A i, j \in 1 .. 4 : i < j => places[i] \cap places[j] = {}
  /\ \A p, q \in Proc : p # q /\ hand[p] = hand[q] => hand[p] = NoChunk

(* Memory is lost only where a crash loses the chunk in somebody's hand or *)
(* a recovery gives up a list that merge detached without recording it:    *)
(* every other crash of a merge is repaired without a leak.                *)
Tiled ==
  /\ Unit \ lost \subseteq UNION {Units(c) : c \in Chunks}
  /\ lost # {} => \A c \in Chunks : Units(c) \cap lost = {}

(* The assertions of the merge steps on merge_status, and the CAS of       *)
(* finish_merge on current_merge_level, which throws when it fails, also   *)
(* when recovery enters the steps in the middle.                           *)
MergeAsserts ==
  \A p \in Proc :
    /\ pc[p] \in {"m_level", "m_copy", "m_swap", "m_swapped"} => merge_status = DEFAULT
    /\ pc[p] \in {"m_bitmap", "m_marked"} => merge_status = SWAP_COMPLETED
    /\ pc[p] \in {"m_reset", "m_pairs"} => merge_status = BITMAP_COMPLETED
    /\ pc[p] \in {"m_next", "m_rest", "m_clear", "m_level_off"} =>
         merge_status = FREELIST_COMPLETED /\ current_merge_level = mlev[p]

(* Garbage collection finds every chunk that crashes have lost, whatever   *)
(* their sizes, also when it is itself interrupted and started again.      *)
GCRecovers == collected => lost = {} /\ Unit \subseteq bitmap

(* The lists a merge has built, from the bitmap or from what a crash left  *)
(* of it, keep no two buddies apart: each pair goes up one level.          *)
BuddiesMerged ==
  merge_status = FREELIST_COMPLETED =>
    \A u \in post_merge_level :
      u % Size(current_merge_level + 1) = 0
        => u + Size(current_merge_level) \notin post_merge_level

(* garbage_collection "finds out which chunks are lost and inserts them    *)
(* back to the freelists" (zone.cc:1326): nothing else, that is, and no    *)
(* chunk outside the zone.                                                 *)
GCStaysInZone == \A l \in Level : free_list[l] \subseteq Unit

(* Refinement: the zone is an allocator of disjoint aligned chunks.        *)
Abs == INSTANCE Allocator WITH inUse <- UsedChunks
ImplementsAllocator == Abs!Spec
=============================================================================
