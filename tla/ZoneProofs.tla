----------------------------- MODULE ZoneProofs -----------------------------
(***************************************************************************)
(* Proofs about modules Zone and ZoneSizes, for zones of any of the sizes  *)
(* that ZoneAssumption allows, any number of processes and crashes, and    *)
(* words of up to 64 bits.                                                 *)
(***************************************************************************)
EXTENDS ZoneSizes, WellFoundedInduction, TLAPS

\* A piece of the zone is a chunk with the place where it is: <<place, first
\* unit, level>>.
Place == {"free", "used", "hand", "merge"}
Piece == Place \X (Unit \cup Beyond) \X Level

FreePieces == {x \in Piece : x[1] = "free" /\ x[2] \in free_list[x[3]]}
UsedPieces == {x \in Piece : x[1] = "used" /\ x[2] \in Unit /\ entry[x[2]] = x[3]}
HandPieces == {x \in Piece : x[1] = "hand" /\ \E p \in Proc : hand[p] = <<x[2], x[3]>>}
ChainPieces == {x \in Piece : x[1] = "merge" /\ x[2] \in chain /\ x[3] = current_merge_level}
PostPieces ==
  {x \in Piece : /\ x[1] = "merge"
                 /\ \/ x[2] \in post_merge_level /\ x[3] = current_merge_level
                    \/ x[2] \in post_merge_next_level /\ x[3] = current_merge_level + 1}
MergePieces == IF merge_status = FREELIST_COMPLETED THEN PostPieces ELSE ChainPieces
Pieces == FreePieces \cup UsedPieces \cup HandPieces \cup MergePieces

Has(x, u) == x[2] <= u /\ u < x[2] + Size(x[3])   \* unit u lies in piece x

\* Every unit is lost or in a piece, and in one only.
Tiling(P, gone) ==
  /\ \A x, y \in P : \A u \in Nat : Has(x, u) /\ Has(y, u) => x = y
  /\ \A u \in Unit : u \in gone \/ \E x \in P : Has(x, u)
  /\ \A u \in gone : \A x \in P : ~Has(x, u)

\* Pieces begin at a multiple of their size and end inside the zone.
Fit(P) == \A x \in P : x[2] % Size(x[3]) = 0 /\ x[2] \in Unit

\* What is in a hand, and at which point of an operation.
Holding ==
  /\ \A p \in Proc : hand[p] # NoChunk <=>
       pc[p] \in {"split", "mark", "push", "m_push_next", "m_push_rest"}
  /\ \A p, q \in Proc : p # q /\ hand[p] = hand[q] => hand[p] = NoChunk
  /\ \A p \in Proc : pc[p] = "split" => want[p] < hand[p][2]
  /\ \A p \in Proc : pc[p] = "mark" => want[p] = hand[p][2]
  /\ \A p \in Proc : pc[p] = "pop" => want[p] <= mlev[p]

\* One process merges, and it has set merge_in_progress.
OneMerger ==
  /\ \A p, q \in Merger : p = q
  /\ Merger # {} => merge_in_progress = 1

Detached == {"m_bitmap", "m_marked", "m_reset", "m_pairs"}
Listed == {"m_next", "m_push_next", "m_rest", "m_push_rest", "m_clear", "m_level_off"}

\* The level of a merge, in the header and in the process.
Levels ==
  /\ \A p \in Proc : pc[p] \in {"m_copy", "m_swap", "m_swapped"} \cup Detached \cup Listed
       => current_merge_level = mlev[p]
  /\ \A p \in Proc : pc[p] \in MergePC => mlev[p] < MaxLevel
  /\ \A p \in Proc : pc[p] \in {"m_enter", "m_level", "m_copy", "m_swap", "m_swapped"} \cup Detached
       => 0 <= mlev[p]
  /\ \A p \in Proc : pc[p] \in {"pop", "gc"} => 0 <= mlev[p]
  /\ merge_status \in {SWAP_COMPLETED, BITMAP_COMPLETED} => 0 <= current_merge_level

\* What the header says of a merge, whether its process lives or not.
Recorded ==
  /\ \A p \in Proc :
       /\ pc[p] \in {"m_level", "m_copy", "m_swap", "m_swapped", "m_leave", "m_abandon"}
            => merge_status = DEFAULT
       /\ pc[p] \in {"m_bitmap", "m_marked"} => merge_status = SWAP_COMPLETED
       /\ pc[p] \in {"m_reset", "m_pairs"} => merge_status = BITMAP_COMPLETED
       /\ pc[p] \in Listed \cup {"m_status_off"} => merge_status = FREELIST_COMPLETED
  /\ merge_in_progress = 0 => merge_status = DEFAULT /\ chain = {}

\* When the detached list is still, or already, empty.
Chained ==
  /\ \A p \in Proc :
       pc[p] \in {"m_level", "m_copy", "m_swap", "m_level_off", "m_status_off", "m_leave", "m_abandon"}
         => chain = {}
  /\ merge_status = DEFAULT /\ chain # {} => safe_copy /\ current_merge_level # -1

\* The bitmap of a merge shows the list that it has detached.
Shown == bitmap = {u \div Size(current_merge_level) : u \in chain}
Marked ==
  /\ \A p \in Proc : pc[p] = "m_marked" => Shown
  /\ merge_status = BITMAP_COMPLETED => Shown

\* The lists that a merge builds from the bitmap.
Paired ==
  /\ \A v \in post_merge_next_level : \E i \in Unit :
       i % 2 = 0 /\ {i, i + 1} \subseteq bitmap /\ v = i * Size(current_merge_level)
  /\ \A v \in post_merge_level : \E j \in bitmap :
       /\ v = j * Size(current_merge_level)
       /\ j % 2 = 0 => j + 1 \notin bitmap
       /\ j % 2 = 1 => j - 1 \notin bitmap
Posted ==
  /\ \A p \in Proc : pc[p] = "m_pairs" => Paired
  /\ \A p \in Proc : pc[p] \in {"m_rest", "m_push_rest"} => post_merge_next_level = {}
  /\ \A p \in Proc : pc[p] \in {"m_clear", "m_level_off", "m_status_off"}
       => post_merge_level = {} /\ post_merge_next_level = {}
  /\ merge_status = FREELIST_COMPLETED /\ current_merge_level = -1
       => chain = {} /\ post_merge_level = {} /\ post_merge_next_level = {}

\* Garbage collection runs alone, once.
Alone ==
  /\ collected => \A p \in Proc : pc[p] = "idle"
  /\ \A p \in Proc : pc[p] = "gc" =>
       merge_in_progress = 0 /\ \A q \in Proc \ {p} : pc[q] = "idle"
  /\ collected => merge_in_progress = 0
  /\ ~collected => bitmap \subseteq Unit

\* The bits it has set so far are those of the chunks below its level, and make
\* whole blocks of that level.
Block(u, v, l) == v <= u /\ u < v + Size(l)
Sweeping ==
  \A p \in Proc : pc[p] = "gc" =>
    /\ \A u \in Unit : u \in bitmap <=> \E x \in Pieces : x[3] < mlev[p] /\ Has(x, u)
    /\ \A v \in Unit : v % Size(mlev[p]) = 0 =>
         \/ \A u \in Unit : Block(u, v, mlev[p]) => u \in bitmap
         \/ \A u \in Unit : Block(u, v, mlev[p]) => u \notin bitmap

Control == Holding /\ OneMerger /\ Levels /\ Recorded /\ Chained /\ Posted /\ Alone
IInv ==
  /\ TypeOK /\ Control /\ Marked
  /\ Tiling(Pieces, lost)
  /\ ~collected => Fit(Pieces)
  /\ entry[0] = 0
  /\ Sweeping /\ BuddiesMerged /\ GCRecovers

-----------------------------------------------------------------------------
(* Powers of two and their multiples *)

Powers == {1, 2, 4, 8, 16, 32, 64, 128, 256, 512}

\* Sizes are powers of two, each twice the one before.
LEMMA Sizes ==
  /\ \A l \in 0 .. 9 : Size(l) \in Powers /\ Size(l) \in Nat /\ Size(l) > 0
  /\ \A l \in 0 .. 8 : Size(l + 1) = 2 * Size(l)
  /\ Size(0) = 1
  <1>1. /\ Size(0) = 1 /\ Size(1) = 2 /\ Size(2) = 4 /\ Size(3) = 8 /\ Size(4) = 16
        /\ Size(5) = 32 /\ Size(6) = 64 /\ Size(7) = 128 /\ Size(8) = 256 /\ Size(9) = 512
    BY DEF Size
  <1>2. \A l \in 0 .. 9 : l = 9 \/ l = 0 \/ l = 1 \/ l = 2 \/ l = 3 \/ l = 4 \/ l = 5 \/ l = 6 \/ l = 7 \/ l = 8
    OBVIOUS
  <1>3. \A l \in 0 .. 9 : Size(l) \in Powers
    BY <1>1, <1>2 DEF Powers
  <1>4. \A s \in Powers : s \in Nat /\ s > 0
    BY DEF Powers
  <1>5. ASSUME NEW l \in 0 .. 8 PROVE Size(l + 1) = 2 * Size(l)
    <2>1. l = 0 \/ l = 1 \/ l = 2 \/ l = 3 \/ l = 4 \/ l = 5 \/ l = 6 \/ l = 7 \/ l = 8
      OBVIOUS
    <2>2. Size(l + 1) = 2 * Size(l)
      BY <2>1, <1>1
    <2>3. QED
      BY <2>2
  <1>6. QED
    BY <1>1, <1>3, <1>4, <1>5

\* Numbers of one grid are equal or a step apart.
LEMMA Grid ==
  ASSUME NEW l \in 0 .. 9, NEW u \in Nat, NEW v \in Nat, u % Size(l) = 0, v % Size(l) = 0
  PROVE  u = v \/ u + Size(l) <= v \/ v + Size(l) <= u
  <1>1. \A s \in Powers : u % s = 0 /\ v % s = 0 => u = v \/ u + s <= v \/ v + s <= u
    BY DEF Powers
  <1>2. QED
    BY <1>1, Sizes

\* What the merge computes with bit numbers: a bit i stands for unit i * Size(l),
\* and the buddies of level l are the bits 2k and 2k + 1.
LEMMA Multiples ==
  ASSUME NEW l \in 0 .. 8
  PROVE  /\ \A u \in Nat : u * Size(l) \in Nat /\ (u * Size(l)) % Size(l) = 0 /\ (u * Size(l)) \div Size(l) = u
         /\ \A u \in Nat : u \div Size(l) \in Nat /\ u \div Size(l) <= u
         /\ \A u \in Nat : u % Size(l) = 0 => (u \div Size(l)) * Size(l) = u
         /\ \A u \in Nat : u % 2 = 0 => (u * Size(l)) % Size(l + 1) = 0
         /\ \A u \in Nat : (u * Size(l)) % Size(l + 1) = 0 => u % 2 = 0
         /\ \A u \in Nat : (u + 1) * Size(l) = u * Size(l) + Size(l)
         /\ \A u \in Nat : u % Size(l + 1) = 0 => u % Size(l) = 0 /\ (u + Size(l)) % Size(l) = 0
         /\ \A u \in Nat : u % Size(l) = 0 /\ u % Size(l + 1) # 0 =>
              u - Size(l) \in Nat /\ (u - Size(l)) % Size(l + 1) = 0
  <1>1. ASSUME NEW s \in Powers, NEW u \in Nat
        PROVE  /\ u * s \in Nat /\ (u * s) % s = 0 /\ (u * s) \div s = u
               /\ u \div s \in Nat /\ u \div s <= u
               /\ u % s = 0 => (u \div s) * s = u
               /\ u % 2 = 0 => (u * s) % (2 * s) = 0
               /\ (u * s) % (2 * s) = 0 => u % 2 = 0
               /\ (u + 1) * s = u * s + s
               /\ u % (2 * s) = 0 => u % s = 0 /\ (u + s) % s = 0
               /\ u % s = 0 /\ u % (2 * s) # 0 => u - s \in Nat /\ (u - s) % (2 * s) = 0
    <2>1. s = 1 \/ s = 2 \/ s = 4 \/ s = 8 \/ s = 16 \/ s = 32 \/ s = 64 \/ s = 128 \/ s = 256 \/ s = 512
      BY DEF Powers
    <2>2. u * s \in Nat /\ (u * s) % s = 0 /\ (u * s) \div s = u
      BY <2>1
    <2>3. u \div s \in Nat /\ u \div s <= u
      BY <2>1
    <2>4. u % s = 0 => (u \div s) * s = u
      BY <2>1
    <2>5. \A i \in Nat : i % 2 = 0 => (i * s) % (2 * s) = 0
      BY <2>1
    <2>6. (u * s) % (2 * s) = 0 => u % 2 = 0
      BY <2>1
    <2>7. (u + 1) * s = u * s + s
      BY <2>1
    <2>8. u % (2 * s) = 0 => u % s = 0 /\ (u + s) % s = 0
      BY <2>1
    <2>9. u % s = 0 /\ u % (2 * s) # 0 => u - s \in Nat /\ (u - s) % (2 * s) = 0
      <3>1. SUFFICES ASSUME u % s = 0, u % (2 * s) # 0
                     PROVE  u - s \in Nat /\ (u - s) % (2 * s) = 0
        OBVIOUS
      <3> DEFINE k == u \div s
      <3>2. k \in Nat /\ u = k * s
        BY <2>3, <2>4, <3>1
      <3>3. k % 2 # 0
        BY <3>1, <3>2, <2>5
      <3>4. k - 1 \in Nat /\ (k - 1) % 2 = 0
        BY <3>2, <3>3
      <3>5. \A i \in Nat : i * s \in Nat /\ (i + 1) * s = i * s + s
        BY <2>1
      <3>6. u = (k - 1) * s + s /\ (k - 1) * s \in Nat
        BY <3>2, <3>4, <3>5
      <3>7. ((k - 1) * s) % (2 * s) = 0
        BY <2>5, <3>4
      <3>8. s \in Nat
        BY <2>1
      <3>9. u - s = (k - 1) * s
        BY <3>6, <3>8
      <3>10. QED
        BY <3>6, <3>7, <3>9
    <2>10. QED
      BY <2>2, <2>3, <2>4, <2>5, <2>6, <2>7, <2>8, <2>9
  <1>2. PICK s \in Powers : Size(l) = s /\ Size(l + 1) = 2 * s
    BY Sizes
  <1>3. QED
    BY <1>1, <1>2

\* A multiple of a size is a multiple of the smaller ones.
LEMMA Divides ==
  ASSUME NEW l \in 0 .. 9, NEW m \in 0 .. 9, l <= m
  PROVE  /\ \A u \in Nat : u % Size(m) = 0 => u % Size(l) = 0
         /\ Size(m) % Size(l) = 0 /\ Size(l) <= Size(m)
  <1>1. ASSUME NEW u \in Nat, u % Size(m) = 0
        PROVE  u % Size(l) = 0
    <2> DEFINE K == {k \in 0 .. 9 : u % Size(k) = 0}
    <2>1. \A j \in 0 .. 9, k \in 0 .. 8 : j = k + 1 /\ j \in K => k \in K
      <3>1. \A k \in 0 .. 8 : u % Size(k + 1) = 0 => u % Size(k) = 0
        BY Multiples
      <3>2. QED
        BY <3>1
    <2>2. m \in K
      BY <1>1
    <2> HIDE DEF K
    <2>3. /\ 9 \in K => 8 \in K
          /\ 8 \in K => 7 \in K
          /\ 7 \in K => 6 \in K
          /\ 6 \in K => 5 \in K
          /\ 5 \in K => 4 \in K
          /\ 4 \in K => 3 \in K
          /\ 3 \in K => 2 \in K
          /\ 2 \in K => 1 \in K
          /\ 1 \in K => 0 \in K
      BY <2>1
    <2>4. /\ l = 0 \/ l = 1 \/ l = 2 \/ l = 3 \/ l = 4 \/ l = 5 \/ l = 6 \/ l = 7 \/ l = 8 \/ l = 9
          /\ m = 0 \/ m = 1 \/ m = 2 \/ m = 3 \/ m = 4 \/ m = 5 \/ m = 6 \/ m = 7 \/ m = 8 \/ m = 9
      OBVIOUS
    <2>5. l \in K
      BY <2>2, <2>3, <2>4
    <2>6. QED
      BY <2>5 DEF K
  <1>2. Size(m) % Size(m) = 0
    <2>1. \A s \in Powers : s % s = 0
      BY DEF Powers
    <2>2. QED
      BY <2>1, Sizes
  <1>3. Size(m) % Size(l) = 0 /\ Size(m) > 0
    BY <1>1, <1>2, Sizes
  <1>4. \A s \in Powers, t \in Powers : t % s = 0 => s <= t
    BY DEF Powers
  <1>5. QED
    BY <1>1, <1>3, <1>4, Sizes

\* A set of numbers that is not empty has a least one.
LEMMA LeastNumber ==
  ASSUME NEW T \in SUBSET Nat, T # {}
  PROVE  \E n \in T : \A y \in T : n <= y
  <1> DEFINE R == OpToRel(<, Nat)
  <1>1. IsWellFoundedOn(R, Nat)
    BY NatLessThanWellFounded
  <1>2. \A y, x \in Nat : y < x => <<y, x>> \in R
    BY Zenon DEF OpToRel
  <1> HIDE DEF R
  <1>3. PICK x \in T : \A y \in T : ~ (<<y, x>> \in R)
     BY <1>1, WFMin
  <1>4. \A y \in T : x \in Nat /\ y \in Nat /\ ~(y < x)
    BY <1>2, <1>3
  <1>5. QED
    BY <1>4

LEMMA Least ==
  ASSUME NEW T \in SUBSET Nat, T # {}
  PROVE  Min(T) \in T
  BY LeastNumber DEF Min

\* What the sizes of the zone and its chunks have in common.
LEMMA Bounds ==
  /\ MaxLevel \in 1 .. 8 /\ Level \subseteq 0 .. 8 /\ 0 \in Level /\ MaxLevel \in Level
  /\ Unit \subseteq Nat /\ Beyond \subseteq Nat /\ 0 \in Unit
  /\ Size(MaxLevel) \in Nat
  /\ \A u \in Nat : u \in Unit <=> u < Size(MaxLevel)
  /\ \A u \in Nat : u \in Beyond <=> Size(MaxLevel) <= u /\ u < 2 * Size(MaxLevel)
  BY ZoneAssumption, Sizes DEF Level, Unit, Beyond

\* A level is a small number and its size is positive.
LEMMA LevelSize ==
  \A l \in Level : l \in Nat /\ l \in 0 .. 8 /\ l \in 0 .. 9 /\ Size(l) \in Nat /\ Size(l) > 0
  <1>1. \A l \in Level : l \in 0 .. 8
    BY Bounds
  <1>2. QED
    BY <1>1, Sizes

\* A chunk that begins inside the zone ends there.
LEMMA Inside ==
  ASSUME NEW l \in Level, NEW u \in Unit, u % Size(l) = 0
  PROVE  u + Size(l) <= Size(MaxLevel)
  <1>1. l \in 0 .. 9 /\ MaxLevel \in 0 .. 9 /\ l <= MaxLevel
    BY Bounds DEF Level
  <1>2. Size(MaxLevel) % Size(l) = 0
    BY <1>1, Divides
  <1>3. u \in Nat /\ Size(MaxLevel) \in Nat /\ u < Size(MaxLevel)
    BY Bounds
  <1>4. Size(l) \in Nat /\ Size(l) > 0
    BY <1>1, Sizes
  <1>5. QED
    BY <1>1, <1>2, <1>3, <1>4, Grid

-----------------------------------------------------------------------------
(* Tilings *)

\* Some pieces give way to others that cover the same units, but for those that
\* are lost now.
LEMMA Renew ==
  ASSUME NEW P, NEW O \in SUBSET P, NEW N, NEW gone \in SUBSET Unit, NEW more \in SUBSET Unit,
         Tiling(P, gone),
         \A n \in N : \A u \in Nat : Has(n, u) => \E x \in O : Has(x, u),
         \A n, m \in N : \A u \in Nat : Has(n, u) /\ Has(m, u) => n = m,
         \A x \in O : \A u \in Unit : Has(x, u) => u \in more \/ \E n \in N : Has(n, u),
         gone \subseteq more,
         \A u \in more : \/ u \in gone
                         \/ /\ \E x \in O : Has(x, u)
                            /\ \A n \in N : ~Has(n, u)
  PROVE  Tiling((P \ O) \cup N, more)
  <1> DEFINE Q == (P \ O) \cup N
  <1>1. ASSUME NEW x \in Q, NEW y \in Q, NEW u \in Nat, Has(x, u), Has(y, u)
        PROVE  x = y
    <2>1. ASSUME NEW n \in N, NEW m \in P \ O, Has(n, u), Has(m, u)
          PROVE  FALSE
      <3>1. PICK o \in O : Has(o, u)
        BY <2>1
      <3>2. o = m
        BY <2>1, <3>1 DEF Tiling
      <3>3. QED
        BY <2>1, <3>2
    <2>2. CASE x \in N /\ y \in N
      BY <1>1, <2>2
    <2>3. CASE x \in P \ O /\ y \in P \ O
      BY <1>1, <2>3 DEF Tiling
    <2>4. QED
      BY <1>1, <2>1, <2>2, <2>3
  <1>2. ASSUME NEW u \in Unit
        PROVE  u \in more \/ \E x \in Q : Has(x, u)
    <2>1. CASE u \in gone
      BY <2>1
    <2>2. CASE \E x \in P : Has(x, u)
      BY <2>2
    <2>3. QED
      BY <2>1, <2>2 DEF Tiling
  <1>3. ASSUME NEW u \in more, NEW x \in Q, Has(x, u)
        PROVE  FALSE
    <2>1. u \in Nat
      BY Bounds
    <2>2. CASE u \in gone
      <3>1. x \in N
        BY <1>3, <2>2 DEF Tiling
      <3>2. PICK o \in O : Has(o, u)
        BY <1>3, <2>1, <3>1
      <3>3. QED
        BY <2>2, <3>2 DEF Tiling
    <2>3. CASE u \notin gone
      <3>1. PICK o \in O : Has(o, u)
        BY <2>3
      <3>2. x \in P \ O
        BY <1>3, <2>3
      <3>3. QED
        BY <1>3, <2>1, <3>1, <3>2 DEF Tiling
    <2>4. QED
      BY <2>2, <2>3
  <1>4. QED
    BY <1>1, <1>2, <1>3 DEF Tiling

\* A chunk goes from one place to another.
LEMMA Move ==
  ASSUME NEW P, NEW gone \in SUBSET Unit, Tiling(P, gone), NEW x \in P, NEW y,
         y[2] = x[2], y[3] = x[3]
  PROVE  Tiling((P \ {x}) \cup {y}, gone)
  <1>1. \A u \in Nat : Has(x, u) <=> Has(y, u)
    BY DEF Has
  <1>2. Unit \subseteq Nat
    BY Bounds
  <1> DEFINE O == {x}
             N == {y}
  <1>3. O \in SUBSET P
    OBVIOUS
  <1>4. \A n \in N : \A u \in Nat : Has(n, u) => \E o \in O : Has(o, u)
    BY <1>1
  <1>5. \A n, m \in N : \A u \in Nat : Has(n, u) /\ Has(m, u) => n = m
    OBVIOUS
  <1>6. \A o \in O : \A u \in Unit : Has(o, u) => u \in gone \/ \E n \in N : Has(n, u)
    BY <1>1, <1>2
  <1>7. \A u \in gone :
          \/ u \in gone
          \/ (\E o \in O : Has(o, u)) /\ (\A n \in N : ~Has(n, u))
    OBVIOUS
  <1> HIDE DEF O, N
  <1>8. Tiling((P \ O) \cup N, gone)
    BY <1>3, <1>4, <1>5, <1>6, <1>7, Renew, Zenon
  <1>9. QED
    BY <1>8 DEF O, N

\* A chunk is cut into two halves.
LEMMA Cut ==
  ASSUME NEW P, NEW gone \in SUBSET Unit, Tiling(P, gone), NEW x \in P, NEW y, NEW z,
         x[2] \in Nat, x[3] \in 1 .. 8,
         y[2] = x[2], y[3] = x[3] - 1,
         z[2] = x[2] + Size(x[3] - 1), z[3] = x[3] - 1
  PROVE  Tiling((P \ {x}) \cup {y, z}, gone)
  <1> DEFINE O == {x}
             N == {y, z}
  <1>1. Size(x[3] - 1) \in Nat /\ Size(x[3]) = 2 * Size(x[3] - 1)
    <2>1. x[3] - 1 \in 0 .. 8 /\ x[3] - 1 \in 0 .. 9 /\ (x[3] - 1) + 1 = x[3]
      OBVIOUS
    <2>2. QED
      BY <2>1, Sizes
  <1>2. \A u \in Nat : /\ Has(x, u) <=> Has(y, u) \/ Has(z, u)
                       /\ ~(Has(y, u) /\ Has(z, u))
    BY <1>1 DEF Has
  <1>3. O \in SUBSET P
    OBVIOUS
  <1>4. \A n \in N : \A u \in Nat : Has(n, u) => \E o \in O : Has(o, u)
    BY <1>2
  <1>5. \A n, m \in N : \A u \in Nat : Has(n, u) /\ Has(m, u) => n = m
    BY <1>2
  <1>6. \A o \in O : \A u \in Unit : Has(o, u) => u \in gone \/ \E n \in N : Has(n, u)
    BY <1>2, Bounds
  <1>7. \A u \in gone :
          \/ u \in gone
          \/ (\E o \in O : Has(o, u)) /\ (\A n \in N : ~Has(n, u))
    OBVIOUS
  <1> HIDE DEF O, N
  <1>8. Tiling((P \ O) \cup N, gone)
    BY <1>3, <1>4, <1>5, <1>6, <1>7, Renew, Zenon
  <1>9. QED
    BY <1>8 DEF O, N

\* Chunks are lost.
LEMMA Lose ==
  ASSUME NEW P, NEW O \in SUBSET P, NEW gone \in SUBSET Unit, NEW more \in SUBSET Unit,
         Tiling(P, gone),
         \A u \in Unit : u \in more <=> u \in gone \/ \E x \in O : Has(x, u)
  PROVE  Tiling(P \ O, more)
  <1> DEFINE N == {}
  <1>1. \A n \in N : \A u \in Nat : Has(n, u) => \E o \in O : Has(o, u)
    OBVIOUS
  <1>2. \A n, m \in N : \A u \in Nat : Has(n, u) /\ Has(m, u) => n = m
    OBVIOUS
  <1>3. \A o \in O : \A u \in Unit : Has(o, u) => u \in more \/ \E n \in N : Has(n, u)
    OBVIOUS
  <1>4. gone \subseteq more
    OBVIOUS
  <1>5. \A u \in more :
          \/ u \in gone
          \/ (\E o \in O : Has(o, u)) /\ (\A n \in N : ~Has(n, u))
    OBVIOUS
  <1>6. /\ O \in SUBSET P /\ gone \in SUBSET Unit /\ more \in SUBSET Unit
        /\ Tiling(P, gone)
    OBVIOUS
  <1>7. (P \ O) \cup N = P \ O
    OBVIOUS
  <1> HIDE DEF N
  <1>8. Tiling((P \ O) \cup N, more)
    BY ONLY <1>1, <1>2, <1>3, <1>4, <1>5, <1>6, Renew, Zenon
  <1>9. QED
    BY <1>7, <1>8 DEF N

-----------------------------------------------------------------------------
(* What the writes to the shared memory and to a hand make of the pieces *)

\* Pieces are triples.
LEMMA Tuples ==
  /\ \A x \in Piece : x = <<x[1], x[2], x[3]>>
  /\ \A k \in Place, u \in Unit \cup Beyond, l \in Level : <<k, u, l>> \in Piece
  BY DEF Piece

\* A push makes a chunk a free piece,
LEMMA PushPieces ==
  ASSUME TypeOK, NEW l \in Level, NEW u \in Unit \cup Beyond, PushFree(l, u)
  PROVE  FreePieces' = FreePieces \cup {<<"free", u, l>>}
  <1>1. free_list' = [free_list EXCEPT ![l] = @ \cup {u}] /\ free_list \in [Level -> SUBSET (Unit \cup Beyond)]
    BY DEF TypeOK, PushFree
  <1>2. ASSUME NEW x \in Piece
        PROVE  x \in FreePieces' <=> x \in FreePieces \/ x = <<"free", u, l>>
    BY <1>1, Tuples DEF FreePieces, Piece
  <1>3. <<"free", u, l>> \in Piece
    BY Tuples DEF Place
  <1>4. Piece' = Piece
    BY DEF Piece, Place, Unit, Beyond, Level
  <1>5. QED
    BY <1>2, <1>3, <1>4 DEF FreePieces

\* a pop takes it away,
LEMMA PopPieces ==
  ASSUME TypeOK, NEW l \in Level, NEW u \in Unit \cup Beyond, PopFree(l, u)
  PROVE  FreePieces' = FreePieces \ {<<"free", u, l>>}
  <1>1. free_list' = [free_list EXCEPT ![l] = @ \ {u}] /\ free_list \in [Level -> SUBSET (Unit \cup Beyond)]
    BY DEF TypeOK, PopFree
  <1>2. ASSUME NEW x \in Piece
        PROVE  x \in FreePieces' <=> x \in FreePieces /\ x # <<"free", u, l>>
    BY <1>1, Tuples DEF FreePieces, Piece
  <1>4. Piece' = Piece
    BY DEF Piece, Place, Unit, Beyond, Level
  <1>5. QED
    BY <1>2, <1>4 DEF FreePieces

\* an idle process takes a chunk in hand,
LEMMA TakePieces ==
  ASSUME TypeOK, NEW p \in Proc, NEW u \in Unit, NEW l \in Level, hand[p] = NoChunk, Take(p, <<u, l>>)
  PROVE  HandPieces' = HandPieces \cup {<<"hand", u, l>>}
  <1>1. hand' = [hand EXCEPT ![p] = <<u, l>>] /\ hand \in [Proc -> (Unit \X Level) \cup {NoChunk}]
    BY DEF TypeOK, Take
  <1>2. \A v \in Unit \cup Beyond, m \in Level : <<v, m>> # NoChunk
    BY Bounds, ZoneAssumption
  <1>3. ASSUME NEW x \in Piece
        PROVE  x \in HandPieces' <=> x \in HandPieces \/ x = <<"hand", u, l>>
    <2>1. CASE x[1] = "hand"
      <3>1. x \in HandPieces' <=> \E q \in Proc : hand'[q] = <<x[2], x[3]>>
        BY <2>1 DEF HandPieces, Piece
      <3>2. x \in HandPieces <=> \E q \in Proc : hand[q] = <<x[2], x[3]>>
        BY <2>1 DEF HandPieces
      <3>3. \A q \in Proc : hand'[q] = IF q = p THEN <<u, l>> ELSE hand[q]
        BY <1>1
      <3>4. x = <<"hand", x[2], x[3]>> /\ <<x[2], x[3]>> # NoChunk
        BY <1>2, <2>1, Tuples DEF Piece
      <3>5. QED
        BY <3>1, <3>2, <3>3, <3>4
    <2>2. CASE x[1] # "hand"
      BY <2>2 DEF HandPieces
    <2>3. QED
      BY <2>1, <2>2
  <1>4. <<"hand", u, l>> \in Piece
    BY Tuples DEF Place
  <1>5. Piece' = Piece
    BY DEF Piece, Place, Unit, Beyond, Level
  <1>6. QED
    BY <1>3, <1>4, <1>5 DEF HandPieces

\* lays it down,
LEMMA DropPieces ==
  ASSUME TypeOK, Holding, NEW p \in Proc, NEW u \in Unit, NEW l \in Level, hand[p] = <<u, l>>, Take(p, NoChunk)
  PROVE  HandPieces' = HandPieces \ {<<"hand", u, l>>}
  <1>1. hand' = [hand EXCEPT ![p] = NoChunk] /\ hand \in [Proc -> (Unit \X Level) \cup {NoChunk}]
    BY DEF TypeOK, Take
  <1>2. \A v \in Unit \cup Beyond, m \in Level : <<v, m>> # NoChunk
    BY Bounds, ZoneAssumption
  <1>3. \A q \in Proc : q # p => hand[q] # <<u, l>>
    BY <1>2 DEF Holding
  <1>4. ASSUME NEW x \in Piece
        PROVE  x \in HandPieces' <=> x \in HandPieces /\ x # <<"hand", u, l>>
    BY <1>1, <1>2, <1>3, Tuples DEF HandPieces, Piece
  <1>5. Piece' = Piece
    BY DEF Piece, Place, Unit, Beyond, Level
  <1>6. QED
    BY <1>4, <1>5 DEF HandPieces

\* or keeps a half of it.
LEMMA ChangePieces ==
  ASSUME TypeOK, Holding, NEW p \in Proc, NEW u \in Unit, NEW l \in Level, hand[p] = <<u, l>>,
         NEW m \in Level, Take(p, <<u, m>>)
  PROVE  HandPieces' = (HandPieces \ {<<"hand", u, l>>}) \cup {<<"hand", u, m>>}
  <1>1. hand' = [hand EXCEPT ![p] = <<u, m>>] /\ hand \in [Proc -> (Unit \X Level) \cup {NoChunk}]
    BY DEF TypeOK, Take
  <1>2. \A v \in Unit \cup Beyond, k \in Level : <<v, k>> # NoChunk
    BY Bounds, ZoneAssumption
  <1>3. \A q \in Proc : q # p => hand[q] # <<u, l>>
    BY <1>2 DEF Holding
  <1>4. ASSUME NEW x \in Piece
        PROVE  x \in HandPieces' <=> (x \in HandPieces /\ x # <<"hand", u, l>>) \/ x = <<"hand", u, m>>
    <2>1. CASE x[1] = "hand"
      <3>1. x \in HandPieces' <=> \E q \in Proc : hand'[q] = <<x[2], x[3]>>
        BY <2>1 DEF HandPieces, Piece
      <3>2. x \in HandPieces <=> \E q \in Proc : hand[q] = <<x[2], x[3]>>
        BY <2>1 DEF HandPieces
      <3>3. \A q \in Proc : hand'[q] = IF q = p THEN <<u, m>> ELSE hand[q]
        BY <1>1
      <3>4. x = <<"hand", x[2], x[3]>>
        BY <2>1, Tuples
      <3>5. QED
        BY <1>3, <3>1, <3>2, <3>3, <3>4
    <2>2. CASE x[1] # "hand"
      BY <2>2 DEF HandPieces
    <2>3. QED
      BY <2>1, <2>2
  <1>5. <<"hand", u, m>> \in Piece
    BY Tuples DEF Place
  <1>6. Piece' = Piece
    BY DEF Piece, Place, Unit, Beyond, Level
  <1>7. QED
    BY <1>4, <1>5, <1>6 DEF HandPieces

\* Setting an allocation entry makes a used piece,
LEMMA UsePieces ==
  ASSUME TypeOK, NEW u \in Unit, NEW l \in Level, entry[u] = Free, entry' = [entry EXCEPT ![u] = l]
  PROVE  UsedPieces' = UsedPieces \cup {<<"used", u, l>>}
  <1>1. entry \in [Unit -> Level \cup {Free}] /\ Free \notin Level
    BY DEF TypeOK, Free, Level
  <1>2. ASSUME NEW x \in Piece
        PROVE  x \in UsedPieces' <=> x \in UsedPieces \/ x = <<"used", u, l>>
    BY <1>1, Tuples DEF UsedPieces, Piece
  <1>3. <<"used", u, l>> \in Piece
    BY Tuples DEF Place
  <1>4. Piece' = Piece
    BY DEF Piece, Place, Unit, Beyond, Level
  <1>5. QED
    BY <1>2, <1>3, <1>4 DEF UsedPieces

\* resetting it takes the piece away.
LEMMA UnusePieces ==
  ASSUME TypeOK, NEW u \in Unit, entry[u] # Free, entry' = [entry EXCEPT ![u] = Free]
  PROVE  UsedPieces' = UsedPieces \ {<<"used", u, entry[u]>>}
  <1>1. entry \in [Unit -> Level \cup {Free}] /\ Free \notin Level
    BY DEF TypeOK, Free, Level
  <1>2. ASSUME NEW x \in Piece
        PROVE  x \in UsedPieces' <=> x \in UsedPieces /\ x # <<"used", u, entry[u]>>
    BY <1>1, Tuples DEF UsedPieces, Piece
  <1>3. Piece' = Piece
    BY DEF Piece, Place, Unit, Beyond, Level
  <1>4. QED
    BY <1>2, <1>3 DEF UsedPieces

\* A piece tells where it is.
LEMMA Kinds ==
  /\ FreePieces \subseteq Piece /\ \A x \in FreePieces : x[1] = "free"
  /\ UsedPieces \subseteq Piece /\ \A x \in UsedPieces : x[1] = "used"
  /\ HandPieces \subseteq Piece /\ \A x \in HandPieces : x[1] = "hand"
  /\ MergePieces \subseteq Piece /\ \A x \in MergePieces : x[1] = "merge"
  /\ Pieces \subseteq Piece
  BY DEF FreePieces, UsedPieces, HandPieces, MergePieces, ChainPieces, PostPieces, Pieces

\* The pieces depend on nothing but the variables they are read from.
LEMMA Same ==
  /\ UNCHANGED free_list => FreePieces' = FreePieces
  /\ UNCHANGED entry => UsedPieces' = UsedPieces
  /\ UNCHANGED hand => HandPieces' = HandPieces
  /\ UNCHANGED <<current_merge_level, chain>> => ChainPieces' = ChainPieces
  /\ UNCHANGED <<current_merge_level, post_merge_level, post_merge_next_level>> => PostPieces' = PostPieces
  /\ UNCHANGED <<merge_status, current_merge_level, chain, post_merge_level, post_merge_next_level>>
       => MergePieces' = MergePieces
  /\ Pieces' = FreePieces' \cup UsedPieces' \cup HandPieces' \cup MergePieces'
  <1>1. Piece' = Piece
    BY DEF Piece, Place, Unit, Beyond, Level
  <1>2. UNCHANGED free_list => FreePieces' = FreePieces
    BY <1>1 DEF FreePieces
  <1>3. UNCHANGED entry => UsedPieces' = UsedPieces
    BY <1>1 DEF UsedPieces, Unit
  <1>4. UNCHANGED hand => HandPieces' = HandPieces
    BY <1>1 DEF HandPieces
  <1>5. UNCHANGED <<current_merge_level, chain>> => ChainPieces' = ChainPieces
    BY <1>1 DEF ChainPieces
  <1>6. UNCHANGED <<current_merge_level, post_merge_level, post_merge_next_level>> => PostPieces' = PostPieces
    BY <1>1 DEF PostPieces
  <1>7. Pieces' = FreePieces' \cup UsedPieces' \cup HandPieces' \cup MergePieces'
    BY DEF Pieces
  <1>8. UNCHANGED merge_status /\ ChainPieces' = ChainPieces /\ PostPieces' = PostPieces
          => MergePieces' = MergePieces
    BY DEF MergePieces
  <1>9. QED
    BY <1>2, <1>3, <1>4, <1>5, <1>6, <1>7, <1>8

-----------------------------------------------------------------------------
(* Each action that moves chunks keeps the zone tiled *)

StaysTiled == Tiling(Pieces', lost') /\ Fit(Pieces')

\* A chunk that only changes its place leaves the zone tiled.
LEMMA MoveFit ==
  ASSUME Tiling(Pieces, lost), Fit(Pieces), lost \in SUBSET Unit, lost' = lost,
         NEW x \in Pieces, NEW k \in Place, Pieces' = (Pieces \ {x}) \cup {<<k, x[2], x[3]>>}
  PROVE  StaysTiled
  <1> DEFINE y == <<k, x[2], x[3]>>
  <1>1. y[2] = x[2] /\ y[3] = x[3]
    OBVIOUS
  <1>2. Tiling((Pieces \ {x}) \cup {y}, lost)
    BY <1>1, Move, Zenon
  <1>3. Fit((Pieces \ {x}) \cup {y})
    BY <1>1 DEF Fit
  <1>4. QED
    BY <1>2, <1>3 DEF StaysTiled

\* alloc: a chunk goes from its free list to the hand of the process.
LEMMA PopTiles ==
  ASSUME IInv, ~collected, NEW p \in Proc, NEW u \in Unit \cup Beyond, AllocPop(p, u)
  PROVE  StaysTiled
  <1> DEFINE l == mlev[p]
             x == <<"free", u, l>>
             y == <<"hand", u, l>>
  <1>1. TypeOK /\ Control /\ Tiling(Pieces, lost) /\ Fit(Pieces)
    BY DEF IInv
  <1>2. l \in Level /\ hand[p] = NoChunk
    <2>1. /\ \A q \in Proc : hand[q] # NoChunk => pc[q] # "pop"
          /\ \A q \in Proc : pc[q] \in {"pop", "gc"} => 0 <= mlev[q]
      BY <1>1 DEF Control, Levels, Holding
    <2>2. pc[p] = "pop" /\ mlev[p] \in -1 .. MaxLevel
      BY <1>1 DEF TypeOK, AllocPop
    <2>3. QED
      BY <2>1, <2>2, ZoneAssumption DEF Level
  <1>3. x \in FreePieces /\ x \in Pieces
    <2>1. x \in Piece
      BY <1>2, Tuples DEF Place
    <2>2. QED
      BY <2>1 DEF FreePieces, AllocPop, Pieces
  <1>4. u \in Unit
    BY <1>1, <1>3 DEF Fit
  <1>5. FreePieces' = FreePieces \ {x} /\ HandPieces' = HandPieces \cup {y}
    BY <1>1, <1>2, <1>4, PopPieces, TakePieces DEF AllocPop
  <1>6. UsedPieces' = UsedPieces /\ MergePieces' = MergePieces
    BY Same DEF AllocPop, header, merging
  <1>7. Pieces' = (Pieces \ {x}) \cup {y}
    BY <1>5, <1>6, Same, Kinds DEF Pieces
  <1>8. lost' = lost /\ lost \in SUBSET Unit
    BY <1>1 DEF AllocPop, history, TypeOK
  <1>9. y = <<"hand", x[2], x[3]>> /\ "hand" \in Place
    BY DEF Place
  <1> HIDE DEF x, y
  <1>10. QED
    BY <1>1, <1>3, <1>7, <1>8, <1>9, MoveFit

\* A process that has a chunk in hand has that piece.
LEMMA InHand ==
  ASSUME IInv, ~collected, NEW p \in Proc, hand[p] # NoChunk
  PROVE  \E u \in Unit, l \in Level :
           /\ hand[p] = <<u, l>> /\ hand[p][1] = u /\ hand[p][2] = l
           /\ <<"hand", u, l>> \in HandPieces /\ <<"hand", u, l>> \in Pieces
           /\ u % Size(l) = 0
  <1>1. PICK u \in Unit, l \in Level : hand[p] = <<u, l>>
    BY DEF IInv, TypeOK
  <1>2. <<"hand", u, l>> \in HandPieces
    BY <1>1, Tuples DEF HandPieces, Place
  <1>3. <<"hand", u, l>> \in Pieces
    BY <1>2 DEF Pieces
  <1>4. u % Size(l) = 0
    BY <1>3 DEF IInv, Fit
  <1>5. QED
    BY <1>1, <1>2, <1>3, <1>4

\* alloc: the second half of the chunk in hand goes to the list below.
LEMMA SplitTiles ==
  ASSUME IInv, ~collected, NEW p \in Proc, AllocSplit(p)
  PROVE  StaysTiled
  <1>1. TypeOK /\ Control /\ Tiling(Pieces, lost) /\ Fit(Pieces)
    BY DEF IInv
  <1>2. hand[p] # NoChunk /\ want[p] < hand[p][2] /\ want[p] \in Level
    BY <1>1 DEF Control, Holding, AllocSplit, TypeOK
  <1>3. PICK u \in Unit, l \in Level :
          /\ hand[p] = <<u, l>> /\ hand[p][1] = u /\ hand[p][2] = l
          /\ <<"hand", u, l>> \in HandPieces /\ <<"hand", u, l>> \in Pieces
          /\ u % Size(l) = 0
    BY <1>2, InHand
  <1> DEFINE h == Size(l - 1)
             x == <<"hand", u, l>>
             y == <<"hand", u, l - 1>>
             z == <<"free", u + h, l - 1>>
  <1>4. l \in 1 .. 8 /\ l - 1 \in Level /\ l - 1 \in 0 .. 8 /\ (l - 1) + 1 = l /\ u \in Nat
    BY <1>2, <1>3, Bounds DEF Level
  <1>5. Size(l) = 2 * h /\ h \in Nat /\ h > 0
    BY <1>4, Sizes
  <1>6. SecondHalf(hand[p]) = u + h
    BY <1>3, <1>5 DEF SecondHalf
  <1>7. u % h = 0 /\ (u + h) % h = 0
    <2>1. u % Size((l - 1) + 1) = 0
      BY <1>3, <1>4
    <2>2. \A v \in Nat : v % Size((l - 1) + 1) = 0
            => v % Size(l - 1) = 0 /\ (v + Size(l - 1)) % Size(l - 1) = 0
      BY <1>4, Multiples
    <2>3. QED
      BY <1>4, <2>1, <2>2
  <1>8. u + h \in Unit
    BY <1>3, <1>4, <1>5, Inside, Bounds
  <1>9. FreePieces' = FreePieces \cup {z}
    BY <1>1, <1>3, <1>4, <1>6, <1>8, PushPieces DEF AllocSplit
  <1>10. HandPieces' = (HandPieces \ {x}) \cup {y}
    BY <1>1, <1>3, <1>4, ChangePieces DEF AllocSplit, Control
  <1>11. UsedPieces' = UsedPieces /\ MergePieces' = MergePieces
    BY Same DEF AllocSplit, header, merging
  <1>12. Pieces' = (Pieces \ {x}) \cup {y, z}
    BY <1>9, <1>10, <1>11, Same, Kinds DEF Pieces
  <1>13. lost' = lost /\ lost \in SUBSET Unit
    BY <1>1 DEF AllocSplit, history, TypeOK
  <1>14. /\ x[2] = u /\ x[3] = l
         /\ y[2] = u /\ y[3] = l - 1
         /\ z[2] = u + h /\ z[3] = l - 1
    OBVIOUS
  <1>15. x \in Pieces
    BY <1>3
  <1> HIDE DEF x, y, z
  <1>16. Tiling((Pieces \ {x}) \cup {y, z}, lost)
    BY <1>1, <1>4, <1>13, <1>14, <1>15, Cut
  <1>17. Fit((Pieces \ {x}) \cup {y, z})
    BY <1>1, <1>3, <1>7, <1>8, <1>14 DEF Fit
  <1>18. QED
    BY <1>12, <1>13, <1>16, <1>17 DEF StaysTiled

\* alloc: the chunk in hand becomes used, at an entry that is not that of unit 0.
LEMMA MarkTiles ==
  ASSUME IInv, ~collected, NEW p \in Proc, AllocMark(p)
  PROVE  /\ StaysTiled
         /\ \E u \in Unit, l \in Level :
              /\ u # 0 /\ u % Size(l) = 0
              /\ entry' = [entry EXCEPT ![u] = l]
              /\ UsedPieces' = UsedPieces \cup {<<"used", u, l>>}
              /\ <<"hand", u, l>> \in Pieces
  <1>1. TypeOK /\ Control /\ Tiling(Pieces, lost) /\ Fit(Pieces) /\ entry[0] = 0
    BY DEF IInv
  <1>2. hand[p] # NoChunk /\ want[p] = hand[p][2]
    BY <1>1 DEF Control, Holding, AllocMark
  <1>3. PICK u \in Unit, l \in Level :
          /\ hand[p] = <<u, l>> /\ hand[p][1] = u /\ hand[p][2] = l
          /\ <<"hand", u, l>> \in HandPieces /\ <<"hand", u, l>> \in Pieces
          /\ u % Size(l) = 0
    BY <1>2, InHand
  <1> DEFINE x == <<"hand", u, l>>
             y == <<"used", u, l>>
  <1>4. entry' = [entry EXCEPT ![u] = l]
    BY <1>2, <1>3 DEF AllocMark
  <1>5. \A m \in Level : entry[u] # m
    <2>1. ASSUME NEW m \in Level, entry[u] = m
          PROVE  FALSE
      <3>1. <<"used", u, m>> \in Pieces
        <4>1. <<"used", u, m>> \in Piece
          BY Tuples DEF Place
        <4>2. QED
          BY <2>1, <4>1 DEF UsedPieces, Pieces
      <3>2. Size(l) > 0 /\ Size(m) > 0 /\ Size(l) \in Nat /\ Size(m) \in Nat /\ u \in Nat
        BY Bounds, Sizes
      <3>3. Has(<<"used", u, m>>, u) /\ Has(<<"hand", u, l>>, u)
        BY <3>2 DEF Has
      <3>4. <<"used", u, m>> = <<"hand", u, l>>
        BY <1>1, <1>3, <3>1, <3>2, <3>3 DEF Tiling
      <3>5. QED
        BY <3>4
    <2>2. QED
      BY <2>1
  <1>6. entry[u] = Free /\ u # 0
    BY <1>1, <1>5, Bounds DEF TypeOK
  <1>7. UsedPieces' = UsedPieces \cup {y} /\ HandPieces' = HandPieces \ {x}
    BY <1>1, <1>3, <1>4, <1>6, UsePieces, DropPieces DEF AllocMark, Control
  <1>8. FreePieces' = FreePieces /\ MergePieces' = MergePieces
    BY Same DEF AllocMark, header, merging
  <1>9. Pieces' = (Pieces \ {x}) \cup {y}
    BY <1>7, <1>8, Same, Kinds DEF Pieces
  <1>10. lost' = lost /\ lost \in SUBSET Unit
    BY <1>1 DEF AllocMark, history, TypeOK
  <1>11. y = <<"used", x[2], x[3]>> /\ "used" \in Place /\ x \in Pieces
    BY <1>3 DEF Place
  <1>12. StaysTiled
    <2> HIDE DEF x, y
    <2>1. QED
      BY <1>1, <1>9, <1>10, <1>11, MoveFit
  <1>13. QED
    BY <1>3, <1>4, <1>6, <1>7, <1>12

\* free: a used chunk goes to the hand of the process that frees it.
LEMMA ResetTiles ==
  ASSUME IInv, ~collected, NEW p \in Proc, NEW u \in Unit, FreeReset(p, u)
  PROVE  StaysTiled
  <1> DEFINE l == entry[u]
             x == <<"used", u, l>>
             y == <<"hand", u, l>>
  <1>1. TypeOK /\ Control /\ Tiling(Pieces, lost) /\ Fit(Pieces)
    BY DEF IInv
  <1>2. l \in Level /\ hand[p] = NoChunk
    BY <1>1 DEF TypeOK, Control, Holding, FreeReset
  <1>3. x \in UsedPieces /\ x \in Pieces
    <2>1. x \in Piece
      BY <1>2, Tuples DEF Place
    <2>2. QED
      BY <2>1 DEF UsedPieces, Pieces
  <1>4. UsedPieces' = UsedPieces \ {x} /\ HandPieces' = HandPieces \cup {y}
    BY <1>1, <1>2, UnusePieces, TakePieces DEF FreeReset
  <1>5. FreePieces' = FreePieces /\ MergePieces' = MergePieces
    BY Same DEF FreeReset, header, merging
  <1>6. Pieces' = (Pieces \ {x}) \cup {y}
    BY <1>4, <1>5, Same, Kinds DEF Pieces
  <1>7. lost' = lost /\ lost \in SUBSET Unit
    BY <1>1 DEF FreeReset, history, TypeOK
  <1>8. y = <<"hand", x[2], x[3]>> /\ "hand" \in Place
    BY DEF Place
  <1> HIDE DEF x, y
  <1>9. QED
    BY <1>1, <1>3, <1>6, <1>7, <1>8, MoveFit

\* Both kinds of push put what is in the hand on the list of its level.
LEMMA PushTiles ==
  ASSUME IInv, ~collected, NEW p \in Proc, FreePush(p) \/ PushPost(p)
  PROVE  StaysTiled
  <1>1. TypeOK /\ Control /\ Tiling(Pieces, lost) /\ Fit(Pieces)
    BY DEF IInv
  <1>2. hand[p] # NoChunk
    BY <1>1 DEF Control, Holding, FreePush, PushPost
  <1>3. PICK u \in Unit, l \in Level :
          /\ hand[p] = <<u, l>> /\ hand[p][1] = u /\ hand[p][2] = l
          /\ <<"hand", u, l>> \in HandPieces /\ <<"hand", u, l>> \in Pieces
          /\ u % Size(l) = 0
    BY <1>2, InHand
  <1> DEFINE x == <<"hand", u, l>>
             y == <<"free", u, l>>
  <1>4. PushFree(l, u) /\ Take(p, NoChunk)
    BY <1>3 DEF FreePush, PushPost
  <1>5. FreePieces' = FreePieces \cup {y} /\ HandPieces' = HandPieces \ {x}
    BY <1>1, <1>3, <1>4, PushPieces, DropPieces DEF Control
  <1>6. UsedPieces' = UsedPieces /\ MergePieces' = MergePieces
    BY Same DEF FreePush, PushPost, header, merging
  <1>7. Pieces' = (Pieces \ {x}) \cup {y}
    BY <1>5, <1>6, Same, Kinds DEF Pieces
  <1>8. lost' = lost /\ lost \in SUBSET Unit
    BY <1>1 DEF FreePush, PushPost, history, TypeOK
  <1>9. y = <<"free", x[2], x[3]>> /\ "free" \in Place /\ x \in Pieces
    BY <1>3 DEF Place
  <1> HIDE DEF x, y
  <1>10. QED
    BY <1>1, <1>7, <1>8, <1>9, MoveFit

\* Chunks go from one place to another together.
LEMMA MoveAll ==
  ASSUME NEW P, NEW gone \in SUBSET Unit, Tiling(P, gone), NEW O \in SUBSET P, NEW N,
         \A n \in N : \E x \in O : x[2] = n[2] /\ x[3] = n[3],
         \A x \in O : \E n \in N : x[2] = n[2] /\ x[3] = n[3],
         \A n, m \in N : n[2] = m[2] /\ n[3] = m[3] => n = m
  PROVE  Tiling((P \ O) \cup N, gone)
  <1>1. \A x, y : x[2] = y[2] /\ x[3] = y[3] => \A u \in Nat : Has(x, u) <=> Has(y, u)
    BY DEF Has
  <1>2. \A n \in N : \A u \in Nat : Has(n, u) => \E o \in O : Has(o, u)
    BY <1>1
  <1>3. ASSUME NEW n \in N, NEW m \in N, NEW u \in Nat, Has(n, u), Has(m, u)
        PROVE  n = m
    <2>1. PICK x \in O : x[2] = n[2] /\ x[3] = n[3]
      OBVIOUS
    <2>2. PICK y \in O : y[2] = m[2] /\ y[3] = m[3]
      OBVIOUS
    <2>3. Has(x, u) /\ Has(y, u)
      BY <1>1, <1>3, <2>1, <2>2
    <2>4. x = y
      BY <2>3 DEF Tiling
    <2>5. QED
      BY <2>1, <2>2, <2>4
  <1>4. \A o \in O : \A u \in Unit : Has(o, u) => u \in gone \/ \E n \in N : Has(n, u)
    BY <1>1, Bounds
  <1>5. \A u \in gone :
          \/ u \in gone
          \/ (\E o \in O : Has(o, u)) /\ (\A n \in N : ~Has(n, u))
    OBVIOUS
  <1>6. O \in SUBSET P /\ gone \in SUBSET Unit /\ Tiling(P, gone)
    OBVIOUS
  <1>7. QED
    BY ONLY <1>2, <1>3, <1>4, <1>5, <1>6, Renew, Zenon

\* merge: the whole free list of the level becomes the detached list.
LEMMA SwapTiles ==
  ASSUME IInv, ~collected, NEW p \in Proc, SwapFreeList(p)
  PROVE  StaysTiled
  <1>1. TypeOK /\ Control /\ Tiling(Pieces, lost) /\ Fit(Pieces)
    BY DEF IInv
  <1> DEFINE l == mlev[p]
             O == {x \in FreePieces : x[3] = l}
             N == {x \in Piece : x[1] = "merge" /\ x[2] \in free_list[l] /\ x[3] = l}
  <1>2. /\ l \in Level /\ l < MaxLevel /\ current_merge_level = l
        /\ chain = {} /\ merge_status = DEFAULT
    BY <1>1 DEF SwapFreeList, TypeOK, Level, Control, Levels, Chained, Recorded, MergePC
  <1>3. lost' = lost /\ lost \in SUBSET Unit
    BY <1>1 DEF SwapFreeList, history, TypeOK
  <1>4. merge_status' = merge_status /\ current_merge_level' = current_merge_level
    BY DEF SwapFreeList, header
  <1>5. UsedPieces' = UsedPieces /\ HandPieces' = HandPieces
    BY Same DEF SwapFreeList
  <1>6. MergePieces = {} /\ MergePieces' = ChainPieces'
    BY <1>2, <1>4 DEF MergePieces, ChainPieces, DEFAULT, FREELIST_COMPLETED
  <1>7. Piece' = Piece
    BY DEF Piece, Place, Unit, Beyond, Level
  <1>8. CASE chain' = chain /\ free_list' = free_list
    <2>1. FreePieces' = FreePieces /\ MergePieces' = MergePieces
      BY <1>2, <1>4, <1>6, <1>7, <1>8, Same DEF ChainPieces
    <2>2. Pieces' = Pieces
      BY <1>5, <2>1, Same DEF Pieces
    <2>3. QED
      BY <1>1, <1>3, <2>2 DEF StaysTiled
  <1>9. CASE chain' = free_list[l] /\ free_list' = [free_list EXCEPT ![l] = {}]
    <2>1. FreePieces' = FreePieces \ O
      BY <1>1, <1>2, <1>7, <1>9 DEF FreePieces, TypeOK, Piece
    <2>2. MergePieces' = N
      BY <1>2, <1>4, <1>6, <1>7, <1>9 DEF ChainPieces
    <2>3. Pieces' = (Pieces \ O) \cup N
      BY <1>5, <1>6, <2>1, <2>2, Same, Kinds DEF Pieces
    <2>4. O \in SUBSET Pieces
      BY DEF Pieces
    <2>5. ASSUME NEW n \in N
          PROVE  \E x \in O : x[2] = n[2] /\ x[3] = n[3]
      <3>1. <<"free", n[2], l>> \in Piece
        BY <1>2, Tuples DEF Piece, Place
      <3>2. <<"free", n[2], l>> \in O
        BY <3>1 DEF FreePieces
      <3>3. QED
        BY <3>2
    <2>6. ASSUME NEW x \in O
          PROVE  \E n \in N : x[2] = n[2] /\ x[3] = n[3]
      <3>1. <<"merge", x[2], l>> \in Piece
        BY <1>2, Tuples DEF Piece, Place, FreePieces
      <3>2. <<"merge", x[2], l>> \in N
        BY <3>1 DEF FreePieces
      <3>3. QED
        BY <3>2
    <2>7. \A n, m \in N : n[2] = m[2] /\ n[3] = m[3] => n = m
      BY Tuples
    <2> HIDE DEF O, N
    <2>8. Tiling((Pieces \ O) \cup N, lost)
      BY <1>1, <1>3, <2>4, <2>5, <2>6, <2>7, MoveAll
    <2>9. Fit((Pieces \ O) \cup N)
      BY <1>1, <2>4, <2>5 DEF Fit
    <2>10. QED
      BY <1>3, <2>3, <2>8, <2>9 DEF StaysTiled
  <1>10. QED
    BY <1>8, <1>9 DEF SwapFreeList

\* merge: a chunk of the lists built goes to the hand of the merger.
LEMMA PostTiles ==
  ASSUME IInv, ~collected, NEW p \in Proc, NEW u \in Unit, PopPost(p, u)
  PROVE  StaysTiled
  <1>1. TypeOK /\ Control /\ Tiling(Pieces, lost) /\ Fit(Pieces)
    BY DEF IInv
  <1> DEFINE l == IF pc[p] = "m_next" THEN mlev[p] + 1 ELSE mlev[p]
             x == <<"merge", u, l>>
             y == <<"hand", u, l>>
  <1>2. pc[p] \in {"m_next", "m_rest"}
    BY DEF PopPost
  <1>3. /\ merge_status = FREELIST_COMPLETED /\ current_merge_level = mlev[p]
        /\ hand[p] = NoChunk
    BY <1>1, <1>2 DEF Control, Recorded, Levels, Listed, Holding
  <1>4. mlev[p] \in 0 .. MaxLevel - 1
    <2>1. current_merge_level \in -1 .. MaxLevel - 1
      BY <1>1 DEF TypeOK
    <2>2. current_merge_level # -1
      <3>1. merge_status = FREELIST_COMPLETED /\ current_merge_level = -1
              => post_merge_level = {} /\ post_merge_next_level = {}
        BY <1>1 DEF Control, Posted
      <3>2. post_merge_next_level # {} \/ post_merge_level # {}
        BY DEF PopPost
      <3>3. QED
        BY <1>3, <3>1, <3>2
    <2>3. QED
      BY <1>3, <2>1, <2>2, ZoneAssumption
  <1>5. l \in Level /\ mlev[p] # mlev[p] + 1
    BY <1>4, Bounds DEF Level
  <1>6. Take(p, <<u, l>>)
    BY DEF PopPost
  <1>7. HandPieces' = HandPieces \cup {y}
    BY <1>1, <1>3, <1>5, <1>6, TakePieces
  <1>8. /\ FreePieces' = FreePieces /\ UsedPieces' = UsedPieces
        /\ lost' = lost /\ lost \in SUBSET Unit
        /\ merge_status' = merge_status /\ current_merge_level' = current_merge_level
    BY <1>1, Same DEF PopPost, history, header, TypeOK
  <1>9. x \in Piece
    BY <1>5, Tuples DEF Place
  <1>10. x \in PostPieces
    BY <1>2, <1>3, <1>9 DEF PopPost, PostPieces
  <1>11. MergePieces = PostPieces /\ MergePieces' = PostPieces'
    BY <1>3, <1>8 DEF MergePieces
  <1>12. PostPieces' = PostPieces \ {x}
    <2>1. Piece' = Piece
      BY DEF Piece, Place, Unit, Beyond, Level
    <2>2. CASE pc[p] = "m_next"
      <3>1. /\ post_merge_next_level' = post_merge_next_level \ {u}
            /\ post_merge_level' = post_merge_level
            /\ l = current_merge_level + 1
        BY <1>3, <2>2 DEF PopPost
      <3>2. QED
        BY <1>3, <1>4, <1>5, <1>8, <2>1, <3>1, Tuples DEF PostPieces
    <2>3. CASE pc[p] = "m_rest"
      <3>1. /\ post_merge_level' = post_merge_level \ {u}
            /\ post_merge_next_level' = post_merge_next_level
            /\ l = current_merge_level
        BY <1>3, <2>3 DEF PopPost
      <3>2. QED
        BY <1>3, <1>4, <1>5, <1>8, <2>1, <3>1, Tuples DEF PostPieces
    <2>4. QED
      BY <1>2, <2>2, <2>3
  <1>13. Pieces' = (Pieces \ {x}) \cup {y} /\ x \in Pieces
    BY <1>7, <1>8, <1>10, <1>11, <1>12, Same, Kinds DEF Pieces
  <1>14. y = <<"hand", x[2], x[3]>> /\ "hand" \in Place
    BY DEF Place
  <1> HIDE DEF x, y
  <1>15. QED
    BY <1>1, <1>8, <1>13, <1>14, MoveFit

\* The bits of a merge are the numbers of the detached chunks.
LEMMA MergeBits ==
  ASSUME IInv, ~collected, merge_status = BITMAP_COMPLETED
  PROVE  LET l == current_merge_level
         IN  /\ l \in 0 .. 8 /\ l \in Level /\ l + 1 \in Level
             /\ \A u \in chain : u % Size(l) = 0 /\ u \div Size(l) \in bitmap /\ (u \div Size(l)) * Size(l) = u
             /\ \A j \in bitmap : j \in Unit /\ j * Size(l) \in chain
             /\ \A u \in chain : <<"merge", u, l>> \in ChainPieces
             /\ \A x \in ChainPieces : x = <<"merge", x[2], l>> /\ x[2] \in chain
             /\ MergePieces = ChainPieces
  <1> DEFINE l == current_merge_level
  <1>1. TypeOK /\ Control /\ Fit(Pieces)
    BY DEF IInv
  <1>2. l \in 0 .. MaxLevel - 1 /\ l \in 0 .. 8 /\ l \in Level /\ l + 1 \in Level
    BY <1>1, Bounds DEF TypeOK, Control, Levels, Level
  <1>3. MergePieces = ChainPieces
    BY DEF MergePieces, FREELIST_COMPLETED, BITMAP_COMPLETED
  <1>4. chain \subseteq Unit /\ chain \subseteq Nat
    BY <1>1, Bounds DEF TypeOK
  <1>5. \A u \in chain : <<"merge", u, l>> \in ChainPieces
    BY <1>2, <1>4, Tuples DEF ChainPieces, Place
  <1>6. \A x \in ChainPieces : x = <<"merge", x[2], l>> /\ x[2] \in chain
    BY Tuples DEF ChainPieces
  <1>7. \A u \in chain : u % Size(l) = 0
    <2>1. ChainPieces \subseteq Pieces
      BY <1>3 DEF Pieces
    <2>2. QED
      BY <1>1, <1>5, <2>1 DEF Fit
  <1>8. bitmap = {u \div Size(l) : u \in chain}
    BY DEF IInv, Marked, Shown
  <1>9. \A u \in chain : u \div Size(l) \in bitmap
    BY <1>8
  <1>10. \A u \in chain : (u \div Size(l)) * Size(l) = u
    BY <1>2, <1>4, <1>7, Multiples
  <1>11. ASSUME NEW j \in bitmap
         PROVE  j \in Unit /\ j * Size(l) \in chain
    <2>1. PICK u \in chain : j = u \div Size(l)
      BY <1>8
    <2>2. u \in Nat /\ u < Size(MaxLevel) /\ j \in Nat /\ j <= u
      BY <1>2, <1>4, <2>1, Bounds, Multiples
    <2>3. j \in Unit
      BY <2>2, Bounds
    <2>4. QED
      BY <1>10, <2>1, <2>3
  <1>12. QED
    BY <1>2, <1>3, <1>5, <1>6, <1>7, <1>9, <1>10, <1>11

\* When every pair is on a list, the lists hold what was detached.
LEMMA BuildTiles ==
  ASSUME IInv, ~collected, NEW p \in Proc, PairsLeft(p) = {},
         SetStatus(p, "m_pairs", "m_next", FREELIST_COMPLETED)
  PROVE  StaysTiled
  <1> DEFINE l == current_merge_level
             S == Size(l)
             O == ChainPieces
             N == PostPieces
  <1>1. TypeOK /\ Control /\ Tiling(Pieces, lost) /\ Fit(Pieces)
    BY DEF IInv
  <1>2. pc[p] = "m_pairs" /\ mlev[p] = l /\ merge_status = BITMAP_COMPLETED /\ Paired
    BY <1>1 DEF SetStatus, Control, Levels, Recorded, Posted, Detached
  <1>3. /\ l \in 0 .. 8 /\ l \in Level /\ l + 1 \in Level
        /\ \A u \in chain : u % S = 0 /\ u \div S \in bitmap /\ (u \div S) * S = u
        /\ \A j \in bitmap : j \in Unit /\ j * S \in chain
        /\ \A u \in chain : <<"merge", u, l>> \in ChainPieces
        /\ \A x \in ChainPieces : x = <<"merge", x[2], l>> /\ x[2] \in chain
        /\ MergePieces = ChainPieces
    BY <1>2, MergeBits
  <1>4. /\ S \in Nat /\ S > 0 /\ Size(l + 1) = 2 * S
        /\ chain \subseteq Unit /\ Unit \subseteq Nat
    BY <1>1, <1>3, Sizes, Bounds DEF TypeOK
  <1>5. /\ \A i \in Nat : (i + 1) * S = i * S + S /\ i * S \in Nat /\ (i * S) % S = 0 /\ (i * S) \div S = i
        /\ \A i \in Nat : i % 2 = 0 => (i * S) % Size(l + 1) = 0
    BY <1>3, Multiples
  <1>6. ASSUME NEW n \in N
        PROVE  \/ /\ n[3] = l /\ n = <<"merge", n[2], l>>
                  /\ \E j \in bitmap : /\ n[2] = j * S
                                       /\ j % 2 = 0 => j + 1 \notin bitmap
                                       /\ j % 2 = 1 => j - 1 \notin bitmap
               \/ /\ n[3] = l + 1 /\ n = <<"merge", n[2], l + 1>>
                  /\ \E i \in Unit : i % 2 = 0 /\ {i, i + 1} \subseteq bitmap /\ n[2] = i * S
    <2>1. n = <<"merge", n[2], n[3]>>
      BY Tuples DEF PostPieces
    <2>2. QED
      BY <1>2, <2>1 DEF PostPieces, Paired
  <1>7. ASSUME NEW n \in N
        PROVE  n[2] \in chain /\ (n[3] = l + 1 => n[2] + S \in chain /\ n[2] % Size(l + 1) = 0)
    <2>1. l # l + 1
      BY <1>3
    <2>2. CASE n[3] = l
      BY <1>3, <1>6, <2>1, <2>2
    <2>3. CASE n[3] = l + 1
      <3>1. PICK i \in Unit : i % 2 = 0 /\ {i, i + 1} \subseteq bitmap /\ n[2] = i * S
        BY <1>6, <2>1, <2>3
      <3>2. i \in Nat
        BY <1>4
      <3>3. i * S \in chain /\ (i + 1) * S \in chain
        BY <1>3, <3>1
      <3>4. (i + 1) * S = i * S + S /\ (i * S) % Size(l + 1) = 0
        BY <1>5, <3>1, <3>2
      <3>5. QED
        BY <3>1, <3>3, <3>4
    <2>4. QED
      BY <1>6, <2>2, <2>3
  <1>8. ASSUME NEW n \in N, NEW u \in Nat, Has(n, u)
        PROVE  \E x \in O : Has(x, u)
    <2>1. CASE n[3] = l
      <3>1. <<"merge", n[2], l>> \in O
        BY <1>3, <1>7
      <3>2. Has(<<"merge", n[2], l>>, u)
        BY <1>8, <2>1 DEF Has
      <3>3. QED
        BY <3>1, <3>2
    <2>2. CASE n[3] = l + 1
      <3>1. <<"merge", n[2], l>> \in O /\ <<"merge", n[2] + S, l>> \in O /\ n[2] \in Nat
        BY <1>3, <1>4, <1>7, <2>2
      <3>2. n[2] <= u /\ u < n[2] + 2 * S
        BY <1>4, <1>8, <2>2 DEF Has
      <3>3. Has(<<"merge", n[2], l>>, u) \/ Has(<<"merge", n[2] + S, l>>, u)
        BY <1>4, <3>1, <3>2 DEF Has
      <3>4. QED
        BY <3>1, <3>3
    <2>3. QED
      BY <1>6, <2>1, <2>2
  <1>9. ASSUME NEW n \in N, NEW m \in N, NEW u \in Nat, n[3] = l, m[3] = l + 1, Has(n, u), Has(m, u)
        PROVE  FALSE
    <2>1. PICK j \in bitmap : /\ n[2] = j * S
                              /\ j % 2 = 0 => j + 1 \notin bitmap
                              /\ j % 2 = 1 => j - 1 \notin bitmap
      BY <1>3, <1>6, <1>9
    <2>2. PICK i \in Unit : i % 2 = 0 /\ {i, i + 1} \subseteq bitmap /\ m[2] = i * S
      BY <1>3, <1>6, <1>9
    <2>3. j \in Nat /\ i \in Nat /\ j * S \in Nat /\ i * S \in Nat
      BY <1>3, <1>4, <1>5, <2>2
    <2>4. j * S <= u /\ u < j * S + S /\ i * S <= u /\ u < i * S + 2 * S
      BY <1>4, <1>9, <2>1, <2>2 DEF Has
    <2>5. /\ j * S = i * S \/ j * S + S <= i * S \/ i * S + S <= j * S
          /\ j * S = i * S + S \/ j * S + S <= i * S + S \/ i * S + 2 * S <= j * S
      <3>1. l \in 0 .. 9 /\ (j * S) % S = 0 /\ (i * S) % S = 0
        BY <1>3, <1>5, <2>3
      <3>2. i * S + S \in Nat /\ (i * S + S) % S = 0
        BY <1>4, <1>5, <2>3
      <3>3. j * S = i * S \/ j * S + S <= i * S \/ i * S + S <= j * S
        BY <2>3, <3>1, Grid
      <3>4. j * S = i * S + S \/ j * S + S <= i * S + S \/ (i * S + S) + S <= j * S
        BY <2>3, <3>1, <3>2, Grid
      <3>5. QED
        BY <1>4, <2>3, <3>3, <3>4
    <2>6. j * S = i * S \/ j * S = i * S + S
      BY <1>4, <2>3, <2>4, <2>5
    <2>7. j = i \/ j = i + 1
      BY <1>5, <2>3, <2>6
    <2>8. QED
      BY <2>1, <2>2, <2>3, <2>7
  <1>10. ASSUME NEW n \in N, NEW m \in N, NEW u \in Nat, Has(n, u), Has(m, u)
         PROVE  n = m
    <2>1. CASE n[3] = l /\ m[3] = l
      <3>1. n[2] \in chain /\ m[2] \in chain
        BY <1>7
      <3>2. n[2] \in Nat /\ m[2] \in Nat /\ n[2] % S = 0 /\ m[2] % S = 0
        BY <1>3, <1>4, <3>1
      <3>3. l \in 0 .. 9
        BY <1>3
      <3>4. n[2] = m[2] \/ n[2] + S <= m[2] \/ m[2] + S <= n[2]
        BY <3>2, <3>3, Grid
      <3>5. n[2] = m[2]
        BY <1>4, <1>10, <2>1, <3>2, <3>4 DEF Has
      <3>6. l # l + 1
        BY <1>3
      <3>7. QED
        BY <1>6, <2>1, <3>5, <3>6
    <2>2. CASE n[3] = l + 1 /\ m[3] = l + 1
      <3>1. /\ n[2] \in chain /\ m[2] \in chain
            /\ n[2] % Size(l + 1) = 0 /\ m[2] % Size(l + 1) = 0
        BY <1>7, <2>2
      <3>2. n[2] \in Nat /\ m[2] \in Nat
        BY <1>4, <3>1
      <3>3. l + 1 \in 0 .. 9 /\ l # l + 1
        BY <1>3
      <3>4. n[2] = m[2] \/ n[2] + Size(l + 1) <= m[2] \/ m[2] + Size(l + 1) <= n[2]
        BY <3>1, <3>2, <3>3, Grid
      <3>5. n[2] = m[2]
        BY <1>4, <1>10, <2>2, <3>2, <3>4 DEF Has
      <3>6. QED
        BY <1>6, <2>2, <3>3, <3>5
    <2>3. QED
      BY <1>6, <1>9, <1>10, <2>1, <2>2
  <1>11. ASSUME NEW x \in O
         PROVE  \E n \in N : \A u \in Nat : Has(x, u) => Has(n, u)
    <2> DEFINE v == x[2]
               j == v \div S
               i == IF j % 2 = 0 THEN j ELSE j - 1
    <2>1. v \in chain /\ j \in bitmap /\ j * S = v /\ j \in Unit /\ j \in Nat /\ x[3] = l /\ v \in Nat
      <3>1. x = <<"merge", x[2], l>> /\ x[2] \in chain
        BY <1>3
      <3>2. x[3] = l
        BY <3>1
      <3>3. j \in bitmap /\ j * S = v
        BY <1>3, <3>1
      <3>4. j \in Unit
        BY <1>3, <3>3
      <3>5. QED
        BY <1>4, <3>1, <3>2, <3>3, <3>4
    <2>2. i \in Nat /\ i \in Unit /\ i % 2 = 0 /\ (j = i \/ j = i + 1)
      <3>1. j % 2 = 0 \/ j % 2 = 1
        BY <2>1
      <3>2. j % 2 = 1 => j - 1 \in Nat /\ (j - 1) % 2 = 0
        BY <2>1
      <3>3. i \in Nat /\ i <= j /\ i % 2 = 0 /\ (j = i \/ j = i + 1)
        BY <2>1, <3>1, <3>2
      <3>4. QED
        BY <2>1, <3>3, Bounds
    <2> HIDE DEF i, j, v
    <2>3. PICK k \in {i, i + 1} : k * S \in post_merge_level \cup post_merge_next_level
      <3>1. i \notin PairsLeft(p)
        OBVIOUS
      <3>2. {i, i + 1} \cap bitmap # {}
        BY <2>1, <2>2
      <3>3. QED
        BY <1>2, <2>2, <3>1, <3>2 DEF PairsLeft
    <2>4. k \in Nat /\ (j = k \/ j = k + 1 \/ j = k - 1)
      BY <2>2
    <2>5. CASE k * S \in post_merge_next_level
      <3>1. PICK h \in Unit : h % 2 = 0 /\ {h, h + 1} \subseteq bitmap /\ k * S = h * S
        BY <1>2, <2>5 DEF Paired
      <3>2. h \in Nat /\ k = h
        BY <1>4, <1>5, <2>4, <3>1
      <3>3. k = i
        BY <2>2, <3>1, <3>2
      <3>4. i * S \in post_merge_next_level /\ i * S \in Nat
        BY <1>5, <2>2, <2>5, <3>3
      <3>5. i * S \in Unit
        BY <1>1, <3>4 DEF TypeOK
      <3>6. <<"merge", i * S, l + 1>> \in N
        BY <1>3, <3>4, <3>5, Tuples DEF PostPieces, Place
      <3>7. v = i * S \/ v = i * S + S
        BY <1>5, <2>1, <2>2
      <3>8. \A u \in Nat : Has(x, u) => Has(<<"merge", i * S, l + 1>>, u)
        <4>1. x[2] = i * S \/ x[2] = i * S + S
          BY <3>7 DEF v
        <4>2. QED
          BY <1>4, <2>1, <3>4, <4>1 DEF Has
      <3>9. QED
        BY <3>6, <3>8
    <2>6. CASE k * S \in post_merge_level
      <3>1. PICK h \in bitmap : /\ k * S = h * S
                                /\ h % 2 = 0 => h + 1 \notin bitmap
                                /\ h % 2 = 1 => h - 1 \notin bitmap
        BY <1>2, <2>6 DEF Paired
      <3>2. h \in Nat /\ k = h
        BY <1>3, <1>4, <1>5, <2>4, <3>1
      <3>3. k = j
        <4>1. CASE k = i
          BY <2>1, <2>2, <3>1, <3>2, <4>1
        <4>2. CASE k = i + 1
          <5>1. k % 2 = 1 /\ k - 1 = i
            BY <2>2, <4>2
          <5>2. QED
            BY <2>1, <2>2, <3>1, <3>2, <4>2, <5>1
        <4>3. QED
          BY <4>1, <4>2
      <3>4. x[2] \in post_merge_level /\ x[2] \in Unit
        BY <1>4, <2>1, <2>6, <3>3 DEF v
      <3>5. <<"merge", x[2], l>> \in N
        BY <1>3, <3>4, Tuples DEF PostPieces, Place
      <3>6. \A u \in Nat : Has(x, u) => Has(<<"merge", x[2], l>>, u)
        BY <2>1 DEF Has
      <3>7. QED
        BY <3>5, <3>6
    <2>7. QED
      BY <2>3, <2>5, <2>6
  <1>12. \A o \in O : \A u \in Unit : Has(o, u) => u \in lost \/ \E n \in N : Has(n, u)
    BY <1>4, <1>11
  <1>13. \A u \in lost :
          \/ u \in lost
          \/ (\E o \in O : Has(o, u)) /\ (\A n \in N : ~Has(n, u))
    OBVIOUS
  <1>14. O \in SUBSET Pieces /\ lost \in SUBSET Unit /\ Tiling(Pieces, lost)
    BY <1>1, <1>3 DEF Pieces, TypeOK
  <1>15. Tiling((Pieces \ O) \cup N, lost)
    BY ONLY <1>8, <1>10, <1>12, <1>13, <1>14, Renew, Zenon
  <1>16. Fit((Pieces \ O) \cup N)
    BY <1>1, <1>3, <1>4, <1>6, <1>7 DEF Fit
  <1>17. /\ FreePieces' = FreePieces /\ UsedPieces' = UsedPieces /\ HandPieces' = HandPieces
         /\ PostPieces' = PostPieces /\ lost' = lost
    BY Same DEF SetStatus, merging, history
  <1>18. MergePieces' = N
    BY <1>17 DEF SetStatus, MergePieces
  <1>19. Pieces' = (Pieces \ O) \cup N
    BY <1>3, <1>17, <1>18, Same, Kinds DEF Pieces
  <1>20. QED
    BY <1>15, <1>16, <1>17, <1>19 DEF StaysTiled

\* A process that dies loses the chunk in its hand, and nothing else.
LEMMA DieTiles ==
  ASSUME IInv, ~collected, NEW p \in Proc, Die(p)
  PROVE  StaysTiled /\ lost' \in SUBSET Unit
  <1>1. TypeOK /\ Control /\ Tiling(Pieces, lost) /\ Fit(Pieces) /\ lost \in SUBSET Unit
    BY DEF IInv, TypeOK
  <1>2. /\ FreePieces' = FreePieces /\ UsedPieces' = UsedPieces /\ MergePieces' = MergePieces
    BY Same DEF Die, header, merging
  <1>3. Take(p, NoChunk)
    BY DEF Die
  <1>4. CASE hand[p] = NoChunk
    <2>1. hand' = hand
      BY <1>1, <1>3, <1>4 DEF Take, TypeOK
    <2>2. Pieces' = Pieces /\ lost' = lost
      BY <1>2, <1>4, <2>1, Same DEF Pieces, Die
    <2>3. QED
      BY <1>1, <2>2 DEF StaysTiled
  <1>5. CASE hand[p] # NoChunk
    <2>1. PICK u \in Unit, l \in Level :
            /\ hand[p] = <<u, l>> /\ hand[p][1] = u /\ hand[p][2] = l
            /\ <<"hand", u, l>> \in HandPieces /\ <<"hand", u, l>> \in Pieces
            /\ u % Size(l) = 0
      BY <1>5, InHand
    <2> DEFINE x == <<"hand", u, l>>
               O == {x}
    <2>2. HandPieces' = HandPieces \ {x}
      BY <1>1, <1>3, <2>1, DropPieces DEF Control
    <2>3. Pieces' = Pieces \ O
      BY <1>2, <2>2, Same, Kinds DEF Pieces
    <2>4. lost' = lost \cup Units(<<u, l>>)
      BY <1>5, <2>1 DEF Die
    <2>5. \A v \in Unit : v \in Units(<<u, l>>) <=> \E o \in O : Has(o, v)
      <3>1. u \in Nat /\ Size(l) \in Nat /\ Unit \subseteq Nat
        BY Bounds, Sizes
      <3>2. \A v \in Unit : v \in Units(<<u, l>>) <=> Has(x, v)
        BY <3>1 DEF Units, Has
      <3>3. QED
        BY <3>2
    <2>6. lost' \in SUBSET Unit
      <3>1. u + Size(l) <= Size(MaxLevel) /\ u \in Nat /\ Size(l) \in Nat
        BY <2>1, Inside, Bounds, Sizes
      <3>2. Units(<<u, l>>) \subseteq Unit
        BY <3>1, Bounds DEF Units
      <3>3. QED
        BY <1>1, <2>4, <3>2
    <2>7. O \in SUBSET Pieces
      BY <2>1
    <2>8. \A v \in Unit : v \in lost' <=> v \in lost \/ \E o \in O : Has(o, v)
      BY <2>4, <2>5
    <2> HIDE DEF O
    <2>9. Tiling(Pieces \ O, lost')
      <3>1. \A more \in SUBSET Unit :
               (\A v \in Unit : v \in more <=> v \in lost \/ \E o \in O : Has(o, v))
                 => Tiling(Pieces \ O, more)
        BY <1>1, <2>7, Lose, Zenon
      <3>2. QED
        BY <2>6, <2>8, <3>1
    <2>10. QED
      BY <1>1, <2>3, <2>6, <2>9 DEF StaysTiled, Fit
  <1>6. QED
    BY <1>4, <1>5

\* merge_crash_recovery: resuming a merge moves no chunk; giving one up before
\* the swap was recorded loses the detached list.
LEMMA RecoverTiles ==
  ASSUME IInv, ~collected, NEW p \in Proc, RecoverMerge(p)
  PROVE  StaysTiled /\ lost' \in SUBSET Unit
  <1>1. TypeOK /\ Control /\ Tiling(Pieces, lost) /\ Fit(Pieces) /\ lost \in SUBSET Unit
    BY DEF IInv, TypeOK
  <1>2. /\ FreePieces' = FreePieces /\ UsedPieces' = UsedPieces /\ HandPieces' = HandPieces
        /\ merge_status' = merge_status /\ current_merge_level' = current_merge_level
        /\ PostPieces' = PostPieces
    BY Same DEF RecoverMerge, header
  <1>3. CASE ResumeAt # "m_leave"
    <2>1. MergePieces' = MergePieces /\ lost' = lost
      BY <1>2, <1>3, Same DEF RecoverMerge
    <2>2. Pieces' = Pieces
      BY <1>2, <2>1, Same DEF Pieces
    <2>3. QED
      BY <1>1, <2>1, <2>2 DEF StaysTiled
  <1>4. CASE ResumeAt = "m_leave"
    <2> DEFINE l == current_merge_level
               O == ChainPieces
    <2>1. merge_status = DEFAULT /\ l # -1
      <3>1. CASE merge_status = DEFAULT
        BY <1>4, <3>1 DEF ResumeAt, ResumeDefault
      <3>2. CASE merge_status \in {1, 2, 3}
        BY <1>4, <3>2 DEF ResumeAt, DEFAULT
      <3>3. QED
        BY <1>1, <3>1, <3>2 DEF TypeOK, DEFAULT, FREELIST_COMPLETED
    <2>2. l \in Level /\ chain \subseteq Unit /\ Size(l) \in Nat /\ Unit \subseteq Nat
      <3>1. l \in Level /\ chain \subseteq Unit
        BY <1>1, <2>1, Bounds DEF TypeOK, Level
      <3>2. l \in 0 .. 9
        BY <3>1, Bounds
      <3>3. QED
        BY <3>1, <3>2, Bounds, Sizes
    <2>3. MergePieces = O
      BY <2>1 DEF MergePieces, DEFAULT, FREELIST_COMPLETED
    <2>4. MergePieces' = {}
      <3>1. chain' = {}
        BY <1>4 DEF RecoverMerge
      <3>2. QED
        BY <1>2, <2>1, <3>1 DEF MergePieces, ChainPieces, DEFAULT, FREELIST_COMPLETED
    <2>5. Pieces' = Pieces \ O
      BY <1>2, <2>3, <2>4, Same, Kinds DEF Pieces
    <2>6. lost' = lost \cup UNION {Units(<<u, l>>) : u \in chain}
      BY <1>4 DEF RecoverMerge
    <2>7. \A u \in chain, v \in Nat : v \in Units(<<u, l>>) <=> Has(<<"merge", u, l>>, v)
      BY <2>2 DEF Units, Has
    <2>8. \A u \in chain : <<"merge", u, l>> \in O
      BY <2>2, Tuples DEF ChainPieces, Place
    <2>9. \A x \in O : x = <<"merge", x[2], l>> /\ x[2] \in chain
      BY Tuples DEF ChainPieces
    <2>10. O \in SUBSET Pieces
      BY <2>3 DEF Pieces
    <2>11. \A v \in Unit : v \in lost' <=> v \in lost \/ \E o \in O : Has(o, v)
      BY <2>2, <2>6, <2>7, <2>8, <2>9
    <2>12. lost' \in SUBSET Unit
      <3>1. ASSUME NEW u \in chain
            PROVE  Units(<<u, l>>) \subseteq Unit
        <4>1. u % Size(l) = 0
          BY <1>1, <2>8, <2>10 DEF Fit
        <4>2. u + Size(l) <= Size(MaxLevel) /\ u \in Nat
          BY <2>2, <4>1, Inside
        <4>3. QED
          BY <2>2, <4>2, Bounds DEF Units
      <3>2. QED
        BY <1>1, <2>6, <3>1
    <2> HIDE DEF O
    <2>13. Tiling(Pieces \ O, lost')
      <3>1. \A more \in SUBSET Unit :
               (\A v \in Unit : v \in more <=> v \in lost \/ \E o \in O : Has(o, v))
                 => Tiling(Pieces \ O, more)
        BY <1>1, <2>10, Lose, Zenon
      <3>2. QED
        BY <2>11, <2>12, <3>1
    <2>14. QED
      BY <1>1, <2>5, <2>12, <2>13 DEF StaysTiled, Fit
  <1>5. QED
    BY <1>3, <1>4

\* A merge writes to the header where that moves no chunk.
LEMMA HeaderTiles ==
  ASSUME IInv, ~collected, NEW p \in Proc,
         \/ SetMergeLevel(p)
         \/ SetStatus(p, "m_swapped", "m_bitmap", SWAP_COMPLETED)
         \/ SetStatus(p, "m_marked", "m_reset", BITMAP_COMPLETED)
         \/ SetStatus(p, "m_status_off", "m_leave", DEFAULT)
         \/ ResetPostMerge(p) \/ MergePair(p) \/ ClearMerge(p) \/ ResetMergeLevel(p)
  PROVE  StaysTiled
  <1>1. TypeOK /\ Control /\ Tiling(Pieces, lost) /\ Fit(Pieces)
    BY DEF IInv
  <1>2. /\ UNCHANGED free_list /\ UNCHANGED entry /\ UNCHANGED hand /\ lost' = lost
    BY DEF SetMergeLevel, SetStatus, ResetPostMerge, MergePair, ClearMerge, ResetMergeLevel, merging, header,
           local, history
  <1>3. MergePieces' = MergePieces
    <2>1. DEFAULT # FREELIST_COMPLETED /\ SWAP_COMPLETED # FREELIST_COMPLETED /\ BITMAP_COMPLETED # FREELIST_COMPLETED
      BY DEF DEFAULT, SWAP_COMPLETED, BITMAP_COMPLETED, FREELIST_COMPLETED
    <2>2. CASE SetMergeLevel(p)
      <3>1. merge_status = DEFAULT /\ chain = {} /\ merge_status' = merge_status /\ chain' = chain
        BY <1>1, <2>2 DEF SetMergeLevel, Control, Recorded, Chained, merging
      <3>2. QED
        BY <2>1, <3>1 DEF MergePieces, ChainPieces
    <2>3. CASE SetStatus(p, "m_swapped", "m_bitmap", SWAP_COMPLETED)
      <3>1. merge_status = DEFAULT /\ merge_status' = SWAP_COMPLETED /\ ChainPieces' = ChainPieces
        BY <1>1, <2>3, Same DEF SetStatus, Control, Recorded, merging
      <3>2. QED
        BY <2>1, <3>1 DEF MergePieces
    <2>4. CASE SetStatus(p, "m_marked", "m_reset", BITMAP_COMPLETED)
      <3>1. merge_status = SWAP_COMPLETED /\ merge_status' = BITMAP_COMPLETED /\ ChainPieces' = ChainPieces
        BY <1>1, <2>4, Same DEF SetStatus, Control, Recorded, merging
      <3>2. QED
        BY <2>1, <3>1 DEF MergePieces
    <2>5. CASE SetStatus(p, "m_status_off", "m_leave", DEFAULT)
      <3>1. /\ merge_status = FREELIST_COMPLETED /\ merge_status' = DEFAULT
            /\ chain = {} /\ post_merge_level = {} /\ post_merge_next_level = {}
            /\ chain' = chain
        BY <1>1, <2>5 DEF SetStatus, Control, Recorded, Chained, Posted, merging
      <3>2. QED
        BY <2>1, <3>1 DEF MergePieces, ChainPieces, PostPieces
    <2>6. CASE ResetPostMerge(p) \/ MergePair(p)
      <3>1. merge_status = BITMAP_COMPLETED /\ merge_status' = merge_status /\ ChainPieces' = ChainPieces
        BY <1>1, <2>6, Same DEF ResetPostMerge, MergePair, Control, Recorded, header
      <3>2. QED
        BY <2>1, <3>1 DEF MergePieces
    <2>7. CASE ClearMerge(p)
      <3>1. merge_status = FREELIST_COMPLETED /\ merge_status' = merge_status /\ PostPieces' = PostPieces
        BY <1>1, <2>7, Same DEF ClearMerge, Control, Recorded, Listed, header
      <3>2. QED
        BY <3>1 DEF MergePieces
    <2>8. CASE ResetMergeLevel(p)
      <3>1. /\ merge_status = FREELIST_COMPLETED /\ merge_status' = merge_status
            /\ post_merge_level = {} /\ post_merge_next_level = {}
            /\ post_merge_level' = {} /\ post_merge_next_level' = {}
        BY <1>1, <2>8 DEF ResetMergeLevel, Control, Recorded, Listed, Posted, merging
      <3>2. QED
        BY <3>1 DEF MergePieces, PostPieces
    <2>9. QED
      BY <2>2, <2>3, <2>4, <2>5, <2>6, <2>7, <2>8
  <1>4. Pieces' = Pieces
    BY <1>2, <1>3, Same DEF Pieces
  <1>5. QED
    BY <1>1, <1>2, <1>4 DEF StaysTiled

\* The other steps move no chunk.
LEMMA QuietTiles ==
  ASSUME UNCHANGED <<free_list, entry, hand, lost>>,
         UNCHANGED <<merge_status, current_merge_level, chain, post_merge_level, post_merge_next_level>>
  PROVE  Pieces' = Pieces
  BY Same DEF Pieces

-----------------------------------------------------------------------------
(* Garbage collection *)

\* Chunks that cover no unit of a piece take the place of lost units.
LEMMA Regain ==
  ASSUME NEW P, NEW N, NEW gone \in SUBSET Unit, NEW less \in SUBSET Unit,
         Tiling(P, gone),
         \A n \in N : \A x \in P : \A u \in Nat : ~(Has(n, u) /\ Has(x, u)),
         \A n, m \in N : \A u \in Nat : Has(n, u) /\ Has(m, u) => n = m,
         \A u \in Unit : u \in less <=> u \in gone /\ \A n \in N : ~Has(n, u)
  PROVE  Tiling(P \cup N, less)
  <1> DEFINE Q == P \cup N
  <1>1. ASSUME NEW x \in Q, NEW y \in Q, NEW u \in Nat, Has(x, u), Has(y, u)
        PROVE  x = y
    BY <1>1 DEF Tiling
  <1>2. ASSUME NEW u \in Unit
        PROVE  u \in less \/ \E x \in Q : Has(x, u)
    BY DEF Tiling
  <1>3. ASSUME NEW u \in less, NEW x \in Q
        PROVE  ~Has(x, u)
    BY DEF Tiling
  <1>4. QED
    BY <1>1, <1>2, <1>3 DEF Tiling

KnownBits(p) == bitmap \cup Known(mlev[p])
NewChunks(p) == Leaks(mlev[p], KnownBits(p))
IsFull(p, u) == Units(<<u, mlev[p]>>) \subseteq KnownBits(p)
NewPieces(p) == {<<"free", u, mlev[p]>> : u \in NewChunks(p)}

\* While garbage is collected every chunk is free or used.
LEMMA GCAlone ==
  ASSUME IInv, NEW p \in Proc, pc[p] = "gc"
  PROVE  /\ ~collected /\ TypeOK /\ Fit(Pieces) /\ Tiling(Pieces, lost)
         /\ mlev[p] \in Level /\ mlev[p] \in 0 .. 8
         /\ Pieces = FreePieces \cup UsedPieces
         /\ bitmap \subseteq Unit
         /\ HandPieces = {} /\ MergePieces = {}
  <1>1. TypeOK /\ Control /\ Tiling(Pieces, lost)
    BY DEF IInv
  <1>2. /\ ~collected /\ merge_in_progress = 0 /\ \A q \in Proc \ {p} : pc[q] = "idle"
        /\ 0 <= mlev[p]
    BY <1>1 DEF Control, Alone, Levels
  <1>3. \A q \in Proc : hand[q] = NoChunk
    BY <1>1, <1>2 DEF Control, Holding
  <1>4. HandPieces = {}
    <2>1. \A x \in Piece : <<x[2], x[3]>> # NoChunk
      <3>1. ASSUME NEW x \in Piece
            PROVE  <<x[2], x[3]>> \in Nat \X Nat
        <4>1. x[2] \in Unit \cup Beyond /\ x[3] \in Level
          BY DEF Piece
        <4>2. x[2] \in Nat /\ x[3] \in Nat
          BY <4>1, Bounds, LevelSize
        <4>3. QED
          BY <4>2
      <3>2. QED
        BY <3>1, ZoneAssumption
    <2>2. QED
      BY <1>3, <2>1 DEF HandPieces
  <1>5. MergePieces = {}
    <2>1. merge_status = DEFAULT /\ chain = {}
      BY <1>1, <1>2 DEF Control, Recorded
    <2>2. QED
      BY <2>1 DEF MergePieces, ChainPieces, DEFAULT, FREELIST_COMPLETED
  <1>6. mlev[p] \in Level /\ mlev[p] \in 0 .. 8
    BY <1>1, <1>2, Bounds DEF TypeOK, Level
  <1>7. Fit(Pieces) /\ bitmap \subseteq Unit
    BY <1>1, <1>2 DEF IInv, Control, Alone
  <1>8. QED
    BY <1>1, <1>2, <1>4, <1>5, <1>6, <1>7 DEF Pieces

\* What it knows at a level are the pieces up to that level, in whole blocks.
LEMMA KnownIs ==
  ASSUME IInv, NEW p \in Proc, pc[p] = "gc"
  PROVE  /\ KnownBits(p) \subseteq Unit
         /\ \A u \in Unit : u \in KnownBits(p) <=> \E x \in Pieces : x[3] <= mlev[p] /\ Has(x, u)
         /\ \A v \in Unit : v % Size(mlev[p]) = 0 =>
              \/ \A u \in Nat : Block(u, v, mlev[p]) => u \in KnownBits(p)
              \/ \A u \in Nat : Block(u, v, mlev[p]) => u \notin KnownBits(p)
  <1> DEFINE l == mlev[p]
             S == Size(l)
             here == {u \in Unit : u % S = 0 /\ entry[u] = l} \cup free_list[l]
  <1>1. /\ ~collected /\ TypeOK /\ Fit(Pieces) /\ Tiling(Pieces, lost)
        /\ l \in Level /\ l \in 0 .. 8
        /\ Pieces = FreePieces \cup UsedPieces
        /\ bitmap \subseteq Unit
    BY GCAlone
  <1>2. S \in Nat /\ S > 0 /\ l \in 0 .. 9 /\ Unit \subseteq Nat /\ l \in Int
    BY <1>1, Sizes, Bounds
  <1>3. /\ \A u \in Unit : u \in bitmap <=> \E x \in Pieces : x[3] < l /\ Has(x, u)
        /\ \A v \in Unit : v % S = 0 =>
             \/ \A u \in Unit : Block(u, v, l) => u \in bitmap
             \/ \A u \in Unit : Block(u, v, l) => u \notin bitmap
    BY DEF IInv, Sweeping
  <1>4. ASSUME NEW v \in here
        PROVE  \E x \in Pieces : x[2] = v /\ x[3] = l
    <2>1. CASE v \in Unit /\ entry[v] = l
      <3>1. <<"used", v, l>> \in Piece
        BY <1>1, <2>1, Tuples DEF Place
      <3>2. <<"used", v, l>> \in Pieces
        BY <1>1, <2>1, <3>1 DEF UsedPieces
      <3>3. QED
        BY <3>2
    <2>2. CASE v \in free_list[l]
      <3>1. v \in Unit \cup Beyond
        BY <1>1, <2>2 DEF TypeOK
      <3>2. <<"free", v, l>> \in Piece
        BY <1>1, <3>1, Tuples DEF Place
      <3>3. <<"free", v, l>> \in Pieces
        BY <1>1, <2>2, <3>2 DEF FreePieces
      <3>4. QED
        BY <3>3
    <2>3. QED
      BY <2>1, <2>2
  <1>5. ASSUME NEW x \in Pieces, x[3] = l
        PROVE  x[2] \in here
    <2>1. x[2] % S = 0 /\ x[2] \in Unit
      BY <1>1, <1>5 DEF Fit
    <2>2. QED
      BY <1>1, <1>5, <2>1 DEF FreePieces, UsedPieces
  <1>6. \A v \in here : v \in Unit /\ v % S = 0
    BY <1>1, <1>4 DEF Fit
  <1>7. \A u : u \in Known(l) <=> \E v \in here : u \in Units(<<v, l>>)
    BY DEF Known
  <1> HIDE DEF here
  <1>8. ASSUME NEW v \in here, NEW u \in Nat
        PROVE  u \in Units(<<v, l>>) <=> Block(u, v, l)
    <2>1. v \in Nat
      BY <1>2, <1>6
    <2>2. Units(<<v, l>>) = v .. v + S - 1
      BY DEF Units
    <2>3. QED
      BY <1>2, <2>1, <2>2 DEF Block
  <1>9. \A v \in here : Units(<<v, l>>) \subseteq Unit
    <2>1. ASSUME NEW v \in here
          PROVE  Units(<<v, l>>) \subseteq Unit
      <3>1. v + S <= Size(MaxLevel) /\ v \in Nat
        BY <1>1, <1>2, <1>6, Inside
      <3>2. QED
        BY <1>2, <3>1, Bounds DEF Units
    <2>2. QED
      BY <2>1
  <1>10. KnownBits(p) \subseteq Unit
    BY <1>1, <1>7, <1>9 DEF KnownBits
  <1>11. \A u \in Unit : u \in Known(l) <=> \E x \in Pieces : x[3] = l /\ Has(x, u)
    <2>1. ASSUME NEW u \in Unit, NEW v \in here, u \in Units(<<v, l>>)
          PROVE  \E x \in Pieces : x[3] = l /\ Has(x, u)
      <3>1. Block(u, v, l)
        BY <1>2, <1>8, <2>1
      <3>2. QED
        BY <1>4, <3>1 DEF Block, Has
    <2>2. ASSUME NEW u \in Unit, NEW x \in Pieces, x[3] = l, Has(x, u)
          PROVE  \E v \in here : u \in Units(<<v, l>>)
      <3>1. x[2] \in here /\ Block(u, x[2], l)
        BY <1>5, <2>2 DEF Block, Has
      <3>2. QED
        BY <1>2, <1>8, <3>1
    <2>3. QED
      BY <1>7, <2>1, <2>2
  <1>12. ASSUME NEW u \in Unit
         PROVE  u \in KnownBits(p) <=> \E x \in Pieces : x[3] <= l /\ Has(x, u)
    <2>1. \A x \in Pieces : x[3] \in Int
      <3>1. \A x \in Piece : x[3] \in Level
        BY DEF Piece
      <3>2. \A m \in Level : m \in Int
        BY Bounds
      <3>3. QED
        BY <3>1, <3>2, Kinds
    <2>2. \A x \in Pieces : x[3] <= l <=> x[3] < l \/ x[3] = l
      BY <1>2, <2>1
    <2>3. QED
      BY <1>3, <1>11, <2>2 DEF KnownBits
  <1>13. ASSUME NEW v \in Unit, v % S = 0
         PROVE  \/ \A u \in Nat : Block(u, v, l) => u \in KnownBits(p)
                \/ \A u \in Nat : Block(u, v, l) => u \notin KnownBits(p)
    <2>1. \A u \in Nat : Block(u, v, l) => u \in Unit
      <3>1. v + S <= Size(MaxLevel)
        BY <1>1, <1>13, Inside
      <3>2. QED
        BY <1>2, <3>1, Bounds DEF Block
    <2>2. CASE v \in here
      BY <1>2, <1>7, <1>8, <2>2 DEF KnownBits
    <2>3. CASE v \notin here
      <3>1. \A u \in Nat : Block(u, v, l) => u \notin Known(l)
        <4>1. SUFFICES ASSUME NEW u \in Nat, Block(u, v, l), NEW w \in here, u \in Units(<<w, l>>)
                       PROVE  FALSE
          BY <1>7
        <4>2. Block(u, w, l) /\ w \in Nat /\ w % S = 0 /\ v \in Nat
          BY <1>2, <1>6, <1>8, <4>1
        <4>3. w = v \/ w + S <= v \/ v + S <= w
          BY <1>2, <1>13, <4>2, Grid
        <4>4. w = v
          BY <1>2, <4>1, <4>2, <4>3 DEF Block
        <4>5. QED
          BY <2>3, <4>4
      <3>2. QED
        BY <1>3, <1>13, <2>1, <3>1 DEF KnownBits
    <2>4. QED
      BY <2>2, <2>3
  <1>14. QED
    BY <1>10, <1>12, <1>13

\* What it pushes at a level: the half of a pair of which it knows the other.
LEMMA NewIs ==
  ASSUME IInv, NEW p \in Proc, pc[p] = "gc", NEW n \in NewChunks(p)
  PROVE  LET l == mlev[p]
             S == Size(l)
         IN  /\ n \in Nat /\ n % S = 0
             /\ n \in Unit \cup Beyond
             /\ l < MaxLevel => n \in Unit
             /\ \A u \in Nat : Block(u, n, l) => u \notin KnownBits(p)
             /\ \E v \in Unit :
                  /\ v % Size(l + 1) = 0
                  /\ \/ n = v /\ IsFull(p, v + S)
                     \/ n = v + S /\ IsFull(p, v)
  <1> DEFINE l == mlev[p]
             S == Size(l)
  <1>1. /\ ~collected /\ TypeOK /\ l \in Level /\ l \in 0 .. 8 /\ l \in 0 .. 9 /\ l + 1 \in 0 .. 9
    BY GCAlone
  <1>2. S \in Nat /\ S > 0 /\ Size(l + 1) = 2 * S /\ Unit \subseteq Nat /\ Beyond \subseteq Nat
    BY <1>1, Sizes, Bounds
  <1>3. PICK v \in Unit :
          /\ v % Size(l + 1) = 0
          /\ \/ n = v /\ ~IsFull(p, v) /\ IsFull(p, v + S)
             \/ n = v + S /\ IsFull(p, v) /\ ~IsFull(p, v + S)
    BY DEF NewChunks, Leaks, IsFull
  <1>4. v \in Nat /\ v % S = 0 /\ (v + S) % S = 0
    BY <1>1, <1>2, <1>3, Multiples
  <1>5. n \in Nat /\ n % S = 0
    BY <1>2, <1>3, <1>4
  <1>6. KnownBits(p) \subseteq Unit
    BY KnownIs
  <1>7. Size(MaxLevel) \in Nat /\ v < Size(MaxLevel)
    BY <1>3, <1>4, Bounds
  <1>8. ASSUME l < MaxLevel
        PROVE  v + S \in Unit
    <2>1. l + 1 \in Level
      BY <1>1, <1>8, Bounds DEF Level
    <2>2. v + Size(l + 1) <= Size(MaxLevel)
      BY <1>3, <2>1, Inside
    <2>3. QED
      BY <1>2, <1>4, <1>7, <2>2, Bounds
  <1>9. ASSUME ~(l < MaxLevel)
        PROVE  v = 0 /\ S = Size(MaxLevel) /\ S \in Beyond /\ ~IsFull(p, S)
    <2>1. l = MaxLevel
      BY <1>1, <1>9, Bounds DEF Level
    <2>2. 0 % Size(l + 1) = 0
      <3>1. \A s \in Powers : 0 % s = 0
        BY DEF Powers
      <3>2. QED
        BY <1>1, <3>1, Sizes
    <2>3. v = 0
      <3>1. v = 0 \/ v + Size(l + 1) <= 0 \/ 0 + Size(l + 1) <= v
        BY <1>1, <1>3, <1>4, <2>2, Grid
      <3>2. QED
        BY <1>2, <1>4, <1>7, <2>1, <3>1
    <2>4. S \in Beyond /\ S \notin Unit
      BY <1>2, <2>1, Bounds
    <2>5. S \in Units(<<S, l>>)
      BY <1>2 DEF Units
    <2>6. ~IsFull(p, S)
      BY <1>6, <2>4, <2>5 DEF IsFull
    <2>7. QED
      BY <2>1, <2>3, <2>4, <2>6
  <1>10. n \in Unit \cup Beyond /\ (l < MaxLevel => n \in Unit)
    <2>1. CASE l < MaxLevel
      BY <1>3, <1>8, <2>1
    <2>2. CASE ~(l < MaxLevel)
      BY <1>2, <1>3, <1>9, <2>2
    <2>3. QED
      BY <2>1, <2>2
  <1>11. ~IsFull(p, n)
    BY <1>3
  <1>12. \A u \in Nat : Block(u, n, l) => u \notin KnownBits(p)
    <2>1. \A u : u \in Units(<<n, l>>) => u \in Nat /\ Block(u, n, l)
      BY <1>2, <1>5 DEF Units, Block
    <2>2. CASE n \in Unit
      BY <1>5, <1>11, <2>1, <2>2, KnownIs DEF IsFull
    <2>3. CASE n \in Beyond
      <3>1. \A u \in Nat : Block(u, n, l) => u \notin Unit
        BY <1>2, <1>5, <2>3, Bounds DEF Block
      <3>2. QED
        BY <1>6, <3>1
    <2>4. QED
      BY <1>10, <2>2, <2>3
  <1>13. QED
    BY <1>3, <1>5, <1>10, <1>12

\* Garbage collection adds chunks made of lost units only.
LEMMA GCTiles ==
  ASSUME IInv, NEW p \in Proc, GCLevel(p)
  PROVE  /\ Tiling(Pieces', lost')
         /\ Pieces' = Pieces \cup NewPieces(p)
         /\ mlev[p] < MaxLevel => Fit(Pieces')
         /\ lost' \in SUBSET Unit
  <1> DEFINE l == mlev[p]
             S == Size(l)
             N == NewPieces(p)
  <1>1. pc[p] = "gc"
    BY DEF GCLevel
  <1>2. /\ ~collected /\ TypeOK /\ Fit(Pieces) /\ Tiling(Pieces, lost)
        /\ l \in Level /\ l \in 0 .. 8 /\ l \in 0 .. 9 /\ l + 1 \in 0 .. 9
        /\ HandPieces = {} /\ MergePieces = {}
        /\ lost \in SUBSET Unit
    BY <1>1, GCAlone DEF TypeOK
  <1>3. S \in Nat /\ S > 0 /\ Size(l + 1) = 2 * S /\ Unit \subseteq Nat /\ l \in Int
    BY <1>2, Sizes, Bounds
  <1>4. ASSUME NEW n \in NewChunks(p)
        PROVE  /\ n \in Nat /\ n % S = 0 /\ n \in Unit \cup Beyond /\ (l < MaxLevel => n \in Unit)
               /\ \A u \in Nat : Block(u, n, l) => u \notin KnownBits(p)
    BY <1>1, NewIs
  <1>5. ASSUME NEW x \in N
        PROVE  x[2] \in NewChunks(p) /\ x[3] = l /\ x = <<"free", x[2], l>> /\ x \in Piece
    <2>1. x[2] \in NewChunks(p) /\ x[3] = l /\ x = <<"free", x[2], l>>
      BY DEF NewPieces
    <2>2. QED
      BY <1>2, <1>4, <2>1, Tuples DEF Place
  <1>6. /\ free_list' = [free_list EXCEPT ![l] = @ \cup NewChunks(p)]
        /\ lost' = lost \ UNION {Units(<<u, l>>) : u \in NewChunks(p)}
        /\ UNCHANGED <<entry, hand, merge_status, current_merge_level, chain, post_merge_level, post_merge_next_level>>
    BY DEF GCLevel, NewChunks, KnownBits, header
  <1>7. FreePieces' = FreePieces \cup N
    <2>1. free_list \in [Level -> SUBSET (Unit \cup Beyond)]
      BY <1>2 DEF TypeOK
    <2>2. Piece' = Piece
      BY DEF Piece, Place, Unit, Beyond, Level
    <2>3. ASSUME NEW x \in Piece
          PROVE  x \in FreePieces' <=> x \in FreePieces \/ x \in N
      <3>1. x \in N <=> x[1] = "free" /\ x[2] \in NewChunks(p) /\ x[3] = l
        BY Tuples DEF NewPieces
      <3>2. x[3] \in Level
        BY DEF Piece
      <3>3. x[2] \in free_list'[x[3]] <=> x[2] \in free_list[x[3]] \/ (x[3] = l /\ x[2] \in NewChunks(p))
        BY <1>2, <1>6, <2>1, <3>2
      <3>4. QED
        BY <2>2, <3>1, <3>3 DEF FreePieces
    <2>4. FreePieces' \subseteq Piece /\ FreePieces \subseteq Piece /\ N \subseteq Piece
      BY <1>5, <2>2 DEF FreePieces
    <2>5. QED
      BY <2>3, <2>4
  <1>8. Pieces' = Pieces \cup N
    BY <1>2, <1>6, <1>7, Same DEF Pieces
  <1>9. ASSUME NEW n \in N, NEW x \in Pieces, NEW u \in Nat, Has(n, u), Has(x, u)
        PROVE  FALSE
    <2>1. n[2] \in NewChunks(p) /\ n[3] = l /\ Block(u, n[2], l)
      BY <1>5, <1>9 DEF Has, Block
    <2>2. u \notin KnownBits(p)
      BY <1>4, <2>1
    <2>3. x[2] \in Unit /\ x[3] \in Level /\ x[2] % Size(x[3]) = 0
      BY <1>2, Kinds DEF Fit, Piece
    <2>4. /\ x[2] \in Nat /\ x[3] \in 0 .. 9 /\ Size(x[3]) \in Nat /\ Size(x[3]) > 0
          /\ x[2] + Size(x[3]) <= Size(MaxLevel) /\ Size(MaxLevel) \in Nat
      BY <2>3, Inside, Bounds, LevelSize
    <2>5. u \in Unit
      BY <1>9, <2>4, Bounds DEF Has
    <2>6. CASE x[3] <= l
      BY <1>1, <1>9, <2>2, <2>5, <2>6, KnownIs
    <2>7. CASE ~(x[3] <= l)
      <3> DEFINE e == x[2] + Size(x[3])
                 S2 == Size(l + 1)
      <3>1. l + 1 <= x[3] /\ l + 1 \in 0 .. 9
        BY <1>2, <2>4, <2>7
      <3>2. PICK v \in Unit :
              /\ v % S2 = 0
              /\ \/ n[2] = v /\ IsFull(p, v + S)
                 \/ n[2] = v + S /\ IsFull(p, v)
        BY <1>1, <2>1, NewIs
      <3>3. PICK o \in Nat : IsFull(p, o) /\ (o = v \/ o = v + S) /\ v \in Nat
        BY <1>3, <3>2
      <3>4. x[2] % S2 = 0 /\ e \in Nat /\ e % S2 = 0
        <4>1. x[2] % S2 = 0 /\ Size(x[3]) % S2 = 0
          BY <2>3, <2>4, <3>1, Divides
        <4>2. S2 \in Powers
          BY <1>2, Sizes
        <4>3. \A s \in Powers : \A a, b \in Nat : a % s = 0 /\ b % s = 0 => (a + b) % s = 0
          BY DEF Powers
        <4>4. QED
          BY <2>4, <4>1, <4>2, <4>3
      <3>5. v <= u /\ u < v + S2
        BY <1>3, <2>1, <3>2, <3>3 DEF Block
      <3>6. x[2] <= v
        <4>1. x[2] = v \/ x[2] + S2 <= v \/ v + S2 <= x[2]
          BY <2>4, <3>1, <3>2, <3>3, <3>4, Grid
        <4>2. QED
          BY <1>3, <1>9, <2>4, <3>3, <3>5, <4>1 DEF Has
      <3>7. v + S2 <= e
        <4>1. e = v \/ e + S2 <= v \/ v + S2 <= e
          BY <3>1, <3>2, <3>3, <3>4, Grid
        <4>2. u < e
          BY <1>9 DEF Has
        <4>3. QED
          BY <1>3, <3>3, <3>4, <3>5, <4>1, <4>2
      <3>8. Has(x, o)
        BY <1>3, <2>4, <3>3, <3>6, <3>7 DEF Has
      <3>9. o \in KnownBits(p)
        BY <1>3, <3>3 DEF IsFull, Units
      <3>10. PICK y \in Pieces : y[3] <= l /\ Has(y, o)
        BY <1>1, <3>9, KnownIs
      <3>11. x = y
        BY <1>2, <3>3, <3>8, <3>10 DEF Tiling
      <3>12. QED
        BY <2>7, <3>10, <3>11
    <2>8. QED
      BY <2>6, <2>7
  <1>10. ASSUME NEW n \in N, NEW m \in N, NEW u \in Nat, Has(n, u), Has(m, u)
         PROVE  n = m
    <2>1. /\ n[2] \in Nat /\ m[2] \in Nat /\ n[2] % S = 0 /\ m[2] % S = 0
          /\ n[3] = l /\ m[3] = l
      BY <1>4, <1>5
    <2>2. n[2] = m[2] \/ n[2] + S <= m[2] \/ m[2] + S <= n[2]
      BY <1>2, <2>1, Grid
    <2>3. n[2] = m[2]
      BY <1>3, <1>10, <2>1, <2>2 DEF Has
    <2>4. QED
      BY <1>5, <2>3
  <1>11. ASSUME NEW u \in Unit
         PROVE  u \in lost' <=> u \in lost /\ \A n \in N : ~Has(n, u)
    <2>1. \A n \in NewChunks(p) : u \in Units(<<n, l>>) <=> Has(<<"free", n, l>>, u)
      <3>1. ASSUME NEW n \in NewChunks(p)
            PROVE  u \in Units(<<n, l>>) <=> Has(<<"free", n, l>>, u)
        <4>1. n \in Nat /\ u \in Nat
          BY <1>3, <1>4
        <4>2. Units(<<n, l>>) = n .. n + S - 1
          BY DEF Units
        <4>3. QED
          BY <1>3, <4>1, <4>2 DEF Has
      <3>2. QED
        BY <3>1
    <2>2. u \in lost' <=> u \in lost /\ \A n \in NewChunks(p) : u \notin Units(<<n, l>>)
      BY <1>6
    <2>3. QED
      BY <1>5, <2>1, <2>2 DEF NewPieces
  <1>12. lost' \in SUBSET Unit
    BY <1>2, <1>6
  <1>13. Tiling(Pieces \cup N, lost')
    <2>1. \A less \in SUBSET Unit :
             (\A u \in Unit : u \in less <=> u \in lost /\ \A n \in N : ~Has(n, u))
               => Tiling(Pieces \cup N, less)
      BY <1>2, <1>9, <1>10, Regain, Zenon
    <2>2. QED
      BY <1>11, <1>12, <2>1
  <1>14. l < MaxLevel => Fit(Pieces \cup N)
    BY <1>2, <1>4, <1>5 DEF Fit
  <1>15. QED
    BY <1>8, <1>12, <1>13, <1>14

-----------------------------------------------------------------------------
(* The control of the operations and of the merge *)

\* Where a recovery goes on.
LEMMA Resume ==
  ASSUME TypeOK
  PROVE  \/ merge_status = DEFAULT /\ current_merge_level = -1 /\ ResumeAt = "m_abandon"
         \/ merge_status = DEFAULT /\ current_merge_level # -1 /\ safe_copy /\ ResumeAt = "m_leave"
         \/ merge_status = DEFAULT /\ current_merge_level # -1 /\ ~safe_copy /\ ResumeAt = "m_level"
         \/ merge_status = SWAP_COMPLETED /\ ResumeAt = "m_bitmap"
         \/ merge_status = BITMAP_COMPLETED /\ ResumeAt = "m_reset"
         \/ merge_status = FREELIST_COMPLETED /\ ResumeAt = "m_next"
  <1>1. merge_status \in 0 .. 3
    BY DEF TypeOK, DEFAULT, FREELIST_COMPLETED
  <1>2. CASE merge_status = 0
    BY <1>2 DEF ResumeAt, ResumeDefault, DEFAULT
  <1>3. CASE merge_status = 1
    BY <1>3 DEF ResumeAt, DEFAULT, SWAP_COMPLETED
  <1>4. CASE merge_status = 2
    BY <1>4 DEF ResumeAt, DEFAULT, BITMAP_COMPLETED
  <1>5. CASE merge_status = 3
    BY <1>5 DEF ResumeAt, DEFAULT, FREELIST_COMPLETED
  <1>6. QED
    BY <1>1, <1>2, <1>3, <1>4, <1>5

\* Two pieces do not begin at the same unit.
LEMMA Starts ==
  ASSUME IInv, NEW x \in Pieces, NEW y \in Pieces, x[2] = y[2]
  PROVE  x = y
  <1>1. x[2] \in Nat /\ x[3] \in Level /\ y[3] \in Level
    <2>1. x \in Piece /\ y \in Piece
      BY Kinds
    <2>2. QED
      BY <2>1, Bounds DEF Piece
  <1>2. Has(x, x[2]) /\ Has(y, x[2])
    BY <1>1, LevelSize DEF Has
  <1>3. QED
    BY <1>1, <1>2 DEF IInv, Tiling

\* What is in somebody's hand begins where no other piece does.
LEMMA NotInHand ==
  ASSUME IInv, NEW x \in Pieces, NEW l \in Level
  PROVE  /\ x[1] # "hand" => \A q \in Proc : hand[q] # <<x[2], l>>
         /\ x[1] = "hand" => \A q \in Proc : hand[q] = <<x[2], l>> => l = x[3]
  <1>1. ASSUME NEW q \in Proc, hand[q] = <<x[2], l>>
        PROVE  x[1] = "hand" /\ l = x[3]
    <2>1. x[2] \in Unit \cup Beyond
      BY Kinds DEF Piece
    <2>2. <<"hand", x[2], l>> \in Pieces
      BY <1>1, <2>1, Tuples DEF HandPieces, Pieces, Place
    <2>3. x = <<"hand", x[2], l>>
      BY <2>2, Starts
    <2>4. QED
      BY <2>3
  <1>2. QED
    BY <1>1

\* Which list a chunk is taken from, and that nobody has it in hand.
LEMMA Fresh ==
  ASSUME IInv, ~collected, NEW p \in Proc
  PROVE  /\ \A u \in Unit \cup Beyond : AllocPop(p, u) =>
              mlev[p] \in Level /\ u \in Unit /\ \A q \in Proc : hand[q] # <<u, mlev[p]>>
         /\ \A u \in Unit : FreeReset(p, u) =>
              entry[u] \in Level /\ \A q \in Proc : hand[q] # <<u, entry[u]>>
         /\ AllocSplit(p) =>
              /\ hand[p][1] \in Unit /\ hand[p][2] \in Level \ {0} /\ hand[p][2] - 1 \in Level
              /\ \A q \in Proc : hand[q] # <<hand[p][1], hand[p][2] - 1>>
  <1>1. TypeOK /\ Control /\ Fit(Pieces)
    BY DEF IInv
  <1>2. ASSUME NEW u \in Unit \cup Beyond, AllocPop(p, u)
        PROVE  mlev[p] \in Level /\ u \in Unit /\ \A q \in Proc : hand[q] # <<u, mlev[p]>>
    <2>1. mlev[p] \in Level
      BY <1>1, <1>2, Bounds DEF TypeOK, Level, Control, Levels, AllocPop
    <2>2. <<"free", u, mlev[p]>> \in Pieces
      BY <1>2, <2>1, Tuples DEF AllocPop, FreePieces, Pieces, Place
    <2>3. u \in Unit
      BY <1>1, <2>2 DEF Fit
    <2>4. \A q \in Proc : hand[q] # <<u, mlev[p]>>
      BY <2>1, <2>2, NotInHand
    <2>5. QED
      BY <2>1, <2>3, <2>4
  <1>3. ASSUME NEW u \in Unit, FreeReset(p, u)
        PROVE  entry[u] \in Level /\ \A q \in Proc : hand[q] # <<u, entry[u]>>
    <2>1. entry[u] \in Level
      BY <1>1, <1>3 DEF TypeOK, FreeReset
    <2>2. <<"used", u, entry[u]>> \in Pieces
      BY <2>1, Tuples DEF UsedPieces, Pieces, Place
    <2>3. \A q \in Proc : hand[q] # <<u, entry[u]>>
      BY <2>1, <2>2, NotInHand
    <2>4. QED
      BY <2>1, <2>3
  <1>4. ASSUME AllocSplit(p)
        PROVE  /\ hand[p][1] \in Unit /\ hand[p][2] \in Level \ {0} /\ hand[p][2] - 1 \in Level
               /\ \A q \in Proc : hand[q] # <<hand[p][1], hand[p][2] - 1>>
    <2>1. hand[p] # NoChunk /\ want[p] < hand[p][2] /\ want[p] \in Level
      BY <1>1, <1>4 DEF Control, Holding, AllocSplit, TypeOK
    <2>2. PICK u \in Unit, l \in Level :
            /\ hand[p] = <<u, l>> /\ hand[p][1] = u /\ hand[p][2] = l
            /\ <<"hand", u, l>> \in HandPieces /\ <<"hand", u, l>> \in Pieces
            /\ u % Size(l) = 0
      BY <2>1, InHand
    <2>3. l # 0 /\ l - 1 \in Level /\ l - 1 # l
      BY <2>1, <2>2, Bounds DEF Level
    <2>4. \A q \in Proc : hand[q] # <<u, l - 1>>
      <3>1. \A q \in Proc : hand[q] = <<u, l - 1>> => l - 1 = l
        BY <2>2, <2>3, NotInHand
      <3>2. QED
        BY <2>3, <3>1
    <2>5. QED
      BY <2>2, <2>3, <2>4
  <1>5. QED
    BY <1>2, <1>3, <1>4

\* The chunk that the merger takes from the lists built is in no other hand.
LEMMA FreshPost ==
  ASSUME IInv, ~collected, NEW p \in Proc, NEW u \in Unit, PopPost(p, u)
  PROVE  LET l == IF pc[p] = "m_next" THEN mlev[p] + 1 ELSE mlev[p]
         IN  /\ Take(p, <<u, l>>) /\ l \in Level
             /\ mlev[p] \in 0 .. MaxLevel - 1
             /\ current_merge_level = mlev[p] /\ merge_status = FREELIST_COMPLETED
             /\ \A q \in Proc : hand[q] # <<u, l>>
  <1> DEFINE l == IF pc[p] = "m_next" THEN mlev[p] + 1 ELSE mlev[p]
  <1>1. TypeOK /\ Control
    BY DEF IInv
  <1>2. pc[p] \in {"m_next", "m_rest"} /\ Take(p, <<u, l>>)
    BY DEF PopPost
  <1>3. merge_status = FREELIST_COMPLETED /\ current_merge_level = mlev[p]
    BY <1>1, <1>2 DEF Control, Recorded, Levels, Listed
  <1>4. mlev[p] \in 0 .. MaxLevel - 1
    <2>1. current_merge_level \in -1 .. MaxLevel - 1
      BY <1>1 DEF TypeOK
    <2>2. current_merge_level # -1
      <3>1. merge_status = FREELIST_COMPLETED /\ current_merge_level = -1
              => post_merge_level = {} /\ post_merge_next_level = {}
        BY <1>1 DEF Control, Posted
      <3>2. post_merge_next_level # {} \/ post_merge_level # {}
        BY DEF PopPost
      <3>3. QED
        BY <1>3, <3>1, <3>2
    <2>3. QED
      BY <1>3, <2>1, <2>2, ZoneAssumption
  <1>5. l \in Level
    BY <1>4, Bounds DEF Level
  <1>6. <<"merge", u, l>> \in Piece
    BY <1>5, Tuples DEF Place
  <1>7. <<"merge", u, l>> \in Pieces
    BY <1>2, <1>3, <1>6 DEF PopPost, PostPieces, MergePieces, Pieces
  <1>8. \A q \in Proc : hand[q] # <<u, l>>
    BY <1>5, <1>7, NotInHand
  <1>9. QED
    BY <1>2, <1>3, <1>4, <1>5, <1>8

\* Nobody works after a collection.
LEMMA Working ==
  ASSUME IInv, Next
  PROVE  ~collected
  <1>1. Alone
    BY DEF IInv, Control
  <1>2. PICK p \in Proc :
          \/ \E l \in AllocLevel : AllocBegin(p, l)
          \/ \E u \in Unit \cup Beyond : AllocPop(p, u)
          \/ AllocEmpty(p) \/ AllocSplit(p) \/ AllocMark(p)
          \/ \E u \in Unit : FreeReset(p, u)
          \/ FreePush(p)
          \/ MergeBegin(p) \/ MergeStep(p)
          \/ Die(p) \/ RecoverMerge(p)
          \/ GCBegin(p) \/ GCLevel(p) \/ GCDie(p)
    BY Zenon DEF Next
  <1>3. (\E u \in Unit : FreeReset(p, u)) => ~collected
    BY DEF FreeReset, Online
  <1>4. MergeStep(p) => pc[p] # "idle"
    BY DEF MergeStep, EnterMerge, SetMergeLevel, CopyHead, SwapFreeList, SetStatus, CreateBitmap,
           ResetPostMerge, MergePair, PopPost, PushPost, PostEmpty, ClearMerge, ResetMergeLevel, LeaveMerge
  <1>5. (\E l \in AllocLevel : AllocBegin(p, l)) \/ MergeBegin(p) \/ RecoverMerge(p) \/ GCBegin(p)
          => ~collected
    BY DEF AllocBegin, MergeBegin, RecoverMerge, GCBegin, Online
  <1>6. (\E u \in Unit \cup Beyond : AllocPop(p, u)) \/ AllocEmpty(p) \/ AllocSplit(p) \/ AllocMark(p) \/ FreePush(p)
          => pc[p] # "idle"
    BY DEF AllocPop, AllocEmpty, AllocSplit, AllocMark, FreePush
  <1>7. Die(p) \/ GCLevel(p) \/ GCDie(p) => pc[p] # "idle"
    BY DEF Die, GCLevel, GCDie
  <1>8. pc[p] # "idle" \/ ~collected
    BY <1>2, <1>3, <1>4, <1>5, <1>6, <1>7, Zenon
  <1>9. QED
    BY <1>1, <1>8 DEF Alone

UserPC == {"idle", "pop", "split", "mark", "push", "m_enter", "gc"}

\* A step outside of the merge, and one of the merge.
Outside(p) ==
  /\ pc'[p] \in UserPC
  /\ \A q \in Proc \ {p} : pc'[q] = pc[q] /\ mlev'[q] = mlev[q]
  /\ UNCHANGED <<merge_in_progress, merge_status, current_merge_level>>
  /\ UNCHANGED <<safe_copy, chain, post_merge_level, post_merge_next_level>>
UserStep(p) ==
  \/ \E l \in AllocLevel : AllocBegin(p, l)
  \/ \E u \in Unit \cup Beyond : AllocPop(p, u)
  \/ AllocEmpty(p) \/ AllocSplit(p) \/ AllocMark(p)
  \/ \E u \in Unit : FreeReset(p, u)
  \/ FreePush(p) \/ MergeBegin(p)
  \/ Die(p) \/ GCBegin(p) \/ GCLevel(p) \/ GCDie(p)

\* A step is one of a user of the zone, of a merge, or of its recovery.
LEMMA Steps ==
  Next => \E p \in Proc : UserStep(p) \/ MergeStep(p) \/ RecoverMerge(p)
  BY DEF Next, UserStep

\* Users of the zone leave the control of a merge alone.
LEMMA UserFlow ==
  ASSUME TypeOK, NEW p \in Proc, UserStep(p)
  PROVE  Outside(p)
  <1>1. pc \in [Proc -> PC] /\ mlev \in [Proc -> -1 .. MaxLevel]
    BY DEF TypeOK
  <1>2. \A q \in Proc \ {p} : pc'[q] = pc[q] /\ mlev'[q] = mlev[q]
    BY <1>1 DEF UserStep, AllocBegin, AllocPop, AllocEmpty, AllocSplit, AllocMark, FreeReset, FreePush, MergeBegin,
                Die, GCBegin, GCLevel, GCDie, Goto, local
  <1>3. pc'[p] \in UserPC
    BY <1>1 DEF UserStep, AllocBegin, AllocPop, AllocEmpty, AllocSplit, AllocMark, FreeReset, FreePush, MergeBegin,
                Die, GCBegin, GCLevel, GCDie, Goto, UserPC
  <1>4. /\ UNCHANGED <<merge_in_progress, merge_status, current_merge_level>>
        /\ UNCHANGED <<safe_copy, chain, post_merge_level, post_merge_next_level>>
    BY DEF UserStep, AllocBegin, AllocPop, AllocEmpty, AllocSplit, AllocMark, FreeReset, FreePush, MergeBegin,
           Die, GCBegin, GCLevel, GCDie, header, merging
  <1>5. QED
    BY <1>2, <1>3, <1>4 DEF Outside

\* What a recovery does to the control of its process.
LEMMA RecoverFlow ==
  ASSUME TypeOK, NEW p \in Proc, RecoverMerge(p)
  PROVE  /\ Merger = {} /\ merge_in_progress = 1 /\ ~collected
         /\ pc[p] = "idle" /\ \A q \in Proc : pc[q] # "gc"
         /\ pc'[p] = ResumeAt /\ mlev'[p] = current_merge_level
         /\ \A q \in Proc \ {p} : pc'[q] = pc[q] /\ mlev'[q] = mlev[q]
         /\ UNCHANGED <<merge_in_progress, merge_status, current_merge_level>>
         /\ UNCHANGED <<safe_copy, bitmap, post_merge_level, post_merge_next_level>>
         /\ ResumeAt = "m_leave" => chain' = {}
         /\ ResumeAt # "m_leave" => chain' = chain
  BY DEF TypeOK, RecoverMerge, Online, Goto, header

\* One process merges.
LEMMA NextOneMerger ==
  ASSUME IInv, [Next]_vars
  PROVE  OneMerger'
  <1>0. /\ pc \in [Proc -> PC] /\ mlev \in [Proc -> -1 .. MaxLevel]
        /\ OneMerger
    BY DEF IInv, Control, TypeOK
  <1>1. ASSUME NEW p \in Proc, UserStep(p)
        PROVE  OneMerger'
    <2>1. Outside(p)
      BY <1>1, UserFlow DEF IInv
    <2>2. QED
      BY <1>0, <2>1 DEF Outside, UserPC, OneMerger, Merger, MergePC
  <1>2. ASSUME NEW p \in Proc, RecoverMerge(p)
        PROVE  OneMerger'
    <2>1. TypeOK
      BY DEF IInv
    <2>2. QED
      BY <1>0, <1>2, <2>1, Resume, RecoverFlow DEF OneMerger, Merger, MergePC, DEFAULT, SWAP_COMPLETED,
         BITMAP_COMPLETED, FREELIST_COMPLETED
  <1>3. ASSUME NEW p \in Proc,
               \/ EnterMerge(p)
               \/ SetMergeLevel(p)
               \/ CopyHead(p)
               \/ SwapFreeList(p)
               \/ SetStatus(p, "m_swapped", "m_bitmap", SWAP_COMPLETED)
               \/ CreateBitmap(p)
               \/ SetStatus(p, "m_marked", "m_reset", BITMAP_COMPLETED)
               \/ ResetPostMerge(p)
        PROVE  OneMerger'
    BY <1>0, <1>3 DEF EnterMerge, SetMergeLevel, CopyHead, SwapFreeList, SetStatus, CreateBitmap,
       ResetPostMerge, Goto, header, merging, local, OneMerger, Merger, MergePC, DEFAULT, SWAP_COMPLETED,
       BITMAP_COMPLETED, FREELIST_COMPLETED
  <1>4. ASSUME NEW p \in Proc,
               \/ MergePair(p)
               \/ SetStatus(p, "m_pairs", "m_next", FREELIST_COMPLETED)
        PROVE  OneMerger'
    BY <1>0, <1>4 DEF MergePair, SetStatus, Goto, header, merging, local, OneMerger, Merger, MergePC, DEFAULT,
       SWAP_COMPLETED, BITMAP_COMPLETED, FREELIST_COMPLETED
  <1>5. ASSUME NEW p \in Proc, NEW u \in Unit, PopPost(p, u)
        PROVE  OneMerger'
    <2>1. \/ pc[p] = "m_next" /\ Goto(p, "m_push_next") /\ UNCHANGED header
          \/ pc[p] = "m_rest" /\ Goto(p, "m_push_rest") /\ UNCHANGED header
      BY <1>5 DEF PopPost
    <2>2. QED
      BY <1>0, <2>1 DEF Goto, header, OneMerger, Merger, MergePC
  <1>6. ASSUME NEW p \in Proc, PushPost(p)
        PROVE  OneMerger'
    BY <1>0, <1>6 DEF PushPost, Goto, header, merging, local, OneMerger, Merger, MergePC, DEFAULT,
       SWAP_COMPLETED, BITMAP_COMPLETED, FREELIST_COMPLETED
  <1>7. ASSUME NEW p \in Proc,
               \/ PostEmpty(p)
               \/ ClearMerge(p)
               \/ ResetMergeLevel(p)
               \/ SetStatus(p, "m_status_off", "m_leave", DEFAULT)
               \/ LeaveMerge(p)
        PROVE  OneMerger'
    BY <1>0, <1>7 DEF PostEmpty, ClearMerge, ResetMergeLevel, SetStatus, LeaveMerge, Goto, header, merging,
       local, OneMerger, Merger, MergePC, DEFAULT, SWAP_COMPLETED, BITMAP_COMPLETED, FREELIST_COMPLETED
  <1>8. CASE UNCHANGED vars
    BY <1>0, <1>8 DEF vars, header, merging, local, history, OneMerger, Merger, MergePC
  <1>9. QED
    BY <1>1, <1>2, <1>3, <1>4, <1>5, <1>6, <1>7, <1>8, Steps DEF MergeStep

\* The header says how far the merge has come.
LEMMA NextRecorded ==
  ASSUME IInv, [Next]_vars
  PROVE  Recorded'
  <1>0. /\ pc \in [Proc -> PC] /\ mlev \in [Proc -> -1 .. MaxLevel]
        /\ Recorded /\ OneMerger /\ Chained
    BY DEF IInv, Control, TypeOK
  <1>1. ASSUME NEW p \in Proc, UserStep(p)
        PROVE  Recorded'
    <2>1. Outside(p)
      BY <1>1, UserFlow DEF IInv
    <2>2. QED
      BY <1>0, <2>1 DEF Outside, UserPC, Recorded, Detached, Listed, OneMerger, Merger, MergePC, Chained
  <1>2. ASSUME NEW p \in Proc, RecoverMerge(p)
        PROVE  Recorded'
    <2>1. TypeOK
      BY DEF IInv
    <2>2. QED
      BY <1>0, <1>2, <2>1, Resume, RecoverFlow DEF Recorded, Detached, Listed, OneMerger, Merger, MergePC,
         Chained, DEFAULT, SWAP_COMPLETED, BITMAP_COMPLETED, FREELIST_COMPLETED
  <1>3. ASSUME NEW p \in Proc,
               \/ EnterMerge(p)
               \/ SetMergeLevel(p)
               \/ CopyHead(p)
               \/ SwapFreeList(p)
               \/ SetStatus(p, "m_swapped", "m_bitmap", SWAP_COMPLETED)
               \/ CreateBitmap(p)
               \/ SetStatus(p, "m_marked", "m_reset", BITMAP_COMPLETED)
               \/ ResetPostMerge(p)
        PROVE  Recorded'
    BY <1>0, <1>3 DEF EnterMerge, SetMergeLevel, CopyHead, SwapFreeList, SetStatus, CreateBitmap,
       ResetPostMerge, Goto, header, merging, local, Recorded, Detached, Listed, OneMerger, Merger, MergePC,
       Chained, DEFAULT, SWAP_COMPLETED, BITMAP_COMPLETED, FREELIST_COMPLETED
  <1>4. ASSUME NEW p \in Proc,
               \/ MergePair(p)
               \/ SetStatus(p, "m_pairs", "m_next", FREELIST_COMPLETED)
        PROVE  Recorded'
    BY <1>0, <1>4 DEF MergePair, SetStatus, Goto, header, merging, local, Recorded, Detached, Listed,
       OneMerger, Merger, MergePC, Chained, DEFAULT, SWAP_COMPLETED, BITMAP_COMPLETED, FREELIST_COMPLETED
  <1>5. ASSUME NEW p \in Proc,
               \/ \E u \in Unit : PopPost(p, u)
               \/ PushPost(p)
        PROVE  Recorded'
    BY <1>0, <1>5 DEF PopPost, PushPost, Goto, header, merging, local, Recorded, Detached, Listed, OneMerger,
       Merger, MergePC, Chained, DEFAULT, SWAP_COMPLETED, BITMAP_COMPLETED, FREELIST_COMPLETED
  <1>6. ASSUME NEW p \in Proc,
               \/ PostEmpty(p)
               \/ ClearMerge(p)
               \/ ResetMergeLevel(p)
               \/ SetStatus(p, "m_status_off", "m_leave", DEFAULT)
               \/ LeaveMerge(p)
        PROVE  Recorded'
    BY <1>0, <1>6 DEF PostEmpty, ClearMerge, ResetMergeLevel, SetStatus, LeaveMerge, Goto, header, merging,
       local, Recorded, Detached, Listed, OneMerger, Merger, MergePC, Chained, DEFAULT, SWAP_COMPLETED,
       BITMAP_COMPLETED, FREELIST_COMPLETED
  <1>7. CASE UNCHANGED vars
    BY <1>0, <1>7 DEF vars, header, merging, local, history, Recorded, Detached, Listed, OneMerger, Merger,
       MergePC, Chained
  <1>8. QED
    BY <1>1, <1>2, <1>3, <1>4, <1>5, <1>6, <1>7, Steps DEF MergeStep

\* The detached list is empty before and after the steps that use it.
LEMMA NextChained ==
  ASSUME IInv, [Next]_vars
  PROVE  Chained'
  <1>0. /\ pc \in [Proc -> PC] /\ mlev \in [Proc -> -1 .. MaxLevel]
        /\ Recorded /\ OneMerger /\ Chained /\ Levels /\ Posted
    BY DEF IInv, Control, TypeOK
  <1>1. ASSUME NEW p \in Proc, UserStep(p)
        PROVE  Chained'
    <2>1. Outside(p)
      BY <1>1, UserFlow DEF IInv
    <2>2. QED
      BY <1>0, <2>1 DEF Outside, UserPC, Chained, Levels, Recorded, Detached, Listed, OneMerger, Merger,
         MergePC, Posted
  <1>2. ASSUME NEW p \in Proc, RecoverMerge(p)
        PROVE  Chained'
    <2>1. TypeOK
      BY DEF IInv
    <2>2. QED
      BY <1>0, <1>2, <2>1, Resume, RecoverFlow DEF Chained, Levels, Recorded, Detached, Listed, OneMerger,
         Merger, MergePC, Posted, DEFAULT, SWAP_COMPLETED, BITMAP_COMPLETED, FREELIST_COMPLETED
  <1>3. ASSUME NEW p \in Proc,
               \/ EnterMerge(p)
               \/ SetMergeLevel(p)
        PROVE  Chained'
    BY <1>0, <1>3, Bounds DEF EnterMerge, SetMergeLevel, Goto, header, merging, local, Chained, Levels,
       Recorded, Detached, Listed, OneMerger, Merger, MergePC, Posted, DEFAULT, SWAP_COMPLETED,
       BITMAP_COMPLETED, FREELIST_COMPLETED
  <1>4. ASSUME NEW p \in Proc, CopyHead(p)
        PROVE  Chained'
    BY <1>0, <1>4, Bounds DEF CopyHead, Goto, header, merging, local, Chained, Levels, Recorded, Detached,
       Listed, OneMerger, Merger, MergePC, Posted, DEFAULT, SWAP_COMPLETED, BITMAP_COMPLETED,
       FREELIST_COMPLETED
  <1>5. ASSUME NEW p \in Proc, SwapFreeList(p)
        PROVE  Chained'
    <2>1. \/ /\ pc[p] = "m_swap" /\ Goto(p, "m_copy") /\ UNCHANGED <<header, chain, safe_copy>>
          \/ /\ pc[p] = "m_swap" /\ Goto(p, "m_swapped") /\ UNCHANGED <<header, safe_copy>>
             /\ chain' = free_list[mlev[p]] /\ safe_copy = (free_list[mlev[p]] # {})
      BY <1>5 DEF SwapFreeList
    <2>2. p \in Merger /\ current_merge_level = mlev[p] /\ current_merge_level # -1 /\ merge_status = DEFAULT
      BY <1>0, <2>1 DEF Merger, MergePC, Levels, Recorded
    <2>3. CASE pc' = [pc EXCEPT ![p] = "m_copy"] /\ UNCHANGED <<header, chain, safe_copy>>
      BY <1>0, <2>1, <2>2, <2>3 DEF header, Chained, OneMerger, Merger, MergePC
    <2>4. CASE /\ pc' = [pc EXCEPT ![p] = "m_swapped"] /\ UNCHANGED <<header, safe_copy>>
               /\ chain' = free_list[mlev[p]] /\ safe_copy = (free_list[mlev[p]] # {})
      <3>1. chain' # {} => safe_copy'
        BY <2>4
      <3>2. \A q \in Proc : pc'[q] \in {"m_level", "m_copy", "m_swap", "m_level_off", "m_status_off", "m_leave", "m_abandon"} => FALSE
        BY <1>0, <2>2, <2>4 DEF OneMerger, Merger, MergePC
      <3>3. QED
        BY <2>2, <2>4, <3>1, <3>2 DEF Chained, header
    <2>5. QED
      BY <2>1, <2>3, <2>4 DEF Goto
  <1>6. ASSUME NEW p \in Proc,
               \/ SetStatus(p, "m_swapped", "m_bitmap", SWAP_COMPLETED)
               \/ CreateBitmap(p)
               \/ SetStatus(p, "m_marked", "m_reset", BITMAP_COMPLETED)
               \/ ResetPostMerge(p)
        PROVE  Chained'
    BY <1>0, <1>6, Bounds DEF SetStatus, CreateBitmap, ResetPostMerge, Goto, header, merging, local, Chained,
       Levels, Recorded, Detached, Listed, OneMerger, Merger, MergePC, Posted, DEFAULT, SWAP_COMPLETED,
       BITMAP_COMPLETED, FREELIST_COMPLETED
  <1>7. ASSUME NEW p \in Proc,
               \/ MergePair(p)
               \/ SetStatus(p, "m_pairs", "m_next", FREELIST_COMPLETED)
        PROVE  Chained'
    BY <1>0, <1>7, Bounds DEF MergePair, SetStatus, Goto, header, merging, local, Chained, Levels, Recorded,
       Detached, Listed, OneMerger, Merger, MergePC, Posted, DEFAULT, SWAP_COMPLETED, BITMAP_COMPLETED,
       FREELIST_COMPLETED
  <1>8. ASSUME NEW p \in Proc, NEW u \in Unit, PopPost(p, u)
        PROVE  Chained'
    BY <1>0, <1>8, Bounds DEF PopPost, Goto, header, merging, local, Chained, Levels, Recorded, Detached,
       Listed, OneMerger, Merger, MergePC, Posted, DEFAULT, SWAP_COMPLETED, BITMAP_COMPLETED,
       FREELIST_COMPLETED
  <1>9. ASSUME NEW p \in Proc, PushPost(p)
        PROVE  Chained'
    BY <1>0, <1>9, Bounds DEF PushPost, Goto, header, merging, local, Chained, Levels, Recorded, Detached,
       Listed, OneMerger, Merger, MergePC, Posted, DEFAULT, SWAP_COMPLETED, BITMAP_COMPLETED,
       FREELIST_COMPLETED
  <1>10. ASSUME NEW p \in Proc,
               \/ PostEmpty(p)
               \/ ClearMerge(p)
               \/ ResetMergeLevel(p)
               \/ SetStatus(p, "m_status_off", "m_leave", DEFAULT)
               \/ LeaveMerge(p)
        PROVE  Chained'
    BY <1>0, <1>10, Bounds DEF PostEmpty, ClearMerge, ResetMergeLevel, SetStatus, LeaveMerge, Goto, header,
       merging, local, Chained, Levels, Recorded, Detached, Listed, OneMerger, Merger, MergePC, Posted,
       DEFAULT, SWAP_COMPLETED, BITMAP_COMPLETED, FREELIST_COMPLETED
  <1>11. CASE UNCHANGED vars
    BY <1>0, <1>11 DEF vars, header, merging, local, history, Chained, Levels, Recorded, Detached, Listed,
       OneMerger, Merger, MergePC, Posted
  <1>12. QED
    BY <1>1, <1>2, <1>3, <1>4, <1>5, <1>6, <1>7, <1>8, <1>9, <1>10, <1>11, Steps DEF MergeStep

\* When one process merges, the others do not.
LEMMA Others ==
  ASSUME OneMerger, NEW p \in Proc, pc[p] \in MergePC \ {"m_enter"}
  PROVE  \A q \in Proc \ {p} : pc[q] \notin MergePC \ {"m_enter"}
  BY DEF OneMerger, Merger

\* The level that a process works on outside of the merge.
LEMMA UserLevel ==
  ASSUME IInv, NEW p \in Proc, UserStep(p)
  PROVE  /\ pc'[p] = "m_enter" => mlev'[p] = 0
         /\ pc'[p] \in {"pop", "gc"} => 0 <= mlev'[p]
  <1>0. /\ pc \in [Proc -> PC] /\ mlev \in [Proc -> -1 .. MaxLevel]
        /\ \A q \in Proc : pc[q] \in {"pop", "gc"} => 0 <= mlev[q]
    BY DEF IInv, Control, TypeOK, Levels
  <1>1. CASE (\E l \in AllocLevel : AllocBegin(p, l)) \/ (\E u \in Unit \cup Beyond : AllocPop(p, u)) \/ AllocEmpty(p)
    <2>1. pc'[p] \in {"pop", "split", "mark", "idle"}
      BY <1>0, <1>1 DEF AllocBegin, AllocPop, AllocEmpty, Goto
    <2>2. CASE \E l \in AllocLevel : AllocBegin(p, l)
      BY <1>0, <2>1, <2>2, ZoneAssumption DEF AllocBegin
    <2>3. CASE \E u \in Unit \cup Beyond : AllocPop(p, u)
      BY <1>0, <2>1, <2>3 DEF AllocPop
    <2>4. CASE AllocEmpty(p)
      BY <1>0, <2>1, <2>4, ZoneAssumption DEF AllocEmpty, Goto
    <2>5. QED
      BY <1>1, <2>2, <2>3, <2>4
  <1>2. CASE \/ AllocSplit(p) \/ AllocMark(p) \/ (\E u \in Unit : FreeReset(p, u))
             \/ FreePush(p) \/ Die(p) \/ GCDie(p)
    <2>1. pc'[p] \in {"split", "mark", "push", "idle"}
      BY <1>0, <1>2 DEF AllocSplit, AllocMark, FreeReset, FreePush, Die, GCDie, Goto
    <2>2. QED
      BY <2>1
  <1>3. CASE MergeBegin(p) \/ GCBegin(p)
    BY <1>0, <1>3 DEF MergeBegin, GCBegin, Goto
  <1>4. CASE GCLevel(p)
    <2>1. pc'[p] \in {"gc", "idle"} /\ 0 <= mlev[p]
      BY <1>0, <1>4 DEF GCLevel, Goto
    <2>2. mlev'[p] = mlev[p] + 1 \/ mlev'[p] = 0
      BY <1>0, <1>4 DEF GCLevel
    <2>3. QED
      BY <1>0, <2>1, <2>2
  <1>5. QED
    BY <1>1, <1>2, <1>3, <1>4 DEF UserStep

\* The level in the header is the one its process works on.
LEMMA NextLevels ==
  ASSUME IInv, [Next]_vars
  PROVE  Levels'
  <1>0. /\ pc \in [Proc -> PC] /\ mlev \in [Proc -> -1 .. MaxLevel]
        /\ OneMerger /\ Levels /\ Recorded /\ current_merge_level \in -1 .. MaxLevel - 1
    BY DEF IInv, Control, TypeOK
  <1>1. ASSUME NEW p \in Proc, UserStep(p)
        PROVE  Levels'
    <2>1. Outside(p)
      BY <1>1, UserFlow DEF IInv
    <2>2. pc'[p] = "m_enter" => mlev'[p] = 0
      BY <1>1, UserLevel
    <2>3. pc'[p] \in {"pop", "gc"} => 0 <= mlev'[p]
      BY <1>1, UserLevel
    <2>4. 0 < MaxLevel
      BY ZoneAssumption
    <2>5. QED
      BY <1>0, <2>1, <2>2, <2>3, <2>4 DEF Outside, UserPC, OneMerger, Merger, MergePC, Levels, Detached,
         Listed, Recorded
  <1>2. ASSUME NEW p \in Proc, RecoverMerge(p)
        PROVE  Levels'
    <2>1. TypeOK
      BY DEF IInv
    <2>2. ResumeAt \in {"m_leave", "m_level", "m_bitmap", "m_reset"} => 0 <= current_merge_level
      BY <1>0, <2>1, Resume DEF Levels, DEFAULT, SWAP_COMPLETED, BITMAP_COMPLETED, FREELIST_COMPLETED
    <2>3. current_merge_level < MaxLevel
      BY <1>0, ZoneAssumption
    <2>4. QED
      BY <1>0, <1>2, <2>1, <2>2, <2>3, Resume, RecoverFlow DEF OneMerger, Merger, MergePC, Levels, Detached,
         Listed, Recorded, DEFAULT, SWAP_COMPLETED, BITMAP_COMPLETED, FREELIST_COMPLETED
  <1>3. ASSUME NEW p \in Proc,
               \/ EnterMerge(p)
               \/ SetMergeLevel(p)
               \/ CopyHead(p)
               \/ SwapFreeList(p)
               \/ SetStatus(p, "m_swapped", "m_bitmap", SWAP_COMPLETED)
               \/ CreateBitmap(p)
               \/ SetStatus(p, "m_marked", "m_reset", BITMAP_COMPLETED)
               \/ ResetPostMerge(p)
        PROVE  Levels'
    BY <1>0, <1>3, Bounds, ZoneAssumption DEF EnterMerge, SetMergeLevel, CopyHead, SwapFreeList, SetStatus,
       CreateBitmap, ResetPostMerge, Goto, header, merging, local, OneMerger, Merger, MergePC, Levels,
       Detached, Listed, Recorded, DEFAULT, SWAP_COMPLETED, BITMAP_COMPLETED, FREELIST_COMPLETED
  <1>4. ASSUME NEW p \in Proc,
               \/ MergePair(p)
               \/ SetStatus(p, "m_pairs", "m_next", FREELIST_COMPLETED)
        PROVE  Levels'
    BY <1>0, <1>4, Bounds, ZoneAssumption DEF MergePair, SetStatus, Goto, header, merging, local, OneMerger,
       Merger, MergePC, Levels, Detached, Listed, Recorded, DEFAULT, SWAP_COMPLETED, BITMAP_COMPLETED,
       FREELIST_COMPLETED
  <1>5. ASSUME NEW p \in Proc, NEW u \in Unit, PopPost(p, u)
        PROVE  Levels'
    BY <1>0, <1>5, Bounds, ZoneAssumption DEF PopPost, Goto, header, merging, local, OneMerger, Merger,
       MergePC, Levels, Detached, Listed, Recorded, DEFAULT, SWAP_COMPLETED, BITMAP_COMPLETED,
       FREELIST_COMPLETED
  <1>6. ASSUME NEW p \in Proc, PushPost(p)
        PROVE  Levels'
    BY <1>0, <1>6, Bounds, ZoneAssumption DEF PushPost, Goto, header, merging, local, OneMerger, Merger,
       MergePC, Levels, Detached, Listed, Recorded, DEFAULT, SWAP_COMPLETED, BITMAP_COMPLETED,
       FREELIST_COMPLETED
  <1>7. ASSUME NEW p \in Proc,
               \/ PostEmpty(p)
               \/ ClearMerge(p)
               \/ ResetMergeLevel(p)
               \/ SetStatus(p, "m_status_off", "m_leave", DEFAULT)
        PROVE  Levels'
    BY <1>0, <1>7, Bounds, ZoneAssumption DEF PostEmpty, ClearMerge, ResetMergeLevel, SetStatus, Goto, header,
       merging, local, OneMerger, Merger, MergePC, Levels, Detached, Listed, Recorded, DEFAULT,
       SWAP_COMPLETED, BITMAP_COMPLETED, FREELIST_COMPLETED
  <1>8. ASSUME NEW p \in Proc, LeaveMerge(p)
        PROVE  Levels'
    <2>1. mlev[p] < MaxLevel /\ pc[p] \in MergePC
      BY <1>0, <1>8 DEF LeaveMerge, Levels, MergePC
    <2>2. pc'[p] = "m_enter" => mlev'[p] < MaxLevel /\ 0 <= mlev'[p]
      BY <1>0, <2>1, <1>8, ZoneAssumption DEF LeaveMerge, Goto
    <2>3. pc'[p] \in {"m_enter", "idle"} /\ \A q \in Proc \ {p} : pc'[q] = pc[q] /\ mlev'[q] = mlev[q]
      BY <1>0, <1>8 DEF LeaveMerge, Goto
    <2>4. UNCHANGED <<merge_status, current_merge_level>>
      BY <1>8 DEF LeaveMerge
    <2>5. QED
      BY <1>0, <2>2, <2>3, <2>4 DEF Levels, Detached, Listed, MergePC
  <1>9. CASE UNCHANGED vars
    BY <1>0, <1>9 DEF vars, header, merging, local, history, OneMerger, Merger, MergePC, Levels, Detached,
       Listed, Recorded
  <1>10. QED
    BY <1>1, <1>2, <1>3, <1>4, <1>5, <1>6, <1>7, <1>8, <1>9, Steps DEF MergeStep

\* The lists built and the bitmap they are built from are in the header.
LEMMA SamePaired ==
  ASSUME UNCHANGED <<current_merge_level, bitmap, post_merge_level, post_merge_next_level>>
  PROVE  Paired' = Paired
  BY DEF Paired

\* The lists that a merge builds, and when they are empty.
LEMMA NextPosted ==
  ASSUME IInv, [Next]_vars
  PROVE  Posted'
  <1>0. /\ pc \in [Proc -> PC] /\ mlev \in [Proc -> -1 .. MaxLevel]
        /\ Recorded /\ OneMerger /\ Chained /\ Levels /\ Posted /\ Alone
    BY DEF IInv, Control, TypeOK
  <1>1. ASSUME NEW p \in Proc, UserStep(p)
        PROVE  Posted'
    <2>1. Outside(p)
      BY <1>1, UserFlow DEF IInv
    <2>2. bitmap' = bitmap \/ \A q \in Proc : pc[q] # "m_pairs"
      BY <1>0, <1>1 DEF UserStep, AllocBegin, AllocPop, AllocEmpty, AllocSplit, AllocMark, FreeReset,
         FreePush, MergeBegin, Die, GCBegin, GCLevel, GCDie, merging, Alone
    <2>3. Paired' = Paired \/ \A q \in Proc : pc[q] # "m_pairs"
      BY <2>1, <2>2, SamePaired DEF Outside
    <2>4. QED
      BY <1>0, <2>1, <2>3 DEF Outside, UserPC, Posted
  <1>2. ASSUME NEW p \in Proc, RecoverMerge(p)
        PROVE  Posted'
    <2>1. TypeOK
      BY DEF IInv
    <2>2. QED
      BY <1>0, <1>2, <2>1, Resume, RecoverFlow DEF Posted, Merger, MergePC, DEFAULT, SWAP_COMPLETED,
         BITMAP_COMPLETED, FREELIST_COMPLETED
  <1>3. ASSUME NEW p \in Proc, EnterMerge(p)
        PROVE  Posted'
    <2>1. Paired' = Paired
      BY <1>3, SamePaired DEF EnterMerge, header, merging
    <2>2. QED
      BY <1>0, <1>3, <2>1, Bounds DEF EnterMerge, Goto, header, merging, local, Posted, Levels, Recorded,
         Chained, Detached, Listed, OneMerger, Merger, MergePC, DEFAULT, SWAP_COMPLETED, BITMAP_COMPLETED,
         FREELIST_COMPLETED
  <1>4. ASSUME NEW p \in Proc, SetMergeLevel(p)
        PROVE  Posted'
    BY <1>0, <1>4, Bounds DEF SetMergeLevel, Goto, header, merging, local, Posted, Levels, Recorded, Chained,
       Detached, Listed, OneMerger, Merger, MergePC, DEFAULT, SWAP_COMPLETED, BITMAP_COMPLETED,
       FREELIST_COMPLETED
  <1>5. ASSUME NEW p \in Proc,
               \/ CopyHead(p)
               \/ SwapFreeList(p)
        PROVE  Posted'
    BY <1>0, <1>5, Bounds DEF CopyHead, SwapFreeList, Goto, header, merging, local, Posted, Levels, Recorded,
       Chained, Detached, Listed, OneMerger, Merger, MergePC, DEFAULT, SWAP_COMPLETED, BITMAP_COMPLETED,
       FREELIST_COMPLETED
  <1>6. ASSUME NEW p \in Proc,
               \/ SetStatus(p, "m_swapped", "m_bitmap", SWAP_COMPLETED)
               \/ CreateBitmap(p)
        PROVE  Posted'
    BY <1>0, <1>6, Bounds DEF SetStatus, CreateBitmap, Goto, header, merging, local, Posted, Levels, Recorded,
       Chained, Detached, Listed, OneMerger, Merger, MergePC, DEFAULT, SWAP_COMPLETED, BITMAP_COMPLETED,
       FREELIST_COMPLETED
  <1>7. ASSUME NEW p \in Proc, SetStatus(p, "m_marked", "m_reset", BITMAP_COMPLETED)
        PROVE  Posted'
    BY <1>0, <1>7, Bounds DEF SetStatus, Goto, header, merging, local, Posted, Levels, Recorded, Chained,
       Detached, Listed, OneMerger, Merger, MergePC, DEFAULT, SWAP_COMPLETED, BITMAP_COMPLETED,
       FREELIST_COMPLETED
  <1>8. ASSUME NEW p \in Proc, ResetPostMerge(p)
        PROVE  Posted'
    <2>1. Paired'
      BY <1>8 DEF ResetPostMerge, Paired
    <2>2. \A q \in Proc : pc'[q] = "m_pairs" \/ (pc'[q] = pc[q] /\ pc[q] \notin MergePC \ {"m_enter"})
      <3>1. \A q \in Proc \ {p} : pc[q] \notin MergePC \ {"m_enter"}
        BY <1>0, <1>8, Others DEF ResetPostMerge, MergePC
      <3>2. QED
        <4>1. pc' = [pc EXCEPT ![p] = "m_pairs"] /\ pc \in [Proc -> PC]
          BY <1>0, <1>8 DEF ResetPostMerge, Goto
        <4>2. \A q \in Proc \ {p} : pc'[q] = pc[q]
          BY <4>1
        <4>3. pc'[p] = "m_pairs"
          BY <4>1
        <4>4. QED
          BY <3>1, <4>2, <4>3
    <2>3. merge_status' = BITMAP_COMPLETED
      BY <1>0, <1>8 DEF ResetPostMerge, header, Recorded
    <2>4. QED
      BY <2>1, <2>2, <2>3 DEF Posted, MergePC, BITMAP_COMPLETED, FREELIST_COMPLETED
  <1>9. ASSUME NEW p \in Proc, MergePair(p)
        PROVE  Posted'
    <2> DEFINE i == Min(PairsLeft(p))
               l == current_merge_level
    <2>1. pc[p] = "m_pairs" /\ Paired /\ merge_status = BITMAP_COMPLETED /\ mlev[p] = l
      BY <1>0, <1>9 DEF MergePair, Posted, Recorded, Levels, Detached
    <2>2. i \in PairsLeft(p)
      <3>1. PairsLeft(p) \in SUBSET Nat /\ PairsLeft(p) # {}
        BY <1>9, Bounds DEF MergePair, PairsLeft
      <3>2. QED
        BY <3>1, Least, Zenon
    <2>3. i \in Unit /\ i \in Nat /\ i % 2 = 0
      BY <2>2, Bounds DEF PairsLeft
    <2>4. UNCHANGED <<bitmap, header, chain, pc>>
      BY <1>9 DEF MergePair, local
    <2>5. l' = l /\ merge_status' = merge_status
      BY <2>4 DEF header
    <2>6. \/ /\ {i, i + 1} \subseteq bitmap
             /\ post_merge_next_level' = post_merge_next_level \cup {i * Size(l)}
             /\ post_merge_level' = post_merge_level
          \/ /\ ~({i, i + 1} \subseteq bitmap)
             /\ post_merge_level' = post_merge_level \cup {j * Size(l) : j \in bitmap \cap {i, i + 1}}
             /\ post_merge_next_level' = post_merge_next_level
      BY <1>9, <2>1, Zenon DEF MergePair
    <2> HIDE DEF i
    <2>7. ASSUME NEW v \in post_merge_next_level'
          PROVE  \E k \in Unit : k % 2 = 0 /\ {k, k + 1} \subseteq bitmap /\ v = k * Size(l)
      BY <2>1, <2>3, <2>6 DEF Paired
    <2>8. ASSUME NEW v \in post_merge_level'
          PROVE  \E j \in bitmap : /\ v = j * Size(l)
                                   /\ j % 2 = 0 => j + 1 \notin bitmap
                                   /\ j % 2 = 1 => j - 1 \notin bitmap
      <3>1. CASE v \in post_merge_level
        BY <2>1, <3>1 DEF Paired
      <3>2. CASE v \notin post_merge_level
        <4>1. PICK j \in bitmap \cap {i, i + 1} : v = j * Size(l)
          BY <2>6, <3>2
        <4>2. i \notin bitmap \/ i + 1 \notin bitmap
          BY <2>6, <3>2
        <4>3. CASE j = i
          BY <2>3, <4>1, <4>2, <4>3
        <4>4. CASE j = i + 1
          <5>1. j % 2 = 1 /\ j - 1 = i /\ i \notin bitmap
            BY <2>3, <4>1, <4>2, <4>4
          <5>2. QED
            BY <4>1, <5>1
        <4>5. QED
          BY <4>1, <4>3, <4>4
      <3>3. QED
        BY <3>1, <3>2
    <2>9. Paired'
      BY <2>4, <2>5, <2>7, <2>8 DEF Paired, Unit
    <2>10. \A q \in Proc : pc'[q] = "m_pairs" \/ pc'[q] \notin MergePC \ {"m_enter"}
      BY <1>0, <2>1, <2>4 DEF OneMerger, Merger, MergePC
    <2>11. QED
      BY <2>1, <2>5, <2>9, <2>10 DEF Posted, MergePC, BITMAP_COMPLETED, FREELIST_COMPLETED
  <1>10. ASSUME NEW p \in Proc, SetStatus(p, "m_pairs", "m_next", FREELIST_COMPLETED)
        PROVE  Posted'
    BY <1>0, <1>10, Bounds DEF SetStatus, Goto, header, merging, local, Posted, Levels, Recorded, Chained,
       Detached, Listed, OneMerger, Merger, MergePC, DEFAULT, SWAP_COMPLETED, BITMAP_COMPLETED,
       FREELIST_COMPLETED
  <1>11. ASSUME NEW p \in Proc, NEW u \in Unit, PopPost(p, u)
        PROVE  Posted'
    <2>1. ~collected
      BY <1>0, <1>11 DEF Alone, PopPost
    <2>2. current_merge_level # -1 /\ current_merge_level = mlev[p]
      <3>1. current_merge_level = mlev[p] /\ mlev[p] \in 0 .. MaxLevel - 1
        BY <1>11, <2>1, FreshPost
      <3>2. QED
        BY <3>1, ZoneAssumption
    <2>3. \/ /\ pc[p] = "m_next" /\ pc' = [pc EXCEPT ![p] = "m_push_next"] /\ UNCHANGED header
          \/ /\ pc[p] = "m_rest" /\ pc' = [pc EXCEPT ![p] = "m_push_rest"] /\ UNCHANGED header
             /\ UNCHANGED post_merge_next_level
      BY <1>11 DEF PopPost, Goto
    <2>4. \A q \in Proc : \/ pc'[q] = "m_push_next"
                          \/ pc'[q] = "m_push_rest" /\ post_merge_next_level' = {}
                          \/ pc'[q] \notin MergePC \ {"m_enter"}
      <3>1. \A q \in Proc \ {p} : pc[q] \notin MergePC \ {"m_enter"}
        BY <1>0, <2>3, Others DEF MergePC
      <3>2. pc[p] = "m_rest" => post_merge_next_level = {}
        BY <1>0 DEF Posted
      <3>3. QED
        <4>1. \A q \in Proc \ {p} : pc'[q] = pc[q]
          BY <1>0, <2>3
        <4>2. pc'[p] = "m_push_next" \/ (pc'[p] = "m_push_rest" /\ post_merge_next_level' = {})
          BY <1>0, <2>3, <3>2
        <4>3. "m_push_next" # "m_push_rest"
          OBVIOUS
        <4>4. QED
          BY <3>1, <4>1, <4>2
    <2>5. QED
      BY <2>2, <2>3, <2>4 DEF Posted, MergePC, header
  <1>12. ASSUME NEW p \in Proc,
               \/ PushPost(p)
               \/ PostEmpty(p)
        PROVE  Posted'
    BY <1>0, <1>12, Bounds DEF PushPost, PostEmpty, Goto, header, merging, local, Posted, Levels, Recorded,
       Chained, Detached, Listed, OneMerger, Merger, MergePC, DEFAULT, SWAP_COMPLETED, BITMAP_COMPLETED,
       FREELIST_COMPLETED
  <1>13. ASSUME NEW p \in Proc,
               \/ ClearMerge(p)
               \/ ResetMergeLevel(p)
               \/ SetStatus(p, "m_status_off", "m_leave", DEFAULT)
               \/ LeaveMerge(p)
        PROVE  Posted'
    BY <1>0, <1>13, Bounds DEF ClearMerge, ResetMergeLevel, SetStatus, LeaveMerge, Goto, header, merging,
       local, Posted, Levels, Recorded, Chained, Detached, Listed, OneMerger, Merger, MergePC, DEFAULT,
       SWAP_COMPLETED, BITMAP_COMPLETED, FREELIST_COMPLETED
  <1>14. CASE UNCHANGED vars
    <2>1. Paired' = Paired
      BY <1>14, SamePaired DEF vars, header, merging
    <2>2. QED
      BY <1>0, <1>14, <2>1 DEF Posted, vars, header, merging, local
  <1>15. QED
    BY <1>1, <1>2, <1>3, <1>4, <1>5, <1>6, <1>7, <1>8, <1>9, <1>10, <1>11, <1>12, <1>13, <1>14, Steps DEF
       MergeStep

\* Garbage collection and the rest do not mix.
LEMMA GCOrWork ==
  ASSUME IInv, NEW p \in Proc, UserStep(p) \/ MergeStep(p) \/ RecoverMerge(p)
  PROVE  \/ GCBegin(p) \/ GCLevel(p) \/ GCDie(p)
         \/ /\ ~collected /\ collected' = collected
            /\ \A q \in Proc : pc[q] # "gc" /\ pc'[q] # "gc"
  <1> SUFFICES ASSUME ~GCBegin(p), ~GCLevel(p), ~GCDie(p)
               PROVE  /\ ~collected /\ collected' = collected
                      /\ \A q \in Proc : pc[q] # "gc" /\ pc'[q] # "gc"
    OBVIOUS
  <1>0. TypeOK /\ Alone /\ pc \in [Proc -> PC]
    BY DEF IInv, Control, TypeOK
  <1>1. CASE UserStep(p)
    <2>1. /\ pc[p] # "gc" /\ pc'[p] # "gc" /\ collected' = collected
          /\ pc[p] # "idle" \/ Online
      BY <1>0, <1>1 DEF UserStep, AllocBegin, AllocPop, AllocEmpty, AllocSplit, AllocMark, FreeReset,
         FreePush, MergeBegin, Die, Goto, history
    <2>2. \A q \in Proc \ {p} : pc'[q] = pc[q]
      BY <1>0, <1>1, UserFlow DEF Outside
    <2>3. QED
      BY <1>0, <2>1, <2>2 DEF Alone, Online
  <1>2. CASE MergeStep(p)
    <2>1. pc[p] \in MergePC /\ pc'[p] # "gc" /\ collected' = collected
      BY <1>0, <1>2 DEF MergeStep, EnterMerge, SetMergeLevel, CopyHead, SwapFreeList, SetStatus,
         CreateBitmap, ResetPostMerge, MergePair, PopPost, PushPost, PostEmpty, ClearMerge,
         ResetMergeLevel, LeaveMerge, Goto, history, local, MergePC
    <2>2. \A q \in Proc \ {p} : pc'[q] = pc[q]
      BY <1>0, <1>2 DEF MergeStep, EnterMerge, SetMergeLevel, CopyHead, SwapFreeList, SetStatus,
         CreateBitmap, ResetPostMerge, MergePair, PopPost, PushPost, PostEmpty, ClearMerge,
         ResetMergeLevel, LeaveMerge, Goto, local
    <2>3. pc[p] # "gc" /\ pc[p] # "idle"
      BY <2>1 DEF MergePC
    <2>4. QED
      BY <1>0, <2>1, <2>2, <2>3 DEF Alone
  <1>3. CASE RecoverMerge(p)
    <2>1. pc'[p] # "gc" /\ collected' = collected /\ ~collected
      BY <1>0, <1>3, Resume, RecoverFlow DEF RecoverMerge
    <2>2. QED
      BY <1>0, <1>3, <2>1, RecoverFlow
  <1>4. QED
    BY <1>1, <1>2, <1>3

HandPC == {"split", "mark", "push", "m_push_next", "m_push_rest"}

\* The other processes stand still.
Still(p) ==
  \A q \in Proc \ {p} : pc'[q] = pc[q] /\ want'[q] = want[q] /\ mlev'[q] = mlev[q]

\* A step of a process leaves the locals of the others alone.
LEMMA StillSteps ==
  ASSUME IInv, NEW p \in Proc, UserStep(p) \/ MergeStep(p) \/ RecoverMerge(p)
  PROVE  Still(p)
  <1>0. TypeOK /\ pc \in [Proc -> PC] /\ want \in [Proc -> Level] /\ mlev \in [Proc -> -1 .. MaxLevel]
    BY DEF IInv, TypeOK
  <1>1. CASE UserStep(p)
    <2>1. \A q \in Proc \ {p} : want'[q] = want[q]
      BY <1>0, <1>1 DEF UserStep, AllocBegin, AllocPop, AllocEmpty, AllocSplit, AllocMark, FreeReset,
         FreePush, MergeBegin, Die, GCBegin, GCLevel, GCDie, local
    <2>2. QED
      BY <1>0, <1>1, <2>1, UserFlow DEF Outside, Still
  <1>2. CASE MergeStep(p)
    BY <1>0, <1>2 DEF MergeStep, EnterMerge, SetMergeLevel, CopyHead, SwapFreeList, SetStatus,
       CreateBitmap, ResetPostMerge, MergePair, PopPost, PushPost, PostEmpty, ClearMerge,
       ResetMergeLevel, LeaveMerge, Goto, local, Still
  <1>3. CASE RecoverMerge(p)
    BY <1>0, <1>3, RecoverFlow DEF RecoverMerge, Still
  <1>4. QED
    BY <1>1, <1>2, <1>3

\* Who has a chunk in hand.
LEMMA NextHolding ==
  ASSUME IInv, [Next]_vars
  PROVE  Holding'
  <1>0. /\ TypeOK /\ Holding
        /\ pc \in [Proc -> PC] /\ want \in [Proc -> Level] /\ mlev \in [Proc -> -1 .. MaxLevel]
        /\ hand \in [Proc -> (Unit \X Level) \cup {NoChunk}]
        /\ \A l \in Level : l \in 0 .. 8
        /\ MaxLevel \in 1 .. 8
    BY Bounds DEF IInv, Control, TypeOK
  <1>1. ASSUME NEW p \in Proc, Still(p), UNCHANGED hand, pc[p] \notin HandPC, pc'[p] \notin HandPC,
               pc'[p] = "pop" => want'[p] <= mlev'[p]
        PROVE  Holding'
    BY <1>0, <1>1 DEF Holding, Still, HandPC
  <1>2. ASSUME NEW p \in Proc, Still(p), Take(p, NoChunk), pc'[p] \notin HandPC, pc'[p] # "pop"
        PROVE  Holding'
    BY <1>0, <1>2 DEF Holding, Still, HandPC, Take
  <1>3. ASSUME NEW p \in Proc, Still(p), NEW u \in Unit, NEW l \in Level, Take(p, <<u, l>>), pc'[p] \in HandPC,
               \A q \in Proc : hand[q] # <<u, l>>,
               pc'[p] = "split" => want'[p] < l, pc'[p] = "mark" => want'[p] = l
        PROVE  Holding'
    <2>1. <<u, l>> # NoChunk
      <3>1. u \in Nat /\ l \in Nat
        BY Bounds, LevelSize
      <3>2. QED
        BY <3>1, ZoneAssumption
    <2>2. hand'[p] = <<u, l>> /\ \A q \in Proc \ {p} : hand'[q] = hand[q]
      BY <1>0, <1>3 DEF Take
    <2>3. \A q \in Proc : hand'[q] # NoChunk <=> pc'[q] \in HandPC
      BY <1>0, <1>3, <2>1, <2>2 DEF Holding, Still, HandPC
    <2>4. \A q, r \in Proc : q # r /\ hand'[q] = hand'[r] => hand'[q] = NoChunk
      BY <1>0, <1>3, <2>2 DEF Holding
    <2>5. /\ \A q \in Proc : pc'[q] = "split" => want'[q] < hand'[q][2]
          /\ \A q \in Proc : pc'[q] = "mark" => want'[q] = hand'[q][2]
          /\ \A q \in Proc : pc'[q] = "pop" => want'[q] <= mlev'[q]
      BY <1>0, <1>3, <2>2 DEF Holding, Still, HandPC
    <2>6. QED
      BY <2>3, <2>4, <2>5 DEF Holding, HandPC
  <1>4. ASSUME NEW p \in Proc, UserStep(p)
        PROVE  Holding'
    <2>0. Still(p)
      BY <1>4, StillSteps
    <2>1. CASE \E l \in AllocLevel : AllocBegin(p, l)
      <3>1. PICK l \in AllocLevel : AllocBegin(p, l)
        BY <2>1
      <3>2. pc[p] = "idle" /\ pc'[p] = "pop" /\ want'[p] = l /\ mlev'[p] = l /\ l <= l /\ UNCHANGED hand
        BY <1>0, <3>1, ZoneAssumption DEF AllocBegin, Goto
      <3>3. QED
        BY <1>1, <2>0, <3>2 DEF HandPC
    <2>2. CASE \E u \in Unit \cup Beyond : AllocPop(p, u)
      <3>1. PICK u \in Unit \cup Beyond : AllocPop(p, u)
        BY <2>2
      <3>2. ~collected
        BY <3>1, GCOrWork, <1>4, <1>0 DEF IInv, Control, Alone, AllocPop
      <3>3. mlev[p] \in Level /\ u \in Unit /\ \A q \in Proc : hand[q] # <<u, mlev[p]>>
        BY <3>1, <3>2, Fresh
      <3>4. want[p] <= mlev[p] /\ want'[p] = want[p] /\ want[p] \in 0 .. 8 /\ mlev[p] \in 0 .. 8
        BY <1>0, <3>1, <3>3 DEF AllocPop, Holding
      <3>5. IF mlev[p] = want[p] THEN pc'[p] = "mark" ELSE pc'[p] = "split"
        BY <1>0, <3>1 DEF AllocPop, Goto
      <3>6. Take(p, <<u, mlev[p]>>)
        BY <3>1 DEF AllocPop
      <3>7. QED
        BY <1>3, <2>0, <3>3, <3>4, <3>5, <3>6 DEF HandPC
    <2>3. CASE AllocEmpty(p)
      <3>1. pc[p] = "pop" /\ UNCHANGED hand /\ want[p] <= mlev[p]
        BY <1>0, <2>3 DEF AllocEmpty, Holding
      <3>2. \/ pc'[p] = "idle"
            \/ pc'[p] = "pop" /\ want'[p] = want[p] /\ mlev'[p] = mlev[p] + 1
        BY <1>0, <2>3 DEF AllocEmpty, Goto
      <3>3. mlev[p] \in Int /\ want[p] \in Int
        BY <1>0
      <3>4. QED
        BY <1>1, <2>0, <3>1, <3>2, <3>3 DEF HandPC
    <2>4. CASE AllocSplit(p)
      <3>1. ~collected
        BY <2>4 DEF IInv, Control, Alone, AllocSplit
      <3>2. /\ hand[p][1] \in Unit /\ hand[p][2] \in Level \ {0} /\ hand[p][2] - 1 \in Level
            /\ \A q \in Proc : hand[q] # <<hand[p][1], hand[p][2] - 1>>
        BY <2>4, <3>1, Fresh
      <3>3. want[p] < hand[p][2] /\ want'[p] = want[p] /\ want[p] \in 0 .. 8 /\ hand[p][2] \in 0 .. 8
        BY <1>0, <2>4, <3>2 DEF AllocSplit, Holding
      <3>4. IF hand[p][2] - 1 = want[p] THEN pc'[p] = "mark" ELSE pc'[p] = "split"
        BY <1>0, <2>4 DEF AllocSplit, Goto
      <3>5. Take(p, <<hand[p][1], hand[p][2] - 1>>)
        BY <2>4 DEF AllocSplit
      <3>6. pc'[p] = "split" => want'[p] < hand[p][2] - 1
        BY <3>3, <3>4
      <3>7. QED
        BY <1>3, <2>0, <3>2, <3>3, <3>4, <3>5, <3>6 DEF HandPC
    <2>5. CASE \E u \in Unit : FreeReset(p, u)
      <3>1. PICK u \in Unit : FreeReset(p, u)
        BY <2>5
      <3>2. ~collected
        BY <3>1 DEF FreeReset, Online
      <3>3. entry[u] \in Level /\ \A q \in Proc : hand[q] # <<u, entry[u]>>
        BY <3>1, <3>2, Fresh
      <3>4. Take(p, <<u, entry[u]>>) /\ pc'[p] = "push"
        BY <1>0, <3>1 DEF FreeReset, Goto
      <3>5. QED
        BY <1>3, <2>0, <3>3, <3>4 DEF HandPC
    <2>6. CASE AllocMark(p) \/ FreePush(p) \/ Die(p)
      <3>1. Take(p, NoChunk) /\ pc'[p] = "idle"
        BY <1>0, <2>6 DEF AllocMark, FreePush, Die, Goto
      <3>2. QED
        BY <1>2, <2>0, <3>1 DEF HandPC
    <2>7. CASE MergeBegin(p) \/ GCBegin(p) \/ GCLevel(p) \/ GCDie(p)
      <3>1. pc[p] \in {"idle", "gc"} /\ pc'[p] \in {"idle", "gc", "m_enter"} /\ UNCHANGED hand
        BY <1>0, <2>7 DEF MergeBegin, GCBegin, GCLevel, GCDie, Goto
      <3>2. QED
        BY <1>1, <2>0, <3>1 DEF HandPC
    <2>8. QED
      BY <1>4, <2>1, <2>2, <2>3, <2>4, <2>5, <2>6, <2>7 DEF UserStep
  <1>5. ASSUME NEW p \in Proc, MergeStep(p)
        PROVE  Holding'
    <2>0. Still(p)
      BY <1>5, StillSteps
    <2>1. CASE \E u \in Unit : PopPost(p, u)
      <3>1. PICK u \in Unit : PopPost(p, u)
        BY <2>1
      <3>2. ~collected
        BY <3>1 DEF IInv, Control, Alone, PopPost
      <3> DEFINE l == IF pc[p] = "m_next" THEN mlev[p] + 1 ELSE mlev[p]
      <3>3. Take(p, <<u, l>>) /\ l \in Level /\ \A q \in Proc : hand[q] # <<u, l>>
        BY <3>1, <3>2, FreshPost
      <3>4. pc'[p] \in {"m_push_next", "m_push_rest"}
        BY <1>0, <3>1 DEF PopPost, Goto
      <3> HIDE DEF l
      <3>5. QED
        BY <1>3, <2>0, <3>3, <3>4 DEF HandPC
    <2>2. CASE PushPost(p)
      <3>1. Take(p, NoChunk) /\ pc'[p] \in {"m_next", "m_rest"}
        BY <1>0, <2>2 DEF PushPost, Goto
      <3>2. QED
        BY <1>2, <2>0, <3>1 DEF HandPC
    <2>3. CASE ~(\E u \in Unit : PopPost(p, u)) /\ ~PushPost(p)
      <3>1. /\ pc[p] \in MergePC \ HandPC /\ pc'[p] \in (MergePC \cup {"idle"}) \ HandPC
            /\ UNCHANGED hand
        BY <1>0, <1>5, <2>3 DEF MergeStep, EnterMerge, SetMergeLevel, CopyHead, SwapFreeList, SetStatus,
           CreateBitmap, ResetPostMerge, MergePair, PostEmpty, ClearMerge,
           ResetMergeLevel, LeaveMerge, Goto, local, MergePC, HandPC
      <3>2. pc'[p] # "pop"
        BY <3>1 DEF MergePC
      <3>3. QED
        BY <1>1, <2>0, <3>1, <3>2
    <2>4. QED
      BY <2>1, <2>2, <2>3
  <1>6. ASSUME NEW p \in Proc, RecoverMerge(p)
        PROVE  Holding'
    <2>1. pc[p] = "idle" /\ pc'[p] \notin HandPC \cup {"pop"}
      BY <1>0, <1>6, Resume, RecoverFlow DEF HandPC
    <2>2. UNCHANGED hand
      BY <1>6 DEF RecoverMerge
    <2>3. QED
      BY <1>1, <1>6, <2>1, <2>2, StillSteps DEF HandPC
  <1>7. CASE UNCHANGED vars
    BY <1>0, <1>7 DEF vars, local, Holding
  <1>8. QED
    BY <1>4, <1>5, <1>6, <1>7, Steps

\* Garbage collection is alone, and it alone sets bits beyond the zone.
LEMMA NextAlone ==
  ASSUME IInv, [Next]_vars
  PROVE  Alone'
  <1>0. TypeOK /\ Alone /\ pc \in [Proc -> PC] /\ mlev \in [Proc -> -1 .. MaxLevel]
    BY DEF IInv, Control, TypeOK
  <1>1. ASSUME NEW p \in Proc, UserStep(p) \/ MergeStep(p) \/ RecoverMerge(p),
               ~collected, collected' = collected, \A q \in Proc : pc'[q] # "gc"
        PROVE  Alone'
    <2>1. bitmap \subseteq Unit
      BY <1>0, <1>1 DEF Alone
    <2>2. CASE CreateBitmap(p)
      <3>1. chain \subseteq Unit
        BY <1>0 DEF TypeOK
      <3>2. mlev[p] \in 0 .. 8
        <4>1. 0 <= mlev[p] /\ mlev[p] \in -1 .. MaxLevel /\ MaxLevel \in 1 .. 8
          BY <1>0, <2>2, Bounds DEF IInv, Control, Levels, Detached, CreateBitmap
        <4>2. QED
          BY <4>1
      <3>3. \A u \in chain : u \div Size(mlev[p]) \in Unit
        <4>1. \A u \in Nat : u \div Size(mlev[p]) \in Nat /\ u \div Size(mlev[p]) <= u
          BY <3>2, Multiples
        <4>2. ASSUME NEW u \in chain
              PROVE  u \div Size(mlev[p]) \in Unit
          <5> DEFINE w == u \div Size(mlev[p])
          <5>1. u \in Nat /\ u < Size(MaxLevel) /\ Size(MaxLevel) \in Nat
            BY <3>1, Bounds
          <5>2. w \in Nat /\ w <= u
            BY <4>1, <5>1
          <5> HIDE DEF w
          <5>3. w < Size(MaxLevel)
            BY <5>1, <5>2
          <5>4. w \in Unit
            BY <5>2, <5>3, Bounds
          <5>5. QED
            BY <5>4 DEF w
        <4>3. QED
          BY <4>2
      <3>4. bitmap' \subseteq Unit
        BY <2>1, <2>2, <3>3 DEF CreateBitmap
      <3>5. QED
        BY <1>1, <3>4 DEF Alone, Unit
    <2>3. CASE GCBegin(p) \/ GCLevel(p)
      <3>1. pc'[p] = "gc" \/ collected'
        BY <1>0, <2>3 DEF GCBegin, GCLevel, Goto
      <3>2. QED
        BY <1>1, <3>1
    <2>4. CASE ~CreateBitmap(p) /\ ~GCBegin(p) /\ ~GCLevel(p)
      <3>1. bitmap' \subseteq bitmap
        <4>1. CASE UserStep(p)
          BY <2>4, <4>1 DEF UserStep, AllocBegin, AllocPop, AllocEmpty, AllocSplit, AllocMark, FreeReset,
             FreePush, MergeBegin, Die, GCDie, merging
        <4>2. CASE MergeStep(p)
          BY <2>4, <4>2 DEF MergeStep, EnterMerge, SetMergeLevel, CopyHead, SwapFreeList, SetStatus,
             ResetPostMerge, MergePair, PopPost, PushPost, PostEmpty, ClearMerge,
             ResetMergeLevel, LeaveMerge, merging
        <4>3. CASE RecoverMerge(p)
          BY <4>3 DEF RecoverMerge
        <4>4. QED
          BY <1>1, <4>1, <4>2, <4>3
      <3>2. QED
        BY <1>1, <2>1, <3>1 DEF Alone, Unit
    <2>5. QED
      BY <2>2, <2>3, <2>4
  <1>2. ASSUME NEW p \in Proc, GCBegin(p)
        PROVE  Alone'
    <2>1. /\ \A q \in Proc \ {p} : pc'[q] = "idle"
          /\ merge_in_progress' = 0 /\ ~collected' /\ bitmap' = bitmap \cap Beyond /\ ~collected
      BY <1>0, <1>2 DEF GCBegin, Goto, header, history
    <2>2. bitmap' \subseteq Unit
      BY <1>0, <2>1 DEF Alone
    <2>3. QED
      BY <2>1, <2>2 DEF Alone, Unit
  <1>3. ASSUME NEW p \in Proc, GCLevel(p)
        PROVE  Alone'
    <2>1. pc[p] = "gc" /\ merge_in_progress = 0 /\ \A q \in Proc \ {p} : pc[q] = "idle"
      BY <1>0, <1>3 DEF GCLevel, Alone
    <2>2. /\ pc'[p] = "idle" \/ (~collected' /\ mlev[p] < MaxLevel)
          /\ \A q \in Proc \ {p} : pc'[q] = "idle"
          /\ merge_in_progress' = 0
      <3>1. ~collected
        BY <1>3, <2>1, GCAlone
      <3>2. QED
        BY <1>0, <1>3, <2>1, <3>1 DEF GCLevel, Goto, header
    <2>3. ~collected' => bitmap' \subseteq Unit
      <3>1. SUFFICES ASSUME ~collected'
                     PROVE  bitmap' \subseteq Unit
        OBVIOUS
      <3> DEFINE l == mlev[p]
      <3>2. l < MaxLevel
        BY <1>0, <1>3, <3>1 DEF GCLevel
      <3>3. bitmap' = KnownBits(p) \cup UNION {Units(<<u, l>>) : u \in NewChunks(p)}
        BY <1>3, Zenon DEF GCLevel, KnownBits, NewChunks
      <3>4. KnownBits(p) \subseteq Unit
        BY <2>1, KnownIs
      <3>5. ASSUME NEW n \in NewChunks(p), NEW u \in Units(<<n, l>>)
            PROVE  u \in Unit
        <4>1. n \in Unit /\ n % Size(l) = 0 /\ l \in Level
          BY <2>1, <3>2, NewIs, GCAlone
        <4>2. n + Size(l) <= Size(MaxLevel)
          BY <4>1, Inside
        <4>3. n \in Nat /\ Size(l) \in Nat /\ Size(MaxLevel) \in Nat
          BY <4>1, LevelSize, Bounds
        <4>4. u \in n .. n + Size(l) - 1
          BY <3>5 DEF Units
        <4>5. u \in Nat /\ u < Size(MaxLevel)
          BY <4>2, <4>3, <4>4
        <4>6. QED
          BY <4>5, Bounds
      <3> HIDE DEF l
      <3>6. QED
        BY <3>3, <3>4, <3>5
    <2>4. \A q \in Proc : pc'[q] = "gc" => \A r \in Proc \ {q} : pc'[r] = "idle"
      BY <2>2
    <2>5. collected' => \A q \in Proc : pc'[q] = "idle"
      BY <2>2
    <2>6. QED
      BY <2>2, <2>3, <2>4, <2>5 DEF Alone, Unit
  <1>4. ASSUME NEW p \in Proc, GCDie(p)
        PROVE  Alone'
    BY <1>0, <1>4 DEF GCDie, Goto, header, merging, history, Alone
  <1>5. CASE UNCHANGED vars
    BY <1>0, <1>5 DEF vars, header, merging, local, history, Alone
  <1>6. QED
    BY <1>1, <1>2, <1>3, <1>4, <1>5, Steps, GCOrWork

\* The first unit stays in use.
LEMMA NextFirst ==
  ASSUME IInv, [Next]_vars
  PROVE  entry'[0] = 0
  <1>0. entry[0] = 0 /\ TypeOK /\ Alone /\ entry \in [Unit -> Level \cup {Free}]
    BY DEF IInv, Control, TypeOK
  <1>1. ASSUME NEW p \in Proc, UserStep(p)
        PROVE  entry'[0] = 0
    <2>1. CASE AllocMark(p)
      <3>1. ~collected
        BY <1>0, <2>1 DEF Alone, AllocMark
      <3>2. PICK u \in Unit, l \in Level : u # 0 /\ entry' = [entry EXCEPT ![u] = l]
        BY <2>1, <3>1, MarkTiles
      <3>3. QED
        BY <1>0, <3>2, Bounds
    <2>2. CASE \E u \in Unit : FreeReset(p, u)
      BY <1>0, <2>2, Bounds DEF FreeReset
    <2>3. CASE ~AllocMark(p) /\ ~(\E u \in Unit : FreeReset(p, u))
      <3>1. UNCHANGED entry
        BY <1>1, <2>3 DEF UserStep, AllocBegin, AllocPop, AllocEmpty, AllocSplit,
           FreePush, MergeBegin, Die, GCBegin, GCLevel, GCDie
      <3>2. QED
        BY <1>0, <3>1
    <2>4. QED
      BY <2>1, <2>2, <2>3
  <1>2. ASSUME NEW p \in Proc, MergeStep(p) \/ RecoverMerge(p)
        PROVE  entry'[0] = 0
    <2>1. UNCHANGED entry
      BY <1>2 DEF MergeStep, EnterMerge, SetMergeLevel, CopyHead, SwapFreeList, SetStatus, CreateBitmap,
         ResetPostMerge, MergePair, PopPost, PushPost, PostEmpty, ClearMerge,
         ResetMergeLevel, LeaveMerge, RecoverMerge
    <2>2. QED
      BY <1>0, <2>1
  <1>3. CASE UNCHANGED vars
    BY <1>0, <1>3 DEF vars
  <1>4. QED
    BY <1>1, <1>2, <1>3, Steps

\* The bitmap and the list that it shows are in the header.
LEMMA SameShown ==
  ASSUME UNCHANGED <<current_merge_level, bitmap, chain>>
  PROVE  Shown' = Shown
  BY DEF Shown

\* The bitmap shows the list until the merge has put it on the lists it builds.
LEMMA NextMarked ==
  ASSUME IInv, [Next]_vars
  PROVE  Marked'
  <1>0. /\ TypeOK /\ Marked /\ Recorded /\ OneMerger /\ Levels /\ Chained /\ Alone
        /\ pc \in [Proc -> PC]
    BY DEF IInv, Control, TypeOK
  <1>1. ASSUME UNCHANGED <<current_merge_level, bitmap, chain, merge_status>>,
               \A q \in Proc : pc'[q] = "m_marked" => pc[q] = "m_marked"
        PROVE  Marked'
    BY <1>0, <1>1, SameShown DEF Marked
  <1>2. ASSUME merge_status' # BITMAP_COMPLETED, \A q \in Proc : pc'[q] # "m_marked"
        PROVE  Marked'
    BY <1>2 DEF Marked, BITMAP_COMPLETED
  <1>3. ASSUME NEW p \in Proc, UserStep(p)
        PROVE  Marked'
    <2>1. Outside(p)
      BY <1>0, <1>3, UserFlow
    <2>2. \A q \in Proc : pc'[q] = "m_marked" => pc[q] = "m_marked"
      BY <2>1 DEF Outside, UserPC
    <2>3. CASE bitmap' = bitmap
      BY <1>1, <2>1, <2>2, <2>3 DEF Outside
    <2>4. CASE bitmap' # bitmap
      <3>1. GCBegin(p) \/ GCLevel(p)
        BY <1>3, <2>4 DEF UserStep, AllocBegin, AllocPop, AllocEmpty, AllocSplit, AllocMark, FreeReset,
           FreePush, MergeBegin, Die, GCDie, merging
      <3>2. merge_in_progress = 0 /\ \A q \in Proc : pc[q] # "m_marked"
        BY <1>0, <3>1 DEF GCBegin, GCLevel, Alone
      <3>3. merge_status = DEFAULT
        BY <1>0, <3>2 DEF Recorded
      <3>4. merge_status' = merge_status
        BY <2>1 DEF Outside
      <3>5. QED
        BY <1>2, <2>2, <3>2, <3>3, <3>4 DEF DEFAULT, BITMAP_COMPLETED
    <2>5. QED
      BY <2>3, <2>4
  <1>4. ASSUME NEW p \in Proc,
               \/ EnterMerge(p) \/ CopyHead(p) \/ ResetPostMerge(p) \/ MergePair(p)
               \/ (\E u \in Unit : PopPost(p, u)) \/ PushPost(p) \/ PostEmpty(p) \/ LeaveMerge(p)
        PROVE  Marked'
    <2>1. UNCHANGED <<current_merge_level, bitmap, chain, merge_status>>
      BY <1>4 DEF EnterMerge, CopyHead, ResetPostMerge, MergePair, PopPost, PushPost, PostEmpty, LeaveMerge,
         header, merging
    <2>2. \A q \in Proc : pc'[q] = "m_marked" => pc[q] = "m_marked"
      BY <1>0, <1>4 DEF EnterMerge, CopyHead, ResetPostMerge, MergePair, PopPost, PushPost, PostEmpty, LeaveMerge,
         Goto, local
    <2>3. QED
      BY <1>1, <2>1, <2>2
  <1>5. ASSUME NEW p \in Proc,
               \/ SetMergeLevel(p) \/ SwapFreeList(p) \/ ClearMerge(p) \/ ResetMergeLevel(p)
               \/ SetStatus(p, "m_swapped", "m_bitmap", SWAP_COMPLETED)
               \/ SetStatus(p, "m_pairs", "m_next", FREELIST_COMPLETED)
               \/ SetStatus(p, "m_status_off", "m_leave", DEFAULT)
        PROVE  Marked'
    <2>1. pc[p] \in MergePC \ {"m_enter"} /\ pc'[p] # "m_marked"
      BY <1>0, <1>5 DEF SetMergeLevel, SwapFreeList, ClearMerge, ResetMergeLevel, SetStatus, MergePC, Goto
    <2>2. \A q \in Proc \ {p} : pc'[q] = pc[q]
      BY <1>0, <1>5 DEF SetMergeLevel, SwapFreeList, ClearMerge, ResetMergeLevel, SetStatus, Goto
    <2>3. \A q \in Proc : pc'[q] # "m_marked"
      BY <1>0, <2>1, <2>2, Others DEF MergePC
    <2>4. merge_status' # BITMAP_COMPLETED
      BY <1>0, <1>5 DEF SetMergeLevel, SwapFreeList, ClearMerge, ResetMergeLevel, SetStatus, Recorded, Listed,
         header, DEFAULT, SWAP_COMPLETED, BITMAP_COMPLETED, FREELIST_COMPLETED
    <2>5. QED
      BY <1>2, <2>3, <2>4
  <1>6. ASSUME NEW p \in Proc, CreateBitmap(p)
        PROVE  Marked'
    <2>1. bitmap \cap Beyond = {}
      <3>1. bitmap \subseteq Unit
        BY <1>0, <1>6 DEF CreateBitmap, Alone
      <3>2. QED
        BY <3>1, Bounds
    <2>2. current_merge_level = mlev[p] /\ UNCHANGED <<current_merge_level, chain>>
      BY <1>0, <1>6 DEF CreateBitmap, Levels, Detached, header
    <2>3. bitmap' = {u \div Size(current_merge_level) : u \in chain}
      BY <1>6, <2>1, <2>2 DEF CreateBitmap
    <2>4. Shown'
      BY <2>2, <2>3 DEF Shown
    <2>5. QED
      BY <2>4 DEF Marked
  <1>7. ASSUME NEW p \in Proc, SetStatus(p, "m_marked", "m_reset", BITMAP_COMPLETED)
        PROVE  Marked'
    <2>1. Shown /\ UNCHANGED <<current_merge_level, bitmap, chain>>
      BY <1>0, <1>7 DEF SetStatus, Marked, merging
    <2>2. QED
      BY <2>1, SameShown DEF Marked
  <1>8. ASSUME NEW p \in Proc, RecoverMerge(p)
        PROVE  Marked'
    <2>1. \A q \in Proc : pc'[q] # "m_marked"
      BY <1>0, <1>8, Resume, RecoverFlow DEF Merger, MergePC
    <2>2. CASE merge_status = BITMAP_COMPLETED
      <3>1. UNCHANGED <<current_merge_level, bitmap, chain, merge_status>>
        BY <1>0, <1>8, <2>2, Resume, RecoverFlow DEF DEFAULT, SWAP_COMPLETED, BITMAP_COMPLETED, FREELIST_COMPLETED
      <3>2. QED
        BY <1>1, <2>1, <3>1
    <2>3. CASE merge_status # BITMAP_COMPLETED
      <3>1. merge_status' # BITMAP_COMPLETED
        BY <1>0, <1>8, <2>3, RecoverFlow DEF BITMAP_COMPLETED
      <3>2. QED
        BY <1>2, <2>1, <3>1
    <2>4. QED
      BY <2>2, <2>3
  <1>9. CASE UNCHANGED vars
    <2>1. UNCHANGED <<current_merge_level, bitmap, chain, merge_status, pc>>
      BY <1>9 DEF vars, header, merging, local
    <2>2. QED
      BY <1>1, <2>1
  <1>10. QED
    BY <1>3, <1>4, <1>5, <1>6, <1>7, <1>8, <1>9, Steps DEF MergeStep

\* The pairs go up when the lists are complete, and the lists only shrink then.
LEMMA NextBuddies ==
  ASSUME IInv, [Next]_vars
  PROVE  BuddiesMerged'
  <1>0. /\ TypeOK /\ BuddiesMerged /\ Recorded /\ OneMerger /\ Levels /\ Posted
        /\ pc \in [Proc -> PC] /\ post_merge_level \subseteq Unit
    BY DEF IInv, Control, TypeOK
  <1>1. ASSUME UNCHANGED <<current_merge_level, merge_status>>, post_merge_level' \subseteq post_merge_level
        PROVE  BuddiesMerged'
    BY <1>0, <1>1 DEF BuddiesMerged, FREELIST_COMPLETED
  <1>2. ASSUME merge_status' # FREELIST_COMPLETED
        PROVE  BuddiesMerged'
    BY <1>2 DEF BuddiesMerged, FREELIST_COMPLETED
  <1>3. ASSUME NEW p \in Proc, UserStep(p) \/ RecoverMerge(p)
        PROVE  BuddiesMerged'
    <2>1. UNCHANGED <<current_merge_level, merge_status, post_merge_level>>
      BY <1>0, <1>3, UserFlow, RecoverFlow DEF Outside
    <2>2. QED
      BY <1>1, <2>1
  <1>4. ASSUME NEW p \in Proc,
               \/ EnterMerge(p) \/ CopyHead(p) \/ SwapFreeList(p) \/ CreateBitmap(p)
               \/ (\E u \in Unit : PopPost(p, u)) \/ PushPost(p) \/ PostEmpty(p) \/ ClearMerge(p) \/ LeaveMerge(p)
        PROVE  BuddiesMerged'
    <2>1. UNCHANGED <<current_merge_level, merge_status>> /\ post_merge_level' \subseteq post_merge_level
      BY <1>4 DEF EnterMerge, CopyHead, SwapFreeList, CreateBitmap, PopPost, PushPost, PostEmpty, ClearMerge,
         LeaveMerge, header, merging
    <2>2. QED
      BY <1>1, <2>1
  <1>5. ASSUME NEW p \in Proc,
               \/ SetMergeLevel(p) \/ ResetPostMerge(p) \/ MergePair(p)
               \/ SetStatus(p, "m_swapped", "m_bitmap", SWAP_COMPLETED)
               \/ SetStatus(p, "m_marked", "m_reset", BITMAP_COMPLETED)
               \/ SetStatus(p, "m_status_off", "m_leave", DEFAULT)
        PROVE  BuddiesMerged'
    <2>1. merge_status' # FREELIST_COMPLETED
      BY <1>0, <1>5 DEF SetMergeLevel, ResetPostMerge, MergePair, SetStatus, Recorded, header,
         DEFAULT, SWAP_COMPLETED, BITMAP_COMPLETED, FREELIST_COMPLETED
    <2>2. QED
      BY <1>2, <2>1
  <1>6. ASSUME NEW p \in Proc, ResetMergeLevel(p)
        PROVE  BuddiesMerged'
    <2>1. post_merge_level' = {}
      BY <1>0, <1>6 DEF ResetMergeLevel, Posted, merging
    <2>2. QED
      BY <2>1 DEF BuddiesMerged
  <1>7. ASSUME NEW p \in Proc, SetStatus(p, "m_pairs", "m_next", FREELIST_COMPLETED)
        PROVE  BuddiesMerged'
    <2> DEFINE l == current_merge_level
               S == Size(l)
    <2>1. /\ pc[p] = "m_pairs" /\ Paired /\ l = mlev[p]
          /\ UNCHANGED <<current_merge_level, post_merge_level>>
      BY <1>0, <1>7 DEF SetStatus, Posted, Levels, Detached, merging
    <2>2. l \in 0 .. 8
      <3>1. 0 <= l /\ l \in -1 .. MaxLevel - 1 /\ MaxLevel \in 1 .. 8
        BY <1>0, <2>1, Bounds DEF Levels, Detached, TypeOK
      <3>2. QED
        BY <3>1
    <2>3. bitmap \subseteq Nat
      BY <1>0, Bounds DEF TypeOK
    <2>4. ASSUME NEW u \in post_merge_level, u % Size(l + 1) = 0, u + S \in post_merge_level
          PROVE  FALSE
      <3>1. PICK j \in bitmap : u = j * S /\ (j % 2 = 0 => j + 1 \notin bitmap)
        BY <2>1 DEF Paired
      <3>2. PICK k \in bitmap : u + S = k * S
        BY <2>1, <2>4 DEF Paired
      <3>3. j \in Nat /\ k \in Nat /\ j + 1 \in Nat
        BY <2>3
      <3>4. /\ \A i \in Nat : (i * S) \div S = i
            /\ \A i \in Nat : (i + 1) * S = i * S + S
            /\ \A i \in Nat : (i * S) % Size(l + 1) = 0 => i % 2 = 0
        BY <2>2, Multiples
      <3>5. j % 2 = 0
        BY <2>4, <3>1, <3>3, <3>4
      <3>6. (j + 1) * S = k * S
        BY <3>1, <3>2, <3>3, <3>4
      <3>7. j + 1 = k
        BY <3>3, <3>4, <3>6
      <3>8. QED
        BY <3>1, <3>5, <3>7
    <2>5. \A u \in post_merge_level : u % Size(l + 1) = 0 => u + S \notin post_merge_level
      BY <2>4
    <2>6. QED
      BY <2>1, <2>5 DEF BuddiesMerged
  <1>8. CASE UNCHANGED vars
    <2>1. UNCHANGED <<current_merge_level, merge_status, post_merge_level>>
      BY <1>8 DEF vars, header, merging
    <2>2. QED
      BY <1>1, <2>1
  <1>9. QED
    BY <1>3, <1>4, <1>5, <1>6, <1>7, <1>8, Steps DEF MergeStep

-----------------------------------------------------------------------------
(* The invariant is kept *)

\* Every step but those of a collection keeps the tiling, with aligned pieces
\* inside the zone.
LEMMA NextTiles ==
  ASSUME IInv, ~collected, NEW p \in Proc, UserStep(p) \/ MergeStep(p) \/ RecoverMerge(p), ~GCLevel(p)
  PROVE  StaysTiled /\ lost' \in SUBSET Unit
  <1>0. TypeOK /\ Control /\ Tiling(Pieces, lost) /\ Fit(Pieces) /\ lost \in SUBSET Unit
    BY DEF IInv, TypeOK
  <1>1. ASSUME UNCHANGED <<free_list, entry, hand, lost>>,
               UNCHANGED <<merge_status, current_merge_level, chain, post_merge_level, post_merge_next_level>>
        PROVE  StaysTiled /\ lost' \in SUBSET Unit
    BY <1>0, <1>1, QuietTiles DEF StaysTiled
  <1>2. CASE UserStep(p)
    <2>1. CASE \E u \in Unit \cup Beyond : AllocPop(p, u)
      BY <1>0, <2>1, PopTiles DEF AllocPop, history
    <2>2. CASE AllocSplit(p)
      BY <1>0, <2>2, SplitTiles DEF AllocSplit, history
    <2>3. CASE AllocMark(p)
      BY <1>0, <2>3, MarkTiles DEF AllocMark, history
    <2>4. CASE \E u \in Unit : FreeReset(p, u)
      BY <1>0, <2>4, ResetTiles DEF FreeReset, history
    <2>5. CASE FreePush(p)
      BY <1>0, <2>5, PushTiles DEF FreePush, history
    <2>6. CASE Die(p)
      BY <2>6, DieTiles
    <2>7. CASE (\E l \in AllocLevel : AllocBegin(p, l)) \/ AllocEmpty(p) \/ MergeBegin(p) \/ GCBegin(p) \/ GCDie(p)
      BY <1>1, <2>7 DEF AllocBegin, AllocEmpty, MergeBegin, GCBegin, GCDie, header, merging, history
    <2>8. QED
      BY <1>2, <2>1, <2>2, <2>3, <2>4, <2>5, <2>6, <2>7 DEF UserStep
  <1>3. CASE MergeStep(p)
    <2>1. CASE SwapFreeList(p)
      BY <1>0, <2>1, SwapTiles DEF SwapFreeList, history
    <2>2. CASE \E u \in Unit : PopPost(p, u)
      BY <1>0, <2>2, PostTiles DEF PopPost, history
    <2>3. CASE PushPost(p)
      BY <1>0, <2>3, PushTiles DEF PushPost, history
    <2>4. CASE PairsLeft(p) = {} /\ SetStatus(p, "m_pairs", "m_next", FREELIST_COMPLETED)
      BY <1>0, <2>4, BuildTiles DEF SetStatus, history
    <2>5. CASE \/ SetMergeLevel(p)
               \/ SetStatus(p, "m_swapped", "m_bitmap", SWAP_COMPLETED)
               \/ SetStatus(p, "m_marked", "m_reset", BITMAP_COMPLETED)
               \/ SetStatus(p, "m_status_off", "m_leave", DEFAULT)
               \/ ResetPostMerge(p) \/ MergePair(p) \/ ClearMerge(p) \/ ResetMergeLevel(p)
      <3>1. UNCHANGED lost
        BY <2>5 DEF SetMergeLevel, SetStatus, ResetPostMerge, MergePair, ClearMerge, ResetMergeLevel, history
      <3>2. QED
        BY <1>0, <2>5, <3>1, HeaderTiles
    <2>6. CASE EnterMerge(p) \/ CopyHead(p) \/ CreateBitmap(p) \/ PostEmpty(p) \/ LeaveMerge(p)
      BY <1>1, <2>6 DEF EnterMerge, CopyHead, CreateBitmap, PostEmpty, LeaveMerge, header, merging, history
    <2>7. QED
      BY <1>3, <2>1, <2>2, <2>3, <2>4, <2>5, <2>6 DEF MergeStep
  <1>4. CASE RecoverMerge(p)
    BY <1>4, RecoverTiles
  <1>5. QED
    BY <1>2, <1>3, <1>4

\* The parts of the type invariant.
ListTypes ==
  /\ free_list \in [Level -> SUBSET (Unit \cup Beyond)]
  /\ \A l \in Level : free_list[l] \subseteq Aligned(l)
  /\ \A l \in Level : l < MaxLevel => free_list[l] \subseteq Unit
HeaderTypes ==
  /\ merge_in_progress \in {0, 1}
  /\ merge_status \in DEFAULT .. FREELIST_COMPLETED
  /\ current_merge_level \in -1 .. MaxLevel - 1
MergingTypes ==
  /\ safe_copy \in BOOLEAN
  /\ chain \subseteq Unit
  /\ bitmap \subseteq Unit \cup Beyond
  /\ post_merge_level \subseteq Unit
  /\ post_merge_next_level \subseteq Unit
LocalTypes ==
  /\ pc \in [Proc -> PC]
  /\ want \in [Proc -> Level]
  /\ hand \in [Proc -> ((Unit \X Level) \cup {NoChunk})]
  /\ mlev \in [Proc -> -1 .. MaxLevel]
OtherTypes ==
  /\ entry \in [Unit -> Level \cup {Free}]
  /\ lost \subseteq Unit
  /\ collected \in BOOLEAN
  /\ deaths \in 0 .. MaxDeaths

\* The type invariant, in the groups of variables that actions write together.
LEMMA TypeParts == TypeOK <=> ListTypes /\ HeaderTypes /\ MergingTypes /\ LocalTypes /\ OtherTypes
  BY DEF TypeOK, ListTypes, HeaderTypes, MergingTypes, LocalTypes, OtherTypes

\* The status and the level in the header keep their types,
LEMMA NextHeaderTypes ==
  ASSUME IInv, [Next]_vars
  PROVE  HeaderTypes'
  <1>0. HeaderTypes /\ TypeOK /\ Levels /\ mlev \in [Proc -> -1 .. MaxLevel] /\ MaxLevel \in 1 .. 8
    BY Bounds DEF IInv, Control, TypeOK, HeaderTypes
  <1>1. ASSUME NEW p \in Proc, UserStep(p) \/ RecoverMerge(p)
        PROVE  HeaderTypes'
    BY <1>0, <1>1, UserFlow, RecoverFlow DEF Outside, HeaderTypes, DEFAULT, FREELIST_COMPLETED
  <1>2. ASSUME NEW p \in Proc, SetMergeLevel(p)
        PROVE  HeaderTypes'
    <2>1. mlev[p] \in -1 .. MaxLevel - 1
      BY <1>0, <1>2 DEF SetMergeLevel, Levels, MergePC
    <2>2. QED
      BY <1>0, <1>2, <2>1 DEF SetMergeLevel, HeaderTypes, DEFAULT, FREELIST_COMPLETED
  <1>3. ASSUME NEW p \in Proc, MergeStep(p), ~SetMergeLevel(p)
        PROVE  HeaderTypes'
    <2>1. /\ merge_in_progress' \in {merge_in_progress, 0, 1}
          /\ merge_status' \in {merge_status, DEFAULT, SWAP_COMPLETED, BITMAP_COMPLETED, FREELIST_COMPLETED}
          /\ current_merge_level' \in {current_merge_level, -1}
      BY <1>3 DEF MergeStep, EnterMerge, CopyHead, SwapFreeList, SetStatus, CreateBitmap,
         ResetPostMerge, MergePair, PopPost, PushPost, PostEmpty, ClearMerge,
         ResetMergeLevel, LeaveMerge, header
    <2>2. QED
      BY <1>0, <2>1 DEF HeaderTypes, DEFAULT, SWAP_COMPLETED, BITMAP_COMPLETED, FREELIST_COMPLETED
  <1>4. CASE UNCHANGED vars
    BY <1>0, <1>4 DEF vars, header, HeaderTypes, DEFAULT, FREELIST_COMPLETED
  <1>5. QED
    BY <1>1, <1>2, <1>3, <1>4, Steps

\* so do the locals of the processes,
LEMMA NextLocalTypes ==
  ASSUME IInv, [Next]_vars
  PROVE  LocalTypes'
  <1>0. /\ LocalTypes /\ TypeOK /\ Levels /\ Alone
        /\ pc \in [Proc -> PC] /\ want \in [Proc -> Level] /\ mlev \in [Proc -> -1 .. MaxLevel]
        /\ hand \in [Proc -> ((Unit \X Level) \cup {NoChunk})]
        /\ MaxLevel \in 1 .. 8 /\ Level = 0 .. MaxLevel /\ AllocLevel \subseteq Level
    BY Bounds, ZoneAssumption DEF IInv, Control, TypeOK, LocalTypes, Level
  <1>1. ASSUME NEW p \in Proc, UserStep(p) \/ MergeStep(p) \/ RecoverMerge(p)
        PROVE  pc' \in [Proc -> PC]
    <2>1. CASE UserStep(p)
      BY <1>0, <2>1 DEF UserStep, AllocBegin, AllocPop, AllocEmpty, AllocSplit, AllocMark, FreeReset, FreePush,
         MergeBegin, Die, GCBegin, GCLevel, GCDie, Goto, PC, MergePC
    <2>2. CASE MergeStep(p)
      BY <1>0, <2>2 DEF MergeStep, EnterMerge, SetMergeLevel, CopyHead, SwapFreeList, SetStatus, CreateBitmap,
         ResetPostMerge, MergePair, PopPost, PushPost, PostEmpty, ClearMerge,
         ResetMergeLevel, LeaveMerge, Goto, local, PC, MergePC
    <2>3. CASE RecoverMerge(p)
      <3>1. ResumeAt \in PC
        BY <1>0, Resume DEF PC, MergePC
      <3>2. QED
        BY <1>0, <2>3, <3>1 DEF RecoverMerge, Goto
    <2>4. QED
      BY <1>1, <2>1, <2>2, <2>3
  <1>2. ASSUME NEW p \in Proc, UserStep(p) \/ MergeStep(p) \/ RecoverMerge(p)
        PROVE  want' \in [Proc -> Level]
    <2>1. ASSUME NEW l \in Level, want' = [want EXCEPT ![p] = l]
          PROVE  want' \in [Proc -> Level]
      BY <1>0, <2>1
    <2>2. CASE \E l \in AllocLevel : AllocBegin(p, l)
      BY <1>0, <2>1, <2>2 DEF AllocBegin
    <2>3. CASE AllocEmpty(p) \/ AllocMark(p) \/ Die(p)
      <3>1. want' = want \/ want' = [want EXCEPT ![p] = 0]
        BY <2>3 DEF AllocEmpty, AllocMark, Die
      <3>2. QED
        BY <1>0, <2>1, <3>1, Bounds
    <2>4. CASE UNCHANGED want
      BY <1>0, <2>4
    <2>5. QED
      BY <1>2, <2>2, <2>3, <2>4 DEF UserStep, AllocPop, AllocSplit, FreeReset, FreePush,
         MergeBegin, GCBegin, GCLevel, GCDie, MergeStep, EnterMerge, SetMergeLevel, CopyHead, SwapFreeList,
         SetStatus, CreateBitmap, ResetPostMerge, MergePair, PopPost, PushPost, PostEmpty, ClearMerge,
         ResetMergeLevel, LeaveMerge, RecoverMerge, local
  <1>3. ASSUME NEW p \in Proc, UserStep(p) \/ MergeStep(p) \/ RecoverMerge(p)
        PROVE  mlev' \in [Proc -> -1 .. MaxLevel]
    <2>1. ASSUME NEW l \in -1 .. MaxLevel, mlev' = [mlev EXCEPT ![p] = l]
          PROVE  mlev' \in [Proc -> -1 .. MaxLevel]
      BY <1>0, <2>1
    <2>2. CASE \E l \in AllocLevel : AllocBegin(p, l)
      <3>1. \A l \in AllocLevel : l \in -1 .. MaxLevel
        BY <1>0
      <3>2. QED
        BY <2>1, <2>2, <3>1 DEF AllocBegin
    <2>3. CASE AllocEmpty(p) \/ GCLevel(p) \/ LeaveMerge(p)
      <3>1. \/ mlev' = [mlev EXCEPT ![p] = 0]
            \/ mlev[p] < MaxLevel /\ mlev' = [mlev EXCEPT ![p] = mlev[p] + 1]
            \/ mlev[p] + 1 < MaxLevel /\ mlev' = [mlev EXCEPT ![p] = mlev[p] + 1]
        BY <2>3 DEF AllocEmpty, GCLevel, LeaveMerge
      <3>2. 0 \in -1 .. MaxLevel /\ (mlev[p] < MaxLevel \/ mlev[p] + 1 < MaxLevel => mlev[p] + 1 \in -1 .. MaxLevel)
        BY <1>0
      <3>3. QED
        BY <2>1, <3>1, <3>2
    <2>4. CASE AllocMark(p) \/ MergeBegin(p) \/ Die(p) \/ GCBegin(p) \/ GCDie(p) \/ EnterMerge(p)
      <3>1. mlev' = mlev \/ mlev' = [mlev EXCEPT ![p] = 0]
        BY <2>4 DEF AllocMark, MergeBegin, Die, GCBegin, GCDie, EnterMerge
      <3>2. 0 \in -1 .. MaxLevel
        BY <1>0
      <3>3. QED
        BY <1>0, <2>1, <3>1, <3>2
    <2>5. CASE RecoverMerge(p)
      <3>1. current_merge_level \in -1 .. MaxLevel
        BY <1>0 DEF TypeOK
      <3>2. QED
        BY <2>1, <2>5, <3>1 DEF RecoverMerge
    <2>6. CASE UNCHANGED mlev
      BY <1>0, <2>6
    <2>7. QED
      BY <1>3, <2>2, <2>3, <2>4, <2>5, <2>6 DEF UserStep, AllocPop, AllocSplit, FreeReset, FreePush,
         MergeStep, SetMergeLevel, CopyHead, SwapFreeList,
         SetStatus, CreateBitmap, ResetPostMerge, MergePair, PopPost, PushPost, PostEmpty, ClearMerge,
         ResetMergeLevel, local
  <1>4. ASSUME NEW p \in Proc, UserStep(p) \/ MergeStep(p) \/ RecoverMerge(p)
        PROVE  hand' \in [Proc -> ((Unit \X Level) \cup {NoChunk})]
    <2>1. ASSUME NEW c \in (Unit \X Level) \cup {NoChunk}, Take(p, c)
          PROVE  hand' \in [Proc -> ((Unit \X Level) \cup {NoChunk})]
      BY <1>0, <2>1 DEF Take
    <2>2. CASE \E u \in Unit \cup Beyond : AllocPop(p, u)
      <3>1. PICK u \in Unit \cup Beyond : AllocPop(p, u)
        BY <2>2
      <3>2. u \in Unit /\ mlev[p] \in Level /\ Take(p, <<u, mlev[p]>>)
        BY <1>0, <3>1, Fresh DEF AllocPop, Alone
      <3>3. QED
        BY <2>1, <3>2
    <2>3. CASE AllocSplit(p)
      <3>1. ~collected
        BY <1>0, <2>3 DEF AllocSplit, Alone
      <3>2. hand[p][1] \in Unit /\ hand[p][2] - 1 \in Level
        BY <2>3, <3>1, Fresh
      <3>3. Take(p, <<hand[p][1], hand[p][2] - 1>>)
        BY <2>3 DEF AllocSplit
      <3>4. QED
        BY <2>1, <3>2, <3>3
    <2>4. CASE \E u \in Unit : FreeReset(p, u)
      <3>1. PICK u \in Unit : FreeReset(p, u)
        BY <2>4
      <3>2. entry[u] \in Level /\ Take(p, <<u, entry[u]>>)
        BY <3>1, Fresh DEF FreeReset, Online
      <3>3. QED
        BY <2>1, <3>2
    <2>5. CASE \E u \in Unit : PopPost(p, u)
      <3>1. PICK u \in Unit : PopPost(p, u)
        BY <2>5
      <3> DEFINE l == IF pc[p] = "m_next" THEN mlev[p] + 1 ELSE mlev[p]
      <3>2. l \in Level /\ Take(p, <<u, l>>)
        BY <1>0, <3>1, FreshPost DEF PopPost, Alone
      <3> HIDE DEF l
      <3>3. QED
        BY <2>1, <3>2
    <2>6. CASE AllocMark(p) \/ FreePush(p) \/ PushPost(p) \/ Die(p)
      BY <2>1, <2>6 DEF AllocMark, FreePush, PushPost, Die
    <2>7. CASE UNCHANGED hand
      BY <1>0, <2>7
    <2>8. QED
      BY <1>4, <2>2, <2>3, <2>4, <2>5, <2>6, <2>7 DEF UserStep, AllocBegin, AllocEmpty,
         MergeBegin, GCBegin, GCLevel, GCDie, MergeStep, EnterMerge, SetMergeLevel, CopyHead, SwapFreeList,
         SetStatus, CreateBitmap, ResetPostMerge, MergePair, PostEmpty, ClearMerge,
         ResetMergeLevel, LeaveMerge, RecoverMerge, local
  <1>5. CASE UNCHANGED vars
    BY <1>0, <1>5 DEF vars, local, LocalTypes, Level, Unit
  <1>6. QED
    BY <1>1, <1>2, <1>3, <1>4, <1>5, Steps DEF LocalTypes, Level, Unit

\* the free lists,
LEMMA NextListTypes ==
  ASSUME IInv, [Next]_vars
  PROVE  ListTypes'
  <1>0. TypeOK /\ ListTypes /\ Alone /\ free_list \in [Level -> SUBSET (Unit \cup Beyond)]
    BY DEF IInv, Control, TypeOK, ListTypes
  <1>1. ASSUME free_list' \in [Level -> SUBSET (Unit \cup Beyond)], StaysTiled
        PROVE  ListTypes'
    <2>1. ASSUME NEW l \in Level, NEW u \in free_list'[l]
          PROVE  u \in Unit /\ u % Size(l) = 0
      <3>1. u \in Unit \cup Beyond
        BY <1>1
      <3>2. <<"free", u, l>> \in Piece
        BY <3>1, Tuples DEF Place
      <3>3. <<"free", u, l>> \in Piece'
        BY <3>2 DEF Piece, Place, Unit, Beyond, Level
      <3>4. <<"free", u, l>> \in FreePieces'
        BY <3>3 DEF FreePieces
      <3>5. <<"free", u, l>> \in Pieces'
        BY <3>4 DEF Pieces
      <3>6. QED
        BY <1>1, <3>5 DEF StaysTiled, Fit
    <2>2. QED
      BY <1>1, <2>1 DEF ListTypes, Aligned, Level, Unit, Beyond
  <1>2. ASSUME NEW p \in Proc, UserStep(p) \/ MergeStep(p) \/ RecoverMerge(p), ~GCLevel(p)
        PROVE  ListTypes'
    <2>1. ~collected
      BY <1>0, <1>2, GCOrWork DEF GCBegin, GCDie, Alone
    <2>2. StaysTiled
      BY <1>2, <2>1, NextTiles
    <2>3. ASSUME NEW l \in Level, NEW u \in Unit, PushFree(l, u)
          PROVE  free_list' \in [Level -> SUBSET (Unit \cup Beyond)]
      BY <1>0, <2>3 DEF PushFree
    <2>4. CASE \E u \in Unit \cup Beyond : AllocPop(p, u)
      BY <1>0, <1>1, <2>2, <2>4 DEF AllocPop, PopFree
    <2>5. CASE AllocSplit(p)
      <3>1. hand[p] # NoChunk
        BY <2>5 DEF IInv, Control, Holding, AllocSplit
      <3>2. PICK u \in Unit, l \in Level : hand[p] = <<u, l>> /\ hand[p][1] = u /\ hand[p][2] = l /\ u % Size(l) = 0
        BY <2>1, <3>1, InHand
      <3>3. l - 1 \in Level
        BY <2>1, <2>5, <3>2, Fresh
      <3>4. u + Size(l) <= Size(MaxLevel) /\ u \in Nat /\ Size(l) \in Nat /\ Size(l) > 0 /\ Size(MaxLevel) \in Nat
        BY <3>2, Inside, Bounds, LevelSize
      <3> DEFINE h == u + Size(l) \div 2
      <3>5. h \in Nat /\ h < Size(MaxLevel)
        BY <3>4
      <3>6. SecondHalf(hand[p]) = h
        BY <3>2 DEF SecondHalf
      <3> HIDE DEF h
      <3>7. h \in Unit
        BY <3>5, Bounds
      <3>8. PushFree(l - 1, h)
        BY <2>5, <3>2, <3>6 DEF AllocSplit
      <3>9. QED
        BY <1>1, <2>2, <2>3, <3>3, <3>7, <3>8
    <2>6. CASE FreePush(p) \/ PushPost(p)
      <3>1. hand[p] # NoChunk
        BY <2>6 DEF IInv, Control, Holding, FreePush, PushPost
      <3>2. PICK u \in Unit, l \in Level : hand[p] = <<u, l>> /\ hand[p][1] = u /\ hand[p][2] = l
        BY <2>1, <3>1, InHand
      <3>3. PushFree(l, u)
        BY <2>6, <3>2 DEF FreePush, PushPost
      <3>4. QED
        BY <1>1, <2>2, <2>3, <3>2, <3>3
    <2>7. CASE SwapFreeList(p)
      <3>1. free_list' = free_list \/ free_list' = [free_list EXCEPT ![mlev[p]] = {}]
        BY <2>7 DEF SwapFreeList
      <3>2. free_list' \in [Level -> SUBSET (Unit \cup Beyond)]
        BY <1>0, <3>1
      <3>3. QED
        BY <1>1, <2>2, <3>2
    <2>8. CASE UNCHANGED free_list
      BY <1>0, <1>1, <2>2, <2>8
    <2>9. QED
      BY <1>2, <2>4, <2>5, <2>6, <2>7, <2>8 DEF UserStep, AllocBegin, AllocEmpty, AllocMark, FreeReset,
         MergeBegin, Die, GCBegin, GCDie, MergeStep, EnterMerge, SetMergeLevel, CopyHead,
         SetStatus, CreateBitmap, ResetPostMerge, MergePair, PopPost, PostEmpty, ClearMerge,
         ResetMergeLevel, LeaveMerge, RecoverMerge
  <1>3. ASSUME NEW p \in Proc, GCLevel(p)
        PROVE  ListTypes'
    <2> DEFINE l == mlev[p]
               N == NewChunks(p)
    <2>1. pc[p] = "gc" /\ free_list' = [free_list EXCEPT ![l] = @ \cup N]
      BY <1>3, Zenon DEF GCLevel, KnownBits, NewChunks
    <2>2. l \in Level
      BY <2>1, GCAlone
    <2>3. \A n \in N : n \in Unit \cup Beyond /\ n % Size(l) = 0 /\ (l < MaxLevel => n \in Unit)
      BY <2>1, NewIs
    <2> HIDE DEF l, N
    <2>4. free_list' \in [Level -> SUBSET (Unit \cup Beyond)]
      BY <1>0, <2>1, <2>2, <2>3
    <2>5. \A m \in Level : free_list'[m] \subseteq Aligned(m)
      BY <1>0, <2>1, <2>2, <2>3 DEF ListTypes, Aligned
    <2>6. \A m \in Level : m < MaxLevel => free_list'[m] \subseteq Unit
      BY <1>0, <2>1, <2>2, <2>3 DEF ListTypes
    <2>7. QED
      BY <2>4, <2>5, <2>6 DEF ListTypes, Aligned, Level, Unit, Beyond
  <1>4. CASE UNCHANGED vars
    BY <1>0, <1>4 DEF vars, ListTypes, Aligned, Level, Unit, Beyond
  <1>5. QED
    BY <1>2, <1>3, <1>4, Steps

\* the lists of a merge,
LEMMA NextMergingTypes ==
  ASSUME IInv, [Next]_vars
  PROVE  MergingTypes'
  <1>0. /\ TypeOK /\ ListTypes /\ MergingTypes /\ Alone /\ Levels
        /\ mlev \in [Proc -> -1 .. MaxLevel] /\ MaxLevel \in 1 .. 8 /\ Level = 0 .. MaxLevel
    BY Bounds DEF IInv, Control, TypeOK, ListTypes, MergingTypes, Level
  <1>1. bitmap' \subseteq Unit \cup Beyond
    <2>1. CASE ~collected'
      <3>1. bitmap' \subseteq Unit
        BY <2>1, NextAlone DEF Alone, Unit
      <3>2. QED
        BY <3>1
    <2>2. CASE UNCHANGED <<bitmap, collected>>
      BY <1>0, <2>2 DEF MergingTypes
    <2>3. ASSUME NEW p \in Proc, GCLevel(p), collected'
          PROVE  bitmap' \subseteq Unit \cup Beyond
      <3> DEFINE l == mlev[p]
      <3>1. pc[p] = "gc" /\ bitmap' = KnownBits(p) \cup UNION {Units(<<u, l>>) : u \in NewChunks(p)}
        BY <2>3, Zenon DEF GCLevel, KnownBits, NewChunks
      <3>2. KnownBits(p) \subseteq Unit
        BY <3>1, KnownIs
      <3>3. ASSUME NEW n \in NewChunks(p), NEW u \in Units(<<n, l>>)
            PROVE  u \in Unit \cup Beyond
        <4>1. l \in Level /\ l \in 0 .. 9 /\ l <= MaxLevel /\ MaxLevel \in 0 .. 9
          <5>1. l \in Level
            BY <3>1, GCAlone
          <5>2. QED
            BY <1>0, <5>1
        <4>2. n \in Unit \cup Beyond /\ n \in Nat /\ n % Size(l) = 0
          BY <3>1, NewIs
        <4>3. Size(l) \in Nat /\ Size(l) > 0 /\ Size(MaxLevel) \in Nat /\ Size(MaxLevel) > 0
          BY <4>1, Sizes
        <4>4. u \in Nat /\ n <= u /\ u < n + Size(l)
          BY <4>2, <4>3, <3>3 DEF Units
        <4>5. n + Size(l) <= 2 * Size(MaxLevel)
          <5>1. (2 * Size(MaxLevel)) % Size(l) = 0
            <6>1. MaxLevel + 1 \in 0 .. 9 /\ MaxLevel \in 0 .. 8 /\ l <= MaxLevel + 1
              BY <4>1, <1>0
            <6>2. Size(MaxLevel + 1) = 2 * Size(MaxLevel)
              BY <6>1, Sizes
            <6>3. Size(MaxLevel + 1) % Size(l) = 0
              BY <4>1, <6>1, Divides
            <6>4. QED
              BY <6>2, <6>3
          <5>2. n < 2 * Size(MaxLevel)
            BY <4>2, <4>3, Bounds
          <5>3. 2 * Size(MaxLevel) \in Nat
            BY <4>3
          <5>4. QED
            BY <4>1, <4>2, <4>3, <5>1, <5>2, <5>3, Grid
        <4>6. u < 2 * Size(MaxLevel)
          BY <4>2, <4>3, <4>4, <4>5
        <4>7. QED
          BY <4>3, <4>4, <4>6, Bounds
      <3> HIDE DEF l
      <3>4. QED
        BY <3>1, <3>2, <3>3
    <2>4. CASE UNCHANGED vars
      BY <2>2, <2>4 DEF vars, merging, history
    <2>5. ASSUME NEW p \in Proc, UserStep(p) \/ MergeStep(p) \/ RecoverMerge(p), ~GCLevel(p)
          PROVE  ~collected'
      BY <1>0, <2>5, GCOrWork DEF GCBegin, GCDie, Alone, history
    <2>6. QED
      BY <2>1, <2>3, <2>4, <2>5, Steps
  <1>2. safe_copy' \in BOOLEAN /\ chain' \subseteq Unit
    <2>1. ASSUME NEW p \in Proc, SwapFreeList(p)
          PROVE  chain' \subseteq Unit
      <3>1. mlev[p] \in Level /\ mlev[p] < MaxLevel
        BY <1>0, <2>1 DEF SwapFreeList, Levels, MergePC
      <3>2. free_list[mlev[p]] \subseteq Unit
        BY <1>0, <3>1 DEF ListTypes
      <3>3. QED
        BY <1>0, <2>1, <3>2 DEF SwapFreeList, MergingTypes
    <2>2. ASSUME NEW p \in Proc, UserStep(p)
          PROVE  safe_copy' \in BOOLEAN /\ chain' \subseteq Unit
      BY <1>0, <2>2, UserFlow DEF Outside, MergingTypes
    <2>3. ASSUME NEW p \in Proc, RecoverMerge(p)
          PROVE  safe_copy' \in BOOLEAN /\ chain' \subseteq Unit
      BY <1>0, <2>3, RecoverFlow DEF MergingTypes
    <2>4. ASSUME NEW p \in Proc, MergeStep(p)
          PROVE  safe_copy' \in BOOLEAN /\ chain' \subseteq Unit
      <3>1. safe_copy' = safe_copy \/ safe_copy' \in BOOLEAN
        BY <2>4 DEF MergeStep, EnterMerge, SetMergeLevel, CopyHead, SwapFreeList,
           SetStatus, CreateBitmap, ResetPostMerge, MergePair, PopPost, PushPost, PostEmpty, ClearMerge,
           ResetMergeLevel, LeaveMerge, merging
      <3>2. SwapFreeList(p) \/ chain' = chain \/ chain' = {}
        BY <2>4 DEF MergeStep, EnterMerge, SetMergeLevel, CopyHead,
           SetStatus, CreateBitmap, ResetPostMerge, MergePair, PopPost, PushPost, PostEmpty, ClearMerge,
           ResetMergeLevel, LeaveMerge, merging
      <3>3. QED
        BY <1>0, <2>1, <3>1, <3>2 DEF MergingTypes
    <2>5. CASE UNCHANGED vars
      BY <1>0, <2>5 DEF vars, merging, MergingTypes
    <2>6. QED
      BY <2>2, <2>3, <2>4, <2>5, Steps
  <1>3. post_merge_level' \subseteq Unit /\ post_merge_next_level' \subseteq Unit
    <2>1. ASSUME NEW p \in Proc, MergePair(p)
          PROVE  post_merge_level' \subseteq Unit /\ post_merge_next_level' \subseteq Unit
      <3> DEFINE l == current_merge_level
                 i == Min(PairsLeft(p))
      <3>1. ~collected /\ merge_status = BITMAP_COMPLETED /\ mlev[p] = l /\ pc[p] = "m_pairs"
        BY <1>0, <2>1 DEF IInv, Control, MergePair, Recorded, Levels, Detached, Alone
      <3>2. \A j \in bitmap : j * Size(l) \in Unit
        BY <1>0, <3>1, MergeBits DEF MergingTypes
      <3>3. \/ /\ {i, i + 1} \subseteq bitmap
               /\ post_merge_next_level' = post_merge_next_level \cup {i * Size(l)}
               /\ post_merge_level' = post_merge_level
            \/ /\ post_merge_level' = post_merge_level \cup {j * Size(l) : j \in bitmap \cap {i, i + 1}}
               /\ post_merge_next_level' = post_merge_next_level
        BY <2>1, <3>1, Zenon DEF MergePair
      <3> HIDE DEF i, l
      <3>4. QED
        BY <1>0, <3>2, <3>3 DEF MergingTypes
    <2>2. ASSUME NEW p \in Proc, UserStep(p) \/ RecoverMerge(p)
          PROVE  post_merge_level' \subseteq Unit /\ post_merge_next_level' \subseteq Unit
      BY <1>0, <2>2, UserFlow, RecoverFlow DEF Outside, MergingTypes
    <2>3. ASSUME NEW p \in Proc, MergeStep(p)
          PROVE  post_merge_level' \subseteq Unit /\ post_merge_next_level' \subseteq Unit
      <3>1. \/ MergePair(p)
            \/ post_merge_level' \subseteq post_merge_level /\ post_merge_next_level' \subseteq post_merge_next_level
        BY <2>3 DEF MergeStep, EnterMerge, SetMergeLevel, CopyHead, SwapFreeList,
           SetStatus, CreateBitmap, ResetPostMerge, PopPost, PushPost, PostEmpty, ClearMerge,
           ResetMergeLevel, LeaveMerge, merging
      <3>2. QED
        BY <1>0, <2>1, <3>1 DEF MergingTypes
    <2>4. CASE UNCHANGED vars
      BY <1>0, <2>4 DEF vars, merging, MergingTypes
    <2>5. QED
      BY <2>2, <2>3, <2>4, Steps
  <1>4. QED
    BY <1>1, <1>2, <1>3 DEF MergingTypes, Unit, Beyond

\* and the other variables.
LEMMA NextOtherTypes ==
  ASSUME IInv, [Next]_vars
  PROVE  OtherTypes'
  <1>0. /\ TypeOK /\ OtherTypes /\ Alone /\ entry \in [Unit -> Level \cup {Free}]
        /\ lost \subseteq Unit /\ collected \in BOOLEAN /\ deaths \in 0 .. MaxDeaths
    BY DEF IInv, Control, TypeOK, OtherTypes
  <1>1. ASSUME NEW p \in Proc, UserStep(p) \/ MergeStep(p) \/ RecoverMerge(p)
        PROVE  entry' \in [Unit -> Level \cup {Free}]
    <2>1. CASE AllocMark(p)
      <3>1. ~collected
        BY <1>0, <2>1 DEF Alone, AllocMark
      <3>2. PICK u \in Unit, l \in Level : entry' = [entry EXCEPT ![u] = l]
        BY <2>1, <3>1, MarkTiles
      <3>3. QED
        BY <1>0, <3>2
    <2>2. CASE \E u \in Unit : FreeReset(p, u)
      BY <1>0, <2>2 DEF FreeReset
    <2>3. CASE UNCHANGED entry
      BY <1>0, <2>3
    <2>4. QED
      BY <1>1, <2>1, <2>2, <2>3 DEF UserStep, AllocBegin, AllocPop, AllocEmpty, AllocSplit,
         FreePush, MergeBegin, Die, GCBegin, GCLevel, GCDie, MergeStep, EnterMerge, SetMergeLevel, CopyHead,
         SwapFreeList, SetStatus, CreateBitmap, ResetPostMerge, MergePair, PopPost, PushPost, PostEmpty, ClearMerge,
         ResetMergeLevel, LeaveMerge, RecoverMerge
  <1>2. ASSUME NEW p \in Proc, UserStep(p) \/ MergeStep(p) \/ RecoverMerge(p)
        PROVE  lost' \subseteq Unit
    <2>1. CASE GCLevel(p)
      BY <2>1, GCTiles
    <2>2. CASE ~GCLevel(p)
      <3>1. ~collected
        BY <1>0, <1>2, <2>2, GCOrWork DEF GCBegin, GCDie, Alone
      <3>2. QED
        BY <1>2, <2>2, <3>1, NextTiles
    <2>3. QED
      BY <2>1, <2>2
  <1>3. ASSUME NEW p \in Proc, UserStep(p) \/ MergeStep(p) \/ RecoverMerge(p)
        PROVE  collected' \in BOOLEAN
    BY <1>0, <1>3, GCOrWork DEF GCBegin, GCLevel, GCDie, history
  <1>4. ASSUME NEW p \in Proc, UserStep(p) \/ MergeStep(p) \/ RecoverMerge(p)
        PROVE  deaths' \in 0 .. MaxDeaths
    <2>1. CASE Die(p)
      BY <1>0, <2>1, ZoneAssumption DEF Die
    <2>2. CASE ~Die(p)
      <3>1. UNCHANGED deaths
        BY <1>4, <2>2 DEF UserStep, AllocBegin, AllocPop, AllocEmpty, AllocSplit, AllocMark, FreeReset,
           FreePush, MergeBegin, GCBegin, GCLevel, GCDie, MergeStep, EnterMerge, SetMergeLevel, CopyHead,
           SwapFreeList, SetStatus, CreateBitmap, ResetPostMerge, MergePair, PopPost, PushPost, PostEmpty,
           ClearMerge, ResetMergeLevel, LeaveMerge, RecoverMerge, history
      <3>2. QED
        BY <1>0, <3>1
    <2>3. QED
      BY <2>1, <2>2
  <1>5. CASE UNCHANGED vars
    BY <1>0, <1>5 DEF vars, history, OtherTypes, Unit, Level
  <1>6. QED
    BY <1>1, <1>2, <1>3, <1>4, <1>5, Steps DEF OtherTypes, Unit, Level

\* The two halves of a block, when each is known or unknown as a whole: a
\* collection step leaves the block known or unknown as a whole.
LEMMA Halves ==
  ASSUME IInv, NEW p \in Proc, GCLevel(p), mlev[p] < MaxLevel,
         NEW v \in Unit, v % Size(mlev[p] + 1) = 0
  PROVE  \/ \A u \in Unit : Block(u, v, mlev[p] + 1) => u \in bitmap'
         \/ \A u \in Unit : Block(u, v, mlev[p] + 1) => u \notin bitmap'
  <1> DEFINE l == mlev[p]
             S == Size(l)
             N == NewChunks(p)
             w == v + S
  <1>1. pc[p] = "gc" /\ bitmap' = KnownBits(p) \cup UNION {Units(<<n, l>>) : n \in N}
    BY Zenon DEF GCLevel, KnownBits, NewChunks
  <1>2. /\ l \in Level /\ l \in 0 .. 8 /\ l + 1 \in Level
        /\ S \in Nat /\ S > 0 /\ Size(l + 1) = 2 * S
    <2>1. l \in Level /\ l \in 0 .. 8 /\ l < MaxLevel
      BY <1>1, GCAlone
    <2>2. l + 1 \in Level
      BY <2>1, Bounds DEF Level
    <2>3. QED
      BY <2>1, <2>2, Sizes, LevelSize
  <1>3. v \in Nat /\ v + Size(l + 1) <= Size(MaxLevel) /\ Size(MaxLevel) \in Nat /\ Unit \subseteq Nat
    BY <1>2, Inside, Bounds
  <1>4. v % S = 0 /\ w % S = 0
    BY <1>2, <1>3, Multiples
  <1>5. w \in Unit /\ w \in Nat
    <2>1. w \in Nat /\ w < Size(MaxLevel)
      BY <1>2, <1>3
    <2>2. QED
      BY <2>1, Bounds
  <1>6. \A u \in Nat : Block(u, v, l + 1) <=> Block(u, v, l) \/ Block(u, w, l)
    BY <1>2, <1>3 DEF Block
  <1>7. \A u, n \in Nat : u \in Units(<<n, l>>) <=> Block(u, n, l)
    BY <1>2 DEF Block, Units
  <1>8. /\ (\A u \in Nat : Block(u, v, l) => u \in KnownBits(p)) \/ (\A u \in Nat : Block(u, v, l) => u \notin KnownBits(p))
        /\ (\A u \in Nat : Block(u, w, l) => u \in KnownBits(p)) \/ (\A u \in Nat : Block(u, w, l) => u \notin KnownBits(p))
    BY <1>1, <1>4, <1>5, KnownIs
  <1>9. \A n \in Nat : Block(n, n, l)
    BY <1>2 DEF Block
  <1>10. \A n \in Nat : IsFull(p, n) <=> \A u \in Nat : Block(u, n, l) => u \in KnownBits(p)
    <2>1. \A n \in Nat : \A u \in Units(<<n, l>>) : u \in Nat
      BY <1>2 DEF Units
    <2>2. QED
      BY <1>7, <2>1 DEF IsFull
  <1>11. \A n \in N : n \in Nat /\ \A u \in Nat : Block(u, n, l) => u \in bitmap'
    <2>1. \A n \in N : n \in Nat
      BY <1>1, NewIs
    <2>2. QED
      BY <1>1, <1>7, <2>1
  <1>12. /\ IsFull(p, v) /\ ~IsFull(p, w) => w \in N
         /\ ~IsFull(p, v) /\ IsFull(p, w) => v \in N
    BY DEF NewChunks, Leaks, IsFull
  <1>13. KnownBits(p) \subseteq bitmap'
    BY <1>1
  <1> HIDE DEF N, S, w
  <1>14. CASE IsFull(p, v) /\ IsFull(p, w)
    BY <1>3, <1>5, <1>6, <1>10, <1>13, <1>14
  <1>15. CASE IsFull(p, v) /\ ~IsFull(p, w)
    BY <1>3, <1>5, <1>6, <1>10, <1>11, <1>12, <1>13, <1>15
  <1>16. CASE ~IsFull(p, v) /\ IsFull(p, w)
    BY <1>3, <1>5, <1>6, <1>10, <1>11, <1>12, <1>13, <1>16
  <1>17. CASE ~IsFull(p, v) /\ ~IsFull(p, w)
    <2>1. ASSUME NEW u \in Unit, Block(u, v, l + 1), u \in bitmap'
          PROVE  FALSE
      <3>1. u \in Nat
        BY <1>3
      <3>2. u \notin KnownBits(p)
        BY <1>3, <1>5, <1>6, <1>8, <1>10, <1>17, <2>1, <3>1
      <3>3. PICK n \in N : u \in Units(<<n, l>>)
        BY <1>1, <2>1, <3>2
      <3>4. PICK t \in Unit :
              /\ t % Size(l + 1) = 0
              /\ \/ n = t /\ IsFull(p, t + S)
                 \/ n = t + S /\ IsFull(p, t)
        BY <1>1, NewIs DEF N, S
      <3>5. t \in Nat /\ n \in Nat /\ Block(u, n, l)
        BY <1>3, <1>7, <1>11, <3>1, <3>3
      <3>6. t <= u /\ u < t + Size(l + 1)
        BY <1>2, <3>1, <3>4, <3>5 DEF Block, S
      <3>7. v <= u /\ u < v + Size(l + 1)
        BY <2>1 DEF Block
      <3>8. l + 1 \in 0 .. 9
        BY <1>2
      <3>9. t = v \/ t + Size(l + 1) <= v \/ v + Size(l + 1) <= t
        BY <1>3, <3>4, <3>5, <3>8, Grid
      <3>10. t = v
        BY <1>2, <1>3, <3>1, <3>5, <3>6, <3>7, <3>9
      <3>11. QED
        BY <1>17, <3>4, <3>10 DEF w
    <2>2. QED
      BY <2>1
  <1>18. QED
    BY <1>14, <1>15, <1>16, <1>17

\* The bitmap of a collection keeps showing what it has seen.
LEMMA NextSweeping ==
  ASSUME IInv, [Next]_vars
  PROVE  Sweeping'
  <1>0. TypeOK /\ Alone /\ Sweeping /\ pc \in [Proc -> PC] /\ mlev \in [Proc -> -1 .. MaxLevel]
    BY DEF IInv, Control, TypeOK
  <1>1. ASSUME \A q \in Proc : pc'[q] # "gc"
        PROVE  Sweeping'
    BY <1>1 DEF Sweeping
  <1>2. ASSUME NEW p \in Proc, GCBegin(p)
        PROVE  Sweeping'
    <2>1. mlev'[p] = 0 /\ \A q \in Proc \ {p} : pc'[q] # "gc"
      BY <1>0, <1>2 DEF GCBegin, Goto
    <2>2. \A u \in Unit : u \notin bitmap'
      BY <1>2, Bounds DEF GCBegin
    <2>3. \A x \in Pieces' : ~(x[3] < mlev'[p])
      <3>1. \A x \in Pieces : x[3] \in Nat
        <4>1. \A x \in Piece : x[3] \in Level
          BY DEF Piece
        <4>2. QED
          BY <4>1, Kinds, LevelSize
      <3>2. Pieces' = Pieces
        BY <1>2, QuietTiles DEF GCBegin, header, history
      <3>3. QED
        BY <2>1, <3>1, <3>2
    <2>4. QED
      BY <2>1, <2>2, <2>3 DEF Sweeping, Unit
  <1>3. ASSUME NEW p \in Proc, GCLevel(p)
        PROVE  Sweeping'
    <2> DEFINE l == mlev[p]
    <2>1. pc[p] = "gc" /\ \A q \in Proc \ {p} : pc'[q] # "gc"
      BY <1>0, <1>3 DEF GCLevel, Alone, Goto
    <2>2. CASE l < MaxLevel
      <3>1. mlev'[p] = l + 1 /\ l \in 0 .. 8 /\ l \in Level
        <4>1. l \in 0 .. 8 /\ l \in Level
          BY <2>1, GCAlone
        <4>2. QED
          BY <1>0, <1>3, <2>2, <4>1 DEF GCLevel
      <3>2. Pieces' = Pieces \cup NewPieces(p)
        BY <1>3, GCTiles
      <3>3. bitmap' = KnownBits(p) \cup UNION {Units(<<n, l>>) : n \in NewChunks(p)}
        BY <1>3, Zenon DEF GCLevel, KnownBits, NewChunks
      <3>4. \A u \in Unit : u \in KnownBits(p) <=> \E x \in Pieces : x[3] <= l /\ Has(x, u)
        BY <2>1, KnownIs
      <3>5. \A u \in Unit : (\E n \in NewChunks(p) : u \in Units(<<n, l>>)) <=> \E x \in NewPieces(p) : Has(x, u)
        <4>1. \A n \in NewChunks(p) : n \in Nat
          BY <2>1, NewIs
        <4>2. Size(l) \in Nat /\ Unit \subseteq Nat
          BY <3>1, LevelSize, Bounds
        <4>3. \A n \in NewChunks(p), u \in Unit : u \in Units(<<n, l>>) <=> Has(<<"free", n, l>>, u)
          BY <4>1, <4>2 DEF Units, Has
        <4>4. QED
          BY <4>3 DEF NewPieces
      <3>6. \A x \in NewPieces(p) : x[3] = l
        BY DEF NewPieces
      <3>7. \A x \in Pieces : x[3] \in Int
        <4>1. \A x \in Piece : x[3] \in Level
          BY DEF Piece
        <4>2. QED
          BY <4>1, Kinds, LevelSize
      <3>8. \A x \in Pieces' : x[3] < l + 1 <=> x[3] <= l
        BY <3>1, <3>2, <3>6, <3>7
      <3>9. \A u \in Unit : u \in bitmap' <=> \E x \in Pieces' : x[3] < l + 1 /\ Has(x, u)
        <4>1. \A u \in Unit : u \in bitmap' <=> \/ u \in KnownBits(p)
                                               \/ \E n \in NewChunks(p) : u \in Units(<<n, l>>)
          BY <3>3
        <4>2. \A u \in Unit : (\E x \in NewPieces(p) : Has(x, u)) <=> \E x \in NewPieces(p) : x[3] <= l /\ Has(x, u)
          BY <3>1, <3>6
        <4>3. \A u \in Unit : u \in bitmap' <=> \E x \in Pieces' : x[3] <= l /\ Has(x, u)
          BY <3>2, <3>4, <3>5, <4>1, <4>2
        <4>4. QED
          BY <3>8, <4>3
      <3>10. \A v \in Unit : v % Size(l + 1) = 0 =>
                 \/ \A u \in Unit : Block(u, v, l + 1) => u \in bitmap'
                 \/ \A u \in Unit : Block(u, v, l + 1) => u \notin bitmap'
        BY <1>3, <2>2, Halves
      <3>11. QED
        BY <2>1, <3>1, <3>9, <3>10 DEF Sweeping, Unit, Has, Block
    <2>3. CASE ~(l < MaxLevel)
      <3>1. pc'[p] = "idle"
        BY <1>0, <1>3, <2>3 DEF GCLevel, Goto
      <3>2. QED
        BY <1>1, <2>1, <3>1
    <2>4. QED
      BY <2>2, <2>3
  <1>4. ASSUME NEW p \in Proc, GCDie(p)
        PROVE  Sweeping'
    <2>1. \A q \in Proc : pc'[q] # "gc"
      BY <1>0, <1>4 DEF GCDie, Alone, Goto
    <2>2. QED
      BY <1>1, <2>1
  <1>5. CASE UNCHANGED vars
    <2>1. Pieces' = Pieces
      BY <1>5, QuietTiles DEF vars, header, merging, local, history
    <2>2. QED
      BY <1>0, <1>5, <2>1, Zenon DEF Sweeping, vars, merging, local, Unit, Block, Has, Size
  <1>6. QED
    BY <1>1, <1>2, <1>3, <1>4, <1>5, Steps, GCOrWork

\* A collection that ends has seen the whole zone.
LEMMA NextRecovers ==
  ASSUME IInv, [Next]_vars
  PROVE  GCRecovers'
  <1>0. TypeOK /\ Alone /\ GCRecovers /\ entry[0] = 0
    BY DEF IInv, Control
  <1>1. ASSUME NEW p \in Proc, GCLevel(p)
        PROVE  GCRecovers'
    <2> DEFINE l == mlev[p]
    <2>1. pc[p] = "gc" /\ ~collected
      BY <1>1, GCAlone DEF GCLevel
    <2>2. l \in Level /\ Tiling(Pieces, lost) /\ lost \subseteq Unit
      BY <2>1, GCAlone DEF TypeOK
    <2>3. CASE l < MaxLevel
      BY <1>1, <2>1, <2>3 DEF GCLevel, GCRecovers
    <2>4. CASE ~(l < MaxLevel)
      <3>1. l = MaxLevel
        BY <2>2, <2>4, Bounds DEF Level
      <3>2. <<"used", 0, 0>> \in Pieces
        <4>1. <<"used", 0, 0>> \in Piece
          BY Tuples, Bounds DEF Place
        <4>2. QED
          BY <1>0, <4>1, Bounds DEF UsedPieces, Pieces
      <3>3. 0 \in KnownBits(p)
        <4>1. Has(<<"used", 0, 0>>, 0)
          BY Sizes DEF Has
        <4>2. 0 <= l /\ 0 \in Unit
          BY <3>1, Bounds
        <4>3. QED
          BY <2>1, <3>2, <4>1, <4>2, KnownIs
      <3>4. 0 % Size(l) = 0
        <4>1. \A s \in Powers : 0 % s = 0
          BY DEF Powers
        <4>2. QED
          BY <2>2, <4>1, Sizes, LevelSize
      <3>5. \A u \in Nat : Block(u, 0, l) => u \in KnownBits(p)
        <4>1. Block(0, 0, l)
          BY <2>2, LevelSize DEF Block
        <4>2. QED
          BY <2>1, <3>3, <3>4, <4>1, KnownIs, Bounds
      <3>6. \A u \in Unit : u \in KnownBits(p)
        <4>1. \A u \in Unit : u \in Nat /\ 0 <= u /\ u < Size(l)
          BY <3>1, Bounds
        <4>2. QED
          <5>1. Size(l) \in Nat
            BY <2>2, LevelSize
          <5>2. QED
            BY <3>5, <4>1, <5>1 DEF Block
      <3>7. Unit \subseteq bitmap'
        <4>1. KnownBits(p) \subseteq bitmap'
          BY <1>1, Zenon DEF GCLevel, KnownBits
        <4>2. QED
          BY <3>6, <4>1
      <3>8. lost = {}
        <4>1. \A u \in Unit : \E x \in Pieces : Has(x, u)
          BY <2>1, <3>6, KnownIs
        <4>2. QED
          BY <2>2, <4>1 DEF Tiling
      <3>9. lost' = {}
        BY <1>1, <3>8 DEF GCLevel
      <3>10. QED
        BY <3>7, <3>9 DEF GCRecovers, Unit
    <2>5. QED
      BY <2>3, <2>4
  <1>2. ASSUME ~collected'
        PROVE  GCRecovers'
    BY <1>2 DEF GCRecovers
  <1>3. ASSUME NEW p \in Proc, GCBegin(p) \/ GCDie(p)
        PROVE  ~collected'
    BY <1>0, <1>3 DEF GCBegin, GCDie, Alone, history
  <1>4. CASE UNCHANGED vars
    BY <1>0, <1>4 DEF vars, merging, history, GCRecovers, Unit
  <1>5. QED
    BY <1>1, <1>2, <1>3, <1>4, Steps, GCOrWork

\* The invariant is inductive.
LEMMA NextIInv ==
  ASSUME IInv, [Next]_vars
  PROVE  IInv'
  <1>1. TypeOK'
    BY NextListTypes, NextHeaderTypes, NextMergingTypes, NextLocalTypes, NextOtherTypes, TypeParts
       DEF TypeOK, ListTypes, HeaderTypes, MergingTypes, LocalTypes, OtherTypes
  <1>2. Control'
    BY NextHolding, NextOneMerger, NextLevels, NextRecorded, NextChained, NextPosted, NextAlone DEF Control
  <1>3. Tiling(Pieces', lost') /\ (~collected' => Fit(Pieces'))
    <2>0. Alone /\ Tiling(Pieces, lost) /\ (~collected => Fit(Pieces))
      BY DEF IInv, Control
    <2>1. ASSUME NEW p \in Proc, UserStep(p) \/ MergeStep(p) \/ RecoverMerge(p), ~GCLevel(p)
          PROVE  StaysTiled
      <3>1. ~collected
        BY <2>0, <2>1, GCOrWork DEF GCBegin, GCDie, Alone
      <3>2. QED
        BY <2>1, <3>1, NextTiles
    <2>2. ASSUME NEW p \in Proc, GCLevel(p)
          PROVE  Tiling(Pieces', lost') /\ (~collected' => Fit(Pieces'))
      <3>1. ~collected' => mlev[p] < MaxLevel
        BY <2>2 DEF GCLevel
      <3>2. QED
        BY <2>2, <3>1, GCTiles
    <2>3. CASE UNCHANGED vars
      <3>1. Pieces' = Pieces /\ lost' = lost /\ collected' = collected
        BY <2>3, QuietTiles DEF vars, header, merging, local, history
      <3>2. QED
        BY <2>0, <3>1
    <2>4. QED
      BY <2>1, <2>2, <2>3, Steps DEF StaysTiled
  <1>4. QED
    BY <1>1, <1>2, <1>3, NextMarked, NextFirst, NextSweeping, NextBuddies, NextRecovers
       DEF IInv, Tiling, Fit, Has, Unit, Size

\* Every unit but the first lies in the chunk of the constructor that begins at
\* the largest power of two below it.
LEMMA Logarithm ==
  ASSUME NEW u \in Unit, u # 0
  PROVE  \E l \in 0 .. MaxLevel - 1 : Size(l) <= u /\ u < Size(l) + Size(l)
  <1>1. MaxLevel \in 1 .. 8 /\ u \in Nat /\ u < Size(MaxLevel)
    BY Bounds
  <1>2. \A s \in Powers : s <= 512
    BY DEF Powers
  <1>3. u < 512 /\ u >= 1
    <2>1. Size(MaxLevel) \in Powers /\ Size(MaxLevel) \in Nat
      BY <1>1, Sizes
    <2>2. Size(MaxLevel) <= 512
      BY <1>2, <2>1
    <2>3. QED
      BY <1>1, <2>1, <2>2
  <1>4. \E s \in Powers \ {512} : s <= u /\ u < s + s
    <2>1. \/ 1 <= u /\ u < 2
          \/ 2 <= u /\ u < 4
          \/ 4 <= u /\ u < 8
          \/ 8 <= u /\ u < 16
          \/ 16 <= u /\ u < 32
          \/ 32 <= u /\ u < 64
          \/ 64 <= u /\ u < 128
          \/ 128 <= u /\ u < 256
          \/ 256 <= u /\ u < 512
      BY <1>1, <1>3
    <2>2. QED
      BY <2>1 DEF Powers
  <1>5. \A s \in Powers \ {512} : \E l \in 0 .. 8 : Size(l) = s
    <2>1. /\ Size(0) = 1 /\ Size(1) = 2 /\ Size(2) = 4 /\ Size(3) = 8 /\ Size(4) = 16
          /\ Size(5) = 32 /\ Size(6) = 64 /\ Size(7) = 128 /\ Size(8) = 256
      BY DEF Size
    <2>2. \A s \in Powers \ {512} : s \in {Size(0), Size(1), Size(2), Size(3), Size(4), Size(5), Size(6), Size(7), Size(8)}
      BY <2>1 DEF Powers
    <2>3. QED
      BY <2>2
  <1>6. PICK l \in 0 .. 8 : Size(l) <= u /\ u < Size(l) + Size(l)
    BY <1>4, <1>5
  <1>7. l < MaxLevel
    <2>1. CASE MaxLevel <= l
      <3>1. Size(MaxLevel) <= Size(l)
        BY <1>1, <1>6, <2>1, Divides
      <3>2. Size(MaxLevel) \in Nat /\ Size(l) \in Nat
        BY <1>1, <1>6, Sizes
      <3>3. QED
        BY <1>1, <1>6, <3>1, <3>2
    <2>2. QED
      BY <1>1, <2>1
  <1>8. QED
    BY <1>1, <1>6, <1>7

\* The constructor makes a zone that satisfies it.
LEMMA InitIInv == Init => IInv
  <1> SUFFICES ASSUME Init
               PROVE  IInv
    OBVIOUS
  <1>0. MaxLevel \in 1 .. 8 /\ Level = 0 .. MaxLevel /\ Free \notin Level
    BY Bounds DEF Level, Free
  <1>1. \A l \in Level : l < MaxLevel =>
           /\ Size(l) \in Unit /\ Size(l) % Size(l) = 0 /\ Size(l) \in Nat /\ Size(l) > 0
    <2>1. ASSUME NEW l \in Level, l < MaxLevel
          PROVE  Size(l) < Size(MaxLevel) /\ Size(l) % Size(l) = 0 /\ Size(l) \in Nat /\ Size(l) > 0
      <3>1. l \in 0 .. 8 /\ l \in 0 .. 9 /\ l + 1 \in 0 .. 9 /\ MaxLevel \in 0 .. 9 /\ l + 1 <= MaxLevel /\ l <= l
        BY <1>0, <2>1
      <3>2. Size(l + 1) = 2 * Size(l) /\ Size(l) \in Nat /\ Size(l) > 0
        BY <3>1, Sizes
      <3>3. Size(l + 1) <= Size(MaxLevel) /\ Size(l) % Size(l) = 0
        BY <3>1, Divides
      <3>4. Size(l) < Size(MaxLevel)
        BY <3>2, <3>3, Bounds
      <3>5. QED
        BY <3>2, <3>3, <3>4
    <2>2. QED
      BY <2>1, Bounds
  <1>2. /\ \A x \in FreePieces : x[3] \in Level /\ x[3] < MaxLevel /\ x[2] = Size(x[3]) /\ x = <<"free", Size(x[3]), x[3]>>
        /\ \A l \in Level : l < MaxLevel => <<"free", Size(l), l>> \in FreePieces
    <2>1. \A l \in Level : free_list[l] = IF l = MaxLevel THEN {} ELSE {Size(l)}
      BY DEF Init
    <2>2. ASSUME NEW x \in FreePieces
          PROVE  x[3] \in Level /\ x[3] < MaxLevel /\ x[2] = Size(x[3]) /\ x = <<"free", Size(x[3]), x[3]>>
      <3>1. x \in Piece /\ x[1] = "free" /\ x[2] \in free_list[x[3]] /\ x[3] \in Level
        BY DEF FreePieces, Piece
      <3>2. x[3] # MaxLevel /\ x[2] = Size(x[3])
        BY <2>1, <3>1
      <3>3. x = <<x[1], x[2], x[3]>>
        BY <3>1, Tuples
      <3>4. x[3] < MaxLevel
        BY <1>0, <3>1, <3>2
      <3>5. QED
        BY <3>1, <3>2, <3>3, <3>4
    <2>3. ASSUME NEW l \in Level, l < MaxLevel
          PROVE  <<"free", Size(l), l>> \in FreePieces
      <3>1. <<"free", Size(l), l>> \in Piece
        BY <1>1, <2>3, Tuples DEF Place
      <3>2. Size(l) \in free_list[l]
        <4>1. l # MaxLevel
          BY <1>0, <2>3
        <4>2. QED
          BY <2>1, <4>1
      <3>3. QED
        BY <3>1, <3>2 DEF FreePieces
    <2>4. QED
      BY <2>2, <2>3
  <1>3. UsedPieces = {<<"used", 0, 0>>}
    <2>1. <<"used", 0, 0>> \in Piece
      BY Tuples, Bounds DEF Place
    <2>2. entry[0] = 0 /\ \A u \in Unit : entry[u] \in Level => u = 0
      BY <1>0, Bounds DEF Init
    <2>3. <<"used", 0, 0>> \in UsedPieces
      BY <2>1, <2>2, Bounds DEF UsedPieces
    <2>4. ASSUME NEW x \in UsedPieces
          PROVE  x = <<"used", 0, 0>>
      <3>1. x \in Piece /\ x[1] = "used" /\ x[2] \in Unit /\ entry[x[2]] = x[3] /\ x[3] \in Level
        BY DEF UsedPieces, Piece
      <3>2. x[2] = 0 /\ x[3] = 0
        BY <2>2, <3>1
      <3>3. QED
        BY <3>1, <3>2, Tuples
    <2>5. QED
      BY <2>3, <2>4
  <1>4. HandPieces = {} /\ MergePieces = {}
    <2>1. \A p \in Proc : hand[p] = NoChunk
      BY DEF Init
    <2>2. \A u \in Unit \cup Beyond, l \in Level : <<u, l>> # NoChunk
      <3>1. \A u \in Unit \cup Beyond, l \in Level : <<u, l>> \in Nat \X Nat
        BY Bounds, LevelSize
      <3>2. QED
        BY <3>1, ZoneAssumption
    <2>3. HandPieces = {}
      <3>1. \A x \in Piece : x[2] \in Unit \cup Beyond /\ x[3] \in Level
        BY DEF Piece
      <3>2. QED
        BY <2>1, <2>2, <3>1 DEF HandPieces
    <2>4. MergePieces = {}
      BY DEF Init, MergePieces, ChainPieces, DEFAULT, FREELIST_COMPLETED
    <2>5. QED
      BY <2>3, <2>4
  <1>5. Pieces = FreePieces \cup {<<"used", 0, 0>>}
    BY <1>3, <1>4 DEF Pieces
  <1>6. \A u \in Nat : Has(<<"used", 0, 0>>, u) <=> u = 0
    BY Sizes DEF Has
  <1>7. \A x \in FreePieces : \A u \in Nat : Has(x, u) <=> Size(x[3]) <= u /\ u < Size(x[3]) + Size(x[3])
    BY <1>2 DEF Has
  <1>8. Tiling(Pieces, lost)
    <2>1. \A x \in FreePieces : \A u \in Nat : Has(x, u) => u # 0
      BY <1>1, <1>2, <1>7
    <2>2. ASSUME NEW x \in FreePieces, NEW y \in FreePieces, NEW u \in Nat, Has(x, u), Has(y, u), x[3] < y[3]
          PROVE  FALSE
      <3> DEFINE l == x[3]
                 m == y[3]
      <3>1. l \in 0 .. 8 /\ l + 1 \in 0 .. 9 /\ m \in 0 .. 9 /\ l + 1 <= m
        BY <1>0, <1>2, <2>2
      <3>2. Size(l + 1) = 2 * Size(l) /\ Size(l) \in Nat /\ Size(m) \in Nat
        BY <3>1, Sizes
      <3>3. Size(l + 1) <= Size(m)
        BY <3>1, Divides
      <3>4. u < Size(l) + Size(l) /\ Size(m) <= u
        BY <1>7, <2>2
      <3> HIDE DEF l, m
      <3>5. QED
        BY <3>2, <3>3, <3>4
    <2>3. \A x, y \in FreePieces : \A u \in Nat : Has(x, u) /\ Has(y, u) => x = y
      <3>1. SUFFICES ASSUME NEW x \in FreePieces, NEW y \in FreePieces, NEW u \in Nat, Has(x, u), Has(y, u)
                     PROVE  x = y
        OBVIOUS
      <3>2. x[3] = y[3] \/ x[3] < y[3] \/ y[3] < x[3]
        BY <1>0, <1>2
      <3>3. x[3] = y[3]
        BY <2>2, <3>1, <3>2
      <3>4. QED
        BY <1>2, <3>3
    <2>4. ASSUME NEW u \in Unit
          PROVE  \E x \in Pieces : Has(x, u)
      <3>1. u \in Nat
        BY Bounds
      <3>2. CASE u = 0
        BY <1>5, <1>6, <3>1, <3>2
      <3>3. CASE u # 0
        <4>1. PICK l \in 0 .. MaxLevel - 1 : Size(l) <= u /\ u < Size(l) + Size(l)
          BY <3>3, Logarithm
        <4>2. l \in Level /\ l < MaxLevel
          BY <1>0, <4>1
        <4>3. Has(<<"free", Size(l), l>>, u)
          BY <4>1 DEF Has
        <4>4. QED
          BY <1>2, <1>5, <4>2, <4>3
      <3>4. QED
        BY <3>2, <3>3
    <2>5. lost = {}
      BY DEF Init
    <2>6. \A x, y \in Pieces : \A u \in Nat : Has(x, u) /\ Has(y, u) => x = y
      BY <1>5, <1>6, <2>1, <2>3
    <2>7. QED
      BY <2>4, <2>5, <2>6 DEF Tiling
  <1>9. Fit(Pieces)
    <2>1. 0 % Size(0) = 0
      BY Sizes
    <2>2. \A x \in FreePieces : x[2] % Size(x[3]) = 0 /\ x[2] \in Unit
      BY <1>1, <1>2
    <2>3. QED
      BY <1>5, <2>1, <2>2, Bounds DEF Fit
  <1>10. ListTypes
    <2>1. \A l \in Level : free_list[l] = IF l = MaxLevel THEN {} ELSE {Size(l)}
      BY DEF Init
    <2>2. \A l \in Level : l # MaxLevel => l < MaxLevel
      BY <1>0
    <2>3. \A l \in Level : free_list[l] \subseteq Aligned(l) /\ free_list[l] \subseteq Unit
      BY <1>1, <2>1, <2>2 DEF Aligned
    <2>4. free_list \in [Level -> SUBSET (Unit \cup Beyond)]
      <3>1. DOMAIN free_list = Level /\ free_list = [l \in Level |-> free_list[l]]
        BY DEF Init
      <3>2. QED
        BY <2>3, <3>1
    <2>5. QED
      BY <2>3, <2>4 DEF ListTypes
  <1>11. TypeOK
    <2>1. HeaderTypes
      BY <1>0 DEF Init, HeaderTypes, DEFAULT, FREELIST_COMPLETED
    <2>2. MergingTypes
      BY DEF Init, MergingTypes
    <2>3. LocalTypes
      BY <1>0 DEF Init, LocalTypes, PC
    <2>4. OtherTypes
      <3>1. 0 \in Level
        BY Bounds
      <3>2. entry \in [Unit -> Level \cup {Free}]
        BY <3>1 DEF Init
      <3>3. lost = {} /\ collected = FALSE /\ deaths \in 0 .. MaxDeaths
        BY ZoneAssumption DEF Init
      <3>4. QED
        BY <3>2, <3>3 DEF OtherTypes
    <2>5. QED
      BY <1>10, <2>1, <2>2, <2>3, <2>4, TypeParts
  <1>12. Control
    <2>1. /\ \A p \in Proc : pc[p] = "idle" /\ hand[p] = NoChunk
          /\ merge_status = DEFAULT /\ chain = {} /\ bitmap = {} /\ ~collected
      BY DEF Init
    <2>2. Holding /\ OneMerger /\ Alone
      BY <2>1 DEF Holding, OneMerger, Merger, MergePC, Alone
    <2>3. Levels /\ Recorded /\ Chained /\ Posted
      BY <2>1 DEF Levels, Recorded, Chained, Posted, MergePC, Detached, Listed,
         DEFAULT, SWAP_COMPLETED, BITMAP_COMPLETED, FREELIST_COMPLETED
    <2>4. QED
      BY <2>2, <2>3 DEF Control
  <1>13. Marked /\ Sweeping /\ BuddiesMerged /\ GCRecovers /\ entry[0] = 0
    BY Bounds DEF Init, Marked, Sweeping, BuddiesMerged, GCRecovers, DEFAULT, BITMAP_COMPLETED, FREELIST_COMPLETED
  <1>14. QED
    BY <1>8, <1>9, <1>11, <1>12, <1>13 DEF IInv

\* So every state of a zone satisfies it.
LEMMA Invariance == Spec => []IInv
  <1>1. IInv /\ [Next]_vars => IInv'
    BY NextIInv
  <1>2. QED
    BY <1>1, InitIInv, PTL DEF Spec

-----------------------------------------------------------------------------
(* The properties of the zone *)

\* A level from which something is merged is one.
LEMMA MergeLevel ==
  ASSUME IInv
  PROVE  /\ merge_status # FREELIST_COMPLETED /\ chain # {} => current_merge_level \in Level
         /\ merge_status = FREELIST_COMPLETED /\ post_merge_level # {} => current_merge_level \in Level
         /\ merge_status = FREELIST_COMPLETED /\ post_merge_next_level # {} => current_merge_level + 1 \in Level
  <1>1. TypeOK /\ Levels /\ Chained /\ Posted /\ MaxLevel \in 1 .. 8
    BY Bounds DEF IInv, Control
  <1>2. current_merge_level \in -1 .. MaxLevel - 1 /\ merge_status \in {0, 1, 2, 3}
    BY <1>1 DEF TypeOK, DEFAULT, FREELIST_COMPLETED
  <1>3. current_merge_level + 1 \in Level
    BY <1>1, <1>2 DEF Level
  <1>4. current_merge_level # -1 => current_merge_level \in Level
    BY <1>1, <1>2 DEF Level
  <1>5. CASE merge_status = FREELIST_COMPLETED
    BY <1>1, <1>3, <1>4, <1>5 DEF Posted
  <1>6. CASE merge_status # FREELIST_COMPLETED
    <2>1. chain # {} => current_merge_level # -1
      BY <1>1, <1>2, <1>6 DEF Levels, Chained, DEFAULT, SWAP_COMPLETED, BITMAP_COMPLETED, FREELIST_COMPLETED
    <2>2. QED
      BY <1>4, <1>6, <2>1
  <1>7. QED
    BY <1>5, <1>6

\* The chunks of the specification are the pieces, without their place.
LEMMA ChunkPieces ==
  ASSUME IInv
  PROVE  /\ \A c \in FreeChunks : c = <<c[1], c[2]>> /\ <<"free", c[1], c[2]>> \in Pieces
         /\ \A c \in UsedChunks : c = <<c[1], c[2]>> /\ <<"used", c[1], c[2]>> \in Pieces
         /\ \A c \in HandChunks : c = <<c[1], c[2]>> /\ <<"hand", c[1], c[2]>> \in Pieces
         /\ \A c \in MergeChunks : c = <<c[1], c[2]>> /\ <<"merge", c[1], c[2]>> \in Pieces
         /\ \A x \in Pieces : <<x[2], x[3]>> \in Chunks
  <1>1. TypeOK
    BY DEF IInv
  <1>2. ASSUME NEW c \in FreeChunks
        PROVE  c = <<c[1], c[2]>> /\ <<"free", c[1], c[2]>> \in Pieces
    <2>1. PICK l \in Level : \E u \in free_list[l] : c = <<u, l>>
      BY DEF FreeChunks
    <2>2. PICK u \in free_list[l] : c = <<u, l>>
      BY <2>1
    <2>3. u \in Unit \cup Beyond
      BY <1>1 DEF TypeOK
    <2>4. <<"free", u, l>> \in Pieces
      BY <2>3, Tuples DEF FreePieces, Pieces, Place
    <2>5. QED
      BY <2>2, <2>4
  <1>3. ASSUME NEW c \in UsedChunks
        PROVE  c = <<c[1], c[2]>> /\ <<"used", c[1], c[2]>> \in Pieces
    <2>1. PICK u \in Unit : entry[u] # Free /\ c = <<u, entry[u]>>
      BY DEF UsedChunks
    <2>2. entry[u] \in Level
      BY <1>1, <2>1 DEF TypeOK
    <2>3. <<"used", u, entry[u]>> \in Pieces
      BY <2>2, Tuples DEF UsedPieces, Pieces, Place
    <2>4. QED
      BY <2>1, <2>3
  <1>4. ASSUME NEW c \in HandChunks
        PROVE  c = <<c[1], c[2]>> /\ <<"hand", c[1], c[2]>> \in Pieces
    <2>1. PICK p \in Proc : c = hand[p] /\ hand[p] # NoChunk
      BY DEF HandChunks
    <2>2. PICK u \in Unit, l \in Level : c = <<u, l>>
      BY <1>1, <2>1 DEF TypeOK
    <2>3. <<"hand", u, l>> \in Pieces
      BY <2>1, <2>2, Tuples DEF HandPieces, Pieces, Place
    <2>4. QED
      BY <2>2, <2>3
  <1>5. ASSUME NEW c \in MergeChunks
        PROVE  c = <<c[1], c[2]>> /\ <<"merge", c[1], c[2]>> \in Pieces
    <2>0. chain \subseteq Unit /\ post_merge_level \subseteq Unit /\ post_merge_next_level \subseteq Unit
      BY <1>1 DEF TypeOK
    <2>1. CASE merge_status # FREELIST_COMPLETED
      <3>1. PICK u \in chain : c = <<u, current_merge_level>>
        BY <2>1 DEF MergeChunks
      <3>2. current_merge_level \in Level
        BY <2>1, <3>1, MergeLevel
      <3>3. <<"merge", u, current_merge_level>> \in Pieces
        BY <2>0, <2>1, <3>1, <3>2, Tuples DEF ChainPieces, MergePieces, Pieces, Place
      <3>4. QED
        BY <3>1, <3>3
    <2>2. CASE merge_status = FREELIST_COMPLETED
      <3>1. \/ \E u \in post_merge_level : c = <<u, current_merge_level>>
            \/ \E u \in post_merge_next_level : c = <<u, current_merge_level + 1>>
        BY <2>2 DEF MergeChunks
      <3>2. CASE \E u \in post_merge_level : c = <<u, current_merge_level>>
        <4>1. PICK u \in post_merge_level : c = <<u, current_merge_level>>
          BY <3>2
        <4>2. current_merge_level \in Level
          BY <2>2, <4>1, MergeLevel
        <4>3. <<"merge", u, current_merge_level>> \in Piece
          BY <2>0, <4>1, <4>2, Tuples DEF Place
        <4>4. <<"merge", u, current_merge_level>> \in Pieces
          BY <2>2, <4>1, <4>3 DEF PostPieces, MergePieces, Pieces
        <4>5. QED
          BY <4>1, <4>4
      <3>3. CASE \E u \in post_merge_next_level : c = <<u, current_merge_level + 1>>
        <4>1. PICK u \in post_merge_next_level : c = <<u, current_merge_level + 1>>
          BY <3>3
        <4>2. current_merge_level + 1 \in Level
          BY <2>2, <4>1, MergeLevel
        <4>3. <<"merge", u, current_merge_level + 1>> \in Piece
          BY <2>0, <4>1, <4>2, Tuples DEF Place
        <4>4. <<"merge", u, current_merge_level + 1>> \in Pieces
          BY <2>2, <4>1, <4>3 DEF PostPieces, MergePieces, Pieces
        <4>5. QED
          BY <4>1, <4>4
      <3>4. QED
        BY <3>1, <3>2, <3>3
    <2>3. QED
      BY <2>1, <2>2
  <1>6. ASSUME NEW x \in Pieces
        PROVE  <<x[2], x[3]>> \in Chunks
    <2>1. x[3] \in Level /\ x[2] \in Unit \cup Beyond
      <3>1. x \in Piece
        BY Kinds
      <3>2. QED
        BY <3>1 DEF Piece
    <2>2. CASE x \in FreePieces
      BY <2>1, <2>2 DEF FreePieces, FreeChunks, Chunks
    <2>3. CASE x \in UsedPieces
      <3>1. x[2] \in Unit /\ entry[x[2]] = x[3]
        BY <2>3 DEF UsedPieces
      <3>2. x[3] # Free
        BY <2>1, Bounds DEF Level, Free
      <3>3. QED
        BY <3>1, <3>2 DEF UsedChunks, Chunks
    <2>4. CASE x \in HandPieces
      <3>1. PICK p \in Proc : hand[p] = <<x[2], x[3]>>
        BY <2>4 DEF HandPieces
      <3>2. <<x[2], x[3]>> # NoChunk
        <4>1. x[2] \in Nat /\ x[3] \in Nat
          BY <2>1, Bounds, LevelSize
        <4>2. QED
          BY <4>1, ZoneAssumption
      <3>3. QED
        BY <3>1, <3>2 DEF HandChunks, Chunks
    <2>5. CASE x \in MergePieces
      BY <2>5 DEF MergePieces, ChainPieces, PostPieces, MergeChunks, Chunks
    <2>6. QED
      BY <2>2, <2>3, <2>4, <2>5 DEF Pieces
  <1>7. QED
    BY <1>2, <1>3, <1>4, <1>5, <1>6

\* Two pieces that are not one are apart.
LEMMA PiecesApart ==
  ASSUME IInv, NEW x \in Pieces, NEW y \in Pieces, x # y
  PROVE  Apart(<<x[2], x[3]>>, <<y[2], y[3]>>)
  <1>1. /\ x[2] \in Nat /\ Size(x[3]) \in Nat /\ Size(x[3]) > 0
        /\ y[2] \in Nat /\ Size(y[3]) \in Nat /\ Size(y[3]) > 0
    <2>1. x \in Piece /\ y \in Piece
      BY Kinds
    <2>2. QED
      BY <2>1, Bounds, LevelSize DEF Piece
  <1>2. \A u \in Nat : ~(Has(x, u) /\ Has(y, u))
    BY DEF IInv, Tiling
  <1>3. CASE x[2] <= y[2]
    <2>1. ~Has(x, y[2])
      BY <1>1, <1>2 DEF Has
    <2>2. QED
      BY <1>1, <1>3, <2>1 DEF Has, Apart
  <1>4. CASE y[2] <= x[2]
    <2>1. ~Has(y, x[2])
      BY <1>1, <1>2 DEF Has
    <2>2. QED
      BY <1>1, <1>4, <2>1 DEF Has, Apart
  <1>5. QED
    BY <1>1, <1>3, <1>4

(* The fields of the header, the lists, the bitmap, and what every process *)
(* has at hand, stay in their types: no step of alloc, free, merge or the  *)
(* collection puts a chunk on the list of a level it is not aligned to.    *)
THEOREM TypeCorrect == Spec => []TypeOK
  <1>1. IInv => TypeOK
    BY DEF IInv
  <1>2. QED
    BY <1>1, Invariance, PTL

(* alloc, free, merge, recovery and collection never make one unit part of *)
(* two chunks, nor one chunk the property of two.                          *)
THEOREM NoOverlapTheorem == Spec => []NoOverlap
  <1>1. IInv => NoOverlap
    <2> SUFFICES ASSUME IInv
                 PROVE  NoOverlap
      OBVIOUS
    <2>1. ASSUME NEW c \in Chunks, NEW d \in Chunks, c # d
          PROVE  Apart(c, d)
      <3>1. \A e \in Chunks : \E x \in Pieces : e = <<x[2], x[3]>>
        <4>1. ASSUME NEW e \in Chunks, NEW k, e = <<e[1], e[2]>>, <<k, e[1], e[2]>> \in Pieces
              PROVE  \E x \in Pieces : e = <<x[2], x[3]>>
          <5>1. WITNESS <<k, e[1], e[2]>> \in Pieces
          <5>2. QED
            BY <4>1
        <4>2. QED
          BY <4>1, ChunkPieces DEF Chunks
      <3>2. PICK x \in Pieces, y \in Pieces : c = <<x[2], x[3]>> /\ d = <<y[2], y[3]>>
        BY <3>1
      <3>3. x # y
        BY <2>1, <3>2
      <3>4. QED
        BY <3>2, <3>3, PiecesApart
    <2>2. ASSUME NEW c, NEW k, NEW m, k # m, <<k, c[1], c[2]>> \in Pieces, <<m, c[1], c[2]>> \in Pieces
          PROVE  FALSE
      <3> DEFINE x == <<k, c[1], c[2]>>
                 y == <<m, c[1], c[2]>>
      <3>1. x[2] = y[2] /\ x[1] = k /\ y[1] = m
        OBVIOUS
      <3>2. x = y
        BY <2>2, <3>1, Starts
      <3> HIDE DEF x, y
      <3>3. QED
        BY <2>2, <3>1, <3>2
    <2>3. /\ FreeChunks \cap UsedChunks = {} /\ FreeChunks \cap HandChunks = {}
          /\ FreeChunks \cap MergeChunks = {} /\ UsedChunks \cap HandChunks = {}
          /\ UsedChunks \cap MergeChunks = {} /\ HandChunks \cap MergeChunks = {}
      <3>1. /\ "free" # "used" /\ "free" # "hand" /\ "free" # "merge"
            /\ "used" # "hand" /\ "used" # "merge" /\ "hand" # "merge"
        OBVIOUS
      <3>2. /\ \A c : c \in FreeChunks => <<"free", c[1], c[2]>> \in Pieces
            /\ \A c : c \in UsedChunks => <<"used", c[1], c[2]>> \in Pieces
            /\ \A c : c \in HandChunks => <<"hand", c[1], c[2]>> \in Pieces
            /\ \A c : c \in MergeChunks => <<"merge", c[1], c[2]>> \in Pieces
        BY ChunkPieces
      <3>3. \A c, k, m : k # m => ~(<<k, c[1], c[2]>> \in Pieces /\ <<m, c[1], c[2]>> \in Pieces)
        BY <2>2
      <3>4. \A c : ~(c \in FreeChunks /\ c \in UsedChunks) /\ ~(c \in FreeChunks /\ c \in HandChunks)
        BY <3>1, <3>2, <3>3
      <3>5. \A c : ~(c \in FreeChunks /\ c \in MergeChunks) /\ ~(c \in UsedChunks /\ c \in HandChunks)
        BY <3>1, <3>2, <3>3
      <3>6. \A c : ~(c \in UsedChunks /\ c \in MergeChunks) /\ ~(c \in HandChunks /\ c \in MergeChunks)
        BY <3>1, <3>2, <3>3
      <3>7. QED
        BY <3>4, <3>5, <3>6
    <2>4. \A i, j \in 1 .. 4 : i < j => Places[i] \cap Places[j] = {}
      <3>1. /\ Places[1] = FreeChunks /\ Places[2] = UsedChunks
            /\ Places[3] = HandChunks /\ Places[4] = MergeChunks
        BY DEF Places
      <3>2. \A i, j \in 1 .. 4 : i < j =>
               \/ i = 1 /\ j \in {2, 3, 4}
               \/ i = 2 /\ j \in {3, 4}
               \/ i = 3 /\ j = 4
        OBVIOUS
      <3>3. QED
        BY <2>3, <3>1, <3>2
    <2>5. \A p, q \in Proc : p # q /\ hand[p] = hand[q] => hand[p] = NoChunk
      BY DEF IInv, Control, Holding
    <2>6. QED
      BY <2>1, <2>4, <2>5 DEF NoOverlap
  <1>2. QED
    BY <1>1, Invariance, PTL

(* Memory is lost only where a crash loses the chunk in somebody's hand or *)
(* a recovery gives up a list that merge detached without recording it.    *)
THEOREM TiledTheorem == Spec => []Tiled
  <1>1. IInv => Tiled
    <2> SUFFICES ASSUME IInv
                 PROVE  Tiled
      OBVIOUS
    <2>1. Tiling(Pieces, lost) /\ lost \subseteq Unit
      BY DEF IInv, TypeOK
    <2>2. \A x \in Pieces : x[2] \in Nat /\ Size(x[3]) \in Nat
      <3>1. \A x \in Piece : x[2] \in Unit \cup Beyond /\ x[3] \in Level
        BY DEF Piece
      <3>2. QED
        BY <3>1, Kinds, Bounds, LevelSize
    <2>3. \A x \in Pieces, u \in Nat : u \in Units(<<x[2], x[3]>>) <=> Has(x, u)
      BY <2>2 DEF Units, Has
    <2>4. ASSUME NEW u \in Unit \ lost
          PROVE  u \in UNION {Units(c) : c \in Chunks}
      <3>1. PICK x \in Pieces : Has(x, u)
        BY <2>1 DEF Tiling
      <3>2. <<x[2], x[3]>> \in Chunks
        BY ChunkPieces
      <3>3. u \in Units(<<x[2], x[3]>>)
        BY <2>3, <3>1, Bounds
      <3>4. QED
        BY <3>2, <3>3
    <2>5. ASSUME NEW c \in Chunks
          PROVE  Units(c) \cap lost = {}
      <3>1. PICK k : c = <<c[1], c[2]>> /\ <<k, c[1], c[2]>> \in Pieces
        BY ChunkPieces DEF Chunks
      <3> DEFINE x == <<k, c[1], c[2]>>
      <3>2. x \in Pieces /\ x[2] = c[1] /\ x[3] = c[2]
        BY <3>1
      <3> HIDE DEF x
      <3>3. \A u \in lost : ~Has(x, u)
        BY <2>1, <3>2 DEF Tiling
      <3>4. \A u \in lost : u \in Nat
        BY <2>1, Bounds
      <3>5. \A u \in lost : u \notin Units(<<x[2], x[3]>>)
        BY <2>3, <3>2, <3>3, <3>4
      <3>6. QED
        BY <3>1, <3>2, <3>5
    <2>6. QED
      BY <2>4, <2>5 DEF Tiled
  <1>2. QED
    BY <1>1, Invariance, PTL

(* The assertions of the merge steps on merge_status and the CAS on        *)
(* current_merge_level hold, also where recovery enters in the middle.     *)
THEOREM MergeAssertsTheorem == Spec => []MergeAsserts
  <1>1. IInv => MergeAsserts
    BY DEF IInv, Control, Recorded, Levels, Listed, Detached, MergeAsserts
  <1>2. QED
    BY <1>1, Invariance, PTL

(* A collection that has ended has given back every chunk that crashes had *)
(* lost, and its bitmap covers the zone.                                   *)
THEOREM GCRecoversTheorem == Spec => []GCRecovers
  <1>1. IInv => GCRecovers
    BY DEF IInv
  <1>2. QED
    BY <1>1, Invariance, PTL

(* No two buddies stay apart on the lists that a merge has built.          *)
THEOREM BuddiesMergedTheorem == Spec => []BuddiesMerged
  <1>1. IInv => BuddiesMerged
    BY DEF IInv
  <1>2. QED
    BY <1>1, Invariance, PTL

-----------------------------------------------------------------------------
(* The size classes.  Statements about all exponents of a word are proved   *)
(* by induction: the set of those they hold for has 0 and all that follow.  *)

\* A set with 0 and the number after each of its numbers has all up to a bound.
LEMMA UpTo ==
  ASSUME NEW N \in Nat, NEW T, 0 \in T, \A i \in 0 .. N - 1 : i \in T => i + 1 \in T
  PROVE  0 .. N \subseteq T
  <1> DEFINE Rest == {i \in 0 .. N : i \notin T}
  <1>1. SUFFICES ASSUME Rest # {} PROVE FALSE
    OBVIOUS
  <1>0. Rest \in SUBSET Nat
    OBVIOUS
  <1>2. PICK n \in Rest : \A y \in Rest : n <= y
    <2> HIDE DEF Rest
    <2>1. QED
      BY <1>0, <1>1, LeastNumber
  <1>3. n \in 1 .. N
    BY <1>2
  <1>4. n - 1 \in 0 .. N - 1 /\ n - 1 \notin Rest
    BY <1>2, <1>3
  <1>5. n - 1 \in T
    BY <1>4
  <1>6. n \in T
    BY <1>3, <1>4, <1>5
  <1>7. QED
    BY <1>2, <1>6

\* The lengths of words.
LengthOf(l) == 2 ^ l
LEMMA Widths ==
  /\ LogWidth \in 1 .. 6 /\ Width \in Nat /\ Width >= 2 /\ 2 * Width \in Nat
  /\ LogWidth <= Width
  /\ \A f : f[0] = 1 /\ (\A k \in 1 .. LogWidth : f[k] = 2 * f[k - 1]) => f[LogWidth] = Width
  <1>1. LogWidth \in 1 .. 6
    BY SizeClassAssumption
  <1>2. /\ LengthOf(1) = 2 /\ LengthOf(2) = 4 /\ LengthOf(3) = 8 /\ LengthOf(4) = 16
        /\ LengthOf(5) = 32 /\ LengthOf(6) = 64
    BY DEF LengthOf
  <1>3. Width = LengthOf(LogWidth)
    BY DEF Width, LengthOf
  <1>4. LogWidth = 1 \/ LogWidth = 2 \/ LogWidth = 3 \/ LogWidth = 4 \/ LogWidth = 5 \/ LogWidth = 6
    BY <1>1
  <1>5. Width \in Nat /\ Width >= 2 /\ LogWidth <= Width
    BY <1>2, <1>3, <1>4
  <1>6. ASSUME NEW f, f[0] = 1, \A k \in 1 .. LogWidth : f[k] = 2 * f[k - 1]
        PROVE  f[LogWidth] = Width
    <2>1. 1 <= LogWidth => f[1] = 2
      BY <1>1, <1>6
    <2>2. 2 <= LogWidth => f[2] = 4
      BY <1>1, <1>6, <2>1
    <2>3. 3 <= LogWidth => f[3] = 8
      BY <1>1, <1>6, <2>2
    <2>4. 4 <= LogWidth => f[4] = 16
      BY <1>1, <1>6, <2>3
    <2>5. 5 <= LogWidth => f[5] = 32
      BY <1>1, <1>6, <2>4
    <2>6. 6 <= LogWidth => f[6] = 64
      BY <1>1, <1>6, <2>5
    <2>7. QED
      BY <1>2, <1>3, <1>4, <2>1, <2>2, <2>3, <2>4, <2>5, <2>6
  <1>7. QED
    BY <1>1, <1>5, <1>6

\* There is a function that satisfies the definition of the powers.
LEMMA Pow2Exists ==
  \E f : f = [k \in 0 .. 2 * Width |-> IF k = 0 THEN 1 ELSE 2 * f[k - 1]]
  <1> DEFINE N == 2 * Width
             Of(f, m) == f = [k \in 0 .. m |-> IF k = 0 THEN 1 ELSE 2 * f[k - 1]]
             T == {m \in 0 .. N : \E f : Of(f, m)}
  <1>1. N \in Nat
    BY Widths
  <1>2. 0 \in T
    <2> DEFINE g == [k \in 0 .. 0 |-> 1]
    <2>1. Of(g, 0)
      OBVIOUS
    <2>2. \E f : Of(f, 0)
      <3> HIDE DEF g, Of
      <3>1. QED
        BY <2>1
    <2>3. 0 \in 0 .. N
      BY <1>1
    <2>4. QED
      BY <2>2, <2>3
  <1>3. ASSUME NEW m \in 0 .. N - 1, m \in T PROVE m + 1 \in T
    <2>1. PICK f : Of(f, m)
      BY <1>3
    <2> DEFINE g == [k \in 0 .. m + 1 |-> IF k = m + 1 THEN 2 * f[m] ELSE f[k]]
    <2>2. m \in Nat /\ m + 1 \in 0 .. N
      BY <1>1
    <2>3. ASSUME NEW k \in 0 .. m + 1 PROVE g[k] = IF k = 0 THEN 1 ELSE 2 * g[k - 1]
      <3>1. CASE k = m + 1
        BY <2>2, <3>1
      <3>2. CASE k # m + 1
        BY <2>1, <2>2, <3>2
      <3>3. QED
        BY <3>1, <3>2
    <2>4. Of(g, m + 1)
      BY <2>3
    <2>5. QED
      BY <2>2, <2>4
  <1>4. N \in T
    <2> HIDE DEF T
    <2>1. N \in 0 .. N
      BY <1>1
    <2>2. QED
      BY <1>1, <1>2, <1>3, <2>1, UpTo
  <1>5. QED
    BY <1>4 DEF N

\* So the powers are what their definition says.
LEMMA Powers2 ==
  /\ Pow2[0] = 1
  /\ \A k \in 1 .. 2 * Width : Pow2[k] = 2 * Pow2[k - 1]
  /\ \A k \in 0 .. 2 * Width : Pow2[k] \in Nat /\ Pow2[k] > 0
  <1>1. Pow2 = [k \in 0 .. 2 * Width |-> IF k = 0 THEN 1 ELSE 2 * Pow2[k - 1]]
    BY Pow2Exists DEF Pow2
  <1> DEFINE N == 2 * Width
             T == {k \in 0 .. N : Pow2[k] \in Nat /\ Pow2[k] > 0}
  <1>2. N \in Nat
    BY Widths
  <1>3. Pow2[0] = 1 /\ \A k \in 1 .. N : Pow2[k] = 2 * Pow2[k - 1]
    BY <1>1, <1>2
  <1> HIDE DEF N
  <1>4. 0 \in T
    BY <1>2, <1>3
  <1>5. ASSUME NEW k \in 0 .. N - 1, k \in T PROVE k + 1 \in T
    <2>1. k + 1 \in 1 .. N /\ (k + 1) - 1 = k
      BY <1>2
    <2>2. Pow2[k + 1] = 2 * Pow2[k]
      BY <1>3, <2>1
    <2>3. QED
      BY <1>2, <1>5, <2>1, <2>2
  <1>6. 0 .. N \subseteq T
    <2> HIDE DEF T
    <2>1. QED
      BY <1>2, <1>4, <1>5, UpTo
  <1>7. QED
    BY <1>3, <1>6 DEF N

\* They grow.
LEMMA Powers2Grow ==
  ASSUME NEW i \in 0 .. 2 * Width, NEW j \in 0 .. 2 * Width, i < j PROVE 2 * Pow2[i] <= Pow2[j]
  <1> DEFINE N == j - i - 1
             T == {d \in 0 .. N : 2 * Pow2[i] <= Pow2[i + 1 + d]}
  <1>1. N \in Nat /\ i + 1 + N = j /\ 2 * Width \in Nat
    BY Widths
  <1>2. 0 \in T
    <2>1. i + 1 \in 1 .. 2 * Width /\ (i + 1) - 1 = i /\ i + 1 + 0 = i + 1
      BY <1>1
    <2>2. Pow2[i + 1] = 2 * Pow2[i] /\ Pow2[i] \in Nat
      BY <2>1, Powers2
    <2>3. QED
      BY <1>1, <2>1, <2>2
  <1>3. ASSUME NEW d \in 0 .. N - 1, d \in T PROVE d + 1 \in T
    <2> DEFINE e == i + 1 + d
    <2>1. e + 1 \in 1 .. 2 * Width /\ e \in 0 .. 2 * Width /\ (e + 1) - 1 = e /\ i + 1 + (d + 1) = e + 1
      BY <1>1
    <2> HIDE DEF e
    <2>2. Pow2[e + 1] = 2 * Pow2[e] /\ Pow2[e] \in Nat /\ Pow2[i] \in Nat
      BY <2>1, Powers2
    <2>3. 2 * Pow2[i] <= Pow2[e]
      BY <1>3 DEF e
    <2>4. 2 * Pow2[i] <= Pow2[i + 1 + (d + 1)]
      BY <2>1, <2>2, <2>3
    <2>5. d + 1 \in 0 .. N
      BY <1>1
    <2>6. QED
      BY <2>4, <2>5
  <1> HIDE DEF N
  <1>4. N \in T
    <2> HIDE DEF T
    <2>1. N \in 0 .. N
      BY <1>1
    <2>2. QED
      BY <1>1, <1>2, <1>3, <2>1, UpTo
  <1>5. QED
    BY <1>1, <1>4

\* The product of two is one.
LEMMA Powers2Product ==
  ASSUME NEW i \in Nat, NEW j \in Nat, i + j <= 2 * Width PROVE Pow2[i + j] = Pow2[i] * Pow2[j]
  <1> DEFINE T == {d \in 0 .. j : Pow2[i + d] = Pow2[i] * Pow2[d]}
  <1>1. 2 * Width \in Nat /\ i \in 0 .. 2 * Width /\ Pow2[i] \in Nat
    BY Widths, Powers2
  <1>2. 0 \in T
    BY <1>1, Powers2
  <1>3. ASSUME NEW d \in 0 .. j - 1, d \in T PROVE d + 1 \in T
    <2>1. /\ d + 1 \in 1 .. 2 * Width /\ (d + 1) - 1 = d /\ d \in 0 .. 2 * Width
          /\ i + (d + 1) \in 1 .. 2 * Width /\ (i + (d + 1)) - 1 = i + d /\ i + d \in 0 .. 2 * Width
          /\ d + 1 \in 0 .. j
      BY <1>1
    <2>2. Pow2[d + 1] = 2 * Pow2[d] /\ Pow2[i + (d + 1)] = 2 * Pow2[i + d] /\ Pow2[d] \in Nat
      BY <2>1, Powers2
    <2>3. Pow2[i + d] = Pow2[i] * Pow2[d]
      BY <1>3
    <2>4. \A x, y \in Nat : 2 * (x * y) = x * (2 * y)
      OBVIOUS
    <2>5. Pow2[i + (d + 1)] = Pow2[i] * Pow2[d + 1]
      BY <1>1, <2>2, <2>3, <2>4
    <2>6. QED
      BY <2>1, <2>5
  <1>4. j \in T
    <2> HIDE DEF T
    <2>1. QED
      BY <1>2, <1>3, UpTo
  <1>5. QED
    BY <1>4

\* There are functions that satisfy the definitions of the sum of a set of bits ...
LEMMA SumExists ==
  ASSUME NEW B PROVE
  \E f : f = [i \in 0 .. Width |->
               IF i = 0 THEN 0 ELSE f[i - 1] + (IF i - 1 \in B THEN Pow2[i - 1] ELSE 0)]
  <1> DEFINE N == Width
             Of(f, m) == f = [i \in 0 .. m |->
                               IF i = 0 THEN 0
                               ELSE f[i - 1] + (IF i - 1 \in B THEN Pow2[i - 1] ELSE 0)]
             T == {m \in 0 .. N : \E f : Of(f, m)}
  <1>1. N \in Nat
    BY Widths
  <1>2. 0 \in T
    <2> DEFINE g == [i \in 0 .. 0 |-> 0]
    <2>1. Of(g, 0)
      OBVIOUS
    <2>2. \E f : Of(f, 0)
      <3> HIDE DEF g, Of
      <3>1. QED
        BY <2>1
    <2>3. 0 \in 0 .. N
      BY <1>1
    <2>4. QED
      BY <2>2, <2>3
  <1>3. ASSUME NEW m \in 0 .. N - 1, m \in T PROVE m + 1 \in T
    <2>1. PICK f : Of(f, m)
      BY <1>3
    <2> DEFINE g == [i \in 0 .. m + 1 |->
                       IF i = m + 1 THEN f[m] + (IF m \in B THEN Pow2[m] ELSE 0) ELSE f[i]]
    <2>2. m \in Nat /\ m + 1 \in 0 .. N
      BY <1>1
    <2>3. ASSUME NEW i \in 0 .. m + 1
          PROVE  g[i] = IF i = 0 THEN 0
                           ELSE g[i - 1] + (IF i - 1 \in B THEN Pow2[i - 1] ELSE 0)
      <3>1. CASE i = m + 1
        BY <2>2, <3>1
      <3>2. CASE i # m + 1
        BY <2>1, <2>2, <3>2
      <3>3. QED
        BY <3>1, <3>2
    <2>4. Of(g, m + 1)
      BY <2>3
    <2>5. QED
      BY <2>2, <2>4
  <1>4. N \in T
    <2> HIDE DEF T
    <2>1. N \in 0 .. N
      BY <1>1
    <2>2. QED
      BY <1>1, <1>2, <1>3, <2>1, UpTo
  <1>5. QED
    BY <1>4 DEF N

\* ... and of the shifts and ors.
LEMMA SmearExists ==
  ASSUME NEW B PROVE
  \E f : f = [k \in 0 .. LogWidth |->
               IF k = 0 THEN B ELSE OrShifted(f[k - 1], Pow2[k - 1])]
  <1> DEFINE N == LogWidth
             Of(f, m) == f = [k \in 0 .. m |->
                               IF k = 0 THEN B ELSE OrShifted(f[k - 1], Pow2[k - 1])]
             T == {m \in 0 .. N : \E f : Of(f, m)}
  <1>1. N \in Nat
    BY Widths
  <1>2. 0 \in T
    <2> DEFINE g == [k \in 0 .. 0 |-> B]
    <2>1. Of(g, 0)
      OBVIOUS
    <2>2. \E f : Of(f, 0)
      <3> HIDE DEF g, Of
      <3>1. QED
        BY <2>1
    <2>3. 0 \in 0 .. N
      BY <1>1
    <2>4. QED
      BY <2>2, <2>3
  <1>3. ASSUME NEW m \in 0 .. N - 1, m \in T PROVE m + 1 \in T
    <2>1. PICK f : Of(f, m)
      BY <1>3
    <2> DEFINE g == [k \in 0 .. m + 1 |->
                       IF k = m + 1 THEN OrShifted(f[m], Pow2[m]) ELSE f[k]]
    <2>2. m \in Nat /\ m + 1 \in 0 .. N
      BY <1>1
    <2>3. ASSUME NEW k \in 0 .. m + 1
          PROVE  g[k] = IF k = 0 THEN B ELSE OrShifted(g[k - 1], Pow2[k - 1])
      <3>1. CASE k = m + 1
        BY <2>2, <3>1
      <3>2. CASE k # m + 1
        BY <2>1, <2>2, <3>2
      <3>3. QED
        BY <3>1, <3>2
    <2>4. Of(g, m + 1)
      BY <2>3
    <2>5. QED
      BY <2>2, <2>4
  <1>4. N \in T
    <2> HIDE DEF T
    <2>1. N \in 0 .. N
      BY <1>1
    <2>2. QED
      BY <1>1, <1>2, <1>3, <2>1, UpTo
  <1>5. QED
    BY <1>4 DEF N

\* So they are what their definitions say.
LEMMA SumStep ==
  ASSUME NEW B
  PROVE  /\ Sum(B)[0] = 0
         /\ \A i \in 1 .. Width :
              Sum(B)[i] = Sum(B)[i - 1] + (IF i - 1 \in B THEN Pow2[i - 1] ELSE 0)
  <1>1. Sum(B) = [i \in 0 .. Width |->
                 IF i = 0 THEN 0 ELSE Sum(B)[i - 1] + (IF i - 1 \in B THEN Pow2[i - 1] ELSE 0)]
    BY SumExists DEF Sum
  <1>2. ASSUME NEW i \in 0 .. Width
        PROVE  Sum(B)[i] = IF i = 0 THEN 0
                           ELSE Sum(B)[i - 1] + (IF i - 1 \in B THEN Pow2[i - 1] ELSE 0)
    BY <1>1
  <1>3. 0 \in 0 .. Width /\ \A i \in 1 .. Width : i \in 0 .. Width /\ i # 0
    BY Widths
  <1>4. QED
    BY <1>2, <1>3

LEMMA SmearStep ==
  ASSUME NEW B
  PROVE  /\ Shifts(B)[0] = B
         /\ \A k \in 1 .. LogWidth : Shifts(B)[k] = OrShifted(Shifts(B)[k - 1], Pow2[k - 1])
  <1>1. Shifts(B) = [k \in 0 .. LogWidth |->
                   IF k = 0 THEN B ELSE OrShifted(Shifts(B)[k - 1], Pow2[k - 1])]
    BY SmearExists DEF Shifts
  <1>2. ASSUME NEW k \in 0 .. LogWidth
        PROVE  Shifts(B)[k] = IF k = 0 THEN B ELSE OrShifted(Shifts(B)[k - 1], Pow2[k - 1])
    BY <1>1
  <1>3. 0 \in 0 .. LogWidth /\ \A k \in 1 .. LogWidth : k \in 0 .. LogWidth /\ k # 0
    BY Widths
  <1>4. QED
    BY <1>2, <1>3

\* The bits below h and h itself make the number before the next power.
LEMMA NumberOfLow == ASSUME NEW h \in Bit PROVE Number(0 .. h) = Pow2[h + 1] - 1
  <1> DEFINE B == 0 .. h
             S == Sum(B)
             Low == {i \in 0 .. h + 1 : S[i] = Pow2[i] - 1}
             High == {d \in 0 .. Width - (h + 1) : S[h + 1 + d] = Pow2[h + 1] - 1}
  <1>w. Width \in Nat /\ h \in Nat /\ h + 1 \in 1 .. Width
    BY Widths DEF Bit
  <1>s. /\ S[0] = 0
        /\ \A i \in 1 .. Width : S[i] = S[i - 1] + (IF i - 1 \in B THEN Pow2[i - 1] ELSE 0)
    BY SumStep
  <1>p. Pow2[0] = 1 /\ \A i \in 1 .. Width : Pow2[i] = 2 * Pow2[i - 1] /\ Pow2[i - 1] \in Nat /\ Pow2[i] \in Nat
    BY <1>w, Powers2
  <1> HIDE DEF S
  <1>1. h + 1 \in Low
    <2>1. 0 \in Low
      BY <1>w, <1>s, <1>p
    <2>2. ASSUME NEW i \in 0 .. (h + 1) - 1, i \in Low PROVE i + 1 \in Low
      <3>1. i + 1 \in 1 .. Width /\ (i + 1) - 1 = i /\ i \in B /\ i + 1 \in 0 .. h + 1
        BY <1>w
      <3>2. S[i + 1] = S[i] + Pow2[i] /\ Pow2[i + 1] = 2 * Pow2[i] /\ Pow2[i] \in Nat
        BY <1>s, <1>p, <3>1
      <3>3. S[i] = Pow2[i] - 1
        BY <2>2
      <3>4. S[i + 1] = Pow2[i + 1] - 1
        BY <3>2, <3>3
      <3>5. QED
        BY <3>1, <3>4
    <2> HIDE DEF Low
    <2>3. h + 1 \in Nat /\ h + 1 \in 0 .. h + 1
      BY <1>w
    <2>4. QED
      BY <2>1, <2>2, <2>3, UpTo
  <1>2. Width - (h + 1) \in High
    <2>1. 0 \in High
      BY <1>w, <1>1
    <2>2. ASSUME NEW d \in 0 .. (Width - (h + 1)) - 1, d \in High PROVE d + 1 \in High
      <3> DEFINE e == h + 1 + d
      <3>1. /\ e + 1 \in 1 .. Width /\ (e + 1) - 1 = e /\ e \notin B /\ h + 1 + (d + 1) = e + 1
            /\ d + 1 \in 0 .. Width - (h + 1)
        BY <1>w
      <3> HIDE DEF e
      <3>2. S[e + 1] = S[e] + 0
        BY <1>s, <3>1
      <3>3. S[e] = Pow2[h + 1] - 1
        BY <2>2 DEF e
      <3>4. S[h + 1 + (d + 1)] = Pow2[h + 1] - 1
        BY <1>p, <1>w, <3>1, <3>2, <3>3
      <3>5. QED
        BY <3>1, <3>4
    <2> HIDE DEF High
    <2>3. Width - (h + 1) \in Nat /\ Width - (h + 1) \in 0 .. Width - (h + 1)
      BY <1>w
    <2>4. QED
      BY <2>1, <2>2, <2>3, UpTo
  <1>3. h + 1 + (Width - (h + 1)) = Width
    BY <1>w
  <1>4. S[Width] = Pow2[h + 1] - 1
    BY <1>2, <1>3
  <1>5. QED
    BY <1>4 DEF Number, S

\* A shift and an or doubles how far every bit reaches down ...
LEMMA ShiftsReach ==
  ASSUME NEW B \in SUBSET Bit, NEW k \in 0 .. LogWidth
  PROVE  Shifts(B)[k] = {b \in Bit : \E c \in B : b <= c /\ c < b + Pow2[k]}
  <1> DEFINE Reach(j) == {b \in Bit : \E c \in B : b <= c /\ c < b + Pow2[j]}
             T == {j \in 0 .. LogWidth : Shifts(B)[j] = Reach(j)}
  <1>w. LogWidth \in Nat /\ LogWidth <= 2 * Width /\ Width \in Nat
    BY Widths
  <1>1. 0 \in T
    <2>1. \A b \in Bit : b \in Int
      BY <1>w DEF Bit
    <2>2. \A b, c \in Bit : b <= c /\ c < b + 1 <=> b = c
      BY <2>1
    <2>3. Pow2[0] = 1
      BY Powers2
    <2>4. Reach(0) = B
      BY <2>2, <2>3
    <2>5. Shifts(B)[0] = B
      BY SmearStep
    <2>6. QED
      BY <1>w, <2>4, <2>5
  <1>2. ASSUME NEW j \in 0 .. LogWidth - 1, j \in T PROVE j + 1 \in T
    <2> DEFINE D == Pow2[j]
    <2>1. j + 1 \in 1 .. LogWidth /\ (j + 1) - 1 = j /\ j + 1 \in 1 .. 2 * Width /\ j \in 0 .. 2 * Width
      BY <1>w
    <2>2. D \in Nat /\ Pow2[j + 1] = 2 * D
      BY <2>1, Powers2
    <2>3. Shifts(B)[j + 1] = OrShifted(Reach(j), D)
      <3>1. Shifts(B)[j] = Reach(j)
        BY <1>2
      <3>2. Shifts(B)[j + 1] = OrShifted(Shifts(B)[j], Pow2[j])
        BY <2>1, SmearStep
      <3>3. QED
        BY <3>1, <3>2
    <2> HIDE DEF D
    <2>4. ASSUME NEW b \in OrShifted(Reach(j), D) PROVE b \in Reach(j + 1)
      <3>1. CASE b \in Reach(j)
        <4>1. PICK c \in B : b <= c /\ c < b + D
          BY <3>1 DEF D
        <4>2. b \in Bit /\ b \in Nat /\ c \in Nat
          BY <3>1, <1>w DEF Bit
        <4>3. c < b + 2 * D
          BY <2>2, <4>1, <4>2
        <4>4. QED
          BY <2>2, <4>1, <4>2, <4>3
      <3>2. CASE b \notin Reach(j)
        <4>1. PICK i \in Reach(j) : i >= D /\ b = i - D
          BY <3>2 DEF OrShifted
        <4>2. PICK c \in B : i <= c /\ c < i + D
          BY DEF D
        <4>3. i \in Nat /\ i <= Width - 1 /\ c \in Nat
          BY <1>w DEF Bit
        <4>4. b \in Bit /\ b <= c /\ c < b + 2 * D
          BY <1>w, <2>2, <4>1, <4>2, <4>3 DEF Bit
        <4>5. QED
          BY <2>2, <4>4
      <3>3. QED
        BY <3>1, <3>2
    <2>5. ASSUME NEW b \in Reach(j + 1) PROVE b \in OrShifted(Reach(j), D)
      <3>1. PICK c \in B : b <= c /\ c < b + 2 * D
        BY <2>2
      <3>2. b \in Nat /\ c \in Nat /\ b \in Bit /\ c \in Bit /\ c <= Width - 1
        BY <1>w DEF Bit
      <3>3. CASE c < b + D
        <4>1. b \in Reach(j)
          BY <3>1, <3>2, <3>3 DEF D
        <4>2. QED
          BY <4>1 DEF OrShifted
      <3>4. CASE ~(c < b + D)
        <4>1. b + D <= c /\ c < (b + D) + D /\ b + D \in Bit /\ b + D >= D /\ b = (b + D) - D
          BY <1>w, <2>2, <3>1, <3>2, <3>4 DEF Bit
        <4>2. b + D \in Reach(j)
          BY <4>1 DEF D
        <4>3. QED
          BY <4>1, <4>2 DEF OrShifted
      <3>5. QED
        BY <3>3, <3>4
    <2>6. OrShifted(Reach(j), D) = Reach(j + 1)
      BY <2>4, <2>5
    <2>7. j + 1 \in 0 .. LogWidth
      BY <2>1
    <2>8. QED
      BY <2>3, <2>6, <2>7
  <1> HIDE DEF T
  <1>3. k \in T
    BY <1>w, <1>1, <1>2, UpTo
  <1>4. QED
    BY <1>3 DEF T

\* ... and in the end all bits below the highest are set.
LEMMA ShiftsFill ==
  ASSUME NEW B \in SUBSET Bit, NEW h \in B, \A b \in B : b <= h
  PROVE  Shifts(B)[LogWidth] = 0 .. h
  <1>w. LogWidth \in Nat /\ Width \in Nat /\ h \in 0 .. Width - 1 /\ LogWidth \in 0 .. LogWidth
        /\ \A k \in 1 .. LogWidth : k \in 1 .. 2 * Width
    BY Widths DEF Bit
  <1>1. Pow2[LogWidth] = Width
    <2>1. Pow2[0] = 1 /\ \A k \in 1 .. LogWidth : Pow2[k] = 2 * Pow2[k - 1]
      BY <1>w, Powers2
    <2>2. QED
      BY <2>1, Widths
  <1>2. Shifts(B)[LogWidth] = {b \in Bit : \E c \in B : b <= c /\ c < b + Width}
    BY <1>w, <1>1, ShiftsReach
  <1>3. ASSUME NEW b \in 0 .. h PROVE b \in Bit /\ b <= h /\ h < b + Width
    BY <1>w DEF Bit
  <1>4. ASSUME NEW b \in Bit, NEW c \in B, b <= c PROVE b \in 0 .. h
    <2>1. c \in Nat /\ c <= h /\ b \in Nat
      BY <1>w DEF Bit
    <2>2. QED
      BY <1>4, <1>w, <2>1
  <1>5. QED
    BY <1>2, <1>3, <1>4

-----------------------------------------------------------------------------
(* Division by powers.                                                     *)

\* The quotient is the number that fits.
LEMMA Quotient ==
  ASSUME NEW d \in Nat, d > 0, NEW q \in Nat, NEW n \in Nat, d * q <= n, n < d * q + d
  PROVE  n \div d = q
  <1> DEFINE e == n \div d
  <1>1. e \in Int /\ d * e <= n /\ n < d * e + d
    OBVIOUS
  <1> HIDE DEF e
  <1>2. \A x, y \in Int : x < y => d * x + d <= d * y
    <2>1. SUFFICES ASSUME NEW x \in Int, NEW y \in Int, x < y PROVE d * x + d <= d * y
      OBVIOUS
    <2>2. d * y = d * x + d * (y - x)
      OBVIOUS
    <2>3. d <= d * (y - x)
      <3>1. \A z \in Nat : z >= 1 => d <= d * z
        OBVIOUS
      <3>2. y - x \in Nat /\ y - x >= 1
        BY <2>1
      <3>3. QED
        BY <3>1, <3>2
    <2>4. d * y \in Int /\ d * x \in Int /\ d * (y - x) \in Int
      OBVIOUS
    <2>5. QED
      BY <2>2, <2>3, <2>4
  <1>3. d * e \in Int /\ d * q \in Int
    BY <1>1
  <1>4. ~(e < q) /\ ~(q < e)
    BY <1>1, <1>2, <1>3
  <1>5. e = q
    BY <1>1, <1>4
  <1>6. QED
    BY <1>5 DEF e

LEMMA PowerQuotient ==
  ASSUME NEW b \in Nat, NEW c \in Nat, b <= c, c <= 2 * Width
  PROVE  Pow2[c] \div Pow2[b] = Pow2[c - b]
  <1> DEFINE d == Pow2[b]
             q == Pow2[c - b]
  <1>1. 2 * Width \in Nat /\ b \in 0 .. 2 * Width /\ c \in 0 .. 2 * Width /\ c - b \in 0 .. 2 * Width
    BY Widths
  <1>2. d \in Nat /\ d > 0 /\ q \in Nat /\ Pow2[c] \in Nat
    BY <1>1, Powers2
  <1>3. Pow2[c] = d * q
    <2>1. c - b \in Nat /\ b + (c - b) = c
      OBVIOUS
    <2>2. QED
      BY <2>1, Powers2Product
  <1> HIDE DEF d, q
  <1>4. d * q \in Nat
    BY <1>2
  <1>5. d * q <= Pow2[c] /\ Pow2[c] < d * q + d
    BY <1>2, <1>3, <1>4
  <1>6. Pow2[c] \div d = q
    BY <1>2, <1>5, Quotient
  <1>7. QED
    BY <1>6 DEF d, q

\* The highest bit of a number.
LEMMA HighestBit ==
  ASSUME NEW j \in Bit, NEW m \in Nat, Pow2[j] <= m, m < Pow2[j + 1]
  PROVE  j \in Bits(m) /\ \A b \in Bits(m) : b <= j
  <1>1. Width \in Nat /\ j \in 0 .. 2 * Width /\ j + 1 \in 1 .. 2 * Width /\ (j + 1) - 1 = j
    BY Widths DEF Bit
  <1>2. Pow2[j] \in Nat /\ Pow2[j] > 0 /\ Pow2[j + 1] = 2 * Pow2[j]
    BY <1>1, Powers2
  <1>3. m \div Pow2[j] = 1
    <2>1. Pow2[j] * 1 <= m /\ m < Pow2[j] * 1 + Pow2[j]
      BY <1>2
    <2>2. QED
      BY <1>2, <2>1, Quotient
  <1>4. ASSUME NEW b \in Bit, b > j PROVE b \notin Bits(m)
    <2>1. b \in 0 .. 2 * Width
      BY <1>1 DEF Bit
    <2>2. Pow2[b] \in Nat /\ Pow2[b] > 0 /\ 2 * Pow2[j] <= Pow2[b]
      BY <1>1, <1>4, <2>1, Powers2, Powers2Grow
    <2>3. Pow2[b] * 0 <= m /\ m < Pow2[b] * 0 + Pow2[b]
      BY <1>2, <2>2
    <2>4. m \div Pow2[b] = 0
      BY <2>2, <2>3, Quotient
    <2>5. QED
      BY <2>4 DEF Bits
  <1>5. \A b \in Bits(m) : b \in Bit /\ b \in Int
    BY <1>1 DEF Bits, Bit
  <1>6. QED
    BY <1>1, <1>3, <1>4, <1>5 DEF Bits

\* A power has one bit, and the number before it has the lower ones only.
LEMMA BitsOfPower ==
  ASSUME NEW k \in Bit
  PROVE  Bits(Pow2[k]) \cap Bits(Pow2[k] - 1) = {}
  <1>1. Width \in Nat /\ k \in 0 .. 2 * Width /\ k \in Nat
    BY Widths DEF Bit
  <1>2. Pow2[k] \in Nat /\ Pow2[k] > 0
    BY <1>1, Powers2
  <1>3. ASSUME NEW i \in Bit, i < k PROVE i \notin Bits(Pow2[k])
    <2>1. i \in Nat /\ i <= k /\ k <= 2 * Width
      BY <1>1, <1>3 DEF Bit
    <2>2. k - i \in 1 .. 2 * Width /\ (k - i) - 1 \in 0 .. 2 * Width
      BY <1>1, <1>3, <2>1
    <2>3. Pow2[k] \div Pow2[i] = Pow2[k - i]
      BY <1>1, <2>1, PowerQuotient
    <2>4. Pow2[k - i] = 2 * Pow2[(k - i) - 1] /\ Pow2[(k - i) - 1] \in Nat
      BY <2>2, Powers2
    <2>5. (2 * Pow2[(k - i) - 1]) % 2 = 0
      BY <2>4
    <2>6. QED
      BY <2>3, <2>4, <2>5 DEF Bits
  <1>4. ASSUME NEW i \in Bit, i >= k PROVE i \notin Bits(Pow2[k] - 1)
    <2>1. i \in 0 .. 2 * Width
      BY <1>1 DEF Bit
    <2>2. Pow2[i] \in Nat /\ Pow2[i] > 0 /\ Pow2[k] <= Pow2[i]
      <3>1. CASE i = k
        BY <1>2, <3>1
      <3>2. CASE k < i
        BY <1>1, <1>2, <2>1, <3>2, Powers2, Powers2Grow
      <3>3. QED
        BY <1>1, <1>4, <2>1, <3>1, <3>2
    <2>3. Pow2[k] - 1 \in Nat /\ Pow2[i] * 0 <= Pow2[k] - 1 /\ Pow2[k] - 1 < Pow2[i] * 0 + Pow2[i]
      BY <1>2, <2>2
    <2>4. (Pow2[k] - 1) \div Pow2[i] = 0
      BY <2>2, <2>3, Quotient
    <2>5. QED
      BY <2>4 DEF Bits
  <1>5. \A i \in Bit : i < k \/ i >= k
    BY <1>1 DEF Bit
  <1>6. QED
    BY <1>3, <1>4, <1>5 DEF Bits

\* A request is rounded up to the next power.
LEMMA RoundedUp ==
  ASSUME NEW c \in Bit, NEW m \in Nat, m > 0, m <= Pow2[c], c > 0 => Pow2[c - 1] < m
  PROVE  next_power_of_two(m) = Pow2[c]
  <1>1. /\ Width \in Nat /\ c \in 0 .. 2 * Width /\ c \in Nat /\ c < Width
        /\ Width \in 0 .. 2 * Width
    <2>1. Width \in Nat
      BY Widths
    <2>2. QED
      BY <2>1 DEF Bit
  <1>2. Pow2[0] = 1 /\ Pow2[c] \in Nat /\ Pow2[c] > 0
    BY <1>1, Powers2
  <1>3. CASE m = Pow2[c]
    <2>1. Bits(m) \cap Bits(m - 1) = {}
      BY <1>3, BitsOfPower
    <2>2. m # 0
      BY <1>2, <1>3
    <2>3. is_power_of_two(m)
      BY <2>1, <2>2 DEF is_power_of_two
    <2>4. QED
      BY <1>3, <2>3 DEF next_power_of_two
  <1>4. CASE m # Pow2[c]
    <2>1. c > 0
      BY <1>1, <1>2, <1>4
    <2> DEFINE h == c - 1
    <2>2. h \in Bit /\ h + 1 = c /\ h \in 0 .. 2 * Width
      BY <1>1, <2>1 DEF Bit
    <2>3. Pow2[h] < m /\ m < Pow2[h + 1] /\ Pow2[h] \in Nat
      BY <1>2, <1>4, <2>1, <2>2, Powers2
    <2> HIDE DEF h
    <2>4. h \in Bits(m) /\ \A b \in Bits(m) : b <= h
      BY <2>2, <2>3, HighestBit
    <2>5. h \in Bits(m - 1)
      <3>1. m - 1 \in Nat /\ Pow2[h] <= m - 1 /\ m - 1 < Pow2[h + 1]
        BY <1>2, <2>2, <2>3
      <3>2. QED
        BY <2>2, <3>1, HighestBit
    <2>6. ~is_power_of_two(m)
      BY <2>4, <2>5 DEF is_power_of_two
    <2>7. Shifts(Bits(m))[LogWidth] = 0 .. h
      <3>1. Bits(m) \in SUBSET Bit
        BY DEF Bits
      <3>2. QED
        BY <2>4, <3>1, ShiftsFill
    <2>8. Smear(m) = Pow2[c] - 1
      BY <2>2, <2>7, NumberOfLow DEF Smear
    <2>9. Pow2[Width] \in Nat /\ Pow2[c] < Pow2[Width]
      <3>1. 2 * Pow2[c] <= Pow2[Width]
        BY <1>1, Powers2Grow
      <3>2. Pow2[Width] \in Nat
        BY <1>1, Powers2
      <3>3. QED
        BY <1>2, <3>1, <3>2
    <2>10. (Smear(m) + 1) % Pow2[Width] = Pow2[c]
      <3>1. Smear(m) + 1 = Pow2[c]
        BY <1>2, <2>8
      <3>2. \A x, y \in Nat : x < y => x % y = x
        OBVIOUS
      <3>3. QED
        BY <1>2, <2>9, <3>1, <3>2
    <2>11. QED
      BY <2>6, <2>10 DEF next_power_of_two
  <1>5. QED
    BY <1>3, <1>4

\* There is a power above every number of at most half a word.
LEMMA PowerAbove ==
  ASSUME NEW m \in Nat, m > 0, m <= Pow2[Width - 1]
  PROVE  \E c \in Bit : m <= Pow2[c] /\ (c > 0 => Pow2[c - 1] < m)
  <1> DEFINE T == {c \in Bit : m <= Pow2[c]}
  <1>1. Width \in Nat /\ Width >= 2
    BY Widths
  <1>2. Width - 1 \in T /\ T \in SUBSET Nat
    BY <1>1 DEF Bit
  <1>3. PICK c \in T : \A y \in T : c <= y
    <2> HIDE DEF T
    <2>1. QED
      BY <1>2, LeastNumber
  <1>4. ASSUME c > 0 PROVE Pow2[c - 1] < m
    <2>1. c - 1 \in Bit /\ c - 1 \in 0 .. 2 * Width /\ c - 1 < c
      BY <1>1, <1>2, <1>4 DEF Bit
    <2>2. Pow2[c - 1] \in Nat
      BY <2>1, Powers2
    <2>3. c - 1 \notin T
      BY <1>2, <1>3, <2>1
    <2>4. QED
      BY <2>1, <2>2, <2>3
  <1>5. QED
    BY <1>3, <1>4

-----------------------------------------------------------------------------
(* The logarithm.                                                          *)

\* A power beyond the least is even and halves to the one before.
LEMMA PowerHalf ==
  ASSUME NEW k \in Bit, k > 0
  PROVE  /\ k - 1 \in Bit /\ Pow2[k] # 1 /\ Pow2[k] % 2 = 0 /\ Pow2[k] \div 2 = Pow2[k - 1]
  <1>1. Width \in Nat /\ k \in 1 .. 2 * Width /\ k - 1 \in 0 .. 2 * Width /\ k - 1 \in Bit
    BY Widths DEF Bit
  <1>2. Pow2[k] = 2 * Pow2[k - 1] /\ Pow2[k - 1] \in Nat
    BY <1>1, Powers2
  <1>3. \A x \in Nat : 2 * x # 1 /\ (2 * x) % 2 = 0 /\ (2 * x) \div 2 = x
    OBVIOUS
  <1>4. QED
    BY <1>1, <1>2, <1>3

\* The exponent of a power.
Log(n) == CHOOSE j \in Bit : n = Pow2[j]

LEMMA LogOfPower == ASSUME NEW j \in Bit PROVE Log(Pow2[j]) = j
  <1>1. \A i \in Bit : i \in 0 .. 2 * Width /\ i \in Int
    <2>1. Width \in Nat
      BY Widths
    <2>2. QED
      BY <2>1 DEF Bit
  <1>2. ASSUME NEW i \in Bit, NEW k \in Bit, i < k PROVE Pow2[i] # Pow2[k]
    <2>1. 2 * Pow2[i] <= Pow2[k]
      BY <1>1, <1>2, Powers2Grow
    <2>2. Pow2[i] \in Nat /\ Pow2[i] > 0 /\ Pow2[k] \in Nat
      BY <1>1, Powers2
    <2>3. QED
      BY <2>1, <2>2
  <1>3. \A i \in Bit : Pow2[i] = Pow2[j] => i = j
    <2>1. \A i \in Bit : i < j \/ i = j \/ j < i
      BY <1>1
    <2>2. QED
      BY <1>2, <2>1
  <1>4. Log(Pow2[j]) \in Bit /\ Pow2[j] = Pow2[Log(Pow2[j])]
    BY DEF Log
  <1>5. QED
    BY <1>3, <1>4

\* There is a function that satisfies the definition of the halvings ...
LEMMA HalvingsExists ==
  \E f : f = [x \in Nat \X Word |->
               IF x[2] = 1 THEN x[1]
               ELSE IF x[2] % 2 # 0 THEN 0
               ELSE f[<<x[1] + 1, x[2] \div 2>>]]
  <1> DEFINE F == [x \in Nat \X Word |->
                    IF \E j \in Bit : x[2] = Pow2[j] THEN x[1] + Log(x[2]) ELSE 0]
  <1>1. Width \in Nat /\ Width >= 2 /\ 0 \in Bit
    <2>1. Width \in Nat /\ Width >= 2
      BY Widths
    <2>2. QED
      BY <2>1 DEF Bit
  <1>2. Pow2[0] = 1 /\ Pow2[Width] \in Nat
    <2>1. Width \in 0 .. 2 * Width
      BY <1>1
    <2>2. QED
      BY <2>1, Powers2
  <1>3. ASSUME NEW x \in Nat \X Word
        PROVE  F[x] = IF x[2] = 1 THEN x[1]
                      ELSE IF x[2] % 2 # 0 THEN 0
                      ELSE F[<<x[1] + 1, x[2] \div 2>>]
    <2>1. x[1] \in Nat /\ x[2] \in Word /\ x[2] \in Nat /\ x[2] < Pow2[Width]
      BY <1>2 DEF Word
    <2> DEFINE y == <<x[1] + 1, x[2] \div 2>>
    <2>2. x[1] + 1 \in Nat /\ x[2] \div 2 \in Nat /\ x[2] \div 2 <= x[2]
      BY <2>1
    <2>3. y \in Nat \X Word
      <3>1. x[2] \div 2 \in Word
        BY <1>2, <2>1, <2>2 DEF Word
      <3>2. QED
        BY <2>2, <3>1
    <2>4. y[1] = x[1] + 1 /\ y[2] = x[2] \div 2
      OBVIOUS
    <2>5. F[y] = IF \E j \in Bit : y[2] = Pow2[j] THEN y[1] + Log(y[2]) ELSE 0
      BY <2>3
    <2>6. F[x] = IF \E j \in Bit : x[2] = Pow2[j] THEN x[1] + Log(x[2]) ELSE 0
      OBVIOUS
    <2> HIDE DEF F, y
    <2>7. CASE \E j \in Bit : x[2] = Pow2[j]
      <3>1. PICK j \in Bit : x[2] = Pow2[j]
        BY <2>7
      <3>2. F[x] = x[1] + j
        BY <2>6, <3>1, LogOfPower
      <3>3. j \in Nat
        BY <1>1 DEF Bit
      <3>4. CASE j = 0
        BY <1>2, <2>1, <3>1, <3>2, <3>4
      <3>5. CASE j > 0
        <4>1. j - 1 \in Bit /\ x[2] # 1 /\ x[2] % 2 = 0 /\ y[2] = Pow2[j - 1]
          BY <2>4, <3>1, <3>5, PowerHalf
        <4>2. F[y] = x[1] + 1 + (j - 1)
          BY <2>4, <2>5, <4>1, LogOfPower
        <4>3. F[y] = F[x]
          BY <2>1, <3>2, <3>3, <4>2
        <4>4. QED
          BY <4>1, <4>3 DEF y
      <3>6. QED
        BY <3>3, <3>4, <3>5
    <2>8. CASE ~ \E j \in Bit : x[2] = Pow2[j]
      <3>1. F[x] = 0 /\ x[2] # 1
        BY <1>1, <1>2, <2>6, <2>8
      <3>2. ASSUME x[2] % 2 = 0, NEW j \in Bit PROVE y[2] # Pow2[j]
        <4>1. SUFFICES ASSUME y[2] = Pow2[j] PROVE FALSE
          OBVIOUS
        <4>2. j \in Nat /\ j <= Width - 1 /\ j + 1 \in 1 .. 2 * Width /\ (j + 1) - 1 = j
          BY <1>1 DEF Bit
        <4>3. x[2] = 2 * Pow2[j]
          BY <2>1, <2>4, <3>2, <4>1
        <4>4. x[2] = Pow2[j + 1]
          BY <4>2, <4>3, Powers2
        <4>5. j + 1 \in Bit
          BY <1>1, <2>1, <4>2, <4>4 DEF Bit
        <4>6. QED
          BY <2>8, <4>4, <4>5
      <3>3. x[2] % 2 = 0 => F[y] = 0
        BY <2>5, <3>2
      <3>4. QED
        BY <3>1, <3>3 DEF y
    <2>9. QED
      BY <2>7, <2>8
  <1>4. F = [x \in Nat \X Word |->
              IF x[2] = 1 THEN x[1]
              ELSE IF x[2] % 2 # 0 THEN 0
              ELSE F[<<x[1] + 1, x[2] \div 2>>]]
    BY <1>3
  <1> HIDE DEF F
  <1>5. QED
    BY <1>4

\* ... so the logarithm of a power is its exponent.
LEMMA LogarithmOfPower == ASSUME NEW k \in Bit PROVE power_of_two(Pow2[k]) = k
  <1> DEFINE T == {j \in 0 .. k : \A p \in Nat : halvings[<<p, Pow2[j]>>] = p + j}
  <1>1. Width \in Nat /\ k \in Nat /\ k < Width
    <2>1. Width \in Nat
      BY Widths
    <2>2. QED
      BY <2>1 DEF Bit
  <1>2. ASSUME NEW p \in Nat, NEW n \in Word
        PROVE  halvings[<<p, n>>] = IF n = 1 THEN p
                                    ELSE IF n % 2 # 0 THEN 0
                                    ELSE halvings[<<p + 1, n \div 2>>]
    <2>1. halvings = [x \in Nat \X Word |->
                       IF x[2] = 1 THEN x[1]
                       ELSE IF x[2] % 2 # 0 THEN 0
                       ELSE halvings[<<x[1] + 1, x[2] \div 2>>]]
      BY HalvingsExists DEF halvings
    <2>2. \A x \in Nat \X Word : halvings[x] = IF x[2] = 1 THEN x[1]
                                               ELSE IF x[2] % 2 # 0 THEN 0
                                               ELSE halvings[<<x[1] + 1, x[2] \div 2>>]
      BY <2>1
    <2>3. <<p, n>> \in Nat \X Word /\ <<p, n>>[1] = p /\ <<p, n>>[2] = n
      OBVIOUS
    <2>4. QED
      BY <2>2, <2>3
  <1>3. \A j \in 0 .. k : Pow2[j] \in Word /\ Pow2[j] # 0
    <2>1. ASSUME NEW j \in 0 .. k PROVE Pow2[j] \in Word /\ Pow2[j] # 0
      <3>1. j \in 0 .. 2 * Width /\ Width \in 0 .. 2 * Width /\ j < Width
        BY <1>1
      <3>2. Pow2[j] \in Nat /\ Pow2[j] > 0 /\ Pow2[Width] \in Nat
        BY <3>1, Powers2
      <3>3. 2 * Pow2[j] <= Pow2[Width]
        BY <3>1, Powers2Grow
      <3>4. QED
        BY <3>2, <3>3 DEF Word
    <2>2. QED
      BY <2>1
  <1>4. 0 \in T
    <2>1. 0 \in 0 .. k /\ Pow2[0] = 1
      BY <1>1, Powers2
    <2>2. Pow2[0] \in Word
      BY <1>3, <2>1
    <2>3. ASSUME NEW p \in Nat PROVE halvings[<<p, Pow2[0]>>] = p + 0
      <3>1. halvings[<<p, Pow2[0]>>] = p
        BY <1>2, <2>1, <2>2
      <3>2. QED
        BY <3>1
    <2>4. QED
      BY <2>1, <2>3
  <1>5. ASSUME NEW j \in 0 .. k - 1, j \in T PROVE j + 1 \in T
    <2>1. j + 1 \in 0 .. k /\ j + 1 \in Bit /\ j + 1 > 0 /\ (j + 1) - 1 = j /\ j \in Nat
      BY <1>1 DEF Bit
    <2>2. Pow2[j + 1] # 1 /\ Pow2[j + 1] % 2 = 0 /\ Pow2[j + 1] \div 2 = Pow2[j]
      BY <2>1, PowerHalf
    <2>3. ASSUME NEW p \in Nat PROVE halvings[<<p, Pow2[j + 1]>>] = p + (j + 1)
      <3>1. halvings[<<p, Pow2[j + 1]>>] = halvings[<<p + 1, Pow2[j]>>]
        BY <1>2, <1>3, <2>1, <2>2
      <3>2. p + 1 \in Nat /\ (p + 1) + j = p + (j + 1)
        BY <2>1
      <3>3. halvings[<<p + 1, Pow2[j]>>] = (p + 1) + j
        BY <1>5, <3>2
      <3>4. QED
        BY <3>1, <3>2, <3>3
    <2>4. QED
      BY <2>1, <2>3
  <1>6. k \in T
    <2> HIDE DEF T
    <2>1. k \in 0 .. k
      BY <1>1
    <2>2. QED
      BY <1>1, <1>4, <1>5, <2>1, UpTo
  <1>7. halvings[<<0, Pow2[k]>>] = 0 + k
    BY <1>6
  <1>8. QED
    BY <1>1, <1>3, <1>7 DEF power_of_two

-----------------------------------------------------------------------------
(* The levels.                                                             *)

\* A request goes to level c - b, where 2^c is the least power that is not below
\* the request nor the smallest chunk, and 2^b is the smallest chunk.
LEMMA LevelOfRequest ==
  ASSUME NEW b \in 0 .. Width - 2, NEW size \in 1 .. Pow2[Width - 1],
         NEW c \in b .. Width - 1, size <= Pow2[c], c > b => Pow2[c - 1] < size
  PROVE  orig_freelist_level(size, Pow2[b]) = c - b
  <1>1. /\ Width \in Nat /\ b \in Nat /\ c \in Nat /\ b <= c /\ b \in Bit /\ c \in Bit /\ c - b \in Bit
        /\ b \in 0 .. 2 * Width /\ c \in 0 .. 2 * Width /\ c <= 2 * Width
    <2>1. Width \in Nat
      BY Widths
    <2>2. QED
      BY <2>1 DEF Bit
  <1>2. Pow2[b] \in Nat /\ Pow2[b] > 0 /\ Pow2[c] \in Nat /\ size \in Nat /\ size > 0
    <2>1. Pow2[b] \in Nat /\ Pow2[b] > 0 /\ Pow2[c] \in Nat
      BY <1>1, Powers2
    <2>2. Width - 1 \in 0 .. 2 * Width
      BY <1>1
    <2>3. Pow2[Width - 1] \in Nat
      BY <2>2, Powers2
    <2>4. QED
      BY <2>1, <2>3
  <1> DEFINE m == IF size > Pow2[b] THEN size ELSE Pow2[b]
  <1>3. m \in Nat /\ m > 0
    BY <1>2
  <1>4. b < c => Pow2[b] < Pow2[c]
    <2>1. b < c => 2 * Pow2[b] <= Pow2[c]
      BY <1>1, Powers2Grow
    <2>2. QED
      BY <1>2, <2>1
  <1>5. m <= Pow2[c]
    BY <1>1, <1>2, <1>4
  <1>6. ASSUME c > 0 PROVE Pow2[c - 1] < m
    <2>1. CASE c = b
      <3>1. c - 1 \in 0 .. 2 * Width /\ c - 1 < c
        BY <1>1, <1>6
      <3>2. 2 * Pow2[c - 1] <= Pow2[c] /\ Pow2[c - 1] \in Nat
        BY <1>1, <3>1, Powers2, Powers2Grow
      <3>3. m >= Pow2[c]
        BY <1>2, <2>1
      <3>4. QED
        BY <1>2, <1>3, <3>2, <3>3
    <2>2. CASE c > b
      <3>1. c - 1 \in 0 .. 2 * Width
        BY <1>1, <1>6
      <3>2. Pow2[c - 1] \in Nat /\ Pow2[c - 1] < size /\ size <= m
        BY <1>2, <2>2, <3>1, Powers2
      <3>3. QED
        BY <1>2, <1>3, <3>2
    <2>3. QED
      BY <1>1, <2>1, <2>2
  <1>7. chunk_size(size, Pow2[b]) = next_power_of_two(m)
    BY DEF chunk_size
  <1> HIDE DEF m
  <1>8. chunk_size(size, Pow2[b]) = Pow2[c]
    BY <1>1, <1>3, <1>5, <1>6, <1>7, RoundedUp
  <1>9. Pow2[c] \div Pow2[b] = Pow2[c - b]
    BY <1>1, PowerQuotient
  <1>10. power_of_two(Pow2[c - b]) = c - b
    BY <1>1, LogarithmOfPower
  <1>11. QED
    BY <1>8, <1>9, <1>10 DEF orig_freelist_level, find_level_from_size

\* The level of every request is the one whose chunks are right for it.
THEOREM EveryLevelRight == RightLevels = 0 .. Width - 2
  <1>w. Width \in Nat /\ Width >= 2 /\ \A k \in Bit : k \in 0 .. Width - 1
    BY Widths DEF Bit
  <1>1. SUFFICES ASSUME NEW l \in 0 .. Width - 2,
                        NEW size \in 1 .. Pow2[Width - 1], NEW min \in MinObjSizes
                 PROVE  orig_freelist_level(size, min) = l
                          <=> /\ find_size_from_level(l, min) >= size
                              /\ l > 0 => find_size_from_level(l - 1, min) < size
    BY DEF RightLevels
  <1>2. PICK b \in 0 .. Width - 2 : min = Pow2[b]
    BY DEF MinObjSizes
  <1>3. size \in Nat /\ size > 0 /\ size <= Pow2[Width - 1]
    <2>1. Width - 1 \in 0 .. 2 * Width
      BY <1>w
    <2>2. Pow2[Width - 1] \in Nat
      BY <2>1, Powers2
    <2>3. QED
      BY <2>2
  <1>4. PICK e \in Bit : size <= Pow2[e] /\ (e > 0 => Pow2[e - 1] < size)
    BY <1>3, PowerAbove
  <1> DEFINE c == IF e > b THEN e ELSE b
  <1>5. e \in Nat /\ e <= Width - 1 /\ b \in Nat /\ b <= Width - 2
    BY <1>w
  <1>6. c \in b .. Width - 1 /\ c \in Nat /\ b <= c
    BY <1>w, <1>5
  <1>7. size <= Pow2[c]
    <2>1. CASE e = c
      BY <1>4, <2>1
    <2>2. CASE e < c
      <3>1. e \in 0 .. 2 * Width /\ c \in 0 .. 2 * Width
        BY <1>w, <1>5, <1>6
      <3>2. Pow2[e] \in Nat /\ Pow2[c] \in Nat /\ 2 * Pow2[e] <= Pow2[c]
        BY <2>2, <3>1, Powers2, Powers2Grow
      <3>3. QED
        BY <1>3, <1>4, <3>2
    <2>3. QED
      BY <1>5, <2>1, <2>2
  <1>8. c > b => Pow2[c - 1] < size
    BY <1>4, <1>5
  <1> HIDE DEF c
  <1>9. orig_freelist_level(size, min) = c - b
    BY <1>2, <1>6, <1>7, <1>8, LevelOfRequest
  <1>10. /\ find_size_from_level(l, min) = Pow2[l + b]
         /\ l > 0 => find_size_from_level(l - 1, min) = Pow2[(l - 1) + b]
    <2>1. b \in Bit
      BY <1>w, <1>5 DEF Bit
    <2>2. power_of_two(min) = b
      BY <1>2, <2>1, LogarithmOfPower
    <2>3. QED
      BY <2>2 DEF find_size_from_level
  <1>11. \A i, j \in 0 .. 2 * Width : i <= j => Pow2[i] <= Pow2[j] /\ Pow2[i] \in Nat /\ Pow2[j] \in Nat
    <2>1. \A i \in 0 .. 2 * Width : Pow2[i] \in Nat
      BY Powers2
    <2>2. ASSUME NEW i \in 0 .. 2 * Width, NEW j \in 0 .. 2 * Width, i < j PROVE Pow2[i] <= Pow2[j]
      <3>1. 2 * Pow2[i] <= Pow2[j]
        BY <2>2, Powers2Grow
      <3>2. QED
        BY <2>1, <3>1
    <2>3. \A i, j \in 0 .. 2 * Width : i <= j => i = j \/ i < j
      BY <1>w
    <2>4. QED
      BY <2>1, <2>2, <2>3
  <1>12. ASSUME c - b = l
         PROVE  Pow2[l + b] >= size /\ (l > 0 => Pow2[(l - 1) + b] < size)
    <2>1. l + b = c /\ (l > 0 => c > b /\ (l - 1) + b = c - 1)
      BY <1>5, <1>6, <1>12
    <2>2. c \in 0 .. 2 * Width
      BY <1>w, <1>6
    <2>3. Pow2[c] \in Nat
      BY <2>2, Powers2
    <2>4. QED
      BY <1>3, <1>7, <1>8, <2>1, <2>3
  <1>13. ASSUME c - b # l, Pow2[l + b] >= size, l > 0 => Pow2[(l - 1) + b] < size
         PROVE  FALSE
    <2>1. l + b \in 0 .. 2 * Width /\ c \in 0 .. 2 * Width
      BY <1>w, <1>5, <1>6
    <2>2. CASE l + b < c
      <3>1. c > b /\ l + b <= c - 1 /\ c - 1 \in 0 .. 2 * Width
        BY <1>w, <1>5, <1>6, <2>2
      <3>2. Pow2[l + b] <= Pow2[c - 1] /\ Pow2[c - 1] \in Nat /\ Pow2[l + b] \in Nat
        BY <1>11, <2>1, <3>1
      <3>3. Pow2[c - 1] < size
        BY <1>8, <3>1
      <3>4. QED
        BY <1>3, <1>13, <3>2, <3>3
    <2>3. CASE c < l + b
      <3>1. l > 0 /\ c <= (l - 1) + b /\ (l - 1) + b \in 0 .. 2 * Width
        BY <1>w, <1>5, <1>6, <2>1, <2>3
      <3>2. Pow2[c] <= Pow2[(l - 1) + b] /\ Pow2[c] \in Nat /\ Pow2[(l - 1) + b] \in Nat
        BY <1>11, <2>1, <3>1
      <3>3. Pow2[(l - 1) + b] < size
        BY <1>13, <3>1
      <3>4. QED
        BY <1>3, <1>7, <3>2, <3>3
    <2>4. QED
      BY <1>5, <1>6, <1>13, <2>2, <2>3
  <1>14. QED
    BY <1>9, <1>10, <1>12, <1>13

(* No list is ever used for requests its chunks are too small for, or that *)
(* a chunk half as large would do for: alloc finds the level of a request  *)
(* by shifts and ors, halvings and a division.                             *)
THEOREM LevelRightTheorem == Spec => []LevelRight
  <1>1. LevelRight
    <2>1. MaxLevel \in Nat /\ Width \in Nat /\ MaxLevel <= Width - 2
      BY Bounds, Widths, ZoneSizesAssumption
    <2>2. \A l \in Level : l \in 0 .. Width - 2
      BY <2>1 DEF Level
    <2>3. QED
      BY <2>2, EveryLevelRight DEF LevelRight
  <1>2. QED
    BY <1>1, PTL

-----------------------------------------------------------------------------
(* The zone as an allocator *)

\* A used chunk is an entry of the allocation array.
LEMMA UsedIs ==
  ASSUME TypeOK
  PROVE  \A c : c \in UsedChunks <=> c[1] \in Unit /\ c[2] \in Level /\ c = <<c[1], c[2]>> /\ entry[c[1]] = c[2]
  <1>1. entry \in [Unit -> Level \cup {Free}] /\ Free \notin Level
    BY Bounds DEF TypeOK, Level, Free
  <1>2. QED
    BY <1>1 DEF UsedChunks

\* A new zone has handed out unit 0 only, the zone's own header.
LEMMA InitRefines == Init => Abs!Init
  <1> SUFFICES ASSUME Init
               PROVE  UsedChunks = {<<0, 0>>}
    BY DEF Abs!Init
  <1>1. TypeOK
    BY InitIInv DEF IInv
  <1>2. entry[0] = 0 /\ \A u \in Unit : entry[u] \in Level => u = 0
    BY Bounds DEF Init, Level, Free
  <1>3. <<0, 0>> \in UsedChunks
    BY <1>1, <1>2, UsedIs, Bounds
  <1>4. \A c \in UsedChunks : c = <<0, 0>>
    BY <1>1, <1>2, UsedIs
  <1>5. QED
    BY <1>3, <1>4

\* AllocMark takes a chunk into use, FreeReset puts one out of it.
LEMMA StepRefines ==
  ASSUME IInv, [Next]_vars
  PROVE  [Abs!Next]_UsedChunks
  <1>0. TypeOK /\ TypeOK' /\ Alone /\ entry \in [Unit -> Level \cup {Free}] /\ Free \notin Level
    <2>1. IInv'
      BY NextIInv
    <2>2. TypeOK /\ TypeOK' /\ Alone
      BY <2>1 DEF IInv, Control
    <2>3. entry \in [Unit -> Level \cup {Free}]
      BY <2>2 DEF TypeOK
    <2>4. Free \notin Level
      BY Bounds DEF Level, Free
    <2>5. QED
      BY <2>2, <2>3, <2>4
  <1>1. ASSUME NEW p \in Proc, AllocMark(p)
        PROVE  Abs!Next
    <2>1. ~collected
      BY <1>0, <1>1 DEF Alone, AllocMark
    <2>2. PICK u \in Unit, l \in Level :
            /\ u % Size(l) = 0
            /\ entry' = [entry EXCEPT ![u] = l]
            /\ <<"hand", u, l>> \in Pieces
      BY <1>1, <2>1, MarkTiles
    <2>3. entry[u] = Free
      <3>1. CASE entry[u] \in Level
        <4>1. <<"used", u, entry[u]>> \in Pieces
          BY <3>1, Tuples DEF UsedPieces, Pieces, Place
        <4> DEFINE x == <<"used", u, entry[u]>>
                   y == <<"hand", u, l>>
        <4>2. x[2] = y[2] /\ x[1] = "used" /\ y[1] = "hand"
          OBVIOUS
        <4>3. x = y
          BY <2>2, <4>1, <4>2, Starts
        <4> HIDE DEF x, y
        <4>4. QED
          BY <4>2, <4>3
      <3>2. QED
        BY <1>0, <3>1
    <2>4. UsedChunks' = UsedChunks \cup {<<u, l>>}
      <3>1. \A c : c \in UsedChunks' <=> c[1] \in Unit /\ c[2] \in Level /\ c = <<c[1], c[2]>> /\ entry'[c[1]] = c[2]
        <4>1. entry' \in [Unit -> Level \cup {Free}]
          BY <1>0, <2>2
        <4>2. QED
          BY <1>0, <4>1 DEF UsedChunks, Unit, Level, Free
      <3>2. \A c : c \in UsedChunks => c[1] # u
        BY <1>0, <2>3, UsedIs
      <3>3. \A c : c \in UsedChunks' <=> c \in UsedChunks \/ c = <<u, l>>
        BY <1>0, <2>2, <3>1, <3>2, UsedIs
      <3>4. QED
        BY <3>3
    <2>5. ASSUME NEW d \in UsedChunks
          PROVE  Abs!Apart(<<u, l>>, d)
      <3>1. d = <<d[1], d[2]>> /\ <<"used", d[1], d[2]>> \in Pieces
        BY ChunkPieces
      <3> DEFINE x == <<"hand", u, l>>
                 y == <<"used", d[1], d[2]>>
      <3>2. x[1] # y[1] /\ x[2] = u /\ x[3] = l /\ y[2] = d[1] /\ y[3] = d[2]
        OBVIOUS
      <3>3. x \in Pieces /\ y \in Pieces /\ x # y
        BY <2>2, <3>1, <3>2
      <3> HIDE DEF x, y
      <3>4. Apart(<<x[2], x[3]>>, <<y[2], y[3]>>)
        BY <3>3, PiecesApart
      <3>5. Apart(<<u, l>>, d)
        BY <3>1, <3>2, <3>4
      <3>6. QED
        BY <3>5 DEF Apart, Abs!Apart, Size
    <2>6. <<u, l>> \in Abs!Chunk
      BY <2>2 DEF Abs!Chunk, Abs!Level, Unit, Level, Size
    <2>7. Abs!Alloc(<<u, l>>)
      BY <2>4, <2>5 DEF Abs!Alloc
    <2>8. QED
      BY <2>6, <2>7 DEF Abs!Next
  <1>2. ASSUME NEW p \in Proc, NEW u \in Unit, FreeReset(p, u)
        PROVE  Abs!Next
    <2>1. u # 0 /\ entry[u] # Free /\ entry[u] \in Level /\ entry' = [entry EXCEPT ![u] = Free]
      BY <1>0, <1>2 DEF FreeReset
    <2> DEFINE c == <<u, entry[u]>>
    <2>2. c \in UsedChunks /\ c # <<0, 0>>
      BY <2>1 DEF UsedChunks
    <2>3. UsedChunks' = UsedChunks \ {c}
      <3>1. \A d : d \in UsedChunks' <=> d[1] \in Unit /\ d[2] \in Level /\ d = <<d[1], d[2]>> /\ entry'[d[1]] = d[2]
        <4>1. entry' \in [Unit -> Level \cup {Free}]
          BY <1>0, <2>1
        <4>2. QED
          BY <1>0, <4>1 DEF UsedChunks, Unit, Level, Free
      <3>2. \A d : d \in UsedChunks' <=> d \in UsedChunks /\ d # c
        BY <1>0, <2>1, <3>1, UsedIs
      <3>3. QED
        BY <3>2
    <2> HIDE DEF c
    <2>4. Abs!Free(c)
      BY <2>2, <2>3 DEF Abs!Free
    <2>5. QED
      BY <2>2, <2>4 DEF Abs!Next
  <1>3. ASSUME UNCHANGED entry
        PROVE  UsedChunks' = UsedChunks
    BY <1>3 DEF UsedChunks, Unit, Free
  <1>4. ASSUME NEW p \in Proc, UserStep(p) \/ MergeStep(p) \/ RecoverMerge(p)
        PROVE  AllocMark(p) \/ (\E u \in Unit : FreeReset(p, u)) \/ UNCHANGED entry
    BY <1>4 DEF UserStep, AllocBegin, AllocPop, AllocEmpty, AllocSplit,
       FreePush, MergeBegin, Die, GCBegin, GCLevel, GCDie, MergeStep, EnterMerge, SetMergeLevel, CopyHead,
       SwapFreeList, SetStatus, CreateBitmap, ResetPostMerge, MergePair, PopPost, PushPost, PostEmpty, ClearMerge,
       ResetMergeLevel, LeaveMerge, RecoverMerge
  <1>5. CASE UNCHANGED vars
    BY <1>3, <1>5 DEF vars
  <1>6. QED
    BY <1>1, <1>2, <1>3, <1>4, <1>5, Steps

(* Whatever splits, merges, crashes, recoveries and collections do, the    *)
(* users of the zone have an allocator: what alloc returns is aligned, in  *)
(* the zone, and apart from everything in use.                             *)
THEOREM Refinement == Spec => ImplementsAllocator
  <1>1. IInv /\ [Next]_vars => [Abs!Next]_UsedChunks
    BY StepRefines
  <1>2. QED
    BY <1>1, InitRefines, Invariance, PTL DEF Spec, Abs!Spec, ImplementsAllocator
=============================================================================
