------------------------------ MODULE SizeClass ------------------------------
(***************************************************************************)
(* The size arithmetic of shelf_usage/zone.cc: a request is rounded up to  *)
(* a power of two with shifts and ors on words of Width bits, and the      *)
(* power becomes a level of the zone (module Zone).  There is no state     *)
(* here.  Where the code works on the bits of a word, the word is the set  *)
(* of its bits.                                                            *)
(***************************************************************************)
EXTENDS Integers

CONSTANT LogWidth   \* words have 2^LogWidth bits; 6 in the code

ASSUME SizeClassAssumption == LogWidth \in 1 .. 6

Width == 2 ^ LogWidth

\* 1 << k.  It is needed beyond the word only to say how large a chunk would be.
Pow2[k \in 0 .. 2 * Width] == IF k = 0 THEN 1 ELSE 2 * Pow2[k - 1]

Word == 0 .. Pow2[Width] - 1
Bit == 0 .. Width - 1

\* The bits of a word, and the word that has the bits of a set.
Bits(n) == {i \in Bit : (n \div Pow2[i]) % 2 = 1}
Sum(B) ==
  LET below[i \in 0 .. Width] ==
        IF i = 0 THEN 0 ELSE below[i - 1] + (IF i - 1 \in B THEN Pow2[i - 1] ELSE 0)
  IN  below
Number(B) == Sum(B)[Width]

\* The number of halvings down to 1; 0 for an odd number on the way.
halvings[x \in Nat \X Word] ==   \* x: power and n
  IF x[2] = 1 THEN x[1]
  ELSE IF x[2] % 2 # 0 THEN 0
  ELSE halvings[<<x[1] + 1, x[2] \div 2>>]
power_of_two(n) == IF n = 0 THEN 0 ELSE halvings[<<0, n>>]

is_power_of_two(n) == n # 0 /\ Bits(n) \cap Bits(n - 1) = {}

\* n |= n >> 1; n |= n >> 2; n |= n >> 4; ...
OrShifted(B, k) == B \cup {i - k : i \in {j \in B : j >= k}}
Shifts(B) ==
  LET step[k \in 0 .. LogWidth] == IF k = 0 THEN B ELSE OrShifted(step[k - 1], Pow2[k - 1])
  IN  step

BadSmear(n) == Number(Shifts(Bits(n))[LogWidth - 1])   \* a mutant: no widest shift
Smear(n) == Number(Shifts(Bits(n))[LogWidth])

next_power_of_two(n) ==
  IF is_power_of_two(n) THEN n ELSE (Smear(n) + 1) % Pow2[Width]

find_level_from_size(s, min) == power_of_two(s \div min)
find_size_from_level(level, min) == Pow2[level + power_of_two(min)]

\* What alloc makes of a request.
chunk_size(size, min) == next_power_of_two(IF size > min THEN size ELSE min)
orig_freelist_level(size, min) == find_level_from_size(chunk_size(size, min), min)

\* MIN_OBJ_SIZE and the check that min_obj_size is a power of two.
MinObjSizes == {Pow2[k] : k \in 0 .. Width - 2}

(* The levels whose chunks are right for the requests alloc sends to them:  *)
(* it sends a request there exactly when a chunk of the level is large     *)
(* enough and a chunk one level below would be too small.  Requests are at *)
(* most half of what a word can count.                                     *)
RightLevels ==
  {l \in 0 .. Width - 2 : \A size \in 1 .. Pow2[Width - 1], min \in MinObjSizes :
     orig_freelist_level(size, min) = l
       <=> /\ find_size_from_level(l, min) >= size
           /\ l > 0 => find_size_from_level(l - 1, min) < size}
=============================================================================
