----------------------------- MODULE Allocator -----------------------------
(***************************************************************************)
(* What the users of a zone rely on: an allocation returns an aligned      *)
(* chunk, inside the zone, that overlaps no chunk that is in use.          *)
(***************************************************************************)
EXTENDS Integers

CONSTANT MaxLevel   \* the zone has 2^MaxLevel units

VARIABLE inUse      \* the chunks in use, as pairs <<first unit, level>>

Level == 0 .. MaxLevel
Apart(c, d) == c[1] + 2 ^ c[2] <= d[1] \/ d[1] + 2 ^ d[2] <= c[1]
Chunk == {c \in (0 .. 2 ^ MaxLevel - 1) \X Level : c[1] % 2 ^ c[2] = 0}

\* Offset 0 stands for "no chunk"; the first unit is never handed out.
Init == inUse = {<<0, 0>>}

Alloc(c) ==
  /\ inUse' = inUse \cup {c}
  /\ \A d \in inUse : Apart(c, d)

Free(c) ==
  /\ c # <<0, 0>>
  /\ inUse' = inUse \ {c}

Next == (\E c \in Chunk : Alloc(c)) \/ (\E c \in inUse : Free(c))

Spec == Init /\ [][Next]_inUse
=============================================================================
