------------------------------ MODULE FreeLists ------------------------------
(***************************************************************************)
(* The free lists of a distributed heap: shelf_usage/freelists.cc over     *)
(* shelf_usage/fixed_block_allocator.cc, in FAM.  A pointer that cannot be *)
(* freed where it is called is written into a block and the block pushed   *)
(* on the list of the pointer's shelf, for the owner of the shelf.  Blocks *)
(* come from a stack of freed ones or from behind a watermark.  The stacks *)
(* are those of module LockFreeStack: here a push or a pop is one step.    *)
(***************************************************************************)
EXTENDS Integers, Sequences

CONSTANTS ListCount,   \* kMaxShelfCount
          BlockCount   \* blocks that fit in the area: may be small, is finite

ASSUME FreeListsAssumption == ListCount \in Nat \ {0} /\ BlockCount \in Nat

VARIABLES freelists,         \* freelists[s]: the stack of shelf s
          first_free,        \* the stack of freed blocks
          never_allocated,   \* the watermark
          free_ptr           \* the pointer in a block

blocks == <<freelists, first_free, never_allocated, free_ptr>>

List == 0 .. ListCount - 1
Block == 1 .. BlockCount
NoBlock == 0               \* the offset 0

FreeListsInit ==           \* FreeLists::Create clears the area
  /\ freelists = [s \in List |-> << >>]
  /\ first_free = << >>
  /\ never_allocated = 0
  /\ free_ptr = [b \in Block |-> << >>]

FreeListsClear ==
  /\ freelists' = [s \in List |-> << >>]
  /\ first_free' = << >>
  /\ never_allocated' = 0
  /\ free_ptr' = [b \in Block |-> << >>]

\* alloc: first, a block from the stack of freed ones.
PopFirstFree ==
  /\ first_free # << >>
  /\ first_free' = Tail(first_free)
  /\ UNCHANGED <<freelists, never_allocated, free_ptr>>

\* alloc: second, the block at the watermark, by compare-and-store.
Raise(old) == never_allocated' = IF never_allocated = old THEN old + 1 ELSE never_allocated

Raised(old) == never_allocated = old

RaiseWatermark(old) ==
  /\ old < BlockCount
  /\ Raise(old)
  /\ UNCHANGED <<freelists, first_free, free_ptr>>

BadPush(s, b, ptr) ==   \* a mutant: the block is pushed before it has its pointer
  /\ freelists' = [freelists EXCEPT ![s] = <<b>> \o @]
  /\ UNCHANGED <<first_free, never_allocated, free_ptr>>

\* PutPointer's last two steps; nobody else looks at the block before the push.
Push(s, b, ptr) ==
  /\ free_ptr' = [free_ptr EXCEPT ![b] = ptr]
  /\ freelists' = [freelists EXCEPT ![s] = <<b>> \o @]
  /\ UNCHANGED <<first_free, never_allocated>>

BadPop(s) ==   \* a mutant: the block stays on the list
  /\ freelists[s] # << >>
  /\ UNCHANGED blocks

\* GetPointer: a block from the list ...
Pop(s) ==
  /\ freelists[s] # << >>
  /\ freelists' = [freelists EXCEPT ![s] = Tail(@)]
  /\ UNCHANGED <<first_free, never_allocated, free_ptr>>

\* ... whose pointer is read before the block is freed.
FreeBlock(b) ==
  /\ first_free' = <<b>> \o first_free
  /\ UNCHANGED <<freelists, never_allocated, free_ptr>>
=============================================================================
