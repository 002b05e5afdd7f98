--------------------------- MODULE LockFreeStack ---------------------------
(***************************************************************************)
(* The lock-free stack of shelf_usage/zone_entry_stack.cc (the free lists  *)
(* of a zone and the lists of delayed frees) and shelf_usage/stack.cc (the *)
(* same algorithm with the link stored in the block).  The head and its    *)
(* ABA counter are compared and stored together, 128 bits at a time; the   *)
(* link of a block is another word, which a popper may read when the block *)
(* is no longer on the stack.  Zone::swap_freelist detaches the whole      *)
(* stack with a 64-bit CAS that leaves the counter alone.  A 128-bit read  *)
(* is two loads (common/fam_atomic_x86.c), and so is what a failed compare *)
(* and store returns: the copy a process has may be a pair that never was. *)
(***************************************************************************)
EXTENDS Integers, Sequences

CONSTANTS Proc, Block, owner,   \* as in AtomicStack
          Nil,                  \* index 0, which is reserved
          MaxAba                \* bound on the ABA counter

ASSUME StackAssumption ==
  /\ owner \in [Block -> Proc]
  /\ Nil \notin Block
  /\ MaxAba \in Nat

VARIABLES head, abaCounter,   \* the stack
          next,               \* the link word of every block
          pc,                 \* what a process does next
          old,                \* its copy of head and counter
          item,               \* the block it pushes
          link,               \* the link a pop has read
          mine,               \* the blocks it holds
          content             \* history: what the stack holds, top first

shared == <<head, abaCounter, next>>
vars == <<head, abaCounter, next, pc, old, item, link, mine, content>>

Link == Block \cup {Nil}
PC == {"idle", "push_count", "push_link", "push_cas", "pop_count", "pop_read", "pop_cas"}

TypeOK ==
  /\ head \in Link
  /\ abaCounter \in Nat
  /\ next \in [Block -> Link]
  /\ pc \in [Proc -> PC]
  /\ old \in [Proc -> [head : Link, aba : Nat]]
  /\ item \in [Proc -> Link]
  /\ link \in [Proc -> Link]
  /\ mine \in [Proc -> SUBSET Block]
  /\ content \in Seq(Block)

Init ==
  /\ head = Nil
  /\ abaCounter = 0
  /\ next = [b \in Block |-> Nil]
  /\ pc = [p \in Proc |-> "idle"]
  /\ old = [p \in Proc |-> [head |-> Nil, aba |-> 0]]
  /\ item = [p \in Proc |-> Nil]
  /\ link = [p \in Proc |-> Nil]
  /\ mine = [p \in Proc |-> {b \in Block : owner[b] = p}]
  /\ content = <<>>

Goto(p, label) == pc' = [pc EXCEPT ![p] = label]

\* The first load of a 128-bit read of the stack, and the second one.  A CAS
\* that fails samples the stack in the same way; its compare stays false while
\* it does, so that the failure and the first load are one step.
Current == [head |-> head, aba |-> abaCounter]
SampleHead(p) == old' = [old EXCEPT ![p] = [head |-> head, aba |-> @.aba]]
SampleCounter(p) == old' = [old EXCEPT ![p] = [head |-> @.head, aba |-> abaCounter]]

BadReplaceHead(p, b) ==   \* a mutant: the counter is not incremented
  /\ old[p] = Current
  /\ abaCounter < MaxAba
  /\ head' = b
  /\ UNCHANGED abaCounter

BadStore(p, b) ==   \* a mutant: the counter goes the wrong way
  /\ old[p] = Current
  /\ abaCounter < MaxAba
  /\ head' = b
  /\ abaCounter' = abaCounter - 1

\* The 128-bit compare and store, when it succeeds.
ReplaceHead(p, b) ==
  /\ old[p] = Current
  /\ abaCounter < MaxAba
  /\ head' = b
  /\ abaCounter' = abaCounter + 1

-----------------------------------------------------------------------------
(* push: read the head, then link the block to it and try to replace it.   *)

PushBegin(p, b) ==
  /\ pc[p] = "idle"
  /\ b \in mine[p]
  /\ SampleHead(p)
  /\ item' = [item EXCEPT ![p] = b]
  /\ Goto(p, "push_count")
  /\ UNCHANGED <<shared, link, mine, content>>

PushCount(p) ==
  /\ pc[p] = "push_count"
  /\ SampleCounter(p)
  /\ Goto(p, "push_link")
  /\ UNCHANGED <<shared, item, link, mine, content>>

PushLink(p) ==
  /\ pc[p] = "push_link"
  /\ next' = [next EXCEPT ![item[p]] = old[p].head]
  /\ Goto(p, "push_cas")
  /\ UNCHANGED <<head, abaCounter, old, item, link, mine, content>>

PushCAS(p) ==
  /\ pc[p] = "push_cas"
  /\ ReplaceHead(p, item[p])
  /\ Goto(p, "idle")
  /\ mine' = [mine EXCEPT ![p] = @ \ {item[p]}]
  /\ content' = <<item[p]>> \o content
  /\ UNCHANGED <<next, old, item, link>>

PushRetry(p) ==
  /\ pc[p] = "push_cas"
  /\ old[p] # Current
  /\ SampleHead(p)
  /\ Goto(p, "push_count")
  /\ UNCHANGED <<shared, item, link, mine, content>>

-----------------------------------------------------------------------------
(* pop: read the head, read its link, try to replace the head by it.       *)

PopBegin(p) ==
  /\ pc[p] = "idle"
  /\ SampleHead(p)
  /\ Goto(p, "pop_count")
  /\ UNCHANGED <<shared, item, link, mine, content>>

\* An empty stack ends the pop.
PopCount(p) ==
  /\ pc[p] = "pop_count"
  /\ SampleCounter(p)
  /\ Goto(p, IF old[p].head = Nil THEN "idle" ELSE "pop_read")
  /\ UNCHANGED <<shared, item, link, mine, content>>

PopRead(p) ==
  /\ pc[p] = "pop_read"
  /\ link' = [link EXCEPT ![p] = next[old[p].head]]
  /\ Goto(p, "pop_cas")
  /\ UNCHANGED <<shared, old, item, mine, content>>

PopCAS(p) ==
  /\ pc[p] = "pop_cas"
  /\ ReplaceHead(p, link[p])
  /\ Goto(p, "idle")
  /\ mine' = [mine EXCEPT ![p] = @ \cup {old[p].head}]
  /\ content' = IF content = <<>> THEN <<>> ELSE Tail(content)
  /\ UNCHANGED <<next, old, item, link>>

BadPopRetry(p) ==   \* a mutant: the link is not read again
  /\ pc[p] = "pop_cas"
  /\ old[p] # Current
  /\ old' = [old EXCEPT ![p] = Current]
  /\ Goto(p, IF head = Nil THEN "idle" ELSE "pop_cas")
  /\ UNCHANGED <<shared, item, link, mine, content>>

PopRetry(p) ==
  /\ pc[p] = "pop_cas"
  /\ old[p] # Current
  /\ SampleHead(p)
  /\ Goto(p, "pop_count")
  /\ UNCHANGED <<shared, item, link, mine, content>>

-----------------------------------------------------------------------------
\* The holder of a block writes into it (stack.cc), or into its zone entry
\* (set_bitmap_bit): the link word may take any value.
Use(p, b) ==
  /\ pc[p] = "idle"
  /\ b \in mine[p]
  /\ \E x \in Link : next' = [next EXCEPT ![b] = x]
  /\ UNCHANGED <<head, abaCounter, pc, old, item, link, mine, content>>

\* The successful 64-bit CAS of swap_freelist.
Detach(p) ==
  /\ pc[p] = "idle"
  /\ head' = Nil
  /\ mine' = [mine EXCEPT ![p] = @ \cup {content[i] : i \in DOMAIN content}]
  /\ content' = <<>>
  /\ UNCHANGED <<abaCounter, next, pc, old, item, link>>

\* A process dies at any point; what it holds is lost.
Die(p) ==
  /\ Goto(p, "idle")
  /\ mine' = [mine EXCEPT ![p] = {}]
  /\ UNCHANGED <<shared, old, item, link, content>>

Next ==
  \E p \in Proc :
    \/ \E b \in Block : PushBegin(p, b) \/ Use(p, b)
    \/ PushCount(p) \/ PushLink(p) \/ PushCAS(p) \/ PushRetry(p)
    \/ PopBegin(p) \/ PopCount(p) \/ PopRead(p) \/ PopCAS(p) \/ PopRetry(p)
    \/ Detach(p) \/ Die(p)

Spec == Init /\ [][Next]_vars

-----------------------------------------------------------------------------
(* The links of the blocks on the stack, followed from head, are the       *)
(* blocks of the stack in order, although other processes write links at   *)
(* any time and pops act on links they read before.                        *)
LinkAt(i) == IF i < Len(content) THEN content[i + 1] ELSE Nil
Linked ==
  /\ head = IF content = <<>> THEN Nil ELSE content[1]
  /\ \A i \in 1 .. Len(content) : next[content[i]] = LinkAt(i)

(* No block is twice on the stack, on it and with a process, or with two   *)
(* processes: no pop hands out a block that is not free.                   *)
Apart ==
  /\ \A i, j \in 1 .. Len(content) : content[i] = content[j] => i = j
  /\ \A p \in Proc : \A i \in 1 .. Len(content) : content[i] \notin mine[p]
  /\ \A p, q \in Proc : p # q => mine[p] \cap mine[q] = {}

(* What the ABA counter is for: a pop whose copy of the head is current    *)
(* has read the current link, however long ago and whatever happened to    *)
(* the block meanwhile, and although it loaded the two words of its copy   *)
(* one after the other.                                                    *)
LinkFresh ==
  \A p \in Proc :
    pc[p] = "pop_cas" /\ old[p] = Current => link[p] = next[head]

(* Refinement: the operations of the free lists are single steps.          *)
Atomic == INSTANCE AtomicStack
ImplementsAtomicStack == Atomic!Spec
=============================================================================
