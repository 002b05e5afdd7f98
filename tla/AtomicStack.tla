---------------------------- MODULE AtomicStack ----------------------------
(***************************************************************************)
(* What the free lists rely on: a stack of blocks whose operations are     *)
(* single steps.  A block is on the stack, or in the hands of the one      *)
(* process that popped it, or lost because that process died.              *)
(***************************************************************************)
EXTENDS Sequences

CONSTANTS Proc,    \* processes that share the stack
          Block,   \* blocks, or zone entries
          owner    \* who holds a block before it is first pushed

VARIABLES content,  \* the blocks on the stack, top first
          mine      \* mine[p]: the blocks process p holds

vars == <<content, mine>>

Init ==
  /\ content = <<>>
  /\ mine = [p \in Proc |-> {b \in Block : owner[b] = p}]

Push(p, b) ==
  /\ b \in mine[p]
  /\ content' = <<b>> \o content
  /\ mine' = [mine EXCEPT ![p] = @ \ {b}]

Pop(p) ==
  /\ content # <<>>
  /\ content' = Tail(content)
  /\ mine' = [mine EXCEPT ![p] = @ \cup {Head(content)}]

\* The whole stack goes to one process.
Detach(p) ==
  /\ content' = <<>>
  /\ mine' = [mine EXCEPT ![p] = @ \cup {content[i] : i \in DOMAIN content}]

Die(p) ==
  /\ mine' = [mine EXCEPT ![p] = {}]
  /\ UNCHANGED content

Next ==
  \E p \in Proc : (\E b \in Block : Push(p, b)) \/ Pop(p) \/ Detach(p) \/ Die(p)

Spec == Init /\ [][Next]_vars
=============================================================================
