------------------------ MODULE LockFreeStackProofs ------------------------
(***************************************************************************)
(* The lock-free stack refines the atomic stack, for any processes and     *)
(* blocks.  The argument: a successful CAS of a pop finds the head and the *)
(* counter it read, the counter grows with every successful CAS, and the   *)
(* link of the block on top is written by nobody while it is on the stack. *)
(* That head and counter are loaded one after the other does no harm: the  *)
(* link is read after both, so that it is current whenever the pair is.    *)
(***************************************************************************)
EXTENDS LockFreeStack, SequenceTheorems, TLAPS

\* A block that is being pushed is held by its pusher and linked.
Pushing ==
  \A p \in Proc :
    /\ pc[p] \in {"push_count", "push_link", "push_cas"} => item[p] \in mine[p]
    /\ pc[p] = "push_cas" => next[item[p]] = old[p].head

\* No copy of the counter is ahead of it, and no pop runs on an empty copy.
Copies ==
  \A p \in Proc :
    /\ old[p].aba <= abaCounter
    /\ pc[p] \in {"pop_read", "pop_cas"} => old[p].head # Nil

\* The inductive invariant.
IInv == TypeOK /\ Linked /\ Apart /\ LinkFresh /\ Pushing /\ Copies

-----------------------------------------------------------------------------
LEMMA ConsFacts ==
  ASSUME NEW S, NEW b \in S, NEW s \in Seq(S)
  PROVE  /\ <<b>> \o s \in Seq(S)
         /\ Len(<<b>> \o s) = Len(s) + 1
         /\ (<<b>> \o s)[1] = b
         /\ \A i \in 1 .. Len(s) : (<<b>> \o s)[i + 1] = s[i]
         /\ <<b>> \o s # <<>>
  OBVIOUS

LEMMA TailFacts ==
  ASSUME NEW S, NEW s \in Seq(S), s # <<>>
  PROVE  /\ Len(s) >= 1
         /\ Tail(s) \in Seq(S)
         /\ Len(Tail(s)) = Len(s) - 1
         /\ \A i \in 1 .. Len(s) - 1 : Tail(s)[i] = s[i + 1]
         /\ Head(s) = s[1]
         /\ Tail(s) = <<>> <=> Len(s) = 1
  <1>1. Len(s) \in Nat /\ Len(s) >= 1
    OBVIOUS
  <1>2. Tail(s) \in Seq(S) /\ Len(Tail(s)) = Len(s) - 1
    BY HeadTailProperties
  <1>3. \A i \in 1 .. Len(s) - 1 : Tail(s)[i] = s[i + 1]
    BY HeadTailProperties
  <1>4. Tail(s) = <<>> <=> Len(Tail(s)) = 0
    BY <1>2, EmptySeq
  <1>5. Head(s) = s[1]
    OBVIOUS
  <1>6. QED
    BY <1>1, <1>2, <1>3, <1>4, <1>5

LEMMA LenFacts ==
  ASSUME NEW S, NEW s \in Seq(S)
  PROVE  /\ Len(s) \in Nat
         /\ DOMAIN s = 1 .. Len(s)
         /\ s = <<>> <=> Len(s) = 0
         /\ \A i \in 1 .. Len(s) : s[i] \in S
  OBVIOUS

LEMMA EmptyFacts == Len(<<>>) = 0
  OBVIOUS

(* The block on top of a stack is the first of content.                    *)
LEMMA TopFacts ==
  ASSUME TypeOK, Linked
  PROVE  /\ head # Nil <=> content # <<>>
         /\ head # Nil => Len(content) >= 1 /\ head = content[1]
  BY LenFacts, StackAssumption DEF TypeOK, Linked

-----------------------------------------------------------------------------
LEMMA InitSafe == Init => IInv
  <1> SUFFICES ASSUME Init PROVE IInv
    OBVIOUS
  <1> USE StackAssumption DEF Init
  <1>1. content \in Seq(Block)
    BY EmptySeq
  <1>2. TypeOK
    BY <1>1 DEF TypeOK, Link, PC
  <1>3. Linked
    BY EmptyFacts DEF Linked
  <1>4. Apart
    BY EmptyFacts DEF Apart
  <1>5. LinkFresh /\ Pushing /\ Copies
    BY DEF LinkFresh, Pushing, Copies
  <1>6. QED
    BY <1>2, <1>3, <1>4, <1>5 DEF IInv

(* Steps that only move a process on and load a word of the stack.         *)
LEMMA SampleStep ==
  ASSUME IInv, NEW p \in Proc,
         NEW label \in {"idle", "push_count", "push_link", "pop_count", "pop_read"},
         Goto(p, label), SampleHead(p) \/ SampleCounter(p),
         label = "pop_read" => old'[p].head # Nil,
         item' \in [Proc -> Link],
         \A q \in Proc \ {p} : item'[q] = item[q],
         label \in {"push_count", "push_link"} => item'[p] \in mine[p],
         UNCHANGED <<shared, link, mine, content>>
  PROVE  IInv'
  <1> USE DEF Goto, shared
  <1>1. /\ old' \in [Proc -> [head : Link, aba : Nat]]
        /\ \A q \in Proc \ {p} : old'[q] = old[q]
        /\ old'[p].aba <= abaCounter
    <2>1. /\ old \in [Proc -> [head : Link, aba : Nat]]
          /\ head \in Link /\ abaCounter \in Nat /\ old[p].aba <= abaCounter
      BY DEF IInv, TypeOK, Copies
    <2>2. CASE SampleHead(p)
      BY <2>1, <2>2 DEF SampleHead
    <2>3. CASE SampleCounter(p)
      BY <2>1, <2>3 DEF SampleCounter
    <2>4. QED
      BY <2>2, <2>3
  <1>2. /\ pc'[p] = label
        /\ \A q \in Proc \ {p} : pc'[q] = pc[q]
    BY DEF IInv, TypeOK
  <1>3. TypeOK'
    BY <1>1 DEF IInv, TypeOK, PC
  <1>4. Linked' /\ Apart'
    BY DEF IInv, Linked, LinkAt, Apart
  <1>5. LinkFresh'
    BY <1>1, <1>2 DEF IInv, LinkFresh, Current
  <1>6. Pushing'
    BY <1>1, <1>2 DEF IInv, Pushing
  <1>7. Copies'
    BY <1>1, <1>2 DEF IInv, Copies
  <1>8. QED
    BY <1>3, <1>4, <1>5, <1>6, <1>7 DEF IInv

(* Writing the link of a block that a process holds does not touch the     *)
(* stack, nor the block another process pushes.                            *)
LEMMA WriteLink ==
  ASSUME IInv, NEW p \in Proc, NEW b \in mine[p], NEW x \in Link,
         next' = [next EXCEPT ![b] = x],
         head' = head, mine' = mine, content' = content
  PROVE  /\ next' \in [Block -> Link]
         /\ Linked' /\ Apart'
         /\ head # Nil => next'[head] = next[head]
         /\ \A q \in Proc \ {p} : \A c \in mine[q] : next'[c] = next[c]
  <1>1. b \in Block
    BY DEF IInv, TypeOK
  <1>2. next' \in [Block -> Link]
    BY <1>1 DEF IInv, TypeOK
  <1>3. \A i \in 1 .. Len(content) : content[i] # b
    BY DEF IInv, Apart
  <1>4. \A i \in 1 .. Len(content) : content[i] \in Block
    BY LenFacts DEF IInv, TypeOK
  <1>5. \A i \in 1 .. Len(content) : next'[content[i]] = next[content[i]]
    BY <1>3, <1>4 DEF IInv, TypeOK
  <1>6. Linked'
    BY <1>5 DEF IInv, Linked, LinkAt
  <1>7. Apart'
    BY DEF IInv, Apart
  <1>8. head # Nil => next'[head] = next[head]
    BY <1>5, TopFacts DEF IInv
  <1>9. \A q \in Proc \ {p} : \A c \in mine[q] : next'[c] = next[c]
    BY DEF IInv, TypeOK, Apart
  <1>10. QED
    BY <1>2, <1>6, <1>7, <1>8, <1>9

LEMMA PushLinkStep ==
  ASSUME IInv, NEW p \in Proc, PushLink(p) PROVE IInv'
  <1>1. item[p] \in mine[p] /\ old[p].head \in Link
    BY DEF PushLink, IInv, Pushing, TypeOK
  <1>u. next' = [next EXCEPT ![item[p]] = old[p].head] /\ UNCHANGED <<head, mine, content>>
    BY DEF PushLink
  <1>2. /\ next' \in [Block -> Link]
        /\ Linked' /\ Apart'
        /\ head # Nil => next'[head] = next[head]
        /\ \A q \in Proc \ {p} : \A c \in mine[q] : next'[c] = next[c]
        /\ next'[item[p]] = old[p].head
    <2>1. PICK b \in mine[p], x \in Link : b = item[p] /\ x = old[p].head
      BY <1>1
    <2>2. next' = [next EXCEPT ![b] = x] /\ head' = head /\ mine' = mine /\ content' = content
      BY <1>1, <1>u, <2>1
    <2>3. /\ next' \in [Block -> Link]
          /\ Linked' /\ Apart'
          /\ head # Nil => next'[head] = next[head]
          /\ \A q \in Proc \ {p} : \A c \in mine[q] : next'[c] = next[c]
      BY <2>1, <2>2, WriteLink
    <2>4. next'[b] = x
      BY <2>1, <2>2 DEF IInv, TypeOK
    <2>5. QED
      BY <2>1, <2>3, <2>4
  <1> USE DEF PushLink, Goto, Current
  <1>3. TypeOK'
    BY <1>2 DEF IInv, TypeOK, PC
  <1>4. pc'[p] = "push_cas" /\ \A q \in Proc \ {p} : pc'[q] = pc[q]
    BY DEF IInv, TypeOK
  <1>5. LinkFresh'
    <2>1. SUFFICES ASSUME NEW q \in Proc, pc'[q] = "pop_cas", old[q] = Current
                   PROVE  link[q] = next'[head]
      BY DEF LinkFresh
    <2>2. q # p /\ pc[q] = "pop_cas"
      BY <1>4, <2>1
    <2>3. head # Nil
      BY <2>1, <2>2 DEF IInv, Copies
    <2>4. QED
      BY <1>2, <2>1, <2>2, <2>3 DEF IInv, LinkFresh
  <1>6. Pushing'
    BY <1>1, <1>2, <1>4 DEF IInv, Pushing
  <1>7. Copies'
    BY <1>4 DEF IInv, Copies
  <1>8. QED
    BY <1>2, <1>3, <1>5, <1>6, <1>7 DEF IInv

(* A successful CAS outdates every copy of the head and the counter.       *)
LEMMA OutdatedCopies ==
  ASSUME IInv, NEW p \in Proc, NEW b, ReplaceHead(p, b)
  PROVE  /\ \A q \in Proc : old[q] # Current' /\ old[q].aba <= abaCounter'
         /\ abaCounter' \in Nat
         /\ old[p].head = head
         /\ head' = b
  BY DEF IInv, TypeOK, Copies, ReplaceHead, Current

LEMMA PushCASStep ==
  ASSUME IInv, NEW p \in Proc, PushCAS(p) PROVE IInv'
  <1> DEFINE b == item[p]
             s == content
  <1>1. ReplaceHead(p, b) /\ pc[p] = "push_cas"
    BY DEF PushCAS
  <1>2. b \in mine[p] /\ b \in Block /\ next[b] = head
    BY <1>1, OutdatedCopies DEF IInv, Pushing, TypeOK
  <1>3. /\ \A q \in Proc : old[q] # Current' /\ old[q].aba <= abaCounter'
        /\ abaCounter' \in Nat
        /\ head' = b
    BY <1>1, OutdatedCopies
  <1>4. content' = <<b>> \o s /\ s \in Seq(Block)
    BY DEF PushCAS, IInv, TypeOK
  <1>5. /\ content' \in Seq(Block)
        /\ Len(content') = Len(s) + 1
        /\ content'[1] = b
        /\ \A i \in 1 .. Len(s) : content'[i + 1] = s[i]
        /\ content' # <<>>
    BY <1>2, <1>4, ConsFacts
  <1>6. /\ mine' = [mine EXCEPT ![p] = @ \ {b}]
        /\ pc' = [pc EXCEPT ![p] = "idle"]
        /\ UNCHANGED <<next, old, item, link>>
    BY DEF PushCAS, Goto
  <1>7. Len(s) \in Nat /\ (s = <<>> <=> Len(s) = 0)
    BY <1>4, LenFacts
  <1>8. \A i \in 1 .. Len(content') : i = 1 \/ (i - 1 \in 1 .. Len(s) /\ content'[i] = s[i - 1])
    <2> SUFFICES ASSUME NEW i \in 1 .. Len(content'), i # 1
                 PROVE  i - 1 \in 1 .. Len(s) /\ content'[i] = s[i - 1]
      OBVIOUS
    <2>1. i - 1 \in 1 .. Len(s) /\ i = (i - 1) + 1
      BY <1>5, <1>7
    <2>2. QED
      BY <1>5, <2>1
  <1>9. TypeOK'
    BY <1>2, <1>3, <1>5, <1>6 DEF IInv, TypeOK, PC, Link
  <1>10. Linked'
    <2>1. head' = IF content' = <<>> THEN Nil ELSE content'[1]
      BY <1>3, <1>5
    <2>2. ASSUME NEW i \in 1 .. Len(content') PROVE next[content'[i]] = LinkAt(i)'
      <3>1. CASE i = 1
        <4>1. CASE s = <<>>
          BY <3>1, <4>1, <1>2, <1>5, <1>7 DEF IInv, Linked, LinkAt
        <4>2. CASE s # <<>>
          <5>1. Len(s) >= 1 /\ content'[1 + 1] = s[1] /\ head = s[1]
            BY <4>2, <1>5, <1>7 DEF IInv, Linked
          <5>2. QED
            BY <3>1, <5>1, <1>2, <1>5, <1>7 DEF LinkAt
        <4>3. QED
          BY <4>1, <4>2
      <3>2. CASE i # 1
        <4>1. i - 1 \in 1 .. Len(s) /\ content'[i] = s[i - 1]
          BY <1>8, <3>2
        <4>2. next[s[i - 1]] = IF i - 1 < Len(s) THEN s[i] ELSE Nil
          BY <4>1, <1>7 DEF IInv, Linked, LinkAt
        <4>3. i - 1 < Len(s) => content'[i + 1] = s[i] /\ i < Len(content')
          BY <1>5, <1>7, <4>1
        <4>4. i - 1 >= Len(s) => ~(i < Len(content'))
          BY <1>5, <1>7, <4>1
        <4>5. QED
          BY <4>1, <4>2, <4>3, <4>4, <1>7 DEF LinkAt
      <3>3. QED
        BY <3>1, <3>2
    <2>3. QED
      BY <2>1, <2>2, <1>6 DEF Linked
  <1>11. Apart'
    <2>1. \A i \in 1 .. Len(s) : s[i] # b
      BY <1>2 DEF IInv, Apart
    <2>2. \A i, j \in 1 .. Len(content') : content'[i] = content'[j] => i = j
      <3> SUFFICES ASSUME NEW i \in 1 .. Len(content'), NEW j \in 1 .. Len(content'),
                          content'[i] = content'[j]
                   PROVE  i = j
        OBVIOUS
      <3>1. CASE i = 1 \/ j = 1
        BY <3>1, <1>5, <1>8, <2>1
      <3>2. CASE i # 1 /\ j # 1
        <4>1. i - 1 = j - 1
          BY <3>2, <1>8 DEF IInv, Apart
        <4>2. QED
          BY <4>1, <1>5, <1>7
      <3>3. QED
        BY <3>1, <3>2
    <2>3. \A q \in Proc : mine'[q] \subseteq mine[q] /\ b \notin mine'[q]
      BY <1>2, <1>6 DEF IInv, TypeOK, Apart
    <2>4. \A q \in Proc : \A i \in 1 .. Len(content') : content'[i] \notin mine'[q]
      <3> SUFFICES ASSUME NEW q \in Proc, NEW i \in 1 .. Len(content')
                   PROVE  content'[i] \notin mine'[q]
        OBVIOUS
      <3>1. CASE i = 1
        BY <3>1, <1>5, <2>3
      <3>2. CASE i # 1
        <4>1. i - 1 \in 1 .. Len(s) /\ content'[i] = s[i - 1]
          BY <1>8, <3>2
        <4>2. s[i - 1] \notin mine[q]
          BY <4>1 DEF IInv, Apart
        <4>3. QED
          BY <4>1, <4>2, <2>3
      <3>3. QED
        BY <3>1, <3>2
    <2>5. \A q, r \in Proc : q # r => mine'[q] \cap mine'[r] = {}
      BY <2>3 DEF IInv, Apart
    <2>6. QED
      BY <2>2, <2>4, <2>5 DEF Apart
  <1>12. pc'[p] = "idle" /\ \A q \in Proc \ {p} : pc'[q] = pc[q] /\ mine'[q] = mine[q]
    BY <1>6 DEF IInv, TypeOK
  <1>13. LinkFresh'
    BY <1>3, <1>6 DEF LinkFresh
  <1>14. Pushing'
    BY <1>6, <1>12 DEF IInv, Pushing
  <1>15. Copies'
    BY <1>3, <1>6, <1>12 DEF IInv, Copies
  <1>16. QED
    BY <1>9, <1>10, <1>11, <1>13, <1>14, <1>15 DEF IInv

LEMMA PopCASStep ==
  ASSUME IInv, NEW p \in Proc, PopCAS(p)
  PROVE  IInv' /\ content # <<>> /\ Head(content) = old[p].head
  <1> DEFINE s == content
  <1>1. ReplaceHead(p, link[p]) /\ pc[p] = "pop_cas" /\ old[p] = Current
    BY DEF PopCAS, ReplaceHead
  <1>2. old[p].head = head /\ head # Nil /\ link[p] = next[head]
    BY <1>1, OutdatedCopies DEF IInv, Copies, LinkFresh
  <1>3. /\ \A q \in Proc : old[q] # Current' /\ old[q].aba <= abaCounter'
        /\ abaCounter' \in Nat
        /\ head' = next[head]
    BY <1>1, <1>2, OutdatedCopies
  <1>4. content' = Tail(s) /\ s \in Seq(Block) /\ s # <<>> /\ head = s[1]
    BY <1>2, TopFacts DEF PopCAS, IInv, TypeOK
  <1>5. /\ Len(s) \in Nat /\ Len(s) >= 1
        /\ content' \in Seq(Block)
        /\ Len(content') = Len(s) - 1
        /\ \A i \in 1 .. Len(s) - 1 : content'[i] = s[i + 1]
        /\ Head(s) = s[1]
        /\ content' = <<>> <=> Len(s) = 1
    BY <1>4, TailFacts, LenFacts
  <1>6. /\ mine' = [mine EXCEPT ![p] = @ \cup {head}]
        /\ pc' = [pc EXCEPT ![p] = "idle"]
        /\ UNCHANGED <<next, old, item, link>>
    BY <1>2 DEF PopCAS, Goto
  <1>7. head \in Block /\ next[head] \in Link
    BY <1>2 DEF IInv, TypeOK, Link
  <1>8. TypeOK'
    BY <1>3, <1>5, <1>6, <1>7 DEF IInv, TypeOK, PC
  <1>9. Linked'
    <2>1. head' = IF content' = <<>> THEN Nil ELSE content'[1]
      BY <1>3, <1>4, <1>5 DEF IInv, Linked, LinkAt
    <2>2. ASSUME NEW i \in 1 .. Len(content') PROVE next[content'[i]] = LinkAt(i)'
      <3>1. i + 1 \in 1 .. Len(s) /\ content'[i] = s[i + 1]
        BY <1>5
      <3>2. next[s[i + 1]] = IF i + 1 < Len(s) THEN s[i + 1 + 1] ELSE Nil
        BY <3>1 DEF IInv, Linked, LinkAt
      <3>3. i < Len(content') => content'[i + 1] = s[i + 1 + 1] /\ i + 1 < Len(s)
        BY <1>5
      <3>4. ~(i < Len(content')) => ~(i + 1 < Len(s))
        BY <1>5
      <3>5. QED
        BY <3>1, <3>2, <3>3, <3>4 DEF LinkAt
    <2>3. QED
      BY <2>1, <2>2, <1>6 DEF Linked
  <1>10. Apart'
    <2>1. \A i \in 1 .. Len(content') : /\ i \in Nat
                                       /\ i + 1 \in 1 .. Len(s)
                                       /\ content'[i] = s[i + 1]
                                       /\ content'[i] # head
      BY <1>4, <1>5 DEF IInv, Apart
    <2>2. \A i, j \in 1 .. Len(content') : content'[i] = content'[j] => i = j
      <3> SUFFICES ASSUME NEW i \in 1 .. Len(content'), NEW j \in 1 .. Len(content'),
                          content'[i] = content'[j]
                   PROVE  i = j
        OBVIOUS
      <3>1. i + 1 = j + 1
        BY <2>1 DEF IInv, Apart
      <3>2. QED
        BY <3>1, <2>1
    <2>3. \A q \in Proc : head \notin mine[q]
      BY <1>4, <1>5 DEF IInv, Apart
    <2>4. \A q \in Proc : mine'[q] = IF q = p THEN mine[q] \cup {head} ELSE mine[q]
      BY <1>6 DEF IInv, TypeOK
    <2>5. \A q \in Proc : \A i \in 1 .. Len(content') : content'[i] \notin mine'[q]
      <3> SUFFICES ASSUME NEW q \in Proc, NEW i \in 1 .. Len(content')
                   PROVE  content'[i] \notin mine'[q]
        OBVIOUS
      <3>1. content'[i] = s[i + 1] /\ i + 1 \in 1 .. Len(s) /\ content'[i] # head
        BY <2>1
      <3>2. s[i + 1] \notin mine[q]
        BY <3>1 DEF IInv, Apart
      <3>3. QED
        BY <3>1, <3>2, <2>4
    <2>6. \A q, r \in Proc : q # r => mine'[q] \cap mine'[r] = {}
      <3> SUFFICES ASSUME NEW q \in Proc, NEW r \in Proc, q # r
                   PROVE  mine'[q] \cap mine'[r] = {}
        OBVIOUS
      <3>1. mine[q] \cap mine[r] = {} /\ head \notin mine[q] /\ head \notin mine[r]
        BY <2>3 DEF IInv, Apart
      <3>2. QED
        BY <3>1, <2>4
    <2>7. QED
      BY <2>2, <2>5, <2>6 DEF Apart
  <1>11. pc'[p] = "idle" /\ \A q \in Proc \ {p} : pc'[q] = pc[q] /\ mine'[q] = mine[q]
    BY <1>6 DEF IInv, TypeOK
  <1>12. LinkFresh'
    BY <1>3, <1>6 DEF LinkFresh
  <1>13. Pushing'
    BY <1>6, <1>11 DEF IInv, Pushing
  <1>14. Copies'
    BY <1>3, <1>6, <1>11 DEF IInv, Copies
  <1>15. QED
    BY <1>2, <1>4, <1>5, <1>8, <1>9, <1>10, <1>12, <1>13, <1>14 DEF IInv

LEMMA UseStep ==
  ASSUME IInv, NEW p \in Proc, NEW b \in Block, Use(p, b) PROVE IInv'
  <1> USE DEF Use, Current
  <1>1. PICK x \in Link : next' = [next EXCEPT ![b] = x]
    OBVIOUS
  <1>2. /\ next' \in [Block -> Link]
        /\ Linked' /\ Apart'
        /\ head # Nil => next'[head] = next[head]
        /\ \A q \in Proc \ {p} : \A c \in mine[q] : next'[c] = next[c]
    BY <1>1, WriteLink
  <1>3. TypeOK'
    BY <1>2 DEF IInv, TypeOK
  <1>4. LinkFresh'
    BY <1>2 DEF IInv, LinkFresh, Copies
  <1>5. Pushing'
    BY <1>2 DEF IInv, Pushing
  <1>6. Copies'
    BY DEF IInv, Copies
  <1>7. QED
    BY <1>2, <1>3, <1>4, <1>5, <1>6 DEF IInv

LEMMA PopReadStep ==
  ASSUME IInv, NEW p \in Proc, PopRead(p) PROVE IInv'
  <1> USE DEF PopRead, Goto, shared, Current
  <1>1. old[p].head \in Block
    BY DEF IInv, TypeOK, Copies, Link
  <1>2. TypeOK'
    BY <1>1 DEF IInv, TypeOK, PC
  <1>3. Linked' /\ Apart'
    BY DEF IInv, Linked, LinkAt, Apart
  <1>4. pc'[p] = "pop_cas" /\ link'[p] = next[old[p].head]
    BY DEF IInv, TypeOK
  <1>5. \A q \in Proc \ {p} : pc'[q] = pc[q] /\ link'[q] = link[q]
    BY DEF IInv, TypeOK
  <1>6. LinkFresh'
    BY <1>4, <1>5 DEF IInv, LinkFresh
  <1>7. Pushing'
    BY <1>4, <1>5 DEF IInv, Pushing
  <1>8. Copies'
    BY <1>4, <1>5 DEF IInv, Copies
  <1>9. QED
    BY <1>2, <1>3, <1>6, <1>7, <1>8 DEF IInv

LEMMA DetachStep ==
  ASSUME IInv, NEW p \in Proc, Detach(p) PROVE IInv'
  <1> DEFINE all == {content[i] : i \in DOMAIN content}
  <1>1. /\ head' = Nil /\ content' = <<>> /\ pc[p] = "idle"
        /\ mine' = [mine EXCEPT ![p] = @ \cup all]
        /\ UNCHANGED <<abaCounter, next, pc, old, item, link>>
    BY DEF Detach
  <1>2. \A i \in 1 .. Len(content) : content[i] \in Block
    BY LenFacts DEF IInv, TypeOK
  <1>3. all \subseteq Block /\ \A q \in Proc : all \cap mine[q] = {}
    BY <1>2, LenFacts DEF IInv, TypeOK, Apart
  <1>4. \A q \in Proc : mine'[q] = IF q = p THEN mine[q] \cup all ELSE mine[q]
    BY <1>1 DEF IInv, TypeOK
  <1> HIDE DEF all
  <1>5. TypeOK'
    <2>1. content' \in Seq(Block)
      BY <1>1, EmptySeq
    <2>2. QED
      BY <1>1, <1>3, <2>1 DEF IInv, TypeOK, Link
  <1>6. Linked'
    BY <1>1, EmptyFacts DEF Linked
  <1>7. Apart'
    <2>1. ASSUME NEW q \in Proc, NEW r \in Proc, q # r
          PROVE  mine'[q] \cap mine'[r] = {}
      <3>1. mine[q] \cap mine[r] = {}
        BY <2>1 DEF IInv, Apart
      <3>2. QED
        BY <1>3, <1>4, <2>1, <3>1
    <2>2. Len(content') = 0
      BY <1>1, EmptyFacts
    <2>3. QED
      BY <2>1, <2>2 DEF Apart
  <1>8. LinkFresh'
    <2>1. \A q \in Proc : pc[q] = "pop_cas" => old[q].head # Nil
      BY DEF IInv, Copies
    <2>2. QED
      BY <1>1, <2>1 DEF LinkFresh, Current
  <1>9. Pushing'
    BY <1>1, <1>4 DEF IInv, Pushing
  <1>10. Copies'
    BY <1>1 DEF IInv, Copies
  <1>11. QED
    BY <1>5, <1>6, <1>7, <1>8, <1>9, <1>10 DEF IInv

LEMMA DieStep ==
  ASSUME IInv, NEW p \in Proc, Die(p) PROVE IInv'
  <1> USE DEF Die, Goto, shared, Current
  <1>1. \A q \in Proc : /\ mine'[q] \subseteq mine[q]
                       /\ q # p => mine'[q] = mine[q] /\ pc'[q] = pc[q]
    BY DEF IInv, TypeOK
  <1>2. pc'[p] = "idle"
    BY DEF IInv, TypeOK
  <1>3. TypeOK'
    BY DEF IInv, TypeOK, PC
  <1>4. Linked'
    BY DEF IInv, Linked, LinkAt
  <1>5. Apart'
    BY <1>1 DEF IInv, Apart
  <1>6. LinkFresh' /\ Pushing' /\ Copies'
    BY <1>1, <1>2 DEF IInv, LinkFresh, Pushing, Copies
  <1>7. QED
    BY <1>3, <1>4, <1>5, <1>6 DEF IInv

-----------------------------------------------------------------------------
(* A failed CAS, and the two loads of push and pop.                        *)
LEMMA ReadSteps ==
  ASSUME IInv, NEW p \in Proc,
         \/ \E b \in Block : PushBegin(p, b)
         \/ PushCount(p) \/ PushRetry(p)
         \/ PopBegin(p) \/ PopCount(p) \/ PopRetry(p)
  PROVE  IInv'
  <1>1. ASSUME NEW b \in Block, PushBegin(p, b) PROVE IInv'
    <2>1. /\ Goto(p, "push_count") /\ SampleHead(p)
          /\ UNCHANGED <<shared, link, mine, content>>
      BY <1>1 DEF PushBegin
    <2>2. /\ item' \in [Proc -> Link] /\ item'[p] \in mine[p]
          /\ \A q \in Proc \ {p} : item'[q] = item[q]
      BY <1>1 DEF PushBegin, IInv, TypeOK, Link
    <2>3. QED
      BY <2>1, <2>2, SampleStep
  <1>2. ASSUME PushCount(p) PROVE IInv'
    <2>1. /\ Goto(p, "push_link") /\ SampleCounter(p) /\ item' = item
          /\ UNCHANGED <<shared, link, mine, content>>
      BY <1>2 DEF PushCount
    <2>2. item' \in [Proc -> Link] /\ item'[p] \in mine[p]
      BY <1>2 DEF PushCount, IInv, TypeOK, Pushing
    <2>3. QED
      BY <2>1, <2>2, SampleStep
  <1>3. ASSUME PushRetry(p) PROVE IInv'
    <2>1. /\ Goto(p, "push_count") /\ SampleHead(p) /\ item' = item
          /\ UNCHANGED <<shared, link, mine, content>>
      BY <1>3 DEF PushRetry
    <2>2. item' \in [Proc -> Link] /\ item'[p] \in mine[p]
      BY <1>3 DEF PushRetry, IInv, TypeOK, Pushing
    <2>3. QED
      BY <2>1, <2>2, SampleStep
  <1>4. ASSUME PopBegin(p) \/ PopRetry(p) PROVE IInv'
    <2>1. /\ Goto(p, "pop_count") /\ SampleHead(p) /\ item' = item
          /\ UNCHANGED <<shared, link, mine, content>>
      BY <1>4 DEF PopBegin, PopRetry
    <2>2. item' \in [Proc -> Link]
      BY <2>1 DEF IInv, TypeOK
    <2>3. QED
      BY <2>1, <2>2, SampleStep
  <1>5. ASSUME PopCount(p) PROVE IInv'
    <2>1. /\ SampleCounter(p) /\ item' = item
          /\ UNCHANGED <<shared, link, mine, content>>
          /\ Goto(p, IF old[p].head = Nil THEN "idle" ELSE "pop_read")
      BY <1>5 DEF PopCount
    <2>2. item' \in [Proc -> Link] /\ old'[p].head = old[p].head
      BY <2>1 DEF IInv, TypeOK, SampleCounter
    <2>3. CASE old[p].head = Nil
      <3>1. Goto(p, "idle")
        BY <2>1, <2>3
      <3>2. QED
        BY <2>1, <2>2, <3>1, SampleStep
    <2>4. CASE old[p].head # Nil
      <3>1. Goto(p, "pop_read")
        BY <2>1, <2>4
      <3>2. QED
        BY <2>1, <2>2, <2>4, <3>1, SampleStep
    <2>5. QED
      BY <2>3, <2>4
  <1>6. QED
    BY <1>1, <1>2, <1>3, <1>4, <1>5

LEMMA Stutter == ASSUME IInv, UNCHANGED vars PROVE IInv'
  BY DEF vars, IInv, TypeOK, Linked, LinkAt, Apart, LinkFresh, Pushing, Copies, Current

LEMMA Inductive == ASSUME IInv, [Next]_vars PROVE IInv'
  <1>1. ASSUME NEW p \in Proc, NEW b \in Block, Use(p, b) PROVE IInv'
    BY <1>1, UseStep
  <1>2. ASSUME NEW p \in Proc,
               \/ \E b \in Block : PushBegin(p, b)
               \/ PushCount(p) \/ PushRetry(p)
               \/ PopBegin(p) \/ PopCount(p) \/ PopRetry(p)
        PROVE  IInv'
    BY <1>2, ReadSteps
  <1>3. ASSUME NEW p \in Proc, PushLink(p) PROVE IInv'
    BY <1>3, PushLinkStep
  <1>4. ASSUME NEW p \in Proc, PushCAS(p) PROVE IInv'
    BY <1>4, PushCASStep
  <1>5. ASSUME NEW p \in Proc, PopRead(p) PROVE IInv'
    BY <1>5, PopReadStep
  <1>6. ASSUME NEW p \in Proc, PopCAS(p) PROVE IInv'
    BY <1>6, PopCASStep
  <1>7. ASSUME NEW p \in Proc, Detach(p) PROVE IInv'
    BY <1>7, DetachStep
  <1>8. ASSUME NEW p \in Proc, Die(p) PROVE IInv'
    BY <1>8, DieStep
  <1>9. CASE UNCHANGED vars
    BY <1>9, Stutter
  <1>10. QED
    BY <1>1, <1>2, <1>3, <1>4, <1>5, <1>6, <1>7, <1>8, <1>9 DEF Next

LEMMA Invariance == Spec => []IInv
  BY InitSafe, Inductive, PTL DEF Spec

-----------------------------------------------------------------------------
(* The words of the stack and the copies of push and pop keep their types. *)
THEOREM TypeCorrect == Spec => []TypeOK
  <1>1. IInv => TypeOK
    BY DEF IInv
  <1>2. QED
    BY <1>1, Invariance, PTL

(* The links written by push and followed by pop always form the stack.    *)
THEOREM StackLinked == Spec => []Linked
  <1>1. IInv => Linked
    BY DEF IInv
  <1>2. QED
    BY <1>1, Invariance, PTL

(* No pop hands out a block that somebody holds: nothing is allocated      *)
(* twice.                                                                  *)
THEOREM NoDoubleAllocation == Spec => []Apart
  <1>1. IInv => Apart
    BY DEF IInv
  <1>2. QED
    BY <1>1, Invariance, PTL

(* The CAS of pop succeeds only with the link it would read now.           *)
THEOREM ABACounterSuffices == Spec => []LinkFresh
  <1>1. IInv => LinkFresh
    BY DEF IInv
  <1>2. QED
    BY <1>1, Invariance, PTL

-----------------------------------------------------------------------------
LEMMA InitRefines == Init => Atomic!Init
  BY DEF Init, Atomic!Init

LEMMA PushRefines ==
  ASSUME IInv, NEW p \in Proc, PushCAS(p) PROVE Atomic!Next
  <1>1. item[p] \in mine[p] /\ item[p] \in Block
    BY DEF PushCAS, IInv, Pushing, TypeOK
  <1>2. Atomic!Push(p, item[p])
    BY <1>1 DEF PushCAS, Atomic!Push
  <1>3. QED
    BY <1>1, <1>2 DEF Atomic!Next

LEMMA PopRefines ==
  ASSUME IInv, NEW p \in Proc, PopCAS(p) PROVE Atomic!Next
  <1>1. content # <<>> /\ Head(content) = old[p].head
    BY PopCASStep
  <1>2. Atomic!Pop(p)
    BY <1>1 DEF PopCAS, Atomic!Pop
  <1>3. QED
    BY <1>2 DEF Atomic!Next

LEMMA StepRefines ==
  ASSUME IInv, [Next]_vars PROVE [Atomic!Next]_(Atomic!vars)
  <1>1. ASSUME NEW p \in Proc, PushCAS(p) PROVE Atomic!Next
    BY <1>1, PushRefines
  <1>2. ASSUME NEW p \in Proc, PopCAS(p) PROVE Atomic!Next
    BY <1>2, PopRefines
  <1>3. ASSUME NEW p \in Proc, Detach(p) PROVE Atomic!Next
    BY <1>3 DEF Detach, Atomic!Detach, Atomic!Next
  <1>4. ASSUME NEW p \in Proc, Die(p) PROVE Atomic!Next
    BY <1>4 DEF Die, Atomic!Die, Atomic!Next
  <1>5. ASSUME NEW p \in Proc, NEW b \in Block, PushBegin(p, b) \/ Use(p, b)
        PROVE  UNCHANGED Atomic!vars
    BY <1>5 DEF PushBegin, Use, Atomic!vars
  <1>6. ASSUME NEW p \in Proc,
               \/ PushCount(p) \/ PushLink(p) \/ PushRetry(p)
               \/ PopBegin(p) \/ PopCount(p) \/ PopRead(p) \/ PopRetry(p)
        PROVE  UNCHANGED Atomic!vars
    BY <1>6 DEF PushCount, PushLink, PushRetry, PopBegin, PopCount, PopRead, PopRetry,
                Atomic!vars
  <1>7. CASE UNCHANGED vars
    BY <1>7 DEF vars, Atomic!vars
  <1>8. QED
    BY <1>1, <1>2, <1>3, <1>4, <1>5, <1>6, <1>7 DEF Next

(* Every push, pop and detach of the free lists is one step of an atomic   *)
(* stack, whatever the processes and blocks.                               *)
THEOREM Refinement == Spec => ImplementsAtomicStack
  BY InitRefines, StepRefines, Invariance, PTL DEF Spec, Atomic!Spec, ImplementsAtomicStack
=============================================================================
