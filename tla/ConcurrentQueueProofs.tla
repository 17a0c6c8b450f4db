------------------------ MODULE ConcurrentQueueProofs ------------------------
(***************************************************************************)
(* For any set of nodes: the pointers of ConcurrentQueue are the list that *)
(* QueueOps computes, no node is in it twice, and nodes leave it without   *)
(* being dequeued only through an Enqueue that finds no tail.  Then the    *)
(* same of OnceConsumedQueue: whatever the order of pushes, retries,       *)
(* exchanges and re-used nodes, its pointers hold what was pushed and not  *)
(* processed, and it is processed in arrival order.                        *)
(***************************************************************************)
EXTENDS ConcurrentQueue, SequenceTheorems, TLAPS

\* What appending does to a sequence, element by element.
LEMMA AppendElements ==
  ASSUME NEW S, NEW s \in Seq(S), NEW e \in S
  PROVE  /\ Append(s, e) \in Seq(S)
         /\ Len(Append(s, e)) = Len(s) + 1
         /\ \A i \in 1 .. Len(s) : Append(s, e)[i] = s[i]
         /\ Append(s, e)[Len(s) + 1] = e
BY AppendProperties

\* What prepending does to a sequence, element by element.
LEMMA PrependElements ==
  ASSUME NEW S, NEW s \in Seq(S), NEW e \in S
  PROVE  /\ <<e>> \o s \in Seq(S)
         /\ Len(<<e>> \o s) = Len(s) + 1
         /\ (<<e>> \o s)[1] = e
         /\ \A i \in 1 .. Len(s) : (<<e>> \o s)[i + 1] = s[i]
<1>1. <<e>> \in Seq(S) /\ Len(<<e>>) = 1 /\ <<e>>[1] = e
  OBVIOUS
<1>2. Len(s) \in Nat
  BY LenProperties
<1> QED
  BY <1>1, <1>2, ConcatProperties

\* What removing the head does to a sequence, element by element.
LEMMA TailElements ==
  ASSUME NEW S, NEW s \in Seq(S), s # <<>>
  PROVE  /\ Tail(s) \in Seq(S)
         /\ Len(Tail(s)) = Len(s) - 1
         /\ Len(s) >= 1
         /\ \A i \in 1 .. Len(s) - 1 : Tail(s)[i] = s[i + 1]
<1>1. Len(s) \in Nat \ {0}
  BY EmptySeq
<1> QED
  BY <1>1, HeadTailProperties

\* A length is one or more than one.
LEMMA OneOrMore == \A n \in Nat : n >= 1 => (n = 1 /\ ~(n > 1)) \/ n > 1
  OBVIOUS

-----------------------------------------------------------------------------
\* The empty queue satisfies IInv.
LEMMA InitIInv == Init => IInv
BY NullAssumption DEF Init, IInv, TypeOK, Linked, NoDuplicate, items, EmptyQueue, Pointers

\* Every method preserves IInv.
LEMMA NextIInv == IInv /\ [Next]_vars => IInv'
<1> SUFFICES ASSUME IInv, [Next]_vars PROVE IInv'
  OBVIOUS
<1> USE NullAssumption DEF IInv
<1>0. items \in Seq(Nodes) /\ Len(items) \in Nat /\ (items = <<>> <=> Len(items) = 0)
  BY LenProperties, EmptySeq DEF TypeOK, items
<1>1. ASSUME NEW n \in Nodes, Enqueue(n) PROVE IInv'
  <2>1. \A i \in 1 .. Len(items) : items[i] # n /\ items[i] \in Nodes
    BY <1>0, <1>1, ElementOfSeq DEF Enqueue, NoDuplicate
  <2>2. CASE queue.hasTail
    <3>1. items' = Append(items, n) /\ queue'.hasTail /\ tail = items[Len(items)] /\ Len(items) > 0
      BY <1>0, <1>1, <2>2 DEF Enqueue, Enqueued, items, Linked
    <3>2. /\ items' \in Seq(Nodes)
          /\ Len(items') = Len(items) + 1
          /\ \A i \in 1 .. Len(items) : items'[i] = items[i]
          /\ items'[Len(items')] = n
      BY <1>0, <3>1, AppendElements
    <3>3. tail \in Nodes /\ tail # Null
      BY <2>1, <3>1, <1>0
    <3>4. TypeOK'
      BY <1>1, <2>2, <3>2, <3>3, <1>0 DEF TypeOK, Enqueue, Enqueued, items, Pointers
    <3>5. NoDuplicate'
      <4>1. \A i \in 1 .. Len(items') : i = Len(items) + 1 \/ i \in 1 .. Len(items)
        BY <1>0, <3>2
      <4>2. \A i, j \in 1 .. Len(items') : items'[i] = items'[j] => i = j
        BY <1>0, <2>1, <3>2, <4>1 DEF NoDuplicate
      <4>3. \A i \in 1 .. Len(items') : at'[items'[i]] = "queue"
        BY <1>0, <1>1, <2>1, <3>2, <4>1 DEF NoDuplicate, Enqueue, TypeOK
      <4> QED
        BY <4>2, <4>3 DEF NoDuplicate
    <3>6. \A i \in 1 .. Len(items') :
            next'[items'[i]] = IF i = Len(items') THEN Null ELSE items'[i + 1]
      <4> TAKE i \in 1 .. Len(items')
      <4>1. CASE i = Len(items')
        BY <1>1, <2>1, <3>1, <3>2, <3>3, <4>1, <1>0 DEF Enqueue, TypeOK
      <4>2. CASE i = Len(items)
        BY <1>1, <2>1, <3>1, <3>2, <3>3, <4>2, <1>0 DEF Enqueue, TypeOK
      <4>3. CASE i \in 1 .. Len(items) - 1
        <5>1. items[i] # tail
          BY <3>1, <4>3, <1>0 DEF NoDuplicate
        <5>2. next'[items[i]] = next[items[i]]
          BY <1>1, <2>1, <3>3, <4>3, <5>1, <1>0 DEF Enqueue, TypeOK
        <5> QED
          BY <3>2, <4>3, <5>2, <1>0 DEF Linked
      <4> QED
        BY <3>2, <4>1, <4>2, <4>3, <1>0
    <3>7. head' = items'[1] /\ items' # <<>> /\ tail' = items'[Len(items')]
      BY <1>1, <3>1, <3>2, <3>3, <1>0, EmptySeq DEF Enqueue, Linked
    <3> QED
      BY <3>1, <3>4, <3>5, <3>6, <3>7 DEF Linked
  <2>3. CASE ~queue.hasTail
    <3>1. items' = <<n>> /\ queue'.hasTail /\ tail = Null
      BY <1>1, <2>3 DEF Enqueue, Enqueued, items, Linked
    <3>2. head' = n /\ tail' = n /\ next' = [next EXCEPT ![n] = Null]
      BY <1>1, <3>1 DEF Enqueue
    <3>3. TypeOK'
      BY <1>1, <3>1, <3>2, <2>3 DEF TypeOK, Enqueue, Enqueued, items, Pointers
    <3> QED
      BY <1>1, <3>1, <3>2, <3>3 DEF Linked, NoDuplicate, Enqueue, TypeOK
  <2> QED
    BY <2>2, <2>3 DEF TypeOK
<1>2. ASSUME NEW n \in Nodes, PushFront(n) PROVE IInv'
  <2>1. \A i \in 1 .. Len(items) : items[i] # n /\ items[i] \in Nodes
    BY <1>0, <1>2, ElementOfSeq DEF PushFront, NoDuplicate
  <2>2. items' = <<n>> \o items /\ queue'.hasTail = queue.hasTail
    BY <1>2 DEF PushFront, PushedFront, items, TypeOK
  <2>3. /\ items' \in Seq(Nodes)
        /\ Len(items') = Len(items) + 1
        /\ items'[1] = n
        /\ \A i \in 1 .. Len(items) : items'[i + 1] = items[i]
    BY <1>0, <2>2, PrependElements
  <2>4. TypeOK'
    BY <1>2, <2>2, <2>3 DEF TypeOK, PushFront, PushedFront, items, Pointers
  <2>5. \A i \in 2 .. Len(items') : items'[i] = items[i - 1]
    BY <2>3, <1>0
  <2>6. NoDuplicate'
    <3>1. \A i \in 1 .. Len(items') : i = 1 \/ (i \in 2 .. Len(items') /\ i - 1 \in 1 .. Len(items))
      BY <1>0, <2>3
    <3>2. \A i, j \in 1 .. Len(items') : items'[i] = items'[j] => i = j
      <4> TAKE i, j \in 1 .. Len(items')
      <4> HAVE items'[i] = items'[j]
      <4>1. CASE i = 1
        BY <2>1, <2>3, <2>5, <3>1, <4>1
      <4>2. CASE j = 1
        BY <2>1, <2>3, <2>5, <3>1, <4>2
      <4>3. CASE i # 1 /\ j # 1
        <5>1. items[i - 1] = items[j - 1] /\ i - 1 \in 1 .. Len(items) /\ j - 1 \in 1 .. Len(items)
          BY <2>5, <3>1, <4>3
        <5> QED
          BY <5>1 DEF NoDuplicate
      <4> QED
        BY <4>1, <4>2, <4>3
    <3>3. ASSUME NEW i \in 1 .. Len(items') PROVE at'[items'[i]] = "queue"
      <4>1. CASE i = 1
        BY <1>2, <2>3, <4>1 DEF PushFront, TypeOK
      <4>2. CASE i # 1
        <5>1. i - 1 \in 1 .. Len(items) /\ items'[i] = items[i - 1]
          BY <2>5, <3>1, <4>2
        <5>2. at[items[i - 1]] = "queue" /\ items[i - 1] \in Nodes
          BY <2>1, <5>1 DEF NoDuplicate
        <5> QED
          BY <1>2, <5>1, <5>2 DEF PushFront, TypeOK
      <4> QED
        BY <4>1, <4>2
    <3> QED
      BY <3>2, <3>3 DEF NoDuplicate
  <2>7. \A i \in 1 .. Len(items') :
          next'[items'[i]] = IF i = Len(items') THEN Null ELSE items'[i + 1]
    <3> TAKE i \in 1 .. Len(items')
    <3>1. CASE i = 1
      BY <1>0, <1>2, <2>3, <3>1 DEF PushFront, TypeOK, Linked
    <3>2. CASE i > 1
      <4>1. next'[items'[i]] = next[items[i - 1]]
        BY <1>0, <1>2, <2>1, <2>3, <2>5, <3>2 DEF PushFront, TypeOK
      <4>2. i - 1 \in 1 .. Len(items) /\ (i = Len(items') <=> i - 1 = Len(items))
        BY <1>0, <2>3, <3>2
      <4>3. next[items[i - 1]] = IF i - 1 = Len(items) THEN Null ELSE items[i]
        BY <4>2 DEF Linked
      <4>4. i # Len(items') => items'[i + 1] = items[i]
        BY <1>0, <2>3, <4>2
      <4> QED
        BY <4>1, <4>2, <4>3, <4>4
    <3> QED
      BY <3>1, <3>2, <1>0, <2>3
  <2>8. head' = items'[1] /\ items' # <<>>
    BY <1>2, <2>3, <1>0, EmptySeq DEF PushFront
  <2>9. queue'.hasTail => tail' = items'[Len(items')]
    BY <1>0, <1>2, <2>2, <2>3, <2>5 DEF PushFront, Linked
  <2>10. ~queue'.hasTail => tail' = Null
    BY <1>2, <2>2 DEF PushFront, Linked
  <2> QED
    BY <2>2, <2>4, <2>6, <2>7, <2>8, <2>9, <2>10 DEF Linked
<1>3. ASSUME TryDequeue PROVE IInv'
  <2>1. items # <<>> /\ head = items[1] /\ Len(items) >= 1
    BY <1>0, <1>3 DEF TryDequeue, Linked
  <2>2. items' = Tail(items) /\ queue'.hasTail = (queue.hasTail /\ Len(items) > 1)
    BY <1>3 DEF TryDequeue, Dequeued, items
  <2>3. /\ items' \in Seq(Nodes)
        /\ Len(items') = Len(items) - 1
        /\ \A i \in 1 .. Len(items') : items'[i] = items[i + 1]
    BY <1>0, <2>1, <2>2, TailElements
  <2>4. head \in Nodes /\ next[head] = IF Len(items) = 1 THEN Null ELSE items[2]
    <3>1. 1 \in 1 .. Len(items)
      BY <1>0, <2>1
    <3>2. items[1] \in Nodes
      BY <1>0, <3>1, ElementOfSeq
    <3>3. next[items[1]] = IF 1 = Len(items) THEN Null ELSE items[1 + 1]
      BY <3>1 DEF Linked
    <3> QED
      BY <2>1, <3>2, <3>3
  <2>5. \A i \in 1 .. Len(items) : items[i] \in Nodes
    BY <1>0, ElementOfSeq
  <2>6. TypeOK'
    BY <1>3, <2>2, <2>3, <2>4 DEF TypeOK, TryDequeue, Dequeued, items, Pointers
  <2>7. NoDuplicate'
    <3>1. \A i \in 1 .. Len(items') : i + 1 \in 2 .. Len(items) /\ i + 1 \in 1 .. Len(items)
      BY <1>0, <2>3
    <3>2. \A i, j \in 1 .. Len(items') : items'[i] = items'[j] => i = j
      <4> TAKE i, j \in 1 .. Len(items')
      <4>1. items'[i] = items[i + 1] /\ items'[j] = items[j + 1]
        BY <2>3
      <4>2. items[i + 1] = items[j + 1] => i + 1 = j + 1
        BY <3>1 DEF NoDuplicate
      <4> QED
        BY <4>1, <4>2, <1>0, <2>3
    <3>3. \A i \in 2 .. Len(items) : items[i] # head
      BY <1>0, <2>1 DEF NoDuplicate
    <3>4. \A i \in 1 .. Len(items') : at'[items'[i]] = "queue"
      <4> TAKE i \in 1 .. Len(items')
      <4>1. items'[i] = items[i + 1] /\ items[i + 1] # head /\ items[i + 1] \in Nodes
        BY <2>3, <2>5, <3>1, <3>3
      <4>2. at[items[i + 1]] = "queue"
        BY <3>1 DEF NoDuplicate
      <4> QED
        BY <1>3, <4>1, <4>2 DEF TryDequeue, TypeOK
    <3> QED
      BY <3>2, <3>4 DEF NoDuplicate
  <2>8. \A i \in 1 .. Len(items') :
          next'[items'[i]] = IF i = Len(items') THEN Null ELSE items'[i + 1]
    BY <1>0, <1>3, <2>3 DEF TryDequeue, Linked
  <2>9. head' = IF items' = <<>> THEN Null ELSE items'[1]
    BY <1>0, <1>3, <2>1, <2>3, <2>4, EmptySeq DEF TryDequeue
  <2>10. CASE Len(items) = 1
    <3>1. tail' = Null
      BY <1>3, <2>4, <2>10 DEF TryDequeue
    <3>2. ~queue'.hasTail
      <4>1. ~(Len(items) > 1)
        BY <2>10
      <4> QED
        BY <2>2, <4>1, Zenon
    <3> QED
      BY <3>1, <3>2, <2>6, <2>7, <2>8, <2>9 DEF Linked
  <2>11. CASE Len(items) > 1
    <3>1. next[head] # Null /\ tail' = tail /\ items' # <<>>
      BY <1>0, <1>3, <2>3, <2>4, <2>5, <2>11, EmptySeq DEF TryDequeue
    <3>2. queue'.hasTail = queue.hasTail
      BY <2>2, <2>11 DEF TypeOK
    <3>3. items'[Len(items')] = items[Len(items)]
      BY <1>0, <2>3, <2>11
    <3> QED
      BY <3>1, <3>2, <3>3, <2>6, <2>7, <2>8, <2>9 DEF Linked
  <2> QED
    BY <1>0, <2>1, <2>10, <2>11, OneOrMore
<1>4. ASSUME NEW n \in Nodes, Release(n) PROVE IInv'
  BY <1>0, <1>4, ElementOfSeq DEF Release, TypeOK, Linked, NoDuplicate, items, Pointers
<1>5. ASSUME UNCHANGED vars PROVE IInv'
  BY <1>5 DEF vars, TypeOK, Linked, NoDuplicate, items, Pointers
<1> QED
  BY <1>1, <1>2, <1>3, <1>4, <1>5 DEF Next

\* In every reachable state the pointers are the abstract list.
THEOREM QueueInvariant == Spec => []IInv
<1> QED
  BY InitIInv, NextIInv, PTL DEF Spec

\* The list structure: m_head, every m_next and m_tail.
THEOREM QueueLinked == Spec => []Linked
<1>1. IInv => Linked
  BY DEF IInv
<1> QED
  BY <1>1, QueueInvariant, PTL

\* No node is in the list twice or while a client owns it.
THEOREM QueueNoDuplicate == Spec => []NoDuplicate
<1>1. IInv => NoDuplicate
  BY DEF IInv
<1> QED
  BY <1>1, QueueInvariant, PTL

\* A node disappears only through an Enqueue that finds m_tail null.
THEOREM QueueLoss == Spec => LostOnlyWithoutTail
<1>1. IInv /\ IInv' /\ [Next]_vars
        => [\A n \in Queued \ Queued' :
              at'[n] = "consumer" \/ (~queue.hasTail /\ tail' # Null)]_vars
  <2> SUFFICES ASSUME IInv, IInv', Next, NEW n \in Queued, n \notin Queued'
               PROVE  at'[n] = "consumer" \/ (~queue.hasTail /\ tail' # Null)
    OBVIOUS
  <2> USE NullAssumption DEF IInv
  <2>0. /\ items \in Seq(Nodes) /\ Len(items) \in Nat /\ DOMAIN items = 1 .. Len(items)
        /\ items' \in Seq(Nodes) /\ DOMAIN items' = 1 .. Len(items')
    BY LenProperties DEF TypeOK, items
  <2>1. PICK i \in 1 .. Len(items) : items[i] = n
    BY <2>0 DEF Queued
  <2>2. \A j \in 1 .. Len(items') : items'[j] # n
    BY <2>0 DEF Queued
  <2>3. ASSUME NEW m \in Nodes, Enqueue(m)
        PROVE  ~queue.hasTail /\ tail' # Null
    <3>1. ASSUME queue.hasTail PROVE FALSE
      <4>1. items' = Append(items, m)
        BY <2>3, <3>1 DEF Enqueue, Enqueued, items
      <4>2. Len(items') = Len(items) + 1 /\ items'[i] = items[i]
        BY <2>0, <4>1, AppendElements
      <4> QED
        BY <2>0, <2>1, <2>2, <4>2
    <3> QED
      BY <2>3, <3>1 DEF Enqueue
  <2>4. ASSUME NEW m \in Nodes, PushFront(m) PROVE FALSE
    <3>1. items' = <<m>> \o items
      BY <2>4 DEF PushFront, PushedFront, items, TypeOK
    <3>2. Len(items') = Len(items) + 1 /\ items'[i + 1] = items[i]
      BY <2>0, <3>1, PrependElements
    <3> QED
      BY <2>0, <2>1, <2>2, <3>2
  <2>5. ASSUME TryDequeue PROVE at'[n] = "consumer"
    <3>1. items # <<>> /\ head = items[1]
      BY <2>5 DEF TryDequeue, Linked
    <3>2. items' = Tail(items)
      BY <2>5 DEF TryDequeue, Dequeued, items
    <3>3. CASE i = 1
      BY <2>0, <2>1, <2>5, <3>1, <3>3, ElementOfSeq DEF TryDequeue, TypeOK
    <3>4. CASE i > 1
      <4>1. Len(items') = Len(items) - 1 /\ items'[i - 1] = items[i]
        BY <2>0, <3>1, <3>2, <3>4, TailElements
      <4> QED
        BY <2>0, <2>1, <2>2, <3>4, <4>1
    <3> QED
      BY <3>3, <3>4
  <2>6. ASSUME NEW m \in Nodes, Release(m) PROVE FALSE
    BY <2>0, <2>1, <2>2, <2>6 DEF Release, items
  <2> QED
    BY <2>3, <2>4, <2>5, <2>6 DEF Next
<1> QED
  BY <1>1, QueueInvariant, PTL DEF Spec, LostOnlyWithoutTail

-----------------------------------------------------------------------------
(* The other container of the header, ConcurrentOnceConsumedQueue, with the  *)
(* same nodes.                                                             *)

VARIABLES top, stackNext, seen, stackAt, cursor, cache, stack, batch, pending

Stack == INSTANCE OnceConsumedQueue WITH next <- stackNext, at <- stackAt

\* What removing the last element does to a sequence, element by element.
LEMMA FrontElements ==
  ASSUME NEW S, NEW s \in Seq(S), s # <<>>
  PROVE  /\ SubSeq(s, 1, Len(s) - 1) \in Seq(S)
         /\ Len(SubSeq(s, 1, Len(s) - 1)) = Len(s) - 1
         /\ \A i \in 1 .. Len(s) - 1 : SubSeq(s, 1, Len(s) - 1)[i] = s[i]
<1>1. Len(s) \in Nat \ {0}
  BY EmptySeq
<1> DEFINE n == Len(s) - 1
<1>2. n \in Nat /\ \A i \in 1 .. n : s[i] \in S
  BY <1>1, ElementOfSeq
<1> HIDE DEF n
<1>3. /\ SubSeq(s, 1, n) \in Seq(S)
      /\ Len(SubSeq(s, 1, n)) = IF 1 <= n THEN n - 1 + 1 ELSE 0
      /\ \A i \in 1 .. n - 1 + 1 : SubSeq(s, 1, n)[i] = s[1 + i - 1]
  BY <1>2, SubSeqProperties
<1>4. /\ SubSeq(s, 1, n) \in Seq(S) /\ Len(SubSeq(s, 1, n)) = n
      /\ \A i \in 1 .. n : SubSeq(s, 1, n)[i] = s[i]
  BY <1>2, <1>3
<1> QED
  BY <1>4 DEF n

\* Moving the head of t to the end of s leaves s \o t as it is.
LEMMA MoveHead ==
  ASSUME NEW S, NEW s \in Seq(S), NEW t \in Seq(S), t # <<>>
  PROVE  /\ Append(s, t[1]) \in Seq(S)
         /\ Append(s, t[1]) \o Tail(t) = s \o t
<1>1. Len(s) \in Nat /\ Len(t) \in Nat \ {0} /\ t[1] \in S
  BY LenProperties, EmptySeq, ElementOfSeq
<1>2. /\ Append(s, t[1]) \in Seq(S)
      /\ Len(Append(s, t[1])) = Len(s) + 1
      /\ \A i \in 1 .. Len(s) : Append(s, t[1])[i] = s[i]
      /\ Append(s, t[1])[Len(s) + 1] = t[1]
  BY <1>1, AppendProperties
<1>3. /\ Tail(t) \in Seq(S) /\ Len(Tail(t)) = Len(t) - 1
      /\ \A i \in 1 .. Len(t) - 1 : Tail(t)[i] = t[i + 1]
  BY TailElements
<1> DEFINE left == Append(s, t[1]) \o Tail(t)
           right == s \o t
<1>4. /\ left \in Seq(S) /\ Len(left) = Len(s) + 1 + (Len(t) - 1)
      /\ \A i \in 1 .. Len(s) + 1 + (Len(t) - 1) :
           left[i] = IF i <= Len(s) + 1 THEN Append(s, t[1])[i] ELSE Tail(t)[i - (Len(s) + 1)]
  <2>1. Len(Append(s, t[1])) + Len(Tail(t)) = Len(s) + 1 + (Len(t) - 1)
    BY <1>1, <1>2, <1>3
  <2> QED
    BY <1>2, <1>3, <2>1, ConcatProperties
<1>5. /\ right \in Seq(S) /\ Len(right) = Len(s) + Len(t)
      /\ \A i \in 1 .. Len(s) + Len(t) :
           right[i] = IF i <= Len(s) THEN s[i] ELSE t[i - Len(s)]
  BY ConcatProperties
<1>6. ASSUME NEW i \in 1 .. Len(left) PROVE left[i] = right[i]
  <2>1. CASE i <= Len(s)
    BY <1>1, <1>2, <1>4, <1>5, <2>1
  <2>2. CASE i = Len(s) + 1
    BY <1>1, <1>2, <1>4, <1>5, <2>2
  <2>3. CASE i > Len(s) + 1
    <3>1. left[i] = Tail(t)[i - (Len(s) + 1)] /\ i - (Len(s) + 1) \in 1 .. Len(t) - 1
      BY <1>1, <1>4, <2>3
    <3>2. Tail(t)[i - (Len(s) + 1)] = t[(i - (Len(s) + 1)) + 1]
      BY <1>3, <3>1
    <3>3. (i - (Len(s) + 1)) + 1 = i - Len(s)
      BY <1>1
    <3>4. right[i] = t[i - Len(s)]
      BY <1>1, <1>4, <1>5, <2>3
    <3> QED
      BY <3>1, <3>2, <3>3, <3>4
  <2> QED
    BY <1>1, <1>4, <2>1, <2>2, <2>3
<1>7. Len(left) = Len(right)
  BY <1>1, <1>4, <1>5
<1>8. left = right
  <2> HIDE DEF left, right
  <2> QED
    BY <1>4, <1>5, <1>6, <1>7, SeqEqual
<1> QED
  BY <1>2, <1>8

\* The elements of Undelivered are those of the stack, the cache and the batch.
LEMMA UndeliveredParts ==
  ASSUME Stack!TypeOK
  PROVE  /\ Stack!Undelivered \in Seq(Nodes)
         /\ Len(stack) \in Nat /\ Len(cache) \in Nat /\ Len(batch) \in Nat
         /\ Len(Stack!Undelivered) = Len(stack) + Len(cache) + Len(batch)
         /\ \A i \in 1 .. Len(stack) : Stack!Undelivered[i] = stack[i]
         /\ \A i \in 1 .. Len(cache) : Stack!Undelivered[Len(stack) + i] = cache[i]
         /\ \A i \in 1 .. Len(batch) : Stack!Undelivered[Len(stack) + Len(cache) + i] = batch[i]
<1>1. /\ stack \in Seq(Nodes) /\ cache \in Seq(Nodes) /\ batch \in Seq(Nodes)
      /\ Len(stack) \in Nat /\ Len(cache) \in Nat /\ Len(batch) \in Nat
  BY LenProperties DEF Stack!TypeOK
<1> DEFINE sc == stack \o cache
<1>2. /\ sc \in Seq(Nodes) /\ Len(sc) = Len(stack) + Len(cache)
      /\ \A i \in 1 .. Len(stack) + Len(cache) :
           sc[i] = IF i <= Len(stack) THEN stack[i] ELSE cache[i - Len(stack)]
  BY <1>1, ConcatProperties
<1>3. Stack!Undelivered = sc \o batch
  BY <1>1, ConcatAssociative DEF Stack!Undelivered
<1> HIDE DEF sc
<1>4. /\ Stack!Undelivered \in Seq(Nodes) /\ Len(Stack!Undelivered) = Len(sc) + Len(batch)
      /\ \A i \in 1 .. Len(sc) + Len(batch) :
           Stack!Undelivered[i] = IF i <= Len(sc) THEN sc[i] ELSE batch[i - Len(sc)]
  <2>0. sc \in Seq(Nodes) /\ batch \in Seq(Nodes)
    BY <1>1, <1>2
  <2>1. /\ sc \o batch \in Seq(Nodes) /\ Len(sc \o batch) = Len(sc) + Len(batch)
        /\ \A i \in 1 .. Len(sc) + Len(batch) :
             (sc \o batch)[i] = IF i <= Len(sc) THEN sc[i] ELSE batch[i - Len(sc)]
    BY <2>0, ConcatProperties
  <2> QED
    BY <1>3, <2>1
<1>5. \A i \in 1 .. Len(stack) : Stack!Undelivered[i] = stack[i]
  BY <1>1, <1>2, <1>4
<1>6. \A i \in 1 .. Len(cache) : Stack!Undelivered[Len(stack) + i] = cache[i]
  <2> TAKE i \in 1 .. Len(cache)
  <2>1. (Len(stack) + i) - Len(stack) = i
    BY <1>1
  <2> QED
    BY <1>1, <1>2, <1>4, <2>1
<1>7. \A i \in 1 .. Len(batch) : Stack!Undelivered[Len(stack) + Len(cache) + i] = batch[i]
  <2> TAKE i \in 1 .. Len(batch)
  <2>1. /\ (Len(stack) + Len(cache) + i) - Len(sc) = i
        /\ Len(stack) + Len(cache) + i \in 1 .. Len(sc) + Len(batch)
        /\ ~(Len(stack) + Len(cache) + i <= Len(sc))
    BY <1>1, <1>2
  <2> QED
    BY <1>4, <2>1
<1> QED
  BY <1>1, <1>2, <1>4, <1>5, <1>6, <1>7

\* A node whose producer or consumer is not done with it is in no part.
LEMMA OnlyQueued ==
  ASSUME Stack!TypeOK, Stack!OwnedOnce
  PROVE  /\ \A i \in 1 .. Len(stack) : stackAt[stack[i]] = "queued" /\ stack[i] \in Nodes
         /\ \A i \in 1 .. Len(cache) : stackAt[cache[i]] = "queued" /\ cache[i] \in Nodes
         /\ \A i \in 1 .. Len(batch) : stackAt[batch[i]] = "queued" /\ batch[i] \in Nodes
<1>1. /\ Len(stack) \in Nat /\ Len(cache) \in Nat /\ Len(batch) \in Nat
      /\ Len(Stack!Undelivered) = Len(stack) + Len(cache) + Len(batch)
      /\ \A i \in 1 .. Len(stack) : Stack!Undelivered[i] = stack[i]
      /\ \A i \in 1 .. Len(cache) : Stack!Undelivered[Len(stack) + i] = cache[i]
      /\ \A i \in 1 .. Len(batch) : Stack!Undelivered[Len(stack) + Len(cache) + i] = batch[i]
  BY UndeliveredParts
<1>2. \A i \in 1 .. Len(stack) : i \in 1 .. Len(Stack!Undelivered)
  BY <1>1
<1>3. \A i \in 1 .. Len(cache) : Len(stack) + i \in 1 .. Len(Stack!Undelivered)
  BY <1>1
<1>4. \A i \in 1 .. Len(batch) : Len(stack) + Len(cache) + i \in 1 .. Len(Stack!Undelivered)
  BY <1>1
<1> QED
  BY <1>1, <1>2, <1>3, <1>4, ElementOfSeq DEF Stack!TypeOK, Stack!OwnedOnce

\* The delivery half of IInv: it speaks of at, pending and Undelivered only.
Delivery == Stack!OwnedOnce /\ Stack!InArrivalOrder

\* Delivery survives a step that keeps Undelivered, pending and queued nodes.
LEMMA DeliveryKept ==
  ASSUME Stack!TypeOK, Delivery, Stack!Undelivered' = Stack!Undelivered, pending' = pending,
         \A n \in Nodes : stackAt[n] = "queued" => stackAt'[n] = "queued"
  PROVE  Delivery'
<1>1. \A i \in 1 .. Len(Stack!Undelivered) : Stack!Undelivered[i] \in Nodes
  BY UndeliveredParts, ElementOfSeq
<1> QED
  BY <1>1 DEF Delivery, Stack!OwnedOnce, Stack!InArrivalOrder

-----------------------------------------------------------------------------
\* The initial state satisfies IInv.
LEMMA StackInit == Stack!Init => Stack!IInv
<1> SUFFICES ASSUME Stack!Init PROVE Stack!IInv
  OBVIOUS
<1>1. Stack!TypeOK
  BY DEF Stack!Init, Stack!TypeOK, Stack!Pointers
<1>2. Len(Stack!Undelivered) = 0
  BY <1>1, UndeliveredParts DEF Stack!Init
<1> QED
  BY <1>1, <1>2 DEF Stack!Init, Stack!IInv, Stack!Linked, Stack!Chain, Stack!LinkedToSeen,
                    Stack!OwnedOnce, Stack!InArrivalOrder

\* A push in progress changes no queued node.
LEMMA EnqueueIInv ==
  ASSUME Stack!IInv, NEW n \in Nodes, Stack!EnqueueLoad(n) \/ Stack!EnqueueLink(n) \/ Stack!EnqueueRetry(n)
  PROVE  Stack!IInv'
<1> USE DEF Stack!IInv
<1>1. Stack!TypeOK'
  BY DEF Stack!TypeOK, Stack!EnqueueLoad, Stack!EnqueueLink, Stack!EnqueueRetry, Stack!Pointers
<1>2. /\ top' = top /\ cursor' = cursor /\ stack' = stack /\ batch' = batch /\ cache' = cache
      /\ pending' = pending /\ stackAt[n] # "queued"
      /\ \A m \in Nodes \ {n} : stackNext'[m] = stackNext[m] /\ seen'[m] = seen[m] /\ stackAt'[m] = stackAt[m]
  BY DEF Stack!EnqueueLoad, Stack!EnqueueLink, Stack!EnqueueRetry, Stack!TypeOK
<1>3. Stack!Linked'
  BY <1>2, OnlyQueued DEF Stack!Linked, Stack!Chain
<1>4. Stack!LinkedToSeen'
  <2>1. stackAt'[n] = "linked" => stackNext'[n] = seen'[n]
    BY DEF Stack!EnqueueLoad, Stack!EnqueueLink, Stack!EnqueueRetry, Stack!TypeOK
  <2> QED
    BY <1>2, <2>1 DEF Stack!LinkedToSeen
<1>5. Delivery'
  <2>1. \A m \in Nodes : stackAt[m] = "queued" => stackAt'[m] = "queued"
    BY <1>2
  <2> QED
    BY <1>2, <2>1, DeliveryKept DEF Delivery, Stack!Undelivered
<1> QED
  BY <1>1, <1>3, <1>4, <1>5 DEF Delivery

\* A compare-exchange that succeeds prepends the node to what is undelivered.
LEMMA PushIInv ==
  ASSUME Stack!IInv, NEW n \in Nodes, Stack!EnqueuePush(n)
  PROVE  Stack!IInv'
<1> USE DEF Stack!IInv
<1>0. /\ stack \in Seq(Nodes) /\ Len(stack) \in Nat /\ (stack = <<>> <=> Len(stack) = 0)
      /\ pending \in Seq(Nodes) /\ Len(pending) \in Nat
      /\ Stack!Undelivered \in Seq(Nodes) /\ Len(Stack!Undelivered) \in Nat
  BY UndeliveredParts, LenProperties, EmptySeq DEF Stack!TypeOK
<1>1. /\ stack' = <<n>> \o stack /\ stack' \in Seq(Nodes) /\ Len(stack') = Len(stack) + 1
      /\ stack'[1] = n /\ \A i \in 1 .. Len(stack) : stack'[i + 1] = stack[i]
  BY <1>0, PrependElements DEF Stack!EnqueuePush
<1>2. Stack!TypeOK'
  BY <1>0, <1>1 DEF Stack!TypeOK, Stack!EnqueuePush, Stack!MayPush, Stack!Pointers
<1>3. stackNext[n] = top
  BY DEF Stack!EnqueuePush, Stack!MayPush, Stack!LinkedToSeen
<1>4. Stack!Chain(top, stack)'
  <2>1. top' = stack'[1] /\ stack' # <<>>
    BY <1>1, <1>0 DEF Stack!EnqueuePush
  <2>2. ASSUME NEW i \in 1 .. Len(stack')
        PROVE  stackNext[stack'[i]] = IF i = Len(stack') THEN Null ELSE stack'[i + 1]
    <3>1. CASE i = 1
      BY <1>0, <1>1, <1>3, <3>1 DEF Stack!Linked, Stack!Chain
    <3>2. CASE i > 1
      <4>1. i - 1 \in 1 .. Len(stack) /\ (i - 1) + 1 = i
        BY <1>0, <1>1, <3>2
      <4>2. stack'[i] = stack[i - 1]
        BY <1>1, <4>1
      <4>3. stackNext[stack[i - 1]] = IF i - 1 = Len(stack) THEN Null ELSE stack[i]
        BY <4>1 DEF Stack!Linked, Stack!Chain
      <4>4. i # Len(stack') => i \in 1 .. Len(stack) /\ stack'[i + 1] = stack[i]
        BY <1>0, <1>1, <3>2
      <4> QED
        BY <1>0, <1>1, <4>2, <4>3, <4>4
    <3> QED
      BY <1>0, <1>1, <3>1, <3>2
  <2> QED
    BY <2>1, <2>2 DEF Stack!Chain, Stack!EnqueuePush
<1>5. Stack!Linked'
  BY <1>4 DEF Stack!Linked, Stack!Chain, Stack!EnqueuePush
<1>6. Stack!LinkedToSeen'
  BY DEF Stack!LinkedToSeen, Stack!EnqueuePush, Stack!TypeOK
<1>7. Stack!Undelivered' = <<n>> \o Stack!Undelivered
  <2>1. /\ cache \in Seq(Nodes) /\ batch \in Seq(Nodes) /\ <<n>> \in Seq(Nodes)
        /\ stack \o cache \in Seq(Nodes)
    BY <1>0, ConcatProperties DEF Stack!TypeOK
  <2>2. Stack!Undelivered' = (<<n>> \o stack) \o cache \o batch
    BY DEF Stack!EnqueuePush, Stack!Undelivered
  <2>3. (<<n>> \o stack) \o cache = <<n>> \o (stack \o cache)
    <3>1. stack \in Seq(Nodes)
      BY <1>0
    <3> HIDE DEF Stack!IInv
    <3> QED
      BY <2>1, <3>1, ConcatAssociative
  <2>4. (<<n>> \o (stack \o cache)) \o batch = <<n>> \o ((stack \o cache) \o batch)
    BY <2>1, ConcatAssociative
  <2> QED
    BY <2>2, <2>3, <2>4 DEF Stack!Undelivered
<1>8. /\ Len(Stack!Undelivered') = Len(Stack!Undelivered) + 1 /\ Stack!Undelivered'[1] = n
      /\ \A i \in 1 .. Len(Stack!Undelivered) : Stack!Undelivered'[i + 1] = Stack!Undelivered[i]
  BY <1>0, <1>7, PrependElements
<1>9. \A i \in 1 .. Len(Stack!Undelivered') :
        i = 1 \/ (i - 1 \in 1 .. Len(Stack!Undelivered) /\ Stack!Undelivered'[i] = Stack!Undelivered[i - 1])
  <2> TAKE i \in 1 .. Len(Stack!Undelivered')
  <2>1. i = 1 \/ (i - 1 \in 1 .. Len(Stack!Undelivered) /\ (i - 1) + 1 = i)
    BY <1>0, <1>8
  <2> QED
    BY <1>8, <2>1
<1>10. \A i \in 1 .. Len(Stack!Undelivered) :
         /\ Stack!Undelivered[i] # n /\ Stack!Undelivered[i] \in Nodes
         /\ stackAt[Stack!Undelivered[i]] = "queued"
  BY <1>0, ElementOfSeq DEF Stack!OwnedOnce, Stack!EnqueuePush, Stack!MayPush
<1>11. Stack!OwnedOnce'
  <2>1. \A i, j \in 1 .. Len(Stack!Undelivered') : Stack!Undelivered'[i] = Stack!Undelivered'[j] => i = j
    <3> TAKE i, j \in 1 .. Len(Stack!Undelivered')
    <3>1. CASE i = 1
      BY <1>8, <1>9, <1>10, <3>1
    <3>2. CASE j = 1
      BY <1>8, <1>9, <1>10, <3>2
    <3>3. CASE i # 1 /\ j # 1
      <4>1. /\ i - 1 \in 1 .. Len(Stack!Undelivered) /\ Stack!Undelivered'[i] = Stack!Undelivered[i - 1]
            /\ j - 1 \in 1 .. Len(Stack!Undelivered) /\ Stack!Undelivered'[j] = Stack!Undelivered[j - 1]
        BY <1>9, <3>3
      <4>2. Stack!Undelivered[i - 1] = Stack!Undelivered[j - 1] => i - 1 = j - 1
        BY <4>1 DEF Stack!OwnedOnce
      <4> QED
        BY <1>0, <1>8, <4>1, <4>2
    <3> QED
      BY <3>1, <3>2, <3>3
  <2>2. \A i \in 1 .. Len(Stack!Undelivered') : stackAt'[Stack!Undelivered'[i]] = "queued"
    BY <1>8, <1>9, <1>10 DEF Stack!EnqueuePush, Stack!TypeOK
  <2> QED
    BY <2>1, <2>2 DEF Stack!OwnedOnce
<1>12. Stack!InArrivalOrder'
  <2>1. /\ Len(pending') = Len(pending) + 1 /\ pending'[Len(pending) + 1] = n
        /\ \A i \in 1 .. Len(pending) : pending'[i] = pending[i]
    BY <1>0, AppendProperties DEF Stack!EnqueuePush
  <2>2. Len(pending) = Len(Stack!Undelivered)
    BY DEF Stack!InArrivalOrder
  <2>3. ASSUME NEW i \in 1 .. Len(pending')
        PROVE  pending'[i] = Stack!Undelivered'[Len(pending') - i + 1]
    <3>1. CASE i = Len(pending')
      BY <1>0, <1>8, <2>1, <3>1
    <3>2. CASE i \in 1 .. Len(pending)
      <4>1. /\ Len(pending) - i + 1 \in 1 .. Len(Stack!Undelivered)
            /\ Len(pending') - i + 1 = (Len(pending) - i + 1) + 1
        BY <1>0, <2>1, <2>2, <3>2
      <4> QED
        BY <1>8, <2>1, <3>2, <4>1 DEF Stack!InArrivalOrder
    <3> QED
      BY <1>0, <2>1, <3>1, <3>2
  <2> QED
    BY <1>8, <2>1, <2>2, <2>3 DEF Stack!InArrivalOrder
<1> QED
  BY <1>2, <1>5, <1>6, <1>11, <1>12

\* The exchange moves the whole stack to the batch.
LEMMA DequeueAllIInv ==
  ASSUME Stack!IInv, Stack!DequeueAll
  PROVE  Stack!IInv'
<1> USE DEF Stack!IInv
<1>1. Stack!TypeOK'
  BY DEF Stack!TypeOK, Stack!DequeueAll, Stack!Pointers
<1>2. batch = <<>>
  <2>1. Len(batch) \in Nat /\ (Len(batch) >= 1 => batch[1] \in Nodes)
    BY LenProperties, ElementOfSeq DEF Stack!TypeOK
  <2>2. batch # <<>> => Len(batch) >= 1
    BY EmptySeq DEF Stack!TypeOK
  <2> QED
    BY <2>1, <2>2, NullAssumption DEF Stack!DequeueAll, Stack!Linked, Stack!Chain
<1>3. Stack!Linked'
  <2>1. Stack!Chain(Null, <<>>)'
    BY DEF Stack!Chain
  <2>2. Stack!Chain(top, stack)'
    BY DEF Stack!Chain, Stack!Linked, Stack!DequeueAll
  <2> QED
    BY <2>1, <2>2 DEF Stack!Linked, Stack!Chain, Stack!DequeueAll
<1>4. Stack!LinkedToSeen'
  BY DEF Stack!LinkedToSeen, Stack!DequeueAll
<1>5. Stack!Undelivered' = Stack!Undelivered
  <2>1. stack \in Seq(Nodes) /\ <<>> \in Seq(Nodes)
    BY EmptySeq DEF Stack!TypeOK
  <2>2. Stack!Undelivered = stack \o <<>> \o <<>> /\ Stack!Undelivered' = <<>> \o <<>> \o stack
    BY <1>2 DEF Stack!DequeueAll, Stack!Undelivered
  <2> QED
    BY <2>1, <2>2, ConcatEmptySeq
<1>6. Delivery'
  BY <1>5, DeliveryKept DEF Delivery, Stack!DequeueAll
<1> QED
  BY <1>1, <1>3, <1>4, <1>6 DEF Delivery

\* One turn of the loop moves the first node of the batch to the cache.
LEMMA WalkIInv ==
  ASSUME Stack!IInv, Stack!Walk
  PROVE  Stack!IInv'
<1> USE DEF Stack!IInv
<1>0. /\ batch \in Seq(Nodes) /\ Len(batch) \in Nat
      /\ stack \in Seq(Nodes) /\ cache \in Seq(Nodes)
  BY LenProperties DEF Stack!TypeOK
<1>1. batch # <<>> /\ cursor = batch[1]
  BY DEF Stack!Walk, Stack!Linked, Stack!Chain
<1>2. /\ batch' = Tail(batch) /\ batch' \in Seq(Nodes) /\ Len(batch') = Len(batch) - 1
      /\ Len(batch) >= 1 /\ \A i \in 1 .. Len(batch) - 1 : batch'[i] = batch[i + 1]
  BY <1>0, <1>1, TailElements DEF Stack!Walk
<1>3. /\ cache' = Append(cache, batch[1]) /\ cache' \in Seq(Nodes)
      /\ cache' \o batch' = cache \o batch
  BY <1>0, <1>1, <1>2, MoveHead DEF Stack!Walk
<1>4. Stack!TypeOK'
  <2>1. cursor' \in Stack!Pointers
    BY DEF Stack!Walk, Stack!TypeOK, Stack!Pointers
  <2> QED
    BY <1>2, <1>3, <2>1 DEF Stack!TypeOK, Stack!Walk
<1>5. Stack!Linked'
  <2>1. stackNext[batch[1]] = IF 1 = Len(batch) THEN Null ELSE batch[2]
    <3>1. 1 \in 1 .. Len(batch) /\ 1 + 1 = 2
      BY <1>0, <1>2
    <3>2. stackNext[batch[1]] = IF 1 = Len(batch) THEN Null ELSE batch[1 + 1]
      BY <3>1 DEF Stack!Linked, Stack!Chain
    <3> QED
      BY <3>1, <3>2
  <2>2. cursor' = IF batch' = <<>> THEN Null ELSE batch'[1]
    <3>1. CASE Len(batch) = 1
      BY <1>1, <1>2, <2>1, <3>1, EmptySeq DEF Stack!Walk
    <3>2. CASE Len(batch) > 1
      <4>1. cursor' = batch[2]
        <5>1. cursor' = stackNext[batch[1]]
          BY <1>1 DEF Stack!Walk
        <5> QED
          BY <2>1, <3>2, <5>1
      <4>2. Len(batch') >= 1 /\ 1 \in 1 .. Len(batch) - 1
        BY <1>0, <1>2, <3>2
      <4>3. batch' # <<>> /\ batch'[1] = batch[1 + 1]
        <5>1. batch' = <<>> => Len(batch') = 0
          BY EmptySeq
        <5> QED
          BY <1>2, <4>2, <5>1
      <4> QED
        BY <4>1, <4>3
    <3> QED
      BY <1>0, <1>2, <3>1, <3>2
  <2>3. \A i \in 1 .. Len(batch') :
          stackNext[batch'[i]] = IF i = Len(batch') THEN Null ELSE batch'[i + 1]
    <3> TAKE i \in 1 .. Len(batch')
    <3>1. i \in 1 .. Len(batch) - 1 /\ i + 1 \in 1 .. Len(batch) /\ batch'[i] = batch[i + 1]
      BY <1>0, <1>2
    <3>2. stackNext[batch[i + 1]] = IF i + 1 = Len(batch) THEN Null ELSE batch[(i + 1) + 1]
      BY <3>1 DEF Stack!Linked, Stack!Chain
    <3>3. i + 1 # Len(batch) => i + 1 \in 1 .. Len(batch) - 1
      BY <1>0, <3>1
    <3>4. i + 1 # Len(batch) => batch'[i + 1] = batch[(i + 1) + 1]
      BY <1>2, <3>3
    <3>5. i + 1 = Len(batch) <=> i = Len(batch')
      BY <1>0, <1>2, <3>1
    <3>6. CASE i = Len(batch')
      <4>1. stackNext[batch[i + 1]] = Null
        BY <3>2, <3>5, <3>6
      <4> QED
        BY <3>1, <3>6, <4>1
    <3>7. CASE i # Len(batch')
      <4>1. stackNext[batch[i + 1]] = batch[(i + 1) + 1]
        BY <3>2, <3>5, <3>7
      <4>2. batch'[i + 1] = batch[(i + 1) + 1]
        BY <3>4, <3>5, <3>7
      <4> QED
        BY <3>1, <3>7, <4>1, <4>2
    <3> QED
      BY <3>6, <3>7
  <2> QED
    BY <2>2, <2>3 DEF Stack!Linked, Stack!Chain, Stack!Walk
<1>6. Stack!LinkedToSeen'
  BY DEF Stack!LinkedToSeen, Stack!Walk
<1> HIDE DEF Stack!IInv
<1>7. Stack!Undelivered' = Stack!Undelivered
  <2>1. Stack!Undelivered = stack \o (cache \o batch)
    <3>1. (stack \o cache) \o batch = stack \o (cache \o batch)
      <4>1. stack \in Seq(Nodes) /\ cache \in Seq(Nodes) /\ batch \in Seq(Nodes)
        BY <1>0
      <4> QED
        BY <4>1, ConcatAssociative
    <3> QED
      BY <3>1, Zenon DEF Stack!Undelivered
  <2>2. Stack!Undelivered' = stack \o (cache' \o batch')
    <3>1. Stack!Undelivered' = (stack \o cache') \o batch'
      BY DEF Stack!Undelivered, Stack!Walk
    <3>2. (stack \o cache') \o batch' = stack \o (cache' \o batch')
      <4>1. stack \in Seq(Nodes) /\ cache' \in Seq(Nodes) /\ batch' \in Seq(Nodes)
        BY <1>0, <1>2, <1>3
      <4> QED
        BY <4>1, ConcatAssociative
    <3> QED
      BY <3>1, <3>2
  <2> QED
    BY <1>3, <2>1, <2>2
<1>8. Delivery'
  BY <1>7, DeliveryKept DEF Delivery, Stack!Walk, Stack!IInv
<1> QED
  BY <1>4, <1>5, <1>6, <1>8 DEF Delivery, Stack!IInv

\* Processing takes the last node, which was pushed first.
LEMMA ProcessIInv ==
  ASSUME Stack!IInv, Stack!Process
  PROVE  Stack!IInv'
<1> USE DEF Stack!IInv
<1>0. /\ stack \in Seq(Nodes) /\ cache \in Seq(Nodes) /\ Len(stack) \in Nat
      /\ pending \in Seq(Nodes) /\ Len(pending) \in Nat
      /\ Stack!Undelivered \in Seq(Nodes) /\ Len(Stack!Undelivered) \in Nat
      /\ cache # <<>> /\ Len(cache) \in Nat \ {0}
  BY UndeliveredParts, LenProperties, EmptySeq DEF Stack!TypeOK, Stack!Process
<1>1. batch = <<>>
  <2>1. Len(batch) \in Nat /\ (Len(batch) >= 1 => batch[1] \in Nodes)
    BY LenProperties, ElementOfSeq DEF Stack!TypeOK
  <2>2. batch # <<>> => Len(batch) >= 1
    BY EmptySeq DEF Stack!TypeOK
  <2> QED
    BY <2>1, <2>2, NullAssumption DEF Stack!Process, Stack!Linked, Stack!Chain
<1>2. /\ cache' \in Seq(Nodes) /\ Len(cache') = Len(cache) - 1
      /\ \A i \in 1 .. Len(cache) - 1 : cache'[i] = cache[i]
  BY <1>0, FrontElements DEF Stack!Process
<1>3. Stack!Undelivered = stack \o cache /\ Stack!Undelivered' = stack \o cache'
  <2>1. /\ stack \o cache \in Seq(Nodes) /\ stack \o cache' \in Seq(Nodes)
    BY <1>0, <1>2, ConcatProperties
  <2>2. Stack!Undelivered = (stack \o cache) \o <<>> /\ Stack!Undelivered' = (stack \o cache') \o <<>>
    BY <1>1 DEF Stack!Undelivered, Stack!Process
  <2> QED
    BY <2>1, <2>2, ConcatEmptySeq
<1>4. /\ Len(Stack!Undelivered) = Len(stack) + Len(cache)
      /\ \A i \in 1 .. Len(stack) + Len(cache) :
           Stack!Undelivered[i] = IF i <= Len(stack) THEN stack[i] ELSE cache[i - Len(stack)]
  BY <1>0, <1>3, ConcatProperties
<1>5. /\ Stack!Undelivered' \in Seq(Nodes)
      /\ Len(Stack!Undelivered') = Len(stack) + Len(cache')
      /\ \A i \in 1 .. Len(stack) + Len(cache') :
           Stack!Undelivered'[i] = IF i <= Len(stack) THEN stack[i] ELSE cache'[i - Len(stack)]
  BY <1>0, <1>2, <1>3, ConcatProperties
<1>6. Len(Stack!Undelivered') = Len(Stack!Undelivered) - 1 /\ Len(Stack!Undelivered) >= 1
  BY <1>0, <1>2, <1>4, <1>5
<1>7. \A i \in 1 .. Len(Stack!Undelivered') : Stack!Undelivered'[i] = Stack!Undelivered[i]
  <2> TAKE i \in 1 .. Len(Stack!Undelivered')
  <2>0. i \in 1 .. Len(stack) + Len(cache') /\ i \in 1 .. Len(stack) + Len(cache)
    BY <1>0, <1>2, <1>5
  <2>1. CASE i <= Len(stack)
    BY <1>4, <1>5, <2>0, <2>1
  <2>2. CASE i > Len(stack)
    <3>1. i - Len(stack) \in 1 .. Len(cache) - 1
      BY <1>0, <1>2, <1>5, <2>2
    <3>2. cache'[i - Len(stack)] = cache[i - Len(stack)]
      BY <1>2, <3>1
    <3> QED
      BY <1>0, <1>2, <1>4, <1>5, <2>2, <3>2
  <2> QED
    BY <1>0, <1>5, <2>1, <2>2
<1>8. Stack!Last(cache) = Stack!Undelivered[Len(Stack!Undelivered)] /\ Stack!Last(cache) \in Nodes
  <2>1. Stack!Undelivered[Len(Stack!Undelivered)] = cache[Len(Stack!Undelivered) - Len(stack)]
    BY <1>0, <1>4
  <2>2. Len(Stack!Undelivered) - Len(stack) = Len(cache)
    BY <1>0, <1>4
  <2> QED
    BY <1>0, <2>1, <2>2, ElementOfSeq DEF Stack!Last
<1>9. stackAt[Stack!Last(cache)] = "queued" /\ stackAt' = [stackAt EXCEPT ![Stack!Last(cache)] = "free"]
  BY <1>6, <1>8 DEF Stack!OwnedOnce, Stack!Process
<1>10. Stack!TypeOK'
  <2>1. pending # <<>>
    BY <1>0, <1>6, EmptySeq DEF Stack!InArrivalOrder
  <2> QED
    BY <1>0, <1>2, <1>8, <1>9, <2>1, TailElements DEF Stack!TypeOK, Stack!Process
<1>11. Stack!Linked'
  BY DEF Stack!Linked, Stack!Chain, Stack!Process
<1>12. Stack!LinkedToSeen'
  BY <1>8, <1>9 DEF Stack!LinkedToSeen, Stack!Process, Stack!TypeOK
<1>13. Stack!OwnedOnce'
  <2>1. \A i, j \in 1 .. Len(Stack!Undelivered') : Stack!Undelivered'[i] = Stack!Undelivered'[j] => i = j
    BY <1>0, <1>6, <1>7 DEF Stack!OwnedOnce
  <2>2. ASSUME NEW i \in 1 .. Len(Stack!Undelivered') PROVE stackAt'[Stack!Undelivered'[i]] = "queued"
    <3>1. i \in 1 .. Len(Stack!Undelivered) /\ i # Len(Stack!Undelivered)
      BY <1>0, <1>6
    <3>2. /\ Stack!Undelivered[i] # Stack!Last(cache) /\ Stack!Undelivered[i] \in Nodes
          /\ stackAt[Stack!Undelivered[i]] = "queued"
      BY <1>0, <1>6, <1>8, <3>1, ElementOfSeq DEF Stack!OwnedOnce
    <3> QED
      BY <1>7, <1>9, <3>2 DEF Stack!TypeOK
  <2> QED
    BY <2>1, <2>2 DEF Stack!OwnedOnce
<1>14. Stack!InArrivalOrder'
  <2>1. Len(pending) = Len(Stack!Undelivered) /\ pending # <<>>
    BY <1>0, <1>6, EmptySeq DEF Stack!InArrivalOrder
  <2>2. /\ Len(pending') = Len(pending) - 1
        /\ \A i \in 1 .. Len(pending) - 1 : pending'[i] = pending[i + 1]
    BY <1>0, <2>1, TailElements DEF Stack!Process
  <2>3. ASSUME NEW i \in 1 .. Len(pending')
        PROVE  pending'[i] = Stack!Undelivered'[Len(pending') - i + 1]
    <3>1. /\ i + 1 \in 1 .. Len(pending) /\ Len(pending') - i + 1 = Len(pending) - (i + 1) + 1
          /\ Len(pending') - i + 1 \in 1 .. Len(Stack!Undelivered')
      BY <1>0, <1>6, <2>1, <2>2
    <3>2. pending[i + 1] = Stack!Undelivered[Len(pending) - (i + 1) + 1]
      BY <3>1 DEF Stack!InArrivalOrder
    <3> QED
      BY <1>7, <2>2, <3>1, <3>2
  <2> QED
    BY <1>6, <2>1, <2>2, <2>3 DEF Stack!InArrivalOrder
<1> QED
  BY <1>10, <1>11, <1>12, <1>13, <1>14

\* Every step preserves IInv.
LEMMA StackStep == Stack!IInv /\ [Stack!Next]_(Stack!vars) => Stack!IInv'
<1> SUFFICES ASSUME Stack!IInv, [Stack!Next]_(Stack!vars) PROVE Stack!IInv'
  OBVIOUS
<1>1. ASSUME NEW n \in Nodes, Stack!EnqueueLoad(n) \/ Stack!EnqueueLink(n) \/ Stack!EnqueueRetry(n)
      PROVE  Stack!IInv'
  BY <1>1, EnqueueIInv
<1>2. ASSUME NEW n \in Nodes, Stack!EnqueuePush(n) PROVE Stack!IInv'
  BY <1>2, PushIInv
<1>3. ASSUME Stack!DequeueAll PROVE Stack!IInv'
  BY <1>3, DequeueAllIInv
<1>4. ASSUME Stack!Walk PROVE Stack!IInv'
  BY <1>4, WalkIInv
<1>5. ASSUME Stack!Process PROVE Stack!IInv'
  BY <1>5, ProcessIInv
<1>6. ASSUME UNCHANGED Stack!vars PROVE Stack!IInv'
  <2>1. /\ top' = top /\ stackNext' = stackNext /\ seen' = seen /\ stackAt' = stackAt /\ cursor' = cursor
        /\ cache' = cache /\ stack' = stack /\ batch' = batch /\ pending' = pending
    BY <1>6 DEF Stack!vars
  <2>2. Stack!TypeOK'
    BY <2>1 DEF Stack!IInv, Stack!TypeOK
  <2>3. Stack!Linked' /\ Stack!LinkedToSeen'
    BY <2>1 DEF Stack!IInv, Stack!Linked, Stack!Chain, Stack!LinkedToSeen
  <2>4. Stack!Undelivered' = Stack!Undelivered
    BY <2>1 DEF Stack!Undelivered
  <2>5. Stack!OwnedOnce' /\ Stack!InArrivalOrder'
    BY <2>1, <2>4 DEF Stack!IInv, Stack!OwnedOnce, Stack!InArrivalOrder
  <2> QED
    BY <2>2, <2>3, <2>5 DEF Stack!IInv
<1> QED
  BY <1>1, <1>2, <1>3, <1>4, <1>5, <1>6 DEF Stack!Next

\* In every reachable state the inductive invariant holds.
THEOREM StackInvariant == Stack!Spec => []Stack!IInv
<1> QED
  BY StackInit, StackStep, PTL DEF Stack!Spec

\* The pointers hold exactly what was pushed and not processed.
THEOREM StackLinked == Stack!Spec => []Stack!Linked
<1>1. Stack!IInv => Stack!Linked
  BY DEF Stack!IInv
<1> QED
  BY <1>1, StackInvariant, PTL

\* Requests are processed in the order they were pushed, each once.
THEOREM StackInArrivalOrder == Stack!Spec => []Stack!InArrivalOrder
<1>1. Stack!IInv => Stack!InArrivalOrder
  BY DEF Stack!IInv
<1> QED
  BY <1>1, StackInvariant, PTL
=============================================================================
