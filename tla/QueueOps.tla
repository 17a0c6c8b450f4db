------------------------------ MODULE QueueOps ------------------------------
(***************************************************************************)
(* FeCore/Containers/ConcurrentQueue as a value: the nodes reachable from  *)
(* m_head, and whether m_tail points to the last of them.  m_tail may be   *)
(* null while m_head is not, because PushFront never writes it.  Module    *)
(* ConcurrentQueue shows that the pointers implement these operators, and  *)
(* module JobSystem uses them for its queues.  Peeked is a faulty variant  *)
(* that no module uses.                                                    *)
(***************************************************************************)
EXTENDS Integers, Sequences

EmptyQueue == [items |-> <<>>, hasTail |-> FALSE]

\* Enqueue: without a tail the node becomes the whole queue.
Enqueued(q, node) ==
  [items |-> IF q.hasTail THEN Append(q.items, node) ELSE <<node>>, hasTail |-> TRUE]

\* The nodes an Enqueue cuts off: all there are, when m_tail is null.
CutOff(q) == IF q.hasTail THEN {} ELSE {q.items[i] : i \in DOMAIN q.items}

\* PushFront writes m_head only.
PushedFront(q, node) == [q EXCEPT !.items = <<node>> \o q.items]

\* TryDequeue: clears m_tail with the last node.
Peeked(q) == q
Dequeued(q) ==
  [items |-> Tail(q.items), hasTail |-> q.hasTail /\ Len(q.items) > 1]
=============================================================================
