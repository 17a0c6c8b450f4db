--------------------------- MODULE ConcurrentQueue ---------------------------
(***************************************************************************)
(* FeCore/Containers/ConcurrentQueue: the intrusive list behind every job  *)
(* and ready-fiber queue.  Each method holds m_lock from its first to its  *)
(* last access, so each is one action.  Producers enqueue nodes; consumers *)
(* dequeue them, and may push a node they just dequeued back to the front  *)
(* (JobSystem::FiberProc does, with the nodes it does not choose).         *)
(*                                                                         *)
(* queue is a history variable: the value that QueueOps says the list has. *)
(***************************************************************************)
EXTENDS QueueOps

CONSTANTS
  Nodes,
  Null

ASSUME NullAssumption == Null \notin Nodes

VARIABLES
  head, tail,   \* m_head, m_tail
  next,         \* m_next of every node
  at,           \* where the clients believe a node is
  queue         \* history: the abstract queue

vars == <<head, tail, next, at, queue>>

Pointers == Nodes \union {Null}

Init ==
  /\ head = Null /\ tail = Null
  /\ next = [n \in Nodes |-> Null]
  /\ at = [n \in Nodes |-> "producer"]
  /\ queue = EmptyQueue

\* Faulty: without node->m_next = nullptr.
EnqueueKeepingNext(n) ==
  /\ at[n] = "producer"
  /\ next' = IF tail # Null THEN [next EXCEPT ![tail] = n] ELSE next
  /\ head' = IF tail # Null THEN head ELSE n
  /\ tail' = n
  /\ at' = [at EXCEPT ![n] = "queue"]
  /\ queue' = Enqueued(queue, n)

Enqueue(n) ==
  /\ at[n] = "producer"
  /\ next' = IF tail # Null THEN [next EXCEPT ![n] = Null, ![tail] = n]
                            ELSE [next EXCEPT ![n] = Null]
  /\ head' = IF tail # Null THEN head ELSE n
  /\ tail' = n
  /\ at' = [at EXCEPT ![n] = "queue"]
  /\ queue' = Enqueued(queue, n)

PushFront(n) ==
  /\ at[n] = "consumer"
  /\ next' = [next EXCEPT ![n] = head]
  /\ head' = n
  /\ at' = [at EXCEPT ![n] = "queue"]
  /\ queue' = PushedFront(queue, n)
  /\ UNCHANGED tail

\* A TryDequeue that finds m_head null changes nothing and is no step.
TryDequeue ==
  /\ head # Null
  /\ head' = next[head]
  /\ tail' = IF next[head] = Null THEN Null ELSE tail
  /\ at' = [at EXCEPT ![head] = "consumer"]
  /\ queue' = Dequeued(queue)
  /\ UNCHANGED next

\* The consumer is done with a node, which may be scheduled again.
Release(n) ==
  /\ at[n] = "consumer"
  /\ at' = [at EXCEPT ![n] = "producer"]
  /\ UNCHANGED <<head, tail, next, queue>>

Next ==
  \/ TryDequeue
  \/ \E n \in Nodes : Enqueue(n) \/ PushFront(n) \/ Release(n)

Spec == Init /\ [][Next]_vars

-----------------------------------------------------------------------------
items == queue.items

Queued == {items[i] : i \in DOMAIN items}

TypeOK ==
  /\ head \in Pointers /\ tail \in Pointers
  /\ next \in [Nodes -> Pointers]
  /\ at \in [Nodes -> {"producer", "queue", "consumer"}]
  /\ queue \in [items : Seq(Nodes), hasTail : BOOLEAN]

\* The pointers are the list QueueOps computes: m_head is its first node, every
\* m_next the following one, the last m_next is null, and m_tail is the last
\* node or null.
Linked ==
  /\ head = IF items = <<>> THEN Null ELSE items[1]
  /\ \A i \in 1 .. Len(items) :
       next[items[i]] = IF i = Len(items) THEN Null ELSE items[i + 1]
  /\ tail = IF queue.hasTail THEN items[Len(items)] ELSE Null
  /\ queue.hasTail => items # <<>>

\* No node is in the list twice, and none that a client owns is in it: a node
\* is not handed to two workers, and m_next is not overwritten under the list.
NoDuplicate ==
  /\ \A i, j \in 1 .. Len(items) : items[i] = items[j] => i = j
  /\ \A i \in 1 .. Len(items) : at[items[i]] = "queue"

\* Only an Enqueue into a queue without a tail takes nodes out of the list that
\* nobody dequeued; every other step keeps them, in order.
LostOnlyWithoutTail ==
  [][\A n \in Queued \ Queued' : at'[n] = "consumer" \/ (~queue.hasTail /\ tail' # Null)]_vars

IInv == TypeOK /\ Linked /\ NoDuplicate
=============================================================================
