-------------------------- MODULE OnceConsumedQueue --------------------------
(***************************************************************************)
(* FeCore/Containers/ConcurrentQueue.h, ConcurrentOnceConsumedQueue: a     *)
(* lock-free stack that many threads push to and one thread empties, with  *)
(* its only consumer, the request cache of AsyncCopyQueue::ThreadProc,     *)
(* which turns every batch into arrival order.  One action is one access   *)
(* of m_top or of a node.  A node is pushed again once it was processed,   *)
(* so a producer may exchange against a top that left and came back.       *)
(*                                                                         *)
(* stack, batch and pending are history variables; PushUnchecked and       *)
(* ProcessNewest are faulty variants that Next does not use.               *)
(***************************************************************************)
EXTENDS Integers, Sequences

CONSTANTS
  Nodes,
  Null

ASSUME NullAssumption == Null \notin Nodes

VARIABLES
  top,      \* m_top
  next,     \* m_next of every node
  seen,     \* currentTop of the producer of every node
  at,       \* what is being done with every node
  cursor,   \* item, while the consumer walks a batch
  cache,    \* m_requestCache
  stack,    \* history: the nodes reachable from m_top, newest first
  batch,    \* history: the nodes the consumer has still to walk
  pending   \* history: pushed and not processed, in the order of the pushes

vars == <<top, next, seen, at, cursor, cache, stack, batch, pending>>

Pointers == Nodes \union {Null}

Init ==
  /\ top = Null /\ cursor = Null
  /\ next = [n \in Nodes |-> Null] /\ seen = [n \in Nodes |-> Null]
  /\ at = [n \in Nodes |-> "free"]
  /\ cache = <<>> /\ stack = <<>> /\ batch = <<>> /\ pending = <<>>

-----------------------------------------------------------------------------
(* Enqueue.                                                                *)

EnqueueLoad(n) ==
  /\ at[n] = "free"
  /\ seen' = [seen EXCEPT ![n] = top]
  /\ at' = [at EXCEPT ![n] = "loaded"]
  /\ UNCHANGED <<top, next, cursor, cache, stack, batch, pending>>

EnqueueLink(n) ==
  /\ at[n] = "loaded"
  /\ next' = [next EXCEPT ![n] = seen[n]]
  /\ at' = [at EXCEPT ![n] = "linked"]
  /\ UNCHANGED <<top, seen, cursor, cache, stack, batch, pending>>

PushUnchecked(n) == at[n] = "linked"
MayPush(n) == at[n] = "linked" /\ top = seen[n]

\* compare_exchange_weak that succeeds: the node is on top.
EnqueuePush(n) ==
  /\ MayPush(n)
  /\ top' = n
  /\ at' = [at EXCEPT ![n] = "queued"]
  /\ stack' = <<n>> \o stack
  /\ pending' = Append(pending, n)
  /\ UNCHANGED <<next, seen, cursor, cache, batch>>

\* compare_exchange_weak that fails loads the top again; it may fail spuriously.
EnqueueRetry(n) ==
  /\ at[n] = "linked"
  /\ seen' = [seen EXCEPT ![n] = top]
  /\ at' = [at EXCEPT ![n] = "loaded"]
  /\ UNCHANGED <<top, next, cursor, cache, stack, batch, pending>>

-----------------------------------------------------------------------------
(* The consumer.                                                           *)

\* DequeueAll, called when the cache is empty.
DequeueAll ==
  /\ cache = <<>> /\ cursor = Null /\ top # Null
  /\ cursor' = top
  /\ top' = Null
  /\ batch' = stack /\ stack' = <<>>
  /\ UNCHANGED <<next, seen, at, cache, pending>>

\* One turn of the loop that fills m_requestCache.
Walk ==
  /\ cursor # Null
  /\ cache' = Append(cache, cursor)
  /\ cursor' = next[cursor]
  /\ batch' = Tail(batch)
  /\ UNCHANGED <<top, next, seen, at, stack, pending>>

Last(s) == s[Len(s)]

\* Faulty: m_requestCache.front().
ProcessNewest ==
  /\ cursor = Null /\ cache # <<>>
  /\ cache' = Tail(cache)
  /\ at' = [at EXCEPT ![cache[1]] = "free"]
  /\ pending' = Tail(pending)
  /\ UNCHANGED <<top, next, seen, cursor, stack, batch>>

\* m_requestCache.back() is taken and processed; the node may be used again.
Process ==
  /\ cursor = Null /\ cache # <<>>
  /\ cache' = SubSeq(cache, 1, Len(cache) - 1)
  /\ at' = [at EXCEPT ![Last(cache)] = "free"]
  /\ pending' = Tail(pending)
  /\ UNCHANGED <<top, next, seen, cursor, stack, batch>>

Next ==
  \/ \E n \in Nodes : EnqueueLoad(n) \/ EnqueueLink(n) \/ EnqueuePush(n) \/ EnqueueRetry(n)
  \/ DequeueAll \/ Walk \/ Process

Spec == Init /\ [][Next]_vars

-----------------------------------------------------------------------------
TypeOK ==
  /\ top \in Pointers /\ cursor \in Pointers
  /\ next \in [Nodes -> Pointers] /\ seen \in [Nodes -> Pointers]
  /\ at \in [Nodes -> {"free", "loaded", "linked", "queued"}]
  /\ cache \in Seq(Nodes) /\ stack \in Seq(Nodes)
  /\ batch \in Seq(Nodes) /\ pending \in Seq(Nodes)

\* The nodes of list, linked by m_next up to null, begin at start.
Chain(start, list) ==
  /\ start = IF list = <<>> THEN Null ELSE list[1]
  /\ \A i \in 1 .. Len(list) :
       next[list[i]] = IF i = Len(list) THEN Null ELSE list[i + 1]

\* The pointers hold what was pushed: nothing is lost or linked twice when
\* pushes race with each other, with the exchange that empties the stack, and
\* with nodes that come back.
Linked == Chain(top, stack) /\ Chain(cursor, batch)

\* A node whose producer is to exchange was linked to the top it saw.
LinkedToSeen == \A n \in Nodes : at[n] = "linked" => next[n] = seen[n]

\* Newest first: everything pushed and not processed.
Undelivered == stack \o cache \o batch

\* Every node is where exactly one client believes it is.
OwnedOnce ==
  /\ \A i, j \in 1 .. Len(Undelivered) : Undelivered[i] = Undelivered[j] => i = j
  /\ \A i \in 1 .. Len(Undelivered) : at[Undelivered[i]] = "queued"

\* Requests are processed in the order they were pushed, each once: what is on
\* the stack, in the cache and still to walk is the reverse of pending.
InArrivalOrder ==
  /\ Len(pending) = Len(Undelivered)
  /\ \A i \in 1 .. Len(pending) : pending[i] = Undelivered[Len(pending) - i + 1]

IInv == TypeOK /\ Linked /\ LinkedToSeen /\ OwnedOnce /\ InArrivalOrder
=============================================================================
