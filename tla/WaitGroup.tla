----------------------------- MODULE WaitGroup -----------------------------
(***************************************************************************)
(* FeCore/Jobs/WaitGroup: a counter that jobs count down and fibers wait   *)
(* for.  m_lockAndQueue packs a spin lock (bit 0) and the head of a list   *)
(* of FiberWaitEntry, one on the stack of every waiting fiber.             *)
(*                                                                         *)
(* One action is one atomic access of shared memory.  A load followed by a *)
(* compare_exchange of the value loaded is one step when the exchange      *)
(* succeeds and no step when it fails: nothing is kept from a failed try.  *)
(* What is written to the list is written under the lock, so the append is *)
(* one step with the store that releases the lock.  All accesses are       *)
(* sequentially consistent here.                                           *)
(*                                                                         *)
(* Every task owes the group one Signal().  A task that still owes one may *)
(* Add() another: the code base never adds to a group that was signalled.  *)
(* The fiber switch that ends Wait() belongs to module JobSystem; here a   *)
(* waiter that published its entry is "parked" until the entry is handed   *)
(* to AddReadyFiber.                                                       *)
(*                                                                         *)
(* Beside some definitions stands a faulty variant that Next does not use  *)
(* (EverySignal, NeverSignaled): the error the properties must notice.     *)
(***************************************************************************)
EXTENDS Integers, Sequences, FiniteSets

CONSTANTS
  Tasks,      \* the jobs that count the group down
  Waiters     \* the fibers that call Wait()

ASSUME TasksAssumption == IsFiniteSet(Tasks) /\ Tasks \intersect Waiters = {}

VARIABLES
  counter,    \* m_counter
  locked,     \* bit 0 of m_lockAndQueue
  queue,      \* the entries m_lockAndQueue points to, first to last
  drain,      \* the rest of the list SignalImpl is walking
  ready,      \* the entries passed to JobSystem::AddReadyFiber, in order
  pc,         \* where each task and waiter is
  unborn,     \* tasks not added yet
  arrivals    \* history: waiters in the order they published an entry

vars == <<counter, locked, queue, drain, ready, pc, unborn, arrivals>>

TaskPc == {"unborn", "run", "signalImpl", "drain", "done"}
WaiterPc == {"start", "load", "cas", "recheck", "publish", "parked", "returned"}

\* The tasks that have not performed their fetch_sub yet.
Pending == {t \in Tasks : pc[t] = "run"}

\* WaitGroup::Create(counter): one unit for every task scheduled with the group.
CreatedWithOneLess(scheduled) == Cardinality(scheduled) - 1
CreatedWith(scheduled) == Cardinality(scheduled)

Init ==
  /\ unborn \in SUBSET Tasks
  /\ counter = CreatedWith(Tasks \ unborn)
  /\ locked = FALSE
  /\ queue = <<>> /\ drain = <<>> /\ ready = <<>> /\ arrivals = <<>>
  /\ pc = [p \in Tasks \union Waiters |->
             IF p \in Waiters THEN "start"
             ELSE IF p \in unborn THEN "unborn" ELSE "run"]

Goto(p, label) == pc' = [pc EXCEPT ![p] = label]

-----------------------------------------------------------------------------
(* Add, Signal, SignalAll.                                                 *)

\* Add(1), called by a task that has not signalled, for the task u it starts.
AddTask(t, u) ==
  /\ pc[t] = "run" /\ u \in unborn
  /\ counter' = counter + 1
  /\ unborn' = unborn \ {u}
  /\ Goto(u, "run")
  /\ UNCHANGED <<locked, queue, drain, ready, arrivals>>

\* What fetch_sub returned tells the last Signal() from the others.
EverySignal(before) == TRUE
LastSignal(before) == before = 1

\* Signal(): fetch_sub; only the call that takes the counter to zero goes on.
Signal(t) ==
  /\ pc[t] = "run"
  /\ counter' = counter - 1
  /\ Goto(t, IF LastSignal(counter) THEN "signalImpl" ELSE "done")
  /\ UNCHANGED <<locked, queue, drain, ready, unborn, arrivals>>

\* SignalAll(): exchange(0); the other tasks will not signal any more.
SignalAll(t) ==
  /\ pc[t] = "run"
  /\ counter' = 0
  /\ pc' = [p \in DOMAIN pc |-> IF p = t THEN "signalImpl"
                                ELSE IF p \in Pending THEN "done" ELSE pc[p]]
  /\ UNCHANGED <<locked, queue, drain, ready, unborn, arrivals>>

\* lockAndQueue & 1, tested before the compare_exchange that sets it.
LockBitIgnored == TRUE
LockBitClear == ~locked

\* SignalSlowImpl: sets the lock bit, then SignalImpl loads the list.
SignalSlowImpl(t) ==
  /\ pc[t] = "signalImpl" /\ LockBitClear
  /\ locked' = TRUE
  /\ drain' = queue
  /\ Goto(t, "drain")
  /\ UNCHANGED <<counter, queue, ready, unborn, arrivals>>

\* One turn of SignalImpl's loop: m_next is read before AddReadyFiber(entry).
WakeEntry(t) ==
  /\ pc[t] = "drain" /\ drain # <<>>
  /\ ready' = Append(ready, Head(drain))
  /\ drain' = Tail(drain)
  /\ UNCHANGED <<counter, locked, queue, pc, unborn, arrivals>>

\* m_lockAndQueue.store(0): empties the list and releases the lock.
SignalUnlock(t) ==
  /\ pc[t] = "drain" /\ drain = <<>>
  /\ locked' = FALSE
  /\ queue' = <<>>
  /\ Goto(t, "done")
  /\ UNCHANGED <<counter, drain, ready, unborn, arrivals>>

-----------------------------------------------------------------------------
(* Wait.                                                                   *)

WaitCall(w) ==
  /\ pc[w] = "start"
  /\ Goto(w, "load")
  /\ UNCHANGED <<counter, locked, queue, drain, ready, unborn, arrivals>>

\* The load of m_counter at the top of every spin.
WaitLoad(w) ==
  /\ pc[w] = "load"
  /\ Goto(w, IF counter = 0 THEN "returned" ELSE "cas")
  /\ UNCHANGED <<counter, locked, queue, drain, ready, unborn, arrivals>>

\* Takes the lock, or spins and loads the counter again.
WaitCas(w) ==
  /\ pc[w] = "cas"
  /\ locked' = TRUE
  /\ Goto(w, IF locked THEN "load" ELSE "recheck")
  /\ UNCHANGED <<counter, queue, drain, ready, unborn, arrivals>>

NeverSignaled == FALSE
IsSignaled == counter = 0

\* IsSignaled() under the lock: the group may have been signalled since the load.
WaitRecheck(w) ==
  /\ pc[w] = "recheck"
  /\ locked' = ~IsSignaled
  /\ Goto(w, IF IsSignaled THEN "returned" ELSE "publish")
  /\ UNCHANGED <<counter, queue, drain, ready, unborn, arrivals>>

\* queueHead->m_queueTail->m_next = &waitEntry.
Appended(list, w) == Append(list, w)

\* Appends waitEntry and releases the lock.
WaitPublish(w) ==
  /\ pc[w] = "publish"
  /\ queue' = Appended(queue, w)
  /\ arrivals' = Append(arrivals, w)
  /\ locked' = FALSE
  /\ Goto(w, "parked")
  /\ UNCHANGED <<counter, drain, ready, unborn>>

\* The fiber behind a ready entry runs again and Wait() returns.
WaitResume(w) ==
  /\ pc[w] = "parked" /\ \E i \in DOMAIN ready : ready[i] = w
  /\ Goto(w, "returned")
  /\ UNCHANGED <<counter, locked, queue, drain, ready, unborn, arrivals>>

-----------------------------------------------------------------------------
SignalImpl(t) == SignalSlowImpl(t) \/ WakeEntry(t) \/ SignalUnlock(t)

Wait(w) ==
  \/ WaitLoad(w) \/ WaitCas(w) \/ WaitRecheck(w) \/ WaitPublish(w) \/ WaitResume(w)

\* Nothing is left to do: every task signalled or was never added, and every
\* waiter that called Wait() returned.
Finished ==
  /\ \A t \in Tasks : pc[t] \in {"done", "unborn"}
  /\ \A w \in Waiters : pc[w] = "returned"
  /\ UNCHANGED vars

Next ==
  \/ \E t, u \in Tasks : AddTask(t, u)
  \/ \E t \in Tasks : Signal(t) \/ SignalAll(t) \/ SignalImpl(t)
  \/ \E w \in Waiters : WaitCall(w) \/ Wait(w)
  \/ Finished

\* Safety part of the specification, which the proofs use.
SafeSpec == Init /\ [][Next]_vars

\* Every job runs to its Signal(), and a thread inside the group keeps running.
Spec ==
  /\ SafeSpec
  /\ \A t \in Tasks : WF_vars(Signal(t) \/ SignalAll(t)) /\ WF_vars(SignalImpl(t))
  /\ \A w \in Waiters : WF_vars(Wait(w))

-----------------------------------------------------------------------------
TypeOK ==
  /\ counter \in Nat
  /\ locked \in BOOLEAN
  /\ queue \in Seq(Waiters) /\ drain \in Seq(Waiters)
  /\ ready \in Seq(Waiters) /\ arrivals \in Seq(Waiters)
  /\ unborn \subseteq Tasks
  /\ pc \in [Tasks \union Waiters -> TaskPc \union WaiterPc]
  /\ \A t \in Tasks : pc[t] \in TaskPc
  /\ \A w \in Waiters : pc[w] \in WaiterPc

\* Wait() returns only when every task of the group has signalled, whatever
\* path it returned on (fast path, recheck under the lock, woken fiber).
ReturnOnlyWhenSignaled ==
  \A w \in Waiters : pc[w] = "returned" => Pending = {}

Holders == {p \in Tasks \union Waiters : pc[p] \in {"drain", "recheck", "publish"}}

\* Bit 0 of m_lockAndQueue is a lock: it is set exactly while one thread is
\* between its compare_exchange and its releasing store.
LockIsExclusive ==
  /\ locked <=> Holders # {}
  /\ \A p, q \in Holders : p = q

\* No wake-up is lost: when the group is signalled and the list is not empty,
\* the task that took the counter to zero is still going to walk the list.
NoLostWakeup ==
  (counter = 0 /\ queue # <<>>) => \E t \in Tasks : pc[t] \in {"signalImpl", "drain"}

\* Every published entry is woken at most once and in the order of arrival,
\* and none is dropped: what was handed over, what SignalImpl still holds and
\* what is still queued make up the arrivals.
WokenInOrder ==
  IF \E t \in Tasks : pc[t] = "drain" THEN arrivals = ready \o drain
                                      ELSE arrivals = ready \o queue

\* A fiber is woken only after the last task performed its fetch_sub.
WakeOnlyWhenSignaled == ready # <<>> => Pending = {}

\* The inductive invariant behind the five invariants above.
CounterCountsPending == counter = Cardinality(Pending)

UnbornTasks == unborn = {t \in Tasks : pc[t] = "unborn"}

Signalers == {t \in Tasks : pc[t] \in {"signalImpl", "drain"}}

OneSignaler ==
  /\ Signalers # {} => Pending = {}
  /\ \A t, u \in Signalers : t = u

\* A waiter that saw the group unsignalled under the lock is followed by the
\* task that signals it: that task still has to take the lock.
PublishIsFollowed ==
  (\E w \in Waiters : pc[w] = "publish")
    => Pending # {} \/ \E t \in Tasks : pc[t] = "signalImpl"

DrainIsHeld == drain # <<>> => \E t \in Tasks : pc[t] = "drain"

IInv ==
  /\ TypeOK
  /\ CounterCountsPending
  /\ UnbornTasks
  /\ OneSignaler
  /\ PublishIsFollowed
  /\ DrainIsHeld
  /\ ReturnOnlyWhenSignaled
  /\ LockIsExclusive
  /\ NoLostWakeup
  /\ WokenInOrder
  /\ WakeOnlyWhenSignaled

\* The group implements a count-down latch.
Abstract == INSTANCE Latch WITH
  pending <- Pending,
  waiting <- {w \in Waiters : pc[w] \notin {"start", "returned"}},
  returned <- {w \in Waiters : pc[w] = "returned"}
ImplementsLatch == Abstract!Spec
=============================================================================
