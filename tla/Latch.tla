------------------------------- MODULE Latch -------------------------------
(***************************************************************************)
(* What FeCore's WaitGroup promises to its clients, without the counter,   *)
(* the lock bit and the intrusive list of waiting fibers: a count-down     *)
(* latch.  A set of tasks is outstanding; an outstanding task may add a    *)
(* further task, and counts itself down; a waiter that arrives passes only *)
(* when no task is outstanding, and every waiter that arrived passes once  *)
(* that is so.                                                             *)
(***************************************************************************)
CONSTANTS Tasks, Waiters

VARIABLES
  pending,    \* the outstanding tasks
  unborn,     \* tasks that have not been added yet
  waiting,    \* waiters inside Wait()
  returned    \* waiters whose Wait() has returned

vars == <<pending, unborn, waiting, returned>>

Init ==
  /\ pending \in SUBSET Tasks
  /\ unborn = Tasks \ pending
  /\ waiting = {}
  /\ returned = {}

AddTask(t, u) ==
  /\ t \in pending /\ u \in unborn
  /\ pending' = pending \union {u}
  /\ unborn' = unborn \ {u}
  /\ UNCHANGED <<waiting, returned>>

CountDown(t) ==
  /\ t \in pending
  /\ pending' = pending \ {t}
  /\ UNCHANGED <<unborn, waiting, returned>>

CountDownAll ==
  /\ pending # {}
  /\ pending' = {}
  /\ UNCHANGED <<unborn, waiting, returned>>

Arrive(w) ==
  /\ w \in Waiters \ (waiting \union returned)
  /\ waiting' = waiting \union {w}
  /\ UNCHANGED <<pending, unborn, returned>>

Pass(w) ==
  /\ w \in waiting
  /\ pending = {}
  /\ waiting' = waiting \ {w}
  /\ returned' = returned \union {w}
  /\ UNCHANGED <<pending, unborn>>

Next ==
  \/ \E t, u \in Tasks : AddTask(t, u)
  \/ \E t \in Tasks : CountDown(t)
  \/ CountDownAll
  \/ \E w \in Waiters : Arrive(w) \/ Pass(w)

SafeSpec == Init /\ [][Next]_vars

Spec ==
  /\ SafeSpec
  /\ \A w \in Waiters : WF_vars(Pass(w))
=============================================================================
