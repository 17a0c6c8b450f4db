-------------------------- MODULE WaitGroupProofs --------------------------
(***************************************************************************)
(* For any finite set of tasks and any set of waiters: the safety          *)
(* invariants of WaitGroup, and that it implements the latch.  The second  *)
(* part does the same for SharedSpinLock and RWLock.                       *)
(***************************************************************************)
EXTENDS WaitGroup, FiniteSetTheorems, SequenceTheorems, TLAPS

\* One-line helpers of the actions, expanded in every proof below.
USE DEF LockBitClear, IsSignaled, LastSignal, Appended, CreatedWith

-----------------------------------------------------------------------------
(* Facts about Pending, the tasks the counter stands for.                  *)

\* Pending is finite, and it is empty exactly when its cardinality is zero.
LEMMA PendingFinite ==
  /\ IsFiniteSet(Pending)
  /\ Cardinality(Pending) \in Nat
  /\ Cardinality(Pending) = 0 <=> Pending = {}
<1>1. Pending \in SUBSET Tasks
  BY DEF Pending
<1>2. IsFiniteSet(Pending)
  BY <1>1, TasksAssumption, FS_Subset
<1> QED
  BY <1>2, FS_CardinalityType, FS_EmptySet

\* A step of p that neither leaves nor enters "run" keeps Pending.
LEMMA PendingKept ==
  ASSUME TypeOK, NEW p \in Tasks \union Waiters, NEW label, label # "run",
         pc[p] # "run", Goto(p, label)
  PROVE  Pending' = Pending
BY DEF TypeOK, Goto, Pending

\* A task that leaves "run" leaves Pending, and it is the last one exactly when
\* the counter stood at one.
LEMMA PendingLeft ==
  ASSUME TypeOK, NEW t \in Tasks, NEW label, label # "run",
         pc[t] = "run", Goto(t, label)
  PROVE  /\ Pending' = Pending \ {t}
         /\ Cardinality(Pending') = Cardinality(Pending) - 1
         /\ Cardinality(Pending) > 0
         /\ Cardinality(Pending) = 1 <=> Pending' = {}
<1>1. Pending' = Pending \ {t}
  BY DEF TypeOK, Goto, Pending
<1>2. t \in Pending
  BY DEF Pending
<1>3. Cardinality(Pending') = Cardinality(Pending) - 1 /\ IsFiniteSet(Pending')
  BY <1>1, <1>2, PendingFinite, FS_RemoveElement
<1>4. Cardinality(Pending') = 0 <=> Pending' = {}
  BY <1>3, FS_EmptySet
<1>5. Cardinality(Pending) # 0
  BY <1>2, PendingFinite
<1> QED
  BY <1>1, <1>3, <1>4, <1>5, PendingFinite

\* A task that enters "run" joins Pending.
LEMMA PendingJoined ==
  ASSUME TypeOK, NEW t \in Tasks, pc[t] # "run", Goto(t, "run")
  PROVE  /\ Pending' = Pending \union {t}
         /\ Cardinality(Pending') = Cardinality(Pending) + 1
<1>1. Pending' = Pending \union {t}
  BY DEF TypeOK, Goto, Pending
<1>2. t \notin Pending
  BY DEF Pending
<1> QED
  BY <1>1, <1>2, PendingFinite, FS_AddElement

-----------------------------------------------------------------------------
(* Facts about the list of entries.                                        *)

\* Moving the head of one sequence to the end of another keeps their
\* concatenation.
LEMMA HandOver ==
  ASSUME NEW S, NEW s \in Seq(S), NEW d \in Seq(S), d # <<>>
  PROVE  Append(s, Head(d)) \o Tail(d) = s \o d
<1>1. Head(d) \in S /\ Tail(d) \in Seq(S) /\ <<Head(d)>> \in Seq(S)
  BY HeadTailProperties
<1>2. <<Head(d)>> \o Tail(d) = d
  BY <1>1, SeqEqual, ConcatProperties, HeadTailProperties
<1>3. Append(s, Head(d)) = s \o <<Head(d)>>
  BY <1>1, AppendIsConcat
<1> QED
  BY <1>1, <1>2, <1>3, ConcatAssociative

\* Appending to the second part appends to the concatenation.
LEMMA ConcatAppend ==
  ASSUME NEW S, NEW s \in Seq(S), NEW q \in Seq(S), NEW e \in S
  PROVE  s \o Append(q, e) = Append(s \o q, e)
<1>1. Append(q, e) = q \o <<e>> /\ <<e>> \in Seq(S)
  BY AppendIsConcat
<1>2. s \o q \in Seq(S)
  BY ConcatProperties
<1>3. Append(s \o q, e) = (s \o q) \o <<e>>
  BY <1>2, AppendIsConcat
<1> QED
  BY <1>1, <1>3, ConcatAssociative

-----------------------------------------------------------------------------
(* The inductive invariant.                                                *)

\* IInv holds initially: the counter is created with one unit per task.
LEMMA InitIInv == Init => IInv
<1> SUFFICES ASSUME Init PROVE IInv
  OBVIOUS
<1>1. Pending = Tasks \ unborn
  BY TasksAssumption DEF Init, Pending
<1>2. counter \in Nat /\ CounterCountsPending
  BY <1>1, PendingFinite DEF Init, CounterCountsPending
<1>3. TypeOK
  <2>1. \A t \in Tasks : pc[t] \in {"unborn", "run"}
    BY TasksAssumption DEF Init
  <2>2. \A w \in Waiters : pc[w] = "start"
    BY DEF Init
  <2>3. pc \in [Tasks \union Waiters -> TaskPc \union WaiterPc]
    BY DEF Init, TaskPc, WaiterPc
  <2>4. <<>> \in Seq(Waiters)
    OBVIOUS
  <2>5. \A t \in Tasks : pc[t] \in TaskPc
    BY <2>1 DEF TaskPc
  <2>6. \A w \in Waiters : pc[w] \in WaiterPc
    BY <2>2 DEF WaiterPc
  <2> QED
    BY <1>2, <2>3, <2>4, <2>5, <2>6 DEF Init, TypeOK
<1>4. ReturnOnlyWhenSignaled /\ OneSignaler /\ PublishIsFollowed /\ LockIsExclusive /\ UnbornTasks
  BY TasksAssumption DEF Init, ReturnOnlyWhenSignaled, OneSignaler, Signalers, Holders,
     PublishIsFollowed, LockIsExclusive, UnbornTasks
<1>5. DrainIsHeld /\ NoLostWakeup /\ WokenInOrder /\ WakeOnlyWhenSignaled
  BY TasksAssumption DEF Init, DrainIsHeld, NoLostWakeup, WokenInOrder, WakeOnlyWhenSignaled
<1> QED
  BY <1>2, <1>3, <1>4, <1>5 DEF IInv

\* Every step of the group preserves IInv.
LEMMA NextIInv == IInv /\ [Next]_vars => IInv'
<1> SUFFICES ASSUME IInv, [Next]_vars PROVE IInv'
  OBVIOUS
<1> USE TasksAssumption DEF IInv
<1>1. ASSUME NEW t \in Tasks, NEW u \in Tasks, AddTask(t, u) PROVE IInv'
  <2>0. Pending' = Pending \union {u} /\ Cardinality(Pending') = Cardinality(Pending) + 1
    BY <1>1, PendingJoined DEF AddTask, UnbornTasks
  <2>a. pc[u] = "unborn" /\ t \in Pending /\ Pending # {} /\ Pending' # {}
    BY <1>1, <2>0 DEF AddTask, UnbornTasks, Pending
  <2>1. TypeOK'
    BY <1>1, <2>0, PendingFinite DEF TypeOK, AddTask, Goto, TaskPc, WaiterPc, CounterCountsPending
  <2>2. CounterCountsPending'
    BY <1>1, <2>0 DEF CounterCountsPending, AddTask, TypeOK
  <2>3. UnbornTasks'
    BY <1>1, <2>a DEF AddTask, Goto, UnbornTasks, TypeOK
  <2>4. OneSignaler'
    BY <1>1, <2>a, <2>0, PendingFinite DEF AddTask, Goto, OneSignaler, Signalers, CounterCountsPending, TypeOK
  <2>5. PublishIsFollowed'
    BY <1>1, <2>a, <2>0, PendingFinite DEF AddTask, Goto, PublishIsFollowed, CounterCountsPending, TypeOK
  <2>6. DrainIsHeld'
    BY <1>1, <2>a DEF AddTask, Goto, DrainIsHeld, LockIsExclusive, Holders, TypeOK
  <2>7. ReturnOnlyWhenSignaled'
    BY <1>1, <2>a, <2>0, PendingFinite DEF AddTask, Goto, ReturnOnlyWhenSignaled, WakeOnlyWhenSignaled, CounterCountsPending, TypeOK
  <2>8. LockIsExclusive'
    BY <1>1, <2>a DEF AddTask, Goto, LockIsExclusive, Holders, TypeOK
  <2>9. NoLostWakeup'
    BY <1>1, <2>a, <2>0, PendingFinite DEF AddTask, Goto, NoLostWakeup, PublishIsFollowed, CounterCountsPending, TypeOK
  <2>10. WokenInOrder'
    BY <1>1, <2>a DEF AddTask, Goto, WokenInOrder, LockIsExclusive, Holders, TypeOK
  <2>11. WakeOnlyWhenSignaled'
    BY <1>1, <2>a, <2>0 DEF AddTask, WakeOnlyWhenSignaled, OneSignaler, Signalers
  <2> QED
    BY <2>1, <2>2, <2>3, <2>4, <2>5, <2>6, <2>7, <2>8, <2>9, <2>10, <2>11
<1>2. ASSUME NEW t \in Tasks, Signal(t) PROVE IInv'
  <2>0. /\ Pending' = Pending \ {t}
        /\ Cardinality(Pending') = Cardinality(Pending) - 1
        /\ Cardinality(Pending) > 0
        /\ Cardinality(Pending) = 1 <=> Pending' = {}
    BY <1>2, PendingLeft DEF Signal
  <2>1. TypeOK'
    BY <1>2, <2>0, PendingFinite DEF TypeOK, Signal, Goto, TaskPc, WaiterPc, CounterCountsPending
  <2>2. CounterCountsPending'
    BY <1>2, <2>0 DEF CounterCountsPending, Signal, TypeOK
  <2>3. UnbornTasks'
    BY <1>2 DEF Signal, Goto, UnbornTasks, TypeOK
  <2>4. OneSignaler'
    BY <1>2, <2>0, PendingFinite DEF Signal, Goto, OneSignaler, Signalers, CounterCountsPending, TypeOK
  <2>5. PublishIsFollowed'
    BY <1>2, <2>0, PendingFinite DEF Signal, Goto, PublishIsFollowed, CounterCountsPending, TypeOK
  <2>6. DrainIsHeld'
    BY <1>2 DEF Signal, Goto, DrainIsHeld, LockIsExclusive, Holders, TypeOK
  <2>7. ReturnOnlyWhenSignaled'
    BY <1>2, <2>0, PendingFinite DEF Signal, Goto, ReturnOnlyWhenSignaled, WakeOnlyWhenSignaled, CounterCountsPending, TypeOK
  <2>8. LockIsExclusive'
    BY <1>2 DEF Signal, Goto, LockIsExclusive, Holders, TypeOK
  <2>9. NoLostWakeup'
    BY <1>2, <2>0, PendingFinite DEF Signal, Goto, NoLostWakeup, PublishIsFollowed, CounterCountsPending, TypeOK
  <2>10. WokenInOrder'
    BY <1>2 DEF Signal, Goto, WokenInOrder, LockIsExclusive, Holders, TypeOK
  <2>11. WakeOnlyWhenSignaled'
    BY <1>2, <2>0 DEF Signal, WakeOnlyWhenSignaled, OneSignaler, Signalers
  <2> QED
    BY <2>1, <2>2, <2>3, <2>4, <2>5, <2>6, <2>7, <2>8, <2>9, <2>10, <2>11
<1>3. ASSUME NEW t \in Tasks, SignalAll(t) PROVE IInv'
  <2>0. Pending' = {} /\ Cardinality(Pending') = 0
    BY <1>3, FS_EmptySet DEF SignalAll, Pending, TypeOK
  <2>1. TypeOK'
    BY <1>3, <2>0 DEF TypeOK, SignalAll, Pending, TaskPc, WaiterPc, CounterCountsPending
  <2>2. CounterCountsPending'
    BY <1>3, <2>0 DEF CounterCountsPending, SignalAll, TypeOK
  <2>3. UnbornTasks'
    BY <1>3 DEF SignalAll, Pending, UnbornTasks, TypeOK
  <2>4. OneSignaler'
    <3>1. Signalers = {}
      BY <1>3 DEF SignalAll, OneSignaler, Pending
    <3>2. Signalers' = {t}
      BY <1>3, <3>1 DEF SignalAll, Signalers, Pending, TypeOK
    <3> QED
      BY <2>0, <3>2 DEF OneSignaler
  <2>5. PublishIsFollowed'
    BY <1>3, <2>0 DEF SignalAll, PublishIsFollowed, CounterCountsPending, TypeOK
  <2>6. DrainIsHeld'
    BY <1>3 DEF SignalAll, Pending, DrainIsHeld, LockIsExclusive, Holders, TypeOK
  <2>7. ReturnOnlyWhenSignaled'
    BY <1>3, <2>0 DEF SignalAll, ReturnOnlyWhenSignaled, WakeOnlyWhenSignaled, CounterCountsPending, TypeOK
  <2>8. LockIsExclusive'
    BY <1>3 DEF SignalAll, Pending, LockIsExclusive, Holders, TypeOK
  <2>9. NoLostWakeup'
    BY <1>3, <2>0 DEF SignalAll, NoLostWakeup, PublishIsFollowed, CounterCountsPending, TypeOK
  <2>10. WokenInOrder'
    BY <1>3 DEF SignalAll, Pending, WokenInOrder, LockIsExclusive, Holders, TypeOK
  <2>11. WakeOnlyWhenSignaled'
    BY <1>3, <2>0 DEF SignalAll, WakeOnlyWhenSignaled, OneSignaler, Signalers
  <2> QED
    BY <2>1, <2>2, <2>3, <2>4, <2>5, <2>6, <2>7, <2>8, <2>9, <2>10, <2>11
<1>4. ASSUME NEW t \in Tasks, SignalSlowImpl(t) PROVE IInv'
  <2>0. Pending' = Pending
    BY <1>4, PendingKept DEF SignalSlowImpl
  <2>1. TypeOK'
    BY <1>4, <2>0 DEF TypeOK, SignalSlowImpl, Goto, TaskPc, WaiterPc, CounterCountsPending
  <2>2. CounterCountsPending'
    BY <1>4, <2>0 DEF CounterCountsPending, SignalSlowImpl, TypeOK
  <2>3. UnbornTasks'
    BY <1>4 DEF SignalSlowImpl, Goto, UnbornTasks, TypeOK
  <2>4. OneSignaler'
    BY <1>4, <2>0 DEF SignalSlowImpl, Goto, OneSignaler, Signalers, CounterCountsPending, TypeOK
  <2>5. PublishIsFollowed'
    BY <1>4 DEF SignalSlowImpl, Goto, PublishIsFollowed, LockIsExclusive, Holders, TypeOK
  <2>6. DrainIsHeld'
    BY <1>4 DEF SignalSlowImpl, Goto, DrainIsHeld, LockIsExclusive, Holders, TypeOK
  <2>7. ReturnOnlyWhenSignaled'
    BY <1>4, <2>0 DEF SignalSlowImpl, Goto, ReturnOnlyWhenSignaled, WakeOnlyWhenSignaled, CounterCountsPending, TypeOK
  <2>8. LockIsExclusive'
    BY <1>4 DEF SignalSlowImpl, Goto, LockIsExclusive, Holders, TypeOK
  <2>9. NoLostWakeup'
    BY <1>4, <2>0 DEF SignalSlowImpl, Goto, NoLostWakeup, PublishIsFollowed, CounterCountsPending, TypeOK
  <2>10. WokenInOrder'
    BY <1>4 DEF SignalSlowImpl, Goto, WokenInOrder, LockIsExclusive, Holders, TypeOK
  <2>11. WakeOnlyWhenSignaled'
    BY <1>4, <2>0 DEF SignalSlowImpl, WakeOnlyWhenSignaled, OneSignaler, Signalers
  <2> QED
    BY <2>1, <2>2, <2>3, <2>4, <2>5, <2>6, <2>7, <2>8, <2>9, <2>10, <2>11
<1>5. ASSUME NEW t \in Tasks, WakeEntry(t) PROVE IInv'
  <2>0. Pending' = Pending
    BY <1>5 DEF WakeEntry, Pending
  <2>1. TypeOK'
    BY <1>5, <2>0 DEF TypeOK, WakeEntry, TaskPc, WaiterPc, CounterCountsPending
  <2>2. CounterCountsPending'
    BY <1>5, <2>0 DEF CounterCountsPending, WakeEntry, TypeOK
  <2>3. UnbornTasks'
    BY <1>5 DEF WakeEntry, UnbornTasks, TypeOK
  <2>4. OneSignaler'
    BY <1>5, <2>0 DEF WakeEntry, OneSignaler, Signalers, CounterCountsPending, TypeOK
  <2>5. PublishIsFollowed'
    BY <1>5, <2>0 DEF WakeEntry, PublishIsFollowed, CounterCountsPending, TypeOK
  <2>6. DrainIsHeld'
    BY <1>5 DEF WakeEntry, DrainIsHeld, LockIsExclusive, Holders, TypeOK
  <2>7. ReturnOnlyWhenSignaled'
    BY <1>5, <2>0 DEF WakeEntry, ReturnOnlyWhenSignaled, WakeOnlyWhenSignaled, CounterCountsPending, TypeOK
  <2>8. LockIsExclusive'
    BY <1>5 DEF WakeEntry, LockIsExclusive, Holders, TypeOK
  <2>9. NoLostWakeup'
    BY <1>5, <2>0 DEF WakeEntry, NoLostWakeup, PublishIsFollowed, CounterCountsPending, TypeOK
  <2>10. WokenInOrder'
    <3>1. ready' \o drain' = ready \o drain
      BY <1>5, HandOver DEF WakeEntry, TypeOK
    <3> QED
      BY <1>5, <3>1 DEF WakeEntry, WokenInOrder
  <2>11. WakeOnlyWhenSignaled'
    BY <1>5, <2>0 DEF WakeEntry, WakeOnlyWhenSignaled, OneSignaler, Signalers
  <2> QED
    BY <2>1, <2>2, <2>3, <2>4, <2>5, <2>6, <2>7, <2>8, <2>9, <2>10, <2>11
<1>6. ASSUME NEW t \in Tasks, SignalUnlock(t) PROVE IInv'
  <2>0. Pending' = Pending
    BY <1>6, PendingKept DEF SignalUnlock
  <2>1. TypeOK'
    BY <1>6, <2>0 DEF TypeOK, SignalUnlock, Goto, TaskPc, WaiterPc, CounterCountsPending
  <2>2. CounterCountsPending'
    BY <1>6, <2>0 DEF CounterCountsPending, SignalUnlock, TypeOK
  <2>3. UnbornTasks'
    BY <1>6 DEF SignalUnlock, Goto, UnbornTasks, TypeOK
  <2>4. OneSignaler'
    BY <1>6, <2>0 DEF SignalUnlock, Goto, OneSignaler, Signalers, CounterCountsPending, TypeOK
  <2>5. PublishIsFollowed'
    BY <1>6, <2>0 DEF SignalUnlock, Goto, PublishIsFollowed, CounterCountsPending, TypeOK
  <2>6. DrainIsHeld'
    BY <1>6 DEF SignalUnlock, Goto, DrainIsHeld, LockIsExclusive, Holders, TypeOK
  <2>7. ReturnOnlyWhenSignaled'
    BY <1>6, <2>0 DEF SignalUnlock, Goto, ReturnOnlyWhenSignaled, WakeOnlyWhenSignaled, CounterCountsPending, TypeOK
  <2>8. LockIsExclusive'
    BY <1>6 DEF SignalUnlock, Goto, LockIsExclusive, Holders, TypeOK
  <2>9. NoLostWakeup'
    BY <1>6, <2>0 DEF SignalUnlock, Goto, NoLostWakeup, PublishIsFollowed, CounterCountsPending, TypeOK
  <2>10. WokenInOrder'
    BY <1>6 DEF SignalUnlock, Goto, WokenInOrder, LockIsExclusive, Holders, TypeOK
  <2>11. WakeOnlyWhenSignaled'
    BY <1>6, <2>0 DEF SignalUnlock, WakeOnlyWhenSignaled, OneSignaler, Signalers
  <2> QED
    BY <2>1, <2>2, <2>3, <2>4, <2>5, <2>6, <2>7, <2>8, <2>9, <2>10, <2>11
<1>7. ASSUME NEW w \in Waiters, WaitCall(w) PROVE IInv'
  <2>0. Pending' = Pending
    BY <1>7, PendingKept DEF WaitCall
  <2>1. TypeOK'
    BY <1>7, <2>0 DEF TypeOK, WaitCall, Goto, TaskPc, WaiterPc, CounterCountsPending
  <2>2. CounterCountsPending'
    BY <1>7, <2>0 DEF CounterCountsPending, WaitCall, TypeOK
  <2>3. UnbornTasks'
    BY <1>7 DEF WaitCall, Goto, UnbornTasks, TypeOK
  <2>4. OneSignaler'
    BY <1>7, <2>0 DEF WaitCall, Goto, OneSignaler, Signalers, CounterCountsPending, TypeOK
  <2>5. PublishIsFollowed'
    BY <1>7, <2>0 DEF WaitCall, Goto, PublishIsFollowed, CounterCountsPending, TypeOK
  <2>6. DrainIsHeld'
    BY <1>7 DEF WaitCall, Goto, DrainIsHeld, LockIsExclusive, Holders, TypeOK
  <2>7. ReturnOnlyWhenSignaled'
    BY <1>7, <2>0 DEF WaitCall, Goto, ReturnOnlyWhenSignaled, WakeOnlyWhenSignaled, CounterCountsPending, TypeOK
  <2>8. LockIsExclusive'
    BY <1>7 DEF WaitCall, Goto, LockIsExclusive, Holders, TypeOK
  <2>9. NoLostWakeup'
    BY <1>7, <2>0 DEF WaitCall, Goto, NoLostWakeup, PublishIsFollowed, CounterCountsPending, TypeOK
  <2>10. WokenInOrder'
    BY <1>7 DEF WaitCall, Goto, WokenInOrder, LockIsExclusive, Holders, TypeOK
  <2>11. WakeOnlyWhenSignaled'
    BY <1>7, <2>0 DEF WaitCall, WakeOnlyWhenSignaled, OneSignaler, Signalers
  <2> QED
    BY <2>1, <2>2, <2>3, <2>4, <2>5, <2>6, <2>7, <2>8, <2>9, <2>10, <2>11
<1>8. ASSUME NEW w \in Waiters, WaitLoad(w) PROVE IInv'
  <2>0. Pending' = Pending
    BY <1>8, PendingKept DEF WaitLoad
  <2>1. TypeOK'
    BY <1>8, <2>0, PendingFinite DEF TypeOK, WaitLoad, Goto, TaskPc, WaiterPc, CounterCountsPending
  <2>2. CounterCountsPending'
    BY <1>8, <2>0 DEF CounterCountsPending, WaitLoad, TypeOK
  <2>3. UnbornTasks'
    BY <1>8 DEF WaitLoad, Goto, UnbornTasks, TypeOK
  <2>4. OneSignaler'
    BY <1>8, <2>0, PendingFinite DEF WaitLoad, Goto, OneSignaler, Signalers, CounterCountsPending, TypeOK
  <2>5. PublishIsFollowed'
    BY <1>8, <2>0, PendingFinite DEF WaitLoad, Goto, PublishIsFollowed, CounterCountsPending, TypeOK
  <2>6. DrainIsHeld'
    BY <1>8 DEF WaitLoad, Goto, DrainIsHeld, LockIsExclusive, Holders, TypeOK
  <2>7. ReturnOnlyWhenSignaled'
    BY <1>8, <2>0, PendingFinite DEF WaitLoad, Goto, ReturnOnlyWhenSignaled, WakeOnlyWhenSignaled, CounterCountsPending, TypeOK
  <2>8. LockIsExclusive'
    BY <1>8 DEF WaitLoad, Goto, LockIsExclusive, Holders, TypeOK
  <2>9. NoLostWakeup'
    BY <1>8, <2>0, PendingFinite DEF WaitLoad, Goto, NoLostWakeup, PublishIsFollowed, CounterCountsPending, TypeOK
  <2>10. WokenInOrder'
    BY <1>8 DEF WaitLoad, Goto, WokenInOrder, LockIsExclusive, Holders, TypeOK
  <2>11. WakeOnlyWhenSignaled'
    BY <1>8, <2>0 DEF WaitLoad, WakeOnlyWhenSignaled, OneSignaler, Signalers
  <2> QED
    BY <2>1, <2>2, <2>3, <2>4, <2>5, <2>6, <2>7, <2>8, <2>9, <2>10, <2>11
<1>9. ASSUME NEW w \in Waiters, WaitCas(w) PROVE IInv'
  <2>0. Pending' = Pending
    BY <1>9, PendingKept DEF WaitCas
  <2>1. TypeOK'
    BY <1>9, <2>0 DEF TypeOK, WaitCas, Goto, TaskPc, WaiterPc, CounterCountsPending
  <2>2. CounterCountsPending'
    BY <1>9, <2>0 DEF CounterCountsPending, WaitCas, TypeOK
  <2>3. UnbornTasks'
    BY <1>9 DEF WaitCas, Goto, UnbornTasks, TypeOK
  <2>4. OneSignaler'
    BY <1>9, <2>0 DEF WaitCas, Goto, OneSignaler, Signalers, CounterCountsPending, TypeOK
  <2>5. PublishIsFollowed'
    BY <1>9, <2>0 DEF WaitCas, Goto, PublishIsFollowed, CounterCountsPending, TypeOK
  <2>6. DrainIsHeld'
    BY <1>9 DEF WaitCas, Goto, DrainIsHeld, LockIsExclusive, Holders, TypeOK
  <2>7. ReturnOnlyWhenSignaled'
    BY <1>9, <2>0 DEF WaitCas, Goto, ReturnOnlyWhenSignaled, WakeOnlyWhenSignaled, CounterCountsPending, TypeOK
  <2>8. LockIsExclusive'
    BY <1>9 DEF WaitCas, Goto, LockIsExclusive, Holders, TypeOK
  <2>9. NoLostWakeup'
    BY <1>9, <2>0 DEF WaitCas, Goto, NoLostWakeup, PublishIsFollowed, CounterCountsPending, TypeOK
  <2>10. WokenInOrder'
    BY <1>9 DEF WaitCas, Goto, WokenInOrder, LockIsExclusive, Holders, TypeOK
  <2>11. WakeOnlyWhenSignaled'
    BY <1>9, <2>0 DEF WaitCas, WakeOnlyWhenSignaled, OneSignaler, Signalers
  <2> QED
    BY <2>1, <2>2, <2>3, <2>4, <2>5, <2>6, <2>7, <2>8, <2>9, <2>10, <2>11
<1>10. ASSUME NEW w \in Waiters, WaitRecheck(w) PROVE IInv'
  <2>0. Pending' = Pending
    BY <1>10, PendingKept DEF WaitRecheck
  <2>1. TypeOK'
    BY <1>10, <2>0, PendingFinite DEF TypeOK, WaitRecheck, Goto, TaskPc, WaiterPc, CounterCountsPending
  <2>2. CounterCountsPending'
    BY <1>10, <2>0 DEF CounterCountsPending, WaitRecheck, TypeOK
  <2>3. UnbornTasks'
    BY <1>10 DEF WaitRecheck, Goto, UnbornTasks, TypeOK
  <2>4. OneSignaler'
    BY <1>10, <2>0, PendingFinite DEF WaitRecheck, Goto, OneSignaler, Signalers, CounterCountsPending, TypeOK
  <2>5. PublishIsFollowed'
    BY <1>10, <2>0, PendingFinite DEF WaitRecheck, Goto, PublishIsFollowed, CounterCountsPending, TypeOK
  <2>6. DrainIsHeld'
    BY <1>10 DEF WaitRecheck, Goto, DrainIsHeld, LockIsExclusive, Holders, TypeOK
  <2>7. ReturnOnlyWhenSignaled'
    BY <1>10, <2>0, PendingFinite DEF WaitRecheck, Goto, ReturnOnlyWhenSignaled, WakeOnlyWhenSignaled, CounterCountsPending, TypeOK
  <2>8. LockIsExclusive'
    BY <1>10 DEF WaitRecheck, Goto, LockIsExclusive, Holders, TypeOK
  <2>9. NoLostWakeup'
    BY <1>10, <2>0, PendingFinite DEF WaitRecheck, Goto, NoLostWakeup, PublishIsFollowed, CounterCountsPending, TypeOK
  <2>10. WokenInOrder'
    BY <1>10 DEF WaitRecheck, Goto, WokenInOrder, LockIsExclusive, Holders, TypeOK
  <2>11. WakeOnlyWhenSignaled'
    BY <1>10, <2>0 DEF WaitRecheck, WakeOnlyWhenSignaled, OneSignaler, Signalers
  <2> QED
    BY <2>1, <2>2, <2>3, <2>4, <2>5, <2>6, <2>7, <2>8, <2>9, <2>10, <2>11
<1>11. ASSUME NEW w \in Waiters, WaitPublish(w) PROVE IInv'
  <2>0. Pending' = Pending
    BY <1>11, PendingKept DEF WaitPublish
  <2>1. TypeOK'
    <3>1. queue' \in Seq(Waiters) /\ arrivals' \in Seq(Waiters)
      BY <1>11, AppendProperties DEF WaitPublish, TypeOK
    <3>2. /\ pc' \in [Tasks \union Waiters -> TaskPc \union WaiterPc]
          /\ \A t \in Tasks : pc'[t] = pc[t]
          /\ \A v \in Waiters : pc'[v] \in WaiterPc
      BY <1>11 DEF WaitPublish, Goto, TypeOK, WaiterPc
    <3> QED
      BY <1>11, <3>1, <3>2 DEF WaitPublish, TypeOK
  <2>2. CounterCountsPending'
    BY <1>11, <2>0 DEF CounterCountsPending, WaitPublish, TypeOK
  <2>3. UnbornTasks'
    BY <1>11 DEF WaitPublish, Goto, UnbornTasks, TypeOK
  <2>4. OneSignaler'
    BY <1>11, <2>0 DEF WaitPublish, Goto, OneSignaler, Signalers, CounterCountsPending, TypeOK
  <2>5. PublishIsFollowed'
    BY <1>11, <2>0 DEF WaitPublish, Goto, PublishIsFollowed, CounterCountsPending, TypeOK
  <2>6. DrainIsHeld'
    BY <1>11 DEF WaitPublish, Goto, DrainIsHeld, LockIsExclusive, Holders, TypeOK
  <2>7. ReturnOnlyWhenSignaled'
    BY <1>11, <2>0 DEF WaitPublish, Goto, ReturnOnlyWhenSignaled, WakeOnlyWhenSignaled, CounterCountsPending, TypeOK
  <2>8. LockIsExclusive'
    BY <1>11 DEF WaitPublish, Goto, LockIsExclusive, Holders, TypeOK
  <2>9. NoLostWakeup'
    <3>1. counter = 0 => \E t \in Tasks : pc[t] = "signalImpl"
      BY <1>11, PendingFinite DEF WaitPublish, PublishIsFollowed, CounterCountsPending
    <3>2. \A t \in Tasks : pc'[t] = pc[t]
      BY <1>11 DEF WaitPublish, Goto, TypeOK
    <3> QED
      BY <1>11, <3>1, <3>2 DEF WaitPublish, NoLostWakeup
  <2>10. WokenInOrder'
    <3>1. \A t \in Tasks : pc[t] # "drain" /\ pc'[t] # "drain"
      BY <1>11 DEF WaitPublish, Goto, LockIsExclusive, Holders, TypeOK
    <3>2. arrivals' = ready \o Append(queue, w)
      BY <1>11, <3>1, ConcatAppend DEF WaitPublish, WokenInOrder, TypeOK
    <3> QED
      BY <1>11, <3>1, <3>2 DEF WaitPublish, WokenInOrder
  <2>11. WakeOnlyWhenSignaled'
    BY <1>11, <2>0 DEF WaitPublish, WakeOnlyWhenSignaled, OneSignaler, Signalers
  <2> QED
    BY <2>1, <2>2, <2>3, <2>4, <2>5, <2>6, <2>7, <2>8, <2>9, <2>10, <2>11
<1>12. ASSUME NEW w \in Waiters, WaitResume(w) PROVE IInv'
  <2>0. Pending' = Pending
    BY <1>12, PendingKept DEF WaitResume
  <2>1. TypeOK'
    BY <1>12, <2>0 DEF TypeOK, WaitResume, Goto, TaskPc, WaiterPc, CounterCountsPending
  <2>2. CounterCountsPending'
    BY <1>12, <2>0 DEF CounterCountsPending, WaitResume, TypeOK
  <2>3. UnbornTasks'
    BY <1>12 DEF WaitResume, Goto, UnbornTasks, TypeOK
  <2>4. OneSignaler'
    BY <1>12, <2>0 DEF WaitResume, Goto, OneSignaler, Signalers, CounterCountsPending, TypeOK
  <2>5. PublishIsFollowed'
    BY <1>12, <2>0 DEF WaitResume, Goto, PublishIsFollowed, CounterCountsPending, TypeOK
  <2>6. DrainIsHeld'
    BY <1>12 DEF WaitResume, Goto, DrainIsHeld, LockIsExclusive, Holders, TypeOK
  <2>7. ReturnOnlyWhenSignaled'
    BY <1>12, <2>0 DEF WaitResume, Goto, ReturnOnlyWhenSignaled, WakeOnlyWhenSignaled, CounterCountsPending, TypeOK
  <2>8. LockIsExclusive'
    BY <1>12 DEF WaitResume, Goto, LockIsExclusive, Holders, TypeOK
  <2>9. NoLostWakeup'
    BY <1>12, <2>0 DEF WaitResume, Goto, NoLostWakeup, PublishIsFollowed, CounterCountsPending, TypeOK
  <2>10. WokenInOrder'
    BY <1>12 DEF WaitResume, Goto, WokenInOrder, LockIsExclusive, Holders, TypeOK
  <2>11. WakeOnlyWhenSignaled'
    BY <1>12, <2>0 DEF WaitResume, WakeOnlyWhenSignaled, OneSignaler, Signalers
  <2> QED
    BY <2>1, <2>2, <2>3, <2>4, <2>5, <2>6, <2>7, <2>8, <2>9, <2>10, <2>11
<1>13. ASSUME UNCHANGED vars PROVE IInv'
  BY <1>13 DEF vars, TypeOK, CounterCountsPending, UnbornTasks, OneSignaler, Signalers,
     PublishIsFollowed, DrainIsHeld, ReturnOnlyWhenSignaled, LockIsExclusive, Holders,
     NoLostWakeup, WokenInOrder, WakeOnlyWhenSignaled, Pending
<1> QED
  BY <1>1, <1>2, <1>3, <1>4, <1>5, <1>6, <1>7, <1>8, <1>9, <1>10, <1>11, <1>12, <1>13 DEF Next, Finished, SignalImpl, Wait

\* In every reachable state IInv holds.
THEOREM WaitGroupInvariant == Spec => []IInv
<1>1. Init => IInv
  BY InitIInv
<1>2. IInv /\ [Next]_vars => IInv'
  BY NextIInv
<1> QED
  BY <1>1, <1>2, PTL DEF Spec, SafeSpec

\* Wait() returns only when every task of the group has signalled.
THEOREM ReturnSafety == Spec => []ReturnOnlyWhenSignaled
<1>1. IInv => ReturnOnlyWhenSignaled
  BY DEF IInv
<1> QED
  BY <1>1, WaitGroupInvariant, PTL

\* No fiber stays in the list of a signalled group without a task on its way
\* to wake it.
THEOREM WakeupSafety == Spec => []NoLostWakeup
<1>1. IInv => NoLostWakeup
  BY DEF IInv
<1> QED
  BY <1>1, WaitGroupInvariant, PTL

\* Entries are handed to the job system once each, in the order of arrival.
THEOREM WakeOrder == Spec => []WokenInOrder
<1>1. IInv => WokenInOrder
  BY DEF IInv
<1> QED
  BY <1>1, WaitGroupInvariant, PTL

\* Bit 0 of m_lockAndQueue excludes every two threads inside the group.
THEOREM LockSafety == Spec => []LockIsExclusive
<1>1. IInv => LockIsExclusive
  BY DEF IInv
<1> QED
  BY <1>1, WaitGroupInvariant, PTL

-----------------------------------------------------------------------------
(* WaitGroup implements Latch.                                             *)

\* The tasks and waiters the mapping shows to the latch after a step of a task.
LEMMA TaskStepIsLatchStep ==
  ASSUME IInv, NEW t \in Tasks,
         Signal(t) \/ SignalAll(t) \/ SignalImpl(t)
  PROVE  [Abstract!Next]_(Abstract!vars)
<1> USE TasksAssumption DEF IInv
<1>1. CASE Signal(t)
  <2>1. Pending' = Pending \ {t} /\ t \in Pending
    BY <1>1, PendingLeft DEF Signal, Pending
  <2>2. \A w \in Waiters : pc'[w] = pc[w]
    BY <1>1 DEF Signal, Goto, TypeOK
  <2>3. Abstract!CountDown(t)
    BY <1>1, <2>1, <2>2 DEF Abstract!CountDown, Signal
  <2> QED
    BY <2>3 DEF Abstract!Next
<1>2. CASE SignalAll(t)
  <2>1. Pending' = {} /\ Pending # {}
    BY <1>2 DEF SignalAll, Pending, TypeOK
  <2>2. \A w \in Waiters : pc'[w] = pc[w]
    BY <1>2 DEF SignalAll, Pending, TypeOK
  <2>3. Abstract!CountDownAll
    BY <1>2, <2>1, <2>2 DEF Abstract!CountDownAll, SignalAll
  <2> QED
    BY <2>3 DEF Abstract!Next
<1>3. CASE SignalImpl(t)
  <2>1. Pending' = Pending /\ unborn' = unborn
    BY <1>3 DEF SignalImpl, SignalSlowImpl, WakeEntry, SignalUnlock, Goto, Pending, TypeOK
  <2>2. \A w \in Waiters : pc'[w] = pc[w]
    BY <1>3 DEF SignalImpl, SignalSlowImpl, WakeEntry, SignalUnlock, Goto, TypeOK
  <2> QED
    BY <2>1, <2>2 DEF Abstract!vars
<1> QED
  BY <1>1, <1>2, <1>3

\* A step of a waiter is an arrival, a pass or no step of the latch.
LEMMA WaiterStepIsLatchStep ==
  ASSUME IInv, NEW w \in Waiters, WaitCall(w) \/ Wait(w)
  PROVE  [Abstract!Next]_(Abstract!vars)
<1> USE TasksAssumption DEF IInv
<1>1. Pending' = Pending /\ unborn' = unborn
  BY DEF WaitCall, Wait, WaitLoad, WaitCas, WaitRecheck, WaitPublish, WaitResume, Goto,
     Pending, TypeOK
<1>2. \A v \in Waiters \ {w} : pc'[v] = pc[v]
  BY DEF WaitCall, Wait, WaitLoad, WaitCas, WaitRecheck, WaitPublish, WaitResume, Goto, TypeOK
<1>3. CASE pc[w] = "start"
  <2>1. pc'[w] = "load"
    BY <1>3 DEF WaitCall, Wait, WaitLoad, WaitCas, WaitRecheck, WaitPublish, WaitResume, Goto,
       TypeOK
  <2>2. Abstract!Arrive(w)
    BY <1>1, <1>2, <1>3, <2>1 DEF Abstract!Arrive
  <2> QED
    BY <2>2 DEF Abstract!Next
<1>4. CASE pc[w] # "start" /\ pc'[w] = "returned"
  <2>1. pc[w] # "returned"
    BY <1>4 DEF WaitCall, Wait, WaitLoad, WaitCas, WaitRecheck, WaitPublish, WaitResume
  <2>2. Pending = {}
    <3>1. ReturnOnlyWhenSignaled'
      BY NextIInv DEF Next
    <3> QED
      BY <1>1, <1>4, <3>1 DEF ReturnOnlyWhenSignaled
  <2>3. Abstract!Pass(w)
    BY <1>1, <1>2, <1>4, <2>1, <2>2 DEF Abstract!Pass
  <2> QED
    BY <2>3 DEF Abstract!Next
<1>5. CASE pc[w] # "start" /\ pc'[w] # "returned"
  <2>1. pc[w] # "returned" /\ pc'[w] # "start"
    BY <1>5 DEF WaitCall, Wait, WaitLoad, WaitCas, WaitRecheck, WaitPublish, WaitResume, Goto,
       TypeOK
  <2> QED
    BY <1>1, <1>2, <1>5, <2>1 DEF Abstract!vars
<1> QED
  BY <1>3, <1>4, <1>5

\* The safety part of the latch: Wait() passes only when nothing is outstanding,
\* whatever the interleaving of the lock, the list and the counter.
THEOREM WaitGroupImplementsLatch == Spec => Abstract!SafeSpec
<1>1. Init => Abstract!Init
  BY TasksAssumption DEF Init, Abstract!Init, Pending
<1>2. IInv /\ [Next]_vars => [Abstract!Next]_(Abstract!vars)
  <2> SUFFICES ASSUME IInv, [Next]_vars
               PROVE  [Abstract!Next]_(Abstract!vars)
    OBVIOUS
  <2>1. CASE \E t, u \in Tasks : AddTask(t, u)
    <3> PICK t \in Tasks, u \in Tasks : AddTask(t, u)
      BY <2>1
    <3>1. Pending' = Pending \union {u} /\ t \in Pending
      BY PendingJoined DEF AddTask, UnbornTasks, Pending, IInv
    <3>2. \A w \in Waiters : pc'[w] = pc[w]
      BY TasksAssumption DEF AddTask, Goto, TypeOK, IInv
    <3>3. Abstract!AddTask(t, u)
      BY <3>1, <3>2 DEF Abstract!AddTask, AddTask
    <3> QED
      BY <3>3 DEF Abstract!Next
  <2>2. CASE \E t \in Tasks : Signal(t) \/ SignalAll(t) \/ SignalImpl(t)
    BY <2>2, TaskStepIsLatchStep
  <2>3. CASE \E w \in Waiters : WaitCall(w) \/ Wait(w)
    BY <2>3, WaiterStepIsLatchStep
  <2>4. CASE UNCHANGED vars
    BY <2>4 DEF vars, Abstract!vars, Pending
  <2> QED
    BY <2>1, <2>2, <2>3, <2>4 DEF Next, Finished
<1> QED
  BY <1>1, <1>2, WaitGroupInvariant, PTL DEF Spec, SafeSpec, Abstract!SafeSpec

-----------------------------------------------------------------------------
(* SharedSpinLock, for any finite set of threads smaller than the writer's *)
(* bit: mutual exclusion, and that it implements RWLock.                   *)

CONSTANTS Threads, ExclusiveBit

VARIABLES value, lockPc

Lock == INSTANCE SharedSpinLock WITH pc <- lockPc

\* The readers cannot carry into the writer's bit.
FewThreads == IsFiniteSet(Threads) /\ ExclusiveBit \in Nat /\ Cardinality(Threads) < ExclusiveBit

\* The instance counts with the same operator.
LEMMA SameCardinality == \A S : Lock!Cardinality(S) = Cardinality(S)
BY DEF Lock!Cardinality, Cardinality

\* The word, before and after a step.
LEMMA WordIs ==
  /\ Lock!WordCounts <=>
       value = Cardinality(Lock!Registered) + (IF Lock!Writers = {} THEN 0 ELSE ExclusiveBit)
  /\ Lock!WordCounts' <=>
       value' = Cardinality(Lock!Registered') + (IF Lock!Writers' = {} THEN 0 ELSE ExclusiveBit)
BY SameCardinality DEF Lock!WordCounts

\* Registered is finite, smaller than the writer's bit, and zero only when empty.
LEMMA RegisteredBound ==
  ASSUME FewThreads
  PROVE  /\ ExclusiveBit \in Nat
         /\ IsFiniteSet(Lock!Registered)
         /\ Cardinality(Lock!Registered) \in Nat
         /\ Cardinality(Lock!Registered) < ExclusiveBit
         /\ Cardinality(Lock!Registered) = 0 <=> Lock!Registered = {}
<1>1. Lock!Registered \in SUBSET Threads
  BY DEF Lock!Registered
<1>2. IsFiniteSet(Lock!Registered) /\ Cardinality(Lock!Registered) <= Cardinality(Threads)
  BY <1>1, FS_Subset DEF FewThreads
<1>3. Cardinality(Lock!Registered) \in Nat /\ Cardinality(Threads) \in Nat
  BY <1>2, FS_CardinalityType DEF FewThreads
<1> QED
  BY <1>2, <1>3, FS_EmptySet DEF FewThreads

\* A registration that joins leaves room below the writer's bit.
LEMMA Joins ==
  ASSUME FewThreads, Lock!TypeOK, NEW t \in Threads, t \notin Lock!Registered,
         NEW label \in {"sharedSpin", "shared", "sharedUndo"}, lockPc' = [lockPc EXCEPT ![t] =
            label]
  PROVE  /\ Cardinality(Lock!Registered') = Cardinality(Lock!Registered) + 1
         /\ Cardinality(Lock!Registered') < ExclusiveBit
<1>1. Lock!Registered' = Lock!Registered \union {t}
  BY DEF Lock!TypeOK, Lock!Registered
<1>2. Cardinality(Lock!Registered') = Cardinality(Lock!Registered) + 1 /\
   IsFiniteSet(Lock!Registered')
  BY <1>1, RegisteredBound, FS_AddElement
<1>3. Lock!Registered' \in SUBSET Threads
  BY DEF Lock!Registered
<1>4. Cardinality(Lock!Registered') <= Cardinality(Threads)
  BY <1>3, FS_Subset DEF FewThreads
<1> QED
  BY <1>2, <1>4, RegisteredBound, FS_CardinalityType DEF FewThreads

\* A registered reader that leaves is taken off the count.
LEMMA Leaves ==
  ASSUME FewThreads, Lock!TypeOK, NEW t \in Lock!Registered, lockPc' = [lockPc EXCEPT ![t] =
     "idle"]
  PROVE  /\ Cardinality(Lock!Registered') = Cardinality(Lock!Registered) - 1
         /\ Cardinality(Lock!Registered) > 0
<1>1. Lock!Registered' = Lock!Registered \ {t}
  BY DEF Lock!TypeOK, Lock!Registered
<1> QED
  BY <1>1, RegisteredBound, FS_RemoveElement

\* With WordCounts, the exclusive bit says whether there is a writer.
LEMMA WriterBit ==
  ASSUME FewThreads, Lock!IInv
  PROVE  Lock!HasWriter <=> Lock!Writers # {}
BY RegisteredBound, SameCardinality DEF Lock!IInv, Lock!TypeOK, Lock!HasWriter, Lock!WordCounts

-----------------------------------------------------------------------------
\* The free lock satisfies IInv.
LEMMA LockInit ==
  ASSUME FewThreads
  PROVE  Lock!Init => Lock!IInv
<1> SUFFICES ASSUME Lock!Init PROVE Lock!IInv
  OBVIOUS
<1>1. Lock!Registered = {} /\ Lock!Writers = {}
  BY DEF Lock!Init, Lock!Registered, Lock!Writers
<1>2. Cardinality(Lock!Registered) = 0
  BY <1>1, FS_EmptySet
<1>3. ExclusiveBit \in Nat \ {0}
  BY FS_CardinalityType DEF FewThreads
<1> QED
  BY <1>1, <1>2, <1>3, SameCardinality DEF Lock!Init, Lock!IInv, Lock!TypeOK, Lock!Pc,
     Lock!WordCounts, Lock!MutualExclusion

\* Every operation on the word preserves IInv.
LEMMA LockNext ==
  ASSUME FewThreads
  PROVE  Lock!IInv /\ [Lock!Next]_(Lock!vars) => Lock!IInv'
<1> SUFFICES ASSUME Lock!IInv, [Lock!Next]_(Lock!vars) PROVE Lock!IInv'
  OBVIOUS
<1> USE DEF Lock!IInv
<1>1. ASSUME NEW t \in Threads, Lock!LockShared(t) \/ Lock!TryLockShared(t) PROVE Lock!IInv'
  <2>1. /\ Cardinality(Lock!Registered') = Cardinality(Lock!Registered) + 1
        /\ Cardinality(Lock!Registered') < ExclusiveBit
    BY <1>1, Joins DEF Lock!LockShared, Lock!TryLockShared, Lock!Step, Lock!Registered
  <2>2. Lock!Writers' = Lock!Writers
    BY <1>1 DEF Lock!LockShared, Lock!TryLockShared, Lock!Step, Lock!Writers, Lock!TypeOK
  <2>3. Lock!WordCounts'
    BY <1>1, <2>1, <2>2, RegisteredBound, WordIs DEF Lock!LockShared, Lock!TryLockShared
  <2>4. Lock!TypeOK'
    <3>1. value' \in 0 .. (2 * ExclusiveBit - 1)
      BY <2>1, <2>3, FS_CardinalityType, RegisteredBound, SameCardinality DEF Lock!WordCounts
    <3>2. lockPc' \in [Threads -> Lock!Pc]
      BY <1>1 DEF Lock!TypeOK, Lock!Pc, Lock!LockShared, Lock!TryLockShared, Lock!Step
    <3> QED
      BY <3>1, <3>2 DEF Lock!TypeOK
  <2>5. Lock!Readers' # Lock!Readers => Lock!Writers = {}
    BY <1>1, WriterBit DEF Lock!LockShared, Lock!TryLockShared, Lock!Step, Lock!Readers,
       Lock!TypeOK
  <2> QED
    BY <2>2, <2>3, <2>4, <2>5 DEF Lock!MutualExclusion
<1>2. ASSUME NEW t \in Threads, Lock!TryLockSharedUndo(t) \/ Lock!UnlockShared(t)
      PROVE  Lock!IInv'
  <2>1. /\ Cardinality(Lock!Registered') = Cardinality(Lock!Registered) - 1
        /\ Cardinality(Lock!Registered) > 0
    BY <1>2, Leaves DEF Lock!TryLockSharedUndo, Lock!UnlockShared, Lock!Step, Lock!Registered
  <2>2. Lock!Writers' = Lock!Writers /\ Lock!Readers' \subseteq Lock!Readers
    BY <1>2 DEF Lock!TryLockSharedUndo, Lock!UnlockShared, Lock!Step, Lock!Writers,
       Lock!Readers, Lock!TypeOK
  <2>3. Lock!WordCounts'
    BY <1>2, <2>1, <2>2, RegisteredBound, SameCardinality DEF Lock!WordCounts,
       Lock!TryLockSharedUndo, Lock!UnlockShared
  <2>4. Lock!TypeOK'
    BY <1>2, <2>1, RegisteredBound, SameCardinality DEF Lock!TypeOK, Lock!Pc, Lock!WordCounts,
       Lock!TryLockSharedUndo, Lock!UnlockShared, Lock!Step
  <2> QED
    BY <2>2, <2>3, <2>4 DEF Lock!MutualExclusion
<1>3. ASSUME NEW t \in Threads, Lock!LockSharedSpin(t) PROVE Lock!IInv'
  <2>1. Lock!Writers = {}
    BY <1>3, WriterBit DEF Lock!LockSharedSpin
  <2>2. Lock!Registered' = Lock!Registered /\ Lock!Writers' = {}
    BY <1>3, <2>1 DEF Lock!LockSharedSpin, Lock!Step, Lock!Registered, Lock!Writers, Lock!TypeOK
  <2> QED
    BY <1>3, <2>1, <2>2, SameCardinality DEF Lock!LockSharedSpin, Lock!Step, Lock!TypeOK,
       Lock!Pc, Lock!WordCounts, Lock!MutualExclusion
<1>4. ASSUME NEW t \in Threads, Lock!LockCall(t) PROVE Lock!IInv'
  <2>1. Lock!Registered' = Lock!Registered /\ Lock!Writers' = Lock!Writers /\ Lock!Readers' =
     Lock!Readers
    BY <1>4 DEF Lock!LockCall, Lock!Step, Lock!Registered, Lock!Writers, Lock!Readers,
       Lock!TypeOK
  <2> QED
    BY <1>4, <2>1, SameCardinality DEF Lock!LockCall, Lock!Step, Lock!TypeOK, Lock!Pc,
       Lock!WordCounts, Lock!MutualExclusion
<1>5. ASSUME NEW t \in Threads, Lock!LockExchange(t) \/ Lock!TryLock(t) PROVE Lock!IInv'
  <2>1. Lock!Registered = {} /\ Lock!Writers = {}
    BY <1>5, RegisteredBound, SameCardinality DEF Lock!LockExchange, Lock!TryLock,
       Lock!WordCounts
  <2>2. Lock!Registered' = Lock!Registered /\ Lock!Writers' = {t}
    BY <1>5, <2>1 DEF Lock!LockExchange, Lock!TryLock, Lock!Step, Lock!Registered,
       Lock!Writers, Lock!TypeOK
  <2>3. Lock!Readers' = {}
    BY <2>1, <2>2 DEF Lock!Registered, Lock!Readers
  <2>4. Cardinality(Lock!Registered') = 0
    BY <2>1, <2>2, FS_EmptySet
  <2>5. Lock!WordCounts'
    BY <1>5, <2>2, <2>4, RegisteredBound, WordIs DEF Lock!LockExchange, Lock!TryLock
  <2>6. Lock!TypeOK'
    BY <1>5, RegisteredBound DEF Lock!LockExchange, Lock!TryLock, Lock!Step, Lock!TypeOK,
       Lock!Pc
  <2> QED
    BY <2>2, <2>3, <2>5, <2>6 DEF Lock!MutualExclusion
<1>6. ASSUME NEW t \in Threads, Lock!Unlock(t) PROVE Lock!IInv'
  <2>1. Lock!Writers = {t}
    BY <1>6 DEF Lock!Unlock, Lock!Step, Lock!Writers, Lock!MutualExclusion
  <2>2. Lock!Registered' = Lock!Registered /\ Lock!Writers' = {}
    BY <1>6, <2>1 DEF Lock!Unlock, Lock!Step, Lock!Registered, Lock!Writers, Lock!TypeOK
  <2>3. Lock!WordCounts'
    BY <1>6, <2>1, <2>2, RegisteredBound, SameCardinality DEF Lock!Unlock, Lock!WordCounts
  <2>4. Lock!TypeOK'
    <3>1. value' = Cardinality(Lock!Registered)
      BY <1>6, <2>1, RegisteredBound, WordIs DEF Lock!Unlock
    <3>2. value' \in 0 .. (2 * ExclusiveBit - 1)
      BY <3>1, RegisteredBound
    <3> QED
      BY <1>6, <3>2 DEF Lock!Unlock, Lock!Step, Lock!TypeOK, Lock!Pc
  <2> QED
    BY <2>2, <2>3, <2>4 DEF Lock!MutualExclusion
<1>7. ASSUME UNCHANGED Lock!vars PROVE Lock!IInv'
  BY <1>7, SameCardinality DEF Lock!vars, Lock!TypeOK, Lock!WordCounts, Lock!MutualExclusion,
     Lock!Registered, Lock!Writers, Lock!Readers
<1> QED
  BY <1>1, <1>2, <1>3, <1>4, <1>5, <1>6, <1>7 DEF Lock!Next

\* In every reachable state IInv holds.
THEOREM LockInvariant ==
  ASSUME FewThreads
  PROVE  Lock!Spec => []Lock!IInv
<1> QED
  BY LockInit, LockNext, PTL DEF Lock!Spec, Lock!SafeSpec

\* A writer is alone inside the lock.
THEOREM LockMutualExclusion ==
  ASSUME FewThreads
  PROVE  Lock!Spec => []Lock!MutualExclusion
<1>1. Lock!IInv => Lock!MutualExclusion
  BY DEF Lock!IInv
<1> QED
  BY <1>1, LockInvariant, PTL

\* The word never wraps and never carries from the readers into the writer's bit.
THEOREM LockWord ==
  ASSUME FewThreads
  PROVE  Lock!Spec => [](Lock!TypeOK /\ Lock!WordCounts)
<1>1. Lock!IInv => Lock!TypeOK /\ Lock!WordCounts
  BY DEF Lock!IInv
<1> QED
  BY <1>1, LockInvariant, PTL

-----------------------------------------------------------------------------
\* Every step of the lock is a step of the reader-priority lock or none.
THEOREM LockImplementsRWLock ==
  ASSUME FewThreads
  PROVE  Lock!Spec => Lock!Abstract!SafeSpec
<1>1. Lock!Init => Lock!Abstract!Init
  BY DEF Lock!Init, Lock!Abstract!Init, Lock!Readers, Lock!Writers
<1>2. Lock!IInv /\ [Lock!Next]_(Lock!vars) => [Lock!Abstract!Next]_(Lock!Abstract!vars)
  <2> SUFFICES ASSUME Lock!IInv, [Lock!Next]_(Lock!vars)
               PROVE  [Lock!Abstract!Next]_(Lock!Abstract!vars)
    OBVIOUS
  <2> DEFINE Waiting == {t \in Threads : lockPc[t] = "sharedSpin"}
  <2> USE DEF Lock!IInv
  <2>1. ASSUME NEW t \in Threads, Lock!LockShared(t)
        PROVE  Lock!Abstract!Register(t) \/ Lock!Abstract!Enter(t)
    BY <2>1, WriterBit DEF Lock!LockShared, Lock!Step, Lock!Abstract!Register,
       Lock!Abstract!Enter, Lock!Abstract!Outside, Lock!Readers, Lock!Writers, Lock!TypeOK
  <2>2. ASSUME NEW t \in Threads, Lock!TryLockShared(t)
        PROVE  Lock!Abstract!Enter(t) \/ UNCHANGED Lock!Abstract!vars
    BY <2>2, WriterBit DEF Lock!TryLockShared, Lock!Step, Lock!Abstract!Enter,
       Lock!Abstract!Outside, Lock!Abstract!vars, Lock!Readers, Lock!Writers, Lock!TypeOK
  <2>3. ASSUME NEW t \in Threads, Lock!LockSharedSpin(t) PROVE Lock!Abstract!Admit(t)
    BY <2>3, WriterBit DEF Lock!LockSharedSpin, Lock!Step, Lock!Abstract!Admit, Lock!Readers,
       Lock!Writers, Lock!TypeOK
  <2>4. ASSUME NEW t \in Threads, Lock!TryLockSharedUndo(t) \/ Lock!LockCall(t)
        PROVE  UNCHANGED Lock!Abstract!vars
    BY <2>4 DEF Lock!TryLockSharedUndo, Lock!LockCall, Lock!Step, Lock!Abstract!vars,
       Lock!Readers, Lock!Writers, Lock!TypeOK
  <2>5. ASSUME NEW t \in Threads, Lock!UnlockShared(t) PROVE Lock!Abstract!Leave(t)
    BY <2>5 DEF Lock!UnlockShared, Lock!Step, Lock!Abstract!Leave, Lock!Readers, Lock!Writers,
       Lock!TypeOK
  <2>6. ASSUME NEW t \in Threads, Lock!LockExchange(t) \/ Lock!TryLock(t)
        PROVE  Lock!Abstract!Lock(t)
    <3>1. Lock!Registered = {} /\ Lock!Writers = {}
      BY <2>6, RegisteredBound, SameCardinality DEF Lock!LockExchange, Lock!TryLock,
         Lock!WordCounts
    <3>2. Waiting = {} /\ Lock!Readers = {}
      BY <3>1 DEF Lock!Registered, Lock!Readers
    <3>3. Waiting' = {} /\ Lock!Readers' = {} /\ Lock!Writers' = {t}
      BY <2>6, <3>1, <3>2 DEF Lock!LockExchange, Lock!TryLock, Lock!Step, Lock!Readers,
         Lock!Writers, Lock!TypeOK
    <3> QED
      BY <3>1, <3>2, <3>3 DEF Lock!Abstract!Lock, Lock!Abstract!Outside
  <2>7. ASSUME NEW t \in Threads, Lock!Unlock(t) PROVE Lock!Abstract!Unlock(t)
    BY <2>7 DEF Lock!Unlock, Lock!Step, Lock!Abstract!Unlock, Lock!Readers, Lock!Writers,
       Lock!TypeOK
  <2>8. CASE UNCHANGED Lock!vars
    BY <2>8 DEF Lock!vars, Lock!Abstract!vars, Lock!Readers, Lock!Writers
  <2> QED
    BY <2>1, <2>2, <2>3, <2>4, <2>5, <2>6, <2>7, <2>8 DEF Lock!Next, Lock!Abstract!Next
<1> QED
  BY <1>1, <1>2, LockInvariant, PTL DEF Lock!Spec, Lock!SafeSpec, Lock!Abstract!SafeSpec
=============================================================================
