----------------------------- MODULE JobSystem -----------------------------
(***************************************************************************)
(* FeCore/Jobs/JobSystem with FeCore/Threading/FiberPool: worker threads   *)
(* run jobs on pooled fibers; a job that waits for a WaitGroup parks its   *)
(* fiber and the worker goes on with another one.                          *)
(*                                                                         *)
(* A worker executes the code of one fiber at a time, so the program       *)
(* counter belongs to the worker.  Between two steps of a worker every     *)
(* other worker may run: the steps are cut where the code releases a lock, *)
(* publishes a wait entry, moves a node between queues or switches fibers. *)
(* Queues are the values of QueueOps, which module ConcurrentQueue shows   *)
(* the pointers to implement; a WaitGroup is its counter and its list,     *)
(* with the atomicity that module WaitGroup shows its lock to give.        *)
(*                                                                         *)
(* Resuming a context that was not saved, writing to a wait entry whose    *)
(* stack frame is gone and switching to a null context are undefined: such *)
(* a step only sets fault, and nothing is said of what follows.            *)
(*                                                                         *)
(* Beside some helpers stands a faulty variant that Next does not use: the *)
(* error the properties must notice.                                       *)
(***************************************************************************)
EXTENDS QueueOps, FiniteSets

CONSTANTS
  Workers,      \* worker threads
  MainWorker,   \* worker 0, the thread that calls Start()
  PoolOf,       \* m_threadPoolType of every worker: "foreground" or "background"
  ShiftOf,      \* the worker that 1 << GetWorkerIndex() stands for, by worker
  Attempts,     \* rounds over the queues before m_shouldExit is read again: 8
  Fibers,       \* the normal fibers of the pool
  Jobs, RootJob,
  Groups,
  MaxPriority,  \* JobPriority::kHigh
  Program,      \* what Execute() of each job does: a sequence of operations
  AffinityOf,   \* "all", "foreground", "background", "self" or a worker, by job
  PriorityOf,   \* by job
  CompletionOf, \* the completion group of each job, or None
  CountOf,      \* the counter each group is created with
  None

Priorities == 0 .. MaxPriority
Pools == {"generic", "foreground", "background"}

\* What a job may ask for: any thread, a pool, a worker; "self" is the worker
\* that schedules it.
Affinities == {"all", "foreground", "background"} \union Workers

\* Schedule, Stop and Wait, as a job calls them.
Operations ==
  [op : {"schedule"}, job : Jobs] \union [op : {"wait"}, group : Groups] \union [op : {"stop"}]

ASSUME JobSystemAssumption ==
  /\ MainWorker \in Workers /\ RootJob \in Jobs
  /\ IsFiniteSet(Workers) /\ IsFiniteSet(Fibers)
  /\ None \notin Workers \union Fibers \union Jobs \union Groups
  /\ Fibers \intersect Jobs = {}
  /\ Workers \intersect (Pools \union {"all", "self", "none"}) = {}
  /\ MaxPriority \in Nat /\ Attempts \in Nat \ {0}
  /\ PoolOf \in [Workers -> {"foreground", "background"}]
  /\ ShiftOf \in [Workers -> Workers]
  /\ Program \in [Jobs -> Seq(Operations)]
  /\ AffinityOf \in [Jobs -> Affinities \union {"self"}] /\ AffinityOf[RootJob] # "self"
  /\ PriorityOf \in [Jobs -> Priorities]
  /\ CompletionOf \in [Jobs -> Groups \union {None}]
  /\ CountOf \in [Groups -> Nat]

\* The constructor numbers the foreground workers from 0, the main thread first,
\* and the background workers from 32, at most as many as there are foreground
\* ones.  1 << index on a 32-bit int is then the own mask of a foreground worker
\* and that of foreground worker i for background worker 32 + i.
ASSUME NumberingAssumption ==
  /\ PoolOf[MainWorker] = "foreground"
  /\ \A w \in Workers :
       IF PoolOf[w] = "foreground" THEN ShiftOf[w] = w ELSE PoolOf[ShiftOf[w]] = "foreground"

\* What the users of the system keep to: a job object is scheduled once, and a
\* group is created with the number of the jobs that signal it.
Schedules(j, i) == i \in DOMAIN Program[j] /\ Program[j][i].op = "schedule"

ASSUME WorkloadAssumption ==
  /\ IsFiniteSet(Jobs)
  /\ \A j, k \in Jobs : \A i \in DOMAIN Program[j], n \in DOMAIN Program[k] :
       Schedules(j, i) /\ Schedules(k, n) /\ Program[j][i].job = Program[k][n].job
         => j = k /\ i = n
  /\ \A j \in Jobs : \A i \in DOMAIN Program[j] : Schedules(j, i) => Program[j][i].job # RootJob
  /\ \A g \in Groups : CountOf[g] = Cardinality({j \in Jobs : CompletionOf[j] = g})

VARIABLES
  pc,           \* where each worker is
  worker,       \* m_workers: the fields of each Worker, and the nodes it holds
  fiber,        \* m_fiberPool's FiberInfo, the frame on the stack, the FiberWaitEntry
  queues,       \* m_jobQueues and m_readyFiberQueues, local and global
  consumerLock, \* m_consumerLocks, one per priority: the worker inside, or None
  group,        \* the WaitGroups: counter and list of waiting fibers
  job,          \* the jobs: state and m_orderHint
  jobCounter,   \* m_jobCounter
  permits,      \* m_semaphore
  shouldExit,   \* m_shouldExit
  fault,        \* the first undefined or asserted-against step
  lost          \* history: nodes an Enqueue cut off from their queue

vars == <<pc, worker, fiber, queues, consumerLock, group, job, jobCounter,
          permits, shouldExit, fault, lost>>

QueueIds == {"job", "fiber"} \X Priorities \X (Workers \union Pools)
Faults == {"none", "staleContext", "deadEntry", "badExit", "assert"}

\* Schedule and AddReadyFiber put a node into the queue its affinity names.
OwnerOf(affinity) == IF affinity = "all" THEN "generic" ELSE affinity

\* The three queues FiberProc looks at, local first.
QueuesOf(kind, w) ==
  LET p == worker[w].level
  IN  <<<<kind, p, w>>, <<kind, p, "generic">>, <<kind, p, PoolOf[w]>>>>

HintOf(kind, n) == IF kind = "job" THEN job[n].hint ELSE fiber[n].hint

Init ==
  /\ pc = [w \in Workers |-> IF w = MainWorker THEN "start" ELSE "acquire"]
  /\ worker = [w \in Workers |->
       [current |-> None, prev |-> None, lastWait |-> None, affinity |-> "none",
        exitContext |-> None, attempt |-> 0, level |-> MaxPriority, looked |-> 0,
        held |-> <<None, None, None>>, signaled |-> None, drain |-> <<>>]]
  /\ fiber = [f \in Fibers |->
       [free |-> TRUE, context |-> "saved", resume |-> "entry", job |-> None, ip |-> 0,
        waiting |-> FALSE, affinity |-> "none", priority |-> 0, hint |-> 0]]
  /\ queues = [q \in QueueIds |->
       IF q = <<"job", PriorityOf[RootJob], OwnerOf(AffinityOf[RootJob])>>
       THEN Enqueued(EmptyQueue, RootJob) ELSE EmptyQueue]
  /\ consumerLock = [p \in Priorities |-> None]
  /\ group = [g \in Groups |-> [count |-> CountOf[g], list |-> <<>>]]
  /\ job = [j \in Jobs |->
       [state |-> IF j = RootJob THEN "queued" ELSE "new", hint |-> 0,
        affinity |-> IF j = RootJob THEN AffinityOf[j] ELSE "none"]]
  /\ jobCounter = 1
  /\ permits = 0
  /\ shouldExit = FALSE
  /\ fault = "none"
  /\ lost = {}

At(w, label) == fault = "none" /\ pc[w] = label
Goto(w, label) == pc' = [pc EXCEPT ![w] = label]

\* The undefined step: only the fact that it happened is kept.
Fail(kind) ==
  /\ fault' = kind
  /\ UNCHANGED <<pc, worker, fiber, queues, consumerLock, group, job, jobCounter,
                 permits, shouldExit, lost>>

\* ConcurrentQueue::Enqueue with the history of what it cuts off.
EnqueueInto(q, node) ==
  /\ queues' = [queues EXCEPT ![q] = Enqueued(@, node)]
  /\ lost' = lost \union CutOff(queues[q])

-----------------------------------------------------------------------------
(* Fiber switches.                                                         *)

\* m_fiberPool.Switch(to) by worker w, whose fields become r.  The thread goes
\* on in to's code: at the top of FiberProc, or behind the switch that parked
\* it.  FiberProc's first lines keep the context it was entered from.
SwitchTo(w, r, to) ==
  LET from == IF r.prev = None THEN "thread" ELSE "fiber" IN
  IF fiber[to].context # "saved"
  THEN Fail("staleContext")
  ELSE /\ worker' = [worker EXCEPT ![w] =
             [r EXCEPT !.current = to,
                !.exitContext = IF fiber[to].resume = "entry" /\ @ = None THEN from ELSE @]]
       /\ fiber' = [f \in Fibers |->
             IF f = to THEN [fiber[f] EXCEPT !.context = "running", !.free = FALSE]
             ELSE IF f = r.prev /\ r.lastWait = None THEN [fiber[f] EXCEPT !.resume = "loop"]
             ELSE fiber[f]]
       /\ Goto(w, "update")
       /\ UNCHANGED <<queues, consumerLock, group, job, jobCounter, shouldExit, fault, lost>>

\* FiberPool::Rent: any free fiber; while there is none the thread spins.
Free == {f \in Fibers : fiber[f].free}

\* Start() on the main thread: rents a fiber, lets the workers go, switches.
Start(w) ==
  /\ At(w, "start")
  /\ permits' = Cardinality(Workers) - 1
  /\ \E f \in Free : SwitchTo(w, worker[w], f)

\* ThreadProc of the other workers.
ThreadProc(w) ==
  /\ At(w, "acquire") /\ permits > 0
  /\ permits' = permits - 1
  /\ \E f \in Free : SwitchTo(w, worker[w], f)

\* CleanUpAfterSwitch, first half: saves the context of the fiber left behind.
CleanUpUpdate(w) ==
  /\ At(w, "update")
  /\ fiber' = IF worker[w].prev = None THEN fiber
              ELSE [fiber EXCEPT ![worker[w].prev].context = "saved"]
  /\ Goto(w, "mark")
  /\ UNCHANGED <<worker, queues, consumerLock, group, job, jobCounter, permits,
                 shouldExit, fault, lost>>

\* A fiber that waits is not returned to the pool, any other one is.
ReturnsAnyFiber(r, f) == f = r.prev
ReturnsFiber(r, f) == f = r.prev /\ r.lastWait = None

\* CleanUpAfterSwitch, second half: stores m_switchCompleted into the wait entry
\* of the fiber left behind, or returns that fiber to the pool; then the code
\* behind the switch goes on, which for a waiting fiber ends Wait().
CleanUpMark(w) ==
  LET r == worker[w]
      f == r.current IN
  /\ At(w, "mark")
  /\ IF r.lastWait # None /\ ~fiber[r.lastWait].waiting
     THEN Fail("deadEntry")
     ELSE /\ fiber' = [g \in Fibers |->
                IF g = f /\ fiber[f].resume = "wait"
                THEN [fiber[f] EXCEPT !.waiting = FALSE, !.ip = @ + 1]
                ELSE IF ReturnsFiber(r, g)
                THEN [fiber[g] EXCEPT !.free = TRUE]
                ELSE fiber[g]]
          /\ worker' = [worker EXCEPT ![w].prev = None, ![w].lastWait = None]
          /\ Goto(w, IF fiber[f].resume = "wait" THEN "run" ELSE "loop")
          /\ UNCHANGED <<queues, consumerLock, group, job, jobCounter, permits,
                         shouldExit, fault, lost>>

-----------------------------------------------------------------------------
(* The loop of FiberProc.                                                  *)

\* The head of the loop: leaves through m_exitContext, or starts a round.
LoopHead(w) ==
  /\ At(w, "loop")
  /\ IF ~shouldExit
     THEN /\ worker' = [worker EXCEPT ![w].attempt = 0, ![w].level = MaxPriority]
          /\ Goto(w, "poll")
          /\ UNCHANGED <<fiber, queues, consumerLock, group, job, jobCounter, permits,
                         shouldExit, fault, lost>>
     ELSE IF worker[w].exitContext = "thread"
     THEN /\ Goto(w, "exited")
          /\ UNCHANGED <<worker, fiber, queues, consumerLock, group, job, jobCounter,
                         permits, shouldExit, fault, lost>>
     ELSE Fail("badExit")

\* m_consumerLocks of the priority the worker looks at: one worker at a time
\* takes from its queues, which any worker may push into meanwhile.
ConsumerLockFree(w) == consumerLock[worker[w].level] = None

NothingHeld == <<None, None, None>>

LockConsumers(w) ==
  /\ At(w, "poll") /\ ConsumerLockFree(w)
  /\ consumerLock' = [consumerLock EXCEPT ![worker[w].level] = w]
  /\ worker' = [worker EXCEPT ![w].looked = 0]
  /\ Goto(w, "fibers")
  /\ UNCHANGED <<fiber, queues, group, job, jobCounter, permits, shouldExit, fault, lost>>

\* One TryDequeue, on the next of the three queues.
Look(kind, w) ==
  LET i == worker[w].looked + 1
      q == QueuesOf(kind, w)[i]
      found == queues[q].items # <<>> IN
  /\ worker[w].looked < 3
  /\ queues' = [queues EXCEPT ![q] = IF found THEN Dequeued(@) ELSE @]
  /\ worker' = [worker EXCEPT ![w].looked = i,
       ![w].held = [@ EXCEPT ![i] = IF found THEN Head(queues[q].items) ELSE None]]
  /\ UNCHANGED <<pc, fiber, consumerLock, group, job, jobCounter, permits, shouldExit, fault, lost>>

LookForFiber(w) == At(w, "fibers") /\ Look("fiber", w)
LookForJob(w) == At(w, "jobs") /\ Look("job", w)

\* No fiber was ready: the same for jobs, under the same lock.
NoFiber(w) ==
  /\ At(w, "fibers") /\ worker[w].looked = 3 /\ worker[w].held = NothingHeld
  /\ worker' = [worker EXCEPT ![w].looked = 0]
  /\ Goto(w, "jobs")
  /\ UNCHANGED <<fiber, queues, consumerLock, group, job, jobCounter, permits, shouldExit,
                 fault, lost>>

SkipsLowest(p) == IF p <= 1 THEN MaxPriority ELSE p - 1
LevelAfter(p) == IF p = 0 THEN MaxPriority ELSE p - 1

\* Nothing at this priority: the next lower one, from the highest again for the
\* next attempt, and after the last attempt a new round of the loop.
NoJob(w) ==
  LET p == worker[w].level
      attempt == IF p = 0 THEN worker[w].attempt + 1 ELSE worker[w].attempt IN
  /\ At(w, "jobs") /\ worker[w].looked = 3 /\ worker[w].held = NothingHeld
  /\ worker' = [worker EXCEPT ![w].attempt = attempt, ![w].level = LevelAfter(p)]
  /\ consumerLock' = [consumerLock EXCEPT ![p] = None]
  /\ Goto(w, IF attempt = Attempts THEN "loop" ELSE "poll")
  /\ UNCHANGED <<fiber, queues, group, job, jobCounter, permits, shouldExit, fault, lost>>

\* The index of the node with the least order hint among the three taken.
Earliest(kind, held) ==
  CHOOSE i \in {k \in 1 .. 3 : held[k] # None} :
    \A k \in 1 .. 3 : held[k] # None => HintOf(kind, held[i]) <= HintOf(kind, held[k])

\* The indices of the nodes that were taken and not chosen.
NoneBack(held, chosen) == {}
Unchosen(held, chosen) == {i \in 1 .. 3 : i # chosen /\ held[i] # None}

\* PushFront of the nodes that were not chosen, and the end of the lock.
PutBack(kind, w) ==
  LET ids == QueuesOf(kind, w)
      held == worker[w].held
      back == Unchosen(held, Earliest(kind, held)) IN
  /\ queues' = [q \in QueueIds |->
       IF \E i \in back : ids[i] = q
       THEN PushedFront(queues[q], held[CHOOSE i \in back : ids[i] = q]) ELSE queues[q]]
  /\ consumerLock' = [consumerLock EXCEPT ![worker[w].level] = None]
  /\ UNCHANGED <<group, jobCounter, permits, shouldExit, fault, lost>>

\* A ready fiber is chosen and kept until the switch.
ChooseFiber(w) ==
  LET held == worker[w].held IN
  /\ At(w, "fibers") /\ worker[w].looked = 3 /\ held # NothingHeld
  /\ PutBack("fiber", w)
  /\ worker' = [worker EXCEPT ![w].held = <<held[Earliest("fiber", held)], None, None>>]
  /\ Goto(w, "switch")
  /\ UNCHANGED <<fiber, job>>

\* The switch to the chosen fiber; the fiber left behind has no job.
ResumeFiber(w) ==
  LET f == worker[w].held[1]
      left == worker[w].current IN
  /\ At(w, "switch")
  /\ SwitchTo(w, [worker[w] EXCEPT !.prev = left, !.affinity = fiber[f].affinity,
                                   !.held = NothingHeld], f)
  /\ UNCHANGED permits

\* The affinity mask of a queue: a local queue's is 1 << GetWorkerIndex().
AnyAffinity(w, i) == "all"
AffinityOfQueue(w, i) ==
  CASE i = 1 -> ShiftOf[w] [] i = 2 -> "all" [] i = 3 -> PoolOf[w]

\* A job is chosen: the worker takes the affinity of its queue, Execute() begins.
ChooseJob(w) ==
  LET held == worker[w].held
      chosen == Earliest("job", held)
      j == held[chosen] IN
  /\ At(w, "jobs") /\ worker[w].looked = 3 /\ held # NothingHeld
  /\ PutBack("job", w)
  /\ worker' = [worker EXCEPT ![w].held = NothingHeld,
                               ![w].affinity = AffinityOfQueue(w, chosen)]
  /\ fiber' = [fiber EXCEPT ![worker[w].current].job = j, ![worker[w].current].ip = 1]
  /\ job' = [job EXCEPT ![j].state = "running"]
  /\ Goto(w, "run")

-----------------------------------------------------------------------------
(* What a job does.                                                        *)

Frame(w) == fiber[worker[w].current]

\* The next operation of the job on worker w is kind.
Executes(w, kind) ==
  /\ At(w, "run")
  /\ Frame(w).ip <= Len(Program[Frame(w).job])
  /\ Program[Frame(w).job][Frame(w).ip].op = kind

Operation(w) == Program[Frame(w).job][Frame(w).ip]

Advance(w) == fiber' = [fiber EXCEPT ![worker[w].current].ip = @ + 1]

\* JobSystem::Schedule.
Schedule(w) ==
  LET j == Operation(w).job
      affinity == IF AffinityOf[j] = "self" THEN w ELSE AffinityOf[j] IN
  /\ Executes(w, "schedule")
  /\ job' = [job EXCEPT ![j] = [state |-> "queued", hint |-> jobCounter, affinity |-> affinity]]
  /\ jobCounter' = jobCounter + 1
  /\ EnqueueInto(<<"job", PriorityOf[j], OwnerOf(affinity)>>, j)
  /\ Advance(w)
  /\ UNCHANGED <<pc, worker, consumerLock, group, permits, shouldExit, fault>>

\* JobSystem::Stop.
Stop(w) ==
  /\ Executes(w, "stop")
  /\ shouldExit' = TRUE
  /\ Advance(w)
  /\ UNCHANGED <<pc, worker, queues, consumerLock, group, job, jobCounter, permits,
                 fault, lost>>

SignaledTooEarly(g) == group[g].count <= 1
IsSignaled(g) == group[g].count = 0

\* WaitGroup::Wait on a signalled group.
WaitSignaled(w) ==
  /\ Executes(w, "wait") /\ IsSignaled(Operation(w).group)
  /\ Advance(w)
  /\ UNCHANGED <<pc, worker, queues, consumerLock, group, job, jobCounter, permits,
                 shouldExit, fault, lost>>

\* The entry is appended to the group's list.
Forgotten(list, f) == list
Published(list, f) == Append(list, f)

\* WaitGroup::Wait on any other: publishes a FiberWaitEntry with the worker's
\* priority and affinity.  From here on the fiber may be woken.
WaitPublish(w) ==
  LET g == Operation(w).group
      f == worker[w].current IN
  /\ Executes(w, "wait") /\ ~IsSignaled(g)
  /\ group' = [group EXCEPT ![g].list = Published(@, f)]
  /\ fiber' = [fiber EXCEPT ![f].waiting = TRUE, ![f].resume = "wait",
                 ![f].affinity = worker[w].affinity, ![f].priority = worker[w].level]
  /\ Goto(w, "park")
  /\ UNCHANGED <<worker, queues, consumerLock, job, jobCounter, permits, shouldExit,
                 fault, lost>>

\* SwitchFromWaitingFiber.
SwitchFromWaitingFiber(w) ==
  LET f == worker[w].current IN
  /\ At(w, "park")
  /\ \E to \in Free : SwitchTo(w, [worker[w] EXCEPT !.lastWait = f, !.prev = f], to)
  /\ UNCHANGED permits

\* Execute() returned: the copy of m_completionWaitGroup is signalled.
SignalCompletion(w) ==
  LET j == Frame(w).job
      g == CompletionOf[j] IN
  /\ At(w, "run") /\ Frame(w).ip > Len(Program[j])
  /\ IF g # None /\ group[g].count < 1
     THEN Fail("assert")
     ELSE /\ job' = [job EXCEPT ![j].state = "done"]
          /\ fiber' = [fiber EXCEPT ![worker[w].current].job = None,
                                    ![worker[w].current].ip = 0]
          /\ group' = IF g = None THEN group ELSE [group EXCEPT ![g].count = @ - 1]
          /\ worker' = [worker EXCEPT ![w].signaled = g]
          /\ Goto(w, IF g # None /\ group[g].count = 1 THEN "signal" ELSE "loop")
          /\ UNCHANGED <<queues, consumerLock, jobCounter, permits, shouldExit, fault, lost>>

\* SignalImpl has the lock: it will walk the list.
SignalImpl(w) ==
  LET g == worker[w].signaled IN
  /\ At(w, "signal")
  /\ worker' = [worker EXCEPT ![w].drain = group[g].list]
  /\ group' = [group EXCEPT ![g].list = <<>>]
  /\ Goto(w, "drain")
  /\ UNCHANGED <<fiber, queues, consumerLock, job, jobCounter, permits, shouldExit,
                 fault, lost>>

\* AddReadyFiber of the next entry.
AddReadyFiber(w) ==
  LET f == Head(worker[w].drain) IN
  /\ At(w, "drain") /\ worker[w].drain # <<>>
  /\ fiber' = [fiber EXCEPT ![f].hint = jobCounter]
  /\ jobCounter' = jobCounter + 1
  /\ EnqueueInto(<<"fiber", fiber[f].priority, OwnerOf(fiber[f].affinity)>>, f)
  /\ worker' = [worker EXCEPT ![w].drain = Tail(@)]
  /\ UNCHANGED <<pc, consumerLock, group, job, permits, shouldExit, fault>>

SignalDone(w) ==
  /\ At(w, "drain") /\ worker[w].drain = <<>>
  /\ Goto(w, "loop")
  /\ UNCHANGED <<worker, fiber, queues, consumerLock, group, job, jobCounter, permits,
                 shouldExit, fault, lost>>

-----------------------------------------------------------------------------
Step(w) ==
  \/ Start(w) \/ ThreadProc(w) \/ CleanUpUpdate(w) \/ CleanUpMark(w)
  \/ LoopHead(w) \/ LockConsumers(w) \/ LookForFiber(w) \/ NoFiber(w)
  \/ LookForJob(w) \/ NoJob(w) \/ ChooseFiber(w) \/ ResumeFiber(w) \/ ChooseJob(w)
  \/ Schedule(w) \/ Stop(w) \/ WaitSignaled(w) \/ WaitPublish(w)
  \/ SwitchFromWaitingFiber(w) \/ SignalCompletion(w) \/ SignalImpl(w)
  \/ AddReadyFiber(w) \/ SignalDone(w)

\* Nobody runs any more: every worker left, or a step was undefined.
Ended ==
  /\ fault # "none" \/ \A w \in Workers : pc[w] = "exited"
  /\ UNCHANGED vars

Next == Ended \/ \E w \in Workers : Step(w)

\* Every thread keeps running, and one that spins on a consumer lock gets it some
\* day: its holder keeps it for a few queue operations and pauses between two
\* attempts.
Spec ==
  /\ Init /\ [][Next]_vars
  /\ \A w \in Workers : WF_vars(Step(w)) /\ SF_vars(LockConsumers(w))

-----------------------------------------------------------------------------
Labels == {"start", "acquire", "update", "mark", "loop", "poll", "fibers", "jobs", "switch",
           "run", "park", "signal", "drain", "exited"}

TypeOK ==
  /\ pc \in [Workers -> Labels]
  /\ \A w \in Workers :
       /\ worker[w].current \in Fibers \union {None}
       /\ worker[w].prev \in Fibers \union {None}
       /\ worker[w].lastWait \in Fibers \union {None}
       /\ worker[w].exitContext \in {"thread", "fiber", None}
       /\ worker[w].attempt \in 0 .. Attempts /\ worker[w].level \in Priorities
       /\ worker[w].looked \in 0 .. 3
       /\ \A i \in 1 .. 3 : worker[w].held[i] \in Fibers \union Jobs \union {None}
       /\ worker[w].drain \in Seq(Fibers)
  /\ \A q \in QueueIds : queues[q].items \in Seq(IF q[1] = "job" THEN Jobs ELSE Fibers)
  /\ consumerLock \in [Priorities -> Workers \union {None}]
  /\ \A g \in Groups : group[g].count \in Nat /\ group[g].list \in Seq(Fibers)
  /\ \A j \in Jobs : job[j].state \in {"new", "queued", "running", "done"}
  /\ fault \in Faults

\* Where a node is: at a position of a queue, in a worker's hands, in the list
\* of a WaitGroup or in what a signalling worker has still to wake.
Positions(seq, n) == {i \in DOMAIN seq : seq[i] = n}

PlacesOf(n) ==
  (UNION {{<<q, i>> : i \in Positions(queues[q].items, n)} : q \in QueueIds})
  \union (UNION {{<<"held", w, i>> : i \in Positions(worker[w].held, n)} : w \in Workers})
  \union (UNION {{<<"drain", w, i>> : i \in Positions(worker[w].drain, n)} : w \in Workers})
  \union (UNION {{<<"list", g, i>> : i \in Positions(group[g].list, n)} : g \in Groups})

\* The workers that are switching to fiber f.
Resuming(f) == {w \in Workers : worker[w].current = f /\ pc[w] \in {"update", "mark"}}

\* A parked fiber is in exactly one place until exactly one worker resumes it,
\* and no other fiber is in any: nothing wakes a fiber twice, wakes one that
\* runs, or drops one, but for the nodes an Enqueue cut off.
ParkedFiberKeptOnce ==
  \A f \in Fibers :
    IF ~fiber[f].waiting THEN PlacesOf(f) = {}
    ELSE f \notin lost => Cardinality(PlacesOf(f)) + Cardinality(Resuming(f)) = 1

\* A scheduled job is in one queue or in one worker's hands until it runs, and
\* then on one fiber: it runs once, whatever is pushed back and taken again.
JobKeptOnce ==
  \A j \in Jobs :
    /\ Cardinality(PlacesOf(j)) = IF job[j].state = "queued" /\ j \notin lost THEN 1 ELSE 0
    /\ Cardinality({f \in Fibers : fiber[f].job = j}) = IF job[j].state = "running" THEN 1 ELSE 0

\* No fiber is run by two workers, and a fiber that is free in the pool is run by
\* none, carries no job and can be resumed: Rent never hands out a stack in use.
FiberOwnership ==
  /\ \A v, w \in Workers :
       v # w /\ worker[v].current # None => worker[v].current # worker[w].current
  /\ \A f \in Free :
       /\ \A w \in Workers : worker[w].current # f \/ pc[w] = "exited"
       /\ fiber[f].job = None /\ ~fiber[f].waiting /\ fiber[f].context = "saved"

\* Jobs begin once, run in order and end once, and the code behind a Wait()
\* runs only when every job of the group is done: the system implements Scheduler.
\* The next operation of a job is that of the fiber that carries it.
CarriedAt(j) ==
  IF \E f \in Fibers : fiber[f].job = j
  THEN fiber[CHOOSE f \in Fibers : fiber[f].job = j].ip ELSE 0

Abstract == INSTANCE Scheduler WITH
  state <- [j \in Jobs |-> job[j].state], at <- [j \in Jobs |-> CarriedAt(j)]

ImplementsScheduler == Abstract!Spec

\* The job has come past a wait.
Waited(j, ip) == \E i \in DOMAIN Program[j] : i < ip /\ Program[j][i].op = "wait"

\* A job runs only on the threads its affinity allows, from its first operation
\* to its last, across every wait - but for a job pinned to background worker
\* 32 + i, which a wait may move to foreground worker i, and to no other.
RunsWhereAllowed ==
  \A w \in Workers : pc[w] = "run" =>
    LET j == Frame(w).job
        a == job[j].affinity IN
    \/ a \in {"all", PoolOf[w], w}
    \/ /\ a \in Workers /\ PoolOf[a] = "background" /\ w = ShiftOf[a]
       /\ Waited(j, Frame(w).ip)

\* A worker that holds nodes it took from the queues holds the consumer lock.
ConsumersExclude ==
  \A w \in Workers : pc[w] \in {"fibers", "jobs"} => consumerLock[worker[w].level] = w

\* Every node has one owner: a queue, a wait list, a worker that took it under
\* the consumer lock, or a signalling worker that has still to wake it.
OneOwner == TypeOK /\ ParkedFiberKeptOnce /\ JobKeptOnce /\ ConsumersExclude

\* Only the defects named by the variables keep the root job from its end and
\* the threads from leaving: a fault, or a node cut off its queue.
EveryWorkerLeaves == <>(fault # "none" \/ lost # {} \/ \A w \in Workers : pc[w] = "exited")

\* A scheduled job is executed, unless the system is stopped first. Jobs are
\* finitely many and none leaves "done", so this is: again and again no job is
\* scheduled and unfinished.
ScheduledJobRuns ==
  []<>((\A j \in Jobs : job[j].state \in {"new", "done"})
       \/ fault # "none" \/ lost # {} \/ shouldExit)

\* Statements of the source that the code does not keep.

\* JobSystem.cpp:110: the nodes not chosen go back to the front of the queue.
NothingCutOff == lost = {}

\* JobSystem.h:18 and 60: m_switchCompleted tells when the fiber left behind may
\* be resumed, so its context is saved and its wait entry lives until then.
ResumesCompletedSwitch == fault \notin {"staleContext", "deadEntry"}

\* JobSystem.h:87: "Jobs in these queues can only be processed by this worker (due
\* to affinity)", the local queues of a worker.
PinnedJobStays ==
  \A w \in Workers : pc[w] = "run" =>
    LET a == job[Frame(w).job].affinity IN a \in Workers => a = w

\* Context.cpp:17: a worker leaves through a valid context.
LeavesThroughThreadContext == fault # "badExit"
=============================================================================
