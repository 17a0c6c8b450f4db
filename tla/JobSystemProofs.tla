--------------------------- MODULE JobSystemProofs ---------------------------
(***************************************************************************)
(* For any number of workers, fibers, jobs and groups, with any programs:  *)
(* every fiber and every job has one owner, the pool lends no fiber that   *)
(* is in use, and the system implements Scheduler.                         *)
(*                                                                         *)
(* The invariant says where a node is by its holders: queues, hands, lists *)
(* and wake lists, each of which has it once.  A waiting fiber has a       *)
(* holder until one worker switches to it, and no other fiber has one;     *)
(* from that, who runs, leaves or returns a fiber follows by cases on the  *)
(* worker's label.  A second invariant ties each group's counter to the    *)
(* jobs that have not ended, and each waiting fiber to its group's list or *)
(* to a counter of 0: so the code behind a Wait() runs with every member   *)
(* done, which is what Scheduler asks of it.  A third invariant follows an *)
(* affinity from a job to its queue, to the worker that takes the job, to  *)
(* the wait entry of its fiber, which has it as the mask 1 << index, and   *)
(* back.                                                                   *)
(***************************************************************************)
EXTENDS JobSystem, FiniteSetTheorems, SequenceTheorems, TLAPS

-----------------------------------------------------------------------------
(* Types.                                                                  *)

Nodes == Fibers \union Jobs
NodesOf(kind) == IF kind = "job" THEN Jobs ELSE Fibers

WorkerRecord ==
  [current : Fibers \union {None}, prev : Fibers \union {None}, lastWait : Fibers \union {None},
   affinity : Affinities \union {"none"}, exitContext : {"thread", "fiber", None},
   attempt : 0 .. Attempts, level : Priorities, looked : 0 .. 3,
   held : [1 .. 3 -> Nodes \union {None}], signaled : Groups \union {None}, drain : Seq(Fibers)]

FiberRecord ==
  [free : BOOLEAN, context : {"saved", "running"}, resume : {"entry", "loop", "wait"},
   job : Jobs \union {None}, ip : Nat, waiting : BOOLEAN,
   affinity : Affinities \union {"none"}, priority : Priorities, hint : Nat]

JobRecord ==
  [state : {"new", "queued", "running", "done"}, hint : Nat,
   affinity : Affinities \union {"none"}]

GroupRecord == [count : Nat, list : Seq(Fibers)]

QueueRecord == [items : Seq(Nodes), hasTail : BOOLEAN]

Types ==
  /\ pc \in [Workers -> Labels]
  /\ worker \in [Workers -> WorkerRecord]
  /\ fiber \in [Fibers -> FiberRecord]
  /\ queues \in [QueueIds -> QueueRecord]
  /\ \A q \in QueueIds : queues[q].items \in Seq(NodesOf(q[1]))
  /\ consumerLock \in [Priorities -> Workers \union {None}]
  /\ group \in [Groups -> GroupRecord]
  /\ job \in [Jobs -> JobRecord]
  /\ jobCounter \in Nat
  /\ shouldExit \in BOOLEAN
  /\ fault \in Faults
  /\ lost \in SUBSET Nodes

-----------------------------------------------------------------------------
(* Who holds a node.                                                       *)

ElementsOf(s) == {s[i] : i \in DOMAIN s}
Distinct(s) == \A i, j \in DOMAIN s : s[i] = s[j] => i = j

HoldersIn(n, qs, ws, gs) ==
  {t \in {"queue"} \X QueueIds : n \in ElementsOf(qs[t[2]].items)}
  \union {t \in {"held"} \X Workers \X (1 .. 3) : ws[t[2]].held[t[3]] = n}
  \union {t \in {"drain"} \X Workers : n \in ElementsOf(ws[t[2]].drain)}
  \union {t \in {"list"} \X Groups : n \in ElementsOf(gs[t[2]].list)}

HoldersOf(n) == HoldersIn(n, queues, worker, group)

\* No node has two holders, or the same one twice.
OneHolder ==
  /\ \A n \in Nodes : \A s, t \in HoldersOf(n) : s = t
  /\ \A q \in QueueIds : Distinct(queues[q].items)
  /\ \A w \in Workers : Distinct(worker[w].drain)
  /\ \A g \in Groups : Distinct(group[g].list)

-----------------------------------------------------------------------------
(* The workers.                                                            *)

Switching(w) == pc[w] \in {"update", "mark"}

\* What a worker has in its hands, by where it is.
HandsOf(w) ==
  /\ worker[w].current = None <=> pc[w] \in {"start", "acquire"}
  /\ worker[w].lastWait \in {None, worker[w].prev}
  /\ worker[w].prev # None => Switching(w)
  /\ \A i \in 1 .. 3 : worker[w].held[i] # None
       => pc[w] \in {"fibers", "jobs"} \/ (pc[w] = "switch" /\ i = 1)
  /\ pc[w] \in {"fibers", "jobs"} => \A i \in 1 .. 3 : i > worker[w].looked => worker[w].held[i] = None
  /\ pc[w] \in {"poll", "fibers", "jobs"} => worker[w].attempt < Attempts
  /\ pc[w] = "fibers" => \A i \in 1 .. 3 : worker[w].held[i] \in Fibers \union {None}
  /\ pc[w] = "jobs" => \A i \in 1 .. 3 : worker[w].held[i] \in Jobs \union {None}
  /\ pc[w] = "switch" => worker[w].held[1] \in Fibers
  /\ pc[w] # "drain" => worker[w].drain = <<>>
  /\ pc[w] = "signal" => worker[w].signaled \in Groups
  /\ pc[w] \in {"run", "park"} => worker[w].affinity \in Affinities
  /\ Switching(w) /\ fiber[worker[w].current].waiting => worker[w].affinity \in Affinities

Hands == \A w \in Workers : HandsOf(w)

\* Worker w has not let go of fiber f, which it ran before.
Leaving(w, f) == worker[w].prev = f /\ (pc[w] = "update" \/ worker[w].lastWait = None)

-----------------------------------------------------------------------------
(* The fibers.                                                             *)

\* A fiber in the pool is nobody's and can be entered.
PoolIsFree ==
  \A f \in Free :
    /\ \A w \in Workers : worker[w].current # f
    /\ fiber[f].job = None /\ ~fiber[f].waiting
    /\ fiber[f].context = "saved" /\ fiber[f].resume # "wait"

\* A fiber is run by one worker, which has its context.
RunningFibers ==
  /\ \A v, w \in Workers :
       worker[v].current # None /\ worker[v].current = worker[w].current => v = w
  /\ \A w \in Workers : worker[w].current # None =>
       LET f == worker[w].current IN
       /\ fiber[f].context = "running"
       /\ fiber[f].waiting <=> pc[w] = "park" \/ (Switching(w) /\ fiber[f].resume = "wait")

\* A fiber that was left is not resumed before its context is saved, and one
\* that is returned to the pool is not used meanwhile.
LeavingFibers ==
  /\ \A v, w \in Workers : \A f \in Fibers : Leaving(v, f) /\ Leaving(w, f) => v = w
  /\ \A w \in Workers : \A f \in Fibers : Leaving(w, f) =>
       /\ ~fiber[f].free /\ \A v \in Workers : worker[v].current # f
       /\ pc[w] = "update" => fiber[f].context = "running"
       /\ pc[w] = "update" /\ worker[w].lastWait # None => fiber[f].waiting
       /\ worker[w].lastWait = None => ~fiber[f].waiting /\ fiber[f].resume # "wait"
       /\ worker[w].lastWait = None /\ pc[w] = "mark" => fiber[f].context = "saved"

\* A fiber has a frame of a job while it runs it or waits.
FramesOfJobs ==
  /\ \A f \in Fibers : fiber[f].job # None
       <=> fiber[f].waiting \/ \E w \in Workers : worker[w].current = f /\ pc[w] = "run"
  /\ \A f \in Fibers : fiber[f].waiting =>
       fiber[f].resume = "wait" /\ fiber[f].affinity \in Affinities
  /\ \A f \in Fibers : fiber[f].job # None => fiber[f].ip \in Nat \ {0}

\* A waiting fiber is held by who will wake it until a worker resumes it.
WaitingFibers ==
  \A f \in Fibers :
    /\ HoldersOf(f) # {} => fiber[f].waiting /\ Resuming(f) = {}
    /\ fiber[f].waiting /\ f \notin lost => HoldersOf(f) # {} \/ Resuming(f) # {}

-----------------------------------------------------------------------------
(* The jobs.                                                               *)

JobsHeld ==
  /\ \A j \in Jobs : HoldersOf(j) # {} <=> job[j].state = "queued" /\ j \notin lost
  /\ \A j \in Jobs : j \in lost => job[j].state = "queued"

Carried(j) == \E f \in Fibers : fiber[f].job = j

JobsCarried ==
  /\ \A j \in Jobs : job[j].state = "running" <=> Carried(j)
  /\ \A f, g \in Fibers : fiber[f].job # None /\ fiber[f].job = fiber[g].job => f = g

\* A job that is not new was scheduled by an operation that is over.
Passed(j, i) ==
  \/ job[j].state = "done"
  \/ \E f \in Fibers : fiber[f].job = j /\ fiber[f].ip > i

ScheduledBefore ==
  \A j \in Jobs : \A i \in DOMAIN Program[j] :
    Schedules(j, i) /\ job[Program[j][i].job].state # "new" => Passed(j, i)

IInv ==
  /\ Types /\ OneHolder /\ Hands /\ ConsumersExclude
  /\ PoolIsFree /\ RunningFibers /\ LeavingFibers /\ FramesOfJobs /\ WaitingFibers
  /\ JobsHeld /\ JobsCarried /\ ScheduledBefore

-----------------------------------------------------------------------------
(* Sequences without repetition, and the queues made of them.              *)

\* An empty sequence has no element.
LEMMA EmptyElements == ElementsOf(<<>>) = {} /\ Distinct(<<>>)
BY DEF ElementsOf, Distinct

\* The head of a sequence without repetition is gone from its tail.
LEMMA TailElements ==
  ASSUME NEW S, NEW s \in Seq(S), s # <<>>, Distinct(s)
  PROVE  /\ Tail(s) \in Seq(S) /\ Head(s) \in S /\ Head(s) \in ElementsOf(s)
         /\ Distinct(Tail(s)) /\ ElementsOf(Tail(s)) = ElementsOf(s) \ {Head(s)}
<1>1. PICK n \in Nat : n >= 1 /\ Len(s) = n
  BY EmptySeq
<1>2. /\ DOMAIN s = 1 .. n /\ 1 \in 1 .. n /\ Head(s) = s[1] /\ s[1] \in S
      /\ Tail(s) \in Seq(S) /\ DOMAIN Tail(s) = 1 .. n - 1
      /\ \A i \in 1 .. n - 1 : Tail(s)[i] = s[i + 1] /\ i + 1 \in 1 .. n
  BY <1>1
<1>3. Distinct(Tail(s))
  BY <1>1, <1>2 DEF Distinct
<1>4. ElementsOf(Tail(s)) \subseteq ElementsOf(s) \ {Head(s)}
  <2> SUFFICES ASSUME NEW i \in 1 .. n - 1 PROVE Tail(s)[i] \in ElementsOf(s) \ {Head(s)}
    BY <1>2 DEF ElementsOf
  <2>1. Tail(s)[i] = s[i + 1] /\ i + 1 \in 1 .. n /\ i + 1 # 1
    BY <1>2
  <2> QED
    BY <1>2, <2>1 DEF ElementsOf, Distinct
<1>5. ElementsOf(s) \ {Head(s)} \subseteq ElementsOf(Tail(s))
  <2> SUFFICES ASSUME NEW i \in 1 .. n, s[i] # s[1] PROVE s[i] \in ElementsOf(Tail(s))
    BY <1>2 DEF ElementsOf
  <2>1. i - 1 \in 1 .. n - 1 /\ (i - 1) + 1 = i
    OBVIOUS
  <2>2. Tail(s)[i - 1] = s[i]
    BY <1>2, <2>1
  <2> QED
    BY <1>2, <2>1, <2>2 DEF ElementsOf
<1> QED
  BY <1>2, <1>3, <1>4, <1>5 DEF ElementsOf

\* An element pushed to the front joins the others.
LEMMA PushElements ==
  ASSUME NEW S, NEW s \in Seq(S), NEW x \in S
  PROVE  /\ <<x>> \o s \in Seq(S) /\ ElementsOf(<<x>> \o s) = ElementsOf(s) \union {x}
         /\ Distinct(s) /\ x \notin ElementsOf(s) => Distinct(<<x>> \o s)
<1> DEFINE n == Len(s)
<1> DEFINE t == <<x>> \o s
<1>1. /\ n \in Nat /\ DOMAIN s = 1 .. n /\ t \in Seq(S) /\ DOMAIN t = 1 .. n + 1
      /\ 1 \in 1 .. n + 1 /\ t[1] = x
      /\ \A i \in 1 .. n : t[i + 1] = s[i] /\ i + 1 \in 1 .. n + 1
  OBVIOUS
<1> HIDE DEF n, t
<1>2. \A i \in 1 .. n + 1 : i = 1 \/ (i - 1 \in 1 .. n /\ t[i] = s[i - 1])
  <2> TAKE i \in 1 .. n + 1
  <2>1. CASE i # 1
    <3>1. i - 1 \in 1 .. n /\ (i - 1) + 1 = i
      BY <1>1, <2>1
    <3> QED
      BY <1>1, <3>1
  <2> QED
    BY <2>1
<1>3. ElementsOf(t) = ElementsOf(s) \union {x}
  <2>1. ElementsOf(t) \subseteq ElementsOf(s) \union {x}
    <3>1. \A k \in 1 .. n : s[k] \in ElementsOf(s)
      BY <1>1 DEF ElementsOf
    <3>2. \A i \in 1 .. n + 1 : t[i] \in ElementsOf(s) \union {x}
      BY <1>1, <1>2, <3>1
    <3> QED
      BY <1>1, <3>2 DEF ElementsOf
  <2>2. \A i \in 1 .. n : s[i] \in ElementsOf(t)
    BY <1>1 DEF ElementsOf
  <2>3. x \in ElementsOf(t)
    BY <1>1 DEF ElementsOf
  <2>4. ElementsOf(s) \subseteq ElementsOf(t)
    BY <1>1, <2>2 DEF ElementsOf
  <2> QED
    BY <2>1, <2>3, <2>4
<1>4. ASSUME Distinct(s), x \notin ElementsOf(s) PROVE Distinct(t)
  <2> SUFFICES ASSUME NEW i \in 1 .. n + 1, NEW j \in 1 .. n + 1, t[i] = t[j] PROVE i = j
    BY <1>1 DEF Distinct
  <2>1. \A k \in 1 .. n : s[k] # x
    BY <1>1, <1>4 DEF ElementsOf
  <2>2. CASE i = 1 \/ j = 1
    BY <1>1, <1>2, <2>1, <2>2
  <2>3. CASE i # 1 /\ j # 1
    <3>1. i - 1 \in 1 .. n /\ j - 1 \in 1 .. n /\ s[i - 1] = s[j - 1]
      BY <1>2, <2>3
    <3>2. i - 1 = j - 1
      BY <1>1, <1>4, <3>1 DEF Distinct
    <3> QED
      BY <3>2
  <2> QED
    BY <2>2, <2>3
<1> QED
  BY <1>1, <1>3, <1>4 DEF t

\* An element appended to the end joins the others.
LEMMA AppendElements ==
  ASSUME NEW S, NEW s \in Seq(S), NEW x \in S
  PROVE  /\ Append(s, x) \in Seq(S) /\ ElementsOf(Append(s, x)) = ElementsOf(s) \union {x}
         /\ Distinct(s) /\ x \notin ElementsOf(s) => Distinct(Append(s, x))
<1> DEFINE n == Len(s)
<1> DEFINE t == Append(s, x)
<1>1. /\ n \in Nat /\ DOMAIN s = 1 .. n /\ t \in Seq(S) /\ DOMAIN t = 1 .. n + 1
      /\ n + 1 \in 1 .. n + 1 /\ t[n + 1] = x
      /\ \A i \in 1 .. n : t[i] = s[i] /\ i \in 1 .. n + 1
  OBVIOUS
<1> HIDE DEF n, t
<1>2. \A i \in 1 .. n + 1 : i = n + 1 \/ i \in 1 .. n
  BY <1>1
<1>3. ElementsOf(t) = ElementsOf(s) \union {x}
  BY <1>1, <1>2 DEF ElementsOf
<1>4. ASSUME Distinct(s), x \notin ElementsOf(s) PROVE Distinct(t)
  BY <1>1, <1>2, <1>4 DEF ElementsOf, Distinct
<1> QED
  BY <1>1, <1>3, <1>4 DEF t

\* A sequence of one.
LEMMA SingleElements ==
  ASSUME NEW S, NEW x \in S
  PROVE  <<x>> \in Seq(S) /\ ElementsOf(<<x>>) = {x} /\ Distinct(<<x>>)
<1>1. <<x>> \in Seq(S) /\ DOMAIN <<x>> = 1 .. 1 /\ <<x>>[1] = x
  OBVIOUS
<1> QED
  BY <1>1 DEF ElementsOf, Distinct

\* An Enqueue adds its node, and cuts off what it says.
LEMMA EnqueuedElements ==
  ASSUME NEW S \in SUBSET Nodes, NEW q \in QueueRecord, q.items \in Seq(S), Distinct(q.items),
         NEW n \in S, n \notin ElementsOf(q.items)
  PROVE  /\ Enqueued(q, n) \in QueueRecord /\ Enqueued(q, n).items \in Seq(S)
         /\ Distinct(Enqueued(q, n).items)
         /\ ElementsOf(Enqueued(q, n).items) = (ElementsOf(q.items) \ CutOff(q)) \union {n}
         /\ CutOff(q) \subseteq ElementsOf(q.items)
<1> DEFINE e == IF q.hasTail THEN Append(q.items, n) ELSE <<n>>
<1>1. Enqueued(q, n) = [items |-> e, hasTail |-> TRUE]
  BY DEF Enqueued
<1>2. /\ e \in Seq(S) /\ Distinct(e)
      /\ ElementsOf(e) = (ElementsOf(q.items) \ CutOff(q)) \union {n}
  <2>1. CASE q.hasTail
    <3>1. e = Append(q.items, n) /\ CutOff(q) = {}
      BY <2>1 DEF CutOff
    <3>2. /\ Append(q.items, n) \in Seq(S) /\ Distinct(Append(q.items, n))
          /\ ElementsOf(Append(q.items, n)) = ElementsOf(q.items) \union {n}
      BY AppendElements
    <3> QED
      BY <3>1, <3>2
  <2>2. CASE ~q.hasTail
    <3>1. e = <<n>> /\ CutOff(q) = ElementsOf(q.items)
      BY <2>2 DEF CutOff, ElementsOf
    <3> QED
      BY <3>1, SingleElements
  <2> QED
    BY <2>1, <2>2
<1> HIDE DEF e
<1>3. e \in Seq(Nodes)
  BY <1>2, SeqMonotonic
<1>4. CutOff(q) \subseteq ElementsOf(q.items)
  BY DEF CutOff, ElementsOf
<1> QED
  BY <1>1, <1>2, <1>3, <1>4 DEF QueueRecord

\* TryDequeue takes the first node out of a queue.
LEMMA DequeuedElements ==
  ASSUME NEW S \in SUBSET Nodes, NEW q \in QueueRecord, q.items \in Seq(S), Distinct(q.items),
         q.items # <<>>
  PROVE  /\ Dequeued(q) \in QueueRecord /\ Dequeued(q).items \in Seq(S)
         /\ Distinct(Dequeued(q).items)
         /\ ElementsOf(Dequeued(q).items) = ElementsOf(q.items) \ {Head(q.items)}
         /\ Head(q.items) \in S /\ Head(q.items) \in ElementsOf(q.items)
<1>1. /\ Tail(q.items) \in Seq(S) /\ Head(q.items) \in S /\ Head(q.items) \in ElementsOf(q.items)
      /\ Distinct(Tail(q.items)) /\ ElementsOf(Tail(q.items)) = ElementsOf(q.items) \ {Head(q.items)}
  BY TailElements
<1>2. Tail(q.items) \in Seq(Nodes)
  BY <1>1, SeqMonotonic
<1>3. (q.hasTail /\ Len(q.items) > 1) \in BOOLEAN
  OBVIOUS
<1>4. Dequeued(q).items = Tail(q.items) /\ Dequeued(q) \in QueueRecord
  BY <1>2 DEF Dequeued, QueueRecord
<1> QED
  BY <1>1, <1>4

\* PushFront puts a node into a queue.
LEMMA PushedElements ==
  ASSUME NEW S \in SUBSET Nodes, NEW q \in QueueRecord, q.items \in Seq(S), Distinct(q.items),
         NEW n \in S, n \notin ElementsOf(q.items)
  PROVE  /\ PushedFront(q, n) \in QueueRecord /\ PushedFront(q, n).items \in Seq(S)
         /\ Distinct(PushedFront(q, n).items)
         /\ ElementsOf(PushedFront(q, n).items) = ElementsOf(q.items) \union {n}
<1>1. /\ <<n>> \o q.items \in Seq(S) /\ ElementsOf(<<n>> \o q.items) = ElementsOf(q.items) \union {n}
      /\ Distinct(<<n>> \o q.items)
  BY PushElements
<1>2. <<n>> \o q.items \in Seq(Nodes)
  BY <1>1, SeqMonotonic
<1>3. PushedFront(q, n).items = <<n>> \o q.items /\ PushedFront(q, n) \in QueueRecord
  BY <1>2 DEF PushedFront, QueueRecord
<1> QED
  BY <1>1, <1>3

-----------------------------------------------------------------------------
(* The constants.                                                          *)

\* None is neither a worker nor a node nor a group, and no fiber is a job.
LEMMA NoneApart ==
  /\ None \notin Workers /\ None \notin Fibers /\ None \notin Jobs /\ None \notin Groups
  /\ None \notin Nodes /\ Fibers \intersect Jobs = {}
BY JobSystemAssumption DEF Nodes

\* What a job or a fiber asks for names a queue.
LEMMA OwnerIsQueue ==
  ASSUME NEW kind \in {"job", "fiber"}, NEW p \in Priorities, NEW a \in Affinities
  PROVE  <<kind, p, OwnerOf(a)>> \in QueueIds
BY DEF OwnerOf, Affinities, QueueIds, Pools

\* The three queues of a worker are three.
LEMMA ThreeQueues ==
  ASSUME NEW kind \in {"job", "fiber"}, NEW w \in Workers, worker[w].level \in Priorities
  PROVE  /\ \A i \in 1 .. 3 : QueuesOf(kind, w)[i] \in QueueIds /\ QueuesOf(kind, w)[i][1] = kind
         /\ \A i, j \in 1 .. 3 : QueuesOf(kind, w)[i] = QueuesOf(kind, w)[j] => i = j
<1> DEFINE p == worker[w].level
<1>1. /\ w \notin Pools /\ PoolOf[w] \in {"foreground", "background"}
  BY JobSystemAssumption
<1>2. /\ QueuesOf(kind, w)[1] = <<kind, p, w>> /\ QueuesOf(kind, w)[2] = <<kind, p, "generic">>
      /\ QueuesOf(kind, w)[3] = <<kind, p, PoolOf[w]>>
  BY DEF QueuesOf
<1>3. 1 .. 3 = {1, 2, 3}
  OBVIOUS
<1>4. /\ w # "generic" /\ w # PoolOf[w] /\ PoolOf[w] # "generic"
  BY <1>1 DEF Pools
<1>5. \A i \in 1 .. 3 : QueuesOf(kind, w)[i] \in QueueIds /\ QueuesOf(kind, w)[i][1] = kind
  BY <1>1, <1>2, <1>3 DEF QueueIds, Pools
<1> QED
  BY <1>2, <1>3, <1>4, <1>5

-----------------------------------------------------------------------------
(* The records, field by field.                                            *)

\* What the fields of a worker are.
LEMMA WorkerFields ==
  ASSUME NEW r \in WorkerRecord
  PROVE  /\ r.current \in Fibers \union {None} /\ r.prev \in Fibers \union {None}
         /\ r.lastWait \in Fibers \union {None} /\ r.affinity \in Affinities \union {"none"}
         /\ r.exitContext \in {"thread", "fiber", None} /\ r.level \in Priorities
         /\ r.attempt \in 0 .. Attempts /\ r.looked \in 0 .. 3
         /\ r.held \in [1 .. 3 -> Nodes \union {None}]
         /\ r.signaled \in Groups \union {None} /\ r.drain \in Seq(Fibers)
BY DEF WorkerRecord

\* What the fields of a fiber are.
LEMMA FiberFields ==
  ASSUME NEW r \in FiberRecord
  PROVE  /\ r.free \in BOOLEAN /\ r.context \in {"saved", "running"}
         /\ r.resume \in {"entry", "loop", "wait"} /\ r.job \in Jobs \union {None} /\ r.ip \in Nat
         /\ r.waiting \in BOOLEAN /\ r.affinity \in Affinities \union {"none"}
         /\ r.priority \in Priorities /\ r.hint \in Nat
BY DEF FiberRecord

\* Two workers that differ in what they hold, where they look or what they wake.
SameFibers(r, s) == s.current = r.current /\ s.prev = r.prev /\ s.lastWait = r.lastWait

\* A worker that looks into another queue.
LEMMA WorkerLooked ==
  ASSUME NEW r \in WorkerRecord, NEW x, x \in 0 .. 3
  PROVE  LET s == [r EXCEPT !.looked = x] IN
         /\ s \in WorkerRecord /\ SameFibers(r, s) /\ s.level = r.level /\ s.held = r.held
         /\ s.looked = x /\ s.attempt = r.attempt
         /\ s.drain = r.drain /\ s.affinity = r.affinity /\ s.signaled = r.signaled
BY DEF WorkerRecord, SameFibers

\* Hands that hold something.
LEMMA SomethingHeld ==
  ASSUME NEW h \in [1 .. 3 -> Nodes \union {None}]
  PROVE  h = NothingHeld <=> \A i \in 1 .. 3 : h[i] = None
<1>1. ASSUME \A i \in 1 .. 3 : h[i] = None PROVE h = <<None, None, None>>
  BY <1>1
<1>2. \A i \in 1 .. 3 : <<None, None, None>>[i] = None
  OBVIOUS
<1> QED
  BY <1>1, <1>2 DEF NothingHeld

LEMMA HoldsSomething ==
  ASSUME NEW w \in Workers, worker[w] \in WorkerRecord, worker[w].held # NothingHeld
  PROVE  \E i \in 1 .. 3 : worker[w].held[i] # None
BY SomethingHeld, WorkerFields

\* A worker with other nodes in its hands.
LEMMA WorkerHeld ==
  ASSUME NEW r \in WorkerRecord, NEW x \in [1 .. 3 -> Nodes \union {None}]
  PROVE  LET s == [r EXCEPT !.held = x] IN
         /\ s \in WorkerRecord /\ SameFibers(r, s) /\ s.level = r.level /\ s.held = x
         /\ s.drain = r.drain /\ s.affinity = r.affinity /\ s.signaled = r.signaled
BY DEF WorkerRecord, SameFibers

\* A worker that has signalled a group.
LEMMA WorkerSignaled ==
  ASSUME NEW r \in WorkerRecord, NEW x \in Groups \union {None}
  PROVE  LET s == [r EXCEPT !.signaled = x] IN
         /\ s \in WorkerRecord /\ SameFibers(r, s) /\ s.level = r.level /\ s.held = r.held
         /\ s.drain = r.drain /\ s.affinity = r.affinity /\ s.signaled = x
BY DEF WorkerRecord, SameFibers

\* A worker with other fibers to wake.
LEMMA WorkerDrain ==
  ASSUME NEW r \in WorkerRecord, NEW x \in Seq(Fibers)
  PROVE  LET s == [r EXCEPT !.drain = x] IN
         /\ s \in WorkerRecord /\ SameFibers(r, s) /\ s.level = r.level /\ s.held = r.held
         /\ s.drain = x /\ s.affinity = r.affinity /\ s.signaled = r.signaled
BY DEF WorkerRecord, SameFibers

\* A worker that has cleaned up after a switch.
LEMMA WorkerLetsGo ==
  ASSUME NEW r \in WorkerRecord
  PROVE  LET s == [r EXCEPT !.prev = None, !.lastWait = None] IN
         /\ s \in WorkerRecord /\ s.current = r.current /\ s.prev = None /\ s.lastWait = None
         /\ s.level = r.level /\ s.held = r.held
         /\ s.drain = r.drain /\ s.affinity = r.affinity /\ s.signaled = r.signaled
BY DEF WorkerRecord

\* One worker's record becomes another.
LEMMA OneWorker ==
  ASSUME Types, NEW w \in Workers, NEW s \in WorkerRecord, worker' = [worker EXCEPT ![w] = s]
  PROVE  /\ worker' \in [Workers -> WorkerRecord] /\ worker'[w] = s
         /\ \A v \in Workers : v # w => worker'[v] = worker[v]
BY DEF Types

\* One worker goes to a label.
LEMMA OnePc ==
  ASSUME Types, NEW w \in Workers, NEW label \in Labels, Goto(w, label)
  PROVE  /\ pc' \in [Workers -> Labels] /\ pc'[w] = label
         /\ \A v \in Workers : v # w => pc'[v] = pc[v]
BY DEF Types, Goto

\* One fiber changes.
LEMMA OneFiber ==
  ASSUME Types, NEW f \in Fibers, NEW s \in FiberRecord, fiber' = [fiber EXCEPT ![f] = s]
  PROVE  /\ fiber' \in [Fibers -> FiberRecord] /\ fiber'[f] = s
         /\ \A g \in Fibers : g # f => fiber'[g] = fiber[g]
BY DEF Types

\* Two fibers that differ in what they execute or in their place in the order.
SameFrame(r, s) ==
  /\ s.free = r.free /\ s.context = r.context /\ s.resume = r.resume /\ s.waiting = r.waiting
  /\ s.affinity = r.affinity /\ s.priority = r.priority

\* A fiber at another operation.
LEMMA FiberIp ==
  ASSUME NEW r \in FiberRecord, NEW x \in Nat
  PROVE  LET s == [r EXCEPT !.ip = x] IN
         s \in FiberRecord /\ SameFrame(r, s) /\ s.job = r.job /\ s.ip = x /\ s.hint = r.hint
BY DEF FiberRecord, SameFrame

\* A fiber with another order hint.
LEMMA FiberHint ==
  ASSUME NEW r \in FiberRecord, NEW x \in Nat
  PROVE  LET s == [r EXCEPT !.hint = x] IN
         s \in FiberRecord /\ SameFrame(r, s) /\ s.job = r.job /\ s.ip = r.ip /\ s.hint = x
BY DEF FiberRecord, SameFrame

\* A fiber whose context was saved or entered.
LEMMA FiberContext ==
  ASSUME NEW r \in FiberRecord, NEW x \in {"saved", "running"}
  PROVE  LET s == [r EXCEPT !.context = x] IN
         /\ s \in FiberRecord /\ s.free = r.free /\ s.context = x /\ s.resume = r.resume
         /\ s.waiting = r.waiting /\ s.affinity = r.affinity /\ s.priority = r.priority
         /\ s.job = r.job /\ s.ip = r.ip /\ s.hint = r.hint
BY DEF FiberRecord

\* A fiber that was entered.
LEMMA FiberEntered ==
  ASSUME NEW r \in FiberRecord
  PROVE  LET s == [r EXCEPT !.context = "running", !.free = FALSE] IN
         /\ s \in FiberRecord /\ s.free = FALSE /\ s.context = "running" /\ s.resume = r.resume
         /\ s.waiting = r.waiting /\ s.affinity = r.affinity /\ s.priority = r.priority
         /\ s.job = r.job /\ s.ip = r.ip /\ s.hint = r.hint
BY DEF FiberRecord

\* A fiber that was left in the loop of FiberProc.
LEMMA FiberLeft ==
  ASSUME NEW r \in FiberRecord
  PROVE  LET s == [r EXCEPT !.resume = "loop"] IN
         /\ s \in FiberRecord /\ s.free = r.free /\ s.context = r.context /\ s.resume = "loop"
         /\ s.waiting = r.waiting /\ s.affinity = r.affinity /\ s.priority = r.priority
         /\ s.job = r.job /\ s.ip = r.ip /\ s.hint = r.hint
BY DEF FiberRecord

\* A fiber that was returned to the pool.
LEMMA FiberReturned ==
  ASSUME NEW r \in FiberRecord
  PROVE  LET s == [r EXCEPT !.free = TRUE] IN
         /\ s \in FiberRecord /\ s.free = TRUE /\ s.context = r.context /\ s.resume = r.resume
         /\ s.waiting = r.waiting /\ s.affinity = r.affinity /\ s.priority = r.priority
         /\ s.job = r.job /\ s.ip = r.ip /\ s.hint = r.hint
BY DEF FiberRecord

\* A fiber behind its Wait().
LEMMA FiberAwake ==
  ASSUME NEW r \in FiberRecord
  PROVE  LET s == [r EXCEPT !.waiting = FALSE, !.ip = @ + 1] IN
         /\ s \in FiberRecord /\ s.free = r.free /\ s.context = r.context /\ s.resume = r.resume
         /\ s.waiting = FALSE /\ s.affinity = r.affinity /\ s.priority = r.priority
         /\ s.job = r.job /\ s.ip = r.ip + 1 /\ s.hint = r.hint
<1>1. r.ip + 1 \in Nat
  BY FiberFields
<1> QED
  BY <1>1 DEF FiberRecord

-----------------------------------------------------------------------------
(* Who holds what, one node at a time.                                     *)

\* Holders of different kinds are different.
LEMMA TagsDiffer ==
  ASSUME NEW a, NEW b, NEW c
  PROVE  /\ <<"queue", a>> # <<"held", b, c>> /\ <<"drain", a>> # <<"held", b, c>>
         /\ <<"list", a>> # <<"held", b, c>>
         /\ <<"queue", a>> # <<"drain", b>> /\ <<"queue", a>> # <<"list", b>>
         /\ <<"drain", a>> # <<"list", b>>
<1>1. /\ <<"queue", a>>[1] = "queue" /\ <<"drain", a>>[1] = "drain" /\ <<"list", a>>[1] = "list"
      /\ <<"drain", b>>[1] = "drain" /\ <<"list", b>>[1] = "list" /\ <<"held", b, c>>[1] = "held"
  OBVIOUS
<1> QED
  BY <1>1

\* When a place holds a node, in any state.
LEMMA HolderIn ==
  ASSUME NEW n, NEW qs, NEW ws, NEW gs
  PROVE  LET H == HoldersIn(n, qs, ws, gs) IN
         /\ \A q \in QueueIds : <<"queue", q>> \in H <=> n \in ElementsOf(qs[q].items)
         /\ \A w \in Workers, i \in 1 .. 3 : <<"held", w, i>> \in H <=> ws[w].held[i] = n
         /\ \A w \in Workers : <<"drain", w>> \in H <=> n \in ElementsOf(ws[w].drain)
         /\ \A g \in Groups : <<"list", g>> \in H <=> n \in ElementsOf(gs[g].list)
<1> DEFINE H == HoldersIn(n, qs, ws, gs)
<1>1. \A q \in QueueIds : <<"queue", q>> \in H <=> n \in ElementsOf(qs[q].items)
  BY DEF HoldersIn
<1>2. \A w \in Workers, i \in 1 .. 3 : <<"held", w, i>> \in H <=> ws[w].held[i] = n
  BY DEF HoldersIn
<1>3. \A w \in Workers : <<"drain", w>> \in H <=> n \in ElementsOf(ws[w].drain)
  BY DEF HoldersIn
<1>4. \A g \in Groups : <<"list", g>> \in H <=> n \in ElementsOf(gs[g].list)
  BY DEF HoldersIn
<1> QED
  BY <1>1, <1>2, <1>3, <1>4

\* What a holder of a node looks like, in any state.
LEMMA HolderForms ==
  ASSUME NEW n, NEW qs, NEW ws, NEW gs, NEW t \in HoldersIn(n, qs, ws, gs)
  PROVE  \/ \E q \in QueueIds : t = <<"queue", q>> /\ n \in ElementsOf(qs[q].items)
         \/ \E w \in Workers, i \in 1 .. 3 : t = <<"held", w, i>> /\ ws[w].held[i] = n
         \/ \E w \in Workers : t = <<"drain", w>> /\ n \in ElementsOf(ws[w].drain)
         \/ \E g \in Groups : t = <<"list", g>> /\ n \in ElementsOf(gs[g].list)
<1>1. CASE t \in {x \in {"queue"} \X QueueIds : n \in ElementsOf(qs[x[2]].items)}
  BY <1>1
<1>2. CASE t \in {x \in {"held"} \X Workers \X (1 .. 3) : ws[x[2]].held[x[3]] = n}
  BY <1>2
<1>3. CASE t \in {x \in {"drain"} \X Workers : n \in ElementsOf(ws[x[2]].drain)}
  BY <1>3
<1>4. CASE t \in {x \in {"list"} \X Groups : n \in ElementsOf(gs[x[2]].list)}
  BY <1>4
<1> QED
  BY <1>1, <1>2, <1>3, <1>4 DEF HoldersIn

\* When a place holds a node.
LEMMA HolderIs ==
  ASSUME NEW n
  PROVE  /\ \A q \in QueueIds : <<"queue", q>> \in HoldersOf(n) <=> n \in ElementsOf(queues[q].items)
         /\ \A w \in Workers, i \in 1 .. 3 : <<"held", w, i>> \in HoldersOf(n) <=> worker[w].held[i] = n
         /\ \A w \in Workers : <<"drain", w>> \in HoldersOf(n) <=> n \in ElementsOf(worker[w].drain)
         /\ \A g \in Groups : <<"list", g>> \in HoldersOf(n) <=> n \in ElementsOf(group[g].list)
BY HolderIn DEF HoldersOf

\* The same after a step.
LEMMA HolderIsNext ==
  ASSUME NEW n
  PROVE  /\ \A q \in QueueIds : <<"queue", q>> \in HoldersOf(n)' <=> n \in ElementsOf(queues'[q].items)
         /\ \A w \in Workers, i \in 1 .. 3 : <<"held", w, i>> \in HoldersOf(n)' <=> worker'[w].held[i] = n
         /\ \A w \in Workers : <<"drain", w>> \in HoldersOf(n)' <=> n \in ElementsOf(worker'[w].drain)
         /\ \A g \in Groups : <<"list", g>> \in HoldersOf(n)' <=> n \in ElementsOf(group'[g].list)
BY HolderIn DEF HoldersOf

\* What a holder of a node looks like.
LEMMA HolderForm ==
  ASSUME NEW n, NEW t \in HoldersOf(n)
  PROVE  \/ \E q \in QueueIds : t = <<"queue", q>> /\ n \in ElementsOf(queues[q].items)
         \/ \E w \in Workers, i \in 1 .. 3 : t = <<"held", w, i>> /\ worker[w].held[i] = n
         \/ \E w \in Workers : t = <<"drain", w>> /\ n \in ElementsOf(worker[w].drain)
         \/ \E g \in Groups : t = <<"list", g>> /\ n \in ElementsOf(group[g].list)
BY HolderForms DEF HoldersOf

\* The same in the next state.
LEMMA HolderFormNext ==
  ASSUME NEW n, NEW t \in HoldersOf(n)'
  PROVE  \/ \E q \in QueueIds : t = <<"queue", q>> /\ n \in ElementsOf(queues'[q].items)
         \/ \E w \in Workers, i \in 1 .. 3 : t = <<"held", w, i>> /\ worker'[w].held[i] = n
         \/ \E w \in Workers : t = <<"drain", w>> /\ n \in ElementsOf(worker'[w].drain)
         \/ \E g \in Groups : t = <<"list", g>> /\ n \in ElementsOf(group'[g].list)
BY HolderForms DEF HoldersOf

\* Same contents, same holders.
LEMMA HoldersKept ==
  ASSUME NEW n,
         \A q \in QueueIds : n \in ElementsOf(queues'[q].items) <=> n \in ElementsOf(queues[q].items),
         \A w \in Workers, i \in 1 .. 3 : worker'[w].held[i] = n <=> worker[w].held[i] = n,
         \A w \in Workers : n \in ElementsOf(worker'[w].drain) <=> n \in ElementsOf(worker[w].drain),
         \A g \in Groups : n \in ElementsOf(group'[g].list) <=> n \in ElementsOf(group[g].list)
  PROVE  HoldersOf(n)' = HoldersOf(n)
<1>1. ASSUME NEW t \in HoldersOf(n)' PROVE t \in HoldersOf(n)
  <2>1. \/ \E q \in QueueIds : t = <<"queue", q>> /\ n \in ElementsOf(queues'[q].items)
        \/ \E w \in Workers, i \in 1 .. 3 : t = <<"held", w, i>> /\ worker'[w].held[i] = n
        \/ \E w \in Workers : t = <<"drain", w>> /\ n \in ElementsOf(worker'[w].drain)
        \/ \E g \in Groups : t = <<"list", g>> /\ n \in ElementsOf(group'[g].list)
    BY HolderFormNext
  <2>2. CASE \E q \in QueueIds : t = <<"queue", q>> /\ n \in ElementsOf(queues'[q].items)
    BY <2>2, HolderIs
  <2>3. CASE \E w \in Workers, i \in 1 .. 3 : t = <<"held", w, i>> /\ worker'[w].held[i] = n
    <3>1. PICK w \in Workers, i \in 1 .. 3 : t = <<"held", w, i>> /\ worker'[w].held[i] = n
      BY <2>3
    <3>2. worker[w].held[i] = n
      BY <3>1
    <3>3. <<"held", w, i>> \in HoldersOf(n)
      BY <3>2, HolderIs
    <3> QED
      BY <3>1, <3>3
  <2>4. CASE \E w \in Workers : t = <<"drain", w>> /\ n \in ElementsOf(worker'[w].drain)
    BY <2>4, HolderIs
  <2>5. CASE \E g \in Groups : t = <<"list", g>> /\ n \in ElementsOf(group'[g].list)
    BY <2>5, HolderIs
  <2> QED
    BY <2>1, <2>2, <2>3, <2>4, <2>5
<1>2. ASSUME NEW t \in HoldersOf(n) PROVE t \in HoldersOf(n)'
  <2>1. \/ \E q \in QueueIds : t = <<"queue", q>> /\ n \in ElementsOf(queues[q].items)
        \/ \E w \in Workers, i \in 1 .. 3 : t = <<"held", w, i>> /\ worker[w].held[i] = n
        \/ \E w \in Workers : t = <<"drain", w>> /\ n \in ElementsOf(worker[w].drain)
        \/ \E g \in Groups : t = <<"list", g>> /\ n \in ElementsOf(group[g].list)
    BY HolderForm
  <2>2. CASE \E q \in QueueIds : t = <<"queue", q>> /\ n \in ElementsOf(queues[q].items)
    BY <2>2, HolderIsNext
  <2>3. CASE \E w \in Workers, i \in 1 .. 3 : t = <<"held", w, i>> /\ worker[w].held[i] = n
    <3>1. PICK w \in Workers, i \in 1 .. 3 : t = <<"held", w, i>> /\ worker[w].held[i] = n
      BY <2>3
    <3>2. worker'[w].held[i] = n
      BY <3>1
    <3>3. <<"held", w, i>> \in HoldersOf(n)'
      BY <3>2, HolderIsNext
    <3> QED
      BY <3>1, <3>3
  <2>4. CASE \E w \in Workers : t = <<"drain", w>> /\ n \in ElementsOf(worker[w].drain)
    BY <2>4, HolderIsNext
  <2>5. CASE \E g \in Groups : t = <<"list", g>> /\ n \in ElementsOf(group[g].list)
    BY <2>5, HolderIsNext
  <2> QED
    BY <2>1, <2>2, <2>3, <2>4, <2>5
<1> QED
  BY <1>1, <1>2

\* Nobody holds it any more.
LEMMA HoldersGone ==
  ASSUME NEW n,
         \A q \in QueueIds : n \notin ElementsOf(queues'[q].items),
         \A w \in Workers, i \in 1 .. 3 : worker'[w].held[i] # n,
         \A w \in Workers : n \notin ElementsOf(worker'[w].drain),
         \A g \in Groups : n \notin ElementsOf(group'[g].list)
  PROVE  HoldersOf(n)' = {}
<1> SUFFICES ASSUME NEW t \in HoldersOf(n)' PROVE FALSE
  OBVIOUS
<1> QED
  BY HolderFormNext

-----------------------------------------------------------------------------
(* What a step leaves alone.                                               *)

\* Where a worker's place matters to its fibers.
AtFiber == {"update", "mark", "park", "run"}

\* The step changes nothing of who runs which fiber.
SameRoles ==
  /\ \A v \in Workers : SameFibers(worker[v], worker'[v])
  /\ \A v \in Workers : pc'[v] = pc[v] \/ (pc[v] \notin AtFiber /\ pc'[v] \notin AtFiber)
  /\ \A f \in Fibers : SameFrame(fiber[f], fiber'[f])

\* Nor of which fiber carries which job, and how far it is.
SameJobs ==
  /\ \A f \in Fibers : fiber'[f].job = fiber[f].job /\ fiber'[f].ip >= fiber[f].ip
  /\ \A j \in Jobs : job'[j].state = job[j].state

\* Where workers keep their fibers, the fibers keep their roles.
LEMMA RolesKept ==
  ASSUME Types, Types', SameRoles, PoolIsFree, RunningFibers, LeavingFibers, FramesOfJobs,
         \A f \in Fibers : fiber'[f].job = fiber[f].job /\ fiber'[f].ip >= fiber[f].ip
  PROVE  /\ PoolIsFree' /\ RunningFibers' /\ LeavingFibers' /\ FramesOfJobs'
         /\ \A f \in Fibers : Resuming(f)' = Resuming(f)
<1>1. \A v \in Workers : /\ worker'[v].current = worker[v].current
                         /\ worker'[v].prev = worker[v].prev /\ worker'[v].lastWait = worker[v].lastWait
  BY DEF SameRoles, SameFibers
<1>2. \A v \in Workers : \A l \in AtFiber : pc'[v] = l <=> pc[v] = l
  BY DEF SameRoles, AtFiber
<1>3. \A f \in Fibers :
        /\ fiber'[f].free = fiber[f].free /\ fiber'[f].context = fiber[f].context
        /\ fiber'[f].resume = fiber[f].resume /\ fiber'[f].waiting = fiber[f].waiting
        /\ fiber'[f].affinity = fiber[f].affinity
  BY DEF SameRoles, SameFrame
<1>4. \A v \in Workers : /\ pc'[v] = "update" <=> pc[v] = "update"
                         /\ pc'[v] = "mark" <=> pc[v] = "mark"
                         /\ pc'[v] = "park" <=> pc[v] = "park"
                         /\ pc'[v] = "run" <=> pc[v] = "run"
  BY <1>2 DEF AtFiber
<1>5. \A v \in Workers : Switching(v)' <=> Switching(v)
  BY <1>4 DEF Switching
<1>6. \A v \in Workers : worker[v].current \in Fibers \union {None}
  BY WorkerFields DEF Types
<1>7. PoolIsFree'
  BY <1>1, <1>3 DEF PoolIsFree, Free
<1>8. RunningFibers'
  <2>1. \A v, w \in Workers :
          worker'[v].current # None /\ worker'[v].current = worker'[w].current => v = w
    BY <1>1 DEF RunningFibers
  <2>2. \A w \in Workers : worker'[w].current # None =>
          LET f == worker'[w].current IN
          /\ fiber'[f].context = "running"
          /\ fiber'[f].waiting <=> pc'[w] = "park" \/ (Switching(w)' /\ fiber'[f].resume = "wait")
    BY <1>1, <1>3, <1>4, <1>5, <1>6 DEF RunningFibers
  <2> QED
    BY <2>1, <2>2 DEF RunningFibers
<1>9. LeavingFibers'
  <2>1. \A w \in Workers, f \in Fibers : Leaving(w, f)' <=> Leaving(w, f)
    BY <1>1, <1>4 DEF Leaving
  <2>2. \A v, w \in Workers : \A f \in Fibers : Leaving(v, f)' /\ Leaving(w, f)' => v = w
    BY <2>1 DEF LeavingFibers
  <2>3. \A w \in Workers : \A f \in Fibers : Leaving(w, f) =>
          /\ ~fiber'[f].free /\ \A v \in Workers : worker'[v].current # f
          /\ pc'[w] = "update" => fiber'[f].context = "running"
          /\ pc'[w] = "update" /\ worker'[w].lastWait # None => fiber'[f].waiting
          /\ worker'[w].lastWait = None => ~fiber'[f].waiting /\ fiber'[f].resume # "wait"
          /\ worker'[w].lastWait = None /\ pc'[w] = "mark" => fiber'[f].context = "saved"
    BY <1>1, <1>3, <1>4 DEF LeavingFibers
  <2> QED
    BY <2>1, <2>2, <2>3 DEF LeavingFibers
<1>10. FramesOfJobs'
  <2>1. \A f \in Fibers : fiber'[f].job # None
          <=> fiber'[f].waiting \/ \E w \in Workers : worker'[w].current = f /\ pc'[w] = "run"
    BY <1>1, <1>3, <1>4 DEF FramesOfJobs
  <2>2. \A f \in Fibers : fiber'[f].waiting =>
          fiber'[f].resume = "wait" /\ fiber'[f].affinity \in Affinities
    BY <1>3 DEF FramesOfJobs
  <2>3. \A f \in Fibers : fiber[f].ip \in Nat /\ fiber'[f].ip \in Nat
    BY FiberFields DEF Types
  <2>4. \A f \in Fibers : fiber'[f].job # None => fiber'[f].ip \in Nat \ {0}
    BY <2>3 DEF FramesOfJobs
  <2> QED
    BY <2>1, <2>2, <2>4 DEF FramesOfJobs
<1>11. \A f \in Fibers : Resuming(f)' = Resuming(f)
  BY <1>1, <1>4 DEF Resuming
<1> QED
  BY <1>7, <1>8, <1>9, <1>10, <1>11

\* Where jobs keep their state and frames only go on, jobs stay carried.
LEMMA JobsKept ==
  ASSUME Types, Types', SameJobs, JobsCarried, ScheduledBefore
  PROVE  JobsCarried' /\ ScheduledBefore'
<1>1. JobsCarried'
  BY DEF JobsCarried, SameJobs, Carried
<1>2. \A f \in Fibers : fiber[f].ip \in Nat /\ fiber'[f].ip \in Nat
  BY FiberFields DEF Types
<1>3. \A j \in Jobs : \A i \in DOMAIN Program[j] : Passed(j, i) => Passed(j, i)'
  <2> TAKE j \in Jobs
  <2>1. DOMAIN Program[j] \subseteq Nat
    BY JobSystemAssumption
  <2> QED
    BY <1>2, <2>1 DEF Passed, SameJobs
<1>4. \A j \in Jobs : \A i \in DOMAIN Program[j] : Schedules(j, i) => Program[j][i].job \in Jobs
  <2> TAKE j \in Jobs
  <2> TAKE i \in DOMAIN Program[j]
  <2>1. Program[j][i] \in Operations
    BY JobSystemAssumption
  <2> QED
    BY <2>1 DEF Schedules, Operations
<1>5. ScheduledBefore'
  BY <1>3, <1>4 DEF ScheduledBefore, SameJobs
<1> QED
  BY <1>1, <1>5

\* Nobody's node is taken from everybody, and nobody's becomes somebody's.
LEMMA HeldKept ==
  ASSUME WaitingFibers, JobsHeld, lost' = lost,
         \A f \in Fibers : fiber'[f].waiting = fiber[f].waiting /\ Resuming(f)' = Resuming(f),
         \A j \in Jobs : job'[j].state = job[j].state,
         \A n \in Nodes : HoldersOf(n)' = {} <=> HoldersOf(n) = {}
  PROVE  WaitingFibers' /\ JobsHeld'
<1>1. WaitingFibers'
  BY DEF WaitingFibers, Nodes
<1>2. JobsHeld'
  BY DEF JobsHeld, Nodes
<1> QED
  BY <1>1, <1>2

\* What the other workers have in their hands stays there.
LEMMA HandsKept ==
  ASSUME Hands, NEW w \in Workers, HandsOf(w)',
         \A v \in Workers : v # w =>
           /\ pc'[v] = pc[v] /\ worker'[v] = worker[v]
           /\ Switching(v) => fiber'[worker[v].current].waiting = fiber[worker[v].current].waiting
  PROVE  Hands'
<1> SUFFICES ASSUME NEW v \in Workers, v # w PROVE HandsOf(v)'
  BY DEF Hands
<1>1. HandsOf(v)
  BY DEF Hands
<1>2. /\ pc'[v] = pc[v] /\ worker'[v] = worker[v] /\ (Switching(v)' <=> Switching(v))
      /\ Switching(v) => fiber'[worker[v].current].waiting = fiber[worker[v].current].waiting
  BY DEF Switching
<1> QED
  BY <1>1, <1>2 DEF HandsOf

\* A worker that switches has a fiber.
LEMMA SwitchingHasFiber ==
  ASSUME Types, Hands
  PROVE  \A v \in Workers : Switching(v) => worker[v].current \in Fibers
<1> TAKE v \in Workers
<1>1. HandsOf(v) /\ worker[v].current \in Fibers \union {None}
  BY WorkerFields DEF Hands, Types
<1> QED
  BY <1>1 DEF HandsOf, Switching

\* The holders of each node are fewer than they were, or one.
LEMMA OneHolderKept ==
  ASSUME \A n \in Nodes : \/ HoldersOf(n)' \subseteq HoldersOf(n) /\ OneHolder
                          \/ \E t : HoldersOf(n)' \subseteq {t},
         \A q \in QueueIds : Distinct(queues'[q].items),
         \A w \in Workers : Distinct(worker'[w].drain),
         \A g \in Groups : Distinct(group'[g].list)
  PROVE  OneHolder'
<1> SUFFICES ASSUME NEW n \in Nodes, NEW s \in HoldersOf(n)', NEW t \in HoldersOf(n)' PROVE s = t
  BY DEF OneHolder
<1>1. CASE HoldersOf(n)' \subseteq HoldersOf(n) /\ OneHolder
  BY <1>1 DEF OneHolder
<1> QED
  BY <1>1

\* A step that moves nodes between their holders, or none, and leaves the rest.
LEMMA MovesKeep ==
  ASSUME IInv, Types', SameRoles, SameJobs, lost' = lost, Hands', ConsumersExclude', OneHolder',
         \A n \in Nodes : HoldersOf(n)' = {} <=> HoldersOf(n) = {}
  PROVE  IInv'
<1>1. /\ PoolIsFree' /\ RunningFibers' /\ LeavingFibers' /\ FramesOfJobs'
      /\ \A f \in Fibers : Resuming(f)' = Resuming(f)
  BY RolesKept DEF IInv, SameJobs
<1>2. JobsCarried' /\ ScheduledBefore'
  BY JobsKept DEF IInv
<1>3. \A f \in Fibers : fiber'[f].waiting = fiber[f].waiting
  BY DEF SameRoles, SameFrame
<1>4. WaitingFibers' /\ JobsHeld'
  BY <1>1, <1>3, HeldKept DEF IInv, SameJobs
<1> QED
  BY <1>1, <1>2, <1>4 DEF IInv

\* A step of one worker that moves no node.
LEMMA StaysKeep ==
  ASSUME IInv, Types', SameRoles, SameJobs, lost' = lost, NEW w \in Workers, HandsOf(w)',
         queues' = queues, group' = group, ConsumersExclude',
         \A v \in Workers : v # w => pc'[v] = pc[v] /\ worker'[v] = worker[v],
         worker'[w].held = worker[w].held, worker'[w].drain = worker[w].drain
  PROVE  IInv'
<1>1. \A v \in Workers : worker'[v].held = worker[v].held /\ worker'[v].drain = worker[v].drain
  OBVIOUS
<1>2. \A n \in Nodes : HoldersOf(n)' = HoldersOf(n)
  BY <1>1, HoldersKept
<1>3. OneHolder'
  <2>1. OneHolder
    BY DEF IInv
  <2>2. /\ \A q \in QueueIds : Distinct(queues'[q].items)
        /\ \A v \in Workers : Distinct(worker'[v].drain)
        /\ \A g \in Groups : Distinct(group'[g].list)
    BY <1>1, <2>1 DEF OneHolder
  <2> QED
    BY <1>2, <2>1, <2>2, OneHolderKept
<1>5. Hands'
  <2>1. \A f \in Fibers : fiber'[f].waiting = fiber[f].waiting
    BY DEF SameRoles, SameFrame
  <2>2. \A v \in Workers : Switching(v) => worker[v].current \in Fibers
    <3> TAKE v \in Workers
    <3>1. HandsOf(v) /\ worker[v].current \in Fibers \union {None}
      BY WorkerFields DEF IInv, Hands, Types
    <3> QED
      BY <3>1 DEF HandsOf, Switching
  <2>3. Hands
    BY DEF IInv
  <2> QED
    BY <2>1, <2>2, <2>3, HandsKept
<1> QED
  BY <1>2, <1>3, <1>5, MovesKeep

\* One that is not about to take any, either.
LEMMA StillKeeps ==
  ASSUME IInv, Types', SameRoles, SameJobs, lost' = lost, NEW w \in Workers, HandsOf(w)',
         queues' = queues, group' = group, consumerLock' = consumerLock,
         \A v \in Workers : v # w => pc'[v] = pc[v] /\ worker'[v] = worker[v],
         worker'[w].held = worker[w].held, worker'[w].drain = worker[w].drain,
         pc'[w] \notin {"fibers", "jobs"}
  PROVE  IInv'
<1>1. ConsumersExclude'
  BY DEF ConsumersExclude, IInv
<1> QED
  BY <1>1, StaysKeep

\* An undefined step only says so.
LEMMA FailKeeps ==
  ASSUME IInv, NEW kind \in Faults, fault' = kind,
         UNCHANGED <<pc, worker, fiber, queues, consumerLock, group, job, jobCounter,
                     shouldExit, lost>>
  PROVE  IInv'
<1>1. Types'
  BY DEF IInv, Types
<1>2. OneHolder' /\ Hands' /\ ConsumersExclude'
  BY DEF IInv, OneHolder, HoldersOf, Hands, HandsOf, Switching, ConsumersExclude
<1>3. PoolIsFree' /\ RunningFibers' /\ LeavingFibers' /\ FramesOfJobs'
  BY DEF IInv, PoolIsFree, Free, RunningFibers, LeavingFibers, Leaving, FramesOfJobs, Switching
<1>4. WaitingFibers' /\ JobsHeld'
  BY DEF IInv, WaitingFibers, JobsHeld, HoldersOf, Resuming
<1>5. JobsCarried' /\ ScheduledBefore'
  BY DEF IInv, JobsCarried, Carried, ScheduledBefore, Passed
<1> QED
  BY <1>1, <1>2, <1>3, <1>4, <1>5 DEF IInv

\* Nothing changes.
LEMMA StutterKeeps == ASSUME IInv, UNCHANGED vars PROVE IInv'
<1>1. fault \in Faults
  BY DEF IInv, Types
<1> QED
  BY <1>1, FailKeeps DEF vars

\* A worker that holds nothing, moves nothing and runs nothing else.
LEMMA PcKeeps ==
  ASSUME IInv, NEW w \in Workers, NEW label \in Labels, Goto(w, label),
         NEW s \in WorkerRecord, worker' = [worker EXCEPT ![w] = s], SameFibers(worker[w], s),
         s.held = worker[w].held, s.drain = worker[w].drain, s.affinity = worker[w].affinity,
         s.signaled = worker[w].signaled, \A i \in 1 .. 3 : worker[w].held[i] = None,
         pc[w] \notin AtFiber \union {"start", "acquire", "switch"},
         label \notin AtFiber \union {"start", "acquire", "switch", "signal"},
         label # "drain" => worker[w].drain = <<>>,
         label \in {"poll", "fibers", "jobs"} => s.attempt < Attempts,
         consumerLock' \in [Priorities -> Workers \union {None}], ConsumersExclude',
         UNCHANGED <<fiber, queues, group, job, jobCounter, shouldExit, fault, lost>>
  PROVE  IInv'
<1>1. Types /\ HandsOf(w)
  BY DEF IInv, Hands
<1>4. /\ worker' \in [Workers -> WorkerRecord] /\ worker'[w] = s
      /\ \A v \in Workers : v # w => worker'[v] = worker[v]
  BY <1>1, OneWorker
<1>5. /\ pc' \in [Workers -> Labels] /\ pc'[w] = label
      /\ \A v \in Workers : v # w => pc'[v] = pc[v]
  BY <1>1, OnePc
<1>6. Types'
  BY <1>1, <1>4, <1>5 DEF Types
<1>7. SameRoles
  BY <1>4, <1>5 DEF SameRoles, SameFibers, SameFrame, AtFiber
<1>8. SameJobs
  <2>1. \A f \in Fibers : fiber[f].ip \in Nat
    BY <1>1, FiberFields DEF Types
  <2> QED
    BY <2>1 DEF SameJobs
<1>9. HandsOf(w)'
  BY <1>1, <1>4, <1>5 DEF HandsOf, SameFibers, Switching, AtFiber
<1> QED
  BY <1>4, <1>5, <1>6, <1>7, <1>8, <1>9, StaysKeep

-----------------------------------------------------------------------------
(* The steps that move nothing.                                            *)

\* Where the lock of the consumers is not touched, and w is not under it.
LEMMA LocksKept ==
  ASSUME IInv, NEW w \in Workers, consumerLock' = consumerLock, pc'[w] \notin {"fibers", "jobs"},
         \A v \in Workers : v # w => pc'[v] = pc[v] /\ worker'[v] = worker[v]
  PROVE  ConsumersExclude' /\ consumerLock' \in [Priorities -> Workers \union {None}]
BY DEF ConsumersExclude, IInv, Types

\* The head of the loop keeps the invariant.
LEMMA LoopHeadKeeps == ASSUME IInv, NEW w \in Workers, LoopHead(w) PROVE IInv'
<1>1. Types /\ HandsOf(w) /\ pc[w] = "loop" /\ worker[w] \in WorkerRecord
  BY DEF IInv, Types, Hands, LoopHead, At
<1>2. /\ worker[w].drain = <<>> /\ \A i \in 1 .. 3 : worker[w].held[i] = None
      /\ worker[w].level \in Priorities /\ worker[w].attempt \in 0 .. Attempts
      /\ MaxPriority \in Priorities /\ 0 \in 0 .. Attempts /\ 0 < Attempts
  BY <1>1, WorkerFields, JobSystemAssumption DEF HandsOf, Priorities
<1>3. ASSUME NEW a \in 0 .. Attempts, NEW x \in Priorities, NEW label \in {"poll", "exited"},
             Goto(w, label), worker' = [worker EXCEPT ![w] = [worker[w] EXCEPT !.attempt = a, !.level = x]],
             label = "poll" => a = 0,
             UNCHANGED <<fiber, queues, consumerLock, group, job, jobCounter, shouldExit, fault, lost>>
      PROVE  IInv'
  <2> DEFINE s == [worker[w] EXCEPT !.attempt = a, !.level = x]
  <2>1. /\ s \in WorkerRecord /\ SameFibers(worker[w], s) /\ s.held = worker[w].held /\ s.attempt = a
        /\ s.drain = worker[w].drain /\ s.affinity = worker[w].affinity /\ s.signaled = worker[w].signaled
    BY <1>1 DEF WorkerRecord, SameFibers
  <2>2. worker' = [worker EXCEPT ![w] = s]
    BY <1>3
  <2> HIDE DEF s
  <2>3. label \in Labels /\ label \notin {"fibers", "jobs"}
    BY DEF Labels
  <2>4. /\ pc'[w] = label /\ \A v \in Workers : v # w => pc'[v] = pc[v] /\ worker'[v] = worker[v]
    BY <1>1, <1>3, <2>1, <2>2, <2>3, OnePc, OneWorker
  <2>5. ConsumersExclude' /\ consumerLock' \in [Priorities -> Workers \union {None}]
    BY <1>3, <2>3, <2>4, LocksKept
  <2> QED
    BY <1>1, <1>2, <1>3, <2>1, <2>2, <2>3, <2>5, PcKeeps DEF AtFiber
<1>4. CASE ~shouldExit
  <2>1. worker' = [worker EXCEPT ![w] = [worker[w] EXCEPT !.attempt = 0, !.level = MaxPriority]]
    BY <1>1, <1>4 DEF LoopHead, Types
  <2> QED
    BY <1>2, <1>3, <1>4, <2>1 DEF LoopHead
<1>5. CASE shouldExit /\ worker[w].exitContext = "thread"
  <2>1. worker' = [worker EXCEPT ![w] = [worker[w] EXCEPT !.attempt = worker[w].attempt, !.level = worker[w].level]]
    BY <1>1, <1>5 DEF LoopHead, Types, WorkerRecord
  <2> QED
    BY <1>2, <1>3, <1>5, <2>1 DEF LoopHead
<1>6. CASE shouldExit /\ worker[w].exitContext # "thread"
  BY <1>6, FailKeeps DEF LoopHead, Fail, Faults
<1> QED
  BY <1>4, <1>5, <1>6

\* Taking the consumer lock keeps the invariant.
LEMMA LockConsumersKeeps == ASSUME IInv, NEW w \in Workers, LockConsumers(w) PROVE IInv'
<1> DEFINE s == [worker[w] EXCEPT !.looked = 0]
<1> DEFINE p == worker[w].level
<1>1. /\ Types /\ HandsOf(w) /\ pc[w] = "poll" /\ worker[w] \in WorkerRecord /\ p \in Priorities
      /\ consumerLock[p] = None /\ consumerLock' = [consumerLock EXCEPT ![p] = w]
      /\ worker' = [worker EXCEPT ![w] = s] /\ Goto(w, "fibers") /\ "fibers" \in Labels
      /\ UNCHANGED <<fiber, queues, group, job, jobCounter, shouldExit, fault, lost>>
  BY WorkerFields DEF IInv, Types, Hands, LockConsumers, ConsumerLockFree, At, Labels
<1>2. /\ s \in WorkerRecord /\ SameFibers(worker[w], s) /\ s.held = worker[w].held /\ s.level = p
      /\ s.attempt = worker[w].attempt
      /\ s.drain = worker[w].drain /\ s.affinity = worker[w].affinity /\ s.signaled = worker[w].signaled
  BY <1>1, WorkerLooked
<1> HIDE DEF s
<1>3. /\ pc'[w] = "fibers" /\ worker'[w] = s
      /\ \A v \in Workers : v # w => pc'[v] = pc[v] /\ worker'[v] = worker[v]
  BY <1>1, <1>2, OnePc, OneWorker
<1>4. /\ worker[w].drain = <<>> /\ \A i \in 1 .. 3 : worker[w].held[i] = None
      /\ worker[w].attempt < Attempts
  BY <1>1 DEF HandsOf
<1>5. consumerLock' \in [Priorities -> Workers \union {None}] /\ consumerLock'[p] = w
      /\ \A x \in Priorities : x # p => consumerLock'[x] = consumerLock[x]
  BY <1>1 DEF Types
<1>6. ConsumersExclude'
  <2> SUFFICES ASSUME NEW v \in Workers, pc'[v] \in {"fibers", "jobs"}
               PROVE  consumerLock'[worker'[v].level] = v
    BY DEF ConsumersExclude
  <2>1. CASE v = w
    BY <1>2, <1>3, <1>5, <2>1
  <2>2. CASE v # w
    <3>1. consumerLock[worker[v].level] = v /\ worker[v].level \in Priorities
      BY <1>1, <1>3, <2>2, WorkerFields DEF IInv, ConsumersExclude, Types
    <3>2. worker[v].level # p
      BY <1>1, <3>1, NoneApart
    <3> QED
      BY <1>3, <1>5, <2>2, <3>1, <3>2
  <2> QED
    BY <2>1, <2>2
<1> QED
  BY <1>1, <1>2, <1>4, <1>5, <1>6, PcKeeps DEF AtFiber

\* Finding no fiber keeps the invariant.
LEMMA NoFiberKeeps == ASSUME IInv, NEW w \in Workers, NoFiber(w) PROVE IInv'
<1> DEFINE s == [worker[w] EXCEPT !.looked = 0]
<1>1. /\ Types /\ HandsOf(w) /\ pc[w] = "fibers" /\ worker[w] \in WorkerRecord
      /\ worker[w].held = NothingHeld /\ worker[w].held \in [1 .. 3 -> Nodes \union {None}]
      /\ worker' = [worker EXCEPT ![w] = s] /\ Goto(w, "jobs") /\ "jobs" \in Labels
      /\ UNCHANGED <<fiber, queues, consumerLock, group, job, jobCounter, shouldExit, fault, lost>>
  BY WorkerFields DEF IInv, Types, Hands, NoFiber, At, Labels
<1>2. /\ s \in WorkerRecord /\ SameFibers(worker[w], s) /\ s.held = worker[w].held
      /\ s.level = worker[w].level /\ s.attempt = worker[w].attempt
      /\ s.drain = worker[w].drain /\ s.affinity = worker[w].affinity /\ s.signaled = worker[w].signaled
  BY <1>1, WorkerLooked
<1> HIDE DEF s
<1>3. /\ pc'[w] = "jobs" /\ worker'[w] = s
      /\ \A v \in Workers : v # w => pc'[v] = pc[v] /\ worker'[v] = worker[v]
  BY <1>1, <1>2, OnePc, OneWorker
<1>4. /\ worker[w].drain = <<>> /\ \A i \in 1 .. 3 : worker[w].held[i] = None
      /\ worker[w].attempt < Attempts
  BY <1>1, SomethingHeld DEF HandsOf
<1>5. ConsumersExclude' /\ consumerLock' \in [Priorities -> Workers \union {None}]
  BY <1>1, <1>2, <1>3 DEF IInv, ConsumersExclude, Types
<1> QED
  BY <1>1, <1>2, <1>4, <1>5, PcKeeps DEF AtFiber

\* Finding no job keeps the invariant: the lock is free again, for nobody was
\* under it but w.
LEMMA NoJobKeeps == ASSUME IInv, NEW w \in Workers, NoJob(w) PROVE IInv'
<1> DEFINE p == worker[w].level
<1> DEFINE a == IF p = 0 THEN worker[w].attempt + 1 ELSE worker[w].attempt
<1> DEFINE x == LevelAfter(p)
<1> DEFINE s == [worker[w] EXCEPT !.attempt = a, !.level = x]
<1> DEFINE label == IF a = Attempts THEN "loop" ELSE "poll"
<1>1. /\ Types /\ HandsOf(w) /\ pc[w] = "jobs" /\ worker[w] \in WorkerRecord /\ p \in Priorities
      /\ worker[w].held = NothingHeld /\ worker[w].held \in [1 .. 3 -> Nodes \union {None}]
      /\ consumerLock' = [consumerLock EXCEPT ![p] = None]
      /\ worker' = [worker EXCEPT ![w] = s] /\ Goto(w, label) /\ label \in Labels
      /\ UNCHANGED <<fiber, queues, group, job, jobCounter, shouldExit, fault, lost>>
  BY WorkerFields DEF IInv, Types, Hands, NoJob, At, Labels
<1>2. /\ worker[w].drain = <<>> /\ \A i \in 1 .. 3 : worker[w].held[i] = None
      /\ worker[w].attempt < Attempts /\ worker[w].attempt \in 0 .. Attempts
  BY <1>1, SomethingHeld, WorkerFields DEF HandsOf
<1>3. a \in 0 .. Attempts /\ x \in Priorities /\ (label = "poll" => a < Attempts)
  BY <1>1, <1>2, JobSystemAssumption DEF Priorities, LevelAfter
<1>4. label \in {"loop", "poll"}
  OBVIOUS
<1> HIDE DEF a, x
<1>5. /\ s \in WorkerRecord /\ SameFibers(worker[w], s) /\ s.held = worker[w].held /\ s.attempt = a
      /\ s.drain = worker[w].drain /\ s.affinity = worker[w].affinity /\ s.signaled = worker[w].signaled
  <2>1. worker[w] \in WorkerRecord /\ a \in 0 .. Attempts /\ x \in Priorities
    BY <1>1, <1>3
  <2> QED
    BY <2>1 DEF WorkerRecord, SameFibers
<1> HIDE DEF s, label
<1>6. /\ pc'[w] = label /\ worker'[w] = s
      /\ \A v \in Workers : v # w => pc'[v] = pc[v] /\ worker'[v] = worker[v]
  BY <1>1, <1>5, OnePc, OneWorker
<1>7. consumerLock' \in [Priorities -> Workers \union {None}]
      /\ \A y \in Priorities : y # p => consumerLock'[y] = consumerLock[y]
  BY <1>1 DEF Types
<1>8. ConsumersExclude'
  <2> SUFFICES ASSUME NEW v \in Workers, pc'[v] \in {"fibers", "jobs"}
               PROVE  consumerLock'[worker'[v].level] = v
    BY DEF ConsumersExclude
  <2>1. v # w
    BY <1>4, <1>6
  <2>2. consumerLock[worker[v].level] = v /\ worker[v].level \in Priorities /\ consumerLock[p] = w
    BY <1>1, <1>6, <2>1, WorkerFields DEF IInv, ConsumersExclude, Types
  <2> QED
    BY <1>6, <1>7, <2>1, <2>2
<1> QED
  BY <1>1, <1>2, <1>3, <1>4, <1>5, <1>7, <1>8, PcKeeps DEF AtFiber

\* The end of a signal keeps the invariant.
LEMMA SignalDoneKeeps == ASSUME IInv, NEW w \in Workers, SignalDone(w) PROVE IInv'
<1> DEFINE s == worker[w]
<1> DEFINE label == "loop"
<1>1. /\ Types /\ HandsOf(w) /\ pc[w] = "drain" /\ worker[w].drain = <<>> /\ s \in WorkerRecord
      /\ Goto(w, label) /\ label \in Labels
      /\ UNCHANGED <<worker, fiber, queues, consumerLock, group, job, jobCounter, shouldExit, fault, lost>>
  BY DEF IInv, Types, Hands, SignalDone, At, Labels
<1>2. /\ worker' = [worker EXCEPT ![w] = s] /\ \A i \in 1 .. 3 : worker[w].held[i] = None
      /\ SameFibers(worker[w], s)
      /\ s.held = worker[w].held /\ s.drain = worker[w].drain /\ s.affinity = worker[w].affinity
      /\ s.signaled = worker[w].signaled
  BY <1>1 DEF Types, HandsOf, SameFibers
<1>3. pc'[w] = label /\ \A v \in Workers : v # w => pc'[v] = pc[v]
  BY <1>1, OnePc
<1>4. ConsumersExclude' /\ consumerLock' \in [Priorities -> Workers \union {None}]
  BY <1>1, <1>3, LocksKept
<1> HIDE DEF s
<1> QED
  BY <1>1, <1>2, <1>4, PcKeeps DEF AtFiber

\* The worker that runs a job runs a fiber that carries it.
LEMMA RunsJob ==
  ASSUME IInv, NEW w \in Workers, pc[w] = "run"
  PROVE  /\ worker[w].current \in Fibers /\ Frame(w) = fiber[worker[w].current]
         /\ Frame(w) \in FiberRecord /\ Frame(w).job \in Jobs /\ Frame(w).ip \in Nat \ {0}
         /\ ~Frame(w).waiting /\ ~Frame(w).free /\ Frame(w).context = "running"
<1>1. HandsOf(w) /\ worker[w].current \in Fibers \union {None}
  BY WorkerFields DEF IInv, Hands, Types
<1>2. worker[w].current \in Fibers /\ worker[w].current # None
  BY <1>1, NoneApart DEF HandsOf
<1>3. Frame(w) \in FiberRecord /\ Frame(w).job \in Jobs \union {None}
  BY <1>2, FiberFields DEF IInv, Types, Frame
<1>4. Frame(w).job # None /\ Frame(w).ip \in Nat \ {0}
  BY <1>2 DEF IInv, FramesOfJobs, Frame
<1>5. ~Frame(w).waiting /\ Frame(w).context = "running"
  BY <1>2 DEF IInv, RunningFibers, Frame, Switching
<1>6. ~Frame(w).free
  BY <1>2 DEF IInv, PoolIsFree, Free, Frame
<1> QED
  BY <1>2, <1>3, <1>4, <1>5, <1>6 DEF Frame

\* What one operation of a job changes in the fibers.
LEMMA Advances ==
  ASSUME IInv, NEW w \in Workers, pc[w] = "run", Advance(w)
  PROVE  /\ fiber' \in [Fibers -> FiberRecord]
         /\ \A f \in Fibers : SameFrame(fiber[f], fiber'[f]) /\ fiber'[f].job = fiber[f].job
         /\ fiber'[worker[w].current].ip = fiber[worker[w].current].ip + 1
         /\ \A f \in Fibers : f # worker[w].current => fiber'[f] = fiber[f]
         /\ \A f \in Fibers : fiber[f].ip \in Nat /\ fiber'[f].ip >= fiber[f].ip
<1> DEFINE c == worker[w].current
<1> DEFINE s == [fiber[c] EXCEPT !.ip = fiber[c].ip + 1]
<1>1. c \in Fibers /\ fiber[c] \in FiberRecord /\ fiber[c].ip \in Nat /\ fiber[c].ip + 1 \in Nat /\ Types
  BY RunsJob, FiberFields DEF IInv, Types
<1>2. fiber' = [fiber EXCEPT ![c] = s]
  BY DEF Advance
<1>3. /\ s \in FiberRecord /\ SameFrame(fiber[c], s) /\ s.job = fiber[c].job
      /\ s.ip = fiber[c].ip + 1 /\ s.hint = fiber[c].hint
  BY <1>1, FiberIp
<1> HIDE DEF s
<1>4. /\ fiber' \in [Fibers -> FiberRecord] /\ fiber'[c] = s
      /\ \A g \in Fibers : g # c => fiber'[g] = fiber[g]
  BY <1>1, <1>2, <1>3, OneFiber
<1>5. \A f \in Fibers : SameFrame(fiber[f], fiber'[f]) /\ fiber'[f].job = fiber[f].job
  BY <1>3, <1>4 DEF SameFrame
<1>6. \A f \in Fibers : fiber[f].ip \in Nat
  BY <1>1, FiberFields DEF Types
<1> QED
  BY <1>1, <1>3, <1>4, <1>5, <1>6

\* An operation that changes nothing else keeps the invariant.
LEMMA AdvanceKeeps ==
  ASSUME IInv, NEW w \in Workers, pc[w] = "run", Advance(w), shouldExit' \in BOOLEAN,
         UNCHANGED <<pc, worker, queues, consumerLock, group, job, jobCounter, fault, lost>>
  PROVE  IInv'
<1>1. /\ fiber' \in [Fibers -> FiberRecord]
      /\ \A f \in Fibers : SameFrame(fiber[f], fiber'[f]) /\ fiber'[f].job = fiber[f].job
      /\ fiber'[worker[w].current].ip = fiber[worker[w].current].ip + 1
      /\ \A f \in Fibers : f # worker[w].current => fiber'[f] = fiber[f]
      /\ \A f \in Fibers : fiber[f].ip \in Nat /\ fiber'[f].ip >= fiber[f].ip
  BY Advances
<1>2. Types' /\ HandsOf(w)
  BY <1>1 DEF IInv, Types, Hands
<1>3. SameRoles /\ SameJobs
  BY <1>1 DEF SameRoles, SameFibers, SameJobs
<1>4. HandsOf(w)'
  BY <1>2 DEF HandsOf, Switching
<1> QED
  BY <1>2, <1>3, <1>4, StillKeeps

\* JobSystem::Stop keeps the invariant.
LEMMA StopKeeps == ASSUME IInv, NEW w \in Workers, Stop(w) PROVE IInv'
<1>1. pc[w] = "run" /\ shouldExit' \in BOOLEAN
  BY DEF Stop, Executes, At
<1> QED
  BY <1>1, AdvanceKeeps DEF Stop

\* WaitGroup::Wait on a signalled group keeps the invariant.
LEMMA WaitSignaledKeeps == ASSUME IInv, NEW w \in Workers, WaitSignaled(w) PROVE IInv'
<1>1. pc[w] = "run" /\ shouldExit' \in BOOLEAN
  BY DEF WaitSignaled, Executes, At, IInv, Types
<1> QED
  BY <1>1, AdvanceKeeps DEF WaitSignaled

-----------------------------------------------------------------------------
(* Switches.                                                               *)

\* What a switch to a saved context changes.
LEMMA SwitchEffect ==
  ASSUME Types, NEW w \in Workers, NEW r \in WorkerRecord, NEW to \in Fibers,
         SwitchTo(w, r, to), fiber[to].context = "saved"
  PROVE  /\ worker' \in [Workers -> WorkerRecord]
         /\ worker'[w].current = to /\ worker'[w].prev = r.prev /\ worker'[w].lastWait = r.lastWait
         /\ worker'[w].held = r.held /\ worker'[w].drain = r.drain
         /\ worker'[w].affinity = r.affinity
         /\ pc' \in [Workers -> Labels] /\ pc'[w] = "update"
         /\ \A v \in Workers : v # w => worker'[v] = worker[v] /\ pc'[v] = pc[v]
         /\ fiber' \in [Fibers -> FiberRecord]
         /\ fiber'[to].free = FALSE /\ fiber'[to].context = "running"
         /\ \A f \in Fibers : f # to => fiber'[f].free = fiber[f].free /\ fiber'[f].context = fiber[f].context
         /\ \A f \in Fibers : fiber'[f].resume =
              IF f # to /\ f = r.prev /\ r.lastWait = None THEN "loop" ELSE fiber[f].resume
         /\ \A f \in Fibers : /\ fiber'[f].waiting = fiber[f].waiting /\ fiber'[f].affinity = fiber[f].affinity
                              /\ fiber'[f].job = fiber[f].job /\ fiber'[f].ip = fiber[f].ip
         /\ UNCHANGED <<queues, consumerLock, group, job, jobCounter, shouldExit, fault, lost>>
<1> DEFINE from == IF r.prev = None THEN "thread" ELSE "fiber"
<1> DEFINE x == IF fiber[to].resume = "entry" /\ r.exitContext = None THEN from ELSE r.exitContext
<1> DEFINE s == [r EXCEPT !.current = to, !.exitContext = x]
<1> DEFINE entered == [fiber[to] EXCEPT !.context = "running", !.free = FALSE]
<1> DEFINE left(f) == [fiber[f] EXCEPT !.resume = "loop"]
<1>1. /\ worker' = [worker EXCEPT ![w] = s] /\ Goto(w, "update")
      /\ fiber' = [f \in Fibers |-> IF f = to THEN entered
                     ELSE IF f = r.prev /\ r.lastWait = None THEN left(f) ELSE fiber[f]]
      /\ UNCHANGED <<queues, consumerLock, group, job, jobCounter, shouldExit, fault, lost>>
  BY DEF SwitchTo
<1>2. x \in {"thread", "fiber", None}
  BY WorkerFields
<1> HIDE DEF x
<1>3. /\ s \in WorkerRecord /\ s.current = to /\ s.prev = r.prev /\ s.lastWait = r.lastWait
      /\ s.held = r.held /\ s.drain = r.drain /\ s.affinity = r.affinity
  <2>1. s \in WorkerRecord
    BY <1>2 DEF WorkerRecord
  <2>2. /\ s.current = to /\ s.prev = r.prev /\ s.lastWait = r.lastWait
        /\ s.held = r.held /\ s.drain = r.drain /\ s.affinity = r.affinity
    BY DEF WorkerRecord
  <2> QED
    BY <2>1, <2>2
<1> HIDE DEF s
<1>4. /\ worker' \in [Workers -> WorkerRecord] /\ worker'[w] = s
      /\ \A v \in Workers : v # w => worker'[v] = worker[v]
  BY <1>1, <1>3, OneWorker
<1>5. /\ pc' \in [Workers -> Labels] /\ pc'[w] = "update"
      /\ \A v \in Workers : v # w => pc'[v] = pc[v]
  BY <1>1, OnePc DEF Labels
<1>6. \A f \in Fibers : fiber[f] \in FiberRecord
  BY DEF Types
<1>7. /\ entered \in FiberRecord /\ entered.free = FALSE /\ entered.context = "running"
      /\ entered.resume = fiber[to].resume /\ entered.waiting = fiber[to].waiting
      /\ entered.affinity = fiber[to].affinity /\ entered.job = fiber[to].job /\ entered.ip = fiber[to].ip
  BY <1>6, FiberEntered
<1>8. \A f \in Fibers :
        /\ left(f) \in FiberRecord /\ left(f).free = fiber[f].free /\ left(f).context = fiber[f].context
        /\ left(f).resume = "loop" /\ left(f).waiting = fiber[f].waiting
        /\ left(f).affinity = fiber[f].affinity /\ left(f).job = fiber[f].job /\ left(f).ip = fiber[f].ip
  BY <1>6, FiberLeft
<1> HIDE DEF entered, left
<1>9. /\ fiber'[to] = entered
      /\ \A f \in Fibers : f # to => fiber'[f] = IF f = r.prev /\ r.lastWait = None THEN left(f) ELSE fiber[f]
  BY <1>1
<1>10. fiber' \in [Fibers -> FiberRecord]
  BY <1>1, <1>6, <1>7, <1>8
<1>11. \A f \in Fibers : fiber'[f].resume =
              IF f # to /\ f = r.prev /\ r.lastWait = None THEN "loop" ELSE fiber[f].resume
  BY <1>7, <1>8, <1>9
<1>12. \A f \in Fibers : f # to => fiber'[f].free = fiber[f].free /\ fiber'[f].context = fiber[f].context
  BY <1>8, <1>9
<1>13. \A f \in Fibers : /\ fiber'[f].waiting = fiber[f].waiting /\ fiber'[f].affinity = fiber[f].affinity
                         /\ fiber'[f].job = fiber[f].job /\ fiber'[f].ip = fiber[f].ip
  BY <1>7, <1>8, <1>9
<1> QED
  BY <1>1, <1>3, <1>4, <1>5, <1>7, <1>9, <1>10, <1>11, <1>12, <1>13

\* A switch keeps the invariant when the fiber it enters is free in the pool or
\* waits in the hands of this worker alone, and the fiber it leaves is its own.
LEMMA SwitchKeeps ==
  ASSUME IInv, NEW w \in Workers, NEW r \in WorkerRecord, NEW to \in Fibers, SwitchTo(w, r, to),
         pc[w] \in {"start", "acquire", "switch", "park"}, r.prev = worker[w].current,
         r.lastWait = IF pc[w] = "park" THEN worker[w].current ELSE None,
         r.drain = <<>>, \A i \in 1 .. 3 : r.held[i] = None,
         fiber[to].free \/ (fiber[to].waiting /\ r.affinity \in Affinities),
         Resuming(to) = {}, HoldersOf(to) \subseteq {<<"held", w, 1>>},
         \A i \in 1 .. 3 : worker[w].held[i] \in {None, to}
  PROVE  IInv'
<1> DEFINE c == r.prev
<1>1. CASE fiber[to].context # "saved"
  BY <1>1, FailKeeps DEF SwitchTo, Fail, Faults
<1>2. CASE fiber[to].context = "saved"
  <2>1. /\ worker' \in [Workers -> WorkerRecord]
        /\ worker'[w].current = to /\ worker'[w].prev = c /\ worker'[w].lastWait = r.lastWait
        /\ worker'[w].held = r.held /\ worker'[w].drain = r.drain
        /\ worker'[w].affinity = r.affinity
        /\ pc' \in [Workers -> Labels] /\ pc'[w] = "update"
        /\ \A v \in Workers : v # w => worker'[v] = worker[v] /\ pc'[v] = pc[v]
        /\ fiber' \in [Fibers -> FiberRecord]
        /\ fiber'[to].free = FALSE /\ fiber'[to].context = "running"
        /\ \A f \in Fibers : f # to => fiber'[f].free = fiber[f].free /\ fiber'[f].context = fiber[f].context
        /\ \A f \in Fibers : fiber'[f].resume =
             IF f # to /\ f = c /\ r.lastWait = None THEN "loop" ELSE fiber[f].resume
        /\ \A f \in Fibers : /\ fiber'[f].waiting = fiber[f].waiting /\ fiber'[f].affinity = fiber[f].affinity
                             /\ fiber'[f].job = fiber[f].job /\ fiber'[f].ip = fiber[f].ip
        /\ UNCHANGED <<queues, consumerLock, group, job, jobCounter, shouldExit, fault, lost>>
    <3>1. Types
      BY DEF IInv
    <3> QED
      BY <1>2, <3>1, SwitchEffect
  <2>2. /\ Types /\ Hands /\ HandsOf(w)
        /\ \A v \in Workers : HandsOf(v) /\ worker[v].current \in Fibers \union {None}
        /\ None \notin Fibers
    BY WorkerFields, NoneApart DEF IInv, Hands, Types
  <2>3. \A v \in Workers : worker[v].current # to
    BY <1>2, <2>2 DEF IInv, RunningFibers
  <2>4. c # None => /\ fiber[c].context = "running" /\ c \in Fibers /\ ~fiber[c].free
                    /\ fiber[c].waiting <=> pc[w] = "park"
                    /\ \A v \in Workers : v # w => worker[v].current # c
    BY <2>2 DEF IInv, RunningFibers, PoolIsFree, Free, Switching
  <2>5. c # None => \A v \in Workers : ~Leaving(v, c)
    BY <2>4 DEF IInv, LeavingFibers
  <2>6. \A v \in Workers : ~Leaving(v, to)
    BY <1>2 DEF IInv, LeavingFibers, Leaving
  <2>7. Types'
    BY <2>1 DEF IInv, Types
  <2>8. PoolIsFree'
    <3> SUFFICES ASSUME NEW f \in Fibers, fiber'[f].free
                 PROVE  /\ \A v \in Workers : worker'[v].current # f
                        /\ fiber'[f].job = None /\ ~fiber'[f].waiting
                        /\ fiber'[f].context = "saved" /\ fiber'[f].resume # "wait"
      BY DEF PoolIsFree, Free
    <3>1. f # to /\ fiber[f].free
      BY <2>1
    <3>2. /\ \A v \in Workers : worker[v].current # f
          /\ fiber[f].job = None /\ ~fiber[f].waiting
          /\ fiber[f].context = "saved" /\ fiber[f].resume # "wait"
      BY <3>1 DEF IInv, PoolIsFree, Free
    <3>3. \A v \in Workers : worker'[v].current # f
      BY <2>1, <3>1, <3>2
    <3> QED
      BY <2>1, <3>1, <3>2, <3>3
  <2>9. RunningFibers'
    <3>1. \A u, v \in Workers : worker'[u].current # None /\ worker'[u].current = worker'[v].current => u = v
      BY <2>1, <2>3 DEF IInv, RunningFibers
    <3>2. \A v \in Workers : worker'[v].current # None =>
            LET f == worker'[v].current IN
            /\ fiber'[f].context = "running"
            /\ fiber'[f].waiting <=> pc'[v] = "park" \/ (Switching(v)' /\ fiber'[f].resume = "wait")
      <4> TAKE v \in Workers
      <4>1. CASE v = w
        <5>1. fiber[to].waiting <=> fiber[to].resume = "wait"
          BY DEF IInv, PoolIsFree, Free, FramesOfJobs
        <5> QED
          BY <2>1, <4>1, <5>1 DEF Switching
      <4>2. CASE v # w /\ worker[v].current # None
        <5> DEFINE f == worker[v].current
        <5>1. f \in Fibers /\ f # to /\ f # c
          BY <2>2, <2>3, <2>4, <4>2
        <5>2. fiber'[f].context = fiber[f].context /\ fiber'[f].waiting = fiber[f].waiting /\ fiber'[f].resume = fiber[f].resume
          BY <2>1, <5>1
        <5>3. /\ fiber[f].context = "running"
              /\ fiber[f].waiting <=> pc[v] = "park" \/ (Switching(v) /\ fiber[f].resume = "wait")
          BY <4>2 DEF IInv, RunningFibers
        <5>4. worker'[v] = worker[v] /\ pc'[v] = pc[v] /\ (Switching(v)' <=> Switching(v))
          BY <2>1, <4>2 DEF Switching
        <5> QED
          BY <5>2, <5>3, <5>4
      <4>3. CASE v # w /\ worker[v].current = None
        BY <2>1, <4>3
      <4> QED
        BY <4>1, <4>2, <4>3
    <3> QED
      BY <3>1, <3>2 DEF RunningFibers
  <2>10. LeavingFibers'
    <3>1. \A f \in Fibers : Leaving(w, f)' => f = c /\ c # None /\ c # to
      <4>1. worker'[w].prev = c /\ c # to
        BY <2>1, <2>3
      <4>2. None \notin Fibers
        BY <2>2
      <4> QED
        BY <4>1, <4>2 DEF Leaving
    <3>2. \A v \in Workers, f \in Fibers : v # w => (Leaving(v, f)' <=> Leaving(v, f))
      BY <2>1 DEF Leaving
    <3>3. \A u, v \in Workers : \A f \in Fibers : Leaving(u, f)' /\ Leaving(v, f)' => u = v
      BY <2>5, <3>1, <3>2 DEF IInv, LeavingFibers
    <3>4. \A v \in Workers : \A f \in Fibers : Leaving(v, f)' =>
            /\ ~fiber'[f].free /\ \A u \in Workers : worker'[u].current # f
            /\ pc'[v] = "update" => fiber'[f].context = "running"
            /\ pc'[v] = "update" /\ worker'[v].lastWait # None => fiber'[f].waiting
            /\ worker'[v].lastWait = None => ~fiber'[f].waiting /\ fiber'[f].resume # "wait"
            /\ worker'[v].lastWait = None /\ pc'[v] = "mark" => fiber'[f].context = "saved"
      <4> TAKE v \in Workers
      <4> TAKE f \in Fibers
      <4> HAVE Leaving(v, f)'
      <4>1. CASE v = w
        <5>1. f = c /\ c # None /\ c # to
          BY <3>1, <4>1
        <5>2. ~fiber'[f].free /\ fiber'[f].context = "running" /\ fiber'[f].waiting = fiber[f].waiting
          BY <2>1, <2>4, <5>1
        <5>3. \A u \in Workers : worker'[u].current # f
          BY <2>1, <2>4, <5>1
        <5>4. fiber[f].waiting <=> pc[w] = "park"
          BY <2>4, <5>1
        <5>5. r.lastWait # None <=> pc[w] = "park"
          BY <5>1
        <5>6. r.lastWait = None => fiber'[f].resume = "loop"
          BY <2>1, <5>1
        <5> QED
          BY <2>1, <4>1, <5>2, <5>3, <5>4, <5>5, <5>6
      <4>2. CASE v # w
        <5>1. Leaving(v, f) /\ f # to /\ (c # None => f # c)
          BY <2>5, <2>6, <3>2, <4>2
        <5>2. f # c
          BY <2>2, <5>1
        <5>3. fiber'[f].free = fiber[f].free /\ fiber'[f].context = fiber[f].context
              /\ fiber'[f].waiting = fiber[f].waiting /\ fiber'[f].resume = fiber[f].resume
          BY <2>1, <5>1, <5>2
        <5>4. \A u \in Workers : worker[u].current # f
          BY <5>1 DEF IInv, LeavingFibers
        <5>5. \A u \in Workers : worker'[u].current # f
          BY <2>1, <5>1, <5>4
        <5>6. worker'[v] = worker[v] /\ pc'[v] = pc[v]
          BY <2>1, <4>2
        <5> QED
          BY <5>1, <5>3, <5>5, <5>6 DEF IInv, LeavingFibers
      <4> QED
        BY <4>1, <4>2
    <3> QED
      BY <3>3, <3>4 DEF LeavingFibers
  <2>11. FramesOfJobs'
    <3>1. \A v \in Workers : pc'[v] = "run" <=> pc[v] = "run" /\ v # w
      BY <2>1
    <3>2. \A f \in Fibers : fiber'[f].job # None
            <=> fiber'[f].waiting \/ \E v \in Workers : worker'[v].current = f /\ pc'[v] = "run"
      BY <2>1, <3>1 DEF IInv, FramesOfJobs
    <3>3. \A f \in Fibers : fiber'[f].waiting =>
            fiber'[f].resume = "wait" /\ fiber'[f].affinity \in Affinities
      <4> SUFFICES ASSUME NEW f \in Fibers, fiber[f].waiting
                   PROVE  fiber'[f].resume = "wait" /\ fiber'[f].affinity \in Affinities
        BY <2>1
      <4>1. fiber[f].resume = "wait" /\ fiber[f].affinity \in Affinities
        BY DEF IInv, FramesOfJobs
      <4>2. ~(f = c /\ r.lastWait = None)
        BY <2>2, <2>4
      <4> QED
        BY <2>1, <4>1, <4>2
    <3>4. \A f \in Fibers : fiber'[f].job # None => fiber'[f].ip \in Nat \ {0}
      BY <2>1 DEF IInv, FramesOfJobs
    <3> QED
      BY <3>2, <3>3, <3>4 DEF FramesOfJobs
  <2>12. \A f \in Fibers : f # to => Resuming(f)' = Resuming(f)
    <3>1. \A v \in Workers, f \in Fibers : f # to =>
            (worker'[v].current = f /\ pc'[v] \in {"update", "mark"}
             <=> worker[v].current = f /\ pc[v] \in {"update", "mark"})
      BY <2>1
    <3> QED
      BY <3>1 DEF Resuming
  <2>13. w \in Resuming(to)'
    BY <2>1 DEF Resuming
  <2>14. \A n \in Nodes : n # to => HoldersOf(n)' = HoldersOf(n)
    <3> SUFFICES ASSUME NEW n \in Nodes, n # to PROVE HoldersOf(n)' = HoldersOf(n)
      OBVIOUS
    <3>1. n # None
      BY NoneApart
    <3>2. \A v \in Workers, i \in 1 .. 3 : worker'[v].held[i] = n <=> worker[v].held[i] = n
      BY <2>1, <3>1
    <3>3. \A v \in Workers : n \in ElementsOf(worker'[v].drain) <=> n \in ElementsOf(worker[v].drain)
      BY <2>1, <2>2 DEF HandsOf
    <3> QED
      BY <2>1, <3>2, <3>3, HoldersKept
  <2>15. HoldersOf(to)' = {}
    <3>1. to # None
      BY NoneApart
    <3>2. \A x : /\ <<"queue", x>> \notin HoldersOf(to) /\ <<"drain", x>> \notin HoldersOf(to)
                 /\ <<"list", x>> \notin HoldersOf(to)
      <4> TAKE x
      <4>1. <<"queue", x>> # <<"held", w, 1>> /\ <<"drain", x>> # <<"held", w, 1>> /\ <<"list", x>> # <<"held", w, 1>>
        BY TagsDiffer
      <4> QED
        BY <4>1
    <3>3. \A q \in QueueIds : to \notin ElementsOf(queues'[q].items)
      BY <2>1, <3>2, HolderIs
    <3>4. \A g \in Groups : to \notin ElementsOf(group'[g].list)
      BY <2>1, <3>2, HolderIs
    <3>5. \A v \in Workers : to \notin ElementsOf(worker'[v].drain)
      <4>1. \A v \in Workers : to \notin ElementsOf(worker[v].drain)
        BY <3>2, HolderIs
      <4> QED
        BY <2>1, <4>1, EmptyElements
    <3>6. \A v \in Workers, i \in 1 .. 3 : worker'[v].held[i] # to
      <4> TAKE v \in Workers, i \in 1 .. 3
      <4>1. CASE v # w
        <5>1. <<"held", v, i>> # <<"held", w, 1>>
          BY <4>1
        <5>2. worker[v].held[i] # to
          BY <5>1, HolderIs
        <5> QED
          BY <2>1, <4>1, <5>2
      <4> QED
        BY <2>1, <3>1, <4>1
    <3> QED
      BY <3>3, <3>4, <3>5, <3>6, HoldersGone
  <2>16. WaitingFibers'
    <3> SUFFICES ASSUME NEW f \in Fibers
                 PROVE  /\ HoldersOf(f)' # {} => fiber'[f].waiting /\ Resuming(f)' = {}
                        /\ fiber'[f].waiting /\ f \notin lost' => HoldersOf(f)' # {} \/ Resuming(f)' # {}
      BY DEF WaitingFibers
    <3>1. CASE f = to
      BY <2>13, <2>15, <3>1
    <3>2. CASE f # to
      BY <2>1, <2>12, <2>14, <3>2 DEF IInv, WaitingFibers, Nodes
    <3> QED
      BY <3>1, <3>2
  <2>17. JobsHeld'
    <3>1. \A j \in Jobs : HoldersOf(j)' = HoldersOf(j)
      BY <2>14, NoneApart DEF Nodes
    <3> QED
      BY <2>1, <3>1 DEF IInv, JobsHeld
  <2>18. JobsCarried' /\ ScheduledBefore'
    <3>1. \A f \in Fibers : fiber[f].ip \in Nat
      BY FiberFields DEF IInv, Types
    <3>2. SameJobs
      BY <2>1, <3>1 DEF SameJobs
    <3> QED
      BY <2>7, <3>2, JobsKept DEF IInv
  <2>19. OneHolder'
    <3>1. OneHolder
      BY DEF IInv
    <3>2. \A n \in Nodes : HoldersOf(n)' \subseteq HoldersOf(n)
      BY <2>14, <2>15
    <3>3. /\ \A q \in QueueIds : Distinct(queues'[q].items)
          /\ \A g \in Groups : Distinct(group'[g].list)
      BY <2>1, <3>1 DEF OneHolder
    <3>4. \A v \in Workers : Distinct(worker'[v].drain)
      BY <2>1, <3>1, EmptyElements DEF OneHolder
    <3> QED
      BY <3>1, <3>2, <3>3, <3>4, OneHolderKept
  <2>20. Hands'
    <3>1. HandsOf(w)'
      BY <2>1, <2>2 DEF HandsOf, Switching, IInv, PoolIsFree, Free
    <3>2. \A v \in Workers : v # w =>
            /\ pc'[v] = pc[v] /\ worker'[v] = worker[v]
            /\ Switching(v) => fiber'[worker[v].current].waiting = fiber[worker[v].current].waiting
      BY <2>1, <2>2 DEF HandsOf, Switching
    <3> QED
      BY <2>2, <3>1, <3>2, HandsKept
  <2>21. ConsumersExclude'
    BY <2>1 DEF IInv, ConsumersExclude
  <2> QED
    BY <2>7, <2>8, <2>9, <2>10, <2>11, <2>16, <2>17, <2>18, <2>19, <2>20, <2>21 DEF IInv
<1> QED
  BY <1>1, <1>2

\* A free fiber waits for nothing and nobody holds it.
LEMMA FreeFiber ==
  ASSUME IInv, NEW f \in Free
  PROVE  f \in Fibers /\ fiber[f].free /\ ~fiber[f].waiting /\ Resuming(f) = {} /\ HoldersOf(f) = {}
<1>1. f \in Fibers /\ fiber[f].free
  BY DEF Free
<1>2. ~fiber[f].waiting /\ \A w \in Workers : worker[w].current # f
  BY DEF IInv, PoolIsFree
<1>3. HoldersOf(f) = {}
  BY <1>1, <1>2 DEF IInv, WaitingFibers
<1>4. Resuming(f) = {}
  BY <1>2 DEF Resuming
<1> QED
  BY <1>1, <1>2, <1>3, <1>4

\* A worker that is not in the middle of anything.
LEMMA EmptyHanded ==
  ASSUME IInv, NEW w \in Workers
  PROVE  /\ worker[w] \in WorkerRecord /\ HandsOf(w) /\ Types
         /\ pc[w] \notin {"fibers", "jobs", "switch"} => \A i \in 1 .. 3 : worker[w].held[i] = None
         /\ pc[w] # "drain" => worker[w].drain = <<>>
         /\ ~Switching(w) => worker[w].prev = None /\ worker[w].lastWait = None
<1>1. worker[w] \in WorkerRecord /\ HandsOf(w) /\ Types
  BY DEF IInv, Types, Hands
<1>2. pc[w] \notin {"fibers", "jobs", "switch"} => \A i \in 1 .. 3 : worker[w].held[i] = None
  BY <1>1 DEF HandsOf
<1>3. pc[w] # "drain" => worker[w].drain = <<>>
  BY <1>1 DEF HandsOf
<1>4. ~Switching(w) => worker[w].prev = None /\ worker[w].lastWait = None
  BY <1>1 DEF HandsOf
<1> QED
  BY <1>1, <1>2, <1>3, <1>4

\* A thread's first switch keeps the invariant.
LEMMA EntersFromThread ==
  ASSUME IInv, NEW w \in Workers, pc[w] \in {"start", "acquire"}, NEW f \in Free,
         SwitchTo(w, worker[w], f)
  PROVE  IInv'
<1> DEFINE r == worker[w]
<1>1. /\ r \in WorkerRecord /\ r.prev = None /\ r.lastWait = None /\ r.drain = <<>>
      /\ \A i \in 1 .. 3 : r.held[i] = None
  BY EmptyHanded DEF Switching
<1>2. r.current = None
  BY EmptyHanded DEF HandsOf
<1>3. f \in Fibers /\ fiber[f].free /\ Resuming(f) = {} /\ HoldersOf(f) = {}
  BY FreeFiber
<1>4. SwitchTo(w, r, f) /\ r.prev = worker[w].current /\ \A i \in 1 .. 3 : worker[w].held[i] \in {None, f}
  BY <1>1, <1>2
<1>5. r.lastWait = IF pc[w] = "park" THEN worker[w].current ELSE None
  BY <1>1
<1> HIDE DEF r
<1> QED
  BY <1>1, <1>3, <1>4, <1>5, SwitchKeeps

\* JobSystem::Start keeps the invariant.
LEMMA StartKeeps == ASSUME IInv, NEW w \in Workers, Start(w) PROVE IInv'
<1>1. PICK f \in Free : SwitchTo(w, worker[w], f)
  BY DEF Start
<1>2. pc[w] = "start"
  BY DEF Start, At
<1> QED
  BY <1>1, <1>2, EntersFromThread

\* ThreadProc keeps the invariant.
LEMMA ThreadProcKeeps == ASSUME IInv, NEW w \in Workers, ThreadProc(w) PROVE IInv'
<1>1. PICK f \in Free : SwitchTo(w, worker[w], f)
  BY DEF ThreadProc
<1>2. pc[w] = "acquire"
  BY DEF ThreadProc, At
<1> QED
  BY <1>1, <1>2, EntersFromThread

\* A switch away from a parked fiber keeps the invariant.
LEMMA SwitchFromWaitingFiberKeeps ==
  ASSUME IInv, NEW w \in Workers, SwitchFromWaitingFiber(w) PROVE IInv'
<1> DEFINE c == worker[w].current
<1> DEFINE r == [worker[w] EXCEPT !.lastWait = c, !.prev = c]
<1>1. PICK f \in Free : SwitchTo(w, r, f)
  BY DEF SwitchFromWaitingFiber
<1>2. pc[w] = "park"
  BY DEF SwitchFromWaitingFiber, At
<1>3. /\ worker[w] \in WorkerRecord /\ c \in Fibers \union {None} /\ worker[w].drain = <<>>
      /\ \A i \in 1 .. 3 : worker[w].held[i] = None
  BY <1>2, EmptyHanded, WorkerFields
<1>4. /\ r \in WorkerRecord /\ r.prev = c /\ r.lastWait = c /\ r.drain = <<>>
      /\ \A i \in 1 .. 3 : r.held[i] = None
  BY <1>3 DEF WorkerRecord
<1>5. f \in Fibers /\ fiber[f].free /\ Resuming(f) = {} /\ HoldersOf(f) = {}
  BY FreeFiber
<1>6. \A i \in 1 .. 3 : worker[w].held[i] \in {None, f}
  BY <1>3
<1>7. r.lastWait = IF pc[w] = "park" THEN worker[w].current ELSE None
  BY <1>2, <1>4
<1> HIDE DEF r
<1> QED
  BY <1>1, <1>2, <1>4, <1>5, <1>6, <1>7, SwitchKeeps

\* A switch to a ready fiber keeps the invariant.
LEMMA ResumeFiberKeeps == ASSUME IInv, NEW w \in Workers, ResumeFiber(w) PROVE IInv'
<1> DEFINE f == worker[w].held[1]
<1> DEFINE c == worker[w].current
<1> DEFINE r == [worker[w] EXCEPT !.prev = c, !.affinity = fiber[f].affinity, !.held = NothingHeld]
<1>1. pc[w] = "switch" /\ SwitchTo(w, r, f)
  BY DEF ResumeFiber, At
<1>2. /\ worker[w] \in WorkerRecord /\ worker[w].drain = <<>> /\ worker[w].lastWait = None
      /\ HandsOf(w) /\ Types
  BY <1>1, EmptyHanded DEF Switching
<1>3. f \in Fibers /\ c \in Fibers \union {None} /\ \A i \in 1 .. 3 : worker[w].held[i] \in {None, f}
  <2>1. f \in Fibers /\ c \in Fibers \union {None}
    BY <1>1, <1>2, WorkerFields DEF HandsOf
  <2>2. \A i \in 1 .. 3 : i # 1 => worker[w].held[i] = None
    BY <1>1, <1>2 DEF HandsOf
  <2> QED
    BY <2>1, <2>2
<1>4. <<"held", w, 1>> \in HoldersOf(f)
  <2>1. 1 \in 1 .. 3
    OBVIOUS
  <2> QED
    BY <2>1, HolderIs
<1>5. fiber[f].waiting /\ Resuming(f) = {} /\ fiber[f].affinity \in Affinities
  BY <1>3, <1>4 DEF IInv, WaitingFibers, FramesOfJobs
<1>6. HoldersOf(f) \subseteq {<<"held", w, 1>>}
  BY <1>3, <1>4 DEF IInv, OneHolder, Nodes
<1>7. NothingHeld \in [1 .. 3 -> Nodes \union {None}] /\ \A i \in 1 .. 3 : NothingHeld[i] = None
  BY DEF NothingHeld
<1>8. /\ r \in WorkerRecord /\ r.prev = c /\ r.lastWait = None /\ r.drain = <<>>
      /\ r.affinity = fiber[f].affinity /\ r.held = NothingHeld
  <2> DEFINE a == fiber[f].affinity
  <2>1. a \in Affinities
    BY <1>5
  <2> HIDE DEF a, f
  <2>2. LET s == [worker[w] EXCEPT !.prev = c, !.affinity = a, !.held = NothingHeld] IN
        /\ s \in WorkerRecord /\ s.prev = c /\ s.lastWait = None /\ s.drain = <<>>
        /\ s.affinity = a /\ s.held = NothingHeld
    BY <1>2, <1>3, <1>7, <2>1 DEF WorkerRecord
  <2> QED
    BY <2>2 DEF a
<1>9. \A i \in 1 .. 3 : r.held[i] = None
  BY <1>7, <1>8
<1>10. r.lastWait = IF pc[w] = "park" THEN worker[w].current ELSE None
  BY <1>1, <1>8
<1>11. r.affinity \in Affinities
  BY <1>5, <1>8
<1> HIDE DEF r, f
<1> QED
  BY <1>1, <1>3, <1>5, <1>6, <1>8, <1>9, <1>10, <1>11, SwitchKeeps

-----------------------------------------------------------------------------
(* What follows a switch.                                                  *)

\* Saving the context left behind keeps the invariant.
LEMMA CleanUpUpdateKeeps == ASSUME IInv, NEW w \in Workers, CleanUpUpdate(w) PROVE IInv'
<1> DEFINE p == worker[w].prev
<1>1. /\ pc[w] = "update" /\ Goto(w, "mark") /\ Types /\ HandsOf(w)
      /\ UNCHANGED <<worker, queues, consumerLock, group, job, jobCounter, shouldExit, fault, lost>>
  BY EmptyHanded DEF CleanUpUpdate, At
<1>2. /\ pc' \in [Workers -> Labels] /\ pc'[w] = "mark"
      /\ \A v \in Workers : v # w => pc'[v] = pc[v]
  BY <1>1, OnePc DEF Labels
<1>3. p \in Fibers \union {None} /\ None \notin Fibers
  BY <1>1, NoneApart, WorkerFields DEF Types
<1>4. /\ fiber' \in [Fibers -> FiberRecord]
      /\ \A f \in Fibers : f # p => fiber'[f] = fiber[f]
      /\ p # None => fiber'[p].context = "saved"
      /\ \A f \in Fibers : /\ fiber'[f].free = fiber[f].free /\ fiber'[f].resume = fiber[f].resume
                           /\ fiber'[f].waiting = fiber[f].waiting /\ fiber'[f].affinity = fiber[f].affinity
                           /\ fiber'[f].job = fiber[f].job /\ fiber'[f].ip = fiber[f].ip
  <2>1. CASE p = None
    <3>1. fiber' = fiber
      BY <2>1 DEF CleanUpUpdate
    <3> QED
      BY <1>1, <1>3, <2>1, <3>1 DEF Types
  <2>2. CASE p # None
    <3> DEFINE s == [fiber[p] EXCEPT !.context = "saved"]
    <3>1. p \in Fibers /\ fiber[p] \in FiberRecord /\ fiber' = [fiber EXCEPT ![p] = s]
      BY <1>1, <1>3, <2>2 DEF CleanUpUpdate, Types
    <3>2. /\ s \in FiberRecord /\ s.free = fiber[p].free /\ s.context = "saved" /\ s.resume = fiber[p].resume
          /\ s.waiting = fiber[p].waiting /\ s.affinity = fiber[p].affinity
          /\ s.job = fiber[p].job /\ s.ip = fiber[p].ip
      BY <3>1, FiberContext
    <3> HIDE DEF s
    <3>3. fiber' \in [Fibers -> FiberRecord] /\ fiber'[p] = s /\ \A g \in Fibers : g # p => fiber'[g] = fiber[g]
      BY <1>1, <3>1, <3>2, OneFiber
    <3> QED
      BY <2>2, <3>2, <3>3
  <2> QED
    BY <2>1, <2>2
<1>5. p # None => Leaving(w, p) /\ \A v \in Workers : worker[v].current # p /\ (Leaving(v, p) => v = w)
  BY <1>1, <1>3 DEF Leaving, IInv, LeavingFibers
<1>6. Types'
  BY <1>1, <1>2, <1>4 DEF Types
<1>7. PoolIsFree'
  <2>1. \A f \in Fibers : fiber[f].free => f # p
    BY <1>3, <1>5 DEF IInv, LeavingFibers
  <2> QED
    BY <1>1, <1>4, <2>1 DEF IInv, PoolIsFree, Free
<1>8. \A v \in Workers : Switching(v)' <=> Switching(v)
  BY <1>1, <1>2 DEF Switching
<1>9. RunningFibers'
  <2>1. \A u, v \in Workers : worker'[u].current # None /\ worker'[u].current = worker'[v].current => u = v
    BY <1>1 DEF IInv, RunningFibers
  <2>2. ASSUME NEW v \in Workers, worker[v].current # None
        PROVE  LET f == worker[v].current IN
               /\ fiber'[f].context = "running"
               /\ fiber'[f].waiting <=> pc'[v] = "park" \/ (Switching(v)' /\ fiber'[f].resume = "wait")
    <3> DEFINE f == worker[v].current
    <3>1. f \in Fibers /\ f # p
      BY <1>1, <1>3, <1>5, <2>2, WorkerFields DEF Types
    <3>2. /\ fiber[f].context = "running"
          /\ fiber[f].waiting <=> pc[v] = "park" \/ (Switching(v) /\ fiber[f].resume = "wait")
      BY <2>2 DEF IInv, RunningFibers
    <3>3. fiber'[f] = fiber[f] /\ (pc'[v] = "park" <=> pc[v] = "park")
      BY <1>1, <1>2, <1>4, <3>1
    <3> QED
      BY <1>8, <3>2, <3>3
  <2> QED
    BY <1>1, <2>1, <2>2 DEF RunningFibers
<1>10. LeavingFibers'
  <2>1. \A v \in Workers, f \in Fibers : Leaving(v, f)' => Leaving(v, f)
    BY <1>1, <1>2 DEF Leaving
  <2>2. \A u, v \in Workers : \A f \in Fibers : Leaving(u, f)' /\ Leaving(v, f)' => u = v
    BY <2>1 DEF IInv, LeavingFibers
  <2>3. ASSUME NEW v \in Workers, NEW f \in Fibers, Leaving(v, f)'
        PROVE  /\ ~fiber'[f].free /\ \A u \in Workers : worker'[u].current # f
               /\ pc'[v] = "update" => fiber'[f].context = "running"
               /\ pc'[v] = "update" /\ worker'[v].lastWait # None => fiber'[f].waiting
               /\ worker'[v].lastWait = None => ~fiber'[f].waiting /\ fiber'[f].resume # "wait"
               /\ worker'[v].lastWait = None /\ pc'[v] = "mark" => fiber'[f].context = "saved"
    <3>1. /\ ~fiber[f].free /\ \A u \in Workers : worker[u].current # f
          /\ pc[v] = "update" => fiber[f].context = "running"
          /\ pc[v] = "update" /\ worker[v].lastWait # None => fiber[f].waiting
          /\ worker[v].lastWait = None => ~fiber[f].waiting /\ fiber[f].resume # "wait"
          /\ worker[v].lastWait = None /\ pc[v] = "mark" => fiber[f].context = "saved"
      BY <2>1, <2>3 DEF IInv, LeavingFibers
    <3>2. CASE v = w
      <4>1. f = p /\ fiber'[f].context = "saved"
        BY <1>1, <1>3, <1>4, <2>3, <3>2 DEF Leaving
      <4> QED
        BY <1>1, <1>2, <1>4, <3>1, <3>2, <4>1
    <3>3. CASE v # w
      <4>1. f # p
        BY <1>3, <1>5, <2>1, <2>3, <3>3
      <4>2. fiber'[f] = fiber[f] /\ pc'[v] = pc[v]
        BY <1>2, <1>4, <3>3, <4>1
      <4> QED
        BY <1>1, <3>1, <4>2
    <3> QED
      BY <3>2, <3>3
  <2> QED
    BY <2>2, <2>3 DEF LeavingFibers
<1>11. FramesOfJobs'
  <2>1. \A v \in Workers : pc'[v] = "run" <=> pc[v] = "run"
    BY <1>1, <1>2
  <2> QED
    BY <1>1, <1>4, <2>1 DEF IInv, FramesOfJobs
<1>12. \A f \in Fibers : Resuming(f)' = Resuming(f)
  <2>1. \A v \in Workers : pc'[v] \in {"update", "mark"} <=> pc[v] \in {"update", "mark"}
    BY <1>1, <1>2
  <2> QED
    BY <1>1, <2>1 DEF Resuming
<1>13. \A n \in Nodes : HoldersOf(n)' = HoldersOf(n)
  BY <1>1 DEF HoldersOf
<1>14. WaitingFibers' /\ JobsHeld'
  BY <1>1, <1>4, <1>12, <1>13, HeldKept DEF IInv
<1>15. JobsCarried' /\ ScheduledBefore'
  <2>1. \A f \in Fibers : fiber[f].ip \in Nat
    BY <1>1, FiberFields DEF Types
  <2>2. SameJobs
    BY <1>1, <1>4, <2>1 DEF SameJobs
  <2> QED
    BY <1>6, <2>2, JobsKept DEF IInv
<1>16. OneHolder'
  BY <1>1, <1>13 DEF IInv, OneHolder
<1>17. Hands'
  <2>1. HandsOf(w)'
    <3>1. worker[w].current \in Fibers
      BY <1>1, WorkerFields DEF HandsOf, Types
    <3> QED
      BY <1>1, <1>2, <1>4, <3>1 DEF HandsOf, Switching
  <2>2. \A v \in Workers : Switching(v) => worker[v].current \in Fibers
    <3> TAKE v \in Workers
    <3>1. HandsOf(v) /\ worker[v].current \in Fibers \union {None}
      BY WorkerFields DEF IInv, Hands, Types
    <3> QED
      BY <3>1 DEF HandsOf, Switching
  <2> QED
    BY <1>1, <1>2, <1>4, <2>1, <2>2, HandsKept DEF IInv
<1>18. ConsumersExclude'
  BY <1>1, <1>2 DEF IInv, ConsumersExclude
<1> QED
  BY <1>6, <1>7, <1>9, <1>10, <1>11, <1>14, <1>15, <1>16, <1>17, <1>18 DEF IInv

\* The end of a switch, which returns the fiber left behind or ends a Wait(),
\* keeps the invariant.
LEMMA CleanUpMarkKeeps == ASSUME IInv, NEW w \in Workers, CleanUpMark(w) PROVE IInv'
<1> DEFINE c == worker[w].current
<1> DEFINE p == worker[w].prev
<1> DEFINE wakes == fiber[c].resume = "wait"
<1> DEFINE returned == worker[w].lastWait = None
<1>1. CASE worker[w].lastWait # None /\ ~fiber[worker[w].lastWait].waiting
  BY <1>1, FailKeeps DEF CleanUpMark, Fail, Faults
<1>2. CASE ~(worker[w].lastWait # None /\ ~fiber[worker[w].lastWait].waiting)
  <2>1. /\ pc[w] = "mark" /\ Types /\ HandsOf(w) /\ worker[w] \in WorkerRecord
        /\ p \in Fibers \union {None} /\ None \notin Fibers
    BY EmptyHanded, WorkerFields, NoneApart DEF CleanUpMark, At
  <2>2. c \in Fibers
    BY <2>1, WorkerFields DEF HandsOf
  <2>3. /\ fiber[c].waiting <=> wakes
        /\ \A v \in Workers : worker[v].current = c => v = w
    BY <2>1, <2>2 DEF IInv, RunningFibers, Switching
  <2>4. /\ fiber' = [g \in Fibers |->
              IF g = c /\ wakes THEN [fiber[c] EXCEPT !.waiting = FALSE, !.ip = @ + 1]
              ELSE IF g = p /\ returned THEN [fiber[g] EXCEPT !.free = TRUE] ELSE fiber[g]]
        /\ worker' = [worker EXCEPT ![w] = [worker[w] EXCEPT !.prev = None, !.lastWait = None]]
        /\ Goto(w, IF wakes THEN "run" ELSE "loop")
        /\ UNCHANGED <<queues, consumerLock, group, job, jobCounter, shouldExit, fault, lost>>
    BY <1>2, <2>1 DEF CleanUpMark, ReturnsFiber, Types
  <2>5. /\ worker' \in [Workers -> WorkerRecord]
        /\ worker'[w].current = c /\ worker'[w].prev = None /\ worker'[w].lastWait = None
        /\ worker'[w].held = worker[w].held /\ worker'[w].drain = worker[w].drain
        /\ worker'[w].affinity = worker[w].affinity
        /\ \A v \in Workers : v # w => worker'[v] = worker[v]
    <3> DEFINE s == [worker[w] EXCEPT !.prev = None, !.lastWait = None]
    <3>1. /\ s \in WorkerRecord /\ s.current = c /\ s.prev = None /\ s.lastWait = None
          /\ s.held = worker[w].held /\ s.drain = worker[w].drain /\ s.affinity = worker[w].affinity
      BY <2>1, WorkerLetsGo
    <3>2. worker' = [worker EXCEPT ![w] = s]
      BY <2>4
    <3> HIDE DEF s
    <3> QED
      BY <2>1, <3>1, <3>2, OneWorker
  <2>6. /\ pc' \in [Workers -> Labels] /\ pc'[w] = (IF wakes THEN "run" ELSE "loop")
        /\ \A v \in Workers : v # w => pc'[v] = pc[v]
    <3> DEFINE label == IF wakes THEN "run" ELSE "loop"
    <3>1. Goto(w, label) /\ label \in Labels
      BY <2>4 DEF Labels
    <3> HIDE DEF label
    <3>2. /\ pc' \in [Workers -> Labels] /\ pc'[w] = label
          /\ \A v \in Workers : v # w => pc'[v] = pc[v]
      BY <2>1, <3>1, OnePc
    <3> QED
      BY <3>2 DEF label
  <2>7. /\ fiber' \in [Fibers -> FiberRecord]
        /\ \A f \in Fibers :
             /\ fiber'[f].context = fiber[f].context /\ fiber'[f].resume = fiber[f].resume
             /\ fiber'[f].affinity = fiber[f].affinity /\ fiber'[f].job = fiber[f].job
             /\ fiber[f].ip \in Nat /\ fiber'[f].ip \in Nat /\ fiber'[f].ip >= fiber[f].ip
             /\ fiber'[f].waiting <=> f # c /\ fiber[f].waiting
             /\ fiber'[f].free => fiber[f].free \/ (f = p /\ returned)
             /\ fiber[f].free => fiber'[f].free
             /\ ~(f = p /\ returned) => fiber'[f].free = fiber[f].free
    <3> DEFINE awake == [fiber[c] EXCEPT !.waiting = FALSE, !.ip = @ + 1]
    <3> DEFINE home(g) == [fiber[g] EXCEPT !.free = TRUE]
    <3>1. \A f \in Fibers : fiber[f] \in FiberRecord /\ fiber[f].ip \in Nat /\ fiber[f].ip + 1 >= fiber[f].ip
                            /\ fiber[f].free \in BOOLEAN
      BY <2>1, FiberFields DEF Types
    <3>2. /\ awake \in FiberRecord /\ awake.free = fiber[c].free /\ awake.context = fiber[c].context
          /\ awake.resume = fiber[c].resume /\ awake.waiting = FALSE /\ awake.affinity = fiber[c].affinity
          /\ awake.job = fiber[c].job /\ awake.ip = fiber[c].ip + 1
      BY <2>2, <3>1, FiberAwake
    <3>3. \A g \in Fibers :
            /\ home(g) \in FiberRecord /\ home(g).free = TRUE /\ home(g).context = fiber[g].context
            /\ home(g).resume = fiber[g].resume /\ home(g).waiting = fiber[g].waiting
            /\ home(g).affinity = fiber[g].affinity /\ home(g).job = fiber[g].job /\ home(g).ip = fiber[g].ip
      BY <3>1, FiberReturned
    <3>4. \A g \in Fibers : fiber'[g] = IF g = c /\ wakes THEN awake ELSE IF g = p /\ returned THEN home(g) ELSE fiber[g]
      BY <2>4
    <3>5. fiber' = [g \in Fibers |-> IF g = c /\ wakes THEN awake ELSE IF g = p /\ returned THEN home(g) ELSE fiber[g]]
      BY <2>4
    <3> HIDE DEF awake, home
    <3>6. fiber' \in [Fibers -> FiberRecord]
      BY <3>1, <3>2, <3>3, <3>5
    <3>7. ASSUME NEW f \in Fibers
          PROVE  /\ fiber'[f].context = fiber[f].context /\ fiber'[f].resume = fiber[f].resume
                 /\ fiber'[f].affinity = fiber[f].affinity /\ fiber'[f].job = fiber[f].job
                 /\ fiber[f].ip \in Nat /\ fiber'[f].ip \in Nat /\ fiber'[f].ip >= fiber[f].ip
                 /\ fiber'[f].waiting <=> f # c /\ fiber[f].waiting
                 /\ fiber'[f].free => fiber[f].free \/ (f = p /\ returned)
                 /\ fiber[f].free => fiber'[f].free
                 /\ ~(f = p /\ returned) => fiber'[f].free = fiber[f].free
      <4>1. CASE f = c /\ wakes
        <5>1. fiber'[f] = awake /\ f = c
          BY <3>4, <4>1
        <5> HIDE DEF c, wakes
        <5> QED
          BY <3>1, <3>2, <5>1
      <4>2. CASE ~(f = c /\ wakes) /\ f = p /\ returned
        <5>1. fiber'[f] = home(f)
          BY <3>4, <4>2
        <5>2. fiber[f].waiting <=> f # c /\ fiber[f].waiting
          BY <2>3, <4>2
        <5> QED
          BY <3>1, <3>3, <4>2, <5>1, <5>2
      <4>3. CASE ~(f = c /\ wakes) /\ ~(f = p /\ returned)
        <5>1. fiber'[f] = fiber[f]
          BY <3>4, <4>3
        <5>2. fiber[f].waiting <=> f # c /\ fiber[f].waiting
          BY <2>3, <4>3
        <5> QED
          BY <3>1, <5>1, <5>2
      <4> QED
        BY <4>1, <4>2, <4>3
    <3> QED
      BY <3>6, <3>7
  <2> HIDE DEF wakes
  <2>8. \A v \in Workers : v # w => (c # worker[v].current /\ (Leaving(v, p) => ~(p # None /\ returned)))
    BY <2>1, <2>3 DEF IInv, LeavingFibers, Leaving
  <2>9. Types'
    BY <2>1, <2>4, <2>5, <2>6, <2>7 DEF Types
  <2>10. \A v \in Workers : worker'[v].current = worker[v].current
    BY <2>5
  <2>11. PoolIsFree'
    <3> SUFFICES ASSUME NEW f \in Fibers, fiber'[f].free
                 PROVE  /\ \A v \in Workers : worker'[v].current # f
                        /\ fiber'[f].job = None /\ ~fiber'[f].waiting
                        /\ fiber'[f].context = "saved" /\ fiber'[f].resume # "wait"
      BY DEF PoolIsFree, Free
    <3>1. CASE fiber[f].free
      BY <2>7, <2>10, <3>1 DEF IInv, PoolIsFree, Free
    <3>2. CASE f = p /\ returned
      <4>1. Leaving(w, f)
        BY <3>2 DEF Leaving
      <4>2. /\ \A v \in Workers : worker[v].current # f
            /\ ~fiber[f].waiting /\ fiber[f].resume # "wait" /\ fiber[f].context = "saved"
        BY <2>1, <3>2, <4>1 DEF IInv, LeavingFibers
      <4>3. fiber[f].job = None
        BY <4>2 DEF IInv, FramesOfJobs
      <4> QED
        BY <2>7, <2>10, <4>2, <4>3
    <3> QED
      BY <2>7, <3>1, <3>2
  <2>12. RunningFibers'
    <3>1. \A u, v \in Workers : worker'[u].current # None /\ worker'[u].current = worker'[v].current => u = v
      BY <2>10 DEF IInv, RunningFibers
    <3>2. ASSUME NEW v \in Workers, worker[v].current # None
          PROVE  LET f == worker[v].current IN
                 /\ fiber'[f].context = "running"
                 /\ fiber'[f].waiting <=> pc'[v] = "park" \/ (Switching(v)' /\ fiber'[f].resume = "wait")
      <4> DEFINE f == worker[v].current
      <4>1. f \in Fibers
        BY <2>1, <3>2, WorkerFields DEF Types
      <4>2. /\ fiber[f].context = "running"
            /\ fiber[f].waiting <=> pc[v] = "park" \/ (Switching(v) /\ fiber[f].resume = "wait")
        BY <3>2 DEF IInv, RunningFibers
      <4>3. CASE v = w
        <5>1. ~Switching(w)' /\ pc'[w] # "park"
          BY <2>6 DEF Switching
        <5> QED
          BY <2>7, <4>1, <4>2, <4>3, <5>1
      <4>4. CASE v # w
        <5>1. f # c /\ pc'[v] = pc[v] /\ (Switching(v)' <=> Switching(v))
          BY <2>6, <2>8, <4>4 DEF Switching
        <5> QED
          BY <2>7, <4>1, <4>2, <5>1
      <4> QED
        BY <4>3, <4>4
    <3> QED
      BY <2>10, <3>1, <3>2 DEF RunningFibers
  <2>13. LeavingFibers'
    <3>1. \A v \in Workers, f \in Fibers : Leaving(v, f)' => v # w /\ Leaving(v, f)
      BY <2>1, <2>5, <2>6 DEF Leaving
    <3>2. \A u, v \in Workers : \A f \in Fibers : Leaving(u, f)' /\ Leaving(v, f)' => u = v
      BY <3>1 DEF IInv, LeavingFibers
    <3>3. ASSUME NEW v \in Workers, NEW f \in Fibers, Leaving(v, f)'
          PROVE  /\ ~fiber'[f].free /\ \A u \in Workers : worker'[u].current # f
                 /\ pc'[v] = "update" => fiber'[f].context = "running"
                 /\ pc'[v] = "update" /\ worker'[v].lastWait # None => fiber'[f].waiting
                 /\ worker'[v].lastWait = None => ~fiber'[f].waiting /\ fiber'[f].resume # "wait"
                 /\ worker'[v].lastWait = None /\ pc'[v] = "mark" => fiber'[f].context = "saved"
      <4>1. /\ ~fiber[f].free /\ \A u \in Workers : worker[u].current # f
            /\ pc[v] = "update" => fiber[f].context = "running"
            /\ pc[v] = "update" /\ worker[v].lastWait # None => fiber[f].waiting
            /\ worker[v].lastWait = None => ~fiber[f].waiting /\ fiber[f].resume # "wait"
            /\ worker[v].lastWait = None /\ pc[v] = "mark" => fiber[f].context = "saved"
        BY <3>1, <3>3 DEF IInv, LeavingFibers
      <4>2. v # w /\ Leaving(v, f) /\ pc'[v] = pc[v] /\ worker'[v] = worker[v] /\ f # c
        BY <2>5, <2>6, <3>1, <3>3, <4>1
      <4>3. ~(f = p /\ returned)
        BY <2>1, <2>8, <4>2
      <4>4. /\ ~fiber'[f].free /\ fiber'[f].context = fiber[f].context /\ fiber'[f].resume = fiber[f].resume
            /\ fiber'[f].waiting <=> fiber[f].waiting
        BY <2>7, <4>1, <4>2, <4>3
      <4> QED
        BY <2>10, <4>1, <4>2, <4>4
    <3> QED
      BY <3>2, <3>3 DEF LeavingFibers
  <2>14. FramesOfJobs'
    <3>1. ASSUME NEW f \in Fibers
          PROVE  fiber'[f].job # None
                 <=> fiber'[f].waiting \/ \E v \in Workers : worker'[v].current = f /\ pc'[v] = "run"
      <4>1. fiber[f].job # None
            <=> fiber[f].waiting \/ \E v \in Workers : worker[v].current = f /\ pc[v] = "run"
        BY DEF IInv, FramesOfJobs
      <4>2. CASE f = c
        <5>1. \A v \in Workers : worker[v].current = f => v = w
          BY <2>3, <4>2
        <5>2. (\E v \in Workers : worker'[v].current = f /\ pc'[v] = "run") <=> wakes
          BY <2>6, <2>10, <4>2, <5>1
        <5>3. ~\E v \in Workers : worker[v].current = f /\ pc[v] = "run"
          BY <2>1, <5>1
        <5>4. fiber[f].waiting <=> wakes
          BY <2>3, <4>2
        <5> QED
          BY <2>7, <4>1, <4>2, <5>2, <5>3, <5>4
      <4>3. CASE f # c
        <5>1. \A v \in Workers : worker'[v].current = f /\ pc'[v] = "run" <=> worker[v].current = f /\ pc[v] = "run"
          BY <2>6, <2>10, <4>3
        <5> QED
          BY <2>7, <4>1, <4>3, <5>1
      <4> QED
        BY <4>2, <4>3
    <3>2. \A f \in Fibers : fiber'[f].waiting => fiber'[f].resume = "wait" /\ fiber'[f].affinity \in Affinities
      BY <2>7 DEF IInv, FramesOfJobs
    <3>3. \A f \in Fibers : fiber'[f].job # None => fiber'[f].ip \in Nat \ {0}
      BY <2>7 DEF IInv, FramesOfJobs
    <3> QED
      BY <3>1, <3>2, <3>3 DEF FramesOfJobs
  <2>15. \A f \in Fibers : f # c => Resuming(f)' = Resuming(f)
    <3>1. \A v \in Workers, f \in Fibers : f # c =>
            (worker'[v].current = f /\ pc'[v] \in {"update", "mark"}
             <=> worker[v].current = f /\ pc[v] \in {"update", "mark"})
      BY <2>6, <2>10
    <3> QED
      BY <3>1 DEF Resuming
  <2>16. \A n \in Nodes : HoldersOf(n)' = HoldersOf(n)
    <3>1. \A v \in Workers : worker'[v].held = worker[v].held /\ worker'[v].drain = worker[v].drain
      BY <2>5
    <3> QED
      BY <2>4, <3>1, HoldersKept
  <2>17. WaitingFibers'
    <3>1. HoldersOf(c) = {}
      <4>1. w \in Resuming(c)
        BY <2>1 DEF Resuming
      <4> QED
        BY <2>2, <4>1 DEF IInv, WaitingFibers
    <3>2. \A f \in Fibers : HoldersOf(f)' = HoldersOf(f)
      BY <2>16 DEF Nodes
    <3>3. ASSUME NEW f \in Fibers
          PROVE  /\ HoldersOf(f)' # {} => fiber'[f].waiting /\ Resuming(f)' = {}
                 /\ fiber'[f].waiting /\ f \notin lost' => HoldersOf(f)' # {} \/ Resuming(f)' # {}
      <4>1. CASE f = c
        BY <2>7, <3>1, <3>2, <4>1
      <4>2. CASE f # c
        BY <2>4, <2>7, <2>15, <3>2, <4>2 DEF IInv, WaitingFibers
      <4> QED
        BY <4>1, <4>2
    <3> QED
      BY <3>3 DEF WaitingFibers
  <2>18. JobsHeld'
    <3>1. \A j \in Jobs : HoldersOf(j)' = HoldersOf(j)
      BY <2>16 DEF Nodes
    <3> QED
      BY <2>4, <3>1 DEF IInv, JobsHeld
  <2>19. JobsCarried' /\ ScheduledBefore'
    <3>1. SameJobs
      BY <2>4, <2>7 DEF SameJobs
    <3> QED
      BY <2>9, <3>1, JobsKept DEF IInv
  <2>20. OneHolder'
    <3>1. \A v \in Workers : worker'[v].drain = worker[v].drain
      BY <2>5
    <3> QED
      BY <2>4, <2>16, <3>1 DEF IInv, OneHolder
  <2>21. Hands'
    <3>1. HandsOf(w)'
      <4>1. wakes => worker[w].affinity \in Affinities
        BY <2>1, <2>3 DEF HandsOf, Switching
      <4>2. worker[w].drain = <<>> /\ \A i \in 1 .. 3 : worker[w].held[i] = None
        BY <2>1, EmptyHanded
      <4>3. /\ pc'[w] \in {"run", "loop"} /\ (pc'[w] = "run" => wakes) /\ ~Switching(w)'
        BY <2>6 DEF Switching
      <4> QED
        BY <2>1, <2>2, <2>5, <4>1, <4>2, <4>3 DEF HandsOf
    <3>2. \A v \in Workers : v # w /\ Switching(v) => fiber'[worker[v].current].waiting = fiber[worker[v].current].waiting
      <4> SUFFICES ASSUME NEW v \in Workers, v # w, Switching(v)
                   PROVE  fiber'[worker[v].current].waiting = fiber[worker[v].current].waiting
        OBVIOUS
      <4>1. HandsOf(v) /\ worker[v].current \in Fibers \union {None}
        BY WorkerFields DEF IInv, Hands, Types
      <4>2. worker[v].current \in Fibers /\ worker[v].current # c
        BY <2>8, <4>1 DEF HandsOf, Switching
      <4>3. fiber'[worker[v].current] \in FiberRecord /\ fiber[worker[v].current] \in FiberRecord
        BY <2>1, <2>7, <4>2 DEF Types
      <4>4. fiber'[worker[v].current].waiting \in BOOLEAN /\ fiber[worker[v].current].waiting \in BOOLEAN
        BY <4>3, FiberFields
      <4> QED
        BY <2>7, <4>2, <4>4
    <3> QED
      BY <2>5, <2>6, <3>1, <3>2, HandsKept DEF IInv
  <2>22. ConsumersExclude'
    <3>1. pc'[w] \notin {"fibers", "jobs"}
      BY <2>6
    <3> QED
      BY <2>4, <2>5, <2>6, <3>1 DEF IInv, ConsumersExclude
  <2> QED
    BY <2>9, <2>11, <2>12, <2>13, <2>14, <2>17, <2>18, <2>19, <2>20, <2>21, <2>22 DEF IInv
<1> QED
  BY <1>1, <1>2

-----------------------------------------------------------------------------
(* Nodes that move.                                                        *)

\* A node that is in one place is in no other.
LEMMA OnePlace ==
  ASSUME OneHolder, NEW n \in Nodes
  PROVE  /\ \A q \in QueueIds : n \in ElementsOf(queues[q].items) =>
              /\ \A x \in QueueIds : n \in ElementsOf(queues[x].items) => x = q
              /\ \A v \in Workers, i \in 1 .. 3 : worker[v].held[i] # n
              /\ \A v \in Workers : n \notin ElementsOf(worker[v].drain)
              /\ \A g \in Groups : n \notin ElementsOf(group[g].list)
         /\ \A w \in Workers, k \in 1 .. 3 : worker[w].held[k] = n =>
              /\ \A v \in Workers, i \in 1 .. 3 : worker[v].held[i] = n => v = w /\ i = k
              /\ \A v \in Workers : n \notin ElementsOf(worker[v].drain)
              /\ \A g \in Groups : n \notin ElementsOf(group[g].list)
         /\ \A w \in Workers : n \in ElementsOf(worker[w].drain) =>
              /\ \A v \in Workers : n \in ElementsOf(worker[v].drain) => v = w
              /\ \A g \in Groups : n \notin ElementsOf(group[g].list)
         /\ \A h \in Groups : n \in ElementsOf(group[h].list) =>
              \A g \in Groups : n \in ElementsOf(group[g].list) => g = h
<1>1. \A s, t \in HoldersOf(n) : s = t
  BY DEF OneHolder
<1>2. ASSUME NEW q \in QueueIds, n \in ElementsOf(queues[q].items)
      PROVE  /\ \A x \in QueueIds : n \in ElementsOf(queues[x].items) => x = q
             /\ \A v \in Workers, i \in 1 .. 3 : worker[v].held[i] # n
             /\ \A v \in Workers : n \notin ElementsOf(worker[v].drain)
             /\ \A g \in Groups : n \notin ElementsOf(group[g].list)
  <2>1. <<"queue", q>> \in HoldersOf(n)
    BY <1>2, HolderIs
  <2>2. ASSUME NEW x \in QueueIds, n \in ElementsOf(queues[x].items) PROVE x = q
    <3>1. <<"queue", x>> \in HoldersOf(n)
      BY <2>2, HolderIs
    <3>2. <<"queue", x>> = <<"queue", q>>
      BY <1>1, <2>1, <3>1
    <3> QED
      BY <3>2
  <2>3. ASSUME NEW v \in Workers, NEW i \in 1 .. 3, worker[v].held[i] = n PROVE FALSE
    <3>1. <<"held", v, i>> \in HoldersOf(n)
      BY <2>3, HolderIs
    <3> QED
      BY <1>1, <2>1, <3>1, TagsDiffer
  <2>4. ASSUME NEW v \in Workers, n \in ElementsOf(worker[v].drain) PROVE FALSE
    <3>1. <<"drain", v>> \in HoldersOf(n)
      BY <2>4, HolderIs
    <3> QED
      BY <1>1, <2>1, <3>1, TagsDiffer
  <2>5. ASSUME NEW g \in Groups, n \in ElementsOf(group[g].list) PROVE FALSE
    <3>1. <<"list", g>> \in HoldersOf(n)
      BY <2>5, HolderIs
    <3> QED
      BY <1>1, <2>1, <3>1, TagsDiffer
  <2> QED
    BY <2>2, <2>3, <2>4, <2>5
<1>3. ASSUME NEW w \in Workers, NEW k \in 1 .. 3, worker[w].held[k] = n
      PROVE  /\ \A v \in Workers, i \in 1 .. 3 : worker[v].held[i] = n => v = w /\ i = k
             /\ \A v \in Workers : n \notin ElementsOf(worker[v].drain)
             /\ \A g \in Groups : n \notin ElementsOf(group[g].list)
  <2>1. <<"held", w, k>> \in HoldersOf(n)
    BY <1>3, HolderIs
  <2>2. ASSUME NEW v \in Workers, NEW i \in 1 .. 3, worker[v].held[i] = n PROVE v = w /\ i = k
    <3>1. <<"held", v, i>> \in HoldersOf(n)
      BY <2>2, HolderIs
    <3>2. <<"held", v, i>> = <<"held", w, k>>
      BY <1>1, <2>1, <3>1
    <3> QED
      BY <3>2
  <2>3. ASSUME NEW v \in Workers, n \in ElementsOf(worker[v].drain) PROVE FALSE
    <3>1. <<"drain", v>> \in HoldersOf(n)
      BY <2>3, HolderIs
    <3> QED
      BY <1>1, <2>1, <3>1, TagsDiffer
  <2>4. ASSUME NEW g \in Groups, n \in ElementsOf(group[g].list) PROVE FALSE
    <3>1. <<"list", g>> \in HoldersOf(n)
      BY <2>4, HolderIs
    <3> QED
      BY <1>1, <2>1, <3>1, TagsDiffer
  <2> QED
    BY <2>2, <2>3, <2>4
<1>4. ASSUME NEW w \in Workers, n \in ElementsOf(worker[w].drain)
      PROVE  /\ \A v \in Workers : n \in ElementsOf(worker[v].drain) => v = w
             /\ \A g \in Groups : n \notin ElementsOf(group[g].list)
  <2>1. <<"drain", w>> \in HoldersOf(n)
    BY <1>4, HolderIs
  <2>2. ASSUME NEW v \in Workers, n \in ElementsOf(worker[v].drain) PROVE v = w
    <3>1. <<"drain", v>> \in HoldersOf(n)
      BY <2>2, HolderIs
    <3>2. <<"drain", v>> = <<"drain", w>>
      BY <1>1, <2>1, <3>1
    <3> QED
      BY <3>2
  <2>3. ASSUME NEW g \in Groups, n \in ElementsOf(group[g].list) PROVE FALSE
    <3>1. <<"list", g>> \in HoldersOf(n)
      BY <2>3, HolderIs
    <3> QED
      BY <1>1, <2>1, <3>1, TagsDiffer
  <2> QED
    BY <2>2, <2>3
<1>5. ASSUME NEW h \in Groups, n \in ElementsOf(group[h].list),
             NEW g \in Groups, n \in ElementsOf(group[g].list)
      PROVE  g = h
  <2>1. <<"list", h>> \in HoldersOf(n) /\ <<"list", g>> \in HoldersOf(n)
    BY <1>5, HolderIs
  <2>2. <<"list", h>> = <<"list", g>>
    BY <1>1, <2>1
  <2> QED
    BY <2>2
<1> QED
  BY <1>2, <1>3, <1>4, <1>5

\* After a step a node is where t says, or nowhere.
LEMMA HoldersAre ==
  ASSUME NEW n, NEW t,
         \A q \in QueueIds : n \in ElementsOf(queues'[q].items) => t = <<"queue", q>>,
         \A w \in Workers, i \in 1 .. 3 : worker'[w].held[i] = n => t = <<"held", w, i>>,
         \A w \in Workers : n \in ElementsOf(worker'[w].drain) => t = <<"drain", w>>,
         \A g \in Groups : n \in ElementsOf(group'[g].list) => t = <<"list", g>>
  PROVE  HoldersOf(n)' \subseteq {t}
<1> SUFFICES ASSUME NEW u \in HoldersOf(n)' PROVE u = t
  OBVIOUS
<1>1. \/ \E q \in QueueIds : u = <<"queue", q>> /\ n \in ElementsOf(queues'[q].items)
      \/ \E w \in Workers, i \in 1 .. 3 : u = <<"held", w, i>> /\ worker'[w].held[i] = n
      \/ \E w \in Workers : u = <<"drain", w>> /\ n \in ElementsOf(worker'[w].drain)
      \/ \E g \in Groups : u = <<"list", g>> /\ n \in ElementsOf(group'[g].list)
  BY HolderFormNext
<1>2. CASE \E q \in QueueIds : u = <<"queue", q>> /\ n \in ElementsOf(queues'[q].items)
  BY <1>2
<1>3. CASE \E w \in Workers, i \in 1 .. 3 : u = <<"held", w, i>> /\ worker'[w].held[i] = n
  BY <1>3
<1>4. CASE \E w \in Workers : u = <<"drain", w>> /\ n \in ElementsOf(worker'[w].drain)
  BY <1>4
<1>5. CASE \E g \in Groups : u = <<"list", g>> /\ n \in ElementsOf(group'[g].list)
  BY <1>5
<1> QED
  BY <1>1, <1>2, <1>3, <1>4, <1>5

-----------------------------------------------------------------------------
(* The three queues of a worker.                                           *)

\* Of some of three numbers one is least.
LEMMA LeastOfThree ==
  ASSUME NEW h, NEW S \in SUBSET (1 .. 3), S # {}, \A i \in S : h[i] \in Nat
  PROVE  \E i \in S : \A k \in S : h[i] <= h[k]
<1>1. \A i \in S : i = 1 \/ i = 2 \/ i = 3
  OBVIOUS
<1>2. CASE 1 \in S /\ 2 \in S /\ 3 \in S
  BY <1>1, <1>2
<1>3. CASE 1 \in S /\ 2 \in S /\ 3 \notin S
  BY <1>1, <1>3
<1>4. CASE 1 \in S /\ 2 \notin S /\ 3 \in S
  BY <1>1, <1>4
<1>5. CASE 1 \notin S /\ 2 \in S /\ 3 \in S
  BY <1>1, <1>5
<1>6. CASE 1 \in S /\ 2 \notin S /\ 3 \notin S
  BY <1>1, <1>6
<1>7. CASE 1 \notin S /\ 2 \in S /\ 3 \notin S
  BY <1>1, <1>7
<1>8. CASE 1 \notin S /\ 2 \notin S /\ 3 \in S
  BY <1>1, <1>8
<1> QED
  BY <1>1, <1>2, <1>3, <1>4, <1>5, <1>6, <1>7, <1>8

\* The node chosen is one of those taken.
LEMMA EarliestHeld ==
  ASSUME Types, NEW kind \in {"job", "fiber"}, NEW held,
         \A i \in 1 .. 3 : held[i] \in NodesOf(kind) \union {None},
         \E i \in 1 .. 3 : held[i] # None
  PROVE  Earliest(kind, held) \in 1 .. 3 /\ held[Earliest(kind, held)] # None
<1> DEFINE S == {k \in 1 .. 3 : held[k] # None}
<1> DEFINE h == [i \in 1 .. 3 |-> HintOf(kind, held[i])]
<1>1. \A j \in Jobs : job[j].hint \in Nat
  BY DEF Types, JobRecord
<1>2. \A f \in Fibers : fiber[f].hint \in Nat
  BY FiberFields DEF Types
<1>3. \A i \in S : h[i] \in Nat
  BY <1>1, <1>2 DEF HintOf, NodesOf
<1>4. S \in SUBSET (1 .. 3) /\ S # {}
  OBVIOUS
<1>5. \A i \in S : h[i] = HintOf(kind, held[i])
  OBVIOUS
<1> HIDE DEF h
<1>6. \E i \in S : \A k \in S : h[i] <= h[k]
  <2> HIDE DEF S
  <2> QED
    BY <1>3, <1>4, LeastOfThree
<1>7. \E i \in S : \A k \in 1 .. 3 : held[k] # None => HintOf(kind, held[i]) <= HintOf(kind, held[k])
  BY <1>5, <1>6
<1>8. Earliest(kind, held) = CHOOSE i \in S : \A k \in 1 .. 3 :
         held[k] # None => HintOf(kind, held[i]) <= HintOf(kind, held[k])
  BY DEF Earliest
<1> QED
  BY <1>7, <1>8

-----------------------------------------------------------------------------
(* The nodes a worker takes and gives back.                                *)

\* A TryDequeue under the consumer lock keeps the invariant.
LEMMA LookKeeps ==
  ASSUME IInv, NEW w \in Workers, NEW kind \in {"job", "fiber"},
         pc[w] = (IF kind = "job" THEN "jobs" ELSE "fibers"), Look(kind, w)
  PROVE  IInv'
<1> DEFINE i == worker[w].looked + 1
<1> DEFINE q == QueuesOf(kind, w)[i]
<1> DEFINE p == worker[w].level
<1> DEFINE found == queues[q].items # <<>>
<1> DEFINE x == [worker[w].held EXCEPT ![i] = IF found THEN Head(queues[q].items) ELSE None]
<1>1. /\ worker[w] \in WorkerRecord /\ HandsOf(w) /\ Types /\ OneHolder /\ p \in Priorities
      /\ worker[w].drain = <<>> /\ worker[w].prev = None
      /\ worker[w].looked \in 0 .. 3 /\ worker[w].held \in [1 .. 3 -> Nodes \union {None}]
  BY EmptyHanded, WorkerFields DEF Switching, IInv
<1>2. i \in 1 .. 3 /\ worker[w].looked < 3 /\ worker[w].held[i] = None
      /\ \A k \in 1 .. 3 : k > i => worker[w].held[k] = None
  BY <1>1 DEF Look, HandsOf
<1>3. q \in QueueIds /\ q[1] = kind
  BY <1>1, <1>2, ThreeQueues
<1>4. /\ queues' = [queues EXCEPT ![q] = IF found THEN Dequeued(queues[q]) ELSE queues[q]]
      /\ worker' = [worker EXCEPT ![w] = [worker[w] EXCEPT !.looked = i, !.held = x]]
      /\ UNCHANGED <<pc, fiber, consumerLock, group, job, jobCounter, shouldExit, fault, lost>>
  BY <1>1, <1>3 DEF Look, Types
<1> HIDE DEF q
<1>5. /\ queues[q] \in QueueRecord /\ queues[q].items \in Seq(NodesOf(kind))
      /\ Distinct(queues[q].items) /\ NodesOf(kind) \in SUBSET Nodes
  BY <1>1, <1>3 DEF Types, OneHolder, NodesOf, Nodes
<1>6. ASSUME found
      PROVE  /\ Dequeued(queues[q]) \in QueueRecord /\ Dequeued(queues[q]).items \in Seq(NodesOf(kind))
             /\ Distinct(Dequeued(queues[q]).items)
             /\ ElementsOf(Dequeued(queues[q]).items) = ElementsOf(queues[q].items) \ {Head(queues[q].items)}
             /\ Head(queues[q].items) \in NodesOf(kind) /\ Head(queues[q].items) \in ElementsOf(queues[q].items)
  BY <1>5, <1>6, DequeuedElements
<1>7. /\ \A y \in QueueIds : y # q => queues'[y] = queues[y]
      /\ queues'[q] = IF found THEN Dequeued(queues[q]) ELSE queues[q]
      /\ queues' \in [QueueIds -> QueueRecord]
  BY <1>1, <1>3, <1>4, <1>5, <1>6 DEF Types
<1>8. /\ \A y \in QueueIds : queues'[y].items \in Seq(NodesOf(y[1])) /\ Distinct(queues'[y].items)
      /\ \A y \in QueueIds : ElementsOf(queues'[y].items) \subseteq ElementsOf(queues[y].items)
  <2> SUFFICES ASSUME NEW y \in QueueIds
               PROVE  /\ queues'[y].items \in Seq(NodesOf(y[1])) /\ Distinct(queues'[y].items)
                      /\ ElementsOf(queues'[y].items) \subseteq ElementsOf(queues[y].items)
    OBVIOUS
  <2>1. queues[y].items \in Seq(NodesOf(y[1])) /\ Distinct(queues[y].items)
    BY <1>1 DEF Types, OneHolder
  <2>2. CASE y = q /\ found
    BY <1>3, <1>6, <1>7, <2>2
  <2>3. CASE ~(y = q /\ found)
    <3>1. queues'[y] = queues[y]
      BY <1>7, <2>3
    <3> QED
      BY <2>1, <3>1
  <2> QED
    BY <2>2, <2>3
<1>9. /\ \A k \in 1 .. 3 : x[k] = IF k = i THEN (IF found THEN Head(queues[q].items) ELSE None)
                                   ELSE worker[w].held[k]
      /\ x \in [1 .. 3 -> Nodes \union {None}]
  BY <1>1, <1>2, <1>5, <1>6
<1> HIDE DEF x
<1>10. \A k \in 1 .. 3 : x[k] \in NodesOf(kind) \union {None}
  <2>1. \A k \in 1 .. 3 : worker[w].held[k] \in NodesOf(kind) \union {None}
    BY <1>1 DEF HandsOf, NodesOf
  <2> QED
    BY <1>6, <1>9, <2>1
<1>11. /\ worker' \in [Workers -> WorkerRecord] /\ SameFibers(worker[w], worker'[w])
       /\ worker'[w].held = x /\ worker'[w].level = p /\ worker'[w].drain = worker[w].drain
       /\ worker'[w].affinity = worker[w].affinity /\ worker'[w].looked = i
       /\ worker'[w].attempt = worker[w].attempt
       /\ \A v \in Workers : v # w => worker'[v] = worker[v]
  <2> DEFINE s == [worker[w] EXCEPT !.looked = i, !.held = x]
  <2>1. i \in 0 .. 3
    BY <1>2
  <2> HIDE DEF i
  <2>2. /\ s \in WorkerRecord /\ SameFibers(worker[w], s) /\ s.level = p /\ s.held = x
        /\ s.looked = i /\ s.attempt = worker[w].attempt
        /\ s.drain = worker[w].drain /\ s.affinity = worker[w].affinity
    <3>1. /\ worker[w] \in WorkerRecord /\ x \in [1 .. 3 -> Nodes \union {None}]
      BY <1>1, <1>9
    <3> QED
      BY <2>1, <3>1 DEF WorkerRecord, SameFibers
  <2>3. worker' = [worker EXCEPT ![w] = s]
    BY <1>4
  <2> HIDE DEF s
  <2> QED
    BY <1>1, <2>2, <2>3, OneWorker
<1>12. Types'
  BY <1>1, <1>4, <1>7, <1>8, <1>11 DEF Types
<1>13. \A v \in Workers : worker'[v].drain = worker[v].drain
  BY <1>11
<1>14. ASSUME found, NEW n \in Nodes, n = Head(queues[q].items)
       PROVE  HoldersOf(n)' \subseteq {<<"held", w, i>>} /\ HoldersOf(n)' # {} /\ HoldersOf(n) # {}
  <2>1. n # None /\ n \in ElementsOf(queues[q].items) /\ n \notin ElementsOf(queues'[q].items)
    BY <1>6, <1>7, <1>14, NoneApart
  <2>2. /\ \A y \in QueueIds : n \in ElementsOf(queues[y].items) => y = q
        /\ \A v \in Workers, k \in 1 .. 3 : worker[v].held[k] # n
        /\ \A v \in Workers : n \notin ElementsOf(worker[v].drain)
        /\ \A g \in Groups : n \notin ElementsOf(group[g].list)
    BY <1>1, <1>3, <2>1, OnePlace
  <2>3. \A y \in QueueIds : n \notin ElementsOf(queues'[y].items)
    BY <1>8, <2>1, <2>2
  <2>4. \A v \in Workers, k \in 1 .. 3 : worker'[v].held[k] = n => <<"held", w, i>> = <<"held", v, k>>
    BY <1>9, <1>11, <2>2
  <2>5. HoldersOf(n)' \subseteq {<<"held", w, i>>}
    BY <1>4, <1>13, <2>2, <2>3, <2>4, HoldersAre
  <2>6. <<"held", w, i>> \in HoldersOf(n)'
    <3>1. worker'[w].held[i] = n
      BY <1>2, <1>9, <1>11, <1>14
    <3>2. i \in 1 .. 3
      BY <1>2
    <3> HIDE DEF i
    <3> QED
      BY <3>1, <3>2, HolderIsNext
  <2>7. <<"queue", q>> \in HoldersOf(n)
    BY <1>3, <2>1, HolderIs
  <2> QED
    BY <2>5, <2>6, <2>7
<1>15. ASSUME NEW n \in Nodes, ~(found /\ n = Head(queues[q].items))
       PROVE  HoldersOf(n)' = HoldersOf(n)
  <2>1. n # None
    BY NoneApart
  <2>2. ASSUME NEW y \in QueueIds
        PROVE  n \in ElementsOf(queues'[y].items) <=> n \in ElementsOf(queues[y].items)
    <3>1. CASE y = q /\ found
      BY <1>6, <1>7, <1>15, <3>1
    <3>2. CASE ~(y = q /\ found)
      <4>1. queues'[y] = queues[y]
        BY <1>7, <3>2
      <4> QED
        BY <4>1
    <3> QED
      BY <3>1, <3>2
  <2>3. \A v \in Workers, k \in 1 .. 3 : worker'[v].held[k] = n <=> worker[v].held[k] = n
    BY <1>2, <1>9, <1>11, <1>15, <2>1
  <2> QED
    BY <1>4, <1>13, <2>2, <2>3, HoldersKept
<1>16. \A n \in Nodes : HoldersOf(n)' = {} <=> HoldersOf(n) = {}
  BY <1>14, <1>15
<1>17. OneHolder'
  <2>1. \A n \in Nodes : \/ HoldersOf(n)' \subseteq HoldersOf(n) /\ OneHolder
                         \/ \E t : HoldersOf(n)' \subseteq {t}
    <3> TAKE n \in Nodes
    <3>1. CASE found /\ n = Head(queues[q].items)
      BY <1>14, <3>1
    <3>2. CASE ~(found /\ n = Head(queues[q].items))
      BY <1>1, <1>15, <3>2
    <3> QED
      BY <3>1, <3>2
  <2>2. /\ \A v \in Workers : Distinct(worker'[v].drain)
        /\ \A g \in Groups : Distinct(group'[g].list)
    BY <1>1, <1>4, <1>13 DEF OneHolder
  <2> QED
    BY <1>8, <2>1, <2>2, OneHolderKept
<1>18. SameRoles
  <2>1. \A v \in Workers : SameFibers(worker[v], worker'[v])
    BY <1>11 DEF SameFibers
  <2> QED
    BY <1>4, <2>1 DEF SameRoles, SameFrame
<1>19. SameJobs
  <2>1. \A f \in Fibers : fiber[f].ip \in Nat
    BY <1>1, FiberFields DEF Types
  <2> QED
    BY <1>4, <2>1 DEF SameJobs
<1>20. Hands'
  <2>1. /\ ~Switching(w)' /\ pc'[w] = pc[w]
        /\ pc[w] = "jobs" => NodesOf(kind) = Jobs
        /\ pc[w] = "fibers" => NodesOf(kind) = Fibers
    BY <1>4 DEF Switching, NodesOf
  <2>2. \A k \in 1 .. 3 : k > i => x[k] = None
    BY <1>2, <1>9
  <2> HIDE DEF i
  <2>3. HandsOf(w)'
    BY <1>1, <1>10, <1>11, <2>1, <2>2 DEF HandsOf, SameFibers
  <2> QED
    BY <1>4, <1>11, <2>3, HandsKept DEF IInv
<1>21. ConsumersExclude'
  BY <1>4, <1>11 DEF IInv, ConsumersExclude
<1> QED
  BY <1>4, <1>12, <1>16, <1>17, <1>18, <1>19, <1>20, <1>21, MovesKeep

\* Looking for a ready fiber, and for a job.
LEMMA LookForFiberKeeps == ASSUME IInv, NEW w \in Workers, LookForFiber(w) PROVE IInv'
<1> DEFINE kind == "fiber"
<1>1. pc[w] = (IF kind = "job" THEN "jobs" ELSE "fibers") /\ Look(kind, w) /\ kind \in {"job", "fiber"}
  BY DEF LookForFiber, At
<1> HIDE DEF kind
<1> QED
  BY <1>1, LookKeeps

LEMMA LookForJobKeeps == ASSUME IInv, NEW w \in Workers, LookForJob(w) PROVE IInv'
<1> DEFINE kind == "job"
<1>1. pc[w] = (IF kind = "job" THEN "jobs" ELSE "fibers") /\ Look(kind, w) /\ kind \in {"job", "fiber"}
  BY DEF LookForJob, At
<1> HIDE DEF kind
<1> QED
  BY <1>1, LookKeeps

Homeless(n) == HoldersOf(n) = {}

\* Of the nodes taken the chosen one stays with the worker, as far as it keeps
\* it, and each other one is back in the queue it came from.
LEMMA PutBackEffect ==
  ASSUME IInv, NEW w \in Workers, NEW kind \in {"job", "fiber"},
         pc[w] = (IF kind = "job" THEN "jobs" ELSE "fibers"), PutBack(kind, w),
         \E i \in 1 .. 3 : worker[w].held[i] # None,
         NEW m, m = worker[w].held[Earliest(kind, worker[w].held)],
         worker' \in [Workers -> WorkerRecord],
         \A v \in Workers : v # w => worker'[v] = worker[v],
         worker'[w].drain = worker[w].drain,
         \A i \in 2 .. 3 : worker'[w].held[i] = None,
         worker'[w].held[1] \in {None, m}
  PROVE  /\ m \in NodesOf(kind)
         /\ queues' \in [QueueIds -> QueueRecord]
         /\ \A q \in QueueIds : queues'[q].items \in Seq(NodesOf(q[1]))
         /\ consumerLock' \in [Priorities -> Workers \union {None}]
         /\ \A v \in Workers : v # w /\ pc[v] \in {"fibers", "jobs"} => consumerLock'[worker[v].level] = v
         /\ OneHolder'
         /\ \A n \in Nodes : n # m => (HoldersOf(n)' = {} <=> HoldersOf(n) = {})
         /\ \A n \in Nodes : n = m => ~Homeless(n) /\ (Homeless(n)' <=> worker'[w].held[1] = None)
<1> DEFINE c == Earliest(kind, worker[w].held)
<1> DEFINE id(i) == QueuesOf(kind, w)[i]
<1> DEFINE p == worker[w].level
<1> DEFINE h == worker[w].held
<1> DEFINE back == Unchosen(h, c)
<1>1. /\ worker[w] \in WorkerRecord /\ HandsOf(w) /\ Types /\ OneHolder /\ p \in Priorities
      /\ worker[w].drain = <<>>
  <2>1. pc[w] # "drain"
    OBVIOUS
  <2> QED
    BY <2>1, EmptyHanded, WorkerFields DEF IInv
<1>2. /\ \A i \in 1 .. 3 : id(i) \in QueueIds /\ id(i)[1] = kind
      /\ \A i, j \in 1 .. 3 : id(i) = id(j) => i = j
  BY <1>1, ThreeQueues
<1>3. /\ queues' = [q \in QueueIds |->
             IF \E i \in back : id(i) = q
             THEN PushedFront(queues[q], h[CHOOSE i \in back : id(i) = q]) ELSE queues[q]]
      /\ consumerLock' = [consumerLock EXCEPT ![p] = None]
      /\ group' = group
  BY DEF PutBack
<1> HIDE DEF id
<1>4. /\ \A i \in 1 .. 3 : h[i] \in NodesOf(kind) \union {None}
      /\ \E i \in 1 .. 3 : h[i] # None
  BY <1>1 DEF HandsOf, NodesOf
<1>5. c \in 1 .. 3 /\ h[c] = m /\ m # None /\ m \in NodesOf(kind)
  BY <1>1, <1>4, EarliestHeld
<1> HIDE DEF c
<1>6. back = {i \in 1 .. 3 : i # c /\ h[i] # None}
  BY DEF Unchosen
<1>7. NodesOf(kind) \in SUBSET Nodes /\ None \notin Nodes
  BY NoneApart DEF NodesOf, Nodes
<1>8. \A i \in 1 .. 3 : h[i] # None =>
        /\ h[i] \in Nodes
        /\ \A q \in QueueIds : h[i] \notin ElementsOf(queues[q].items)
        /\ \A v \in Workers, k \in 1 .. 3 : worker[v].held[k] = h[i] => v = w /\ k = i
        /\ \A v \in Workers : h[i] \notin ElementsOf(worker[v].drain)
        /\ \A g \in Groups : h[i] \notin ElementsOf(group[g].list)
  <2> SUFFICES ASSUME NEW i \in 1 .. 3, h[i] # None
               PROVE  /\ h[i] \in Nodes
                      /\ \A q \in QueueIds : h[i] \notin ElementsOf(queues[q].items)
                      /\ \A v \in Workers, k \in 1 .. 3 : worker[v].held[k] = h[i] => v = w /\ k = i
                      /\ \A v \in Workers : h[i] \notin ElementsOf(worker[v].drain)
                      /\ \A g \in Groups : h[i] \notin ElementsOf(group[g].list)
    OBVIOUS
  <2>1. h[i] \in Nodes /\ worker[w].held[i] = h[i]
    BY <1>4, <1>7
  <2> DEFINE n == h[i]
  <2>2. n \in Nodes /\ worker[w].held[i] = n
    BY <2>1
  <2> HIDE DEF n
  <2>3. /\ \A q \in QueueIds : n \notin ElementsOf(queues[q].items)
        /\ \A v \in Workers, k \in 1 .. 3 : worker[v].held[k] = n => v = w /\ k = i
        /\ \A v \in Workers : n \notin ElementsOf(worker[v].drain)
        /\ \A g \in Groups : n \notin ElementsOf(group[g].list)
    BY <1>1, <2>2, OnePlace
  <2> QED
    BY <2>2, <2>3 DEF n
<1> HIDE DEF h, back
<1>9. \A i \in back : queues'[id(i)] = PushedFront(queues[id(i)], h[i])
  <2> TAKE i \in back
  <2>1. i \in 1 .. 3 /\ id(i) \in QueueIds
    BY <1>2, <1>6
  <2>2. (CHOOSE k \in back : id(k) = id(i)) = i
    BY <1>2, <1>6
  <2> QED
    BY <1>3, <2>1, <2>2
<1>10. \A q \in QueueIds : (\A i \in back : id(i) # q) => queues'[q] = queues[q]
  BY <1>3
<1>11. ASSUME NEW i \in back
       PROVE  /\ id(i) \in QueueIds /\ i \in 1 .. 3 /\ h[i] # None
              /\ queues'[id(i)] \in QueueRecord /\ queues'[id(i)].items \in Seq(NodesOf(kind))
              /\ Distinct(queues'[id(i)].items)
              /\ ElementsOf(queues'[id(i)].items) = ElementsOf(queues[id(i)].items) \union {h[i]}
  <2>1. i \in 1 .. 3 /\ id(i) \in QueueIds /\ id(i)[1] = kind /\ h[i] # None
    BY <1>2, <1>6
  <2>2. /\ queues[id(i)] \in QueueRecord /\ queues[id(i)].items \in Seq(NodesOf(kind))
        /\ Distinct(queues[id(i)].items)
    BY <1>1, <2>1 DEF Types, OneHolder
  <2>3. h[i] \in NodesOf(kind) /\ h[i] \notin ElementsOf(queues[id(i)].items)
    BY <1>4, <1>8, <2>1 DEF h
  <2>4. queues'[id(i)] = PushedFront(queues[id(i)], h[i])
    BY <1>9
  <2> QED
    <3> DEFINE q == queues[id(i)]
    <3> DEFINE x == h[i]
    <3> DEFINE S == NodesOf(kind)
    <3>1. q \in QueueRecord /\ q.items \in Seq(S) /\ Distinct(q.items)
          /\ x \in S /\ x \notin ElementsOf(q.items) /\ S \in SUBSET Nodes
      BY <1>7, <2>2, <2>3
    <3> HIDE DEF q, x, S
    <3>2. /\ PushedFront(q, x) \in QueueRecord /\ PushedFront(q, x).items \in Seq(S)
          /\ Distinct(PushedFront(q, x).items)
          /\ ElementsOf(PushedFront(q, x).items) = ElementsOf(q.items) \union {x}
      BY <3>1, PushedElements
    <3> QED
      BY <2>1, <2>4, <3>2 DEF q, x, S
<1>12. /\ queues' \in [QueueIds -> QueueRecord]
       /\ \A q \in QueueIds : queues'[q].items \in Seq(NodesOf(q[1])) /\ Distinct(queues'[q].items)
  <2>1. ASSUME NEW q \in QueueIds
        PROVE  /\ queues'[q] \in QueueRecord /\ queues'[q].items \in Seq(NodesOf(q[1]))
               /\ Distinct(queues'[q].items)
    <3>1. CASE \E i \in back : id(i) = q
      <4>1. PICK i \in back : id(i) = q
        BY <3>1
      <4>2. q[1] = kind
        BY <1>2, <1>6, <4>1
      <4> QED
        BY <1>11, <4>1, <4>2
    <3>2. CASE \A i \in back : id(i) # q
      BY <1>1, <1>10, <3>2 DEF Types, OneHolder
    <3> QED
      BY <3>1, <3>2
  <2> QED
    BY <1>3, <2>1
<1>13. \A v \in Workers : worker'[v].drain = worker[v].drain
  OBVIOUS
<1>14. \A k \in 1 .. 3 : worker'[w].held[k] = None \/ (k = 1 /\ worker'[w].held[k] = m)
  <2>1. \A k \in 1 .. 3 : k = 1 \/ k \in 2 .. 3
    OBVIOUS
  <2> QED
    BY <2>1 DEF h
<1>15. ASSUME NEW n \in Nodes, NEW i \in back, h[i] = n
       PROVE  HoldersOf(n)' \subseteq {<<"queue", id(i)>>} /\ HoldersOf(n)' # {} /\ HoldersOf(n) # {}
  <2>1. i \in 1 .. 3 /\ i # c /\ h[i] # None
    BY <1>6
  <2>2. /\ \A q \in QueueIds : n \notin ElementsOf(queues[q].items)
        /\ \A v \in Workers, k \in 1 .. 3 : worker[v].held[k] = n => v = w /\ k = i
        /\ \A v \in Workers : n \notin ElementsOf(worker[v].drain)
        /\ \A g \in Groups : n \notin ElementsOf(group[g].list)
    BY <1>8, <1>15, <2>1 DEF h
  <2>3. \A k \in 1 .. 3 : h[k] = n => k = i
    BY <2>2 DEF h
  <2>4. \A q \in QueueIds : n \in ElementsOf(queues'[q].items) => q = id(i)
    <3> SUFFICES ASSUME NEW q \in QueueIds, n \in ElementsOf(queues'[q].items) PROVE q = id(i)
      OBVIOUS
    <3>1. PICK k \in back : id(k) = q
      BY <1>10, <2>2
    <3>2. n = h[k] /\ k \in 1 .. 3
      <4>1. ElementsOf(queues'[q].items) = ElementsOf(queues[q].items) \union {h[k]} /\ k \in 1 .. 3
        BY <1>11, <3>1
      <4> QED
        BY <2>2, <4>1
    <3> QED
      BY <2>3, <3>1, <3>2
  <2>5. \A v \in Workers, k \in 1 .. 3 : worker'[v].held[k] # n
    <3> TAKE v \in Workers, k \in 1 .. 3
    <3>1. CASE v = w
      BY <1>5, <1>7, <1>14, <2>1, <2>3, <3>1
    <3>2. CASE v # w
      BY <2>2, <3>2
    <3> QED
      BY <3>1, <3>2
  <2>6. HoldersOf(n)' \subseteq {<<"queue", id(i)>>}
    <3>1. \A q \in QueueIds : n \in ElementsOf(queues'[q].items) => <<"queue", id(i)>> = <<"queue", q>>
      BY <2>4
    <3> DEFINE t == <<"queue", id(i)>>
    <3>8. /\ \A v \in Workers, k \in 1 .. 3 : worker'[v].held[k] = n => t = <<"held", v, k>>
          /\ \A v \in Workers : n \in ElementsOf(worker'[v].drain) => t = <<"drain", v>>
          /\ \A g \in Groups : n \in ElementsOf(group'[g].list) => t = <<"list", g>>
      BY <1>3, <1>13, <2>2, <2>5
    <3>9. \A q \in QueueIds : n \in ElementsOf(queues'[q].items) => t = <<"queue", q>>
      BY <3>1
    <3> HIDE DEF t
    <3>10. HoldersOf(n)' \subseteq {t}
      BY <3>8, <3>9, HoldersAre
    <3> QED
      BY <3>10 DEF t
  <2>7. <<"queue", id(i)>> \in HoldersOf(n)'
    <3>1. n \in ElementsOf(queues'[id(i)].items) /\ id(i) \in QueueIds
      BY <1>11, <1>15
    <3> QED
      BY <3>1, HolderIsNext
  <2>8. <<"held", w, i>> \in HoldersOf(n)
    <3>1. worker[w].held[i] = n
      BY <1>15 DEF h
    <3> QED
      BY <2>1, <3>1, HolderIs
  <2> QED
    BY <2>6, <2>7, <2>8
<1>16. /\ HoldersOf(m)' \subseteq {<<"held", w, 1>>} /\ HoldersOf(m) # {}
       /\ HoldersOf(m)' = {} <=> worker'[w].held[1] = None
  <2>1. m \in Nodes /\ m # None /\ worker[w].held[c] = m
    BY <1>5, <1>7 DEF h
  <2>2. /\ \A q \in QueueIds : m \notin ElementsOf(queues[q].items)
        /\ \A v \in Workers, k \in 1 .. 3 : worker[v].held[k] = m => v = w /\ k = c
        /\ \A v \in Workers : m \notin ElementsOf(worker[v].drain)
        /\ \A g \in Groups : m \notin ElementsOf(group[g].list)
    BY <1>5, <1>8, <2>1 DEF h
  <2>3. \A q \in QueueIds : m \notin ElementsOf(queues'[q].items)
    <3> SUFFICES ASSUME NEW q \in QueueIds, m \in ElementsOf(queues'[q].items) PROVE FALSE
      OBVIOUS
    <3>1. PICK k \in back : id(k) = q
      BY <1>10, <2>2
    <3>2. m = h[k] /\ k \in 1 .. 3 /\ k # c
      <4>1. ElementsOf(queues'[q].items) = ElementsOf(queues[q].items) \union {h[k]} /\ k \in 1 .. 3
        BY <1>11, <3>1
      <4> QED
        BY <1>6, <2>2, <4>1
    <3> QED
      BY <2>2, <3>2 DEF h
  <2>4. \A v \in Workers, k \in 1 .. 3 : worker'[v].held[k] = m => <<"held", w, 1>> = <<"held", v, k>>
    <3> SUFFICES ASSUME NEW v \in Workers, NEW k \in 1 .. 3, worker'[v].held[k] = m PROVE v = w /\ k = 1
      OBVIOUS
    <3>1. v = w
      BY <2>2
    <3> QED
      BY <1>14, <2>1, <3>1
  <2>5. HoldersOf(m)' \subseteq {<<"held", w, 1>>}
    <3> DEFINE t == <<"held", w, 1>>
    <3>8. /\ \A q \in QueueIds : m \in ElementsOf(queues'[q].items) => t = <<"queue", q>>
          /\ \A v \in Workers : m \in ElementsOf(worker'[v].drain) => t = <<"drain", v>>
          /\ \A g \in Groups : m \in ElementsOf(group'[g].list) => t = <<"list", g>>
      BY <1>3, <1>13, <2>2, <2>3
    <3>9. \A v \in Workers, k \in 1 .. 3 : worker'[v].held[k] = m => t = <<"held", v, k>>
      BY <2>4
    <3> HIDE DEF t
    <3>10. HoldersOf(m)' \subseteq {t}
      BY <3>8, <3>9, HoldersAre
    <3> QED
      BY <3>10 DEF t
  <2>6. <<"held", w, c>> \in HoldersOf(m)
    BY <1>5, <2>1, HolderIs
  <2>7. ASSUME worker'[w].held[1] # None PROVE HoldersOf(m)' # {}
    <3>1. worker'[w].held[1] = m /\ 1 \in 1 .. 3
      BY <2>1, <2>7
    <3>2. <<"held", w, 1>> \in HoldersOf(m)'
      <4>1. \A k \in 1 .. 3 : worker'[w].held[k] = m => <<"held", w, k>> \in HoldersOf(m)'
        BY HolderIsNext
      <4> QED
        BY <3>1, <4>1
    <3> QED
      BY <3>2
  <2>8. ASSUME worker'[w].held[1] = None PROVE HoldersOf(m)' = {}
    <3>1. \A v \in Workers, k \in 1 .. 3 : worker'[v].held[k] # m
      <4> TAKE v \in Workers, k \in 1 .. 3
      <4>1. CASE v = w
        BY <1>14, <2>1, <2>8, <4>1
      <4>2. CASE v # w
        BY <2>2, <4>2
      <4> QED
        BY <4>1, <4>2
    <3>8. /\ \A v \in Workers : m \notin ElementsOf(worker'[v].drain)
          /\ \A g \in Groups : m \notin ElementsOf(group'[g].list)
      BY <1>3, <1>13, <2>2
    <3> QED
      BY <2>3, <3>1, <3>8, HoldersGone
  <2> QED
    BY <2>5, <2>6, <2>7, <2>8
<1>17. ASSUME NEW n \in Nodes, \A i \in 1 .. 3 : h[i] # n
       PROVE  HoldersOf(n)' = HoldersOf(n)
  <2>1. n # None
    BY <1>7
  <2>2. ASSUME NEW q \in QueueIds
        PROVE  n \in ElementsOf(queues'[q].items) <=> n \in ElementsOf(queues[q].items)
    <3>1. CASE \E i \in back : id(i) = q
      <4>1. PICK i \in back : id(i) = q
        BY <3>1
      <4> QED
        BY <1>11, <1>17, <4>1
    <3>2. CASE \A i \in back : id(i) # q
      <4>1. queues'[q] = queues[q]
        BY <1>10, <3>2
      <4> QED
        BY <4>1
    <3> QED
      BY <3>1, <3>2
  <2>3. \A v \in Workers, k \in 1 .. 3 : worker'[v].held[k] = n <=> worker[v].held[k] = n
    <3> TAKE v \in Workers, k \in 1 .. 3
    <3>1. CASE v = w
      <4>1. worker'[w].held[k] # n
        BY <1>5, <1>14, <1>17, <2>1
      <4>2. worker[w].held[k] # n
        BY <1>17 DEF h
      <4> QED
        BY <3>1, <4>1, <4>2
    <3>2. CASE v # w
      BY <3>2
    <3> QED
      BY <3>1, <3>2
  <2> QED
    BY <1>3, <1>13, <2>2, <2>3, HoldersKept
<1>18. ASSUME NEW n \in Nodes
       PROVE  \/ n = m \/ (\E i \in back : h[i] = n) \/ (\A i \in 1 .. 3 : h[i] # n)
  BY <1>5, <1>6, <1>7
<1>19. \A n \in Nodes : n # m => (HoldersOf(n)' = {} <=> HoldersOf(n) = {})
  <2> SUFFICES ASSUME NEW n \in Nodes, n # m PROVE HoldersOf(n)' = {} <=> HoldersOf(n) = {}
    OBVIOUS
  <2>1. CASE \E i \in back : h[i] = n
    BY <1>15, <2>1
  <2>2. CASE \A i \in 1 .. 3 : h[i] # n
    BY <1>17, <2>2
  <2> QED
    BY <1>18, <2>1, <2>2
<1>20. OneHolder'
  <2>1. \A n \in Nodes : \/ HoldersOf(n)' \subseteq HoldersOf(n) /\ OneHolder
                         \/ \E t : HoldersOf(n)' \subseteq {t}
    <3> TAKE n \in Nodes
    <3>1. CASE \E i \in back : h[i] = n
      BY <1>15, <3>1
    <3>2. CASE \A i \in 1 .. 3 : h[i] # n
      BY <1>1, <1>17, <3>2
    <3>3. CASE n = m
      BY <1>16, <3>3
    <3> QED
      BY <1>18, <3>1, <3>2, <3>3
  <2>2. /\ \A v \in Workers : Distinct(worker'[v].drain)
        /\ \A g \in Groups : Distinct(group'[g].list)
    BY <1>1, <1>3, <1>13 DEF OneHolder
  <2> QED
    BY <1>12, <2>1, <2>2, OneHolderKept
<1>21. /\ consumerLock' \in [Priorities -> Workers \union {None}]
       /\ \A v \in Workers : v # w /\ pc[v] \in {"fibers", "jobs"} => consumerLock'[worker[v].level] = v
  <2>1. consumerLock' \in [Priorities -> Workers \union {None}]
    BY <1>1, <1>3 DEF Types
  <2>2. consumerLock[p] = w
    BY DEF IInv, ConsumersExclude
  <2>3. ASSUME NEW v \in Workers, v # w, pc[v] \in {"fibers", "jobs"}
        PROVE  consumerLock'[worker[v].level] = v
    <3>1. consumerLock[worker[v].level] = v /\ worker[v].level \in Priorities
      BY <1>1, <2>3, WorkerFields DEF IInv, ConsumersExclude, Types
    <3> QED
      BY <1>1, <1>3, <2>2, <2>3, <3>1 DEF Types
  <2> QED
    BY <2>1, <2>3
<1> QED
  BY <1>5, <1>12, <1>16, <1>19, <1>20, <1>21 DEF Homeless

\* Choosing a ready fiber keeps the invariant.
LEMMA ChooseFiberKeeps == ASSUME IInv, NEW w \in Workers, ChooseFiber(w) PROVE IInv'
<1>1. /\ pc[w] = "fibers" /\ PutBack("fiber", w) /\ Goto(w, "switch")
      /\ UNCHANGED <<fiber, group, job, jobCounter, shouldExit, fault, lost>>
      /\ Types /\ HandsOf(w) /\ worker[w] \in WorkerRecord /\ worker[w].drain = <<>>
      /\ worker[w].prev = None
  <2>1. pc[w] = "fibers"
    BY DEF ChooseFiber, At
  <2> QED
    BY <2>1, EmptyHanded DEF ChooseFiber, PutBack, Switching
<1>2. PICK c \in 1 .. 3, m \in Fibers : c = Earliest("fiber", worker[w].held) /\ m = worker[w].held[c]
  <2>1. /\ \A i \in 1 .. 3 : worker[w].held[i] \in NodesOf("fiber") \union {None}
        /\ \E i \in 1 .. 3 : worker[w].held[i] # None
    <3>1. \A i \in 1 .. 3 : worker[w].held[i] \in NodesOf("fiber") \union {None}
      BY <1>1 DEF HandsOf, NodesOf
    <3>2. worker[w].held # NothingHeld
      BY DEF ChooseFiber
    <3> QED
      BY <1>1, <3>1, <3>2, HoldsSomething
  <2> DEFINE d == Earliest("fiber", worker[w].held)
  <2>2. d \in 1 .. 3 /\ worker[w].held[d] # None
    BY <1>1, <2>1, EarliestHeld
  <2> HIDE DEF d
  <2>3. worker[w].held[d] \in Fibers
    BY <2>1, <2>2 DEF NodesOf
  <2> QED
    BY <2>2, <2>3 DEF d
<1> DEFINE x == <<m, None, None>>
<1>3. x \in [1 .. 3 -> Nodes \union {None}] /\ x[1] = m /\ \A i \in 2 .. 3 : x[i] = None
  BY <1>2 DEF Nodes
<1>4. /\ worker' \in [Workers -> WorkerRecord] /\ SameFibers(worker[w], worker'[w])
      /\ worker'[w].held = x /\ worker'[w].level = worker[w].level /\ worker'[w].drain = worker[w].drain
      /\ worker'[w].affinity = worker[w].affinity
      /\ \A v \in Workers : v # w => worker'[v] = worker[v]
  <2> DEFINE s == [worker[w] EXCEPT !.held = x]
  <2>1. worker' = [worker EXCEPT ![w] = s]
    BY <1>1, <1>2 DEF ChooseFiber, Types
  <2> HIDE DEF x
  <2>2. /\ s \in WorkerRecord /\ SameFibers(worker[w], s) /\ s.level = worker[w].level /\ s.held = x
        /\ s.drain = worker[w].drain /\ s.affinity = worker[w].affinity
    BY <1>1, <1>3, WorkerHeld
  <2> HIDE DEF s
  <2> QED
    BY <1>1, <2>1, <2>2, OneWorker
<1> HIDE DEF x
<1>5. /\ pc' \in [Workers -> Labels] /\ pc'[w] = "switch"
      /\ \A v \in Workers : v # w => pc'[v] = pc[v]
  BY <1>1, OnePc DEF Labels
<1>6. /\ queues' \in [QueueIds -> QueueRecord]
      /\ \A q \in QueueIds : queues'[q].items \in Seq(NodesOf(q[1]))
      /\ consumerLock' \in [Priorities -> Workers \union {None}]
      /\ \A v \in Workers : v # w /\ pc[v] \in {"fibers", "jobs"} => consumerLock'[worker[v].level] = v
      /\ OneHolder'
      /\ \A n \in Nodes : n # m => (HoldersOf(n)' = {} <=> HoldersOf(n) = {})
      /\ \A n \in Nodes : n = m => ~Homeless(n) /\ (Homeless(n)' <=> worker'[w].held[1] = None)
  <2> DEFINE kind == "fiber"
  <2>1. pc[w] = (IF kind = "job" THEN "jobs" ELSE "fibers") /\ kind \in {"job", "fiber"}
    BY <1>1
  <2>8. m = worker[w].held[Earliest(kind, worker[w].held)]
    BY <1>2
  <2>9. PutBack(kind, w)
    BY <1>1
  <2>2. \A i \in 2 .. 3 : worker'[w].held[i] = None
    BY <1>3, <1>4
  <2>3. worker'[w].held[1] \in {None, m}
    BY <1>3, <1>4
  <2>4. worker' \in [Workers -> WorkerRecord]
    BY <1>4
  <2>5. \A v \in Workers : v # w => worker'[v] = worker[v]
    BY <1>4
  <2>6. worker'[w].drain = worker[w].drain
    BY <1>4
  <2>7. \E i \in 1 .. 3 : worker[w].held[i] # None
    BY <1>1, HoldsSomething DEF ChooseFiber
  <2> HIDE DEF kind
  <2>10. /\ OneHolder'
         /\ queues' \in [QueueIds -> QueueRecord]
         /\ \A q \in QueueIds : queues'[q].items \in Seq(NodesOf(q[1]))
         /\ consumerLock' \in [Priorities -> Workers \union {None}]
         /\ \A v \in Workers : v # w /\ pc[v] \in {"fibers", "jobs"} => consumerLock'[worker[v].level] = v
    BY <2>1, <2>2, <2>3, <2>4, <2>5, <2>6, <2>7, <2>8, <2>9, PutBackEffect
  <2>11. /\ \A n \in Nodes : n # m => (HoldersOf(n)' = {} <=> HoldersOf(n) = {})
         /\ \A n \in Nodes : n = m => ~Homeless(n) /\ (Homeless(n)' <=> worker'[w].held[1] = None)
    BY <2>1, <2>2, <2>3, <2>4, <2>5, <2>6, <2>7, <2>8, <2>9, PutBackEffect
  <2> QED
    BY <2>10, <2>11
<1>7. \A n \in Nodes : HoldersOf(n)' = {} <=> HoldersOf(n) = {}
  <2>1. worker'[w].held[1] # None
    BY <1>2, <1>3, <1>4, NoneApart
  <2> QED
    BY <1>6, <2>1 DEF Homeless
<1>8. Types'
  BY <1>1, <1>4, <1>5, <1>6 DEF Types
<1>9. SameRoles
  BY <1>1, <1>4, <1>5 DEF SameRoles, SameFibers, SameFrame, AtFiber
<1>10. SameJobs
  <2>1. \A f \in Fibers : fiber[f].ip \in Nat
    BY <1>1, FiberFields DEF Types
  <2> QED
    BY <1>1, <2>1 DEF SameJobs
<1>11. Hands'
  <2>1. \A i \in 1 .. 3 : worker'[w].held[i] # None => i = 1
    <3>1. \A i \in 1 .. 3 : i = 1 \/ i \in 2 .. 3
      OBVIOUS
    <3> QED
      BY <1>3, <1>4, <3>1
  <2>2. ~Switching(w)' /\ worker'[w].held[1] \in Fibers
    BY <1>2, <1>3, <1>4, <1>5 DEF Switching
  <2>3. HandsOf(w)'
    BY <1>1, <1>4, <1>5, <2>1, <2>2 DEF HandsOf, SameFibers
  <2> QED
    BY <1>1, <1>4, <1>5, <2>3, HandsKept DEF IInv
<1>12. ConsumersExclude'
  BY <1>4, <1>5, <1>6 DEF ConsumersExclude
<1> QED
  BY <1>1, <1>6, <1>7, <1>8, <1>9, <1>10, <1>11, <1>12, MovesKeep

\* A worker changes what its own fiber does, and nothing of the other fibers.
LEMMA LocalRoles ==
  ASSUME IInv, NEW w \in Workers, NEW c \in Fibers, c = worker[w].current,
         Types', \A v \in Workers : SameFibers(worker[v], worker'[v]),
         \A v \in Workers : v # w => pc'[v] = pc[v],
         ~Switching(w), ~Switching(w)', pc'[w] \notin {"start", "acquire"},
         \A f \in Fibers : f # c => fiber'[f] = fiber[f],
         fiber'[c].free = fiber[c].free, fiber'[c].context = fiber[c].context,
         fiber'[c].waiting <=> pc'[w] = "park",
         fiber'[c].waiting => fiber'[c].resume = "wait" /\ fiber'[c].affinity \in Affinities,
         fiber'[c].job # None <=> fiber'[c].waiting \/ pc'[w] = "run",
         fiber'[c].job # None => fiber'[c].ip \in Nat \ {0}
  PROVE  /\ PoolIsFree' /\ RunningFibers' /\ LeavingFibers' /\ FramesOfJobs'
         /\ \A f \in Fibers : Resuming(f)' = Resuming(f)
<1>1. /\ Types /\ HandsOf(w) /\ None \notin Fibers /\ worker[w].prev = None
      /\ \A v \in Workers : worker[v].current \in Fibers \union {None}
  BY EmptyHanded, NoneApart, WorkerFields DEF Types
<1>2. \A v \in Workers : /\ worker'[v].current = worker[v].current
                         /\ worker'[v].prev = worker[v].prev /\ worker'[v].lastWait = worker[v].lastWait
  BY DEF SameFibers
<1>3. \A v \in Workers : worker[v].current = c => v = w
  BY <1>1 DEF IInv, RunningFibers
<1>4. ~fiber[c].free /\ fiber[c].context = "running"
  BY <1>1 DEF IInv, RunningFibers, PoolIsFree, Free
<1>5. PoolIsFree'
  BY <1>2, <1>4 DEF IInv, PoolIsFree, Free
<1>6. RunningFibers'
  <2>1. \A u, v \in Workers : worker'[u].current # None /\ worker'[u].current = worker'[v].current => u = v
    BY <1>2 DEF IInv, RunningFibers
  <2>2. ASSUME NEW v \in Workers, worker[v].current # None
        PROVE  LET f == worker[v].current IN
               /\ fiber'[f].context = "running"
               /\ fiber'[f].waiting <=> pc'[v] = "park" \/ (Switching(v)' /\ fiber'[f].resume = "wait")
    <3>1. CASE v = w
      BY <1>4, <3>1
    <3>2. CASE v # w
      <4>1. worker[v].current \in Fibers /\ worker[v].current # c /\ pc'[v] = pc[v]
            /\ (Switching(v)' <=> Switching(v))
        BY <1>1, <1>3, <2>2, <3>2 DEF Switching
      <4> QED
        BY <2>2, <4>1 DEF IInv, RunningFibers
    <3> QED
      BY <3>1, <3>2
  <2> QED
    BY <1>2, <2>1, <2>2 DEF RunningFibers
<1>7. LeavingFibers'
  <2>1. \A v \in Workers, f \in Fibers : Leaving(v, f)' <=> Leaving(v, f)
    <3> TAKE v \in Workers, f \in Fibers
    <3>1. CASE v = w
      BY <1>1, <1>2, <3>1 DEF Leaving
    <3>2. CASE v # w
      BY <1>2, <3>2 DEF Leaving
    <3> QED
      BY <3>1, <3>2
  <2>2. \A u, v \in Workers : \A f \in Fibers : Leaving(u, f)' /\ Leaving(v, f)' => u = v
    BY <2>1 DEF IInv, LeavingFibers
  <2>3. ASSUME NEW v \in Workers, NEW f \in Fibers, Leaving(v, f)'
        PROVE  /\ ~fiber'[f].free /\ \A u \in Workers : worker'[u].current # f
               /\ pc'[v] = "update" => fiber'[f].context = "running"
               /\ pc'[v] = "update" /\ worker'[v].lastWait # None => fiber'[f].waiting
               /\ worker'[v].lastWait = None => ~fiber'[f].waiting /\ fiber'[f].resume # "wait"
               /\ worker'[v].lastWait = None /\ pc'[v] = "mark" => fiber'[f].context = "saved"
    <3>1. /\ ~fiber[f].free /\ \A u \in Workers : worker[u].current # f
          /\ pc[v] = "update" => fiber[f].context = "running"
          /\ pc[v] = "update" /\ worker[v].lastWait # None => fiber[f].waiting
          /\ worker[v].lastWait = None => ~fiber[f].waiting /\ fiber[f].resume # "wait"
          /\ worker[v].lastWait = None /\ pc[v] = "mark" => fiber[f].context = "saved"
      BY <2>1, <2>3 DEF IInv, LeavingFibers
    <3>2. f # c /\ v # w
      BY <1>1, <1>2, <2>3, <3>1 DEF Leaving
    <3>3. fiber'[f] = fiber[f] /\ pc'[v] = pc[v]
      BY <3>2
    <3> QED
      BY <1>2, <3>1, <3>3
  <2> QED
    BY <2>2, <2>3 DEF LeavingFibers
<1>8. FramesOfJobs'
  <2>1. ASSUME NEW f \in Fibers
        PROVE  fiber'[f].job # None
               <=> fiber'[f].waiting \/ \E v \in Workers : worker'[v].current = f /\ pc'[v] = "run"
    <3>1. CASE f = c
      <4>1. (\E v \in Workers : worker'[v].current = f /\ pc'[v] = "run") <=> pc'[w] = "run"
        BY <1>2, <1>3, <3>1
      <4> QED
        BY <3>1, <4>1
    <3>2. CASE f # c
      <4>1. \A v \in Workers : worker'[v].current = f /\ pc'[v] = "run" <=> worker[v].current = f /\ pc[v] = "run"
        BY <1>2, <3>2
      <4>2. fiber'[f] = fiber[f]
        BY <3>2
      <4> QED
        BY <4>1, <4>2 DEF IInv, FramesOfJobs
    <3> QED
      BY <3>1, <3>2
  <2>2. \A f \in Fibers : fiber'[f].waiting => fiber'[f].resume = "wait" /\ fiber'[f].affinity \in Affinities
    BY DEF IInv, FramesOfJobs
  <2>3. \A f \in Fibers : fiber'[f].job # None => fiber'[f].ip \in Nat \ {0}
    BY DEF IInv, FramesOfJobs
  <2> QED
    BY <2>1, <2>2, <2>3 DEF FramesOfJobs
<1>9. \A f \in Fibers : Resuming(f)' = Resuming(f)
  <2>1. \A v \in Workers : pc'[v] \in {"update", "mark"} <=> pc[v] \in {"update", "mark"}
    BY DEF Switching
  <2> QED
    BY <1>2, <2>1 DEF Resuming
<1> QED
  BY <1>5, <1>6, <1>7, <1>8, <1>9

\* The affinity mask of a queue is one a job may ask for.
LEMMA AffinityOfQueueIs ==
  ASSUME NEW w \in Workers, NEW i \in 1 .. 3
  PROVE  AffinityOfQueue(w, i) \in Affinities
<1>1. ShiftOf[w] \in Workers /\ PoolOf[w] \in {"foreground", "background"}
  BY JobSystemAssumption
<1>2. i = 1 \/ i = 2 \/ i = 3
  OBVIOUS
<1> QED
  BY <1>1, <1>2 DEF AffinityOfQueue, Affinities

\* The worker that is in the loop of FiberProc runs a fiber without a job.
LEMMA RunsLoop ==
  ASSUME IInv, NEW w \in Workers, pc[w] \notin {"start", "acquire", "update", "mark", "run", "park"}
  PROVE  /\ worker[w].current \in Fibers /\ fiber[worker[w].current].job = None
         /\ ~fiber[worker[w].current].waiting
<1>1. HandsOf(w) /\ worker[w].current \in Fibers \union {None}
  BY WorkerFields DEF IInv, Hands, Types
<1>2. worker[w].current \in Fibers /\ worker[w].current # None
  BY <1>1, NoneApart DEF HandsOf
<1>3. ~fiber[worker[w].current].waiting
  BY <1>2 DEF IInv, RunningFibers, Switching
<1>4. \A v \in Workers : worker[v].current = worker[w].current => v = w
  BY <1>2 DEF IInv, RunningFibers
<1> QED
  BY <1>2, <1>3, <1>4 DEF IInv, FramesOfJobs

\* Choosing a job keeps the invariant.
LEMMA ChooseJobKeeps == ASSUME IInv, NEW w \in Workers, ChooseJob(w) PROVE IInv'
<1>1. /\ pc[w] = "jobs" /\ PutBack("job", w) /\ Goto(w, "run")
      /\ UNCHANGED <<group, jobCounter, shouldExit, fault, lost>>
      /\ Types /\ HandsOf(w) /\ worker[w] \in WorkerRecord /\ worker[w].drain = <<>>
      /\ worker[w].prev = None
  <2>1. pc[w] = "jobs"
    BY DEF ChooseJob, At
  <2> QED
    BY <2>1, EmptyHanded DEF ChooseJob, PutBack, Switching
<1>2. PICK i \in 1 .. 3, j \in Jobs : i = Earliest("job", worker[w].held) /\ j = worker[w].held[i]
  <2>1. /\ \A i \in 1 .. 3 : worker[w].held[i] \in NodesOf("job") \union {None}
        /\ \E i \in 1 .. 3 : worker[w].held[i] # None
    <3>1. \A i \in 1 .. 3 : worker[w].held[i] \in NodesOf("job") \union {None}
      BY <1>1 DEF HandsOf, NodesOf
    <3>2. worker[w].held # NothingHeld
      BY DEF ChooseJob
    <3> QED
      BY <1>1, <3>1, <3>2, HoldsSomething
  <2> DEFINE d == Earliest("job", worker[w].held)
  <2>2. d \in 1 .. 3 /\ worker[w].held[d] # None
    BY <1>1, <2>1, EarliestHeld
  <2> HIDE DEF d
  <2>3. worker[w].held[d] \in Jobs
    BY <2>1, <2>2 DEF NodesOf
  <2> QED
    BY <2>2, <2>3 DEF d
<1>3. PICK c \in Fibers : c = worker[w].current /\ fiber[c].job = None /\ ~fiber[c].waiting
  BY <1>1, RunsLoop
<1> DEFINE a == AffinityOfQueue(w, i)
<1>4. /\ worker' \in [Workers -> WorkerRecord] /\ SameFibers(worker[w], worker'[w])
      /\ worker'[w].held = NothingHeld /\ worker'[w].level = worker[w].level
      /\ worker'[w].drain = worker[w].drain /\ worker'[w].affinity \in Affinities
      /\ \A v \in Workers : v # w => worker'[v] = worker[v]
  <2> DEFINE s == [worker[w] EXCEPT !.held = NothingHeld, !.affinity = a]
  <2>1. worker' = [worker EXCEPT ![w] = s]
    BY <1>1, <1>2 DEF ChooseJob, Types
  <2>2. a \in Affinities
    BY AffinityOfQueueIs
  <2> HIDE DEF a
  <2>3. NothingHeld \in [1 .. 3 -> Nodes \union {None}]
    BY DEF NothingHeld
  <2>4. /\ s \in WorkerRecord /\ SameFibers(worker[w], s) /\ s.level = worker[w].level /\ s.held = NothingHeld
        /\ s.drain = worker[w].drain /\ s.affinity = a
    <3> DEFINE x == NothingHeld
    <3>1. x \in [1 .. 3 -> Nodes \union {None}]
      BY <2>3
    <3> HIDE DEF x
    <3>2. LET t == [worker[w] EXCEPT !.held = x, !.affinity = a] IN
          /\ t \in WorkerRecord /\ SameFibers(worker[w], t) /\ t.level = worker[w].level
          /\ t.held = x /\ t.drain = worker[w].drain /\ t.affinity = a
      BY <1>1, <2>2, <3>1 DEF WorkerRecord, SameFibers
    <3> QED
      BY <3>2 DEF x
  <2> HIDE DEF s
  <2> QED
    BY <1>1, <2>1, <2>2, <2>4, OneWorker
<1>5. \A k \in 1 .. 3 : worker'[w].held[k] = None
  <2>1. \A k \in 1 .. 3 : NothingHeld[k] = None
    BY DEF NothingHeld
  <2> QED
    BY <1>4, <2>1
<1>6. /\ pc' \in [Workers -> Labels] /\ pc'[w] = "run"
      /\ \A v \in Workers : v # w => pc'[v] = pc[v]
  BY <1>1, OnePc DEF Labels
<1>7. /\ fiber' \in [Fibers -> FiberRecord] /\ SameFrame(fiber[c], fiber'[c])
      /\ fiber'[c].job = j /\ fiber'[c].ip = 1
      /\ \A f \in Fibers : f # c => fiber'[f] = fiber[f]
  <2> DEFINE s == [fiber[c] EXCEPT !.job = j, !.ip = 1]
  <2>1. fiber' = [fiber EXCEPT ![c] = s] /\ fiber[c] \in FiberRecord
    BY <1>1, <1>2, <1>3 DEF ChooseJob, Types
  <2>2. s \in FiberRecord /\ SameFrame(fiber[c], s) /\ s.job = j /\ s.ip = 1
    <3>1. 1 \in Nat /\ j \in Jobs \union {None}
      OBVIOUS
    <3> QED
      BY <2>1, <3>1 DEF FiberRecord, SameFrame
  <2> HIDE DEF s
  <2> QED
    BY <1>1, <2>1, <2>2, OneFiber
<1>8. /\ job' \in [Jobs -> JobRecord] /\ job'[j].state = "running"
      /\ \A k \in Jobs : k # j => job'[k] = job[k]
  <2>1. job' = [job EXCEPT ![j].state = "running"]
    BY <1>2 DEF ChooseJob
  <2> QED
    BY <1>1, <2>1 DEF Types, JobRecord
<1>9. /\ OneHolder'
      /\ queues' \in [QueueIds -> QueueRecord]
      /\ \A q \in QueueIds : queues'[q].items \in Seq(NodesOf(q[1]))
      /\ consumerLock' \in [Priorities -> Workers \union {None}]
      /\ \A v \in Workers : v # w /\ pc[v] \in {"fibers", "jobs"} => consumerLock'[worker[v].level] = v
      /\ \A n \in Nodes : n # j => (HoldersOf(n)' = {} <=> HoldersOf(n) = {})
      /\ \A n \in Nodes : n = j => ~Homeless(n) /\ (Homeless(n)' <=> worker'[w].held[1] = None)
  <2> DEFINE kind == "job"
  <2>1. pc[w] = (IF kind = "job" THEN "jobs" ELSE "fibers") /\ kind \in {"job", "fiber"}
    BY <1>1
  <2>2. j = worker[w].held[Earliest(kind, worker[w].held)]
    BY <1>2
  <2>3. PutBack(kind, w)
    BY <1>1
  <2>4. \A k \in 2 .. 3 : worker'[w].held[k] = None
    BY <1>5
  <2>5. worker'[w].held[1] \in {None, j}
    BY <1>5
  <2>6. worker' \in [Workers -> WorkerRecord]
    BY <1>4
  <2>7. \A v \in Workers : v # w => worker'[v] = worker[v]
    BY <1>4
  <2>8. worker'[w].drain = worker[w].drain
    BY <1>4
  <2>11. \E k \in 1 .. 3 : worker[w].held[k] # None
    BY <1>1, HoldsSomething DEF ChooseJob
  <2> HIDE DEF kind
  <2>9. /\ OneHolder'
        /\ queues' \in [QueueIds -> QueueRecord]
        /\ \A q \in QueueIds : queues'[q].items \in Seq(NodesOf(q[1]))
        /\ consumerLock' \in [Priorities -> Workers \union {None}]
        /\ \A v \in Workers : v # w /\ pc[v] \in {"fibers", "jobs"} => consumerLock'[worker[v].level] = v
    BY <2>1, <2>2, <2>3, <2>4, <2>5, <2>6, <2>7, <2>8, <2>11, PutBackEffect
  <2>10. /\ \A n \in Nodes : n # j => (HoldersOf(n)' = {} <=> HoldersOf(n) = {})
         /\ \A n \in Nodes : n = j => ~Homeless(n) /\ (Homeless(n)' <=> worker'[w].held[1] = None)
    BY <2>1, <2>2, <2>3, <2>4, <2>5, <2>6, <2>7, <2>8, <2>11, PutBackEffect
  <2> QED
    BY <2>9, <2>10
<1>10. HoldersOf(j) # {} /\ HoldersOf(j)' = {}
  BY <1>5, <1>9 DEF Homeless, Nodes
<1>11. /\ \A f \in Fibers : HoldersOf(f)' = {} <=> HoldersOf(f) = {}
       /\ \A k \in Jobs : k # j => (HoldersOf(k)' = {} <=> HoldersOf(k) = {})
  BY <1>9, NoneApart DEF Nodes
<1>12. job[j].state = "queued" /\ j \notin lost
  BY <1>10 DEF IInv, JobsHeld
<1>13. Types'
  BY <1>1, <1>4, <1>6, <1>7, <1>8, <1>9 DEF Types
<1>14. \A f \in Fibers : fiber'[f].waiting = fiber[f].waiting
  BY <1>7 DEF SameFrame
<1>15. /\ PoolIsFree' /\ RunningFibers' /\ LeavingFibers' /\ FramesOfJobs'
       /\ \A f \in Fibers : Resuming(f)' = Resuming(f)
  <2>1. \A v \in Workers : SameFibers(worker[v], worker'[v])
    BY <1>4 DEF SameFibers
  <2>2. ~Switching(w) /\ ~Switching(w)' /\ pc'[w] \notin {"start", "acquire"}
    BY <1>1, <1>6 DEF Switching
  <2>3. fiber'[c].free = fiber[c].free /\ fiber'[c].context = fiber[c].context /\ ~fiber'[c].waiting
    BY <1>3, <1>7 DEF SameFrame
  <2>4. (fiber'[c].job # None <=> fiber'[c].waiting \/ pc'[w] = "run") /\ fiber'[c].ip \in Nat \ {0}
    BY <1>6, <1>7, NoneApart
  <2> QED
    BY <1>3, <1>6, <1>7, <1>13, <2>1, <2>2, <2>3, <2>4, LocalRoles
<1>16. WaitingFibers'
  BY <1>1, <1>11, <1>14, <1>15 DEF IInv, WaitingFibers
<1>17. JobsHeld'
  <2>1. \A k \in Jobs : HoldersOf(k)' # {} <=> job'[k].state = "queued" /\ k \notin lost'
    <3> TAKE k \in Jobs
    <3>1. CASE k = j
      BY <1>8, <1>10, <3>1
    <3>2. CASE k # j
      BY <1>1, <1>8, <1>11, <3>2 DEF IInv, JobsHeld
    <3> QED
      BY <3>1, <3>2
  <2>2. \A k \in Jobs : k \in lost' => job'[k].state = "queued"
    BY <1>1, <1>8, <1>12 DEF IInv, JobsHeld
  <2> QED
    BY <2>1, <2>2 DEF JobsHeld
<1>18. JobsCarried'
  <2>1. \A f \in Fibers : fiber[f].job # j
    BY <1>12 DEF IInv, JobsCarried, Carried
  <2>2. \A k \in Jobs : job'[k].state = "running" <=> \E f \in Fibers : fiber'[f].job = k
    <3> TAKE k \in Jobs
    <3>1. CASE k = j
      BY <1>7, <1>8, <3>1
    <3>2. CASE k # j
      <4>1. (\E f \in Fibers : fiber'[f].job = k) <=> \E f \in Fibers : fiber[f].job = k
        BY <1>3, <1>7, <3>2, NoneApart
      <4> QED
        BY <1>8, <3>2, <4>1 DEF IInv, JobsCarried, Carried
    <3> QED
      BY <3>1, <3>2
  <2>3. \A f, g \in Fibers : fiber'[f].job # None /\ fiber'[f].job = fiber'[g].job => f = g
    BY <1>7, <2>1 DEF IInv, JobsCarried
  <2> QED
    BY <2>2, <2>3 DEF JobsCarried, Carried
<1>19. ScheduledBefore'
  <2> SUFFICES ASSUME NEW k \in Jobs, NEW n \in DOMAIN Program[k], Schedules(k, n),
                      job'[Program[k][n].job].state # "new"
               PROVE  Passed(k, n)'
    BY DEF ScheduledBefore
  <2>1. Program[k][n].job \in Jobs
    <3>1. Program[k][n] \in Operations
      BY JobSystemAssumption
    <3> QED
      BY <3>1 DEF Schedules, Operations
  <2>2. job[Program[k][n].job].state # "new"
    BY <1>8, <1>12, <2>1
  <2>3. Passed(k, n)
    BY <2>2 DEF IInv, ScheduledBefore
  <2>4. k # j /\ job'[k] = job[k]
    <3>1. k # j
      BY <1>12, <2>3 DEF Passed, IInv, JobsCarried, Carried
    <3> QED
      BY <1>8, <3>1
  <2>5. \A f \in Fibers : fiber[f].job = k => fiber'[f] = fiber[f]
    BY <1>3, <1>7, NoneApart
  <2> QED
    BY <2>3, <2>4, <2>5 DEF Passed
<1>20. Hands'
  <2>1. ~Switching(w)' /\ HandsOf(w)'
    BY <1>1, <1>4, <1>5, <1>6 DEF HandsOf, SameFibers, Switching
  <2> QED
    BY <1>1, <1>4, <1>6, <1>14, <2>1, HandsKept, SwitchingHasFiber DEF IInv
<1>21. ConsumersExclude'
  BY <1>4, <1>6, <1>9 DEF ConsumersExclude
<1> QED
  BY <1>9, <1>13, <1>15, <1>16, <1>17, <1>18, <1>19, <1>20, <1>21 DEF IInv

\* SignalImpl keeps the invariant.
LEMMA SignalImplKeeps == ASSUME IInv, NEW w \in Workers, SignalImpl(w) PROVE IInv'
<1>1. /\ pc[w] = "signal" /\ Goto(w, "drain")
      /\ UNCHANGED <<fiber, queues, consumerLock, job, jobCounter, shouldExit, fault, lost>>
      /\ Types /\ HandsOf(w) /\ worker[w] \in WorkerRecord /\ worker[w].drain = <<>>
      /\ worker[w].prev = None /\ \A i \in 1 .. 3 : worker[w].held[i] = None
      /\ OneHolder
  <2>1. pc[w] = "signal"
    BY DEF SignalImpl, At
  <2> QED
    BY <2>1, EmptyHanded DEF SignalImpl, Switching, IInv
<1>2. PICK g \in Groups, l \in Seq(Fibers) : g = worker[w].signaled /\ l = group[g].list
  <2>1. worker[w].signaled \in Groups
    BY <1>1 DEF HandsOf
  <2>2. group[worker[w].signaled].list \in Seq(Fibers)
    BY <1>1, <2>1 DEF Types, GroupRecord
  <2> QED
    BY <2>1, <2>2
<1>3. /\ worker' \in [Workers -> WorkerRecord] /\ SameFibers(worker[w], worker'[w])
      /\ worker'[w].held = worker[w].held /\ worker'[w].level = worker[w].level
      /\ worker'[w].drain = l /\ worker'[w].affinity = worker[w].affinity
      /\ \A v \in Workers : v # w => worker'[v] = worker[v]
  <2> DEFINE s == [worker[w] EXCEPT !.drain = l]
  <2>1. worker' = [worker EXCEPT ![w] = s]
    BY <1>1, <1>2 DEF SignalImpl, Types
  <2>2. /\ s \in WorkerRecord /\ SameFibers(worker[w], s) /\ s.level = worker[w].level /\ s.held = worker[w].held
        /\ s.drain = l /\ s.affinity = worker[w].affinity
    BY <1>1, <1>2, WorkerDrain
  <2> HIDE DEF s
  <2> QED
    BY <1>1, <2>1, <2>2, OneWorker
<1>4. /\ group' \in [Groups -> GroupRecord] /\ group'[g].list = <<>>
      /\ \A x \in Groups : x # g => group'[x] = group[x]
  <2>1. group' = [group EXCEPT ![g].list = <<>>] /\ <<>> \in Seq(Fibers)
    BY <1>2 DEF SignalImpl
  <2> QED
    BY <1>1, <2>1 DEF Types, GroupRecord
<1>5. /\ pc' \in [Workers -> Labels] /\ pc'[w] = "drain"
      /\ \A v \in Workers : v # w => pc'[v] = pc[v]
  BY <1>1, OnePc DEF Labels
<1>6. Types'
  BY <1>1, <1>3, <1>4, <1>5 DEF Types
<1>7. \A v \in Workers, i \in 1 .. 3 : worker'[v].held[i] = worker[v].held[i]
  BY <1>3
<1>8. \A v \in Workers : v # w => worker'[v].drain = worker[v].drain
  BY <1>3
<1>9. ASSUME NEW n \in Nodes, n \in ElementsOf(l)
      PROVE  HoldersOf(n)' \subseteq {<<"drain", w>>} /\ HoldersOf(n)' # {} /\ HoldersOf(n) # {}
  <2>1. n # None /\ n \in ElementsOf(group[g].list)
    BY <1>2, <1>9, NoneApart
  <2>2. /\ \A x \in Groups : n \in ElementsOf(group[x].list) => x = g
        /\ \A v \in Workers : n \notin ElementsOf(worker[v].drain)
        /\ \A v \in Workers, i \in 1 .. 3 : worker[v].held[i] # n
        /\ \A q \in QueueIds : n \notin ElementsOf(queues[q].items)
    BY <1>1, <2>1, OnePlace
  <2> DEFINE t == <<"drain", w>>
  <2>3. /\ \A q \in QueueIds : n \in ElementsOf(queues'[q].items) => t = <<"queue", q>>
        /\ \A v \in Workers, i \in 1 .. 3 : worker'[v].held[i] = n => t = <<"held", v, i>>
    BY <1>1, <1>7, <2>2
  <2>4. \A v \in Workers : n \in ElementsOf(worker'[v].drain) => t = <<"drain", v>>
    BY <1>8, <2>2
  <2>5. \A x \in Groups : n \in ElementsOf(group'[x].list) => t = <<"list", x>>
    BY <1>4, <2>2, EmptyElements
  <2>6. t \in HoldersOf(n)'
    <3>1. n \in ElementsOf(worker'[w].drain)
      BY <1>3, <1>9
    <3> QED
      BY <3>1, HolderIsNext
  <2> HIDE DEF t
  <2>7. HoldersOf(n)' \subseteq {t}
    BY <2>3, <2>4, <2>5, HoldersAre
  <2>8. <<"list", g>> \in HoldersOf(n)
    BY <2>1, HolderIs
  <2> QED
    BY <2>6, <2>7, <2>8 DEF t
<1>10. ASSUME NEW n \in Nodes, n \notin ElementsOf(l)
       PROVE  HoldersOf(n)' = HoldersOf(n)
  <2>1. \A v \in Workers : n \in ElementsOf(worker'[v].drain) <=> n \in ElementsOf(worker[v].drain)
    BY <1>1, <1>3, <1>10, EmptyElements
  <2>2. \A x \in Groups : n \in ElementsOf(group'[x].list) <=> n \in ElementsOf(group[x].list)
    BY <1>2, <1>4, <1>10, EmptyElements
  <2>3. \A v \in Workers, i \in 1 .. 3 : worker'[v].held[i] = n <=> worker[v].held[i] = n
    BY <1>7
  <2>4. \A q \in QueueIds : n \in ElementsOf(queues'[q].items) <=> n \in ElementsOf(queues[q].items)
    BY <1>1
  <2> QED
    BY <2>1, <2>2, <2>3, <2>4, HoldersKept
<1>11. \A n \in Nodes : HoldersOf(n)' = {} <=> HoldersOf(n) = {}
  BY <1>9, <1>10
<1>12. OneHolder'
  <2>1. \A n \in Nodes : \/ HoldersOf(n)' \subseteq HoldersOf(n) /\ OneHolder
                         \/ \E t : HoldersOf(n)' \subseteq {t}
    <3> TAKE n \in Nodes
    <3>1. CASE n \in ElementsOf(l)
      BY <1>9, <3>1
    <3>2. CASE n \notin ElementsOf(l)
      BY <1>1, <1>10, <3>2
    <3> QED
      BY <3>1, <3>2
  <2>2. /\ \A q \in QueueIds : Distinct(queues'[q].items)
        /\ \A v \in Workers : Distinct(worker'[v].drain)
        /\ \A x \in Groups : Distinct(group'[x].list)
    BY <1>1, <1>2, <1>3, <1>4, EmptyElements DEF OneHolder
  <2> QED
    BY <2>1, <2>2, OneHolderKept
<1>13. SameRoles
  BY <1>1, <1>3, <1>5 DEF SameRoles, SameFibers, SameFrame, AtFiber
<1>14. SameJobs
  <2>1. \A f \in Fibers : fiber[f].ip \in Nat
    BY <1>1, FiberFields DEF Types
  <2> QED
    BY <1>1, <2>1 DEF SameJobs
<1>15. Hands'
  <2>1. ~Switching(w)'
    BY <1>5 DEF Switching
  <2>2. HandsOf(w)'
    BY <1>1, <1>3, <1>5, <1>7, <2>1 DEF HandsOf, SameFibers
  <2> QED
    BY <1>1, <1>3, <1>5, <2>2, HandsKept DEF IInv
<1>16. ConsumersExclude'
  BY <1>1, <1>3, <1>5 DEF IInv, ConsumersExclude
<1> QED
  BY <1>1, <1>6, <1>11, <1>12, <1>13, <1>14, <1>15, <1>16, MovesKeep

\* What the job on a worker does next.
LEMMA OperationIs ==
  ASSUME IInv, NEW w \in Workers, NEW kind \in {"schedule", "wait", "stop"}, Executes(w, kind)
  PROVE  /\ pc[w] = "run" /\ Frame(w).ip \in DOMAIN Program[Frame(w).job]
         /\ Operation(w).op = kind
         /\ kind = "wait" => Operation(w).group \in Groups
         /\ kind = "schedule" => Operation(w).job \in Jobs
<1>1. /\ pc[w] = "run" /\ Frame(w).ip <= Len(Program[Frame(w).job])
      /\ Operation(w).op = kind
  BY DEF Executes, At, Operation
<1>2. Frame(w).job \in Jobs /\ Frame(w).ip \in Nat \ {0}
  BY <1>1, RunsJob
<1>3. Program[Frame(w).job] \in Seq(Operations)
  BY <1>2, JobSystemAssumption
<1>4. Frame(w).ip \in DOMAIN Program[Frame(w).job]
  BY <1>1, <1>2, <1>3
<1>5. Operation(w) \in Operations
  BY <1>3, <1>4 DEF Operation
<1> QED
  BY <1>1, <1>4, <1>5 DEF Operations

\* Publishing a wait entry keeps the invariant.
LEMMA WaitPublishKeeps == ASSUME IInv, NEW w \in Workers, WaitPublish(w) PROVE IInv'
<1>1. /\ pc[w] = "run" /\ Goto(w, "park") /\ Operation(w).group \in Groups
      /\ UNCHANGED <<worker, queues, consumerLock, job, jobCounter, shouldExit, fault, lost>>
  BY OperationIs DEF WaitPublish
<1>2. /\ Types /\ HandsOf(w) /\ worker[w] \in WorkerRecord /\ worker[w].drain = <<>>
      /\ worker[w].prev = None /\ \A i \in 1 .. 3 : worker[w].held[i] = None
      /\ OneHolder
  BY <1>1, EmptyHanded DEF Switching, IInv
<1>3. PICK c \in Fibers, g \in Groups :
        /\ c = worker[w].current /\ g = Operation(w).group
        /\ fiber[c] \in FiberRecord /\ fiber[c].job \in Jobs /\ fiber[c].ip \in Nat \ {0}
        /\ ~fiber[c].waiting
  <2>1. /\ worker[w].current \in Fibers /\ Frame(w) = fiber[worker[w].current]
        /\ Frame(w) \in FiberRecord /\ Frame(w).job \in Jobs /\ Frame(w).ip \in Nat \ {0}
        /\ ~Frame(w).waiting
    BY <1>1, RunsJob
  <2> QED
    BY <1>1, <2>1
<1>4. /\ pc' \in [Workers -> Labels] /\ pc'[w] = "park"
      /\ \A v \in Workers : v # w => pc'[v] = pc[v]
  BY <1>1, <1>2, OnePc DEF Labels
<1>5. /\ fiber' \in [Fibers -> FiberRecord]
      /\ fiber'[c].free = fiber[c].free /\ fiber'[c].context = fiber[c].context
      /\ fiber'[c].waiting /\ fiber'[c].resume = "wait" /\ fiber'[c].affinity \in Affinities
      /\ fiber'[c].job = fiber[c].job /\ fiber'[c].ip = fiber[c].ip
      /\ \A f \in Fibers : f # c => fiber'[f] = fiber[f]
  <2> DEFINE a == worker[w].affinity
  <2> DEFINE p == worker[w].level
  <2>1. a \in Affinities /\ p \in Priorities
    BY <1>1, <1>2, WorkerFields DEF HandsOf
  <2> DEFINE s == [fiber[c] EXCEPT !.waiting = TRUE, !.resume = "wait", !.affinity = a, !.priority = p]
  <2>2. fiber' = [fiber EXCEPT ![c] = s]
    BY <1>3 DEF WaitPublish
  <2> HIDE DEF a, p
  <2>3. /\ s \in FiberRecord /\ s.free = fiber[c].free /\ s.context = fiber[c].context
        /\ s.resume = "wait" /\ s.waiting = TRUE /\ s.affinity = a
        /\ s.job = fiber[c].job /\ s.ip = fiber[c].ip
    BY <1>3, <2>1 DEF FiberRecord
  <2> HIDE DEF s
  <2> QED
    BY <1>2, <2>1, <2>2, <2>3, OneFiber
<1>6. Homeless(c)
  BY <1>3 DEF IInv, WaitingFibers, Homeless
<1>7. c \notin ElementsOf(group[g].list) /\ group[g].list \in Seq(Fibers)
  <2>1. <<"list", g>> \notin HoldersOf(c)
    BY <1>6 DEF Homeless
  <2> QED
    BY <1>2, <2>1, HolderIs DEF Types, GroupRecord
<1>8. /\ group' \in [Groups -> GroupRecord]
      /\ ElementsOf(group'[g].list) = ElementsOf(group[g].list) \union {c}
      /\ Distinct(group'[g].list)
      /\ \A x \in Groups : x # g => group'[x] = group[x]
  <2> DEFINE l == Append(group[g].list, c)
  <2>1. l \in Seq(Fibers) /\ ElementsOf(l) = ElementsOf(group[g].list) \union {c} /\ Distinct(l)
    BY <1>2, <1>7, AppendElements DEF OneHolder
  <2>2. group' = [group EXCEPT ![g].list = l]
    BY <1>3 DEF WaitPublish, Published
  <2> HIDE DEF l
  <2> QED
    BY <1>2, <2>1, <2>2 DEF Types, GroupRecord
<1>9. Types'
  BY <1>1, <1>2, <1>4, <1>5, <1>8 DEF Types
<1>10. HoldersOf(c)' \subseteq {<<"list", g>>} /\ HoldersOf(c)' # {}
  <2>1. /\ \A q \in QueueIds : c \notin ElementsOf(queues[q].items)
        /\ \A v \in Workers, i \in 1 .. 3 : worker[v].held[i] # c
        /\ \A v \in Workers : c \notin ElementsOf(worker[v].drain)
        /\ \A x \in Groups : c \notin ElementsOf(group[x].list)
    <3>1. HoldersOf(c) = {}
      BY <1>6 DEF Homeless
    <3>2. \A q \in QueueIds : c \notin ElementsOf(queues[q].items)
      BY <3>1, HolderIs
    <3>3. \A v \in Workers, i \in 1 .. 3 : worker[v].held[i] # c
      BY <3>1, HolderIs
    <3>4. \A v \in Workers : c \notin ElementsOf(worker[v].drain)
      BY <3>1, HolderIs
    <3>5. \A x \in Groups : c \notin ElementsOf(group[x].list)
      BY <3>1, HolderIs
    <3> QED
      BY <3>2, <3>3, <3>4, <3>5
  <2> DEFINE t == <<"list", g>>
  <2>2. /\ \A q \in QueueIds : c \in ElementsOf(queues'[q].items) => t = <<"queue", q>>
        /\ \A v \in Workers, i \in 1 .. 3 : worker'[v].held[i] = c => t = <<"held", v, i>>
        /\ \A v \in Workers : c \in ElementsOf(worker'[v].drain) => t = <<"drain", v>>
    BY <1>1, <2>1
  <2>3. \A x \in Groups : c \in ElementsOf(group'[x].list) => t = <<"list", x>>
    BY <1>8, <2>1
  <2>4. t \in HoldersOf(c)'
    BY <1>8, HolderIsNext
  <2> HIDE DEF t
  <2>5. HoldersOf(c)' \subseteq {t}
    BY <2>2, <2>3, HoldersAre
  <2> QED
    BY <2>4, <2>5 DEF t
<1>11. ASSUME NEW n \in Nodes, n # c PROVE HoldersOf(n)' = HoldersOf(n)
  <2>1. \A x \in Groups : n \in ElementsOf(group'[x].list) <=> n \in ElementsOf(group[x].list)
    BY <1>8, <1>11
  <2> QED
    BY <1>1, <2>1, HoldersKept
<1>12. OneHolder'
  <2>1. \A n \in Nodes : \/ HoldersOf(n)' \subseteq HoldersOf(n) /\ OneHolder
                         \/ \E t : HoldersOf(n)' \subseteq {t}
    <3> TAKE n \in Nodes
    <3>1. CASE n = c
      BY <1>10, <3>1
    <3>2. CASE n # c
      BY <1>2, <1>11, <3>2
    <3> QED
      BY <3>1, <3>2
  <2>2. /\ \A q \in QueueIds : Distinct(queues'[q].items)
        /\ \A v \in Workers : Distinct(worker'[v].drain)
        /\ \A x \in Groups : Distinct(group'[x].list)
    BY <1>1, <1>2, <1>8 DEF OneHolder
  <2> QED
    BY <2>1, <2>2, OneHolderKept
<1>13. /\ PoolIsFree' /\ RunningFibers' /\ LeavingFibers' /\ FramesOfJobs'
       /\ \A f \in Fibers : Resuming(f)' = Resuming(f)
  <2>1. \A v \in Workers : SameFibers(worker[v], worker'[v])
    BY <1>1 DEF SameFibers
  <2>2. ~Switching(w) /\ ~Switching(w)' /\ pc'[w] \notin {"start", "acquire"}
    BY <1>1, <1>4 DEF Switching
  <2>3. (fiber'[c].job # None <=> fiber'[c].waiting \/ pc'[w] = "run") /\ fiber'[c].ip \in Nat \ {0}
    BY <1>3, <1>5, NoneApart
  <2>4. fiber'[c].waiting <=> pc'[w] = "park"
    BY <1>4, <1>5
  <2> QED
    BY <1>3, <1>4, <1>5, <1>9, <2>1, <2>2, <2>3, <2>4, LocalRoles
<1>14. \A v \in Workers : worker[v].current = c => v = w
  BY <1>3, NoneApart DEF IInv, RunningFibers
<1>15. WaitingFibers'
  <2>1. Resuming(c) = {}
    BY <1>1, <1>14 DEF Resuming
  <2>2. ASSUME NEW f \in Fibers
        PROVE  /\ HoldersOf(f)' # {} => fiber'[f].waiting /\ Resuming(f)' = {}
               /\ fiber'[f].waiting /\ f \notin lost' => HoldersOf(f)' # {} \/ Resuming(f)' # {}
    <3>1. CASE f = c
      BY <1>5, <1>10, <1>13, <2>1, <3>1
    <3>2. CASE f # c
      <4>1. HoldersOf(f)' = HoldersOf(f)
        BY <1>11, <3>2 DEF Nodes
      <4> QED
        BY <1>1, <1>5, <1>13, <3>2, <4>1 DEF IInv, WaitingFibers
    <3> QED
      BY <3>1, <3>2
  <2> QED
    BY <2>2 DEF WaitingFibers
<1>16. JobsHeld'
  <2>1. \A j \in Jobs : HoldersOf(j)' = HoldersOf(j)
    BY <1>11, NoneApart DEF Nodes
  <2> QED
    BY <1>1, <2>1 DEF IInv, JobsHeld
<1>17. JobsCarried' /\ ScheduledBefore'
  <2>1. SameJobs
    <3>1. \A f \in Fibers : fiber[f].ip \in Nat
      BY <1>2, FiberFields DEF Types
    <3> QED
      BY <1>1, <1>5, <3>1 DEF SameJobs
  <2> QED
    BY <1>9, <2>1, JobsKept DEF IInv
<1>18. Hands'
  <2>1. HandsOf(w)'
    BY <1>1, <1>2, <1>4 DEF HandsOf, Switching
  <2>2. \A v \in Workers : v # w /\ Switching(v) =>
          fiber'[worker[v].current].waiting = fiber[worker[v].current].waiting
    BY <1>5, <1>14, SwitchingHasFiber DEF IInv
  <2> QED
    BY <1>1, <1>4, <2>1, <2>2, HandsKept DEF IInv
<1>19. ConsumersExclude'
  BY <1>1, <1>4 DEF IInv, ConsumersExclude
<1> QED
  BY <1>9, <1>12, <1>13, <1>15, <1>16, <1>17, <1>18, <1>19 DEF IInv

\* The end of a job keeps the invariant.
LEMMA SignalCompletionKeeps ==
  ASSUME IInv, NEW w \in Workers, SignalCompletion(w) PROVE IInv'
<1>1. pc[w] = "run"
  BY DEF SignalCompletion, At
<1>2. /\ Types /\ HandsOf(w) /\ worker[w] \in WorkerRecord /\ worker[w].drain = <<>>
      /\ worker[w].prev = None /\ \A i \in 1 .. 3 : worker[w].held[i] = None
      /\ OneHolder
  BY <1>1, EmptyHanded DEF Switching, IInv
<1>3. PICK c \in Fibers, j \in Jobs :
        /\ c = worker[w].current /\ j = Frame(w).job /\ j = fiber[c].job
        /\ fiber[c] \in FiberRecord /\ ~fiber[c].waiting
  BY <1>1, RunsJob
<1>4. PICK g \in Groups \union {None} : g = CompletionOf[j]
  BY JobSystemAssumption
<1>5. CASE g # None /\ group[g].count < 1
  BY <1>3, <1>4, <1>5, FailKeeps DEF SignalCompletion, Fail, Faults
<1>6. CASE ~(g # None /\ group[g].count < 1)
  <2> DEFINE label == IF g # None /\ group[g].count = 1 THEN "signal" ELSE "loop"
  <2>1. /\ job' = [job EXCEPT ![j].state = "done"]
        /\ fiber' = [fiber EXCEPT ![c].job = None, ![c].ip = 0]
        /\ group' = IF g = None THEN group ELSE [group EXCEPT ![g].count = @ - 1]
        /\ worker' = [worker EXCEPT ![w].signaled = g]
        /\ Goto(w, label)
        /\ UNCHANGED <<queues, consumerLock, jobCounter, shouldExit, fault, lost>>
    BY <1>3, <1>4, <1>6 DEF SignalCompletion
  <2>2. label \in Labels /\ label \in {"signal", "loop"} /\ (label = "signal" => g \in Groups)
    BY DEF Labels
  <2> HIDE DEF label
  <2>3. /\ pc' \in [Workers -> Labels] /\ pc'[w] = label
        /\ \A v \in Workers : v # w => pc'[v] = pc[v]
    BY <1>2, <2>1, <2>2, OnePc
  <2>4. /\ worker' \in [Workers -> WorkerRecord] /\ SameFibers(worker[w], worker'[w])
        /\ worker'[w].held = worker[w].held /\ worker'[w].drain = worker[w].drain
        /\ worker'[w].affinity = worker[w].affinity /\ worker'[w].signaled = g
        /\ \A v \in Workers : v # w => worker'[v] = worker[v]
    <3> DEFINE s == [worker[w] EXCEPT !.signaled = g]
    <3>1. worker' = [worker EXCEPT ![w] = s]
      BY <2>1
    <3>2. /\ s \in WorkerRecord /\ SameFibers(worker[w], s) /\ s.held = worker[w].held
          /\ s.drain = worker[w].drain /\ s.affinity = worker[w].affinity /\ s.signaled = g
      BY <1>2, WorkerSignaled
    <3> HIDE DEF s
    <3> QED
      BY <1>2, <3>1, <3>2, OneWorker
  <2>5. /\ fiber' \in [Fibers -> FiberRecord] /\ SameFrame(fiber[c], fiber'[c])
        /\ fiber'[c].job = None
        /\ \A f \in Fibers : f # c => fiber'[f] = fiber[f]
    <3> DEFINE s == [fiber[c] EXCEPT !.job = None, !.ip = 0]
    <3>1. fiber' = [fiber EXCEPT ![c] = s]
      BY <2>1
    <3>2. s \in FiberRecord /\ SameFrame(fiber[c], s) /\ s.job = None
      <4>1. 0 \in Nat /\ None \in Jobs \union {None}
        OBVIOUS
      <4> QED
        BY <1>3, <4>1 DEF FiberRecord, SameFrame
    <3> HIDE DEF s
    <3> QED
      BY <1>2, <3>1, <3>2, OneFiber
  <2>6. /\ group' \in [Groups -> GroupRecord]
        /\ \A x \in Groups : group'[x].list = group[x].list
    <3>1. CASE g = None
      BY <1>2, <2>1, <3>1 DEF Types
    <3>2. CASE g # None
      <4>1. g \in Groups /\ group[g] \in GroupRecord
        BY <1>2, <3>2 DEF Types
      <4>2. group[g].count \in Nat /\ group[g].count - 1 \in Nat
        BY <1>6, <3>2, <4>1 DEF GroupRecord
      <4>3. group' = [group EXCEPT ![g].count = group[g].count - 1]
        BY <2>1, <3>2
      <4> QED
        BY <1>2, <4>1, <4>2, <4>3 DEF Types, GroupRecord
    <3> QED
      BY <3>1, <3>2
  <2>7. /\ job' \in [Jobs -> JobRecord] /\ job'[j].state = "done"
        /\ \A k \in Jobs : k # j => job'[k] = job[k]
    BY <1>2, <2>1 DEF Types, JobRecord
  <2>8. Types'
    BY <1>2, <2>1, <2>3, <2>4, <2>5, <2>6, <2>7 DEF Types
  <2>9. \A v \in Workers : worker'[v].held = worker[v].held /\ worker'[v].drain = worker[v].drain
    BY <2>4
  <2>10. \A n \in Nodes : HoldersOf(n)' = HoldersOf(n)
    BY <2>1, <2>6, <2>9, HoldersKept
  <2>11. OneHolder'
    <3>1. /\ \A q \in QueueIds : Distinct(queues'[q].items)
          /\ \A v \in Workers : Distinct(worker'[v].drain)
          /\ \A x \in Groups : Distinct(group'[x].list)
      BY <1>2, <2>1, <2>6, <2>9 DEF OneHolder
    <3> QED
      BY <1>2, <2>10, <3>1, OneHolderKept
  <2>12. /\ PoolIsFree' /\ RunningFibers' /\ LeavingFibers' /\ FramesOfJobs'
         /\ \A f \in Fibers : Resuming(f)' = Resuming(f)
    <3>1. \A v \in Workers : SameFibers(worker[v], worker'[v])
      BY <2>4 DEF SameFibers
    <3>2. ~Switching(w) /\ ~Switching(w)' /\ pc'[w] \notin {"start", "acquire", "park", "run"}
      BY <1>1, <2>2, <2>3 DEF Switching
    <3>3. fiber'[c].free = fiber[c].free /\ fiber'[c].context = fiber[c].context /\ ~fiber'[c].waiting
      BY <1>3, <2>5 DEF SameFrame
    <3> QED
      BY <1>3, <2>3, <2>5, <2>8, <3>1, <3>2, <3>3, LocalRoles
  <2>13. job[j].state = "running"
    BY <1>3 DEF IInv, JobsCarried, Carried
  <2>14. WaitingFibers'
    <3>1. \A f \in Fibers : fiber'[f].waiting = fiber[f].waiting
      BY <2>5 DEF SameFrame
    <3>2. \A f \in Fibers : HoldersOf(f)' = HoldersOf(f)
      BY <2>10 DEF Nodes
    <3> QED
      BY <2>1, <2>12, <3>1, <3>2 DEF IInv, WaitingFibers
  <2>15. JobsHeld'
    <3>1. \A k \in Jobs : HoldersOf(k)' = HoldersOf(k)
      BY <2>10 DEF Nodes
    <3>2. \A k \in Jobs : job'[k].state = "queued" <=> job[k].state = "queued"
      BY <2>7, <2>13
    <3> QED
      BY <2>1, <3>1, <3>2 DEF IInv, JobsHeld
  <2>16. \A f \in Fibers : fiber[f].job = j => f = c
    BY <1>3, NoneApart DEF IInv, JobsCarried
  <2>17. JobsCarried'
    <3>1. \A k \in Jobs : job'[k].state = "running" <=> \E f \in Fibers : fiber'[f].job = k
      <4> TAKE k \in Jobs
      <4>1. CASE k = j
        <5>1. \A f \in Fibers : fiber'[f].job # j
          BY <2>5, <2>16, NoneApart
        <5> QED
          BY <2>7, <4>1, <5>1
      <4>2. CASE k # j
        <5>1. (\E f \in Fibers : fiber'[f].job = k) <=> \E f \in Fibers : fiber[f].job = k
          BY <1>3, <2>5, <4>2, NoneApart
        <5> QED
          BY <2>7, <4>2, <5>1 DEF IInv, JobsCarried, Carried
      <4> QED
        BY <4>1, <4>2
    <3>2. \A f, h \in Fibers : fiber'[f].job # None /\ fiber'[f].job = fiber'[h].job => f = h
      BY <2>5 DEF IInv, JobsCarried
    <3> QED
      BY <3>1, <3>2 DEF JobsCarried, Carried
  <2>18. ScheduledBefore'
    <3> SUFFICES ASSUME NEW k \in Jobs, NEW n \in DOMAIN Program[k], Schedules(k, n),
                        job'[Program[k][n].job].state # "new"
                 PROVE  Passed(k, n)'
      BY DEF ScheduledBefore
    <3>1. Program[k][n].job \in Jobs
      <4>1. Program[k][n] \in Operations
        BY JobSystemAssumption
      <4> QED
        BY <4>1 DEF Schedules, Operations
    <3>2. job[Program[k][n].job].state # "new"
      BY <2>7, <2>13, <3>1
    <3>3. Passed(k, n)
      BY <3>2 DEF IInv, ScheduledBefore
    <3>4. CASE k = j
      BY <2>7, <3>4 DEF Passed
    <3>5. CASE k # j
      <4>1. \A f \in Fibers : fiber[f].job = k => fiber'[f] = fiber[f]
        BY <1>3, <2>5, <3>5
      <4>2. job'[k] = job[k]
        BY <2>7, <3>5
      <4> QED
        BY <3>3, <4>1, <4>2 DEF Passed
    <3> QED
      BY <3>4, <3>5
  <2>19. Hands'
    <3>1. HandsOf(w)'
      BY <1>1, <1>2, <2>2, <2>3, <2>4 DEF HandsOf, SameFibers, Switching
    <3>2. \A v \in Workers : Switching(v) =>
            fiber'[worker[v].current].waiting = fiber[worker[v].current].waiting
      BY <2>5, SwitchingHasFiber DEF SameFrame, IInv
    <3> QED
      BY <2>3, <2>4, <3>1, <3>2, HandsKept DEF IInv
  <2>20. ConsumersExclude'
    BY <2>1, <2>2, <2>3, <2>4 DEF IInv, ConsumersExclude
  <2> QED
    BY <2>8, <2>11, <2>12, <2>14, <2>15, <2>17, <2>18, <2>19, <2>20 DEF IInv
<1> QED
  BY <1>5, <1>6

-----------------------------------------------------------------------------
(* The steps that enqueue.                                                 *)

\* A node gets a place in a queue, some lose theirs, and the rest stay.
Gains(m, cut) ==
  /\ lost' = lost \union cut /\ m \notin cut
  /\ \A n \in Nodes : n \in cut => ~Homeless(n) /\ Homeless(n)'
  /\ \A n \in Nodes : n = m => ~Homeless(n)'
  /\ \A n \in Nodes : n # m /\ n \notin cut => (Homeless(n)' <=> Homeless(n))

\* An Enqueue puts its node into one queue, and what it cuts off into none.
LEMMA EnqueueEffect ==
  ASSUME Types, OneHolder, NEW q \in QueueIds, NEW m \in NodesOf(q[1]), EnqueueInto(q, m),
         NEW w \in Workers, HoldersOf(m) \subseteq {<<"drain", w>>}, group' = group,
         \A v \in Workers : worker'[v].held = worker[v].held,
         \A v \in Workers : v # w => worker'[v].drain = worker[v].drain,
         ElementsOf(worker'[w].drain) = ElementsOf(worker[w].drain) \ {m},
         Distinct(worker'[w].drain)
  PROVE  /\ queues' \in [QueueIds -> QueueRecord]
         /\ \A x \in QueueIds : queues'[x].items \in Seq(NodesOf(x[1]))
         /\ lost' \in SUBSET Nodes
         /\ OneHolder'
         /\ \E cut \in SUBSET NodesOf(q[1]) : Gains(m, cut)
<1> DEFINE S == NodesOf(q[1])
<1>1. S \in SUBSET Nodes /\ m \in Nodes
  BY DEF NodesOf, Nodes
<1>2. /\ \A x \in QueueIds : m \notin ElementsOf(queues[x].items)
      /\ \A v \in Workers, i \in 1 .. 3 : worker[v].held[i] # m
      /\ \A v \in Workers : v # w => m \notin ElementsOf(worker[v].drain)
      /\ \A g \in Groups : m \notin ElementsOf(group[g].list)
  <2>1. ASSUME NEW x \in QueueIds, m \in ElementsOf(queues[x].items) PROVE FALSE
    <3>1. <<"queue", x>> \in HoldersOf(m)
      BY <2>1, HolderIs
    <3> QED
      BY <3>1, TagsDiffer
  <2>2. ASSUME NEW v \in Workers, NEW i \in 1 .. 3, worker[v].held[i] = m PROVE FALSE
    <3>1. <<"held", v, i>> \in HoldersOf(m)
      BY <2>2, HolderIs
    <3> QED
      BY <3>1, TagsDiffer
  <2>3. ASSUME NEW v \in Workers, v # w, m \in ElementsOf(worker[v].drain) PROVE FALSE
    <3>1. <<"drain", v>> \in HoldersOf(m)
      BY <2>3, HolderIs
    <3>2. <<"drain", v>> = <<"drain", w>>
      BY <3>1
    <3> QED
      BY <2>3, <3>2
  <2>4. ASSUME NEW g \in Groups, m \in ElementsOf(group[g].list) PROVE FALSE
    <3>1. <<"list", g>> \in HoldersOf(m)
      BY <2>4, HolderIs
    <3> QED
      BY <3>1, TagsDiffer
  <2> QED
    BY <2>1, <2>2, <2>3, <2>4
<1>3. PICK cut \in SUBSET S :
        /\ queues'[q] \in QueueRecord /\ queues'[q].items \in Seq(S) /\ Distinct(queues'[q].items)
        /\ ElementsOf(queues'[q].items) = (ElementsOf(queues[q].items) \ cut) \union {m}
        /\ cut \subseteq ElementsOf(queues[q].items) /\ lost' = lost \union cut
  <2> DEFINE r == queues[q]
  <2>1. /\ r \in QueueRecord /\ r.items \in Seq(S) /\ Distinct(r.items)
        /\ m \in S /\ m \notin ElementsOf(r.items)
    BY <1>2 DEF Types, OneHolder
  <2>2. queues'[q] = Enqueued(r, m) /\ lost' = lost \union CutOff(r)
    BY DEF EnqueueInto, Types
  <2>3. ElementsOf(r.items) \subseteq S
    BY <2>1 DEF ElementsOf
  <2> HIDE DEF r, S
  <2>4. /\ Enqueued(r, m) \in QueueRecord /\ Enqueued(r, m).items \in Seq(S)
        /\ Distinct(Enqueued(r, m).items)
        /\ ElementsOf(Enqueued(r, m).items) = (ElementsOf(r.items) \ CutOff(r)) \union {m}
        /\ CutOff(r) \subseteq ElementsOf(r.items)
    BY <1>1, <2>1, EnqueuedElements
  <2> QED
    BY <2>2, <2>3, <2>4 DEF r
<1>4. \A x \in QueueIds : x # q => queues'[x] = queues[x]
  BY DEF EnqueueInto, Types
<1>5. /\ queues' \in [QueueIds -> QueueRecord]
      /\ \A x \in QueueIds : queues'[x].items \in Seq(NodesOf(x[1])) /\ Distinct(queues'[x].items)
  <2>1. queues' = [queues EXCEPT ![q] = queues'[q]]
    BY DEF EnqueueInto, Types
  <2>2. queues' \in [QueueIds -> QueueRecord]
    BY <1>3, <2>1 DEF Types
  <2>3. ASSUME NEW x \in QueueIds
        PROVE  queues'[x].items \in Seq(NodesOf(x[1])) /\ Distinct(queues'[x].items)
    <3>1. CASE x = q
      BY <1>3, <3>1
    <3>2. CASE x # q
      BY <1>4, <3>2 DEF Types, OneHolder
    <3> QED
      BY <3>1, <3>2
  <2> QED
    BY <2>2, <2>3
<1>6. lost' \in SUBSET Nodes /\ m \notin cut
  BY <1>1, <1>2, <1>3 DEF Types
<1> HIDE DEF S
<1>7. ASSUME NEW n \in Nodes, n \in cut PROVE ~Homeless(n) /\ Homeless(n)'
  <2>1. n # m /\ n \in ElementsOf(queues[q].items)
    BY <1>3, <1>6, <1>7
  <2>2. /\ \A x \in QueueIds : n \in ElementsOf(queues[x].items) => x = q
        /\ \A v \in Workers, i \in 1 .. 3 : worker[v].held[i] # n
        /\ \A v \in Workers : n \notin ElementsOf(worker[v].drain)
        /\ \A g \in Groups : n \notin ElementsOf(group[g].list)
    BY <2>1, OnePlace
  <2>3. \A x \in QueueIds : n \notin ElementsOf(queues'[x].items)
    <3> TAKE x \in QueueIds
    <3>1. CASE x = q
      BY <1>3, <1>7, <2>1, <3>1
    <3>2. CASE x # q
      BY <1>4, <2>2, <3>2
    <3> QED
      BY <3>1, <3>2
  <2>4. /\ \A v \in Workers, i \in 1 .. 3 : worker'[v].held[i] # n
        /\ \A v \in Workers : n \notin ElementsOf(worker'[v].drain)
        /\ \A g \in Groups : n \notin ElementsOf(group'[g].list)
    BY <2>2
  <2>5. HoldersOf(n)' = {}
    BY <2>3, <2>4, HoldersGone
  <2>6. <<"queue", q>> \in HoldersOf(n)
    BY <2>1, HolderIs
  <2> QED
    BY <2>5, <2>6 DEF Homeless
<1>8. HoldersOf(m)' \subseteq {<<"queue", q>>} /\ HoldersOf(m)' # {}
  <2> DEFINE t == <<"queue", q>>
  <2>1. \A x \in QueueIds : m \in ElementsOf(queues'[x].items) => t = <<"queue", x>>
    BY <1>2, <1>4
  <2>2. /\ \A v \in Workers, i \in 1 .. 3 : worker'[v].held[i] = m => t = <<"held", v, i>>
        /\ \A g \in Groups : m \in ElementsOf(group'[g].list) => t = <<"list", g>>
    BY <1>2
  <2>3. \A v \in Workers : m \in ElementsOf(worker'[v].drain) => t = <<"drain", v>>
    BY <1>2
  <2>4. t \in HoldersOf(m)'
    <3>1. m \in ElementsOf(queues'[q].items)
      BY <1>3
    <3> QED
      BY <3>1, HolderIsNext
  <2> HIDE DEF t
  <2>5. HoldersOf(m)' \subseteq {t}
    BY <2>1, <2>2, <2>3, HoldersAre
  <2> QED
    BY <2>4, <2>5 DEF t
<1>9. ASSUME NEW n \in Nodes, n # m, n \notin cut PROVE HoldersOf(n)' = HoldersOf(n)
  <2>1. \A x \in QueueIds : n \in ElementsOf(queues'[x].items) <=> n \in ElementsOf(queues[x].items)
    <3> TAKE x \in QueueIds
    <3>1. CASE x = q
      BY <1>3, <1>9, <3>1
    <3>2. CASE x # q
      BY <1>4, <3>2
    <3> QED
      BY <3>1, <3>2
  <2>2. \A v \in Workers : n \in ElementsOf(worker'[v].drain) <=> n \in ElementsOf(worker[v].drain)
    BY <1>9
  <2>3. /\ \A v \in Workers, i \in 1 .. 3 : worker'[v].held[i] = n <=> worker[v].held[i] = n
        /\ \A g \in Groups : n \in ElementsOf(group'[g].list) <=> n \in ElementsOf(group[g].list)
    OBVIOUS
  <2> QED
    BY <2>1, <2>2, <2>3, HoldersKept
<1>10. OneHolder'
  <2>1. \A n \in Nodes : \/ HoldersOf(n)' \subseteq HoldersOf(n) /\ OneHolder
                         \/ \E t : HoldersOf(n)' \subseteq {t}
    <3> TAKE n \in Nodes
    <3>1. CASE n = m
      BY <1>8, <3>1
    <3>2. CASE n \in cut
      BY <1>7, <3>2 DEF Homeless
    <3>3. CASE n # m /\ n \notin cut
      BY <1>9, <3>3
    <3> QED
      BY <3>1, <3>2, <3>3
  <2>2. /\ \A v \in Workers : Distinct(worker'[v].drain)
        /\ \A g \in Groups : Distinct(group'[g].list)
    BY DEF OneHolder
  <2> QED
    BY <1>5, <2>1, <2>2, OneHolderKept
<1>11. /\ \A n \in Nodes : n \in cut => ~Homeless(n) /\ Homeless(n)'
       /\ \A n \in Nodes : n = m => ~Homeless(n)'
       /\ \A n \in Nodes : n # m /\ n \notin cut => (Homeless(n)' <=> Homeless(n))
  BY <1>7, <1>8, <1>9 DEF Homeless
<1>12. Gains(m, cut)
  BY <1>3, <1>6, <1>11 DEF Gains
<1> QED
  BY <1>5, <1>6, <1>10, <1>12 DEF S

\* A job that is to be scheduled was not scheduled before.
LEMMA ScheduledIsNew ==
  ASSUME IInv, NEW w \in Workers, Executes(w, "schedule")
  PROVE  job[Operation(w).job].state = "new"
<1> DEFINE k == Frame(w).job
<1> DEFINE n == Frame(w).ip
<1>1. pc[w] = "run" /\ n \in DOMAIN Program[k] /\ Operation(w).op = "schedule"
  BY OperationIs
<1>2. /\ k \in Jobs /\ n \in Nat \ {0} /\ worker[w].current \in Fibers
      /\ Frame(w) = fiber[worker[w].current]
  BY <1>1, RunsJob
<1>3. Schedules(k, n) /\ Operation(w) = Program[k][n]
  BY <1>1 DEF Schedules, Operation
<1>4. ~Passed(k, n)
  <2>1. job[k].state = "running"
    BY <1>2 DEF IInv, JobsCarried, Carried
  <2>2. \A f \in Fibers : fiber[f].job = k => f = worker[w].current
    BY <1>2, NoneApart DEF IInv, JobsCarried
  <2> QED
    BY <1>2, <2>1, <2>2 DEF Passed
<1> QED
  BY <1>1, <1>2, <1>3, <1>4 DEF IInv, ScheduledBefore

\* JobSystem::Schedule keeps the invariant.
LEMMA ScheduleKeeps == ASSUME IInv, NEW w \in Workers, Schedule(w) PROVE IInv'
<1>1. /\ pc[w] = "run" /\ Executes(w, "schedule") /\ Advance(w)
      /\ UNCHANGED <<pc, worker, consumerLock, group, shouldExit, fault>>
      /\ jobCounter' = jobCounter + 1
  BY OperationIs DEF Schedule
<1>2. /\ Types /\ HandsOf(w) /\ OneHolder /\ worker[w].drain = <<>>
  BY <1>1, EmptyHanded DEF IInv
<1>3. PICK j \in Jobs, k \in Jobs, n \in Nat \ {0} :
        /\ j = Operation(w).job /\ k = Frame(w).job /\ n = Frame(w).ip
        /\ Schedules(k, n) /\ Program[k][n].job = j /\ n \in DOMAIN Program[k]
  <2>1. /\ Frame(w).ip \in DOMAIN Program[Frame(w).job]
        /\ Operation(w).op = "schedule" /\ Operation(w).job \in Jobs
    BY <1>1, OperationIs
  <2>2. Frame(w).job \in Jobs /\ Frame(w).ip \in Nat \ {0}
    BY <1>1, RunsJob
  <2> QED
    BY <2>1, <2>2 DEF Schedules, Operation
<1>4. PICK a \in Affinities : a = IF AffinityOf[j] = "self" THEN w ELSE AffinityOf[j]
  <2>1. AffinityOf[j] \in Affinities \union {"self"} /\ w \in Affinities
    BY JobSystemAssumption DEF Affinities
  <2> QED
    BY <2>1
<1>5. PICK q \in QueueIds : q = <<"job", PriorityOf[j], OwnerOf(a)>> /\ q[1] = "job"
  <2>1. PriorityOf[j] \in Priorities
    BY JobSystemAssumption
  <2>2. <<"job", PriorityOf[j], OwnerOf(a)>> \in QueueIds
    BY <2>1, OwnerIsQueue
  <2> QED
    BY <2>2
<1>6. /\ EnqueueInto(q, j)
      /\ job' = [job EXCEPT ![j] = [state |-> "queued", hint |-> jobCounter, affinity |-> a]]
  BY <1>3, <1>4, <1>5 DEF Schedule
<1>7. /\ job' \in [Jobs -> JobRecord] /\ job'[j].state = "queued"
      /\ \A x \in Jobs : x # j => job'[x] = job[x]
  <2> DEFINE s == [state |-> "queued", hint |-> jobCounter, affinity |-> a]
  <2>1. s \in JobRecord /\ s.state = "queued"
    BY <1>2 DEF Types, JobRecord
  <2>2. job' = [job EXCEPT ![j] = s]
    BY <1>6
  <2> HIDE DEF s
  <2> QED
    BY <1>2, <2>1, <2>2 DEF Types
<1>8. job[j].state = "new"
  BY <1>1, <1>3, ScheduledIsNew
<1>9. Homeless(j) /\ j \notin lost
  BY <1>8 DEF IInv, JobsHeld, Homeless
<1>10. j \in NodesOf(q[1]) /\ NodesOf(q[1]) = Jobs
  BY <1>5 DEF NodesOf
<1>11. /\ fiber' \in [Fibers -> FiberRecord]
       /\ \A f \in Fibers : SameFrame(fiber[f], fiber'[f]) /\ fiber'[f].job = fiber[f].job
       /\ fiber'[worker[w].current].ip = fiber[worker[w].current].ip + 1
       /\ \A f \in Fibers : f # worker[w].current => fiber'[f] = fiber[f]
       /\ \A f \in Fibers : fiber[f].ip \in Nat /\ fiber'[f].ip >= fiber[f].ip
  BY <1>1, Advances
<1>12. /\ queues' \in [QueueIds -> QueueRecord]
       /\ \A x \in QueueIds : queues'[x].items \in Seq(NodesOf(x[1]))
       /\ lost' \in SUBSET Nodes
       /\ OneHolder'
       /\ \E cut \in SUBSET NodesOf(q[1]) : Gains(j, cut)
  <2>1. HoldersOf(j) \subseteq {<<"drain", w>>}
    BY <1>9 DEF Homeless
  <2>2. group' = group
    BY <1>1
  <2>3. \A v \in Workers : worker'[v].held = worker[v].held
    BY <1>1
  <2>4. \A v \in Workers : v # w => worker'[v].drain = worker[v].drain
    BY <1>1
  <2>5. ElementsOf(worker'[w].drain) = ElementsOf(worker[w].drain) \ {j}
    BY <1>1, <1>2, EmptyElements
  <2>6. Distinct(worker'[w].drain)
    BY <1>1, <1>2, EmptyElements
  <2> QED
    BY <1>2, <1>6, <1>10, <2>1, <2>2, <2>3, <2>4, <2>5, <2>6, EnqueueEffect
<1>13. PICK cut \in SUBSET Jobs :
         /\ lost' = lost \union cut /\ j \notin cut
         /\ \A x \in Nodes : x \in cut => ~Homeless(x) /\ Homeless(x)'
         /\ \A x \in Nodes : x = j => ~Homeless(x)'
         /\ \A x \in Nodes : x # j /\ x \notin cut => (Homeless(x)' <=> Homeless(x))
  BY <1>10, <1>12 DEF Gains
<1>14. Types'
  <2>1. jobCounter' \in Nat
    BY <1>1, <1>2 DEF Types
  <2> QED
    BY <1>1, <1>2, <1>7, <1>11, <1>12, <2>1 DEF Types
<1>15. SameRoles
  BY <1>1, <1>11 DEF SameRoles, SameFibers
<1>16. /\ PoolIsFree' /\ RunningFibers' /\ LeavingFibers' /\ FramesOfJobs'
       /\ \A f \in Fibers : Resuming(f)' = Resuming(f)
  BY <1>11, <1>14, <1>15, RolesKept DEF IInv
<1>17. WaitingFibers'
  <2>1. \A f \in Fibers : Homeless(f)' <=> Homeless(f)
    BY <1>13, NoneApart DEF Nodes
  <2>2. \A f \in Fibers : f \in lost' <=> f \in lost
    BY <1>13, NoneApart
  <2> QED
    BY <1>11, <1>16, <2>1, <2>2 DEF IInv, WaitingFibers, Homeless, SameFrame
<1>18. JobsHeld'
  <2>1. \A x \in Jobs : x \in cut => job[x].state = "queued" /\ x # j
    BY <1>13 DEF IInv, JobsHeld, Homeless, Nodes
  <2>2. ASSUME NEW x \in Jobs PROVE ~Homeless(x)' <=> job'[x].state = "queued" /\ x \notin lost'
    <3>1. CASE x = j
      BY <1>7, <1>9, <1>13, <3>1 DEF Nodes
    <3>2. CASE x \in cut
      BY <1>13, <3>2 DEF Nodes
    <3>3. CASE x # j /\ x \notin cut
      <4>1. Homeless(x)' <=> Homeless(x)
        BY <1>13, <3>3 DEF Nodes
      <4> QED
        BY <1>7, <1>13, <3>3, <4>1 DEF IInv, JobsHeld, Homeless
    <3> QED
      BY <3>1, <3>2, <3>3
  <2>3. \A x \in Jobs : x \in lost' => job'[x].state = "queued"
    BY <1>7, <1>9, <1>13, <2>1 DEF IInv, JobsHeld
  <2> QED
    BY <2>2, <2>3 DEF JobsHeld, Homeless
<1>19. JobsCarried'
  <2>1. \A x \in Jobs : job'[x].state = "running" <=> job[x].state = "running"
    BY <1>7, <1>8
  <2> QED
    BY <1>11, <2>1 DEF IInv, JobsCarried, Carried
<1>20. ScheduledBefore'
  <2> SUFFICES ASSUME NEW x \in Jobs, NEW i \in DOMAIN Program[x], Schedules(x, i),
                      job'[Program[x][i].job].state # "new"
               PROVE  Passed(x, i)'
    BY DEF ScheduledBefore
  <2>1. Program[x][i].job \in Jobs /\ i \in Nat
    <3>1. Program[x] \in Seq(Operations)
      BY JobSystemAssumption
    <3>2. Program[x][i] \in Operations /\ i \in Nat
      BY <3>1
    <3> QED
      BY <3>2 DEF Schedules, Operations
  <2>2. CASE Program[x][i].job = j
    <3>1. x = k /\ i = n
      BY <1>3, <2>2, WorkloadAssumption
    <3>2. worker[w].current \in Fibers /\ Frame(w) = fiber[worker[w].current]
      BY <1>1, RunsJob
    <3>3. fiber'[worker[w].current].job = k
      BY <1>3, <1>11, <3>2
    <3>4. fiber'[worker[w].current].ip = n + 1
      BY <1>3, <1>11, <3>2
    <3>5. n \in Nat /\ n + 1 > n
      BY <1>3
    <3> QED
      BY <3>1, <3>2, <3>3, <3>4, <3>5 DEF Passed
  <2>3. CASE Program[x][i].job # j
    <3>1. Passed(x, i)
      BY <1>7, <2>1, <2>3 DEF IInv, ScheduledBefore
    <3>2. CASE job[x].state = "done"
      BY <1>7, <1>8, <3>2 DEF Passed
    <3>3. CASE \E f \in Fibers : fiber[f].job = x /\ fiber[f].ip > i
      <4>1. PICK f \in Fibers : fiber[f].job = x /\ fiber[f].ip > i
        BY <3>3
      <4>2. fiber'[f].ip \in Nat /\ fiber[f].ip \in Nat /\ fiber'[f].ip >= fiber[f].ip
            /\ fiber'[f].job = x
        BY <1>11, <4>1, FiberFields
      <4>3. fiber'[f].ip > i
        BY <2>1, <4>1, <4>2
      <4> QED
        BY <4>2, <4>3 DEF Passed
    <3> QED
      BY <3>1, <3>2, <3>3 DEF Passed
  <2> QED
    BY <2>2, <2>3
<1>21. Hands'
  <2>1. HandsOf(w)'
    BY <1>1, <1>2 DEF HandsOf, Switching
  <2>2. \A v \in Workers : Switching(v) =>
          fiber'[worker[v].current].waiting = fiber[worker[v].current].waiting
    BY <1>11, SwitchingHasFiber DEF SameFrame, IInv
  <2> QED
    BY <1>1, <2>1, <2>2, HandsKept DEF IInv
<1>22. ConsumersExclude'
  BY <1>1 DEF IInv, ConsumersExclude
<1> QED
  BY <1>12, <1>14, <1>16, <1>17, <1>18, <1>19, <1>20, <1>21, <1>22 DEF IInv

\* AddReadyFiber keeps the invariant.
LEMMA AddReadyFiberKeeps == ASSUME IInv, NEW w \in Workers, AddReadyFiber(w) PROVE IInv'
<1>1. /\ pc[w] = "drain" /\ worker[w].drain # <<>>
      /\ UNCHANGED <<pc, consumerLock, group, job, shouldExit, fault>>
      /\ jobCounter' = jobCounter + 1
  BY DEF AddReadyFiber, At
<1>2. /\ Types /\ HandsOf(w) /\ OneHolder /\ worker[w] \in WorkerRecord /\ worker[w].prev = None
      /\ worker[w].drain \in Seq(Fibers) /\ Distinct(worker[w].drain)
  BY <1>1, EmptyHanded, WorkerFields DEF IInv, OneHolder, Switching
<1>3. PICK f \in Fibers, l \in Seq(Fibers) :
        /\ f = Head(worker[w].drain) /\ l = Tail(worker[w].drain)
        /\ f \in ElementsOf(worker[w].drain)
        /\ Distinct(l) /\ ElementsOf(l) = ElementsOf(worker[w].drain) \ {f}
  BY <1>1, <1>2, TailElements
<1>4. <<"drain", w>> \in HoldersOf(f)
  BY <1>3, HolderIs
<1>5. fiber[f].waiting /\ Resuming(f) = {} /\ fiber[f].affinity \in Affinities
  BY <1>4 DEF IInv, WaitingFibers, FramesOfJobs
<1>6. PICK q \in QueueIds : q = <<"fiber", fiber[f].priority, OwnerOf(fiber[f].affinity)>> /\ q[1] = "fiber"
  <2> DEFINE p == fiber[f].priority
  <2> DEFINE a == fiber[f].affinity
  <2>1. p \in Priorities /\ a \in Affinities
    BY <1>2, <1>5, FiberFields DEF Types
  <2> HIDE DEF p, a
  <2>2. <<"fiber", p, OwnerOf(a)>> \in QueueIds
    BY <2>1, OwnerIsQueue
  <2> QED
    BY <2>2 DEF p, a
<1>7. EnqueueInto(q, f)
  BY <1>3, <1>6 DEF AddReadyFiber
<1>8. /\ fiber' \in [Fibers -> FiberRecord]
      /\ \A g \in Fibers : SameFrame(fiber[g], fiber'[g]) /\ fiber'[g].job = fiber[g].job
                           /\ fiber'[g].ip = fiber[g].ip
  <2> DEFINE s == [fiber[f] EXCEPT !.hint = jobCounter]
  <2>1. fiber' = [fiber EXCEPT ![f] = s] /\ fiber[f] \in FiberRecord /\ jobCounter \in Nat
    BY <1>2, <1>3 DEF AddReadyFiber, Types
  <2>2. s \in FiberRecord /\ SameFrame(fiber[f], s) /\ s.job = fiber[f].job /\ s.ip = fiber[f].ip
    BY <2>1, FiberHint
  <2> HIDE DEF s
  <2>3. fiber' \in [Fibers -> FiberRecord] /\ fiber'[f] = s /\ \A g \in Fibers : g # f => fiber'[g] = fiber[g]
    BY <1>2, <2>1, <2>2, OneFiber
  <2>4. \A g \in Fibers : SameFrame(fiber[g], fiber[g])
    BY DEF SameFrame
  <2> QED
    BY <2>2, <2>3, <2>4
<1>9. /\ worker' \in [Workers -> WorkerRecord] /\ SameFibers(worker[w], worker'[w])
      /\ worker'[w].held = worker[w].held /\ worker'[w].drain = l
      /\ worker'[w].level = worker[w].level
      /\ \A v \in Workers : v # w => worker'[v] = worker[v]
  <2> DEFINE s == [worker[w] EXCEPT !.drain = l]
  <2>1. worker' = [worker EXCEPT ![w] = s]
    BY <1>3 DEF AddReadyFiber
  <2>2. /\ s \in WorkerRecord /\ SameFibers(worker[w], s) /\ s.held = worker[w].held
        /\ s.drain = l /\ s.level = worker[w].level
    BY <1>2, WorkerDrain
  <2> HIDE DEF s
  <2> QED
    BY <1>2, <2>1, <2>2, OneWorker
<1>10. f \in NodesOf(q[1]) /\ NodesOf(q[1]) = Fibers
  BY <1>6 DEF NodesOf
<1>11. /\ queues' \in [QueueIds -> QueueRecord]
       /\ \A x \in QueueIds : queues'[x].items \in Seq(NodesOf(x[1]))
       /\ lost' \in SUBSET Nodes
       /\ OneHolder'
       /\ \E cut \in SUBSET NodesOf(q[1]) : Gains(f, cut)
  <2>1. HoldersOf(f) \subseteq {<<"drain", w>>}
    BY <1>2, <1>4 DEF OneHolder, Nodes
  <2>2. group' = group
    BY <1>1
  <2>3. \A v \in Workers : worker'[v].held = worker[v].held
    BY <1>9
  <2>4. \A v \in Workers : v # w => worker'[v].drain = worker[v].drain
    BY <1>9
  <2>5. ElementsOf(worker'[w].drain) = ElementsOf(worker[w].drain) \ {f}
    BY <1>3, <1>9
  <2>6. Distinct(worker'[w].drain)
    BY <1>3, <1>9
  <2> QED
    BY <1>2, <1>7, <1>10, <2>1, <2>2, <2>3, <2>4, <2>5, <2>6, EnqueueEffect
<1>12. PICK cut \in SUBSET Fibers :
         /\ lost' = lost \union cut /\ f \notin cut
         /\ \A x \in Nodes : x \in cut => ~Homeless(x) /\ Homeless(x)'
         /\ \A x \in Nodes : x = f => ~Homeless(x)'
         /\ \A x \in Nodes : x # f /\ x \notin cut => (Homeless(x)' <=> Homeless(x))
  BY <1>10, <1>11 DEF Gains
<1>13. Types'
  <2>1. jobCounter' \in Nat
    BY <1>1, <1>2 DEF Types
  <2> QED
    BY <1>1, <1>2, <1>8, <1>9, <1>11, <2>1 DEF Types
<1>14. SameRoles
  BY <1>1, <1>8, <1>9 DEF SameRoles, SameFibers
<1>15. SameJobs
  <2>1. \A g \in Fibers : fiber[g].ip \in Nat
    BY <1>2, FiberFields DEF Types
  <2> QED
    BY <1>1, <1>8, <2>1 DEF SameJobs
<1>16. /\ PoolIsFree' /\ RunningFibers' /\ LeavingFibers' /\ FramesOfJobs'
       /\ \A g \in Fibers : Resuming(g)' = Resuming(g)
  BY <1>13, <1>14, <1>15, RolesKept DEF IInv, SameJobs
<1>17. WaitingFibers'
  <2>1. \A g \in Fibers : fiber'[g].waiting = fiber[g].waiting
    BY <1>8 DEF SameFrame
  <2>2. ASSUME NEW g \in Fibers
        PROVE  /\ ~Homeless(g)' => fiber'[g].waiting /\ Resuming(g)' = {}
               /\ fiber'[g].waiting /\ g \notin lost' => ~Homeless(g)' \/ Resuming(g)' # {}
    <3>1. CASE g = f
      BY <1>5, <1>12, <1>16, <2>1, <3>1 DEF Nodes
    <3>2. CASE g \in cut
      BY <1>12, <3>2 DEF Nodes
    <3>3. CASE g # f /\ g \notin cut
      <4>1. Homeless(g)' <=> Homeless(g)
        BY <1>12, <3>3 DEF Nodes
      <4> QED
        BY <1>12, <1>16, <2>1, <3>3, <4>1 DEF IInv, WaitingFibers, Homeless
    <3> QED
      BY <3>1, <3>2, <3>3
  <2> QED
    BY <2>2 DEF WaitingFibers, Homeless
<1>18. JobsHeld'
  <2>1. \A j \in Jobs : j \notin cut /\ j # f
    BY NoneApart
  <2>2. \A j \in Jobs : Homeless(j)' <=> Homeless(j)
    BY <1>12, <2>1 DEF Nodes
  <2> QED
    BY <1>1, <1>12, <2>1, <2>2 DEF IInv, JobsHeld, Homeless
<1>19. JobsCarried' /\ ScheduledBefore'
  BY <1>13, <1>15, JobsKept DEF IInv
<1>20. Hands'
  <2>1. HandsOf(w)'
    BY <1>1, <1>2, <1>9 DEF HandsOf, Switching, SameFibers
  <2>2. \A v \in Workers : Switching(v) =>
          fiber'[worker[v].current].waiting = fiber[worker[v].current].waiting
    BY <1>8, SwitchingHasFiber DEF SameFrame, IInv
  <2> QED
    BY <1>1, <1>9, <2>1, <2>2, HandsKept DEF IInv
<1>21. ConsumersExclude'
  BY <1>1, <1>9 DEF IInv, ConsumersExclude
<1> QED
  BY <1>11, <1>13, <1>16, <1>17, <1>18, <1>19, <1>20, <1>21 DEF IInv

-----------------------------------------------------------------------------
(* The invariant.                                                          *)

\* The system starts in the invariant.
LEMMA InitHolds == ASSUME Init PROVE IInv
<1> DEFINE root == <<"job", PriorityOf[RootJob], OwnerOf(AffinityOf[RootJob])>>
<1>1. root \in QueueIds /\ RootJob \in Jobs /\ AffinityOf[RootJob] \in Affinities
  <2>1. /\ PriorityOf[RootJob] \in Priorities /\ AffinityOf[RootJob] \in Affinities
        /\ RootJob \in Jobs
    BY JobSystemAssumption
  <2> DEFINE p == PriorityOf[RootJob]
  <2> DEFINE a == AffinityOf[RootJob]
  <2>2. p \in Priorities /\ a \in Affinities
    BY <2>1
  <2> HIDE DEF p, a
  <2>3. <<"job", p, OwnerOf(a)>> \in QueueIds
    BY <2>2, OwnerIsQueue
  <2> QED
    BY <2>1, <2>3 DEF p, a
<1>2. /\ None \notin Fibers /\ None \notin Jobs /\ None \notin Nodes
      /\ MaxPriority \in Priorities /\ 0 \in Priorities
  BY NoneApart, JobSystemAssumption DEF Priorities
<1>3. /\ pc \in [Workers -> {"start", "acquire"}]
      /\ \A w \in Workers : pc[w] \in Labels
  BY DEF Init, Labels
<1>4. \A w \in Workers :
        /\ worker[w] \in WorkerRecord /\ worker[w].current = None /\ worker[w].prev = None
        /\ worker[w].lastWait = None /\ worker[w].drain = <<>>
        /\ \A i \in 1 .. 3 : worker[w].held[i] = None
  <2> TAKE w \in Workers
  <2>1. worker[w] = [current |-> None, prev |-> None, lastWait |-> None, affinity |-> "none",
                     exitContext |-> None, attempt |-> 0, level |-> MaxPriority, looked |-> 0,
                     held |-> <<None, None, None>>,
                     signaled |-> None, drain |-> <<>>]
    BY DEF Init
  <2>2. /\ <<None, None, None>> \in [1 .. 3 -> Nodes \union {None}]
        /\ \A i \in 1 .. 3 : <<None, None, None>>[i] = None
    OBVIOUS
  <2>3. <<>> \in Seq(Fibers)
    OBVIOUS
  <2> DEFINE h == <<None, None, None>>
  <2>4. h \in [1 .. 3 -> Nodes \union {None}] /\ \A i \in 1 .. 3 : h[i] = None
    BY <2>2
  <2>5. worker[w] = [current |-> None, prev |-> None, lastWait |-> None, affinity |-> "none",
                     exitContext |-> None, attempt |-> 0, level |-> MaxPriority, looked |-> 0,
                     held |-> h,
                     signaled |-> None, drain |-> <<>>]
    BY <2>1
  <2>6. 0 \in 0 .. Attempts /\ 0 \in 0 .. 3
    BY JobSystemAssumption
  <2> HIDE DEF h
  <2> QED
    BY <1>2, <2>3, <2>4, <2>5, <2>6 DEF WorkerRecord
<1>5. \A f \in Fibers :
        /\ fiber[f] \in FiberRecord /\ fiber[f].context = "saved" /\ fiber[f].resume = "entry"
        /\ fiber[f].job = None /\ ~fiber[f].waiting
  <2> TAKE f \in Fibers
  <2>1. fiber[f] = [free |-> TRUE, context |-> "saved", resume |-> "entry", job |-> None, ip |-> 0,
                    waiting |-> FALSE, affinity |-> "none", priority |-> 0, hint |-> 0]
    BY DEF Init
  <2>2. 0 \in Nat /\ TRUE \in BOOLEAN /\ FALSE \in BOOLEAN
    OBVIOUS
  <2> QED
    BY <1>2, <2>1, <2>2 DEF FiberRecord
<1>6. \A q \in QueueIds :
        /\ queues[q] \in QueueRecord /\ queues[q].items \in Seq(NodesOf(q[1])) /\ Distinct(queues[q].items)
        /\ ElementsOf(queues[q].items) = IF q = root THEN {RootJob} ELSE {}
  <2> TAKE q \in QueueIds
  <2>1. queues[q] = IF q = root THEN Enqueued(EmptyQueue, RootJob) ELSE EmptyQueue
    BY DEF Init
  <2> DEFINE S == NodesOf(q[1])
  <2>2. S \in SUBSET Nodes
    BY DEF NodesOf, Nodes
  <2>3. /\ EmptyQueue.items = <<>> /\ EmptyQueue.items \in Seq(S) /\ EmptyQueue \in QueueRecord
        /\ CutOff(EmptyQueue) = {}
    BY DEF EmptyQueue, QueueRecord, CutOff
  <2>4. CASE q = root
    <3>1. RootJob \in S
      BY <1>1, <2>4 DEF NodesOf
    <3>2. Distinct(EmptyQueue.items) /\ ElementsOf(EmptyQueue.items) = {}
      BY <2>3, EmptyElements
    <3> HIDE DEF S, root
    <3>3. /\ Enqueued(EmptyQueue, RootJob) \in QueueRecord /\ Enqueued(EmptyQueue, RootJob).items \in Seq(S)
          /\ Distinct(Enqueued(EmptyQueue, RootJob).items)
          /\ ElementsOf(Enqueued(EmptyQueue, RootJob).items) = (ElementsOf(EmptyQueue.items) \ CutOff(EmptyQueue)) \union {RootJob}
      BY <2>2, <2>3, <3>1, <3>2, EnqueuedElements
    <3>4. queues[q] = Enqueued(EmptyQueue, RootJob)
      BY <2>1, <2>4
    <3> QED
      BY <2>3, <2>4, <3>2, <3>3, <3>4 DEF S
  <2>5. CASE q # root
    BY <2>1, <2>3, <2>5, EmptyElements
  <2> QED
    BY <2>4, <2>5
<1> HIDE DEF root
<1>7. \A g \in Groups : /\ group[g] \in GroupRecord /\ Distinct(group[g].list)
                        /\ ElementsOf(group[g].list) = {}
  <2> TAKE g \in Groups
  <2>1. group[g] = [count |-> CountOf[g], list |-> <<>>] /\ CountOf[g] \in Nat
    BY JobSystemAssumption DEF Init
  <2> QED
    BY <2>1, EmptyElements DEF GroupRecord
<1>8. \A j \in Jobs : /\ job[j] \in JobRecord
                      /\ job[j].state = IF j = RootJob THEN "queued" ELSE "new"
  <2> TAKE j \in Jobs
  <2>1. job[j] = [state |-> IF j = RootJob THEN "queued" ELSE "new", hint |-> 0,
                  affinity |-> IF j = RootJob THEN AffinityOf[j] ELSE "none"]
    BY DEF Init
  <2> QED
    BY <1>1, <2>1 DEF JobRecord
<1>9. Types
  <2>1. /\ pc \in [Workers -> Labels] /\ worker \in [Workers -> WorkerRecord]
        /\ fiber \in [Fibers -> FiberRecord] /\ queues \in [QueueIds -> QueueRecord]
        /\ group \in [Groups -> GroupRecord] /\ job \in [Jobs -> JobRecord]
    BY <1>3, <1>4, <1>5, <1>6, <1>7, <1>8 DEF Init
  <2>2. /\ consumerLock \in [Priorities -> Workers \union {None}]
        /\ jobCounter \in Nat /\ shouldExit \in BOOLEAN /\ fault \in Faults /\ lost \in SUBSET Nodes
    BY DEF Init, Faults
  <2> QED
    BY <1>6, <2>1, <2>2 DEF Types
<1>10. ASSUME NEW n \in Nodes, NEW t \in HoldersOf(n) PROVE t = <<"queue", root>> /\ n = RootJob
  <2>1. \A w \in Workers : ElementsOf(worker[w].drain) = {}
    BY <1>4, EmptyElements
  <2>2. n # None
    BY <1>2
  <2>3. /\ ~\E w \in Workers, i \in 1 .. 3 : t = <<"held", w, i>> /\ worker[w].held[i] = n
        /\ ~\E w \in Workers : t = <<"drain", w>> /\ n \in ElementsOf(worker[w].drain)
        /\ ~\E g \in Groups : t = <<"list", g>> /\ n \in ElementsOf(group[g].list)
    BY <1>4, <1>7, <2>1, <2>2
  <2>4. PICK q \in QueueIds : t = <<"queue", q>> /\ n \in ElementsOf(queues[q].items)
    BY <2>3, HolderForm
  <2>5. q = root /\ n = RootJob
    BY <1>6, <2>4
  <2> QED
    BY <2>4, <2>5
<1>11. OneHolder
  <2>1. \A n \in Nodes : \A s, t \in HoldersOf(n) : s = t
    BY <1>10
  <2>2. \A w \in Workers : Distinct(worker[w].drain)
    BY <1>4, EmptyElements
  <2> QED
    BY <1>6, <1>7, <2>1, <2>2 DEF OneHolder
<1>12. \A w \in Workers : pc[w] \in {"start", "acquire"}
  BY <1>3
<1>13. Hands /\ ConsumersExclude
  BY <1>4, <1>12 DEF Hands, HandsOf, Switching, ConsumersExclude
<1>14. PoolIsFree /\ RunningFibers
  BY <1>2, <1>4, <1>5 DEF PoolIsFree, Free, RunningFibers
<1>15. LeavingFibers
  BY <1>2, <1>4 DEF LeavingFibers, Leaving
<1>16. FramesOfJobs
  BY <1>5, <1>12 DEF FramesOfJobs
<1>17. WaitingFibers
  <2>1. \A f \in Fibers : HoldersOf(f) = {}
    BY <1>1, <1>10, NoneApart DEF Nodes
  <2> QED
    BY <1>5, <2>1 DEF WaitingFibers
<1>18. JobsHeld
  <2>1. lost = {}
    BY DEF Init
  <2>2. <<"queue", root>> \in HoldersOf(RootJob)
    BY <1>1, <1>6, HolderIs DEF root
  <2>3. \A j \in Jobs : j # RootJob => HoldersOf(j) = {}
    BY <1>10 DEF Nodes
  <2> QED
    BY <1>8, <2>1, <2>2, <2>3 DEF JobsHeld
<1>19. JobsCarried
  BY <1>2, <1>5, <1>8 DEF JobsCarried, Carried
<1>20. ScheduledBefore
  <2> SUFFICES ASSUME NEW j \in Jobs, NEW i \in DOMAIN Program[j], Schedules(j, i)
               PROVE  job[Program[j][i].job].state = "new"
    BY DEF ScheduledBefore
  <2>1. Program[j][i].job \in Jobs
    <3>1. Program[j][i] \in Operations
      BY JobSystemAssumption
    <3> QED
      BY <3>1 DEF Schedules, Operations
  <2> QED
    BY <1>8, <2>1, WorkloadAssumption
<1> QED
  BY <1>9, <1>11, <1>13, <1>14, <1>15, <1>16, <1>17, <1>18, <1>19, <1>20 DEF IInv

\* Every step keeps the invariant.
LEMMA StepKeeps == ASSUME IInv, [Next]_vars PROVE IInv'
<1>1. CASE Ended \/ UNCHANGED vars
  BY <1>1, StutterKeeps DEF Ended
<1>2. ASSUME NEW w \in Workers, Step(w) PROVE IInv'
  <2>1. CASE Start(w)
    BY <2>1, StartKeeps
  <2>2. CASE ThreadProc(w)
    BY <2>2, ThreadProcKeeps
  <2>3. CASE CleanUpUpdate(w)
    BY <2>3, CleanUpUpdateKeeps
  <2>4. CASE CleanUpMark(w)
    BY <2>4, CleanUpMarkKeeps
  <2>5. CASE LoopHead(w)
    BY <2>5, LoopHeadKeeps
  <2>6. CASE LockConsumers(w)
    BY <2>6, LockConsumersKeeps
  <2>7. CASE LookForFiber(w) \/ LookForJob(w)
    BY <2>7, LookForFiberKeeps, LookForJobKeeps
  <2>8. CASE NoFiber(w) \/ NoJob(w)
    BY <2>8, NoFiberKeeps, NoJobKeeps
  <2>9. CASE ChooseFiber(w)
    BY <2>9, ChooseFiberKeeps
  <2>10. CASE ResumeFiber(w)
    BY <2>10, ResumeFiberKeeps
  <2>11. CASE ChooseJob(w)
    BY <2>11, ChooseJobKeeps
  <2>12. CASE Schedule(w)
    BY <2>12, ScheduleKeeps
  <2>13. CASE Stop(w)
    BY <2>13, StopKeeps
  <2>14. CASE WaitSignaled(w)
    BY <2>14, WaitSignaledKeeps
  <2>15. CASE WaitPublish(w)
    BY <2>15, WaitPublishKeeps
  <2>16. CASE SwitchFromWaitingFiber(w)
    BY <2>16, SwitchFromWaitingFiberKeeps
  <2>17. CASE SignalCompletion(w)
    BY <2>17, SignalCompletionKeeps
  <2>18. CASE SignalImpl(w)
    BY <2>18, SignalImplKeeps
  <2>19. CASE AddReadyFiber(w)
    BY <2>19, AddReadyFiberKeeps
  <2>20. CASE SignalDone(w)
    BY <2>20, SignalDoneKeeps
  <2> QED
    BY <1>2, <2>1, <2>2, <2>3, <2>4, <2>5, <2>6, <2>7, <2>8, <2>9, <2>10, <2>11, <2>12,
       <2>13, <2>14, <2>15, <2>16, <2>17, <2>18, <2>19, <2>20 DEF Step
<1> QED
  BY <1>1, <1>2 DEF Next

\* From its start on, the job system keeps the inductive invariant.
THEOREM JobSystemInvariant == Spec => []IInv
<1>1. Init => IInv
  BY InitHolds
<1>2. IInv /\ [Next]_vars => IInv'
  BY StepKeeps
<1> QED
  BY <1>1, <1>2, PTL DEF Spec

-----------------------------------------------------------------------------
(* What it says.                                                           *)

\* A sequence without repetition has an element at one position.
LEMMA OnePosition ==
  ASSUME NEW s, Distinct(s), NEW n, NEW i \in DOMAIN s, s[i] = n
  PROVE  Positions(s, n) = {i}
BY DEF Distinct, Positions

\* A node is at no position of a sequence without it.
LEMMA NoPosition ==
  ASSUME NEW s, NEW n, n \notin ElementsOf(s)
  PROVE  Positions(s, n) = {}
BY DEF ElementsOf, Positions

\* What nobody holds is in no place.
LEMMA NoPlaces == ASSUME IInv, NEW n \in Nodes, HoldersOf(n) = {} PROVE PlacesOf(n) = {}
<1>1. \A t : t \notin HoldersOf(n)
  OBVIOUS
<1>2. /\ \A q \in QueueIds : n \notin ElementsOf(queues[q].items)
      /\ \A w \in Workers, i \in 1 .. 3 : worker[w].held[i] # n
      /\ \A w \in Workers : n \notin ElementsOf(worker[w].drain)
      /\ \A g \in Groups : n \notin ElementsOf(group[g].list)
  BY <1>1, HolderIs
<1>3. \A w \in Workers : DOMAIN worker[w].held = 1 .. 3
  BY WorkerFields DEF IInv, Types
<1>4. /\ \A q \in QueueIds : Positions(queues[q].items, n) = {}
      /\ \A w \in Workers : Positions(worker[w].held, n) = {}
      /\ \A w \in Workers : Positions(worker[w].drain, n) = {}
      /\ \A g \in Groups : Positions(group[g].list, n) = {}
  <2>1. \A w \in Workers : Positions(worker[w].held, n) = {}
    BY <1>2, <1>3 DEF Positions
  <2> QED
    BY <1>2, <2>1, NoPosition
<1> QED
  BY <1>4 DEF PlacesOf

\* The places of a node are one, or none, as its holders are.
LEMMA PlacesCounted ==
  ASSUME IInv, NEW n \in Nodes
  PROVE  Cardinality(PlacesOf(n)) = IF HoldersOf(n) = {} THEN 0 ELSE 1
<1>1. OneHolder /\ Types
  BY DEF IInv
<1>2. \A w \in Workers : DOMAIN worker[w].held = 1 .. 3
  BY <1>1, WorkerFields DEF Types
<1> DEFINE P == [q \in QueueIds |-> {<<q, i>> : i \in Positions(queues[q].items, n)}]
<1> DEFINE H == [w \in Workers |-> {<<"held", w, i>> : i \in Positions(worker[w].held, n)}]
<1> DEFINE D == [w \in Workers |-> {<<"drain", w, i>> : i \in Positions(worker[w].drain, n)}]
<1> DEFINE L == [g \in Groups |-> {<<"list", g, i>> : i \in Positions(group[g].list, n)}]
<1>3. \A x : x \in PlacesOf(n) <=>
        \/ \E q \in QueueIds : x \in P[q]
        \/ \E w \in Workers : x \in H[w]
        \/ \E w \in Workers : x \in D[w]
        \/ \E g \in Groups : x \in L[g]
  BY DEF PlacesOf
<1>4. \A q \in QueueIds : n \notin ElementsOf(queues[q].items) => P[q] = {}
  BY NoPosition
<1>5. \A w \in Workers : (\A i \in 1 .. 3 : worker[w].held[i] # n) => H[w] = {}
  BY <1>2 DEF Positions
<1>6. \A w \in Workers : n \notin ElementsOf(worker[w].drain) => D[w] = {}
  BY NoPosition
<1>7. \A g \in Groups : n \notin ElementsOf(group[g].list) => L[g] = {}
  BY NoPosition
<1>8. ASSUME NEW q \in QueueIds, n \in ElementsOf(queues[q].items) PROVE \E x : P[q] = {x}
  <2>1. PICK i \in DOMAIN queues[q].items : queues[q].items[i] = n
    BY <1>8 DEF ElementsOf
  <2>2. Positions(queues[q].items, n) = {i}
    BY <1>1, <2>1, OnePosition DEF OneHolder
  <2>3. P[q] = {<<q, i>>}
    BY <2>2
  <2> QED
    BY <2>3
<1>9. ASSUME NEW w \in Workers, n \in ElementsOf(worker[w].drain) PROVE \E x : D[w] = {x}
  <2>1. PICK i \in DOMAIN worker[w].drain : worker[w].drain[i] = n
    BY <1>9 DEF ElementsOf
  <2>2. Positions(worker[w].drain, n) = {i}
    BY <1>1, <2>1, OnePosition DEF OneHolder
  <2>3. D[w] = {<<"drain", w, i>>}
    BY <2>2
  <2> QED
    BY <2>3
<1>10. ASSUME NEW g \in Groups, n \in ElementsOf(group[g].list) PROVE \E x : L[g] = {x}
  <2>1. PICK i \in DOMAIN group[g].list : group[g].list[i] = n
    BY <1>10 DEF ElementsOf
  <2>2. Positions(group[g].list, n) = {i}
    BY <1>1, <2>1, OnePosition DEF OneHolder
  <2>3. L[g] = {<<"list", g, i>>}
    BY <2>2
  <2> QED
    BY <2>3
<1>11. ASSUME NEW w \in Workers, NEW k \in 1 .. 3, worker[w].held[k] = n PROVE \E x : H[w] = {x}
  <2>1. \A i \in 1 .. 3 : worker[w].held[i] = n => i = k
    BY <1>1, <1>11, OnePlace
  <2>2. Positions(worker[w].held, n) = {k}
    BY <1>2, <1>11, <2>1 DEF Positions
  <2>3. H[w] = {<<"held", w, k>>}
    BY <2>2
  <2> QED
    BY <2>3
<1> HIDE DEF P, H, D, L
<1>12. CASE HoldersOf(n) = {}
  BY <1>12, NoPlaces, FS_EmptySet
<1>13. CASE HoldersOf(n) # {}
  <2>1. PICK t \in HoldersOf(n) : TRUE
    BY <1>13
  <2>2. \E x : PlacesOf(n) = {x}
    <3>1. CASE \E q \in QueueIds : t = <<"queue", q>> /\ n \in ElementsOf(queues[q].items)
      <4>1. PICK q \in QueueIds : n \in ElementsOf(queues[q].items)
        BY <3>1
      <4>2. /\ \A y \in QueueIds : y # q => P[y] = {}
            /\ \A w \in Workers : H[w] = {} /\ D[w] = {}
            /\ \A g \in Groups : L[g] = {}
        BY <1>1, <1>4, <1>5, <1>6, <1>7, <4>1, OnePlace
      <4>3. PlacesOf(n) = P[q]
        BY <1>3, <4>2
      <4> QED
        BY <1>8, <4>1, <4>3
    <3>2. CASE \E w \in Workers, i \in 1 .. 3 : t = <<"held", w, i>> /\ worker[w].held[i] = n
      <4>1. PICK w \in Workers, k \in 1 .. 3 : worker[w].held[k] = n
        BY <3>2
      <4>2. /\ \A q \in QueueIds : n \notin ElementsOf(queues[q].items)
            /\ \A v \in Workers, i \in 1 .. 3 : worker[v].held[i] = n => v = w /\ i = k
            /\ \A v \in Workers : n \notin ElementsOf(worker[v].drain)
            /\ \A g \in Groups : n \notin ElementsOf(group[g].list)
        BY <1>1, <4>1, OnePlace
      <4>3. /\ \A q \in QueueIds : P[q] = {}
            /\ \A v \in Workers : v # w => H[v] = {}
            /\ \A v \in Workers : D[v] = {}
            /\ \A g \in Groups : L[g] = {}
        BY <1>4, <1>5, <1>6, <1>7, <4>2
      <4>4. PlacesOf(n) = H[w]
        BY <1>3, <4>3
      <4> QED
        BY <1>11, <4>1, <4>4
    <3>3. CASE \E w \in Workers : t = <<"drain", w>> /\ n \in ElementsOf(worker[w].drain)
      <4>1. PICK w \in Workers : n \in ElementsOf(worker[w].drain)
        BY <3>3
      <4>2. /\ \A q \in QueueIds : n \notin ElementsOf(queues[q].items)
            /\ \A v \in Workers, i \in 1 .. 3 : worker[v].held[i] # n
            /\ \A v \in Workers : n \in ElementsOf(worker[v].drain) => v = w
            /\ \A g \in Groups : n \notin ElementsOf(group[g].list)
        BY <1>1, <4>1, OnePlace
      <4>3. /\ \A q \in QueueIds : P[q] = {}
            /\ \A v \in Workers : H[v] = {}
            /\ \A v \in Workers : v # w => D[v] = {}
            /\ \A g \in Groups : L[g] = {}
        BY <1>4, <1>5, <1>6, <1>7, <4>2
      <4>4. PlacesOf(n) = D[w]
        BY <1>3, <4>3
      <4> QED
        BY <1>9, <4>1, <4>4
    <3>4. CASE \E g \in Groups : t = <<"list", g>> /\ n \in ElementsOf(group[g].list)
      <4>1. PICK g \in Groups : n \in ElementsOf(group[g].list)
        BY <3>4
      <4>2. /\ \A q \in QueueIds : n \notin ElementsOf(queues[q].items)
            /\ \A v \in Workers, i \in 1 .. 3 : worker[v].held[i] # n
            /\ \A v \in Workers : n \notin ElementsOf(worker[v].drain)
            /\ \A h \in Groups : n \in ElementsOf(group[h].list) => h = g
        BY <1>1, <4>1, OnePlace
      <4>3. /\ \A q \in QueueIds : P[q] = {}
            /\ \A v \in Workers : H[v] = {} /\ D[v] = {}
            /\ \A h \in Groups : h # g => L[h] = {}
        BY <1>4, <1>5, <1>6, <1>7, <4>2
      <4>4. PlacesOf(n) = L[g]
        BY <1>3, <4>3
      <4> QED
        BY <1>10, <4>1, <4>4
    <3> QED
      BY <2>1, <3>1, <3>2, <3>3, <3>4, HolderForm
  <2> QED
    BY <1>13, <2>2, FS_Singleton
<1> QED
  BY <1>12, <1>13

\* A fiber is switched to by one worker at a time.
LEMMA ResumingCounted ==
  ASSUME IInv, NEW f \in Fibers
  PROVE  Cardinality(Resuming(f)) = IF Resuming(f) = {} THEN 0 ELSE 1
<1>1. CASE Resuming(f) = {}
  BY <1>1, FS_EmptySet
<1>2. CASE Resuming(f) # {}
  <2>1. PICK w \in Resuming(f) : TRUE
    BY <1>2
  <2>2. \A v \in Resuming(f) : v = w
    BY <2>1, NoneApart DEF Resuming, IInv, RunningFibers
  <2>3. Resuming(f) = {w}
    BY <2>1, <2>2
  <2> QED
    BY <1>2, <2>3, FS_Singleton
<1> QED
  BY <1>1, <1>2

\* The invariant has the types TLC checks.
LEMMA TypesGive == ASSUME IInv PROVE TypeOK
<1>1. Types
  BY DEF IInv
<1>2. \A w \in Workers :
       /\ worker[w].current \in Fibers \union {None}
       /\ worker[w].prev \in Fibers \union {None}
       /\ worker[w].lastWait \in Fibers \union {None}
       /\ worker[w].exitContext \in {"thread", "fiber", None}
       /\ worker[w].attempt \in 0 .. Attempts /\ worker[w].level \in Priorities
       /\ worker[w].looked \in 0 .. 3
       /\ \A i \in 1 .. 3 : worker[w].held[i] \in Fibers \union Jobs \union {None}
       /\ worker[w].drain \in Seq(Fibers)
  BY <1>1, WorkerFields DEF Types, Nodes
<1>3. \A q \in QueueIds : queues[q].items \in Seq(IF q[1] = "job" THEN Jobs ELSE Fibers)
  BY <1>1 DEF Types, NodesOf
<1>4. /\ \A g \in Groups : group[g].count \in Nat /\ group[g].list \in Seq(Fibers)
      /\ \A j \in Jobs : job[j].state \in {"new", "queued", "running", "done"}
  BY <1>1 DEF Types, GroupRecord, JobRecord
<1> QED
  BY <1>1, <1>2, <1>3, <1>4 DEF Types, TypeOK

\* One holder is one place.
LEMMA OneOwnerFollows == ASSUME IInv PROVE OneOwner
<1>1. ParkedFiberKeptOnce
  <2> SUFFICES ASSUME NEW f \in Fibers
               PROVE  IF ~fiber[f].waiting THEN PlacesOf(f) = {}
                      ELSE f \notin lost => Cardinality(PlacesOf(f)) + Cardinality(Resuming(f)) = 1
    BY DEF ParkedFiberKeptOnce
  <2>1. f \in Nodes
    BY DEF Nodes
  <2>2. CASE ~fiber[f].waiting
    <3>1. HoldersOf(f) = {}
      BY <2>2 DEF IInv, WaitingFibers
    <3> QED
      BY <2>1, <2>2, <3>1, NoPlaces
  <2>3. CASE fiber[f].waiting
    <3>1. Cardinality(PlacesOf(f)) = IF HoldersOf(f) = {} THEN 0 ELSE 1
      BY <2>1, PlacesCounted
    <3>2. Cardinality(Resuming(f)) = IF Resuming(f) = {} THEN 0 ELSE 1
      BY ResumingCounted
    <3>3. /\ HoldersOf(f) # {} => Resuming(f) = {}
          /\ f \notin lost => HoldersOf(f) # {} \/ Resuming(f) # {}
      BY <2>3 DEF IInv, WaitingFibers
    <3> HIDE DEF IInv
    <3>4. f \notin lost => Cardinality(PlacesOf(f)) + Cardinality(Resuming(f)) = 1
      BY <3>1, <3>2, <3>3
    <3> QED
      BY <2>3, <3>4
  <2> QED
    BY <2>2, <2>3
<1>2. JobKeptOnce
  <2> SUFFICES ASSUME NEW j \in Jobs
               PROVE  /\ Cardinality(PlacesOf(j)) = IF job[j].state = "queued" /\ j \notin lost THEN 1 ELSE 0
                      /\ Cardinality({f \in Fibers : fiber[f].job = j})
                           = IF job[j].state = "running" THEN 1 ELSE 0
    BY DEF JobKeptOnce
  <2>1. Cardinality(PlacesOf(j)) = IF HoldersOf(j) = {} THEN 0 ELSE 1
    BY PlacesCounted DEF Nodes
  <2>2. HoldersOf(j) # {} <=> job[j].state = "queued" /\ j \notin lost
    BY DEF IInv, JobsHeld
  <2> DEFINE C == {f \in Fibers : fiber[f].job = j}
  <2>3. CASE job[j].state = "running"
    <3>1. PICK f \in Fibers : fiber[f].job = j
      BY <2>3 DEF IInv, JobsCarried, Carried
    <3>2. \A g \in Fibers : fiber[g].job = j => g = f
      BY <3>1, NoneApart DEF IInv, JobsCarried
    <3>3. C = {f}
      BY <3>1, <3>2
    <3> QED
      BY <2>1, <2>2, <2>3, <3>3, FS_Singleton
  <2>4. CASE job[j].state # "running"
    <3>1. C = {}
      BY <2>4 DEF IInv, JobsCarried, Carried
    <3> QED
      BY <2>1, <2>2, <2>4, <3>1, FS_EmptySet
  <2> QED
    BY <2>3, <2>4
<1> QED
  BY <1>1, <1>2, TypesGive DEF IInv, OneOwner

\* What the invariant says of the pool.
LEMMA FiberOwnershipFollows == ASSUME IInv PROVE FiberOwnership
<1>1. \A v, w \in Workers :
        v # w /\ worker[v].current # None => worker[v].current # worker[w].current
  BY DEF IInv, RunningFibers
<1>2. \A f \in Free :
        /\ \A w \in Workers : worker[w].current # f \/ pc[w] = "exited"
        /\ fiber[f].job = None /\ ~fiber[f].waiting /\ fiber[f].context = "saved"
  BY DEF IInv, PoolIsFree
<1> QED
  BY <1>1, <1>2 DEF FiberOwnership

\* A parked fiber is in one place until one worker resumes it, a job in one
\* until it runs on one fiber, whatever the workers interleave: what Wait(),
\* SignalImpl, AddReadyFiber, Schedule and the loop of FiberProc move about is
\* neither duplicated nor dropped, but for what an Enqueue cut off.
THEOREM JobSystemOneOwner == Spec => []OneOwner
<1>1. IInv => OneOwner
  BY OneOwnerFollows
<1> QED
  BY <1>1, JobSystemInvariant, PTL

\* No fiber is run by two workers, and Rent never hands out a stack in use.
THEOREM JobSystemFiberOwnership == Spec => []FiberOwnership
<1>1. IInv => FiberOwnership
  BY FiberOwnershipFollows
<1> QED
  BY <1>1, JobSystemInvariant, PTL

-----------------------------------------------------------------------------
(* What a job sees: the fibers' frames and the groups it waits for.        *)

\* A group counts its members that have not ended.
Unfinished(g) == {j \in Jobs : CompletionOf[j] = g /\ job[j].state # "done"}

GroupsCount == \A g \in Groups : group[g].count = Cardinality(Unfinished(g))

\* Fiber f stands at a Wait() on group g.
WaitsFor(f, g) ==
  LET p == Program[fiber[f].job]
      i == fiber[f].ip IN
  i \in DOMAIN p /\ p[i].op = "wait" /\ p[i].group = g

\* A fiber that waits is in the list of its group, or the group has counted down.
Waits ==
  \A f \in Fibers : fiber[f].waiting =>
    \E g \in Groups : WaitsFor(f, g) /\ (f \in ElementsOf(group[g].list) \/ group[g].count = 0)

\* Who walks a list does so for a group that has counted down.
SignalsAtZero == \A w \in Workers : pc[w] = "signal" => group[worker[w].signaled].count = 0

WaitInv == GroupsCount /\ Waits /\ SignalsAtZero

\* No job and no fiber goes on.
SameFrames ==
  /\ \A f \in Fibers : fiber'[f].job = fiber[f].job /\ fiber'[f].ip = fiber[f].ip
  /\ \A j \in Jobs : job'[j].state = job[j].state

\* No group, and nothing that waits for one, changes.
SameWaits ==
  /\ \A f \in Fibers : fiber'[f].waiting =>
       fiber[f].waiting /\ fiber'[f].job = fiber[f].job /\ fiber'[f].ip = fiber[f].ip
  /\ \A g \in Groups : group'[g].count = group[g].count
  /\ \A g \in Groups : group[g].count = 0 \/ group'[g].list = group[g].list
  /\ \A j \in Jobs : job'[j].state = "done" <=> job[j].state = "done"
  /\ \A w \in Workers : pc'[w] = "signal" =>
       pc[w] = "signal" /\ worker'[w].signaled = worker[w].signaled

\* The groups' counters agree while no job ends.
LEMMA CountsKept ==
  ASSUME GroupsCount, \A g \in Groups : group'[g].count = group[g].count,
         \A j \in Jobs : job'[j].state = "done" <=> job[j].state = "done"
  PROVE  GroupsCount'
<1>1. \A g \in Groups : Unfinished(g)' = Unfinished(g)
  BY DEF Unfinished
<1> QED
  BY <1>1 DEF GroupsCount

\* A step that leaves the waits as they are keeps what is said of them.
LEMMA WaitsKept ==
  ASSUME IInv, WaitInv, SameWaits PROVE WaitInv'
<1>1. GroupsCount'
  BY CountsKept DEF WaitInv, SameWaits
<1>2. Waits'
  <2> SUFFICES ASSUME NEW f \in Fibers, fiber'[f].waiting
               PROVE  \E g \in Groups : WaitsFor(f, g)' /\ (f \in ElementsOf(group'[g].list) \/ group'[g].count = 0)
    BY DEF Waits
  <2>1. PICK g \in Groups : WaitsFor(f, g) /\ (f \in ElementsOf(group[g].list) \/ group[g].count = 0)
    BY DEF WaitInv, Waits, SameWaits
  <2>2. WaitsFor(f, g)'
    BY <2>1 DEF WaitsFor, SameWaits
  <2>3. f \in ElementsOf(group'[g].list) \/ group'[g].count = 0
    BY <2>1 DEF SameWaits
  <2> QED
    BY <2>2, <2>3
<1>3. SignalsAtZero'
  <2> SUFFICES ASSUME NEW w \in Workers, pc'[w] = "signal" PROVE group'[worker'[w].signaled].count = 0
    BY DEF SignalsAtZero
  <2>1. pc[w] = "signal" /\ worker'[w].signaled = worker[w].signaled
    BY DEF SameWaits
  <2>2. group[worker[w].signaled].count = 0 /\ worker[w].signaled \in Groups
    BY <2>1, EmptyHanded DEF WaitInv, SignalsAtZero, HandsOf
  <2> QED
    BY <2>1, <2>2 DEF SameWaits
<1> QED
  BY <1>1, <1>2, <1>3 DEF WaitInv

\* No group has lost a member and nobody waits.
LEMMA WaitInit == ASSUME Init PROVE WaitInv
<1>1. GroupsCount
  <2> SUFFICES ASSUME NEW g \in Groups PROVE group[g].count = Cardinality(Unfinished(g))
    BY DEF GroupsCount
  <2>1. Unfinished(g) = {j \in Jobs : CompletionOf[j] = g}
    BY DEF Init, Unfinished
  <2> QED
    BY <2>1, WorkloadAssumption DEF Init
<1>2. Waits
  BY DEF Init, Waits
<1>3. SignalsAtZero
  BY DEF Init, SignalsAtZero
<1> QED
  BY <1>1, <1>2, <1>3 DEF WaitInv

\* A group whose counter is 0 has no member that has not ended.
LEMMA NoneUnfinished ==
  ASSUME GroupsCount, NEW g \in Groups, group[g].count = 0
  PROVE  \A j \in Jobs : CompletionOf[j] = g => job[j].state = "done"
<1>1. IsFiniteSet(Unfinished(g))
  BY WorkloadAssumption, FS_Subset DEF Unfinished
<1>2. Unfinished(g) = {}
  BY <1>1, FS_EmptySet DEF GroupsCount
<1> QED
  BY <1>2 DEF Unfinished

-----------------------------------------------------------------------------
(* The steps that leave every frame as it is.                              *)

\* A switch leaves every frame as it is.
LEMMA SwitchFrames ==
  ASSUME IInv, NEW w \in Workers, NEW r \in WorkerRecord, NEW to \in Fibers, SwitchTo(w, r, to)
  PROVE  SameFrames /\ SameWaits
<1>1. CASE fiber[to].context # "saved"
  <2>1. UNCHANGED <<pc, worker, fiber, group, job>>
    BY <1>1 DEF SwitchTo, Fail
  <2> QED
    BY <2>1 DEF SameFrames, SameWaits
<1>2. CASE fiber[to].context = "saved"
  <2>1. /\ fiber' = [f \in Fibers |->
             IF f = to THEN [fiber[f] EXCEPT !.context = "running", !.free = FALSE]
             ELSE IF f = r.prev /\ r.lastWait = None THEN [fiber[f] EXCEPT !.resume = "loop"]
             ELSE fiber[f]]
        /\ pc' = [pc EXCEPT ![w] = "update"] /\ UNCHANGED <<group, job>>
    BY <1>2 DEF SwitchTo, Goto
  <2>2. /\ pc \in [Workers -> Labels] /\ worker \in [Workers -> WorkerRecord]
        /\ fiber \in [Fibers -> FiberRecord]
    BY DEF IInv, Types
  <2>3. \A f \in Fibers : /\ fiber'[f].waiting = fiber[f].waiting
                         /\ fiber'[f].job = fiber[f].job /\ fiber'[f].ip = fiber[f].ip
    BY <2>1, <2>2 DEF FiberRecord
  <2>4. \A v \in Workers : v # w => worker'[v] = worker[v]
    <3> DEFINE from == IF r.prev = None THEN "thread" ELSE "fiber"
    <3> DEFINE x == IF fiber[to].resume = "entry" /\ r.exitContext = None THEN from ELSE r.exitContext
    <3> DEFINE s == [r EXCEPT !.current = to, !.exitContext = x]
    <3>1. worker' = [worker EXCEPT ![w] = s]
      BY <1>2 DEF SwitchTo
    <3> HIDE DEF s
    <3> QED
      BY <2>2, <3>1
  <2>5. pc'[w] = "update" /\ \A v \in Workers : v # w => pc'[v] = pc[v]
    BY <2>1, <2>2
  <2> QED
    BY <2>1, <2>3, <2>4, <2>5 DEF SameFrames, SameWaits
<1> QED
  BY <1>1, <1>2

\* A worker that goes to a label leaves the other workers where they are.
LEMMA GotoElsewhere ==
  ASSUME IInv, NEW w \in Workers, NEW label, Goto(w, label)
  PROVE  pc'[w] = label /\ \A v \in Workers : v # w => pc'[v] = pc[v]
BY DEF Goto, IInv, Types

\* A step that changes neither the fibers nor the jobs nor the groups.
LEMMA StillFrames ==
  ASSUME IInv, NEW w \in Workers, NEW label, label # "signal", Goto(w, label),
         UNCHANGED <<fiber, job, group>>, \A v \in Workers : v # w => worker'[v] = worker[v]
  PROVE  SameFrames /\ SameWaits
<1>1. pc'[w] = label /\ \A v \in Workers : v # w => pc'[v] = pc[v]
  BY GotoElsewhere
<1> QED
  BY <1>1 DEF SameFrames, SameWaits

\* The steps that switch leave every frame as it is.
LEMMA ThreadFrames ==
  ASSUME IInv, NEW w \in Workers, Start(w) \/ ThreadProc(w) \/ SwitchFromWaitingFiber(w) \/ ResumeFiber(w)
  PROVE  SameFrames /\ SameWaits
<1>1. worker[w] \in WorkerRecord /\ HandsOf(w)
  BY EmptyHanded
<1>2. CASE Start(w) \/ ThreadProc(w)
  <2>1. PICK to \in Fibers : SwitchTo(w, worker[w], to)
    BY <1>2 DEF Start, ThreadProc, Free
  <2> QED
    BY <1>1, <2>1, SwitchFrames
<1>3. CASE SwitchFromWaitingFiber(w)
  <2> DEFINE r == [worker[w] EXCEPT !.lastWait = worker[w].current, !.prev = worker[w].current]
  <2>1. PICK to \in Fibers : SwitchTo(w, r, to)
    BY <1>3 DEF SwitchFromWaitingFiber, Free
  <2>2. r \in WorkerRecord
    BY <1>1 DEF WorkerRecord
  <2> HIDE DEF r
  <2> QED
    BY <2>1, <2>2, SwitchFrames
<1>4. CASE ResumeFiber(w)
  <2> DEFINE f == worker[w].held[1]
  <2> DEFINE r == [worker[w] EXCEPT !.prev = worker[w].current, !.affinity = fiber[f].affinity,
                                    !.held = NothingHeld]
  <2>1. f \in Fibers
    BY <1>1, <1>4 DEF ResumeFiber, At, HandsOf
  <2>2. r \in WorkerRecord
    <3>1. fiber[f].affinity \in Affinities \union {"none"}
      BY <2>1, FiberFields DEF IInv, Types
    <3>2. NothingHeld \in [1 .. 3 -> Nodes \union {None}]
      BY DEF NothingHeld
    <3> HIDE DEF f
    <3> QED
      BY <1>1, <3>1, <3>2 DEF WorkerRecord
  <2>3. SwitchTo(w, r, f)
    BY <1>4 DEF ResumeFiber
  <2> HIDE DEF r, f
  <2> QED
    BY <2>1, <2>2, <2>3, SwitchFrames
<1> QED
  BY <1>2, <1>3, <1>4

\* The steps of the loop leave every frame as it is.
LEMMA LoopFrames ==
  ASSUME IInv, NEW w \in Workers,
         \/ LoopHead(w) \/ LockConsumers(w) \/ LookForFiber(w) \/ NoFiber(w)
         \/ LookForJob(w) \/ NoJob(w) \/ ChooseFiber(w) \/ SignalDone(w)
  PROVE  SameFrames /\ SameWaits
<1>1. \/ \E label \in {"poll", "exited", "fibers", "jobs", "loop", "switch"} :
           Goto(w, label) /\ UNCHANGED <<fiber, job, group>>
           /\ \A v \in Workers : v # w => worker'[v] = worker[v]
      \/ UNCHANGED <<pc, worker, fiber, group, job>>
  <2>1. ASSUME NEW r, worker' = [worker EXCEPT ![w] = r]
        PROVE  \A v \in Workers : v # w => worker'[v] = worker[v]
    BY <2>1 DEF IInv, Types
  <2>2. CASE LoopHead(w)
    BY <2>1, <2>2 DEF LoopHead, Fail
  <2>3. CASE LockConsumers(w) \/ NoFiber(w) \/ NoJob(w)
    BY <2>1, <2>3 DEF LockConsumers, NoFiber, NoJob
  <2>4. CASE LookForFiber(w)
    BY <2>1, <2>4 DEF LookForFiber, Look, At, Goto, IInv, Types
  <2>5. CASE LookForJob(w)
    BY <2>1, <2>5 DEF LookForJob, Look, At, Goto, IInv, Types
  <2>6. CASE ChooseFiber(w)
    BY <2>1, <2>6 DEF ChooseFiber, PutBack
  <2>7. CASE SignalDone(w)
    BY <2>7 DEF SignalDone
  <2> QED
    BY <2>2, <2>3, <2>4, <2>5, <2>6, <2>7
<1>2. CASE UNCHANGED <<pc, worker, fiber, group, job>>
  BY <1>2 DEF SameFrames, SameWaits
<1> QED
  BY <1>1, <1>2, StillFrames

\* Saving a context leaves every frame as it is.
LEMMA CleanUpUpdateFrames ==
  ASSUME IInv, NEW w \in Workers, CleanUpUpdate(w) PROVE SameFrames /\ SameWaits
<1>1. \A f \in Fibers : /\ fiber'[f].waiting = fiber[f].waiting
                        /\ fiber'[f].job = fiber[f].job /\ fiber'[f].ip = fiber[f].ip
  <2>1. fiber \in [Fibers -> FiberRecord] /\ worker[w].prev \in Fibers \union {None}
    BY EmptyHanded, WorkerFields DEF IInv, Types
  <2>2. CASE worker[w].prev = None
    BY <2>2 DEF CleanUpUpdate
  <2>3. CASE worker[w].prev # None
    <3> DEFINE p == worker[w].prev
    <3> DEFINE s == [fiber[p] EXCEPT !.context = "saved"]
    <3>1. p \in Fibers /\ fiber' = [fiber EXCEPT ![p] = s]
      BY <2>1, <2>3 DEF CleanUpUpdate
    <3>2. s \in FiberRecord /\ s.waiting = fiber[p].waiting /\ s.job = fiber[p].job /\ s.ip = fiber[p].ip
      BY <2>1, <3>1 DEF FiberRecord
    <3> HIDE DEF s, p
    <3>3. fiber'[p] = s /\ \A f \in Fibers : f # p => fiber'[f] = fiber[f]
      BY <2>1, <3>1, <3>2
    <3> QED
      BY <3>2, <3>3
  <2> QED
    BY <2>2, <2>3
<1>2. Goto(w, "mark") /\ UNCHANGED <<worker, group, job>>
  BY DEF CleanUpUpdate
<1>3. pc'[w] = "mark" /\ \A v \in Workers : v # w => pc'[v] = pc[v]
  BY <1>2, GotoElsewhere
<1> QED
  BY <1>1, <1>2, <1>3 DEF SameFrames, SameWaits

\* The list SignalImpl takes is that of a group that has counted down.
LEMMA SignalImplFrames ==
  ASSUME IInv, WaitInv, NEW w \in Workers, SignalImpl(w) PROVE SameFrames /\ SameWaits
<1>1. pc[w] = "signal" /\ worker[w].signaled \in Groups /\ HandsOf(w)
  BY EmptyHanded DEF SignalImpl, At, HandsOf
<1>2. group[worker[w].signaled].count = 0
  BY <1>1 DEF WaitInv, SignalsAtZero
<1>3. PICK g \in Groups : g = worker[w].signaled
  BY <1>1
<1>4. \A h \in Groups : /\ group'[h].count = group[h].count
                        /\ group[h].count = 0 \/ group'[h].list = group[h].list
  <2>1. group' = [group EXCEPT ![g].list = <<>>] /\ group \in [Groups -> GroupRecord]
    BY <1>3 DEF SignalImpl, IInv, Types
  <2> QED
    BY <1>2, <1>3, <2>1 DEF GroupRecord
<1>5. /\ UNCHANGED <<fiber, job>> /\ Goto(w, "drain")
      /\ \A v \in Workers : v # w => worker'[v] = worker[v]
  BY DEF SignalImpl, IInv, Types
<1>6. pc'[w] = "drain" /\ \A v \in Workers : v # w => pc'[v] = pc[v]
  BY <1>5, GotoElsewhere
<1> QED
  BY <1>4, <1>5, <1>6 DEF SameFrames, SameWaits

\* Making a fiber ready leaves every frame as it is.
LEMMA AddReadyFiberFrames ==
  ASSUME IInv, NEW w \in Workers, AddReadyFiber(w) PROVE SameFrames /\ SameWaits
<1>1. PICK f \in Fibers : f = Head(worker[w].drain)
  <2>1. worker[w].drain \in Seq(Fibers) /\ worker[w].drain # <<>>
    BY EmptyHanded, WorkerFields DEF AddReadyFiber
  <2> QED
    BY <2>1
<1>2. \A h \in Fibers : /\ fiber'[h].waiting = fiber[h].waiting
                        /\ fiber'[h].job = fiber[h].job /\ fiber'[h].ip = fiber[h].ip
  <2> DEFINE s == [fiber[f] EXCEPT !.hint = jobCounter]
  <2>1. fiber' = [fiber EXCEPT ![f] = s] /\ fiber \in [Fibers -> FiberRecord] /\ jobCounter \in Nat
    BY <1>1 DEF AddReadyFiber, IInv, Types
  <2>2. s \in FiberRecord /\ SameFrame(fiber[f], s) /\ s.job = fiber[f].job /\ s.ip = fiber[f].ip
    BY <2>1, FiberHint
  <2> HIDE DEF s
  <2>3. fiber'[f] = s /\ \A h \in Fibers : h # f => fiber'[h] = fiber[h]
    BY <2>1, <2>2, OneFiber
  <2> QED
    BY <2>2, <2>3 DEF SameFrame
<1>3. UNCHANGED <<pc, group, job>> /\ pc[w] = "drain"
  BY DEF AddReadyFiber, At
<1>4. \A v \in Workers : v # w => worker'[v] = worker[v]
  BY DEF AddReadyFiber, IInv, Types
<1> QED
  BY <1>2, <1>3, <1>4 DEF SameFrames, SameWaits

-----------------------------------------------------------------------------
(* The frame that carries a job.                                           *)

\* CarriedAt, of any fibers.
AtOf(fs, j) ==
  IF \E f \in Fibers : fs[f].job = j THEN fs[CHOOSE f \in Fibers : fs[f].job = j].ip ELSE 0

\* The fiber that carries a job says where it is.
LEMMA AtOfOne ==
  ASSUME NEW fs, NEW j, NEW f \in Fibers, fs[f].job = j, \A h \in Fibers : fs[h].job = j => h = f
  PROVE  AtOf(fs, j) = fs[f].ip
<1>1. (CHOOSE h \in Fibers : fs[h].job = j) = f
  OBVIOUS
<1> QED
  BY <1>1 DEF AtOf

\* A job that no fiber carries is nowhere.
LEMMA AtOfNone ==
  ASSUME NEW fs, NEW j, \A h \in Fibers : fs[h].job # j PROVE AtOf(fs, j) = 0
BY DEF AtOf

\* A job that is carried as before is where it was.
LEMMA AtOfSame ==
  ASSUME NEW fs, NEW gs, NEW j,
         \A f, h \in Fibers : fs[f].job = j /\ fs[h].job = j => f = h,
         \A f \in Fibers : gs[f].job = j <=> fs[f].job = j,
         \A f \in Fibers : fs[f].job = j => gs[f].ip = fs[f].ip
  PROVE  AtOf(gs, j) = AtOf(fs, j)
<1>1. CASE \E f \in Fibers : fs[f].job = j
  <2>1. PICK f \in Fibers : fs[f].job = j
    BY <1>1
  <2>2. AtOf(fs, j) = fs[f].ip
    BY <2>1, AtOfOne
  <2>3. \A h \in Fibers : gs[h].job = j => h = f
    BY <2>1
  <2>4. AtOf(gs, j) = gs[f].ip
    BY <2>1, <2>3, AtOfOne
  <2> QED
    BY <2>1, <2>2, <2>4
<1>2. CASE \A f \in Fibers : fs[f].job # j
  <2>1. \A f \in Fibers : gs[f].job # j
    BY <1>2
  <2> QED
    BY <1>2, <2>1, AtOfNone
<1> QED
  BY <1>1, <1>2

\* One frame changes, and it is the only one of its job.
LEMMA FrameMoves ==
  ASSUME IInv, NEW c \in Fibers, NEW j \in Jobs,
         fiber[c].job \in {j, None}, fiber'[c].job \in {j, None},
         \A f \in Fibers : f # c =>
           fiber[f].job # j /\ fiber'[f].job = fiber[f].job /\ fiber'[f].ip = fiber[f].ip
  PROVE  /\ CarriedAt(j)' = IF fiber'[c].job = j THEN fiber'[c].ip ELSE 0
         /\ \A k \in Jobs : k # j => CarriedAt(k)' = CarriedAt(k)
<1>1. CarriedAt(j)' = AtOf(fiber', j) /\ \A k \in Jobs : CarriedAt(k) = AtOf(fiber, k) /\ CarriedAt(k)' = AtOf(fiber', k)
  BY DEF CarriedAt, AtOf
<1>2. AtOf(fiber', j) = IF fiber'[c].job = j THEN fiber'[c].ip ELSE 0
  <2>1. CASE fiber'[c].job = j
    <3>1. \A h \in Fibers : fiber'[h].job = j => h = c
      OBVIOUS
    <3> QED
      BY <2>1, <3>1, AtOfOne
  <2>2. CASE fiber'[c].job # j
    <3>1. \A h \in Fibers : fiber'[h].job # j
      BY <2>2
    <3> QED
      BY <2>2, <3>1, AtOfNone
  <2> QED
    BY <2>1, <2>2
<1>3. ASSUME NEW k \in Jobs, k # j PROVE AtOf(fiber', k) = AtOf(fiber, k)
  <2>1. k # None
    BY NoneApart
  <2>2. \A f, h \in Fibers : fiber[f].job = k /\ fiber[h].job = k => f = h
    BY <2>1 DEF IInv, JobsCarried
  <2>3. \A f \in Fibers : fiber'[f].job = k <=> fiber[f].job = k
    BY <1>3, <2>1
  <2>4. \A f \in Fibers : fiber[f].job = k => fiber'[f].ip = fiber[f].ip
    BY <1>3, <2>1
  <2> QED
    BY <2>2, <2>3, <2>4, AtOfSame
<1> QED
  BY <1>1, <1>2, <1>3

\* The fiber of a running job says where the job is.
LEMMA FrameIs ==
  ASSUME IInv, NEW c \in Fibers, NEW j \in Jobs, fiber[c].job = j
  PROVE  /\ job[j].state = "running" /\ CarriedAt(j) = fiber[c].ip
         /\ \A f \in Fibers : f # c => fiber[f].job # j
<1>1. \A h \in Fibers : fiber[h].job = j => h = c
  BY NoneApart DEF IInv, JobsCarried
<1>2. AtOf(fiber, j) = fiber[c].ip
  BY <1>1, AtOfOne
<1>3. job[j].state = "running"
  BY DEF IInv, JobsCarried, Carried
<1> QED
  BY <1>1, <1>2, <1>3 DEF CarriedAt, AtOf

\* What Scheduler sees of the system.
States == [j \in Jobs |-> job[j].state]
Ats == [j \in Jobs |-> CarriedAt(j)]

\* A step that leaves every frame as it is, is none of Scheduler.
LEMMA FramesKept == ASSUME IInv, SameFrames PROVE States' = States /\ Ats' = Ats
<1>1. States' = States
  BY DEF States, SameFrames
<1>2. ASSUME NEW j \in Jobs PROVE CarriedAt(j)' = CarriedAt(j)
  <2>1. \A f, h \in Fibers : fiber[f].job = j /\ fiber[h].job = j => f = h
    BY NoneApart DEF IInv, JobsCarried
  <2>2. AtOf(fiber', j) = AtOf(fiber, j)
    BY <2>1, AtOfSame DEF SameFrames
  <2> QED
    BY <2>2 DEF CarriedAt, AtOf
<1> QED
  BY <1>1, <1>2 DEF Ats

\* A running job goes one operation on.
LEMMA JobAdvances ==
  ASSUME IInv, NEW c \in Fibers, NEW j \in Jobs, fiber[c].job = j,
         fiber'[c].job = j, fiber'[c].ip = fiber[c].ip + 1,
         \A f \in Fibers : f # c => fiber'[f].job = fiber[f].job /\ fiber'[f].ip = fiber[f].ip
  PROVE  /\ States[j] = "running" /\ Ats[j] = fiber[c].ip
         /\ Ats' = [Ats EXCEPT ![j] = @ + 1]
<1>1. /\ job[j].state = "running" /\ CarriedAt(j) = fiber[c].ip
      /\ \A f \in Fibers : f # c => fiber[f].job # j
  BY FrameIs
<1>2. /\ CarriedAt(j)' = IF fiber'[c].job = j THEN fiber'[c].ip ELSE 0
      /\ \A k \in Jobs : k # j => CarriedAt(k)' = CarriedAt(k)
  BY <1>1, FrameMoves
<1>3. Ats' = [k \in Jobs |-> IF k = j THEN Ats[j] + 1 ELSE Ats[k]]
  BY <1>1, <1>2 DEF Ats
<1> QED
  BY <1>1, <1>3 DEF Ats, States

-----------------------------------------------------------------------------
(* The steps a job sees.                                                   *)

\* A job begins that was queued.
LEMMA ChooseJobFollows ==
  ASSUME IInv, NEW w \in Workers, ChooseJob(w)
  PROVE  SameWaits /\ \E j \in Jobs : Abstract!Begin(j)
<1>1. /\ pc[w] = "jobs" /\ Goto(w, "run") /\ UNCHANGED group
      /\ HandsOf(w) /\ worker[w] \in WorkerRecord
  BY EmptyHanded DEF ChooseJob, PutBack, At
<1>2. PICK i \in 1 .. 3, j \in Jobs : i = Earliest("job", worker[w].held) /\ j = worker[w].held[i]
  <2>1. /\ \A i \in 1 .. 3 : worker[w].held[i] \in NodesOf("job") \union {None}
        /\ \E i \in 1 .. 3 : worker[w].held[i] # None
    <3>1. \A i \in 1 .. 3 : worker[w].held[i] \in NodesOf("job") \union {None}
      BY <1>1 DEF HandsOf, NodesOf
    <3>2. worker[w].held # NothingHeld
      BY DEF ChooseJob
    <3> QED
      BY <1>1, <3>1, <3>2, HoldsSomething
  <2> DEFINE d == Earliest("job", worker[w].held)
  <2>2. d \in 1 .. 3 /\ worker[w].held[d] # None
    BY <1>1, <2>1, EarliestHeld DEF IInv
  <2> HIDE DEF d
  <2>3. worker[w].held[d] \in Jobs
    BY <2>1, <2>2 DEF NodesOf
  <2> QED
    BY <2>2, <2>3 DEF d
<1>3. PICK c \in Fibers : c = worker[w].current /\ fiber[c].job = None /\ ~fiber[c].waiting
  BY <1>1, RunsLoop
<1>4. job[j].state = "queued"
  <2>1. <<"held", w, i>> \in HoldersOf(j)
    BY <1>2, HolderIs
  <2> QED
    BY <2>1 DEF IInv, JobsHeld
<1>5. /\ fiber'[c].job = j /\ fiber'[c].ip = 1 /\ fiber'[c].waiting = fiber[c].waiting
      /\ \A f \in Fibers : f # c => fiber'[f] = fiber[f]
  <2> DEFINE x == 1
  <2> DEFINE s == [fiber[c] EXCEPT !.job = j, !.ip = x]
  <2>1. /\ fiber' = [fiber EXCEPT ![c] = s] /\ fiber \in [Fibers -> FiberRecord]
        /\ fiber[c] \in FiberRecord /\ x \in Nat /\ j \in Jobs \union {None}
    BY <1>2, <1>3 DEF ChooseJob, IInv, Types
  <2> HIDE DEF x
  <2>2. s \in FiberRecord /\ SameFrame(fiber[c], s) /\ s.job = j /\ s.ip = x
    BY <2>1 DEF FiberRecord, SameFrame
  <2> HIDE DEF s
  <2>3. fiber'[c] = s /\ \A f \in Fibers : f # c => fiber'[f] = fiber[f]
    BY <2>1, <2>2, OneFiber
  <2> QED
    BY <2>2, <2>3 DEF SameFrame, x
<1>6. job' = [job EXCEPT ![j].state = "running"] /\ job \in [Jobs -> JobRecord]
  BY <1>2 DEF ChooseJob, IInv, Types
<1>7. job'[j].state = "running" /\ \A k \in Jobs : k # j => job'[k] = job[k]
  BY <1>6 DEF JobRecord
<1>8. \A f \in Fibers : fiber[f].job # j
  BY <1>4 DEF IInv, JobsCarried, Carried
<1>9. /\ CarriedAt(j)' = IF fiber'[c].job = j THEN fiber'[c].ip ELSE 0
      /\ \A k \in Jobs : k # j => CarriedAt(k)' = CarriedAt(k)
  BY <1>3, <1>5, <1>8, FrameMoves
<1>10. SameWaits
  <2>1. \A f \in Fibers : fiber'[f].waiting => f # c
    BY <1>3, <1>5
  <2>2. \A v \in Workers : pc'[v] = "signal" => v # w /\ pc[v] = "signal"
    BY <1>1, GotoElsewhere
  <2>3. \A v \in Workers : v # w => worker'[v] = worker[v]
    BY DEF ChooseJob, IInv, Types
  <2> QED
    BY <1>1, <1>4, <1>5, <1>7, <2>1, <2>2, <2>3 DEF SameWaits
<1>11. Abstract!Begin(j)
  <2>1. \A k \in Jobs : job'[k].state = IF k = j THEN "running" ELSE job[k].state
    BY <1>7
  <2>2. \A k \in Jobs : CarriedAt(k)' = IF k = j THEN 1 ELSE CarriedAt(k)
    BY <1>5, <1>9
  <2> QED
    BY <1>4, <2>1, <2>2 DEF Abstract!Begin
<1> QED
  BY <1>10, <1>11

\* A job ends behind its last operation, and its group counts one member less.
LEMMA SignalCompletionFollows ==
  ASSUME IInv, WaitInv, NEW w \in Workers, SignalCompletion(w)
  PROVE  WaitInv' /\ (SameFrames \/ \E j \in Jobs : Abstract!End(j))
<1>1. pc[w] = "run" /\ group \in [Groups -> GroupRecord]
  BY DEF SignalCompletion, At, IInv, Types
<1>2. PICK c \in Fibers, j \in Jobs :
        /\ c = worker[w].current /\ j = Frame(w).job /\ j = fiber[c].job
        /\ fiber[c] \in FiberRecord /\ ~fiber[c].waiting /\ fiber[c].ip > Len(Program[j])
  <2>1. Frame(w).ip > Len(Program[Frame(w).job])
    BY DEF SignalCompletion
  <2> QED
    BY <1>1, <2>1, RunsJob
<1>3. PICK g \in Groups \union {None} : g = CompletionOf[j]
  BY JobSystemAssumption
<1>4. CASE g # None /\ group[g].count < 1
  <2>1. UNCHANGED <<pc, worker, fiber, group, job>>
    BY <1>2, <1>3, <1>4 DEF SignalCompletion, Fail
  <2>2. SameFrames /\ SameWaits
    BY <2>1 DEF SameFrames, SameWaits
  <2> QED
    BY <2>2, WaitsKept
<1>5. CASE ~(g # None /\ group[g].count < 1)
  <2> DEFINE label == IF g # None /\ group[g].count = 1 THEN "signal" ELSE "loop"
  <2>1. /\ job' = [job EXCEPT ![j].state = "done"]
        /\ fiber' = [fiber EXCEPT ![c].job = None, ![c].ip = 0]
        /\ group' = IF g = None THEN group ELSE [group EXCEPT ![g].count = @ - 1]
        /\ worker' = [worker EXCEPT ![w].signaled = g]
        /\ Goto(w, label)
    BY <1>2, <1>3, <1>5 DEF SignalCompletion
  <2> HIDE DEF label
  <2>2. pc'[w] = label /\ \A v \in Workers : v # w => pc'[v] = pc[v]
    BY <2>1, GotoElsewhere
  <2>3. worker'[w].signaled = g /\ \A v \in Workers : v # w => worker'[v] = worker[v]
    <3> DEFINE s == [worker[w] EXCEPT !.signaled = g]
    <3>1. worker' = [worker EXCEPT ![w] = s] /\ worker \in [Workers -> WorkerRecord]
      BY <2>1 DEF IInv, Types
    <3>2. s \in WorkerRecord /\ s.signaled = g
      BY <3>1, WorkerSignaled
    <3> HIDE DEF s
    <3> QED
      BY <3>1, <3>2, OneWorker
  <2>4. /\ fiber'[c].job = None /\ fiber'[c].waiting = fiber[c].waiting
        /\ \A f \in Fibers : f # c => fiber'[f] = fiber[f]
    <3> DEFINE s == [fiber[c] EXCEPT !.job = None, !.ip = 0]
    <3>1. fiber' = [fiber EXCEPT ![c] = s] /\ fiber \in [Fibers -> FiberRecord]
      BY <2>1 DEF IInv, Types
    <3>2. s \in FiberRecord /\ SameFrame(fiber[c], s) /\ s.job = None
      <4>1. 0 \in Nat /\ None \in Jobs \union {None}
        OBVIOUS
      <4> QED
        BY <1>2, <4>1 DEF FiberRecord, SameFrame
    <3> HIDE DEF s
    <3> QED
      BY <3>1, <3>2, OneFiber DEF SameFrame
  <2>5. job'[j].state = "done" /\ \A k \in Jobs : k # j => job'[k] = job[k]
    BY <2>1 DEF IInv, Types, JobRecord
  <2>6. /\ job[j].state = "running" /\ CarriedAt(j) = fiber[c].ip
        /\ \A f \in Fibers : f # c => fiber[f].job # j
    BY <1>2, FrameIs
  <2>7. /\ \A h \in Groups : h # g => group'[h] = group[h]
        /\ \A h \in Groups : group'[h].list = group[h].list
        /\ g \in Groups => group[g].count \in Nat \ {0} /\ group'[g].count = group[g].count - 1
    <3>1. CASE g = None
      BY <2>1, <3>1, NoneApart
    <3>2. CASE g # None
      <4>1. g \in Groups /\ group[g] \in GroupRecord
        BY <1>1, <3>2
      <4>2. group[g].count \in Nat \ {0}
        BY <1>5, <3>2, <4>1 DEF GroupRecord
      <4>3. group' = [group EXCEPT ![g].count = group[g].count - 1]
        BY <2>1, <3>2
      <4> QED
        BY <1>1, <4>1, <4>2, <4>3 DEF GroupRecord
    <3> QED
      BY <3>1, <3>2
  <2>8. GroupsCount'
    <3> SUFFICES ASSUME NEW h \in Groups PROVE group'[h].count = Cardinality(Unfinished(h)')
      BY DEF GroupsCount
    <3>1. group[h].count = Cardinality(Unfinished(h))
      BY DEF WaitInv, GroupsCount
    <3>2. CASE h # g
      <4>1. Unfinished(h)' = Unfinished(h)
        BY <1>3, <2>5, <3>2 DEF Unfinished
      <4> QED
        BY <2>7, <3>1, <3>2, <4>1
    <3>3. CASE h = g
      <4>1. Unfinished(h)' = Unfinished(h) \ {j} /\ j \in Unfinished(h)
        BY <1>3, <2>5, <2>6, <3>3 DEF Unfinished
      <4>2. IsFiniteSet(Unfinished(h))
        BY WorkloadAssumption, FS_Subset DEF Unfinished
      <4>3. Cardinality(Unfinished(h) \ {j}) = Cardinality(Unfinished(h)) - 1
        BY <4>1, <4>2, FS_RemoveElement
      <4> QED
        BY <2>7, <3>1, <3>3, <4>1, <4>3
    <3> QED
      BY <3>2, <3>3
  <2>9. \A h \in Groups : group[h].count = 0 => group'[h].count = 0
    BY <2>7
  <2>10. Waits'
    <3> SUFFICES ASSUME NEW f \in Fibers, fiber'[f].waiting
                 PROVE  \E h \in Groups : WaitsFor(f, h)' /\ (f \in ElementsOf(group'[h].list) \/ group'[h].count = 0)
      BY DEF Waits
    <3>1. f # c /\ fiber'[f] = fiber[f]
      BY <1>2, <2>4
    <3>2. PICK h \in Groups : WaitsFor(f, h) /\ (f \in ElementsOf(group[h].list) \/ group[h].count = 0)
      BY <3>1 DEF WaitInv, Waits
    <3>3. WaitsFor(f, h)'
      BY <3>1, <3>2 DEF WaitsFor
    <3> QED
      BY <2>7, <2>9, <3>2, <3>3
  <2>11. SignalsAtZero'
    <3> SUFFICES ASSUME NEW v \in Workers, pc'[v] = "signal" PROVE group'[worker'[v].signaled].count = 0
      BY DEF SignalsAtZero
    <3>1. CASE v = w
      <4>1. g \in Groups /\ group[g].count = 1
        BY <2>2, <3>1 DEF label
      <4> QED
        BY <2>3, <2>7, <3>1, <4>1
    <3>2. CASE v # w
      <4>1. pc[v] = "signal" /\ worker'[v] = worker[v]
        BY <2>2, <2>3, <3>2
      <4>2. group[worker[v].signaled].count = 0 /\ worker[v].signaled \in Groups
        BY <4>1, EmptyHanded DEF WaitInv, SignalsAtZero, HandsOf
      <4> QED
        BY <2>9, <4>1, <4>2
    <3> QED
      BY <3>1, <3>2
  <2>12. /\ CarriedAt(j)' = IF fiber'[c].job = j THEN fiber'[c].ip ELSE 0
         /\ \A k \in Jobs : k # j => CarriedAt(k)' = CarriedAt(k)
    BY <1>2, <2>4, <2>6, FrameMoves
  <2>13. Abstract!End(j)
    <3>1. \A k \in Jobs : job'[k].state = IF k = j THEN "done" ELSE job[k].state
      BY <2>5
    <3>2. \A k \in Jobs : CarriedAt(k)' = IF k = j THEN 0 ELSE CarriedAt(k)
      BY <2>4, <2>12, NoneApart
    <3> QED
      BY <1>2, <2>6, <3>1, <3>2 DEF Abstract!End
  <2> QED
    BY <2>8, <2>10, <2>11, <2>13 DEF WaitInv
<1> QED
  BY <1>4, <1>5

\* The steps of a job that do not park it.
LEMMA AdvanceFollows ==
  ASSUME IInv, NEW w \in Workers, pc[w] = "run", Advance(w), NEW j \in Jobs, j = Frame(w).job
  PROVE  /\ \A f \in Fibers : fiber'[f].waiting => fiber[f].waiting /\ fiber'[f] = fiber[f]
         /\ States[j] = "running" /\ Ats[j] = Frame(w).ip
         /\ Ats' = [Ats EXCEPT ![j] = @ + 1]
<1>1. PICK c \in Fibers : c = worker[w].current /\ fiber[c].job = j /\ Frame(w) = fiber[c] /\ ~fiber[c].waiting
  BY RunsJob
<1>2. /\ \A f \in Fibers : SameFrame(fiber[f], fiber'[f]) /\ fiber'[f].job = fiber[f].job
      /\ fiber'[c].ip = fiber[c].ip + 1
      /\ \A f \in Fibers : f # c => fiber'[f] = fiber[f]
  BY <1>1, Advances
<1>3. \A f \in Fibers : fiber'[f].waiting => fiber[f].waiting /\ fiber'[f] = fiber[f]
  BY <1>1, <1>2 DEF SameFrame
<1>4. /\ States[j] = "running" /\ Ats[j] = fiber[c].ip
      /\ Ats' = [Ats EXCEPT ![j] = @ + 1]
  BY <1>1, <1>2, JobAdvances
<1> QED
  BY <1>1, <1>3, <1>4

\* What the abstract operation of job j is.
LEMMA OperateIs ==
  ASSUME NEW j \in Jobs, States[j] = "running", Ats[j] <= Len(Program[j]),
         Ats' = [Ats EXCEPT ![j] = @ + 1],
         LET o == Program[j][Ats[j]] IN
         \/ o.op = "schedule" /\ States' = [States EXCEPT ![o.job] = "queued"]
         \/ o.op = "wait" /\ (\A k \in Jobs : CompletionOf[k] = o.group => States[k] = "done") /\ UNCHANGED States
         \/ o.op = "stop" /\ UNCHANGED States
  PROVE  Abstract!Operate(j)
BY DEF Abstract!Operate, Abstract!Members, States, Ats

\* Stop is an operation of the job.
LEMMA StopFollows ==
  ASSUME IInv, NEW w \in Workers, Stop(w)
  PROVE  SameWaits /\ \E j \in Jobs : Abstract!Operate(j)
<1>1. Executes(w, "stop") /\ Advance(w) /\ UNCHANGED <<pc, worker, group, job>>
  BY DEF Stop
<1>2. pc[w] = "run" /\ Operation(w).op = "stop" /\ Frame(w).ip <= Len(Program[Frame(w).job])
  BY <1>1 DEF Executes, At, Operation
<1>3. PICK j \in Jobs : j = Frame(w).job
  BY <1>2, RunsJob
<1>4. /\ \A f \in Fibers : fiber'[f].waiting => fiber[f].waiting /\ fiber'[f] = fiber[f]
      /\ States[j] = "running" /\ Ats[j] = Frame(w).ip
      /\ Ats' = [Ats EXCEPT ![j] = @ + 1]
  BY <1>1, <1>2, <1>3, AdvanceFollows
<1>5. SameWaits
  BY <1>1, <1>4 DEF SameWaits
<1>6. Program[j][Ats[j]].op = "stop" /\ Ats[j] <= Len(Program[j]) /\ UNCHANGED States
  BY <1>1, <1>2, <1>3, <1>4 DEF Operation, States
<1>7. Abstract!Operate(j)
  BY <1>4, <1>6, OperateIs
<1> QED
  BY <1>5, <1>7

\* A Wait() that need not wait is an operation of the job.
LEMMA WaitSignaledFollows ==
  ASSUME IInv, WaitInv, NEW w \in Workers, WaitSignaled(w)
  PROVE  SameWaits /\ \E j \in Jobs : Abstract!Operate(j)
<1>1. /\ Executes(w, "wait") /\ Advance(w) /\ UNCHANGED <<pc, worker, group, job>>
      /\ group[Operation(w).group].count = 0
  BY DEF WaitSignaled, IsSignaled
<1>2. /\ pc[w] = "run" /\ Operation(w).op = "wait" /\ Frame(w).ip <= Len(Program[Frame(w).job])
      /\ Operation(w).group \in Groups
  <2>1. Frame(w).ip <= Len(Program[Frame(w).job])
    BY <1>1 DEF Executes
  <2> QED
    BY <1>1, <2>1, OperationIs
<1>3. PICK j \in Jobs : j = Frame(w).job
  BY <1>2, RunsJob
<1>4. /\ \A f \in Fibers : fiber'[f].waiting => fiber[f].waiting /\ fiber'[f] = fiber[f]
      /\ States[j] = "running" /\ Ats[j] = Frame(w).ip
      /\ Ats' = [Ats EXCEPT ![j] = @ + 1]
  BY <1>1, <1>2, <1>3, AdvanceFollows
<1>5. SameWaits
  BY <1>1, <1>4 DEF SameWaits
<1>6. Program[j][Ats[j]] = Operation(w) /\ Ats[j] <= Len(Program[j]) /\ UNCHANGED States
  BY <1>1, <1>2, <1>3, <1>4 DEF Operation, States
<1>7. \A k \in Jobs : CompletionOf[k] = Operation(w).group => States[k] = "done"
  BY <1>1, <1>2, NoneUnfinished DEF WaitInv, States
<1>8. Abstract!Operate(j)
  BY <1>2, <1>4, <1>6, <1>7, OperateIs
<1> QED
  BY <1>5, <1>8

\* Schedule is an operation of the job, and queues a job that was new.
LEMMA ScheduleFollows ==
  ASSUME IInv, NEW w \in Workers, Schedule(w)
  PROVE  SameWaits /\ \E j \in Jobs : Abstract!Operate(j)
<1>1. Executes(w, "schedule") /\ Advance(w) /\ UNCHANGED <<pc, worker, group>>
  BY DEF Schedule
<1>2. /\ pc[w] = "run" /\ Operation(w).op = "schedule" /\ Frame(w).ip <= Len(Program[Frame(w).job])
      /\ Operation(w).job \in Jobs
  <2>1. Frame(w).ip <= Len(Program[Frame(w).job])
    BY <1>1 DEF Executes
  <2> QED
    BY <1>1, <2>1, OperationIs
<1>3. PICK j \in Jobs, k \in Jobs : j = Frame(w).job /\ k = Operation(w).job
  BY <1>2, RunsJob
<1>4. /\ \A f \in Fibers : fiber'[f].waiting => fiber[f].waiting /\ fiber'[f] = fiber[f]
      /\ States[j] = "running" /\ Ats[j] = Frame(w).ip
      /\ Ats' = [Ats EXCEPT ![j] = @ + 1]
  BY <1>1, <1>2, <1>3, AdvanceFollows
<1>5. job[k].state = "new"
  BY <1>1, <1>3, ScheduledIsNew
<1>6. job'[k].state = "queued" /\ \A h \in Jobs : h # k => job'[h] = job[h]
  <2> DEFINE a == IF AffinityOf[k] = "self" THEN w ELSE AffinityOf[k]
  <2>1. job' = [job EXCEPT ![k] = [state |-> "queued", hint |-> jobCounter, affinity |-> a]]
        /\ job \in [Jobs -> JobRecord]
    BY <1>3 DEF Schedule, IInv, Types
  <2> HIDE DEF a
  <2> QED
    BY <2>1
<1>7. SameWaits
  BY <1>1, <1>4, <1>5, <1>6 DEF SameWaits
<1>8. Program[j][Ats[j]] = Operation(w) /\ Ats[j] <= Len(Program[j])
  BY <1>2, <1>3, <1>4 DEF Operation
<1>9. States' = [States EXCEPT ![k] = "queued"]
  <2>1. \A h \in Jobs : job'[h].state = IF h = k THEN "queued" ELSE job[h].state
    BY <1>6
  <2> QED
    BY <2>1 DEF States
<1>10. Abstract!Operate(j)
  BY <1>2, <1>3, <1>4, <1>8, <1>9, OperateIs
<1> QED
  BY <1>7, <1>10

\* A Wait() that has to wait is no operation yet.
LEMMA WaitPublishFollows ==
  ASSUME IInv, WaitInv, NEW w \in Workers, WaitPublish(w) PROVE WaitInv' /\ SameFrames
<1>1. /\ pc[w] = "run" /\ Goto(w, "park") /\ Operation(w).group \in Groups
      /\ Operation(w).op = "wait" /\ Frame(w).ip \in DOMAIN Program[Frame(w).job]
      /\ UNCHANGED <<worker, job>>
  BY OperationIs DEF WaitPublish
<1>2. PICK c \in Fibers, g \in Groups :
        /\ c = worker[w].current /\ g = Operation(w).group /\ Frame(w) = fiber[c]
        /\ ~fiber[c].waiting
  BY <1>1, RunsJob
<1>3. /\ fiber'[c].job = fiber[c].job /\ fiber'[c].ip = fiber[c].ip
      /\ \A f \in Fibers : f # c => fiber'[f] = fiber[f]
  <2> DEFINE a == worker[w].affinity
  <2> DEFINE p == worker[w].level
  <2>1. a \in Affinities \union {"none"} /\ p \in Priorities
    BY EmptyHanded, WorkerFields
  <2> DEFINE s == [fiber[c] EXCEPT !.waiting = TRUE, !.resume = "wait", !.affinity = a, !.priority = p]
  <2>2. fiber' = [fiber EXCEPT ![c] = s] /\ fiber \in [Fibers -> FiberRecord] /\ fiber[c] \in FiberRecord
    BY <1>2 DEF WaitPublish, IInv, Types
  <2> HIDE DEF a, p
  <2>3. s \in FiberRecord /\ s.job = fiber[c].job /\ s.ip = fiber[c].ip
    BY <2>1, <2>2 DEF FiberRecord
  <2> HIDE DEF s
  <2> QED
    BY <2>2, <2>3, OneFiber
<1>4. SameFrames
  BY <1>1, <1>3 DEF SameFrames
<1>5. /\ \A h \in Groups : group'[h].count = group[h].count
      /\ \A h \in Groups : ElementsOf(group[h].list) \subseteq ElementsOf(group'[h].list)
      /\ c \in ElementsOf(group'[g].list)
  <2> DEFINE l == Append(group[g].list, c)
  <2>1. group' = [group EXCEPT ![g].list = l] /\ group \in [Groups -> GroupRecord]
    BY <1>2 DEF WaitPublish, Published, IInv, Types
  <2>2. group[g].list \in Seq(Fibers)
    BY <2>1 DEF GroupRecord
  <2>3. ElementsOf(l) = ElementsOf(group[g].list) \union {c}
    BY <2>2, AppendElements
  <2> HIDE DEF l
  <2>4. /\ group'[g].list = l /\ group'[g].count = group[g].count
        /\ \A h \in Groups : h # g => group'[h] = group[h]
    BY <2>1 DEF GroupRecord
  <2> QED
    BY <2>3, <2>4
<1>6. GroupsCount'
  BY <1>1, <1>5, CountsKept DEF WaitInv
<1>7. Waits'
  <2> SUFFICES ASSUME NEW f \in Fibers, fiber'[f].waiting
               PROVE  \E h \in Groups : WaitsFor(f, h)' /\ (f \in ElementsOf(group'[h].list) \/ group'[h].count = 0)
    BY DEF Waits
  <2>1. CASE f = c
    <3>1. WaitsFor(f, g)'
      BY <1>1, <1>2, <1>3, <2>1 DEF WaitsFor, Operation
    <3> QED
      BY <1>5, <2>1, <3>1
  <2>2. CASE f # c
    <3>1. PICK h \in Groups : WaitsFor(f, h) /\ (f \in ElementsOf(group[h].list) \/ group[h].count = 0)
      BY <1>3, <2>2 DEF WaitInv, Waits
    <3>2. WaitsFor(f, h)'
      BY <1>3, <2>2, <3>1 DEF WaitsFor
    <3> QED
      BY <1>5, <3>1, <3>2
  <2> QED
    BY <2>1, <2>2
<1>8. SignalsAtZero'
  <2> SUFFICES ASSUME NEW v \in Workers, pc'[v] = "signal" PROVE group'[worker'[v].signaled].count = 0
    BY DEF SignalsAtZero
  <2>1. pc[v] = "signal" /\ worker'[v] = worker[v]
    BY <1>1, GotoElsewhere
  <2>2. group[worker[v].signaled].count = 0 /\ worker[v].signaled \in Groups
    BY <2>1, EmptyHanded DEF WaitInv, SignalsAtZero, HandsOf
  <2> QED
    BY <1>5, <2>1, <2>2
<1> QED
  BY <1>4, <1>6, <1>7, <1>8 DEF WaitInv

\* The resumed fiber goes on behind its Wait(), and its group has counted down.
LEMMA CleanUpMarkFollows ==
  ASSUME IInv, WaitInv, NEW w \in Workers, CleanUpMark(w)
  PROVE  SameWaits /\ (SameFrames \/ \E j \in Jobs : Abstract!Operate(j))
<1>1. pc[w] = "mark" /\ fiber \in [Fibers -> FiberRecord]
  BY DEF CleanUpMark, At, IInv, Types
<1>2. PICK c \in Fibers : c = worker[w].current
  BY <1>1, SwitchingHasFiber DEF Switching, IInv
<1>3. CASE worker[w].lastWait # None /\ ~fiber[worker[w].lastWait].waiting
  <2>1. UNCHANGED <<pc, worker, fiber, group, job>>
    BY <1>3 DEF CleanUpMark, Fail
  <2> QED
    BY <2>1 DEF SameFrames, SameWaits
<1>4. CASE ~(worker[w].lastWait # None /\ ~fiber[worker[w].lastWait].waiting)
  <2>1. /\ fiber' = [f \in Fibers |->
                IF f = c /\ fiber[c].resume = "wait"
                THEN [fiber[c] EXCEPT !.waiting = FALSE, !.ip = @ + 1]
                ELSE IF ReturnsFiber(worker[w], f) THEN [fiber[f] EXCEPT !.free = TRUE] ELSE fiber[f]]
        /\ Goto(w, IF fiber[c].resume = "wait" THEN "run" ELSE "loop")
        /\ UNCHANGED <<group, job>>
    BY <1>2, <1>4 DEF CleanUpMark
  <2>2. \A v \in Workers : v # w => worker'[v] = worker[v]
    BY <1>4 DEF CleanUpMark, IInv, Types
  <2>3. ASSUME NEW f \in Fibers, ~(f = c /\ fiber[c].resume = "wait")
        PROVE  /\ fiber'[f].waiting = fiber[f].waiting
               /\ fiber'[f].job = fiber[f].job /\ fiber'[f].ip = fiber[f].ip
    <3>1. fiber'[f] \in {[fiber[f] EXCEPT !.free = TRUE], fiber[f]}
      BY <2>1, <2>3
    <3> QED
      BY <1>1, <3>1 DEF FiberRecord
  <2>4. \A v \in Workers : pc'[v] = "signal" => v # w /\ pc[v] = "signal"
    BY <2>1, GotoElsewhere
  <2>5. CASE fiber[c].resume # "wait"
    <3>1. SameFrames
      BY <2>1, <2>3, <2>5 DEF SameFrames
    <3>2. SameWaits
      BY <2>1, <2>2, <2>3, <2>4, <2>5 DEF SameWaits
    <3> QED
      BY <3>1, <3>2
  <2>6. CASE fiber[c].resume = "wait"
    <3>1. /\ fiber'[c].job = fiber[c].job /\ fiber'[c].ip = fiber[c].ip + 1 /\ ~fiber'[c].waiting
      BY <1>1, <2>1, <2>6, FiberAwake
    <3>2. SameWaits
      BY <2>1, <2>2, <2>3, <2>4, <3>1 DEF SameWaits
    <3>3. fiber[c].waiting
      BY <1>1, <1>2, <2>6, NoneApart DEF IInv, RunningFibers, Switching
    <3>4. PICK j \in Jobs : j = fiber[c].job
      <4>1. fiber[c].job # None /\ fiber[c].job \in Jobs \union {None}
        BY <1>1, <3>3, FiberFields DEF IInv, FramesOfJobs
      <4> QED
        BY <4>1
    <3>5. PICK g \in Groups : WaitsFor(c, g) /\ (c \in ElementsOf(group[g].list) \/ group[g].count = 0)
      BY <3>3 DEF WaitInv, Waits
    <3>6. group[g].count = 0
      <4>1. w \in Resuming(c)
        BY <1>1, <1>2 DEF Resuming
      <4>2. <<"list", g>> \notin HoldersOf(c)
        BY <4>1 DEF IInv, WaitingFibers
      <4>3. c \notin ElementsOf(group[g].list)
        BY <4>2, HolderIs
      <4> QED
        BY <3>5, <4>3
    <3>7. /\ States[j] = "running" /\ Ats[j] = fiber[c].ip
          /\ Ats' = [Ats EXCEPT ![j] = @ + 1]
      BY <2>3, <3>1, <3>4, JobAdvances
    <3>8. \A k \in Jobs : CompletionOf[k] = g => States[k] = "done"
      BY <3>6, NoneUnfinished DEF WaitInv, States
    <3>9. /\ Program[j][Ats[j]].op = "wait" /\ Program[j][Ats[j]].group = g
          /\ Ats[j] <= Len(Program[j])
      <4>1. Program[j] \in Seq(Operations)
        BY JobSystemAssumption
      <4> QED
        BY <3>4, <3>5, <3>7, <4>1 DEF WaitsFor
    <3>10. UNCHANGED States
      BY <2>1 DEF States
    <3>11. Abstract!Operate(j)
      BY <3>7, <3>8, <3>9, <3>10, OperateIs
    <3> QED
      BY <3>2, <3>11
  <2> QED
    BY <2>5, <2>6
<1> QED
  BY <1>3, <1>4

\* Every step is one of Scheduler or none.
LEMMA StepFollows ==
  ASSUME IInv, WaitInv, [Next]_vars
  PROVE  WaitInv' /\ (SameFrames \/ Abstract!Next)
<1>1. CASE Ended \/ UNCHANGED vars
  <2>1. UNCHANGED <<pc, worker, fiber, group, job>>
    BY <1>1 DEF Ended, vars
  <2>2. SameFrames /\ SameWaits
    BY <2>1 DEF SameFrames, SameWaits
  <2> QED
    BY <2>2, WaitsKept
<1>2. ASSUME NEW w \in Workers, Step(w) PROVE WaitInv' /\ (SameFrames \/ Abstract!Next)
  <2>1. CASE Start(w) \/ ThreadProc(w) \/ SwitchFromWaitingFiber(w) \/ ResumeFiber(w)
    BY <2>1, ThreadFrames, WaitsKept
  <2>2. CASE \/ LoopHead(w) \/ LockConsumers(w) \/ LookForFiber(w) \/ NoFiber(w)
             \/ LookForJob(w) \/ NoJob(w) \/ ChooseFiber(w) \/ SignalDone(w)
    BY <2>2, LoopFrames, WaitsKept
  <2>3. CASE CleanUpUpdate(w)
    BY <2>3, CleanUpUpdateFrames, WaitsKept
  <2>4. CASE SignalImpl(w)
    BY <2>4, SignalImplFrames, WaitsKept
  <2>5. CASE AddReadyFiber(w)
    BY <2>5, AddReadyFiberFrames, WaitsKept
  <2>6. CASE CleanUpMark(w)
    BY <2>6, CleanUpMarkFollows, WaitsKept DEF Abstract!Next
  <2>7. CASE ChooseJob(w)
    BY <2>7, ChooseJobFollows, WaitsKept DEF Abstract!Next
  <2>8. CASE Schedule(w)
    BY <2>8, ScheduleFollows, WaitsKept DEF Abstract!Next
  <2>9. CASE Stop(w)
    BY <2>9, StopFollows, WaitsKept DEF Abstract!Next
  <2>10. CASE WaitSignaled(w)
    BY <2>10, WaitSignaledFollows, WaitsKept DEF Abstract!Next
  <2>11. CASE WaitPublish(w)
    BY <2>11, WaitPublishFollows
  <2>12. CASE SignalCompletion(w)
    BY <2>12, SignalCompletionFollows DEF Abstract!Next
  <2> QED
    BY <1>2, <2>1, <2>2, <2>3, <2>4, <2>5, <2>6, <2>7, <2>8, <2>9, <2>10, <2>11, <2>12 DEF Step
<1> QED
  BY <1>1, <1>2 DEF Next

\* Each group counts its members that have not ended, and a fiber that waits is
\* in its group's list until the group has counted down.
THEOREM JobSystemWaits == Spec => []WaitInv
<1>1. Init => WaitInv
  BY WaitInit
<1>2. IInv /\ WaitInv /\ [Next]_vars => WaitInv'
  BY StepFollows
<1> QED
  BY <1>1, <1>2, JobSystemInvariant, PTL DEF Spec

\* The system implements Scheduler: a job begins once, does its operations in
\* order and ends once, and the code behind a Wait() runs only when every job of
\* the group is done, whatever worker or fiber the job is on.
THEOREM JobSystemImplementsScheduler == Spec => ImplementsScheduler
<1>1. Init => Abstract!Init
  <2> SUFFICES ASSUME Init PROVE Abstract!Init
    OBVIOUS
  <2>1. \A j \in Jobs : job[j].state = IF j = RootJob THEN "queued" ELSE "new"
    BY DEF Init
  <2>2. \A j \in Jobs : CarriedAt(j) = 0
    <3>1. \A f \in Fibers : fiber[f].job = None
      BY DEF Init
    <3> QED
      BY <3>1, NoneApart DEF CarriedAt
  <2> QED
    BY <2>1, <2>2 DEF Abstract!Init
<1>2. IInv /\ WaitInv /\ [Next]_vars => [Abstract!Next]_<<States, Ats>>
  BY StepFollows, FramesKept
<1> QED
  BY <1>1, <1>2, JobSystemInvariant, JobSystemWaits, PTL DEF Spec, ImplementsScheduler, Abstract!Spec, States, Ats

-----------------------------------------------------------------------------
(* Where jobs run.                                                         *)

\* The mask that stands for an affinity: that of a worker is 1 << its index.
Mask(a) == IF a \in Workers THEN ShiftOf[a] ELSE a

\* The affinities a worker satisfies.
MayRun(w) == {"all", PoolOf[w], w}

\* The affinity of a node: what a job asks for, what a waiting fiber ran with.
Asks(kind, n) == IF kind = "job" THEN job[n].affinity ELSE fiber[n].affinity

\* A node is in the queue its affinity names.
QueuesAgree ==
  \A q \in QueueIds : \A n \in ElementsOf(queues[q].items) : OwnerOf(Asks(q[1], n)) = q[3]

\* Where a worker has taken nodes of a kind.
TakenAt(kind) == IF kind = "job" THEN "jobs" ELSE "fibers"

\* What the jobs ask for that are in the queues a worker looks at.
QueueAsks(w, i) == CASE i = 1 -> w [] i = 2 -> "all" [] i = 3 -> PoolOf[w]

\* What a worker took has the affinity of the queue it came from.
HandsAgree(w) ==
  /\ \A kind \in {"job", "fiber"} : pc[w] = TakenAt(kind) =>
       \A i \in 1 .. 3 : worker[w].held[i] # None => Asks(kind, worker[w].held[i]) = QueueAsks(w, i)
  /\ pc[w] = "switch" => fiber[worker[w].held[1]].affinity \in MayRun(w)

\* A job of affinity a may be carried on by a worker: one it asks for, or after a
\* wait the one whose mask stands for a background worker it asks for.
MayCarry(a, w, j, ip) ==
  \/ a \in MayRun(w)
  \/ a \in Workers /\ PoolOf[a] = "background" /\ w = ShiftOf[a] /\ Waited(j, ip)

\* A worker has the mask of the job it runs, and the affinity of the fiber it
\* resumes.
RunsAgree(w) ==
  /\ pc[w] = "run" => /\ worker[w].affinity = Mask(job[Frame(w).job].affinity)
                      /\ MayCarry(job[Frame(w).job].affinity, w, Frame(w).job, Frame(w).ip)
  /\ Switching(w) /\ Frame(w).waiting
       => worker[w].affinity \in MayRun(w) /\ Frame(w).affinity = worker[w].affinity

\* A fiber waits with the mask of its job.
WaitsAgree(f) == fiber[f].waiting => fiber[f].affinity = Mask(job[fiber[f].job].affinity)

AffinityInv ==
  /\ QueuesAgree
  /\ \A w \in Workers : HandsAgree(w) /\ RunsAgree(w)
  /\ \A f \in Fibers : WaitsAgree(f)

\* What a step of worker w leaves to the others: their hands, their fibers, the
\* affinity of every fiber that waits and of every job that was scheduled.
LeavesOthers(w) ==
  /\ \A v \in Workers : v # w => worker'[v] = worker[v] /\ pc'[v] = pc[v]
  /\ \A f \in Fibers : f # worker[w].current =>
       /\ fiber'[f].waiting = fiber[f].waiting /\ fiber'[f].job = fiber[f].job
       /\ fiber'[f].affinity = fiber[f].affinity /\ fiber'[f].ip = fiber[f].ip
  /\ \A f \in Fibers : fiber[f].waiting => fiber'[f].affinity = fiber[f].affinity
  /\ \A j \in Jobs : job[j].state # "new" => job'[j].affinity = job[j].affinity

\* A node somebody holds keeps its affinity, which names a queue.
LEMMA HeldAsks ==
  ASSUME IInv, NEW kind \in {"job", "fiber"}, NEW n \in NodesOf(kind), HoldersOf(n) # {}
  PROVE  /\ kind = "job" => job[n].state = "queued"
         /\ kind = "fiber" => fiber[n].waiting
         /\ Asks(kind, n) \in Affinities \union {"none"}
<1>1. CASE kind = "job"
  BY <1>1 DEF IInv, JobsHeld, NodesOf, Asks, Types, JobRecord
<1>2. CASE kind = "fiber"
  <2>1. n \in Fibers /\ fiber[n] \in FiberRecord
    BY <1>2 DEF IInv, Types, NodesOf
  <2> QED
    BY <1>2, <2>1, FiberFields DEF IInv, WaitingFibers, Asks
<1> QED
  BY <1>1, <1>2

\* So it does in a step that leaves the others alone.
LEMMA HeldAsksKept ==
  ASSUME IInv, NEW w \in Workers, LeavesOthers(w),
         NEW kind \in {"job", "fiber"}, NEW n \in NodesOf(kind), HoldersOf(n) # {}
  PROVE  Asks(kind, n)' = Asks(kind, n)
<1>1. CASE kind = "job"
  <2>1. n \in Jobs /\ job[n].state # "new"
    BY <1>1, HeldAsks DEF NodesOf
  <2> QED
    BY <1>1, <2>1 DEF LeavesOthers, Asks
<1>2. CASE kind = "fiber"
  <2>1. n \in Fibers /\ fiber[n].waiting
    BY <1>2, HeldAsks DEF NodesOf
  <2> QED
    BY <1>2, <2>1 DEF LeavesOthers, Asks
<1> QED
  BY <1>1, <1>2

\* A queue whose nodes were in it before still agrees with them.
LEMMA QueueKept ==
  ASSUME IInv, QueuesAgree, NEW w \in Workers, LeavesOthers(w), NEW q \in QueueIds,
         NEW n \in ElementsOf(queues[q].items)
  PROVE  OwnerOf(Asks(q[1], n)') = q[3]
<1>1. n \in NodesOf(q[1]) /\ q[1] \in {"job", "fiber"}
  <2>1. queues[q].items \in Seq(NodesOf(q[1])) /\ q[1] \in {"job", "fiber"}
    BY DEF IInv, Types, QueueIds
  <2> QED
    BY <2>1 DEF ElementsOf
<1>2. HoldersOf(n) # {}
  <2>1. <<"queue", q>> \in HoldersOf(n)
    BY HolderIs
  <2> QED
    BY <2>1
<1>3. Asks(q[1], n)' = Asks(q[1], n)
  BY <1>1, <1>2, HeldAsksKept
<1> QED
  BY <1>3 DEF QueuesAgree

\* The other workers agree with what they hold and with what they run.
LEMMA OthersAgree ==
  ASSUME IInv, AffinityInv, NEW w \in Workers, LeavesOthers(w), NEW v \in Workers, v # w
  PROVE  HandsAgree(v)' /\ RunsAgree(v)'
<1>1. worker'[v] = worker[v] /\ pc'[v] = pc[v] /\ HandsAgree(v) /\ RunsAgree(v)
  BY DEF LeavesOthers, AffinityInv
<1>2. worker[v] \in WorkerRecord /\ HandsOf(v) /\ Types
  BY EmptyHanded
<1>3. ASSUME NEW kind \in {"job", "fiber"}, pc[v] = TakenAt(kind), NEW i \in 1 .. 3, worker[v].held[i] # None
      PROVE  Asks(kind, worker[v].held[i])' = QueueAsks(v, i)
  <2> DEFINE n == worker[v].held[i]
  <2>1. n \in NodesOf(kind)
    BY <1>2, <1>3 DEF HandsOf, TakenAt, NodesOf
  <2>2. <<"held", v, i>> \in HoldersOf(n)
    BY HolderIs
  <2>3. Asks(kind, n) = QueueAsks(v, i)
    BY <1>1, <1>3 DEF HandsAgree
  <2>4. PICK m \in NodesOf(kind) : m = n
    BY <2>1
  <2>5. Asks(kind, m)' = Asks(kind, m)
    BY <2>2, <2>4, HeldAsksKept
  <2> QED
    BY <1>1, <2>3, <2>4, <2>5 DEF Asks
<1>4. ASSUME pc[v] = "switch" PROVE fiber'[worker[v].held[1]].affinity \in MayRun(v)
  <2> DEFINE n == worker[v].held[1]
  <2>1. n \in Fibers
    BY <1>2, <1>4 DEF HandsOf
  <2>2. <<"held", v, 1>> \in HoldersOf(n)
    <3>1. 1 \in 1 .. 3
      OBVIOUS
    <3> QED
      BY <3>1, HolderIs
  <2>3. fiber[n].waiting
    BY <2>1, <2>2 DEF IInv, WaitingFibers
  <2> QED
    BY <1>1, <1>4, <2>1, <2>3 DEF LeavesOthers, HandsAgree
<1>5. HandsAgree(v)'
  <2>1. \A kind \in {"job", "fiber"} : TakenAt(kind)' = TakenAt(kind)
    BY DEF TakenAt
  <2> QED
    BY <1>1, <1>3, <1>4 DEF HandsAgree, TakenAt, MayRun, QueueAsks
<1>6. ASSUME worker[v].current \in Fibers
      PROVE  /\ fiber'[worker[v].current].job = fiber[worker[v].current].job
             /\ fiber'[worker[v].current].waiting = fiber[worker[v].current].waiting
             /\ fiber'[worker[v].current].affinity = fiber[worker[v].current].affinity
             /\ fiber'[worker[v].current].ip = fiber[worker[v].current].ip
  <2>1. worker[v].current # worker[w].current
    BY <1>6, NoneApart DEF IInv, RunningFibers
  <2> QED
    BY <1>6, <2>1 DEF LeavesOthers
<1>7. ASSUME pc[v] = "run"
      PROVE  /\ worker[v].affinity = Mask(job'[Frame(v).job].affinity)
             /\ MayCarry(job[Frame(v).job].affinity, v, Frame(v).job, Frame(v).ip)
             /\ job'[Frame(v).job].affinity = job[Frame(v).job].affinity
             /\ Frame(v).job \in Jobs /\ worker[v].current \in Fibers
  <2>1. worker[v].current \in Fibers /\ Frame(v) = fiber[worker[v].current] /\ Frame(v).job \in Jobs
    BY <1>7, RunsJob
  <2>2. job[Frame(v).job].state = "running"
    BY <2>1 DEF IInv, JobsCarried, Carried
  <2>3. job'[Frame(v).job].affinity = job[Frame(v).job].affinity
    BY <2>1, <2>2 DEF LeavesOthers
  <2> QED
    BY <1>1, <1>7, <2>1, <2>3 DEF RunsAgree
<1>8. RunsAgree(v)'
  <2>1. pc'[v] = "run" => /\ worker'[v].affinity = Mask(job'[Frame(v)'.job].affinity)
                         /\ MayCarry(job'[Frame(v)'.job].affinity, v, Frame(v)'.job, Frame(v)'.ip)
    <3> SUFFICES ASSUME pc[v] = "run"
                 PROVE  /\ worker'[v].affinity = Mask(job'[Frame(v)'.job].affinity)
                        /\ MayCarry(job'[Frame(v)'.job].affinity, v, Frame(v)'.job, Frame(v)'.ip)
      BY <1>1
    <3>1. Frame(v)'.job = Frame(v).job /\ Frame(v)'.ip = Frame(v).ip
      BY <1>1, <1>6, <1>7 DEF Frame
    <3>2. job'[Frame(v).job].affinity = job[Frame(v).job].affinity
      BY <1>7
    <3> QED
      BY <1>1, <1>7, <3>1, <3>2
  <2>2. Switching(v)' /\ Frame(v)'.waiting => worker'[v].affinity \in MayRun(v) /\ Frame(v)'.affinity = worker'[v].affinity
    <3> SUFFICES ASSUME Switching(v), Frame(v)'.waiting
                 PROVE  worker'[v].affinity \in MayRun(v) /\ Frame(v)'.affinity = worker'[v].affinity
      BY <1>1 DEF Switching
    <3>1. worker[v].current \in Fibers
      BY SwitchingHasFiber DEF IInv
    <3> QED
      BY <1>1, <1>6, <3>1 DEF RunsAgree, Frame
  <2> QED
    BY <2>1, <2>2 DEF RunsAgree, MayRun, Mask, MayCarry, Waited
<1> QED
  BY <1>5, <1>8

\* A fiber the worker does not run waits with the affinity of its job.
LEMMA OtherWaitsAgree ==
  ASSUME IInv, AffinityInv, NEW w \in Workers, LeavesOthers(w), NEW f \in Fibers,
         f # worker[w].current \/ (fiber'[f].job = fiber[f].job /\ (fiber'[f].waiting => fiber[f].waiting))
  PROVE  WaitsAgree(f)'
<1> SUFFICES ASSUME fiber'[f].waiting PROVE fiber'[f].affinity = Mask(job'[fiber'[f].job].affinity)
  BY DEF WaitsAgree, Mask
<1>1. fiber[f].waiting /\ fiber'[f].job = fiber[f].job
  BY DEF LeavesOthers
<1>2. fiber'[f].affinity = fiber[f].affinity /\ fiber[f].affinity = Mask(job[fiber[f].job].affinity)
  BY <1>1 DEF LeavesOthers, AffinityInv, WaitsAgree
<1>3. fiber[f].job \in Jobs /\ job[fiber[f].job].state = "running"
  <2>1. fiber[f].job # None /\ fiber[f].job \in Jobs \union {None}
    BY <1>1, FiberFields DEF IInv, FramesOfJobs, Types
  <2> QED
    BY <2>1 DEF IInv, JobsCarried, Carried
<1> QED
  BY <1>1, <1>2, <1>3 DEF LeavesOthers

\* The invariant is kept when what enters a queue, what the worker does and
\* where its fiber waits agree.
LEMMA AffinityMoves ==
  ASSUME IInv, AffinityInv, NEW w \in Workers, LeavesOthers(w),
         \A q \in QueueIds : \A n \in ElementsOf(queues'[q].items) :
           n \in ElementsOf(queues[q].items) \/ OwnerOf(Asks(q[1], n)') = q[3],
         \A f \in Fibers : f = worker[w].current => WaitsAgree(f)',
         HandsAgree(w)', RunsAgree(w)'
  PROVE  AffinityInv'
<1>1. QueuesAgree'
  <2> SUFFICES ASSUME NEW q \in QueueIds, NEW n \in ElementsOf(queues'[q].items)
               PROVE  OwnerOf(Asks(q[1], n)') = q[3]
    BY DEF QueuesAgree, OwnerOf
  <2>1. CASE n \in ElementsOf(queues[q].items)
    BY <2>1, QueueKept DEF AffinityInv
  <2>2. CASE n \notin ElementsOf(queues[q].items)
    BY <2>2
  <2> QED
    BY <2>1, <2>2
<1>2. \A v \in Workers : HandsAgree(v)' /\ RunsAgree(v)'
  BY OthersAgree
<1>3. ASSUME NEW f \in Fibers PROVE WaitsAgree(f)'
  <2>1. CASE f # worker[w].current
    BY <2>1, OtherWaitsAgree
  <2>2. CASE f = worker[w].current
    BY <2>2
  <2> QED
    BY <2>1, <2>2
<1> QED
  BY <1>1, <1>2, <1>3 DEF AffinityInv

\* So it is when nothing enters a queue and nobody begins to wait.
LEMMA AffinityKept ==
  ASSUME IInv, AffinityInv, NEW w \in Workers, LeavesOthers(w),
         \A q \in QueueIds : ElementsOf(queues'[q].items) \subseteq ElementsOf(queues[q].items),
         \A f \in Fibers : f = worker[w].current /\ fiber'[f].waiting
                             => fiber[f].waiting /\ fiber'[f].job = fiber[f].job,
         HandsAgree(w)', RunsAgree(w)'
  PROVE  AffinityInv'
<1>1. ASSUME NEW f \in Fibers, f = worker[w].current PROVE WaitsAgree(f)'
  <2>1. CASE fiber'[f].waiting
    BY <1>1, <2>1, OtherWaitsAgree
  <2>2. CASE ~fiber'[f].waiting
    BY <2>2 DEF WaitsAgree
  <2> QED
    BY <2>1, <2>2
<1>2. \A q \in QueueIds : \A n \in ElementsOf(queues'[q].items) : n \in ElementsOf(queues[q].items)
  OBVIOUS
<1> QED
  BY <1>1, <1>2, AffinityMoves

\* A worker that neither holds a node nor runs or resumes a fiber agrees.
LEMMA IdleAgrees ==
  ASSUME NEW w \in Workers, pc'[w] \notin {"fibers", "jobs", "switch", "run", "update", "mark"}
  PROVE  HandsAgree(w)' /\ RunsAgree(w)'
BY DEF HandsAgree, RunsAgree, TakenAt, Switching

\* A step that changes none of it keeps the invariant.
LEMMA AffinityStill ==
  ASSUME IInv, AffinityInv, UNCHANGED <<pc, worker, fiber, queues, job>> PROVE AffinityInv'
<1>1. QueuesAgree'
  BY DEF AffinityInv, QueuesAgree, Asks, OwnerOf
<1>2. \A w \in Workers : HandsAgree(w)'
  BY DEF AffinityInv, HandsAgree, Asks, TakenAt, QueueAsks, MayRun
<1>3. \A w \in Workers : RunsAgree(w)'
  BY DEF AffinityInv, RunsAgree, Frame, MayRun, Switching, MayCarry, Waited, Mask
<1>4. \A f \in Fibers : WaitsAgree(f)'
  BY DEF AffinityInv, WaitsAgree, Mask
<1> QED
  BY <1>1, <1>2, <1>3, <1>4 DEF AffinityInv

\* So does one that takes a worker to a label where it has nothing to agree with.
LEMMA AffinityIdle ==
  ASSUME IInv, AffinityInv, NEW w \in Workers, NEW label, Goto(w, label),
         label \notin {"fibers", "jobs", "switch", "run", "update", "mark"},
         UNCHANGED <<fiber, job, queues>>, \A v \in Workers : v # w => worker'[v] = worker[v]
  PROVE  AffinityInv'
<1>1. pc'[w] = label /\ \A v \in Workers : v # w => pc'[v] = pc[v]
  BY GotoElsewhere
<1>2. LeavesOthers(w)
  BY <1>1 DEF LeavesOthers
<1>3. HandsAgree(w)' /\ RunsAgree(w)'
  BY <1>1, IdleAgrees
<1> QED
  BY <1>2, <1>3, AffinityKept

\* One worker's record, and no other, is written.
LEMMA OtherWorkers ==
  ASSUME IInv, NEW w \in Workers, NEW r, worker' = [worker EXCEPT ![w] = r]
  PROVE  worker'[w] = r /\ \A v \in Workers : v # w => worker'[v] = worker[v]
BY DEF IInv, Types

\* Beginning to look, with empty hands, keeps the invariant.
LEMMA LookingAffinity ==
  ASSUME IInv, AffinityInv, NEW w \in Workers, LockConsumers(w) \/ NoFiber(w) PROVE AffinityInv'
<1>1. PICK label \in {"fibers", "jobs"} : Goto(w, label)
  BY DEF LockConsumers, NoFiber
<1> DEFINE z == 0
<1> DEFINE r == [worker[w] EXCEPT !.looked = z]
<1>2. /\ UNCHANGED <<fiber, job, queues>> /\ worker[w] \in WorkerRecord
      /\ \A i \in 1 .. 3 : worker[w].held[i] = None
  <2>1. worker[w] \in WorkerRecord /\ worker[w].held \in [1 .. 3 -> Nodes \union {None}]
    BY EmptyHanded, WorkerFields
  <2>2. CASE LockConsumers(w)
    BY <2>1, <2>2, EmptyHanded DEF LockConsumers, At
  <2>3. CASE NoFiber(w)
    BY <2>1, <2>3, SomethingHeld DEF NoFiber
  <2> QED
    BY <2>2, <2>3
<1>3. worker' = [worker EXCEPT ![w] = r]
  BY DEF LockConsumers, NoFiber, IInv, Types
<1>4. r.held = worker[w].held
  <2> HIDE DEF z
  <2> QED
    BY <1>2 DEF WorkerRecord
<1> HIDE DEF r
<1>5. /\ pc'[w] = label /\ worker'[w] = r
      /\ \A v \in Workers : v # w => pc'[v] = pc[v] /\ worker'[v] = worker[v]
  BY <1>1, <1>3, GotoElsewhere, OtherWorkers
<1>6. LeavesOthers(w)
  BY <1>2, <1>5 DEF LeavesOthers
<1>7. HandsAgree(w)' /\ RunsAgree(w)'
  BY <1>2, <1>4, <1>5 DEF HandsAgree, RunsAgree, Switching
<1> QED
  BY <1>2, <1>6, <1>7, AffinityKept

\* The head of the loop, the end of a round and of a signal keep the invariant.
LEMMA LoopAffinity ==
  ASSUME IInv, AffinityInv, NEW w \in Workers,
         LoopHead(w) \/ NoJob(w) \/ SignalDone(w) \/ SignalImpl(w)
  PROVE  AffinityInv'
<1>1. CASE LoopHead(w)
  <2>1. CASE ~shouldExit
    <3>1. /\ worker' = [worker EXCEPT ![w] = [worker[w] EXCEPT !.attempt = 0, !.level = MaxPriority]]
          /\ Goto(w, "poll") /\ UNCHANGED <<fiber, job, queues>>
      BY <1>1, <2>1 DEF LoopHead, IInv, Types
    <3> QED
      BY <3>1, OtherWorkers, AffinityIdle
  <2>2. CASE shouldExit /\ worker[w].exitContext = "thread"
    <3>1. Goto(w, "exited") /\ UNCHANGED <<worker, fiber, job, queues>>
      BY <1>1, <2>2 DEF LoopHead
    <3> QED
      BY <3>1, AffinityIdle
  <2>3. CASE shouldExit /\ worker[w].exitContext # "thread"
    <3>1. UNCHANGED <<pc, worker, fiber, queues, job>>
      BY <1>1, <2>3 DEF LoopHead, Fail
    <3> QED
      BY <3>1, AffinityStill
  <2> QED
    BY <2>1, <2>2, <2>3
<1>2. CASE NoJob(w)
  <2>1. PICK label \in {"loop", "poll"} : Goto(w, label)
    BY <1>2 DEF NoJob
  <2>2. PICK r : worker' = [worker EXCEPT ![w] = r] /\ UNCHANGED <<fiber, job, queues>>
    BY <1>2 DEF NoJob, IInv, Types
  <2> QED
    BY <2>1, <2>2, OtherWorkers, AffinityIdle
<1>3. CASE SignalDone(w)
  <2>1. Goto(w, "loop") /\ UNCHANGED <<worker, fiber, job, queues>>
    BY <1>3 DEF SignalDone
  <2> QED
    BY <2>1, AffinityIdle
<1>4. CASE SignalImpl(w)
  <2>1. /\ worker' = [worker EXCEPT ![w].drain = group[worker[w].signaled].list] /\ Goto(w, "drain")
        /\ UNCHANGED <<fiber, job, queues>>
    BY <1>4 DEF SignalImpl
  <2> QED
    BY <2>1, OtherWorkers, AffinityIdle
<1> QED
  BY <1>1, <1>2, <1>3, <1>4

-----------------------------------------------------------------------------
(* Switches.                                                               *)

\* A switch keeps the invariant when the worker takes over the affinity of the
\* fiber that it resumes.
LEMMA SwitchAffinity ==
  ASSUME IInv, AffinityInv, NEW w \in Workers, NEW r \in WorkerRecord, NEW to \in Fibers,
         SwitchTo(w, r, to),
         fiber[to].waiting => r.affinity \in MayRun(w) /\ fiber[to].affinity = r.affinity
  PROVE  AffinityInv'
<1>1. CASE fiber[to].context # "saved"
  <2>1. UNCHANGED <<pc, worker, fiber, queues, job>>
    BY <1>1 DEF SwitchTo, Fail
  <2> QED
    BY <2>1, AffinityStill
<1>2. CASE fiber[to].context = "saved"
  <2>1. /\ worker'[w].current = to /\ worker'[w].affinity = r.affinity
        /\ pc'[w] = "update"
        /\ \A v \in Workers : v # w => worker'[v] = worker[v] /\ pc'[v] = pc[v]
        /\ \A f \in Fibers : /\ fiber'[f].waiting = fiber[f].waiting /\ fiber'[f].affinity = fiber[f].affinity
                             /\ fiber'[f].job = fiber[f].job /\ fiber'[f].ip = fiber[f].ip
        /\ UNCHANGED <<queues, job>>
    <3>1. Types
      BY DEF IInv
    <3>2. /\ worker' \in [Workers -> WorkerRecord]
          /\ worker'[w].current = to /\ worker'[w].prev = r.prev /\ worker'[w].lastWait = r.lastWait
          /\ worker'[w].held = r.held /\ worker'[w].drain = r.drain
          /\ worker'[w].affinity = r.affinity
          /\ pc' \in [Workers -> Labels] /\ pc'[w] = "update"
          /\ \A v \in Workers : v # w => worker'[v] = worker[v] /\ pc'[v] = pc[v]
      BY <1>2, <3>1, SwitchEffect
    <3>3. /\ \A f \in Fibers : /\ fiber'[f].waiting = fiber[f].waiting /\ fiber'[f].affinity = fiber[f].affinity
                               /\ fiber'[f].job = fiber[f].job /\ fiber'[f].ip = fiber[f].ip
          /\ UNCHANGED <<queues, consumerLock, group, job, jobCounter, shouldExit, fault, lost>>
      BY <1>2, <3>1, SwitchEffect
    <3> QED
      BY <3>2, <3>3
  <2>2. LeavesOthers(w)
    BY <2>1 DEF LeavesOthers
  <2>3. HandsAgree(w)'
    BY <2>1 DEF HandsAgree, TakenAt
  <2>4. RunsAgree(w)'
    <3>1. Frame(w)'.waiting = fiber[to].waiting /\ Frame(w)'.affinity = fiber[to].affinity
      BY <2>1 DEF Frame
    <3> QED
      BY <2>1, <3>1 DEF RunsAgree, MayRun
  <2> QED
    BY <2>1, <2>2, <2>3, <2>4, AffinityKept
<1> QED
  BY <1>1, <1>2

\* Entering a fiber from the pool keeps the invariant.
LEMMA FreshAffinity ==
  ASSUME IInv, AffinityInv, NEW w \in Workers,
         Start(w) \/ ThreadProc(w) \/ SwitchFromWaitingFiber(w)
  PROVE  AffinityInv'
<1>1. worker[w] \in WorkerRecord /\ HandsOf(w)
  BY EmptyHanded
<1>2. CASE Start(w) \/ ThreadProc(w)
  <2>1. PICK to \in Free : SwitchTo(w, worker[w], to)
    BY <1>2 DEF Start, ThreadProc
  <2>2. to \in Fibers /\ ~fiber[to].waiting
    BY FreeFiber
  <2> QED
    BY <1>1, <2>1, <2>2, SwitchAffinity
<1>3. CASE SwitchFromWaitingFiber(w)
  <2> DEFINE r == [worker[w] EXCEPT !.lastWait = worker[w].current, !.prev = worker[w].current]
  <2>1. PICK to \in Free : SwitchTo(w, r, to)
    BY <1>3 DEF SwitchFromWaitingFiber
  <2>2. to \in Fibers /\ ~fiber[to].waiting
    BY FreeFiber
  <2>3. r \in WorkerRecord
    BY <1>1 DEF WorkerRecord
  <2> HIDE DEF r
  <2> QED
    BY <2>1, <2>2, <2>3, SwitchAffinity
<1> QED
  BY <1>2, <1>3

\* Resuming a ready fiber keeps the invariant.
LEMMA ResumeFiberAffinity ==
  ASSUME IInv, AffinityInv, NEW w \in Workers, ResumeFiber(w) PROVE AffinityInv'
<1> DEFINE f == worker[w].held[1]
<1> DEFINE r == [worker[w] EXCEPT !.prev = worker[w].current, !.affinity = fiber[f].affinity,
                                  !.held = NothingHeld]
<1>1. worker[w] \in WorkerRecord /\ HandsOf(w) /\ pc[w] = "switch"
  BY EmptyHanded DEF ResumeFiber, At
<1>2. f \in Fibers
  BY <1>1 DEF HandsOf
<1>3. fiber[f].affinity \in MayRun(w)
  BY <1>1 DEF AffinityInv, HandsAgree
<1>4. r \in WorkerRecord /\ r.affinity = fiber[f].affinity
  <2>1. fiber[f].affinity \in Affinities \union {"none"}
    BY <1>2, FiberFields DEF IInv, Types
  <2>2. NothingHeld \in [1 .. 3 -> Nodes \union {None}]
    BY DEF NothingHeld
  <2> HIDE DEF f
  <2> QED
    BY <1>1, <2>1, <2>2 DEF WorkerRecord
<1>5. SwitchTo(w, r, f)
  BY DEF ResumeFiber
<1> HIDE DEF r, f
<1> QED
  BY <1>2, <1>3, <1>4, <1>5, SwitchAffinity

\* Saving the context of the fiber left behind keeps the invariant.
LEMMA CleanUpUpdateAffinity ==
  ASSUME IInv, AffinityInv, NEW w \in Workers, CleanUpUpdate(w) PROVE AffinityInv'
<1>1. \A f \in Fibers : /\ fiber'[f].waiting = fiber[f].waiting /\ fiber'[f].job = fiber[f].job
                        /\ fiber'[f].affinity = fiber[f].affinity /\ fiber'[f].ip = fiber[f].ip
  <2>1. fiber \in [Fibers -> FiberRecord] /\ worker[w].prev \in Fibers \union {None}
    BY EmptyHanded, WorkerFields DEF IInv, Types
  <2>2. CASE worker[w].prev = None
    BY <2>2 DEF CleanUpUpdate
  <2>3. CASE worker[w].prev # None
    <3> DEFINE p == worker[w].prev
    <3> DEFINE s == [fiber[p] EXCEPT !.context = "saved"]
    <3>1. p \in Fibers /\ fiber' = [fiber EXCEPT ![p] = s]
      BY <2>1, <2>3 DEF CleanUpUpdate
    <3>2. s.waiting = fiber[p].waiting /\ s.job = fiber[p].job /\ s.affinity = fiber[p].affinity
         /\ s.ip = fiber[p].ip
      BY <2>1, <3>1 DEF FiberRecord
    <3> HIDE DEF s, p
    <3>3. fiber'[p] = s /\ \A f \in Fibers : f # p => fiber'[f] = fiber[f]
      BY <2>1, <3>1, <3>2
    <3> QED
      BY <3>2, <3>3
  <2> QED
    BY <2>2, <2>3
<1>2. pc[w] = "update" /\ Goto(w, "mark") /\ UNCHANGED <<worker, queues, job>>
  BY DEF CleanUpUpdate, At
<1>3. pc'[w] = "mark" /\ \A v \in Workers : v # w => pc'[v] = pc[v]
  BY <1>2, GotoElsewhere
<1>4. LeavesOthers(w)
  BY <1>1, <1>2, <1>3 DEF LeavesOthers
<1>5. HandsAgree(w)'
  BY <1>3 DEF HandsAgree, TakenAt
<1>6. RunsAgree(w)'
  <2>1. worker[w].current \in Fibers
    BY <1>2, SwitchingHasFiber DEF Switching, IInv
  <2>2. Frame(w)'.waiting = Frame(w).waiting /\ Frame(w)'.affinity = Frame(w).affinity
    BY <1>1, <1>2, <2>1 DEF Frame
  <2>3. Frame(w).waiting => worker[w].affinity \in MayRun(w) /\ Frame(w).affinity = worker[w].affinity
    BY <1>2 DEF AffinityInv, RunsAgree, Switching
  <2> QED
    BY <1>2, <1>3, <2>2, <2>3 DEF RunsAgree, MayRun
<1> QED
  BY <1>1, <1>2, <1>4, <1>5, <1>6, AffinityKept

\* The mask of a worker is that of a worker, and its own if that runs foreground
\* jobs; it is the mask of nothing else.
LEMMA MaskIsWorker ==
  ASSUME NEW a \in Workers
  PROVE  /\ ShiftOf[a] \in Workers
         /\ PoolOf[a] = "background" \/ ShiftOf[a] = a
         /\ \A v \in Workers : PoolOf[v] \notin Workers
         /\ "all" \notin Workers
<1>1. /\ \A v \in Workers : PoolOf[v] \in {"foreground", "background"}
      /\ ShiftOf[a] \in Workers /\ "all" \notin Workers
      /\ "foreground" \notin Workers /\ "background" \notin Workers
  BY JobSystemAssumption DEF Pools
<1>2. PoolOf[a] = "foreground" => ShiftOf[a] = a
  BY NumberingAssumption
<1> QED
  BY <1>1, <1>2

\* A resumed fiber goes on with its job on a worker that may run it.
LEMMA CleanUpMarkAffinity ==
  ASSUME IInv, WaitInv, AffinityInv, NEW w \in Workers, CleanUpMark(w) PROVE AffinityInv'
<1>1. pc[w] = "mark" /\ fiber \in [Fibers -> FiberRecord]
  BY DEF CleanUpMark, At, IInv, Types
<1>2. PICK c \in Fibers : c = worker[w].current
  BY <1>1, SwitchingHasFiber DEF Switching, IInv
<1>3. CASE worker[w].lastWait # None /\ ~fiber[worker[w].lastWait].waiting
  <2>1. UNCHANGED <<pc, worker, fiber, queues, job>>
    BY <1>3 DEF CleanUpMark, Fail
  <2> QED
    BY <2>1, AffinityStill
<1>4. CASE ~(worker[w].lastWait # None /\ ~fiber[worker[w].lastWait].waiting)
  <2>1. /\ fiber' = [f \in Fibers |->
                IF f = c /\ fiber[c].resume = "wait"
                THEN [fiber[c] EXCEPT !.waiting = FALSE, !.ip = @ + 1]
                ELSE IF ReturnsFiber(worker[w], f) THEN [fiber[f] EXCEPT !.free = TRUE] ELSE fiber[f]]
        /\ worker' = [worker EXCEPT ![w].prev = None, ![w].lastWait = None]
        /\ Goto(w, IF fiber[c].resume = "wait" THEN "run" ELSE "loop")
        /\ UNCHANGED <<queues, job>>
    BY <1>2, <1>4 DEF CleanUpMark
  <2>2. ASSUME NEW f \in Fibers, ~(f = c /\ fiber[c].resume = "wait")
        PROVE  /\ fiber'[f].waiting = fiber[f].waiting /\ fiber'[f].job = fiber[f].job
               /\ fiber'[f].affinity = fiber[f].affinity /\ fiber'[f].ip = fiber[f].ip
    <3>1. fiber'[f] \in {[fiber[f] EXCEPT !.free = TRUE], fiber[f]}
      BY <2>1, <2>2
    <3> QED
      BY <1>1, <3>1 DEF FiberRecord
  <2>3. ASSUME fiber[c].resume = "wait"
        PROVE  /\ ~fiber'[c].waiting /\ fiber'[c].job = fiber[c].job
               /\ fiber'[c].affinity = fiber[c].affinity /\ fiber'[c].ip = fiber[c].ip + 1
    BY <1>1, <2>1, <2>3, FiberAwake
  <2>4. /\ worker'[w].current = c /\ worker'[w].affinity = worker[w].affinity
        /\ \A v \in Workers : v # w => worker'[v] = worker[v]
    <3> DEFINE s == [worker[w] EXCEPT !.prev = None, !.lastWait = None]
    <3>1. worker' = [worker EXCEPT ![w] = s]
      BY <2>1 DEF IInv, Types
    <3>2. s.current = c /\ s.affinity = worker[w].affinity
      BY <1>2, EmptyHanded, WorkerLetsGo
    <3> HIDE DEF s
    <3> QED
      BY <3>1, <3>2, OtherWorkers
  <2>5. /\ pc'[w] = IF fiber[c].resume = "wait" THEN "run" ELSE "loop"
        /\ \A v \in Workers : v # w => pc'[v] = pc[v]
    BY <2>1, GotoElsewhere
  <2>6. LeavesOthers(w)
    <3>1. \A f \in Fibers : fiber'[f].affinity = fiber[f].affinity /\ fiber'[f].job = fiber[f].job
      BY <2>2, <2>3
    <3>2. \A f \in Fibers : f # worker[w].current =>
            fiber'[f].waiting = fiber[f].waiting /\ fiber'[f].ip = fiber[f].ip
      BY <1>2, <2>2
    <3> QED
      BY <2>1, <2>4, <2>5, <3>1, <3>2 DEF LeavesOthers
  <2>7. HandsAgree(w)'
    BY <2>5 DEF HandsAgree, TakenAt
  <2>8. RunsAgree(w)'
    <3>1. CASE fiber[c].resume # "wait"
      BY <2>5, <3>1 DEF RunsAgree, Switching
    <3>2. CASE fiber[c].resume = "wait"
      <4>1. fiber[c].waiting
        BY <1>1, <1>2, <3>2, NoneApart DEF IInv, RunningFibers, Switching
      <4> DEFINE j == fiber[c].job
      <4> DEFINE n == fiber[c].ip
      <4> DEFINE a == job[j].affinity
      <4>2. worker[w].affinity \in MayRun(w) /\ worker[w].affinity = Mask(a)
        BY <1>1, <1>2, <4>1 DEF AffinityInv, RunsAgree, WaitsAgree, Switching, Frame
      <4>3. Frame(w)'.job = j /\ Frame(w)'.ip = n + 1 /\ worker'[w].affinity = worker[w].affinity
        BY <2>3, <2>4, <3>2 DEF Frame
      <4>4. Waited(j, n + 1)
        <5>1. n \in DOMAIN Program[j] /\ Program[j][n].op = "wait"
          BY <4>1 DEF WaitInv, Waits, WaitsFor
        <5>2. n \in Nat
          BY <1>1, FiberFields
        <5> HIDE DEF n, j
        <5> QED
          BY <5>1, <5>2 DEF Waited
      <4>5. MayCarry(a, w, j, n + 1)
        <5>1. CASE a \notin Workers
          BY <4>2, <5>1 DEF Mask, MayCarry
        <5>2. CASE a \in Workers
          BY <4>2, <4>4, <5>2, MaskIsWorker DEF Mask, MayCarry, MayRun
        <5> QED
          BY <5>1, <5>2
      <4> HIDE DEF j, n
      <4>6. job'[j].affinity = a
        BY <2>1
      <4>7. /\ worker'[w].affinity = Mask(job'[Frame(w)'.job].affinity)
            /\ MayCarry(job'[Frame(w)'.job].affinity, w, Frame(w)'.job, Frame(w)'.ip)
        BY <4>2, <4>3, <4>5, <4>6
      <4> QED
        BY <2>5, <3>2, <4>7 DEF RunsAgree, Switching, Mask, MayCarry, MayRun, Waited
    <3> QED
      BY <3>1, <3>2
  <2>9. \A f \in Fibers : f = worker[w].current /\ fiber'[f].waiting
                            => fiber[f].waiting /\ fiber'[f].job = fiber[f].job
    BY <2>2, <2>3
  <2> QED
    BY <2>1, <2>6, <2>7, <2>8, <2>9, AffinityKept
<1> QED
  BY <1>3, <1>4

-----------------------------------------------------------------------------
(* Queues.                                                                 *)

\* What the nodes of a queue ask for and the queue name each other, and the worker
\* satisfies what is asked in the queues it looks at.
LEMMA QueueNames ==
  ASSUME NEW w \in Workers, NEW kind \in {"job", "fiber"}, NEW i \in 1 .. 3
  PROVE  /\ OwnerOf(QueueAsks(w, i)) = QueuesOf(kind, w)[i][3]
         /\ \A a \in Affinities \union {"none"} :
              OwnerOf(a) = QueuesOf(kind, w)[i][3] => a = QueueAsks(w, i)
         /\ QueueAsks(w, i) \in MayRun(w)
         /\ AffinityOfQueue(w, i) = Mask(QueueAsks(w, i))
<1>1. /\ PoolOf[w] \in {"foreground", "background"}
      /\ \A v \in Workers : v \notin {"generic", "foreground", "background", "all", "none"}
  BY JobSystemAssumption DEF Pools
<1> DEFINE p == worker[w].level
<1>2. /\ QueuesOf(kind, w)[1] = <<kind, p, w>> /\ QueuesOf(kind, w)[2] = <<kind, p, "generic">>
      /\ QueuesOf(kind, w)[3] = <<kind, p, PoolOf[w]>>
  BY DEF QueuesOf
<1>3. /\ QueuesOf(kind, w)[1][3] = w /\ QueuesOf(kind, w)[2][3] = "generic"
      /\ QueuesOf(kind, w)[3][3] = PoolOf[w]
  BY <1>2
<1>4. /\ QueueAsks(w, 1) = w /\ QueueAsks(w, 2) = "all" /\ QueueAsks(w, 3) = PoolOf[w]
      /\ AffinityOfQueue(w, 1) = ShiftOf[w] /\ AffinityOfQueue(w, 2) = "all"
      /\ AffinityOfQueue(w, 3) = PoolOf[w]
  BY DEF QueueAsks, AffinityOfQueue
<1>5. \A a \in Affinities \union {"none"} :
        a \in {"all", "foreground", "background", "none"} \/ a \in Workers
  BY DEF Affinities
<1>6. CASE i = 1
  BY <1>1, <1>3, <1>4, <1>5, <1>6 DEF OwnerOf, MayRun, Mask
<1>7. CASE i = 2
  BY <1>1, <1>3, <1>4, <1>5, <1>7 DEF OwnerOf, MayRun, Mask
<1>8. CASE i = 3
  BY <1>1, <1>3, <1>4, <1>5, <1>8 DEF OwnerOf, MayRun, Mask
<1> QED
  BY <1>6, <1>7, <1>8

\* What a worker takes has the affinity of the queue it takes it from.
LEMMA LookAffinity ==
  ASSUME IInv, AffinityInv, NEW w \in Workers, NEW kind \in {"job", "fiber"},
         pc[w] = TakenAt(kind), Look(kind, w)
  PROVE  AffinityInv'
<1> DEFINE i == worker[w].looked + 1
<1> DEFINE q == QueuesOf(kind, w)[i]
<1> DEFINE found == queues[q].items # <<>>
<1> DEFINE x == [worker[w].held EXCEPT ![i] = IF found THEN Head(queues[q].items) ELSE None]
<1>1. /\ worker[w] \in WorkerRecord /\ Types /\ OneHolder /\ worker[w].level \in Priorities
      /\ worker[w].looked \in 0 .. 3 /\ worker[w].held \in [1 .. 3 -> Nodes \union {None}]
  BY EmptyHanded, WorkerFields DEF IInv
<1>2. i \in 1 .. 3
  BY <1>1 DEF Look
<1>3. q \in QueueIds /\ q[1] = kind
  BY <1>1, <1>2, ThreeQueues
<1>4. /\ queues' = [queues EXCEPT ![q] = IF found THEN Dequeued(queues[q]) ELSE queues[q]]
      /\ worker' = [worker EXCEPT ![w] = [worker[w] EXCEPT !.looked = i, !.held = x]]
      /\ UNCHANGED <<pc, fiber, job>>
  BY <1>1, <1>3 DEF Look, Types
<1>5. worker'[w].held = x /\ \A v \in Workers : v # w => worker'[v] = worker[v]
  <2> HIDE DEF x, i
  <2> DEFINE s == [worker[w] EXCEPT !.looked = i, !.held = x]
  <2>1. worker' = [worker EXCEPT ![w] = s]
    BY <1>4
  <2>2. s.held = x
    BY <1>1 DEF WorkerRecord
  <2> HIDE DEF s
  <2> QED
    BY <2>1, <2>2, OtherWorkers
<1>6. LeavesOthers(w)
  BY <1>4, <1>5 DEF LeavesOthers
<1>7. \A k \in 1 .. 3 : x[k] = IF k = i THEN (IF found THEN Head(queues[q].items) ELSE None)
                               ELSE worker[w].held[k]
  BY <1>1, <1>2
<1>8. q[3] = QueuesOf(kind, w)[i][3]
  OBVIOUS
<1> HIDE DEF x, q
<1>9. ASSUME found
      PROVE  /\ ElementsOf(Dequeued(queues[q]).items) \subseteq ElementsOf(queues[q].items)
             /\ Head(queues[q].items) \in NodesOf(kind) /\ Head(queues[q].items) \in ElementsOf(queues[q].items)
  <2> DEFINE y == queues[q]
  <2> DEFINE S == NodesOf(kind)
  <2>1. y \in QueueRecord /\ y.items \in Seq(S) /\ Distinct(y.items) /\ S \in SUBSET Nodes /\ y.items # <<>>
    BY <1>1, <1>3, <1>9 DEF Types, OneHolder, NodesOf, Nodes
  <2> HIDE DEF y, S
  <2>2. /\ Dequeued(y) \in QueueRecord /\ Dequeued(y).items \in Seq(S)
        /\ Distinct(Dequeued(y).items)
        /\ ElementsOf(Dequeued(y).items) = ElementsOf(y.items) \ {Head(y.items)}
        /\ Head(y.items) \in S /\ Head(y.items) \in ElementsOf(y.items)
    BY <2>1, DequeuedElements
  <2> QED
    BY <2>2 DEF y, S
<1>10. \A z \in QueueIds : ElementsOf(queues'[z].items) \subseteq ElementsOf(queues[z].items)
  <2> TAKE z \in QueueIds
  <2>1. CASE z = q /\ found
    BY <1>1, <1>3, <1>4, <1>9, <2>1 DEF Types
  <2>2. CASE ~(z = q /\ found)
    <3>1. queues'[z] = queues[z]
      BY <1>1, <1>4, <2>2 DEF Types
    <3> QED
      BY <3>1
  <2> QED
    BY <2>1, <2>2
<1>11. ASSUME found PROVE Asks(kind, Head(queues[q].items)) = QueueAsks(w, i)
  <2>1. PICK n \in NodesOf(kind) : n = Head(queues[q].items) /\ n \in ElementsOf(queues[q].items)
    BY <1>9, <1>11
  <2>2. OwnerOf(Asks(kind, n)) = q[3]
    BY <1>3, <2>1 DEF AffinityInv, QueuesAgree
  <2>3. Asks(kind, n) \in Affinities \union {"none"}
    <3>1. <<"queue", q>> \in HoldersOf(n)
      BY <1>3, <2>1, HolderIs
    <3> QED
      BY <3>1, HeldAsks
  <2> HIDE DEF i
  <2> QED
    BY <1>2, <1>8, <2>1, <2>2, <2>3, QueueNames
<1>12. \A k \in {"job", "fiber"} : TakenAt(k) = TakenAt(kind) => k = kind
  BY DEF TakenAt
<1>13. HandsAgree(w)'
  <2>1. ASSUME NEW k \in 1 .. 3, x[k] # None PROVE Asks(kind, x[k]) = QueueAsks(w, k)
    <3>1. CASE k = i
      BY <1>7, <1>11, <2>1, <3>1
    <3>2. CASE k # i
      <4>1. x[k] = worker[w].held[k]
        BY <1>7, <3>2
      <4> QED
        BY <2>1, <4>1 DEF AffinityInv, HandsAgree
    <3> QED
      BY <3>1, <3>2
  <2>2. \A n : Asks(kind, n)' = Asks(kind, n)
    BY <1>4 DEF Asks
  <2>3. pc'[w] = TakenAt(kind) /\ TakenAt(kind) # "switch"
    BY <1>4 DEF TakenAt
  <2>4. ASSUME NEW k \in {"job", "fiber"}, TakenAt(kind) = TakenAt(k), NEW m \in 1 .. 3, worker'[w].held[m] # None
        PROVE  Asks(k, worker[w].held[m])' = QueueAsks(w, m)
    <3>1. k = kind /\ worker'[w].held[m] = x[m]
      BY <1>5, <1>12, <2>4
    <3>2. Asks(kind, x[m]) = QueueAsks(w, m)
      BY <2>1, <2>4, <3>1
    <3> QED
      BY <1>4, <3>1, <3>2 DEF Asks
  <2> QED
    BY <2>3, <2>4 DEF HandsAgree, TakenAt, QueueAsks
<1>14. RunsAgree(w)'
  BY <1>4 DEF RunsAgree, TakenAt, Switching
<1> QED
  BY <1>4, <1>6, <1>10, <1>13, <1>14, AffinityKept

\* What PushFront adds to a queue.
LEMMA PushedContents ==
  ASSUME Types, OneHolder, NEW q \in QueueIds, NEW n \in NodesOf(q[1]), n \notin ElementsOf(queues[q].items)
  PROVE  ElementsOf(PushedFront(queues[q], n).items) = ElementsOf(queues[q].items) \union {n}
<1>1. PICK S \in SUBSET Nodes, x \in QueueRecord :
        /\ x = queues[q] /\ x.items \in Seq(S) /\ Distinct(x.items)
        /\ n \in S /\ n \notin ElementsOf(x.items)
  BY DEF NodesOf, Nodes, Types, OneHolder
<1>2. /\ PushedFront(x, n) \in QueueRecord /\ PushedFront(x, n).items \in Seq(S)
      /\ Distinct(PushedFront(x, n).items)
      /\ ElementsOf(PushedFront(x, n).items) = ElementsOf(x.items) \union {n}
  BY <1>1, PushedElements
<1> QED
  BY <1>1, <1>2

\* What Enqueue adds to a queue.
LEMMA EnqueuedContents ==
  ASSUME Types, OneHolder, NEW q \in QueueIds, NEW n \in NodesOf(q[1]), n \notin ElementsOf(queues[q].items)
  PROVE  ElementsOf(Enqueued(queues[q], n).items) \subseteq ElementsOf(queues[q].items) \union {n}
<1>1. PICK S \in SUBSET Nodes, x \in QueueRecord :
        /\ x = queues[q] /\ x.items \in Seq(S) /\ Distinct(x.items)
        /\ n \in S /\ n \notin ElementsOf(x.items)
  BY DEF NodesOf, Nodes, Types, OneHolder
<1>2. /\ Enqueued(x, n) \in QueueRecord /\ Enqueued(x, n).items \in Seq(S)
      /\ Distinct(Enqueued(x, n).items)
      /\ ElementsOf(Enqueued(x, n).items) = (ElementsOf(x.items) \ CutOff(x)) \union {n}
      /\ CutOff(x) \subseteq ElementsOf(x.items)
  BY <1>1, EnqueuedElements
<1> QED
  BY <1>1, <1>2

\* What a worker gives back returns to the queue its affinity names.
LEMMA PutBackQueues ==
  ASSUME IInv, AffinityInv, NEW w \in Workers, NEW kind \in {"job", "fiber"},
         pc[w] = TakenAt(kind), PutBack(kind, w), LeavesOthers(w)
  PROVE  \A q \in QueueIds : \A n \in ElementsOf(queues'[q].items) :
           n \in ElementsOf(queues[q].items) \/ OwnerOf(Asks(q[1], n)') = q[3]
<1> DEFINE id(i) == QueuesOf(kind, w)[i]
<1> DEFINE h == worker[w].held
<1> DEFINE back == Unchosen(h, Earliest(kind, h))
<1>1. /\ worker[w] \in WorkerRecord /\ HandsOf(w) /\ Types /\ OneHolder /\ worker[w].level \in Priorities
  BY EmptyHanded, WorkerFields DEF IInv
<1>2. \A i \in 1 .. 3 : id(i) \in QueueIds /\ id(i)[1] = kind
  BY <1>1, ThreeQueues
<1>3. queues' = [q \in QueueIds |->
             IF \E i \in back : id(i) = q
             THEN PushedFront(queues[q], h[CHOOSE i \in back : id(i) = q]) ELSE queues[q]]
  BY DEF PutBack
<1>4. \A i \in back : i \in 1 .. 3 /\ h[i] # None
  BY DEF Unchosen
<1> HIDE DEF back, id
<1> SUFFICES ASSUME NEW q \in QueueIds, NEW n \in ElementsOf(queues'[q].items),
                    n \notin ElementsOf(queues[q].items)
             PROVE  OwnerOf(Asks(q[1], n)') = q[3]
  OBVIOUS
<1>5. PICK i \in back : id(i) = q /\ queues'[q] = PushedFront(queues[q], h[i])
  <2> DEFINE c == CHOOSE i \in back : id(i) = q
  <2>1. \E i \in back : id(i) = q
    BY <1>3
  <2>2. c \in back /\ id(c) = q
    BY <2>1
  <2>3. queues'[q] = PushedFront(queues[q], h[c])
    BY <1>3, <2>1
  <2> HIDE DEF c
  <2> QED
    BY <2>2, <2>3
<1>6. PICK m \in NodesOf(kind) : m = h[i] /\ <<"held", w, i>> \in HoldersOf(m)
  <2>1. h[i] \in NodesOf(kind)
    BY <1>1, <1>4 DEF HandsOf, TakenAt, NodesOf
  <2> QED
    BY <1>4, <2>1, HolderIs
<1>7. q[1] = kind /\ i \in 1 .. 3
  BY <1>2, <1>4, <1>5
<1>8. n = m
  <2>1. m \notin ElementsOf(queues[q].items)
    <3>1. m \in Nodes
      BY DEF NodesOf, Nodes
    <3> QED
      BY <1>1, <1>6, <1>7, <3>1, OnePlace
  <2>2. ElementsOf(PushedFront(queues[q], m).items) = ElementsOf(queues[q].items) \union {m}
    BY <1>1, <1>7, <2>1, PushedContents
  <2>3. queues'[q] = PushedFront(queues[q], m)
    BY <1>5, <1>6
  <2>4. ElementsOf(queues'[q].items) = ElementsOf(queues[q].items) \union {m}
    BY <2>2, <2>3
  <2> QED
    BY <2>4
<1>9. Asks(kind, m)' = Asks(kind, m)
  BY <1>6, HeldAsksKept
<1>10. Asks(kind, m) = QueueAsks(w, i)
  BY <1>4, <1>6, <1>7 DEF AffinityInv, HandsAgree
<1>11. OwnerOf(QueueAsks(w, i)) = q[3]
  BY <1>5, <1>7, QueueNames DEF id
<1> QED
  BY <1>7, <1>8, <1>9, <1>10, <1>11

\* A ready fiber is chosen for a worker that may run its job.
LEMMA ChooseFiberAffinity ==
  ASSUME IInv, AffinityInv, NEW w \in Workers, ChooseFiber(w) PROVE AffinityInv'
<1>1. /\ pc[w] = "fibers" /\ PutBack("fiber", w) /\ Goto(w, "switch") /\ UNCHANGED <<fiber, job>>
      /\ Types /\ HandsOf(w) /\ worker[w] \in WorkerRecord
  BY EmptyHanded DEF ChooseFiber, At
<1>2. PICK c \in 1 .. 3, m \in Fibers : c = Earliest("fiber", worker[w].held) /\ m = worker[w].held[c]
  <2>1. /\ \A i \in 1 .. 3 : worker[w].held[i] \in NodesOf("fiber") \union {None}
        /\ \E i \in 1 .. 3 : worker[w].held[i] # None
    <3>1. \A i \in 1 .. 3 : worker[w].held[i] \in NodesOf("fiber") \union {None}
      BY <1>1 DEF HandsOf, NodesOf
    <3>2. worker[w].held # NothingHeld
      BY DEF ChooseFiber
    <3> QED
      BY <1>1, <3>1, <3>2, HoldsSomething
  <2> DEFINE d == Earliest("fiber", worker[w].held)
  <2>2. d \in 1 .. 3 /\ worker[w].held[d] # None
    BY <1>1, <2>1, EarliestHeld
  <2> HIDE DEF d
  <2>3. worker[w].held[d] \in Fibers
    BY <2>1, <2>2 DEF NodesOf
  <2> QED
    BY <2>2, <2>3 DEF d
<1>3. worker'[w].held[1] = m /\ \A v \in Workers : v # w => worker'[v] = worker[v]
  <2> DEFINE x == <<m, None, None>>
  <2> DEFINE s == [worker[w] EXCEPT !.held = x]
  <2>1. worker' = [worker EXCEPT ![w] = s]
    BY <1>1, <1>2 DEF ChooseFiber, Types
  <2>2. x[1] = m
    OBVIOUS
  <2> HIDE DEF x
  <2>3. s.held = x
    BY <1>1 DEF WorkerRecord
  <2> HIDE DEF s
  <2> QED
    BY <2>1, <2>2, <2>3, OtherWorkers
<1>4. pc'[w] = "switch" /\ \A v \in Workers : v # w => pc'[v] = pc[v]
  BY <1>1, GotoElsewhere
<1>5. LeavesOthers(w)
  BY <1>1, <1>3, <1>4 DEF LeavesOthers
<1>6. \A q \in QueueIds : \A n \in ElementsOf(queues'[q].items) :
        n \in ElementsOf(queues[q].items) \/ OwnerOf(Asks(q[1], n)') = q[3]
  <2> DEFINE kind == "fiber"
  <2>1. kind \in {"job", "fiber"} /\ pc[w] = TakenAt(kind) /\ PutBack(kind, w)
    BY <1>1 DEF TakenAt
  <2> HIDE DEF kind
  <2> QED
    BY <1>5, <2>1, PutBackQueues
<1>7. fiber[m].affinity \in MayRun(w)
  <2> DEFINE kind == "fiber"
  <2>1. kind \in {"job", "fiber"} /\ pc[w] = TakenAt(kind) /\ Asks(kind, m) = fiber[m].affinity
    BY <1>1 DEF TakenAt, Asks
  <2> HIDE DEF kind
  <2>2. Asks(kind, m) = QueueAsks(w, c)
    BY <1>2, <2>1, NoneApart DEF AffinityInv, HandsAgree
  <2>3. QueueAsks(w, c) \in MayRun(w)
    BY <2>1, QueueNames
  <2> QED
    BY <2>1, <2>2, <2>3
<1>8. HandsAgree(w)'
  BY <1>1, <1>3, <1>4, <1>7 DEF HandsAgree, TakenAt, MayRun
<1>9. RunsAgree(w)'
  BY <1>4 DEF RunsAgree, Switching
<1>10. \A f \in Fibers : WaitsAgree(f)'
  BY <1>1 DEF AffinityInv, WaitsAgree, Mask
<1> QED
  BY <1>5, <1>6, <1>8, <1>9, <1>10, AffinityMoves

\* The worker takes the affinity of the job it begins.
LEMMA ChooseJobAffinity ==
  ASSUME IInv, AffinityInv, NEW w \in Workers, ChooseJob(w) PROVE AffinityInv'
<1>1. /\ pc[w] = "jobs" /\ PutBack("job", w) /\ Goto(w, "run")
      /\ Types /\ HandsOf(w) /\ worker[w] \in WorkerRecord
  BY EmptyHanded DEF ChooseJob, At
<1>2. PICK i \in 1 .. 3, j \in Jobs : i = Earliest("job", worker[w].held) /\ j = worker[w].held[i]
  <2>1. /\ \A i \in 1 .. 3 : worker[w].held[i] \in NodesOf("job") \union {None}
        /\ \E i \in 1 .. 3 : worker[w].held[i] # None
    <3>1. \A i \in 1 .. 3 : worker[w].held[i] \in NodesOf("job") \union {None}
      BY <1>1 DEF HandsOf, NodesOf
    <3>2. worker[w].held # NothingHeld
      BY DEF ChooseJob
    <3> QED
      BY <1>1, <3>1, <3>2, HoldsSomething
  <2> DEFINE d == Earliest("job", worker[w].held)
  <2>2. d \in 1 .. 3 /\ worker[w].held[d] # None
    BY <1>1, <2>1, EarliestHeld
  <2> HIDE DEF d
  <2>3. worker[w].held[d] \in Jobs
    BY <2>1, <2>2 DEF NodesOf
  <2> QED
    BY <2>2, <2>3 DEF d
<1>3. PICK c \in Fibers : c = worker[w].current /\ fiber[c].job = None /\ ~fiber[c].waiting
  BY <1>1, RunsLoop
<1> DEFINE a == AffinityOfQueue(w, i)
<1>4. /\ worker'[w].affinity = a /\ worker'[w].current = c
      /\ \A v \in Workers : v # w => worker'[v] = worker[v]
  <2> DEFINE s == [worker[w] EXCEPT !.held = NothingHeld, !.affinity = a]
  <2>1. worker' = [worker EXCEPT ![w] = s]
    BY <1>1, <1>2 DEF ChooseJob, Types
  <2> HIDE DEF a
  <2>2. s.affinity = a /\ s.current = worker[w].current
    BY <1>1 DEF WorkerRecord
  <2> HIDE DEF s
  <2> QED
    BY <1>3, <2>1, <2>2, OtherWorkers
<1>5. /\ fiber'[c].job = j /\ ~fiber'[c].waiting
      /\ \A f \in Fibers : f # c => fiber'[f] = fiber[f]
  <2> DEFINE x == 1
  <2> DEFINE s == [fiber[c] EXCEPT !.job = j, !.ip = x]
  <2>1. /\ fiber' = [fiber EXCEPT ![c] = s] /\ fiber[c] \in FiberRecord
        /\ x \in Nat /\ j \in Jobs \union {None}
    BY <1>1, <1>2, <1>3 DEF ChooseJob, Types
  <2> HIDE DEF x
  <2>2. s \in FiberRecord /\ s.waiting = fiber[c].waiting /\ s.job = j
    BY <2>1 DEF FiberRecord
  <2> HIDE DEF s
  <2> QED
    BY <1>1, <1>3, <2>1, <2>2, OneFiber
<1>6. \A k \in Jobs : job'[k].affinity = job[k].affinity
  <2>1. job' = [job EXCEPT ![j].state = "running"] /\ job \in [Jobs -> JobRecord]
    BY <1>1, <1>2 DEF ChooseJob, Types
  <2> QED
    BY <2>1 DEF JobRecord
<1>7. pc'[w] = "run" /\ \A v \in Workers : v # w => pc'[v] = pc[v]
  BY <1>1, GotoElsewhere
<1>8. LeavesOthers(w)
  BY <1>3, <1>4, <1>5, <1>6, <1>7 DEF LeavesOthers
<1>9. \A q \in QueueIds : \A n \in ElementsOf(queues'[q].items) :
        n \in ElementsOf(queues[q].items) \/ OwnerOf(Asks(q[1], n)') = q[3]
  <2> DEFINE kind == "job"
  <2>1. kind \in {"job", "fiber"} /\ pc[w] = TakenAt(kind) /\ PutBack(kind, w)
    BY <1>1 DEF TakenAt
  <2> HIDE DEF kind
  <2> QED
    BY <1>8, <2>1, PutBackQueues
<1>10. job[j].affinity \in MayRun(w) /\ a = Mask(job[j].affinity)
  <2> DEFINE kind == "job"
  <2>1. kind \in {"job", "fiber"} /\ pc[w] = TakenAt(kind) /\ Asks(kind, j) = job[j].affinity
    BY <1>1 DEF TakenAt, Asks
  <2> HIDE DEF kind
  <2>2. Asks(kind, j) = QueueAsks(w, i)
    BY <1>2, <2>1, NoneApart DEF AffinityInv, HandsAgree
  <2>3. QueueAsks(w, i) \in MayRun(w) /\ a = Mask(QueueAsks(w, i))
    BY <2>1, QueueNames
  <2> QED
    BY <2>1, <2>2, <2>3
<1> HIDE DEF a
<1>11. HandsAgree(w)'
  BY <1>7 DEF HandsAgree, TakenAt
<1>12. RunsAgree(w)'
  <2>1. Frame(w)'.job = j /\ job'[j].affinity = job[j].affinity
    BY <1>4, <1>5, <1>6 DEF Frame
  <2>2. worker'[w].affinity = Mask(job'[Frame(w)'.job].affinity)
    BY <1>4, <1>10, <2>1
  <2>3. MayCarry(job'[Frame(w)'.job].affinity, w, Frame(w)'.job, Frame(w)'.ip)
    BY <1>10, <2>1 DEF MayCarry, MayRun
  <2> QED
    BY <1>7, <2>2, <2>3 DEF RunsAgree, Switching, Mask, MayCarry, MayRun, Waited
<1>13. \A f \in Fibers : f = worker[w].current => WaitsAgree(f)'
  BY <1>3, <1>5 DEF WaitsAgree
<1> QED
  BY <1>8, <1>9, <1>11, <1>12, <1>13, AffinityMoves

-----------------------------------------------------------------------------
(* Operations.                                                             *)

\* The job on a worker has the worker's affinity while it advances.
LEMMA OperationAffinity ==
  ASSUME IInv, AffinityInv, NEW w \in Workers, pc[w] = "run", Advance(w), UNCHANGED <<pc, worker>>,
         \A j \in Jobs : job[j].state # "new" => job'[j].affinity = job[j].affinity
  PROVE  /\ LeavesOthers(w) /\ HandsAgree(w)' /\ RunsAgree(w)'
         /\ \A f \in Fibers : f = worker[w].current => ~fiber'[f].waiting
<1>1. \A f \in Fibers : SameFrame(fiber[f], fiber'[f]) /\ fiber'[f].job = fiber[f].job
  BY Advances
<1>2. \A f \in Fibers : fiber'[f].waiting = fiber[f].waiting /\ fiber'[f].affinity = fiber[f].affinity
  BY <1>1 DEF SameFrame
<1>3. PICK c \in Fibers, j \in Jobs : c = worker[w].current /\ Frame(w) = fiber[c] /\ j = fiber[c].job
  BY RunsJob
<1>4. ~fiber[c].waiting /\ job[j].state = "running"
  BY <1>3, RunsJob DEF IInv, JobsCarried, Carried
<1>5. LeavesOthers(w)
  <2>1. \A f \in Fibers : f # worker[w].current => fiber'[f].ip = fiber[f].ip
    BY Advances
  <2> QED
    BY <1>1, <1>2, <2>1 DEF LeavesOthers
<1>6. HandsAgree(w)'
  BY DEF HandsAgree, TakenAt
<1>7. RunsAgree(w)'
  <2>1. worker[w].affinity = Mask(job[j].affinity) /\ MayCarry(job[j].affinity, w, j, fiber[c].ip)
    BY <1>3 DEF AffinityInv, RunsAgree
  <2>2. /\ Frame(w)'.job = j /\ Frame(w)'.ip = fiber[c].ip + 1 /\ fiber[c].ip \in Nat
        /\ job'[j].affinity = job[j].affinity
    BY <1>1, <1>3, <1>4, Advances DEF Frame
  <2>3. Waited(j, fiber[c].ip) => Waited(j, fiber[c].ip + 1)
    <3>1. Program[j] \in Seq(Operations)
      BY JobSystemAssumption
    <3>2. DOMAIN Program[j] \subseteq Nat
      BY <3>1
    <3> QED
      BY <2>2, <3>2 DEF Waited
  <2>4. worker'[w].affinity = Mask(job'[Frame(w)'.job].affinity)
    BY <2>1, <2>2
  <2>5. MayCarry(job'[Frame(w)'.job].affinity, w, Frame(w)'.job, Frame(w)'.ip)
    BY <2>1, <2>2, <2>3 DEF MayCarry
  <2> QED
    BY <2>4, <2>5 DEF RunsAgree, Switching, Mask, MayCarry, MayRun, Waited
<1>8. \A f \in Fibers : f = worker[w].current => ~fiber'[f].waiting
  BY <1>2, <1>3, <1>4
<1> QED
  BY <1>5, <1>6, <1>7, <1>8

\* Stop, and a Wait on a signalled group, keep the invariant.
LEMMA AdvanceAffinity ==
  ASSUME IInv, AffinityInv, NEW w \in Workers, Stop(w) \/ WaitSignaled(w) PROVE AffinityInv'
<1>1. pc[w] = "run" /\ Advance(w) /\ UNCHANGED <<pc, worker, queues, job>>
  BY DEF Stop, WaitSignaled, Executes, At
<1>2. /\ LeavesOthers(w) /\ HandsAgree(w)' /\ RunsAgree(w)'
      /\ \A f \in Fibers : f = worker[w].current => ~fiber'[f].waiting
  BY <1>1, OperationAffinity
<1> QED
  BY <1>1, <1>2, AffinityKept

\* JobSystem::Schedule puts a job into the queue its affinity names.
LEMMA ScheduleAffinity ==
  ASSUME IInv, AffinityInv, NEW w \in Workers, Schedule(w) PROVE AffinityInv'
<1>1. pc[w] = "run" /\ Executes(w, "schedule") /\ Advance(w) /\ UNCHANGED <<pc, worker>>
  BY OperationIs DEF Schedule
<1>2. PICK j \in Jobs : j = Operation(w).job
  BY <1>1, OperationIs
<1>3. PICK a \in Affinities : a = IF AffinityOf[j] = "self" THEN w ELSE AffinityOf[j]
  <2>1. AffinityOf[j] \in Affinities \union {"self"} /\ w \in Affinities
    BY JobSystemAssumption DEF Affinities
  <2> QED
    BY <2>1
<1>4. PICK q \in QueueIds : q = <<"job", PriorityOf[j], OwnerOf(a)>> /\ q[1] = "job" /\ q[3] = OwnerOf(a)
  <2>1. PriorityOf[j] \in Priorities
    BY JobSystemAssumption
  <2>2. <<"job", PriorityOf[j], OwnerOf(a)>> \in QueueIds
    BY <2>1, OwnerIsQueue
  <2> QED
    BY <2>2
<1>5. /\ EnqueueInto(q, j)
      /\ job' = [job EXCEPT ![j] = [state |-> "queued", hint |-> jobCounter, affinity |-> a]]
  BY <1>2, <1>3, <1>4 DEF Schedule
<1>6. job'[j].affinity = a /\ \A x \in Jobs : x # j => job'[x] = job[x]
  BY <1>5 DEF IInv, Types
<1>7. job[j].state = "new"
  BY <1>1, <1>2, ScheduledIsNew
<1>8. /\ LeavesOthers(w) /\ HandsAgree(w)' /\ RunsAgree(w)'
      /\ \A f \in Fibers : f = worker[w].current => ~fiber'[f].waiting
  BY <1>1, <1>6, <1>7, OperationAffinity
<1>9. j \in NodesOf(q[1]) /\ j \notin ElementsOf(queues[q].items) /\ Types /\ OneHolder
  <2>1. HoldersOf(j) = {}
    BY <1>7 DEF IInv, JobsHeld
  <2> QED
    BY <1>4, <2>1, HolderIs DEF NodesOf, IInv
<1>10. \A x \in QueueIds : \A n \in ElementsOf(queues'[x].items) :
         n \in ElementsOf(queues[x].items) \/ OwnerOf(Asks(x[1], n)') = x[3]
  <2> SUFFICES ASSUME NEW x \in QueueIds, NEW n \in ElementsOf(queues'[x].items),
                      n \notin ElementsOf(queues[x].items)
               PROVE  OwnerOf(Asks(x[1], n)') = x[3]
    OBVIOUS
  <2>1. /\ x # q => queues'[x] = queues[x]
        /\ queues'[q] = Enqueued(queues[q], j)
    BY <1>5, <1>9 DEF EnqueueInto, Types
  <2>2. ElementsOf(Enqueued(queues[q], j).items) \subseteq ElementsOf(queues[q].items) \union {j}
    BY <1>9, EnqueuedContents
  <2>3. x = q /\ n = j
    BY <2>1, <2>2
  <2> QED
    BY <1>4, <1>6, <2>3 DEF Asks
<1>11. \A f \in Fibers : f = worker[w].current => WaitsAgree(f)'
  BY <1>8 DEF WaitsAgree
<1> QED
  BY <1>8, <1>10, <1>11, AffinityMoves

\* A fiber begins to wait with the affinity of its job.
LEMMA WaitPublishAffinity ==
  ASSUME IInv, AffinityInv, NEW w \in Workers, WaitPublish(w) PROVE AffinityInv'
<1>1. pc[w] = "run" /\ Goto(w, "park") /\ UNCHANGED <<worker, queues, job>>
  BY DEF WaitPublish, Executes, At
<1>2. PICK c \in Fibers : c = worker[w].current /\ Frame(w) = fiber[c] /\ ~fiber[c].waiting
  BY <1>1, RunsJob
<1>3. /\ fiber'[c].job = fiber[c].job /\ fiber'[c].affinity = worker[w].affinity
      /\ \A f \in Fibers : f # c => fiber'[f] = fiber[f]
  <2> DEFINE a == worker[w].affinity
  <2> DEFINE p == worker[w].level
  <2>1. a \in Affinities \union {"none"} /\ p \in Priorities
    BY EmptyHanded, WorkerFields
  <2> DEFINE s == [fiber[c] EXCEPT !.waiting = TRUE, !.resume = "wait", !.affinity = a, !.priority = p]
  <2>2. fiber' = [fiber EXCEPT ![c] = s] /\ Types /\ fiber[c] \in FiberRecord
    BY <1>2 DEF WaitPublish, IInv, Types
  <2> HIDE DEF a, p
  <2>3. s \in FiberRecord /\ s.job = fiber[c].job /\ s.affinity = a
    BY <2>1, <2>2 DEF FiberRecord
  <2> HIDE DEF s
  <2>4. fiber'[c] = s /\ \A f \in Fibers : f # c => fiber'[f] = fiber[f]
    BY <2>2, <2>3, OneFiber
  <2> QED
    BY <2>3, <2>4 DEF a
<1>4. pc'[w] = "park" /\ \A v \in Workers : v # w => pc'[v] = pc[v]
  BY <1>1, GotoElsewhere
<1>5. LeavesOthers(w)
  BY <1>1, <1>2, <1>3, <1>4 DEF LeavesOthers
<1>6. WaitsAgree(c)'
  <2>1. worker[w].affinity = Mask(job[fiber[c].job].affinity)
    BY <1>1, <1>2 DEF AffinityInv, RunsAgree
  <2> QED
    BY <1>1, <1>3, <2>1 DEF WaitsAgree, Mask
<1>7. HandsAgree(w)' /\ RunsAgree(w)'
  BY <1>4, IdleAgrees
<1>8. \A f \in Fibers : f = worker[w].current => WaitsAgree(f)'
  BY <1>2, <1>6
<1>9. \A q \in QueueIds : \A n \in ElementsOf(queues'[q].items) : n \in ElementsOf(queues[q].items)
  BY <1>1
<1> QED
  BY <1>5, <1>7, <1>8, <1>9, AffinityMoves

\* The end of a job keeps the invariant.
LEMMA SignalCompletionAffinity ==
  ASSUME IInv, AffinityInv, NEW w \in Workers, SignalCompletion(w) PROVE AffinityInv'
<1>1. pc[w] = "run" /\ Types
  BY DEF SignalCompletion, At, IInv
<1>2. PICK c \in Fibers, j \in Jobs :
        /\ c = worker[w].current /\ j = Frame(w).job
        /\ fiber[c] \in FiberRecord /\ ~fiber[c].waiting
  BY <1>1, RunsJob
<1>3. PICK g \in Groups \union {None} : g = CompletionOf[j]
  BY JobSystemAssumption
<1>4. CASE g # None /\ group[g].count < 1
  <2>1. UNCHANGED <<pc, worker, fiber, queues, job>>
    BY <1>2, <1>3, <1>4 DEF SignalCompletion, Fail
  <2> QED
    BY <2>1, AffinityStill
<1>5. CASE ~(g # None /\ group[g].count < 1)
  <2>1. PICK label \in {"signal", "loop"} :
          /\ job' = [job EXCEPT ![j].state = "done"]
          /\ fiber' = [fiber EXCEPT ![c].job = None, ![c].ip = 0]
          /\ worker' = [worker EXCEPT ![w].signaled = g]
          /\ Goto(w, label) /\ UNCHANGED queues
    BY <1>2, <1>3, <1>5 DEF SignalCompletion
  <2>2. pc'[w] = label /\ \A v \in Workers : v # w => pc'[v] = pc[v]
    BY <2>1, GotoElsewhere
  <2>3. \A v \in Workers : v # w => worker'[v] = worker[v]
    BY <2>1, OtherWorkers
  <2>4. \A k \in Jobs : job'[k].affinity = job[k].affinity
    BY <1>1, <2>1 DEF Types, JobRecord
  <2>5. ~fiber'[c].waiting /\ \A f \in Fibers : f # c => fiber'[f] = fiber[f]
    <3> DEFINE z == 0
    <3> DEFINE s == [fiber[c] EXCEPT !.job = None, !.ip = z]
    <3>1. fiber' = [fiber EXCEPT ![c] = s] /\ z \in Nat
      BY <1>1, <2>1 DEF Types
    <3> HIDE DEF z
    <3>2. s \in FiberRecord /\ s.waiting = fiber[c].waiting
      BY <1>2, <3>1 DEF FiberRecord
    <3> HIDE DEF s
    <3> QED
      BY <1>1, <1>2, <3>1, <3>2, OneFiber
  <2>6. LeavesOthers(w)
    BY <1>2, <2>2, <2>3, <2>4, <2>5 DEF LeavesOthers
  <2>7. HandsAgree(w)' /\ RunsAgree(w)'
    BY <2>2, IdleAgrees
  <2> QED
    BY <1>2, <2>1, <2>5, <2>6, <2>7, AffinityKept
<1> QED
  BY <1>4, <1>5

\* AddReadyFiber puts a fiber into the queue its affinity names.
LEMMA AddReadyFiberAffinity ==
  ASSUME IInv, AffinityInv, NEW w \in Workers, AddReadyFiber(w) PROVE AffinityInv'
<1>1. pc[w] = "drain" /\ worker[w].drain # <<>> /\ UNCHANGED <<pc, job>> /\ Types /\ OneHolder
  BY DEF AddReadyFiber, At, IInv
<1>2. PICK f \in Fibers : f = Head(worker[w].drain) /\ f \in ElementsOf(worker[w].drain)
  <2>1. worker[w].drain \in Seq(Fibers) /\ Distinct(worker[w].drain)
    BY <1>1, EmptyHanded, WorkerFields DEF OneHolder
  <2> QED
    BY <1>1, <2>1, TailElements
<1>3. fiber[f].waiting /\ fiber[f].affinity \in Affinities
  <2>1. <<"drain", w>> \in HoldersOf(f)
    BY <1>2, HolderIs
  <2> QED
    BY <2>1 DEF IInv, WaitingFibers, FramesOfJobs
<1>4. PICK q \in QueueIds : /\ q = <<"fiber", fiber[f].priority, OwnerOf(fiber[f].affinity)>>
                            /\ q[1] = "fiber" /\ q[3] = OwnerOf(fiber[f].affinity)
  <2> DEFINE p == fiber[f].priority
  <2> DEFINE a == fiber[f].affinity
  <2>1. p \in Priorities /\ a \in Affinities
    BY <1>1, <1>3, FiberFields DEF Types
  <2> HIDE DEF p, a
  <2>2. <<"fiber", p, OwnerOf(a)>> \in QueueIds
    BY <2>1, OwnerIsQueue
  <2> QED
    BY <2>2 DEF p, a
<1>5. EnqueueInto(q, f)
  BY <1>2, <1>4 DEF AddReadyFiber
<1>6. \A h \in Fibers : /\ fiber'[h].waiting = fiber[h].waiting /\ fiber'[h].job = fiber[h].job
                        /\ fiber'[h].affinity = fiber[h].affinity /\ fiber'[h].ip = fiber[h].ip
  <2> DEFINE s == [fiber[f] EXCEPT !.hint = jobCounter]
  <2>1. fiber' = [fiber EXCEPT ![f] = s] /\ fiber[f] \in FiberRecord /\ jobCounter \in Nat
    BY <1>1, <1>2 DEF AddReadyFiber, Types
  <2>2. s \in FiberRecord /\ SameFrame(fiber[f], s) /\ s.job = fiber[f].job /\ s.ip = fiber[f].ip
    BY <2>1, FiberHint
  <2> HIDE DEF s
  <2>3. fiber'[f] = s /\ \A h \in Fibers : h # f => fiber'[h] = fiber[h]
    BY <1>1, <2>1, <2>2, OneFiber
  <2> QED
    BY <2>2, <2>3 DEF SameFrame
<1>7. \A v \in Workers : v # w => worker'[v] = worker[v]
  BY <1>1 DEF AddReadyFiber, Types
<1>8. LeavesOthers(w)
  BY <1>1, <1>6, <1>7 DEF LeavesOthers
<1>9. \A x \in QueueIds : \A n \in ElementsOf(queues'[x].items) :
        n \in ElementsOf(queues[x].items) \/ OwnerOf(Asks(x[1], n)') = x[3]
  <2> SUFFICES ASSUME NEW x \in QueueIds, NEW n \in ElementsOf(queues'[x].items),
                      n \notin ElementsOf(queues[x].items)
               PROVE  OwnerOf(Asks(x[1], n)') = x[3]
    OBVIOUS
  <2>1. /\ x # q => queues'[x] = queues[x]
        /\ queues'[q] = Enqueued(queues[q], f)
    BY <1>1, <1>5 DEF EnqueueInto, Types
  <2>2. f \in NodesOf(q[1]) /\ f \notin ElementsOf(queues[q].items)
    <3>1. f \in Nodes
      BY DEF Nodes
    <3> QED
      BY <1>1, <1>2, <1>4, <3>1, OnePlace DEF NodesOf
  <2>3. ElementsOf(Enqueued(queues[q], f).items) \subseteq ElementsOf(queues[q].items) \union {f}
    BY <1>1, <2>2, EnqueuedContents
  <2>4. x = q /\ n = f
    BY <2>1, <2>3
  <2> QED
    BY <1>4, <1>6, <2>4 DEF Asks
<1>10. HandsAgree(w)' /\ RunsAgree(w)'
  BY <1>1, IdleAgrees
<1>11. \A h \in Fibers : h = worker[w].current => WaitsAgree(h)'
  BY <1>1, <1>6 DEF AffinityInv, WaitsAgree, Mask
<1> QED
  BY <1>8, <1>9, <1>10, <1>11, AffinityMoves

-----------------------------------------------------------------------------
(* The whole.                                                              *)

\* The root job is in the queue its affinity names.
LEMMA AffinityInit == ASSUME Init PROVE AffinityInv
<1> DEFINE root == <<"job", PriorityOf[RootJob], OwnerOf(AffinityOf[RootJob])>>
<1>1. QueuesAgree
  <2> SUFFICES ASSUME NEW q \in QueueIds, NEW n \in ElementsOf(queues[q].items)
               PROVE  OwnerOf(Asks(q[1], n)) = q[3]
    BY DEF QueuesAgree
  <2>1. queues[q] = IF q = root THEN Enqueued(EmptyQueue, RootJob) ELSE EmptyQueue
    BY DEF Init
  <2>2. ElementsOf(EmptyQueue.items) = {}
    BY EmptyElements DEF EmptyQueue
  <2>3. Enqueued(EmptyQueue, RootJob).items = <<RootJob>>
    BY DEF Enqueued, EmptyQueue
  <2>4. ElementsOf(<<RootJob>>) = {RootJob}
    BY DEF ElementsOf
  <2>5. q = root /\ n = RootJob
    BY <2>1, <2>2, <2>3, <2>4
  <2>6. q[1] = "job" /\ q[3] = OwnerOf(AffinityOf[RootJob])
    BY <2>5
  <2>7. job[RootJob].affinity = AffinityOf[RootJob]
    BY JobSystemAssumption DEF Init
  <2> QED
    BY <2>5, <2>6, <2>7 DEF Asks
<1>2. \A w \in Workers : HandsAgree(w) /\ RunsAgree(w)
  BY DEF Init, HandsAgree, RunsAgree, TakenAt, Switching
<1>3. \A f \in Fibers : WaitsAgree(f)
  BY DEF Init, WaitsAgree
<1> QED
  BY <1>1, <1>2, <1>3 DEF AffinityInv

\* Every step keeps queues, hands, waits and workers in agreement.
LEMMA AffinityStep ==
  ASSUME IInv, WaitInv, AffinityInv, [Next]_vars PROVE AffinityInv'
<1>1. CASE Ended \/ UNCHANGED vars
  <2>1. UNCHANGED <<pc, worker, fiber, queues, job>>
    BY <1>1 DEF Ended, vars
  <2> QED
    BY <2>1, AffinityStill
<1>2. ASSUME NEW w \in Workers, Step(w) PROVE AffinityInv'
  <2>1. CASE Start(w) \/ ThreadProc(w) \/ SwitchFromWaitingFiber(w)
    BY <2>1, FreshAffinity
  <2>2. CASE CleanUpUpdate(w)
    BY <2>2, CleanUpUpdateAffinity
  <2>3. CASE CleanUpMark(w)
    BY <2>3, CleanUpMarkAffinity
  <2>4. CASE LoopHead(w) \/ NoJob(w) \/ SignalDone(w) \/ SignalImpl(w)
    BY <2>4, LoopAffinity
  <2>5. CASE LockConsumers(w) \/ NoFiber(w)
    BY <2>5, LookingAffinity
  <2>6. CASE LookForFiber(w) \/ LookForJob(w)
    <3>1. CASE LookForFiber(w)
      <4> DEFINE kind == "fiber"
      <4>1. kind \in {"job", "fiber"} /\ pc[w] = TakenAt(kind) /\ Look(kind, w)
        BY <3>1 DEF LookForFiber, TakenAt, At
      <4> HIDE DEF kind
      <4> QED
        BY <4>1, LookAffinity
    <3>2. CASE LookForJob(w)
      <4> DEFINE kind == "job"
      <4>1. kind \in {"job", "fiber"} /\ pc[w] = TakenAt(kind) /\ Look(kind, w)
        BY <3>2 DEF LookForJob, TakenAt, At
      <4> HIDE DEF kind
      <4> QED
        BY <4>1, LookAffinity
    <3> QED
      BY <2>6, <3>1, <3>2
  <2>7. CASE ChooseFiber(w)
    BY <2>7, ChooseFiberAffinity
  <2>8. CASE ResumeFiber(w)
    BY <2>8, ResumeFiberAffinity
  <2>9. CASE ChooseJob(w)
    BY <2>9, ChooseJobAffinity
  <2>10. CASE Schedule(w)
    BY <2>10, ScheduleAffinity
  <2>11. CASE Stop(w) \/ WaitSignaled(w)
    BY <2>11, AdvanceAffinity
  <2>12. CASE WaitPublish(w)
    BY <2>12, WaitPublishAffinity
  <2>13. CASE SignalCompletion(w)
    BY <2>13, SignalCompletionAffinity
  <2>14. CASE AddReadyFiber(w)
    BY <2>14, AddReadyFiberAffinity
  <2> QED
    BY <1>2, <2>1, <2>2, <2>3, <2>4, <2>5, <2>6, <2>7, <2>8, <2>9, <2>10, <2>11, <2>12,
       <2>13, <2>14 DEF Step
<1> QED
  BY <1>1, <1>2 DEF Next

\* Every job runs, from its first operation to its last and across every wait, on
\* a worker its affinity allows: queues, hands and wait entries hand the affinity
\* on.  Only the mask in a wait entry cannot tell background worker 32 + i from
\* foreground worker i, so that a job pinned to the former may go on on the latter.
THEOREM JobSystemAffinity == Spec => []RunsWhereAllowed
<1>1. Init => AffinityInv
  BY AffinityInit
<1>2. IInv /\ WaitInv /\ AffinityInv /\ [Next]_vars => AffinityInv'
  BY AffinityStep
<1>3. AffinityInv => RunsWhereAllowed
  BY DEF AffinityInv, RunsAgree, RunsWhereAllowed, MayRun, MayCarry
<1> QED
  BY <1>1, <1>2, <1>3, JobSystemInvariant, JobSystemWaits, PTL DEF Spec
=============================================================================
