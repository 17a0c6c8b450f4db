---------------------------- MODULE AsyncStreamIO ----------------------------
(***************************************************************************)
(* FeCore/IO/AsyncStreamIO: clients enqueue read requests by priority; one *)
(* reader thread takes them, reads the file and calls back.  A request for *)
(* compressed blocks is read completely and then decompressed by one job   *)
(* per block; the jobs run in any order, concurrently, each calls back for *)
(* its block, and the last deletes the entry of the request.               *)
(*                                                                         *)
(* The queue is sorted by rising priority value and served from its front: *)
(* a request of the highest priority is served last (HigherServedFirst).   *)
(*                                                                         *)
(* Every access to a file may fail.  A callback looks at the status        *)
(* through the controller it is given, as the asset managers do.  The job  *)
(* system is modules JobSystem and WaitGroup: here a scheduled job takes   *)
(* its next step some time.  The queue event is external.                  *)
(*                                                                         *)
(* The destructor joins the reader and then gives back the pools of        *)
(* entries, jobs and controllers, whoever still uses them.                 *)
(*                                                                         *)
(* Faulty variants that Next does not use stand beside some definitions.   *)
(***************************************************************************)
EXTENDS Integers, FiniteSets, SequencesExt

CONSTANTS
  Requests,     \* the calls of ReadAsync
  KindOf,       \* "read", "block", or "raw" (m_decompress = false)
  PriorityOf,   \* the priority of each
  BlockCount,   \* m_blockCount of each
  Kept          \* the requests whose client keeps the controller

NoRequest == "no request"   \* the null pointer

ASSUME RequestsAssumption ==
  /\ NoRequest \notin Requests
  /\ KindOf \in [Requests -> {"read", "block", "raw"}]
  /\ PriorityOf \in [Requests -> Int]
  /\ BlockCount \in [Requests -> Nat \ {0}]
  /\ Kept \subseteq Requests

VARIABLES
  pc,             \* where the reader thread is
  created,        \* the constructor has created m_queueEvent
  queueEvent,
  destroyer,      \* how far the destructor is
  queue,          \* m_queue
  current,        \* the request being processed, or NoRequest
  outcome,        \* the local `status` of the request being processed
  blocksRead,     \* blocks of it that have been read
  jobs,           \* where the decompression job of each block is
  entries,        \* the queue entry of each request
  answers,        \* history: block and status of each callback
  arrived,        \* history: the requests in the order they were enqueued
  withdrawn,      \* history: the requests cancelled before they were taken
  corrupt,        \* the blocks that did not decompress, until their job is deleted
  fault           \* who touched deleted memory or a missing event

vars == <<pc, created, queueEvent, destroyer, queue, current, outcome, blocksRead, jobs,
          entries, answers, arrived, withdrawn, corrupt, fault>>

BlocksOf(r) == {<<r, b>> : b \in 0 .. BlockCount[r] - 1}
AllBlocks == UNION {BlocksOf(r) : r \in Requests}

Init ==
  /\ pc = "top"
  /\ created = FALSE /\ queueEvent = FALSE /\ destroyer = "idle"
  /\ queue = <<>> /\ current = NoRequest
  /\ outcome = "succeeded" /\ blocksRead = 0
  /\ jobs = [rb \in AllBlocks |-> "none"]
  /\ entries = [r \in Requests |->
       [alive |-> FALSE, status |-> "queued", cancel |-> FALSE, remaining |-> 0]]
  /\ answers = [r \in Requests |-> <<>>]
  /\ arrived = <<>> /\ withdrawn = {} /\ corrupt = {}
  /\ fault = "none"

At(label) == fault = "none" /\ pc = label
exitRequested == destroyer # "idle"   \* m_exitRequested
Issued == {arrived[i] : i \in DOMAIN arrived}

-----------------------------------------------------------------------------
(* The clients.                                                            *)

ReaderState == <<pc, current, outcome, blocksRead, jobs, corrupt>>

\* The constructor starts the reader and then creates the event.
Construct ==
  /\ ~created
  /\ created' = TRUE
  /\ UNCHANGED <<queueEvent, destroyer, queue, entries, answers, arrived, withdrawn,
                 fault, ReaderState>>

\* upper_bound on the sorted queue: the place after all that do not exceed the value.
LowerBound(priority) == 1 + Cardinality({i \in DOMAIN queue : PriorityOf[queue[i]] < priority})
UpperBound(priority) == 1 + Cardinality({i \in DOMAIN queue : PriorityOf[queue[i]] <= priority})

\* ReadAsync under m_queueLock.
ReadAsync(r) ==
  /\ fault = "none" /\ created /\ ~exitRequested /\ r \notin Issued
  /\ queue' = InsertAt(queue, UpperBound(PriorityOf[r]), r)
  /\ queueEvent' = TRUE
  /\ entries' = [entries EXCEPT ![r].alive = TRUE]
  /\ arrived' = Append(arrived, r)
  /\ UNCHANGED <<created, destroyer, answers, withdrawn, fault, ReaderState>>

\* The destructor is through: the members, and the pages of the pools, are gone.
PoolsGone == destroyer = "gone"

\* IAsyncController::Cancel, on the entry it points to.
Cancel(r) ==
  /\ fault = "none" /\ r \in Kept \intersect Issued /\ entries[r].alive /\ ~PoolsGone
  /\ ~entries[r].cancel
  /\ entries' = [entries EXCEPT ![r].cancel = TRUE]
  /\ withdrawn' = IF Contains(queue, r) THEN withdrawn \union {r} ELSE withdrawn
  /\ UNCHANGED <<created, queueEvent, destroyer, queue, answers, arrived, fault, ReaderState>>

\* IAsyncController::GetStatus after the entry, or the controller, is deleted.
LateGetStatus(r) ==
  /\ fault = "none" /\ r \in Kept \intersect Issued /\ (~entries[r].alive \/ PoolsGone)
  /\ fault' = "controller"
  /\ UNCHANGED <<created, queueEvent, destroyer, queue, entries, answers, arrived,
                 withdrawn, ReaderState>>

\* The destructor: the flag, then the event; the join is the end of the reader.
DestroyFlag ==
  /\ fault = "none" /\ created /\ destroyer = "idle"
  /\ destroyer' = "send"
  /\ UNCHANGED <<created, queueEvent, queue, entries, answers, arrived, withdrawn, fault,
                 ReaderState>>

DestroySend ==
  /\ fault = "none" /\ destroyer = "send"
  /\ destroyer' = "join"
  /\ queueEvent' = TRUE
  /\ UNCHANGED <<created, queue, entries, answers, arrived, withdrawn, fault, ReaderState>>

\* After the join the members are destroyed, the pools with all their pages.
DestroyPools ==
  /\ At("exited") /\ destroyer = "join"
  /\ destroyer' = "gone"
  /\ UNCHANGED <<created, queueEvent, queue, entries, answers, arrived, withdrawn, fault,
                 ReaderState>>

Destructor == DestroySend \/ DestroyPools

-----------------------------------------------------------------------------
(* The reader thread.                                                      *)

ClientState == <<created, destroyer, arrived, withdrawn>>

\* The top of the loop.
ContinueBlindly == "wait"
Continue == IF exitRequested THEN "exited" ELSE "wait"

LoopTop ==
  /\ At("top")
  /\ pc' = Continue
  /\ UNCHANGED <<queueEvent, queue, current, outcome, blocksRead, jobs, corrupt, entries,
                 answers, fault, ClientState>>

\* m_queueEvent.Wait() before the constructor has created it.
WaitFailed ==
  /\ At("wait") /\ ~created
  /\ fault' = "event"
  /\ UNCHANGED <<pc, queueEvent, queue, current, outcome, blocksRead, jobs, corrupt, entries,
                 answers, ClientState>>

\* m_queueEvent.Wait() passes; the flag is looked at right after it.
Wake ==
  /\ At("wait") /\ created /\ queueEvent
  /\ pc' = IF exitRequested THEN "exited" ELSE "take"
  /\ UNCHANGED <<queueEvent, queue, current, outcome, blocksRead, jobs, corrupt, entries,
                 answers, fault, ClientState>>

\* What the reader leaves in the event after it looked into the queue.
EventReset == FALSE
EventAfterTake == queueEvent /\ queue # <<>>

\* Under m_queueLock.
Take ==
  /\ At("take")
  /\ queueEvent' = EventAfterTake
  /\ IF queue = <<>>
     THEN pc' = "top" /\ UNCHANGED <<queue, current>>
     ELSE pc' = "begin" /\ queue' = Tail(queue) /\ current' = Head(queue)
  /\ UNCHANGED <<outcome, blocksRead, jobs, corrupt, entries, answers, fault, ClientState>>

Running == "running"
StatusOnTake == IF entries[current].cancel THEN "canceled" ELSE "running"

Begin ==
  /\ At("begin")
  /\ entries' = [entries EXCEPT ![current].status = StatusOnTake]
  /\ blocksRead' = 0
  /\ pc' = "open"
  /\ UNCHANGED <<queueEvent, queue, current, outcome, jobs, corrupt, answers, fault, ClientState>>

\* ProcessGenericRequest and the seek: a cancelled request is not opened.
Open ==
  /\ At("open")
  /\ IF entries[current].status = "canceled"
     THEN outcome' = "canceled" /\ pc' = "store"
     ELSE \/ outcome' = "failed" /\ pc' = "store"
          \/ outcome' = "succeeded" /\ pc' = IF KindOf[current] = "read" THEN "store" ELSE "blocks"
  /\ UNCHANGED <<queueEvent, queue, current, blocksRead, jobs, corrupt, entries, answers,
                 fault, ClientState>>

\* A callback queries the status through the controller.
Called(r, block) == answers' = [answers EXCEPT ![r] =
                                  Append(@, [block |-> block, status |-> entries[r].status])]

\* One block is read: its job is prepared, or the raw data is handed over.
ReadBlock ==
  /\ At("blocks") /\ blocksRead < BlockCount[current]
  /\ blocksRead' = blocksRead + 1
  /\ IF KindOf[current] = "raw"
     THEN Called(current, blocksRead) /\ UNCHANGED jobs
     ELSE jobs' = [jobs EXCEPT ![<<current, blocksRead>>] = "made"] /\ UNCHANGED answers
  /\ UNCHANGED <<pc, queueEvent, queue, current, outcome, corrupt, entries, fault, ClientState>>

Made(r) == {rb \in BlocksOf(r) : jobs[rb] = "made"}

\* A block cannot be read: the jobs are deleted and the request fails as a whole.
ReadFails ==
  /\ At("blocks") /\ blocksRead < BlockCount[current]
  /\ outcome' = "failed"
  /\ jobs' = [rb \in DOMAIN jobs |-> IF rb \in Made(current) THEN "none" ELSE jobs[rb]]
  /\ pc' = "store"
  /\ UNCHANGED <<queueEvent, queue, current, blocksRead, corrupt, entries, answers, fault,
                 ClientState>>

\* m_remainingBlockCount: the jobs to wait for, and not the reader.
AwaitedWithReader == Cardinality(Made(current)) + 1
Awaited == Cardinality(Made(current))

\* All blocks are read: the request is answered by its jobs.
Dispatch ==
  /\ At("blocks") /\ blocksRead = BlockCount[current]
  /\ entries' = [entries EXCEPT ![current].remaining = Awaited]
  /\ pc' = "schedule"
  /\ UNCHANGED <<queueEvent, queue, current, outcome, blocksRead, jobs, corrupt, answers,
                 fault, ClientState>>

\* The next job is scheduled; its priority is read from the entry first.
Schedule ==
  /\ At("schedule") /\ Made(current) # {}
  /\ IF entries[current].alive
     THEN /\ \E rb \in Made(current) :
               /\ \A other \in Made(current) : rb[2] <= other[2]
               /\ jobs' = [jobs EXCEPT ![rb] = "scheduled"]
          /\ UNCHANGED fault
     ELSE fault' = "reader" /\ UNCHANGED jobs
  /\ UNCHANGED <<pc, queueEvent, queue, current, outcome, blocksRead, corrupt, entries,
                 answers, ClientState>>

\* The deferred callback is dismissed once the jobs will answer.
AnswersToo == "store"
NextRequest == "top"

Scheduled ==
  /\ At("schedule") /\ Made(current) = {}
  /\ pc' = NextRequest
  /\ current' = IF NextRequest = "top" THEN NoRequest ELSE current
  /\ UNCHANGED <<queueEvent, queue, outcome, blocksRead, jobs, corrupt, entries, answers,
                 fault, ClientState>>

\* The deferred callback: the status is stored, the client called, the entry deleted.
Store ==
  /\ At("store")
  /\ entries' = [entries EXCEPT ![current].status = outcome]
  /\ pc' = "call"
  /\ UNCHANGED <<queueEvent, queue, current, outcome, blocksRead, jobs, corrupt, answers,
                 fault, ClientState>>

Call ==
  /\ At("call")
  /\ Called(current, IF KindOf[current] = "raw" /\ blocksRead > 0 THEN blocksRead - 1 ELSE 0)
  /\ pc' = "delete"
  /\ UNCHANGED <<queueEvent, queue, current, outcome, blocksRead, jobs, corrupt, entries,
                 fault, ClientState>>

Delete ==
  /\ At("delete")
  /\ entries' = [entries EXCEPT ![current].alive = FALSE]
  /\ current' = NoRequest
  /\ pc' = "top"
  /\ UNCHANGED <<queueEvent, queue, outcome, blocksRead, jobs, corrupt, answers, fault,
                 ClientState>>

ReaderStep ==
  \/ LoopTop \/ Wake \/ Take \/ Begin \/ Open \/ ReadBlock \/ ReadFails \/ Dispatch
  \/ Schedule \/ Scheduled \/ Store \/ Call \/ Delete

-----------------------------------------------------------------------------
(* BlockDecompressJob::Execute.                                            *)

Elsewhere == <<pc, queueEvent, queue, current, outcome, blocksRead, ClientState>>

\* A step of a job that reaches for its entry.
JobAt(rb, label) == fault = "none" /\ ~PoolsGone /\ jobs[rb] = label
JobTouches(rb) == IF entries[rb[1]].alive THEN UNCHANGED fault ELSE fault' = "job"
JobGoto(rb, label) == jobs' = [jobs EXCEPT ![rb] = label]

\* The pages are decompressed; kSucceeded is stored before the result is looked at.
Decompress(rb) ==
  /\ JobAt(rb, "scheduled") /\ JobTouches(rb)
  /\ entries' = [entries EXCEPT ![rb[1]].status = "succeeded"]
  /\ corrupt' \in {corrupt, corrupt \union {rb}}
  /\ JobGoto(rb, "store")
  /\ UNCHANGED <<answers, Elsewhere>>

StoreResult(rb) ==
  /\ JobAt(rb, "store") /\ JobTouches(rb)
  /\ entries' = [entries EXCEPT ![rb[1]].status = IF rb \in corrupt THEN "failed" ELSE "succeeded"]
  /\ JobGoto(rb, "call")
  /\ UNCHANGED <<answers, corrupt, Elsewhere>>

CallBack(rb) ==
  /\ JobAt(rb, "call") /\ JobTouches(rb)
  /\ Called(rb[1], rb[2])
  /\ JobGoto(rb, "leave")
  /\ UNCHANGED <<entries, corrupt, Elsewhere>>

\* m_remainingBlockCount.fetch_sub(1) == 1: the last job deletes the entry.
AnyIsLast(r) == TRUE
IsLast(r) == entries[r].remaining = 1

Leave(rb) ==
  /\ JobAt(rb, "leave") /\ JobTouches(rb)
  /\ entries' = [entries EXCEPT ![rb[1]].remaining = @ - 1,
                                ![rb[1]].alive = @ /\ ~IsLast(rb[1])]
  /\ corrupt' = corrupt \ {rb}
  /\ JobGoto(rb, "done")
  /\ UNCHANGED <<answers, Elsewhere>>

\* The pools are gone: the job reaches for itself and its entry all the same.
JobInUse(rb) == jobs[rb] \in {"scheduled", "store", "call", "leave"}

JobWithoutPools(rb) ==
  /\ fault = "none" /\ PoolsGone /\ JobInUse(rb)
  /\ fault' = "pool"
  /\ UNCHANGED <<jobs, entries, answers, corrupt, Elsewhere>>

JobStep(rb) ==
  Decompress(rb) \/ StoreResult(rb) \/ CallBack(rb) \/ Leave(rb) \/ JobWithoutPools(rb)

-----------------------------------------------------------------------------
JobsRest == \A rb \in AllBlocks : ~JobInUse(rb)

\* The service is gone and the jobs are through, or a fault stopped the program.
Ended ==
  /\ fault # "none" \/ (PoolsGone /\ JobsRest)
  /\ UNCHANGED vars

Next ==
  \/ Construct \/ DestroyFlag \/ Destructor \/ WaitFailed \/ ReaderStep \/ Ended
  \/ \E r \in Requests : ReadAsync(r) \/ Cancel(r) \/ LateGetStatus(r)
  \/ \E rb \in AllBlocks : JobStep(rb)

\* The reader and the jobs keep running; a destructor that began goes on.
Spec ==
  /\ Init /\ [][Next]_vars
  /\ WF_vars(ReaderStep) /\ WF_vars(Destructor)
  /\ \A rb \in AllBlocks : WF_vars(JobStep(rb))

-----------------------------------------------------------------------------
Statuses == {"queued", "running", "canceled", "succeeded", "failed"}

TypeOK ==
  /\ pc \in {"top", "wait", "take", "begin", "open", "blocks", "schedule", "store", "call",
             "delete", "exited"}
  /\ destroyer \in {"idle", "send", "join", "gone"}
  /\ queue \in Seq(Requests) /\ arrived \in Seq(Requests)
  /\ current \in Requests \union {NoRequest}
  /\ outcome \in {"succeeded", "failed", "canceled"}
  /\ jobs \in [AllBlocks -> {"none", "made", "scheduled", "store", "call", "leave", "done"}]
  /\ \A r \in Requests : /\ entries[r].status \in Statuses
                         /\ entries[r].remaining \in 0 .. BlockCount[r]
  /\ fault \in {"none", "event", "controller", "reader", "job", "pool"}

\* The queue keeps the order of the comparator of EnqueueImpl, whatever calls and
\* takes interleave: rising priority value, and among equal values the order of the
\* calls; the reader takes the front, and nothing taken or answered is in the queue.
\* What BaseIO.h documents is the reverse order of values: see HigherServedFirst.
Position(r) == CHOOSE i \in DOMAIN arrived : arrived[i] = r

ServedInOrder ==
  /\ \A i, j \in DOMAIN queue : i < j =>
       \/ PriorityOf[queue[i]] < PriorityOf[queue[j]]
       \/ /\ PriorityOf[queue[i]] = PriorityOf[queue[j]]
          /\ Position(queue[i]) < Position(queue[j])
  /\ \A i \in DOMAIN queue : queue[i] # current /\ answers[queue[i]] = <<>>

\* As long as the service exists, the reader, which schedules the jobs while the
\* first of them already run, and the jobs, of which any may be the last, never touch
\* a deleted entry.  The destructor does not wait for the jobs: see PoolsUnused.
EntryOutlivesItsUsers == fault \notin {"reader", "job"}

\* A request whose entry is gone was answered exactly once: either as a whole,
\* when it failed or was cancelled or is a plain read, or once for each block;
\* raw blocks are answered as they are read, and a failure is the last answer.
AnsweredOnce ==
  \A r \in Requests : r \in Issued /\ ~entries[r].alive =>
    \/ /\ Len(answers[r]) = 1
       /\ KindOf[r] = "block" => answers[r][1].status \in {"failed", "canceled"}
    \/ /\ KindOf[r] = "block" /\ Len(answers[r]) = BlockCount[r]
       /\ {answers[r][i].block : i \in DOMAIN answers[r]} = 0 .. BlockCount[r] - 1
    \/ /\ KindOf[r] = "raw" /\ Len(answers[r]) <= BlockCount[r]
       /\ Last(answers[r]).status \in {"failed", "canceled"}

\* A request cancelled while it was queued is never read: its only callback
\* reports the cancellation.
CanceledIsNotRead ==
  \A r \in withdrawn :
    /\ \A i \in DOMAIN answers[r] : answers[r][i].status = "canceled"
    /\ BlocksOf(r) \intersect {rb \in AllBlocks : jobs[rb] # "none"} = {}

\* A queued request is never slept over: while the queue holds one, the event
\* is set, whatever the reader and the callers interleave.
QueuedKeepsEvent == queue # <<>> => queueEvent

\* The state is well typed, the count of awaited jobs included, and the reader
\* cannot fall asleep before a queue that is not empty.
Bookkeeping == TypeOK /\ QueuedKeepsEvent

\* A request is answered, completely if it is read by blocks, unless the
\* service is destroyed or a client touched a deleted entry. Requests are finitely
\* many and answers final: again and again no request is without its answer.
Answered(r) == answers[r] # <<>> /\ (KindOf[r] # "raw" => ~entries[r].alive)

RequestAnswered == []<>((\A r \in Issued : Answered(r)) \/ exitRequested \/ fault # "none")

\* The destructor joins the reader: it leaves, even when it reset the event
\* after the flag was set.
ReaderLeaves == exitRequested ~> (pc = "exited" \/ fault # "none")

\* Statements of the source that the code does not keep.

\* IAsyncStreamIO.h:15: "The operation has failed": the callback of a block that
\* did not decompress is told so when it asks for the status.
FailureIsReported ==
  \A r \in Requests : \A i \in DOMAIN answers[r] :
    <<r, answers[r][i].block>> \in corrupt => answers[r][i].status = "failed"

\* IAsyncStreamIO.h:12: a running operation is being processed.
RunningIsProcessed ==
  \A r \in Requests : entries[r].alive /\ entries[r].status = "running" =>
    \/ current = r
    \/ \E rb \in BlocksOf(r) : jobs[rb] \notin {"none", "done"}

\* IAsyncStreamIO.h:34: the controller can be used to query the status.
StatusCanBeQueried == fault # "controller"

\* Event.cpp:21: the thread waits for an event.
WaitsForAnEvent == fault # "event"

\* PoolAllocator.h:75: the count of allocations is there "to ensure we don't destroy
\* or reinitialize pools that are still in use".
PoolsUnused == PoolsGone => JobsRest

\* BaseIO.h:68: kNormal + 123 is between normal and high priority, and the
\* highest value is kHighest: no request waits while one of less priority is taken.
HigherServedFirst ==
  At("begin") => \A i \in DOMAIN queue : PriorityOf[queue[i]] <= PriorityOf[current]
=============================================================================
