--------------------------- MODULE AsyncCopyQueue ---------------------------
(***************************************************************************)
(* Graphics/Core/Vulkan/AsyncCopyQueue: clients hand over command lists;   *)
(* the copy thread records each into a command buffer, copying data        *)
(* through a bounded staging ring, and submits it with the next value of a *)
(* timeline fence; the device completes the submits in order; the thread   *)
(* then signals the list's wait group and frees its staging memory.        *)
(*                                                                         *)
(* A list is a sequence of commands: the staging memory an upload takes,   *)
(* or 0 for a command that takes none (a functor, a buffer copy).  The     *)
(* staging ring is its total: where an allocation lies is left out.        *)
(* m_requestQueue is the stack of module OnceConsumedQueue, m_suspendLock  *)
(* the lock of module RWLock.  The device, the manual-reset events and the *)
(* timeline semaphore are external.                                        *)
(*                                                                         *)
(* Faulty variants that Next does not use stand beside some definitions.   *)
(***************************************************************************)
EXTENDS Integers, SequencesExt

CONSTANTS
  Lists,        \* the command lists, each executed once
  Drains,       \* the calls of Drain()
  Commands,     \* the commands of every list
  StagingSize   \* kUploadBufferSize

Thread == "thread"

ASSUME CommandsAssumption ==
  /\ Commands \in [Lists -> Seq(Nat)]
  /\ StagingSize \in Nat
  /\ Lists \intersect Drains = {} /\ Thread \notin Lists \union Drains

VARIABLES
  pc,             \* where the copy thread, each Execute and each Drain is
  created,        \* the constructor has created the events
  threadEvent, suspendEvent, exitRequested,
  requestQueue,   \* m_requestQueue, newest first
  requestCache,   \* m_requestCache
  processing,     \* m_processingItems: list, fence value, staging, command index
  fenceValue,     \* m_fenceValue
  submitted,      \* the last value a submitted command buffer will signal
  completed,      \* m_fence->GetCompletedValue()
  progress,       \* anyProgress in FinalizeFinishedProcessors
  signaled,       \* the lists whose wait group was signalled, in order
  arrived,        \* history: the lists in the order they were enqueued
  executed,       \* history: lists whose ExecuteCommandList() returned
  required,       \* history: what was executed before each Drain() began
  failed          \* an assertion of the code failed

vars == <<pc, created, threadEvent, suspendEvent, exitRequested, requestQueue, requestCache,
          processing, fenceValue, submitted, completed, progress, signaled, arrived,
          executed, required, failed>>

Init ==
  /\ pc = [x \in Lists \union Drains \union {Thread} |-> IF x = Thread THEN "wait" ELSE "idle"]
  /\ created = FALSE
  /\ threadEvent = FALSE /\ suspendEvent = FALSE /\ exitRequested = FALSE
  /\ requestQueue = <<>> /\ requestCache = <<>> /\ processing = <<>>
  /\ fenceValue = 0 /\ submitted = 0 /\ completed = 0
  /\ progress = FALSE
  /\ signaled = <<>> /\ arrived = <<>> /\ executed = {}
  /\ required = [d \in Drains |-> {}]
  /\ failed = "none"

At(x, label) == failed = "none" /\ pc[x] = label
Goto(x, label) == pc' = [pc EXCEPT ![x] = label]

\* m_suspendLock: producers hold it shared; Drain, the destructor and the
\* thread about to sleep take it exclusively, for one step each.
NoProducer == \A l \in Lists : pc[l] # "send"

-----------------------------------------------------------------------------
(* The clients.                                                            *)

\* The constructor starts the thread and then creates the events.
Construct ==
  /\ ~created
  /\ created' = TRUE
  /\ UNCHANGED <<pc, threadEvent, suspendEvent, exitRequested, requestQueue, requestCache,
                 processing, fenceValue, submitted, completed, progress, signaled,
                 arrived, executed, required, failed>>

\* ExecuteCommandList under the shared lock: enqueues, then wakes the thread.
ExecuteEnqueue(l) ==
  /\ At(l, "idle") /\ created /\ ~exitRequested
  /\ requestQueue' = <<l>> \o requestQueue
  /\ arrived' = Append(arrived, l)
  /\ Goto(l, "send")
  /\ UNCHANGED <<created, threadEvent, suspendEvent, exitRequested, requestCache, processing,
                 fenceValue, submitted, completed, progress, signaled, executed,
                 required, failed>>

ExecuteSend(l) ==
  /\ At(l, "send")
  /\ threadEvent' = TRUE
  /\ executed' = executed \union {l}
  /\ Goto(l, "done")
  /\ UNCHANGED <<created, suspendEvent, exitRequested, requestQueue, requestCache, processing,
                 fenceValue, submitted, completed, progress, signaled, arrived, required, failed>>

\* What Drain leaves in m_suspendEvent and in m_threadEvent.
SuspendEventKept == suspendEvent
SuspendEventReset == FALSE
ThreadEventKept == threadEvent
ThreadEventSent == TRUE

\* Drain under the exclusive lock.
DrainBegin(d) ==
  /\ At(d, "idle") /\ created /\ ~exitRequested /\ NoProducer
  /\ suspendEvent' = SuspendEventReset
  /\ threadEvent' = ThreadEventSent
  /\ required' = [required EXCEPT ![d] = executed]
  /\ Goto(d, "suspend")
  /\ UNCHANGED <<created, exitRequested, requestQueue, requestCache, processing, fenceValue,
                 submitted, completed, progress, signaled, arrived, executed, failed>>

DrainWait(d) ==
  /\ At(d, "suspend") /\ suspendEvent
  /\ Goto(d, "check")
  /\ UNCHANGED <<created, threadEvent, suspendEvent, exitRequested, requestQueue,
                 requestCache, processing, fenceValue, submitted, completed, progress,
                 signaled, arrived, executed, required, failed>>

\* The assertions of Drain, outside the lock.
DrainCheck(d) ==
  /\ At(d, "check")
  /\ IF requestQueue = <<>> /\ requestCache = <<>>
     THEN Goto(d, "device") /\ UNCHANGED failed
     ELSE failed' = "drain" /\ UNCHANGED pc
  /\ UNCHANGED <<created, threadEvent, suspendEvent, exitRequested, requestQueue,
                 requestCache, processing, fenceValue, submitted, completed, progress,
                 signaled, arrived, executed, required>>

\* vkQueueWaitIdle.
DrainReturn(d) ==
  /\ At(d, "device") /\ completed = submitted
  /\ Goto(d, "done")
  /\ UNCHANGED <<created, threadEvent, suspendEvent, exitRequested, requestQueue,
                 requestCache, processing, fenceValue, submitted, completed, progress,
                 signaled, arrived, executed, required, failed>>

Busy == {x \in Lists \union Drains : pc[x] \notin {"idle", "done"}}

\* The destructor; no call is in progress and none will follow.
Destroy ==
  /\ created /\ ~exitRequested /\ Busy = {} /\ failed = "none"
  /\ exitRequested' = TRUE
  /\ suspendEvent' = FALSE
  /\ threadEvent' = TRUE
  /\ UNCHANGED <<pc, created, requestQueue, requestCache, processing, fenceValue, submitted,
                 completed, progress, signaled, arrived, executed, required, failed>>

-----------------------------------------------------------------------------
(* The copy thread.                                                        *)

ClientState == <<created, suspendEvent, exitRequested, arrived, executed, required>>

\* The constructor has not run yet: WaitForSingleObject fails on no event.
WaitFailed ==
  /\ At(Thread, "wait") /\ ~created
  /\ failed' = "event"
  /\ UNCHANGED <<pc, threadEvent, requestQueue, requestCache, processing, fenceValue,
                 submitted, completed, progress, signaled, ClientState>>

\* m_threadEvent.Wait() passes; the flag is looked at right after it.
Wake ==
  /\ At(Thread, "wait") /\ created /\ threadEvent
  /\ Goto(Thread, IF exitRequested THEN "exited" ELSE "finalize")
  /\ UNCHANGED <<threadEvent, requestQueue, requestCache, processing, fenceValue, submitted,
                 completed, progress, signaled, failed, ClientState>>

\* The first item's fence value against the device.
FirstSubmitted == processing # <<>> /\ processing[1].fence <= submitted
FirstCompleted == processing # <<>> /\ processing[1].fence <= completed

\* FinalizeFinishedProcessors: the first item is completed.
FinalizeItem ==
  /\ At(Thread, "finalize") \/ At(Thread, "stall")
  /\ FirstCompleted
  /\ signaled' = Append(signaled, processing[1].list)
  /\ processing' = Tail(processing)
  /\ progress' = (pc[Thread] = "stall")
  /\ UNCHANGED <<pc, threadEvent, requestQueue, requestCache, fenceValue, submitted,
                 completed, failed, ClientState>>

\* Every completed item is finalized: the next request, through the cache.
Refilled == IF requestCache = <<>> THEN requestQueue ELSE requestCache

Newest(cache) == Head(cache)
Oldest(cache) == Last(cache)

\* ++m_fenceValue; an item's value is never 0, as FinalizeFinishedProcessors asserts.
OldFence == fenceValue
NextFence == fenceValue + 1

Fetch ==
  /\ At(Thread, "finalize") /\ ~FirstCompleted
  /\ requestQueue' = IF requestCache = <<>> THEN <<>> ELSE requestQueue
  /\ IF Refilled # <<>>
     THEN /\ requestCache' = Front(Refilled)
          /\ fenceValue' = fenceValue + 1
          /\ processing' = Append(processing,
               [list |-> Oldest(Refilled), fence |-> NextFence, staging |-> 0, next |-> 1])
          /\ Goto(Thread, "record")
     ELSE /\ Goto(Thread, IF processing = <<>> THEN "sleep" ELSE "wait")
          /\ UNCHANGED <<requestCache, fenceValue, processing>>
  /\ UNCHANGED <<threadEvent, submitted, completed, progress, signaled, failed, ClientState>>

\* Nothing to do: under the exclusive lock the thread sleeps unless a request
\* came in, and releases those who drain.
SleepsAnyway == TRUE
MaySleep == requestQueue = <<>>

Sleep ==
  /\ At(Thread, "sleep") /\ NoProducer
  /\ threadEvent' = (threadEvent /\ ~MaySleep)
  /\ suspendEvent' = (suspendEvent \/ MaySleep)
  /\ Goto(Thread, "wait")
  /\ UNCHANGED <<created, exitRequested, arrived, executed, required, requestQueue,
                 requestCache, processing, fenceValue, submitted, completed, progress, signaled, failed>>

Current == processing[Len(processing)]
Recorded == Current.next > Len(Commands[Current.list])

\* What the items take of the ring.
StagingOf(items) ==
  LET sum[i \in 0 .. Len(items)] == IF i = 0 THEN 0 ELSE sum[i - 1] + items[i].staging
  IN  sum[Len(items)]

\* vmaVirtualAllocate succeeds.
FitsAlone(size) == size <= StagingSize
Fits(size) == StagingOf(processing) + size <= StagingSize

\* One command of the list, with its staging memory.
Record ==
  /\ At(Thread, "record") /\ ~Recorded
  /\ LET size == Commands[Current.list][Current.next] IN
     /\ Fits(size)
     /\ processing' = [processing EXCEPT ![Len(processing)].staging = @ + size,
                                         ![Len(processing)].next = @ + 1]
  /\ UNCHANGED <<pc, threadEvent, requestQueue, requestCache, fenceValue, submitted,
                 completed, progress, signaled, failed, ClientState>>

\* The ring is full: FinalizeFinishedProcessors(true).
Stall ==
  /\ At(Thread, "record") /\ ~Recorded
  /\ ~Fits(Commands[Current.list][Current.next])
  /\ progress' = FALSE
  /\ Goto(Thread, "stall")
  /\ UNCHANGED <<threadEvent, requestQueue, requestCache, processing, fenceValue, submitted,
                 completed, signaled, failed, ClientState>>

\* Items were finalized: the allocation is tried again.
StallRetry ==
  /\ At(Thread, "stall") /\ ~FirstCompleted /\ progress
  /\ Goto(Thread, "record")
  /\ UNCHANGED <<threadEvent, requestQueue, requestCache, processing, fenceValue, submitted,
                 completed, progress, signaled, failed, ClientState>>

\* None was: m_fence->Wait for the first item, which may be the current one.
StallWait ==
  /\ At(Thread, "stall") /\ ~FirstCompleted /\ ~progress
  /\ Goto(Thread, "fence")
  /\ UNCHANGED <<threadEvent, requestQueue, requestCache, processing, fenceValue, submitted,
                 completed, progress, signaled, failed, ClientState>>

FenceReached ==
  /\ At(Thread, "fence") /\ FirstCompleted
  /\ Goto(Thread, "stall")
  /\ UNCHANGED <<threadEvent, requestQueue, requestCache, processing, fenceValue, submitted,
                 completed, progress, signaled, failed, ClientState>>

\* The end of ProcessCommandList.
Submit ==
  /\ At(Thread, "record") /\ Recorded
  /\ submitted' = Current.fence
  /\ Goto(Thread, "wait")
  /\ UNCHANGED <<threadEvent, requestQueue, requestCache, processing, fenceValue, completed,
                 progress, signaled, failed, ClientState>>

\* The device completes the next submit.
Complete ==
  /\ failed = "none" /\ completed < submitted
  /\ completed' = completed + 1
  /\ UNCHANGED <<pc, threadEvent, requestQueue, requestCache, processing, fenceValue,
                 submitted, progress, signaled, failed, ClientState>>

-----------------------------------------------------------------------------
ThreadStep ==
  \/ Wake \/ FinalizeItem \/ Fetch \/ Sleep \/ Record \/ Stall \/ StallRetry \/ StallWait
  \/ FenceReached \/ Submit

DrainStep(d) == DrainWait(d) \/ DrainCheck(d) \/ DrainReturn(d)

\* The system stops when the thread left or an assertion failed, and when the
\* thread sleeps on the event of the destructor, which it has reset itself.
Hung == exitRequested /\ pc[Thread] = "wait" /\ ~threadEvent

Ended ==
  /\ pc[Thread] = "exited" \/ failed # "none" \/ Hung
  /\ UNCHANGED vars

Next ==
  \/ Construct \/ Destroy \/ WaitFailed \/ ThreadStep \/ Complete \/ Ended
  \/ \E l \in Lists : ExecuteEnqueue(l) \/ ExecuteSend(l)
  \/ \E d \in Drains : DrainBegin(d) \/ DrainStep(d)

\* The thread and the device keep running, and a call that began goes on.
Spec ==
  /\ Init /\ [][Next]_vars
  /\ WF_vars(ThreadStep) /\ WF_vars(Complete)
  /\ \A l \in Lists : WF_vars(ExecuteSend(l))
  /\ \A d \in Drains : WF_vars(DrainStep(d))

-----------------------------------------------------------------------------
ThreadPc == {"wait", "finalize", "sleep", "record", "stall", "fence", "exited"}

TypeOK ==
  /\ pc[Thread] \in ThreadPc
  /\ \A l \in Lists : pc[l] \in {"idle", "send", "done"}
  /\ \A d \in Drains : pc[d] \in {"idle", "suspend", "check", "device", "done"}
  /\ requestQueue \in Seq(Lists) /\ requestCache \in Seq(Lists) /\ signaled \in Seq(Lists)
  /\ fenceValue \in Nat /\ completed <= submitted /\ submitted <= fenceValue
  /\ \A i \in DOMAIN processing : processing[i].fence \in 1 .. fenceValue
  /\ failed \in {"none", "drain", "event"}

\* A request is never forgotten: while one is in the queue or the cache, or an
\* item is not finalized, the thread is awake or will find its event set.
WorkKeepsThreadAwake ==
  requestQueue # <<>> \/ requestCache # <<>> \/ processing # <<>>
    => threadEvent \/ \E l \in Lists : pc[l] = "send"

\* Fence values stay within what was issued, and no request is slept over.
Bookkeeping == TypeOK /\ WorkKeepsThreadAwake

\* Lists are processed in the order they were enqueued, through the queue that
\* reverses them, the cache that reverses them back and the ring: none is lost,
\* taken twice or overtaken.
HandledInOrder ==
  arrived = signaled \o [i \in DOMAIN processing |-> processing[i].list]
              \o Reverse(requestCache) \o Reverse(requestQueue)

\* A wait group is signalled only after the device completed the list's copies,
\* and the ring never holds more than its size: staging memory is reused only
\* after the device has read it.
SignaledWhenCompleted ==
  /\ Len(signaled) <= completed
  /\ StagingOf(processing) <= StagingSize

\* When Drain() returns, what was executed before it began is completed and
\* its wait groups are signalled.
DrainMeansCompleted ==
  \A d \in Drains : pc[d] \in {"check", "device", "done"} =>
    \A l \in required[d] : \E i \in DOMAIN signaled : signaled[i] = l

\* An executed list is completed and its group signalled, unless the queue is
\* destroyed or an assertion failed.
ListCompletes ==
  \A l \in Lists : l \in executed
    ~> (exitRequested \/ failed # "none" \/ \E i \in DOMAIN signaled : signaled[i] = l)

DrainReturns ==
  \A d \in Drains : pc[d] = "suspend" ~> (pc[d] = "done" \/ failed # "none")

\* Statements of the source that the code does not keep.

\* AsyncCopyQueue.cpp:587: after the suspend event nothing is requested.
DrainFindsNothing == failed # "drain"

\* Event.cpp:21: the thread waits for an event.
WaitsForAnEvent == failed # "event"

\* AsyncCopyQueue.cpp:469: when nothing can be freed by waiting for submitted
\* commands, the current command buffer is submitted.
WaitsForSubmitted == pc[Thread] = "fence" => FirstSubmitted

\* AsyncCopyQueue.cpp:563 wakes the thread to make it leave, and Thread.cpp:120
\* asserts that the wait for it succeeds: a requested exit takes place.
ThreadLeaves == exitRequested ~> (pc[Thread] = "exited" \/ failed # "none")
=============================================================================
