------------------------------- MODULE Frames -------------------------------
(***************************************************************************)
(* The frame loop of the Vulkan back end.  The render thread records a     *)
(* frame, submits it and presents it, at most MaxInFlight frames ahead of  *)
(* the device; command buffers and semaphores are used in turn, descriptor *)
(* sets are taken back by fence value, and objects that clients release    *)
(* are destroyed some frames later, from the dispose queue of the device.  *)
(*                                                                         *)
(* One step of the render thread is what it does between two accesses of   *)
(* state that the device, the presentation engine or a client can change.  *)
(* The device and the engine are external: a frame completes when its      *)
(* image is available, presents are shown in order.                        *)
(*                                                                         *)
(* Faulty variants that Next does not use stand beside some definitions.   *)
(***************************************************************************)
EXTENDS Integers, SequencesExt

CONSTANTS
  MaxInFlight,    \* kMaxInFlightFrames
  DisposeDelay,   \* m_framesLeft of an object that is queued
  Images,         \* the images of a swapchain: at least minImageCount
  Objects,        \* device objects that are not destroyed immediately
  Holder,         \* the object that holds the last reference to another
  None,
  LastFrame       \* the bound: frames that are begun

ASSUME FramesAssumption ==
  /\ MaxInFlight \in Nat \ {0}
  /\ DisposeDelay \in Nat /\ DisposeDelay > MaxInFlight
  /\ None \notin Images \union Objects
  /\ Holder \in [Objects -> Objects \union {None}]
  /\ LastFrame \in Nat

VARIABLES
  pc,               \* where the render thread is
  resume,           \* where it goes on after RecreateSwapchain
  frameIndex,       \* m_frameIndex: the frame being recorded
  completed,        \* the value of both fences: frames the device completed
  bufferUsed,       \* history: the frame each command buffer was last submitted for
  descriptorSet,    \* m_descriptorSet
  retiredSets,      \* m_retiredSets
  allocated,        \* descriptor sets allocated from the pool
  setUsed,          \* history: the frame each set was last submitted for
  imageAvailable,   \* the semaphores of that name
  renderFinished,
  imageIndex,       \* m_imageIndex
  presents,         \* presents the engine has not shown yet
  shown,            \* the image on the screen
  unacquired,       \* history: frames submitted without an acquired image
  object,           \* each device object
  toDispose         \* objectsToDispose of EndFrame or ForceReleasePendingDisposers

setVars == <<descriptorSet, retiredSets, allocated, setUsed>>
viewportVars == <<imageAvailable, renderFinished, imageIndex, presents, shown, unacquired>>
objectVars == <<object, toDispose>>
vars == <<pc, resume, frameIndex, completed, bufferUsed, setVars, viewportVars, objectVars>>

Slots == 0 .. MaxInFlight - 1
Slot == frameIndex % MaxInFlight

Init ==
  /\ pc = "wait" /\ resume = "record"
  /\ frameIndex = 1 /\ completed = 0
  /\ bufferUsed = [s \in Slots |-> 0]
  /\ descriptorSet = 0 /\ retiredSets = <<>> /\ allocated = 0
  /\ setUsed = [s \in 0 .. LastFrame |-> 0]
  /\ imageAvailable = [s \in Slots |-> "idle"] /\ renderFinished = [s \in Slots |-> "idle"]
  /\ imageIndex = None /\ presents = <<>> /\ shown = None /\ unacquired = {}
  /\ object = [o \in Objects |-> [state |-> "live", framesLeft |-> 0, lastUse |-> 0]]
  /\ toDispose = {}

-----------------------------------------------------------------------------
(* PrepareSetup.                                                           *)

\* The fence value a frame waits for before its slot is used again.
AwaitedFrameLate == frameIndex - MaxInFlight - 1
AwaitedFrame == frameIndex - MaxInFlight

WaitForPreviousFrame ==
  /\ pc = "wait" /\ frameIndex <= LastFrame
  /\ frameIndex > MaxInFlight => completed >= AwaitedFrame
  /\ pc' = "begin"
  /\ UNCHANGED <<resume, frameIndex, completed, bufferUsed, setVars, viewportVars, objectVars>>

\* CommandBuffer::Begin resets the buffer of the slot.
Begin ==
  /\ pc = "begin"
  /\ pc' = "bindless"
  /\ UNCHANGED <<resume, frameIndex, completed, bufferUsed, setVars, viewportVars, objectVars>>

\* The first retired set the device is done with.
Reusable == {i \in DOMAIN retiredSets : retiredSets[i].fence <= completed}
EraseUnsorted(seq, i) == Front([seq EXCEPT ![i] = Last(seq)])

BeginFrame ==
  /\ pc = "bindless"
  /\ pc' = "acquire"
  /\ IF Reusable # {}
     THEN \E i \in Reusable :
            /\ \A j \in Reusable : i <= j
            /\ descriptorSet' = retiredSets[i].set
            /\ retiredSets' = EraseUnsorted(retiredSets, i)
            /\ UNCHANGED allocated
     ELSE allocated' = allocated + 1 /\ descriptorSet' = allocated + 1 /\ UNCHANGED retiredSets
  /\ UNCHANGED <<resume, frameIndex, completed, bufferUsed, setUsed, viewportVars, objectVars>>

\* Images the presentation engine can hand out.
Available == Images \ ({shown} \union {presents[i].image : i \in DOMAIN presents})

\* The semaphore that the engine signals for the frame.
NextSlot == (frameIndex + 1) % MaxInFlight
AcquireSlot == Slot

AcquireNextImage ==
  /\ pc = "acquire"
  /\ imageIndex' \in Available
  /\ imageAvailable' = [imageAvailable EXCEPT ![AcquireSlot] = "pending"]
  /\ pc' = "record"
  /\ UNCHANGED <<resume, frameIndex, completed, bufferUsed, setVars, renderFinished, presents,
                 shown, unacquired, objectVars>>

\* VK_ERROR_OUT_OF_DATE_KHR: the swapchain is recreated, no image is acquired.
AcquireOutOfDate ==
  /\ pc = "acquire"
  /\ unacquired' = unacquired \union {frameIndex}
  /\ pc' = "idle" /\ resume' = "record"
  /\ UNCHANGED <<frameIndex, completed, bufferUsed, setVars, imageAvailable, renderFinished,
                 imageIndex, presents, shown, objectVars>>

-----------------------------------------------------------------------------
(* The passes, FinishExecute and Present.                                  *)

\* A pass records commands that use an object, and what the object holds.
Use(o) ==
  /\ pc = "record" /\ Holder[o] = None /\ object[o].state = "live"
  /\ object' = [x \in Objects |-> IF x = o \/ Holder[x] = o
                                  THEN [object[x] EXCEPT !.lastUse = frameIndex] ELSE object[x]]
  /\ UNCHANGED <<pc, resume, frameIndex, completed, bufferUsed, setVars, viewportVars, toDispose>>

\* The semaphore that the frame signals and its present waits for.
OneSlot == 0
FinishedSlot == Slot

\* The set is retired with the value that the submit will signal, and both
\* fences, whose values grow together, are signalled by the one submit.
Submit ==
  /\ pc = "record"
  /\ retiredSets' = Append(retiredSets, [set |-> descriptorSet, fence |-> frameIndex])
  /\ setUsed' = [setUsed EXCEPT ![descriptorSet] = frameIndex]
  /\ descriptorSet' = 0
  /\ bufferUsed' = [bufferUsed EXCEPT ![Slot] = frameIndex]
  /\ renderFinished' = [renderFinished EXCEPT ![FinishedSlot] = "pending"]
  /\ frameIndex' = frameIndex + 1
  /\ presents' = Append(presents, [slot |-> FinishedSlot, image |-> imageIndex])
  /\ pc' = "present"
  /\ UNCHANGED <<resume, completed, allocated, imageAvailable, imageIndex, shown, unacquired, objectVars>>

\* What vkQueuePresentKHR returns.
Present ==
  /\ pc = "present"
  /\ \/ pc' = "end" /\ UNCHANGED resume
     \/ pc' = "idle" /\ resume' = "end"
  /\ UNCHANGED <<frameIndex, completed, bufferUsed, setVars, viewportVars, objectVars>>

\* Viewport::Resize from the window's events, between two frames.
Resize ==
  /\ pc = "wait" /\ frameIndex <= LastFrame
  /\ pc' = "idle" /\ resume' = "wait"
  /\ UNCHANGED <<frameIndex, completed, bufferUsed, setVars, viewportVars, objectVars>>

-----------------------------------------------------------------------------
(* RecreateSwapchain, and the dispose queue.                               *)

Queued == {o \in Objects : object[o].state = "queued"}
AsQueued(record) == [record EXCEPT !.state = "queued", !.framesLeft = DisposeDelay]

\* WaitIdle: the device is idle, then pending disposers are released by force.
DeviceIdle == completed = frameIndex - 1

WaitIdle ==
  /\ pc = "idle" /\ DeviceIdle
  /\ pc' = "force"
  /\ UNCHANGED <<resume, frameIndex, completed, bufferUsed, setVars, viewportVars, objectVars>>

ForceRelease ==
  /\ pc = "force" /\ toDispose = {} /\ Queued # {}
  /\ toDispose' = Queued
  /\ object' = [o \in Objects |-> IF o \in Queued THEN [object[o] EXCEPT !.state = "taken"] ELSE object[o]]
  /\ UNCHANGED <<pc, resume, frameIndex, completed, bufferUsed, setVars, viewportVars>>

\* Nothing is left to release: the swapchain is made anew.  The semaphores are
\* not; that the waits of the presents of the old swapchain are over, shown or
\* dropped, when the device is idle is an assumption about the driver.
CreateSwapChain ==
  /\ pc = "force" /\ toDispose = {} /\ Queued = {}
  /\ presents' = <<>> /\ shown' = None
  /\ renderFinished' = [s \in Slots |-> "idle"]
  /\ pc' = resume
  /\ UNCHANGED <<resume, frameIndex, completed, bufferUsed, setVars, imageAvailable, imageIndex,
                 unacquired, objectVars>>

\* --m_framesLeft == 0
DueEarly == {o \in Queued : object[o].framesLeft <= 2}
Due == {o \in Queued : object[o].framesLeft = 1}

\* Device::EndFrame under the lock of the queue.
EndFrame ==
  /\ pc = "end"
  /\ toDispose' = Due
  /\ object' = [o \in Objects |->
       IF o \in Due THEN [object[o] EXCEPT !.state = "taken"]
       ELSE IF o \in Queued THEN [object[o] EXCEPT !.framesLeft = @ - 1]
       ELSE object[o]]
  /\ pc' = "dispose"
  /\ UNCHANGED <<resume, frameIndex, completed, bufferUsed, setVars, viewportVars>>

\* DoDispose outside the lock; the destructor releases what the object holds.
DoDispose(o) ==
  /\ pc \in {"dispose", "force"} /\ o \in toDispose
  /\ toDispose' = toDispose \ {o}
  /\ object' = [x \in Objects |->
       IF x = o THEN [object[x] EXCEPT !.state = "disposed"]
       ELSE IF Holder[x] = o THEN AsQueued(object[x]) ELSE object[x]]
  /\ UNCHANGED <<pc, resume, frameIndex, completed, bufferUsed, setVars, viewportVars>>

Ended == pc = "dispose" /\ toDispose = {}

NextFrame ==
  /\ Ended
  /\ pc' = "wait"
  /\ UNCHANGED <<resume, frameIndex, completed, bufferUsed, setVars, viewportVars, objectVars>>

\* DeviceObject::DoRelease on any thread, when the last reference goes.
Release(o) ==
  /\ Holder[o] = None /\ object[o].state = "live"
  /\ object' = [object EXCEPT ![o] = AsQueued(@)]
  /\ UNCHANGED <<pc, resume, frameIndex, completed, bufferUsed, setVars, viewportVars, toDispose>>

-----------------------------------------------------------------------------
(* The device and the presentation engine.                                 *)

HostState == <<pc, resume, frameIndex, bufferUsed, setVars, imageIndex, unacquired, objectVars>>

ImageReady(s) ==
  /\ imageAvailable[s] = "pending"
  /\ imageAvailable' = [imageAvailable EXCEPT ![s] = "signaled"]
  /\ UNCHANGED <<completed, renderFinished, presents, shown, HostState>>

\* The oldest submit completes: it consumes one semaphore and signals the other.
Complete ==
  LET s == (completed + 1) % MaxInFlight
  IN /\ completed < frameIndex - 1
     /\ imageAvailable[s] = "signaled"
     /\ imageAvailable' = [imageAvailable EXCEPT ![s] = "idle"]
     /\ renderFinished' = [renderFinished EXCEPT ![s] = "signaled"]
     /\ completed' = completed + 1
     /\ UNCHANGED <<presents, shown, HostState>>

Show ==
  /\ presents # <<>> /\ renderFinished[Head(presents).slot] = "signaled"
  /\ renderFinished' = [renderFinished EXCEPT ![Head(presents).slot] = "idle"]
  /\ shown' = Head(presents).image
  /\ presents' = Tail(presents)
  /\ UNCHANGED <<completed, imageAvailable, HostState>>

-----------------------------------------------------------------------------
Render ==
  \/ WaitForPreviousFrame \/ Begin \/ BeginFrame \/ AcquireNextImage \/ AcquireOutOfDate
  \/ Submit \/ Present \/ WaitIdle \/ ForceRelease \/ CreateSwapChain \/ EndFrame \/ NextFrame
  \/ \E o \in Objects : DoDispose(o)

\* The bound is reached, or the device waits for an image nobody acquired.
Hung == completed + 1 \in unacquired
Stopped == (Hung \/ (pc = "wait" /\ frameIndex > LastFrame)) /\ UNCHANGED vars

Next ==
  \/ Render \/ Resize \/ Complete \/ Show \/ Stopped
  \/ \E s \in Slots : ImageReady(s)
  \/ \E o \in Objects : Use(o) \/ Release(o)

\* The render thread, the device and the presentation engine keep running.
Spec ==
  /\ Init /\ [][Next]_vars
  /\ WF_vars(Render) /\ WF_vars(Complete) /\ WF_vars(Show)
  /\ \A s \in Slots : WF_vars(ImageReady(s))

-----------------------------------------------------------------------------
Idling == {"idle", "force"}
Pcs == {"wait", "begin", "bindless", "acquire", "record", "present", "end", "dispose"} \union Idling

TypeOK ==
  /\ pc \in Pcs /\ resume \in {"record", "end", "wait"}
  /\ frameIndex \in 1 .. LastFrame + 1 /\ completed \in 0 .. frameIndex - 1
  /\ descriptorSet \in 0 .. LastFrame /\ allocated \in 0 .. LastFrame
  /\ retiredSets \in Seq([set : 1 .. LastFrame, fence : 1 .. LastFrame])
  /\ setUsed \in [0 .. LastFrame -> 0 .. LastFrame]
  /\ object \in [Objects -> [state : {"live", "queued", "taken", "disposed"},
                             framesLeft : 0 .. DisposeDelay, lastUse : 0 .. LastFrame]]
  /\ toDispose \subseteq Objects

\* The render thread is between PrepareSetup's wait and the submit.
Recording ==
  \/ pc \in {"begin", "bindless", "acquire", "record"}
  \/ pc \in Idling /\ resume = "record"

\* What the host resets or writes is not in use: when a frame is recorded, the
\* device has completed the last frame of its command buffer and of its
\* descriptor set, however far the device is behind, and taking completed sets
\* back is enough: there are never more sets than frames in flight.
ReusedWhenCompleted ==
  /\ Recording => bufferUsed[Slot] <= completed
  /\ descriptorSet # 0 => setUsed[descriptorSet] <= completed
  /\ allocated <= MaxInFlight

\* An object is destroyed, by EndFrame, by force or by the object that held it,
\* only when the device has completed every frame that used it.
DisposedAfterUse ==
  \A o \in Objects : object[o].state \in {"taken", "disposed"} => object[o].lastUse <= completed

\* A binary semaphore is signalled again only after the wait for its last signal.
\* The semaphore of an acquired image was waited for by the submit of the frame
\* that had the slot before, and that frame is completed.
AcquiresPaired == pc = "acquire" => imageAvailable[Slot] = "idle"

\* What a frame uses again, the device is done with, however many images there are.
FrameResources == TypeOK /\ ReusedWhenCompleted /\ AcquiresPaired

\* The semaphore of a finished frame is waited for by the engine, on its own
\* time, and nothing throttles the frames by it: the slot is free again because
\* the engine runs out of images, if it has no more of them than there are
\* frames in flight.  With more images the code does not keep this.
PresentsPaired == pc = "record" => renderFinished[Slot] = "idle"

\* A frame that is begun is recorded, submitted and completed, except those from
\* the first frame on that found its swapchain out of date: that one is submitted
\* without an image, and waits for a semaphore nobody signals.
EveryFrameCompletes ==
  \A k \in 1 .. LastFrame :
    (frameIndex = k /\ pc = "begin") ~> (completed >= k \/ \E u \in unacquired : u <= k)

\* What the code does not keep: EveryFrameCompletes without the exception.
AcquiresAgain == ~Hung
=============================================================================
