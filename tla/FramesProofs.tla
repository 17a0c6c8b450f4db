----------------------------- MODULE FramesProofs -----------------------------
(***************************************************************************)
(* An object of the device is destroyed only when the device has completed *)
(* every frame that used it, for any number of frames in flight, images    *)
(* and objects, whoever holds whom, and any delay of the dispose queue     *)
(* that exceeds the number of frames in flight (IInv).                     *)
(*                                                                         *)
(* A command buffer or a descriptor set is used again only when the device *)
(* has completed the frame that used it, for any of these too (Reuse), and *)
(* the semaphore of an acquired image only after that frame waited for it  *)
(* (Signals).                                                              *)
(***************************************************************************)
EXTENDS Frames, FiniteSetTheorems, SequenceTheorems, TLAPS

-----------------------------------------------------------------------------
(* The invariant.                                                          *)

\* As much of the types as the argument needs.
HostTypes ==
  /\ pc \in Pcs /\ resume \in {"record", "end", "wait"}
  /\ frameIndex \in Nat \ {0} /\ completed \in Nat
  /\ object \in [Objects -> [state : {"live", "queued", "taken", "disposed"},
                             framesLeft : Nat, lastUse : Nat]]
  /\ toDispose \subseteq Objects

\* A frame was submitted, and EndFrame has not been called for it.
Ending == pc \in {"present", "end"} \/ (pc \in Idling /\ resume = "end")

\* The frames that EndFrame was called for.
EndedFrames == IF Ending THEN frameIndex - 2 ELSE frameIndex - 1

\* Nobody uses an object in a frame that has not begun.
UsedSoFar ==
  \A o \in Objects : object[o].lastUse <= IF pc = "record" THEN frameIndex ELSE frameIndex - 1

\* How far the device may be behind.
Throttled ==
  /\ Recording => frameIndex <= completed + MaxInFlight
  /\ Ending => frameIndex <= completed + MaxInFlight + 1

IdleWhenForced == pc = "force" => completed = frameIndex - 1

\* The countdown of a queued object covers the frames since its last use.
Countdown ==
  \A o \in Objects : object[o].state = "queued" =>
    /\ object[o].framesLeft >= 1
    /\ object[o].lastUse + DisposeDelay <= EndedFrames + 1 + object[o].framesLeft

\* What a living object holds is not released.
HeldIsLive ==
  \A o \in Objects :
    Holder[o] # None /\ object[o].state # "live" => object[Holder[o]].state = "disposed"

TakenOnce == \A o \in toDispose : object[o].state = "taken"

IInv ==
  /\ HostTypes /\ UsedSoFar /\ Throttled /\ IdleWhenForced
  /\ Countdown /\ HeldIsLive /\ TakenOnce /\ DisposedAfterUse

-----------------------------------------------------------------------------
\* Nothing is used, queued or taken when the viewport is created.
LEMMA InitIInv == Init => IInv
BY FramesAssumption
DEF Init, IInv, HostTypes, UsedSoFar, Throttled, IdleWhenForced, Countdown, HeldIsLive, TakenOnce,
    DisposedAfterUse, Ending, EndedFrames, Recording, Idling, Pcs

\* A release: the object waits in the dispose queue, and all it holds is live.
LEMMA ReleaseIInv == ASSUME NEW o \in Objects, IInv, Release(o) PROVE IInv'
<1> USE FramesAssumption DEF IInv, HostTypes
<1>1. /\ Holder[o] = None /\ object[o].state = "live"
      /\ object' = [object EXCEPT ![o] = [@ EXCEPT !.state = "queued", !.framesLeft = DisposeDelay]]
      /\ UNCHANGED <<pc, resume, frameIndex, completed, toDispose>>
  BY DEF Release, AsQueued
<1>2. /\ object'[o].state = "queued" /\ object'[o].framesLeft = DisposeDelay
      /\ object'[o].lastUse = object[o].lastUse
      /\ \A x \in Objects \ {o} : object'[x] = object[x]
  BY <1>1
<1>3. object[o].lastUse <= EndedFrames + 1
  BY DEF UsedSoFar, EndedFrames, Ending, Idling
<1>4. UNCHANGED EndedFrames /\ UNCHANGED Ending /\ UNCHANGED Recording
  BY <1>1 DEF EndedFrames, Ending, Recording
<1>5. HostTypes'
  BY <1>1
<1>6. UsedSoFar' /\ Throttled' /\ IdleWhenForced' /\ DisposedAfterUse'
  BY <1>1, <1>2, <1>4 DEF UsedSoFar, Throttled, IdleWhenForced, DisposedAfterUse
<1>7. EndedFrames \in Int
  BY DEF EndedFrames
<1>8. Countdown'
  BY <1>1, <1>2, <1>3, <1>4, <1>7 DEF Countdown
<1>9. HeldIsLive'
  BY <1>1, <1>2 DEF HeldIsLive
<1>10. TakenOnce'
  BY <1>1, <1>2 DEF TakenOnce
<1> QED
  BY <1>5, <1>6, <1>8, <1>9, <1>10

\* A disposal: the object was taken, so what it holds is live, and is released.
LEMMA DoDisposeIInv == ASSUME NEW o \in Objects, IInv, DoDispose(o) PROVE IInv'
<1> USE FramesAssumption DEF IInv, HostTypes
<1>1. /\ pc \in {"dispose", "force"} /\ o \in toDispose /\ object[o].state = "taken"
      /\ toDispose' = toDispose \ {o}
      /\ UNCHANGED <<pc, resume, frameIndex, completed>>
  BY DEF DoDispose, TakenOnce
<1>2. \A x \in Objects : Holder[x] = o => x # o /\ object[x].state = "live"
  BY <1>1 DEF HeldIsLive
<1>3. /\ object'[o].state = "disposed" /\ object'[o].lastUse = object[o].lastUse
      /\ \A x \in Objects : Holder[x] = o =>
           /\ object'[x].state = "queued" /\ object'[x].framesLeft = DisposeDelay
           /\ object'[x].lastUse = object[x].lastUse
      /\ \A x \in Objects \ {o} : Holder[x] # o => object'[x] = object[x]
  <2>1. /\ object'[o] = [object[o] EXCEPT !.state = "disposed"]
        /\ \A x \in Objects : Holder[x] = o => object'[x] = AsQueued(object[x])
        /\ \A x \in Objects \ {o} : Holder[x] # o => object'[x] = object[x]
    BY <1>2 DEF DoDispose
  <2>2. object'[o].state = "disposed" /\ object'[o].lastUse = object[o].lastUse
    BY <2>1
  <2>3. ASSUME NEW x \in Objects
        PROVE /\ AsQueued(object[x]).state = "queued" /\ AsQueued(object[x]).framesLeft = DisposeDelay
              /\ AsQueued(object[x]).lastUse = object[x].lastUse
    BY DEF AsQueued
  <2> QED
    BY <2>1, <2>2, <2>3
<1>4. \A x \in Objects : object[x].lastUse <= EndedFrames + 1
  BY <1>1 DEF UsedSoFar, EndedFrames, Ending, Idling
<1>5. UNCHANGED EndedFrames /\ UNCHANGED Ending /\ UNCHANGED Recording /\ EndedFrames \in Int
  BY <1>1 DEF EndedFrames, Ending, Recording
<1>6. HostTypes'
  <2>1. object' = [x \in Objects |->
          IF x = o THEN [object[x] EXCEPT !.state = "disposed"]
          ELSE IF Holder[x] = o THEN [object[x] EXCEPT !.state = "queued", !.framesLeft = DisposeDelay]
          ELSE object[x]]
    BY DEF DoDispose, AsQueued
  <2> QED
    BY <1>1, <2>1
<1>7. \A x \in Objects : object'[x].lastUse = object[x].lastUse
  BY <1>3
<1>8. UsedSoFar' /\ Throttled' /\ IdleWhenForced'
  BY <1>1, <1>5, <1>7 DEF UsedSoFar, Throttled, IdleWhenForced
<1>9. Countdown'
  BY <1>3, <1>4, <1>5 DEF Countdown
<1>10. HeldIsLive'
  <2> SUFFICES ASSUME NEW x \in Objects, Holder[x] # None, object'[x].state # "live"
               PROVE object'[Holder[x]].state = "disposed"
    BY DEF HeldIsLive
  <2>1. CASE Holder[x] = o
    BY <2>1, <1>3
  <2>2. CASE Holder[x] # o
    <3>1. object[x].state # "live"
      BY <2>2, <1>1, <1>3
    <3>2. Holder[x] \in Objects /\ object[Holder[x]].state = "disposed"
      BY <3>1 DEF HeldIsLive
    <3>3. Holder[Holder[x]] # o
      BY <3>2, <1>2
    <3> QED
      BY <2>2, <3>2, <3>3, <1>3
  <2> QED
    BY <2>1, <2>2
<1>11. TakenOnce'
  BY <1>1, <1>2, <1>3 DEF TakenOnce
<1>12. DisposedAfterUse'
  BY <1>1, <1>3 DEF DisposedAfterUse
<1> QED
  BY <1>6, <1>8, <1>9, <1>10, <1>11, <1>12

\* Every action keeps the invariant.
LEMMA NextIInv == IInv /\ [Next]_vars => IInv'
<1> SUFFICES ASSUME IInv, [Next]_vars PROVE IInv'
  OBVIOUS
<1> USE FramesAssumption
    DEF IInv, HostTypes, UsedSoFar, Throttled, IdleWhenForced, Countdown, HeldIsLive, TakenOnce,
        DisposedAfterUse, Ending, EndedFrames, Recording, Idling, Pcs
<1>1. CASE WaitForPreviousFrame
  BY <1>1 DEF WaitForPreviousFrame, objectVars, viewportVars, AwaitedFrame
<1>2. CASE Begin
  BY <1>2 DEF Begin, objectVars, viewportVars
<1>3. CASE BeginFrame
  BY <1>3 DEF BeginFrame, objectVars, viewportVars
<1>4. CASE AcquireNextImage
  BY <1>4 DEF AcquireNextImage, objectVars, viewportVars
<1>5. CASE AcquireOutOfDate
  BY <1>5 DEF AcquireOutOfDate, objectVars, viewportVars
<1>6. CASE Submit
  BY <1>6 DEF Submit, objectVars, viewportVars
<1>7. CASE Present
  BY <1>7 DEF Present, objectVars, viewportVars
<1>8. CASE Resize
  BY <1>8 DEF Resize, objectVars, viewportVars
<1>9. CASE WaitIdle
  BY <1>9 DEF WaitIdle, objectVars, viewportVars, DeviceIdle
<1>10. CASE ForceRelease
  BY <1>10 DEF ForceRelease, objectVars, viewportVars, Queued
<1>11. CASE CreateSwapChain
  BY <1>11 DEF CreateSwapChain, objectVars, viewportVars
<1>12. CASE EndFrame
  BY <1>12 DEF EndFrame, objectVars, viewportVars, Due, Queued
<1>13. CASE NextFrame
  BY <1>13 DEF NextFrame, objectVars, viewportVars, Ended
<1>14. CASE Complete
  BY <1>14 DEF Complete, objectVars, viewportVars, HostState
<1>15. CASE Show
  BY <1>15 DEF Show, objectVars, viewportVars, HostState
<1>16. ASSUME NEW o \in Objects, Use(o) PROVE IInv'
  BY <1>16 DEF Use, objectVars, viewportVars
<1>17. ASSUME NEW o \in Objects, DoDispose(o) PROVE IInv'
  BY <1>17, DoDisposeIInv
<1>18. ASSUME NEW o \in Objects, Release(o) PROVE IInv'
  BY <1>18, ReleaseIInv
<1>19. ASSUME NEW s \in Slots, ImageReady(s) PROVE IInv'
  BY <1>19 DEF ImageReady, HostState, objectVars
<1>20. CASE Stopped \/ UNCHANGED vars
  BY <1>20 DEF Stopped, vars, objectVars
<1> QED
  BY <1>1, <1>2, <1>3, <1>4, <1>5, <1>6, <1>7, <1>8, <1>9, <1>10, <1>11, <1>12, <1>13, <1>14,
     <1>15, <1>16, <1>17, <1>18, <1>19, <1>20 DEF Next, Render

-----------------------------------------------------------------------------
\* The invariant holds in every state of the frame loop and its dispose queue.
THEOREM FramesInvariant == Spec => []IInv
BY InitIInv, NextIInv, PTL DEF Spec

\* EndFrame, the release by force and the destructor of a holder destroy an
\* object only when the device has completed every frame that used it.
THEOREM DisposalSafety == Spec => []DisposedAfterUse
<1>1. IInv => DisposedAfterUse
  BY DEF IInv
<1> QED
  BY <1>1, FramesInvariant, PTL

-----------------------------------------------------------------------------
(* Slots, sequences and counting.                                          *)

\* A frame number is a multiple of the frames in flight and a slot.
LEMMA SlotOf ==
  ASSUME NEW a \in Nat
  PROVE  /\ a = MaxInFlight * (a \div MaxInFlight) + (a % MaxInFlight)
         /\ a \div MaxInFlight \in Int /\ a % MaxInFlight \in Slots
BY FramesAssumption, SMT DEF Slots

\* A positive multiple is not less than one.
LEMMA Multiples == ASSUME NEW d \in Int, d > 0 PROVE MaxInFlight * d >= MaxInFlight
BY FramesAssumption, SMT

\* Two frames that are both in flight have different slots.
LEMMA SlotsDiffer ==
  ASSUME NEW a \in Nat, NEW b \in Nat, a < b, b - a < MaxInFlight
  PROVE  a % MaxInFlight # b % MaxInFlight
<1> DEFINE p == a \div MaxInFlight
           q == b \div MaxInFlight
           r == a % MaxInFlight
           s == b % MaxInFlight
<1>1. /\ a = MaxInFlight * p + r /\ b = MaxInFlight * q + s
      /\ p \in Int /\ q \in Int /\ r \in Int /\ s \in Int
  BY SlotOf DEF Slots
<1> SUFFICES ASSUME r = s PROVE FALSE
  OBVIOUS
<1> HIDE DEF p, q, r, s
<1>2. b - a = MaxInFlight * (q - p)
  BY <1>1, FramesAssumption
<1>3. CASE q - p > 0
  BY <1>1, <1>2, <1>3, Multiples, FramesAssumption
<1>4. CASE q - p <= 0
  <2>1. MaxInFlight * (q - p) <= 0
    BY <1>1, <1>4, FramesAssumption
  <2> QED
    BY <1>2, <2>1
<1> QED
  BY <1>1, <1>3, <1>4

\* What appending does to a sequence, element by element.
LEMMA AppendElements ==
  ASSUME NEW S, NEW s \in Seq(S), NEW e \in S
  PROVE  /\ Append(s, e) \in Seq(S)
         /\ Len(Append(s, e)) = Len(s) + 1
         /\ \A i \in 1 .. Len(s) : Append(s, e)[i] = s[i]
         /\ Append(s, e)[Len(s) + 1] = e
BY AppendProperties

\* Erasing an element puts the last one in its place.
LEMMA EraseElements ==
  ASSUME NEW S, NEW s \in Seq(S), NEW i \in 1 .. Len(s)
  PROVE  /\ EraseUnsorted(s, i) \in Seq(S)
         /\ Len(EraseUnsorted(s, i)) = Len(s) - 1
         /\ \A k \in 1 .. Len(s) - 1 : EraseUnsorted(s, i)[k] = IF k = i THEN s[Len(s)] ELSE s[k]
<1> DEFINE n == Len(s)
           t == [s EXCEPT ![i] = s[n]]
<1>1. n \in Nat /\ n >= 1 /\ n - 1 \in Nat /\ \A k \in 1 .. n : s[k] \in S
  BY LenProperties, ElementOfSeq
<1>2. t \in Seq(S) /\ Len(t) = n /\ \A k \in 1 .. n : t[k] = IF k = i THEN s[n] ELSE s[k]
  <2>1. s[n] \in S
    BY <1>1
  <2> QED
    BY <1>1, <2>1, ExceptSeq
<1>3. EraseUnsorted(s, i) = SubSeq(t, 1, n - 1)
  BY <1>2 DEF EraseUnsorted, Front, Last
<1> HIDE DEF n, t
<1>4. /\ SubSeq(t, 1, n - 1) \in Seq(S)
      /\ Len(SubSeq(t, 1, n - 1)) = IF 1 <= n - 1 THEN n - 1 - 1 + 1 ELSE 0
      /\ \A k \in 1 .. n - 1 - 1 + 1 : SubSeq(t, 1, n - 1)[k] = t[1 + k - 1]
  <2>1. 1 \in Int /\ n - 1 \in Int /\ \A k \in 1 .. n - 1 : t[k] \in S
    BY <1>1, <1>2
  <2> QED
    BY <2>1, SubSeqProperties
<1>5. /\ Len(SubSeq(t, 1, n - 1)) = n - 1
      /\ \A k \in 1 .. n - 1 : SubSeq(t, 1, n - 1)[k] = t[k]
  BY <1>1, <1>4
<1> QED
  BY <1>1, <1>2, <1>3, <1>4, <1>5 DEF n

\* Different elements for n places: there are at least n.
LEMMA Pigeons ==
  ASSUME NEW S, IsFiniteSet(S), NEW n \in Nat, NEW g \in [1 .. n -> S],
         \A i, j \in 1 .. n : g[i] = g[j] => i = j
  PROVE  n <= Cardinality(S)
<1>1. g \in Injection(1 .. n, S)
  BY DEF Injection, IsInjective
<1>2. IsFiniteSet(1 .. n) /\ Cardinality(1 .. n) = n
  <2>1. 1 \in Int /\ n \in Int
    OBVIOUS
  <2>2. IsFiniteSet(1 .. n) /\ Cardinality(1 .. n) = IF 1 > n THEN 0 ELSE n - 1 + 1
    BY <2>1, FS_Interval, Zenon
  <2> QED
    BY <2>2
<1>3. Cardinality(1 .. n) <= Cardinality(S)
  BY <1>1, FS_Injection, Zenon
<1> QED
  BY <1>2, <1>3

-----------------------------------------------------------------------------
(* What a frame uses again.                                                *)

\* What the frame loop counts and where it is agree.
Progress ==
  /\ completed < frameIndex /\ frameIndex <= completed + MaxInFlight + 1
  /\ Recording => frameIndex <= LastFrame
  /\ frameIndex <= LastFrame + 1

\* Each command buffer was last submitted for an earlier frame of its slot.
BuffersInTurn ==
  /\ bufferUsed \in [Slots -> Nat]
  /\ \A s \in Slots : bufferUsed[s] < frameIndex /\ (bufferUsed[s] # 0 => bufferUsed[s] % MaxInFlight = s)

HasSet == pc \in {"acquire", "record"} \/ (pc \in Idling /\ resume = "record")

SetTypes ==
  /\ retiredSets \in Seq([set : 1 .. LastFrame, fence : 1 .. LastFrame])
  /\ setUsed \in [0 .. LastFrame -> 0 .. LastFrame]
  /\ allocated \in Nat /\ allocated <= MaxInFlight

SetsCounted == allocated = Len(retiredSets) + (IF HasSet THEN 1 ELSE 0)

SetInHand ==
  IF HasSet THEN descriptorSet \in 1 .. allocated /\ setUsed[descriptorSet] <= completed
            ELSE descriptorSet = 0

\* Every other set was retired by one frame, its last.
Retirements ==
  /\ \A i \in 1 .. Len(retiredSets) :
       /\ retiredSets[i].set \in 1 .. allocated /\ retiredSets[i].set # descriptorSet
       /\ retiredSets[i].fence < frameIndex
       /\ setUsed[retiredSets[i].set] = retiredSets[i].fence
  /\ \A i, j \in 1 .. Len(retiredSets) :
       retiredSets[i].fence = retiredSets[j].fence \/ retiredSets[i].set = retiredSets[j].set => i = j

NewSetsUnused == \A s \in 0 .. LastFrame : s > allocated => setUsed[s] = 0

SetsRetired == SetTypes /\ SetsCounted /\ SetInHand /\ Retirements /\ NewSetsUnused

ObjectTypes ==
  object \in [Objects -> [state : {"live", "queued", "taken", "disposed"},
                          framesLeft : 0 .. DisposeDelay, lastUse : 0 .. LastFrame]]

Reuse == IInv /\ Progress /\ BuffersInTurn /\ SetsRetired /\ ObjectTypes

\* The frame being recorded found its swapchain out of date.
SwapChainLost == pc \in Idling /\ resume = "record"

\* The last frame that asked for an image.
LastAcquired == IF pc = "record" \/ SwapChainLost THEN frameIndex ELSE frameIndex - 1

\* A signal of the engine is for a frame that the device has still to complete.
SignalsForFrames ==
  /\ imageAvailable \in [Slots -> {"idle", "pending", "signaled"}]
  /\ \A s \in Slots : imageAvailable[s] # "idle" =>
       \E f \in completed + 1 .. LastAcquired : f % MaxInFlight = s

Signals == Reuse /\ SignalsForFrames

-----------------------------------------------------------------------------
(* Reuse of command buffers and descriptor sets.                           *)

\* What a step does that neither takes nor retires a set.
BesideSets ==
  /\ UNCHANGED <<retiredSets, setUsed, allocated, descriptorSet, bufferUsed, frameIndex, HasSet>>
  /\ completed \in Nat /\ completed' \in Nat /\ completed <= completed'

\* Every step is one of these: it takes a set, retires one, or does neither.
LEMMA SetSteps == ASSUME Reuse, [Next]_vars PROVE BeginFrame \/ Submit \/ BesideSets
<1> USE DEF BesideSets, HasSet, Idling, setVars
<1>0. completed \in Nat /\ frameIndex \in Nat
  BY DEF Reuse, IInv, HostTypes
<1>1. CASE WaitForPreviousFrame \/ Begin \/ AcquireNextImage \/ AcquireOutOfDate
  BY <1>0, <1>1 DEF WaitForPreviousFrame, Begin, AcquireNextImage, AcquireOutOfDate
<1>2. CASE Present \/ WaitIdle \/ ForceRelease \/ EndFrame \/ NextFrame \/ Resize
  BY <1>0, <1>2 DEF Present, WaitIdle, ForceRelease, EndFrame, NextFrame, Resize, Ended
<1>3. CASE CreateSwapChain
  BY <1>0, <1>3 DEF CreateSwapChain, Reuse, IInv, HostTypes
<1>4. CASE Complete
  BY <1>0, <1>4 DEF Complete, HostState
<1>5. CASE Show \/ Stopped \/ UNCHANGED vars
  BY <1>0, <1>5 DEF Show, HostState, Stopped, vars
<1>6. ASSUME NEW s \in Slots, ImageReady(s) PROVE BesideSets
  BY <1>0, <1>6 DEF ImageReady, HostState
<1>7. ASSUME NEW o \in Objects, DoDispose(o) \/ Use(o) \/ Release(o) PROVE BesideSets
  BY <1>0, <1>7 DEF DoDispose, Use, Release
<1> QED
  BY <1>1, <1>2, <1>3, <1>4, <1>5, <1>6, <1>7 DEF Next, Render

\* A frame starts within the bound and at most MaxInFlight frames ahead.
LEMMA ProgressKept == ASSUME Reuse, [Next]_vars PROVE Progress'
<1> USE FramesAssumption DEF Progress, Recording, Idling
<1>0. /\ completed \in Nat /\ frameIndex \in Nat \ {0} /\ pc \in Pcs /\ Throttled /\ Progress
      /\ resume \in {"record", "end", "wait"}
  BY DEF Reuse, IInv, HostTypes
<1>1. CASE WaitForPreviousFrame \/ Begin \/ BeginFrame \/ AcquireNextImage \/ AcquireOutOfDate
  BY <1>0, <1>1 DEF WaitForPreviousFrame, Begin, BeginFrame, AcquireNextImage, AcquireOutOfDate
<1>2. CASE Present \/ WaitIdle \/ ForceRelease \/ EndFrame \/ NextFrame \/ Resize \/ CreateSwapChain
  BY <1>0, <1>2 DEF Present, WaitIdle, ForceRelease, EndFrame, NextFrame, Resize, CreateSwapChain, Ended
<1>3. CASE Submit
  BY <1>0, <1>3 DEF Submit, Throttled
<1>4. CASE Complete
  BY <1>0, <1>4 DEF Complete, HostState
<1>5. CASE Show \/ Stopped \/ UNCHANGED vars
  BY <1>0, <1>5 DEF Show, HostState, Stopped, vars
<1>6. ASSUME NEW s \in Slots, ImageReady(s) PROVE Progress'
  BY <1>0, <1>6 DEF ImageReady, HostState
<1>7. ASSUME NEW o \in Objects, DoDispose(o) \/ Use(o) \/ Release(o) PROVE Progress'
  BY <1>0, <1>7 DEF DoDispose, Use, Release
<1> QED
  BY <1>1, <1>2, <1>3, <1>4, <1>5, <1>6, <1>7 DEF Next, Render

\* Only a submit writes to bufferUsed: the frame to its slot.
LEMMA BuffersKept == ASSUME Reuse, [Next]_vars PROVE BuffersInTurn'
<1>1. BuffersInTurn /\ frameIndex \in Nat \ {0}
  BY DEF Reuse, IInv, HostTypes
<1>2. CASE Submit
  <2>1. frameIndex' = frameIndex + 1 /\ bufferUsed' = [bufferUsed EXCEPT ![Slot] = frameIndex]
    BY <1>2 DEF Submit
  <2>2. PICK s \in Slots : s = Slot /\ frameIndex % MaxInFlight = s
    BY <1>1, SlotOf DEF Slot
  <2> QED
    BY <1>1, <2>1, <2>2 DEF BuffersInTurn
<1>3. CASE BeginFrame
  BY <1>1, <1>3 DEF BuffersInTurn, BeginFrame
<1>4. CASE BesideSets
  BY <1>1, <1>4 DEF BuffersInTurn, BesideSets
<1> QED
  BY <1>2, <1>3, <1>4, SetSteps

\* The command buffer of a slot is free when its next frame is recorded.
LEMMA BufferIsFree == ASSUME Reuse, Recording PROVE bufferUsed[Slot] <= completed
<1>1. /\ BuffersInTurn /\ frameIndex \in Nat \ {0} /\ completed \in Nat /\ MaxInFlight \in Nat \ {0}
      /\ frameIndex <= completed + MaxInFlight
  BY FramesAssumption DEF Reuse, IInv, HostTypes, Throttled
<1>2. Slot \in Slots /\ Slot = frameIndex % MaxInFlight
  BY <1>1, SlotOf DEF Slot
<1>3. PICK f \in Nat : f = bufferUsed[Slot]
  BY <1>1, <1>2 DEF BuffersInTurn
<1>4. f < frameIndex /\ (f # 0 => f % MaxInFlight = frameIndex % MaxInFlight)
  BY <1>1, <1>2, <1>3 DEF BuffersInTurn
<1>5. f # 0 => ~(frameIndex - f < MaxInFlight)
  BY <1>1, <1>4, SlotsDiffer
<1> QED
  BY <1>1, <1>3, <1>4, <1>5

\* Fewer sets are retired than frames begun, and if the device is not done with
\* any of them, fewer than frames in flight.
LEMMA RetiredSets ==
  ASSUME Reuse
  PROVE  /\ Len(retiredSets) \in Nat /\ Len(retiredSets) < frameIndex
         /\ Reusable = {} => Len(retiredSets) < frameIndex - completed
<1>1. /\ SetsRetired /\ frameIndex \in Nat \ {0} /\ completed \in Nat /\ completed < frameIndex
      /\ retiredSets \in Seq([set : 1 .. LastFrame, fence : 1 .. LastFrame])
  BY DEF Reuse, IInv, HostTypes, Progress, SetsRetired, SetTypes
<1> DEFINE n == Len(retiredSets)
           g == [i \in 1 .. n |-> retiredSets[i].fence]
<1>2. n \in Nat /\ DOMAIN retiredSets = 1 .. n
      /\ \A i \in 1 .. n : retiredSets[i] \in [set : 1 .. LastFrame, fence : 1 .. LastFrame]
  BY <1>1, LenProperties, ElementOfSeq
<1>3. \A i \in 1 .. n : g[i] \in Nat /\ g[i] > 0 /\ g[i] < frameIndex /\ (Reusable = {} => g[i] > completed)
  <2>1. \A i \in 1 .. n : retiredSets[i].fence < frameIndex
    BY <1>1 DEF SetsRetired, Retirements
  <2>2. \A i \in 1 .. n : retiredSets[i].fence \in Nat /\ retiredSets[i].fence > 0
    BY <1>2, FramesAssumption
  <2>3. Reusable = {} => \A i \in 1 .. n : ~(retiredSets[i].fence <= completed)
    BY <1>2 DEF Reusable
  <2> QED
    BY <1>1, <2>1, <2>2, <2>3
<1>4. \A i, j \in 1 .. n : g[i] = g[j] => i = j
  BY <1>1 DEF SetsRetired, Retirements
<1>5. ASSUME NEW a \in Nat, a < frameIndex, \A i \in 1 .. n : g[i] > a PROVE n < frameIndex - a
  <2>1. g \in [1 .. n -> a + 1 .. frameIndex - 1]
    BY <1>1, <1>3, <1>5
  <2>2. IsFiniteSet(a + 1 .. frameIndex - 1) /\ Cardinality(a + 1 .. frameIndex - 1) = frameIndex - a - 1
    <3>1. a + 1 \in Int /\ frameIndex - 1 \in Int
      BY <1>1
    <3>2. /\ IsFiniteSet(a + 1 .. frameIndex - 1)
          /\ Cardinality(a + 1 .. frameIndex - 1) =
               IF a + 1 > frameIndex - 1 THEN 0 ELSE frameIndex - 1 - (a + 1) + 1
      BY <3>1, FS_Interval, Zenon
    <3> QED
      BY <1>1, <1>5, <3>2
  <2> HIDE DEF n, g
  <2>3. n <= Cardinality(a + 1 .. frameIndex - 1)
    BY <1>2, <1>4, <2>1, <2>2, Pigeons
  <2> QED
    BY <1>1, <1>2, <1>5, <2>2, <2>3
<1> HIDE DEF g
<1>6. n < frameIndex
  <2>1. 0 \in Nat /\ 0 < frameIndex /\ \A i \in 1 .. n : g[i] > 0
    BY <1>1, <1>3
  <2>2. n < frameIndex - 0
    BY <1>5, <2>1
  <2> QED
    BY <1>1, <2>2
<1>7. Reusable = {} => n < frameIndex - completed
  BY <1>1, <1>3, <1>5
<1> QED
  BY <1>1, <1>2, <1>6, <1>7

\* The device may complete frames: a set that was free stays free.
LEMMA SetsBeside == ASSUME Reuse, BesideSets PROVE SetsRetired'
<1>1. /\ SetTypes /\ SetsCounted /\ SetInHand /\ Retirements /\ NewSetsUnused
      /\ frameIndex \in Nat \ {0} /\ LastFrame \in Nat
      /\ Len(retiredSets) \in Nat /\ Len(retiredSets) < frameIndex /\ (HasSet => frameIndex <= LastFrame)
  BY RetiredSets, FramesAssumption DEF Reuse, SetsRetired, IInv, HostTypes, Progress, Recording, HasSet
<1>2. /\ retiredSets' = retiredSets /\ setUsed' = setUsed /\ allocated' = allocated
      /\ descriptorSet' = descriptorSet /\ frameIndex' = frameIndex /\ HasSet' = HasSet
      /\ completed \in Nat /\ completed' \in Nat /\ completed <= completed'
  BY DEF BesideSets
<1>3. SetInHand'
  <2>1. CASE HasSet
    <3>1. descriptorSet \in 1 .. allocated /\ setUsed[descriptorSet] <= completed /\ descriptorSet \in 0 .. LastFrame
      <4>1. descriptorSet \in 1 .. allocated /\ setUsed[descriptorSet] <= completed
        BY <1>1, <2>1 DEF SetInHand
      <4>2. allocated = Len(retiredSets) + 1
        BY <1>1, <2>1 DEF SetsCounted
      <4> QED
        BY <1>1, <2>1, <4>1, <4>2
    <3>2. setUsed[descriptorSet] \in Nat
      BY <1>1, <3>1 DEF SetTypes
    <3>3. setUsed[descriptorSet] <= completed'
      BY <1>2, <3>1, <3>2
    <3> QED
      BY <1>2, <2>1, <3>1, <3>3 DEF SetInHand
  <2>2. CASE ~HasSet
    BY <1>1, <1>2, <2>2 DEF SetInHand
  <2> QED
    BY <2>1, <2>2
<1>4. SetTypes' /\ SetsCounted' /\ NewSetsUnused'
  BY <1>1, <1>2 DEF SetTypes, SetsCounted, NewSetsUnused
<1>5. Retirements'
  BY <1>1, <1>2, Zenon DEF Retirements
<1> QED
  BY <1>3, <1>4, <1>5 DEF SetsRetired

\* A submit retires the set with the value of its frame.
LEMMA SetsOfSubmit == ASSUME Reuse, Submit PROVE SetsRetired'
<1> DEFINE n == Len(retiredSets)
           d == descriptorSet
           new == [set |-> d, fence |-> frameIndex]
<1>1. /\ SetsRetired /\ frameIndex \in Nat \ {0} /\ frameIndex <= LastFrame /\ LastFrame \in Nat
      /\ completed \in Nat /\ n \in Nat /\ n < frameIndex
  BY RetiredSets, FramesAssumption DEF Reuse, IInv, HostTypes, Progress, Recording, Submit
<1>2. /\ HasSet /\ ~HasSet' /\ descriptorSet' = 0 /\ frameIndex' = frameIndex + 1
      /\ allocated' = allocated /\ completed' = completed
      /\ retiredSets' = Append(retiredSets, new) /\ setUsed' = [setUsed EXCEPT ![d] = frameIndex]
  BY DEF Submit, HasSet, Idling
<1>3. allocated \in Nat /\ allocated = n + 1 /\ allocated <= MaxInFlight /\ d \in 1 .. allocated /\ d \in 1 .. LastFrame
  BY <1>1, <1>2 DEF SetsRetired, SetTypes, SetsCounted, SetInHand
<1>4. new \in [set : 1 .. LastFrame, fence : 1 .. LastFrame] /\ new.set = d /\ new.fence = frameIndex
  BY <1>1, <1>3
<1> HIDE DEF new
<1>5. /\ retiredSets' \in Seq([set : 1 .. LastFrame, fence : 1 .. LastFrame]) /\ Len(retiredSets') = n + 1
      /\ \A i \in 1 .. n : retiredSets'[i] = retiredSets[i]
      /\ retiredSets'[n + 1] = new
  BY <1>1, <1>2, <1>4, AppendElements DEF SetsRetired, SetTypes
<1>6. /\ setUsed' \in [0 .. LastFrame -> 0 .. LastFrame] /\ setUsed'[d] = frameIndex
      /\ \A s \in 0 .. LastFrame : s # d => setUsed'[s] = setUsed[s]
  <2>1. setUsed \in [0 .. LastFrame -> 0 .. LastFrame]
    BY <1>1 DEF SetsRetired, SetTypes
  <2>2. d \in 0 .. LastFrame /\ frameIndex \in 0 .. LastFrame
    BY <1>1, <1>3
  <2> QED
    BY <1>2, <2>1, <2>2
<1>7. \A i \in 1 .. n :
        /\ retiredSets[i].set \in 1 .. allocated /\ retiredSets[i].set # d /\ retiredSets[i].set \in 0 .. LastFrame
        /\ retiredSets[i].fence < frameIndex /\ retiredSets[i].fence \in Nat
        /\ setUsed[retiredSets[i].set] = retiredSets[i].fence
  <2>1. \A i \in 1 .. n : retiredSets[i] \in [set : 1 .. LastFrame, fence : 1 .. LastFrame]
    BY <1>1, ElementOfSeq DEF SetsRetired, SetTypes
  <2>2. \A i \in 1 .. n : retiredSets[i].set \in 0 .. LastFrame /\ retiredSets[i].fence \in Nat
    BY <1>1, <2>1
  <2> QED
    BY <1>1, <2>2 DEF SetsRetired, Retirements
<1>8. \A i \in 1 .. n + 1 :
        /\ retiredSets'[i].set \in 1 .. allocated /\ retiredSets'[i].set # 0
        /\ retiredSets'[i].fence < frameIndex + 1
        /\ setUsed'[retiredSets'[i].set] = retiredSets'[i].fence
  <2> TAKE i \in 1 .. n + 1
  <2>1. CASE i = n + 1
    <3>1. retiredSets'[i].set = d /\ retiredSets'[i].fence = frameIndex /\ setUsed'[d] = frameIndex
      BY <1>4, <1>5, <1>6, <2>1
    <3> QED
      BY <1>1, <1>3, <3>1
  <2>2. CASE i \in 1 .. n
    <3>1. retiredSets'[i] = retiredSets[i]
      BY <1>5, <2>2
    <3>2. setUsed'[retiredSets[i].set] = retiredSets[i].fence
      BY <1>6, <1>7, <2>2
    <3> QED
      BY <1>1, <1>3, <1>7, <2>2, <3>1, <3>2
  <2> QED
    BY <1>1, <2>1, <2>2
<1>9. \A i, j \in 1 .. n + 1 :
        retiredSets'[i].fence = retiredSets'[j].fence \/ retiredSets'[i].set = retiredSets'[j].set => i = j
  <2> TAKE i, j \in 1 .. n + 1
  <2>0. /\ retiredSets'[n + 1].set = d /\ retiredSets'[n + 1].fence = frameIndex
        /\ \A k \in 1 .. n : /\ retiredSets'[k] = retiredSets[k] /\ retiredSets[k].set # d
                            /\ retiredSets[k].fence # frameIndex
    <3>1. \A k \in 1 .. n : retiredSets[k].set # d /\ retiredSets[k].fence # frameIndex
      BY <1>1, <1>7
    <3> QED
      BY <1>4, <1>5, <3>1
  <2>1. CASE i \in 1 .. n /\ j \in 1 .. n
    BY <1>1, <2>0, <2>1 DEF SetsRetired, Retirements
  <2>2. CASE i \in 1 .. n /\ j = n + 1
    BY <2>0, <2>2
  <2>3. CASE i = n + 1 /\ j \in 1 .. n
    BY <2>0, <2>3
  <2> QED
    BY <1>1, <2>1, <2>2, <2>3
<1>10. \A s \in 0 .. LastFrame : s > allocated => setUsed'[s] = 0
  <2>1. \A s \in 0 .. LastFrame : s > allocated => s # d
    BY <1>1, <1>3
  <2> QED
    BY <1>1, <1>6, <2>1 DEF SetsRetired, NewSetsUnused
<1>11. SetTypes' /\ SetsCounted' /\ SetInHand'
  BY <1>2, <1>3, <1>5, <1>6 DEF SetTypes, SetsCounted, SetInHand
<1>12. Retirements' /\ NewSetsUnused'
  BY <1>2, <1>5, <1>8, <1>9, <1>10 DEF Retirements, NewSetsUnused
<1> QED
  BY <1>11, <1>12 DEF SetsRetired

\* A frame takes a set the device is done with, or a new one when there is none.
LEMMA SetsOfBeginFrame == ASSUME Reuse, BeginFrame PROVE SetsRetired'
<1> DEFINE n == Len(retiredSets)
           d == descriptorSet'
<1>1. /\ SetsRetired /\ frameIndex \in Nat \ {0} /\ frameIndex <= LastFrame /\ LastFrame \in Nat
      /\ completed \in Nat /\ n \in Nat /\ n < frameIndex /\ MaxInFlight \in Nat
      /\ frameIndex <= completed + MaxInFlight
      /\ Reusable = {} => n < frameIndex - completed
  BY RetiredSets, FramesAssumption DEF Reuse, IInv, HostTypes, Progress, Throttled, Recording, BeginFrame
<1>2. /\ ~HasSet /\ HasSet' /\ UNCHANGED <<frameIndex, completed, setUsed>>
  BY DEF BeginFrame, HasSet, Idling
<1>3. allocated \in Nat /\ allocated = n /\ allocated <= MaxInFlight
  BY <1>1, <1>2 DEF SetsRetired, SetTypes, SetsCounted
<1>4. \A i \in 1 .. n :
        /\ retiredSets[i] \in [set : 1 .. LastFrame, fence : 1 .. LastFrame]
        /\ retiredSets[i].set \in 1 .. allocated /\ retiredSets[i].fence < frameIndex
        /\ setUsed[retiredSets[i].set] = retiredSets[i].fence
  <2>1. \A i \in 1 .. n : retiredSets[i] \in [set : 1 .. LastFrame, fence : 1 .. LastFrame]
    BY <1>1, ElementOfSeq DEF SetsRetired, SetTypes
  <2> QED
    BY <1>1, <2>1 DEF SetsRetired, Retirements
<1>5. \A i, j \in 1 .. n :
        retiredSets[i].fence = retiredSets[j].fence \/ retiredSets[i].set = retiredSets[j].set => i = j
  BY <1>1 DEF SetsRetired, Retirements
<1>6. CASE Reusable # {}
  <2>1. PICK i \in 1 .. n : /\ retiredSets[i].fence <= completed /\ d = retiredSets[i].set
                            /\ retiredSets' = EraseUnsorted(retiredSets, i) /\ allocated' = allocated
    <3>1. DOMAIN retiredSets = 1 .. n
      BY <1>1, LenProperties DEF SetsRetired, SetTypes
    <3> QED
      BY <1>6, <3>1 DEF BeginFrame, Reusable
  <2>2. /\ retiredSets' \in Seq([set : 1 .. LastFrame, fence : 1 .. LastFrame])
        /\ Len(retiredSets') = n - 1
        /\ \A k \in 1 .. n - 1 : retiredSets'[k] = IF k = i THEN retiredSets[n] ELSE retiredSets[k]
    BY <1>1, <2>1, EraseElements DEF SetsRetired, SetTypes
  <2>3. ASSUME NEW k \in 1 .. n - 1
        PROVE  \E l \in 1 .. n \ {i} : /\ retiredSets'[k] = retiredSets[l]
                                       /\ IF k = i THEN l = n ELSE l = k
    <3>1. CASE k = i
      <4>1. n \in 1 .. n \ {i}
        BY <1>1, <3>1
      <4> QED
        BY <2>2, <3>1, <4>1
    <3>2. CASE k # i
      <4>1. k \in 1 .. n \ {i}
        BY <1>1, <3>2
      <4> QED
        BY <2>2, <3>2, <4>1
    <3> QED
      BY <3>1, <3>2
  <2>4. \A k \in 1 .. n - 1 :
          /\ retiredSets'[k].set \in 1 .. allocated /\ retiredSets'[k].set # d
          /\ retiredSets'[k].fence < frameIndex
          /\ setUsed[retiredSets'[k].set] = retiredSets'[k].fence
    <3> TAKE k \in 1 .. n - 1
    <3>1. PICK l \in 1 .. n \ {i} : retiredSets'[k] = retiredSets[l]
      BY <2>3
    <3>2. retiredSets[l].set # retiredSets[i].set
      BY <1>5, <2>1, <3>1
    <3> QED
      BY <1>4, <2>1, <3>1, <3>2
  <2>5. \A j, k \in 1 .. n - 1 :
          retiredSets'[j].fence = retiredSets'[k].fence \/ retiredSets'[j].set = retiredSets'[k].set => j = k
    <3> TAKE j, k \in 1 .. n - 1
    <3>1. PICK l \in 1 .. n \ {i} : retiredSets'[j] = retiredSets[l] /\ IF j = i THEN l = n ELSE l = j
      BY <2>3
    <3>2. PICK m \in 1 .. n \ {i} : retiredSets'[k] = retiredSets[m] /\ IF k = i THEN m = n ELSE m = k
      BY <2>3
    <3>3. l = m => j = k
      BY <1>1, <3>1, <3>2
    <3>4. retiredSets[l].fence = retiredSets[m].fence \/ retiredSets[l].set = retiredSets[m].set => l = m
      BY <1>5, <3>1, <3>2
    <3> QED
      BY <3>1, <3>2, <3>3, <3>4
  <2>6. d \in 1 .. allocated /\ setUsed[d] <= completed
    BY <1>4, <2>1
  <2>7. allocated = n - 1 + 1
    BY <1>1, <1>3
  <2>8. SetTypes' /\ SetsCounted' /\ SetInHand' /\ NewSetsUnused'
    BY <1>1, <1>2, <1>3, <2>1, <2>2, <2>6, <2>7
    DEF SetsRetired, SetTypes, SetsCounted, SetInHand, NewSetsUnused
  <2>9. Retirements'
    BY <1>2, <2>1, <2>2, <2>4, <2>5 DEF Retirements
  <2> QED
    BY <2>8, <2>9 DEF SetsRetired
<1>7. CASE Reusable = {}
  <2>1. allocated' = allocated + 1 /\ d = allocated + 1 /\ retiredSets' = retiredSets
    BY <1>7 DEF BeginFrame
  <2>2. d \in 0 .. LastFrame /\ allocated' \in Nat /\ allocated' <= MaxInFlight /\ d > allocated
    BY <1>1, <1>3, <1>7, <2>1
  <2>3. setUsed[d] = 0
    BY <1>1, <2>2 DEF SetsRetired, NewSetsUnused
  <2>4. \A i \in 1 .. n : retiredSets[i].set \in 1 .. allocated' /\ retiredSets[i].set # d
    BY <1>3, <1>4, <2>1
  <2>5. \A s \in 0 .. LastFrame : s > allocated' => setUsed[s] = 0
    BY <1>1, <1>3, <2>1 DEF SetsRetired, NewSetsUnused
  <2>6. d \in 1 .. allocated' /\ setUsed[d] <= completed /\ allocated' = n + 1
    BY <1>1, <1>3, <2>1, <2>3
  <2>7. /\ retiredSets' \in Seq([set : 1 .. LastFrame, fence : 1 .. LastFrame])
        /\ setUsed' \in [0 .. LastFrame -> 0 .. LastFrame]
    BY <1>1, <1>2, <2>1 DEF SetsRetired, SetTypes
  <2>8. SetTypes' /\ SetsCounted' /\ SetInHand' /\ NewSetsUnused'
    BY <1>2, <2>1, <2>2, <2>5, <2>6, <2>7 DEF SetTypes, SetsCounted, SetInHand, NewSetsUnused
  <2>9. Retirements'
    BY <1>2, <1>4, <1>5, <2>1, <2>4 DEF Retirements
  <2> QED
    BY <2>8, <2>9 DEF SetsRetired
<1> QED
  BY <1>6, <1>7

\* Every step keeps what is known of the sets.
LEMMA SetsKept == ASSUME Reuse, [Next]_vars PROVE SetsRetired'
BY SetSteps, SetsOfBeginFrame, SetsOfSubmit, SetsBeside

\* The countdown and the last use of an object stay within their bounds.
LEMMA ObjectsKept == ASSUME Reuse, [Next]_vars PROVE ObjectTypes'
<1> USE FramesAssumption DEF ObjectTypes
<1>0. /\ ObjectTypes /\ frameIndex \in Nat /\ (pc = "record" => frameIndex <= LastFrame)
      /\ \A o \in Objects : object[o].state = "queued" => object[o].framesLeft >= 1
  BY DEF Reuse, IInv, HostTypes, Progress, Recording, Countdown
<1>1. CASE UNCHANGED object
  BY <1>0, <1>1
<1>2. CASE ForceRelease
  BY <1>0, <1>2 DEF ForceRelease
<1>3. CASE EndFrame
  <2>1. ASSUME NEW x \in Objects
        PROVE object'[x] \in [state : {"live", "queued", "taken", "disposed"},
                              framesLeft : 0 .. DisposeDelay, lastUse : 0 .. LastFrame]
    <3>1. PICK e \in [state : {"live", "queued", "taken", "disposed"},
                      framesLeft : 0 .. DisposeDelay, lastUse : 0 .. LastFrame] : e = object[x]
      BY <1>0
    <3>2. object'[x] = IF x \in Due THEN [e EXCEPT !.state = "taken"]
                       ELSE IF x \in Queued THEN [e EXCEPT !.framesLeft = @ - 1] ELSE e
      BY <1>3, <3>1 DEF EndFrame
    <3>3. x \in Queued => e.framesLeft - 1 \in 0 .. DisposeDelay
      BY <1>0, <3>1 DEF Queued
    <3> QED
      BY <3>1, <3>2, <3>3
  <2>2. object' = [x \in Objects |-> object'[x]]
    BY <1>3 DEF EndFrame
  <2> QED
    BY <2>1, <2>2
<1>4. ASSUME NEW o \in Objects, DoDispose(o) PROVE ObjectTypes'
  <2>1. ASSUME NEW x \in Objects
        PROVE object'[x] \in [state : {"live", "queued", "taken", "disposed"},
                              framesLeft : 0 .. DisposeDelay, lastUse : 0 .. LastFrame]
    <3>1. PICK e \in [state : {"live", "queued", "taken", "disposed"},
                      framesLeft : 0 .. DisposeDelay, lastUse : 0 .. LastFrame] : e = object[x]
      BY <1>0
    <3>2. object'[x] = IF x = o THEN [e EXCEPT !.state = "disposed"]
                       ELSE IF Holder[x] = o
                            THEN [e EXCEPT !.state = "queued", !.framesLeft = DisposeDelay] ELSE e
      BY <1>4, <3>1 DEF DoDispose, AsQueued
    <3>3. DisposeDelay \in 0 .. DisposeDelay
      OBVIOUS
    <3> QED
      BY <3>1, <3>2, <3>3
  <2>2. object' = [x \in Objects |-> object'[x]]
    BY <1>4 DEF DoDispose
  <2> QED
    BY <2>1, <2>2
<1>5. ASSUME NEW o \in Objects, Use(o) PROVE ObjectTypes'
  <2>1. ASSUME NEW x \in Objects
        PROVE object'[x] \in [state : {"live", "queued", "taken", "disposed"},
                              framesLeft : 0 .. DisposeDelay, lastUse : 0 .. LastFrame]
    <3>1. PICK e \in [state : {"live", "queued", "taken", "disposed"},
                      framesLeft : 0 .. DisposeDelay, lastUse : 0 .. LastFrame] : e = object[x]
      BY <1>0
    <3>2. object'[x] = [e EXCEPT !.lastUse = frameIndex] \/ object'[x] = e
      BY <1>5, <3>1 DEF Use
    <3>3. frameIndex \in 0 .. LastFrame
      BY <1>0, <1>5 DEF Use
    <3> QED
      BY <3>1, <3>2, <3>3
  <2>2. object' = [x \in Objects |-> object'[x]]
    BY <1>5 DEF Use
  <2> QED
    BY <2>1, <2>2
<1>6. ASSUME NEW o \in Objects, Release(o) PROVE ObjectTypes'
  <2>1. PICK e \in [state : {"live", "queued", "taken", "disposed"},
                    framesLeft : 0 .. DisposeDelay, lastUse : 0 .. LastFrame] : e = object[o]
    BY <1>0
  <2>2. PICK r : r = [e EXCEPT !.state = "queued", !.framesLeft = DisposeDelay]
    OBVIOUS
  <2>3. r \in [state : {"live", "queued", "taken", "disposed"},
               framesLeft : 0 .. DisposeDelay, lastUse : 0 .. LastFrame]
    <3>1. DisposeDelay \in 0 .. DisposeDelay
      OBVIOUS
    <3> QED
      BY <2>1, <2>2, <3>1
  <2>4. object' = [object EXCEPT ![o] = r]
    BY <1>6, <2>1, <2>2 DEF Release, AsQueued
  <2> QED
    BY <1>0, <2>3, <2>4
<1>7. \/ UNCHANGED object \/ ForceRelease \/ EndFrame
      \/ \E o \in Objects : DoDispose(o) \/ Use(o) \/ Release(o)
  BY DEF Next, Render, WaitForPreviousFrame, Begin, BeginFrame, AcquireNextImage, AcquireOutOfDate, Submit,
         Present, WaitIdle, CreateSwapChain, NextFrame, Resize, Complete, Show, ImageReady, Stopped, vars,
         objectVars, HostState
<1> QED
  BY <1>1, <1>2, <1>3, <1>4, <1>5, <1>6, <1>7

\* No frame has begun, no set was allocated.
LEMMA InitReuse == Init => Reuse
<1> SUFFICES ASSUME Init PROVE Reuse
  OBVIOUS
<1> USE FramesAssumption DEF Init
<1>1. IInv
  BY InitIInv
<1>2. Progress /\ BuffersInTurn /\ ObjectTypes
  BY DEF Progress, BuffersInTurn, ObjectTypes, Recording, Idling
<1>3. ~HasSet /\ Len(retiredSets) = 0 /\ retiredSets \in Seq([set : 1 .. LastFrame, fence : 1 .. LastFrame])
  BY DEF HasSet, Idling
<1>4. SetsRetired
  BY <1>3 DEF SetsRetired, SetTypes, SetsCounted, SetInHand, Retirements, NewSetsUnused
<1> QED
  BY <1>1, <1>2, <1>4 DEF Reuse

\* Every step keeps Reuse.
LEMMA NextReuse == Reuse /\ [Next]_vars => Reuse'
<1> SUFFICES ASSUME Reuse, [Next]_vars PROVE Reuse'
  OBVIOUS
<1>1. IInv'
  BY NextIInv DEF Reuse
<1> QED
  BY <1>1, ProgressKept, BuffersKept, SetsKept, ObjectsKept DEF Reuse

\* In every reachable state the parts of Reuse hold.
THEOREM ReuseInvariant == Spec => []Reuse
BY InitReuse, NextReuse, PTL DEF Spec

\* The types of the frame loop, and what recording a frame resets or writes: the
\* device has completed the last frame of that command buffer and of that set,
\* and there are never more sets than frames in flight.
LEMMA ReuseSafety == Reuse => TypeOK /\ ReusedWhenCompleted
<1>1. ASSUME Reuse PROVE TypeOK
  <2>1. /\ HostTypes /\ Progress /\ SetTypes /\ SetsCounted /\ SetInHand /\ ObjectTypes
        /\ Len(retiredSets) \in Nat /\ Len(retiredSets) < frameIndex /\ LastFrame \in Nat
    BY <1>1, RetiredSets, FramesAssumption DEF Reuse, IInv, SetsRetired
  <2>2. frameIndex \in 1 .. LastFrame + 1 /\ completed \in 0 .. frameIndex - 1
    BY <2>1 DEF HostTypes, Progress
  <2>3. allocated \in 0 .. LastFrame /\ descriptorSet \in 0 .. LastFrame
    <3>1. CASE HasSet
      <4>1. frameIndex <= LastFrame
        BY <2>1, <3>1 DEF HasSet, Progress, Recording
      <4>2. allocated = Len(retiredSets) + 1 /\ descriptorSet \in 1 .. allocated
        BY <2>1, <3>1 DEF SetsCounted, SetInHand
      <4> QED
        BY <2>1, <2>2, <4>1, <4>2
    <3>2. CASE ~HasSet
      <4>1. allocated = Len(retiredSets) /\ descriptorSet = 0
        BY <2>1, <3>2 DEF SetsCounted, SetInHand
      <4> QED
        BY <2>1, <2>2, <4>1
    <3> QED
      BY <3>1, <3>2
  <2> QED
    BY <2>1, <2>2, <2>3 DEF TypeOK, HostTypes, SetTypes, ObjectTypes
<1>2. ASSUME Reuse PROVE ReusedWhenCompleted
  <2>1. SetTypes /\ SetInHand
    BY <1>2 DEF Reuse, SetsRetired
  <2>2. descriptorSet # 0 => setUsed[descriptorSet] <= completed
    BY <2>1 DEF SetInHand
  <2> QED
    BY <1>2, <2>1, <2>2, BufferIsFree DEF ReusedWhenCompleted, SetTypes
<1> QED
  BY <1>1, <1>2

-----------------------------------------------------------------------------
(* The semaphores of acquired images.                                      *)

\* What the steps use of the invariant.
LEMMA SignalFacts ==
  ASSUME Signals
  PROVE  /\ frameIndex \in Nat \ {0} /\ completed \in Nat /\ MaxInFlight \in Nat \ {0}
         /\ Recording => frameIndex <= completed + MaxInFlight
         /\ LastAcquired \in Nat /\ completed < frameIndex
         /\ Slot \in Slots /\ Slot = frameIndex % MaxInFlight
<1>1. /\ frameIndex \in Nat \ {0} /\ completed \in Nat /\ MaxInFlight \in Nat \ {0}
      /\ Recording => frameIndex <= completed + MaxInFlight
      /\ completed < frameIndex
  BY FramesAssumption DEF Signals, Reuse, IInv, HostTypes, Throttled, Progress
<1>2. Slot \in Slots /\ Slot = frameIndex % MaxInFlight
  BY <1>1, SlotOf DEF Slot
<1> QED
  BY <1>1, <1>2 DEF LastAcquired

\* A step that leaves the signals and what they are for alone.
BesideSignals == UNCHANGED <<imageAvailable, completed, LastAcquired>>

\* Every step is one of these: what else a frame does changes neither the signals
\* nor the frame that asked last.
LEMMA SignalSteps ==
  ASSUME Signals, [Next]_vars
  PROVE  BesideSignals \/ AcquireNextImage \/ AcquireOutOfDate \/ Complete \/ \E s \in Slots : ImageReady(s)
<1> USE DEF BesideSignals, LastAcquired, SwapChainLost, Idling, viewportVars
<1>1. CASE WaitForPreviousFrame \/ Begin \/ BeginFrame
  BY <1>1 DEF WaitForPreviousFrame, Begin, BeginFrame
<1>2. CASE Present \/ Resize
  BY <1>2 DEF Present, Resize
<1>3. CASE WaitIdle \/ ForceRelease \/ EndFrame \/ NextFrame
  BY <1>3 DEF WaitIdle, ForceRelease, EndFrame, NextFrame, Ended
<1>4. CASE Stopped \/ UNCHANGED vars
  BY <1>4 DEF Stopped, vars
<1>5. ASSUME NEW o \in Objects, DoDispose(o) \/ Use(o) \/ Release(o) PROVE BesideSignals
  BY <1>5 DEF DoDispose, Use, Release
<1>6. CASE Submit
  <2>1. frameIndex' - 1 = frameIndex
    BY <1>6, SignalFacts DEF Submit
  <2> QED
    BY <1>6, <2>1 DEF Submit
<1>7. CASE CreateSwapChain
  <2>1. resume \in {"record", "end", "wait"}
    BY DEF Signals, Reuse, IInv, HostTypes
  <2> QED
    BY <1>7, <2>1 DEF CreateSwapChain
<1>8. CASE Show
  BY <1>8 DEF Show, HostState
<1> QED
  BY <1>1, <1>2, <1>3, <1>4, <1>5, <1>6, <1>7, <1>8 DEF Next, Render

\* An image is acquired: the engine will signal the semaphore of the frame.
LEMMA SignalAcquired == ASSUME Signals, AcquireNextImage PROVE SignalsForFrames'
<1>1. /\ pc = "acquire" /\ pc' = "record"
      /\ imageAvailable' = [imageAvailable EXCEPT ![Slot] = "pending"]
      /\ UNCHANGED <<frameIndex, completed>>
  BY DEF AcquireNextImage, AcquireSlot
<1>2. LastAcquired = frameIndex - 1 /\ LastAcquired' = frameIndex
  BY <1>1 DEF LastAcquired, SwapChainLost, Idling
<1>3. ASSUME NEW s \in Slots, imageAvailable'[s] # "idle"
      PROVE  \E f \in completed + 1 .. frameIndex : f % MaxInFlight = s
  <2>1. CASE s = Slot
    BY <2>1, SignalFacts
  <2>2. CASE s # Slot
    <3>1. PICK f \in completed + 1 .. frameIndex - 1 : f % MaxInFlight = s
      BY <1>1, <1>2, <1>3, <2>2 DEF Signals, SignalsForFrames
    <3> QED
      BY <3>1, SignalFacts
  <2> QED
    BY <2>1, <2>2
<1> QED
  BY <1>1, <1>2, <1>3, SignalFacts DEF Signals, SignalsForFrames

\* The swapchain is out of date: no signal is added.
LEMMA SignalOutOfDate == ASSUME Signals, AcquireOutOfDate PROVE SignalsForFrames'
<1>1. /\ pc = "acquire" /\ pc' = "idle" /\ resume' = "record"
      /\ UNCHANGED <<frameIndex, completed, imageAvailable>>
  BY DEF AcquireOutOfDate
<1>2. LastAcquired = frameIndex - 1 /\ LastAcquired' = frameIndex
  BY <1>1 DEF LastAcquired, SwapChainLost, Idling
<1>3. ASSUME NEW s \in Slots, imageAvailable[s] # "idle"
      PROVE  \E f \in completed + 1 .. frameIndex : f % MaxInFlight = s
  <2>1. PICK f \in completed + 1 .. frameIndex - 1 : f % MaxInFlight = s
    BY <1>2, <1>3 DEF Signals, SignalsForFrames
  <2> QED
    BY <2>1, SignalFacts
<1> QED
  BY <1>1, <1>2, <1>3 DEF Signals, SignalsForFrames

\* The device completes a frame and consumes the signal of its slot, which frees
\* the slot: every other signal is for a later frame.
LEMMA SignalConsumed == ASSUME Signals, Complete PROVE SignalsForFrames'
<1> DEFINE s == (completed + 1) % MaxInFlight
<1>1. /\ imageAvailable' = [imageAvailable EXCEPT ![s] = "idle"] /\ completed' = completed + 1
      /\ UNCHANGED <<pc, resume, frameIndex>>
  BY DEF Complete, HostState
<1>2. LastAcquired' = LastAcquired
  BY <1>1 DEF LastAcquired, SwapChainLost
<1>3. ASSUME NEW t \in Slots, imageAvailable'[t] # "idle"
      PROVE  \E f \in completed + 1 + 1 .. LastAcquired : f % MaxInFlight = t
  <2>1. t # s /\ imageAvailable[t] # "idle"
    BY <1>1, <1>3 DEF Signals, SignalsForFrames
  <2>2. PICK f \in completed + 1 .. LastAcquired : f % MaxInFlight = t
    BY <2>1 DEF Signals, SignalsForFrames
  <2>3. f # completed + 1
    BY <2>1, <2>2
  <2> HIDE DEF s
  <2> QED
    BY <2>2, <2>3, SignalFacts
<1>4. imageAvailable' \in [Slots -> {"idle", "pending", "signaled"}]
  BY <1>1 DEF Signals, SignalsForFrames
<1> QED
  BY <1>1, <1>2, <1>3, <1>4 DEF SignalsForFrames

\* Every step keeps the signals for frames that are to be completed.
LEMMA NextSignals == Signals /\ [Next]_vars => Signals'
<1> SUFFICES ASSUME Signals, [Next]_vars PROVE Signals'
  OBVIOUS
<1>1. Reuse'
  BY NextReuse DEF Signals
<1>2. CASE BesideSignals
  BY <1>1, <1>2 DEF Signals, SignalsForFrames, BesideSignals
<1>3. CASE AcquireNextImage \/ AcquireOutOfDate \/ Complete
  BY <1>1, <1>3, SignalAcquired, SignalOutOfDate, SignalConsumed DEF Signals
<1>4. ASSUME NEW s \in Slots, ImageReady(s) PROVE Signals'
  <2>1. /\ imageAvailable[s] = "pending" /\ imageAvailable' = [imageAvailable EXCEPT ![s] = "signaled"]
        /\ UNCHANGED <<completed, pc, resume, frameIndex>>
    BY <1>4 DEF ImageReady, HostState
  <2>2. LastAcquired' = LastAcquired
    BY <2>1 DEF LastAcquired, SwapChainLost
  <2>3. \A t \in Slots : imageAvailable'[t] # "idle" => imageAvailable[t] # "idle"
    BY <2>1 DEF Signals, SignalsForFrames
  <2> QED
    BY <1>1, <2>1, <2>2, <2>3 DEF Signals, SignalsForFrames
<1> QED
  BY <1>2, <1>3, <1>4, SignalSteps

\* A frame that asks for an image finds the semaphore of its slot idle: a signal
\* left on it would be for a frame that is not completed, and shares the slot,
\* although the frame was waited for.
LEMMA AcquireIsPaired == Signals => AcquiresPaired
<1> SUFFICES ASSUME Signals, pc = "acquire", imageAvailable[Slot] # "idle" PROVE FALSE
  BY DEF AcquiresPaired
<1>1. LastAcquired = frameIndex - 1 /\ Recording
  BY DEF LastAcquired, SwapChainLost, Idling, Recording
<1>2. PICK f \in completed + 1 .. frameIndex - 1 : f % MaxInFlight = Slot
  BY <1>1, SignalFacts DEF Signals, SignalsForFrames
<1>3. f \in Nat /\ f < frameIndex /\ frameIndex - f < MaxInFlight
  BY <1>1, SignalFacts
<1> QED
  BY <1>2, <1>3, SignalFacts, SlotsDiffer

\* What a frame uses again, the device is done with, for any number of frames in
\* flight and any number of images that the engine gives the swapchain: the
\* command buffer that Begin resets, the descriptor set that BeginFrame takes,
\* and the semaphore that the acquire will signal.
THEOREM FramesReuseResources == Spec => []FrameResources
<1>1. Init => Signals
  <2>1. Init => Reuse
    BY InitReuse
  <2>2. Init => SignalsForFrames
    BY DEF Init, SignalsForFrames
  <2> QED
    BY <2>1, <2>2 DEF Signals
<1>2. Signals => FrameResources
  BY ReuseSafety, AcquireIsPaired DEF FrameResources, Signals
<1> QED
  BY <1>1, <1>2, NextSignals, PTL DEF Spec
=============================================================================
