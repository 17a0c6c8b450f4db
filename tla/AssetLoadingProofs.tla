------------------------- MODULE AssetLoadingProofs -------------------------
(***************************************************************************)
(* For any number of parts and blocks and any failures: a part of an asset *)
(* is handed to the copy queue once and whole; an unfailed load signals    *)
(* its group once, when all parts are done, and its request outlives all   *)
(* but its named last users.                                               *)
(***************************************************************************)
EXTENDS AssetLoading, FiniteSetTheorems, SequenceTheorems, TLAPS

-----------------------------------------------------------------------------
(* The inductive invariant.                                                *)

\* Where a callback can be.
Labels == {"none", "issued", "fail", "signal", "delete", "loop", "count", "upload", "schedule",
           "done", "stopped"}

\* The part that a callback may hand to the copy queue.
OwnPart(c) == IF c = Header THEN 0 ELSE c[1]

\* Who is with the manager's code between its count and the finisher's start.
HandingOver == {"upload", "schedule"}

\* Who has nothing left to count.
Past(p) == {c \in BlocksOf(p) : call[c] \in HandingOver \union {"done", "stopped"}}

\* Nothing happens before Load, and nothing but the header before it is parsed.
HeaderFirst ==
  /\ inHeader => Texture /\ BlockCount[0] = 1
  /\ loader = "none" => request.state = "none" /\ call[Header] = "none" /\ failures = {} /\ touches = {}
  /\ loader # "none" => request.state # "none"
  /\ call[Header] \in {"none", "issued"} => request.stage = "header"
  /\ request.stage = "header" => part = 0 /\ call[Header] \notin {"loop", "count", "upload", "schedule"}
  /\ call[Header] \in {"count", "upload", "schedule"} => inHeader /\ part = 0

\* What the loop has not come to is not read, and what was in the header never.
ReadInOrder ==
  /\ \A p \in Parts : p >= part => \A c \in BlocksOf(p) : call[c] = "none"
  /\ inHeader => \A c \in BlocksOf(0) : call[c] = "none"
  /\ \A p \in Parts : \A c \in BlocksOf(p) : call[c] # "loop"

\* A part has counted no more blocks than have called back for it.
BlocksCounted ==
  /\ \A p \in Parts : ~(inHeader /\ p = 0) => request.loadedBlocks[p] <= Cardinality(Past(p))
  /\ inHeader =>
       /\ request.loadedBlocks[0] <= 1
       /\ part = 0 /\ call[Header] \in {"none", "issued", "loop", "count"} => request.loadedBlocks[0] = 0

\* A part is handed over by one callback, which found it whole.
HandedOver ==
  /\ \A c \in Calls : call[c] \in HandingOver =>
       /\ request.loadedBlocks[OwnPart(c)] = BlockCount[OwnPart(c)]
       /\ finisher[OwnPart(c)] = "none"
       /\ upload[OwnPart(c)] = "none" <=> call[c] = "upload"
       /\ call[c] = "schedule" => Texture
  /\ \A c, d \in Calls : call[c] \in HandingOver /\ call[d] \in HandingOver /\ OwnPart(c) = OwnPart(d) => c = d

\* The copy queue has the parts that were handed over, each once; they were read.
Copied ==
  /\ UploadedWhole
  /\ \A p \in Parts : upload[p] # "none" <=> \E i \in DOMAIN copies : copies[i] = p
  /\ \A p \in Parts : finisher[p] # "none" => upload[p] # "none" /\ p < part

Ending == {"signal", "delete", "last tail"}

\* Who finishes a part marked it; one finishes the last, and one has the lock.
Finished ==
  /\ \A p \in request.loaded : finisher[p] \notin {"none", "waiting"}
  /\ Texture => \A p \in request.loaded : upload[p] = "completed"
  /\ \A p \in Parts : finisher[p] \in Ending => request.loaded = Parts
  /\ \A p \in Parts : finisher[p] \in {"tail", "last tail"} => Texture
  /\ \A p, q \in Finishing : p = q

\* The load in which nothing failed.
Unfailed ==
  failures = {} =>
    /\ \A c \in Calls : call[c] \notin {"fail", "signal", "delete"}
    /\ LoadedIsUploaded
    /\ asset.status # "failed" /\ (asset.status = "complete" => request.loaded = Parts)
    /\ asset.signals # 0 => request.loaded = Parts
    /\ \A p \in Parts : finisher[p] = "signal" => asset.signals = 0 /\ asset.status = "complete"
    /\ Deleted => request.loaded = Parts /\ \A p \in Parts : finisher[p] \notin {"signal", "delete", "tail"}

\* The load whose header failed: nothing else was read.
HeaderFailed ==
  failures = {Header} =>
    /\ request.stage = "header"
    /\ call[Header] \in {"fail", "signal", "delete", "done"}
    /\ Deleted <=> call[Header] = "done"

IInv ==
  /\ TypeOK /\ HeaderFirst /\ ReadInOrder /\ BlocksCounted /\ HandedOver /\ Copied /\ Finished
  /\ Unfailed /\ HeaderFailed /\ RequestOutlivesItsUsers

-----------------------------------------------------------------------------
(* Facts about the constants.                                              *)

\* A callback is the header's or that of a block of one part.
LEMMA CallFacts ==
  /\ 0 \in Parts /\ Header \in Calls /\ OwnPart(Header) = 0
  /\ \A p \in Parts : BlockCount[p] \in Nat \ {0}
  /\ \A p \in Parts : \A c \in BlocksOf(p) : c \in Calls /\ c # Header /\ OwnPart(c) = p /\ PartOf(c) = p
  /\ \A p \in Parts : <<p, 0>> \in BlocksOf(p)
  /\ \A c \in Calls : OwnPart(c) \in Parts /\ (c = Header \/ c \in BlocksOf(OwnPart(c)))
  /\ PartOf(Header) = part
<1>1. 0 \in Parts /\ (\A p \in Parts : p \in Nat /\ BlockCount[p] \in Nat \ {0})
  BY PartsAssumption DEF Parts
<1>2. \A p \in Parts : \A c \in BlocksOf(p) : c \in Calls /\ c # Header /\ c[1] = p
  BY <1>1 DEF BlocksOf, Calls, Header
<1>3. \A p \in Parts : <<p, 0>> \in BlocksOf(p)
  BY <1>1 DEF BlocksOf
<1>4. Header \in Calls
  BY DEF Calls
<1>5. \A c \in Calls : c = Header \/ \E p \in Parts : c \in BlocksOf(p)
  BY DEF Calls
<1>6. \A p \in Parts : \A c \in BlocksOf(p) : OwnPart(c) = p /\ PartOf(c) = p
  BY <1>2 DEF OwnPart, PartOf
<1>7. \A c \in Calls : OwnPart(c) \in Parts /\ (c = Header \/ c \in BlocksOf(OwnPart(c)))
  <2>1. OwnPart(Header) = 0
    BY DEF OwnPart
  <2> QED
    BY <1>1, <1>5, <1>6, <2>1
<1> QED
  BY <1>1, <1>2, <1>3, <1>4, <1>6, <1>7 DEF OwnPart, PartOf

\* The blocks of a part are as many as BlockCount says.
LEMMA BlocksFinite ==
  ASSUME NEW p \in Parts
  PROVE  IsFiniteSet(BlocksOf(p)) /\ Cardinality(BlocksOf(p)) = BlockCount[p]
<1> DEFINE I == 0 .. BlockCount[p] - 1
           f == [b \in I |-> <<p, b>>]
<1>1. BlockCount[p] \in Nat \ {0}
  BY PartsAssumption
<1>2. IsFiniteSet(I) /\ Cardinality(I) = BlockCount[p]
  <2>1. 0 \in Int /\ BlockCount[p] - 1 \in Int
    BY <1>1
  <2>2. IsFiniteSet(I) /\ Cardinality(I) = IF 0 > BlockCount[p] - 1 THEN 0 ELSE BlockCount[p] - 1 - 0 + 1
    BY <2>1, FS_Interval, Zenon
  <2> QED
    BY <1>1, <2>2
<1>3. f \in Bijection(I, BlocksOf(p))
  <2>1. f \in [I -> BlocksOf(p)]
    BY DEF BlocksOf
  <2>2. \A a, b \in I : f[a] = f[b] => a = b
    OBVIOUS
  <2>3. \A c \in BlocksOf(p) : \E b \in I : f[b] = c
    BY DEF BlocksOf
  <2> QED
    BY <2>1, <2>2, <2>3 DEF Bijection, Injection, Surjection, IsInjective
<1> HIDE DEF I, f
<1>4. IsFiniteSet(BlocksOf(p)) /\ Cardinality(BlocksOf(p)) = Cardinality(I)
  BY <1>2, <1>3, FS_Bijection, Zenon DEF ExistsBijection
<1> QED
  BY <1>2, <1>4

\* What is past is part of the blocks; if it is more, it counts more.
LEMMA PastFacts ==
  ASSUME NEW p \in Parts
  PROVE  /\ IsFiniteSet(Past(p)) /\ Cardinality(Past(p)) \in Nat /\ Cardinality(Past(p)) <= BlockCount[p]
         /\ Cardinality(Past(p)) = BlockCount[p] => Past(p) = BlocksOf(p)
<1>1. Past(p) \in SUBSET BlocksOf(p)
  BY DEF Past
<1>2. /\ IsFiniteSet(Past(p)) /\ Cardinality(Past(p)) <= Cardinality(BlocksOf(p))
      /\ Cardinality(Past(p)) = Cardinality(BlocksOf(p)) => Past(p) = BlocksOf(p)
  BY <1>1, BlocksFinite, FS_Subset
<1> QED
  BY <1>2, BlocksFinite, FS_CardinalityType

LEMMA PastGrows ==
  ASSUME NEW p \in Parts, Past(p) \subseteq Past(p)'
  PROVE  /\ Cardinality(Past(p)) <= Cardinality(Past(p)')
         /\ \A c \in Past(p)' \ Past(p) : Cardinality(Past(p)) + 1 <= Cardinality(Past(p)')
<1>1. Past(p)' \in SUBSET BlocksOf(p)
  BY DEF Past, BlocksOf
<1>2. IsFiniteSet(Past(p)')
  BY <1>1, BlocksFinite, FS_Subset
<1>3. Past(p) \in SUBSET Past(p)' /\ Cardinality(Past(p)) \in Nat /\ Cardinality(Past(p)') \in Nat
  BY <1>2, FS_CardinalityType, PastFacts
<1>4. /\ Cardinality(Past(p)) <= Cardinality(Past(p)')
      /\ Cardinality(Past(p)) = Cardinality(Past(p)') => Past(p) = Past(p)'
  BY <1>2, <1>3, FS_Subset
<1> QED
  BY <1>3, <1>4

\* Which calls a loaded asset has left.
LEMMA AllRead ==
  ASSUME IInv, request.loaded = Parts
  PROVE  /\ part = PartCount
         /\ call[Header] \in {"loop", "fail", "signal", "delete", "done", "stopped"}
         /\ \A p \in Parts : \A c \in BlocksOf(p) : call[c] \in {"none", "done", "stopped"}
         /\ \A p \in Parts : finisher[p] \notin {"none", "waiting"}
         /\ request.stage # "header"
<1>1. \A p \in Parts : finisher[p] \notin {"none", "waiting"} /\ p < part
  BY DEF IInv, Finished, Copied
<1>2. part = PartCount /\ part # 0
  <2>1. PartCount - 1 \in Parts /\ PartCount \in Nat \ {0}
    BY PartsAssumption DEF Parts
  <2>2. part \in 0 .. PartCount
    BY DEF IInv, TypeOK
  <2> QED
    BY <1>1, <2>1, <2>2
<1>3. request.stage # "header" /\ call[Header] \in {"loop", "fail", "signal", "delete", "done", "stopped"}
  <2>1. call[Header] \in Labels
    BY CallFacts DEF IInv, TypeOK, Labels
  <2>2. HeaderFirst
    BY DEF IInv
  <2> QED
    BY <1>2, <2>1, <2>2 DEF HeaderFirst, Labels
<1>4. ASSUME NEW p \in Parts, NEW c \in BlocksOf(p) PROVE call[c] \in {"none", "done", "stopped"}
  <2>1. CASE inHeader /\ p = 0
    BY <2>1, <1>4 DEF IInv, ReadInOrder
  <2>2. CASE ~(inHeader /\ p = 0)
    <3>1. request.loadedBlocks[p] = BlockCount[p]
      BY <1>1 DEF IInv, Copied, UploadedWhole
    <3>2. Past(p) = BlocksOf(p)
      BY <2>2, <3>1, PastFacts, CallFacts DEF IInv, BlocksCounted
    <3>3. call[c] \in HandingOver => finisher[p] = "none"
      BY CallFacts DEF IInv, HandedOver
    <3> QED
      BY <1>1, <3>2, <3>3, <1>4 DEF Past
  <2> QED
    BY <2>1, <2>2
<1> QED
  BY <1>1, <1>2, <1>3, <1>4

-----------------------------------------------------------------------------
(* The initial states and the types.                                       *)

\* The type of each variable.
RequestOK ==
  request \in [state : {"none", "alive", "deleted"}, stage : {"header", "parts"},
              loadedBlocks : [Parts -> Nat], loaded : SUBSET Parts]
AssetOK == asset \in [status : {"none", "lods", "complete", "failed"}, signals : Nat]
CallOK == call \in [Calls -> Labels]
WorkOK ==
  /\ manager \in {"texture", "model"} /\ inHeader \in BOOLEAN
  /\ loader \in {"none", "return", "done"}
  /\ part \in 0 .. PartCount
  /\ upload \in [Parts -> {"none", "queued", "submitted", "completed"}]
  /\ finisher \in [Parts -> {"none", "waiting", "signal", "delete", "tail", "last tail", "done", "stopped"}]
  /\ copies \in Seq(Parts) /\ failures \subseteq Calls

LEMMA Typed == TypeOK <=> RequestOK /\ AssetOK /\ CallOK /\ WorkOK
BY DEF TypeOK, RequestOK, AssetOK, CallOK, WorkOK, Labels

\* Before Load nothing is counted, copied or finished.
LEMMA AssetInit == Init => IInv
<1> SUFFICES ASSUME Init PROVE IInv
  OBVIOUS
<1> USE CallFacts DEF Init
<1>1. TypeOK
  <2>1. RequestOK /\ AssetOK /\ CallOK
    BY DEF RequestOK, AssetOK, CallOK, Labels
  <2>2. WorkOK
    <3>1. 0 \in 0 .. PartCount
      BY PartsAssumption
    <3>2. copies \in Seq(Parts)
      BY EmptySeq
    <3> QED
      BY <3>1, <3>2 DEF WorkOK
  <2> QED
    BY <2>1, <2>2, Typed
<1>2. HeaderFirst
  BY DEF HeaderFirst, Texture
<1>3. ReadInOrder
  BY DEF ReadInOrder
<1>4. BlocksCounted
  <2>1. \A p \in Parts : request.loadedBlocks[p] = 0
    OBVIOUS
  <2> QED
    BY <2>1, PastFacts DEF BlocksCounted
<1>5. HandedOver /\ Copied
  BY DEF HandedOver, HandingOver, Copied, UploadedWhole, IsInjective
<1>6. Finished
  BY DEF Finished, Ending, Finishing
<1>7. Unfailed
  BY DEF Unfailed, LoadedIsUploaded, Deleted
<1>8. HeaderFailed /\ RequestOutlivesItsUsers
  BY DEF HeaderFailed, RequestOutlivesItsUsers
<1> QED
  BY <1>1, <1>2, <1>3, <1>4, <1>5, <1>6, <1>7, <1>8 DEF IInv

\* What the counting callbacks know of their parts.
LEMMA Counting ==
  ASSUME IInv, NEW c \in Calls, call[c] \in {"count", "upload", "schedule"}
  PROVE  /\ PartOf(c) = OwnPart(c) /\ PartOf(c) \in Parts
         /\ Over(c) = IF c = Header THEN "loop" ELSE "done"
         /\ PartAfter(c) = IF c = Header THEN 1 ELSE part
         /\ PartAfter(c) \in 0 .. PartCount
         /\ c = Header => inHeader /\ part = 0
         /\ OwnPart(c) < PartAfter(c)
<1>1. part \in 0 .. PartCount /\ PartCount \in Nat \ {0}
  BY PartsAssumption DEF IInv, TypeOK
<1>2. c = Header => inHeader /\ part = 0
  BY DEF IInv, HeaderFirst
<1>3. c # Header => c \in BlocksOf(OwnPart(c)) /\ PartOf(c) = OwnPart(c) /\ OwnPart(c) < part
  <2>1. c # Header => c \in BlocksOf(OwnPart(c)) /\ PartOf(c) = OwnPart(c) /\ OwnPart(c) \in Parts
    BY CallFacts
  <2>2. c # Header => ~(OwnPart(c) >= part)
    BY <2>1 DEF IInv, ReadInOrder
  <2> QED
    BY <1>1, <2>1, <2>2 DEF Parts
<1> QED
  BY <1>1, <1>2, <1>3, CallFacts DEF Over, PartAfter

\* Every step keeps the types.
LEMMA TypeStep == ASSUME IInv, Next PROVE TypeOK'
<1>1. RequestOK /\ AssetOK /\ CallOK /\ WorkOK
  BY Typed DEF IInv
<1> SUFFICES RequestOK' /\ AssetOK' /\ CallOK' /\ WorkOK'
  BY Typed DEF RequestOK, AssetOK, CallOK, WorkOK, TypeOK, Labels
<1> DEFINE Goal == RequestOK' /\ AssetOK' /\ CallOK' /\ WorkOK'
<1> USE <1>1, CallFacts DEF Services, CallState
<1>2. CASE Load
  <2>1. RequestOK'
    BY <1>2 DEF RequestOK, Load
  <2>2. AssetOK'
    BY <1>2 DEF AssetOK, Load
  <2>3. CallOK'
    BY <1>2 DEF CallOK, Load, Labels
  <2>4. WorkOK'
    BY <1>2 DEF WorkOK, Load
  <2> QED
    BY <2>1, <2>2, <2>3, <2>4
<1>3. CASE LoadReturn
  <2>1. RequestOK'
    BY <1>3 DEF RequestOK, LoadReturn, Touched
  <2>2. AssetOK'
    BY <1>3 DEF AssetOK, LoadReturn, Touched
  <2>3. CallOK'
    BY <1>3 DEF CallOK, LoadReturn, Touched, Labels
  <2>4. WorkOK'
    BY <1>3 DEF WorkOK, LoadReturn, Touched
  <2> QED
    BY <2>1, <2>2, <2>3, <2>4
<1>4. CASE Stopped
  <2>1. RequestOK'
    BY <1>4 DEF RequestOK, Stopped, vars
  <2>2. AssetOK'
    BY <1>4 DEF AssetOK, Stopped, vars
  <2>3. CallOK'
    BY <1>4 DEF CallOK, Stopped, vars, Labels
  <2>4. WorkOK'
    BY <1>4 DEF WorkOK, Stopped, vars
  <2> QED
    BY <2>1, <2>2, <2>3, <2>4
<1>5. ASSUME NEW c \in Calls, Fails(c) PROVE Goal
  <2>1. RequestOK'
    BY <1>5 DEF RequestOK, Fails
  <2>2. AssetOK'
    BY <1>5 DEF AssetOK, Fails
  <2>3. CallOK'
    BY <1>5 DEF CallOK, Fails, Labels
  <2>4. WorkOK'
    BY <1>5 DEF WorkOK, Fails
  <2> QED
    BY <2>1, <2>2, <2>3, <2>4
<1>6. ASSUME NEW c \in Calls, FailStatus(c) \/ FailSignal(c) \/ FailDelete(c) PROVE Goal
  <2>1. RequestOK'
    BY <1>6 DEF RequestOK, FailStatus, FailSignal, FailDelete, CallGoes
  <2>2. AssetOK'
    BY <1>6 DEF AssetOK, FailStatus, FailSignal, FailDelete, CallGoes
  <2>3. CallOK'
    BY <1>6 DEF CallOK, FailStatus, FailSignal, FailDelete, CallGoes, Labels
  <2>4. WorkOK'
    BY <1>6 DEF WorkOK, FailStatus, FailSignal, FailDelete, CallGoes
  <2> QED
    BY <2>1, <2>2, <2>3, <2>4
<1>7. ASSUME NEW c \in Calls, Dispatch(c) PROVE Goal
  <2>1. RequestOK'
    BY <1>7 DEF RequestOK, Dispatch, CallGoes
  <2>2. AssetOK'
    BY <1>7 DEF AssetOK, Dispatch, CallGoes
  <2>3. CallOK'
    BY <1>7 DEF CallOK, Dispatch, CallGoes, Labels
  <2>4. WorkOK'
    BY <1>7 DEF WorkOK, Dispatch, CallGoes
  <2> QED
    BY <2>1, <2>2, <2>3, <2>4
<1>8. ASSUME NEW c \in Calls, LoopEnds(c) \/ LoopStops(c) PROVE Goal
  <2>1. RequestOK'
    BY <1>8 DEF RequestOK, LoopEnds, LoopStops
  <2>2. AssetOK'
    BY <1>8 DEF AssetOK, LoopEnds, LoopStops
  <2>3. CallOK'
    BY <1>8 DEF CallOK, LoopEnds, LoopStops, Labels
  <2>4. WorkOK'
    BY <1>8 DEF WorkOK, LoopEnds, LoopStops
  <2> QED
    BY <2>1, <2>2, <2>3, <2>4
<1>9. ASSUME NEW c \in Calls, ReadPart(c) PROVE Goal
  <2>1. RequestOK'
    BY <1>9, PartsAssumption DEF RequestOK, ReadPart
  <2>2. AssetOK'
    BY <1>9, PartsAssumption DEF AssetOK, ReadPart
  <2>3. CallOK'
    BY <1>9, PartsAssumption DEF CallOK, ReadPart, Labels
  <2>4. WorkOK'
    <3>1. part' = part \/ (part < PartCount /\ part' = part + 1)
      BY <1>9 DEF ReadPart
    <3>2. part' \in 0 .. PartCount
      <4>1. part \in 0 .. PartCount /\ PartCount \in Nat
        BY PartsAssumption DEF WorkOK
      <4> QED
        BY <3>1, <4>1
    <3> QED
      BY <1>9, <3>2 DEF WorkOK, ReadPart
  <2> QED
    BY <2>1, <2>2, <2>3, <2>4
<1>10. ASSUME NEW c \in Calls, CountBlock(c) PROVE Goal
  <2>0. PartOf(c) \in Parts /\ Over(c) \in {"loop", "done"} /\ PartAfter(c) \in 0 .. PartCount
    BY <1>10, Counting DEF CountBlock
  <2>1. RequestOK'
    BY <1>10, <2>0 DEF RequestOK, CountBlock, CallGoes
  <2>2. AssetOK'
    BY <1>10, <2>0 DEF AssetOK, CountBlock, CallGoes
  <2>3. CallOK'
    BY <1>10, <2>0 DEF CallOK, CountBlock, CallGoes, Labels
  <2>4. WorkOK'
    BY <1>10, <2>0 DEF WorkOK, CountBlock, CallGoes
  <2> QED
    BY <2>1, <2>2, <2>3, <2>4
<1>11. ASSUME NEW c \in Calls, Upload(c) PROVE Goal
  <2>0. PartOf(c) \in Parts /\ Over(c) \in {"loop", "done"}
    BY <1>11, Counting DEF Upload
  <2>a. Append(copies, PartOf(c)) \in Seq(Parts)
    BY <2>0, AppendProperties DEF WorkOK
  <2>1. RequestOK'
    BY <1>11, <2>0 DEF RequestOK, Upload, CallGoes
  <2>2. AssetOK'
    BY <1>11, <2>0 DEF AssetOK, Upload, CallGoes
  <2>3. CallOK'
    BY <1>11, <2>0 DEF CallOK, Upload, CallGoes, Labels
  <2>4. WorkOK'
    <3> DEFINE p == PartOf(c)
    <3> HIDE DEF p
    <3>1. copies' \in Seq(Parts)
      BY <1>11, <2>a DEF Upload, WorkOK
    <3>2. upload' \in [Parts -> {"none", "queued", "submitted", "completed"}]
      <4>1. upload' = upload \/ upload' = [upload EXCEPT ![p] = "queued"]
        BY <1>11 DEF Upload, p
      <4> QED
        BY <2>0, <4>1 DEF WorkOK
    <3>3. finisher' = finisher \/ finisher' = [finisher EXCEPT ![p] = "waiting"]
      BY <1>11 DEF Upload, p
    <3>4. UNCHANGED <<part, failures, manager, inHeader, loader>>
      BY <1>11 DEF Upload
    <3>5. finisher' \in [Parts -> {"none", "waiting", "signal", "delete", "tail", "last tail", "done", "stopped"}]
      BY <2>0, <3>3 DEF WorkOK
    <3> QED
      BY <3>1, <3>2, <3>4, <3>5 DEF WorkOK
  <2> QED
    BY <2>1, <2>2, <2>3, <2>4
<1>12. ASSUME NEW c \in Calls, Schedule(c) PROVE Goal
  <2>0. PartOf(c) \in Parts /\ Over(c) \in {"loop", "done"} /\ PartAfter(c) \in 0 .. PartCount
    BY <1>12, Counting DEF Schedule
  <2>1. RequestOK'
    BY <1>12, <2>0 DEF RequestOK, Schedule
  <2>2. AssetOK'
    BY <1>12, <2>0 DEF AssetOK, Schedule
  <2>3. CallOK'
    BY <1>12, <2>0 DEF CallOK, Schedule, Labels
  <2>4. WorkOK'
    BY <1>12, <2>0 DEF WorkOK, Schedule
  <2> QED
    BY <2>1, <2>2, <2>3, <2>4
<1>13. ASSUME NEW p \in Parts, PartFails(p) PROVE Goal
  <2>1. RequestOK'
    BY <1>13 DEF RequestOK, PartFails
  <2>2. AssetOK'
    BY <1>13 DEF AssetOK, PartFails
  <2>3. CallOK'
    BY <1>13 DEF CallOK, PartFails, Labels
  <2>4. WorkOK'
    <3>1. <<p, 0>> \in Calls
      OBVIOUS
    <3> QED
      BY <1>13, <3>1 DEF WorkOK, PartFails
  <2> QED
    BY <2>1, <2>2, <2>3, <2>4
<1>14. ASSUME NEW p \in Parts, Submit(p) \/ Complete(p) PROVE Goal
  <2>1. RequestOK'
    BY <1>14 DEF RequestOK, Submit, Complete
  <2>2. AssetOK'
    BY <1>14 DEF AssetOK, Submit, Complete
  <2>3. CallOK'
    BY <1>14 DEF CallOK, Submit, Complete, Labels
  <2>4. WorkOK'
    BY <1>14 DEF WorkOK, Submit, Complete
  <2> QED
    BY <2>1, <2>2, <2>3, <2>4
<1>15. ASSUME NEW p \in Parts, Mark(p) PROVE Goal
  <2>1. RequestOK'
    BY <1>15 DEF RequestOK, Mark
  <2>2. AssetOK'
    BY <1>15 DEF AssetOK, Mark
  <2>3. CallOK'
    BY <1>15 DEF CallOK, Mark, Labels
  <2>4. WorkOK'
    <3>1. \E x \in {"stopped", "signal", "tail", "done"} : finisher' = [finisher EXCEPT ![p] = x]
      BY <1>15 DEF Mark
    <3> QED
      <4>1. finisher' \in [Parts -> {"none", "waiting", "signal", "delete", "tail", "last tail", "done", "stopped"}]
        BY <3>1 DEF WorkOK
      <4>2. UNCHANGED <<manager, inHeader, loader, part, upload, copies, failures>>
        BY <1>15 DEF Mark
      <4> QED
        BY <4>1, <4>2 DEF WorkOK
  <2> QED
    BY <2>1, <2>2, <2>3, <2>4
<1>16. ASSUME NEW p \in Parts, FinishSignal(p) \/ FinishDelete(p) \/ Leave(p) PROVE Goal
  <2>1. RequestOK'
    BY <1>16 DEF RequestOK, FinishSignal, FinishDelete, Leave, FinisherGoes
  <2>2. AssetOK'
    <3>1. asset' = asset \/ asset' = [asset EXCEPT !.signals = @ + 1]
      BY <1>16 DEF FinishSignal, FinishDelete, Leave
    <3> QED
      BY <3>1 DEF AssetOK
  <2>3. CallOK'
    BY <1>16 DEF CallOK, FinishSignal, FinishDelete, Leave, FinisherGoes, Labels
  <2>4. WorkOK'
    <3>1. \E x \in {"stopped", "delete", "last tail", "done"} : finisher' = [finisher EXCEPT ![p] = x]
      BY <1>16 DEF FinishSignal, FinishDelete, Leave, FinisherGoes
    <3> QED
      <4>1. finisher' \in [Parts -> {"none", "waiting", "signal", "delete", "tail", "last tail", "done", "stopped"}]
        BY <3>1 DEF WorkOK
      <4>2. UNCHANGED <<manager, inHeader, loader, part, upload, copies, failures>>
        BY <1>16 DEF FinishSignal, FinishDelete, Leave
      <4> QED
        BY <4>1, <4>2 DEF WorkOK
  <2> QED
    BY <2>1, <2>2, <2>3, <2>4
<1> QED
  BY <1>2, <1>3, <1>4, <1>5, <1>6, <1>7, <1>8, <1>9, <1>10, <1>11, <1>12, <1>13, <1>14, <1>15, <1>16
     DEF Next, CallStep, PartStep

-----------------------------------------------------------------------------
(* What follows from where the load is.                                    *)

\* There are PartCount parts, and a set of as many is all of them.
LEMMA AllOfThem ==
  ASSUME NEW loaded \in SUBSET Parts
  PROVE  AllLoaded(loaded) <=> loaded = Parts
<1>1. PartCount \in Nat \ {0} /\ 0 \in Int /\ PartCount - 1 \in Int
  BY PartsAssumption
<1>2. /\ IsFiniteSet(0 .. PartCount - 1)
      /\ Cardinality(0 .. PartCount - 1) = IF 0 > PartCount - 1 THEN 0 ELSE PartCount - 1 - 0 + 1
  BY <1>1, FS_Interval, Zenon
<1>3. IsFiniteSet(Parts) /\ Cardinality(Parts) = PartCount
  BY <1>1, <1>2 DEF Parts
<1>4. Cardinality(loaded) = Cardinality(Parts) => loaded = Parts
  BY <1>3, FS_Subset
<1> QED
  BY <1>3, <1>4 DEF AllLoaded

\* A callback is made after Load; a block's is made after the header was parsed.
LEMMA Called ==
  ASSUME IInv, NEW c \in Calls, call[c] # "none"
  PROVE  /\ loader # "none" /\ request.state # "none"
         /\ c # Header => part # 0 /\ request.stage # "header" /\ failures # {Header}
         /\ call[c] = "loop" => c = Header
<1>1. HeaderFirst /\ ReadInOrder /\ HeaderFailed /\ part \in 0 .. PartCount
  BY DEF IInv, TypeOK
<1>2. c # Header => OwnPart(c) \in Parts /\ c \in BlocksOf(OwnPart(c)) /\ ~(OwnPart(c) >= part) /\ call[c] # "loop"
  BY <1>1, CallFacts DEF ReadInOrder
<1>3. c # Header => part # 0
  BY <1>1, <1>2 DEF Parts
<1>4. c # Header => request.stage # "header" /\ failures # {Header}
  BY <1>1, <1>3 DEF HeaderFirst, HeaderFailed
<1>5. c # Header => call[Header] # "none"
  BY <1>1, <1>4 DEF HeaderFirst
<1>6. loader # "none"
  BY <1>1, <1>5 DEF HeaderFirst
<1> QED
  BY <1>1, <1>2, <1>3, <1>4, <1>6 DEF HeaderFirst

\* A part that is finished was read.
LEMMA Started ==
  ASSUME IInv, NEW p \in Parts, finisher[p] # "none"
  PROVE  /\ part # 0 /\ request.stage # "header" /\ failures # {Header}
         /\ loader # "none" /\ request.state # "none"
<1>1. HeaderFirst /\ HeaderFailed /\ Copied /\ part \in 0 .. PartCount
  BY DEF IInv, TypeOK
<1>2. p < part /\ part # 0
  BY <1>1 DEF Copied, Parts
<1>3. request.stage # "header" /\ failures # {Header}
  BY <1>1, <1>2 DEF HeaderFirst, HeaderFailed
<1> QED
  BY <1>1, <1>2, <1>3 DEF HeaderFirst

\* Nobody works for a request that was deleted in a load that does not fail.
LEMMA DeletedLast ==
  ASSUME IInv, failures = {}, Deleted
  PROVE  /\ part = PartCount /\ request.stage # "header"
         /\ \A c \in Calls : call[c] \in {"none", "loop", "done", "stopped"}
         /\ \A p \in Parts : finisher[p] \in {"last tail", "done", "stopped"}
<1>1. request.loaded = Parts /\ \A p \in Parts : finisher[p] \notin {"signal", "delete", "tail"}
  BY DEF IInv, Unfailed
<1>2. \A c \in Calls : call[c] \notin {"fail", "signal", "delete"}
  BY DEF IInv, Unfailed
<1>3. \A p \in Parts : finisher[p] \in {"none", "waiting", "signal", "delete", "tail", "last tail", "done", "stopped"}
  BY DEF IInv, TypeOK
<1> QED
  BY <1>1, <1>2, <1>3, AllRead, CallFacts

\* A callback that goes on without counting or handing over.
LEMMA QuietCall ==
  ASSUME IInv, NEW c \in Calls, NEW label \in Labels,
         call[c] \in {"issued", "fail", "signal", "delete", "loop"},
         label \in {"fail", "signal", "delete", "loop", "count", "done", "stopped"},
         label = "loop" => c = Header,
         c = Header /\ label = "count" => call[c] = "loop",
         c = Header /\ label = "loop" => call[c] = "issued",
         call' = [call EXCEPT ![c] = label],
         request'.loadedBlocks = request.loadedBlocks, request'.loaded = request.loaded,
         UNCHANGED <<manager, inHeader, part, copies, upload, finisher>>
  PROVE  ReadInOrder' /\ BlocksCounted' /\ HandedOver' /\ Copied' /\ Finished'
<1>1. CallOK /\ HeaderFirst /\ ReadInOrder /\ BlocksCounted /\ HandedOver /\ Copied /\ Finished
  BY Typed DEF IInv
<1>2. \A d \in Calls : call'[d] = IF d = c THEN label ELSE call[d]
  BY <1>1 DEF CallOK
<1>3. ReadInOrder'
  BY <1>1, <1>2, CallFacts DEF ReadInOrder, BlocksOf, Parts
<1>4. BlocksCounted'
  <2>1. ASSUME NEW p \in Parts, ~(inHeader /\ p = 0) PROVE request.loadedBlocks[p] <= Cardinality(Past(p)')
    <3>1. Past(p) \subseteq Past(p)'
      BY <1>2, CallFacts DEF Past, HandingOver, BlocksOf
    <3>2. Cardinality(Past(p)) <= Cardinality(Past(p)') /\ Cardinality(Past(p)) \in Nat
      BY <3>1, PastGrows, PastFacts
    <3>3. Cardinality(Past(p)') \in Nat
      <4>1. Past(p)' \in SUBSET BlocksOf(p)
        BY DEF Past, BlocksOf
      <4> QED
        BY <4>1, BlocksFinite, FS_Subset, FS_CardinalityType
    <3>4. request.loadedBlocks[p] \in Nat /\ request.loadedBlocks[p] <= Cardinality(Past(p))
      BY <1>1, <2>1 DEF IInv, TypeOK, BlocksCounted
    <3> QED
      BY <3>2, <3>3, <3>4
  <2>2. inHeader => /\ request.loadedBlocks[0] <= 1
                    /\ part = 0 /\ call'[Header] \in {"none", "issued", "loop", "count"}
                         => request.loadedBlocks[0] = 0
    BY <1>1, <1>2, CallFacts DEF BlocksCounted
  <2> QED
    BY <2>1, <2>2 DEF BlocksCounted, Parts, Header
<1>5. HandedOver'
  BY <1>1, <1>2, CallFacts DEF HandedOver, HandingOver, Calls, BlocksOf, OwnPart, Header, Texture
<1>6. Copied'
  BY <1>1 DEF Copied, UploadedWhole, Parts
<1>7. Finished'
  BY <1>1 DEF Finished, Finishing, Parts, Texture
<1> QED
  BY <1>3, <1>4, <1>5, <1>6, <1>7

\* A step behind the copy queue leaves the callbacks alone.
LEMMA QuietPart ==
  ASSUME IInv, UNCHANGED CallState, NEW p \in Parts, finisher[p] # "none" \/ UNCHANGED <<request, touches>>,
         request'.loadedBlocks = request.loadedBlocks, request'.stage = request.stage,
         request'.state \in {request.state, "deleted"}
  PROVE  HeaderFirst' /\ ReadInOrder' /\ BlocksCounted'
<1>1. HeaderFirst /\ ReadInOrder /\ BlocksCounted
  BY DEF IInv
<1>2. HeaderFirst'
  BY <1>1, Started DEF HeaderFirst, CallState, Texture, Header
<1>3. ReadInOrder'
  BY <1>1 DEF ReadInOrder, CallState, BlocksOf, Parts
<1>4. BlocksCounted'
  BY <1>1 DEF BlocksCounted, CallState, Past, Parts, BlocksOf, Header
<1> QED
  BY <1>2, <1>3, <1>4

-----------------------------------------------------------------------------
(* Load, and the callbacks that fail.                                      *)

LEMMA LoadKeeps == ASSUME IInv, TypeOK', Load PROVE IInv'
<1>1. CallOK /\ HeaderFirst /\ RequestOK
  BY Typed DEF IInv
<1>2. call[Header] = "none" /\ failures = {} /\ touches = {} /\ request.stage = "header" /\ part = 0
  BY <1>1 DEF HeaderFirst, Load
<1>3. /\ \A d \in Calls : call'[d] = IF d = Header THEN "issued" ELSE call[d]
      /\ request'.state = "alive" /\ request'.stage = request.stage
      /\ request'.loadedBlocks = request.loadedBlocks /\ request'.loaded = request.loaded
      /\ loader' = "return"
      /\ UNCHANGED <<manager, inHeader, asset, part, copies, upload, finisher, failures, touches>>
  BY <1>1 DEF Load, CallOK, RequestOK
<1>4. HeaderFirst'
  BY <1>1, <1>2, <1>3, CallFacts DEF HeaderFirst, Texture, Header
<1>5. ReadInOrder'
  BY <1>3, CallFacts DEF IInv, ReadInOrder, BlocksOf, Parts
<1>6. BlocksCounted'
  <2>1. \A p \in Parts : Past(p)' = Past(p)
    BY <1>3, CallFacts DEF Past, BlocksOf
  <2> QED
    BY <1>2, <1>3, <2>1, CallFacts DEF IInv, BlocksCounted, Parts, Header
<1>7. HandedOver'
  BY <1>3, CallFacts DEF IInv, HandedOver, HandingOver, Calls, BlocksOf, OwnPart, Header, Texture
<1>8. Copied' /\ Finished'
  <2>1. Copied /\ Finished
    BY DEF IInv
  <2>2. Copied'
    BY <1>3, <2>1 DEF Copied, UploadedWhole, Parts
  <2>3. Finished'
    BY <1>3, <2>1 DEF Finished, Finishing, Texture, Parts
  <2> QED
    BY <2>2, <2>3
<1>9. Unfailed'
  BY <1>2, <1>3, CallFacts DEF IInv, Unfailed, LoadedIsUploaded, Deleted, Texture, Parts, Calls, BlocksOf, Header
<1>10. HeaderFailed' /\ RequestOutlivesItsUsers'
  BY <1>2, <1>3 DEF HeaderFailed, RequestOutlivesItsUsers, Header
<1> QED
  BY <1>4, <1>5, <1>6, <1>7, <1>8, <1>9, <1>10 DEF IInv

LEMMA LoadReturnKeeps == ASSUME IInv, TypeOK', LoadReturn PROVE IInv'
<1>1. /\ loader = "return" /\ loader' = "done" /\ touches' \subseteq touches \union {"return"}
      /\ UNCHANGED <<manager, inHeader, request, asset, call, part, copies, upload, finisher, failures>>
  BY DEF LoadReturn, Touched
<1>2. HeaderFirst'
  BY <1>1 DEF IInv, HeaderFirst, Texture, Header
<1>3. ReadInOrder' /\ BlocksCounted'
  BY <1>1 DEF IInv, ReadInOrder, BlocksCounted, Past, BlocksOf, Parts, Header
<1>4. HandedOver' /\ Copied' /\ Finished'
  <2>1. HandedOver /\ Copied /\ Finished
    BY DEF IInv
  <2>2. HandedOver'
    BY <1>1, <2>1 DEF HandedOver, OwnPart, Calls, BlocksOf, Texture, Parts, Header
  <2>3. Copied'
    BY <1>1, <2>1 DEF Copied, UploadedWhole, Parts
  <2>4. Finished'
    BY <1>1, <2>1 DEF Finished, Finishing, Texture, Parts
  <2> QED
    BY <2>2, <2>3, <2>4
<1>5. Unfailed' /\ HeaderFailed'
  BY <1>1 DEF IInv, Unfailed, LoadedIsUploaded, HeaderFailed, Deleted, Texture, Parts, Calls, BlocksOf, Header
<1>6. RequestOutlivesItsUsers'
  BY <1>1 DEF IInv, RequestOutlivesItsUsers, Texture, Header
<1> QED
  BY <1>2, <1>3, <1>4, <1>5, <1>6 DEF IInv

LEMMA FailsKeeps == ASSUME IInv, TypeOK', NEW c \in Calls, Fails(c) PROVE IInv'
<1>1. /\ call[c] = "issued" /\ call' = [call EXCEPT ![c] = "fail"] /\ failures' = failures \union {c}
      /\ UNCHANGED <<request, asset, part, touches, manager, inHeader, loader, copies, upload, finisher>>
  BY DEF Fails, Services
<1>2. ReadInOrder' /\ BlocksCounted' /\ HandedOver' /\ Copied' /\ Finished'
  BY <1>1, QuietCall DEF Labels
<1>3. \A d \in Calls : call'[d] = IF d = c THEN "fail" ELSE call[d]
  BY <1>1, Typed DEF IInv, CallOK
<1>4. HeaderFirst'
  BY <1>1, <1>3, Called, CallFacts DEF IInv, HeaderFirst, Texture, Header
<1>5. Unfailed'
  BY <1>1 DEF Unfailed
<1>6. failures' = {Header} => failures = {} /\ c = Header /\ request.stage = "header"
  BY <1>1 DEF IInv, HeaderFailed, HeaderFirst
<1>7. HeaderFailed'
  <2>1. failures' = {Header} => ~Deleted
    BY <1>6, DeletedLast
  <2> QED
    BY <1>1, <1>3, <1>6, <2>1, CallFacts DEF HeaderFailed, Deleted, Header
<1>8. RequestOutlivesItsUsers'
  BY <1>1 DEF IInv, RequestOutlivesItsUsers, Texture, Header
<1> QED
  BY <1>2, <1>4, <1>5, <1>7, <1>8 DEF IInv

\* The three steps of a failure.
LEMMA FailureKeeps ==
  ASSUME IInv, TypeOK', NEW c \in Calls, FailStatus(c) \/ FailSignal(c) \/ FailDelete(c)
  PROVE  IInv'
<1>1. /\ call[c] \in {"fail", "signal", "delete"}
      /\ touches' = IF Deleted THEN touches \union {"callback"} ELSE touches
      /\ UNCHANGED <<part, failures, manager, inHeader, loader, copies, upload, finisher>>
  BY DEF FailStatus, FailSignal, FailDelete, CallGoes, Touched, Services
<1>2. PICK label \in {"signal", "delete", "done", "stopped"} :
        /\ call' = [call EXCEPT ![c] = label]
        /\ label = "stopped" <=> Deleted
        /\ \/ label # "done" /\ request' = request
           \/ label \in {"done", "stopped"} /\ request' = [request EXCEPT !.state = "deleted"]
  BY DEF FailStatus, FailSignal, FailDelete, CallGoes
<1>3. /\ request'.loadedBlocks = request.loadedBlocks /\ request'.loaded = request.loaded
      /\ request'.stage = request.stage
      /\ request'.state = IF label = "done" THEN "deleted" ELSE request.state
  BY <1>2, Typed DEF IInv, RequestOK, Deleted
<1>4. ReadInOrder' /\ BlocksCounted' /\ HandedOver' /\ Copied' /\ Finished'
  BY <1>1, <1>2, <1>3, QuietCall DEF Labels
<1>5. \A d \in Calls : call'[d] = IF d = c THEN label ELSE call[d]
  BY <1>2, Typed DEF IInv, CallOK
<1>6. HeaderFirst'
  BY <1>1, <1>3, <1>5, Called, CallFacts DEF IInv, HeaderFirst, Texture, Header
<1>7. failures # {}
  BY <1>1 DEF IInv, Unfailed
<1>8. Unfailed'
  BY <1>1, <1>7 DEF Unfailed
<1>9. failures = {Header} => c = Header /\ ~Deleted
  BY <1>1, Called DEF IInv, HeaderFailed
<1>10. HeaderFailed'
  BY <1>1, <1>2, <1>3, <1>5, <1>9, CallFacts DEF IInv, HeaderFailed, Deleted, Header
<1>11. RequestOutlivesItsUsers'
  BY <1>1, <1>7, <1>9 DEF IInv, RequestOutlivesItsUsers, Texture, Header
<1> QED
  BY <1>4, <1>6, <1>8, <1>10, <1>11 DEF IInv

LEMMA DispatchKeeps == ASSUME IInv, TypeOK', NEW c \in Calls, Dispatch(c) PROVE IInv'
<1>1. /\ call[c] = "issued"
      /\ touches' = IF Deleted THEN touches \union {"callback"} ELSE touches
      /\ UNCHANGED <<asset, part, failures, manager, inHeader, loader, copies, upload, finisher>>
  BY DEF Dispatch, CallGoes, Touched, Services
<1>2. c = Header => request.stage = "header"
  BY <1>1 DEF IInv, HeaderFirst
<1>3. c # Header => request.stage # "header" /\ failures # {Header}
  BY <1>1, Called
<1>4. PICK label \in {"stopped", "loop", "count"} :
        /\ call' = [call EXCEPT ![c] = label]
        /\ label = "stopped" <=> Deleted
        /\ ~Deleted => (label = "loop" <=> c = Header)
  BY <1>2, <1>3 DEF Dispatch, CallGoes
<1>5. /\ request'.loadedBlocks = request.loadedBlocks /\ request'.loaded = request.loaded
      /\ request'.stage = IF Deleted THEN request.stage ELSE "parts"
      /\ request'.state = request.state
  BY Typed DEF IInv, RequestOK, Dispatch
<1>6. ReadInOrder' /\ BlocksCounted' /\ HandedOver' /\ Copied' /\ Finished'
  BY <1>1, <1>4, <1>5, QuietCall DEF Labels
<1>7. \A d \in Calls : call'[d] = IF d = c THEN label ELSE call[d]
  BY <1>4, Typed DEF IInv, CallOK
<1>8. HeaderFirst'
  BY <1>1, <1>2, <1>3, <1>4, <1>5, <1>7, Called, CallFacts DEF IInv, HeaderFirst, Texture, Header
<1>9. failures # {Header}
  BY <1>1, <1>3 DEF IInv, HeaderFailed
<1>10. failures = {} => ~Deleted
  BY <1>1, DeletedLast
<1>11. Unfailed'
  BY <1>1, <1>5, <1>4, <1>7, <1>10 DEF IInv, Unfailed, LoadedIsUploaded, Deleted, Texture, Parts, Calls, BlocksOf, Header
<1>12. HeaderFailed'
  BY <1>1, <1>9 DEF HeaderFailed, Header
<1>13. RequestOutlivesItsUsers'
  BY <1>1, <1>9, <1>10 DEF IInv, RequestOutlivesItsUsers, Texture, Header
<1> QED
  BY <1>6, <1>8, <1>11, <1>12, <1>13 DEF IInv

\* The loop is over, or stops at the deleted request.
LEMMA LoopOverKeeps == ASSUME IInv, TypeOK', NEW c \in Calls, LoopEnds(c) \/ LoopStops(c) PROVE IInv'
<1>1. /\ call[c] = "loop" /\ touches \subseteq touches'
      /\ touches' \subseteq touches \union {"loop"}
      /\ UNCHANGED <<request, asset, part, failures, manager, inHeader, loader, copies, upload, finisher>>
  BY DEF LoopEnds, LoopStops, Services
<1>2. c = Header
  BY <1>1, Called
<1>3. PICK label \in {"done", "stopped"} : call' = [call EXCEPT ![c] = label]
  BY DEF LoopEnds, LoopStops
<1>4. ReadInOrder' /\ BlocksCounted' /\ HandedOver' /\ Copied' /\ Finished'
  BY <1>1, <1>2, <1>3, QuietCall DEF Labels
<1>5. \A d \in Calls : call'[d] = IF d = c THEN label ELSE call[d]
  BY <1>3, Typed DEF IInv, CallOK
<1>6. HeaderFirst'
  BY <1>1, <1>2, <1>5, Called, CallFacts DEF IInv, HeaderFirst, Texture, Header
<1>7. failures # {Header}
  BY <1>1, <1>2 DEF IInv, HeaderFailed
<1>8. Unfailed'
  BY <1>1, <1>5 DEF IInv, Unfailed, LoadedIsUploaded, Deleted, Texture, Parts, Calls, BlocksOf, Header
<1>9. HeaderFailed'
  BY <1>1, <1>7 DEF HeaderFailed, Header
<1>10. failures = {} /\ ~Texture => touches' = touches
  <2>1. CASE LoopEnds(c)
    BY <2>1 DEF LoopEnds
  <2>2. CASE LoopStops(c)
    <3>1. failures = {} => part = PartCount /\ PartCount \in Nat
      BY <2>2, DeletedLast, PartsAssumption DEF LoopStops
    <3>2. part < PartCount
      BY <2>2 DEF LoopStops
    <3> QED
      BY <3>1, <3>2
  <2> QED
    BY <2>1, <2>2
<1>11. RequestOutlivesItsUsers'
  BY <1>1, <1>7, <1>10 DEF IInv, RequestOutlivesItsUsers, Texture, Header
<1> QED
  BY <1>4, <1>6, <1>8, <1>9, <1>11 DEF IInv

-----------------------------------------------------------------------------
(* Reading, counting and handing over.                                     *)

\* Blocks that change hands count as much as before, or more.
LEMMA PastKept ==
  ASSUME IInv, TypeOK', NEW p \in Parts, UNCHANGED inHeader, ~(inHeader /\ p = 0),
         \A c \in BlocksOf(p) : call[c] \in HandingOver \union {"done", "stopped"}
                                  => call'[c] \in HandingOver \union {"done", "stopped"},
         request'.loadedBlocks[p] = request.loadedBlocks[p]
  PROVE  request'.loadedBlocks[p] <= Cardinality(Past(p)')
<1>1. Past(p) \subseteq Past(p)'
  BY DEF Past, BlocksOf
<1>2. Past(p)' \in SUBSET BlocksOf(p)
  BY DEF Past, BlocksOf
<1>3. Cardinality(Past(p)') \in Nat
  BY <1>2, BlocksFinite, FS_Subset, FS_CardinalityType
<1>4. Cardinality(Past(p)) <= Cardinality(Past(p)') /\ Cardinality(Past(p)) \in Nat
  BY <1>1, PastGrows, PastFacts
<1>5. request.loadedBlocks[p] \in Nat /\ request.loadedBlocks[p] <= Cardinality(Past(p))
  <2>1. request.loadedBlocks[p] \in Nat
    BY Typed DEF IInv, RequestOK
  <2> QED
    BY <2>1 DEF IInv, BlocksCounted
<1> QED
  BY <1>3, <1>4, <1>5

\* The part that was left in the header's block.
LEMMA HeaderPartKeeps ==
  ASSUME IInv, TypeOK', NEW c \in Calls, ReadPart(c), inHeader, part = 0
  PROVE  IInv'
<1>1. /\ call[c] = "loop" /\ call' = [call EXCEPT ![c] = "count"]
      /\ UNCHANGED <<request, asset, part, failures, touches, manager, inHeader, loader, copies, upload, finisher>>
  BY DEF ReadPart, Services
<1>2. c = Header
  BY <1>1, Called
<1>3. ReadInOrder' /\ BlocksCounted' /\ HandedOver' /\ Copied' /\ Finished'
  BY <1>1, <1>2, QuietCall DEF Labels
<1>4. \A d \in Calls : call'[d] = IF d = c THEN "count" ELSE call[d]
  BY <1>1, Typed DEF IInv, CallOK
<1>5. HeaderFirst'
  BY <1>1, <1>2, <1>4, Called, CallFacts DEF IInv, HeaderFirst, Texture, Header
<1>6. failures # {Header}
  BY <1>1, <1>2 DEF IInv, HeaderFailed
<1>7. Unfailed'
  BY <1>1, <1>4 DEF IInv, Unfailed, LoadedIsUploaded, Deleted, Texture, Parts, Calls, BlocksOf, Header
<1>8. HeaderFailed' /\ RequestOutlivesItsUsers'
  BY <1>1, <1>6 DEF IInv, HeaderFailed, RequestOutlivesItsUsers, Texture, Header
<1> QED
  BY <1>3, <1>5, <1>7, <1>8 DEF IInv

\* The loop asks for the blocks of the next part.
LEMMA ReadBlocksKeeps ==
  ASSUME IInv, TypeOK', NEW c \in Calls, ReadPart(c), ~(inHeader /\ part = 0)
  PROVE  IInv'
<1>1. /\ call[c] = "loop" /\ part < PartCount /\ ~Deleted
      /\ \A d \in Calls : call'[d] = IF d \in BlocksOf(part) THEN "issued" ELSE call[d]
      /\ part' = part + 1
      /\ UNCHANGED <<request, asset, failures, touches, manager, inHeader, loader, copies, upload, finisher>>
  BY DEF ReadPart, Services
<1>2. c = Header
  BY <1>1, Called
<1>3. part \in Parts /\ part \in Nat /\ part' # 0 /\ PartCount \in Nat
  <2>1. part \in 0 .. PartCount /\ PartCount \in Nat
    BY PartsAssumption DEF IInv, TypeOK
  <2> QED
    BY <1>1, <2>1 DEF Parts
<1>4. \A d \in BlocksOf(part) : call[d] = "none"
  BY <1>3 DEF IInv, ReadInOrder
<1>5. Header \notin BlocksOf(part) /\ call'[Header] = "loop"
  BY <1>1, <1>2, <1>3, CallFacts
<1>6. HeaderFirst'
  BY <1>1, <1>2, <1>5, Called DEF IInv, HeaderFirst, Texture, Header
<1>7. ReadInOrder'
  <2>1. ASSUME NEW p \in Parts, p >= part + 1, NEW d \in BlocksOf(p) PROVE call'[d] = "none"
    <3>1. p >= part /\ p # part
      BY <1>3, <2>1 DEF Parts
    <3>2. d \in Calls /\ d \notin BlocksOf(part)
      BY <1>3, <2>1, <3>1, CallFacts
    <3>3. call[d] = "none"
      BY <2>1, <3>1 DEF IInv, ReadInOrder
    <3> QED
      BY <1>1, <3>2, <3>3
  <2>2. ASSUME inHeader, NEW d \in BlocksOf(0) PROVE call'[d] = "none"
    <3>1. d \in Calls /\ d \notin BlocksOf(part)
      BY <1>3, <2>2, CallFacts
    <3> QED
      BY <1>1, <2>2, <3>1 DEF IInv, ReadInOrder
  <2>3. \A p \in Parts : \A d \in BlocksOf(p) : call'[d] # "loop"
    BY <1>1, CallFacts DEF IInv, ReadInOrder
  <2> QED
    BY <1>1, <2>1, <2>2, <2>3 DEF ReadInOrder, BlocksOf, Parts
<1>8. BlocksCounted'
  <2>1. ASSUME NEW p \in Parts, ~(inHeader /\ p = 0) PROVE request'.loadedBlocks[p] <= Cardinality(Past(p)')
    <3>1. \A d \in BlocksOf(p) : call[d] \in HandingOver \union {"done", "stopped"} => call'[d] = call[d]
      BY <1>1, <1>4, CallFacts DEF HandingOver
    <3> QED
      BY <1>1, <2>1, <3>1, PastKept
  <2>2. inHeader => request'.loadedBlocks[0] <= 1
    BY <1>1 DEF IInv, BlocksCounted
  <2> QED
    BY <1>1, <1>3, <2>1, <2>2 DEF BlocksCounted, Parts, Header
<1>9. HandedOver'
  <2>1. \A d \in Calls : call'[d] \in HandingOver => call'[d] = call[d]
    BY <1>1 DEF HandingOver
  <2> QED
    BY <1>1, <2>1 DEF IInv, HandedOver, OwnPart, Calls, BlocksOf, Texture, Parts, Header, HandingOver
<1>10. Copied'
  <2>1. Copied
    BY DEF IInv
  <2> QED
    BY <1>1, <1>3, <2>1 DEF Copied, UploadedWhole, Parts
<1>11. Finished'
  BY <1>1 DEF IInv, Finished, Finishing, Texture, Parts
<1>12. failures # {Header}
  BY <1>1, <1>2 DEF IInv, HeaderFailed
<1>13. Unfailed'
  BY <1>1 DEF IInv, Unfailed, LoadedIsUploaded, Deleted, Texture, Parts, Calls, BlocksOf, Header
<1>14. HeaderFailed' /\ RequestOutlivesItsUsers'
  BY <1>1, <1>12 DEF IInv, HeaderFailed, RequestOutlivesItsUsers, Texture, Header
<1> QED
  BY <1>6, <1>7, <1>8, <1>9, <1>10, <1>11, <1>13, <1>14 DEF IInv

\* A counting callback finds its part not yet whole; one more may make it so.
LEMMA CountsOn ==
  ASSUME IInv, NEW c \in Calls, call[c] = "count", NEW p, p = OwnPart(c)
  PROVE  /\ p \in Parts /\ request.loadedBlocks[p] \in Nat /\ BlockCount[p] \in Nat \ {0}
         /\ request.loadedBlocks[p] + 1 <= BlockCount[p]
         /\ c = Header => IsLastBlock(p)
         /\ upload[p] = "none" /\ finisher[p] = "none"
         /\ \A d \in Calls : call[d] \in HandingOver => OwnPart(d) # p
<1>1. p \in Parts /\ BlockCount[p] \in Nat \ {0}
  BY CallFacts
<1>2. request.loadedBlocks[p] \in Nat
  BY <1>1, Typed DEF IInv, RequestOK
<1>3. request.loadedBlocks[p] + 1 <= BlockCount[p] /\ (c = Header => request.loadedBlocks[p] + 1 >= BlockCount[p])
  <2>1. CASE c = Header
    <3>1. p = 0 /\ inHeader /\ part = 0 /\ BlockCount[0] = 1
      BY <2>1, CallFacts DEF IInv, HeaderFirst
    <3>2. request.loadedBlocks[0] = 0
      BY <2>1, <3>1 DEF IInv, BlocksCounted
    <3> QED
      BY <3>1, <3>2
  <2>2. CASE c # Header
    <3>1. c \in BlocksOf(p)
      BY <2>2, CallFacts
    <3>2. ~(inHeader /\ p = 0)
      BY <3>1 DEF IInv, ReadInOrder
    <3>3. c \notin Past(p)
      BY DEF Past, HandingOver
    <3>4. Cardinality(Past(p)) \in Nat /\ Cardinality(Past(p)) <= BlockCount[p]
          /\ Cardinality(Past(p)) # BlockCount[p]
      BY <1>1, <3>1, <3>3, PastFacts
    <3>5. request.loadedBlocks[p] <= Cardinality(Past(p))
      BY <1>1, <3>2 DEF IInv, BlocksCounted
    <3> QED
      BY <1>1, <1>2, <2>2, <3>4, <3>5
  <2> QED
    BY <2>1, <2>2
<1>4. request.loadedBlocks[p] # BlockCount[p]
  BY <1>1, <1>2, <1>3
<1>5. upload[p] = "none" /\ finisher[p] = "none"
  BY <1>1, <1>4 DEF IInv, Copied, UploadedWhole
<1>6. \A d \in Calls : call[d] \in HandingOver => OwnPart(d) # p
  BY <1>4 DEF IInv, HandedOver
<1> QED
  BY <1>1, <1>2, <1>3, <1>5, <1>6 DEF IsLastBlock

\* A block is counted, the last of its part or not.
LEMMA CountKeeps ==
  ASSUME IInv, TypeOK', NEW c \in Calls, CountBlock(c), ~Deleted
  PROVE  IInv'
<1> DEFINE p == OwnPart(c)
           label == IF IsLastBlock(p) THEN "upload" ELSE "done"
<1>1. /\ PartOf(c) = p /\ p \in Parts /\ request.loadedBlocks[p] \in Nat /\ BlockCount[p] \in Nat \ {0}
      /\ request.loadedBlocks[p] + 1 <= BlockCount[p]
      /\ c = Header => IsLastBlock(p) /\ inHeader /\ part = 0
      /\ upload[p] = "none" /\ finisher[p] = "none"
      /\ \A d \in Calls : call[d] \in HandingOver => OwnPart(d) # p
      /\ c # Header => c \in BlocksOf(p) /\ PartAfter(c) = part /\ Over(c) = "done"
  BY CountsOn, Counting, CallFacts DEF CountBlock
<1>2. call[c] = "count"
  BY DEF CountBlock
<1> HIDE DEF p
<1>3. /\ call' = [call EXCEPT ![c] = label] /\ part' = part
      /\ request' = [request EXCEPT !.loadedBlocks[p] = @ + 1]
      /\ UNCHANGED <<asset, failures, touches, manager, inHeader, loader, copies, upload, finisher>>
  BY <1>1 DEF CountBlock, CallGoes, Touched, Services
<1>4. /\ \A d \in Calls : call'[d] = IF d = c THEN label ELSE call[d]
      /\ request'.loadedBlocks[p] = request.loadedBlocks[p] + 1
      /\ \A q \in Parts : q # p => request'.loadedBlocks[q] = request.loadedBlocks[q]
      /\ request'.loaded = request.loaded /\ request'.stage = request.stage /\ request'.state = request.state
  BY <1>1, <1>3, Typed DEF IInv, CallOK, RequestOK
<1>5. label \in {"upload", "done"} /\ (c = Header => label = "upload")
      /\ (label = "upload" => request'.loadedBlocks[p] = BlockCount[p])
  BY <1>1, <1>4 DEF IsLastBlock
<1> HIDE DEF label
<1>6. HeaderFirst'
  BY <1>1, <1>2, <1>3, <1>4, <1>5, Called, CallFacts DEF IInv, HeaderFirst, Texture, Header
<1>7. ReadInOrder'
  <2>1. \A q \in Parts : \A d \in BlocksOf(q) : call[d] = "none" => call'[d] = "none"
    BY <1>2, <1>4, CallFacts
  <2>2. \A q \in Parts : \A d \in BlocksOf(q) : call'[d] # "loop"
    BY <1>4, <1>5, CallFacts DEF IInv, ReadInOrder
  <2> QED
    BY <1>3, <2>1, <2>2, CallFacts DEF IInv, ReadInOrder, BlocksOf, Parts
<1>8. BlocksCounted'
  <2>1. ASSUME NEW q \in Parts, ~(inHeader /\ q = 0) PROVE request'.loadedBlocks[q] <= Cardinality(Past(q)')
    <3>1. \A d \in BlocksOf(q) : call[d] \in HandingOver \union {"done", "stopped"}
                                   => call'[d] \in HandingOver \union {"done", "stopped"}
      BY <1>2, <1>4, CallFacts DEF HandingOver
    <3>2. CASE q # p
      BY <1>3, <1>4, <2>1, <3>1, <3>2, PastKept
    <3>3. CASE q = p
      <4>1. c \in BlocksOf(p)
        BY <1>1, <2>1, <3>3, CallFacts DEF p
      <4>2. Past(p) \subseteq Past(p)'
        BY <3>1, <3>3 DEF Past, BlocksOf
      <4>3. c \in Past(p)' \ Past(p)
        BY <1>2, <1>4, <1>5, <4>1 DEF Past, BlocksOf, HandingOver
      <4>4. Cardinality(Past(p)) + 1 <= Cardinality(Past(p)') /\ Cardinality(Past(p)) \in Nat
        BY <1>1, <4>2, <4>3, PastGrows, PastFacts
      <4>5. Cardinality(Past(p)') \in Nat
        <5>1. Past(p)' \in SUBSET BlocksOf(p)
          BY DEF Past, BlocksOf
        <5> QED
          BY <1>1, <5>1, BlocksFinite, FS_Subset, FS_CardinalityType
      <4>6. request.loadedBlocks[p] <= Cardinality(Past(p))
        BY <1>1, <2>1, <3>3 DEF IInv, BlocksCounted
      <4> QED
        BY <1>1, <1>4, <3>3, <4>4, <4>5, <4>6
    <3> QED
      BY <3>2, <3>3
  <2>2. ASSUME inHeader PROVE /\ request'.loadedBlocks[0] <= 1
                              /\ part = 0 /\ call'[Header] \in {"none", "issued", "loop", "count"}
                                   => request'.loadedBlocks[0] = 0
    <3>1. BlockCount[0] = 1 /\ \A d \in BlocksOf(0) : call[d] = "none"
      BY <2>2 DEF IInv, HeaderFirst, ReadInOrder
    <3>2. p = 0 <=> c = Header
      BY <1>1, <1>2, <3>1, CallFacts DEF p
    <3> QED
      BY <1>1, <1>4, <1>5, <2>2, <3>1, <3>2, CallFacts DEF IInv, BlocksCounted
  <2> QED
    BY <1>3, <2>1, <2>2 DEF BlocksCounted, Parts, Header
<1>9. HandedOver'
  <2>1. ASSUME NEW d \in Calls, call'[d] \in HandingOver
        PROVE  /\ request'.loadedBlocks[OwnPart(d)] = BlockCount[OwnPart(d)] /\ finisher[OwnPart(d)] = "none"
               /\ upload[OwnPart(d)] = "none" <=> call'[d] = "upload"
               /\ call'[d] = "schedule" => Texture
    <3>1. CASE d = c
      BY <1>1, <1>4, <1>5, <2>1, <3>1 DEF p, HandingOver
    <3>2. CASE d # c
      <4>1. call'[d] = call[d] /\ OwnPart(d) # p /\ OwnPart(d) \in Parts
        BY <1>1, <1>4, <2>1, <3>2, CallFacts
      <4> QED
        BY <1>4, <2>1, <4>1 DEF IInv, HandedOver
    <3> QED
      BY <3>1, <3>2
  <2>2. ASSUME NEW d \in Calls, NEW e \in Calls, call'[d] \in HandingOver, call'[e] \in HandingOver,
               OwnPart(d) = OwnPart(e)
        PROVE  d = e
    BY <1>1, <1>4, <2>2 DEF IInv, HandedOver, p
  <2> QED
    BY <1>3, <2>1, <2>2 DEF HandedOver, OwnPart, Calls, BlocksOf, Texture, Parts, Header
<1>10. Copied'
  <2>1. Copied
    BY DEF IInv
  <2> QED
    BY <1>1, <1>3, <1>4, <2>1 DEF Copied, UploadedWhole, Parts
<1>11. Finished'
  BY <1>3, <1>4 DEF IInv, Finished, Finishing, Texture, Parts
<1>12. failures # {Header}
  BY <1>2, Called DEF IInv, HeaderFailed
<1>13. Unfailed'
  BY <1>3, <1>4, <1>5 DEF IInv, Unfailed, LoadedIsUploaded, Deleted, Texture, Parts, Calls, BlocksOf, Header
<1>14. HeaderFailed' /\ RequestOutlivesItsUsers'
  BY <1>3, <1>12 DEF IInv, HeaderFailed, RequestOutlivesItsUsers, Texture, Header
<1> QED
  BY <1>6, <1>7, <1>8, <1>9, <1>10, <1>11, <1>13, <1>14 DEF IInv

\* A callback that counts or hands over finds the request deleted, and stops.
LEMMA StopsKeeps ==
  ASSUME IInv, TypeOK', NEW c \in Calls, CountBlock(c) \/ Upload(c), Deleted
  PROVE  IInv'
<1>1. /\ call[c] \in {"count", "upload"} /\ call' = [call EXCEPT ![c] = "stopped"]
      /\ UNCHANGED <<request, asset, part, failures, manager, inHeader, loader, copies, upload, finisher>>
  BY DEF CountBlock, Upload, CallGoes, Services
<1>2. \A d \in Calls : call'[d] = IF d = c THEN "stopped" ELSE call[d]
  BY <1>1, Typed DEF IInv, CallOK
<1>3. HeaderFirst'
  <2>1. loader # "none"
    BY <1>1, Called
  <2> QED
    BY <1>1, <1>2, <2>1, CallFacts DEF IInv, HeaderFirst, Texture, Header
<1>4. ReadInOrder'
  BY <1>1, <1>2, CallFacts DEF IInv, ReadInOrder, BlocksOf, Parts
<1>5. BlocksCounted'
  <2>1. ASSUME NEW p \in Parts, ~(inHeader /\ p = 0) PROVE request'.loadedBlocks[p] <= Cardinality(Past(p)')
    <3>1. \A d \in BlocksOf(p) : call[d] \in HandingOver \union {"done", "stopped"}
                                   => call'[d] \in HandingOver \union {"done", "stopped"}
      BY <1>2, CallFacts
    <3> QED
      BY <1>1, <2>1, <3>1, PastKept
  <2> QED
    BY <1>1, <1>2, <2>1, CallFacts DEF IInv, BlocksCounted, Parts, Header
<1>6. HandedOver'
  BY <1>1, <1>2 DEF IInv, HandedOver, OwnPart, Calls, BlocksOf, Texture, Parts, Header, HandingOver
<1>7. Copied'
  BY <1>1 DEF IInv, Copied, UploadedWhole, Parts
<1>8. Finished'
  BY <1>1 DEF IInv, Finished, Finishing, Texture, Parts
<1>9. failures # {Header} /\ failures # {}
  <2>1. failures # {Header}
    BY <1>1, Called DEF IInv, HeaderFailed
  <2> QED
    BY <1>1, <2>1, DeletedLast
<1>10. Unfailed' /\ HeaderFailed'
  BY <1>1, <1>9 DEF Unfailed, HeaderFailed, Header
<1>11. RequestOutlivesItsUsers'
  BY <1>1, <1>9 DEF RequestOutlivesItsUsers, Header
<1> QED
  BY <1>3, <1>4, <1>5, <1>6, <1>7, <1>8, <1>10, <1>11 DEF IInv

\* What a callback that hands over knows of its part.
LEMMA Hands ==
  ASSUME IInv, NEW c \in Calls, call[c] \in HandingOver, NEW p, p = OwnPart(c)
  PROVE  /\ p \in Parts /\ PartOf(c) = p
         /\ request.loadedBlocks[p] = BlockCount[p] /\ finisher[p] = "none" /\ p \notin request.loaded
         /\ upload[p] = "none" <=> call[c] = "upload"
         /\ ~Texture => call[c] = "upload" /\ c # Header /\ Over(c) = "done" /\ p < part
         /\ c = Header => part = 0 /\ inHeader /\ p = 0
         /\ \A d \in Calls : call[d] \in HandingOver /\ OwnPart(d) = p => d = c
         /\ failures # {Header} /\ loader # "none" /\ request.stage # "header"
         /\ failures = {} => ~Deleted
<1>1. call[c] \in {"upload", "schedule"}
  BY DEF HandingOver
<1>2. p \in Parts /\ PartOf(c) = p
  BY <1>1, Counting, CallFacts
<1>3. /\ request.loadedBlocks[p] = BlockCount[p] /\ finisher[p] = "none"
      /\ upload[p] = "none" <=> call[c] = "upload"
      /\ call[c] = "schedule" => Texture
      /\ \A d \in Calls : call[d] \in HandingOver /\ OwnPart(d) = p => d = c
  BY DEF IInv, HandedOver
<1>4. p \notin request.loaded
  BY <1>3 DEF IInv, Finished
<1>5. c = Header => part = 0 /\ inHeader /\ Texture
  BY <1>1 DEF IInv, HeaderFirst
<1>6. c # Header => Over(c) = "done" /\ p < part
  BY <1>1, Counting
<1>7. failures # {Header} /\ loader # "none" /\ request.stage # "header"
  <2>1. c = Header => request.stage # "header" /\ failures # {Header}
    BY <1>1 DEF IInv, HeaderFirst, HeaderFailed
  <2> QED
    BY <1>1, <2>1, Called
<1>8. failures = {} => ~Deleted
  BY <1>1, DeletedLast
<1> QED
  BY <1>1, <1>2, <1>3, <1>4, <1>5, <1>6, <1>7, <1>8, CallFacts

\* Giving a part to the device, or to its finisher, finishes nothing.
LEMMA FinisherStarts ==
  ASSUME IInv, NEW p \in Parts, finisher[p] = "none", p \notin request.loaded, UNCHANGED <<manager, request>>,
         \A q \in Parts : finisher'[q] = finisher[q] \/ (q = p /\ finisher'[q] = "waiting"),
         \A q \in Parts : upload'[q] = upload[q] \/ q = p
  PROVE  Finished'
<1>1. Finished /\ (\A q \in request.loaded : q \in Parts)
  BY Typed DEF IInv, RequestOK
<1>2. \A q \in request'.loaded : finisher'[q] \notin {"none", "waiting"}
  BY <1>1 DEF Finished
<1>3. Texture' => \A q \in request'.loaded : upload'[q] = "completed"
  BY <1>1 DEF Finished, Texture
<1>4. \A q \in Parts : finisher'[q] \in Ending => request'.loaded = Parts
  BY <1>1 DEF Finished, Ending
<1>5. \A q \in Parts : finisher'[q] \in {"tail", "last tail"} => Texture'
  BY <1>1 DEF Finished, Texture
<1>6. Finishing' = Finishing
  BY DEF Finishing, Parts
<1> QED
  BY <1>1, <1>2, <1>3, <1>4, <1>5, <1>6 DEF Finished, Ending, Parts

\* The part goes to the copy queue; with it a model's Invoke.
LEMMA UploadKeeps ==
  ASSUME IInv, TypeOK', NEW c \in Calls, Upload(c), ~Deleted
  PROVE  IInv'
<1> DEFINE p == OwnPart(c)
           label == IF Texture THEN "schedule" ELSE "done"
<1>1. call[c] = "upload" /\ call[c] \in HandingOver
  BY DEF Upload, HandingOver
<1>2. /\ p \in Parts /\ PartOf(c) = p
      /\ request.loadedBlocks[p] = BlockCount[p] /\ finisher[p] = "none" /\ p \notin request.loaded
      /\ upload[p] = "none"
      /\ ~Texture => c # Header /\ Over(c) = "done" /\ p < part
      /\ c = Header => part = 0 /\ inHeader
      /\ \A d \in Calls : call[d] \in HandingOver /\ OwnPart(d) = p => d = c
      /\ failures # {Header} /\ loader # "none" /\ request.stage # "header"
  BY <1>1, Hands
<1>3. /\ call' = [call EXCEPT ![c] = label]
      /\ copies' = Append(copies, p) /\ upload' = [upload EXCEPT ![p] = "queued"]
      /\ finisher' = IF Texture THEN finisher ELSE [finisher EXCEPT ![p] = "waiting"]
      /\ UNCHANGED <<request, asset, part, failures, touches, manager, inHeader, loader>>
  BY <1>2 DEF Upload, CallGoes, Touched
<1>4. WorkOK /\ CallOK
  BY Typed DEF IInv
<1>5. /\ \A d \in Calls : call'[d] = IF d = c THEN label ELSE call[d]
      /\ \A q \in Parts : upload'[q] = IF q = p THEN "queued" ELSE upload[q]
      /\ \A q \in Parts : finisher'[q] = IF q = p /\ ~Texture THEN "waiting" ELSE finisher[q]
  BY <1>2, <1>3, <1>4 DEF WorkOK, CallOK
<1>6. label \in {"schedule", "done"} /\ (label = "schedule" <=> Texture)
  OBVIOUS
<1>7. OwnPart(c) = p
  OBVIOUS
<1> HIDE DEF p, label
<1>8. HeaderFirst'
  BY <1>1, <1>2, <1>3, <1>5, <1>6, CallFacts DEF IInv, HeaderFirst, Texture, Header
<1>9. ReadInOrder'
  BY <1>1, <1>3, <1>5, <1>6, CallFacts DEF IInv, ReadInOrder, BlocksOf, Parts
<1>10. BlocksCounted'
  <2>1. ASSUME NEW q \in Parts, ~(inHeader /\ q = 0) PROVE request'.loadedBlocks[q] <= Cardinality(Past(q)')
    <3>1. \A d \in BlocksOf(q) : call[d] \in HandingOver \union {"done", "stopped"}
                                   => call'[d] \in HandingOver \union {"done", "stopped"}
      BY <1>5, <1>6, CallFacts DEF HandingOver
    <3> QED
      BY <1>3, <2>1, <3>1, PastKept
  <2>2. call'[Header] \in {"none", "issued", "loop", "count"} => call[Header] = call'[Header]
    BY <1>5, <1>6, CallFacts
  <2> QED
    BY <1>3, <2>1, <2>2 DEF IInv, BlocksCounted, Parts, Header
<1>11. HandedOver'
  <2>1. ASSUME NEW d \in Calls, call'[d] \in HandingOver
        PROVE  /\ request.loadedBlocks[OwnPart(d)] = BlockCount[OwnPart(d)] /\ finisher'[OwnPart(d)] = "none"
               /\ upload'[OwnPart(d)] = "none" <=> call'[d] = "upload"
               /\ call'[d] = "schedule" => Texture
    <3>1. CASE d = c
      BY <1>2, <1>5, <1>6, <1>7, <2>1, <3>1 DEF HandingOver
    <3>2. CASE d # c
      <4>1. call'[d] = call[d] /\ OwnPart(d) # p /\ OwnPart(d) \in Parts
        BY <1>2, <1>5, <2>1, <3>2, CallFacts
      <4> QED
        BY <1>5, <2>1, <4>1 DEF IInv, HandedOver
    <3> QED
      BY <3>1, <3>2
  <2>2. ASSUME NEW d \in Calls, NEW e \in Calls, call'[d] \in HandingOver, call'[e] \in HandingOver,
               OwnPart(d) = OwnPart(e)
        PROVE  d = e
    BY <1>1, <1>2, <1>5, <1>7, <2>2 DEF IInv, HandedOver
  <2> QED
    BY <1>3, <2>1, <2>2 DEF HandedOver, OwnPart, Calls, BlocksOf, Texture, Parts, Header
<1>12. Copied'
  <2>1. copies \in Seq(Parts) /\ IsInjective(copies)
        /\ \A q \in Parts : upload[q] # "none" <=> \E i \in DOMAIN copies : copies[i] = q
    BY <1>4 DEF WorkOK, IInv, Copied, UploadedWhole
  <2>2. /\ Len(copies) \in Nat /\ DOMAIN copies = 1 .. Len(copies)
        /\ Len(copies') = Len(copies) + 1 /\ DOMAIN copies' = 1 .. Len(copies) + 1
        /\ \A i \in 1 .. Len(copies) : copies'[i] = copies[i]
        /\ copies'[Len(copies) + 1] = p
    BY <1>2, <1>3, <2>1, LenProperties, AppendProperties
  <2>3. \A i \in DOMAIN copies : copies[i] # p
    BY <1>2, <2>1
  <2>4. IsInjective(copies')
    BY <2>1, <2>2, <2>3 DEF IsInjective
  <2>5. \A q \in Parts : upload'[q] # "none" <=> \E i \in DOMAIN copies' : copies'[i] = q
    <3>1. ASSUME NEW q \in Parts, q # p PROVE (\E i \in DOMAIN copies' : copies'[i] = q) <=> \E i \in DOMAIN copies : copies[i] = q
      BY <2>2, <3>1
    <3>2. \E i \in DOMAIN copies' : copies'[i] = p
      BY <2>2
    <3> QED
      BY <1>5, <2>1, <3>1, <3>2
  <2>6. \A q \in Parts : upload'[q] # "none" => request.loadedBlocks[q] = BlockCount[q]
    BY <1>2, <1>5 DEF IInv, Copied, UploadedWhole
  <2>7. \A q \in Parts : finisher'[q] # "none" => upload'[q] # "none" /\ q < part
    BY <1>2, <1>5 DEF IInv, Copied
  <2> QED
    BY <1>3, <2>4, <2>5, <2>6, <2>7 DEF Copied, UploadedWhole, Parts
<1>13. Finished'
  BY <1>2, <1>3, <1>5, FinisherStarts
<1>14. Unfailed'
  <2>1. \A q \in request.loaded : q \in Parts
    BY Typed DEF IInv, RequestOK
  <2> QED
    BY <1>2, <1>3, <1>5, <1>6, <2>1 DEF IInv, Unfailed, LoadedIsUploaded, Deleted, Texture, Parts, Calls, BlocksOf, Header
<1>15. HeaderFailed' /\ RequestOutlivesItsUsers'
  BY <1>2, <1>3 DEF IInv, HeaderFailed, RequestOutlivesItsUsers, Texture, Header
<1> QED
  BY <1>8, <1>9, <1>10, <1>11, <1>12, <1>13, <1>14, <1>15 DEF IInv

\* The MipFinalizerJob of the part is scheduled.
LEMMA ScheduleKeeps ==
  ASSUME IInv, TypeOK', NEW c \in Calls, Schedule(c)
  PROVE  IInv'
<1> DEFINE p == OwnPart(c)
           label == Over(c)
<1>1. call[c] = "schedule" /\ call[c] \in HandingOver
  BY DEF Schedule, HandingOver
<1>2. /\ p \in Parts /\ PartOf(c) = p
      /\ finisher[p] = "none" /\ p \notin request.loaded /\ upload[p] # "none" /\ Texture
      /\ \A d \in Calls : call[d] \in HandingOver /\ OwnPart(d) = p => d = c
      /\ failures # {Header} /\ loader # "none" /\ request.stage # "header"
      /\ failures = {} => ~Deleted
  BY <1>1, Hands
<1>3. /\ label = IF c = Header THEN "loop" ELSE "done"
      /\ PartAfter(c) = IF c = Header THEN 1 ELSE part
      /\ c = Header => part = 0
      /\ p < PartAfter(c)
      /\ part \in Nat
  <2>1. part \in 0 .. PartCount
    BY Typed DEF IInv, WorkOK
  <2>2. part \in Nat
    BY <2>1, PartsAssumption
  <2> QED
    BY <1>1, <2>2, Counting
<1>4. /\ call' = [call EXCEPT ![c] = label] /\ finisher' = [finisher EXCEPT ![p] = "waiting"]
      /\ part' = IF c = Header THEN 1 ELSE part
      /\ UNCHANGED <<manager, inHeader, loader, request, asset, copies, upload, failures, touches>>
  BY <1>2, <1>3 DEF Schedule
<1>5. /\ \A d \in Calls : call'[d] = IF d = c THEN label ELSE call[d]
      /\ \A q \in Parts : finisher'[q] = IF q = p THEN "waiting" ELSE finisher[q]
  BY <1>2, <1>4, Typed DEF IInv, WorkOK, CallOK
<1>6. part <= part' /\ p < part'
  BY <1>3, <1>4
<1> HIDE DEF p, label
<1>7. HeaderFirst'
  BY <1>2, <1>3, <1>4, <1>5, CallFacts DEF IInv, HeaderFirst, Texture, Header
<1>8. ReadInOrder'
  <2>1. ASSUME NEW q \in Parts, q >= part', NEW d \in BlocksOf(q) PROVE call'[d] = "none"
    <3>1. q >= part
      BY <1>3, <1>4, <2>1 DEF Parts
    <3>2. call[d] = "none"
      BY <2>1, <3>1 DEF IInv, ReadInOrder
    <3> QED
      BY <1>1, <1>5, <2>1, <3>2, CallFacts
  <2>2. inHeader => \A d \in BlocksOf(0) : call'[d] = "none"
    BY <1>1, <1>5, CallFacts DEF IInv, ReadInOrder
  <2>3. \A q \in Parts : \A d \in BlocksOf(q) : call'[d] # "loop"
    BY <1>3, <1>5, CallFacts DEF IInv, ReadInOrder
  <2> QED
    BY <1>4, <2>1, <2>2, <2>3 DEF ReadInOrder, BlocksOf, Parts
<1>9. BlocksCounted'
  <2>1. ASSUME NEW q \in Parts, ~(inHeader /\ q = 0) PROVE request'.loadedBlocks[q] <= Cardinality(Past(q)')
    <3>1. \A d \in BlocksOf(q) : call[d] \in HandingOver \union {"done", "stopped"}
                                   => call'[d] \in HandingOver \union {"done", "stopped"}
      BY <1>3, <1>5, CallFacts DEF HandingOver
    <3> QED
      BY <1>4, <2>1, <3>1, PastKept
  <2>2. part' = 0 /\ call'[Header] \in {"none", "issued", "loop", "count"}
          => part = 0 /\ call[Header] = call'[Header]
    BY <1>3, <1>4, <1>5, CallFacts
  <2> QED
    BY <1>4, <2>1, <2>2 DEF IInv, BlocksCounted, Parts, Header
<1>10. HandedOver'
  <2>1. ASSUME NEW d \in Calls, call'[d] \in HandingOver
        PROVE  d # c /\ call'[d] = call[d] /\ OwnPart(d) # p /\ OwnPart(d) \in Parts
    BY <1>2, <1>3, <1>5, <2>1, CallFacts DEF HandingOver
  <2> QED
    BY <1>4, <1>5, <2>1 DEF IInv, HandedOver, OwnPart, Calls, BlocksOf, Texture, Parts, Header
<1>11. Copied'
  <2>1. \A q \in Parts : finisher'[q] # "none" => upload[q] # "none" /\ q < part'
    BY <1>2, <1>3, <1>5, <1>6, <1>4 DEF IInv, Copied, Parts
  <2> QED
    BY <1>4, <2>1 DEF IInv, Copied, UploadedWhole, Parts
<1>12. Finished'
  BY <1>2, <1>4, <1>5, FinisherStarts
<1>13. Unfailed'
  BY <1>2, <1>3, <1>4, <1>5 DEF IInv, Unfailed, LoadedIsUploaded, Deleted, Texture, Parts, Calls, BlocksOf, Header
<1>14. HeaderFailed' /\ RequestOutlivesItsUsers'
  BY <1>2, <1>4 DEF IInv, HeaderFailed, RequestOutlivesItsUsers, Texture, Header
<1> QED
  BY <1>7, <1>8, <1>9, <1>10, <1>11, <1>12, <1>13, <1>14 DEF IInv

\* The file of a part cannot be read.
LEMMA PartFailsKeeps == ASSUME IInv, TypeOK', NEW p \in Parts, PartFails(p) PROVE IInv'
<1>1. /\ \A c \in BlocksOf(p) : call[c] = "issued"
      /\ \A c \in Calls : call'[c] = IF c = <<p, 0>> THEN "fail" ELSE IF c \in BlocksOf(p) THEN "done" ELSE call[c]
      /\ failures' = failures \union {<<p, 0>>}
      /\ UNCHANGED <<request, asset, part, touches, manager, inHeader, loader, copies, upload, finisher>>
  BY DEF PartFails, Services
<1>2. <<p, 0>> \in BlocksOf(p) /\ <<p, 0>> # Header /\ Header \notin BlocksOf(p) /\ <<p, 0>> \in Calls
  BY CallFacts
<1>3. failures' # {} /\ failures' # {Header} /\ ~(failures' \subseteq {Header})
  BY <1>1, <1>2
<1>4. \A c \in Calls : call'[c] = call[c] \/ (c \in BlocksOf(p) /\ call[c] = "issued" /\ call'[c] \in {"fail", "done"})
  BY <1>1, <1>2
<1>5. call'[Header] = call[Header]
  BY <1>1, <1>2, CallFacts
<1>6. HeaderFirst'
  <2>1. loader # "none"
    BY <1>1, <1>2, Called
  <2> QED
    BY <1>1, <1>5, <2>1 DEF IInv, HeaderFirst, Texture, Header
<1>7. ReadInOrder'
  <2>1. \A q \in Parts : \A c \in BlocksOf(q) : call[c] = "none" => call'[c] = "none"
    BY <1>4, CallFacts
  <2>2. \A q \in Parts : \A c \in BlocksOf(q) : call'[c] # "loop"
    BY <1>4, CallFacts DEF IInv, ReadInOrder
  <2> QED
    BY <1>1, <2>1, <2>2, CallFacts DEF IInv, ReadInOrder, BlocksOf, Parts
<1>8. BlocksCounted'
  <2>1. ASSUME NEW q \in Parts, ~(inHeader /\ q = 0) PROVE request'.loadedBlocks[q] <= Cardinality(Past(q)')
    <3>1. \A d \in BlocksOf(q) : call[d] \in HandingOver \union {"done", "stopped"} => call'[d] = call[d]
      BY <1>4, CallFacts DEF HandingOver
    <3> QED
      BY <1>1, <2>1, <3>1, PastKept
  <2> QED
    BY <1>1, <1>5, <2>1 DEF IInv, BlocksCounted, Parts, Header
<1>9. HandedOver'
  <2>1. \A c \in Calls : call'[c] \in HandingOver => call'[c] = call[c]
    BY <1>4 DEF HandingOver
  <2> QED
    BY <1>1, <2>1 DEF IInv, HandedOver, OwnPart, Calls, BlocksOf, Texture, Parts, Header
<1>10. Copied'
  BY <1>1 DEF IInv, Copied, UploadedWhole, Parts
<1>11. Finished'
  BY <1>1 DEF IInv, Finished, Finishing, Texture, Parts
<1>12. Unfailed' /\ HeaderFailed' /\ RequestOutlivesItsUsers'
  BY <1>3 DEF Unfailed, HeaderFailed, RequestOutlivesItsUsers, Header
<1> QED
  BY <1>6, <1>7, <1>8, <1>9, <1>10, <1>11, <1>12 DEF IInv

-----------------------------------------------------------------------------
(* Behind the copy queue.                                                  *)

\* A list goes on its way through the device.
LEMMA DeviceKeeps == ASSUME IInv, TypeOK', NEW p \in Parts, Submit(p) \/ Complete(p) PROVE IInv'
<1>1. /\ UNCHANGED <<CallState, request, asset, copies, finisher, touches>>
      /\ upload[p] \in {"queued", "submitted"}
      /\ \E s \in {"submitted", "completed"} : upload' = [upload EXCEPT ![p] = s]
  BY DEF Submit, Complete, IsFirst
<1>2. /\ \A q \in Parts : q # p => upload'[q] = upload[q]
      /\ upload'[p] \in {"submitted", "completed"}
  BY <1>1, Typed DEF IInv, WorkOK
<1>3. HeaderFirst' /\ ReadInOrder' /\ BlocksCounted'
  BY <1>1, QuietPart
<1>4. HandedOver'
  <2>1. ASSUME NEW c \in Calls PROVE upload'[OwnPart(c)] = "none" <=> upload[OwnPart(c)] = "none"
    BY <1>1, <1>2, CallFacts
  <2> QED
    BY <1>1, <2>1 DEF IInv, HandedOver, CallState, OwnPart, Calls, BlocksOf, Texture, Parts, Header
<1>5. Copied'
  <2>1. \A q \in Parts : upload'[q] = "none" <=> upload[q] = "none"
    BY <1>1, <1>2
  <2> QED
    BY <1>1, <2>1 DEF IInv, Copied, UploadedWhole, CallState, Parts
<1>6. \A q \in request.loaded : q \in Parts /\ (Texture => upload[q] = "completed" /\ q # p)
  BY <1>1, Typed DEF IInv, RequestOK, Finished
<1>7. Finished'
  <2>1. UNCHANGED <<manager, request, finisher>>
    BY <1>1 DEF CallState
  <2>2. Texture' => \A q \in request'.loaded : upload'[q] = "completed"
    BY <1>2, <1>6, <2>1 DEF Texture
  <2> QED
    BY <2>1, <2>2 DEF IInv, Finished, Finishing, Texture, Parts
<1>8. Unfailed'
  BY <1>1, <1>2, <1>6 DEF IInv, Unfailed, LoadedIsUploaded, CallState, Deleted, Texture, Parts, Calls, BlocksOf, Header
<1>9. HeaderFailed' /\ RequestOutlivesItsUsers'
  BY <1>1 DEF IInv, HeaderFailed, RequestOutlivesItsUsers, CallState, Deleted, Texture, Header
<1> QED
  BY <1>3, <1>4, <1>5, <1>7, <1>8, <1>9 DEF IInv

\* A finisher that moves on, and has nothing to do with the parts not finished.
LEMMA QuietFinisher ==
  ASSUME IInv, NEW p \in Parts, finisher[p] # "none", NEW label, label # "none",
         finisher' = [finisher EXCEPT ![p] = label],
         UNCHANGED <<CallState, copies, upload>>,
         request'.loadedBlocks = request.loadedBlocks, request'.stage = request.stage,
         request'.state \in {request.state, "deleted"}
  PROVE  /\ HeaderFirst' /\ ReadInOrder' /\ BlocksCounted' /\ HandedOver' /\ Copied' /\ HeaderFailed'
         /\ failures # {Header} /\ failures' # {Header}
         /\ \A q \in Parts : finisher'[q] = IF q = p THEN label ELSE finisher[q]
<1>1. HeaderFirst' /\ ReadInOrder' /\ BlocksCounted'
  BY QuietPart
<1>2. \A q \in Parts : finisher'[q] = IF q = p THEN label ELSE finisher[q]
  BY Typed DEF IInv, WorkOK
<1>3. HandedOver'
  <2>1. ASSUME NEW c \in Calls PROVE finisher[OwnPart(c)] = "none" => finisher'[OwnPart(c)] = "none"
    BY <1>2, CallFacts
  <2> QED
    BY <2>1 DEF IInv, HandedOver, CallState, OwnPart, Calls, BlocksOf, Texture, Parts, Header
<1>4. Copied'
  <2>1. Copied
    BY DEF IInv
  <2> QED
    BY <1>2, <2>1 DEF Copied, UploadedWhole, CallState, Parts
<1>5. failures # {Header} /\ failures' = failures
  BY Started DEF CallState
<1> QED
  BY <1>1, <1>2, <1>3, <1>4, <1>5 DEF HeaderFailed, Header

\* A part is marked, perhaps the last.
LEMMA MarkKeeps == ASSUME IInv, TypeOK', NEW p \in Parts, Mark(p), ~Deleted PROVE IInv'
<1> DEFINE loaded == request.loaded \union {p}
           label == IF AllLoaded(loaded) THEN "signal" ELSE IF Texture THEN "tail" ELSE "done"
<1>1. /\ finisher[p] = "waiting"
      /\ Texture => upload[p] = "completed"
      /\ Finishing = {}
      /\ request' = [request EXCEPT !.loaded = loaded]
      /\ asset' = [asset EXCEPT !.status = IF AllLoaded(loaded) THEN "complete"
                                           ELSE IF Cardinality(loaded) = 1 THEN "lods" ELSE @]
      /\ finisher' = [finisher EXCEPT ![p] = label]
      /\ UNCHANGED <<touches, CallState, copies, upload>>
  <2>1. Ready(p) /\ MaskUnlocked
    BY DEF Mark
  <2>2. Texture => upload[p] = "completed"
    BY <2>1 DEF Ready
  <2>3. finisher[p] = "waiting" /\ Finishing = {}
    BY <2>1 DEF Ready, MaskUnlocked
  <2> QED
    BY <2>2, <2>3 DEF Mark
<1>2. request.loaded \in SUBSET Parts
  BY Typed DEF IInv, RequestOK
<1>3. AllLoaded(loaded) <=> loaded = Parts
  BY <1>2, AllOfThem
<1>4. /\ request'.loaded = loaded /\ request'.loadedBlocks = request.loadedBlocks
      /\ request'.stage = request.stage /\ request'.state = request.state
      /\ asset'.signals = asset.signals
      /\ asset'.status = IF loaded = Parts THEN "complete" ELSE IF Cardinality(loaded) = 1 THEN "lods" ELSE asset.status
  BY <1>1, <1>3, Typed DEF IInv, RequestOK, AssetOK
<1>5. p \notin request.loaded /\ request.loaded # Parts
  BY <1>1 DEF IInv, Finished
<1>6. label = IF loaded = Parts THEN "signal" ELSE IF Texture THEN "tail" ELSE "done"
  BY <1>3
<1> HIDE DEF loaded, label
<1>7. label \in {"signal", "tail", "done"} /\ p \in loaded /\ request.loaded \subseteq loaded /\ loaded \in SUBSET Parts
  BY <1>2, <1>6 DEF loaded
<1>8. /\ HeaderFirst' /\ ReadInOrder' /\ BlocksCounted' /\ HandedOver' /\ Copied' /\ HeaderFailed'
      /\ failures # {Header}
      /\ \A q \in Parts : finisher'[q] = IF q = p THEN label ELSE finisher[q]
  <2>1. /\ finisher[p] # "none" /\ label # "none" /\ finisher' = [finisher EXCEPT ![p] = label]
        /\ UNCHANGED <<CallState, copies, upload>>
    BY <1>1, <1>7
  <2>2. /\ request'.loadedBlocks = request.loadedBlocks /\ request'.stage = request.stage
        /\ request'.state \in {request.state, "deleted"}
    BY <1>4
  <2> QED
    BY <2>1, <2>2, QuietFinisher
<1>9. UNCHANGED <<manager, failures, call, upload, touches>> /\ (Texture' <=> Texture)
  BY <1>1 DEF CallState, Texture
<1>10. \A q \in Parts : finisher[q] \notin Ending /\ finisher[q] \notin {"signal", "delete", "tail", "last tail"}
  <2>1. \A q \in Parts : q \notin Finishing
    BY <1>1
  <2> QED
    BY <2>1 DEF Finishing, Ending
<1>11. Finished'
  <2>1. \A q \in loaded : finisher'[q] \notin {"none", "waiting"}
    BY <1>7, <1>8 DEF IInv, Finished, loaded
  <2>2. Texture => \A q \in loaded : upload[q] = "completed"
    BY <1>1 DEF IInv, Finished, loaded
  <2>3. \A q \in Parts : finisher'[q] \in Ending => loaded = Parts
    BY <1>6, <1>8, <1>10 DEF Ending
  <2>4. \A q \in Parts : finisher'[q] \in {"tail", "last tail"} => Texture
    BY <1>6, <1>8, <1>10
  <2>5. \A q, r \in Finishing' : q = r
    BY <1>8, <1>10 DEF Finishing, Parts
  <2> QED
    BY <1>4, <1>9, <2>1, <2>2, <2>3, <2>4, <2>5 DEF Finished, Ending, Parts
<1>12. Unfailed'
  <2> SUFFICES ASSUME failures = {} PROVE Unfailed'
    BY <1>9 DEF Unfailed
  <2>1. /\ \A c \in Calls : call[c] \notin {"fail", "signal", "delete"}
        /\ asset.status # "failed" /\ (asset.status = "complete" => request.loaded = Parts)
        /\ asset.signals # 0 => request.loaded = Parts
    BY DEF IInv, Unfailed
  <2>2. asset.signals = 0 /\ asset.status # "complete"
    BY <1>5, <2>1
  <2>3. asset'.status # "failed" /\ (asset'.status = "complete" => loaded = Parts) /\ asset'.signals = 0
    BY <1>4, <2>1, <2>2
  <2>4. LoadedIsUploaded'
    <3>1. Texture => \A q \in loaded : upload[q] = "completed"
      BY <1>1 DEF IInv, Finished, loaded
    <3>2. loaded # {}
      BY <1>7
    <3> QED
      BY <1>4, <1>9, <2>3, <3>1, <3>2 DEF LoadedIsUploaded, Texture, Parts
  <2>5. \A q \in Parts : finisher'[q] = "signal" => asset'.signals = 0 /\ asset'.status = "complete"
    BY <1>4, <1>6, <1>8, <1>10, <2>3
  <2>6. ~Deleted'
    BY <1>4 DEF Deleted
  <2> QED
    BY <1>4, <1>9, <2>1, <2>3, <2>4, <2>5, <2>6 DEF Unfailed, Parts, Calls, BlocksOf, Header
<1>13. RequestOutlivesItsUsers'
  BY <1>8, <1>9 DEF IInv, RequestOutlivesItsUsers, Header
<1> QED
  BY <1>8, <1>11, <1>12, <1>13 DEF IInv

\* A part is finished after the request was deleted, which is no load that did not fail.
LEMMA MarkStops == ASSUME IInv, TypeOK', NEW p \in Parts, Mark(p), Deleted PROVE IInv'
<1>1. /\ finisher[p] = "waiting" /\ finisher' = [finisher EXCEPT ![p] = "stopped"]
      /\ UNCHANGED <<request, asset, CallState, copies, upload>>
  BY DEF Mark, Ready
<1>2. /\ HeaderFirst' /\ ReadInOrder' /\ BlocksCounted' /\ HandedOver' /\ Copied' /\ HeaderFailed'
      /\ failures # {Header}
      /\ \A q \in Parts : finisher'[q] = IF q = p THEN "stopped" ELSE finisher[q]
  BY <1>1, QuietFinisher
<1>3. failures # {} /\ failures' = failures
  BY <1>1, DeletedLast DEF CallState
<1>4. Finished'
  <2>1. Finished /\ \A q \in request.loaded : q \in Parts
    BY Typed DEF IInv, RequestOK
  <2>2. \A q \in Finishing' : q \in Finishing
    BY <1>2 DEF Finishing, Parts
  <2> QED
    <3>1. UNCHANGED <<manager, request, upload>>
      BY <1>1 DEF CallState
    <3>2. \A q \in Parts : finisher'[q] \in {finisher[q], "stopped"} /\ (finisher'[q] = finisher[q] \/ q = p)
      BY <1>2
    <3>3. \A q \in request'.loaded : finisher'[q] \notin {"none", "waiting"}
      BY <2>1, <3>1, <3>2 DEF Finished
    <3>4. \A q \in Parts : finisher'[q] \in Ending => request'.loaded = Parts
      BY <2>1, <3>1, <3>2 DEF Finished, Ending
    <3>5. \A q \in Parts : finisher'[q] \in {"tail", "last tail"} => Texture'
      BY <2>1, <3>1, <3>2 DEF Finished, Texture
    <3> QED
      BY <2>1, <2>2, <3>1, <3>3, <3>4, <3>5 DEF Finished, Texture, Ending, Parts
<1>5. Unfailed' /\ RequestOutlivesItsUsers'
  BY <1>2, <1>3 DEF Unfailed, RequestOutlivesItsUsers, Header
<1> QED
  BY <1>2, <1>4, <1>5 DEF IInv

\* Whoever finishes the last part, or leaves, moves on among those that are done.
LEMMA LastMoves ==
  ASSUME IInv, NEW p \in Parts, finisher[p] \in {"signal", "delete", "tail", "last tail"},
         NEW label \in {"delete", "last tail", "done", "stopped"},
         label \in Ending => finisher[p] \in Ending, label = "last tail" => Texture,
         \A q \in Parts : finisher'[q] = IF q = p THEN label ELSE finisher[q],
         request'.loaded = request.loaded, UNCHANGED <<manager, upload>>
  PROVE  Finished'
<1>1. Finished /\ \A q \in request.loaded : q \in Parts
  BY Typed DEF IInv, RequestOK
<1>2. \A q \in request'.loaded : finisher'[q] \notin {"none", "waiting"}
  BY <1>1 DEF Finished
<1>3. Texture' => \A q \in request'.loaded : upload'[q] = "completed"
  BY <1>1 DEF Finished, Texture
<1>4. \A q \in Parts : finisher'[q] \in Ending => request'.loaded = Parts
  BY <1>1 DEF Finished
<1>5. \A q \in Parts : finisher'[q] \in {"tail", "last tail"} => Texture'
  BY <1>1 DEF Finished, Texture
<1>6. \A q \in Finishing' : q \in Finishing
  BY DEF Finishing, Parts
<1> QED
  BY <1>1, <1>2, <1>3, <1>4, <1>5, <1>6 DEF Finished, Ending, Parts

LEMMA FinishSignalKeeps == ASSUME IInv, TypeOK', NEW p \in Parts, FinishSignal(p) PROVE IInv'
<1> DEFINE label == IF Deleted THEN "stopped" ELSE "delete"
<1>1. /\ finisher[p] = "signal" /\ finisher' = [finisher EXCEPT ![p] = label]
      /\ touches' = IF Deleted THEN touches \union {"finisher"} ELSE touches
      /\ asset' = IF Deleted THEN asset ELSE [asset EXCEPT !.signals = @ + 1]
      /\ UNCHANGED <<CallState, request, copies, upload>>
  BY DEF FinishSignal, FinisherGoes, Touched
<1>2. label \in {"stopped", "delete"}
  OBVIOUS
<1> HIDE DEF label
<1>3. /\ HeaderFirst' /\ ReadInOrder' /\ BlocksCounted' /\ HandedOver' /\ Copied' /\ HeaderFailed'
      /\ failures # {Header}
      /\ \A q \in Parts : finisher'[q] = IF q = p THEN label ELSE finisher[q]
  BY <1>1, <1>2, QuietFinisher
<1>4. UNCHANGED <<manager, failures, call, upload, request>> /\ (Texture' <=> Texture)
  BY <1>1 DEF CallState, Texture
<1>5. p \in Finishing /\ (\A q \in Parts : finisher[q] = "signal" => q = p)
  BY <1>1 DEF IInv, Finished, Finishing
<1>6. request.loaded = Parts
  BY <1>1 DEF IInv, Finished, Ending
<1>7. Finished'
  <2>1. /\ finisher[p] \in {"signal", "delete", "tail", "last tail"} /\ finisher[p] \in Ending
        /\ label \in {"delete", "last tail", "done", "stopped"}
        /\ label = "last tail" => Texture
    BY <1>1, <1>2 DEF Ending
  <2>2. request'.loaded = request.loaded /\ UNCHANGED <<manager, upload>>
    BY <1>1, <1>4
  <2>3. \A q \in Parts : finisher'[q] = IF q = p THEN label ELSE finisher[q]
    BY <1>3
  <2> QED
    BY <2>1, <2>2, <2>3, LastMoves
<1>8. failures = {} => ~Deleted /\ asset.signals = 0 /\ asset.status = "complete"
  <2>1. failures = {} => ~Deleted
    BY <1>1, DeletedLast
  <2> QED
    BY <1>1, <2>1 DEF IInv, Unfailed
<1>9. Unfailed'
  <2> SUFFICES ASSUME failures = {} PROVE Unfailed'
    BY <1>4 DEF Unfailed
  <2>1. asset'.signals = 1 /\ asset'.status = "complete"
    BY <1>1, <1>8, Typed DEF IInv, AssetOK
  <2>2. \A q \in Parts : finisher'[q] # "signal"
    BY <1>2, <1>3, <1>5
  <2>3. LoadedIsUploaded'
    <3>1. Texture => request.loaded # {} /\ \A q \in request.loaded : upload[q] = "completed"
      BY <1>6 DEF IInv, Finished
    <3> QED
      BY <1>4, <1>6, <2>1, <3>1 DEF LoadedIsUploaded, Texture, Parts
  <2>4. ~Deleted'
    BY <1>4, <1>8 DEF Deleted
  <2>5. \A c \in Calls : call[c] \notin {"fail", "signal", "delete"}
    BY DEF IInv, Unfailed
  <2> QED
    BY <1>4, <1>6, <2>1, <2>2, <2>3, <2>4, <2>5 DEF Unfailed, Parts, Calls, BlocksOf, Header
<1>10. RequestOutlivesItsUsers'
  BY <1>1, <1>3, <1>4, <1>8 DEF IInv, RequestOutlivesItsUsers, Header
<1> QED
  BY <1>3, <1>7, <1>9, <1>10 DEF IInv

LEMMA FinishDeleteKeeps == ASSUME IInv, TypeOK', NEW p \in Parts, FinishDelete(p) PROVE IInv'
<1> DEFINE label == IF Deleted THEN "stopped" ELSE IF Texture THEN "last tail" ELSE "done"
<1>1. /\ finisher[p] = "delete" /\ finisher' = [finisher EXCEPT ![p] = label]
      /\ touches' = IF Deleted THEN touches \union {"finisher"} ELSE touches
      /\ request' = [request EXCEPT !.state = "deleted"]
      /\ UNCHANGED <<CallState, asset, copies, upload>>
  BY DEF FinishDelete, FinisherGoes, Touched
<1>2. label \in {"stopped", "last tail", "done"} /\ (label = "last tail" => Texture)
  OBVIOUS
<1> HIDE DEF label
<1>3. /\ request'.loadedBlocks = request.loadedBlocks /\ request'.stage = request.stage
      /\ request'.state = "deleted" /\ request'.loaded = request.loaded
  BY <1>1, Typed DEF IInv, RequestOK
<1>4. /\ HeaderFirst' /\ ReadInOrder' /\ BlocksCounted' /\ HandedOver' /\ Copied' /\ HeaderFailed'
      /\ failures # {Header}
      /\ \A q \in Parts : finisher'[q] = IF q = p THEN label ELSE finisher[q]
  BY <1>1, <1>2, <1>3, QuietFinisher
<1>5. UNCHANGED <<manager, failures, call, upload, asset>> /\ (Texture' <=> Texture)
  BY <1>1 DEF CallState, Texture
<1>6. request.loaded = Parts
  BY <1>1 DEF IInv, Finished, Ending
<1>7. \A q \in Parts : finisher'[q] \notin {"signal", "delete", "tail"}
  <2>1. p \in Finishing /\ (\A q \in Finishing : q = p)
    BY <1>1 DEF IInv, Finished, Finishing
  <2> QED
    BY <1>2, <1>4, <2>1 DEF Finishing
<1>8. Finished'
  <2>1. /\ finisher[p] \in {"signal", "delete", "tail", "last tail"} /\ finisher[p] \in Ending
        /\ label \in {"delete", "last tail", "done", "stopped"}
        /\ label = "last tail" => Texture
    BY <1>1, <1>2 DEF Ending
  <2>2. request'.loaded = request.loaded /\ UNCHANGED <<manager, upload>>
    BY <1>1, <1>3, <1>5
  <2>3. \A q \in Parts : finisher'[q] = IF q = p THEN label ELSE finisher[q]
    BY <1>4
  <2> QED
    BY <2>1, <2>2, <2>3, LastMoves
<1>9. Unfailed'
  BY <1>3, <1>5, <1>6, <1>7 DEF IInv, Unfailed, LoadedIsUploaded, Texture, Parts, Calls, BlocksOf, Header
<1>10. failures = {} => touches' = touches
  <2>1. failures = {} => ~Deleted
    BY <1>1, DeletedLast
  <2> QED
    BY <1>1, <2>1
<1>11. RequestOutlivesItsUsers'
  BY <1>4, <1>5, <1>10 DEF IInv, RequestOutlivesItsUsers, Header
<1> QED
  BY <1>4, <1>8, <1>9, <1>11 DEF IInv

\* The end of Execute, after the deletion or before it.
LEMMA LeaveKeeps == ASSUME IInv, TypeOK', NEW p \in Parts, Leave(p) PROVE IInv'
<1>1. /\ finisher[p] \in {"tail", "last tail"} /\ finisher' = [finisher EXCEPT ![p] = "done"]
      /\ touches' = IF Deleted THEN touches \union {finisher[p]} ELSE touches
      /\ UNCHANGED <<CallState, request, asset, copies, upload>>
  BY DEF Leave, Touched
<1>2. /\ HeaderFirst' /\ ReadInOrder' /\ BlocksCounted' /\ HandedOver' /\ Copied' /\ HeaderFailed'
      /\ failures # {Header}
      /\ \A q \in Parts : finisher'[q] = IF q = p THEN "done" ELSE finisher[q]
  BY <1>1, QuietFinisher
<1>3. UNCHANGED <<manager, failures, call, upload, asset, request>> /\ (Texture' <=> Texture)
  BY <1>1 DEF CallState, Texture
<1>4. Finished'
  BY <1>1, <1>2, <1>3, LastMoves DEF Ending
<1>5. Unfailed'
  <2>1. Unfailed
    BY DEF IInv
  <2> QED
    BY <1>2, <1>3, <2>1 DEF Unfailed, LoadedIsUploaded, Deleted, Texture, Parts, Calls, BlocksOf, Header
<1>6. failures = {} => touches' \subseteq touches \union {"last tail"}
  <2>1. failures = {} /\ Deleted => finisher[p] = "last tail"
    BY <1>1, DeletedLast
  <2> QED
    BY <1>1, <2>1
<1>7. Texture
  BY <1>1 DEF IInv, Finished
<1>8. RequestOutlivesItsUsers'
  BY <1>2, <1>3, <1>6, <1>7 DEF IInv, RequestOutlivesItsUsers, Header
<1> QED
  BY <1>2, <1>4, <1>5, <1>8 DEF IInv

-----------------------------------------------------------------------------
(* The theorems.                                                           *)

\* Every step keeps the invariant.
LEMMA AssetStep == IInv /\ [Next]_vars => IInv'
<1> SUFFICES ASSUME IInv, [Next]_vars PROVE IInv'
  OBVIOUS
<1>1. CASE UNCHANGED vars
  <2>1. /\ TypeOK' <=> TypeOK
        /\ HeaderFirst' <=> HeaderFirst
        /\ ReadInOrder' <=> ReadInOrder
        /\ BlocksCounted' <=> BlocksCounted
    BY <1>1 DEF vars, TypeOK, HeaderFirst, ReadInOrder, BlocksCounted, Past, Texture, Parts, BlocksOf, Calls, Header
  <2>2. /\ HandedOver' <=> HandedOver
        /\ Copied' <=> Copied
        /\ Finished' <=> Finished
    BY <1>1 DEF vars, HandedOver, OwnPart, Copied, UploadedWhole, Finished, Finishing, Texture, Parts,
                BlocksOf, Calls, Header
  <2>3. /\ Unfailed' <=> Unfailed
        /\ HeaderFailed' <=> HeaderFailed
        /\ RequestOutlivesItsUsers' <=> RequestOutlivesItsUsers
    BY <1>1 DEF vars, Unfailed, LoadedIsUploaded, HeaderFailed, RequestOutlivesItsUsers, Deleted, Texture,
                Parts, BlocksOf, Calls, Header
  <2> QED
    BY <2>1, <2>2, <2>3 DEF IInv
<1>2. CASE Next
  <2>1. TypeOK'
    BY <1>2, TypeStep
  <2>2. CASE Load \/ LoadReturn
    BY <2>1, <2>2, LoadKeeps, LoadReturnKeeps
  <2>3. CASE Stopped
    BY <1>1, <2>3 DEF Stopped
  <2>4. ASSUME NEW c \in Calls, CallStep(c) PROVE IInv'
    <3>1. CASE Fails(c) \/ FailStatus(c) \/ FailSignal(c) \/ FailDelete(c)
      BY <2>1, <3>1, FailsKeeps, FailureKeeps
    <3>2. CASE Dispatch(c) \/ LoopEnds(c) \/ LoopStops(c)
      BY <2>1, <3>2, DispatchKeeps, LoopOverKeeps
    <3>3. CASE ReadPart(c)
      BY <2>1, <3>3, HeaderPartKeeps, ReadBlocksKeeps
    <3>4. CASE CountBlock(c)
      BY <2>1, <3>4, CountKeeps, StopsKeeps
    <3>5. CASE Upload(c)
      BY <2>1, <3>5, UploadKeeps, StopsKeeps
    <3>6. CASE Schedule(c)
      BY <2>1, <3>6, ScheduleKeeps
    <3> QED
      BY <2>4, <3>1, <3>2, <3>3, <3>4, <3>5, <3>6 DEF CallStep
  <2>5. ASSUME NEW p \in Parts, PartFails(p) \/ PartStep(p) PROVE IInv'
    <3>1. CASE PartFails(p)
      BY <2>1, <3>1, PartFailsKeeps
    <3>2. CASE Submit(p) \/ Complete(p)
      BY <2>1, <3>2, DeviceKeeps
    <3>3. CASE Mark(p)
      BY <2>1, <3>3, MarkKeeps, MarkStops
    <3>4. CASE FinishSignal(p) \/ FinishDelete(p) \/ Leave(p)
      BY <2>1, <3>4, FinishSignalKeeps, FinishDeleteKeeps, LeaveKeeps
    <3> QED
      BY <2>5, <3>1, <3>2, <3>3, <3>4 DEF PartStep
  <2> QED
    BY <1>2, <2>2, <2>3, <2>4, <2>5 DEF Next
<1> QED
  BY <1>1, <1>2

\* In every reachable state of a load the invariant holds.
THEOREM AssetInvariant == Spec => []IInv
<1> QED
  BY AssetInit, AssetStep, PTL DEF Spec

\* Whatever fails, a part goes to the copy queue once and with all of its blocks.
\* The load that does not fail signals its group once, when all of its parts are
\* done: completed by the device for a texture, recorded for a model.
THEOREM AssetLoads == Spec => []AssetState
<1>1. IInv => LoadedIsUploaded
  <2> SUFFICES ASSUME IInv PROVE LoadedIsUploaded
    OBVIOUS
  <2>1. failures = {} => LoadedIsUploaded
    BY DEF IInv, Unfailed
  <2> QED
    BY <2>1 DEF LoadedIsUploaded
<1>2. IInv => AssetState
  BY <1>1 DEF IInv, Copied, AssetState
<1> QED
  BY <1>2, AssetInvariant, PTL

\* The request of a load in which no block fails is deleted after all work on it,
\* but for the last line of Load and, for a texture, two places at the end.
THEOREM AssetRequest == Spec => []RequestOutlivesItsUsers
<1>1. IInv => RequestOutlivesItsUsers
  BY DEF IInv
<1> QED
  BY <1>1, AssetInvariant, PTL
=============================================================================
