---------------------------- MODULE AssetLoading ----------------------------
(***************************************************************************)
(* One load of TextureAssetManager or ModelAssetManager, from Load to the  *)
(* signal of the asset's completion group.  The header is read first; its  *)
(* callback asks for the parts of the asset: the mip chains of a texture,  *)
(* the LODs of a model.  The blocks of a part call back concurrently; the  *)
(* last one counted hands the part to the copy queue.  What finishes a     *)
(* part is a job that waits for its upload (MipFinalizerJob), or a command *)
(* that the copy thread runs while it records the list (Invoke).  Whatever *)
(* finishes the last part, and every failure, deletes the request.         *)
(*                                                                         *)
(* The services are what the modules of this project show of them:         *)
(* AsyncStreamIO answers each block once, or a whole part once when the    *)
(* file cannot be read; a scheduled job runs some time; AsyncCopyQueue     *)
(* handles its lists in order and signals them when they are completed.    *)
(*                                                                         *)
(* An access to a deleted request is recorded with its place, and its      *)
(* thread is followed no further.  Faulty variants that Next does not use  *)
(* stand beside some definitions.                                          *)
(***************************************************************************)
EXTENDS Integers, FiniteSets, SequencesExt

CONSTANTS
  PartCount,     \* m_mipChains.size() or m_lodCount
  BlockCount,    \* m_blockCount of each part
  MaxFailures    \* the bound: callbacks that find a failure

Parts == 0 .. PartCount - 1

ASSUME PartsAssumption ==
  /\ PartCount \in Nat \ {0}
  /\ BlockCount \in [Parts -> Nat \ {0}]
  /\ MaxFailures \in Nat

VARIABLES
  manager,     \* whose request it is
  inHeader,    \* the first mip chain is in the block of the header
  loader,      \* how far Load is
  request,     \* m_stage, m_loadedBlockCount, m_loadedMipChainsMask or m_loadedLods
  asset,       \* m_status, and how often m_completionWaitGroup was signalled
  call,        \* where the callback of each block is
  part,        \* the counter of the loop over the parts
  copies,      \* the parts in the order they were given to the copy queue
  upload,      \* how far the copy queue and the device are with each
  finisher,    \* where the MipFinalizerJob or the Invoke of each part is
  failures,    \* history: the callbacks that found a failure
  touches      \* history: the places that accessed the deleted request

vars == <<manager, inHeader, loader, request, asset, call, part, copies, upload, finisher,
          failures, touches>>

Header == <<-1, 0>>
BlocksOf(p) == {<<p, b>> : b \in 0 .. BlockCount[p] - 1}
Calls == {Header} \union UNION {BlocksOf(p) : p \in Parts}
Texture == manager = "texture"

Init ==
  /\ manager \in {"texture", "model"}
  /\ inHeader \in {FALSE} \union {b \in {TRUE} : Texture /\ BlockCount[0] = 1}
  /\ loader = "none"
  /\ request = [state |-> "none", stage |-> "header", loadedBlocks |-> [p \in Parts |-> 0],
                loaded |-> {}]
  /\ asset = [status |-> "none", signals |-> 0]
  /\ call = [c \in Calls |-> "none"] /\ part = 0
  /\ copies = <<>> /\ upload = [p \in Parts |-> "none"]
  /\ finisher = [p \in Parts |-> "none"]
  /\ failures = {} /\ touches = {}

Deleted == request.state = "deleted"
Touched(place) == touches' = IF Deleted THEN touches \union {place} ELSE touches

-----------------------------------------------------------------------------
(* Load.  The caller has no reference before Load returns.                 *)

Load ==
  /\ loader = "none"
  /\ request' = [request EXCEPT !.state = "alive"]
  /\ call' = [call EXCEPT ![Header] = "issued"]
  /\ loader' = "return"
  /\ UNCHANGED <<manager, inHeader, asset, part, copies, upload, finisher, failures, touches>>

LoadReturn ==
  /\ loader = "return"
  /\ Touched("return")
  /\ loader' = "done"
  /\ UNCHANGED <<manager, inHeader, request, asset, call, part, copies, upload, finisher, failures>>

-----------------------------------------------------------------------------
(* AsyncIOCallback.                                                        *)

Services == <<manager, inHeader, loader, copies, upload, finisher>>

\* The callback accesses the request, and goes on if it is there.
CallGoes(c, label) ==
  /\ Touched("callback")
  /\ call' = [call EXCEPT ![c] = IF Deleted THEN "stopped" ELSE label]

MayFail == Cardinality(failures) < MaxFailures

\* GetStatus() == kFailed, or a header that is not well-formed.
Fails(c) ==
  /\ call[c] = "issued" /\ MayFail
  /\ failures' = failures \union {c}
  /\ call' = [call EXCEPT ![c] = "fail"]
  /\ UNCHANGED <<request, asset, part, touches, Services>>

\* The file cannot be read: one callback answers for the part.
PartFails(p) ==
  /\ MayFail /\ \A c \in BlocksOf(p) : call[c] = "issued"
  /\ failures' = failures \union {<<p, 0>>}
  /\ call' = [c \in Calls |-> IF c = <<p, 0>> THEN "fail"
                              ELSE IF c \in BlocksOf(p) THEN "done" ELSE call[c]]
  /\ UNCHANGED <<request, asset, part, touches, Services>>

FailStatus(c) ==
  /\ call[c] = "fail"
  /\ CallGoes(c, "signal")
  /\ asset' = IF Deleted THEN asset ELSE [asset EXCEPT !.status = "failed"]
  /\ UNCHANGED <<request, part, failures, Services>>

FailSignal(c) ==
  /\ call[c] = "signal"
  /\ CallGoes(c, "delete")
  /\ asset' = IF Deleted THEN asset ELSE [asset EXCEPT !.signals = @ + 1]
  /\ UNCHANGED <<request, part, failures, Services>>

FailDelete(c) ==
  /\ call[c] = "delete"
  /\ CallGoes(c, "done")
  /\ request' = [request EXCEPT !.state = "deleted"]
  /\ UNCHANGED <<asset, part, failures, Services>>

\* The switch on m_stage.  The header is parsed at once: nobody else has the request.
Dispatch(c) ==
  /\ call[c] = "issued"
  /\ CallGoes(c, IF request.stage = "header" THEN "loop" ELSE "count")
  /\ request' = IF Deleted THEN request ELSE [request EXCEPT !.stage = "parts"]
  /\ UNCHANGED <<asset, part, failures, Services>>

-----------------------------------------------------------------------------
(* OnHeaderLoaded and OnHeadersLoaded: the loop over the parts.            *)

\* The texture's loop reads m_mipChains.size() of the request, the model's loop
\* counts in a local and needs the request for its parts only.
LoopEnds(c) ==
  /\ call[c] = "loop" /\ part = PartCount
  /\ touches' = IF Deleted /\ Texture THEN touches \union {"loop"} ELSE touches
  /\ call' = [call EXCEPT ![c] = "done"]
  /\ UNCHANGED <<request, asset, part, failures, Services>>

\* The part is read, or is what is left of the header's block.
ReadPart(c) ==
  /\ call[c] = "loop" /\ part < PartCount /\ ~Deleted
  /\ IF inHeader /\ part = 0
     THEN call' = [call EXCEPT ![c] = "count"] /\ UNCHANGED part
     ELSE /\ call' = [d \in Calls |-> IF d \in BlocksOf(part) THEN "issued" ELSE call[d]]
          /\ part' = part + 1
  /\ UNCHANGED <<request, asset, failures, touches, Services>>

\* The request was deleted by the failure of a part that was read before.
LoopStops(c) ==
  /\ call[c] = "loop" /\ part < PartCount /\ Deleted
  /\ touches' = touches \union {"loop"}
  /\ call' = [call EXCEPT ![c] = "stopped"]
  /\ UNCHANGED <<request, asset, part, failures, Services>>

-----------------------------------------------------------------------------
(* OnMipChainLoaded and OnLodDataLoaded.                                   *)

PartOf(c) == IF c = Header THEN part ELSE c[1]

\* The callback has done its part: a header goes on with its loop.
Over(c) == IF c = Header THEN "loop" ELSE "done"
PartAfter(c) == IF c = Header THEN part + 1 ELSE part

AnyBlock(p) == TRUE
NoBlock(p) == request.loadedBlocks[p] >= BlockCount[p]
IsLastBlock(p) == request.loadedBlocks[p] + 1 >= BlockCount[p]

CountBlock(c) ==
  LET p == PartOf(c)
  IN /\ call[c] = "count"
     /\ CallGoes(c, IF IsLastBlock(p) THEN "upload" ELSE Over(c))
     /\ request' = IF Deleted THEN request ELSE [request EXCEPT !.loadedBlocks[p] = @ + 1]
     /\ part' = IF IsLastBlock(p) \/ Deleted THEN part ELSE PartAfter(c)
     /\ UNCHANGED <<asset, failures, Services>>

\* ExecuteCommandList; the Invoke of a model is a command of the list.
Upload(c) ==
  LET p == PartOf(c)
  IN /\ call[c] = "upload"
     /\ CallGoes(c, IF Texture THEN "schedule" ELSE Over(c))
     /\ IF Deleted THEN UNCHANGED <<copies, upload, finisher>>
        ELSE /\ copies' = Append(copies, p)
             /\ upload' = [upload EXCEPT ![p] = "queued"]
             /\ finisher' = IF Texture THEN finisher ELSE [finisher EXCEPT ![p] = "waiting"]
     /\ UNCHANGED <<request, asset, part, failures, manager, inHeader, loader>>

\* The MipFinalizerJob is scheduled.
Schedule(c) ==
  /\ call[c] = "schedule"
  /\ finisher' = [finisher EXCEPT ![PartOf(c)] = "waiting"]
  /\ call' = [call EXCEPT ![c] = Over(c)]
  /\ part' = PartAfter(c)
  /\ UNCHANGED <<manager, inHeader, loader, request, asset, copies, upload, failures, touches>>

-----------------------------------------------------------------------------
(* The copy queue and the device.                                          *)

CallState == <<manager, inHeader, loader, call, part, failures>>

\* The first list that is in the state s; lists are handled in order.
IsFirst(p, s) ==
  \E i \in DOMAIN copies :
    /\ copies[i] = p /\ upload[p] = s
    /\ \A j \in 1 .. i - 1 : upload[copies[j]] # s

\* A list is recorded, its Invoke included, and then submitted.
Submit(p) ==
  /\ IsFirst(p, "queued")
  /\ Texture \/ finisher[p] \in {"done", "stopped"}
  /\ upload' = [upload EXCEPT ![p] = "submitted"]
  /\ UNCHANGED <<CallState, request, asset, copies, finisher, touches>>

Complete(p) ==
  /\ IsFirst(p, "submitted")
  /\ upload' = [upload EXCEPT ![p] = "completed"]
  /\ UNCHANGED <<CallState, request, asset, copies, finisher, touches>>

-----------------------------------------------------------------------------
(* MipFinalizerJob::Execute, and the function that Invoke runs.            *)

Finishing == {q \in Parts : finisher[q] \in {"signal", "delete", "tail", "last tail"}}

\* The upload is completed, or the copy thread records the list with the Invoke.
Ready(p) == finisher[p] = "waiting" /\ IF Texture THEN upload[p] = "completed" ELSE IsFirst(p, "queued")

\* m_loadedMipChainsMaskLock is held to the end of Execute; there is one copy thread.
MaskIgnored == TRUE
MaskUnlocked == Finishing = {}

AllLoadedEarly(loaded) == Cardinality(loaded) + 1 >= PartCount
AllLoaded(loaded) == Cardinality(loaded) = PartCount

\* The part is marked and the status stored.
Mark(p) ==
  LET loaded == request.loaded \union {p}
  IN /\ Ready(p) /\ MaskUnlocked
     /\ IF Deleted
        THEN /\ touches' = touches \union {"finisher"}
             /\ finisher' = [finisher EXCEPT ![p] = "stopped"]
             /\ UNCHANGED <<request, asset>>
        ELSE /\ request' = [request EXCEPT !.loaded = loaded]
             /\ asset' = [asset EXCEPT !.status =
                  IF AllLoaded(loaded) THEN "complete"
                  ELSE IF Cardinality(loaded) = 1 THEN "lods" ELSE @]
             /\ finisher' = [finisher EXCEPT ![p] =
                  IF AllLoaded(loaded) THEN "signal" ELSE IF Texture THEN "tail" ELSE "done"]
             /\ UNCHANGED touches
     /\ UNCHANGED <<CallState, copies, upload>>

FinisherGoes(p, label) ==
  /\ Touched("finisher")
  /\ finisher' = [finisher EXCEPT ![p] = IF Deleted THEN "stopped" ELSE label]

FinishSignal(p) ==
  /\ finisher[p] = "signal"
  /\ FinisherGoes(p, "delete")
  /\ asset' = IF Deleted THEN asset ELSE [asset EXCEPT !.signals = @ + 1]
  /\ UNCHANGED <<CallState, request, copies, upload>>

FinishDelete(p) ==
  /\ finisher[p] = "delete"
  /\ FinisherGoes(p, IF Texture THEN "last tail" ELSE "done")
  /\ request' = [request EXCEPT !.state = "deleted"]
  /\ UNCHANGED <<CallState, asset, copies, upload>>

\* Behind the branches Execute looks into the request again, and unlocks it.
Leave(p) ==
  /\ finisher[p] \in {"tail", "last tail"}
  /\ Touched(finisher[p])
  /\ finisher' = [finisher EXCEPT ![p] = "done"]
  /\ UNCHANGED <<CallState, request, asset, copies, upload>>

-----------------------------------------------------------------------------
CallStep(c) ==
  \/ Fails(c) \/ FailStatus(c) \/ FailSignal(c) \/ FailDelete(c) \/ Dispatch(c)
  \/ LoopEnds(c) \/ ReadPart(c) \/ LoopStops(c) \/ CountBlock(c) \/ Upload(c) \/ Schedule(c)

PartStep(p) ==
  Submit(p) \/ Complete(p) \/ Mark(p) \/ FinishSignal(p) \/ FinishDelete(p) \/ Leave(p)

\* The load is over: every thread that worked for it went home.
Stopped ==
  /\ loader = "done"
  /\ \A c \in Calls : call[c] \in {"none", "done", "stopped"}
  /\ \A p \in Parts : upload[p] \in {"none", "completed"} /\ finisher[p] \in {"none", "done", "stopped"}
  /\ UNCHANGED vars

Next ==
  \/ Load \/ LoadReturn \/ Stopped
  \/ \E c \in Calls : CallStep(c)
  \/ \E p \in Parts : PartFails(p) \/ PartStep(p)

\* The services and the device keep running; nothing makes a client call Load.
Spec ==
  /\ Init /\ [][Next]_vars
  /\ \A c \in Calls : WF_vars(CallStep(c))
  /\ \A p \in Parts : WF_vars(PartStep(p))

-----------------------------------------------------------------------------
TypeOK ==
  /\ manager \in {"texture", "model"} /\ inHeader \in BOOLEAN
  /\ loader \in {"none", "return", "done"}
  /\ request \in [state : {"none", "alive", "deleted"}, stage : {"header", "parts"},
                   loadedBlocks : [Parts -> Nat], loaded : SUBSET Parts]
  /\ asset \in [status : {"none", "lods", "complete", "failed"}, signals : Nat]
  /\ call \in [Calls -> {"none", "issued", "fail", "signal", "delete", "loop", "count", "upload",
                         "schedule", "done", "stopped"}]
  /\ part \in 0 .. PartCount
  /\ upload \in [Parts -> {"none", "queued", "submitted", "completed"}]
  /\ finisher \in [Parts -> {"none", "waiting", "signal", "delete", "tail", "last tail", "done", "stopped"}]
  /\ copies \in Seq(Parts) /\ failures \subseteq Calls

\* A part goes to the copy queue once, and with all of its blocks, whatever
\* fails beside it.
UploadedWhole ==
  /\ IsInjective(copies)
  /\ \A p \in Parts : upload[p] # "none" => request.loadedBlocks[p] = BlockCount[p]

\* The load that nothing fails signals its group once, when its last part is
\* done: the device has completed every mip chain of a texture, and the copy
\* thread has recorded every LOD of a model, which may not be on the device yet.
\* A texture that shows mip chains shows completed ones.  Nothing is claimed of
\* the signals after a failure.
LoadedIsUploaded ==
  failures = {} =>
    /\ Texture /\ asset.status \in {"lods", "complete"} =>
         request.loaded # {} /\ \A p \in request.loaded : upload[p] = "completed"
    /\ asset.signals > 0 => asset.signals = 1 /\ asset.status = "complete"
    /\ asset.status = "complete" \/ asset.signals > 0 => request.loaded = Parts

AssetState == TypeOK /\ UploadedWhole /\ LoadedIsUploaded

\* Unless a block fails, a request is deleted when all work on it is over; the
\* exceptions are Load's own last line, the last test of the texture's loop and
\* the tail of the job that deletes.  A header that fails is no exception.
RequestOutlivesItsUsers ==
  failures \subseteq {Header} =>
    touches \subseteq IF Texture THEN {"return", "loop", "last tail"} ELSE {"return"}

\* Every load ends: the completion group is signalled, whatever fails.
LoadCompletes == request.state = "alive" ~> asset.signals > 0

\* What the code does not keep.  A model's part is on the device when the model
\* shows it; a signalled load has its last status; it is signalled once; its
\* request is never accessed after the deletion.
ModelIsUploaded == ~Texture => \A p \in request.loaded : upload[p] = "completed"
SignaledIsFinal == asset.signals > 0 => asset.status \in {"complete", "failed"}
SignaledOnce == asset.signals <= 1
NeverTouched == touches = {}
=============================================================================
