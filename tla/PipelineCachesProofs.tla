------------------------- MODULE PipelineCachesProofs -------------------------
(***************************************************************************)
(* Whoever waits for a shader or a pipeline finds its result, and a source *)
(* that could be read is found when it is compiled, for any number of      *)
(* files, shaders, pipelines and clients, whoever shares what.             *)
(***************************************************************************)
EXTENDS PipelineCaches, FiniteSetTheorems, TLAPS

-----------------------------------------------------------------------------
(* The invariant.                                                          *)

\* The reads that were counted and have not counted down yet.
Outstanding == {s \in Shaders : file[s] \in {"reading", "inserted", "failed"}}

\* The constructor spins on their number, and it leaves the traversal when every
\* file was found: a cache that is loaded has the outcome of every file.
FilesCounted ==
  /\ loadingTasks = Cardinality(Outstanding)
  /\ cache # "traverse" => \A s \in Shaders : file[s] # "unread"
  /\ cache = "loaded" => loadingTasks = 0
  /\ \A s \in Shaders : file[s] = "loaded" => s \in filesMap

\* Nothing is compiled before.
CompiledWhenLoaded ==
  /\ \A p \in Pipelines : job[p].at # "none" => cache = "loaded"
  /\ \A s \in Shaders : task[s] # "none" => cache = "loaded"

\* A client between two steps of a creation has a pipeline of the map in hand.
CreatesListed ==
  \A c \in Clients : client[c].at \in {"schedule", "set group"} =>
    More(c) /\ Wanted(c) \in pipelinesMap

\* A shader has one task, which begins when the shader is listed and makes the
\* module before it reflects.
OneTaskEach ==
  \A s \in Shaders :
    /\ task[s] # "none" => s \in shadersMap
    /\ task[s] = "reflect" => s \in modules

\* A job that built its pipeline has given it a status, if the program goes on.
BuiltHasStatus ==
  \A p \in Pipelines : job[p].at = "built" /\ Running => status[p] # "not ready"

\* A job looks at its own shaders only.
JobInRange == \A p \in Pipelines : job[p].index <= Len(ShadersOf[p]) + 1

IInv ==
  /\ CachesResolved /\ FilesCounted /\ CompiledWhenLoaded /\ CreatesListed
  /\ OneTaskEach /\ BuiltHasStatus /\ JobInRange

-----------------------------------------------------------------------------
(* The number of outstanding reads.                                        *)

\* One more read is counted, or one of them is over: the set changes by one shader.
LEMMA Counted ==
  ASSUME NEW S, IsFiniteSet(S), NEW x
  PROVE  /\ x \notin S => Cardinality(S \union {x}) = Cardinality(S) + 1
         /\ x \in S => Cardinality(S \ {x}) = Cardinality(S) - 1
         /\ Cardinality(S) \in Nat
         /\ Cardinality(S) = 0 => S = {}
BY FS_AddElement, FS_RemoveElement, FS_CardinalityType, FS_EmptySet

\* There are finitely many file requests.
LEMMA OutstandingFinite == IsFiniteSet(Outstanding)
BY FS_Subset, CachesAssumption DEF Outstanding

\* No read is outstanding when the caches are used.
LEMMA LoadedIsComplete ==
  ASSUME IInv, cache = "loaded", NEW s \in Shaders
  PROVE  file[s] \in {"loaded", "missing"}
<1>1. Outstanding = {}
  BY OutstandingFinite, Counted DEF IInv, FilesCounted
<1>2. file[s] \in {"unread", "reading", "inserted", "failed", "loaded", "missing"}
  BY DEF IInv, CachesResolved, TypeOK
<1>3. file[s] # "unread"
  BY DEF IInv, FilesCounted
<1> QED
  BY <1>1, <1>2, <1>3 DEF Outstanding

-----------------------------------------------------------------------------
\* The caches start in the invariant.
LEMMA InitIInv == Init => IInv
<1> SUFFICES ASSUME Init PROVE IInv
  OBVIOUS
<1>1. Outstanding = {}
  BY DEF Init, Outstanding
<1>2. FilesCounted
  BY <1>1, FS_EmptySet DEF Init, FilesCounted
<1>3. TypeOK
  <2>1. /\ client \in [Clients -> [at : {"create", "schedule", "set group", "wait"}, index : Nat \ {0}]]
        /\ job \in [Pipelines -> [at : {"none", "shaders", "wait", "built", "signaled"}, index : Nat \ {0}]]
    <3>1. 1 \in Nat \ {0}
      OBVIOUS
    <3> QED
      BY <3>1 DEF Init
  <2> QED
    BY <2>1 DEF Init, TypeOK
<1>4. SignaledIsResolved /\ SourceIsFound
  BY DEF Init, SignaledIsResolved, SourceIsFound
<1>5. JobInRange
  <2>1. \A p \in Pipelines : job[p].index = 1
    BY DEF Init
  <2>2. \A p \in Pipelines : Len(ShadersOf[p]) \in Nat
    BY CachesAssumption
  <2> QED
    BY <2>1, <2>2 DEF JobInRange
<1> QED
  BY <1>2, <1>3, <1>4, <1>5
  DEF Init, IInv, CachesResolved, CompiledWhenLoaded, CreatesListed, OneTaskEach, BuiltHasStatus

-----------------------------------------------------------------------------
(* The source cache.                                                       *)

\* What a step of the source cache leaves alone.
LEMMA UnloadedKept ==
  ASSUME IInv, UNCHANGED Unloaded, cache = "loaded" => cache' = "loaded",
         loadingTasks = 0 /\ cache = "loaded" => loadingTasks' = 0,
         FilesCounted',
         cache' \in {"traverse", "spin", "loaded"},
         file' \in [Shaders -> {"unread", "reading", "inserted", "failed", "loaded", "missing"}],
         filesMap' \subseteq Shaders,
         \A s \in Shaders : file[s] = "missing" => file'[s] = "missing"
  PROVE  IInv'
<1> USE DEF IInv, CachesResolved, TypeOK, Unloaded, clientVars, shaderVars
<1>1. loadingTasks' \in Nat
  <2>1. IsFiniteSet(Outstanding')
    BY FS_Subset, CachesAssumption DEF Outstanding
  <2> QED
    BY <2>1, FS_CardinalityType DEF FilesCounted
<1>2. TypeOK'
  BY <1>1
<1>3. SignaledIsResolved'
  BY DEF SignaledIsResolved
<1>4. SourceIsFound' /\ CompiledWhenLoaded'
  BY DEF SourceIsFound, CompiledWhenLoaded
<1>5. CreatesListed' /\ OneTaskEach' /\ BuiltHasStatus' /\ JobInRange'
  BY DEF CreatesListed, OneTaskEach, BuiltHasStatus, JobInRange, More, Wanted, Running
<1> QED
  BY <1>2, <1>3, <1>4, <1>5

\* What the shader source cache and the file reader do keeps the invariant.
LEMMA SourceIInv ==
  ASSUME IInv, CacheStep \/ \E s \in Shaders : FileStep(s) PROVE IInv'
<1> USE DEF IInv, CachesResolved, TypeOK, FilesCounted
<1>1. CASE Traversed
  <2>1. UNCHANGED <<Outstanding, Unloaded>> /\ FilesCounted'
    BY <1>1 DEF Traversed, Outstanding, Unloaded
  <2> QED
    BY <1>1, <2>1, UnloadedKept DEF Traversed
<1>2. CASE SpinEnds
  <2>1. UNCHANGED <<Outstanding, Unloaded>> /\ FilesCounted'
    BY <1>2 DEF SpinEnds, Outstanding, Unloaded
  <2> QED
    BY <1>2, <2>1, UnloadedKept DEF SpinEnds
<1>3. ASSUME NEW s \in Shaders, FileFound(s) PROVE IInv'
  <2>1. Outstanding' = Outstanding \union {s} /\ s \notin Outstanding
    BY <1>3 DEF FileFound, Outstanding
  <2>2. FilesCounted'
    BY <1>3, <2>1, OutstandingFinite, Counted DEF FileFound
  <2> QED
    BY <1>3, <2>2, UnloadedKept DEF FileFound
<1>4. ASSUME NEW s \in Shaders, FileFails(s) PROVE IInv'
  <2>1. Outstanding' = Outstanding
    BY <1>4 DEF FileFails, Outstanding
  <2>2. FilesCounted'
    BY <1>4, <2>1 DEF FileFails
  <2> QED
    BY <1>4, <2>2, UnloadedKept DEF FileFails
<1>5. ASSUME NEW s \in Shaders, FileInserted(s) PROVE IInv'
  <2>1. Outstanding' = Outstanding
    BY <1>5 DEF FileInserted, Outstanding
  <2>2. FilesCounted'
    BY <1>5, <2>1 DEF FileInserted
  <2> QED
    BY <1>5, <2>2, UnloadedKept DEF FileInserted
<1>6. ASSUME NEW s \in Shaders, CountDown(s) PROVE IInv'
  <2>1. Outstanding' = Outstanding \ {s} /\ s \in Outstanding
    BY <1>6 DEF CountDown, MayCountDown, Outstanding
  <2>2. cache # "loaded"
    BY <2>1, LoadedIsComplete DEF Outstanding
  <2>3. FilesCounted'
    BY <1>6, <2>1, <2>2, OutstandingFinite, Counted DEF CountDown, MayCountDown
  <2> QED
    BY <1>6, <2>2, <2>3, UnloadedKept DEF CountDown, MayCountDown
<1> QED
  BY <1>1, <1>2, <1>3, <1>4, <1>5, <1>6 DEF CacheStep, FileStep

-----------------------------------------------------------------------------
(* Clients, jobs and tasks leave the source cache alone.                   *)

\* What leaves the source cache alone keeps its count.
LEMMA SourceKept == IInv /\ UNCHANGED sourceVars => FilesCounted'
BY DEF IInv, FilesCounted, Outstanding, sourceVars

\* Where a job is after it moved on, or to its next shader.
JobTypes ==
  [Pipelines -> [at : {"none", "shaders", "wait", "built", "signaled"}, index : Nat \ {0}]]

\* What a step of a pipeline's job changes in the jobs.
LEMMA JobMoves ==
  ASSUME job \in JobTypes, NEW p \in Pipelines,
         NEW label \in {"none", "shaders", "wait", "built", "signaled"}
  PROVE  /\ JobGoes(p, label) =>
              /\ job' \in JobTypes /\ job'[p].at = label /\ job'[p].index = 1
              /\ \A q \in Pipelines \ {p} : job'[q] = job[q]
         /\ NextShader(p) =>
              /\ job' \in JobTypes /\ job'[p].at = job[p].at /\ job'[p].index = job[p].index + 1
              /\ \A q \in Pipelines \ {p} : job'[q] = job[q]
BY DEF JobTypes, JobGoes, NextShader

ClientTypes == [Clients -> [at : {"create", "schedule", "set group", "wait"}, index : Nat \ {0}]]

\* Where a client is after it moved on.
LEMMA ClientMoves ==
  ASSUME client \in ClientTypes, NEW c \in Clients,
         NEW label \in {"create", "schedule", "set group", "wait"}, NEW index \in Nat \ {0},
         client' = [client EXCEPT ![c] = [at |-> label, index |-> index]]
  PROVE  /\ client' \in ClientTypes /\ client'[c].at = label /\ client'[c].index = index
         /\ \A d \in Clients \ {c} : client'[d] = client[d]
BY DEF ClientTypes

\* Where a client is in the creation of one pipeline.
LEMMA ClientGoesOn ==
  ASSUME client \in ClientTypes, NEW c \in Clients,
         NEW label \in {"create", "schedule", "set group", "wait"},
         client' = [client EXCEPT ![c].at = label]
  PROVE  /\ client' \in ClientTypes /\ client'[c].at = label
         /\ client'[c].index = client[c].index
         /\ \A d \in Clients \ {c} : client'[d] = client[d]
BY DEF ClientTypes

\* A client that asks for more asks for a pipeline.
LEMMA WantedPipeline ==
  ASSUME NEW c \in Clients, More(c), client \in ClientTypes PROVE Wanted(c) \in Pipelines
<1>1. Wants[c] \in Seq(Pipelines) /\ client[c].index \in Nat \ {0}
  BY CachesAssumption DEF ClientTypes
<1> QED
  BY <1>1 DEF More, Wanted

\* What a client of the cache does keeps the invariant.
LEMMA ClientIInv == ASSUME IInv, NEW c \in Clients, ClientStep(c) PROVE IInv'
<1> USE DEF At, Advance
<1>1. UNCHANGED sourceVars /\ UNCHANGED shaderVars /\ UNCHANGED status
  BY DEF ClientStep, CreateFinds, CreateInserts, CreateSchedules, SetCompletionWaitGroup,
         Compiled, WaitForPipeline
<1>2. FilesCounted'
  BY <1>1, SourceKept
<1>3. cache = "loaded" /\ Running
  BY DEF ClientStep, CreateFinds, CreateInserts, CreateSchedules, SetCompletionWaitGroup,
         Compiled, WaitForPipeline
<1>4. client \in ClientTypes /\ job \in JobTypes /\ TypeOK
  BY DEF IInv, CachesResolved, TypeOK, ClientTypes, JobTypes
<1>5. More(c) => Wanted(c) \in Pipelines
  BY <1>4, WantedPipeline
\* A pipeline of the map stays there; the client has one in hand when it goes on.
<1>6. /\ pipelinesMap \subseteq pipelinesMap' /\ pipelinesMap' \subseteq Pipelines
      /\ hasGroup' \subseteq pipelinesMap'
      /\ client' \in ClientTypes /\ \A d \in Clients \ {c} : client'[d] = client[d]
      /\ client'[c].at \in {"schedule", "set group"} =>
           More(c) /\ client'[c].index = client[c].index /\ Wanted(c) \in pipelinesMap'
  <2> DEFINE Goes(label, index) == client' = [client EXCEPT ![c] = [at |-> label, index |-> index]]
  <2>before. client[c].index \in Nat \ {0}
    BY <1>4 DEF ClientTypes
  <2>1. client[c].index + 1 \in Nat \ {0}
    BY <2>before
  <2>2. CASE CreateFinds(c) \/ (WaitForPipeline(c) /\ UNCHANGED fault)
    <3>1. Goes(client[c].at, client[c].index + 1) /\ UNCHANGED <<pipelinesMap, hasGroup>>
      BY <2>2, <1>3 DEF CreateFinds, WaitForPipeline, Running
    <3>2. client[c].at \in {"create", "wait"}
      BY <2>2 DEF CreateFinds, WaitForPipeline
    <3> QED
      BY <1>4, <2>1, <3>1, <3>2, ClientMoves DEF TypeOK
  <2>3. CASE CreateInserts(c)
    <3>1. client' = [client EXCEPT ![c].at = "schedule"]
      BY <2>3 DEF CreateInserts
    <3>2. /\ client' \in ClientTypes /\ client'[c].index = client[c].index
          /\ \A d \in Clients \ {c} : client'[d] = client[d]
      BY <1>4, <3>1, ClientGoesOn
    <3>3. More(c) /\ pipelinesMap' = pipelinesMap \union {Wanted(c)} /\ UNCHANGED hasGroup
      BY <2>3 DEF CreateInserts
    <3>4. pipelinesMap \subseteq Pipelines /\ hasGroup \subseteq pipelinesMap
      BY <1>4 DEF TypeOK
    <3> QED
      BY <1>5, <3>2, <3>3, <3>4
  <2>4. CASE CreateSchedules(c)
    BY <1>4, <2>4 DEF CreateSchedules, IInv, CreatesListed, ClientTypes, TypeOK
  <2>5. CASE SetCompletionWaitGroup(c)
    <3>1. Goes("create", client[c].index + 1)
      BY <2>5 DEF SetCompletionWaitGroup
    <3>2. /\ client' \in ClientTypes /\ client'[c].at = "create"
          /\ \A d \in Clients \ {c} : client'[d] = client[d]
      BY <1>4, <2>1, <3>1, ClientMoves
    <3>3. Wanted(c) \in pipelinesMap
      BY <2>5 DEF SetCompletionWaitGroup, IInv, CreatesListed
    <3>4. hasGroup' = hasGroup \union {Wanted(c)} /\ UNCHANGED pipelinesMap
      BY <2>5 DEF SetCompletionWaitGroup
    <3>5. pipelinesMap \subseteq Pipelines /\ hasGroup \subseteq pipelinesMap
      BY <1>4 DEF TypeOK
    <3> QED
      BY <3>2, <3>3, <3>4, <3>5
  <2>6. CASE Compiled(c)
    <3>1. Goes("wait", 1)
      BY <2>6 DEF Compiled
    <3>2. /\ client' \in ClientTypes /\ client'[c].at = "wait"
          /\ \A d \in Clients \ {c} : client'[d] = client[d]
      <4>1. 1 \in Nat \ {0}
        OBVIOUS
      <4> QED
        BY <1>4, <3>1, <4>1, ClientMoves
    <3> QED
      BY <1>4, <2>6, <3>2 DEF Compiled, TypeOK
  <2>7. CASE WaitForPipeline(c) /\ UNCHANGED client
    BY <1>4, <2>7 DEF WaitForPipeline, TypeOK
  <2> QED
    BY <2>2, <2>3, <2>4, <2>5, <2>6, <2>7 DEF ClientStep, WaitForPipeline
<1>7. CreatesListed'
  BY <1>6 DEF CreatesListed, IInv, More, Wanted
\* A job that is scheduled begins to ask for its shaders.
<1>8. /\ job' \in JobTypes
      /\ \A p \in Pipelines : /\ job'[p].at = job[p].at \/ job'[p].at = "shaders"
                              /\ job'[p].index = job[p].index
  <2>1. CASE CreateSchedules(c)
    BY <2>1, <1>4 DEF CreateSchedules, JobTypes
  <2>2. CASE UNCHANGED job
    BY <2>2, <1>4
  <2> QED
    BY <2>1, <2>2 DEF ClientStep, CreateFinds, CreateInserts, SetCompletionWaitGroup, Compiled,
       WaitForPipeline
<1>9. TypeOK'
  BY <1>1, <1>4, <1>6, <1>8 DEF TypeOK, ClientTypes, JobTypes, sourceVars, shaderVars
<1>10. SignaledIsResolved' /\ BuiltHasStatus' /\ JobInRange'
  BY <1>1, <1>3, <1>8 DEF SignaledIsResolved, BuiltHasStatus, JobInRange, Running, IInv,
     CachesResolved, shaderVars
<1>11. SourceIsFound' /\ CompiledWhenLoaded' /\ OneTaskEach'
  BY <1>1, <1>3 DEF SourceIsFound, CompiledWhenLoaded, OneTaskEach, IInv, CachesResolved,
     sourceVars, shaderVars
<1> QED
  BY <1>2, <1>7, <1>9, <1>10, <1>11 DEF IInv, CachesResolved

\* A job looks at the shaders of its pipeline.
LEMMA ShaderOfPipeline ==
  ASSUME NEW p \in Pipelines, job \in JobTypes
  PROVE  /\ Len(ShadersOf[p]) \in Nat /\ DOMAIN ShadersOf[p] = 1 .. Len(ShadersOf[p])
         /\ \A i \in DOMAIN ShadersOf[p] : ShadersOf[p][i] \in Shaders
         /\ job[p].index \in Nat \ {0}
         /\ MoreShaders(p) => job[p].index \in DOMAIN ShadersOf[p] /\ ShaderOf(p) \in Shaders
<1>1. ShadersOf[p] \in Seq(Shaders)
  BY CachesAssumption
<1>2. job[p].index \in Nat \ {0}
  BY DEF JobTypes
<1> QED
  BY <1>1, <1>2 DEF MoreShaders, ShaderOf

\* What the job of a pipeline does keeps the invariant.
LEMMA JobIInv == ASSUME IInv, NEW p \in Pipelines, JobStep(p) PROVE IInv'
<1> USE DEF JobAt
<1>1. UNCHANGED sourceVars /\ UNCHANGED clientVars /\ UNCHANGED <<modules, reflections>>
  BY DEF JobStep, GetShader, ShadersListed, WaitForShader, Built, JobSignaled, shaderVars
<1>2. FilesCounted' /\ CreatesListed'
  BY <1>1, SourceKept DEF CreatesListed, More, Wanted, clientVars, IInv
<1>3. cache = "loaded" /\ loadingTasks = 0 /\ Running
  BY DEF JobStep, GetShader, ShadersListed, WaitForShader, Built, JobSignaled, IInv,
         CompiledWhenLoaded, FilesCounted
<1>4. job \in JobTypes /\ TypeOK
  BY DEF IInv, CachesResolved, TypeOK, JobTypes
<1>5. job' \in JobTypes /\ \A q \in Pipelines \ {p} : job'[q] = job[q]
  BY <1>4, JobMoves DEF JobStep, GetShader, ShadersListed, WaitForShader, Built, JobSignaled
\* A task that began goes on as it was, and is that of a listed shader.
<1>6. /\ task' \in [Shaders -> {"none", "scheduled", "invalid", "not found", "reflect",
                                "reflected", "signaled"}]
      /\ shadersMap' \subseteq Shaders
      /\ \A s \in Shaders :
           /\ task'[s] = task[s] \/ (task[s] = "none" /\ task'[s] = "scheduled")
           /\ task'[s] # "none" => s \in shadersMap'
  <2>1. CASE GetShader(p)
    <3>1. ShaderOf(p) \in Shaders
      BY <1>4, <2>1, ShaderOfPipeline DEF GetShader
    <3>2. CASE ShaderOf(p) \in shadersMap
      <4>1. UNCHANGED <<shadersMap, task>>
        BY <2>1, <3>2 DEF GetShader
      <4> QED
        BY <1>4, <4>1 DEF TypeOK, IInv, OneTaskEach
    <3>3. CASE ShaderOf(p) \notin shadersMap
      <4>1. /\ shadersMap' = shadersMap \union {ShaderOf(p)}
            /\ task' = [task EXCEPT ![ShaderOf(p)] = "scheduled"]
        BY <2>1, <3>3 DEF GetShader
      <4>2. /\ task \in [Shaders -> {"none", "scheduled", "invalid", "not found", "reflect",
                                      "reflected", "signaled"}]
            /\ shadersMap \subseteq Shaders
        BY <1>4 DEF TypeOK
      <4>3. \A s \in Shaders : task[s] # "none" => s \in shadersMap
        BY DEF IInv, OneTaskEach
      <4> QED
        BY <3>1, <3>3, <4>1, <4>2, <4>3
    <3> QED
      BY <3>2, <3>3
  <2>2. CASE UNCHANGED <<shadersMap, task>>
    BY <1>4, <2>2 DEF TypeOK, IInv, OneTaskEach
  <2> QED
    BY <2>1, <2>2 DEF JobStep, ShadersListed, WaitForShader, Built, JobSignaled, shaderVars
<1>7. /\ status' \in [Pipelines -> {"not ready", "ready", "error"}]
      /\ \A q \in Pipelines \ {p} : status'[q] = status[q]
      /\ status[p] # "not ready" => status'[p] # "not ready"
  BY <1>4 DEF TypeOK, JobStep, GetShader, ShadersListed, WaitForShader, Built, JobSignaled
<1>8. TypeOK'
  BY <1>1, <1>4, <1>5, <1>6, <1>7 DEF TypeOK, JobTypes, sourceVars, clientVars
<1>9. SourceIsFound' /\ OneTaskEach'
  BY <1>1, <1>3, <1>6 DEF SourceIsFound, OneTaskEach, IInv, CachesResolved, sourceVars
<1>10. CompiledWhenLoaded'
  BY <1>1, <1>3 DEF CompiledWhenLoaded, sourceVars
<1>types. /\ \A q \in Pipelines : Len(ShadersOf[q]) \in Nat /\ job[q].index \in Nat
      /\ \A q \in Pipelines : \A i \in 1 .. Len(ShadersOf[q]) : ShadersOf[q][i] \in Shaders
  BY <1>4, ShaderOfPipeline
<1>range. JobInRange'
  <2>1. job'[p].index \in {1, job[p].index} \/ (MoreShaders(p) /\ job'[p].index = job[p].index + 1)
    BY <1>4, JobMoves DEF JobStep, GetShader, ShadersListed, WaitForShader, Built, JobSignaled
  <2> QED
    BY <1>5, <1>types, <2>1 DEF JobInRange, MoreShaders, IInv
\* What was signalled for a wait still is.
<1>kept. \A q \in Pipelines : job[q].at = "wait" =>
        \A i \in 1 .. job[q].index - 1 : task'[ShadersOf[q][i]] = "signaled"
  <2> SUFFICES ASSUME NEW q \in Pipelines, job[q].at = "wait", NEW i \in 1 .. job[q].index - 1
               PROVE  task'[ShadersOf[q][i]] = "signaled"
    OBVIOUS
  <2>1. ShadersOf[q][i] \in Shaders
    <3>1. job[q].index <= Len(ShadersOf[q]) + 1
      BY DEF IInv, JobInRange
    <3> QED
      BY <3>1, <1>types
  <2>2. task[ShadersOf[q][i]] = "signaled"
    BY DEF IInv, CachesResolved, SignaledIsResolved
  <2> QED
    BY <1>6, <2>1, <2>2
\* The waits of the other jobs are as they were.
<1>11. \A q \in Pipelines \ {p} :
         /\ job'[q].at = "signaled" => status'[q] # "not ready"
         /\ status'[q] = "ready" => \A i \in DOMAIN ShadersOf[q] : ShadersOf[q][i] \in reflections'
         /\ job'[q].at = "wait" => \A i \in 1 .. job'[q].index - 1 : task'[ShadersOf[q][i]] = "signaled"
         /\ job'[q].at = "built" /\ Running' => status'[q] # "not ready"
  <2> TAKE q \in Pipelines \ {p}
  <2>1. job'[q] = job[q] /\ status'[q] = status[q] /\ reflections' = reflections
    BY <1>1, <1>5, <1>7
  <2>2. job'[q].at = "wait" => \A i \in 1 .. job'[q].index - 1 : task'[ShadersOf[q][i]] = "signaled"
    BY <2>1, <1>kept
  <2> QED
    BY <2>1, <2>2, <1>3 DEF IInv, CachesResolved, SignaledIsResolved, BuiltHasStatus, Running
<1>12. /\ job'[p].at = "signaled" => status'[p] # "not ready"
       /\ status'[p] = "ready" => \A i \in DOMAIN ShadersOf[p] : ShadersOf[p][i] \in reflections'
       /\ job'[p].at = "wait" => \A i \in 1 .. job'[p].index - 1 : task'[ShadersOf[p][i]] = "signaled"
       /\ job'[p].at = "built" /\ Running' => status'[p] # "not ready"
  <2>before. /\ job[p].at = "signaled" => status[p] # "not ready"
        /\ status[p] = "ready" => \A i \in DOMAIN ShadersOf[p] : ShadersOf[p][i] \in reflections
    BY DEF IInv, CachesResolved, SignaledIsResolved
  <2>1. CASE GetShader(p)
    BY <1>1, <1>4, <2>1, <2>before, JobMoves DEF GetShader
  <2>2. CASE ShadersListed(p)
    <3>1. job'[p].at = "wait" /\ job'[p].index = 1 /\ UNCHANGED status
      BY <1>4, <2>2, JobMoves DEF ShadersListed
    <3>2. \A i \in 1 .. job'[p].index - 1 : FALSE
      BY <3>1
    <3> QED
      BY <1>1, <2>before, <3>1, <3>2
  <2>3. CASE WaitForShader(p)
    <3>1. job'[p].at = "wait" /\ job'[p].index = job[p].index + 1 /\ job[p].index \in Nat
      BY <1>4, <2>3, JobMoves, ShaderOfPipeline DEF WaitForShader
    <3>2. task[ShadersOf[p][job[p].index]] = "signaled" /\ UNCHANGED <<task, status>>
      BY <2>3 DEF WaitForShader, IsCompleted, ShaderOf, shaderVars
    <3>3. \A i \in 1 .. job'[p].index - 1 : task'[ShadersOf[p][i]] = "signaled"
      <4> TAKE i \in 1 .. job'[p].index - 1
      <4>1. i \in 1 .. job[p].index - 1 \/ i = job[p].index
        BY <3>1
      <4>2. job[p].at = "wait"
        BY <2>3 DEF WaitForShader
      <4>3. i \in 1 .. job[p].index - 1 => task'[ShadersOf[p][i]] = "signaled"
        BY <4>2, <1>kept
      <4> QED
        BY <3>2, <4>1, <4>3
    <3> QED
      BY <1>1, <2>3, <2>before, <3>1, <3>2, <3>3 DEF WaitForShader
  <2>4. CASE Built(p)
    <3>1. job'[p].at = "built"
      BY <1>4, <2>4, JobMoves DEF Built
    <3>2. status[p] \in {"not ready", "ready", "error"} /\ status \in [Pipelines -> {"not ready", "ready", "error"}]
      BY <1>4 DEF TypeOK
    <3> QED
      BY <1>1, <2>4, <2>before, <3>1, <3>2 DEF Built, Running
  <2>5. CASE JobSignaled(p)
    BY <1>1, <1>4, <2>5, <2>before, JobMoves DEF JobSignaled, BuiltHasStatus, IInv
  <2> QED
    BY <2>1, <2>2, <2>3, <2>4, <2>5 DEF JobStep
<1>13. SignaledIsResolved' /\ BuiltHasStatus'
  BY <1>11, <1>12 DEF SignaledIsResolved, BuiltHasStatus
<1> QED
  BY <1>2, <1>8, <1>9, <1>10, <1>13, <1>range DEF IInv, CachesResolved

\* What the compilation of a shader does keeps the invariant.
LEMMA TaskIInv == ASSUME IInv, NEW s \in Shaders, TaskStep(s) PROVE IInv'
<1> USE DEF TaskAt, TaskGoes
<1>1. UNCHANGED <<sourceVars, clientVars, job, status, shadersMap, fault>>
  BY DEF TaskStep, CompileFails, CreateShaderModule, Reflect, TaskSignaled
<1>2. FilesCounted'
  BY <1>1, SourceKept
<1>3. cache = "loaded" /\ loadingTasks = 0 /\ task[s] \notin {"none", "signaled"}
  BY DEF TaskStep, CompileFails, CreateShaderModule, Reflect, TaskSignaled, IInv,
         CompiledWhenLoaded, FilesCounted
<1>4. \A x \in Shaders : x # s => task'[x] = task[x]
  BY DEF TaskStep, CompileFails, CreateShaderModule, Reflect, TaskSignaled, IInv,
         CachesResolved, TypeOK
<1>5. TypeOK'
  BY <1>1 DEF TaskStep, CompileFails, CreateShaderModule, Reflect, TaskSignaled, OneTaskEach, IInv,
         CachesResolved, TypeOK, sourceVars, clientVars
<1>6. OneTaskEach' /\ reflections \subseteq reflections'
  BY <1>1, <1>3, <1>4 DEF TaskStep, CompileFails, CreateShaderModule, Reflect, TaskSignaled,
     OneTaskEach, IInv, CachesResolved, TypeOK
<1>7. SourceIsFound'
  <2>1. task'[s] = "not found" => s \notin filesMap \/ task[s] = "not found"
    BY DEF TaskStep, CompileFails, CreateShaderModule, Reflect, TaskSignaled, IInv, CachesResolved,
       TypeOK
  <2>2. file[s] \in {"loaded", "missing"}
    BY <1>3, LoadedIsComplete
  <2>3. task'[s] = "not found" => file[s] = "missing"
    BY <2>1, <2>2 DEF IInv, FilesCounted, CachesResolved, SourceIsFound
  <2> QED
    BY <1>1, <1>3, <1>4, <2>3 DEF SourceIsFound, IInv, CachesResolved, sourceVars
<1>8. SignaledIsResolved'
  <2>1. \A x \in Shaders : task[x] = "signaled" => task'[x] = "signaled"
    BY <1>3, <1>4
  <2>2. \A p \in Pipelines : job[p].at = "wait" =>
          \A i \in 1 .. job[p].index - 1 : task'[ShadersOf[p][i]] = "signaled"
    <3>1. job \in JobTypes
      BY DEF IInv, CachesResolved, TypeOK, JobTypes
    <3>2. \A p \in Pipelines : \A i \in 1 .. job[p].index - 1 : ShadersOf[p][i] \in Shaders
      BY <3>1, ShaderOfPipeline DEF IInv, JobInRange
    <3> QED
      BY <2>1, <3>2 DEF SignaledIsResolved, IInv, CachesResolved
  <2> QED
    BY <1>1, <1>6, <2>2 DEF SignaledIsResolved, IInv, CachesResolved
<1>9. CompiledWhenLoaded' /\ CreatesListed' /\ BuiltHasStatus' /\ JobInRange'
  BY <1>1, <1>3 DEF CompiledWhenLoaded, CreatesListed, BuiltHasStatus, JobInRange, More, Wanted, Running,
     IInv, sourceVars, clientVars
<1> QED
  BY <1>2, <1>5, <1>6, <1>7, <1>8, <1>9 DEF IInv, CachesResolved

\* Every step keeps the invariant.
LEMMA NextIInv == IInv /\ [Next]_vars => IInv'
<1>1. ASSUME IInv, Stopped \/ UNCHANGED vars PROVE IInv'
  <2>1. UNCHANGED <<sourceVars, clientVars, job, status, shaderVars, fault>>
    BY <1>1 DEF Stopped, vars
  <2>2. CachesResolved'
    BY <1>1, <2>1 DEF IInv, CachesResolved, TypeOK, SignaledIsResolved, SourceIsFound, sourceVars,
       clientVars, shaderVars
  <2>3. FilesCounted'
    BY <1>1, <2>1, SourceKept
  <2> QED
    BY <1>1, <2>1, <2>2, <2>3 DEF IInv, CompiledWhenLoaded, CreatesListed, More, Wanted,
       OneTaskEach, BuiltHasStatus, JobInRange, Running, sourceVars, clientVars, shaderVars
<1> QED
  BY <1>1, SourceIInv, ClientIInv, JobIInv, TaskIInv DEF Next

-----------------------------------------------------------------------------
\* The invariant holds in every state of the caches.
THEOREM CachesInvariant == Spec => []IInv
BY InitIInv, NextIInv, PTL DEF Spec

\* When a completion group is signalled, its shader or pipeline has its result,
\* and a job looks a source up only when every read is over.
THEOREM CachesSafety == Spec => []CachesResolved
<1>1. IInv => CachesResolved
  BY DEF IInv
<1> QED
  BY <1>1, CachesInvariant, PTL
=============================================================================
