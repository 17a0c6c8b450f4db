---------------------------- MODULE PipelineCaches ----------------------------
(***************************************************************************)
(* The caches that a pipeline passes through.  ShaderSourceCache reads all *)
(* shader files when it is constructed and waits for them; ShaderLibrary   *)
(* compiles a shader in a job the first time it is asked for; and          *)
(* PipelineFactory makes a pipeline in a job that asks for its shaders and *)
(* waits for them.  Clients compile their variant sets, then wait for the  *)
(* completion groups of what they were given.                              *)
(*                                                                         *)
(* What runs under m_lock is one step.  A scheduled job runs some time and *)
(* its group is signalled after Execute, as module JobSystem shows.  The   *)
(* program ends where it would use a null pointer (fault).  The answers of *)
(* the compiler and of the driver are external.                            *)
(*                                                                         *)
(* Faulty variants that Next does not use stand beside some definitions.   *)
(***************************************************************************)
EXTENDS Integers, FiniteSets, Sequences

CONSTANTS
  Shaders,      \* shaders, each with its source file
  Pipelines,    \* requests with different hashes
  ShadersOf,    \* the shaders of each pipeline, in the order of their stages
  Compute,      \* the compute pipelines
  Clients,      \* threads that compile variant sets
  Wants         \* the pipelines each client asks for, in order

ASSUME CachesAssumption ==
  /\ IsFiniteSet(Shaders)
  /\ ShadersOf \in [Pipelines -> Seq(Shaders) \ {<<>>}]
  /\ Compute \subseteq Pipelines
  /\ Wants \in [Clients -> Seq(Pipelines)]

VARIABLES
  cache,         \* where the constructor of ShaderSourceCache is
  file,          \* where the read of each file is
  loadingTasks,  \* m_loadingTasksCount
  filesMap,      \* m_filesMap
  client,        \* where each client is, and the index of its pipeline
  pipelinesMap,  \* m_graphicsPipelinesMap and m_computePipelinesMap
  hasGroup,      \* pipelines whose m_completionWaitGroup is set
  job,           \* where each AsyncCompilationJob is, and the index of its shader
  status,        \* m_status of each pipeline
  shadersMap,    \* m_shadersMap
  task,          \* where each CompilationTask is
  modules,       \* shaders whose m_shaderModule is set
  reflections,   \* shaders whose m_reflection is set
  fault

sourceVars == <<cache, file, loadingTasks, filesMap>>
clientVars == <<client, pipelinesMap, hasGroup>>
shaderVars == <<shadersMap, task, modules, reflections>>
vars == <<sourceVars, clientVars, job, status, shaderVars, fault>>

Init ==
  /\ cache = "traverse" /\ file = [s \in Shaders |-> "unread"]
  /\ loadingTasks = 0 /\ filesMap = {}
  /\ client = [c \in Clients |-> [at |-> "create", index |-> 1]]
  /\ pipelinesMap = {} /\ hasGroup = {}
  /\ job = [p \in Pipelines |-> [at |-> "none", index |-> 1]]
  /\ status = [p \in Pipelines |-> "not ready"]
  /\ shadersMap = {} /\ task = [s \in Shaders |-> "none"]
  /\ modules = {} /\ reflections = {}
  /\ fault = "none"

Running == fault = "none"

-----------------------------------------------------------------------------
(* ShaderSourceCache.                                                      *)

Unloaded == <<clientVars, job, status, shaderVars, fault>>

\* ReadDirectory: the task is counted before its read is enqueued.
FileFound(s) ==
  /\ cache = "traverse" /\ file[s] = "unread"
  /\ loadingTasks' = loadingTasks + 1
  /\ file' = [file EXCEPT ![s] = "reading"]
  /\ UNCHANGED <<cache, filesMap, Unloaded>>

Traversed ==
  /\ cache = "traverse" /\ \A s \in Shaders : file[s] # "unread"
  /\ cache' = "spin"
  /\ UNCHANGED <<file, loadingTasks, filesMap, Unloaded>>

SpinEnds ==
  /\ cache = "spin" /\ loadingTasks = 0
  /\ cache' = "loaded"
  /\ UNCHANGED <<file, loadingTasks, filesMap, Unloaded>>

\* AsyncIOCallback: a failure, or a name without a stage, only counts down.
FileFails(s) ==
  /\ file[s] = "reading"
  /\ file' = [file EXCEPT ![s] = "failed"]
  /\ UNCHANGED <<cache, loadingTasks, filesMap, Unloaded>>

FileInserted(s) ==
  /\ file[s] = "reading"
  /\ filesMap' = filesMap \union {s}
  /\ file' = [file EXCEPT ![s] = "inserted"]
  /\ UNCHANGED <<cache, loadingTasks, Unloaded>>

OnlyInserted(s) == file[s] = "inserted"
MayCountDown(s) == file[s] \in {"inserted", "failed"}

CountDown(s) ==
  /\ MayCountDown(s)
  /\ loadingTasks' = loadingTasks - 1
  /\ file' = [file EXCEPT ![s] = IF s \in filesMap THEN "loaded" ELSE "missing"]
  /\ UNCHANGED <<cache, filesMap, Unloaded>>

-----------------------------------------------------------------------------
(* PipelineFactory, called by Compile of the variant sets, and the wait of *)
(* WaitForGlobalPipelineSets.                                              *)

\* The services the factory is built on are constructed before it.
At(c, label) == Running /\ cache = "loaded" /\ client[c].at = label
Wanted(c) == Wants[c][client[c].index]
More(c) == client[c].index <= Len(Wants[c])
Advance(c) == client' = [client EXCEPT ![c] = [at |-> @.at, index |-> @.index + 1]]

\* Under m_lock: the pipeline of the map, or a new one.
CreateFinds(c) ==
  /\ At(c, "create") /\ More(c) /\ Wanted(c) \in pipelinesMap
  /\ Advance(c)
  /\ UNCHANGED <<sourceVars, pipelinesMap, hasGroup, job, status, shaderVars, fault>>

CreateInserts(c) ==
  /\ At(c, "create") /\ More(c) /\ Wanted(c) \notin pipelinesMap
  /\ pipelinesMap' = pipelinesMap \union {Wanted(c)}
  /\ client' = [client EXCEPT ![c].at = "schedule"]
  /\ UNCHANGED <<sourceVars, hasGroup, job, status, shaderVars, fault>>

CreateSchedules(c) ==
  /\ At(c, "schedule")
  /\ job' = [job EXCEPT ![Wanted(c)].at = "shaders"]
  /\ client' = [client EXCEPT ![c].at = "set group"]
  /\ UNCHANGED <<sourceVars, pipelinesMap, hasGroup, status, shaderVars, fault>>

SetCompletionWaitGroup(c) ==
  /\ At(c, "set group")
  /\ hasGroup' = hasGroup \union {Wanted(c)}
  /\ client' = [client EXCEPT ![c] = [at |-> "create", index |-> @.index + 1]]
  /\ UNCHANGED <<sourceVars, pipelinesMap, job, status, shaderVars, fault>>

Compiled(c) ==
  /\ At(c, "create") /\ ~More(c)
  /\ client' = [client EXCEPT ![c] = [at |-> "wait", index |-> 1]]
  /\ UNCHANGED <<sourceVars, pipelinesMap, hasGroup, job, status, shaderVars, fault>>

\* GetCompletionWaitGroup()->Wait().
WaitForPipeline(c) ==
  /\ At(c, "wait") /\ More(c)
  /\ IF Wanted(c) \in hasGroup
     THEN job[Wanted(c)].at = "signaled" /\ Advance(c) /\ UNCHANGED fault
     ELSE fault' = "null group" /\ UNCHANGED client
  /\ UNCHANGED <<sourceVars, pipelinesMap, hasGroup, job, status, shaderVars>>

-----------------------------------------------------------------------------
(* InitInternal of a pipeline, in its AsyncCompilationJob.                 *)

JobAt(p, label) == Running /\ job[p].at = label
ShaderOf(p) == ShadersOf[p][job[p].index]
MoreShaders(p) == job[p].index <= Len(ShadersOf[p])
JobGoes(p, label) == job' = [job EXCEPT ![p] = [at |-> label, index |-> 1]]
NextShader(p) == job' = [job EXCEPT ![p].index = @ + 1]

\* GetShader under m_lock: a new shader is listed and its task scheduled.
GetShader(p) ==
  /\ JobAt(p, "shaders") /\ MoreShaders(p)
  /\ IF ShaderOf(p) \in shadersMap THEN UNCHANGED <<shadersMap, task>>
     ELSE /\ shadersMap' = shadersMap \union {ShaderOf(p)}
          /\ task' = [task EXCEPT ![ShaderOf(p)] = "scheduled"]
  /\ NextShader(p)
  /\ UNCHANGED <<sourceVars, clientVars, status, modules, reflections, fault>>

ShadersListed(p) ==
  /\ JobAt(p, "shaders") /\ ~MoreShaders(p)
  /\ JobGoes(p, "wait")
  /\ UNCHANGED <<sourceVars, clientVars, status, shaderVars, fault>>

IsListed(s) == s \in shadersMap
IsCompleted(s) == task[s] = "signaled"

\* WaitAll: one group after the other.
WaitForShader(p) ==
  /\ JobAt(p, "wait") /\ MoreShaders(p) /\ IsCompleted(ShaderOf(p))
  /\ NextShader(p)
  /\ UNCHANGED <<sourceVars, clientVars, status, shaderVars, fault>>

\* Without the module a graphics pipeline is an error; a compute pipeline uses
\* the reflection without a test.  The driver may refuse as well.
Built(p) ==
  LET valid == \A i \in DOMAIN ShadersOf[p] : ShadersOf[p][i] \in modules
      reflected == \A i \in DOMAIN ShadersOf[p] : ShadersOf[p][i] \in reflections
  IN /\ JobAt(p, "wait") /\ ~MoreShaders(p)
     /\ IF valid /\ reflected
        THEN \/ status' = [status EXCEPT ![p] = "ready"] /\ UNCHANGED fault
             \/ status' = [status EXCEPT ![p] = "error"] /\ UNCHANGED fault
        ELSE IF p \in Compute \/ valid THEN fault' = "null reflection" /\ UNCHANGED status
        ELSE status' = [status EXCEPT ![p] = "error"] /\ UNCHANGED fault
     /\ JobGoes(p, "built")
     /\ UNCHANGED <<sourceVars, clientVars, shaderVars>>

\* The job deletes itself and the job system signals its group.
JobSignaled(p) ==
  /\ JobAt(p, "built")
  /\ JobGoes(p, "signaled")
  /\ UNCHANGED <<sourceVars, clientVars, status, shaderVars, fault>>

-----------------------------------------------------------------------------
(* CompilationTask::Execute of a shader.                                   *)

TaskAt(s, label) == Running /\ task[s] = label
TaskGoes(s, label) == task' = [task EXCEPT ![s] = label]

\* The source is not found, or the code is not valid: the task ends.
CompileFails(s) ==
  /\ TaskAt(s, "scheduled")
  /\ TaskGoes(s, IF s \in filesMap THEN "invalid" ELSE "not found")
  /\ UNCHANGED <<sourceVars, clientVars, job, status, shadersMap, modules, reflections, fault>>

CreateShaderModule(s) ==
  /\ TaskAt(s, "scheduled") /\ s \in filesMap
  /\ TaskGoes(s, "reflect") /\ modules' = modules \union {s}
  /\ UNCHANGED <<sourceVars, clientVars, job, status, shadersMap, reflections, fault>>

Reflect(s) ==
  /\ TaskAt(s, "reflect")
  /\ TaskGoes(s, "reflected") /\ reflections' = reflections \union {s}
  /\ UNCHANGED <<sourceVars, clientVars, job, status, shadersMap, modules, fault>>

TaskSignaled(s) ==
  /\ Running /\ task[s] \in {"invalid", "not found", "reflected"}
  /\ TaskGoes(s, "signaled")
  /\ UNCHANGED <<sourceVars, clientVars, job, status, shadersMap, modules, reflections, fault>>

-----------------------------------------------------------------------------
CacheStep == Traversed \/ SpinEnds
FileStep(s) == FileFound(s) \/ FileFails(s) \/ FileInserted(s) \/ CountDown(s)

ClientStep(c) ==
  \/ CreateFinds(c) \/ CreateInserts(c) \/ CreateSchedules(c) \/ SetCompletionWaitGroup(c)
  \/ Compiled(c) \/ WaitForPipeline(c)

JobStep(p) ==
  GetShader(p) \/ ShadersListed(p) \/ WaitForShader(p) \/ Built(p) \/ JobSignaled(p)

TaskStep(s) == CompileFails(s) \/ CreateShaderModule(s) \/ Reflect(s) \/ TaskSignaled(s)

\* Every client has what it waited for, or the program crashed.
Stopped ==
  /\ ~Running \/ \A c \in Clients : At(c, "wait") /\ ~More(c)
  /\ UNCHANGED vars

Next ==
  \/ CacheStep \/ Stopped
  \/ \E s \in Shaders : FileStep(s) \/ TaskStep(s)
  \/ \E c \in Clients : ClientStep(c)
  \/ \E p \in Pipelines : JobStep(p)

\* The reader thread and the workers keep running, and so do the clients.
Spec ==
  /\ Init /\ [][Next]_vars
  /\ WF_vars(CacheStep)
  /\ \A s \in Shaders : WF_vars(FileStep(s)) /\ WF_vars(TaskStep(s))
  /\ \A c \in Clients : WF_vars(ClientStep(c))
  /\ \A p \in Pipelines : WF_vars(JobStep(p))

-----------------------------------------------------------------------------
TypeOK ==
  /\ cache \in {"traverse", "spin", "loaded"} /\ loadingTasks \in Nat
  /\ file \in [Shaders -> {"unread", "reading", "inserted", "failed", "loaded", "missing"}]
  /\ filesMap \subseteq Shaders /\ shadersMap \subseteq Shaders
  /\ modules \subseteq Shaders /\ reflections \subseteq modules
  /\ client \in [Clients -> [at : {"create", "schedule", "set group", "wait"}, index : Nat \ {0}]]
  /\ pipelinesMap \subseteq Pipelines /\ hasGroup \subseteq pipelinesMap
  /\ job \in [Pipelines -> [at : {"none", "shaders", "wait", "built", "signaled"}, index : Nat \ {0}]]
  /\ status \in [Pipelines -> {"not ready", "ready", "error"}]
  /\ task \in [Shaders -> {"none", "scheduled", "invalid", "not found", "reflect", "reflected", "signaled"}]

\* What a group promises when it is signalled is there: a pipeline has its last
\* status, and one that is ready has modules of shaders that are compiled.  A
\* job that reads a shader does so after that shader's task is over.
SignaledIsResolved ==
  \A p \in Pipelines :
    /\ job[p].at = "signaled" => status[p] # "not ready"
    /\ status[p] = "ready" => \A i \in DOMAIN ShadersOf[p] : ShadersOf[p][i] \in reflections
    /\ job[p].at = "wait" => \A i \in 1 .. job[p].index - 1 : task[ShadersOf[p][i]] = "signaled"

\* A shader whose file could be read is found when it is compiled, although the
\* files arrive on their own time: the constructor has waited for all of them.
SourceIsFound ==
  \A s \in Shaders :
    /\ task[s] = "not found" => file[s] = "missing"
    /\ task[s] # "none" => loadingTasks = 0

CachesResolved == TypeOK /\ SignaledIsResolved /\ SourceIsFound

\* A pipeline that a client asks for becomes ready or an error and its group is
\* signalled, unless the program crashes on a null group or reflection.
PipelineResolves ==
  \A p \in Pipelines :
    (\E c \in Clients : \E i \in DOMAIN Wants[c] : Wants[c][i] = p)
      ~> (~Running \/ (status[p] # "not ready" /\ p \in hasGroup /\ job[p].at = "signaled"))

\* What the code does not keep: a pipeline of the map has its group, and an
\* invalid shader makes any pipeline an error.
GroupIsSet == fault # "null group"
InvalidIsAnError == fault # "null reflection"
=============================================================================
