---------------------------- MODULE MCJobSystem ----------------------------
(***************************************************************************)
(* Workloads for JobSystem.                                                *)
(***************************************************************************)
EXTENDS JobSystem, TLC

CONSTANTS w0, w1, f1, f2, f3, f4, root, ja, jb, jc, g1, g2

ScheduleOp(j) == [op |-> "schedule", job |-> j]
WaitOp(x) == [op |-> "wait", group |-> x]
StopOp == [op |-> "stop"]

Two == {w0, w1}

\* One worker of each pool: the main thread is worker 0, the other one worker 32,
\* and 1 << 32 is 1 << 0 on an int of this target.
PoolsOfTwo == (w0 :> "foreground" @@ w1 :> "background")
ShiftOfTwo == (w0 :> w0 @@ w1 :> w0)

\* Fork and join: the root schedules two jobs, waits for both and stops.
ForkJobs == {root, ja, jb}
ForkProgram == (root :> <<ScheduleOp(ja), ScheduleOp(jb), WaitOp(g1), StopOp>> @@ ja :> <<>> @@ jb :> <<>>)
ForkAffinity == (root :> "all" @@ ja :> "all" @@ jb :> "all")
ForkPriority == (root :> 0 @@ ja :> 0 @@ jb :> 0)
ForkCompletion == (root :> None @@ ja :> g1 @@ jb :> g1)
ForkCount == (g1 :> 2)

\* Nested waits and all three queues of a worker: ja is pinned to the background
\* worker that schedules it and waits for jc, which may run anywhere, while
\* jb runs in the foreground; jb and jc have the second priority.
MixedJobs == {root, ja, jb, jc}
MixedProgram ==
  (root :> <<ScheduleOp(ja), ScheduleOp(jb), WaitOp(g1), StopOp>>
   @@ ja :> <<ScheduleOp(jc), WaitOp(g2)>> @@ jb :> <<>> @@ jc :> <<>>)
MixedAffinity == (root :> "background" @@ ja :> "self" @@ jb :> "foreground" @@ jc :> "all")
MixedPriority == (root :> 0 @@ ja :> 0 @@ jb :> 1 @@ jc :> 1)
OnePriority == [j \in MixedJobs |-> 0]
MixedCompletion == (root :> None @@ ja :> g1 @@ jb :> g1 @@ jc :> g2)
MixedCount == (g1 :> 2 @@ g2 :> 1)

\* A job that the worker holds beside another, put back, and then one more
\* scheduled into the queue it came from.
LossProgram ==
  (root :> <<ScheduleOp(ja), ScheduleOp(jb), WaitOp(g1), StopOp>>
   @@ ja :> <<ScheduleOp(jc)>> @@ jb :> <<>> @@ jc :> <<>>)
LossCompletion == (root :> None @@ ja :> g1 @@ jb :> g1 @@ jc :> g1)
LossAffinity == (root :> w0 @@ ja :> w0 @@ jb :> "all" @@ jc :> "all")
LossCount == (g1 :> 3 @@ g2 :> 0)
=============================================================================
