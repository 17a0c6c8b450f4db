----------------------------- MODULE Scheduler -----------------------------
(***************************************************************************)
(* What IJobSystem promises: a scheduled job begins once, does its         *)
(* operations in order and ends once, and the code behind a Wait() runs    *)
(* only when every job that signals the group has ended.  No threads, no   *)
(* fibers, no queues.                                                      *)
(***************************************************************************)
EXTENDS Naturals, Sequences

CONSTANTS Jobs, RootJob, Program, CompletionOf

VARIABLES
  state,  \* of each job: "new", "queued", "running" or "done"
  at      \* the next operation of each running job, 0 of the others

Init ==
  /\ state = [j \in Jobs |-> IF j = RootJob THEN "queued" ELSE "new"]
  /\ at = [j \in Jobs |-> 0]

Begin(j) ==
  /\ state[j] = "queued"
  /\ state' = [state EXCEPT ![j] = "running"]
  /\ at' = [at EXCEPT ![j] = 1]

End(j) ==
  /\ state[j] = "running" /\ at[j] > Len(Program[j])
  /\ state' = [state EXCEPT ![j] = "done"]
  /\ at' = [at EXCEPT ![j] = 0]

Members(g) == {j \in Jobs : CompletionOf[j] = g}

Operate(j) ==
  /\ state[j] = "running" /\ at[j] <= Len(Program[j])
  /\ at' = [at EXCEPT ![j] = @ + 1]
  /\ LET o == Program[j][at[j]] IN
     \/ o.op = "schedule" /\ state' = [state EXCEPT ![o.job] = "queued"]
     \/ o.op = "wait" /\ (\A k \in Members(o.group) : state[k] = "done") /\ UNCHANGED state
     \/ o.op = "stop" /\ UNCHANGED state

Next == \E j \in Jobs : Begin(j) \/ Operate(j) \/ End(j)

Spec == Init /\ [][Next]_<<state, at>>
=============================================================================
