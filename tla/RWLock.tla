------------------------------ MODULE RWLock -------------------------------
(***************************************************************************)
(* What FeCore's SharedSpinLock promises: many readers or one writer, and  *)
(* priority to readers: no writer enters while a reader waits or reads.    *)
(***************************************************************************)
CONSTANTS Threads

VARIABLES
  waiting,    \* threads that asked for shared access and do not have it
  readers,    \* threads with shared access
  writers     \* threads with exclusive access

vars == <<waiting, readers, writers>>

Init == waiting = {} /\ readers = {} /\ writers = {}

Outside(t) == t \notin waiting \union readers \union writers

Register(t) ==
  /\ Outside(t) /\ writers # {}
  /\ waiting' = waiting \union {t}
  /\ UNCHANGED <<readers, writers>>

Enter(t) ==
  /\ Outside(t) /\ writers = {}
  /\ readers' = readers \union {t}
  /\ UNCHANGED <<waiting, writers>>

Admit(t) ==
  /\ t \in waiting /\ writers = {}
  /\ waiting' = waiting \ {t}
  /\ readers' = readers \union {t}
  /\ UNCHANGED writers

Leave(t) ==
  /\ t \in readers
  /\ readers' = readers \ {t}
  /\ UNCHANGED <<waiting, writers>>

Lock(t) ==
  /\ Outside(t) /\ waiting = {} /\ readers = {} /\ writers = {}
  /\ writers' = {t}
  /\ UNCHANGED <<waiting, readers>>

Unlock(t) ==
  /\ t \in writers
  /\ writers' = writers \ {t}
  /\ UNCHANGED <<waiting, readers>>

Next == \E t \in Threads :
  Register(t) \/ Enter(t) \/ Admit(t) \/ Leave(t) \/ Lock(t) \/ Unlock(t)

SafeSpec == Init /\ [][Next]_vars

Spec == SafeSpec /\ \A t \in Threads : WF_vars(Admit(t)) /\ WF_vars(Leave(t)) /\ WF_vars(Unlock(t))
=============================================================================
