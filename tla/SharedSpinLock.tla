--------------------------- MODULE SharedSpinLock ---------------------------
(***************************************************************************)
(* FeCore/Threading/SharedSpinLock: one 32-bit word counts the registered  *)
(* readers in its low bits and holds the writer in its top bit.  One       *)
(* action is one atomic operation on the word; a compare_exchange that     *)
(* fails changes nothing and is no step.  The pauses between two tries are *)
(* left out.  HasWriterAndReader, LockExchangeOverReaders and              *)
(* UnlockStoringZero are faulty variants that Next does not use.           *)
(***************************************************************************)
EXTENDS Integers, FiniteSets

CONSTANTS
  Threads,
  ExclusiveBit      \* kExclusiveBit, 2^31 in the code

\* The readers cannot carry into the writer's bit.
ASSUME ThreadsAssumption ==
  IsFiniteSet(Threads) /\ ExclusiveBit \in Nat /\ Cardinality(Threads) < ExclusiveBit

VARIABLES
  value,      \* m_value
  pc          \* what each thread is doing with the lock

vars == <<value, pc>>

Pc == {"idle", "sharedSpin", "shared", "sharedUndo", "lockSpin", "exclusive"}

\* m_value & kExclusiveBit
HasWriterAndReader == value > ExclusiveBit
HasWriter == value >= ExclusiveBit

Init == value = 0 /\ pc = [t \in Threads |-> "idle"]

Step(t, from, to) == pc[t] = from /\ pc' = [pc EXCEPT ![t] = to]

-----------------------------------------------------------------------------
\* lock_shared: registers with fetch_add, and spins when a writer was there.
LockShared(t) ==
  /\ value' = value + 1
  /\ Step(t, "idle", IF HasWriter THEN "sharedSpin" ELSE "shared")

\* The load of the spin that sees no writer.
LockSharedSpin(t) ==
  /\ ~HasWriter
  /\ Step(t, "sharedSpin", "shared")
  /\ UNCHANGED value

\* try_lock_shared: registers, and takes the registration back in a second step
\* when a writer was there.
TryLockShared(t) ==
  /\ value' = value + 1
  /\ Step(t, "idle", IF HasWriter THEN "sharedUndo" ELSE "shared")

TryLockSharedUndo(t) ==
  /\ value' = value - 1
  /\ Step(t, "sharedUndo", "idle")

UnlockShared(t) ==
  /\ value' = value - 1
  /\ Step(t, "shared", "idle")

LockCall(t) ==
  /\ Step(t, "idle", "lockSpin")
  /\ UNCHANGED value

LockExchangeOverReaders(t) ==
  /\ ~HasWriter
  /\ value' = value + ExclusiveBit
  /\ Step(t, "lockSpin", "exclusive")

\* The compare_exchange of lock() that finds the word zero.
LockExchange(t) ==
  /\ value = 0
  /\ value' = ExclusiveBit
  /\ Step(t, "lockSpin", "exclusive")

\* try_lock: one compare_exchange; failing leaves the thread where it was.
TryLock(t) ==
  /\ value = 0
  /\ value' = ExclusiveBit
  /\ Step(t, "idle", "exclusive")

UnlockStoringZero(t) ==
  /\ value' = 0
  /\ Step(t, "exclusive", "idle")

Unlock(t) ==
  /\ value' = value - ExclusiveBit
  /\ Step(t, "exclusive", "idle")

Next == \E t \in Threads :
  \/ LockShared(t) \/ LockSharedSpin(t) \/ TryLockShared(t) \/ TryLockSharedUndo(t)
  \/ UnlockShared(t) \/ LockCall(t) \/ LockExchange(t) \/ TryLock(t) \/ Unlock(t)

SafeSpec == Init /\ [][Next]_vars

\* A thread that spins, backs out or holds the lock keeps running; lock() may
\* starve, so nothing is assumed of it.
Spec == SafeSpec /\ \A t \in Threads :
  /\ WF_vars(LockSharedSpin(t)) /\ WF_vars(TryLockSharedUndo(t))
  /\ WF_vars(UnlockShared(t)) /\ WF_vars(Unlock(t))

-----------------------------------------------------------------------------
Registered == {t \in Threads : pc[t] \in {"sharedSpin", "shared", "sharedUndo"}}
Writers == {t \in Threads : pc[t] = "exclusive"}
Readers == {t \in Threads : pc[t] = "shared"}

TypeOK == value \in 0 .. (2 * ExclusiveBit - 1) /\ pc \in [Threads -> Pc]

\* A writer is alone: no reader and no second writer is inside with it, however
\* registrations, withdrawals and compare_exchanges interleave.
MutualExclusion ==
  \A t \in Writers : Writers = {t} /\ Readers = {}

\* The word counts every registered reader and the writer, also while a failed
\* try_lock_shared has not taken its registration back.
WordCounts ==
  value = Cardinality(Registered) + (IF Writers = {} THEN 0 ELSE ExclusiveBit)

\* The inductive invariant.
IInv == TypeOK /\ WordCounts /\ MutualExclusion

\* The lock implements a reader-priority lock.
Abstract == INSTANCE RWLock WITH
  waiting <- {t \in Threads : pc[t] = "sharedSpin"},
  readers <- Readers,
  writers <- Writers
ImplementsRWLock == Abstract!Spec
=============================================================================
