------------------------------- MODULE Entities -------------------------------
(***************************************************************************)
(* The update of an EntityRegistry.  What clients and systems ask of an    *)
(* entity is deferred: AddDeferredAction allocates an action and pushes it *)
(* on the entity's list.  Update() executes the lists of all entities in   *)
(* jobs, waits, clears the allocator of the actions, and updates the       *)
(* systems of all entities in jobs.                                        *)
(*                                                                         *)
(* A job holds the lock of an entity while it calls the entity's systems,  *)
(* and a system may ask something of another entity.  What the client and  *)
(* the systems ask is external: a script for each frame, and reactions of  *)
(* an entity's systems to OnArchetypeChanged or Init ("changed") and to    *)
(* Update ("update").  The jobs and the wait are modules JobSystem and     *)
(* WaitGroup.  A failed assertion, or a list with an action in cleared     *)
(* memory, ends the run (fault).                                           *)
(*                                                                         *)
(* An archetype has one chunk, in zeroed memory but for its lookup table,  *)
(* which nobody fills.  The words of its bitset are plain memory that jobs *)
(* read and write without a lock: each read and each write is a step.      *)
(*                                                                         *)
(* Faulty variants that Next does not use stand beside some definitions.   *)
(***************************************************************************)
EXTENDS Integers, FiniteSets, SequencesExt

CONSTANTS
  Entity,       \* m_entitiesUnsorted
  Jobs,         \* jobs of an update, one for each 32 entities
  EntitiesOf,   \* the entities of each job, in order
  Client,       \* the thread that calls Update()
  None,
  Actions,      \* deferred actions
  KindOf,       \* "add component", "add system" or "remove system"
  TargetOf,     \* the entity of each action
  DataOf,       \* the component, a number in the order of layout, or the system
  Table,        \* what m_indexLookupTable of a chunk holds
  Script,       \* the actions the client adds before each frame
  Reactions,    \* actions that systems add: the phase, the entity and the frame
  LastFrame     \* the bound: frames that are updated

Frames == 1 .. LastFrame
Slots == 1 .. Cardinality(Actions) + 1   \* more than are ever taken at once

ASSUME EntitiesAssumption ==
  /\ EntitiesOf \in [Jobs -> Seq(Entity)]
  /\ Client \notin Jobs /\ None \notin Jobs \union Actions \union {Client}
  /\ KindOf \in [Actions -> {"add component", "add system", "remove system"}]
  /\ TargetOf \in [Actions -> Entity]
  /\ Table \in [Slots -> Slots]
  /\ LastFrame \in Nat /\ Script \in [Frames -> Seq(Actions)]
  /\ Reactions \subseteq [phase : {"changed", "update"}, entity : Entity, frame : Frames, action : Actions]

VARIABLES
  pc,           \* where Update() is; "between" frames the script runs
  frame,
  thread,       \* of each thread: where it is, the entity's index, and the
                \* action it has allocated
  lock,         \* the owner of m_lock of each entity
  list,         \* m_deferredActions of each entity
  generation,   \* how often m_deferredActionsAllocator was cleared
  allocated,    \* history: the generation of each action that was added
  taken,        \* the actions a job has taken from an entity
  components,   \* the archetype of each entity: its components, in layout order
  slot,         \* m_entityIndexInArchetypeChunk
  used,         \* m_allocatedEntitiesBitSet of each archetype
  seen,         \* of each job: the word it has read, and the bit it chose
  memory,       \* the bytes in chunks: whose they are, and of which component
  systems,      \* m_systems
  applied,      \* history: the actions that were executed
  executed,     \* history: the entities whose list was taken in this frame
  late,         \* history: the actions that came to an entity after that
  overwritten,  \* history: a word was written over a value nobody had read
  fault

actionVars == <<list, generation, allocated>>
chunkVars == <<components, slot, used, seen, memory, overwritten>>
orderVars == <<executed, late>>
vars == <<pc, frame, thread, lock, actionVars, taken, chunkVars, systems, applied, orderVars, fault>>

Threads == Jobs \union {Client}
Components == {DataOf[a] : a \in {b \in Actions : KindOf[b] = "add component"}}

Init ==
  /\ pc = "between" /\ frame = 1
  /\ thread = [t \in Threads |-> [at |-> "idle", index |-> 1, action |-> None]]
  /\ lock = [e \in Entity |-> None]
  /\ list = [e \in Entity |-> <<>>]
  /\ generation = 0 /\ allocated = [a \in Actions |-> -1]
  /\ taken = [j \in Jobs |-> <<>>]
  /\ components = [e \in Entity |-> <<>>] /\ slot = [e \in Entity |-> 0]
  /\ used = <<>> /\ memory = <<>> /\ overwritten = FALSE
  /\ seen = [j \in Jobs |-> [word |-> {}, bit |-> 0]]
  /\ systems = [e \in Entity |-> <<>>]
  /\ applied = {} /\ executed = {} /\ late = {} /\ fault = "none"

At(t, label) == fault = "none" /\ thread[t].at = label /\ thread[t].action = None
Goes(t, label) == thread' = [thread EXCEPT ![t].at = label]

-----------------------------------------------------------------------------
(* AddDeferredAction.                                                      *)

\* The callbacks that run now on the thread t.
PhaseOf(label) == IF label \in {"notify", "initialise"} THEN "changed" ELSE label
Current(j) == EntitiesOf[j][thread[j].index]
Reacting(j) ==
  {r.action : r \in {q \in Reactions : /\ q.phase = PhaseOf(thread[j].at)
                                       /\ q.entity = Current(j) /\ q.frame = frame}}

Added == {a \in Actions : allocated[a] >= 0}
Scripted == SelectSeq(Script[frame], LAMBDA a : a \notin Added)

AddBy(t, a) ==
  /\ thread' = [thread EXCEPT ![t].action = a]
  /\ allocated' = [allocated EXCEPT ![a] = generation]
  /\ UNCHANGED <<pc, frame, lock, list, generation, taken, chunkVars, systems, applied, orderVars,
                 fault>>

ClientAdds ==
  /\ pc = "between" /\ frame <= LastFrame /\ At(Client, "idle") /\ Scripted # <<>>
  /\ AddBy(Client, Head(Scripted))

\* A system of an entity, while the job holds the lock of the entity.
SystemAdds(j) ==
  /\ \E label \in {"notify", "initialise", "update"} : At(j, label)
  /\ lock[Current(j)] = j /\ systems[Current(j)] # <<>>
  /\ \E a \in Reacting(j) \ Added : AddBy(j, a)

Alone(a, s) == <<a>>
InFront(a, s) == <<a>> \o s

\* The push under the lock of the target.
Push(t) ==
  LET asked == thread[t].action
  IN /\ fault = "none" /\ asked # None /\ lock[TargetOf[asked]] = None
     /\ list' = [list EXCEPT ![TargetOf[asked]] = InFront(asked, @)]
     /\ thread' = [thread EXCEPT ![t].action = None]
     /\ late' = IF pc = "deferred" /\ TargetOf[asked] \in executed THEN late \union {asked} ELSE late
     /\ UNCHANGED <<pc, frame, lock, generation, allocated, taken, chunkVars, systems, applied,
                    executed, fault>>

-----------------------------------------------------------------------------
(* EntityRegistry::Update.                                                 *)

Scheduled(label) ==
  thread' = [t \in Threads |-> IF t \in Jobs THEN [thread[t] EXCEPT !.at = label, !.index = 1]
                               ELSE thread[t]]
AnyIdle == \E j \in Jobs : thread[j].at = "idle"
AllIdle == \A j \in Jobs : thread[j].at = "idle"
InUpdate == <<frame, lock, list, allocated, taken, chunkVars, systems, applied, late, fault>>

UpdateBegins ==
  /\ pc = "between" /\ frame <= LastFrame /\ At(Client, "idle") /\ Scripted = <<>>
  /\ Scheduled("take") /\ pc' = "deferred" /\ executed' = {}
  /\ UNCHANGED <<generation, InUpdate>>

ActionsExecuted ==
  /\ fault = "none" /\ pc = "deferred" /\ AllIdle
  /\ pc' = "clear"
  /\ UNCHANGED <<thread, generation, executed, InUpdate>>

Clear ==
  /\ pc = "clear"
  /\ generation' = generation + 1
  /\ Scheduled("lock") /\ pc' = "update"
  /\ UNCHANGED <<executed, InUpdate>>

UpdateEnds ==
  /\ fault = "none" /\ pc = "update" /\ AllIdle
  /\ pc' = "between" /\ frame' = frame + 1
  /\ UNCHANGED <<thread, lock, actionVars, taken, chunkVars, systems, applied, orderVars, fault>>

-----------------------------------------------------------------------------
(* Entity::ExecuteDeferredActions, by the job of the entity.               *)

Unlocked(j) == lock[Current(j)] = None
Locks(j) == lock' = [lock EXCEPT ![Current(j)] = j]
Unlocks(j) == lock' = [lock EXCEPT ![Current(j)] = None]

\* The data of the actions of a kind, in the order of the list.
Taken(s, kind) == LET ofKind == SelectSeq(s, LAMBDA a : KindOf[a] = kind)
                  IN [i \in DOMAIN ofKind |-> DataOf[ofKind[i]]]

\* The next entity of the job, or the end of it.
NextEntity(j, label) ==
  thread' = [thread EXCEPT ![j] =
    IF @.index < Len(EntitiesOf[j]) THEN [@ EXCEPT !.at = label, !.index = @ + 1]
    ELSE [@ EXCEPT !.at = "idle"]]

\* RemoveSystemImmediate of each: the first of the vector that is this system.
Without(s, removed) == FoldLeft(RemoveFirst, s, removed)

\* The list is taken and systems are removed under the lock, which is released
\* before the archetype is changed.
Take(j) ==
  LET e == Current(j)
      removed == Taken(list[e], "remove system")
      changes == Taken(list[e], "add component") # <<>>
  IN /\ At(j, "take") /\ Unlocked(j)
     /\ taken' = [taken EXCEPT ![j] = list[e]]
     /\ systems' = [systems EXCEPT ![e] = Without(@, removed)]
     /\ fault' = IF \E a \in Range(list[e]) : allocated[a] # generation THEN "cleared"
                 ELSE IF Len(systems'[e]) + Len(removed) # Len(systems[e]) THEN "assert" ELSE fault
     /\ list' = [list EXCEPT ![e] = <<>>] /\ executed' = executed \union {e}
     /\ Goes(j, IF changes THEN "change" ELSE "systems")
     /\ IF changes THEN UNCHANGED lock ELSE Locks(j)
     /\ UNCHANGED <<pc, frame, generation, allocated, chunkVars, applied, late>>

Besides == <<pc, frame, actionVars, taken, systems, applied, orderVars, fault>>

\* GetArchetype sorts what the entity has and what it gets, twice the same included.
NewArchetype(j) == SortSeq(components[Current(j)] \o Taken(taken[j], "add component"), <)

\* The bits of a chunk; it is made with the archetype, in memory that is zero.
Bits(s) == IF s \in DOMAIN used THEN used[s] ELSE {}
Written(f, at, what) == [x \in DOMAIN f \union {at} |-> IF x = at THEN what ELSE f[x]]

FirstFree(bits) == CHOOSE i \in Slots : i \notin bits /\ \A k \in 1 .. i - 1 : k \in bits

\* ChangeArchetypeImmediate: AllocateEntity looks for a bit that is not set,
Scan(j) ==
  /\ At(j, "change") /\ Unlocked(j)
  /\ Locks(j) /\ Goes(j, "set")
  /\ seen' = [seen EXCEPT ![j].bit = FirstFree(Bits(NewArchetype(j)))]
  /\ UNCHANGED <<components, slot, used, memory, overwritten, Besides>>

\* and sets it with |=, which reads the word once more,
SetReads(j) ==
  /\ At(j, "set")
  /\ Goes(j, "write")
  /\ seen' = [seen EXCEPT ![j].word = Bits(NewArchetype(j))]
  /\ UNCHANGED <<lock, components, slot, used, memory, overwritten, Besides>>

Freed(bits, i) == bits \ {i}

WithoutBit(bits, i) == bits
WithBit(bits, i) == bits \union {i}

\* Component k of the entity in slot i of the chunk is where the table says.
Place(s, i, k) == <<s, Table[i], k>>

\* The component k of the old archetype is moved to where the new one has the first
\* component of the type that the NEW archetype has at k; the rest is constructed.
Moved(e, new, i) ==
  LET old == components[e]
      target(k) == CHOOSE n \in DOMAIN new : new[n] = new[k] /\ \A m \in 1 .. n - 1 : new[m] # new[k]
      sources(n) == {k \in DOMAIN old : target(k) = n}
      bytes(n) == IF sources(n) = {} THEN [of |-> e, type |-> new[n]]
                  ELSE memory[Place(old, slot[e], Max(sources(n)))]
      places == {Place(new, i, n) : n \in DOMAIN new}
  IN [p \in DOMAIN memory \union places |-> IF p \in places THEN bytes(p[3]) ELSE memory[p]]

\* The entity has its new place, and the lock is released.
Settles(j, i) ==
  LET e == Current(j)
  IN /\ components' = [components EXCEPT ![e] = NewArchetype(j)]
     /\ slot' = [slot EXCEPT ![e] = i]
     /\ Unlocks(j) /\ Goes(j, "relock")

SetWrites(j) ==
  LET e == Current(j)
      new == NewArchetype(j)
      i == seen[j].bit
  IN /\ At(j, "write")
     /\ used' = Written(used, new, WithBit(seen[j].word, i))
     /\ overwritten' = (overwritten \/ Bits(new) # seen[j].word \/ i \in seen[j].word)
     /\ memory' = Moved(e, new, i)
     /\ IF components[e] = <<>> THEN Settles(j, i)
        ELSE Goes(j, "free") /\ UNCHANGED <<lock, components, slot>>
     /\ UNCHANGED <<seen, Besides>>

\* The old slot is freed with &=: a read and a write.
FreeReads(j) ==
  /\ At(j, "free")
  /\ Goes(j, "clear")
  /\ seen' = [seen EXCEPT ![j].word = Bits(components[Current(j)])]
  /\ UNCHANGED <<lock, components, slot, used, memory, overwritten, Besides>>

FreeWrites(j) ==
  LET e == Current(j)
  IN /\ At(j, "clear")
     /\ used' = Written(used, components[e], Freed(seen[j].word, slot[e]))
     /\ overwritten' = (overwritten \/ Bits(components[e]) # seen[j].word)
     /\ Settles(j, seen[j].bit)
     /\ UNCHANGED <<seen, memory, Besides>>

\* The systems are told under the lock.
Relock(j) ==
  /\ At(j, "relock") /\ Unlocked(j)
  /\ Locks(j) /\ Goes(j, "notify")
  /\ UNCHANGED <<chunkVars, Besides>>

Notified(j) ==
  /\ At(j, "notify")
  /\ Goes(j, "systems")
  /\ UNCHANGED <<lock, chunkVars, Besides>>

\* AddSystemImmediate of the added systems: they are initialised, and told of the archetype.
SystemsAdded(j) ==
  LET added == Taken(taken[j], "add system")
  IN /\ At(j, "systems") /\ added # <<>>
     /\ systems' = [systems EXCEPT ![Current(j)] = @ \o added]
     /\ Goes(j, "initialise")
     /\ UNCHANGED <<pc, frame, lock, actionVars, taken, chunkVars, applied, orderVars, fault>>

Executed(j) ==
  /\ At(j, "initialise") \/ (At(j, "systems") /\ Taken(taken[j], "add system") = <<>>)
  /\ applied' = applied \union Range(taken[j])
  /\ taken' = [taken EXCEPT ![j] = <<>>]
  /\ Unlocks(j) /\ NextEntity(j, "take")
  /\ UNCHANGED <<pc, frame, actionVars, chunkVars, systems, orderVars, fault>>

-----------------------------------------------------------------------------
(* Entity::UpdateLocalSystems, by the job of the entity.                   *)

UpdateLocks(j) ==
  /\ At(j, "lock") /\ Unlocked(j)
  /\ Locks(j) /\ Goes(j, "update")
  /\ UNCHANGED <<chunkVars, Besides>>

\* Every system of the entity was updated, and asked what it asks.
Updated(j) ==
  /\ At(j, "update") /\ (systems[Current(j)] = <<>> \/ Reacting(j) \subseteq Added)
  /\ Unlocks(j) /\ NextEntity(j, "lock")
  /\ UNCHANGED <<chunkVars, Besides>>

-----------------------------------------------------------------------------
JobStep(j) ==
  \/ SystemAdds(j) \/ Push(j) \/ Take(j) \/ Scan(j) \/ SetReads(j) \/ SetWrites(j)
  \/ FreeReads(j) \/ FreeWrites(j) \/ Relock(j) \/ Notified(j) \/ SystemsAdded(j) \/ Executed(j) \/ UpdateLocks(j) \/ Updated(j)

ClientStep ==
  ClientAdds \/ Push(Client) \/ UpdateBegins \/ ActionsExecuted \/ Clear \/ UpdateEnds

\* The bound is reached, or the run has ended.
Stopped == (fault # "none" \/ frame > LastFrame) /\ UNCHANGED vars

Next == ClientStep \/ Stopped \/ \E j \in Jobs : JobStep(j)

\* The program goes on updating, the workers run their jobs, and a spin lock that
\* is free is taken in the end by a thread that waits for it.
Spec ==
  /\ Init /\ [][Next]_vars
  /\ WF_vars(ClientStep) /\ \A j \in Jobs : SF_vars(JobStep(j))

-----------------------------------------------------------------------------
Labels == {"idle", "take", "change", "set", "write", "free", "clear", "relock", "notify", "systems",
           "initialise", "lock", "update"}

TypeOK ==
  /\ pc \in {"between", "deferred", "clear", "update"} /\ frame \in 1 .. LastFrame + 1
  /\ thread \in [Threads -> [at : Labels, index : Nat \ {0}, action : Actions \union {None}]]
  /\ lock \in [Entity -> Jobs \union {None}] /\ list \in [Entity -> Seq(Actions)]
  /\ generation \in Nat /\ allocated \in [Actions -> -1 .. generation]
  /\ slot \in [Entity -> {0} \union Slots] /\ \A e \in Entity : components[e] \in Seq(Components)
  /\ seen \in [Jobs -> [word : SUBSET Slots, bit : {0} \union Slots]]
  /\ applied \subseteq Actions /\ late \subseteq Actions

\* When Update() clears the memory of the actions, the only ones still in a list
\* are those that came to an entity in this phase, after its job had taken its list;
\* they alone are in cleared memory later, and nothing is in a list twice or again
\* after it was executed.
OnlyLateDangle ==
  /\ pc = "clear" => \A e \in Entity : Range(list[e]) \subseteq late
  /\ \A e \in Entity : \A a \in Range(list[e]) :
       /\ TargetOf[a] = e /\ a \notin applied
       /\ allocated[a] = generation \/ a \in late
  /\ \A e \in Entity : IsInjective(list[e])
  /\ fault = "cleared" => late # {}

RegistryState == TypeOK /\ OnlyLateDangle

\* Two entities never share a slot of a chunk, though archetypes change and slots
\* are freed and taken again, by two jobs: a slot's bit is set as long as, and only
\* when, an entity has the slot or moves into it.
Moving(j) == thread[j].at \in {"free", "clear"}
SlotsDistinct ==
  LET resting == {e \in Entity : components[e] # <<>>}
  IN /\ \A e, f \in resting : components[e] = components[f] /\ slot[e] = slot[f] => e = f
     /\ \A s \in DOMAIN used :
          used[s] = {slot[e] : e \in {f \in resting : components[f] = s}}
                    \union {seen[j].bit : j \in {k \in Jobs : Moving(k) /\ NewArchetype(k) = s}}


\* An action that waits is in memory that will not be cleared before it is executed.
ActionsLive ==
  /\ fault # "cleared"
  /\ \A e \in Entity : \A a \in Range(list[e]) : pc # "clear" => allocated[a] = generation

\* What is asked of an entity is done, and Update() returns from every frame, in
\* spite of the locks that the jobs of other entities and systems hold, unless a
\* job meets an action in cleared memory, which OnlyLateDangle says is a late one.
ActionApplied ==
  \A a \in Actions :
    (allocated[a] >= 0 /\ frame < LastFrame) ~> (a \in applied \/ fault = "cleared")

\* What the code does not keep: with ActionsLive and SlotsDistinct, a component keeps
\* its bytes; removing a system is possible whenever it was added before.
ComponentsKept ==
  \A e \in Entity : \A k \in DOMAIN components[e] :
    memory[Place(components[e], slot[e], k)] = [of |-> e, type |-> components[e][k]]
RemovalIsPossible == fault # "assert"
=============================================================================
