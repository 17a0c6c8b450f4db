----------------------------- MODULE MCEntities -----------------------------
EXTENDS Entities, TLC

CONSTANTS a, b, c, one, two, aX, bX, cZ, aS, cS, gone, aY, bY, bZ

\* Two jobs; the components X, Y and Z are 1, 2 and 3.
Segments == (one :> <<a, b>> @@ two :> <<c>>)
Kinds == [x \in {aX, bX, cZ, aY, bY, bZ} |-> "add component"]
         @@ [x \in {aS, cS} |-> "add system"] @@ (gone :> "remove system")
Targets == [x \in {aX, aS, aY} |-> a] @@ [x \in {bX, bY, bZ} |-> b] @@ [x \in {cZ, cS, gone} |-> c]
Data == [x \in {aX, bX} |-> 1] @@ [x \in {aY, bY} |-> 2] @@ [x \in {cZ, bZ} |-> 3]
        @@ (aS :> "system of a" @@ cS :> "system of c" @@ gone :> "system of c")

\* The client sets the entities up, and removes a system later.
Client3 == (1 :> <<aX, bX, cZ, aS, cS>> @@ 2 :> <<>> @@ 3 :> <<gone>> @@ 4 :> <<>>)

\* While they are updated, a system of c acts on a and on b, and a system of a
\* on b; the system of a may act on b, which comes later in its job, when it is
\* initialised.
InUpdates == {[phase |-> "update", entity |-> c, frame |-> 1, action |-> aY],
              [phase |-> "changed", entity |-> a, frame |-> 1, action |-> bZ],
              [phase |-> "update", entity |-> a, frame |-> 2, action |-> bY],
              [phase |-> "update", entity |-> c, frame |-> 2, action |-> bZ]}

\* Two systems act on each other's entity.
ActsOnEachOther == {[phase |-> "update", entity |-> c, frame |-> 1, action |-> aY],
                    [phase |-> "update", entity |-> a, frame |-> 1, action |-> cZ]}
ClientBoth == (1 :> <<aX, bX, aS, cS>> @@ 2 :> <<>> @@ 3 :> <<>>)

\* A system also acts on an entity whose list was executed.
InUpdatesAndInit == InUpdates \union {[phase |-> "changed", entity |-> c, frame |-> 1, action |-> aY]}

\* Two jobs move entities into and out of one archetype, b gets a component twice,
\* and a one that is laid out before the one it has.
SharedData == [Data EXCEPT ![cZ] = 1, ![aX] = 2, ![aY] = 1, ![bZ] = 1]

\* A system of a is added and removed before one frame, too.
SharedDataOfOne == [SharedData EXCEPT ![gone] = "system of a"]
TargetsOfOne == [Targets EXCEPT ![gone] = a]
ClientAtOnce == (1 :> <<aX, bX, cZ, cS>> @@ 2 :> <<>> @@ 3 :> <<aS, gone>> @@ 4 :> <<>>)

\* The lookup table of every chunk is in zeroed memory.
Zeroed == [i \in Slots |-> 1]
=============================================================================
