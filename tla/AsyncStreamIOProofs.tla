------------------------ MODULE AsyncStreamIOProofs ------------------------
(***************************************************************************)
(* For any requests, kinds, priorities and numbers of blocks: the queue of *)
(* AsyncStreamIO keeps its order, every request is answered once, and an   *)
(* entry outlives the reader and the jobs that use it.                     *)
(***************************************************************************)
EXTENDS AsyncStreamIO, FiniteSetTheorems, SequenceTheorems, TLAPS

-----------------------------------------------------------------------------
(* Sequences and initial segments.                                         *)

\* What appending does to a sequence, element by element.
LEMMA AppendElements ==
  ASSUME NEW S, NEW s \in Seq(S), NEW e \in S
  PROVE  /\ Append(s, e) \in Seq(S)
         /\ Len(Append(s, e)) = Len(s) + 1
         /\ \A i \in 1 .. Len(s) : Append(s, e)[i] = s[i]
         /\ Append(s, e)[Len(s) + 1] = e
BY AppendProperties

\* What inserting does to a sequence, element by element.
LEMMA InsertAtElements ==
  ASSUME NEW S, NEW s \in Seq(S), NEW e \in S, NEW k \in 1 .. Len(s) + 1
  PROVE  /\ InsertAt(s, k, e) \in Seq(S)
         /\ Len(InsertAt(s, k, e)) = Len(s) + 1
         /\ \A i \in 1 .. Len(s) + 1 :
              InsertAt(s, k, e)[i] = IF i < k THEN s[i] ELSE IF i = k THEN e ELSE s[i - 1]
<1> DEFINE n == Len(s)
           before == SubSeq(s, 1, k - 1)
           after == SubSeq(s, k, n)
<1>1. n \in Nat /\ k \in Int /\ \A i \in 1 .. n : s[i] \in S
  BY LenProperties, ElementOfSeq
<1>2. /\ before \in Seq(S) /\ Len(before) = k - 1
      /\ \A i \in 1 .. k - 1 : before[i] = s[i]
  <2>1. 1 \in Int /\ k - 1 \in Int /\ \A i \in 1 .. k - 1 : s[i] \in S
    BY <1>1
  <2>2. /\ before \in Seq(S) /\ Len(before) = IF 1 <= k - 1 THEN k - 1 - 1 + 1 ELSE 0
        /\ \A i \in 1 .. k - 1 - 1 + 1 : before[i] = s[1 + i - 1]
    BY <2>1, SubSeqProperties
  <2> QED
    BY <1>1, <2>2
<1>3. /\ after \in Seq(S) /\ Len(after) = n - k + 1
      /\ \A i \in 1 .. n - k + 1 : after[i] = s[k + i - 1]
  <2>1. n \in Int /\ \A i \in k .. n : s[i] \in S
    BY <1>1
  <2>2. /\ after \in Seq(S) /\ Len(after) = IF k <= n THEN n - k + 1 ELSE 0
        /\ \A i \in 1 .. n - k + 1 : after[i] = s[k + i - 1]
    BY <1>1, <2>1, SubSeqProperties
  <2> QED
    BY <1>1, <2>2
<1>4. <<e>> \in Seq(S) /\ Len(<<e>>) = 1 /\ <<e>>[1] = e
  OBVIOUS
<1> HIDE DEF before, after
<1> DEFINE front == before \o <<e>>
<1>5. /\ front \in Seq(S) /\ Len(front) = k
      /\ \A i \in 1 .. k : front[i] = IF i < k THEN s[i] ELSE e
  <2> HIDE DEF n
  <2>1. /\ front \in Seq(S) /\ Len(front) = Len(before) + Len(<<e>>)
        /\ \A i \in 1 .. Len(before) + Len(<<e>>) :
             front[i] = IF i <= Len(before) THEN before[i] ELSE <<e>>[i - Len(before)]
    BY <1>2, <1>4, ConcatProperties, Zenon
  <2>2. k - 1 + 1 = k /\ \A i \in 1 .. k : (i <= k - 1 <=> i < k) /\ (~(i < k) => i - (k - 1) = 1)
    BY <1>1
  <2>3. \A i \in 1 .. k : front[i] = IF i <= k - 1 THEN before[i] ELSE <<e>>[i - (k - 1)]
    BY <1>2, <1>4, <2>1, <2>2
  <2>4. front \in Seq(S) /\ Len(front) = k
    BY <1>2, <1>4, <2>1, <2>2
  <2>5. ASSUME NEW i \in 1 .. k PROVE front[i] = IF i < k THEN s[i] ELSE e
    <3>1. CASE i < k
      <4>1. i <= k - 1 /\ i \in 1 .. k - 1
        BY <1>1, <2>2, <3>1
      <4>2. front[i] = before[i]
        BY <2>3, <4>1, Zenon
      <4> QED
        BY <1>2, <3>1, <4>1, <4>2, Zenon
    <3>2. CASE ~(i < k)
      <4>1. front[i] = <<e>>[1]
        BY <2>2, <2>3, <3>2
      <4> QED
        BY <1>4, <3>2, <4>1
    <3> QED
      BY <3>1, <3>2
  <2> QED
    BY <2>4, <2>5
<1> HIDE DEF front, n
<1>6. /\ front \o after \in Seq(S) /\ Len(front \o after) = k + (n - k + 1)
      /\ \A i \in 1 .. k + (n - k + 1) :
           (front \o after)[i] = IF i <= k THEN front[i] ELSE after[i - k]
  <2>1. /\ front \o after \in Seq(S) /\ Len(front \o after) = Len(front) + Len(after)
        /\ \A i \in 1 .. Len(front) + Len(after) :
             (front \o after)[i] = IF i <= Len(front) THEN front[i] ELSE after[i - Len(front)]
    BY <1>3, <1>5, ConcatProperties, Zenon
  <2> QED
    BY <1>3, <1>5, <2>1
<1>7. InsertAt(s, k, e) = front \o after
  BY DEF InsertAt, front, before, after, n
<1>8. k + (n - k + 1) = n + 1 /\ \A i \in k + 1 .. n + 1 : i - k \in 1 .. n - k + 1 /\ k + (i - k) - 1 = i - 1
  BY <1>1
<1>9. \A i \in 1 .. n + 1 :
        (front \o after)[i] = IF i < k THEN s[i] ELSE IF i = k THEN e ELSE s[i - 1]
  <2> SUFFICES ASSUME NEW i \in 1 .. n + 1
               PROVE  (front \o after)[i] = IF i < k THEN s[i] ELSE IF i = k THEN e ELSE s[i - 1]
    OBVIOUS
  <2>1. (front \o after)[i] = IF i <= k THEN front[i] ELSE after[i - k]
    BY <1>6, <1>8
  <2>2. CASE i <= k
    <3>1. i \in 1 .. k /\ (front \o after)[i] = front[i] /\ (i < k \/ i = k)
      BY <1>1, <2>1, <2>2
    <3> QED
      BY <1>5, <3>1
  <2>3. CASE ~(i <= k)
    <3>1. i \in k + 1 .. n + 1 /\ (front \o after)[i] = after[i - k] /\ ~(i < k) /\ i # k
      BY <1>1, <2>1, <2>3
    <3>2. i - k \in 1 .. n - k + 1 /\ k + (i - k) - 1 = i - 1
      BY <1>8, <3>1
    <3>3. after[i - k] = s[k + (i - k) - 1]
      BY <1>3, <3>2
    <3> QED
      BY <3>1, <3>2, <3>3
  <2> QED
    BY <2>2, <2>3
<1> QED
  BY <1>6, <1>7, <1>8, <1>9 DEF n

\* A set of positions that is closed downwards is as long as its cardinality.
LEMMA InitialSegment ==
  ASSUME NEW n \in Nat, NEW S \in SUBSET (1 .. n),
         \A i \in S : \A j \in 1 .. i : j \in S
  PROVE  Cardinality(S) \in 0 .. n /\ S = 1 .. Cardinality(S)
<1>1. IsFiniteSet(1 .. n) /\ Cardinality(1 .. n) = n
  <2>1. 1 \in Int /\ n \in Int
    OBVIOUS
  <2>2. IsFiniteSet(1 .. n) /\ Cardinality(1 .. n) = IF 1 > n THEN 0 ELSE n - 1 + 1
    BY <2>1, FS_Interval, Zenon
  <2> QED
    BY <2>2
<1>2. IsFiniteSet(S) /\ Cardinality(S) <= n
  <2>1. IsFiniteSet(S) /\ Cardinality(S) <= Cardinality(1 .. n)
    BY <1>1, FS_Subset, Zenon
  <2> QED
    BY <1>1, <2>1, Zenon
<1>3. PICK c \in Nat : c = Cardinality(S)
  BY <1>2, FS_CardinalityType
<1>4. S \subseteq 1 .. c
  <2> SUFFICES ASSUME NEW i \in S PROVE i \in 1 .. c
    OBVIOUS
  <2>1. i \in Nat /\ i >= 1
    OBVIOUS
  <2>2. (1 .. i) \in SUBSET S
    OBVIOUS
  <2>3. Cardinality(1 .. i) = i
    BY <2>1, FS_Interval
  <2>4. Cardinality(1 .. i) <= Cardinality(S)
    BY <1>2, <2>2, FS_Subset
  <2> QED
    BY <1>3, <2>1, <2>3, <2>4
<1>5. IsFiniteSet(1 .. c) /\ Cardinality(1 .. c) = c
  BY FS_Interval
<1>6. Cardinality(S) = Cardinality(1 .. c) => S = 1 .. c
  BY <1>4, <1>5, FS_Subset
<1> QED
  BY <1>2, <1>3, <1>5, <1>6

-----------------------------------------------------------------------------
(* The inductive invariant.                                                *)

Busy == {"begin", "open", "blocks", "schedule", "store", "call", "delete"}
BlockNumbers(r) == 0 .. BlockCount[r] - 1
Queued == {queue[i] : i \in DOMAIN queue}

\* No job was made for r.
Untouched(r) == \A b \in BlockNumbers(r) : jobs[<<r, b>>] = "none"

\* Nobody did anything for r yet.
Fresh(r) == entries[r].alive /\ answers[r] = <<>> /\ Untouched(r)

\* The blocks whose jobs have still to run to the end, and those that called back.
Undone(r) == {b \in BlockNumbers(r) : jobs[<<r, b>>] # "done"}
CalledBack(r) == {b \in BlockNumbers(r) : jobs[<<r, b>>] \in {"leave", "done"}}
BlocksAnswered(r) == {answers[r][i].block : i \in DOMAIN answers[r]}

\* r belongs to its jobs: the counter of its entry is the number of those that
\* have not left, the entry lives as long as there is one, and each calls once.
ByJobs(r) ==
  /\ KindOf[r] = "block"
  /\ \A b \in BlockNumbers(r) : jobs[<<r, b>>] # "none"
  /\ entries[r].remaining = Cardinality(Undone(r))
  /\ entries[r].alive <=> Undone(r) # {}
  /\ BlocksAnswered(r) = CalledBack(r)
  /\ Len(answers[r]) = Cardinality(CalledBack(r))

\* What AnsweredOnce says of one request.
Complete(r) ==
  \/ /\ Len(answers[r]) = 1
     /\ KindOf[r] = "block" => answers[r][1].status \in {"failed", "canceled"}
  \/ /\ KindOf[r] = "block" /\ Len(answers[r]) = BlockCount[r]
     /\ BlocksAnswered(r) = BlockNumbers(r)
  \/ /\ KindOf[r] = "raw" /\ Len(answers[r]) <= BlockCount[r]
     /\ Last(answers[r]).status \in {"failed", "canceled"}

Entry == [alive : BOOLEAN, status : Statuses, cancel : BOOLEAN, remaining : Nat]
Answer == [block : Nat, status : Statuses]

Types ==
  /\ pc \in {"top", "wait", "take", "exited"} \union Busy
  /\ destroyer \in {"idle", "send", "join", "gone"}
  /\ queueEvent \in BOOLEAN
  /\ queue \in Seq(Requests) /\ arrived \in Seq(Requests)
  /\ current \in Requests \union {NoRequest}
  /\ outcome \in {"succeeded", "failed", "canceled"}
  /\ blocksRead \in Nat
  /\ jobs \in [AllBlocks -> {"none", "made", "scheduled", "store", "call", "leave", "done"}]
  /\ entries \in [Requests -> Entry]
  /\ answers \in [Requests -> Seq(Answer)]
  /\ withdrawn \subseteq Issued
  /\ fault \in {"none", "event", "controller", "pool"} /\ (fault = "pool" => destroyer = "gone")

\* What the counter of an entry can hold.
Counters == \A r \in Requests : entries[r].remaining <= BlockCount[r]

\* Every request is enqueued once, and nothing happens to it before.
Arrivals ==
  /\ \A i, j \in DOMAIN arrived : arrived[i] = arrived[j] => i = j
  /\ \A r \in Requests \ Issued : ~entries[r].alive /\ answers[r] = <<>> /\ Untouched(r)

\* The queue is sorted and holds what nobody took.
Before(q, r) ==
  \/ PriorityOf[q] < PriorityOf[r]
  \/ PriorityOf[q] = PriorityOf[r] /\ Position(q) < Position(r)

Sorted == \A i, j \in DOMAIN queue : i < j => Before(queue[i], queue[j])

QueueState ==
  /\ Sorted
  /\ \A r \in Queued : r \in Issued /\ r # current /\ Fresh(r)

\* What the reader's place says of the request it processes.
ReaderHolds ==
  /\ pc \in Busy <=> current # NoRequest
  /\ pc \in Busy => current \in Issued
  /\ pc \in {"begin", "open"} => Fresh(current)
  /\ pc = "open" => blocksRead = 0
  /\ pc = "blocks" =>
       /\ entries[current].alive /\ blocksRead <= BlockCount[current]
       /\ \/ /\ KindOf[current] = "raw" /\ Untouched(current)
             /\ Len(answers[current]) = blocksRead
          \/ /\ KindOf[current] = "block" /\ answers[current] = <<>>
             /\ \A b \in BlockNumbers(current) :
                  jobs[<<current, b>>] = IF b < blocksRead THEN "made" ELSE "none"
  /\ pc = "schedule" => ByJobs(current) \/ (KindOf[current] = "raw" /\ Untouched(current))
  /\ pc \in {"store", "call"} =>
       /\ entries[current].alive /\ Untouched(current)
       /\ KindOf[current] = "raw" => Len(answers[current]) < BlockCount[current]
       /\ KindOf[current] # "raw" => answers[current] = <<>>
       /\ KindOf[current] # "read" => outcome \in {"failed", "canceled"}
       /\ pc = "call" => entries[current].status = outcome
  /\ pc = "delete" => Untouched(current) /\ Complete(current)

\* A request that was withdrawn stays cancelled on its way through the reader.
StaysCanceled(r) ==
  /\ entries[r].cancel /\ Untouched(r)
  /\ \A i \in DOMAIN answers[r] : answers[r][i].status = "canceled"
  /\ r = current =>
       /\ pc \notin {"blocks", "schedule"}
       /\ pc \in {"open", "call"} => entries[r].status = "canceled"
       /\ pc \in {"store", "call"} => outcome = "canceled"

\* What is known of a request wherever it is.
Followed(r) ==
  /\ (r = current /\ pc = "blocks") \/ Untouched(r) \/ ByJobs(r)
  /\ r \in Issued /\ ~entries[r].alive => Complete(r)
  /\ r \in withdrawn => StaysCanceled(r)

IInv ==
  /\ Types /\ Counters /\ QueuedKeepsEvent
  /\ Arrivals /\ QueueState /\ ReaderHolds
  /\ \A r \in Requests : Followed(r)

-----------------------------------------------------------------------------
(* The operators of the model.                                             *)

\* The blocks of a request, by number and as pairs.
LEMMA Blocks ==
  ASSUME NEW r \in Requests
  PROVE  /\ BlockCount[r] \in Nat \ {0}
         /\ IsFiniteSet(BlockNumbers(r)) /\ Cardinality(BlockNumbers(r)) = BlockCount[r]
         /\ 0 \in BlockNumbers(r)
         /\ \A b \in BlockNumbers(r) : <<r, b>> \in AllBlocks /\ <<r, b>> \in BlocksOf(r)
         /\ \A rb \in BlocksOf(r) : \E b \in BlockNumbers(r) : rb = <<r, b>>
<1>1. BlockCount[r] \in Nat \ {0}
  BY RequestsAssumption
<1>2. IsFiniteSet(BlockNumbers(r)) /\ Cardinality(BlockNumbers(r)) = BlockCount[r]
  <2>1. 0 \in Int /\ BlockCount[r] - 1 \in Int /\ ~(0 > BlockCount[r] - 1)
    BY <1>1
  <2>2. IsFiniteSet(0 .. BlockCount[r] - 1) /\ Cardinality(0 .. BlockCount[r] - 1) = BlockCount[r] - 1 - 0 + 1
    BY <2>1, FS_Interval, Zenon
  <2> QED
    BY <1>1, <2>2 DEF BlockNumbers
<1>3. \A b \in BlockNumbers(r) : <<r, b>> \in BlocksOf(r)
  BY DEF BlocksOf, BlockNumbers
<1>4. BlocksOf(r) \subseteq AllBlocks
  BY DEF AllBlocks
<1>5. \A rb \in BlocksOf(r) : \E b \in BlockNumbers(r) : rb = <<r, b>>
  BY DEF BlocksOf, BlockNumbers
<1>6. 0 \in BlockNumbers(r)
  BY <1>1 DEF BlockNumbers
<1> QED
  BY <1>1, <1>2, <1>3, <1>4, <1>5, <1>6

\* A block is a request and a number.
LEMMA BlockIsPair ==
  ASSUME NEW rb \in AllBlocks
  PROVE  /\ rb[1] \in Requests /\ rb[2] \in BlockNumbers(rb[1]) /\ rb[2] \in Nat
         /\ rb = <<rb[1], rb[2]>>
<1>1. PICK r \in Requests : rb \in BlocksOf(r)
  BY DEF AllBlocks
<1>2. PICK b \in BlockNumbers(r) : rb = <<r, b>>
  BY <1>1, Blocks
<1>3. rb[1] = r /\ rb[2] = b
  BY <1>2
<1> QED
  BY <1>2, <1>3 DEF BlockNumbers

\* The sets of blocks that ByJobs counts are finite.
LEMMA CountedBlocks ==
  ASSUME NEW r \in Requests
  PROVE  /\ IsFiniteSet(Undone(r)) /\ Cardinality(Undone(r)) \in 0 .. BlockCount[r]
         /\ Cardinality(Undone(r)) = 0 <=> Undone(r) = {}
         /\ IsFiniteSet(CalledBack(r)) /\ Cardinality(CalledBack(r)) \in 0 .. BlockCount[r]
<1>1. Undone(r) \in SUBSET BlockNumbers(r) /\ CalledBack(r) \in SUBSET BlockNumbers(r)
  BY DEF Undone, CalledBack
<1>2. /\ IsFiniteSet(Undone(r)) /\ Cardinality(Undone(r)) <= BlockCount[r]
      /\ IsFiniteSet(CalledBack(r)) /\ Cardinality(CalledBack(r)) <= BlockCount[r]
  BY <1>1, Blocks, FS_Subset
<1>3. Cardinality(Undone(r)) \in Nat /\ Cardinality(CalledBack(r)) \in Nat
  BY <1>2, FS_CardinalityType
<1>4. Cardinality(Undone(r)) = 0 <=> Undone(r) = {}
  BY <1>2, FS_EmptySet
<1> QED
  BY <1>2, <1>3, <1>4, Blocks

\* A request that nobody touched does not belong to its jobs.
LEMMA UntouchedOrJobs ==
  ASSUME NEW r \in Requests
  PROVE  ~(Untouched(r) /\ ByJobs(r))
BY Blocks DEF Untouched, ByJobs

\* The position of what was enqueued once.
LEMMA PositionIs ==
  ASSUME \A i, j \in DOMAIN arrived : arrived[i] = arrived[j] => i = j,
         NEW k \in DOMAIN arrived
  PROVE  Position(arrived[k]) = k
BY DEF Position

\* upper_bound parts a sorted queue: what does not exceed the value is before it.
LEMMA UpperBoundParts ==
  ASSUME queue \in Seq(Requests), Sorted, NEW p \in Int
  PROVE  /\ UpperBound(p) \in 1 .. Len(queue) + 1
         /\ \A i \in 1 .. Len(queue) : PriorityOf[queue[i]] <= p <=> i < UpperBound(p)
<1> DEFINE S == {i \in DOMAIN queue : PriorityOf[queue[i]] <= p}
<1>1. DOMAIN queue = 1 .. Len(queue) /\ Len(queue) \in Nat
  BY LenProperties
<1>2. \A i \in DOMAIN queue : PriorityOf[queue[i]] \in Int
  BY <1>1, ElementOfSeq, RequestsAssumption
<1>3. S \in SUBSET (1 .. Len(queue))
  BY <1>1
<1>4. \A i \in S : \A j \in 1 .. i : j \in S
  <2> SUFFICES ASSUME NEW i \in S, NEW j \in 1 .. i, j # i PROVE j \in S
    OBVIOUS
  <2>1. j \in DOMAIN queue /\ j < i
    BY <1>1
  <2>2. PriorityOf[queue[j]] <= PriorityOf[queue[i]]
    BY <1>2, <2>1 DEF Sorted, Before
  <2> QED
    BY <1>2, <2>1, <2>2
<1> HIDE DEF S
<1>5. Cardinality(S) \in 0 .. Len(queue) /\ S = 1 .. Cardinality(S)
  BY <1>1, <1>3, <1>4, InitialSegment
<1>6. UpperBound(p) = 1 + Cardinality(S)
  BY DEF UpperBound, S
<1>7. UpperBound(p) \in 1 .. Len(queue) + 1
  BY <1>1, <1>5, <1>6
<1>8. ASSUME NEW i \in 1 .. Len(queue) PROVE PriorityOf[queue[i]] <= p <=> i < UpperBound(p)
  <2>1. PriorityOf[queue[i]] <= p <=> i \in S
    BY <1>1 DEF S
  <2>2. i \in S <=> i <= Cardinality(S)
    BY <1>1, <1>5
  <2> QED
    BY <1>1, <1>5, <1>6, <2>1, <2>2
<1> QED
  BY <1>7, <1>8

\* What a callback adds to the answers of a request.
LEMMA CalledAdds ==
  ASSUME Types, NEW r \in Requests, NEW block \in Nat, Called(r, block)
  PROVE  /\ answers' \in [Requests -> Seq(Answer)]
         /\ Len(answers'[r]) = Len(answers[r]) + 1 /\ Len(answers[r]) \in Nat
         /\ answers'[r][Len(answers[r]) + 1] = [block |-> block, status |-> entries[r].status]
         /\ \A i \in 1 .. Len(answers[r]) : answers'[r][i] = answers[r][i]
         /\ DOMAIN answers'[r] = 1 .. Len(answers[r]) + 1
         /\ DOMAIN answers[r] = 1 .. Len(answers[r])
         /\ Last(answers'[r]).status = entries[r].status
         /\ BlocksAnswered(r)' = BlocksAnswered(r) \union {block}
         /\ \A q \in Requests \ {r} : answers'[q] = answers[q]
<1> DEFINE a == [block |-> block, status |-> entries[r].status]
           old == answers[r]
<1>1. entries[r].status \in Statuses /\ a \in Answer
  BY DEF Types, Entry, Answer
<1>2. old \in Seq(Answer)
  BY DEF Types
<1>3. /\ answers' = [answers EXCEPT ![r] = Append(old, a)]
  BY DEF Called
<1> HIDE DEF a, old
<1>4. /\ Append(old, a) \in Seq(Answer) /\ Len(Append(old, a)) = Len(old) + 1
      /\ \A i \in 1 .. Len(old) : Append(old, a)[i] = old[i]
      /\ Append(old, a)[Len(old) + 1] = a
  BY <1>1, <1>2, AppendElements
<1>5. answers'[r] = Append(old, a) /\ answers' \in [Requests -> Seq(Answer)]
  BY <1>3, <1>4 DEF Types
<1>6. Len(old) \in Nat /\ DOMAIN old = 1 .. Len(old) /\ DOMAIN answers'[r] = 1 .. Len(old) + 1
  BY <1>2, <1>4, <1>5, LenProperties
<1>7. Last(answers'[r]) = a
  BY <1>4, <1>5 DEF Last
<1>8. BlocksAnswered(r)' = BlocksAnswered(r) \union {block}
  <2>1. BlocksAnswered(r)' = {answers'[r][i].block : i \in 1 .. Len(old) + 1}
    BY <1>6 DEF BlocksAnswered
  <2>2. BlocksAnswered(r) = {old[i].block : i \in 1 .. Len(old)}
    BY <1>6 DEF BlocksAnswered, old
  <2>3. a.block = block
    BY DEF a
  <2>4. \A i \in 1 .. Len(old) : answers'[r][i] = old[i]
    BY <1>4, <1>5
  <2>5. answers'[r][Len(old) + 1].block = block
    BY <1>4, <1>5, <2>3
  <2>6. 1 .. Len(old) + 1 = (1 .. Len(old)) \union {Len(old) + 1}
    BY <1>6
  <2> QED
    BY <2>1, <2>2, <2>4, <2>5, <2>6
<1>9. \A q \in Requests \ {r} : answers'[q] = answers[q]
  BY <1>3 DEF Types
<1>10. a.status = entries[r].status
  BY DEF a
<1> QED
  BY <1>4, <1>5, <1>6, <1>7, <1>8, <1>9, <1>10 DEF old, a

-----------------------------------------------------------------------------
(* What stays as it was for a request that a step does not touch.          *)

Same(r) ==
  /\ entries'[r] = entries[r] /\ answers'[r] = answers[r]
  /\ \A b \in BlockNumbers(r) : jobs'[<<r, b>>] = jobs[<<r, b>>]

\* What a step leaves alone of a request leaves every part of its account alone.
LEMMA SameKeeps ==
  ASSUME NEW r \in Requests, Same(r)
  PROVE  /\ Untouched(r)' <=> Untouched(r)
         /\ Fresh(r)' <=> Fresh(r)
         /\ Undone(r)' = Undone(r) /\ CalledBack(r)' = CalledBack(r)
         /\ ByJobs(r)' <=> ByJobs(r)
         /\ Complete(r)' <=> Complete(r)
<1>1. Untouched(r)' <=> Untouched(r)
  BY DEF Same, Untouched, BlockNumbers
<1>2. Fresh(r)' <=> Fresh(r)
  BY <1>1 DEF Same, Fresh
<1>3. Undone(r)' = Undone(r) /\ CalledBack(r)' = CalledBack(r)
  BY DEF Same, Undone, CalledBack, BlockNumbers
<1>4. BlocksAnswered(r)' = BlocksAnswered(r)
  BY DEF Same, BlocksAnswered
<1>5. (\A b \in BlockNumbers(r) : jobs[<<r, b>>] # "none")' <=> \A b \in BlockNumbers(r) : jobs[<<r, b>>] # "none"
  BY DEF Same, BlockNumbers
<1>6. ByJobs(r)' <=> ByJobs(r)
  BY <1>3, <1>4, <1>5 DEF Same, ByJobs
<1>7. Complete(r)' <=> Complete(r)
  BY <1>4 DEF Same, Complete, BlockNumbers
<1> QED
  BY <1>1, <1>2, <1>3, <1>6, <1>7

\* The queue and the arrivals are kept by a step that does not enqueue and
\* touches one request that was enqueued and is not in the queue.
LEMMA QueueKept ==
  ASSUME IInv, NEW c \in Issued, c \notin Queued, UNCHANGED <<queue, arrived>>,
         current' \in {current, NoRequest}, \A r \in Requests \ {c} : Same(r)
  PROVE  Arrivals' /\ QueueState'
<1>1. Issued' = Issued /\ Queued' = Queued /\ DOMAIN queue' = DOMAIN queue
  BY DEF Issued, Queued
<1>2. Sorted'
  BY DEF IInv, QueueState, Sorted, Before, Position
<1>3. Queued \subseteq Requests
  <2>1. \A i \in DOMAIN queue : queue[i] \in Requests
    BY LenProperties, ElementOfSeq DEF IInv, Types
  <2> QED
    BY <2>1 DEF Queued
<1>4. ASSUME NEW r \in Queued PROVE r \in Issued /\ r # current' /\ Fresh(r)'
  <2>1. r \in Requests \ {c} /\ r \in Issued /\ r # current /\ Fresh(r)
    BY <1>3 DEF IInv, QueueState
  <2>2. Fresh(r)'
    BY <2>1, SameKeeps
  <2> QED
    BY <2>1, <2>2, RequestsAssumption
<1>5. ASSUME NEW r \in Requests \ Issued
      PROVE  (~entries[r].alive /\ answers[r] = <<>> /\ Untouched(r))'
  <2>1. r # c /\ ~entries[r].alive /\ answers[r] = <<>> /\ Untouched(r) /\ Same(r)
    BY <1>5 DEF IInv, Arrivals
  <2>2. Untouched(r)'
    BY <2>1, SameKeeps
  <2> QED
    BY <2>1, <2>2 DEF Same
<1> QED
  BY <1>1, <1>2, <1>4, <1>5 DEF IInv, Arrivals, QueueState

\* A request that a step of the reader or of a job does not touch is followed on.
LEMMA FollowedOn ==
  ASSUME IInv, UNCHANGED <<arrived, withdrawn>>, NEW r \in Requests, Same(r),
         \/ r # current /\ r # current'
         \/ UNCHANGED <<pc, current, outcome>>
  PROVE  Followed(r)'
<1>1. Followed(r) /\ Issued' = Issued
  BY DEF IInv, Issued
<1>2. ((r = current /\ pc = "blocks") \/ Untouched(r) \/ ByJobs(r))'
  BY <1>1, SameKeeps DEF Followed
<1>3. (r \in Issued /\ ~entries[r].alive => Complete(r))'
  BY <1>1, SameKeeps DEF Followed, Same
<1>4. (r \in withdrawn => StaysCanceled(r))'
  BY <1>1, SameKeeps DEF Followed, Same, StaysCanceled
<1> QED
  BY <1>2, <1>3, <1>4 DEF Followed

\* What a step of the reader on its request has still to show.
LEMMA ReaderKeeps ==
  ASSUME IInv, pc \in Busy, UNCHANGED <<queue, queueEvent, arrived, withdrawn>>,
         NEW c \in Requests, c = current, current' \in {current, NoRequest},
         \A r \in Requests \ {c} : Same(r),
         Types', entries'[c].remaining <= BlockCount[c],
         ReaderHolds', Followed(c)'
  PROVE  IInv'
<1>1. current \in Issued /\ current \in Requests /\ current \notin Queued
  BY DEF IInv, ReaderHolds, QueueState, Types, Issued
<1>2. Arrivals' /\ QueueState'
  BY <1>1, QueueKept
<1>3. \A r \in Requests : Followed(r)'
  <2> TAKE r \in Requests
  <2>1. CASE r = c
    BY <2>1
  <2>2. CASE r # c
    BY <2>2, FollowedOn, RequestsAssumption
  <2> QED
    BY <2>1, <2>2
<1>4. Counters'
  BY DEF IInv, Counters, Same
<1> QED
  BY <1>2, <1>3, <1>4 DEF IInv, QueuedKeepsEvent

\* What a step of a job on its request has still to show.
LEMMA JobKeeps ==
  ASSUME IInv, UNCHANGED Elsewhere, NEW c \in Issued, c \in Requests, c \notin Queued,
         \A r \in Requests \ {c} : Same(r),
         Types', entries'[c].remaining <= BlockCount[c],
         c = current => pc = "schedule" /\ ByJobs(c)', Followed(c)'
  PROVE  IInv'
<1>1. UNCHANGED <<pc, current, outcome, blocksRead, queue, queueEvent, arrived, withdrawn>>
  BY DEF Elsewhere, ClientState
<1>2. Arrivals' /\ QueueState'
  BY <1>1, QueueKept
<1>3. \A r \in Requests : Followed(r)'
  BY <1>1, FollowedOn
<1>4. Counters'
  BY DEF IInv, Counters, Same
<1>5. ReaderHolds'
  <2>1. ReaderHolds /\ Issued' = Issued
    BY <1>1 DEF IInv, Issued
  <2>2. CASE current = c
    BY <1>1, <2>1, <2>2 DEF ReaderHolds, Busy
  <2>3. CASE current = NoRequest
    BY <1>1, <2>1, <2>3 DEF ReaderHolds, Busy
  <2>4. CASE current \in Requests \ {c}
    <3>1. Same(current)
      BY <2>4
    <3>2. /\ Untouched(current)' <=> Untouched(current)
          /\ Fresh(current)' <=> Fresh(current)
          /\ ByJobs(current)' <=> ByJobs(current)
          /\ Complete(current)' <=> Complete(current)
      <4> DEFINE q == current
      <4>1. q \in Requests /\ Same(q) /\ q' = q
        BY <1>1, <2>4, <3>1
      <4> QED
        BY <4>1, <1>1, SameKeeps DEF Untouched, Fresh, ByJobs, Complete
    <3> QED
      BY <1>1, <2>1, <2>4, <3>1, <3>2 DEF ReaderHolds, Same, Busy
  <2> QED
    BY <2>2, <2>3, <2>4 DEF IInv, Types
<1> QED
  BY <1>1, <1>2, <1>3, <1>4, <1>5 DEF IInv, QueuedKeepsEvent

-----------------------------------------------------------------------------
(* The initial state and the clients.                                      *)

\* Before the reader thread is made the invariant holds.
LEMMA InitIInv == Init => IInv
<1> SUFFICES ASSUME Init PROVE IInv
  OBVIOUS
<1>1. \A r \in Requests : Untouched(r)
  BY Blocks DEF Init, Untouched
<1>2. \A r \in Requests : entries[r] = [alive |-> FALSE, status |-> "queued", cancel |-> FALSE, remaining |-> 0]
                          /\ answers[r] = <<>>
  BY DEF Init
<1>3. Issued = {} /\ Queued = {} /\ DOMAIN queue = {} /\ DOMAIN arrived = {}
  BY DEF Init, Issued, Queued
<1>4. Types
  <2>1. entries \in [Requests -> Entry]
    BY DEF Init, Entry, Statuses
  <2>2. answers \in [Requests -> Seq(Answer)]
    BY DEF Init
  <2>3. jobs \in [AllBlocks -> {"none", "made", "scheduled", "store", "call", "leave", "done"}]
    BY DEF Init
  <2>4. queue \in Seq(Requests) /\ arrived \in Seq(Requests) /\ withdrawn \subseteq Issued
    BY DEF Init
  <2> QED
    BY <2>1, <2>2, <2>3, <2>4 DEF Init, Types
<1>5. Counters
  BY <1>2, Blocks DEF Counters
<1>6. Arrivals /\ QueueState /\ QueuedKeepsEvent
  BY <1>1, <1>2, <1>3 DEF Arrivals, QueueState, Sorted, QueuedKeepsEvent, Init
<1>7. ReaderHolds
  BY DEF Init, ReaderHolds, Busy
<1>8. \A r \in Requests : Followed(r)
  BY <1>1, <1>3 DEF Followed, Init
<1> QED
  BY <1>4, <1>5, <1>6, <1>7, <1>8 DEF IInv

\* A step that touches no request.
LEMMA NoRequestTouched ==
  ASSUME IInv,
         UNCHANGED <<queue, current, outcome, blocksRead, jobs, entries, answers, arrived, withdrawn>>,
         pc' = pc \/ (pc \notin Busy /\ pc' \notin Busy), Types', QueuedKeepsEvent'
  PROVE  IInv'
<1>1. \A r \in Requests : Same(r)
  BY DEF Same
<1>2. Issued' = Issued /\ Queued' = Queued
  BY DEF Issued, Queued
<1>3. Arrivals' /\ QueueState' /\ Counters'
  BY <1>2 DEF IInv, Arrivals, QueueState, Counters, Sorted, Before, Position, Fresh, Untouched, BlockNumbers
<1>4. \A r \in Requests : Followed(r)'
  <2> TAKE r \in Requests
  <2>1. CASE pc' = pc
    BY <1>1, <2>1, FollowedOn
  <2>2. CASE pc \notin Busy /\ pc' \notin Busy
    <3>1. current = NoRequest
      BY <2>2 DEF IInv, ReaderHolds
    <3> QED
      BY <1>1, <3>1, FollowedOn, RequestsAssumption
  <2> QED
    BY <2>1, <2>2
<1>5. ReaderHolds'
  <2>1. CASE pc' = pc
    <3>1. CASE current = NoRequest
      BY <2>1, <3>1 DEF IInv, ReaderHolds, Busy
    <3>2. CASE current # NoRequest
      <4>1. PICK c \in Requests : c = current /\ Same(c)
        BY <1>1, <3>2 DEF IInv, Types
      <4>2. /\ Untouched(c)' <=> Untouched(c)
            /\ Fresh(c)' <=> Fresh(c)
            /\ ByJobs(c)' <=> ByJobs(c)
            /\ Complete(c)' <=> Complete(c)
        BY <4>1, SameKeeps
      <4> QED
        BY <1>2, <2>1, <4>1, <4>2 DEF IInv, ReaderHolds, Busy, Untouched, Fresh, ByJobs, Complete
    <3> QED
      BY <3>1, <3>2
  <2>2. CASE pc \notin Busy /\ pc' \notin Busy
    BY <2>2 DEF IInv, ReaderHolds, Busy
  <2> QED
    BY <2>1, <2>2
<1> QED
  BY <1>3, <1>4, <1>5 DEF IInv

\* The reader's steps between two requests, the shut down and stuttering.
LEMMA StepsBesideRequests ==
  ASSUME IInv,
         \/ Construct \/ DestroyFlag \/ Destructor \/ WaitFailed \/ LoopTop \/ Wake
         \/ \E r \in Requests : LateGetStatus(r)
         \/ \E rb \in AllBlocks : JobWithoutPools(rb)
         \/ UNCHANGED vars
  PROVE  IInv'
<1>1. /\ UNCHANGED <<queue, current, outcome, blocksRead, jobs, entries, answers, arrived, withdrawn>>
      /\ pc' = pc \/ (pc \notin Busy /\ pc' \notin Busy)
  BY DEF Construct, DestroyFlag, Destructor, DestroySend, DestroyPools, JobWithoutPools, Elsewhere, WaitFailed, LoopTop, Wake, LateGetStatus, ReaderState,
     ClientState, vars, At, Busy, Continue
<1>2. Issued' = Issued
  BY <1>1 DEF Issued
<1>3. pc' \in {"top", "wait", "take", "exited"} \union Busy
  BY DEF IInv, Types, Construct, DestroyFlag, Destructor, DestroySend, DestroyPools, JobWithoutPools, Elsewhere, WaitFailed, LoopTop, Wake, LateGetStatus,
     ReaderState, vars, Continue
<1>4. queueEvent' \in BOOLEAN /\ destroyer' \in {"idle", "send", "join", "gone"}
  BY DEF IInv, Types, Construct, DestroyFlag, Destructor, DestroySend, DestroyPools, JobWithoutPools, Elsewhere, WaitFailed, LoopTop, Wake, LateGetStatus,
     ClientState, vars
<1>5. fault' \in {"none", "event", "controller", "pool"} /\ (fault' = "pool" => destroyer' = "gone")
  BY DEF IInv, Types, Construct, DestroyFlag, Destructor, DestroySend, DestroyPools, JobWithoutPools, Elsewhere, WaitFailed, LoopTop, Wake, LateGetStatus,
     vars, PoolsGone, ClientState, At
<1>6. Types'
  BY <1>1, <1>2, <1>3, <1>4, <1>5 DEF IInv, Types
<1>7. QueuedKeepsEvent'
  BY DEF IInv, QueuedKeepsEvent, Construct, DestroyFlag, Destructor, DestroySend, DestroyPools, JobWithoutPools, Elsewhere, WaitFailed, LoopTop, Wake,
     LateGetStatus, vars
<1> QED
  BY <1>1, <1>6, <1>7, NoRequestTouched

\* A request enters the queue behind those that do not exceed its priority value.
LEMMA ReadAsyncKeeps ==
  ASSUME IInv, NEW r \in Requests, ReadAsync(r)
  PROVE  IInv'
<1> DEFINE U == UpperBound(PriorityOf[r])
           n == Len(queue)
           m == Len(arrived)
           Place(q) == CHOOSE i \in DOMAIN arrived' : arrived'[i] = q
           Earlier(p, q) == \/ PriorityOf[p] < PriorityOf[q]
                            \/ PriorityOf[p] = PriorityOf[q] /\ Place(p) < Place(q)
<1>1. /\ Types /\ Sorted /\ ReaderHolds
      /\ \A i, j \in DOMAIN arrived : arrived[i] = arrived[j] => i = j
  BY DEF IInv, Arrivals, QueueState
<1>2. /\ queue \in Seq(Requests) /\ DOMAIN queue = 1 .. n /\ n \in Nat
      /\ arrived \in Seq(Requests) /\ DOMAIN arrived = 1 .. m /\ m \in Nat
  BY <1>1, LenProperties DEF Types
<1>3. U \in 1 .. n + 1 /\ \A i \in 1 .. n : PriorityOf[queue[i]] <= PriorityOf[r] <=> i < U
  BY <1>1, <1>2, UpperBoundParts, RequestsAssumption
<1> HIDE DEF U
<1>4. queue' = InsertAt(queue, U, r)
  BY DEF ReadAsync, U
<1>5. /\ queue' \in Seq(Requests) /\ DOMAIN queue' = 1 .. n + 1
      /\ \A i \in 1 .. n + 1 : queue'[i] = IF i < U THEN queue[i] ELSE IF i = U THEN r ELSE queue[i - 1]
  <2>1. /\ InsertAt(queue, U, r) \in Seq(Requests) /\ Len(InsertAt(queue, U, r)) = n + 1
        /\ \A i \in 1 .. n + 1 :
             InsertAt(queue, U, r)[i] = IF i < U THEN queue[i] ELSE IF i = U THEN r ELSE queue[i - 1]
    <3>1. U \in 1 .. Len(queue) + 1
      BY <1>3
    <3>2. r \in Requests
      OBVIOUS
    <3>3. queue \in Seq(Requests)
      BY <1>2
    <3> HIDE DEF Place, Earlier, n
    <3>4. /\ InsertAt(queue, U, r) \in Seq(Requests) /\ Len(InsertAt(queue, U, r)) = Len(queue) + 1
          /\ \A i \in 1 .. Len(queue) + 1 :
               InsertAt(queue, U, r)[i] = IF i < U THEN queue[i] ELSE IF i = U THEN r ELSE queue[i - 1]
      BY <3>1, <3>2, <3>3, InsertAtElements
    <3> QED
      BY <3>4, Zenon DEF n
  <2>2. n + 1 \in Nat /\ DOMAIN InsertAt(queue, U, r) = 1 .. n + 1
    BY <1>2, <2>1, LenProperties
  <2> QED
    BY <1>4, <2>1, <2>2, Zenon
<1>6. /\ arrived' \in Seq(Requests) /\ DOMAIN arrived' = 1 .. m + 1
      /\ \A i \in 1 .. m : arrived'[i] = arrived[i]
      /\ arrived'[m + 1] = r
  <2>1. arrived' = Append(arrived, r)
    BY DEF ReadAsync
  <2> QED
    BY <1>2, <2>1, AppendElements
<1>7. r \notin Issued /\ Issued' = Issued \union {r}
  <2>1. r \notin Issued
    BY DEF ReadAsync
  <2>2. 1 .. m + 1 = (1 .. m) \union {m + 1}
    BY <1>2
  <2> QED
    BY <1>2, <1>6, <2>1, <2>2 DEF Issued
<1>8. \A i, j \in DOMAIN arrived' : arrived'[i] = arrived'[j] => i = j
  <2>1. \A i \in 1 .. m : arrived'[i] \in Issued
    BY <1>2, <1>6 DEF Issued
  <2> QED
    BY <1>1, <1>2, <1>6, <1>7, <2>1
<1>9. \A q \in Issued : Place(q) = Position(q) /\ Position(q) \in 1 .. m /\ Place(r) = m + 1
  <2> TAKE q \in Issued
  <2>1. PICK k \in 1 .. m : arrived[k] = q
    BY <1>2 DEF Issued
  <2>2. Position(q) = k
    BY <1>1, <1>2, <2>1, PositionIs
  <2>3. k \in DOMAIN arrived' /\ arrived'[k] = q /\ m + 1 \in DOMAIN arrived' /\ arrived'[m + 1] = r
    BY <1>2, <1>6, <2>1
  <2>4. Place(q) = k
    BY <1>8, <2>3
  <2>5. Place(r) = m + 1
    BY <1>8, <2>3
  <2> QED
    BY <2>2, <2>4, <2>5
<1>10. \A i \in 1 .. n : queue[i] \in Issued /\ queue[i] \in Requests /\ PriorityOf[queue[i]] \in Int
  <2>1. \A i \in 1 .. n : queue[i] \in Requests
    BY <1>2, ElementOfSeq
  <2> QED
    BY <1>2, <2>1, RequestsAssumption DEF IInv, QueueState, Queued
<1>11. Sorted'
  <2> SUFFICES \A i, j \in DOMAIN queue' : i < j => Earlier(queue'[i], queue'[j])
    BY Zenon DEF Sorted, Before, Position
  <2> HIDE DEF Earlier
  <2> SUFFICES ASSUME NEW i \in 1 .. n + 1, NEW j \in 1 .. n + 1, i < j
               PROVE  Earlier(queue'[i], queue'[j])
    BY <1>5
  <2> USE DEF Earlier
  <2>1. PriorityOf[r] \in Int
    BY RequestsAssumption
  <2>2. CASE i # U /\ j # U
    <3> DEFINE k == IF i < U THEN i ELSE i - 1
               l == IF j < U THEN j ELSE j - 1
    <3>1. k \in 1 .. n /\ l \in 1 .. n /\ k < l /\ queue'[i] = queue[k] /\ queue'[j] = queue[l]
      BY <1>2, <1>3, <1>5, <2>2
    <3>2. Before(queue[k], queue[l])
      BY <1>1, <1>2, <3>1 DEF Sorted
    <3> HIDE DEF Place, k, l
    <3>3. Place(queue[k]) = Position(queue[k]) /\ Place(queue[l]) = Position(queue[l])
      BY <1>9, <1>10, <3>1
    <3> QED
      BY <3>1, <3>2, <3>3 DEF Before
  <2>3. CASE i = U
    <3>1. j - 1 \in 1 .. n /\ ~(j - 1 < U) /\ queue'[i] = r /\ queue'[j] = queue[j - 1]
      BY <1>2, <1>3, <1>5, <2>3
    <3>2. PriorityOf[r] < PriorityOf[queue[j - 1]]
      BY <1>3, <1>10, <2>1, <3>1
    <3> QED
      BY <3>1, <3>2
  <2>4. CASE j = U
    <3>1. i \in 1 .. n /\ i < U /\ queue'[i] = queue[i] /\ queue'[j] = r
      BY <1>2, <1>3, <1>5, <2>4
    <3>2. PriorityOf[queue[i]] <= PriorityOf[r]
      BY <1>3, <3>1
    <3> HIDE DEF Place
    <3>3. Place(queue[i]) < Place(r)
      BY <1>2, <1>9, <1>10, <3>1
    <3> QED
      BY <1>10, <2>1, <3>1, <3>2, <3>3
  <2> QED
    BY <2>2, <2>3, <2>4
<1>12. \A q \in Requests \ {r} : Same(q)
  BY <1>1 DEF ReadAsync, ReaderState, Same, Types
<1>13. /\ entries'[r] = [entries[r] EXCEPT !.alive = TRUE] /\ entries' \in [Requests -> Entry]
       /\ entries'[r].alive /\ entries'[r].remaining = entries[r].remaining
  <2>1. entries' = [entries EXCEPT ![r].alive = TRUE] /\ entries \in [Requests -> Entry]
    BY <1>1 DEF ReadAsync, Types
  <2> PICK e \in Entry : e = entries[r]
    BY <2>1
  <2>2. /\ entries'[r] = [entries[r] EXCEPT !.alive = TRUE]
        /\ entries' = [entries EXCEPT ![r] = [entries[r] EXCEPT !.alive = TRUE]]
    BY <2>1
  <2>3. /\ [e EXCEPT !.alive = TRUE] \in Entry
        /\ [e EXCEPT !.alive = TRUE].alive /\ [e EXCEPT !.alive = TRUE].remaining = e.remaining
    BY DEF Entry
  <2> QED
    BY <2>1, <2>2, <2>3
<1>14. ~entries[r].alive /\ answers[r] = <<>> /\ Untouched(r) /\ r # current
  BY <1>1, <1>7, RequestsAssumption DEF IInv, Arrivals, ReaderHolds
<1>15. answers'[r] = <<>> /\ Untouched(r)' /\ Fresh(r)'
  BY <1>13, <1>14 DEF ReadAsync, ReaderState, Untouched, BlockNumbers, Fresh, Types, Entry, IInv
<1>16. Types'
  <2>1. /\ UNCHANGED <<pc, current, outcome, blocksRead, jobs, destroyer, answers, withdrawn, fault>>
        /\ queueEvent' = TRUE
    BY DEF ReadAsync, ReaderState
  <2>2. withdrawn \subseteq Issued'
    BY <1>1, <1>7 DEF Types
  <2> QED
    BY <1>1, <1>5, <1>6, <1>13, <2>1, <2>2 DEF Types
<1>17. Counters'
  <2>1. \A q \in Requests : entries'[q].remaining = entries[q].remaining
    BY <1>12, <1>13 DEF Same
  <2> QED
    BY <2>1 DEF IInv, Counters
<1>18. Arrivals'
  <2>1. ASSUME NEW q \in Requests \ Issued' PROVE (~entries[q].alive /\ answers[q] = <<>> /\ Untouched(q))'
    <3>1. q \in Requests \ {r} /\ q \notin Issued /\ Same(q)
      BY <1>7, <1>12, <2>1
    <3>2. ~entries[q].alive /\ answers[q] = <<>> /\ Untouched(q)
      BY <3>1 DEF IInv, Arrivals
    <3> QED
      BY <3>1, <3>2, SameKeeps DEF Same
  <2> QED
    BY <1>8, <2>1 DEF Arrivals
<1>19. QueueState'
  <2>1. Queued' \subseteq Queued \union {r}
    <3>1. ASSUME NEW i \in 1 .. n + 1 PROVE queue'[i] = r \/ \E k \in 1 .. n : queue'[i] = queue[k]
      <4>1. CASE i < U
        BY <1>2, <1>3, <1>5, <4>1
      <4>2. CASE i = U
        BY <1>5, <4>2
      <4>3. CASE i > U
        <5>1. i - 1 \in 1 .. n /\ ~(i < U) /\ i # U
          BY <1>2, <1>3, <4>3
        <5> QED
          BY <1>5, <5>1
      <4> QED
        BY <1>3, <4>1, <4>2, <4>3
    <3> QED
      BY <1>2, <1>5, <3>1 DEF Queued
  <2>2. current' = current
    BY DEF ReadAsync, ReaderState
  <2>3. ASSUME NEW q \in Queued PROVE q \in Issued' /\ q # current' /\ Fresh(q)'
    <3>1. q \in Requests /\ q \in Issued /\ q # current /\ Fresh(q)
      BY <1>2, <1>10 DEF IInv, QueueState, Queued
    <3>2. Same(q)
      BY <1>7, <1>12, <3>1
    <3> QED
      BY <1>7, <2>2, <3>1, <3>2, SameKeeps
  <2> QED
    BY <1>7, <1>11, <1>14, <1>15, <2>1, <2>2, <2>3 DEF QueueState
<1>20. ReaderHolds'
  <2>1. UNCHANGED <<pc, current, outcome, blocksRead, jobs, answers>>
    BY DEF ReadAsync, ReaderState
  <2>2. CASE current = NoRequest
    BY <1>1, <2>1, <2>2 DEF ReaderHolds, Busy
  <2>3. CASE current # NoRequest
    <3>1. PICK c \in Requests : c = current /\ c \in Issued /\ Same(c)
      BY <1>1, <1>12, <1>14, <2>3 DEF Types, ReaderHolds
    <3>2. /\ Untouched(c)' <=> Untouched(c)
          /\ Fresh(c)' <=> Fresh(c)
          /\ ByJobs(c)' <=> ByJobs(c)
          /\ Complete(c)' <=> Complete(c)
      BY <3>1, SameKeeps
    <3> QED
      BY <1>1, <1>7, <2>1, <3>1, <3>2 DEF ReaderHolds, Same, Busy, Untouched, Fresh, ByJobs, Complete
  <2> QED
    BY <2>2, <2>3
<1>21. \A q \in Requests : Followed(q)'
  <2> TAKE q \in Requests
  <2>1. CASE q = r
    <3>1. r \notin withdrawn /\ withdrawn' = withdrawn
      BY <1>1, <1>7 DEF Types, ReadAsync
    <3> QED
      BY <1>15, <2>1, <3>1 DEF Followed, Fresh
  <2>2. CASE q # r
    <3>1. Same(q) /\ Followed(q) /\ (q \in Issued' <=> q \in Issued)
      BY <1>7, <1>12, <2>2 DEF IInv
    <3>2. UNCHANGED <<pc, current, outcome, withdrawn>>
      BY DEF ReadAsync, ReaderState
    <3>3. (Untouched(q)' <=> Untouched(q)) /\ (ByJobs(q)' <=> ByJobs(q)) /\ (Complete(q)' <=> Complete(q))
      BY <3>1, SameKeeps
    <3> QED
      BY <3>1, <3>2, <3>3 DEF Followed, Same, StaysCanceled
  <2> QED
    BY <2>1, <2>2
<1>22. QueuedKeepsEvent'
  BY DEF ReadAsync, QueuedKeepsEvent
<1> QED
  BY <1>16, <1>17, <1>18, <1>19, <1>20, <1>21, <1>22 DEF IInv

\* What is enqueued are requests.
LEMMA RequestSets ==
  ASSUME Types
  PROVE  /\ Issued \subseteq Requests /\ Queued \subseteq Requests
         /\ DOMAIN queue = 1 .. Len(queue) /\ Len(queue) \in Nat
<1>1. \A i \in DOMAIN queue : queue[i] \in Requests
  BY LenProperties, ElementOfSeq DEF Types
<1>2. \A i \in DOMAIN arrived : arrived[i] \in Requests
  BY LenProperties, ElementOfSeq DEF Types
<1> QED
  BY <1>1, <1>2, LenProperties DEF Issued, Queued, Types

\* A cancellation marks the entry, and the request as withdrawn while it is queued.
LEMMA CancelKeeps ==
  ASSUME IInv, NEW r \in Kept \intersect Issued, Cancel(r)
  PROVE  IInv'
<1>1. r \in Requests /\ Types /\ DOMAIN queue = 1 .. Len(queue)
  BY RequestSets DEF IInv
<1>2. UNCHANGED <<pc, current, outcome, blocksRead, jobs, answers, queue, arrived, queueEvent, destroyer, fault>>
  BY DEF Cancel, ReaderState
<1>3. /\ entries' \in [Requests -> Entry]
      /\ entries'[r].cancel /\ \A q \in Requests \ {r} : entries'[q].cancel = entries[q].cancel
      /\ \A q \in Requests : /\ entries'[q].alive = entries[q].alive
                             /\ entries'[q].status = entries[q].status
                             /\ entries'[q].remaining = entries[q].remaining
  BY <1>1 DEF Cancel, Types, Entry
<1>4. withdrawn' = withdrawn \/ (r \in Queued /\ withdrawn' = withdrawn \union {r})
  BY <1>1 DEF Cancel, Contains, Queued
<1>5. Issued' = Issued /\ Queued' = Queued
  BY <1>2 DEF Issued, Queued
<1>6. Types'
  BY <1>1, <1>2, <1>3, <1>4, <1>5 DEF Types
<1>7. ASSUME NEW q \in Requests
      PROVE  /\ Untouched(q)' <=> Untouched(q)
             /\ Fresh(q)' <=> Fresh(q)
             /\ ByJobs(q)' <=> ByJobs(q)
             /\ Complete(q)' <=> Complete(q)
  <2>1. Untouched(q)' <=> Untouched(q)
    BY <1>2 DEF Untouched, BlockNumbers
  <2>2. Fresh(q)' <=> Fresh(q)
    BY <1>2, <1>3, <2>1 DEF Fresh
  <2>3. Undone(q)' = Undone(q) /\ CalledBack(q)' = CalledBack(q)
    BY <1>2 DEF Undone, CalledBack, BlockNumbers
  <2>4. BlocksAnswered(q)' = BlocksAnswered(q)
    BY <1>2 DEF BlocksAnswered
  <2>5. ByJobs(q)' <=> ByJobs(q)
    BY <1>2, <1>3, <2>3, <2>4 DEF ByJobs, BlockNumbers
  <2>6. Complete(q)' <=> Complete(q)
    BY <1>2, <2>4 DEF Complete, BlockNumbers
  <2> QED
    BY <2>1, <2>2, <2>5, <2>6
<1>8. Arrivals' /\ QueueState' /\ Counters' /\ QueuedKeepsEvent'
  <2>1. Arrivals'
    BY <1>2, <1>3, <1>5, <1>7 DEF IInv, Arrivals
  <2>2. QueueState'
    <3>1. Sorted'
      BY <1>2 DEF IInv, QueueState, Sorted, Before, Position
    <3> QED
      BY <1>1, <1>2, <1>5, <1>7, <3>1, RequestSets DEF IInv, QueueState
  <2> QED
    BY <1>2, <1>3, <2>1, <2>2 DEF IInv, Counters, QueuedKeepsEvent
<1>9. ReaderHolds'
  <2>1. CASE current = NoRequest
    BY <1>2, <2>1 DEF IInv, ReaderHolds, Busy
  <2>2. CASE current # NoRequest
    <3>1. PICK c \in Requests : c = current /\ c' = c
      BY <1>1, <2>2 DEF Types
    <3> QED
      BY <1>2, <1>3, <1>5, <1>7, <3>1
      DEF IInv, ReaderHolds, Busy, Untouched, Fresh, ByJobs, Complete
  <2> QED
    BY <2>1, <2>2
<1>10. \A q \in Requests : Followed(q)'
  <2> TAKE q \in Requests
  <2>1. Followed(q)
    BY DEF IInv
  <2>2. ((q = current /\ pc = "blocks") \/ Untouched(q) \/ ByJobs(q))'
    BY <1>2, <1>7, <2>1 DEF Followed
  <2>3. (q \in Issued /\ ~entries[q].alive => Complete(q))'
    BY <1>3, <1>5, <1>7, <2>1 DEF Followed
  <2>4. (q \in withdrawn => StaysCanceled(q))'
    <3>1. CASE q \in withdrawn
      BY <1>2, <1>3, <1>7, <2>1, <3>1 DEF Followed, StaysCanceled
    <3>2. CASE q = r /\ r \in Queued
      <4>1. Fresh(r) /\ r # current
        BY <3>2 DEF IInv, QueueState
      <4>2. answers'[r] = <<>> /\ Untouched(r)'
        BY <1>1, <1>2, <1>7, <4>1 DEF Fresh
      <4>3. entries'[r].cancel
        BY <1>3
      <4> QED
        BY <1>2, <3>2, <4>1, <4>2, <4>3 DEF StaysCanceled
    <3> QED
      BY <1>4, <3>1, <3>2
  <2> QED
    BY <2>2, <2>3, <2>4 DEF Followed
<1> QED
  BY <1>6, <1>8, <1>9, <1>10 DEF IInv

-----------------------------------------------------------------------------
(* The reader.                                                             *)

\* The reader looks into the queue and takes the first request.
LEMMA TakeKeeps ==
  ASSUME IInv, Take
  PROVE  IInv'
<1>1. Types /\ DOMAIN queue = 1 .. Len(queue) /\ Len(queue) \in Nat /\ current = NoRequest
  BY RequestSets DEF IInv, ReaderHolds, Take, At, Busy
<1>2. UNCHANGED <<outcome, blocksRead, jobs, corrupt, entries, answers, fault, created, destroyer,
                  arrived, withdrawn>> /\ queueEvent' \in BOOLEAN
  BY <1>1 DEF Take, ClientState, EventAfterTake, Types
<1>3. CASE queue = <<>>
  <2>1. UNCHANGED <<queue, current>> /\ pc \notin Busy /\ pc' = "top" /\ pc' \notin Busy
    BY <1>3 DEF Take, At, Busy
  <2>2. Types'
    BY <1>1, <1>2, <2>1 DEF Types, Issued
  <2>3. QueuedKeepsEvent'
    BY <1>3, <2>1 DEF QueuedKeepsEvent
  <2> QED
    BY <1>2, <2>1, <2>2, <2>3, NoRequestTouched
<1>4. CASE queue # <<>>
  <2> PICK c \in Requests : c = Head(queue)
    BY <1>1, <1>4, HeadTailProperties DEF Types
  <2>1. pc' = "begin" /\ queue' = Tail(queue) /\ current' = c /\ queueEvent' = queueEvent
    <3>1. queueEvent \in BOOLEAN /\ queueEvent' = (queueEvent /\ queue # <<>>)
      BY <1>1 DEF Take, EventAfterTake, Types
    <3> QED
      BY <1>4, <3>1 DEF Take
  <2>2. /\ queue' \in Seq(Requests) /\ Len(queue') = Len(queue) - 1 /\ DOMAIN queue' = 1 .. Len(queue) - 1
        /\ \A i \in 1 .. Len(queue) - 1 : queue'[i] = queue[i + 1]
    BY <1>1, <1>4, <2>1, HeadTailProperties, LenProperties DEF Types
  <2>3. c = queue[1] /\ 1 \in DOMAIN queue
    BY <1>1, <1>4 DEF Types
  <2>4. c \in Queued /\ c \in Issued /\ Fresh(c)
    BY <2>3 DEF IInv, QueueState, Queued
  <2>5. Issued' = Issued
    BY <1>2 DEF Issued
  <2>6. ASSUME NEW i \in 1 .. Len(queue), i # 1 PROVE queue[i] # c
    <3>1. Before(c, queue[i])
      BY <1>1, <2>3, <2>6 DEF IInv, QueueState, Sorted
    <3>2. PICK k \in DOMAIN arrived : arrived[k] = c
      BY <2>4 DEF Issued
    <3>3. Position(c) = k /\ k \in Nat
      BY <1>1, <3>2, PositionIs, LenProperties DEF IInv, Arrivals, Types
    <3> QED
      BY <3>1, <3>3, RequestsAssumption DEF Before
  <2>7. ASSUME NEW q \in Queued' PROVE q \in Queued /\ q # c /\ q \in Requests
    <3>1. PICK i \in 1 .. Len(queue) - 1 : q = queue[i + 1]
      BY <2>2 DEF Queued
    <3>2. i + 1 \in 1 .. Len(queue) /\ i + 1 # 1
      BY <1>1
    <3> QED
      BY <1>1, <2>6, <3>1, <3>2, RequestSets DEF Queued
  <2>8. \A q \in Requests : /\ Same(q)
                            /\ Untouched(q)' <=> Untouched(q)
                            /\ Fresh(q)' <=> Fresh(q)
                            /\ ByJobs(q)' <=> ByJobs(q)
                            /\ Complete(q)' <=> Complete(q)
    <3>1. \A q \in Requests : Same(q)
      BY <1>2 DEF Same
    <3> QED
      BY <3>1, SameKeeps
  <2>9. Types'
    BY <1>1, <1>2, <2>1, <2>2, <2>5 DEF Types, Busy
  <2>10. Sorted'
    <3>1. ASSUME NEW i \in 1 .. Len(queue) - 1, NEW j \in 1 .. Len(queue) - 1, i < j
          PROVE  Before(queue[i + 1], queue[j + 1])
      BY <1>1, <3>1 DEF IInv, QueueState, Sorted
    <3>2. ASSUME NEW i \in DOMAIN queue', NEW j \in DOMAIN queue', i < j
          PROVE  \E p, q \in Requests : p = queue'[i] /\ q = queue'[j] /\ Before(p, q)
      <4>1. queue'[i] = queue[i + 1] /\ queue'[j] = queue[j + 1] /\ Before(queue[i + 1], queue[j + 1])
        BY <2>2, <3>1, <3>2
      <4>2. queue'[i] \in Requests /\ queue'[j] \in Requests
        BY <2>2, ElementOfSeq
      <4> QED
        BY <4>1, <4>2
    <3> QED
      BY <1>2, <3>2 DEF Sorted, Before, Position
  <2>11. QueueState'
    BY <2>1, <2>5, <2>7, <2>8, <2>10 DEF IInv, QueueState
  <2>12. Arrivals' /\ Counters' /\ QueuedKeepsEvent'
    BY <1>2, <1>4, <2>1, <2>5, <2>8 DEF IInv, Arrivals, Counters, QueuedKeepsEvent
  <2>13. ReaderHolds'
    <3>1. Fresh(c)' /\ c # NoRequest
      BY <2>4, <2>8, RequestsAssumption
    <3>2. Fresh(current)'
      BY <2>1, <3>1 DEF Fresh, Untouched
    <3> QED
      BY <2>1, <2>4, <2>5, <3>1, <3>2 DEF ReaderHolds, Busy
  <2>14. ASSUME NEW q \in Requests PROVE Followed(q)'
    <3>1. Followed(q) /\ q # current
      BY <1>1, RequestsAssumption DEF IInv
    <3>2. q \in withdrawn => StaysCanceled(q)'
      BY <1>2, <2>1, <2>8, <3>1 DEF Followed, StaysCanceled
    <3> QED
      BY <1>1, <1>2, <2>1, <2>5, <2>8, <3>1, <3>2 DEF Followed
  <2> QED
    BY <2>9, <2>11, <2>12, <2>13, <2>14 DEF IInv
<1> QED
  BY <1>3, <1>4

\* What is known when the reader is at work on a request.
LEMMA AtWork ==
  ASSUME IInv, pc \in Busy
  PROVE  /\ current \in Requests /\ current \in Issued /\ current \notin Queued
         /\ Types /\ ReaderHolds /\ Followed(current) /\ Counters
         /\ entries[current] \in Entry /\ KindOf[current] \in {"read", "block", "raw"}
<1>1. current \in Requests /\ current \in Issued /\ Types /\ ReaderHolds
  BY DEF IInv, ReaderHolds, Types
<1> QED
  BY <1>1, RequestsAssumption DEF IInv, QueueState, Types

\* As many pairs as numbers.
LEMMA BlocksOfCount ==
  ASSUME NEW r \in Requests
  PROVE  IsFiniteSet(BlocksOf(r)) /\ Cardinality(BlocksOf(r)) = BlockCount[r]
<1> DEFINE f == [b \in BlockNumbers(r) |-> <<r, b>>]
<1>1. f \in Surjection(BlockNumbers(r), BlocksOf(r))
  <2>1. f \in [BlockNumbers(r) -> BlocksOf(r)]
    BY Blocks
  <2>2. ASSUME NEW rb \in BlocksOf(r) PROVE \E b \in BlockNumbers(r) : f[b] = rb
    <3>1. PICK b \in BlockNumbers(r) : rb = <<r, b>>
      BY Blocks
    <3> QED
      BY <3>1
  <2> QED
    BY <2>1, <2>2 DEF Surjection
<1>2. f \in Injection(BlockNumbers(r), BlocksOf(r))
  BY Blocks DEF Injection, IsInjective
<1> HIDE DEF f
<1> QED
  BY <1>1, <1>2, Blocks, FS_Surjection

\* The reader stores the status of the request it took, and has read nothing of it yet.
LEMMA BeginKeeps ==
  ASSUME IInv, Begin
  PROVE  IInv'
<1>1. pc = "begin" /\ pc \in Busy /\ pc' = "open" /\ pc' \in Busy
  BY DEF Begin, At, Busy
<1> PICK c \in Requests : c = current
  BY <1>1, AtWork
<1>2. Types /\ ReaderHolds /\ Followed(c) /\ c \in Issued /\ Fresh(c)
  BY <1>1, AtWork DEF ReaderHolds
<1>3. UNCHANGED <<queueEvent, queue, current, outcome, jobs, corrupt, answers, fault, created, destroyer,
                  arrived, withdrawn>> /\ blocksRead' = 0
  BY DEF Begin, ClientState
<1>4. /\ entries' \in [Requests -> Entry]
      /\ \A q \in Requests \ {c} : entries'[q] = entries[q]
      /\ entries'[c].alive = entries[c].alive /\ entries'[c].cancel = entries[c].cancel
      /\ entries'[c].remaining = entries[c].remaining
      /\ entries[c].cancel => entries'[c].status = "canceled"
  BY <1>2 DEF Begin, StatusOnTake, Types, Entry, Statuses
<1>5. Types'
  BY <1>1, <1>2, <1>3, <1>4 DEF Types, Issued
<1>6. Untouched(c) /\ Untouched(c)' /\ Fresh(c)'
  BY <1>2, <1>3, <1>4 DEF Fresh, Untouched, BlockNumbers
<1>7. Issued' = Issued /\ c' = c /\ c = current' /\ c # NoRequest
  BY <1>3, RequestsAssumption DEF Issued
<1>8. ReaderHolds'
  BY <1>1, <1>2, <1>3, <1>6, <1>7 DEF ReaderHolds, Busy, Fresh, Untouched
<1>9. c \in withdrawn => StaysCanceled(c)'
  BY <1>1, <1>2, <1>3, <1>4, <1>6, <1>7 DEF StaysCanceled, Followed, Fresh
<1>10. Followed(c)'
  BY <1>2, <1>3, <1>4, <1>6, <1>9 DEF Followed, Fresh
<1>11. \A q \in Requests \ {c} : Same(q)
  BY <1>3, <1>4 DEF Same
<1> QED
  BY <1>1, <1>3, <1>4, <1>5, <1>7, <1>8, <1>10, <1>11, AtWork, ReaderKeeps DEF Counters

\* The source is opened, or the request ends here, cancelled or failed.
LEMMA OpenKeeps ==
  ASSUME IInv, Open
  PROVE  IInv'
<1>1. pc = "open" /\ pc \in Busy
  BY DEF Open, At, Busy
<1> PICK c \in Requests : c = current
  BY <1>1, AtWork
<1>2. Types /\ ReaderHolds /\ Followed(c) /\ c \in Issued /\ Fresh(c) /\ blocksRead = 0
  BY <1>1, AtWork DEF ReaderHolds
<1>3. UNCHANGED <<queueEvent, queue, current, blocksRead, jobs, corrupt, entries, answers, fault, created,
                  destroyer, arrived, withdrawn>>
  BY DEF Open, ClientState
<1>4. \/ outcome' = "canceled" /\ pc' = "store" /\ entries[c].status = "canceled"
      \/ outcome' = "failed" /\ pc' = "store" /\ entries[c].status # "canceled"
      \/ outcome' = "succeeded" /\ pc' = "store" /\ KindOf[c] = "read" /\ entries[c].status # "canceled"
      \/ outcome' = "succeeded" /\ pc' = "blocks" /\ KindOf[c] # "read" /\ entries[c].status # "canceled"
  BY DEF Open
<1>5. pc' \in Busy /\ pc' \in {"store", "blocks"} /\ outcome' \in {"succeeded", "failed", "canceled"}
  BY <1>4 DEF Busy
<1>6. Types'
  BY <1>2, <1>3, <1>5 DEF Types, Issued
<1>7. Issued' = Issued /\ c = current' /\ c # NoRequest /\ BlockCount[c] \in Nat \ {0}
      /\ KindOf[c] \in {"read", "block", "raw"}
  BY <1>3, RequestsAssumption DEF Issued
<1>8. answers[c] = <<>> /\ entries[c].alive /\ Untouched(c) /\ Untouched(c)'
  BY <1>2, <1>3 DEF Fresh, Untouched, BlockNumbers
<1>9. ReaderHolds'
  <2>1. CASE pc' = "store"
    BY <1>2, <1>3, <1>4, <1>7, <1>8, <2>1 DEF ReaderHolds, Busy, Untouched
  <2>2. CASE pc' = "blocks"
    <3>1. KindOf[c] \in {"block", "raw"}
      BY <1>4, <1>7, <2>2
    <3>2. \A b \in BlockNumbers(c) : jobs[<<c, b>>] = "none" /\ ~(b < 0)
      BY <1>8 DEF Untouched, BlockNumbers
    <3> QED
      BY <1>2, <1>3, <1>7, <1>8, <2>2, <3>1, <3>2 DEF ReaderHolds, Busy, Untouched, BlockNumbers
  <2> QED
    BY <1>5, <2>1, <2>2
<1>10. c \in withdrawn => StaysCanceled(c)'
  <2>1. c \in withdrawn => entries[c].status = "canceled" /\ outcome' = "canceled" /\ pc' = "store"
    BY <1>1, <1>2, <1>4 DEF Followed, StaysCanceled
  <2> QED
    BY <1>2, <1>3, <1>8, <2>1 DEF StaysCanceled, Followed
<1>11. Followed(c)'
  BY <1>3, <1>8, <1>10 DEF Followed
<1>12. \A q \in Requests \ {c} : Same(q)
  BY <1>3 DEF Same
<1> QED
  BY <1>1, <1>3, <1>6, <1>7, <1>9, <1>11, <1>12, AtWork, ReaderKeeps DEF Counters

\* One block is read: its job is made, or the raw data reaches the client.
LEMMA ReadBlockKeeps ==
  ASSUME IInv, ReadBlock
  PROVE  IInv'
<1>1. pc = "blocks" /\ pc \in Busy /\ pc' = "blocks"
  BY DEF ReadBlock, At, Busy
<1> PICK c \in Requests : c = current
  BY <1>1, AtWork
<1>2. Types /\ ReaderHolds /\ Followed(c) /\ c \in Issued /\ blocksRead \in Nat /\ entries[c].alive
  BY <1>1, AtWork DEF ReaderHolds, Types
<1>3. UNCHANGED <<pc, queueEvent, queue, current, outcome, corrupt, entries, fault, created, destroyer,
                  arrived, withdrawn>> /\ blocksRead' = blocksRead + 1
  BY DEF ReadBlock, ClientState
<1>4. Issued' = Issued /\ c = current' /\ c # NoRequest /\ BlockCount[c] \in Nat \ {0}
  BY <1>3, RequestsAssumption DEF Issued
<1>5. blocksRead < BlockCount[c] /\ blocksRead \in BlockNumbers(c) /\ <<c, blocksRead>> \in AllBlocks
  BY <1>2, <1>4, Blocks DEF ReadBlock, BlockNumbers
<1>6. c \notin withdrawn
  BY <1>1, <1>2 DEF Followed, StaysCanceled
<1>7. CASE KindOf[c] = "raw"
  <2>1. Called(c, blocksRead) /\ UNCHANGED jobs
    BY <1>7 DEF ReadBlock
  <2>2. /\ answers' \in [Requests -> Seq(Answer)] /\ Len(answers'[c]) = Len(answers[c]) + 1
        /\ \A q \in Requests \ {c} : answers'[q] = answers[q]
    BY <1>2, <2>1, CalledAdds
  <2>3. Untouched(c) /\ Untouched(c)' /\ Len(answers[c]) = blocksRead
    BY <1>1, <1>2, <1>7, <2>1 DEF ReaderHolds, Untouched, BlockNumbers
  <2>4. Types'
    BY <1>2, <1>3, <2>1, <2>2 DEF Types, Issued
  <2>5. ReaderHolds'
    BY <1>1, <1>2, <1>3, <1>4, <1>5, <1>7, <2>2, <2>3 DEF ReaderHolds, Busy, Untouched
  <2>6. Followed(c)'
    BY <1>2, <1>3, <1>6, <2>3 DEF Followed
  <2>7. \A q \in Requests \ {c} : Same(q)
    BY <1>3, <2>1, <2>2 DEF Same
  <2> QED
    BY <1>1, <1>3, <1>4, <2>4, <2>5, <2>6, <2>7, AtWork, ReaderKeeps DEF Counters
<1>8. CASE KindOf[c] # "raw"
  <2>1. jobs' = [jobs EXCEPT ![<<c, blocksRead>>] = "made"] /\ answers' = answers
    BY <1>8 DEF ReadBlock
  <2>2. KindOf[c] = "block" /\ answers[c] = <<>>
        /\ \A b \in BlockNumbers(c) : jobs[<<c, b>>] = IF b < blocksRead THEN "made" ELSE "none"
    BY <1>1, <1>2, <1>8 DEF ReaderHolds
  <2>3. jobs' \in [AllBlocks -> {"none", "made", "scheduled", "store", "call", "leave", "done"}]
    BY <1>2, <2>1 DEF Types
  <2>4. Types'
    BY <1>2, <1>3, <2>1, <2>3 DEF Types, Issued
  <2>5. \A b \in BlockNumbers(c) : jobs'[<<c, b>>] = IF b < blocksRead + 1 THEN "made" ELSE "none"
    <3> TAKE b \in BlockNumbers(c)
    <3>1. <<c, b>> \in AllBlocks /\ b \in Nat
      BY Blocks DEF BlockNumbers
    <3>2. CASE b = blocksRead
      BY <1>2, <1>5, <2>1, <3>1, <3>2 DEF Types
    <3>3. CASE b # blocksRead
      <4>1. jobs'[<<c, b>>] = jobs[<<c, b>>]
        BY <1>2, <2>1, <3>1, <3>3 DEF Types
      <4> QED
        BY <1>2, <2>2, <3>1, <3>3, <4>1
    <3> QED
      BY <3>2, <3>3
  <2>6. ReaderHolds'
    BY <1>1, <1>2, <1>3, <1>4, <1>5, <2>1, <2>2, <2>5 DEF ReaderHolds, Busy, BlockNumbers
  <2>7. Followed(c)'
    BY <1>1, <1>2, <1>3, <1>6 DEF Followed
  <2>8. \A q \in Requests \ {c} : Same(q)
    <3>1. ASSUME NEW q \in Requests \ {c}, NEW b \in BlockNumbers(q) PROVE jobs'[<<q, b>>] = jobs[<<q, b>>]
      <4>1. <<q, b>> \in AllBlocks /\ <<q, b>> # <<c, blocksRead>>
        BY Blocks
      <4> QED
        BY <1>2, <2>1, <4>1 DEF Types
    <3> QED
      BY <1>3, <2>1, <3>1 DEF Same
  <2> QED
    BY <1>1, <1>3, <1>4, <2>4, <2>6, <2>7, <2>8, AtWork, ReaderKeeps DEF Counters
<1> QED
  BY <1>7, <1>8

\* A block cannot be read: the jobs made so far are deleted, none of them ran.
LEMMA ReadFailsKeeps ==
  ASSUME IInv, ReadFails
  PROVE  IInv'
<1>1. pc = "blocks" /\ pc \in Busy /\ pc' = "store" /\ outcome' = "failed"
  BY DEF ReadFails, At, Busy
<1> PICK c \in Requests : c = current
  BY <1>1, AtWork
<1>2. Types /\ ReaderHolds /\ Followed(c) /\ c \in Issued /\ blocksRead \in Nat /\ entries[c].alive
  BY <1>1, AtWork DEF ReaderHolds, Types
<1>3. UNCHANGED <<queueEvent, queue, current, blocksRead, corrupt, entries, answers, fault, created,
                  destroyer, arrived, withdrawn>>
  BY DEF ReadFails, ClientState
<1>4. Issued' = Issued /\ c = current' /\ c # NoRequest /\ BlockCount[c] \in Nat \ {0}
  BY <1>3, RequestsAssumption DEF Issued
<1>5. /\ DOMAIN jobs = AllBlocks
      /\ jobs' = [rb \in AllBlocks |-> IF rb \in Made(c) THEN "none" ELSE jobs[rb]]
      /\ blocksRead < BlockCount[c]
  BY <1>2 DEF ReadFails, Types
<1>6. jobs' \in [AllBlocks -> {"none", "made", "scheduled", "store", "call", "leave", "done"}]
  BY <1>2, <1>5 DEF Types
<1>7. Types'
  BY <1>1, <1>2, <1>3, <1>6 DEF Types, Issued, Busy
<1>8. \A b \in BlockNumbers(c) : jobs[<<c, b>>] \in {"made", "none"}
  BY <1>1, <1>2 DEF ReaderHolds, Untouched
<1>9. Untouched(c)'
  <2>1. ASSUME NEW b \in BlockNumbers(c) PROVE jobs'[<<c, b>>] = "none"
    BY <1>5, <1>8, Blocks DEF Made
  <2> QED
    BY <2>1 DEF Untouched, BlockNumbers
<1>10. \A q \in Requests \ {c} : Same(q)
  <2>1. ASSUME NEW q \in Requests \ {c}, NEW b \in BlockNumbers(q) PROVE jobs'[<<q, b>>] = jobs[<<q, b>>]
    <3>1. <<q, b>> \in AllBlocks /\ <<q, b>> \notin BlocksOf(c)
      BY Blocks
    <3> QED
      BY <1>5, <3>1 DEF Made
  <2> QED
    BY <1>3, <2>1 DEF Same
<1>11. /\ KindOf[c] = "raw" => Len(answers[c]) < BlockCount[c]
       /\ KindOf[c] # "raw" => answers[c] = <<>>
  BY <1>1, <1>2, <1>5 DEF ReaderHolds
<1>12. ReaderHolds'
  BY <1>1, <1>2, <1>3, <1>4, <1>9, <1>11 DEF ReaderHolds, Busy, Untouched
<1>13. Followed(c)'
  BY <1>1, <1>2, <1>3, <1>9 DEF Followed, StaysCanceled
<1> QED
  BY <1>1, <1>3, <1>4, <1>7, <1>10, <1>12, <1>13, AtWork, ReaderKeeps DEF Counters

\* The jobs of all blocks are made: from now on the request is theirs.
LEMMA DispatchKeeps ==
  ASSUME IInv, Dispatch
  PROVE  IInv'
<1>1. pc = "blocks" /\ pc \in Busy /\ pc' = "schedule"
  BY DEF Dispatch, At, Busy
<1> PICK c \in Requests : c = current
  BY <1>1, AtWork
<1>2. Types /\ ReaderHolds /\ Followed(c) /\ c \in Issued /\ blocksRead \in Nat /\ entries[c].alive
  BY <1>1, AtWork DEF ReaderHolds, Types
<1>3. UNCHANGED <<queueEvent, queue, current, outcome, blocksRead, jobs, corrupt, answers, fault, created,
                  destroyer, arrived, withdrawn>> /\ blocksRead = BlockCount[c]
  BY DEF Dispatch, ClientState
<1>4. Issued' = Issued /\ c = current' /\ c # NoRequest /\ BlockCount[c] \in Nat \ {0}
  BY <1>3, RequestsAssumption DEF Issued
<1>5. IsFiniteSet(Made(c)) /\ Cardinality(Made(c)) \in 0 .. BlockCount[c]
  <2>1. Made(c) \in SUBSET BlocksOf(c)
    BY DEF Made
  <2> QED
    BY <1>4, <2>1, BlocksOfCount, FS_Subset, FS_CardinalityType
<1>6. /\ entries' \in [Requests -> Entry]
      /\ \A q \in Requests \ {c} : entries'[q] = entries[q]
      /\ entries'[c].alive /\ entries'[c].remaining = Cardinality(Made(c))
  <2>1. PICK n \in Nat : n = Cardinality(Made(c))
    BY <1>4, <1>5
  <2>2. entries' = [entries EXCEPT ![c].remaining = n]
    BY <2>1 DEF Dispatch, Awaited
  <2>3. PICK e \in Entry : e = entries[c]
    BY <1>2 DEF Types
  <2>4. entries' = [entries EXCEPT ![c] = [e EXCEPT !.remaining = n]] /\ entries \in [Requests -> Entry]
    BY <1>2, <2>2, <2>3 DEF Types
  <2>5. /\ [e EXCEPT !.remaining = n] \in Entry
        /\ [e EXCEPT !.remaining = n].alive = e.alive /\ [e EXCEPT !.remaining = n].remaining = n
    BY <2>1 DEF Entry
  <2> QED
    BY <1>2, <2>1, <2>3, <2>4, <2>5
<1>7. Types'
  BY <1>1, <1>2, <1>3, <1>6 DEF Types, Issued, Busy
<1>8. \A q \in Requests \ {c} : Same(q)
  BY <1>3, <1>6 DEF Same
<1>9. CASE KindOf[c] = "block"
  <2>1. answers[c] = <<>> /\ \A b \in BlockNumbers(c) : jobs[<<c, b>>] = "made"
    BY <1>1, <1>2, <1>3, <1>9 DEF ReaderHolds, BlockNumbers
  <2>2. Made(c) = BlocksOf(c)
    BY <2>1, Blocks DEF Made
  <2>3. Undone(c) = BlockNumbers(c) /\ CalledBack(c) = {}
    BY <2>1 DEF Undone, CalledBack
  <2>4. Undone(c)' = BlockNumbers(c) /\ CalledBack(c)' = {}
    BY <1>3, <2>3 DEF Undone, CalledBack, BlockNumbers
  <2>5. entries'[c].remaining = Cardinality(BlockNumbers(c)) /\ BlockNumbers(c) # {}
    BY <1>6, <2>2, BlocksOfCount, Blocks
  <2>6. BlocksAnswered(c)' = {} /\ Len(answers'[c]) = 0 /\ Cardinality({}) = 0
    BY <1>3, <2>1, FS_EmptySet DEF BlocksAnswered
  <2>7. ByJobs(c)'
    BY <1>3, <1>6, <1>9, <2>1, <2>4, <2>5, <2>6 DEF ByJobs, BlockNumbers
  <2>8. ReaderHolds'
    BY <1>1, <1>2, <1>3, <1>4, <2>7 DEF ReaderHolds, Busy, ByJobs
  <2>9. Followed(c)'
    BY <1>1, <1>2, <1>3, <1>6, <2>7 DEF Followed, StaysCanceled
  <2> QED
    BY <1>1, <1>3, <1>4, <1>5, <1>6, <1>7, <1>8, <2>8, <2>9, ReaderKeeps
<1>10. CASE KindOf[c] # "block"
  <2>1. KindOf[c] = "raw" /\ Untouched(c) /\ Untouched(c)'
    BY <1>1, <1>2, <1>3, <1>10 DEF ReaderHolds, Untouched, BlockNumbers
  <2>2. ReaderHolds'
    BY <1>1, <1>2, <1>3, <1>4, <2>1 DEF ReaderHolds, Busy, Untouched
  <2>3. Followed(c)'
    BY <1>1, <1>2, <1>3, <1>6, <2>1 DEF Followed, StaysCanceled
  <2> QED
    BY <1>1, <1>3, <1>4, <1>5, <1>6, <1>7, <1>8, <2>2, <2>3, ReaderKeeps
<1> QED
  BY <1>9, <1>10

\* The next job is scheduled: its entry is alive, for its job has not left.
LEMMA ScheduleKeeps ==
  ASSUME IInv, Schedule
  PROVE  IInv'
<1>1. pc = "schedule" /\ pc \in Busy /\ pc' = pc
  BY DEF Schedule, At, Busy
<1> PICK c \in Requests : c = current
  BY <1>1, AtWork
<1>2. Types /\ ReaderHolds /\ Followed(c) /\ c \in Issued
  BY <1>1, AtWork DEF ReaderHolds
<1>3. UNCHANGED <<pc, queueEvent, queue, current, outcome, blocksRead, corrupt, entries, answers, created,
                  destroyer, arrived, withdrawn>>
  BY DEF Schedule, ClientState
<1>4. Issued' = Issued /\ c = current' /\ c # NoRequest
  BY <1>3, RequestsAssumption DEF Issued
<1>5. PICK made \in BlockNumbers(c) : jobs[<<c, made>>] = "made"
  BY Blocks DEF Schedule, Made
<1>6. ByJobs(c)
  BY <1>1, <1>2, <1>5 DEF ReaderHolds, Untouched
<1>7. entries[c].alive
  BY <1>5, <1>6 DEF ByJobs, Undone
<1>8. PICK b \in BlockNumbers(c) : jobs[<<c, b>>] = "made" /\ jobs' = [jobs EXCEPT ![<<c, b>>] = "scheduled"]
  <2>1. PICK rb \in Made(c) : jobs' = [jobs EXCEPT ![rb] = "scheduled"]
    BY <1>7 DEF Schedule
  <2>2. rb \in BlocksOf(c) /\ jobs[rb] = "made"
    BY DEF Made
  <2>3. PICK b \in BlockNumbers(c) : rb = <<c, b>>
    BY <2>2, Blocks
  <2> QED
    BY <2>1, <2>2, <2>3
<1>9. fault' = fault
  BY <1>7 DEF Schedule
<1>10. jobs' \in [AllBlocks -> {"none", "made", "scheduled", "store", "call", "leave", "done"}]
  BY <1>2, <1>8 DEF Types
<1>11. Types'
  BY <1>2, <1>3, <1>9, <1>10 DEF Types, Issued
<1>12. \A a \in BlockNumbers(c) : jobs'[<<c, a>>] = IF a = b THEN "scheduled" ELSE jobs[<<c, a>>]
  <2> TAKE a \in BlockNumbers(c)
  <2>1. <<c, a>> \in AllBlocks /\ (<<c, a>> = <<c, b>> <=> a = b)
    BY Blocks
  <2> QED
    BY <1>2, <1>8, <2>1 DEF Types
<1>13. Undone(c)' = Undone(c) /\ CalledBack(c)' = CalledBack(c)
       /\ \A a \in BlockNumbers(c) : jobs'[<<c, a>>] # "none"
  BY <1>6, <1>8, <1>12 DEF Undone, CalledBack, BlockNumbers, ByJobs
<1>14. ByJobs(c)'
  BY <1>3, <1>6, <1>13 DEF ByJobs, BlocksAnswered, BlockNumbers
<1>15. ReaderHolds'
  BY <1>1, <1>2, <1>3, <1>4, <1>14 DEF ReaderHolds, Busy, ByJobs
<1>16. Followed(c)'
  BY <1>1, <1>2, <1>3, <1>7, <1>14 DEF Followed, StaysCanceled
<1>17. \A q \in Requests \ {c} : Same(q)
  <2>1. ASSUME NEW q \in Requests \ {c}, NEW a \in BlockNumbers(q) PROVE jobs'[<<q, a>>] = jobs[<<q, a>>]
    <3>1. <<q, a>> \in AllBlocks /\ <<q, a>> # <<c, b>>
      BY Blocks
    <3> QED
      BY <1>2, <1>8, <3>1 DEF Types
  <2> QED
    BY <1>3, <2>1 DEF Same
<1> QED
  BY <1>1, <1>3, <1>4, <1>11, <1>15, <1>16, <1>17, AtWork, ReaderKeeps DEF Counters

\* All jobs are scheduled: the reader lets go of the request, which they own.
LEMMA ScheduledKeeps ==
  ASSUME IInv, Scheduled
  PROVE  IInv'
<1>1. pc = "schedule" /\ pc \in Busy /\ pc' = "top" /\ pc' \notin Busy
  BY DEF Scheduled, At, Busy, NextRequest
<1> PICK c \in Requests : c = current
  BY <1>1, AtWork
<1>2. Types /\ ReaderHolds /\ Followed(c) /\ c \in Issued
  BY <1>1, AtWork DEF ReaderHolds
<1>3. UNCHANGED <<queueEvent, queue, outcome, blocksRead, jobs, corrupt, entries, answers, fault, created,
                  destroyer, arrived, withdrawn>> /\ current' = NoRequest
  BY DEF Scheduled, ClientState, NextRequest
<1>4. Types'
  BY <1>1, <1>2, <1>3 DEF Types, Issued, Busy
<1>5. ReaderHolds'
  BY <1>1, <1>3 DEF ReaderHolds, Busy
<1>6. \A q \in Requests : Same(q)
  BY <1>3 DEF Same
<1>7. Followed(c)'
  <2>1. Issued' = Issued /\ c \notin withdrawn /\ (Untouched(c) \/ ByJobs(c))
    BY <1>1, <1>2, <1>3 DEF Issued, Followed, StaysCanceled
  <2> QED
    BY <1>2, <1>3, <1>6, <2>1, SameKeeps DEF Followed
<1> QED
  BY <1>1, <1>3, <1>4, <1>5, <1>6, <1>7, AtWork, ReaderKeeps DEF Counters

\* The reader stores the outcome of the request it still holds.
LEMMA StoreKeeps ==
  ASSUME IInv, Store
  PROVE  IInv'
<1>1. pc = "store" /\ pc \in Busy /\ pc' = "call"
  BY DEF Store, At, Busy
<1> PICK c \in Requests : c = current
  BY <1>1, AtWork
<1>2. Types /\ ReaderHolds /\ Followed(c) /\ c \in Issued
  BY <1>1, AtWork
<1>3. UNCHANGED <<queueEvent, queue, current, outcome, blocksRead, jobs, corrupt, answers, fault, created,
                  destroyer, arrived, withdrawn>>
  BY DEF Store, ClientState
<1>4. Issued' = Issued /\ c = current' /\ c # NoRequest
  BY <1>3, RequestsAssumption DEF Issued
<1>5. /\ entries' \in [Requests -> Entry]
      /\ \A q \in Requests \ {c} : entries'[q] = entries[q]
      /\ entries'[c].alive = entries[c].alive /\ entries'[c].cancel = entries[c].cancel
      /\ entries'[c].remaining = entries[c].remaining
      /\ entries'[c].status = outcome
  BY <1>2 DEF Store, Types, Entry, Statuses
<1>6. Types'
  BY <1>1, <1>2, <1>3, <1>5 DEF Types, Issued, Busy
<1>7. /\ entries[c].alive /\ Untouched(c)
      /\ KindOf[c] = "raw" => Len(answers[c]) < BlockCount[c]
      /\ KindOf[c] # "raw" => answers[c] = <<>>
      /\ KindOf[c] # "read" => outcome \in {"failed", "canceled"}
  BY <1>1, <1>2 DEF ReaderHolds
<1>8. Untouched(c)'
  BY <1>3, <1>7 DEF Untouched, BlockNumbers
<1>9. ReaderHolds'
  BY <1>1, <1>2, <1>3, <1>4, <1>5, <1>7, <1>8 DEF ReaderHolds, Busy, Untouched
<1>10. c \in withdrawn => StaysCanceled(c)'
  BY <1>1, <1>2, <1>3, <1>4, <1>5, <1>8 DEF Followed, StaysCanceled
<1>11. Followed(c)'
  BY <1>3, <1>5, <1>7, <1>8, <1>10 DEF Followed
<1>12. \A q \in Requests \ {c} : Same(q)
  BY <1>3, <1>5 DEF Same
<1> QED
  BY <1>1, <1>3, <1>4, <1>5, <1>6, <1>9, <1>11, <1>12, AtWork, ReaderKeeps DEF Counters

\* The client is called: for a whole request once, for a raw one at last.
LEMMA CallKeeps ==
  ASSUME IInv, Call
  PROVE  IInv'
<1>1. pc = "call" /\ pc \in Busy /\ pc' = "delete"
  BY DEF Call, At, Busy
<1> PICK c \in Requests : c = current
  BY <1>1, AtWork
<1>2. Types /\ ReaderHolds /\ Followed(c) /\ c \in Issued /\ blocksRead \in Nat
  BY <1>1, AtWork DEF Types
<1>3. UNCHANGED <<queueEvent, queue, current, outcome, blocksRead, jobs, corrupt, entries, fault, created,
                  destroyer, arrived, withdrawn>>
  BY DEF Call, ClientState
<1>4. Issued' = Issued /\ c = current' /\ c # NoRequest /\ BlockCount[c] \in Nat \ {0}
      /\ KindOf[c] \in {"read", "block", "raw"}
  BY <1>3, RequestsAssumption DEF Issued
<1>5. PICK block \in Nat : Called(c, block)
  BY <1>2 DEF Call
<1>6. /\ answers' \in [Requests -> Seq(Answer)]
      /\ Len(answers'[c]) = Len(answers[c]) + 1 /\ Len(answers[c]) \in Nat
      /\ answers'[c][Len(answers[c]) + 1] = [block |-> block, status |-> entries[c].status]
      /\ \A i \in 1 .. Len(answers[c]) : answers'[c][i] = answers[c][i]
      /\ DOMAIN answers'[c] = 1 .. Len(answers[c]) + 1 /\ DOMAIN answers[c] = 1 .. Len(answers[c])
      /\ Last(answers'[c]).status = entries[c].status
      /\ \A q \in Requests \ {c} : answers'[q] = answers[q]
  BY <1>2, <1>5, CalledAdds
<1>7. /\ entries[c].alive /\ Untouched(c)
      /\ KindOf[c] = "raw" => Len(answers[c]) < BlockCount[c]
      /\ KindOf[c] # "raw" => answers[c] = <<>>
      /\ KindOf[c] # "read" => entries[c].status \in {"failed", "canceled"}
  BY <1>1, <1>2 DEF ReaderHolds
<1>8. Untouched(c)'
  BY <1>3, <1>7 DEF Untouched, BlockNumbers
<1>9. Types'
  BY <1>1, <1>2, <1>3, <1>6 DEF Types, Issued, Busy
<1>10. Complete(c)'
  <2>1. CASE KindOf[c] = "raw"
    BY <1>4, <1>6, <1>7, <2>1 DEF Complete
  <2>2. CASE KindOf[c] # "raw"
    <3>1. Len(answers[c]) = 0
      BY <1>7, <2>2
    <3>2. Len(answers'[c]) = 1 /\ answers'[c][1].status = entries[c].status
      BY <1>6, <3>1
    <3> QED
      BY <1>4, <1>7, <2>2, <3>2 DEF Complete
  <2> QED
    BY <2>1, <2>2
<1>11. ReaderHolds'
  BY <1>1, <1>2, <1>3, <1>4, <1>8, <1>10 DEF ReaderHolds, Busy, Untouched, Complete
<1>12. c \in withdrawn => StaysCanceled(c)'
  <2> SUFFICES ASSUME c \in withdrawn PROVE StaysCanceled(c)'
    OBVIOUS
  <2>1. StaysCanceled(c) /\ entries[c].status = "canceled" /\ outcome = "canceled"
    BY <1>1, <1>2 DEF Followed, StaysCanceled
  <2>2. ASSUME NEW i \in DOMAIN answers'[c] PROVE answers'[c][i].status = "canceled"
    <3>1. CASE i \in 1 .. Len(answers[c])
      BY <1>6, <2>1, <3>1 DEF StaysCanceled
    <3>2. CASE i = Len(answers[c]) + 1
      BY <1>6, <2>1, <3>2
    <3> QED
      BY <1>6, <3>1, <3>2
  <2> QED
    BY <1>1, <1>3, <1>8, <2>1, <2>2 DEF StaysCanceled
<1>13. Followed(c)'
  BY <1>3, <1>7, <1>8, <1>12 DEF Followed
<1>14. \A q \in Requests \ {c} : Same(q)
  BY <1>3, <1>6 DEF Same
<1> QED
  BY <1>1, <1>3, <1>4, <1>9, <1>11, <1>13, <1>14, AtWork, ReaderKeeps DEF Counters

\* The reader deletes the entry: nobody else uses it, for it has no jobs.
LEMMA DeleteKeeps ==
  ASSUME IInv, Delete
  PROVE  IInv'
<1>1. pc = "delete" /\ pc \in Busy /\ pc' = "top" /\ pc' \notin Busy /\ current' = NoRequest
  BY DEF Delete, At, Busy
<1> PICK c \in Requests : c = current
  BY <1>1, AtWork
<1>2. Types /\ ReaderHolds /\ Followed(c) /\ c \in Issued /\ Untouched(c) /\ Complete(c)
  BY <1>1, AtWork DEF ReaderHolds
<1>3. UNCHANGED <<queueEvent, queue, outcome, blocksRead, jobs, corrupt, answers, fault, created, destroyer,
                  arrived, withdrawn>>
  BY DEF Delete, ClientState
<1>4. Issued' = Issued /\ c # NoRequest
  BY <1>3, RequestsAssumption DEF Issued
<1>5. /\ entries' \in [Requests -> Entry]
      /\ \A q \in Requests \ {c} : entries'[q] = entries[q]
      /\ entries'[c].cancel = entries[c].cancel /\ entries'[c].remaining = entries[c].remaining
  BY <1>2 DEF Delete, Types, Entry
<1>6. Types'
  BY <1>1, <1>2, <1>3, <1>5 DEF Types, Issued, Busy
<1>7. Untouched(c)' /\ Complete(c)'
  BY <1>2, <1>3 DEF Untouched, Complete, BlocksAnswered, BlockNumbers
<1>8. ReaderHolds'
  BY <1>1 DEF ReaderHolds, Busy
<1>9. c \in withdrawn => StaysCanceled(c)'
  BY <1>1, <1>2, <1>3, <1>4, <1>5, <1>7 DEF Followed, StaysCanceled
<1>10. Followed(c)'
  BY <1>3, <1>7, <1>9 DEF Followed
<1>11. \A q \in Requests \ {c} : Same(q)
  BY <1>3, <1>5 DEF Same
<1> QED
  BY <1>1, <1>3, <1>5, <1>6, <1>8, <1>10, <1>11, AtWork, ReaderKeeps DEF Counters

-----------------------------------------------------------------------------
(* The jobs.                                                               *)

\* What a running job rb knows of its request c, of which it is block b.
Owner(rb, c, b) ==
  /\ rb = <<c, b>> /\ rb[1] = c /\ rb[2] = b /\ b \in Nat
  /\ c \in Issued /\ c \notin Queued /\ c \notin withdrawn
  /\ ByJobs(c) /\ b \in Undone(c) /\ entries[c].alive
  /\ c = current => pc = "schedule"

\* A job that was scheduled belongs to a request whose entry is alive, for the
\* counter of the entry counts this job too.
LEMMA JobOwner ==
  ASSUME IInv, NEW rb \in AllBlocks, jobs[rb] \in {"scheduled", "store", "call", "leave"}
  PROVE  \E c \in Requests : \E b \in BlockNumbers(c) : Owner(rb, c, b)
<1>1. PICK c \in Requests : \E b \in BlockNumbers(c) : rb = <<c, b>>
  BY BlockIsPair
<1>2. PICK b \in BlockNumbers(c) : rb = <<c, b>>
  BY <1>1
<1>3. Followed(c) /\ Types /\ ReaderHolds
  BY DEF IInv
<1>4. ~Untouched(c)
  BY <1>2 DEF Untouched
<1>5. c = current => pc = "schedule"
  <2>1. pc = "blocks" => ~(c = current)
    BY <1>2, <1>3, <1>4 DEF ReaderHolds
  <2>2. c = current => pc \in Busy
    BY <1>3, RequestsAssumption DEF ReaderHolds
  <2> QED
    BY <1>3, <1>4, <2>1, <2>2 DEF ReaderHolds, Busy, Fresh
<1>6. ByJobs(c)
  BY <1>3, <1>4, <1>5 DEF Followed
<1>7. c \in Issued
  BY <1>4 DEF IInv, Arrivals
<1>8. c \notin Queued
  BY <1>4 DEF IInv, QueueState, Fresh
<1>9. c \notin withdrawn
  BY <1>3, <1>4 DEF Followed, StaysCanceled
<1>10. b \in Undone(c) /\ b \in Nat
  BY <1>2 DEF Undone, BlockNumbers
<1>11. entries[c].alive
  BY <1>6, <1>10 DEF ByJobs
<1>12. rb[1] = c /\ rb[2] = b
  BY <1>2
<1> QED
  BY <1>2, <1>5, <1>6, <1>7, <1>8, <1>9, <1>10, <1>11, <1>12 DEF Owner

\* A job that moves on moves alone.
LEMMA JobMoves ==
  ASSUME Types, NEW c \in Requests, NEW b \in BlockNumbers(c),
         NEW label \in {"store", "call", "leave", "done"}, JobGoto(<<c, b>>, label)
  PROVE  /\ jobs' \in [AllBlocks -> {"none", "made", "scheduled", "store", "call", "leave", "done"}]
         /\ \A a \in BlockNumbers(c) : jobs'[<<c, a>>] = IF a = b THEN label ELSE jobs[<<c, a>>]
         /\ \A q \in Requests \ {c} : \A a \in BlockNumbers(q) : jobs'[<<q, a>>] = jobs[<<q, a>>]
<1>1. jobs' = [jobs EXCEPT ![<<c, b>>] = label] /\ <<c, b>> \in AllBlocks
  BY Blocks DEF JobGoto
<1>2. jobs' \in [AllBlocks -> {"none", "made", "scheduled", "store", "call", "leave", "done"}]
  BY <1>1 DEF Types
<1>3. ASSUME NEW a \in BlockNumbers(c) PROVE jobs'[<<c, a>>] = IF a = b THEN label ELSE jobs[<<c, a>>]
  <2>1. <<c, a>> \in AllBlocks /\ (<<c, a>> = <<c, b>> <=> a = b)
    BY Blocks
  <2> QED
    BY <1>1, <2>1 DEF Types
<1>4. ASSUME NEW q \in Requests \ {c}, NEW a \in BlockNumbers(q) PROVE jobs'[<<q, a>>] = jobs[<<q, a>>]
  <2>1. <<q, a>> \in AllBlocks /\ <<q, a>> # <<c, b>>
    BY Blocks
  <2> QED
    BY <1>1, <2>1 DEF Types
<1> QED
  BY <1>2, <1>3, <1>4

\* The two steps of a job that store a status.
LEMMA StoringKeeps ==
  ASSUME IInv, NEW rb \in AllBlocks, Decompress(rb) \/ StoreResult(rb)
  PROVE  IInv'
<1>1. jobs[rb] \in {"scheduled", "store"} /\ JobTouches(rb) /\ UNCHANGED <<answers, Elsewhere>>
  BY DEF Decompress, StoreResult, JobAt
<1> PICK c \in Requests : \E b \in BlockNumbers(c) : Owner(rb, c, b)
  BY <1>1, JobOwner
<1> PICK b \in BlockNumbers(c) : Owner(rb, c, b)
  OBVIOUS
<1> USE DEF Owner
<1>2. Types
  BY DEF IInv
<1>3. UNCHANGED <<fault, answers, arrived, withdrawn>>
  BY <1>1 DEF JobTouches, Elsewhere, ClientState
<1> PICK place \in {"store", "call", "leave", "done"} :
      place \in {"store", "call"} /\ JobGoto(<<c, b>>, place)
  BY DEF Decompress, StoreResult
<1>5. /\ jobs' \in [AllBlocks -> {"none", "made", "scheduled", "store", "call", "leave", "done"}]
      /\ \A a \in BlockNumbers(c) : jobs'[<<c, a>>] = IF a = b THEN place ELSE jobs[<<c, a>>]
      /\ \A q \in Requests \ {c} : \A a \in BlockNumbers(q) : jobs'[<<q, a>>] = jobs[<<q, a>>]
  <2>1. CASE place = "store"
    <3>1. JobGoto(<<c, b>>, "store")
      BY <2>1
    <3>2. /\ jobs' \in [AllBlocks -> {"none", "made", "scheduled", "store", "call", "leave", "done"}]
          /\ \A a \in BlockNumbers(c) : jobs'[<<c, a>>] = IF a = b THEN "store" ELSE jobs[<<c, a>>]
          /\ \A q \in Requests \ {c} : \A a \in BlockNumbers(q) : jobs'[<<q, a>>] = jobs[<<q, a>>]
      BY <1>2, <3>1, JobMoves
    <3> QED
      BY <2>1, <3>2
  <2>2. CASE place = "call"
    <3>1. JobGoto(<<c, b>>, "call")
      BY <2>2
    <3>2. /\ jobs' \in [AllBlocks -> {"none", "made", "scheduled", "store", "call", "leave", "done"}]
          /\ \A a \in BlockNumbers(c) : jobs'[<<c, a>>] = IF a = b THEN "call" ELSE jobs[<<c, a>>]
          /\ \A q \in Requests \ {c} : \A a \in BlockNumbers(q) : jobs'[<<q, a>>] = jobs[<<q, a>>]
      BY <1>2, <3>1, JobMoves
    <3> QED
      BY <2>2, <3>2
  <2> QED
    BY <2>1, <2>2
<1>6. PICK status \in Statuses : entries' = [entries EXCEPT ![c].status = status]
  BY DEF Decompress, StoreResult, Statuses
<1>7. /\ entries' \in [Requests -> Entry] /\ \A q \in Requests \ {c} : entries'[q] = entries[q]
      /\ entries'[c].alive = entries[c].alive /\ entries'[c].remaining = entries[c].remaining
  <2>1. PICK e \in Entry : e = entries[c]
    BY <1>2 DEF Types
  <2>2. entries' = [entries EXCEPT ![c] = [e EXCEPT !.status = status]] /\ entries \in [Requests -> Entry]
    BY <1>2, <1>6, <2>1 DEF Types
  <2>3. /\ [e EXCEPT !.status = status] \in Entry
        /\ [e EXCEPT !.status = status].alive = e.alive /\ [e EXCEPT !.status = status].remaining = e.remaining
    BY DEF Entry, Statuses
  <2> QED
    BY <2>1, <2>2, <2>3
<1>8. Types'
  BY <1>1, <1>2, <1>3, <1>5, <1>7 DEF Types, Issued, Elsewhere, ClientState
<1>9. \A q \in Requests \ {c} : Same(q)
  BY <1>3, <1>5, <1>7 DEF Same
<1>10. Undone(c)' = Undone(c) /\ CalledBack(c)' = CalledBack(c)
       /\ \A a \in BlockNumbers(c) : jobs'[<<c, a>>] # "none"
  BY <1>1, <1>5 DEF Undone, CalledBack, BlockNumbers, ByJobs
<1>11. ByJobs(c)'
  BY <1>3, <1>7, <1>10 DEF ByJobs, BlocksAnswered, BlockNumbers
<1>12. Followed(c)'
  BY <1>3, <1>7, <1>11 DEF Followed
<1> QED
  BY <1>1, <1>7, <1>8, <1>9, <1>11, <1>12, JobKeeps DEF IInv, Counters

\* A job calls the client back, once, for its block.
LEMMA CallBackKeeps ==
  ASSUME IInv, NEW rb \in AllBlocks, CallBack(rb)
  PROVE  IInv'
<1>1. jobs[rb] = "call" /\ JobTouches(rb) /\ UNCHANGED <<entries, corrupt, Elsewhere>>
  BY DEF CallBack, JobAt
<1> PICK c \in Requests : \E b \in BlockNumbers(c) : Owner(rb, c, b)
  BY <1>1, JobOwner
<1> PICK b \in BlockNumbers(c) : Owner(rb, c, b)
  OBVIOUS
<1> USE DEF Owner
<1>2. Types
  BY DEF IInv
<1>3. UNCHANGED <<fault, entries, arrived, withdrawn>>
  BY <1>1 DEF JobTouches, Elsewhere, ClientState
<1>4. JobGoto(<<c, b>>, "leave") /\ Called(c, b)
  BY DEF CallBack
<1>5. /\ jobs' \in [AllBlocks -> {"none", "made", "scheduled", "store", "call", "leave", "done"}]
      /\ \A a \in BlockNumbers(c) : jobs'[<<c, a>>] = IF a = b THEN "leave" ELSE jobs[<<c, a>>]
      /\ \A q \in Requests \ {c} : \A a \in BlockNumbers(q) : jobs'[<<q, a>>] = jobs[<<q, a>>]
  BY <1>2, <1>4, JobMoves
<1>6. /\ answers' \in [Requests -> Seq(Answer)] /\ Len(answers'[c]) = Len(answers[c]) + 1
      /\ BlocksAnswered(c)' = BlocksAnswered(c) \union {b}
      /\ \A q \in Requests \ {c} : answers'[q] = answers[q]
  BY <1>2, <1>4, CalledAdds
<1>7. Types'
  BY <1>1, <1>2, <1>3, <1>5, <1>6 DEF Types, Issued, Elsewhere, ClientState
<1>8. \A q \in Requests \ {c} : Same(q)
  BY <1>3, <1>5, <1>6 DEF Same
<1>9. Undone(c)' = Undone(c) /\ CalledBack(c)' = CalledBack(c) \union {b} /\ b \notin CalledBack(c)
  BY <1>1, <1>5 DEF Undone, CalledBack, BlockNumbers
<1>10. Cardinality(CalledBack(c)') = Cardinality(CalledBack(c)) + 1
  <2>1. IsFiniteSet(CalledBack(c))
    BY CountedBlocks
  <2>2. Cardinality(CalledBack(c) \union {b})
          = IF b \in CalledBack(c) THEN Cardinality(CalledBack(c)) ELSE Cardinality(CalledBack(c)) + 1
    BY <2>1, FS_AddElement, Zenon
  <2> QED
    BY <1>9, <2>2
<1>11. \A a \in BlockNumbers(c) : jobs'[<<c, a>>] # "none"
  BY <1>5 DEF ByJobs
<1>12. ByJobs(c)'
  BY <1>3, <1>6, <1>9, <1>10, <1>11 DEF ByJobs, BlockNumbers
<1>13. Followed(c)'
  BY <1>3, <1>12 DEF Followed
<1> QED
  BY <1>1, <1>3, <1>7, <1>8, <1>12, <1>13, JobKeeps DEF IInv, Counters

\* The last job to leave deletes the entry, when every job has called back.
LEMMA LeaveKeeps ==
  ASSUME IInv, NEW rb \in AllBlocks, Leave(rb)
  PROVE  IInv'
<1>1. jobs[rb] = "leave" /\ JobTouches(rb) /\ UNCHANGED <<answers, Elsewhere>>
  BY DEF Leave, JobAt
<1> PICK c \in Requests : \E b \in BlockNumbers(c) : Owner(rb, c, b)
  BY <1>1, JobOwner
<1> PICK b \in BlockNumbers(c) : Owner(rb, c, b)
  OBVIOUS
<1> USE DEF Owner
<1>2. Types
  BY DEF IInv
<1>3. UNCHANGED <<fault, answers, arrived, withdrawn>>
  BY <1>1 DEF JobTouches, Elsewhere, ClientState
<1>4. JobGoto(<<c, b>>, "done")
  BY DEF Leave
<1>5. /\ jobs' \in [AllBlocks -> {"none", "made", "scheduled", "store", "call", "leave", "done"}]
      /\ \A a \in BlockNumbers(c) : jobs'[<<c, a>>] = IF a = b THEN "done" ELSE jobs[<<c, a>>]
      /\ \A q \in Requests \ {c} : \A a \in BlockNumbers(q) : jobs'[<<q, a>>] = jobs[<<q, a>>]
  BY <1>2, <1>4, JobMoves
<1>6. PICK n \in Nat : n = entries[c].remaining /\ n = Cardinality(Undone(c)) /\ n # 0 /\ n <= BlockCount[c]
  BY CountedBlocks DEF ByJobs
<1>7. /\ entries' \in [Requests -> Entry] /\ \A q \in Requests \ {c} : entries'[q] = entries[q]
      /\ entries'[c].remaining = n - 1 /\ (entries'[c].alive <=> n # 1)
  <2>1. entries' = [entries EXCEPT ![c].remaining = @ - 1, ![c].alive = @ /\ ~IsLast(c)]
    BY DEF Leave
  <2>2. PICK live \in BOOLEAN : live = (entries[c].alive /\ ~IsLast(c))
    OBVIOUS
  <2>3. entries' = [entries EXCEPT ![c].remaining = n - 1, ![c].alive = live]
    BY <1>2, <1>6, <2>1, <2>2 DEF Types, Entry
  <2>4. live <=> n # 1
    BY <1>6, <2>2 DEF IsLast
  <2>5. PICK m \in Nat : m = n - 1
    BY <1>6
  <2>6. PICK e \in Entry : e = entries[c]
    BY <1>2 DEF Types
  <2>7. entries'[c] \in Entry /\ entries'[c].remaining = n - 1 /\ entries'[c].alive = live
    <3>1. entries'[c] = [e EXCEPT !.remaining = m, !.alive = live]
      BY <1>2, <2>3, <2>5, <2>6 DEF Types
    <3> QED
      BY <2>5, <3>1 DEF Entry
  <2>8. \A q \in Requests \ {c} : entries'[q] = entries[q]
    BY <1>2, <2>3 DEF Types
  <2>9. entries' \in [Requests -> Entry]
    <3>1. DOMAIN entries' = Requests /\ entries' = [q \in DOMAIN entries' |-> entries'[q]]
      BY <1>2, <2>3 DEF Types
    <3>2. \A q \in Requests : entries'[q] \in Entry
      BY <1>2, <2>7, <2>8 DEF Types
    <3> QED
      BY <3>1, <3>2
  <2> QED
    BY <2>4, <2>7, <2>8, <2>9
<1>8. Types'
  BY <1>1, <1>2, <1>3, <1>5, <1>7 DEF Types, Issued, Elsewhere, ClientState
<1>9. \A q \in Requests \ {c} : Same(q)
  BY <1>3, <1>5, <1>7 DEF Same
<1>10. Undone(c)' = Undone(c) \ {b} /\ CalledBack(c)' = CalledBack(c)
       /\ \A a \in BlockNumbers(c) : jobs'[<<c, a>>] # "none"
  BY <1>1, <1>5 DEF Undone, CalledBack, BlockNumbers, ByJobs
<1>11. Cardinality(Undone(c)') = n - 1 /\ (Undone(c)' = {} <=> n = 1)
  <2>1. IsFiniteSet(Undone(c) \ {b}) /\ Cardinality(Undone(c) \ {b}) = n - 1
    BY <1>6, CountedBlocks, FS_RemoveElement
  <2> QED
    BY <1>6, <1>10, <2>1, FS_EmptySet
<1>12. ByJobs(c)'
  BY <1>3, <1>7, <1>10, <1>11 DEF ByJobs, BlocksAnswered, BlockNumbers
<1>13. ~entries'[c].alive => Complete(c)'
  <2> SUFFICES ASSUME n = 1 PROVE Complete(c)'
    BY <1>7
  <2>1. CalledBack(c)' = BlockNumbers(c)
    <3>1. \A a \in BlockNumbers(c) : jobs'[<<c, a>>] = "done"
      BY <1>11 DEF Undone, BlockNumbers
    <3> QED
      BY <3>1 DEF CalledBack, BlockNumbers
  <2>2. BlocksAnswered(c)' = BlockNumbers(c) /\ Len(answers'[c]) = BlockCount[c]
    BY <1>12, <2>1, Blocks DEF ByJobs
  <2> QED
    BY <1>12, <2>2 DEF Complete, ByJobs, BlockNumbers
<1>14. Followed(c)'
  BY <1>3, <1>12, <1>13 DEF Followed
<1>15. entries'[c].remaining <= BlockCount[c]
  BY <1>6, <1>7, RequestsAssumption
<1> QED
  BY <1>1, <1>8, <1>9, <1>12, <1>14, <1>15, JobKeeps

-----------------------------------------------------------------------------
(* The theorems.                                                           *)

\* Every step keeps the invariant.
LEMMA NextIInv == IInv /\ [Next]_vars => IInv'
<1> SUFFICES ASSUME IInv, [Next]_vars PROVE IInv'
  OBVIOUS
<1>1. CASE \E r \in Requests : ReadAsync(r)
  BY <1>1, ReadAsyncKeeps
<1>2. CASE \E r \in Requests : Cancel(r)
  BY <1>2, CancelKeeps DEF Cancel
<1>3. CASE ReaderStep
  BY <1>3, StepsBesideRequests, TakeKeeps, BeginKeeps, OpenKeeps, ReadBlockKeeps, ReadFailsKeeps,
     DispatchKeeps, ScheduleKeeps, ScheduledKeeps, StoreKeeps, CallKeeps, DeleteKeeps DEF ReaderStep
<1>4. CASE \E rb \in AllBlocks : JobStep(rb)
  BY <1>4, StoringKeeps, CallBackKeeps, LeaveKeeps, StepsBesideRequests DEF JobStep
<1>5. CASE \/ Construct \/ DestroyFlag \/ Destructor \/ WaitFailed \/ Ended \/ UNCHANGED vars
           \/ \E r \in Requests : LateGetStatus(r)
  BY <1>5, StepsBesideRequests DEF Ended
<1> QED
  BY <1>1, <1>2, <1>3, <1>4, <1>5 DEF Next

\* In every reachable state IInv holds: what the queue, the reader and the jobs
\* know of a request agrees with its entry and with what its client was told.
THEOREM StreamInvariant == Spec => []IInv
<1> QED
  BY InitIInv, NextIInv, PTL DEF Spec

\* The state is well typed, the counter of awaited jobs included, and the queue
\* event is set while a request is queued: the reader does not sleep over one.
THEOREM StreamBookkeeping == Spec => []Bookkeeping
<1>1. IInv => Bookkeeping
  <2> SUFFICES ASSUME IInv PROVE Bookkeeping
    OBVIOUS
  <2>1. Types /\ Counters /\ QueuedKeepsEvent
    BY DEF IInv
  <2>2. \A r \in Requests : entries[r].status \in Statuses /\ entries[r].remaining \in 0 .. BlockCount[r]
    BY <2>1, RequestsAssumption DEF Types, Counters, Entry
  <2> QED
    BY <2>1, <2>2 DEF Bookkeeping, TypeOK, Types, Busy
<1> QED
  BY <1>1, StreamInvariant, PTL

\* The queue is sorted by rising priority value and, among equal values, by arrival,
\* and holds only requests that nobody took or answered.  The front is taken first:
\* the lowest value, not the highest priority of BaseIO.h.
THEOREM StreamOrder == Spec => []ServedInOrder
<1>1. IInv => ServedInOrder
  BY DEF IInv, QueueState, Sorted, Before, Queued, Fresh, ServedInOrder
<1> QED
  BY <1>1, StreamInvariant, PTL

\* As long as the service exists neither the reader, which goes on scheduling while
\* the first jobs run, nor a job, of which any may be the last, touches an entry that
\* was deleted.  Jobs that still run when the destructor is through do.
THEOREM StreamLifetime == Spec => []EntryOutlivesItsUsers
<1>1. IInv => EntryOutlivesItsUsers
  BY DEF IInv, Types, EntryOutlivesItsUsers
<1> QED
  BY <1>1, StreamInvariant, PTL

\* When the entry of a request is deleted, its client was called as often as its
\* kind asks for, once for every block of a request that was decompressed.
THEOREM StreamAnswers == Spec => []AnsweredOnce
<1>1. IInv => AnsweredOnce
  <2> SUFFICES ASSUME IInv, NEW r \in Requests, r \in Issued, ~entries[r].alive PROVE Complete(r)
    BY DEF AnsweredOnce, Complete, BlocksAnswered, BlockNumbers
  <2> QED
    BY DEF IInv, Followed
<1> QED
  BY <1>1, StreamInvariant, PTL

\* A request cancelled while it was queued is never read, and all that its
\* client is told is that it was cancelled.
THEOREM StreamCancellation == Spec => []CanceledIsNotRead
<1>1. IInv => CanceledIsNotRead
  <2> SUFFICES ASSUME IInv, NEW r \in withdrawn
               PROVE  /\ \A i \in DOMAIN answers[r] : answers[r][i].status = "canceled"
                      /\ BlocksOf(r) \intersect {rb \in AllBlocks : jobs[rb] # "none"} = {}
    BY DEF CanceledIsNotRead
  <2>1. r \in Requests
    BY RequestSets DEF IInv, Types
  <2>2. StaysCanceled(r)
    BY <2>1 DEF IInv, Followed
  <2> QED
    BY <2>1, <2>2, Blocks DEF StaysCanceled, Untouched
<1> QED
  BY <1>1, StreamInvariant, PTL
=============================================================================
