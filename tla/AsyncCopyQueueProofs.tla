------------------------- MODULE AsyncCopyQueueProofs -------------------------
(***************************************************************************)
(* The copy queue completes lists in the order of the calls, signals them  *)
(* when the device is done, never takes more staging memory than there is, *)
(* never sleeps on work, and drains what was executed, for any lists,      *)
(* commands, sizes and numbers of callers.                                 *)
(***************************************************************************)
EXTENDS AsyncCopyQueue, SequenceTheorems, WellFoundedInduction, TLAPS

-----------------------------------------------------------------------------
(* Sequences.                                                              *)

\* A reversed sequence has the elements and the length it had.
LEMMA ReverseType ==
  ASSUME NEW S, NEW q \in Seq(S)
  PROVE  Reverse(q) \in Seq(S) /\ Len(Reverse(q)) = Len(q)
BY DEF Reverse

\* A push in front is reversed into an arrival at the end.
LEMMA ReversePush ==
  ASSUME NEW S, NEW q \in Seq(S), NEW x \in S
  PROVE  <<x>> \o q \in Seq(S) /\ Reverse(<<x>> \o q) = Reverse(q) \o <<x>>
<1>1. /\ <<x>> \o q \in Seq(S) /\ Len(<<x>> \o q) = Len(q) + 1
      /\ \A i \in 1 .. Len(q) + 1 : (<<x>> \o q)[i] = IF i = 1 THEN x ELSE q[i - 1]
  OBVIOUS
<1>2. /\ Reverse(q) \o <<x>> \in Seq(S) /\ Len(Reverse(q) \o <<x>>) = Len(q) + 1
      /\ \A i \in 1 .. Len(q) + 1 :
           (Reverse(q) \o <<x>>)[i] = IF i <= Len(q) THEN q[(Len(q) - i) + 1] ELSE x
  BY ReverseType DEF Reverse
<1>3. /\ Reverse(<<x>> \o q) \in Seq(S) /\ Len(Reverse(<<x>> \o q)) = Len(q) + 1
      /\ \A i \in 1 .. Len(q) + 1 : Reverse(<<x>> \o q)[i] = (<<x>> \o q)[(Len(q) + 1 - i) + 1]
  BY <1>1, ReverseType DEF Reverse
<1>4. \A i \in 1 .. Len(q) + 1 : Reverse(<<x>> \o q)[i] = (Reverse(q) \o <<x>>)[i]
  <2> TAKE i \in 1 .. Len(q) + 1
  <2>1. (Len(q) + 1 - i) + 1 \in 1 .. Len(q) + 1 /\ Len(q) \in Nat
    OBVIOUS
  <2>2. (<<x>> \o q)[(Len(q) + 1 - i) + 1] = IF i = Len(q) + 1 THEN x ELSE q[(Len(q) - i) + 1]
    BY <1>1, <2>1
  <2> QED
    BY <1>2, <1>3, <2>2
<1>5. Reverse(<<x>> \o q) = Reverse(q) \o <<x>>
  <2> DEFINE a == Reverse(<<x>> \o q)
  <2> DEFINE b == Reverse(q) \o <<x>>
  <2>1. /\ a \in Seq(S) /\ b \in Seq(S) /\ Len(a) = Len(b)
        /\ \A i \in 1 .. Len(a) : a[i] = b[i]
    BY <1>2, <1>3, <1>4
  <2> HIDE DEF a, b
  <2>2. a = b
    BY <2>1, SeqEqual
  <2> QED
    BY <2>2 DEF a, b
<1> QED
  BY <1>1, <1>5

\* The last element of a stack is the first of its reversal.
LEMMA ReverseLast ==
  ASSUME NEW S, NEW q \in Seq(S), q # <<>>
  PROVE  /\ Front(q) \in Seq(S) /\ Last(q) \in S
         /\ Reverse(q) = <<Last(q)>> \o Reverse(Front(q))
<1>1. PICK n \in Nat : n >= 1 /\ Len(q) = n
  BY EmptySeq
<1>2. /\ Front(q) \in Seq(S) /\ Len(Front(q)) = n - 1 /\ Last(q) \in S /\ Last(q) = q[n]
      /\ \A i \in 1 .. n - 1 : Front(q)[i] = q[i]
  <2>1. Last(q) \in S /\ Last(q) = q[n]
    BY <1>1 DEF Last
  <2>2. /\ Front(q) \in Seq(S) /\ Len(Front(q)) = (IF 1 <= n - 1 THEN n - 1 - 1 + 1 ELSE 0)
        /\ \A i \in 1 .. n - 1 - 1 + 1 : Front(q)[i] = q[1 + i - 1]
    BY <1>1, SubSeqProperties DEF Front
  <2>3. (IF 1 <= n - 1 THEN n - 1 - 1 + 1 ELSE 0) = n - 1 /\ n - 1 - 1 + 1 = n - 1
    BY <1>1
  <2> QED
    BY <2>1, <2>2, <2>3
<1>3. /\ Reverse(Front(q)) \in Seq(S) /\ Len(Reverse(Front(q))) = n - 1
      /\ \A i \in 1 .. n - 1 : Reverse(Front(q))[i] = q[(n - 1 - i) + 1]
  BY <1>1, <1>2, ReverseType DEF Reverse
<1>4. /\ <<Last(q)>> \o Reverse(Front(q)) \in Seq(S)
      /\ Len(<<Last(q)>> \o Reverse(Front(q))) = n
      /\ \A i \in 1 .. n : (<<Last(q)>> \o Reverse(Front(q)))[i]
                           = IF i = 1 THEN q[n] ELSE Reverse(Front(q))[i - 1]
  BY <1>1, <1>2, <1>3
<1>5. \A i \in 1 .. n : Reverse(q)[i] = q[(n - i) + 1]
  BY <1>1 DEF Reverse
<1>6. \A i \in 1 .. n : (<<Last(q)>> \o Reverse(Front(q)))[i] = Reverse(q)[i]
  <2> TAKE i \in 1 .. n
  <2>1. CASE i = 1
    BY <1>1, <1>4, <1>5, <2>1
  <2>2. CASE i # 1
    <3>1. i - 1 \in 1 .. n - 1 /\ (n - 1 - (i - 1)) + 1 = (n - i) + 1
      BY <1>1, <2>2
    <3> QED
      BY <1>3, <1>4, <1>5, <2>2, <3>1
  <2> QED
    BY <2>1, <2>2
<1> QED
  BY <1>1, <1>2, <1>4, <1>6, ReverseType, SeqEqual

-----------------------------------------------------------------------------
(* The items of the ring.                                                  *)

Item == [list : Lists, fence : Nat, staging : Nat, next : Nat \ {0}]

ListsOf(items) == [i \in DOMAIN items |-> items[i].list]

\* What the fields of an item are.
LEMMA ItemFields ==
  ASSUME NEW e \in Item
  PROVE  e.list \in Lists /\ e.fence \in Nat /\ e.staging \in Nat /\ e.next \in Nat \ {0}
BY DEF Item

\* The lists of some items, one by one.
LEMMA ListsOfType ==
  ASSUME NEW items \in Seq(Item)
  PROVE  /\ ListsOf(items) \in Seq(Lists) /\ Len(ListsOf(items)) = Len(items)
         /\ \A i \in 1 .. Len(items) : ListsOf(items)[i] = items[i].list /\ items[i].list \in Lists
<1>1. \A i \in 1 .. Len(items) : items[i].list \in Lists
  BY ItemFields
<1>2. DOMAIN items = 1 .. Len(items) /\ Len(items) \in Nat
  OBVIOUS
<1> QED
  BY <1>1, <1>2 DEF ListsOf

\* An item behind the others brings its list behind theirs.
LEMMA ListsOfAppend ==
  ASSUME NEW items \in Seq(Item), NEW e \in Item
  PROVE  ListsOf(Append(items, e)) = ListsOf(items) \o <<e.list>>
<1>1. /\ Append(items, e) \in Seq(Item) /\ Len(Append(items, e)) = Len(items) + 1
      /\ \A i \in 1 .. Len(items) + 1 : Append(items, e)[i] = IF i <= Len(items) THEN items[i] ELSE e
  OBVIOUS
<1>2. e.list \in Lists
  BY ItemFields
<1>3. /\ ListsOf(items) \o <<e.list>> \in Seq(Lists)
      /\ Len(ListsOf(items) \o <<e.list>>) = Len(items) + 1
      /\ \A i \in 1 .. Len(items) + 1 :
           (ListsOf(items) \o <<e.list>>)[i] = IF i <= Len(items) THEN items[i].list ELSE e.list
  BY <1>2, ListsOfType
<1>4. \A i \in 1 .. Len(items) + 1 :
        ListsOf(Append(items, e))[i] = IF i <= Len(items) THEN items[i].list ELSE e.list
  <2> TAKE i \in 1 .. Len(items) + 1
  <2>1. ListsOf(Append(items, e))[i] = Append(items, e)[i].list
    BY <1>1, ListsOfType
  <2>2. Append(items, e)[i] = IF i <= Len(items) THEN items[i] ELSE e
    BY <1>1
  <2> QED
    BY <2>1, <2>2
<1>5. /\ ListsOf(Append(items, e)) \in Seq(Lists)
      /\ Len(ListsOf(Append(items, e))) = Len(items) + 1
  BY <1>1, ListsOfType
<1> QED
  BY <1>3, <1>4, <1>5, SeqEqual

\* The first item gone, the lists of the others are left.
LEMMA ListsOfTail ==
  ASSUME NEW items \in Seq(Item), items # <<>>
  PROVE  /\ Tail(items) \in Seq(Item) /\ items[1] \in Item
         /\ ListsOf(items) = <<items[1].list>> \o ListsOf(Tail(items))
<1>1. Len(items) \in Nat \ {0} /\ items[1] \in Item
  BY EmptySeq
<1>2. items[1].list \in Lists
  BY <1>1, ItemFields
<1>3. /\ Tail(items) \in Seq(Item) /\ Len(Tail(items)) = Len(items) - 1
      /\ \A i \in 1 .. Len(items) - 1 : Tail(items)[i] = items[i + 1]
  BY <1>1
<1>4. /\ ListsOf(Tail(items)) \in Seq(Lists) /\ Len(ListsOf(Tail(items))) = Len(items) - 1
      /\ \A i \in 1 .. Len(items) - 1 : ListsOf(Tail(items))[i] = items[i + 1].list
  BY <1>3, ListsOfType
<1>5. /\ <<items[1].list>> \o ListsOf(Tail(items)) \in Seq(Lists)
      /\ Len(<<items[1].list>> \o ListsOf(Tail(items))) = Len(items)
      /\ \A i \in 1 .. Len(items) : (<<items[1].list>> \o ListsOf(Tail(items)))[i]
                                    = IF i = 1 THEN items[1].list ELSE ListsOf(Tail(items))[i - 1]
  BY <1>1, <1>2, <1>4
<1>6. \A i \in 1 .. Len(items) :
        ListsOf(items)[i] = (<<items[1].list>> \o ListsOf(Tail(items)))[i]
  <2> TAKE i \in 1 .. Len(items)
  <2>1. CASE i = 1
    BY <1>5, <2>1, ListsOfType
  <2>2. CASE i # 1
    <3>1. i - 1 \in 1 .. Len(items) - 1 /\ (i - 1) + 1 = i
      BY <1>1, <2>2
    <3>2. ListsOf(items)[i] = items[i].list
      BY ListsOfType
    <3>3. (<<items[1].list>> \o ListsOf(Tail(items)))[i] = ListsOf(Tail(items))[i - 1]
      BY <1>5, <2>2
    <3>4. ListsOf(Tail(items))[i - 1] = items[(i - 1) + 1].list
      BY <1>4, <3>1
    <3> QED
      BY <3>1, <3>2, <3>3, <3>4
  <2> QED
    BY <2>1, <2>2
<1>7. ListsOf(items) = <<items[1].list>> \o ListsOf(Tail(items))
  <2> DEFINE a == ListsOf(items)
  <2> DEFINE b == <<items[1].list>> \o ListsOf(Tail(items))
  <2>1. a \in Seq(Lists) /\ Len(a) = Len(items)
    BY ListsOfType
  <2>2. b \in Seq(Lists) /\ Len(b) = Len(items) /\ \A i \in 1 .. Len(items) : a[i] = b[i]
    BY <1>5, <1>6
  <2> HIDE DEF a, b
  <2>3. a = b
    BY <2>1, <2>2, SeqEqual
  <2> QED
    BY <2>3 DEF a, b
<1> QED
  BY <1>1, <1>3, <1>7

-----------------------------------------------------------------------------
(* Sums.  That a sum is defined for every sequence is an induction over    *)
(* its length: the least length for which it were not is a contradiction.  *)

Below == {pair \in Nat \X Nat : pair[1] < pair[2]}

\* Some numbers have a least one.
LEMMA LeastNumber ==
  ASSUME NEW T, T \subseteq Nat, T # {} PROVE \E n \in T : \A m \in T : n <= m
<1>1. IsWellFoundedOn(Below, Nat)
  BY NatLessThanWellFounded DEF OpToRel, Below
<1>2. PICK n \in T : \A m \in T : <<m, n>> \notin Below
  BY <1>1, WFMin
<1>3. \A m \in T : m < n => <<m, n>> \in Nat \X Nat /\ <<m, n>>[1] < <<m, n>>[2]
  OBVIOUS
<1>4. \A m \in T : ~(m < n)
  BY <1>2, <1>3 DEF Below
<1> QED
  BY <1>2, <1>4

\* f gives the sum of each prefix of items up to length k.
SumsTo(f, items, k) ==
  f = [i \in 0 .. k |-> IF i = 0 THEN 0 ELSE f[i - 1] + items[i].staging]

\* The staging sizes of some items can be summed up.
LEMMA SumsExist ==
  ASSUME NEW items \in Seq(Item)
  PROVE  \E f \in [0 .. Len(items) -> Nat] : SumsTo(f, items, Len(items))
<1> DEFINE Missing == {k \in 0 .. Len(items) : \A f \in [0 .. k -> Nat] : ~SumsTo(f, items, k)}
<1>1. SUFFICES ASSUME Missing # {} PROVE FALSE
  <2>1. Len(items) \in 0 .. Len(items)
    OBVIOUS
  <2> QED
    BY <1>1, <2>1
<1>2. PICK k \in Missing : \A m \in Missing : k <= m
  <2>1. Missing \subseteq Nat
    OBVIOUS
  <2> QED
    BY <1>1, <2>1, LeastNumber
<1>3. k \in 0 .. Len(items) /\ \A f \in [0 .. k -> Nat] : ~SumsTo(f, items, k)
  OBVIOUS
<1>4. CASE k = 0
  <2> DEFINE f == [i \in 0 .. 0 |-> 0]
  <2>1. f \in [0 .. 0 -> Nat] /\ SumsTo(f, items, 0)
    BY DEF SumsTo
  <2> QED
    BY <1>3, <1>4, <2>1
<1>5. CASE k # 0
  <2>1. k - 1 \in 0 .. Len(items) /\ ~(k <= k - 1)
    BY <1>3, <1>5
  <2>2. k - 1 \notin Missing
    <3> HIDE DEF Missing
    <3> QED
      BY <1>2, <2>1
  <2>3. PICK f \in [0 .. k - 1 -> Nat] : SumsTo(f, items, k - 1)
    BY <2>1, <2>2
  <2>4. items[k].staging \in Nat
    BY <1>3, <1>5, ItemFields
  <2> DEFINE g == [i \in 0 .. k |-> IF i = k THEN f[k - 1] + items[k].staging ELSE f[i]]
  <2>5. g \in [0 .. k -> Nat]
    BY <1>3, <1>5, <2>4
  <2>6. \A i \in 0 .. k : g[i] = IF i = 0 THEN 0 ELSE g[i - 1] + items[i].staging
    BY <1>3, <1>5, <2>3 DEF SumsTo
  <2>7. SumsTo(g, items, k)
    BY <2>5, <2>6 DEF SumsTo
  <2> QED
    BY <1>3, <2>5, <2>7
<1> QED
  BY <1>4, <1>5

\* They have one sum at every place.
LEMMA SumsUnique ==
  ASSUME NEW items \in Seq(Item), NEW f, NEW g,
         SumsTo(f, items, Len(items)), SumsTo(g, items, Len(items))
  PROVE  f = g
<1> DEFINE Differ == {k \in 0 .. Len(items) : f[k] # g[k]}
<1>1. f = [i \in 0 .. Len(items) |-> f[i]] /\ g = [i \in 0 .. Len(items) |-> g[i]]
  BY DEF SumsTo
<1>2. SUFFICES ASSUME Differ # {} PROVE FALSE
  BY <1>1
<1>3. PICK k \in Differ : \A m \in Differ : k <= m
  <2>1. Differ \subseteq Nat
    OBVIOUS
  <2> QED
    BY <1>2, <2>1, LeastNumber
<1>4. CASE k = 0
  BY <1>3, <1>4 DEF SumsTo
<1>5. CASE k # 0
  <2>1. k \in 0 .. Len(items) /\ k - 1 \in 0 .. Len(items) /\ k - 1 \notin Differ
    BY <1>3, <1>5
  <2>2. f[k - 1] = g[k - 1]
    BY <2>1
  <2>3. f[k] = f[k - 1] + items[k].staging /\ g[k] = g[k - 1] + items[k].staging
    BY <2>1, <1>5 DEF SumsTo
  <2> QED
    BY <1>3, <2>2, <2>3
<1> QED
  BY <1>4, <1>5

\* The staging memory of items is the last of their sums.
LEMMA StagingIsSum ==
  ASSUME NEW items \in Seq(Item), NEW f, SumsTo(f, items, Len(items))
  PROVE  StagingOf(items) = f[Len(items)]
<1> DEFINE sum == CHOOSE h : SumsTo(h, items, Len(items))
<1>1. SumsTo(sum, items, Len(items))
  OBVIOUS
<1>2. sum = f
  BY <1>1, SumsUnique
<1>3. StagingOf(items) = sum[Len(items)]
  BY DEF StagingOf, SumsTo
<1> QED
  BY <1>2, <1>3

\* The sums of items, with what is known of them at each index.
LEMMA SumsOf ==
  ASSUME NEW items \in Seq(Item)
  PROVE  \E f \in [0 .. Len(items) -> Nat] :
           /\ f[0] = 0 /\ \A i \in 1 .. Len(items) : f[i] = f[i - 1] + items[i].staging
           /\ StagingOf(items) = f[Len(items)]
<1>1. PICK f \in [0 .. Len(items) -> Nat] : SumsTo(f, items, Len(items))
  BY SumsExist
<1>2. \A i \in 0 .. Len(items) : f[i] = IF i = 0 THEN 0 ELSE f[i - 1] + items[i].staging
  BY <1>1 DEF SumsTo
<1>3. f[0] = 0 /\ \A i \in 1 .. Len(items) : f[i] = f[i - 1] + items[i].staging
  <2>1. Len(items) \in Nat
    OBVIOUS
  <2> QED
    BY <1>2, <2>1
<1> QED
  BY <1>1, <1>3, StagingIsSum

\* And what tells that a function is the sums of items.
LEMMA SumsGiven ==
  ASSUME NEW items \in Seq(Item), NEW n \in Nat, n = Len(items), NEW f \in [0 .. n -> Int],
         f[0] = 0, \A i \in 1 .. n : f[i] = f[i - 1] + items[i].staging
  PROVE  SumsTo(f, items, n) /\ StagingOf(items) = f[n]
<1>1. \A i \in 0 .. n : f[i] = IF i = 0 THEN 0 ELSE f[i - 1] + items[i].staging
  OBVIOUS
<1>2. SumsTo(f, items, Len(items))
  BY <1>1 DEF SumsTo
<1> QED
  BY <1>2, StagingIsSum

\* Where no item is, nothing is staged.
LEMMA StagingEmpty == StagingOf(<<>>) = 0 /\ <<>> \in Seq(Item)
<1>1. <<>> \in Seq(Item) /\ Len(<<>>) = 0
  OBVIOUS
<1>2. [i \in 0 .. 0 |-> 0] \in [0 .. 0 -> Int]
  OBVIOUS
<1>3. SumsTo([i \in 0 .. 0 |-> 0], <<>>, Len(<<>>))
  BY <1>1 DEF SumsTo
<1>4. StagingOf(<<>>) = [i \in 0 .. 0 |-> 0][Len(<<>>)]
  BY <1>1, <1>3, StagingIsSum
<1> QED
  BY <1>1, <1>4

\* An item that has staged nothing yet does not change the sum.
LEMMA StagingAppend ==
  ASSUME NEW items \in Seq(Item), NEW e \in Item, e.staging = 0
  PROVE  StagingOf(Append(items, e)) = StagingOf(items)
<1> DEFINE n == Len(items)
<1>1. PICK f \in [0 .. n -> Nat] :
        /\ f[0] = 0 /\ \A i \in 1 .. n : f[i] = f[i - 1] + items[i].staging
        /\ StagingOf(items) = f[n]
  BY SumsOf
<1>2. /\ Append(items, e) \in Seq(Item) /\ Len(Append(items, e)) = n + 1 /\ n \in Nat
      /\ \A i \in 1 .. n : Append(items, e)[i] = items[i]
      /\ Append(items, e)[n + 1] = e
  OBVIOUS
<1> HIDE DEF n
<1> DEFINE g == [i \in 0 .. n + 1 |-> IF i <= n THEN f[i] ELSE f[n]]
<1>3. g \in [0 .. n + 1 -> Int] /\ g[0] = 0 /\ g[n + 1] = f[n]
  BY <1>1, <1>2
<1>4. \A i \in 1 .. n + 1 : g[i] = g[i - 1] + Append(items, e)[i].staging
  <2> TAKE i \in 1 .. n + 1
  <2>1. CASE i <= n
    BY <1>1, <1>2, <2>1
  <2>2. CASE i = n + 1
    BY <1>1, <1>2, <2>2
  <2> QED
    BY <1>2, <2>1, <2>2
<1> HIDE DEF g
<1>5. StagingOf(Append(items, e)) = g[n + 1]
  <2>1. n + 1 \in Nat
    BY <1>2
  <2> QED
    BY <2>1, <1>2, <1>3, <1>4, SumsGiven
<1> QED
  BY <1>1, <1>3, <1>5

\* An item that leaves takes what it staged with it.
LEMMA StagingTail ==
  ASSUME NEW items \in Seq(Item), items # <<>>
  PROVE  StagingOf(Tail(items)) = StagingOf(items) - items[1].staging
<1> DEFINE n == Len(items)
<1>1. PICK f \in [0 .. n -> Nat] :
        /\ f[0] = 0 /\ \A i \in 1 .. n : f[i] = f[i - 1] + items[i].staging
        /\ StagingOf(items) = f[n]
  BY SumsOf
<1>2. /\ Tail(items) \in Seq(Item) /\ Len(Tail(items)) = n - 1 /\ n \in Nat \ {0}
      /\ \A i \in 1 .. n - 1 : Tail(items)[i] = items[i + 1]
      /\ items[1].staging \in Nat
  BY ItemFields, ListsOfTail, EmptySeq
<1> HIDE DEF n
<1> DEFINE g == [i \in 0 .. n - 1 |-> f[i + 1] - items[1].staging]
<1>3. g \in [0 .. n - 1 -> Int] /\ g[0] = 0 /\ g[n - 1] = f[n] - items[1].staging
  BY <1>1, <1>2
<1>4. \A i \in 1 .. n - 1 : g[i] = g[i - 1] + Tail(items)[i].staging
  <2> TAKE i \in 1 .. n - 1
  <2>1. /\ i + 1 \in 1 .. n /\ i \in 1 .. n /\ (i + 1) - 1 = i /\ (i - 1) + 1 = i
        /\ i - 1 \in 0 .. n - 1 /\ i \in 0 .. n - 1
    BY <1>2
  <2>2. f[i + 1] = f[i] + items[i + 1].staging /\ f[i] \in Nat /\ f[i + 1] \in Nat
    BY <1>1, <2>1
  <2>3. items[i + 1].staging \in Nat
    BY <2>1, ItemFields DEF n
  <2>4. g[i] = f[i + 1] - items[1].staging /\ g[i - 1] = f[i] - items[1].staging
    BY <2>1
  <2>5. Tail(items)[i] = items[i + 1]
    BY <1>2
  <2> HIDE DEF g
  <2>6. f[i + 1] - items[1].staging = (f[i] - items[1].staging) + items[i + 1].staging
    <3>1. items[1].staging \in Nat
      BY <1>2
    <3> QED
      BY <2>2, <2>3, <3>1
  <2> QED
    BY <2>4, <2>5, <2>6
<1> HIDE DEF g
<1>5. StagingOf(Tail(items)) = g[n - 1]
  <2>1. n - 1 \in Nat
    BY <1>2
  <2> QED
    BY <2>1, <1>2, <1>3, <1>4, SumsGiven
<1> QED
  BY <1>1, <1>3, <1>5

\* The last item of the ring takes more.
LEMMA StagingGrows ==
  ASSUME NEW items \in Seq(Item), items # <<>>, NEW other \in Seq(Item), NEW size \in Nat,
         Len(other) = Len(items), \A i \in 1 .. Len(items) - 1 : other[i] = items[i],
         other[Len(items)].staging = items[Len(items)].staging + size
  PROVE  StagingOf(other) = StagingOf(items) + size
<1> DEFINE n == Len(items)
<1>1. PICK f \in [0 .. n -> Nat] :
        /\ f[0] = 0 /\ \A i \in 1 .. n : f[i] = f[i - 1] + items[i].staging
        /\ StagingOf(items) = f[n]
  BY SumsOf
<1>2. n \in Nat \ {0} /\ n = Len(other)
  BY EmptySeq
<1>3. items[n].staging \in Nat
  BY <1>2, ItemFields
<1>4. /\ \A i \in 1 .. n - 1 : other[i] = items[i]
      /\ other[n].staging = items[n].staging + size
  OBVIOUS
<1> HIDE DEF n
<1> DEFINE g == [i \in 0 .. n |-> IF i = n THEN f[n] + size ELSE f[i]]
<1>5. g \in [0 .. n -> Int] /\ g[0] = 0 /\ g[n] = f[n] + size
  BY <1>1, <1>2
<1>6. \A i \in 1 .. n : g[i] = g[i - 1] + other[i].staging
  <2> TAKE i \in 1 .. n
  <2>1. f[i] = f[i - 1] + items[i].staging /\ i - 1 \in 0 .. n /\ i - 1 # n /\ i \in 0 .. n
    BY <1>1, <1>2
  <2>2. f[i] \in Nat /\ f[i - 1] \in Nat /\ g[i - 1] = f[i - 1]
    BY <1>1, <2>1
  <2>3. CASE i = n
    BY <1>3, <1>4, <2>1, <2>2, <2>3
  <2>4. CASE i # n
    <3>1. i \in 1 .. n - 1 /\ g[i] = f[i]
      BY <1>2, <2>1, <2>4
    <3>2. other[i] = items[i]
      BY <1>4, <3>1
    <3> QED
      BY <2>1, <2>2, <3>1, <3>2
  <2> QED
    BY <2>3, <2>4
<1> HIDE DEF g
<1>7. StagingOf(other) = g[n]
  BY <1>2, <1>5, <1>6, SumsGiven
<1> QED
  BY <1>1, <1>5, <1>7
-----------------------------------------------------------------------------
(* The inductive invariant.                                                *)

Procs == Lists \union Drains \union {Thread}
ListPc == {"idle", "send", "done"}
DrainPc == {"idle", "suspend", "check", "device", "done"}

Types ==
  /\ pc \in [Procs -> ListPc \union DrainPc \union ThreadPc]
  /\ pc[Thread] \in ThreadPc
  /\ \A l \in Lists : pc[l] \in ListPc
  /\ \A d \in Drains : pc[d] \in DrainPc
  /\ threadEvent \in BOOLEAN /\ suspendEvent \in BOOLEAN
  /\ requestQueue \in Seq(Lists) /\ requestCache \in Seq(Lists)
  /\ signaled \in Seq(Lists) /\ arrived \in Seq(Lists)
  /\ processing \in Seq(Item)
  /\ fenceValue \in Nat /\ submitted \in Nat /\ completed \in Nat
  /\ executed \in SUBSET Lists /\ required \in [Drains -> SUBSET Lists]
  /\ failed \in {"none", "drain", "event"}

\* The thread is inside ProcessCommandList.
Recording == pc[Thread] \in {"record", "stall", "fence"}

\* The values of the fence number the lists: those signalled, then those in the
\* ring.  All are submitted, but for the one being recorded.
Fences ==
  /\ fenceValue = Len(signaled) + Len(processing)
  /\ \A i \in 1 .. Len(processing) : processing[i].fence = Len(signaled) + i
  /\ completed <= submitted
  /\ submitted = IF Recording THEN fenceValue - 1 ELSE fenceValue
  /\ Recording => processing # <<>>

\* The thread goes to sleep with nothing in its hands.
Asleep == pc[Thread] = "sleep" => requestCache = <<>> /\ processing = <<>>

IsIn(l, q) == \E i \in DOMAIN q : q[i] = l

\* What was executed was enqueued; what a Drain waits for was executed before,
\* and it is let through only when that is signalled.
Arrived == \A l \in Lists : l \in executed \/ pc[l] = "send" => IsIn(l, arrived)
Required ==
  \A d \in Drains :
    /\ required[d] \subseteq executed
    /\ pc[d] = "suspend" /\ suspendEvent => \A l \in required[d] : IsIn(l, signaled)
    /\ pc[d] \in {"check", "device", "done"} => \A l \in required[d] : IsIn(l, signaled)

IInv ==
  /\ Types /\ Fences /\ Asleep /\ Arrived /\ Required
  /\ WorkKeepsThreadAwake /\ HandledInOrder /\ SignaledWhenCompleted

-----------------------------------------------------------------------------
(* What the steps do.                                                      *)

\* A step moves one process.
LEMMA Moves ==
  ASSUME Types, NEW x \in Procs, NEW label \in ListPc \union DrainPc \union ThreadPc,
         Goto(x, label)
  PROVE  /\ pc' \in [Procs -> ListPc \union DrainPc \union ThreadPc]
         /\ pc'[x] = label /\ \A y \in Procs : y # x => pc'[y] = pc[y]
BY DEF Types, Goto

\* The thread is none of the callers.
LEMMA ThreadApart ==
  /\ Thread \in Procs /\ \A l \in Lists : l \in Procs /\ l # Thread /\ l \notin Drains
  /\ \A d \in Drains : d \in Procs /\ d # Thread /\ d \notin Lists
BY CommandsAssumption DEF Procs

\* A command that stages some bytes leaves an item that has them more.
LEMMA ItemGrows ==
  ASSUME NEW e \in Item, NEW size \in Nat
  PROVE  LET more == [e EXCEPT !.staging = @ + size, !.next = @ + 1] IN
         /\ more \in Item /\ more.list = e.list /\ more.fence = e.fence
         /\ more.staging = e.staging + size
<1>1. e.staging + size \in Nat /\ e.next + 1 \in Nat \ {0}
  BY ItemFields
<1> QED
  BY <1>1 DEF Item

\* One command is recorded: the last item takes more of the ring.
LEMMA Records ==
  ASSUME Types, Fences, Record
  PROVE  \E size \in Nat :
           /\ processing # <<>> /\ processing' \in Seq(Item) /\ Len(processing') = Len(processing)
           /\ \A i \in 1 .. Len(processing) - 1 : processing'[i] = processing[i]
           /\ \A i \in 1 .. Len(processing) : /\ processing'[i].list = processing[i].list
                                             /\ processing'[i].fence = processing[i].fence
           /\ processing'[Len(processing)].staging = processing[Len(processing)].staging + size
           /\ StagingOf(processing) + size <= StagingSize
<1> DEFINE size == Commands[Current.list][Current.next]
<1>1. PICK n \in Nat : n >= 1 /\ Len(processing) = n /\ n \in 1 .. n
  <2>1. processing # <<>>
    BY DEF Record, At, Fences, Recording
  <2> QED
    BY <2>1, EmptySeq DEF Types
<1>2. processing[n] \in Item /\ Current = processing[n]
  BY <1>1 DEF Types, Current
<1>3. size \in Nat
  <2>1. Current.list \in Lists /\ Current.next \in Nat \ {0}
    BY <1>2, ItemFields
  <2>2. Commands[Current.list] \in Seq(Nat) /\ Current.next <= Len(Commands[Current.list])
    BY <2>1, CommandsAssumption DEF Record, Recorded
  <2> QED
    BY <2>1, <2>2
<1> HIDE DEF size
<1> DEFINE more == [processing[n] EXCEPT !.staging = @ + size, !.next = @ + 1]
<1>4. /\ more \in Item /\ more.list = processing[n].list /\ more.fence = processing[n].fence
      /\ more.staging = processing[n].staging + size
  BY <1>2, <1>3, ItemGrows
<1>5. processing' = [processing EXCEPT ![n] = more]
  BY <1>1, <1>2 DEF Record, size
<1> HIDE DEF more
<1>6. /\ processing' \in Seq(Item) /\ Len(processing') = n /\ processing'[n] = more
      /\ \A i \in 1 .. n : i # n => processing'[i] = processing[i]
  BY <1>1, <1>4, <1>5 DEF Types
<1>7. StagingOf(processing) + size <= StagingSize
  BY DEF Record, Fits, size
<1>8. processing # <<>>
  BY <1>1
<1> QED
  BY <1>1, <1>3, <1>4, <1>6, <1>7, <1>8

\* The first item leaves the ring: its list is the next to be signalled.
LEMMA Finalizes ==
  ASSUME Types, FinalizeItem
  PROVE  /\ processing # <<>> /\ processing[1] \in Item
         /\ processing' = Tail(processing) /\ processing' \in Seq(Item)
         /\ Len(processing') = Len(processing) - 1
         /\ \A i \in 1 .. Len(processing) - 1 : processing'[i] = processing[i + 1]
         /\ signaled' = Append(signaled, processing[1].list) /\ signaled' \in Seq(Lists)
         /\ Len(signaled') = Len(signaled) + 1
<1>1. processing # <<>> /\ processing \in Seq(Item)
  BY DEF Types, FinalizeItem, FirstCompleted
<1>2. processing[1] \in Item /\ Tail(processing) \in Seq(Item)
  BY <1>1, ListsOfTail
<1>3. Len(Tail(processing)) = Len(processing) - 1
      /\ \A i \in 1 .. Len(processing) - 1 : Tail(processing)[i] = processing[i + 1]
  BY <1>1, EmptySeq
<1>4. processing[1].list \in Lists
  BY <1>2, ItemFields
<1>5. signaled' \in Seq(Lists) /\ Len(signaled') = Len(signaled) + 1
  BY <1>4 DEF Types, FinalizeItem
<1> QED
  BY <1>1, <1>2, <1>3, <1>5 DEF FinalizeItem

\* A request is fetched from what is not empty, or nothing is.
LEMMA Fetches ==
  ASSUME Types, Fetch
  PROVE  \/ /\ Refilled # <<>> /\ Refilled \in Seq(Lists)
            /\ requestCache' = Front(Refilled) /\ fenceValue' = fenceValue + 1
            /\ \E e \in Item : /\ e.list = Last(Refilled) /\ e.fence = fenceValue + 1 /\ e.staging = 0
                               /\ processing' = Append(processing, e)
            /\ Goto(Thread, "record")
         \/ /\ Refilled = <<>> /\ requestCache = <<>> /\ requestQueue = <<>>
            /\ UNCHANGED <<requestCache, requestQueue, fenceValue, processing>>
            /\ Goto(Thread, IF processing = <<>> THEN "sleep" ELSE "wait")
<1>1. Refilled \in Seq(Lists)
  BY DEF Types, Refilled
<1>2. CASE Refilled # <<>>
  <2> DEFINE e == [list |-> Last(Refilled), fence |-> fenceValue + 1, staging |-> 0, next |-> 1]
  <2>1. Last(Refilled) \in Lists
    BY <1>1, <1>2, ReverseLast
  <2>2. 1 \in Nat \ {0}
    OBVIOUS
  <2>3. e \in Item /\ e.list = Last(Refilled) /\ e.fence = fenceValue + 1 /\ e.staging = 0
    BY <2>1, <2>2 DEF Item, Types
  <2>4. /\ requestCache' = Front(Refilled) /\ fenceValue' = fenceValue + 1
        /\ processing' = Append(processing, e) /\ Goto(Thread, "record")
    BY <1>2 DEF Fetch, Oldest, NextFence
  <2> QED
    BY <1>1, <1>2, <2>3, <2>4
<1>3. CASE Refilled = <<>>
  <2>1. requestCache = <<>> /\ requestQueue = <<>>
    BY <1>3 DEF Refilled
  <2> QED
    BY <1>3, <2>1 DEF Fetch
<1> QED
  BY <1>2, <1>3

-----------------------------------------------------------------------------
(* Every step keeps every part of the invariant.                           *)

\* The variables the queue itself is made of, and the callers' part.
ringVars == <<requestQueue, requestCache, processing, fenceValue, submitted, completed, signaled>>
callVars == <<arrived, executed, required>>

\* A step of the thread that only goes elsewhere.
ThreadMoves ==
  /\ Wake \/ Sleep \/ Stall \/ StallRetry \/ StallWait \/ FenceReached
  /\ UNCHANGED <<ringVars, callVars>>

\* Each of the thread's own steps moves it where ThreadMoves says.
LEMMA ThreadMovesStep ==
  ASSUME Wake \/ Sleep \/ Stall \/ StallRetry \/ StallWait \/ FenceReached PROVE ThreadMoves
BY DEF ThreadMoves, Wake, Sleep, Stall, StallRetry, StallWait, FenceReached, ringVars, callVars,
       ClientState

\* Every step keeps the types.
LEMMA TypesStep == ASSUME IInv, [Next]_vars PROVE Types'
<1> USE DEF IInv
<1> DEFINE Labels == ListPc \union DrainPc \union ThreadPc
<1>1. \A l \in Lists : l \in Procs /\ l # Thread /\ l \notin Drains
  BY ThreadApart
<1>2. \A d \in Drains : d \in Procs /\ d # Thread /\ d \notin Lists
  BY ThreadApart
<1>3. Thread \in Procs
  BY ThreadApart
\* Where a process goes.
<1>t. ASSUME NEW label \in ThreadPc, Goto(Thread, label)
      PROVE  /\ pc' \in [Procs -> Labels] /\ pc'[Thread] \in ThreadPc
             /\ \A l \in Lists : pc'[l] \in ListPc
             /\ \A d \in Drains : pc'[d] \in DrainPc
  BY <1>1, <1>2, <1>3, <1>t, Moves DEF Types
<1>l. ASSUME NEW l \in Lists, NEW label \in ListPc, Goto(l, label)
      PROVE  /\ pc' \in [Procs -> Labels] /\ pc'[Thread] \in ThreadPc
             /\ \A k \in Lists : pc'[k] \in ListPc
             /\ \A d \in Drains : pc'[d] \in DrainPc
  BY <1>1, <1>2, <1>3, <1>l, Moves DEF Types
<1>d. ASSUME NEW d \in Drains, NEW label \in DrainPc, Goto(d, label)
      PROVE  /\ pc' \in [Procs -> Labels] /\ pc'[Thread] \in ThreadPc
             /\ \A l \in Lists : pc'[l] \in ListPc
             /\ \A c \in Drains : pc'[c] \in DrainPc
  BY <1>1, <1>2, <1>3, <1>d, Moves DEF Types
<1>a. ASSUME NEW l \in Lists, ExecuteEnqueue(l) PROVE Types'
  <2>1. requestQueue' \in Seq(Lists) /\ arrived' \in Seq(Lists)
    BY <1>a, ReversePush DEF Types, ExecuteEnqueue
  <2>2. Goto(l, "send") /\ "send" \in ListPc
    BY <1>a DEF ExecuteEnqueue, ListPc
  <2> QED
    BY <1>a, <1>l, <2>1, <2>2 DEF Types, ExecuteEnqueue
<1>b. ASSUME NEW l \in Lists, ExecuteSend(l) PROVE Types'
  <2>1. Goto(l, "done") /\ "done" \in ListPc
    BY <1>b DEF ExecuteSend, ListPc
  <2> QED
    BY <1>b, <1>l, <2>1 DEF Types, ExecuteSend
<1>c. ASSUME NEW d \in Drains, DrainBegin(d) PROVE Types'
  <2>1. Goto(d, "suspend") /\ "suspend" \in DrainPc
    BY <1>c DEF DrainBegin, DrainPc
  <2> QED
    BY <1>c, <1>d, <2>1 DEF Types, DrainBegin, SuspendEventReset, ThreadEventSent
<1>e. ASSUME NEW d \in Drains, DrainStep(d) PROVE Types'
  <2>1. CASE DrainWait(d)
    <3>1. Goto(d, "check") /\ "check" \in DrainPc
      BY <2>1 DEF DrainWait, DrainPc
    <3> QED
      BY <2>1, <1>d, <3>1 DEF Types, DrainWait
  <2>2. CASE DrainCheck(d)
    <3>1. (Goto(d, "device") /\ UNCHANGED failed) \/ (failed' = "drain" /\ UNCHANGED pc)
      BY <2>2 DEF DrainCheck
    <3>2. "device" \in DrainPc
      BY DEF DrainPc
    <3> QED
      BY <2>2, <1>d, <3>1, <3>2 DEF Types, DrainCheck
  <2>3. CASE DrainReturn(d)
    <3>1. Goto(d, "done") /\ "done" \in DrainPc
      BY <2>3 DEF DrainReturn, DrainPc
    <3> QED
      BY <2>3, <1>d, <3>1 DEF Types, DrainReturn
  <2> QED
    BY <1>e, <2>1, <2>2, <2>3 DEF DrainStep
<1>f. CASE Wake \/ Sleep \/ Stall \/ StallRetry \/ StallWait \/ FenceReached
  <2>1. UNCHANGED <<ringVars, callVars, failed>>
    BY <1>f DEF Wake, Sleep, Stall, StallRetry, StallWait, FenceReached, ringVars, callVars,
                ClientState
  <2>2. threadEvent' \in BOOLEAN /\ suspendEvent' \in BOOLEAN
    BY <1>f DEF Types, Wake, Sleep, Stall, StallRetry, StallWait, FenceReached, ClientState
  <2>3. \E label \in ThreadPc : Goto(Thread, label)
    BY <1>f DEF Wake, Sleep, Stall, StallRetry, StallWait, FenceReached, ThreadPc
  <2> QED
    BY <1>t, <2>1, <2>2, <2>3 DEF Types, ringVars, callVars
<1>g. CASE FinalizeItem
  <2>1. processing' \in Seq(Item) /\ signaled' \in Seq(Lists)
    BY <1>g, Finalizes
  <2> QED
    BY <1>g, <2>1 DEF Types, FinalizeItem, ClientState
<1>h. CASE Fetch
  <2>1. requestQueue' \in Seq(Lists)
    BY <1>h DEF Types, Fetch
  <2>2. requestCache' \in Seq(Lists) /\ processing' \in Seq(Item) /\ fenceValue' \in Nat
    <3>1. CASE Refilled # <<>>
      <4>1. Refilled \in Seq(Lists) /\ requestCache' = Front(Refilled) /\ fenceValue' = fenceValue + 1
        BY <1>h, <3>1, Fetches
      <4>2. PICK e \in Item : processing' = Append(processing, e)
        BY <1>h, <3>1, Fetches
      <4>3. Front(Refilled) \in Seq(Lists)
        BY <3>1, <4>1, ReverseLast
      <4> QED
        BY <4>1, <4>2, <4>3 DEF Types
    <3>2. CASE Refilled = <<>>
      BY <1>h, <3>2, Fetches DEF Types
    <3> QED
      BY <3>1, <3>2
  <2>3. \E label \in ThreadPc : Goto(Thread, label)
    BY <1>h, Fetches DEF ThreadPc
  <2> QED
    BY <1>h, <1>t, <2>1, <2>2, <2>3 DEF Types, Fetch, ClientState
<1>i. CASE Record
  <2>1. processing' \in Seq(Item)
    BY <1>i, Records
  <2> QED
    BY <1>i, <2>1 DEF Types, Record, ClientState
<1>j. CASE Submit
  <2>1. Current.fence \in Nat
    <3>0. processing # <<>> /\ processing \in Seq(Item)
      BY <1>j DEF Types, Fences, Recording, Submit, At
    <3>1. PICK n \in Nat : n >= 1 /\ Len(processing) = n
      BY <3>0, EmptySeq
    <3>2. Current \in Item
      BY <3>1 DEF Types, Current
    <3> QED
      BY <3>2, ItemFields
  <2>2. Goto(Thread, "wait") /\ "wait" \in ThreadPc
    BY <1>j DEF Submit, ThreadPc
  <2> QED
    BY <1>j, <1>t, <2>1, <2>2 DEF Types, Submit, ClientState
<1>k. CASE Construct \/ Destroy \/ WaitFailed \/ Ended \/ UNCHANGED vars
  <2>1. UNCHANGED <<pc, ringVars, callVars>>
    BY <1>k DEF Construct, Destroy, WaitFailed, Ended, vars, ClientState, ringVars, callVars
  <2>2. /\ threadEvent' \in BOOLEAN /\ suspendEvent' \in BOOLEAN
        /\ failed' \in {"none", "drain", "event"}
    BY <1>k DEF Types, Construct, Destroy, WaitFailed, Ended, vars, ClientState
  <2> QED
    BY <2>1, <2>2 DEF Types, ringVars, callVars
<1>m. CASE Complete
  BY <1>m DEF Types, Complete, ClientState
<1> QED
  BY <1>a, <1>b, <1>c, <1>e, <1>f, <1>g, <1>h, <1>i, <1>j, <1>k, <1>m DEF Next, ThreadStep

\* The fence.
LEMMA FencesStep == ASSUME IInv, [Next]_vars PROVE Fences' /\ Len(signaled') <= completed'
<1> USE DEF IInv, SignaledWhenCompleted
<1> USE ThreadApart
<1>1. Len(signaled) \in Nat /\ Len(processing) \in Nat
  BY DEF Types
<1>2. ASSUME UNCHANGED <<processing, fenceValue, submitted, completed, signaled>>,
             pc'[Thread] = pc[Thread] \/ (Recording /\ pc'[Thread] \in {"record", "stall", "fence"})
             \/ (~Recording /\ pc'[Thread] \notin {"record", "stall", "fence"})
      PROVE  Fences' /\ Len(signaled') <= completed'
  BY <1>2 DEF Fences, Recording
<1>a. ASSUME NEW x \in Lists \union Drains, NEW label \in ListPc \union DrainPc, Goto(x, label)
      PROVE  pc'[Thread] = pc[Thread]
  <2>1. x \in Procs /\ x # Thread /\ Thread \in Procs
    OBVIOUS
  <2> QED
    BY <1>a, <2>1, Moves
<1>b. ASSUME NEW l \in Lists, ExecuteEnqueue(l) \/ ExecuteSend(l)
      PROVE  Fences' /\ Len(signaled') <= completed'
  <2>1. \E label \in ListPc : Goto(l, label)
    BY <1>b DEF ExecuteEnqueue, ExecuteSend, ListPc
  <2>2. pc'[Thread] = pc[Thread]
    BY <1>a, <2>1
  <2> QED
    BY <1>2, <1>b, <2>2 DEF ExecuteEnqueue, ExecuteSend
<1>c. ASSUME NEW d \in Drains, DrainBegin(d) \/ DrainStep(d)
      PROVE  Fences' /\ Len(signaled') <= completed'
  <2>1. (\E label \in DrainPc : Goto(d, label)) \/ UNCHANGED pc
    BY <1>c DEF DrainBegin, DrainStep, DrainWait, DrainCheck, DrainReturn, DrainPc
  <2>2. pc'[Thread] = pc[Thread]
    BY <1>a, <2>1
  <2> QED
    BY <1>2, <1>c, <2>2 DEF DrainBegin, DrainStep, DrainWait, DrainCheck, DrainReturn
<1>d. CASE Wake \/ Sleep \/ Stall \/ StallRetry \/ StallWait \/ FenceReached
  <2>1. UNCHANGED ringVars
    BY <1>d, ThreadMovesStep DEF ThreadMoves
  <2>2. CASE Wake \/ Sleep
    <3>1. pc[Thread] \in {"wait", "sleep"} /\ \E label \in {"wait", "exited", "finalize"} : Goto(Thread, label)
      BY <2>2 DEF Wake, Sleep, At
    <3>2. pc'[Thread] \in {"wait", "exited", "finalize"}
      BY <3>1, Moves DEF ThreadPc
    <3> QED
      BY <1>2, <2>1, <3>1, <3>2 DEF Recording, ringVars
  <2>3. CASE Stall \/ StallRetry \/ StallWait \/ FenceReached
    <3>1. Recording /\ \E label \in {"record", "stall", "fence"} : Goto(Thread, label)
      BY <2>3 DEF Stall, StallRetry, StallWait, FenceReached, At, Recording
    <3>2. pc'[Thread] \in {"record", "stall", "fence"}
      BY <3>1, Moves DEF ThreadPc
    <3> QED
      BY <1>2, <2>1, <3>1, <3>2 DEF Recording, ringVars
  <2> QED
    BY <1>d, <2>2, <2>3
<1>e. CASE FinalizeItem
  <2>1. /\ processing # <<>> /\ Len(processing') = Len(processing) - 1
        /\ \A i \in 1 .. Len(processing) - 1 : processing'[i] = processing[i + 1]
        /\ Len(signaled') = Len(signaled) + 1
    BY <1>e, Finalizes
  <2>2. PICK n \in Nat : n >= 1 /\ Len(processing) = n
    BY <2>1, EmptySeq DEF Types
  <2>3. UNCHANGED <<pc, fenceValue, submitted, completed>> /\ processing[1].fence <= completed
    BY <1>e DEF FinalizeItem, FirstCompleted
  <2>4. processing[1].fence = Len(signaled) + 1
    BY <2>2 DEF Fences
  <2>5. Len(signaled) + 1 <= completed
    BY <2>3, <2>4
  <2>6. Recording => n >= 2
    BY <1>1, <2>2, <2>5 DEF Fences, Types
  <2>7. Recording => processing' # <<>>
    BY <2>1, <2>2, <2>6, EmptySeq
  <2>8. \A i \in 1 .. n - 1 : processing'[i].fence = (Len(signaled) + 1) + i
    <3> TAKE i \in 1 .. n - 1
    <3>1. i + 1 \in 1 .. n
      BY <2>2
    <3> QED
      BY <1>1, <2>1, <2>2, <3>1 DEF Fences
  <2>9. fenceValue = Len(signaled') + Len(processing')
    BY <1>1, <2>1, <2>2 DEF Fences
  <2> QED
    BY <1>1, <2>1, <2>2, <2>3, <2>5, <2>7, <2>8, <2>9 DEF Fences, Recording
<1>f. CASE Fetch
  <2>1. UNCHANGED <<submitted, completed, signaled>> /\ pc[Thread] = "finalize"
    BY <1>f DEF Fetch, At
  <2>2. CASE Refilled = <<>>
    <3>1. UNCHANGED <<fenceValue, processing>> /\ \E label \in {"sleep", "wait"} : Goto(Thread, label)
      BY <1>f, <2>2, Fetches
    <3>2. pc'[Thread] \in {"sleep", "wait"}
      BY <3>1, Moves DEF ThreadPc
    <3> QED
      BY <1>2, <2>1, <3>1, <3>2 DEF Recording
  <2>3. CASE Refilled # <<>>
    <3>1. fenceValue' = fenceValue + 1 /\ Goto(Thread, "record")
      BY <1>f, <2>3, Fetches
    <3>2. PICK e \in Item : e.fence = fenceValue + 1 /\ processing' = Append(processing, e)
      BY <1>f, <2>3, Fetches
    <3>3. pc'[Thread] = "record"
      BY <3>1, Moves DEF ThreadPc
    <3>4. /\ Len(processing') = Len(processing) + 1 /\ processing' # <<>>
          /\ \A i \in 1 .. Len(processing) : processing'[i] = processing[i]
          /\ processing'[Len(processing) + 1] = e
      BY <3>2 DEF Types
    <3>5. \A i \in 1 .. Len(processing) + 1 : processing'[i].fence = Len(signaled) + i
      <4> TAKE i \in 1 .. Len(processing) + 1
      <4>1. CASE i <= Len(processing)
        BY <1>1, <3>4, <4>1 DEF Fences
      <4>2. CASE i = Len(processing) + 1
        BY <1>1, <3>2, <3>4, <4>2 DEF Fences
      <4> QED
        BY <1>1, <4>1, <4>2
    <3>6. ~Recording
      BY <2>1 DEF Recording
    <3> QED
      BY <1>1, <2>1, <3>1, <3>3, <3>4, <3>5, <3>6 DEF Fences, Recording, Types
  <2> QED
    BY <2>2, <2>3
<1>g. CASE Record
  <2>1. /\ Len(processing') = Len(processing) /\ processing' # <<>>
        /\ \A i \in 1 .. Len(processing) : processing'[i].fence = processing[i].fence
    <3>1. processing # <<>> /\ Len(processing') = Len(processing) /\ processing' \in Seq(Item)
      BY <1>g, Records
    <3>2. \A i \in 1 .. Len(processing) : processing'[i].fence = processing[i].fence
      BY <1>g, Records
    <3> QED
      BY <3>1, <3>2, EmptySeq DEF Types
  <2>2. UNCHANGED <<pc, fenceValue, submitted, completed, signaled>>
    BY <1>g DEF Record
  <2> QED
    BY <2>1, <2>2 DEF Fences, Recording
<1>h. CASE Submit
  <2>1. PICK n \in Nat : n >= 1 /\ Len(processing) = n /\ Recording
    BY <1>h, EmptySeq DEF Types, Fences, Recording, Submit, At
  <2>2. submitted' = fenceValue
    BY <1>1, <1>h, <2>1 DEF Submit, Current, Fences
  <2>3. Goto(Thread, "wait") /\ UNCHANGED <<processing, fenceValue, completed, signaled>>
    BY <1>h DEF Submit
  <2>4. pc'[Thread] = "wait"
    BY <2>3, Moves DEF ThreadPc
  <2>5. completed <= fenceValue
    BY <2>1 DEF Fences, Types
  <2> QED
    BY <2>2, <2>3, <2>4, <2>5 DEF Fences, Recording
<1>i. CASE Complete
  BY <1>1, <1>i DEF Complete, Fences, Recording, Types
<1>j. CASE Construct \/ Destroy \/ WaitFailed \/ Ended \/ UNCHANGED vars
  BY <1>2, <1>j DEF Construct, Destroy, WaitFailed, Ended, vars
<1> QED
  BY <1>b, <1>c, <1>d, <1>e, <1>f, <1>g, <1>h, <1>i, <1>j DEF Next, ThreadStep

\* The order.
Ordered(all, sig, items, cache, queue) ==
  all = ((sig \o ListsOf(items)) \o Reverse(cache)) \o Reverse(queue)

\* HandledInOrder, of the variables alone.
LEMMA OrderIs ==
  HandledInOrder <=> Ordered(arrived, signaled, processing, requestCache, requestQueue)
BY DEF HandledInOrder, Ordered, ListsOf

\* Three sequences in a row are one sequence.
LEMMA Associates ==
  ASSUME NEW a \in Seq(Lists), NEW b \in Seq(Lists), NEW c \in Seq(Lists)
  PROVE  (a \o b) \o c = a \o (b \o c)
BY ConcatAssociative

\* Two sequences of lists in a row are a sequence of lists.
LEMMA Concats == \A a, b \in Seq(Lists) : a \o b \in Seq(Lists)
OBVIOUS

\* Every step keeps the order of the lists.
LEMMA OrderStep == ASSUME IInv, [Next]_vars PROVE HandledInOrder'
<1> DEFINE S == signaled
<1> DEFINE P == ListsOf(processing)
<1> DEFINE C == Reverse(requestCache)
<1> DEFINE Q == Reverse(requestQueue)
<1>1. /\ S \in Seq(Lists) /\ P \in Seq(Lists) /\ C \in Seq(Lists) /\ Q \in Seq(Lists)
      /\ arrived \in Seq(Lists)
  BY ReverseType, ListsOfType DEF IInv, Types
<1>2. arrived = ((S \o P) \o C) \o Q
  BY OrderIs DEF IInv, Ordered
<1>3. SUFFICES Ordered(arrived', signaled', processing', requestCache', requestQueue')
  BY DEF HandledInOrder, Ordered, ListsOf
<1>4. S \o P \in Seq(Lists) /\ (S \o P) \o C \in Seq(Lists)
  BY <1>1, Concats
<1>a. ASSUME NEW l \in Lists, ExecuteEnqueue(l)
      PROVE  Ordered(arrived', signaled', processing', requestCache', requestQueue')
  <2>1. Reverse(requestQueue') = Q \o <<l>>
    BY <1>a, ReversePush DEF ExecuteEnqueue, IInv, Types
  <2>2. arrived' = arrived \o <<l>> /\ <<l>> \in Seq(Lists)
    BY <1>1, <1>a, AppendIsConcat DEF ExecuteEnqueue
  <2>3. (((S \o P) \o C) \o Q) \o <<l>> = ((S \o P) \o C) \o (Q \o <<l>>)
    <3> DEFINE T == (S \o P) \o C
    <3> DEFINE o == <<l>>
    <3>1. T \in Seq(Lists) /\ Q \in Seq(Lists) /\ o \in Seq(Lists)
      BY <1>1, <1>4, <2>2
    <3> HIDE DEF T, Q, o
    <3>2. (T \o Q) \o o = T \o (Q \o o)
      BY <3>1, Associates, Zenon
    <3> QED
      BY <3>2 DEF T, Q, o
  <2>4. UNCHANGED <<signaled, processing, requestCache>>
    BY <1>a DEF ExecuteEnqueue
  <2> QED
    BY <1>2, <2>1, <2>2, <2>3, <2>4 DEF Ordered
<1>b. CASE FinalizeItem
  <2>1. /\ processing # <<>> /\ processing[1] \in Item /\ processing' = Tail(processing)
        /\ signaled' = Append(signaled, processing[1].list)
    BY <1>b, Finalizes DEF IInv
  <2>2. P = <<processing[1].list>> \o ListsOf(Tail(processing)) /\ Tail(processing) \in Seq(Item)
    BY <2>1, ListsOfTail DEF IInv, Types
  <2>3. signaled' = S \o <<processing[1].list>> /\ <<processing[1].list>> \in Seq(Lists)
    <3>1. processing[1].list \in Lists
      BY <2>1, ItemFields
    <3> QED
      BY <1>1, <2>1, <3>1, AppendIsConcat
  <2>4. ListsOf(Tail(processing)) \in Seq(Lists)
    BY <2>2, ListsOfType
  <2>5. S \o P = signaled' \o ListsOf(Tail(processing))
    <3>1. (S \o <<processing[1].list>>) \o ListsOf(Tail(processing))
          = S \o (<<processing[1].list>> \o ListsOf(Tail(processing)))
      <4> DEFINE o == <<processing[1].list>>
      <4> DEFINE T == ListsOf(Tail(processing))
      <4>1. S \in Seq(Lists) /\ T \in Seq(Lists) /\ o \in Seq(Lists)
        BY <1>1, <2>3, <2>4
      <4> HIDE DEF S, T, o
      <4>2. (S \o o) \o T = S \o (o \o T)
        BY <4>1, Associates, Zenon
      <4> QED
        BY <4>2 DEF S, T, o
    <3> QED
      BY <2>2, <2>3, <3>1
  <2>6. UNCHANGED <<arrived, requestCache, requestQueue>>
    BY <1>b DEF FinalizeItem, ClientState
  <2> QED
    BY <1>2, <2>1, <2>5, <2>6 DEF Ordered
<1>c. CASE Fetch
  <2>1. UNCHANGED <<arrived, signaled>>
    BY <1>c DEF Fetch, ClientState
  <2>2. CASE Refilled = <<>>
    <3>1. UNCHANGED <<requestCache, requestQueue, processing>>
      BY <1>c, <2>2, Fetches DEF IInv
    <3> QED
      BY <1>2, <2>1, <3>1 DEF Ordered
  <2>3. CASE Refilled # <<>>
    <3>1. Refilled \in Seq(Lists) /\ requestCache' = Front(Refilled)
      BY <1>c, <2>3, Fetches DEF IInv
    <3>2. PICK e \in Item : e.list = Last(Refilled) /\ processing' = Append(processing, e)
      BY <1>c, <2>3, Fetches DEF IInv
    <3> DEFINE x == Last(Refilled)
    <3> DEFINE F == Reverse(Front(Refilled))
    <3>3. /\ x \in Lists /\ Front(Refilled) \in Seq(Lists) /\ F \in Seq(Lists)
          /\ Reverse(Refilled) = <<x>> \o F
      BY <2>3, <3>1, ReverseLast, ReverseType
    <3>4. <<x>> \in Seq(Lists)
      BY <3>3
    <3>5. ListsOf(processing') = P \o <<x>>
      BY <3>2, ListsOfAppend DEF IInv, Types
    <3>7. (S \o P) \o (<<x>> \o F) = (S \o (P \o <<x>>)) \o F
      <4> DEFINE o == <<x>>
      <4>1. S \in Seq(Lists) /\ P \in Seq(Lists) /\ o \in Seq(Lists) /\ F \in Seq(Lists)
        BY <1>1, <3>3, <3>4
      <4> HIDE DEF S, P, o, F
      <4> DEFINE T == S \o P
      <4>2. T \in Seq(Lists) /\ T \o o = S \o (P \o o)
        <5>1. T \in Seq(Lists)
          BY <4>1, Concats
        <5>2. T \o o = S \o (P \o o)
          BY <4>1, Associates, Zenon
        <5> QED
          BY <5>1, <5>2
      <4> HIDE DEF T
      <4>3. (T \o o) \o F = T \o (o \o F)
        BY <4>1, <4>2, Associates, Zenon
      <4> QED
        BY <4>2, <4>3 DEF S, P, o, F, T
    <3>8. S \o (P \o <<x>>) \in Seq(Lists) /\ (S \o (P \o <<x>>)) \o F \in Seq(Lists)
      <4>1. P \o <<x>> \in Seq(Lists)
        BY <1>1, <3>4, Concats
      <4> QED
        BY <1>1, <3>3, <4>1, Concats
    <3> HIDE DEF x, F
    <3>9. CASE requestCache # <<>>
      <4>1. Refilled = requestCache /\ requestQueue' = requestQueue
        BY <1>c, <3>9 DEF Refilled, Fetch
      <4>2. C = <<x>> \o F
        BY <3>3, <4>1
      <4> QED
        BY <1>2, <2>1, <3>1, <3>5, <3>7, <4>1, <4>2 DEF Ordered, F
    <3>10. CASE requestCache = <<>>
      <4>1. Refilled = requestQueue /\ requestQueue' = <<>>
        BY <1>c, <3>10 DEF Refilled, Fetch
      <4>2. Q = <<x>> \o F
        BY <3>3, <4>1
      <4>3. Reverse(<<>>) = <<>>
        BY DEF Reverse
      <4>4. (S \o P) \o <<>> = S \o P
        BY <1>4, ConcatEmptySeq
      <4>5. ((S \o (P \o <<x>>)) \o F) \o <<>> = (S \o (P \o <<x>>)) \o F
        BY <3>8, ConcatEmptySeq
      <4>6. arrived = (S \o P) \o (<<x>> \o F)
        BY <1>2, <3>10, <4>2, <4>3, <4>4
      <4>7. Reverse(requestQueue') = <<>>
        BY <4>1, <4>3
      <4> QED
        BY <2>1, <3>1, <3>5, <3>7, <4>5, <4>6, <4>7 DEF Ordered, F
    <3> QED
      BY <3>9, <3>10
  <2> QED
    BY <2>2, <2>3
<1>d. CASE Record
  <2>1. processing' \in Seq(Item) /\ Len(processing') = Len(processing)
    BY <1>d, Records DEF IInv
  <2>2. \A i \in 1 .. Len(processing) : processing'[i].list = processing[i].list
    BY <1>d, Records DEF IInv
  <2>3. ListsOf(processing') = P
    <3>1. /\ ListsOf(processing') \in Seq(Lists) /\ Len(ListsOf(processing')) = Len(processing)
          /\ \A i \in 1 .. Len(processing) : ListsOf(processing')[i] = processing'[i].list
      BY <2>1, ListsOfType
    <3>2. /\ P \in Seq(Lists) /\ Len(P) = Len(processing)
          /\ \A i \in 1 .. Len(processing) : P[i] = processing[i].list
      BY ListsOfType DEF IInv, Types
    <3> QED
      BY <2>2, <3>1, <3>2, SeqEqual
  <2>4. UNCHANGED <<arrived, signaled, requestCache, requestQueue>>
    BY <1>d DEF Record, ClientState
  <2> QED
    BY <1>2, <2>3, <2>4 DEF Ordered
<1>e. CASE UNCHANGED <<arrived, signaled, processing, requestCache, requestQueue>>
  BY <1>2, <1>e DEF Ordered
<1>f. CASE \/ Construct \/ Destroy \/ WaitFailed \/ Wake \/ Sleep \/ Stall \/ StallRetry
           \/ StallWait \/ FenceReached \/ Submit \/ Complete \/ Ended \/ UNCHANGED vars
  BY <1>e, <1>f DEF Construct, Destroy, WaitFailed, Wake, Sleep, Stall, StallRetry, StallWait,
                    FenceReached, Submit, Complete, Ended, vars, ClientState
<1>g. ASSUME NEW l \in Lists, ExecuteSend(l)
      PROVE  UNCHANGED <<arrived, signaled, processing, requestCache, requestQueue>>
  BY <1>g DEF ExecuteSend
<1>h. ASSUME NEW d \in Drains, DrainBegin(d) \/ DrainStep(d)
      PROVE  UNCHANGED <<arrived, signaled, processing, requestCache, requestQueue>>
  BY <1>h DEF DrainBegin, DrainStep, DrainWait, DrainCheck, DrainReturn
<1> QED
  BY <1>a, <1>b, <1>c, <1>d, <1>e, <1>f, <1>g, <1>h DEF Next, ThreadStep

\* The ring.
LEMMA RingStep == ASSUME IInv, [Next]_vars PROVE (StagingOf(processing) <= StagingSize)'
<1>1. processing \in Seq(Item) /\ StagingOf(processing) <= StagingSize
  BY DEF IInv, Types, SignaledWhenCompleted
<1>s. StagingOf(processing) \in Nat /\ StagingSize \in Nat
  <2>1. PICK f \in [0 .. Len(processing) -> Nat] : StagingOf(processing) = f[Len(processing)]
    BY <1>1, SumsOf
  <2> QED
    BY <1>1, <2>1, CommandsAssumption
<1>2. SUFFICES StagingOf(processing') <= StagingSize
  BY DEF StagingOf
<1>3. CASE FinalizeItem
  <2>1. processing # <<>> /\ processing' = Tail(processing) /\ processing[1] \in Item
    BY <1>3, Finalizes DEF IInv
  <2>2. StagingOf(Tail(processing)) = StagingOf(processing) - processing[1].staging
    BY <1>1, <2>1, StagingTail
  <2>3. processing[1].staging \in Nat
    BY <2>1, ItemFields
  <2> QED
    BY <1>1, <1>s, <2>1, <2>2, <2>3
<1>4. CASE Fetch
  <2>1. CASE Refilled # <<>>
    <3>1. PICK e \in Item : e.staging = 0 /\ processing' = Append(processing, e)
      BY <1>4, <2>1, Fetches DEF IInv
    <3> QED
      BY <1>1, <3>1, StagingAppend
  <2>2. CASE Refilled = <<>>
    BY <1>1, <1>4, <2>2, Fetches DEF IInv
  <2> QED
    BY <2>1, <2>2
<1>5. CASE Record
  <2>1. PICK size \in Nat :
          /\ processing # <<>> /\ processing' \in Seq(Item) /\ Len(processing') = Len(processing)
          /\ \A i \in 1 .. Len(processing) - 1 : processing'[i] = processing[i]
          /\ processing'[Len(processing)].staging = processing[Len(processing)].staging + size
          /\ StagingOf(processing) + size <= StagingSize
    BY <1>5, Records DEF IInv
  <2>2. StagingOf(processing') = StagingOf(processing) + size
    BY <1>1, <2>1, StagingGrows
  <2> QED
    BY <2>1, <2>2
<1>6. CASE UNCHANGED processing
  BY <1>1, <1>6
<1>7. CASE \/ Construct \/ Destroy \/ WaitFailed \/ Wake \/ Sleep \/ Stall \/ StallRetry
           \/ StallWait \/ FenceReached \/ Submit \/ Complete \/ Ended \/ UNCHANGED vars
  BY <1>6, <1>7 DEF Construct, Destroy, WaitFailed, Wake, Sleep, Stall, StallRetry, StallWait,
                    FenceReached, Submit, Complete, Ended, vars, ClientState
<1>8. ASSUME NEW l \in Lists, ExecuteEnqueue(l) \/ ExecuteSend(l) PROVE UNCHANGED processing
  BY <1>8 DEF ExecuteEnqueue, ExecuteSend
<1>9. ASSUME NEW d \in Drains, DrainBegin(d) \/ DrainStep(d) PROVE UNCHANGED processing
  BY <1>9 DEF DrainBegin, DrainStep, DrainWait, DrainCheck, DrainReturn
<1> QED
  BY <1>3, <1>4, <1>5, <1>6, <1>7, <1>8, <1>9 DEF Next, ThreadStep

\* The thread, asleep or awake.
LEMMA AwakeStep == ASSUME IInv, [Next]_vars PROVE Asleep' /\ WorkKeepsThreadAwake'
<1> USE ThreadApart
<1>0. Types /\ Fences /\ Asleep /\ WorkKeepsThreadAwake
  BY DEF IInv
<1>1. ASSUME UNCHANGED <<processing, requestCache>>, pc'[Thread] = pc[Thread] \/ pc'[Thread] # "sleep"
      PROVE  Asleep'
  BY <1>0, <1>1 DEF Asleep
<1>2. ASSUME UNCHANGED <<requestQueue, requestCache, processing, threadEvent>>,
             \A l \in Lists : pc'[l] = pc[l]
      PROVE  WorkKeepsThreadAwake'
  BY <1>0, <1>2 DEF WorkKeepsThreadAwake
<1>a. ASSUME NEW l \in Lists, ExecuteEnqueue(l) \/ ExecuteSend(l)
      PROVE  Asleep' /\ WorkKeepsThreadAwake'
  <2>1. UNCHANGED <<processing, requestCache>>
    BY <1>a DEF ExecuteEnqueue, ExecuteSend
  <2>2. pc'[Thread] = pc[Thread] /\ (pc'[l] = "send" \/ threadEvent' = TRUE)
    <3>1. \/ Goto(l, "send")
          \/ Goto(l, "done") /\ threadEvent' = TRUE
      BY <1>a DEF ExecuteEnqueue, ExecuteSend
    <3>2. "send" \in ListPc /\ "done" \in ListPc /\ l \in Procs /\ Thread # l /\ Thread \in Procs
      BY DEF ListPc
    <3> QED
      BY <1>0, <3>1, <3>2, Moves
  <2> QED
    BY <1>1, <2>1, <2>2 DEF WorkKeepsThreadAwake
<1>b. ASSUME NEW d \in Drains, DrainBegin(d) \/ DrainStep(d)
      PROVE  Asleep' /\ WorkKeepsThreadAwake'
  <2>1. UNCHANGED <<processing, requestCache, requestQueue>>
    BY <1>b DEF DrainBegin, DrainStep, DrainWait, DrainCheck, DrainReturn
  <2>2. threadEvent' = TRUE \/ threadEvent' = threadEvent
    BY <1>b DEF DrainBegin, DrainStep, DrainWait, DrainCheck, DrainReturn, ThreadEventSent
  <2>3. pc'[Thread] = pc[Thread] /\ \A l \in Lists : pc'[l] = pc[l]
    <3>1. (\E label \in DrainPc : Goto(d, label)) \/ UNCHANGED pc
      BY <1>b DEF DrainBegin, DrainStep, DrainWait, DrainCheck, DrainReturn, DrainPc
    <3>2. d \in Procs /\ Thread # d /\ Thread \in Procs /\ \A l \in Lists : l \in Procs /\ l # d
      OBVIOUS
    <3> QED
      BY <1>0, <3>1, <3>2, Moves
  <2>4. Asleep'
    BY <1>1, <2>1, <2>3
  <2>5. WorkKeepsThreadAwake'
    BY <1>0, <2>1, <2>2, <2>3 DEF WorkKeepsThreadAwake
  <2> QED
    BY <2>4, <2>5
\* Where the thread goes, the callers stay.
<1>c. ASSUME NEW label \in ThreadPc, Goto(Thread, label)
      PROVE  pc'[Thread] = label /\ \A l \in Lists : pc'[l] = pc[l]
  BY <1>0, <1>c, Moves
<1>d. CASE Wake \/ Stall \/ StallRetry \/ StallWait \/ FenceReached \/ Submit
  <2>1. UNCHANGED <<requestQueue, requestCache, processing, threadEvent>>
    BY <1>d DEF Wake, Stall, StallRetry, StallWait, FenceReached, Submit
  <2>2. \E label \in ThreadPc : Goto(Thread, label) /\ label # "sleep"
    BY <1>d DEF Wake, Stall, StallRetry, StallWait, FenceReached, Submit, ThreadPc
  <2>3. pc'[Thread] # "sleep" /\ \A l \in Lists : pc'[l] = pc[l]
    BY <1>c, <2>2
  <2> QED
    BY <1>1, <1>2, <2>1, <2>3
<1>e. CASE Sleep
  <2>0. UNCHANGED <<requestQueue, requestCache, processing>>
    BY <1>e DEF Sleep
  <2>1. /\ Goto(Thread, "wait") /\ pc[Thread] = "sleep"
        /\ NoProducer /\ threadEvent' = (threadEvent /\ ~MaySleep)
    BY <1>e DEF Sleep, At
  <2>2. pc'[Thread] = "wait"
    BY <1>c, <2>1 DEF ThreadPc
  <2>3. requestCache = <<>> /\ processing = <<>>
    BY <1>0, <2>1 DEF Asleep
  <2>4. WorkKeepsThreadAwake'
    <3>1. CASE MaySleep
      BY <2>0, <2>3, <3>1 DEF WorkKeepsThreadAwake, MaySleep
    <3>2. CASE ~MaySleep
      <4>1. threadEvent
        BY <1>0, <2>1, <3>2, Zenon DEF WorkKeepsThreadAwake, MaySleep, NoProducer
      <4>2. threadEvent'
        BY <2>1, <3>2, <4>1, Zenon
      <4> QED
        BY <4>2, Zenon DEF WorkKeepsThreadAwake
    <3> QED
      BY <3>1, <3>2
  <2> QED
    BY <1>1, <2>0, <2>2, <2>4
<1>f. CASE FinalizeItem \/ Record
  <2>1. processing # <<>>
    BY <1>f, <1>0, Finalizes, Records
  <2>2. UNCHANGED <<pc, threadEvent>> /\ pc[Thread] # "sleep"
    BY <1>f DEF FinalizeItem, Record, At
  <2> QED
    BY <1>0, <2>1, <2>2 DEF Asleep, WorkKeepsThreadAwake
<1>g. CASE Fetch
  <2>1. UNCHANGED threadEvent
    BY <1>g DEF Fetch
  <2>2. CASE Refilled # <<>>
    <3>1. Goto(Thread, "record")
      BY <1>g, <1>0, <2>2, Fetches
    <3>2. pc'[Thread] = "record" /\ \A l \in Lists : pc'[l] = pc[l]
      BY <1>c, <3>1 DEF ThreadPc
    <3>3. requestQueue # <<>> \/ requestCache # <<>>
      BY <2>2 DEF Refilled
    <3> QED
      BY <1>0, <2>1, <3>2, <3>3 DEF Asleep, WorkKeepsThreadAwake
  <2>3. CASE Refilled = <<>>
    <3>1. /\ requestCache = <<>> /\ UNCHANGED <<requestCache, requestQueue, processing>>
          /\ Goto(Thread, IF processing = <<>> THEN "sleep" ELSE "wait")
      BY <1>g, <1>0, <2>3, Fetches
    <3>2. /\ pc'[Thread] = IF processing = <<>> THEN "sleep" ELSE "wait"
          /\ \A l \in Lists : pc'[l] = pc[l]
      BY <1>c, <3>1 DEF ThreadPc
    <3> QED
      BY <1>2, <2>1, <3>1, <3>2 DEF Asleep
  <2> QED
    BY <2>2, <2>3
<1>h. CASE Construct \/ Destroy \/ WaitFailed \/ Complete \/ Ended \/ UNCHANGED vars
  <2>1. UNCHANGED <<pc, requestQueue, requestCache, processing>>
    BY <1>h DEF Construct, Destroy, WaitFailed, Complete, Ended, vars
  <2>2. threadEvent' = TRUE \/ threadEvent' = threadEvent
    BY <1>h DEF Construct, Destroy, WaitFailed, Complete, Ended, vars
  <2> QED
    BY <1>0, <2>1, <2>2 DEF Asleep, WorkKeepsThreadAwake
<1> QED
  BY <1>a, <1>b, <1>d, <1>e, <1>f, <1>g, <1>h DEF Next, ThreadStep

\* Nothing left to do is everything done.
LEMMA NothingLeft ==
  ASSUME IInv, requestQueue = <<>>, requestCache = <<>>, processing = <<>>
  PROVE  arrived = signaled
<1>1. Reverse(<<>>) = <<>> /\ ListsOf(<<>>) = <<>>
  BY DEF Reverse, ListsOf
<1>2. signaled \in Seq(Lists) /\ signaled \o <<>> = signaled
  BY ConcatEmptySeq DEF IInv, Types
<1> QED
  BY <1>1, <1>2, OrderIs DEF IInv, Ordered

\* What is appended is in the sequence, and what was in it stays.
LEMMA StaysIn ==
  ASSUME NEW q \in Seq(Lists), NEW x \in Lists
  PROVE  IsIn(x, Append(q, x)) /\ \A l \in Lists : IsIn(l, q) => IsIn(l, Append(q, x))
<1>1. /\ DOMAIN q = 1 .. Len(q) /\ DOMAIN Append(q, x) = 1 .. Len(q) + 1 /\ Len(q) \in Nat
      /\ \A i \in 1 .. Len(q) : Append(q, x)[i] = q[i]
      /\ Append(q, x)[Len(q) + 1] = x
  OBVIOUS
<1>2. Len(q) + 1 \in 1 .. Len(q) + 1 /\ \A i \in 1 .. Len(q) : i \in 1 .. Len(q) + 1
  BY <1>1
<1> QED
  BY <1>1, <1>2 DEF IsIn

\* Every step keeps what the callers have handed over and wait for.
LEMMA CallsStep == ASSUME IInv, [Next]_vars PROVE Arrived' /\ Required'
<1> USE ThreadApart
<1>0. Types /\ Arrived /\ Required /\ Asleep /\ executed \subseteq Lists
      /\ \A d \in Drains : required[d] \subseteq Lists
  BY DEF IInv, Types
<1>1. ASSUME UNCHANGED <<arrived, executed>>, \A l \in Lists : pc'[l] = pc[l]
      PROVE  Arrived'
  BY <1>0, <1>1 DEF Arrived
<1>2. ASSUME UNCHANGED <<required, signaled>>, executed \subseteq executed',
             suspendEvent' => suspendEvent, \A d \in Drains : pc'[d] = pc[d]
      PROVE  Required'
  BY <1>0, <1>2 DEF Required
<1>a. ASSUME NEW l \in Lists, ExecuteEnqueue(l) PROVE Arrived' /\ Required'
  <2>1. Goto(l, "send") /\ "send" \in ListPc /\ arrived' = Append(arrived, l)
        /\ UNCHANGED <<executed, required, signaled, suspendEvent>>
    BY <1>a DEF ExecuteEnqueue, ListPc
  <2>2. \A y \in Procs : y # l => pc'[y] = pc[y]
    BY <1>0, <2>1, Moves
  <2>3. Arrived'
    <3>1. arrived \in Seq(Lists)
      BY DEF IInv, Types
    <3>2. IsIn(l, arrived') /\ \A k \in Lists : IsIn(k, arrived) => IsIn(k, arrived')
      BY <2>1, <3>1, StaysIn
    <3> QED
      BY <1>0, <2>1, <2>2, <3>2 DEF Arrived, IsIn
  <2>4. Required'
    BY <1>2, <2>1, <2>2
  <2> QED
    BY <2>3, <2>4
<1>b. ASSUME NEW l \in Lists, ExecuteSend(l) PROVE Arrived' /\ Required'
  <2>1. Goto(l, "done") /\ "done" \in ListPc /\ pc[l] = "send" /\ executed' = executed \union {l}
        /\ UNCHANGED <<arrived, required, signaled, suspendEvent>>
    BY <1>b DEF ExecuteSend, ListPc, At
  <2>2. \A y \in Procs : y # l => pc'[y] = pc[y]
    BY <1>0, <2>1, Moves
  <2>3. IsIn(l, arrived)
    BY <1>0, <2>1 DEF Arrived
  <2>4. Arrived'
    BY <1>0, <2>1, <2>2, <2>3 DEF Arrived, IsIn
  <2>5. Required'
    BY <1>2, <2>1, <2>2
  <2> QED
    BY <2>4, <2>5
<1>c. ASSUME NEW d \in Drains, DrainBegin(d) \/ DrainStep(d) PROVE Arrived' /\ Required'
  <2>1. UNCHANGED <<arrived, executed, signaled>>
    BY <1>c DEF DrainBegin, DrainStep, DrainWait, DrainCheck, DrainReturn
  <2>2. (\E label \in DrainPc : Goto(d, label)) \/ UNCHANGED pc
    BY <1>c DEF DrainBegin, DrainStep, DrainWait, DrainCheck, DrainReturn, DrainPc
  <2>3. d \in Procs /\ \A y \in Procs : y # d => pc'[y] = pc[y]
    BY <1>0, <2>2, Moves
  <2>4. Arrived'
    BY <1>1, <2>1, <2>3
  <2>5. CASE DrainBegin(d)
    <3>1. ~suspendEvent' /\ Goto(d, "suspend") /\ "suspend" \in DrainPc
          /\ required' = [required EXCEPT ![d] = executed]
      BY <2>5 DEF DrainBegin, SuspendEventReset, DrainPc
    <3>2. pc'[d] = "suspend"
      BY <1>0, <3>1, Moves
    <3>3. required'[d] = executed /\ \A c \in Drains : c # d => required'[c] = required[c]
      BY <3>1 DEF IInv, Types
    <3> QED
      BY <1>0, <2>1, <2>3, <2>4, <3>1, <3>2, <3>3 DEF Required, IsIn
  <2>6. CASE DrainStep(d)
    <3>1. UNCHANGED <<required, suspendEvent>>
      BY <2>6 DEF DrainStep, DrainWait, DrainCheck, DrainReturn
    <3>2. \/ pc[d] = "suspend" /\ suspendEvent /\ Goto(d, "check")
          \/ pc[d] = "check" /\ (Goto(d, "device") \/ UNCHANGED pc)
          \/ pc[d] = "device" /\ Goto(d, "done")
      BY <2>6 DEF DrainStep, DrainWait, DrainCheck, DrainReturn, At
    <3>3. pc'[d] \in {"check", "device", "done"}
      BY <1>0, <2>3, <3>2, Moves DEF DrainPc
    <3>4. \A l \in required[d] : IsIn(l, signaled)
      BY <1>0, <3>2 DEF Required
    <3> QED
      BY <1>0, <2>1, <2>3, <2>4, <3>1, <3>3, <3>4 DEF Required, IsIn
  <2> QED
    BY <1>c, <2>5, <2>6
\* Where the thread goes, the callers stay.
<1>d. ASSUME (\E label \in ThreadPc : Goto(Thread, label)) \/ UNCHANGED pc
      PROVE  (\A l \in Lists : pc'[l] = pc[l]) /\ \A d \in Drains : pc'[d] = pc[d]
  BY <1>0, <1>d, Moves
<1>e. CASE Wake \/ Stall \/ StallRetry \/ StallWait \/ FenceReached \/ Submit \/ Record \/ Fetch
  <2>1. UNCHANGED <<arrived, executed, required, signaled, suspendEvent>>
    BY <1>e DEF Wake, Stall, StallRetry, StallWait, FenceReached, Submit, Record, Fetch, ClientState
  <2>2. (\E label \in ThreadPc : Goto(Thread, label)) \/ UNCHANGED pc
    BY <1>e DEF Wake, Stall, StallRetry, StallWait, FenceReached, Submit, Record, Fetch, ThreadPc
  <2> QED
    BY <1>1, <1>2, <1>d, <2>1, <2>2
<1>f. CASE FinalizeItem
  <2>1. UNCHANGED <<pc, arrived, executed, required, suspendEvent>>
    BY <1>f DEF FinalizeItem, ClientState
  <2>2. \A l \in Lists : IsIn(l, signaled) => IsIn(l, signaled')
    <3>1. processing[1].list \in Lists /\ signaled' = Append(signaled, processing[1].list)
      BY <1>0, <1>f, Finalizes, ItemFields
    <3> QED
      BY <3>1, StaysIn DEF IInv, Types
  <2>3. Required'
    BY <1>0, <2>1, <2>2 DEF Required, IsIn
  <2> QED
    BY <1>1, <2>1, <2>3
<1>g. CASE Sleep
  <2>1. UNCHANGED <<arrived, executed, required, signaled>> /\ Goto(Thread, "wait")
        /\ pc[Thread] = "sleep" /\ suspendEvent' = (suspendEvent \/ MaySleep)
    BY <1>g DEF Sleep, At
  <2>2. (\A l \in Lists : pc'[l] = pc[l]) /\ \A d \in Drains : pc'[d] = pc[d]
    BY <1>d, <2>1 DEF ThreadPc
  <2>3. CASE MaySleep
    <3>1. arrived = signaled
      BY <1>0, <2>1, <2>3, NothingLeft DEF Asleep, MaySleep
    <3>2. \A d \in Drains : \A l \in required[d] : IsIn(l, signaled)
      BY <1>0, <3>1 DEF Arrived, Required
    <3>3. Required'
      BY <1>0, <2>1, <2>2, <3>2 DEF Required, IsIn
    <3> QED
      BY <1>1, <2>1, <2>2, <3>3
  <2>4. CASE ~MaySleep
    BY <1>1, <1>2, <2>1, <2>2, <2>4
  <2> QED
    BY <2>3, <2>4
<1>h. CASE Construct \/ Destroy \/ WaitFailed \/ Complete \/ Ended \/ UNCHANGED vars
  <2>1. UNCHANGED <<pc, arrived, executed, required, signaled>>
    BY <1>h DEF Construct, Destroy, WaitFailed, Complete, Ended, vars, ClientState
  <2>2. suspendEvent' => suspendEvent
    BY <1>h DEF Construct, Destroy, WaitFailed, Complete, Ended, vars, ClientState
  <2> QED
    BY <1>1, <1>2, <2>1, <2>2
<1> QED
  BY <1>a, <1>b, <1>c, <1>e, <1>f, <1>g, <1>h DEF Next, ThreadStep

-----------------------------------------------------------------------------
\* The queue starts in the invariant.
LEMMA InitIInv == Init => IInv
<1> SUFFICES ASSUME Init PROVE IInv
  OBVIOUS
<1> USE DEF Init
<1>1. Types
  <2>1. pc \in [Procs -> ListPc \union DrainPc \union ThreadPc]
    BY DEF Procs, ListPc, ThreadPc
  <2>2. /\ pc[Thread] = "wait" /\ \A l \in Lists : pc[l] = "idle"
        /\ \A d \in Drains : pc[d] = "idle"
    BY CommandsAssumption
  <2>3. <<>> \in Seq(Lists) /\ <<>> \in Seq(Item)
    OBVIOUS
  <2> QED
    BY <2>1, <2>2, <2>3 DEF Types, ListPc, DrainPc, ThreadPc
<1>2. pc[Thread] = "wait" /\ \A d \in Drains : pc[d] = "idle" /\ \A l \in Lists : pc[l] = "idle"
  BY CommandsAssumption
<1>3. Fences /\ Asleep
  BY <1>2 DEF Fences, Asleep, Recording
<1>4. Arrived /\ Required /\ WorkKeepsThreadAwake
  <2>1. \A d \in Drains : required[d] = {} /\ pc[d] = "idle"
    BY <1>2, CommandsAssumption
  <2>2. \A l \in Lists : pc[l] = "idle"
    BY CommandsAssumption
  <2> QED
    BY <2>1, <2>2 DEF Arrived, Required, WorkKeepsThreadAwake
<1>5. HandledInOrder
  <2>1. Reverse(<<>>) = <<>> /\ ListsOf(<<>>) = <<>>
    BY DEF Reverse, ListsOf
  <2>2. <<>> \o <<>> = <<>>
    OBVIOUS
  <2> QED
    BY <2>1, <2>2, OrderIs DEF Ordered
<1>6. SignaledWhenCompleted
  <2>1. 0 <= StagingSize
    BY CommandsAssumption
  <2> QED
    BY <2>1, StagingEmpty DEF SignaledWhenCompleted
<1> QED
  BY <1>1, <1>3, <1>4, <1>5, <1>6 DEF IInv

\* Every step keeps the invariant.
LEMMA StepIInv == IInv /\ [Next]_vars => IInv'
<1> SUFFICES ASSUME IInv, [Next]_vars PROVE IInv'
  OBVIOUS
<1>1. SignaledWhenCompleted'
  BY FencesStep, RingStep DEF SignaledWhenCompleted
<1> QED
  BY <1>1, TypesStep, FencesStep, AwakeStep, OrderStep, CallsStep DEF IInv

\* The inductive invariant holds in every state.
THEOREM CopyQueueInvariant == Spec => []IInv
<1> QED
  BY InitIInv, StepIInv, PTL DEF Spec

\* Fence values stay within what was issued, and no request is slept over: while
\* there is work, the thread's event is set or about to be (AsyncCopyQueue.cpp:
\* the sleep under the exclusive lock, the wake under the shared one).
THEOREM CopyQueueBookkeeping == Spec => []Bookkeeping
<1>1. IInv => Bookkeeping
  <2> SUFFICES ASSUME IInv PROVE TypeOK /\ WorkKeepsThreadAwake
    BY DEF Bookkeeping
  <2>1. \A i \in DOMAIN processing : processing[i].fence \in 1 .. fenceValue
    <3>1. /\ Len(processing) \in Nat /\ Len(signaled) \in Nat /\ DOMAIN processing = 1 .. Len(processing)
          /\ fenceValue = Len(signaled) + Len(processing)
          /\ \A i \in 1 .. Len(processing) : processing[i].fence = Len(signaled) + i
      BY DEF IInv, Types, Fences
    <3> QED
      BY <3>1
  <2>2. completed <= submitted /\ submitted <= fenceValue
    BY DEF IInv, Types, Fences
  <2> QED
    BY <2>1, <2>2 DEF IInv, Types, TypeOK, ListPc, DrainPc
<1> QED
  BY <1>1, CopyQueueInvariant, PTL

\* Lists are completed in the order of the calls: none is lost, taken twice or
\* overtaken on its way through the queue, the cache and the ring.
THEOREM CopyQueueOrder == Spec => []HandledInOrder
<1>1. IInv => HandledInOrder
  BY DEF IInv
<1> QED
  BY <1>1, CopyQueueInvariant, PTL

\* A wait group is signalled after the device completed its list, and the ring
\* never holds more than its size.
THEOREM CopyQueueSignals == Spec => []SignaledWhenCompleted
<1>1. IInv => SignaledWhenCompleted
  BY DEF IInv
<1> QED
  BY <1>1, CopyQueueInvariant, PTL

\* A Drain() that returned found everything executed before it completed.
THEOREM CopyQueueDrains == Spec => []DrainMeansCompleted
<1>1. IInv => DrainMeansCompleted
  BY DEF IInv, Required, DrainMeansCompleted, IsIn
<1> QED
  BY <1>1, CopyQueueInvariant, PTL
=============================================================================
