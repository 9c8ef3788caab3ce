-------------------------- MODULE MultiQueueProofs --------------------------
(***************************************************************************)
(* The operations of Queue that take several items return them whole, in   *)
(* order and without losing or recounting any, apart from the two that do  *)
(* (get_multi, get_multi_nowait), for any number of consumers and items.   *)
(*                                                                         *)
(* In the second part (Merge, with variables of its own): the iterators    *)
(* that are merged through such a queue.  Who reaches the end has got all  *)
(* items, those of one iterator in its order; a filter all it wants, and a *)
(* sorter all of them sorted; and the queue has counted them, for any      *)
(* number of iterators and items.                                          *)
(***************************************************************************)
EXTENDS MultiQueue, FiniteSetTheorems, SequenceTheorems, WellFoundedInduction, TLAPS

\* The items are those that were put, and only returned ones are acknowledged.
Numbered ==
    /\ Queued \cup Held \cup delivered \subseteq 1..puts
    /\ acked \subseteq delivered

\* unfinished is never less than the number of items without task_done(), so
\* that task_done() never raises ValueError.
CountsThePuts == unfinished >= puts - Cardinality(acked)

\* Only get_multi keeps items while it waits.
NothingHeld ==
    "get_multi" \notin uses =>
        \A c \in Consumers : at[c] # "get_multi" /\ items[c] = <<>>

IInv ==
    /\ TypeOK
    /\ Numbered
    /\ CountsThePuts
    /\ TakenAreOlder
    /\ ResultsAreWhole
    /\ NothingHeld
    /\ NothingLost
    /\ UnfinishedIsExact

-----------------------------------------------------------------------------
\* The items T are taken from the queue q, and r is what is left of it.
Taken(q, T, r) ==
    /\ r \in Seq(Items)
    /\ Elements(q) = T \cup Elements(r)
    /\ \A x \in T, y \in Elements(r) : x < y
    /\ \A j, k \in DOMAIN r : j < k => r[j] < r[k]

Ascending(q) == \A j, k \in DOMAIN q : j < k => q[j] < q[k]

LEMMA EmptyQueue == << >> \in Seq(Items) /\ DOMAIN << >> = {} /\ Elements(<< >>) = {}
BY EmptySeq DEF Elements

LEMMA NonEmpty ==
    ASSUME NEW q \in Seq(Items)
    PROVE  Len(q) \in Nat /\ DOMAIN q = 1..Len(q) /\ (q # <<>> <=> Len(q) > 0)
OBVIOUS

LEMMA TakeNone ==
    ASSUME NEW q \in Seq(Items), Ascending(q)
    PROVE  Taken(q, {}, q)
BY DEF Taken, Ascending

LEMMA TakeAll ==
    ASSUME NEW q \in Seq(Items)
    PROVE  Taken(q, Elements(q), <<>>)
BY EmptyQueue DEF Taken

\* The first n items, and what is behind them.
LEMMA TakeFirst ==
    ASSUME NEW q \in Seq(Items), Ascending(q), NEW n \in 0..Len(q)
    PROVE  /\ SubSeq(q, 1, n) \in Seq(Items)
           /\ Len(SubSeq(q, 1, n)) = n
           /\ Taken(q, Elements(SubSeq(q, 1, n)), SubSeq(q, n + 1, Len(q)))
<1> DEFINE f == SubSeq(q, 1, n)
           r == SubSeq(q, n + 1, Len(q))
<1>1. Len(q) \in Nat /\ DOMAIN q = 1..Len(q) /\ \A i \in 1..Len(q) : q[i] \in Items
  BY ElementOfSeq, LenProperties
<1>2. f \in Seq(Items) /\ Len(f) = n /\ \A i \in 1..n : f[i] = q[i]
  <2>1. \A i \in 1..n : q[i] \in Items
    BY <1>1
  <2> QED
    BY <1>1, <2>1, SubSeqProperties
<1>3. r \in Seq(Items) /\ Len(r) = Len(q) - n /\ \A i \in 1..(Len(q) - n) : r[i] = q[n + i]
  <2>1. \A i \in (n + 1)..Len(q) : q[i] \in Items
    BY <1>1
  <2>2. /\ r \in Seq(Items)
        /\ Len(r) = IF n + 1 <= Len(q) THEN Len(q) - (n + 1) + 1 ELSE 0
        /\ \A i \in 1..(Len(q) - (n + 1) + 1) : r[i] = q[n + 1 + i - 1]
    <3>1. n + 1 \in Int /\ Len(q) \in Int
      BY <1>1
    <3> QED
      BY <2>1, <3>1, SubSeqProperties
  <2>3. /\ Len(q) - (n + 1) + 1 = Len(q) - n
        /\ \A i \in 1..(Len(q) - n) : n + 1 + i - 1 = n + i
        /\ n + 1 <= Len(q) \/ Len(q) - n = 0
    <3>1. n \in Nat /\ n <= Len(q) /\ Len(q) \in Nat
      BY <1>1
    <3> HIDE DEF f, r
    <3> QED
      BY <3>1
  <2> HIDE DEF r
  <2> QED
    BY <2>2, <2>3
<1>4. DOMAIN f = 1..n /\ DOMAIN r = 1..(Len(q) - n)
  BY <1>2, <1>3, LenProperties
<1> HIDE DEF f, r
<1>5. Elements(q) = Elements(f) \cup Elements(r)
  <2>1. ASSUME NEW i \in DOMAIN q
        PROVE  q[i] \in Elements(f) \cup Elements(r)
    <3>1. CASE i <= n
      <4>1. i \in 1..n
        BY <1>1, <3>1
      <4> QED
        BY <1>2, <1>4, <4>1 DEF Elements
    <3>2. CASE i > n
      <4>1. i - n \in 1..(Len(q) - n) /\ n + (i - n) = i
        BY <1>1, <3>2
      <4> QED
        BY <1>3, <1>4, <4>1 DEF Elements
    <3> QED
      BY <1>1, <3>1, <3>2
  <2>2. \A i \in DOMAIN f : f[i] \in Elements(q)
    <3>1. 1..n \subseteq DOMAIN q
      BY <1>1
    <3> QED
      BY <1>2, <1>4, <3>1 DEF Elements
  <2>3. \A i \in DOMAIN r : r[i] \in Elements(q)
    <3>1. \A i \in 1..(Len(q) - n) : n + i \in DOMAIN q
      BY <1>1
    <3> QED
      BY <1>3, <1>4, <3>1 DEF Elements
  <2> QED
    BY <2>1, <2>2, <2>3 DEF Elements
<1>6. \A x \in Elements(f), y \in Elements(r) : x < y
  <2>1. SUFFICES ASSUME NEW j \in 1..n, NEW k \in 1..(Len(q) - n)
                 PROVE  f[j] < r[k]
    BY <1>4 DEF Elements
  <2>2. j \in DOMAIN q /\ n + k \in DOMAIN q /\ j < n + k
    BY <1>1
  <2> QED
    BY <1>2, <1>3, <2>2 DEF Ascending
<1>7. Ascending(r)
  <2>1. SUFFICES ASSUME NEW j \in 1..(Len(q) - n), NEW k \in 1..(Len(q) - n), j < k
                 PROVE  r[j] < r[k]
    BY <1>4 DEF Ascending
  <2>2. n + j \in DOMAIN q /\ n + k \in DOMAIN q /\ n + j < n + k
    BY <1>1, <2>1
  <2> QED
    BY <1>3, <2>2 DEF Ascending
<1> QED
  BY <1>2, <1>3, <1>5, <1>6, <1>7 DEF Taken, Ascending, f, r

\* Taking twice is taking once.
LEMMA TakeTwice ==
    ASSUME NEW q, NEW T, NEW r, NEW U, NEW s, Taken(q, T, r), Taken(r, U, s)
    PROVE  Taken(q, T \cup U, s)
BY DEF Taken

LEMMA ConcatElements ==
    ASSUME NEW s \in Seq(Items), NEW t \in Seq(Items)
    PROVE  /\ s \o t \in Seq(Items)
           /\ Len(s \o t) = Len(s) + Len(t)
           /\ Elements(s \o t) \subseteq Elements(s) \cup Elements(t)
<1>1. /\ s \o t \in Seq(Items) /\ Len(s \o t) = Len(s) + Len(t)
      /\ \A i \in 1..(Len(s) + Len(t)) :
           (s \o t)[i] = IF i <= Len(s) THEN s[i] ELSE t[i - Len(s)]
  BY ConcatProperties
<1>2. /\ Len(s) \in Nat /\ Len(t) \in Nat
      /\ DOMAIN s = 1..Len(s) /\ DOMAIN t = 1..Len(t)
      /\ DOMAIN (s \o t) = 1..(Len(s) + Len(t))
  BY <1>1, LenProperties
<1>3. ASSUME NEW i \in 1..(Len(s) + Len(t))
      PROVE  (s \o t)[i] \in Elements(s) \cup Elements(t)
  <2>1. CASE i <= Len(s)
    <3>1. i \in DOMAIN s
      BY <1>2, <2>1
    <3> QED
      BY <1>1, <2>1, <3>1 DEF Elements
  <2>2. CASE ~(i <= Len(s))
    <3>1. i - Len(s) \in DOMAIN t
      BY <1>2, <2>2
    <3> QED
      BY <1>1, <2>2, <3>1 DEF Elements
  <2> QED
    BY <2>1, <2>2
<1> QED
  BY <1>1, <1>2, <1>3 DEF Elements

-----------------------------------------------------------------------------
LEMMA InitIInv == Init => IInv
<1> SUFFICES ASSUME Init PROVE IInv
  OBVIOUS
<1>1. Queued = {} /\ Held = {}
  BY EmptyQueue DEF Init, Queued, Held
<1>2. TypeOK
  BY EmptyQueue, UsesAssumption, BoundsAssumption DEF Init, TypeOK
<1>3. Numbered /\ CountsThePuts /\ UnfinishedIsExact
  BY <1>1, FS_EmptySet DEF Init, Numbered, CountsThePuts, UnfinishedIsExact
<1>4. TakenAreOlder
  BY <1>1, EmptyQueue DEF Init, TakenAreOlder
<1>5. ResultsAreWhole /\ NothingHeld
  BY DEF Init, ResultsAreWhole, NothingHeld
<1>6. NothingLost
  BY <1>1 DEF Init, NothingLost, AllAccountedFor
<1> QED
  BY <1>2, <1>3, <1>4, <1>5, <1>6 DEF IInv

\* How many items have no task_done() yet.
LEMMA UnacknowledgedItems ==
    ASSUME IInv
    PROVE  /\ IsFiniteSet(acked) /\ Cardinality(acked) \in Nat
           /\ \A x \in delivered \ acked :
                Cardinality(acked \cup {x}) = Cardinality(acked) + 1
           /\ \A x \in delivered \ acked : Cardinality(acked) + 1 <= puts
<1>1. acked \subseteq 1..puts /\ delivered \subseteq 1..puts /\ puts \in Nat
  BY BoundsAssumption DEF IInv, TypeOK, Numbered
<1>2. IsFiniteSet(1..puts) /\ Cardinality(1..puts) = puts
  BY <1>1, FS_Interval
<1>3. IsFiniteSet(acked) /\ Cardinality(acked) \in Nat
  BY <1>1, <1>2, FS_Subset, FS_CardinalityType
<1>4. ASSUME NEW x \in delivered \ acked
      PROVE  /\ Cardinality(acked \cup {x}) = Cardinality(acked) + 1
             /\ Cardinality(acked) + 1 <= puts
  <2>1. Cardinality(acked \cup {x}) = Cardinality(acked) + 1
    BY <1>3, <1>4, FS_AddElement
  <2>2. acked \cup {x} \subseteq 1..puts
    BY <1>1, <1>4
  <2>3. Cardinality(acked \cup {x}) <= Cardinality(1..puts)
    BY <1>2, <2>2, FS_Subset
  <2> QED
    BY <1>2, <2>1, <2>3
<1> QED
  BY <1>3, <1>4

LEMMA PutKeeps ==
    ASSUME IInv, Put
    PROVE  IInv'
<1>1. /\ puts < MaxItems /\ puts' = puts + 1
      /\ queue' = Append(queue, puts + 1) /\ unfinished' = unfinished + 1
      /\ UNCHANGED <<uses, at, want, items, bound, result, delivered, acked>>
  BY DEF Put
<1>2. puts \in Nat /\ puts + 1 \in Items /\ puts' \in 0..MaxItems /\ queue \in Seq(Items)
  BY <1>1, BoundsAssumption DEF IInv, TypeOK, Items
<1>3. /\ queue' \in Seq(Items) /\ DOMAIN queue' = 1..(Len(queue) + 1)
      /\ DOMAIN queue = 1..Len(queue) /\ Len(queue) \in Nat
      /\ \A i \in 1..Len(queue) : queue'[i] = queue[i]
      /\ queue'[Len(queue) + 1] = puts + 1
  BY <1>1, <1>2, AppendProperties
<1>4. \A i \in DOMAIN queue' : i \in DOMAIN queue \/ i = Len(queue) + 1
  BY <1>3
<1>5. Queued' = Queued \cup {puts + 1}
  <2>1. DOMAIN queue \subseteq DOMAIN queue' /\ Len(queue) + 1 \in DOMAIN queue'
    BY <1>3
  <2> QED
    BY <1>3, <1>4, <2>1 DEF Queued, Elements
<1>6. Held' = Held
  BY <1>1 DEF Held
<1>7. TypeOK'
  BY <1>1, <1>2, <1>3 DEF IInv, TypeOK
<1>8. Numbered'
  <2>1. 1..puts \subseteq 1..(puts + 1) /\ puts + 1 \in 1..(puts + 1)
    BY <1>2
  <2> QED
    BY <1>1, <1>5, <1>6, <2>1 DEF IInv, Numbered
<1>9. CountsThePuts' /\ UnfinishedIsExact'
  <2>1. Cardinality(acked) \in Nat /\ unfinished \in Nat
    BY UnacknowledgedItems DEF IInv, TypeOK
  <2> QED
    BY <1>1, <1>2, <2>1 DEF IInv, CountsThePuts, UnfinishedIsExact
<1>10. TakenAreOlder'
  <2>1. \A x \in 1..puts : x < puts + 1
    BY <1>2
  <2>2. \A x \in Queued \cup Held \cup delivered : x < puts + 1
    BY <2>1 DEF IInv, Numbered
  <2>3. ASSUME NEW j \in DOMAIN queue', NEW k \in DOMAIN queue', j < k
        PROVE  queue'[j] < queue'[k]
    <3>1. j \in DOMAIN queue
      BY <1>3, <2>3
    <3>2. CASE k \in DOMAIN queue
      BY <1>3, <2>3, <3>1, <3>2 DEF IInv, TakenAreOlder
    <3>3. CASE k = Len(queue) + 1
      <4>1. queue[j] \in Queued
        BY <3>1 DEF Queued, Elements
      <4> QED
        BY <1>3, <2>2, <3>1, <3>3, <4>1
    <3> QED
      BY <1>4, <3>2, <3>3
  <2> QED
    BY <1>1, <1>5, <1>6, <2>2, <2>3 DEF IInv, TakenAreOlder
<1>11. ResultsAreWhole' /\ NothingHeld'
  BY <1>1 DEF IInv, ResultsAreWhole, NothingHeld
<1>12. NothingLost'
  <2>1. \A x \in 1..(puts + 1) : x \in 1..puts \/ x = puts + 1
    BY <1>2
  <2> QED
    BY <1>1, <1>5, <1>6, <2>1 DEF IInv, NothingLost, AllAccountedFor
<1> QED
  BY <1>7, <1>8, <1>9, <1>10, <1>11, <1>12 DEF IInv

LEMMA TaskDoneKeeps ==
    ASSUME IInv, NEW x \in Items, TaskDone(x)
    PROVE  IInv'
<1>1. /\ x \in delivered \ acked /\ acked' = acked \cup {x} /\ unfinished' = unfinished - 1
      /\ UNCHANGED <<uses, queue, puts, at, want, items, bound, result, delivered>>
  BY DEF TaskDone
<1>2. /\ Cardinality(acked) \in Nat /\ Cardinality(acked') = Cardinality(acked) + 1
      /\ Cardinality(acked) + 1 <= puts /\ puts \in Nat /\ unfinished \in Nat
  BY <1>1, UnacknowledgedItems, BoundsAssumption DEF IInv, TypeOK
<1>3. unfinished' \in Nat /\ CountsThePuts' /\ UnfinishedIsExact'
  BY <1>1, <1>2 DEF IInv, CountsThePuts, UnfinishedIsExact
<1>4. Queued' = Queued /\ Held' = Held
  BY <1>1 DEF Queued, Held
<1>5. TypeOK' /\ Numbered'
  BY <1>1, <1>3, <1>4 DEF IInv, TypeOK, Numbered
<1>6. TakenAreOlder' /\ NothingLost' /\ ResultsAreWhole' /\ NothingHeld'
  BY <1>1, <1>4 DEF IInv, TakenAreOlder, NothingLost, AllAccountedFor, ResultsAreWhole,
                    NothingHeld
<1> QED
  BY <1>3, <1>5, <1>6 DEF IInv

-----------------------------------------------------------------------------
\* What an operation of c keeps that takes the items T from the queue, returns
\* D of them, and suspends with the list s or ends.
LEMMA MovesKeep ==
    ASSUME IInv, NEW c \in Consumers, NEW T, NEW D, NEW s \in Seq(Items),
           Taken(queue, T, queue'), D \subseteq T, Elements(s) \subseteq T,
           "get_multi" \notin uses => D = T /\ s = <<>> /\ at'[c] # "get_multi",
           items' = [items EXCEPT ![c] = s],
           delivered' = delivered \cup D,
           \A d \in Consumers \ {c} : at'[d] = at[d],
           UNCHANGED <<uses, puts, acked>>
    PROVE  /\ queue' \in Seq(Items) /\ items' \in [Consumers -> Seq(Items)]
           /\ delivered' \subseteq Items
           /\ Numbered' /\ TakenAreOlder' /\ NothingHeld' /\ NothingLost'
<1>1. items \in [Consumers -> Seq(Items)] /\ delivered \subseteq Items /\ 1..puts \subseteq Items
  BY BoundsAssumption DEF IInv, TypeOK, Items
<1>2. queue' \in Seq(Items) /\ items' \in [Consumers -> Seq(Items)]
  BY <1>1 DEF Taken
<1>3. Queued = T \cup Queued'
  BY DEF Taken, Queued
<1>4. Held' \subseteq Held \cup T
  <2>1. items'[c] = s /\ \A d \in Consumers \ {c} : items'[d] = items[d]
    BY <1>1
  <2> QED
    BY <2>1 DEF Held
<1>5. Numbered' /\ delivered' \subseteq Items
  BY <1>1, <1>3, <1>4 DEF IInv, Numbered
<1>6. TakenAreOlder'
  <2>1. \A x \in T, y \in Queued' : x < y
    BY DEF Taken, Queued
  <2>2. \A x \in delivered \cup Held, y \in Queued' : x < y
    BY <1>3 DEF IInv, TakenAreOlder
  <2>3. \A j, k \in DOMAIN queue' : j < k => queue'[j] < queue'[k]
    BY DEF Taken
  <2> QED
    BY <1>4, <2>1, <2>2, <2>3 DEF TakenAreOlder
<1>7. NothingHeld'
  BY <1>1 DEF IInv, NothingHeld
<1>8. NothingLost'
  <2>1. SUFFICES ASSUME "get_multi" \notin uses
                 PROVE  1..puts \subseteq Queued' \cup Held' \cup delivered'
    BY DEF NothingLost, AllAccountedFor
  <2>2. Held = {}
    BY <2>1, EmptyQueue DEF IInv, NothingHeld, Held
  <2> QED
    BY <1>3, <2>1, <2>2 DEF IInv, NothingLost, AllAccountedFor
<1> QED
  BY <1>2, <1>5, <1>6, <1>7, <1>8

\* The count of unfinished items stays as right as it was.
Counted ==
    \/ unfinished' = unfinished
    \/ "get_multi_nowait" \in uses /\ unfinished' >= unfinished

LEMMA CountedKeeps ==
    ASSUME IInv, Counted, unfinished' \in Int, UNCHANGED <<uses, puts, acked>>
    PROVE  unfinished' \in Nat /\ CountsThePuts' /\ UnfinishedIsExact'
<1>1. puts \in Nat /\ unfinished \in Nat /\ Cardinality(acked) \in Nat
  BY UnacknowledgedItems, BoundsAssumption DEF IInv, TypeOK
<1>2. CASE unfinished' = unfinished
  BY <1>1, <1>2 DEF IInv, CountsThePuts, UnfinishedIsExact
<1>3. CASE "get_multi_nowait" \in uses /\ unfinished' >= unfinished
  <2>1. unfinished' \in Nat /\ unfinished' >= unfinished
    BY <1>1, <1>3
  <2>2. CountsThePuts'
    BY <1>1, <2>1 DEF IInv, CountsThePuts
  <2>3. UnfinishedIsExact'
    BY <1>3 DEF UnfinishedIsExact
  <2> QED
    BY <2>1, <2>2, <2>3
<1> QED
  BY <1>2, <1>3 DEF Counted

\* A list is what an operation promises to return.
Whole(op, i, s) ==
    /\ op \in {"get_multi", "get_multi_nowait"} => Len(s) = i
    /\ op \in {"get_all", "get_all_nowait", "get_multi_nowait_less"} => s # <<>>

LEMMA ReturnsKeeps ==
    ASSUME IInv, NEW c \in Consumers, NEW op \in Operations, NEW i \in Sizes \cup {0},
           NEW s \in Seq(Items), NEW T,
           Taken(queue, T, queue'), Elements(s) \subseteq T,
           "get_multi" \notin uses => Elements(s) = T,
           Whole(op, i, s), Returns(c, op, i, s),
           Counted, unfinished' \in Int, UNCHANGED <<uses, puts, acked>>
    PROVE  IInv'
<1>1. /\ result' = [result EXCEPT ![c] = [op |-> op, i |-> i, list |-> s]]
      /\ delivered' = delivered \cup Elements(s)
      /\ at' = [at EXCEPT ![c] = "idle"]
      /\ items' = [items EXCEPT ![c] = <<>>]
      /\ bound' = [bound EXCEPT ![c] = TRUE]
      /\ want' = [want EXCEPT ![c] = 0]
  BY DEF Returns
<1>2. at'[c] = "idle" /\ \A d \in Consumers \ {c} : at'[d] = at[d]
  BY <1>1 DEF IInv, TypeOK
<1>3. /\ queue' \in Seq(Items) /\ items' \in [Consumers -> Seq(Items)]
      /\ delivered' \subseteq Items
      /\ Numbered' /\ TakenAreOlder' /\ NothingHeld' /\ NothingLost'
  BY <1>1, <1>2, EmptyQueue, MovesKeep
<1>4. unfinished' \in Nat /\ CountsThePuts' /\ UnfinishedIsExact'
  BY CountedKeeps
<1>5. TypeOK'
  <2>1. result' \in [Consumers -> [op : Operations \cup {"none"}, i : Sizes \cup {0},
                                   list : Seq(Items)]]
    BY <1>1 DEF IInv, TypeOK
  <2> QED
    BY <1>1, <1>3, <1>4, <2>1 DEF IInv, TypeOK
<1>6. ResultsAreWhole'
  <2>1. /\ result'[c] = [op |-> op, i |-> i, list |-> s]
        /\ \A d \in Consumers \ {c} : result'[d] = result[d]
    BY <1>1 DEF IInv, TypeOK
  <2> QED
    BY <2>1 DEF IInv, ResultsAreWhole, Whole
<1> QED
  BY <1>3, <1>4, <1>5, <1>6 DEF IInv

LEMMA RaisesKeeps ==
    ASSUME IInv, NEW c \in Consumers, NEW T, Taken(queue, T, queue'),
           "get_multi" \notin uses => T = {},
           Raises(c), Counted, unfinished' \in Int, UNCHANGED <<uses, puts, acked>>
    PROVE  IInv'
<1>1. /\ at' = [at EXCEPT ![c] = "idle"]
      /\ items' = [items EXCEPT ![c] = <<>>]
      /\ bound' = [bound EXCEPT ![c] = TRUE]
      /\ want' = [want EXCEPT ![c] = 0]
      /\ result' = result /\ delivered' = delivered \cup {}
  BY DEF Raises
<1>2. at'[c] = "idle" /\ \A d \in Consumers \ {c} : at'[d] = at[d]
  BY <1>1 DEF IInv, TypeOK
<1>3. /\ queue' \in Seq(Items) /\ items' \in [Consumers -> Seq(Items)]
      /\ delivered' \subseteq Items
      /\ Numbered' /\ TakenAreOlder' /\ NothingHeld' /\ NothingLost'
  BY <1>1, <1>2, EmptyQueue, MovesKeep
<1>4. unfinished' \in Nat /\ CountsThePuts' /\ UnfinishedIsExact'
  BY CountedKeeps
<1>5. TypeOK' /\ ResultsAreWhole'
  BY <1>1, <1>3, <1>4 DEF IInv, TypeOK, ResultsAreWhole
<1> QED
  BY <1>3, <1>4, <1>5 DEF IInv

LEMMA SuspendsKeeps ==
    ASSUME IInv, NEW c \in Consumers, NEW op \in {"get_all", "get_multi"},
           NEW i \in Sizes \cup {0}, NEW s \in Seq(Items), NEW b \in BOOLEAN, NEW T,
           Taken(queue, T, queue'), Elements(s) \subseteq T,
           "get_multi" \notin uses => T = {} /\ s = <<>> /\ op = "get_all",
           Suspends(c, op, i, s, b), UNCHANGED <<uses, puts, unfinished, acked>>
    PROVE  IInv'
<1>1. /\ at' = [at EXCEPT ![c] = op]
      /\ items' = [items EXCEPT ![c] = s]
      /\ bound' = [bound EXCEPT ![c] = b]
      /\ want' = [want EXCEPT ![c] = i]
      /\ result' = result /\ delivered' = delivered \cup {}
  BY DEF Suspends
<1>2. at'[c] = op /\ \A d \in Consumers \ {c} : at'[d] = at[d]
  BY <1>1 DEF IInv, TypeOK
<1>3. /\ queue' \in Seq(Items) /\ items' \in [Consumers -> Seq(Items)]
      /\ delivered' \subseteq Items
      /\ Numbered' /\ TakenAreOlder' /\ NothingHeld' /\ NothingLost'
  <2>1. PICK D : D = {}
    OBVIOUS
  <2>2. "get_multi" \notin uses => D = T /\ s = <<>> /\ at'[c] # "get_multi"
    BY <1>2, <2>1
  <2>3. /\ D \subseteq T /\ delivered' = delivered \cup D
        /\ items' = [items EXCEPT ![c] = s]
    BY <1>1, <2>1
  <2>4. \A d \in Consumers \ {c} : at'[d] = at[d]
    BY <1>2
  <2>5. UNCHANGED <<uses, puts, acked>>
    OBVIOUS
  <2> QED
    BY <2>2, <2>3, <2>4, <2>5, MovesKeep
<1>4. unfinished' \in Nat /\ CountsThePuts' /\ UnfinishedIsExact'
  <2>1. Counted /\ unfinished' \in Int
    BY DEF Counted, IInv, TypeOK
  <2> QED
    BY <2>1, CountedKeeps
<1>5. TypeOK' /\ ResultsAreWhole'
  BY <1>1, <1>3, <1>4 DEF IInv, TypeOK, ResultsAreWhole
<1> QED
  BY <1>3, <1>4, <1>5 DEF IInv

-----------------------------------------------------------------------------
\* The queue before a step, ready to be taken from.
LEMMA QueueFacts ==
    ASSUME IInv
    PROVE  /\ queue \in Seq(Items) /\ Ascending(queue)
           /\ Len(queue) \in Nat /\ (queue # <<>> <=> Len(queue) > 0)
           /\ unfinished \in Int /\ 0 \in Sizes \cup {0}
           /\ \A i \in Sizes : i \in Nat /\ i > 1
<1>1. queue \in Seq(Items) /\ Ascending(queue) /\ unfinished \in Int
  BY DEF IInv, TypeOK, TakenAreOlder, Ascending
<1>2. Len(queue) \in Nat /\ (queue # <<>> <=> Len(queue) > 0)
  BY <1>1, NonEmpty
<1>3. \A i \in Sizes : i \in Nat /\ i > 1
  BY SizesAssumption
<1> QED
  BY <1>1, <1>2, <1>3

LEMMA GetAllNowaitKeeps ==
    ASSUME IInv, NEW c \in Consumers, GetAllNowait(c)
    PROVE  IInv'
<1>1. /\ queue # <<>> /\ queue' = <<>> /\ Returns(c, "get_all_nowait", 0, queue)
      /\ UNCHANGED <<uses, puts, unfinished, acked>>
  BY DEF GetAllNowait
<1>2. Taken(queue, Elements(queue), queue')
  BY <1>1, QueueFacts, TakeAll
<1>3. Whole("get_all_nowait", 0, queue) /\ "get_all_nowait" \in Operations
  BY <1>1 DEF Whole, Operations
<1>4. Counted /\ unfinished' \in Int /\ UNCHANGED <<uses, puts, acked>>
  BY <1>1, QueueFacts DEF Counted
<1> QED
  BY <1>1, <1>2, <1>3, <1>4, QueueFacts, ReturnsKeeps

LEMMA GetAllKeeps ==
    ASSUME IInv, NEW c \in Consumers, GetAll(c)
    PROVE  IInv'
<1>1. UNCHANGED <<uses, puts, unfinished, acked>>
  BY DEF GetAll
<1>2. Counted /\ unfinished' \in Int /\ UNCHANGED <<uses, puts, acked>>
  BY <1>1, QueueFacts DEF Counted
<1>3. CASE queue # <<>> /\ queue' = <<>> /\ Returns(c, "get_all", 0, queue)
  <2>1. Taken(queue, Elements(queue), queue')
    BY <1>3, QueueFacts, TakeAll
  <2>2. Whole("get_all", 0, queue) /\ "get_all" \in Operations
    BY <1>3 DEF Whole, Operations
  <2> QED
    BY <1>2, <1>3, <2>1, <2>2, QueueFacts, ReturnsKeeps
<1>4. CASE queue = <<>> /\ queue' = queue /\ Suspends(c, "get_all", 0, <<>>, TRUE)
  <2>1. Taken(queue, {}, queue')
    BY <1>4, QueueFacts, TakeNone
  <2>2. "get_all" \in {"get_all", "get_multi"} /\ Elements(<<>>) \subseteq {}
        /\ <<>> \in Seq(Items) /\ TRUE \in BOOLEAN
    BY EmptyQueue
  <2> QED
    BY <1>1, <1>4, <2>1, <2>2, QueueFacts, SuspendsKeeps
<1> QED
  BY <1>3, <1>4 DEF GetAll

LEMMA GetMultiNowaitKeeps ==
    ASSUME IInv, NEW c \in Consumers, NEW i \in Sizes,
           NEW op \in {"get_multi_nowait", "get_multi_nowait_less"},
           GetMultiNowait(c, i, op)
    PROVE  IInv'
<1>1. UNCHANGED <<uses, puts, acked>> /\ op \in uses /\ op \in Operations
  BY DEF GetMultiNowait, Calls, Operations
<1>2. CASE /\ Len(queue) >= i /\ queue' = After(i) /\ Returns(c, op, i, First(i))
           /\ UNCHANGED unfinished
  <2>1. i \in 0..Len(queue) /\ i > 0
    BY <1>2, QueueFacts
  <2>2. /\ First(i) \in Seq(Items) /\ Len(First(i)) = i
        /\ Taken(queue, Elements(First(i)), queue')
    BY <1>2, <2>1, QueueFacts, TakeFirst DEF First, After
  <2>3. Whole(op, i, First(i))
    BY <2>1, <2>2, NonEmpty DEF Whole
  <2>4. Counted /\ unfinished' \in Int
    BY <1>2, QueueFacts DEF Counted
  <2> QED
    BY <1>1, <1>2, <2>2, <2>3, <2>4, ReturnsKeeps
<1>3. CASE /\ Len(queue) \in 1..(i - 1) /\ op = "get_multi_nowait_less"
           /\ queue' = <<>> /\ Returns(c, op, i, queue) /\ UNCHANGED unfinished
  <2>1. Taken(queue, Elements(queue), queue')
    BY <1>3, QueueFacts, TakeAll
  <2>2. Whole(op, i, queue)
    BY <1>3, QueueFacts DEF Whole
  <2>3. Counted /\ unfinished' \in Int
    BY <1>3, QueueFacts DEF Counted
  <2> QED
    BY <1>1, <1>3, <2>1, <2>2, <2>3, QueueFacts, ReturnsKeeps
<1>4. CASE /\ op = "get_multi_nowait" /\ unfinished' = unfinished + Len(queue)
           /\ Raises(c) /\ UNCHANGED queue
  <2>1. Taken(queue, {}, queue')
    BY <1>4, QueueFacts, TakeNone
  <2>2. Counted /\ unfinished' \in Int
    BY <1>1, <1>4, QueueFacts DEF Counted
  <2> QED
    BY <1>1, <1>4, <2>1, <2>2, RaisesKeeps
<1> QED
  BY <1>2, <1>3, <1>4 DEF GetMultiNowait

LEMMA GetMultiLessKeeps ==
    ASSUME IInv, NEW c \in Consumers, NEW i \in Sizes, GetMultiLess(c, i)
    PROVE  IInv'
<1>1. Returns(c, "get_multi_less", i, <<>>) /\ UNCHANGED <<uses, queue, puts, unfinished, acked>>
  BY DEF GetMultiLess
<1>2. Taken(queue, {}, queue')
  BY <1>1, QueueFacts, TakeNone
<1>3. Whole("get_multi_less", i, <<>>) /\ "get_multi_less" \in Operations
  BY DEF Whole, Operations
<1>4. Counted /\ unfinished' \in Int /\ UNCHANGED <<uses, puts, acked>>
  BY <1>1, QueueFacts DEF Counted
<1> QED
  BY <1>1, <1>2, <1>3, <1>4, EmptyQueue, ReturnsKeeps

\* A round of get_multi's loop, with the list s, once T was taken from the queue
\* and q is left of it.  If extend is still the method of s, s is what it says.
LEMMA LoopKeeps ==
    ASSUME IInv, NEW c \in Consumers, NEW i \in Sizes, NEW s \in Seq(Items),
           NEW b \in BOOLEAN, NEW q \in Seq(Items), NEW T,
           Taken(queue, T, q), Elements(s) \subseteq T, Ascending(q),
           "get_multi" \in uses,
           Loop(c, i, s, b, q), UNCHANGED <<uses, puts, unfinished, acked>>
    PROVE  IInv'
<1> DEFINE missing == i - Len(s)
           taken == SubSeq(q, 1, missing)
           left == SubSeq(q, missing + 1, Len(q))
<1>1. /\ i \in Nat /\ Len(s) \in Nat /\ Len(q) \in Nat /\ missing \in Int
      /\ i \in Sizes \cup {0} /\ "get_multi" \in Operations
      /\ "get_multi" \in {"get_all", "get_multi"}
  BY QueueFacts, LenProperties DEF Operations
<1>2. Counted /\ unfinished' \in Int /\ UNCHANGED <<uses, puts, acked>>
  BY QueueFacts DEF Counted
<1>3. Taken(queue, T \cup Elements(q), <<>>)
  BY TakeAll, TakeTwice
<1>4. CASE queue' = q /\ Raises(c)
  BY <1>2, <1>4, RaisesKeeps
<1>5. CASE queue' = q /\ Suspends(c, "get_multi", i, s, b)
  BY <1>1, <1>5, SuspendsKeeps
<1>6. CASE /\ missing > 1 /\ Len(q) >= missing /\ queue' = left
           /\ Returns(c, "get_multi", i, s \o taken)
  <2>1. missing \in 0..Len(q)
    BY <1>1, <1>6
  <2>2. taken \in Seq(Items) /\ Len(taken) = missing /\ Taken(q, Elements(taken), left)
    BY <2>1, TakeFirst
  <2> HIDE DEF taken, left
  <2>3. Taken(queue, T \cup Elements(taken), queue')
    BY <1>6, <2>2, TakeTwice
  <2>4. /\ s \o taken \in Seq(Items) /\ Len(s \o taken) = Len(s) + Len(taken)
        /\ Elements(s \o taken) \subseteq T \cup Elements(taken)
    BY <2>2, ConcatElements
  <2>5. Whole("get_multi", i, s \o taken)
    BY <1>1, <2>2, <2>4 DEF Whole
  <2> QED
    BY <1>1, <1>2, <1>6, <2>3, <2>4, <2>5, ReturnsKeeps
<1>7. CASE queue' = <<>> /\ Raises(c)
  BY <1>2, <1>3, <1>7, RaisesKeeps
<1>8. CASE queue' = <<>> /\ Suspends(c, "get_multi", i, s \o q, b)
  <2>1. s \o q \in Seq(Items) /\ Elements(s \o q) \subseteq T \cup Elements(q)
    BY ConcatElements
  <2> QED
    BY <1>1, <1>3, <1>8, <2>1, SuspendsKeeps
<1>9. CASE queue' = <<>> /\ Suspends(c, "get_multi", i, s, b)
  BY <1>1, <1>3, <1>9, SuspendsKeeps
<1> QED
  BY <1>4, <1>5, <1>6, <1>7, <1>8, <1>9 DEF Loop

LEMMA GetMultiKeeps ==
    ASSUME IInv, NEW c \in Consumers, NEW i \in Sizes, GetMulti(c, i)
    PROVE  IInv'
<1>1. /\ "get_multi" \in uses /\ Loop(c, i, <<>>, TRUE, queue)
      /\ UNCHANGED <<uses, puts, unfinished, acked>>
  BY DEF GetMulti, Calls
<1>2. Taken(queue, {}, queue) /\ Elements(<<>>) \subseteq {} /\ <<>> \in Seq(Items)
  BY QueueFacts, TakeNone, EmptyQueue
<1> QED
  BY <1>1, <1>2, QueueFacts, LoopKeeps

LEMMA ResumeKeeps ==
    ASSUME IInv, NEW c \in Consumers, Resume(c)
    PROVE  IInv'
<1>1. queue # <<>> /\ UNCHANGED <<uses, puts, unfinished, acked>> /\ 1 \in 0..Len(queue)
  BY QueueFacts DEF Resume
<1>2. /\ First(1) \in Seq(Items) /\ Len(First(1)) = 1
      /\ Taken(queue, Elements(First(1)), After(1))
  BY <1>1, QueueFacts, TakeFirst DEF First, After
<1>3. Counted /\ unfinished' \in Int /\ UNCHANGED <<uses, puts, acked>>
  BY <1>1, QueueFacts DEF Counted
<1>4. CASE queue' = After(1) /\ Returns(c, "get_all", 0, First(1))
  <2>1. First(1) # <<>>
    <3>1. First(1) # <<>> <=> Len(First(1)) > 0
      BY <1>2, NonEmpty, Zenon
    <3> QED
      BY <1>2, <3>1
  <2>2. Whole("get_all", 0, First(1)) /\ "get_all" \in Operations
    BY <2>1 DEF Whole, Operations
  <2> QED
    BY <1>2, <1>3, <1>4, <2>2, QueueFacts, ReturnsKeeps
<1>5. CASE at[c] = "get_multi" /\ Loop(c, want[c], First(1), FALSE, After(1))
  <2>1. "get_multi" \in uses /\ After(1) \in Seq(Items) /\ Ascending(After(1))
    BY <1>2, <1>5 DEF IInv, NothingHeld, Taken, Ascending
  <2>2. want[c] \in Sizes
    <3>1. want[c] # 0
      <4>1. SUFFICES ASSUME want[c] = 0 PROVE FALSE
        OBVIOUS
      <4>2. want[c] - Len(First(1)) = 0 - 1
        BY <1>2, <4>1
      <4>3. ~(want[c] - Len(First(1)) = 1) /\ ~(want[c] - Len(First(1)) > 1)
        BY <4>2
      <4> QED
        BY <1>5, <4>3, Zenon DEF Loop
    <3> QED
      BY <3>1 DEF IInv, TypeOK
  <2> QED
    BY <1>1, <1>2, <1>5, <2>1, <2>2, LoopKeeps
<1> QED
  BY <1>4, <1>5 DEF Resume

LEMMA CancelKeeps ==
    ASSUME IInv, NEW c \in Consumers, Cancel(c)
    PROVE  IInv'
<1>1. Raises(c) /\ UNCHANGED <<uses, queue, puts, unfinished, acked>>
  BY DEF Cancel
<1>2. Taken(queue, {}, queue')
  BY <1>1, QueueFacts, TakeNone
<1>3. Counted /\ unfinished' \in Int /\ UNCHANGED <<uses, puts, acked>>
  BY <1>1, QueueFacts DEF Counted
<1> QED
  BY <1>1, <1>2, <1>3, RaisesKeeps

LEMMA NextKeepsIInv == IInv /\ [Next]_vars => IInv'
<1> SUFFICES ASSUME IInv, [Next]_vars PROVE IInv'
  OBVIOUS
<1>1. CASE UNCHANGED vars
  <2>1. Queued' = Queued /\ Held' = Held
    BY <1>1 DEF vars, Queued, Held
  <2>2. TypeOK' /\ Numbered' /\ CountsThePuts' /\ UnfinishedIsExact'
    BY <1>1, <2>1 DEF vars, IInv, TypeOK, Numbered, CountsThePuts, UnfinishedIsExact
  <2>3. TakenAreOlder' /\ NothingLost' /\ ResultsAreWhole' /\ NothingHeld'
    BY <1>1, <2>1 DEF vars, IInv, TakenAreOlder, NothingLost, AllAccountedFor,
                      ResultsAreWhole, NothingHeld
  <2> QED
    BY <2>2, <2>3 DEF IInv
<1>2. CASE Next
  BY <1>2, PutKeeps, TaskDoneKeeps, GetAllNowaitKeeps, GetAllKeeps, GetMultiNowaitKeeps,
     GetMultiLessKeeps, GetMultiKeeps, ResumeKeeps, CancelKeeps DEF Next
<1> QED
  BY <1>1, <1>2

LEMMA SpecIInv == Spec => []IInv
BY InitIInv, NextKeepsIInv, PTL DEF Spec

-----------------------------------------------------------------------------
\* The variables keep their types; in particular the count of unfinished tasks
\* never becomes negative, so that task_done() never raises for an item that was
\* returned.
THEOREM TypeCorrect == Spec => []TypeOK
<1>1. IInv => TypeOK
  BY DEF IInv
<1> QED
  BY <1>1, SpecIInv, PTL

\* An operation that takes several items returns as many as it says, however its
\* caller was suspended and resumed, and in whatever way others take items.
THEOREM ListsAreWhole == Spec => []ResultsAreWhole
<1>1. IInv => ResultsAreWhole
  BY DEF IInv
<1> QED
  BY <1>1, SpecIInv, PTL

\* The queue stays first in, first out: what an operation takes, or holds while
\* it waits, is older than all that is queued.  So no item is returned twice.
THEOREM FirstInFirstOut == Spec => []TakenAreOlder
<1>1. IInv => TakenAreOlder
  BY DEF IInv
<1> QED
  BY <1>1, SpecIInv, PTL

\* Where nobody calls get_multi, every item that was put is queued or returned.
THEOREM NoItemIsLost == Spec => []NothingLost
<1>1. IInv => NothingLost
  BY DEF IInv
<1> QED
  BY <1>1, SpecIInv, PTL

\* join() waits for one task_done() per item, unless get_multi_nowait put some
\* back; and task_done() is never called too often for the count to bear it.
THEOREM UnfinishedIsCounted == Spec => [](UnfinishedIsExact /\ CountsThePuts)
<1>1. IInv => UnfinishedIsExact /\ CountsThePuts
  BY DEF IInv
<1> QED
  BY <1>1, SpecIInv, PTL

-----------------------------------------------------------------------------
\* Iterators: the merging of iterators, which takes all that its queue has at once.
CONSTANTS Iters, Source, Wanted
VARIABLES iter, pos, merged, open, task, gen, batch, out, view, got

Merge == INSTANCE Iterators WITH queue <- merged, unfinished <- open, result <- got

\* Induction over the numbers, for sets of them.
LEMMA NatSetInduction ==
    ASSUME NEW N, 0 \in N, \A n \in Nat : n \in N => n + 1 \in N
    PROVE  Nat \subseteq N
<1> DEFINE Less == {p \in Nat \X Nat : p[1] < p[2]}
<1>1. IsWellFoundedOn(Less, Nat)
  BY NatLessThanWellFounded DEF OpToRel
<1> SUFFICES ASSUME Nat \ N # {} PROVE FALSE
  OBVIOUS
<1>2. PICK n \in Nat \ N : \A m \in Nat \ N : <<m, n>> \notin Less
  <2> HIDE DEF Less
  <2> QED
    BY <1>1, WFMin
<1>3. n # 0 /\ n - 1 \in Nat /\ (n - 1) + 1 = n
  OBVIOUS
<1>4. <<n - 1, n>> \in Less
  BY <1>3
<1>5. n - 1 \in N
  BY <1>2, <1>3, <1>4
<1> QED
  BY <1>3, <1>5

\* One more number finds its place among those that are sorted.
LEMMA Insertion ==
    ASSUME NEW n \in Nat, NEW S \in SUBSET Int, NEW r \in [1..n -> S], Merge!Increases(r),
           NEW x \in Int \ S
    PROVE  \E q \in [1..n + 1 -> S \cup {x}] : Merge!Increases(q)
<1> DEFINE Smaller(k) == k \in 1..n /\ r[k] < x
           q == [k \in 1..n + 1 |-> IF Smaller(k) THEN r[k]
                                    ELSE IF k = 1 \/ Smaller(k - 1) THEN x ELSE r[k - 1]]
<1>1. \A k \in 1..n : r[k] \in Int /\ r[k] # x
  OBVIOUS
<1>2. \A k, m \in 1..n : k < m => r[k] < r[m]
  BY DEF Merge!Increases
<1>3. q \in [1..n + 1 -> S \cup {x}]
  <2> SUFFICES ASSUME NEW k \in 1..n + 1 PROVE q[k] \in S \cup {x}
    OBVIOUS
  <2>1. k # 1 => k - 1 \in 1..n
    OBVIOUS
  <2> QED
    BY <2>1
<1>4. ASSUME NEW k \in 1..n + 1, NEW m \in 1..n + 1, k < m
      PROVE  q[k] < q[m]
  <2>1. k \in 1..n /\ m - 1 \in 1..n /\ (k # 1 => k - 1 \in 1..n) /\ k <= m - 1
    BY <1>4
  <2>2. CASE Smaller(k)
    <3>1. q[k] = r[k] /\ r[k] < x /\ x \in Int
      BY <2>2
    <3>2. r[k] <= r[m - 1] /\ (m \in 1..n => r[k] < r[m])
      BY <1>1, <1>2, <1>4, <2>1
    <3>3. \/ m \in 1..n /\ q[m] = r[m]
          \/ q[m] = x
          \/ q[m] = r[m - 1] /\ x <= r[m - 1]
      BY <1>1, <2>1
    <3> HIDE DEF q, Smaller
    <3> QED
      BY <1>1, <2>1, <3>1, <3>2, <3>3
  <2>3. CASE ~Smaller(k)
    <3>1. x < r[k]
      BY <1>1, <2>1, <2>3
    <3>2. r[k] <= r[m - 1] /\ (m \in 1..n => r[k] < r[m])
      BY <1>1, <1>2, <1>4, <2>1
    <3>3. q[m] = r[m - 1]
      BY <1>1, <2>1, <3>1, <3>2
    <3>4. q[k] = x \/ (k # 1 /\ q[k] = r[k - 1])
      BY <1>1, <2>1, <2>3
    <3>5. k # 1 => r[k - 1] < r[k]
      BY <1>2, <2>1
    <3> HIDE DEF q
    <3> QED
      BY <1>1, <2>1, <3>1, <3>2, <3>3, <3>4, <3>5
  <2> QED
    BY <2>2, <2>3
<1> QED
  BY <1>3, <1>4 DEF Merge!Increases

\* Numbers that differ can be sorted.
LEMMA Sortable ==
    ASSUME NEW n \in Nat, NEW f \in [1..n -> Int], Merge!IsInjective(f)
    PROVE  \E r \in [1..n -> {f[k] : k \in 1..n}] : Merge!Increases(r)
<1> DEFINE Sorts(m) == \E r \in [1..m -> {f[k] : k \in 1..m}] : Merge!Increases(r)
           N == {m \in Nat : m <= n => Sorts(m)}
<1>1. 0 \in N
  <2>1. [k \in 1..0 |-> f[k]] \in [1..0 -> {f[k] : k \in 1..0}]
    OBVIOUS
  <2>2. Merge!Increases([k \in 1..0 |-> f[k]])
    BY DEF Merge!Increases
  <2> QED
    BY <2>1, <2>2
<1>2. ASSUME NEW m \in Nat, m \in N
      PROVE  m + 1 \in N
  <2> SUFFICES ASSUME m + 1 <= n PROVE Sorts(m + 1)
    OBVIOUS
  <2> DEFINE S == {f[k] : k \in 1..m}
  <2>1. PICK r \in [1..m -> S] : Merge!Increases(r)
    BY <1>2
  <2>2. S \in SUBSET Int /\ f[m + 1] \in Int /\ m + 1 \in 1..n
    OBVIOUS
  <2>3. f[m + 1] \notin S
    <3> SUFFICES ASSUME NEW k \in 1..m, f[k] = f[m + 1] PROVE FALSE
      OBVIOUS
    <3>1. k \in 1..n /\ k # m + 1
      OBVIOUS
    <3> QED
      BY <2>2, <3>1 DEF Merge!IsInjective
  <2>4. {f[k] : k \in 1..m + 1} = S \cup {f[m + 1]}
    OBVIOUS
  <2>5. \E q \in [1..m + 1 -> S \cup {f[m + 1]}] : Merge!Increases(q)
    <3> HIDE DEF S
    <3> QED
      BY <2>1, <2>2, <2>3, Insertion
  <2> QED
    BY <2>4, <2>5
<1> HIDE DEF N
<1>3. Nat \subseteq N
  BY <1>1, <1>2, NatSetInduction
<1>4. n \in N
  BY <1>3
<1> QED
  BY <1>4 DEF N

\* So a sorter yields what it is given, in order.
LEMMA SortedItems ==
    ASSUME NEW S \in SUBSET Int, NEW s \in Seq(S), Merge!IsInjective(s)
    PROVE  /\ Merge!ToSet(Merge!Sorted(s)) = Merge!ToSet(s)
           /\ Merge!Increases(Merge!Sorted(s))
           /\ Merge!Sorted(s) \in Seq(S)
<1> DEFINE n == Len(s)
           T == Merge!ToSet(s)
           r == Merge!Sorted(s)
<1>1. n \in Nat /\ s \in [1..n -> Int] /\ T = {s[k] : k \in 1..n}
  <2>1. n \in Nat /\ s \in [1..n -> S]
    BY SeqDef
  <2>2. s \in [1..n -> Int]
    BY <2>1
  <2> QED
    BY <2>1, <2>2 DEF Merge!ToSet
<1>2. r \in [1..n -> T] /\ Merge!Increases(r)
  <2>1. \E q \in [1..n -> T] : Merge!Increases(q)
    <3> HIDE DEF n, T
    <3> QED
      BY <1>1, Sortable
  <2> QED
    BY <2>1 DEF Merge!Sorted
<1> HIDE DEF n, r
<1>3. IsFiniteSet(1..n) /\ Cardinality(1..n) = n
  BY <1>1, FS_Interval
<1>4. IsFiniteSet(T) /\ Cardinality(T) = n
  <2> HIDE DEF T
  <2>1. s \in Bijection(1..n, T)
    BY <1>1 DEF Merge!IsInjective, Bijection, Injection, Surjection, IsInjective
  <2>2. ExistsBijection(1..n, T)
    BY <2>1 DEF ExistsBijection
  <2> QED
    BY <1>1, <1>3, <2>2, FS_Bijection
<1>8. T \subseteq Int
  BY <1>1
<1> HIDE DEF T
<1>5. r \in Injection(1..n, T)
  <2>1. ASSUME NEW a \in 1..n, NEW b \in 1..n, r[a] = r[b]
        PROVE  a = b
    <3>1. \A k \in 1..n : r[k] \in Int
      BY <1>2, <1>8
    <3>2. ~(a < b) /\ ~(b < a)
      BY <1>2, <2>1, <3>1 DEF Merge!Increases
    <3> QED
      BY <1>1, <3>2
  <2> QED
    BY <1>2, <2>1 DEF Injection, IsInjective
<1>6. r \in Surjection(1..n, T)
  BY <1>3, <1>4, <1>5, FS_Injection
<1>7. Merge!ToSet(r) = T
  BY <1>2, <1>6 DEF Surjection, Merge!ToSet
<1>9. r \in Seq(S)
  <2>1. T \subseteq S
    <3>1. \A k \in 1..Len(s) : s[k] \in S
      OBVIOUS
    <3> QED
      BY <3>1, <1>1 DEF n, T
  <2>2. r \in [1..n -> S]
    BY <1>2, <2>1
  <2> QED
    BY <1>1, <2>2, SeqDef
<1> QED
  BY <1>2, <1>7, <1>9 DEF T, r

-----------------------------------------------------------------------------
\* What passes through the merging queue: items and the marks behind them.
Marks == {Merge!DoneOk, Merge!DoneError}
Stream == Merge!Items \cup Marks

\* s has what the iterators have yielded, in their order, and _Done() at the end,
\* if at all, when each of them has ended.
Streams(s) ==
    /\ \A i \in Iters : \A k \in 1..pos[i] : \E a \in DOMAIN s : s[a] = Source[i][k]
    /\ \A i \in Iters : \A a \in DOMAIN s, k \in DOMAIN Source[i] :
          s[a] = Source[i][k] => k <= pos[i]
    /\ \A i \in Iters : \A a, b \in DOMAIN s, k, m \in DOMAIN Source[i] :
          a < b /\ s[a] = Source[i][k] /\ s[b] = Source[i][m] => k < m
    /\ \A a \in DOMAIN s : s[a] = Merge!DoneOk =>
          a = Len(s) /\ task \notin {"none", "gathers"} /\ \A i \in Iters : iter[i] = "ended"

\* All that was put: what the generator has yielded, what it took, and the queue.
Flow == out \o batch \o merged

\* What a view has got of what was yielded.
Viewed ==
    /\ view = "iterator" => got = out
    /\ view = "filter" =>
          /\ Merge!ToSet(got) = Merge!ToSet(out) \cap Wanted
          /\ \A x, y \in Merge!Items : Merge!Precedes(got, x, y) => Merge!Precedes(out, x, y)

MergeTypes ==
    /\ iter \in [Iters -> {"runs", "ended", "failed", "cancelled"}]
    /\ pos \in [Iters -> Nat] /\ \A i \in Iters : pos[i] <= Len(Source[i])
    /\ merged \in Seq(Stream) /\ batch \in Seq(Stream)
    /\ out \in Seq(Merge!Items) /\ got \in Seq(Merge!Items)

MergeInv ==
    /\ MergeTypes
    /\ \A i \in Iters : iter[i] = "ended" => pos[i] = Len(Source[i])
    /\ gen = "new" => task = "none"
    /\ gen \in {"new", "waits"} => batch = <<>>
    /\ gen \in {"new", "waits", "works"} => Streams(Flow) /\ Viewed
    /\ Merge!EndIsComplete

\* The sources yield numbers, each once.
LEMMA ItemsAreNumbers ==
    ASSUME Merge!ItemsDiffer
    PROVE  /\ Merge!Items \subseteq Nat /\ Merge!Items \cap Marks = {}
           /\ Merge!DoneOk # Merge!DoneError
           /\ \A i \in Iters : /\ Len(Source[i]) \in Nat /\ DOMAIN Source[i] = 1..Len(Source[i])
                               /\ \A k \in DOMAIN Source[i] : Source[i][k] \in Merge!Items
           /\ \A x \in Merge!Items : \E i \in Iters : \E k \in DOMAIN Source[i] : x = Source[i][k]
           /\ \A i, j \in Iters : \A k \in DOMAIN Source[i], m \in DOMAIN Source[j] :
                 Source[i][k] = Source[j][m] => i = j /\ k = m
<1>1. \A i \in Iters : Source[i] \in Seq(Nat)
  BY DEF Merge!ItemsDiffer
<1>2. \A i \in Iters : /\ Len(Source[i]) \in Nat /\ DOMAIN Source[i] = 1..Len(Source[i])
                       /\ \A k \in DOMAIN Source[i] : Source[i][k] \in Nat
  BY <1>1
<1>3. \A i \in Iters : Merge!ToSet(Source[i]) = {Source[i][k] : k \in DOMAIN Source[i]}
  BY DEF Merge!ToSet
<1>4. \A i \in Iters : \A k \in DOMAIN Source[i] : Source[i][k] \in Merge!Items
  BY <1>3 DEF Merge!Items
<1>5. \A x \in Merge!Items : \E i \in Iters : \E k \in DOMAIN Source[i] : x = Source[i][k]
  BY <1>3 DEF Merge!Items
<1>6. Merge!Items \subseteq Nat
  BY <1>2, <1>5
<1>7. Merge!Items \cap Marks = {} /\ Merge!DoneOk # Merge!DoneError
  BY <1>6 DEF Marks, Merge!DoneOk, Merge!DoneError
<1>8. ASSUME NEW i \in Iters, NEW j \in Iters, NEW k \in DOMAIN Source[i],
             NEW m \in DOMAIN Source[j], Source[i][k] = Source[j][m]
      PROVE  i = j /\ k = m
  <2>1. Source[i][k] \in Merge!ToSet(Source[i]) /\ Source[i][k] \in Merge!ToSet(Source[j])
    BY <1>3, <1>8
  <2>2. i = j
    BY <2>1 DEF Merge!ItemsDiffer
  <2> QED
    BY <1>8, <2>2 DEF Merge!ItemsDiffer, Merge!IsInjective
<1> QED
  BY <1>2, <1>4, <1>5, <1>6, <1>7, <1>8

\* Nothing has been put.
LEMMA InitMerge ==
    ASSUME Merge!ItemsDiffer, Merge!Init
    PROVE  MergeInv
<1>1. /\ iter = [i \in Iters |-> "runs"] /\ pos = [i \in Iters |-> 0] /\ merged = <<>>
      /\ batch = <<>> /\ out = <<>> /\ got = <<>> /\ gen = "new" /\ task = "none"
  BY DEF Merge!Init
<1>2. \A T : <<>> \in Seq(T)
  OBVIOUS
<1>3. MergeTypes
  BY <1>1, <1>2, ItemsAreNumbers DEF MergeTypes
<1>4. Flow = <<>>
  <2>1. <<>> \o <<>> = <<>>
    OBVIOUS
  <2> QED
    BY <1>1, <2>1 DEF Flow
<1>5. Streams(<<>>)
  BY <1>1 DEF Streams
<1>6. Viewed
  BY <1>1 DEF Viewed, Merge!ToSet, Merge!Precedes
<1> QED
  BY <1>1, <1>3, <1>4, <1>5, <1>6 DEF MergeInv, Merge!EndIsComplete

\* What is appended behind all that was put.
LEMMA Flows ==
    ASSUME NEW T, NEW s \in Seq(T), NEW t \in Seq(T), NEW u \in Seq(T), NEW x \in T
    PROVE  /\ s \o t \o u \in Seq(T) /\ s \o t \o Append(u, x) = Append(s \o t \o u, x)
           /\ s \o <<>> \o u = s \o u \o <<>>
           /\ t # <<>> => Append(s, Head(t)) \o Tail(t) \o u = s \o t \o u
<1>1. /\ s \o t \in Seq(T) /\ s \o u \in Seq(T) /\ Append(u, x) \in Seq(T)
      /\ s \o t \o u \in Seq(T) /\ <<>> \in Seq(T)
  OBVIOUS
<1>2. s \o t \o Append(u, x) = Append(s \o t \o u, x)
  <2>1. Append(u, x) = u \o <<x>> /\ Append(s \o t \o u, x) = s \o t \o u \o <<x>> /\ <<x>> \in Seq(T)
    BY <1>1, AppendIsConcat
  <2>2. (s \o t) \o (u \o <<x>>) = ((s \o t) \o u) \o <<x>>
    BY <1>1, <2>1, ConcatAssociative
  <2> QED
    BY <2>1, <2>2
<1>3. s \o <<>> = s /\ s \o u \o <<>> = s \o u
  BY <1>1, ConcatEmptySeq
<1>4. ASSUME t # <<>>
      PROVE  Append(s, Head(t)) \o Tail(t) = s \o t
  <2>1. Head(t) \in T /\ Tail(t) \in Seq(T) /\ <<Head(t)>> \in Seq(T)
    BY <1>4, HeadTailProperties
  <2>2. Append(s, Head(t)) = s \o <<Head(t)>>
    BY <2>1, AppendIsConcat
  <2>3. (s \o <<Head(t)>>) \o Tail(t) = s \o (<<Head(t)>> \o Tail(t))
    BY <2>1, ConcatAssociative, SMTT(30)
  <2>4. <<Head(t)>> \o Tail(t) = t
    BY <1>4, <2>1
  <2> QED
    BY <2>2, <2>3, <2>4
<1> QED
  BY <1>1, <1>2, <1>3, <1>4

\* Streams of what was put, in the next state: Flow is opaque there.
LEMMA NextStreams ==
    ASSUME NEW s, Streams(s)', Flow' = s
    PROVE  Streams(Flow)'
BY DEF Streams

\* An item or a mark is put in the queue: the consumer does not notice.
LEMMA PutsKeep ==
    ASSUME MergeInv, NEW x \in Stream, merged' = Append(merged, x),
           UNCHANGED Merge!consumer,
           iter' \in [Iters -> {"runs", "ended", "failed", "cancelled"}], pos' \in [Iters -> Nat],
           \A i \in Iters : /\ pos'[i] <= Len(Source[i])
                            /\ iter'[i] = "ended" => pos'[i] = Len(Source[i]),
           gen = "new" => task' = "none",
           \A s \in Seq(Stream) : Streams(s) => Streams(Append(s, x))'
    PROVE  MergeInv'
<1>1. MergeTypes'
  <2>1. merged' \in Seq(Stream)
    BY DEF MergeInv, MergeTypes
  <2> QED
    BY <2>1 DEF MergeInv, MergeTypes, Merge!consumer
<1>2. PICK s \in Seq(Stream) : s = Flow
  <2>1. out \in Seq(Stream) /\ batch \in Seq(Stream) /\ merged \in Seq(Stream)
    BY DEF MergeInv, MergeTypes, Stream
  <2>2. out \o batch \o merged \in Seq(Stream)
    BY <2>1
  <2> QED
    BY <2>2 DEF Flow
<1>3. Flow' = Append(s, x)
  <2>1. out \in Seq(Stream) /\ batch \in Seq(Stream) /\ merged \in Seq(Stream)
    BY DEF MergeInv, MergeTypes, Stream
  <2>2. out \o batch \o Append(merged, x) = Append(out \o batch \o merged, x)
    BY <2>1, Flows
  <2> QED
    BY <1>2, <2>2 DEF Flow, Merge!consumer
<1>4. gen \in {"new", "waits", "works"} => Streams(Flow)'
  <2> SUFFICES ASSUME gen \in {"new", "waits", "works"} PROVE Streams(Flow)'
    OBVIOUS
  <2>1. Streams(s)
    BY <1>2 DEF MergeInv
  <2>2. PICK t : t = Append(s, x)
    OBVIOUS
  <2>3. Streams(t)'
    BY <2>1, <2>2
  <2> QED
    BY <1>3, <2>2, <2>3, NextStreams
<1> QED
  BY <1>1, <1>4 DEF MergeInv, Viewed, Merge!EndIsComplete, Merge!consumer

\* The places of a sequence with one more at its end.
LEMMA AppendedAt ==
    ASSUME NEW T, NEW s \in Seq(T), NEW x
    PROVE  /\ Len(s) \in Nat /\ DOMAIN s = 1..Len(s)
           /\ Len(Append(s, x)) = Len(s) + 1 /\ DOMAIN Append(s, x) = 1..Len(s) + 1
           /\ \A a \in DOMAIN s : Append(s, x)[a] = s[a]
           /\ Append(s, x)[Len(s) + 1] = x
OBVIOUS

\* An iterator that runs yields its next item.
LEMMA ExhaustKeeps ==
    ASSUME Merge!ItemsDiffer, MergeInv, NEW i \in Iters, Merge!Exhaust(i)
    PROVE  MergeInv'
<1>0. PICK x : x = Source[i][pos[i] + 1]
  OBVIOUS
<1>1. /\ task # "none" /\ iter[i] = "runs" /\ pos[i] < Len(Source[i])
      /\ pos' = [pos EXCEPT ![i] = pos[i] + 1] /\ merged' = Append(merged, x)
      /\ UNCHANGED <<Merge!consumer, iter, task>>
  BY <1>0 DEF Merge!Exhaust, Merge!Running
<1>2. pos \in [Iters -> Nat] /\ pos[i] \in Nat /\ pos[i] + 1 \in DOMAIN Source[i]
  BY <1>1, ItemsAreNumbers DEF MergeInv, MergeTypes
<1>3. x \in Merge!Items /\ x \in Stream /\ x # Merge!DoneOk
  BY <1>0, <1>2, ItemsAreNumbers DEF Stream, Marks
<1>4. pos' \in [Iters -> Nat] /\ pos'[i] = pos[i] + 1 /\ \A j \in Iters \ {i} : pos'[j] = pos[j]
  BY <1>1, <1>2
<1>5. \A j \in Iters : /\ pos'[j] <= Len(Source[j])
                       /\ iter'[j] = "ended" => pos'[j] = Len(Source[j])
  BY <1>1, <1>2, <1>4, ItemsAreNumbers DEF MergeInv, MergeTypes
<1>6. ASSUME NEW s \in Seq(Stream), Streams(s)
      PROVE  Streams(Append(s, x))'
  <2> DEFINE t == Append(s, x)
             n == Len(s)
  <2>1. /\ n \in Nat /\ DOMAIN s = 1..n /\ Len(t) = n + 1 /\ DOMAIN t = 1..n + 1
        /\ \A a \in 1..n : t[a] = s[a] 
        /\ t[n + 1] = x
    BY AppendedAt
  <2> HIDE DEF t, n
  <2>2. \A j \in Iters : \A k \in DOMAIN Source[j] :
           x = Source[j][k] => j = i /\ k = pos[i] + 1
    <3>1. PICK m \in DOMAIN Source[i] : m = pos[i] + 1
      BY <1>2
    <3>2. ASSUME NEW j \in Iters, NEW k \in DOMAIN Source[j], x = Source[j][k]
          PROVE  j = i /\ k = m
      <4>1. Source[i][m] = Source[j][k]
        BY <1>0, <3>1, <3>2
      <4>2. \A l, r \in Iters : \A a \in DOMAIN Source[l], b \in DOMAIN Source[r] :
               Source[l][a] = Source[r][b] => l = r /\ a = b
        BY ItemsAreNumbers
      <4>3. i = j /\ m = k
        BY <4>1, <4>2
      <4> QED
        BY <4>3
    <3> QED
      BY <3>1, <3>2
  <2>3. ASSUME NEW j \in Iters, NEW k \in 1..pos'[j]
        PROVE  \E a \in DOMAIN t : t[a] = Source[j][k]
    <3>1. CASE k \in 1..pos[j]
      <4>1. PICK a \in 1..n : s[a] = Source[j][k]
        BY <1>6, <2>1, <3>1 DEF Streams
      <4> QED
        BY <2>1, <4>1
    <3>2. CASE k \notin 1..pos[j]
      <4>1. j = i /\ k = pos[i] + 1
        BY <1>2, <1>4, <3>2
      <4> QED
        BY <1>0, <2>1, <4>1
    <3> QED
      BY <3>1, <3>2
  <2>4. ASSUME NEW j \in Iters, NEW a \in DOMAIN t, NEW k \in DOMAIN Source[j], t[a] = Source[j][k]
        PROVE  k <= pos'[j] /\ (a \in 1..n => k <= pos[j])
    <3>1. CASE a \in 1..n
      <4>1. k <= pos[j] /\ pos[j] \in Nat /\ k \in Nat
        BY <1>2, <1>6, <2>1, <2>4, <3>1, ItemsAreNumbers DEF Streams
      <4> QED
        BY <1>2, <1>4, <4>1
    <3>2. CASE a = n + 1
      BY <1>2, <1>4, <2>1, <2>2, <2>4, <3>2
    <3> QED
      BY <2>1, <3>1, <3>2
  <2>5. ASSUME NEW j \in Iters, NEW a \in DOMAIN t, NEW b \in DOMAIN t,
               NEW k \in DOMAIN Source[j], NEW m \in DOMAIN Source[j],
               a < b, t[a] = Source[j][k], t[b] = Source[j][m]
        PROVE  k < m
    <3>1. a \in 1..n
      BY <2>1, <2>5
    <3>2. CASE b \in 1..n
      BY <1>6, <2>1, <2>5, <3>1, <3>2 DEF Streams
    <3>3. CASE b = n + 1
      <4>1. j = i /\ m = pos[i] + 1
        BY <2>1, <2>2, <2>5, <3>3
      <4>2. k <= pos[i] /\ k \in Nat
        BY <2>4, <2>5, <3>1, <4>1, ItemsAreNumbers
      <4> QED
        BY <1>2, <4>1, <4>2
    <3> QED
      BY <2>1, <3>2, <3>3
  <2>6. \A a \in DOMAIN t : t[a] # Merge!DoneOk
    BY <1>1, <1>3, <1>6, <2>1 DEF Streams
  <2>7. Streams(t)'
    BY <2>3, <2>4, <2>5, <2>6 DEF Streams
  <2> QED
    BY <2>7 DEF t
<1> QED
  BY <1>1, <1>3, <1>4, <1>5, <1>6, PutsKeep DEF MergeInv, MergeTypes

\* The populating task puts _Done: without an exception it is the last thing that
\* is put.
LEMMA PopulatedKeeps ==
    ASSUME Merge!ItemsDiffer, MergeInv, Merge!Populated
    PROVE  MergeInv'
<1>1. PICK x \in Marks :
        /\ merged' = Append(merged, x) /\ task' \notin {"none", "gathers"} /\ task = "gathers"
        /\ x = Merge!DoneOk => \A i \in Iters : iter[i] = "ended"
  <2>1. CASE /\ \A i \in Iters : iter[i] \notin {"failed", "cancelled"}
             /\ task' = "joins" /\ merged' = Append(merged, Merge!DoneOk)
    <3>1. \A i \in Iters : iter[i] = "ended"
      BY <2>1 DEF Merge!Populated, Merge!Gathered
    <3> QED
      BY <2>1, <3>1 DEF Merge!Populated, Marks
  <2>2. CASE task' \in {"joins", "cancelled"} /\ merged' = Append(merged, Merge!DoneError)
    BY <2>2, ItemsAreNumbers DEF Merge!Populated, Marks
  <2> QED
    BY <2>1, <2>2 DEF Merge!Populated
<1>2. UNCHANGED <<Merge!consumer, iter, pos>> /\ x \in Stream /\ x \notin Merge!Items
  BY ItemsAreNumbers DEF Merge!Populated, Stream
<1>3. ASSUME NEW s \in Seq(Stream), Streams(s)
      PROVE  Streams(Append(s, x))'
  <2>1. PICK n, t : n = Len(s) /\ t = Append(s, x)
    OBVIOUS
  <2>2. /\ n \in Nat /\ DOMAIN s = 1..n /\ Len(t) = n + 1 /\ DOMAIN t = 1..n + 1
        /\ \A a \in 1..n : t[a] = s[a] 
        /\ t[n + 1] = x
    BY <2>1, AppendedAt
  <2>3. \A j \in Iters : \A k \in DOMAIN Source[j] : x # Source[j][k]
    BY <1>2, ItemsAreNumbers
  <2>4. \A j \in Iters : \A k \in 1..pos[j] : \E a \in DOMAIN t : t[a] = Source[j][k]
    <3> SUFFICES ASSUME NEW j \in Iters, NEW k \in 1..pos[j]
                 PROVE  \E a \in DOMAIN t : t[a] = Source[j][k]
      OBVIOUS
    <3>1. PICK a \in 1..n : s[a] = Source[j][k]
      BY <1>3, <2>2 DEF Streams
    <3> QED
      BY <2>2, <3>1
  <2>5. \A j \in Iters : \A a \in DOMAIN t, k \in DOMAIN Source[j] : t[a] = Source[j][k] => a \in 1..n
    BY <2>2, <2>3
  <2>6. \A j \in Iters : \A a \in DOMAIN t, k \in DOMAIN Source[j] :
           t[a] = Source[j][k] => k <= pos[j]
    BY <1>3, <2>2, <2>5 DEF Streams
  <2>7. \A j \in Iters : \A a, b \in DOMAIN t, k, m \in DOMAIN Source[j] :
           a < b /\ t[a] = Source[j][k] /\ t[b] = Source[j][m] => k < m
    BY <1>3, <2>2, <2>5 DEF Streams
  <2>8. \A a \in DOMAIN t : t[a] = Merge!DoneOk => a = n + 1
    BY <1>1, <1>3, <2>2 DEF Streams
  <2>9. Streams(t)'
    BY <1>1, <1>2, <2>2, <2>4, <2>6, <2>7, <2>8 DEF Streams
  <2> QED
    BY <2>1, <2>9
<1>4. \A i \in Iters : /\ pos'[i] <= Len(Source[i])
                       /\ iter'[i] = "ended" => pos'[i] = Len(Source[i])
  BY <1>2 DEF MergeInv, MergeTypes
<1>5. gen # "new"
  BY <1>1 DEF MergeInv
<1> QED
  BY <1>1, <1>2, <1>3, <1>4, <1>5, PutsKeep DEF MergeInv, MergeTypes

\* An iterator ends, the consumer asks for the first item, or the queue is joined.
LEMMA TasksKeep ==
    ASSUME Merge!ItemsDiffer, MergeInv,
           \/ \E i \in Iters, how \in {"ended", "failed", "cancelled"} : Merge!IterEnds(i, how)
           \/ Merge!Start \/ Merge!Joined
    PROVE  MergeInv'
<1>1. /\ UNCHANGED <<pos, merged, batch, out, view, got>>
      /\ gen' = gen \/ (gen = "new" /\ gen' = "waits")
      /\ gen' = "new" => task' = "none"
  BY DEF Merge!IterEnds, Merge!Running, Merge!Start, Merge!Joined, Merge!consumer, MergeInv
<1>2. /\ iter' \in [Iters -> {"runs", "ended", "failed", "cancelled"}]
      /\ \A i \in Iters : iter'[i] = "ended" => pos[i] = Len(Source[i])
  BY DEF Merge!IterEnds, Merge!Running, Merge!Start, Merge!Joined, MergeInv, MergeTypes
<1>3. (task \notin {"none", "gathers"} /\ \A i \in Iters : iter[i] = "ended")
        => (task' \notin {"none", "gathers"} /\ iter' = iter)
        \/ gen = "new"
  BY DEF Merge!IterEnds, Merge!Running, Merge!Start, Merge!Joined
<1>4. ASSUME NEW s, Streams(s)
      PROVE  Streams(s)'
  <2>1. task = "none" => gen = "new" \/ task' = "none" \/ task' = task
    BY DEF Merge!IterEnds, Merge!Running, Merge!Start, Merge!Joined
  <2>2. gen = "new" => task = "none"
    BY DEF MergeInv
  <2> QED
    BY <1>1, <1>3, <1>4, <2>2 DEF Streams
<1>5. gen' \in {"new", "waits", "works"} => Streams(Flow)'
  <2>1. PICK s : s = Flow
    OBVIOUS
  <2>2. Flow' = s
    BY <1>1, <2>1 DEF Flow
  <2>3. gen' \in {"new", "waits", "works"} => Streams(s)
    BY <1>1, <2>1 DEF MergeInv
  <2> QED
    BY <1>4, <2>2, <2>3, NextStreams
<1>6. MergeTypes'
  BY <1>1, <1>2 DEF MergeInv, MergeTypes
<1> QED
  BY <1>1, <1>2, <1>5, <1>6 DEF MergeInv, Viewed, Merge!EndIsComplete

\* The generator takes what is there, waits for more, or is closed.
LEMMA TakesKeep ==
    ASSUME MergeInv, Merge!GetAll \/ Merge!LookAgain \/ Merge!Close
    PROVE  MergeInv'
<1>1. /\ UNCHANGED <<iter, pos, task, out, view, got>> /\ gen # "ended" /\ gen' \notin {"ended", "new"}
      /\ gen' \in {"waits", "works"} => gen \in {"waits", "works"}
  BY DEF Merge!GetAll, Merge!LookAgain, Merge!Close
<1>2. /\ merged' \in Seq(Stream) /\ batch' \in Seq(Stream)
      /\ gen' = "waits" => batch' = <<>>
  <2>1. <<>> \in Seq(Stream)
    OBVIOUS
  <2> QED
    BY <2>1 DEF Merge!GetAll, Merge!LookAgain, Merge!Close, MergeInv, MergeTypes
<1>3. Flow' = Flow
  <2>1. CASE Merge!GetAll
    <3>1. batch = <<>> /\ batch' = merged /\ merged' = <<>> /\ out' = out
      BY <2>1 DEF Merge!GetAll, MergeInv
    <3>2. out \in Seq(Stream) /\ merged \in Seq(Stream) /\ <<>> \in Seq(Stream)
      BY DEF MergeInv, MergeTypes, Stream
    <3>3. out \o <<>> \o merged = out \o merged \o <<>>
      <4>1. out \o <<>> = out /\ out \o merged \in Seq(Stream)
        BY <3>2, ConcatEmptySeq
      <4>2. out \o merged \o <<>> = out \o merged
        BY <4>1, ConcatEmptySeq
      <4> QED
        BY <4>1, <4>2
    <3> QED
      BY <3>1, <3>3 DEF Flow
  <2>2. CASE UNCHANGED <<batch, merged, out>>
    BY <2>2 DEF Flow
  <2> QED
    BY <2>1, <2>2 DEF Merge!LookAgain, Merge!Close
<1>4. gen' \in {"waits", "works"} => Streams(Flow)'
  <2>1. PICK s : s = Flow
    OBVIOUS
  <2>2. gen' \in {"waits", "works"} => Streams(s)
    BY <1>1, <2>1 DEF MergeInv
  <2>3. gen' \in {"waits", "works"} => Streams(s)'
    BY <1>1, <2>2 DEF Streams
  <2> QED
    BY <1>3, <2>1, <2>3, NextStreams
<1> QED
  BY <1>1, <1>2, <1>4 DEF MergeInv, MergeTypes, Viewed, Merge!EndIsComplete

\* What has been yielded comes before what is yielded next.
LEMMA PrecedesNext ==
    ASSUME NEW T, NEW s \in Seq(T), NEW h
    PROVE  /\ Merge!ToSet(Append(s, h)) = Merge!ToSet(s) \cup {h}
           /\ \A x, y : Merge!Precedes(Append(s, h), x, y) <=>
                           (Merge!Precedes(s, x, y) \/ (x \in Merge!ToSet(s) /\ y = h))
<1> DEFINE t == Append(s, h)
           n == Len(s)
<1>1. /\ n \in Nat /\ DOMAIN s = 1..n /\ DOMAIN t = 1..n + 1
      /\ \A a \in 1..n : t[a] = s[a] 
      /\ t[n + 1] = h
  BY AppendedAt
<1> HIDE DEF t, n
<1>2. Merge!ToSet(t) = Merge!ToSet(s) \cup {h}
  BY <1>1 DEF Merge!ToSet
<1>3. ASSUME NEW x, NEW y
      PROVE  Merge!Precedes(t, x, y) <=> (Merge!Precedes(s, x, y) \/ (x \in Merge!ToSet(s) /\ y = h))
  <2>1. ASSUME Merge!Precedes(t, x, y)
        PROVE  Merge!Precedes(s, x, y) \/ (x \in Merge!ToSet(s) /\ y = h)
    <3>1. PICK a, b \in 1..n + 1 : a < b /\ t[a] = x /\ t[b] = y
      BY <1>1, <2>1 DEF Merge!Precedes
    <3>2. a \in 1..n /\ s[a] = x
      BY <1>1, <3>1
    <3>3. CASE b \in 1..n
      BY <1>1, <3>1, <3>2, <3>3 DEF Merge!Precedes
    <3>4. CASE b = n + 1
      BY <1>1, <3>1, <3>2, <3>4 DEF Merge!ToSet
    <3> QED
      BY <1>1, <3>3, <3>4
  <2>2. ASSUME Merge!Precedes(s, x, y)
        PROVE  Merge!Precedes(t, x, y)
    BY <1>1, <2>2 DEF Merge!Precedes
  <2>3. ASSUME x \in Merge!ToSet(s), y = h
        PROVE  Merge!Precedes(t, x, y)
    <3>1. PICK a \in 1..n : s[a] = x
      BY <1>1, <2>3 DEF Merge!ToSet
    <3>2. a < n + 1 /\ t[a] = x /\ t[n + 1] = y /\ a \in 1..n + 1 /\ n + 1 \in 1..n + 1
      BY <1>1, <2>3, <3>1
    <3> QED
      BY <1>1, <3>2 DEF Merge!Precedes
  <2> QED
    BY <2>1, <2>2, <2>3
<1> QED
  BY <1>2, <1>3 DEF t

\* The generator yields the next item.
LEMMA YieldKeeps ==
    ASSUME Merge!ItemsDiffer, MergeInv, Merge!Yield
    PROVE  MergeInv'
<1>1. PICK h \in Merge!Items : h = Head(batch)
  BY DEF Merge!Yield
<1>2. /\ gen = "works" /\ gen' = "works" /\ batch # <<>> /\ batch' = Tail(batch)
      /\ out' = Append(out, h) /\ got' = got \o Merge!Passes(h)
      /\ UNCHANGED <<iter, pos, merged, task, view>>
  BY <1>1 DEF Merge!Yield
<1>3. /\ out \in Seq(Merge!Items) /\ got \in Seq(Merge!Items) /\ batch \in Seq(Stream)
      /\ merged \in Seq(Stream) /\ out \in Seq(Stream)
  BY DEF MergeInv, MergeTypes, Stream
<1>4. Flow' = Flow
  <2>1. h \in Stream
    BY DEF Stream
  <2>2. Append(out, Head(batch)) \o Tail(batch) \o merged = out \o batch \o merged
    <3>1. \A s, t, u \in Seq(Stream) :
            t # <<>> => Append(s, Head(t)) \o Tail(t) \o u = s \o t \o u
      BY <2>1, Flows
    <3> QED
      BY <1>2, <1>3, <3>1
  <2> QED
    BY <1>1, <1>2, <2>2 DEF Flow
<1>5. Streams(Flow)'
  <2>1. PICK s : s = Flow
    OBVIOUS
  <2>2. Streams(s)
    BY <1>2, <2>1 DEF MergeInv
  <2>3. Streams(s)'
    BY <1>2, <2>2 DEF Streams
  <2> QED
    BY <1>4, <2>1, <2>3, NextStreams
<1>6. /\ got \o <<h>> = Append(got, h) /\ got \o <<>> = got
      /\ Append(got, h) \in Seq(Merge!Items) /\ Append(out, h) \in Seq(Merge!Items)
  BY <1>3, AppendIsConcat, ConcatEmptySeq
<1>7. got' = IF view = "iterator" \/ (view = "filter" /\ h \in Wanted) THEN Append(got, h) ELSE got
  BY <1>2, <1>6 DEF Merge!Passes
<1>8. MergeTypes'
  <2>1. Tail(batch) \in Seq(Stream)
    BY <1>2, <1>3
  <2> QED
    BY <1>2, <1>3, <1>6, <1>7, <2>1 DEF MergeInv, MergeTypes
<1>9. Viewed'
  <2>1. Viewed
    BY <1>2 DEF MergeInv
  <2>2. CASE view = "iterator"
    BY <1>2, <1>7, <2>1, <2>2 DEF Viewed
  <2>3. CASE view = "filter"
    <3>1. /\ Merge!ToSet(out)' = Merge!ToSet(out) \cup {h}
          /\ \A x, y : Merge!Precedes(out', x, y) <=>
                (Merge!Precedes(out, x, y) \/ (x \in Merge!ToSet(out) /\ y = h))
      <4>1. Merge!ToSet(out') = Merge!ToSet(out) \cup {h}
        BY <1>2, <1>3, PrecedesNext
      <4> QED
        BY <1>2, <1>3, <4>1, PrecedesNext DEF Merge!ToSet
    <3>2. CASE h \in Wanted
      <4>1. /\ Merge!ToSet(got') = Merge!ToSet(got) \cup {h}
            /\ \A x, y : Merge!Precedes(got', x, y) <=>
                  (Merge!Precedes(got, x, y) \/ (x \in Merge!ToSet(got) /\ y = h))
        BY <1>3, <1>7, <2>3, <3>2, PrecedesNext
      <4>2. Merge!ToSet(got') = Merge!ToSet(out') \cap Wanted
        BY <1>2, <1>3, <2>1, <2>3, <3>2, <4>1, PrecedesNext DEF Viewed
      <4>3. \A x, y \in Merge!Items : Merge!Precedes(got', x, y) => Merge!Precedes(out', x, y)
        BY <2>1, <2>3, <3>1, <4>1 DEF Viewed
      <4> QED
        BY <1>2, <2>3, <4>2, <4>3 DEF Viewed
    <3>3. CASE h \notin Wanted
      <4>1. got' = got
        BY <1>7, <2>3, <3>3
      <4>2. Merge!ToSet(got) = Merge!ToSet(out') \cap Wanted
        BY <1>2, <1>3, <2>1, <2>3, <3>3, PrecedesNext DEF Viewed
      <4> QED
        BY <1>2, <2>1, <2>3, <3>1, <4>1, <4>2 DEF Viewed
    <3> QED
      BY <3>2, <3>3
  <2> QED
    BY <1>2, <2>2, <2>3 DEF Viewed
<1>10. Merge!EndIsComplete'
  BY <1>2 DEF Merge!EndIsComplete
<1> QED
  BY <1>2, <1>5, <1>8, <1>9, <1>10 DEF MergeInv

\* What was put before _Done() is everything, in order.
LEMMA StreamIsComplete ==
    ASSUME Merge!ItemsDiffer, NEW s \in Seq(Stream), Streams(s), NEW o \in Seq(Merge!Items),
           Len(s) = Len(o) + 1, s[Len(s)] = Merge!DoneOk, \A a \in DOMAIN o : s[a] = o[a],
           \A i \in Iters : iter[i] = "ended" => pos[i] = Len(Source[i])
    PROVE  /\ Merge!ToSet(o) = Merge!Items /\ Merge!IsInjective(o)
           /\ \A i \in Iters : \A k, m \in DOMAIN Source[i] :
                 k < m => Merge!Precedes(o, Source[i][k], Source[i][m])
<1>1. PICK n \in Nat : n = Len(o)
  OBVIOUS
<1>2. DOMAIN o = 1..n /\ DOMAIN s = 1..n + 1 /\ Len(s) = n + 1 /\ \A a \in 1..n : s[a] = o[a] /\ o[a] \in Merge!Items
  <2>1. DOMAIN o = 1..n /\ DOMAIN s = 1..Len(s) /\ Len(s) = n + 1
    BY <1>1
  <2> QED
    BY <2>1
<1>3. n + 1 \in DOMAIN s /\ s[n + 1] = Merge!DoneOk
  BY <1>2
<1>4. \A i \in Iters : pos[i] = Len(Source[i]) /\ DOMAIN Source[i] = 1..pos[i]
  BY <1>3, ItemsAreNumbers DEF Streams
<1>5. \A i \in Iters : \A k \in DOMAIN Source[i] : Source[i][k] \in Merge!Items /\ Source[i][k] # Merge!DoneOk
  BY ItemsAreNumbers DEF Marks
<1>6. ASSUME NEW i \in Iters, NEW k \in DOMAIN Source[i]
      PROVE  \E a \in 1..n : o[a] = Source[i][k]
  <2>1. PICK a \in DOMAIN s : s[a] = Source[i][k]
    BY <1>4 DEF Streams
  <2>2. a # n + 1
    BY <1>3, <1>5, <2>1
  <2> QED
    BY <1>2, <2>1, <2>2
<1>7. Merge!ToSet(o) = Merge!Items
  <2>1. \A x \in Merge!Items : \E a \in 1..n : o[a] = x
    BY <1>6, ItemsAreNumbers, SMTT(30)
  <2> QED
    BY <1>2, <2>1 DEF Merge!ToSet
<1>8. ASSUME NEW i \in Iters, NEW k \in DOMAIN Source[i], NEW m \in DOMAIN Source[i],
             NEW a \in 1..n, NEW b \in 1..n, a < b, o[a] = Source[i][k], o[b] = Source[i][m]
      PROVE  k < m
  <2>1. a \in DOMAIN s /\ b \in DOMAIN s /\ s[a] = Source[i][k] /\ s[b] = Source[i][m]
    BY <1>2, <1>8
  <2> QED
    BY <1>8, <2>1 DEF Streams
<1>9. ASSUME NEW a \in 1..n, NEW b \in 1..n, o[a] = o[b]
      PROVE  a = b
  <2>1. PICK i \in Iters : \E k \in DOMAIN Source[i] : o[a] = Source[i][k]
    BY <1>2, ItemsAreNumbers
  <2>2. PICK k \in DOMAIN Source[i] : o[a] = Source[i][k]
    BY <2>1
  <2>3. ~(k < k)
    BY ItemsAreNumbers
  <2>4. ~(a < b) /\ ~(b < a)
    BY <1>8, <1>9, <2>2, <2>3, ZenonT(60)
  <2> QED
    BY <2>4
<1>10. ASSUME NEW i \in Iters, NEW k \in DOMAIN Source[i], NEW m \in DOMAIN Source[i], k < m
       PROVE  Merge!Precedes(o, Source[i][k], Source[i][m])
  <2>1. PICK a \in 1..n : o[a] = Source[i][k]
    BY <1>6
  <2>2. PICK b \in 1..n : o[b] = Source[i][m]
    BY <1>6
  <2>3. Source[i][k] # Source[i][m] /\ k \in Nat /\ m \in Nat
    BY <1>10, ItemsAreNumbers, SMTT(30)
  <2>4. a # b /\ ~(b < a)
    BY <1>8, <1>10, <2>1, <2>2, <2>3
  <2>5. a < b
    BY <2>4
  <2> QED
    BY <1>2, <2>1, <2>2, <2>5 DEF Merge!Precedes
<1>11. Merge!IsInjective(o)
  BY <1>2, <1>9 DEF Merge!IsInjective
<1> QED
  BY <1>7, <1>10, <1>11

\* When the generator ends, _Done() is the last of all that was put.
LEMMA DoneIsLast ==
    ASSUME Merge!ItemsDiffer, MergeInv, Merge!MeetDone, gen' = "ended"
    PROVE  /\ merged = <<>> /\ Len(batch) = 1
           /\ task \notin {"none", "gathers"} /\ \A i \in Iters : iter[i] = "ended"
           /\ \E s \in Seq(Stream) :
                 /\ Streams(s) /\ Len(s) = Len(out) + 1 /\ s[Len(s)] = Merge!DoneOk
                 /\ \A a \in DOMAIN out : s[a] = out[a]
<1>1. /\ gen = "works" /\ batch # <<>> /\ Head(batch) \notin Merge!Items
      /\ gen' = IF merged # <<>> THEN "asserted"
                ELSE IF Head(batch) = Merge!DoneError THEN "raised" ELSE "ended"
  BY DEF Merge!MeetDone
<1>2. /\ batch \in Seq(Stream) /\ merged \in Seq(Stream) /\ out \in Seq(Stream)
  BY DEF MergeInv, MergeTypes, Stream
<1>3. merged = <<>> /\ Head(batch) = Merge!DoneOk
  <2>1. merged = <<>> /\ Head(batch) # Merge!DoneError
    BY <1>1
  <2>2. Head(batch) \in Stream
    BY <1>1, <1>2
  <2> QED
    BY <1>1, <2>1, <2>2 DEF Stream, Marks
<1>4. PICK s : s = Flow
  OBVIOUS
<1>5. s = out \o batch /\ s \in Seq(Stream) /\ Streams(s)
  <2>1. out \o batch \in Seq(Stream)
    BY <1>2
  <2>2. (out \o batch) \o <<>> = out \o batch
    BY <2>1, ConcatEmptySeq
  <2> QED
    BY <1>1, <1>3, <1>4, <2>1, <2>2 DEF Flow, MergeInv
<1>6. PICK m \in Nat, n \in Nat : m = Len(out) /\ n = Len(batch)
  BY <1>2
<1>7. /\ Len(s) = m + n /\ n > 0 /\ DOMAIN out = 1..m /\ DOMAIN s = 1..m + n
      /\ \A a \in 1..m : s[a] = out[a]
      /\ s[m + 1] = batch[1]
  <2>1. /\ Len(out \o batch) = m + n
        /\ \A a \in 1..m + n : (out \o batch)[a] = IF a <= m THEN out[a] ELSE batch[a - m]
    BY <1>2, <1>6, ConcatProperties
  <2>2. n # 0
    BY <1>1, <1>2, <1>6
  <2>3. m + 1 \in 1..m + n /\ ~(m + 1 <= m) /\ m + 1 - m = 1
    BY <2>2
  <2>4. DOMAIN out = 1..m /\ DOMAIN s = 1..m + n
    BY <1>2, <1>5, <1>6, <2>1
  <2>5. \A a \in 1..m : a \in 1..m + n /\ a <= m
    OBVIOUS
  <2> QED
    BY <1>5, <2>1, <2>2, <2>3, <2>4, <2>5
<1>8. s[m + 1] = Merge!DoneOk
  BY <1>1, <1>2, <1>3, <1>7
<1>9. m + 1 = Len(s) /\ task \notin {"none", "gathers"} /\ \A i \in Iters : iter[i] = "ended"
  <2>1. m + 1 \in DOMAIN s
    BY <1>6, <1>7
  <2>2. \A a \in DOMAIN s : s[a] = Merge!DoneOk =>
           a = Len(s) /\ task \notin {"none", "gathers"} /\ \A i \in Iters : iter[i] = "ended"
    BY <1>5 DEF Streams
  <2> QED
    BY <1>8, <2>1, <2>2
<1>10. Len(s) = Len(out) + 1 /\ Len(batch) = 1 /\ s[Len(s)] = Merge!DoneOk
  BY <1>6, <1>7, <1>8, <1>9
<1>11. \A a \in DOMAIN out : s[a] = out[a]
  BY <1>7
<1> QED
  BY <1>3, <1>5, <1>9, <1>10, <1>11

\* The generator meets _Done: at the end a sorter sorts what it was given.
LEMMA MeetDoneKeeps ==
    ASSUME Merge!ItemsDiffer, MergeInv, Merge!MeetDone
    PROVE  MergeInv'
<1>1. /\ gen = "works" /\ batch # <<>> /\ batch' = Tail(batch) /\ Head(batch) \notin Merge!Items
      /\ gen' = IF merged # <<>> THEN "asserted"
                ELSE IF Head(batch) = Merge!DoneError THEN "raised" ELSE "ended"
      /\ got' = IF gen' = "ended" THEN Merge!AtEnd(out) ELSE got
      /\ UNCHANGED <<iter, pos, merged, task, out, view>>
  BY DEF Merge!MeetDone
<1>2. /\ out \in Seq(Merge!Items) /\ got \in Seq(Merge!Items) /\ batch \in Seq(Stream)
      /\ merged \in Seq(Stream) /\ out \in Seq(Stream) /\ Tail(batch) \in Seq(Stream)
  BY <1>1 DEF MergeInv, MergeTypes, Stream
<1>3. ASSUME gen' = "ended"
      PROVE  /\ Merge!ToSet(out) = Merge!Items /\ Merge!IsInjective(out)
             /\ \A i \in Iters : \A k, m \in DOMAIN Source[i] :
                   k < m => Merge!Precedes(out, Source[i][k], Source[i][m])
  <2>1. /\ \A i \in Iters : iter[i] = "ended"
        /\ \E s \in Seq(Stream) :
              /\ Streams(s) /\ Len(s) = Len(out) + 1 /\ s[Len(s)] = Merge!DoneOk
              /\ \A a \in DOMAIN out : s[a] = out[a]
    BY <1>3, DoneIsLast
  <2>2. \A i \in Iters : iter[i] = "ended" => pos[i] = Len(Source[i])
    BY DEF MergeInv
  <2> QED
    BY <1>2, <2>1, <2>2, StreamIsComplete
<1>4. view = "sorter" /\ gen' = "ended" =>
         Merge!ToSet(got') = Merge!Items /\ Merge!Increases(got') /\ got' \in Seq(Merge!Items)
  <2> SUFFICES ASSUME view = "sorter", gen' = "ended"
               PROVE  Merge!ToSet(got') = Merge!Items /\ Merge!Increases(got') /\ got' \in Seq(Merge!Items)
    OBVIOUS
  <2>1. got' = Merge!Sorted(out)
    BY <1>1 DEF Merge!AtEnd
  <2>2. Merge!Items \in SUBSET Int
    BY ItemsAreNumbers
  <2>3. Merge!ToSet(out) = Merge!Items /\ Merge!IsInjective(out)
    BY <1>3
  <2>4. /\ Merge!ToSet(Merge!Sorted(out)) = Merge!ToSet(out)
        /\ Merge!Increases(Merge!Sorted(out))
        /\ Merge!Sorted(out) \in Seq(Merge!Items)
    BY <1>2, <2>2, <2>3, SortedItems
  <2> QED
    BY <2>1, <2>3, <2>4
<1>5. ~(view = "sorter" /\ gen' = "ended") => got' = got
  BY <1>1 DEF Merge!AtEnd
<1>6. Viewed
  BY <1>1 DEF MergeInv
<1>7. Merge!EndIsComplete'
  <2> SUFFICES ASSUME gen' = "ended" PROVE Merge!EndIsComplete'
    BY DEF Merge!EndIsComplete
  <2>1. /\ view' = "iterator" => got' = out'
        /\ view' = "filter" =>
              /\ Merge!ToSet(got') = Merge!Items \cap Wanted
              /\ \A x, y \in Merge!Items : Merge!Precedes(got', x, y) => Merge!Precedes(out', x, y)
        /\ view' = "sorter" => Merge!ToSet(got') = Merge!Items /\ Merge!Increases(got')
    BY <1>1, <1>3, <1>4, <1>5, <1>6 DEF Viewed
  <2>2. /\ Merge!ToSet(out') = Merge!Items /\ Merge!IsInjective(out')
        /\ \A i \in Iters : \A k, m \in DOMAIN Source[i] :
              k < m => Merge!Precedes(out', Source[i][k], Source[i][m])
    BY <1>1, <1>3
  <2> QED
    BY <2>1, <2>2 DEF Merge!EndIsComplete
<1>8. MergeTypes'
  BY <1>1, <1>2, <1>4, <1>5 DEF MergeInv, MergeTypes
<1> QED
  BY <1>1, <1>7, <1>8 DEF MergeInv

\* Every step keeps MergeInv.
LEMMA MergeNextKeeps ==
    ASSUME Merge!ItemsDiffer, MergeInv, [Merge!Next]_(Merge!vars)
    PROVE  MergeInv'
<1>1. CASE UNCHANGED Merge!vars
  <2>1. UNCHANGED <<iter, pos, merged, task, gen, batch, out, view, got>>
    BY <1>1 DEF Merge!vars
  <2>2. Streams(Flow) => Streams(Flow)'
    BY <2>1 DEF Streams, Flow
  <2> QED
    BY <2>1, <2>2 DEF MergeInv, MergeTypes, Viewed, Merge!EndIsComplete
<1> QED
  BY <1>1, ExhaustKeeps, PopulatedKeeps, TasksKeep, TakesKeep, YieldKeeps, MeetDoneKeeps
  DEF Merge!Next, Merge!IterStep, Merge!Pull

-----------------------------------------------------------------------------
\* Who reaches the end of a merged iterator has got every item.
THEOREM MergedEndsAreComplete ==
    ASSUME Merge!ItemsDiffer
    PROVE  Merge!Spec => []Merge!EndIsComplete
<1>1. MergeInv => Merge!EndIsComplete
  BY DEF MergeInv
<1> QED
  BY <1>1, InitMerge, MergeNextKeeps, PTL DEF Merge!Spec

-----------------------------------------------------------------------------
\* The count of the merging queue: what is in it and what was taken from it; nothing
\* is put when the generator has ended.
MergeCount ==
    /\ open = Len(merged) + Len(batch)
    /\ task \in {"none", "gathers", "joins", "done", "cancelled"}
    /\ gen \in {"new", "waits", "works", "ended", "raised", "asserted", "closed"}
    /\ view \in {"iterator", "filter", "sorter", "asyncSorter"}
    /\ gen = "ended" => /\ merged = <<>> /\ batch = <<>> /\ task \notin {"none", "gathers"}
                        /\ \A i \in Iters : iter[i] = "ended"

\* What is put is counted, and nobody puts when the generator has ended.
LEMMA PutsCount ==
    ASSUME Merge!ItemsDiffer, MergeInv, MergeCount,
           Merge!Populated \/ \E i \in Iters : Merge!IterStep(i)
    PROVE  MergeCount'
<1>1. /\ UNCHANGED <<batch, gen, view>>
      /\ task' \in {"none", "gathers", "joins", "done", "cancelled"}
  BY DEF Merge!Populated, Merge!IterStep, Merge!Exhaust, Merge!IterEnds, Merge!consumer, MergeCount
<1>2. gen # "ended"
  BY DEF Merge!Populated, Merge!IterStep, Merge!Exhaust, Merge!IterEnds, Merge!Running, MergeCount
<1>3. \/ UNCHANGED <<merged, open>>
      \/ open' = open + 1 /\ \E x \in Stream : merged' = Append(merged, x)
  <2>1. ASSUME NEW i \in Iters, Merge!Exhaust(i)
        PROVE  open' = open + 1 /\ \E x \in Stream : merged' = Append(merged, x)
    <3>1. pos[i] + 1 \in DOMAIN Source[i]
      BY <2>1, ItemsAreNumbers DEF Merge!Exhaust, MergeInv, MergeTypes
    <3>2. Source[i][pos[i] + 1] \in Merge!Items
      BY <3>1, ItemsAreNumbers
    <3> QED
      BY <2>1, <3>2 DEF Merge!Exhaust, Stream
  <2>2. CASE Merge!Populated
    BY <2>2 DEF Merge!Populated, Stream, Marks
  <2> QED
    BY <2>1, <2>2 DEF Merge!IterStep, Merge!IterEnds
<1>4. open' = Len(merged') + Len(batch)
  <2>1. ASSUME NEW x \in Stream
        PROVE  Len(Append(merged, x)) = Len(merged) + 1
    BY DEF MergeInv, MergeTypes
  <2>2. Len(merged) \in Nat /\ Len(batch) \in Nat
    BY DEF MergeInv, MergeTypes
  <2> QED
    BY <1>3, <2>1, <2>2 DEF MergeCount
<1> QED
  BY <1>1, <1>2, <1>4 DEF MergeCount

\* Each item that is yielded, and _Done, is marked as done.
LEMMA TaskDoneCounts ==
    ASSUME Merge!ItemsDiffer, MergeInv, MergeCount, Merge!Yield \/ Merge!MeetDone
    PROVE  MergeCount'
<1>1. /\ batch # <<>> /\ batch' = Tail(batch) /\ open' = open - 1 /\ gen = "works"
      /\ UNCHANGED <<iter, merged, task, view>>
  BY DEF Merge!Yield, Merge!MeetDone, Merge!TaskDone
<1>2. Len(batch) \in Nat /\ Len(merged) \in Nat /\ Len(Tail(batch)) = Len(batch) - 1
  BY <1>1 DEF MergeInv, MergeTypes
<1>3. /\ gen' \in {"new", "waits", "works", "ended", "raised", "asserted", "closed"}
      /\ gen' = "ended" => Merge!MeetDone
  BY <1>1 DEF Merge!Yield, Merge!MeetDone
<1>4. ASSUME gen' = "ended"
      PROVE  /\ merged = <<>> /\ batch' = <<>> /\ task \notin {"none", "gathers"}
             /\ \A i \in Iters : iter[i] = "ended"
  <2>1. Len(batch) = 1
    BY <1>3, <1>4, DoneIsLast
  <2>2. Tail(batch) = <<>>
    BY <1>1, <1>2, <2>1 DEF MergeInv, MergeTypes
  <2> QED
    BY <1>1, <1>3, <1>4, <2>2, DoneIsLast
<1> QED
  BY <1>1, <1>2, <1>3, <1>4 DEF MergeCount

\* All other steps leave the count alone.
LEMMA MergeCountKeeps ==
    ASSUME Merge!ItemsDiffer, MergeInv, MergeCount, [Merge!Next]_(Merge!vars)
    PROVE  MergeCount'
<1>1. CASE UNCHANGED Merge!vars
  BY <1>1 DEF Merge!vars, MergeCount
<1>2. CASE Merge!Start \/ Merge!Joined
  BY <1>2 DEF Merge!Start, Merge!Joined, Merge!consumer, MergeCount
<1>3. CASE Merge!GetAll
  <2>1. batch = <<>> /\ batch' = merged /\ merged' = <<>> /\ gen' = "works"
        /\ UNCHANGED <<open, task, view>>
    BY <1>3 DEF Merge!GetAll, MergeInv
  <2>2. Len(merged) \in Nat
    BY DEF MergeInv, MergeTypes
  <2> QED
    BY <2>1, <2>2 DEF MergeCount
<1>4. CASE Merge!LookAgain \/ Merge!Close
  BY <1>4 DEF Merge!LookAgain, Merge!Close, MergeCount
<1> QED
  BY <1>1, <1>2, <1>3, <1>4, PutsCount, TaskDoneCounts DEF Merge!Next, Merge!Pull

\* The merging queue counts what nobody has yielded yet, for any iterators and items:
\* so who has reached the end leaves nothing that join() would wait for.
THEOREM MergingCountsItsItems ==
    ASSUME Merge!ItemsDiffer
    PROVE  Merge!Spec => [](Merge!TypeOK /\ Merge!CountIsExact)
<1>1. Merge!Init => MergeInv /\ MergeCount
  BY InitMerge DEF Merge!Init, MergeCount
<1>2. MergeInv /\ MergeCount /\ [Merge!Next]_(Merge!vars) => (MergeInv /\ MergeCount)'
  BY MergeNextKeeps, MergeCountKeeps
<1>3. MergeInv /\ MergeCount => Merge!TypeOK /\ Merge!CountIsExact
  <2> SUFFICES ASSUME MergeInv, MergeCount PROVE Merge!TypeOK /\ Merge!CountIsExact
    OBVIOUS
  <2>1. Len(merged) \in Nat /\ Len(batch) \in Nat
    BY DEF MergeInv, MergeTypes
  <2>2. Merge!CountIsExact
    BY <2>1 DEF MergeCount, Merge!CountIsExact
  <2>3. open \in Nat
    BY <2>1 DEF MergeCount
  <2>4. Stream = Merge!Items \cup {Merge!DoneOk, Merge!DoneError}
    BY DEF Stream, Marks
  <2> QED
    BY <2>2, <2>3, <2>4 DEF MergeInv, MergeTypes, MergeCount, Merge!TypeOK
<1> QED
  BY <1>1, <1>2, <1>3, PTL DEF Merge!Spec
=============================================================================
