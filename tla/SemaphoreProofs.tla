--------------------------- MODULE SemaphoreProofs ---------------------------
(***************************************************************************)
(* Semaphore keeps its permits, hands them out in order, loses no wake-up  *)
(* and implements the abstract pool, for any number of tasks and permits   *)
(* and whichever tasks are spawned.                                        *)
(***************************************************************************)
EXTENDS Semaphore, FiniteSetTheorems, SequenceTheorems, TLAPS

\* Where a task is whose future is in the deque, and where it has a permit.
InDeque == {"waiting", "woken", "cancelled", "wokenCancelled"}
Owning == {"granted", "woken", "wokenCancelled", "holding"}

QueuedTasks == {t \in Tasks : pc[t] \in InDeque}
Elems(q) == {q[i] : i \in DOMAIN q}

\* The order q is one in which permits were handed out, without repetition.
Ordered(q) ==
    /\ q \in Seq(Tasks)
    /\ \A i, j \in DOMAIN q : q[i] = q[j] => i = j
    /\ \A i, j \in DOMAIN q :
         (i < j /\ pc[q[j]] \in {"woken", "wokenCancelled"}) => pc[q[i]] # "waiting"

\* Only a spawned task is between acquire() and the start of its coroutine.
OnlySpawned == \A t \in Tasks : pc[t] \in {"granted", "blocked"} => t \in spawned

\* What every step keeps.  FirstComeFirstServed and NoLostWakeup need to know
\* that the deque has every waiter (QueuedOnce), NoLostWakeup and the equality
\* of PermitsConserved that nobody starts late unless spawned (OnlySpawned).
IInv ==
    /\ TypeOK
    /\ OnlySpawned
    /\ QueuedOnce
    /\ FirstComeFirstServed
    /\ NoLostWakeup
    /\ PermitsConserved

-----------------------------------------------------------------------------
LEMMA FiniteTasks ==
    ASSUME NEW S \in SUBSET Tasks
    PROVE  IsFiniteSet(S) /\ Cardinality(S) \in Nat
BY TasksAssumption, FS_Subset, FS_CardinalityType

\* One element more or less.
LEMMA OneMore ==
    ASSUME NEW S \in SUBSET Tasks, NEW t \in Tasks
    PROVE  /\ t \notin S => Cardinality(S \cup {t}) = Cardinality(S) + 1
           /\ t \in S => Cardinality(S \ {t}) = Cardinality(S) - 1
           /\ t \in S => Cardinality(S) >= 1
<1>1. IsFiniteSet(S) /\ Cardinality(S) \in Nat
  BY FiniteTasks
<1>2. IsFiniteSet(S \ {t}) /\ Cardinality(S \ {t}) \in Nat
  BY FiniteTasks
<1>3. t \in S => Cardinality(S \ {t}) = Cardinality(S) - 1
  BY <1>1, FS_RemoveElement
<1> QED
  BY <1>1, <1>2, <1>3, FS_AddElement, SMTT(30)

\* The deque without one of its tasks has the others, in the same order.
LEMMA WithoutOrdered ==
    ASSUME IInv, NEW t \in Tasks, pc[t] \in InDeque
    PROVE  /\ Ordered(Without(t))
           /\ Elems(Without(t)) = QueuedTasks \ {t}
<1> DEFINE s == waiters
           p == Position(t)
           r == Without(t)
           e(j) == IF j < p THEN j ELSE j + 1
<1>1. /\ s \in Seq(Tasks)
      /\ \A i, j \in DOMAIN s : s[i] = s[j] => i = j
      /\ Elems(s) = QueuedTasks
  BY DEF IInv, TypeOK, QueuedOnce, QueuedTasks, InDeque, Elems
<1>2. \E i \in DOMAIN s : s[i] = t
  BY <1>1 DEF Elems, QueuedTasks
<1>3. p \in DOMAIN s /\ s[p] = t
  BY <1>2 DEF Position
<1>4. /\ r \in Seq(Tasks) /\ DOMAIN r = 1..(Len(s) - 1)
      /\ \A j \in DOMAIN r : r[j] = IF j < p THEN s[j] ELSE s[j + 1]
  <2>1. Len(s) - 1 \in Nat
    BY <1>1, <1>3
  <2>2. r = [j \in 1..(Len(s) - 1) |-> IF j < p THEN s[j] ELSE s[j + 1]]
    BY DEF Without
  <2>3. \A j \in 1..(Len(s) - 1) : (IF j < p THEN s[j] ELSE s[j + 1]) \in Tasks
    BY <1>1, <1>3
  <2> HIDE DEF s, p, r
  <2> QED
    BY <2>1, <2>2, <2>3
<1>5. Len(s) \in Nat /\ DOMAIN s = 1..Len(s) /\ p \in 1..Len(s)
  BY <1>1, <1>3
<1> HIDE DEF s, p, r
<1>6. ASSUME NEW j \in DOMAIN r
      PROVE  e(j) \in DOMAIN s /\ e(j) # p /\ r[j] = s[e(j)]
  BY <1>4, <1>5
<1>7. ASSUME NEW i \in DOMAIN r, NEW j \in DOMAIN r
      PROVE  /\ i < j => e(i) < e(j)
             /\ e(i) = e(j) => i = j
  BY <1>4, <1>5
<1>8. ASSUME NEW i \in DOMAIN s, i # p
      PROVE  \E j \in DOMAIN r : r[j] = s[i]
  <2>1. CASE i < p
    BY <1>4, <1>5, <2>1
  <2>2. CASE ~(i < p)
    <3>1. i - 1 \in DOMAIN r /\ ~(i - 1 < p) /\ (i - 1) + 1 = i
      BY <1>4, <1>5, <1>8, <2>2
    <3> QED
      BY <1>4, <3>1
  <2> QED
    BY <2>1, <2>2
<1> HIDE DEF e
<1>9. ASSUME NEW i \in DOMAIN r, NEW j \in DOMAIN r, r[i] = r[j]
      PROVE  i = j
  BY <1>1, <1>6, <1>7, <1>9
<1>10. ASSUME NEW i \in DOMAIN r, NEW j \in DOMAIN r, i < j,
              pc[r[j]] \in {"woken", "wokenCancelled"}
       PROVE  pc[r[i]] # "waiting"
  <2>1. e(i) \in DOMAIN s /\ e(j) \in DOMAIN s /\ e(i) < e(j)
    BY <1>6, <1>7, <1>10
  <2>2. r[i] = s[e(i)] /\ r[j] = s[e(j)]
    BY <1>6
  <2> QED
    BY <1>10, <2>1, <2>2 DEF IInv, FirstComeFirstServed, s
<1>11. Ordered(r)
  BY <1>4, <1>9, <1>10 DEF Ordered
<1>12. Elems(r) = Elems(s) \ {t}
  <2>1. ASSUME NEW j \in DOMAIN r PROVE r[j] \in Elems(s) \ {t}
    BY <1>1, <1>3, <1>6 DEF Elems
  <2>2. ASSUME NEW x \in Elems(s) \ {t} PROVE x \in Elems(r)
    BY <1>3, <1>8 DEF Elems
  <2> QED
    BY <2>1, <2>2 DEF Elems
<1> QED
  BY <1>1, <1>11, <1>12 DEF r

\* The deque as it is.
LEMMA WaitersOrdered ==
    ASSUME IInv
    PROVE  Ordered(waiters) /\ Elems(waiters) = QueuedTasks
BY DEF IInv, TypeOK, QueuedOnce, FirstComeFirstServed, Ordered, Elems,
       QueuedTasks, InDeque

\* The conjuncts of IInv about the deque after a step, from an ordered deque.
LEMMA OrderedDeque ==
    ASSUME Ordered(waiters)', Elems(waiters)' = QueuedTasks'
    PROVE  QueuedOnce' /\ FirstComeFirstServed'
BY DEF Ordered, Elems, QueuedTasks, InDeque, QueuedOnce, FirstComeFirstServed

-----------------------------------------------------------------------------
Places == {"idle", "granted", "blocked", "waiting", "woken", "cancelled",
           "wokenCancelled", "holding"}

\* _wake_up_next of a task t that leaves the deque or a permit, goes to its
\* state "to", and has v permits in its hands, q being the deque without it.
LEMMA WakeUpNextKeeps ==
    ASSUME IInv, NEW t \in Tasks, NEW q, NEW v \in Nat \ {0}, NEW to \in {"idle", "holding"},
           pc[t] # "waiting", Ordered(q), Elems(q) = QueuedTasks \ {t},
           waiters' = q, spawned' = spawned, WakeUpNext(q, v, t, to)
    PROVE  /\ TypeOK' /\ OnlySpawned' /\ QueuedOnce' /\ FirstComeFirstServed' /\ NoLostWakeup'
           /\ value' + Cardinality(Owners') =
                v + Cardinality(Owners \ {t}) + (IF to = "holding" THEN 1 ELSE 0)
<1>1. pc \in [Tasks -> Places] /\ spawned \in SUBSET Tasks
  BY DEF IInv, TypeOK, Places
<1>2. /\ q \in Seq(Tasks)
      /\ \A i \in DOMAIN q : q[i] \in Tasks /\ pc[q[i]] \in InDeque /\ q[i] # t
      /\ \A u \in Tasks \ {t} : pc[u] \in InDeque => \E i \in DOMAIN q : q[i] = u
  BY DEF Ordered, Elems, QueuedTasks
<1> DEFINE base == (Owners \ {t}) \cup (IF to = "holding" THEN {t} ELSE {})
<1>3. /\ Owners \ {t} \in SUBSET Tasks /\ base \in SUBSET Tasks
      /\ Cardinality(base) =
           Cardinality(Owners \ {t}) + (IF to = "holding" THEN 1 ELSE 0)
  <2>1. Owners \ {t} \in SUBSET Tasks /\ t \notin Owners \ {t}
    BY DEF Owners
  <2>2. Cardinality(Owners \ {t}) \in Nat
    BY <2>1, FiniteTasks
  <2>3. CASE to = "holding"
    BY <2>1, <2>3, OneMore
  <2>4. CASE to = "idle"
    BY <2>1, <2>2, <2>4
  <2> QED
    BY <2>1, <2>3, <2>4
<1> HIDE DEF base
<1>4. Cardinality(base) \in Nat
  BY <1>3, FiniteTasks
<1>5. v + Cardinality(base) =
        v + Cardinality(Owners \ {t}) + (IF to = "holding" THEN 1 ELSE 0)
  <2>1. Cardinality(Owners \ {t}) \in Nat
    BY <1>3, FiniteTasks
  <2> QED
    BY <1>3, <2>1
<1>6. CASE \E i \in DOMAIN q :
              /\ pc[q[i]] = "waiting"
              /\ \A j \in 1..(i - 1) : pc[q[j]] # "waiting"
              /\ value' = v - 1
              /\ pc' = [pc EXCEPT ![q[i]] = "woken", ![t] = to]
  <2>1. PICK i \in DOMAIN q :
          /\ pc[q[i]] = "waiting"
          /\ \A j \in 1..(i - 1) : pc[q[j]] # "waiting"
          /\ value' = v - 1
          /\ pc' = [pc EXCEPT ![q[i]] = "woken", ![t] = to]
    BY <1>6
  <2>2. /\ q[i] \in Tasks /\ q[i] # t
        /\ pc' = [u \in Tasks |-> IF u = t THEN to ELSE IF u = q[i] THEN "woken" ELSE pc[u]]
    BY <1>1, <1>2, <2>1
  <2>3. TypeOK'
    BY <1>1, <1>2, <2>1, <2>2, SMTT(30) DEF TypeOK, Places
  <2>4. OnlySpawned'
    BY <2>2 DEF IInv, OnlySpawned
  <2>5. Elems(waiters)' = QueuedTasks'
    BY <1>2, <2>1, <2>2, SMTT(30) DEF Elems, QueuedTasks, InDeque
  <2>6. Ordered(waiters)'
    <3>1. ASSUME NEW j \in DOMAIN q, NEW k \in DOMAIN q, j < k,
                 pc'[q[k]] \in {"woken", "wokenCancelled"}
          PROVE  pc'[q[j]] # "waiting"
      <4>1. CASE k = i
        <5>1. j \in 1..(i - 1)
          BY <1>2, <3>1, <4>1
        <5> QED
          BY <1>2, <2>1, <2>2, <5>1
      <4>2. CASE k # i
        <5>1. q[k] # q[i] /\ q[k] # t
          BY <1>2, <4>2 DEF Ordered
        <5>2. pc[q[k]] \in {"woken", "wokenCancelled"}
          BY <1>2, <2>2, <3>1, <5>1
        <5>3. pc[q[j]] # "waiting"
          BY <3>1, <5>2 DEF Ordered
        <5> QED
          BY <1>2, <2>2, <5>3
      <4> QED
        BY <4>1, <4>2
    <3> QED
      BY <3>1 DEF Ordered
  <2>7. NoLostWakeup'
    BY <2>2 DEF NoLostWakeup
  <2>8. Owners' = base \cup {q[i]} /\ q[i] \notin base
    BY <2>1, <2>2 DEF Owners, base
  <2>9. Cardinality(Owners') = Cardinality(base) + 1
    BY <1>3, <2>2, <2>8, OneMore
  <2>10. QueuedOnce' /\ FirstComeFirstServed'
    BY <2>5, <2>6, OrderedDeque
  <2>11. value' + Cardinality(Owners') = v + Cardinality(base)
    BY <1>4, <2>1, <2>9
  <2> QED
    BY <1>3, <2>3, <2>4, <2>7, <2>10, <2>11, <1>5
<1>7. CASE /\ \A i \in DOMAIN q : pc[q[i]] # "waiting"
           /\ value' = v
           /\ pc' = [pc EXCEPT ![t] = to]
  <2>1. pc' = [u \in Tasks |-> IF u = t THEN to ELSE pc[u]]
    BY <1>1, <1>7
  <2>2. TypeOK'
    BY <1>1, <1>2, <1>7, <2>1 DEF TypeOK, Places
  <2>3. OnlySpawned'
    BY <2>1 DEF IInv, OnlySpawned
  <2>4. Elems(waiters)' = QueuedTasks'
    BY <1>2, <2>1 DEF Elems, QueuedTasks, InDeque
  <2>5. Ordered(waiters)'
    BY <1>2, <2>1 DEF Ordered
  <2>6. Waiting' = {}
    BY <1>2, <1>7, <2>1 DEF Waiting, InDeque
  <2>7. NoLostWakeup'
    BY <2>6 DEF NoLostWakeup
  <2>8. Owners' = base
    BY <2>1 DEF Owners, base
  <2>9. QueuedOnce' /\ FirstComeFirstServed'
    BY <2>4, <2>5, OrderedDeque
  <2>10. value' + Cardinality(Owners') = v + Cardinality(base)
    BY <1>7, <2>8
  <2> QED
    BY <1>3, <2>2, <2>3, <2>7, <2>9, <2>10, <1>5
<1> QED
  BY <1>6, <1>7 DEF WakeUpNext

-----------------------------------------------------------------------------
LEMMA InitIInv == Init => IInv
<1> SUFFICES ASSUME Init PROVE IInv
  OBVIOUS
<1>1. TypeOK /\ OnlySpawned
  BY CapacityAssumption, TasksAssumption DEF Init, TypeOK, OnlySpawned
<1>2. QueuedOnce /\ FirstComeFirstServed /\ NoLostWakeup
  <2>1. waiters = <<>> /\ DOMAIN waiters = {}
    BY DEF Init
  <2>2. \A t \in Tasks : pc[t] = "idle"
    BY DEF Init
  <2> QED
    BY <2>1, <2>2 DEF QueuedOnce, FirstComeFirstServed, NoLostWakeup, Waiting
<1>3. PermitsConserved
  <2>1. Owners = {}
    BY DEF Init, Owners
  <2> QED
    BY <2>1, FS_EmptySet, CapacityAssumption DEF Init, PermitsConserved
<1> QED
  BY <1>1, <1>2, <1>3 DEF IInv

\* Nobody waits while the semaphore is not locked.
LEMMA NotLocked ==
    ASSUME IInv, ~Locked
    PROVE  /\ value \in Nat \ {0}
           /\ \A t \in Tasks : pc[t] \notin {"waiting", "woken", "wokenCancelled"}
<1>1. value \in Nat \ {0}
  BY DEF IInv, TypeOK, Locked
<1>2. \A i \in DOMAIN waiters : pc[waiters[i]] = "cancelled"
  BY DEF Locked
<1>3. Elems(waiters) = QueuedTasks
  BY WaitersOrdered
<1> QED
  BY <1>1, <1>2, <1>3 DEF Elems, QueuedTasks, InDeque

LEMMA AcquireFreeKeeps ==
    ASSUME IInv, NEW t \in Tasks, AcquireFree(t)
    PROVE  IInv'
<1> DEFINE to == IF t \in spawned THEN "granted" ELSE "holding"
<1>1. /\ pc \in [Tasks -> Places] /\ pc[t] = "idle"
      /\ pc' = [u \in Tasks |-> IF u = t THEN to ELSE pc[u]]
      /\ spawned' = spawned /\ waiters' = waiters /\ value' = value - 1
  BY DEF IInv, TypeOK, Places, AcquireFree
<1>2. /\ value \in Nat \ {0}
      /\ \A u \in Tasks : pc[u] \notin {"waiting", "woken", "wokenCancelled"}
  BY NotLocked DEF AcquireFree
<1>3. TypeOK'
  BY <1>1, <1>2 DEF IInv, TypeOK, Places
<1>4. OnlySpawned'
  BY <1>1 DEF IInv, OnlySpawned
<1>5. QueuedOnce' /\ FirstComeFirstServed'
  <2>1. Ordered(waiters)'
    BY <1>1, WaitersOrdered DEF Ordered
  <2>2. Elems(waiters)' = QueuedTasks'
    BY <1>1, WaitersOrdered DEF Elems, QueuedTasks, InDeque
  <2> QED
    BY <2>1, <2>2, OrderedDeque
<1>6. NoLostWakeup'
  BY <1>1, <1>2 DEF NoLostWakeup, Waiting
<1>7. PermitsConserved'
  <2>1. Owners \in SUBSET Tasks /\ t \notin Owners /\ Owners' = Owners \cup {t}
    BY <1>1 DEF Owners
  <2>2. Cardinality(Owners') = Cardinality(Owners) + 1 /\ Cardinality(Owners) \in Nat
    BY <2>1, OneMore, FiniteTasks
  <2>3. value' + Cardinality(Owners') = value + Cardinality(Owners)
    BY <1>1, <1>2, <2>2
  <2> QED
    BY <1>1, <2>3 DEF IInv, PermitsConserved
<1> QED
  BY <1>3, <1>4, <1>5, <1>6, <1>7 DEF IInv

\* A task queues its future, a permit being free only if somebody was woken, or
\* if somebody is spawned.
LEMMA EnqueueKeeps ==
    ASSUME IInv, NEW t \in Tasks, Enqueue(t), spawned' = spawned,
           pc[t] \in {"idle", "blocked"},
           \/ spawned # {}
           \/ value = 0
           \/ \E u \in Tasks : pc[u] \in {"woken", "wokenCancelled"}
    PROVE  IInv'
<1>1. /\ pc \in [Tasks -> Places] /\ value' = value
      /\ pc' = [u \in Tasks |-> IF u = t THEN "waiting" ELSE pc[u]]
  BY DEF IInv, TypeOK, Places, Enqueue
<1>2. /\ waiters \in Seq(Tasks) /\ Len(waiters) \in Nat
      /\ DOMAIN waiters = 1..Len(waiters)
      /\ Elems(waiters) = QueuedTasks /\ Ordered(waiters)
  BY WaitersOrdered DEF Ordered
<1>3. /\ waiters' \in Seq(Tasks)
      /\ DOMAIN waiters' = 1..(Len(waiters) + 1)
      /\ waiters'[Len(waiters) + 1] = t
      /\ \A i \in DOMAIN waiters : waiters'[i] = waiters[i]
  BY <1>2, AppendProperties DEF Enqueue
<1>4. ASSUME NEW i \in DOMAIN waiters
      PROVE  waiters[i] \in Tasks /\ waiters[i] # t
  BY <1>2 DEF Elems, QueuedTasks, InDeque
<1>5. TypeOK'
  BY <1>1, <1>3 DEF IInv, TypeOK, Places
<1>6. OnlySpawned'
  BY <1>1 DEF IInv, OnlySpawned
<1>7. Ordered(waiters)'
  <2>1. ASSUME NEW i \in DOMAIN waiters', NEW j \in DOMAIN waiters', waiters'[i] = waiters'[j]
        PROVE  i = j
    BY <1>2, <1>3, <1>4, <2>1 DEF Ordered
  <2>2. ASSUME NEW i \in DOMAIN waiters', NEW j \in DOMAIN waiters', i < j,
               pc'[waiters'[j]] \in {"woken", "wokenCancelled"}
        PROVE  pc'[waiters'[i]] # "waiting"
    <3>1. j # Len(waiters) + 1
      BY <1>1, <1>3, <2>2
    <3>2. i \in DOMAIN waiters /\ j \in DOMAIN waiters
      BY <1>2, <1>3, <2>2, <3>1
    <3> QED
      BY <1>1, <1>2, <1>3, <1>4, <2>2, <3>2 DEF Ordered
  <2> QED
    BY <1>3, <2>1, <2>2 DEF Ordered
<1>8. Elems(waiters)' = QueuedTasks'
  <2>1. Elems(waiters)' = Elems(waiters) \cup {t}
    <3>1. ASSUME NEW i \in DOMAIN waiters' PROVE waiters'[i] \in Elems(waiters) \cup {t}
      BY <1>2, <1>3 DEF Elems
    <3>2. ASSUME NEW x \in Elems(waiters) \cup {t}
          PROVE  \E i \in DOMAIN waiters' : waiters'[i] = x
      BY <1>2, <1>3 DEF Elems
    <3> QED
      BY <3>1, <3>2 DEF Elems
  <2>2. QueuedTasks' = QueuedTasks \cup {t}
    BY <1>1 DEF QueuedTasks, InDeque
  <2> QED
    BY <1>2, <2>1, <2>2
<1>9. NoLostWakeup'
  BY <1>1 DEF NoLostWakeup
<1>10. PermitsConserved'
  <2>1. Owners' = Owners
    BY <1>1 DEF Owners
  <2> QED
    BY <1>1, <2>1 DEF IInv, PermitsConserved
<1> QED
  BY <1>5, <1>6, <1>7, <1>8, <1>9, <1>10, OrderedDeque DEF IInv

\* The task moves and neither the deque nor the value changes, nor whether it
\* is queued, waits or was woken.
LEMMA MoveKeeps ==
    ASSUME IInv, NEW t \in Tasks, NEW to \in Places,
           pc' = [pc EXCEPT ![t] = to], UNCHANGED <<spawned, value, waiters>>,
           pc[t] \in InDeque <=> to \in InDeque,
           to # "waiting", to \notin {"granted", "blocked"},
           pc[t] \in {"woken", "wokenCancelled"} <=> to \in {"woken", "wokenCancelled"},
           \/ pc[t] \in Owning <=> to \in Owning
           \/ pc[t] \in Owning /\ to \notin Owning /\ t \in spawned
    PROVE  IInv'
<1>1. /\ pc \in [Tasks -> Places]
      /\ pc' = [u \in Tasks |-> IF u = t THEN to ELSE pc[u]]
      /\ spawned' = spawned /\ value' = value /\ waiters' = waiters
  BY DEF IInv, TypeOK, Places
<1>2. TypeOK' /\ OnlySpawned'
  BY <1>1 DEF IInv, TypeOK, OnlySpawned, Places
<1>3. QueuedOnce' /\ FirstComeFirstServed'
  <2>1. Ordered(waiters)'
    BY <1>1, WaitersOrdered DEF Ordered
  <2>2. Elems(waiters)' = QueuedTasks'
    BY <1>1, WaitersOrdered DEF Elems, QueuedTasks
  <2> QED
    BY <2>1, <2>2, OrderedDeque
<1>4. NoLostWakeup'
  BY <1>1 DEF IInv, NoLostWakeup, Waiting
<1>5. PermitsConserved'
  <2>1. CASE pc[t] \in Owning <=> to \in Owning
    <3>1. Owners' = Owners
      BY <1>1, <2>1 DEF Owners, Owning
    <3> QED
      BY <1>1, <3>1 DEF IInv, PermitsConserved
  <2>2. CASE pc[t] \in Owning /\ to \notin Owning /\ t \in spawned
    <3>1. Owners \in SUBSET Tasks /\ t \in Owners /\ Owners' = Owners \ {t}
      BY <1>1, <2>2 DEF Owners, Owning
    <3>2. Cardinality(Owners') = Cardinality(Owners) - 1 /\ Cardinality(Owners) \in Nat
      BY <3>1, OneMore, FiniteTasks
    <3>3. value' + Cardinality(Owners') <= Capacity
      BY <1>1, <3>2, CapacityAssumption DEF IInv, TypeOK, PermitsConserved
    <3> QED
      BY <1>1, <2>2, <3>3 DEF PermitsConserved
  <2> QED
    BY <2>1, <2>2
<1> QED
  BY <1>2, <1>3, <1>4, <1>5 DEF IInv

LEMMA AcquireLockedKeeps ==
    ASSUME IInv, NEW t \in Tasks, AcquireLocked(t)
    PROVE  IInv'
<1>1. pc[t] = "idle" /\ spawned' = spawned
  BY DEF AcquireLocked
<1>2. CASE t \notin spawned /\ Enqueue(t)
  <2>1. \/ value = 0
        \/ \E u \in Waiting : TRUE
        \/ \E u \in Tasks : pc[u] \in {"woken", "wokenCancelled"}
    <3>1. Elems(waiters) = QueuedTasks
      BY WaitersOrdered
    <3>2. \A i \in DOMAIN waiters : waiters[i] \in QueuedTasks
      BY <3>1 DEF Elems
    <3> QED
      BY <3>2 DEF AcquireLocked, Locked, QueuedTasks, InDeque, Waiting
  <2>2. \/ spawned # {}
        \/ value = 0
        \/ \E u \in Tasks : pc[u] \in {"woken", "wokenCancelled"}
    BY <2>1 DEF IInv, TypeOK, NoLostWakeup
  <2> QED
    BY <1>1, <1>2, <2>2, EnqueueKeeps
<1>3. CASE /\ t \in spawned
           /\ pc' = [pc EXCEPT ![t] = "blocked"]
           /\ UNCHANGED <<value, waiters>>
  <2>1. /\ pc \in [Tasks -> Places]
        /\ pc' = [u \in Tasks |-> IF u = t THEN "blocked" ELSE pc[u]]
    BY <1>3 DEF IInv, TypeOK, Places
  <2>2. TypeOK' /\ OnlySpawned'
    BY <1>1, <1>3, <2>1 DEF IInv, TypeOK, OnlySpawned, Places
  <2>3. QueuedOnce' /\ FirstComeFirstServed'
    <3>1. Ordered(waiters)'
      BY <1>1, <1>3, <2>1, WaitersOrdered DEF Ordered
    <3>2. Elems(waiters)' = QueuedTasks'
      BY <1>1, <1>3, <2>1, WaitersOrdered DEF Elems, QueuedTasks, InDeque
    <3> QED
      BY <3>1, <3>2, OrderedDeque
  <2>4. NoLostWakeup'
    BY <1>1, <1>3 DEF NoLostWakeup
  <2>5. Owners' = Owners
    BY <1>1, <2>1 DEF Owners
  <2>6. PermitsConserved'
    BY <1>1, <1>3, <2>5 DEF IInv, PermitsConserved
  <2> QED
    BY <2>2, <2>3, <2>4, <2>6 DEF IInv
<1> QED
  BY <1>2, <1>3 DEF AcquireLocked

LEMMA StartKeeps ==
    ASSUME IInv, NEW t \in Tasks, Start(t)
    PROVE  IInv'
<1>1. CASE /\ pc[t] = "granted"
           /\ pc' = [pc EXCEPT ![t] = "holding"]
           /\ UNCHANGED <<value, waiters>>
  BY <1>1, MoveKeeps DEF Start, Places, InDeque, Owning
<1>2. CASE pc[t] = "blocked" /\ Enqueue(t)
  <2>1. spawned # {}
    BY <1>2 DEF IInv, OnlySpawned
  <2> QED
    BY <1>2, <2>1, EnqueueKeeps DEF Start
<1> QED
  BY <1>1, <1>2 DEF Start

LEMMA CancelKeeps ==
    ASSUME IInv, NEW t \in Tasks, Cancel(t)
    PROVE  IInv'
<1>1. UNCHANGED <<spawned, value, waiters>>
  BY DEF Cancel
<1>2. CASE pc[t] \in {"granted", "blocked"} /\ pc' = [pc EXCEPT ![t] = "idle"]
  <2>1. t \in spawned
    BY <1>2 DEF IInv, OnlySpawned
  <2> QED
    BY <1>1, <1>2, <2>1, MoveKeeps DEF Places, InDeque, Owning
<1>3. CASE pc[t] = "waiting" /\ pc' = [pc EXCEPT ![t] = "cancelled"]
  BY <1>1, <1>3, MoveKeeps DEF Places, InDeque, Owning
<1>4. CASE pc[t] = "woken" /\ pc' = [pc EXCEPT ![t] = "wokenCancelled"]
  BY <1>1, <1>4, MoveKeeps DEF Places, InDeque, Owning
<1> QED
  BY <1>2, <1>3, <1>4 DEF Cancel

\* A task that owns a permit and gives it back counts for one.
LEMMA OwnerCounts ==
    ASSUME IInv, NEW t \in Tasks, pc[t] \in Owning
    PROVE  /\ Cardinality(Owners \ {t}) \in Nat
           /\ Cardinality(Owners) = Cardinality(Owners \ {t}) + 1
<1>1. Owners \in SUBSET Tasks /\ t \in Owners /\ Owners \ {t} \in SUBSET Tasks
  BY DEF Owners, Owning
<1>2. Cardinality(Owners \ {t}) = Cardinality(Owners) - 1 /\ Cardinality(Owners) \in Nat
  BY <1>1, OneMore, FiniteTasks
<1> QED
  BY <1>1, <1>2, FiniteTasks

LEMMA ResumeKeeps ==
    ASSUME IInv, NEW t \in Tasks, Resume(t)
    PROVE  IInv'
<1>1. pc[t] = "woken" /\ waiters' = Without(t) /\ spawned' = spawned
  BY DEF Resume
<1>2. Ordered(Without(t)) /\ Elems(Without(t)) = QueuedTasks \ {t}
  BY <1>1, WithoutOrdered DEF InDeque
<1>3. /\ Cardinality(Owners \ {t}) \in Nat
      /\ Cardinality(Owners) = Cardinality(Owners \ {t}) + 1
  BY <1>1, OwnerCounts DEF Owning
<1>4. value \in Nat
  BY DEF IInv, TypeOK
<1>5. CASE value > 0 /\ WakeUpNext(Without(t), value, t, "holding")
  <2>1. /\ TypeOK' /\ OnlySpawned' /\ QueuedOnce' /\ FirstComeFirstServed' /\ NoLostWakeup'
        /\ value' + Cardinality(Owners') = value + Cardinality(Owners \ {t}) + 1
    <3>1. value \in Nat \ {0}
      BY <1>4, <1>5
    <3> QED
      BY <1>1, <1>2, <1>5, <3>1, WakeUpNextKeeps
  <2>2. value' + Cardinality(Owners') = value + Cardinality(Owners)
    BY <1>3, <1>4, <2>1
  <2>3. PermitsConserved'
    BY <1>1, <2>2 DEF IInv, PermitsConserved
  <2> QED
    BY <2>1, <2>3 DEF IInv
<1>6. CASE value = 0 /\ pc' = [pc EXCEPT ![t] = "holding"] /\ UNCHANGED value
  <2>1. /\ pc \in [Tasks -> Places]
        /\ pc' = [u \in Tasks |-> IF u = t THEN "holding" ELSE pc[u]]
    BY <1>6 DEF IInv, TypeOK, Places
  <2>2. TypeOK' /\ OnlySpawned'
    BY <1>1, <1>2, <1>6, <2>1 DEF IInv, TypeOK, OnlySpawned, Ordered, Places
  <2>3. QueuedOnce' /\ FirstComeFirstServed'
    <3>1. ASSUME NEW i \in DOMAIN Without(t)
          PROVE  Without(t)[i] # t /\ Without(t)[i] \in Tasks
      BY <1>2 DEF Elems, QueuedTasks
    <3>2. Ordered(waiters)'
      BY <1>1, <1>2, <2>1, <3>1 DEF Ordered
    <3>3. QueuedTasks' = QueuedTasks \ {t}
      BY <2>1 DEF QueuedTasks, InDeque
    <3>4. Elems(waiters)' = QueuedTasks'
      BY <1>1, <1>2, <3>3 DEF Elems
    <3> QED
      BY <3>2, <3>4, OrderedDeque
  <2>4. NoLostWakeup'
    BY <1>6 DEF NoLostWakeup
  <2>5. Owners' = Owners
    BY <1>1, <2>1 DEF Owners
  <2>6. PermitsConserved'
    BY <1>1, <1>6, <2>5 DEF IInv, PermitsConserved
  <2> QED
    BY <2>2, <2>3, <2>4, <2>6 DEF IInv
<1> QED
  BY <1>5, <1>6 DEF Resume

\* A task gives back its permit and leaves.
LEMMA GiveBackKeeps ==
    ASSUME IInv, NEW t \in Tasks, NEW q, pc[t] \in Owning,
           Ordered(q), Elems(q) = QueuedTasks \ {t},
           waiters' = q, spawned' = spawned, WakeUpNext(q, value + 1, t, "idle")
    PROVE  IInv'
<1>1. value \in Nat /\ value + 1 \in Nat \ {0}
  BY DEF IInv, TypeOK
<1>2. /\ Cardinality(Owners \ {t}) \in Nat
      /\ Cardinality(Owners) = Cardinality(Owners \ {t}) + 1
  BY OwnerCounts
<1>3. /\ TypeOK' /\ OnlySpawned' /\ QueuedOnce' /\ FirstComeFirstServed' /\ NoLostWakeup'
      /\ value' + Cardinality(Owners') = (value + 1) + Cardinality(Owners \ {t}) + 0
  <2>1. pc[t] # "waiting"
    BY DEF Owning
  <2> QED
    BY <1>1, <2>1, WakeUpNextKeeps
<1>4. value' + Cardinality(Owners') = value + Cardinality(Owners)
  BY <1>1, <1>2, <1>3
<1>5. PermitsConserved'
  BY <1>4 DEF IInv, PermitsConserved
<1> QED
  BY <1>3, <1>5 DEF IInv

LEMMA CancelStepKeeps ==
    ASSUME IInv, NEW t \in Tasks, CancelStep(t)
    PROVE  IInv'
<1>1. waiters' = Without(t) /\ spawned' = spawned
  BY DEF CancelStep
<1>2. Ordered(Without(t)) /\ Elems(Without(t)) = QueuedTasks \ {t}
  BY WithoutOrdered DEF CancelStep, InDeque
<1>3. CASE pc[t] = "wokenCancelled" /\ WakeUpNext(Without(t), value + 1, t, "idle")
  BY <1>1, <1>2, <1>3, GiveBackKeeps DEF Owning
<1>4. CASE pc[t] = "cancelled" /\ pc' = [pc EXCEPT ![t] = "idle"] /\ UNCHANGED value
  <2>1. /\ pc \in [Tasks -> Places]
        /\ pc' = [u \in Tasks |-> IF u = t THEN "idle" ELSE pc[u]]
    BY <1>4 DEF IInv, TypeOK, Places
  <2>2. TypeOK' /\ OnlySpawned'
    BY <1>1, <1>2, <1>4, <2>1 DEF IInv, TypeOK, OnlySpawned, Ordered, Places
  <2>3. QueuedOnce' /\ FirstComeFirstServed'
    <3>1. ASSUME NEW i \in DOMAIN Without(t)
          PROVE  Without(t)[i] # t /\ Without(t)[i] \in Tasks
      BY <1>2 DEF Elems, QueuedTasks
    <3>2. Ordered(waiters)'
      BY <1>1, <1>2, <2>1, <3>1 DEF Ordered
    <3>3. QueuedTasks' = QueuedTasks \ {t}
      BY <2>1 DEF QueuedTasks, InDeque
    <3>4. Elems(waiters)' = QueuedTasks'
      BY <1>1, <1>2, <3>3 DEF Elems
    <3> QED
      BY <3>2, <3>4, OrderedDeque
  <2>4. NoLostWakeup'
    BY <1>1, <1>4, <2>1 DEF IInv, NoLostWakeup, Waiting
  <2>5. Owners' = Owners
    BY <1>4, <2>1 DEF Owners
  <2>6. PermitsConserved'
    BY <1>1, <1>4, <2>5 DEF IInv, PermitsConserved
  <2> QED
    BY <2>2, <2>3, <2>4, <2>6 DEF IInv
<1> QED
  BY <1>3, <1>4 DEF CancelStep

LEMMA ReleaseKeeps ==
    ASSUME IInv, NEW t \in Tasks, Release(t)
    PROVE  IInv'
<1>1. /\ pc[t] = "holding" /\ waiters' = waiters /\ spawned' = spawned
      /\ WakeUpNext(waiters, value + 1, t, "idle")
  BY DEF Release
<1>2. Ordered(waiters) /\ Elems(waiters) = QueuedTasks \ {t}
  BY <1>1, WaitersOrdered DEF QueuedTasks, InDeque
<1> QED
  BY <1>1, <1>2, GiveBackKeeps DEF Owning

LEMMA NextKeepsIInv == IInv /\ [Next]_vars => IInv'
<1> SUFFICES ASSUME IInv, [Next]_vars PROVE IInv'
  OBVIOUS
<1>1. CASE UNCHANGED vars
  BY <1>1 DEF vars, IInv, TypeOK, OnlySpawned, QueuedOnce, FirstComeFirstServed,
              NoLostWakeup, PermitsConserved, Owners, Waiting
<1>2. CASE Next
  BY <1>2, AcquireFreeKeeps, AcquireLockedKeeps, StartKeeps, ResumeKeeps,
     CancelKeeps, CancelStepKeeps, ReleaseKeeps DEF Next
<1> QED
  BY <1>1, <1>2

LEMMA SpecIInv == Spec => []IInv
BY InitIInv, NextKeepsIInv, PTL DEF Spec

-----------------------------------------------------------------------------
\* The variables keep their types: the unsigned _value never goes below zero.
THEOREM TypeCorrect == Spec => []TypeOK
<1>1. IInv => TypeOK
  BY DEF IInv
<1> QED
  BY <1>1, SpecIInv, PTL

\* No permit is made, and none lost unless a spawned task is cancelled early:
\* handing permits over to sleeping tasks, which may be cancelled, keeps count.
THEOREM PermitsAreConserved == Spec => []PermitsConserved
<1>1. IInv => PermitsConserved
  BY DEF IInv
<1> QED
  BY <1>1, SpecIInv, PTL

\* A permit is free beside a waiter only while a woken task is to pass it on.
THEOREM NoWakeupIsLost == Spec => []NoLostWakeup
<1>1. IInv => NoLostWakeup
  BY DEF IInv
<1> QED
  BY <1>1, SpecIInv, PTL

\* The deque has each task that awaits its future, once, and permits are handed
\* out in its order.
THEOREM ServedInOrder == Spec => [](QueuedOnce /\ FirstComeFirstServed)
<1>1. IInv => QueuedOnce /\ FirstComeFirstServed
  BY DEF IInv
<1> QED
  BY <1>1, SpecIInv, PTL

\* What WakeUpNext leaves of the states of the tasks: t is in its new one, and
\* the others are where they were, or were waiting and are woken.
LEMMA WakeUpNextMoves ==
    ASSUME TypeOK, NEW t \in Tasks, NEW q \in Seq(Tasks), NEW v, NEW to,
           pc[t] # "waiting", WakeUpNext(q, v, t, to)
    PROVE  /\ pc'[t] = to
           /\ \A u \in Tasks \ {t} :
                pc'[u] = pc[u] \/ (pc[u] = "waiting" /\ pc'[u] = "woken")
<1>1. \A i \in DOMAIN q : q[i] \in Tasks
  OBVIOUS
<1> QED
  BY <1>1 DEF WakeUpNext, TypeOK

\* What Resume, CancelStep and Release do to the states of the tasks.
LEMMA Moves ==
    ASSUME IInv, NEW t \in Tasks, NEW to,
           \/ Resume(t) /\ to = "holding"
           \/ CancelStep(t) /\ to = "idle"
           \/ Release(t) /\ to = "idle"
    PROVE  /\ pc'[t] = to
           /\ \A u \in Tasks \ {t} :
                pc'[u] = pc[u] \/ (pc[u] = "waiting" /\ pc'[u] = "woken")
<1>1. waiters \in Seq(Tasks) /\ TypeOK
  BY DEF IInv, TypeOK
<1>2. CASE Resume(t) /\ to = "holding"
  <2>1. pc[t] = "woken"
    BY <1>2 DEF Resume
  <2>2. Without(t) \in Seq(Tasks)
    BY <2>1, WithoutOrdered DEF InDeque, Ordered
  <2>3. CASE WakeUpNext(Without(t), value, t, "holding")
    BY <1>1, <1>2, <2>1, <2>2, <2>3, WakeUpNextMoves
  <2>4. CASE pc' = [pc EXCEPT ![t] = "holding"]
    BY <1>1, <1>2, <2>4 DEF TypeOK
  <2> QED
    BY <1>2, <2>3, <2>4 DEF Resume
<1>3. CASE CancelStep(t) /\ to = "idle"
  <2>1. pc[t] \in {"cancelled", "wokenCancelled"}
    BY <1>3 DEF CancelStep
  <2>2. Without(t) \in Seq(Tasks)
    BY <2>1, WithoutOrdered DEF InDeque, Ordered
  <2>3. CASE WakeUpNext(Without(t), value + 1, t, "idle")
    BY <1>1, <1>3, <2>1, <2>2, <2>3, WakeUpNextMoves
  <2>4. CASE pc' = [pc EXCEPT ![t] = "idle"]
    BY <1>1, <1>3, <2>4 DEF TypeOK
  <2> QED
    BY <1>3, <2>3, <2>4 DEF CancelStep
<1>4. CASE Release(t) /\ to = "idle"
  <2>1. pc[t] = "holding" /\ WakeUpNext(waiters, value + 1, t, "idle")
    BY <1>4 DEF Release
  <2> QED
    BY <1>1, <1>4, <2>1, WakeUpNextMoves
<1> QED
  BY <1>2, <1>3, <1>4

\* No permit is taken without waiting while somebody waits or was woken: the
\* value alone does not let a newcomer in.
THEOREM NobodyBarges == Spec => NoBarging
<1> DEFINE Barging ==
      \E t \in Tasks : /\ pc[t] = "idle" /\ pc'[t] \in {"holding", "granted"}
                       /\ \E u \in Tasks : pc[u] \in {"waiting", "woken"}
<1>1. ASSUME IInv, Next PROVE ~Barging
  <2>1. PICK t \in Tasks :
          \/ AcquireFree(t) \/ AcquireLocked(t) \/ Start(t)
          \/ Resume(t) \/ Cancel(t) \/ CancelStep(t) \/ Release(t)
    BY <1>1 DEF Next
  <2>2. pc \in [Tasks -> Places]
    BY <1>1 DEF IInv, TypeOK, Places
  <2>3. CASE AcquireFree(t)
    BY <1>1, <2>3, NotLocked DEF AcquireFree
  <2>4. CASE AcquireLocked(t) \/ Start(t) \/ Cancel(t)
    BY <2>2, <2>4 DEF AcquireLocked, Start, Cancel, Enqueue
  <2>5. CASE Resume(t) \/ CancelStep(t) \/ Release(t)
    <3>1. pc[t] # "idle"
      BY <2>5 DEF Resume, CancelStep, Release
    <3>2. \A u \in Tasks \ {t} :
            pc'[u] = pc[u] \/ (pc[u] = "waiting" /\ pc'[u] = "woken")
      BY <1>1, <2>5, Moves
    <3> QED
      BY <3>1, <3>2
  <2> QED
    BY <2>1, <2>3, <2>4, <2>5
<1>2. IInv /\ [Next]_vars =>
        [\A t \in Tasks :
           (pc[t] = "idle" /\ pc'[t] \in {"holding", "granted"})
              => \A u \in Tasks : pc[u] \notin {"waiting", "woken"}]_vars
  BY <1>1
<1> QED
  BY <1>2, SpecIInv, PTL DEF Spec, NoBarging

-----------------------------------------------------------------------------
Want == {t \in Tasks : pc[t] \in {"granted", "blocked", "waiting", "woken",
                                  "cancelled", "wokenCancelled"}}
Held == {t \in Tasks : pc[t] = "holding"}

\* PermitPool counts holders as this module does.
LEMMA PoolCardinality == \A S : Pool!Cardinality(S) = Cardinality(S)
BY DEF Pool!Cardinality, Cardinality

\* A task that is given a permit it owns already finds one in the pool.
LEMMA RoomForOwner ==
    ASSUME IInv, NEW t \in Tasks,
           pc[t] \in {"granted", "woken"} \/ (pc[t] = "idle" /\ value > 0)
    PROVE  Pool!Cardinality(Held) < Capacity
<1>1. /\ Held \in SUBSET Tasks /\ Owners \in SUBSET Tasks /\ t \notin Held
      /\ Held \cup {t} \in SUBSET Tasks /\ Held \subseteq Owners
  BY DEF Held, Owners
<1>2. /\ IsFiniteSet(Owners)
      /\ Cardinality(Held) \in Nat /\ Cardinality(Owners) \in Nat
      /\ Cardinality(Held \cup {t}) = Cardinality(Held) + 1
  BY <1>1, FiniteTasks, OneMore
<1>3. value \in Nat /\ value + Cardinality(Owners) <= Capacity
  BY DEF IInv, TypeOK, PermitsConserved
<1>4. CASE pc[t] \in {"granted", "woken"}
  <2>1. Held \cup {t} \subseteq Owners
    BY <1>1, <1>4 DEF Owners
  <2>2. Cardinality(Held \cup {t}) <= Cardinality(Owners)
    BY <1>2, <2>1, FS_Subset
  <2> QED
    BY <1>2, <1>3, <2>2, CapacityAssumption, PoolCardinality
<1>5. CASE value > 0
  <2>1. Cardinality(Held) <= Cardinality(Owners)
    BY <1>1, <1>2, FS_Subset
  <2> QED
    BY <1>2, <1>3, <1>5, <2>1, CapacityAssumption, PoolCardinality
<1> QED
  BY <1>4, <1>5

\* Every step is one of the pool, or none, however permits are handed over.
LEMMA StepOfPool ==
    ASSUME IInv, Next
    PROVE  Pool!PoolNext \/ UNCHANGED <<Want, Held>>
<1>1. PICK t \in Tasks :
        \/ AcquireFree(t) \/ AcquireLocked(t) \/ Start(t)
        \/ Resume(t) \/ Cancel(t) \/ CancelStep(t) \/ Release(t)
  BY DEF Next
<1>2. pc \in [Tasks -> Places] /\ value \in Nat
  BY DEF IInv, TypeOK, Places
<1>3. CASE AcquireFree(t)
  <2>1. /\ pc[t] = "idle" /\ value > 0
        /\ pc' \in [Tasks -> Places]
        /\ pc'[t] = IF t \in spawned THEN "granted" ELSE "holding"
        /\ \A u \in Tasks \ {t} : pc'[u] = pc[u]
    BY <1>2, <1>3 DEF AcquireFree, Locked, Places
  <2>2. t \notin Want \cup Held
    BY <2>1 DEF Want, Held
  <2>3. CASE t \in spawned
    <3>1. Want' = Want \cup {t} /\ Held' = Held
      BY <2>1, <2>3 DEF Want, Held
    <3> QED
      BY <2>2, <3>1 DEF Pool!PoolNext, Pool!Ask, Want, Held
  <2>4. CASE t \notin spawned
    <3>1. Want' = Want /\ Held' = Held \cup {t}
      BY <2>1, <2>4 DEF Want, Held
    <3>2. Pool!Cardinality(Held) < Capacity
      BY <2>1, RoomForOwner
    <3> QED
      BY <2>2, <3>1, <3>2 DEF Pool!PoolNext, Pool!Take, Want, Held
  <2> QED
    BY <2>3, <2>4
<1>4. CASE AcquireLocked(t)
  <2>1. /\ t \notin Want \cup Held
        /\ Want' = Want \cup {t} /\ Held' = Held
    BY <1>2, <1>4 DEF AcquireLocked, Enqueue, Want, Held
  <2> QED
    BY <2>1 DEF Pool!PoolNext, Pool!Ask, Want, Held
<1>5. CASE Start(t)
  <2>1. CASE pc[t] = "granted" /\ pc' = [pc EXCEPT ![t] = "holding"]
    <3>1. t \in Want /\ Want' = Want \ {t} /\ Held' = Held \cup {t}
      BY <1>2, <2>1 DEF Want, Held
    <3>2. Pool!Cardinality(Held) < Capacity
      BY <2>1, RoomForOwner
    <3> QED
      BY <3>1, <3>2 DEF Pool!PoolNext, Pool!Grant, Want, Held
  <2>2. CASE pc[t] = "blocked" /\ Enqueue(t)
    BY <1>2, <2>2 DEF Enqueue, Want, Held
  <2> QED
    BY <1>5, <2>1, <2>2 DEF Start
<1>6. CASE Resume(t)
  <2>1. pc[t] = "woken" /\ pc'[t] = "holding"
    BY <1>6, Moves DEF Resume
  <2>2. \A u \in Tasks \ {t} :
          pc'[u] = pc[u] \/ (pc[u] = "waiting" /\ pc'[u] = "woken")
    BY <1>6, Moves
  <2>3. t \in Want /\ Want' = Want \ {t} /\ Held' = Held \cup {t}
    BY <2>1, <2>2 DEF Want, Held
  <2>4. Pool!Cardinality(Held) < Capacity
    BY <2>1, RoomForOwner
  <2> QED
    BY <2>3, <2>4 DEF Pool!PoolNext, Pool!Grant, Want, Held
<1>7. CASE Cancel(t)
  <2>1. CASE pc[t] \in {"granted", "blocked"} /\ pc' = [pc EXCEPT ![t] = "idle"]
    <3>1. t \in Want /\ Want' = Want \ {t} /\ Held' = Held
      BY <1>2, <2>1 DEF Want, Held
    <3> QED
      BY <3>1 DEF Pool!PoolNext, Pool!Withdraw, Want, Held
  <2>2. CASE \/ pc[t] = "waiting" /\ pc' = [pc EXCEPT ![t] = "cancelled"]
             \/ pc[t] = "woken" /\ pc' = [pc EXCEPT ![t] = "wokenCancelled"]
    BY <1>2, <2>2 DEF Want, Held
  <2> QED
    BY <1>7, <2>1, <2>2 DEF Cancel
<1>8. CASE CancelStep(t)
  <2>1. pc[t] \in {"cancelled", "wokenCancelled"} /\ pc'[t] = "idle"
    BY <1>8, Moves DEF CancelStep
  <2>2. \A u \in Tasks \ {t} :
          pc'[u] = pc[u] \/ (pc[u] = "waiting" /\ pc'[u] = "woken")
    BY <1>8, Moves
  <2>3. t \in Want /\ Want' = Want \ {t} /\ Held' = Held
    BY <2>1, <2>2 DEF Want, Held
  <2> QED
    BY <2>3 DEF Pool!PoolNext, Pool!Withdraw, Want, Held
<1>9. CASE Release(t)
  <2>1. pc[t] = "holding" /\ pc'[t] = "idle"
    BY <1>9, Moves DEF Release
  <2>2. \A u \in Tasks \ {t} :
          pc'[u] = pc[u] \/ (pc[u] = "waiting" /\ pc'[u] = "woken")
    BY <1>9, Moves
  <2>3. t \in Held /\ Held' = Held \ {t} /\ Want' = Want
    BY <2>1, <2>2 DEF Want, Held
  <2> QED
    BY <2>3 DEF Pool!PoolNext, Pool!GiveBack, Want, Held
<1> QED
  BY <1>1, <1>3, <1>4, <1>5, <1>6, <1>7, <1>8, <1>9

\* The semaphore is a pool of Capacity permits: every step of it is a step of
\* PermitPool, or none, so that a task never holds a permit it did not ask for,
\* and never more tasks hold one than there are.
THEOREM ImplementsPool == Spec => PoolSafety
<1>1. Init => Pool!PoolInit
  BY DEF Init, Pool!PoolInit
<1>2. IInv /\ [Next]_vars => [Pool!PoolNext]_Pool!poolVars
  <2> SUFFICES ASSUME IInv, [Next]_vars
               PROVE  Pool!PoolNext \/ UNCHANGED <<Want, Held>>
    BY DEF Pool!poolVars, Want, Held
  <2>1. CASE UNCHANGED vars
    BY <2>1 DEF vars, Want, Held
  <2> QED
    BY <2>1, StepOfPool
<1> QED
  BY <1>1, <1>2, SpecIInv, PTL DEF Spec, PoolSafety
=============================================================================
