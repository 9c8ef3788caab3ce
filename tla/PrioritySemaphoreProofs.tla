---------------------- MODULE PrioritySemaphoreProofs ----------------------
(***************************************************************************)
(* PrioritySemaphore keeps its permits, loses no wake-up, strands no       *)
(* waiter and serves its top manager first, for any number of tasks,       *)
(* priorities, managers and permits.                                       *)
(***************************************************************************)
EXTENDS PrioritySemaphore, FiniteSetTheorems, SequenceTheorems, TLAPS

USE DEF AllManagers

Deques == [AllManagers -> Seq(Tasks \cup {DoneFut})]

\* The emergency set holds the waiting tasks and nobody else.
LostIsWaiting == lost = Waiting

\* A task that entered the semaphore did so through a manager.
MgrKnown == \A t \in Tasks : pc[t] # "idle" => mgr[t] \in AllManagers

\* What every step keeps.  PermitsConserved and NoLostWakeup need to know
\* which tasks a wake-up can reach (LostIsWaiting, LiveAreWaiting), QueuedOnce
\* that a waiting task keeps its manager (MgrKnown), and TopFirst needs
\* QueuedOnce: a waiter of the top manager is one the top deque still has.
IInv ==
    /\ TypeOK
    /\ MgrKnown
    /\ LostIsWaiting
    /\ LiveAreWaiting
    /\ QueuedOnce
    /\ HeapCoherent
    /\ PermitsConserved
    /\ NoLostWakeup

-----------------------------------------------------------------------------
\* Settling futures turns deques into deques, whose pending futures are the
\* pending ones of before that are not settled.
LEMMA SettleDeques ==
    ASSUME NEW q \in Deques, NEW W
    PROVE  /\ Settle(q, W) \in Deques
           /\ \A m \in AllManagers :
                /\ DOMAIN Settle(q, W)[m] = DOMAIN q[m]
                /\ \A i \in DOMAIN q[m] :
                     Settle(q, W)[m][i] # DoneFut =>
                        /\ Settle(q, W)[m][i] = q[m][i]
                        /\ q[m][i] \notin W
                /\ \A i \in DOMAIN q[m] :
                     q[m][i] \notin W => Settle(q, W)[m][i] = q[m][i]
<1>1. ASSUME NEW m \in AllManagers
      PROVE  [i \in DOMAIN q[m] |-> IF q[m][i] \in W THEN DoneFut ELSE q[m][i]]
               \in Seq(Tasks \cup {DoneFut})
  <2>1. q[m] \in Seq(Tasks \cup {DoneFut})
    BY DEF Deques
  <2>2. /\ Len(q[m]) \in Nat
        /\ DOMAIN q[m] = 1..Len(q[m])
        /\ \A i \in 1..Len(q[m]) : q[m][i] \in Tasks \cup {DoneFut}
    BY <2>1
  <2> QED
    BY <2>2, SeqDef
<1> QED
  BY <1>1 DEF Settle, Deques

\* A deque r that was popped from s: what was popped was done, or is of W.
RestOf(r, s, W) ==
    /\ r \in Seq(Tasks \cup {DoneFut})
    /\ \E n \in 0..Len(s) :
         /\ DOMAIN r = 1..(Len(s) - n)
         /\ \A i \in DOMAIN r : n + i \in DOMAIN s /\ r[i] = s[n + i]
         /\ \A i \in 1..n : s[i] \in W \cup {DoneFut}

\* The deque as it is, one that had nothing pending, and what is behind its
\* first pending future.
LEMMA RestDeque ==
    ASSUME NEW s \in Seq(Tasks \cup {DoneFut}), NEW W
    PROVE  /\ RestOf(s, s, W)
           /\ (\A i \in DOMAIN s : s[i] = DoneFut) => RestOf(<<>>, s, W)
           /\ \A i \in DOMAIN s :
                s[i] \in W /\ (\A j \in 1..(i - 1) : s[j] = DoneFut)
                  => RestOf(SubSeq(s, i + 1, Len(s)), s, W)
<1>1. Len(s) \in Nat /\ DOMAIN s = 1..Len(s)
  OBVIOUS
<1>2. RestOf(s, s, W)
  <2>1. 0 \in 0..Len(s) /\ DOMAIN s = 1..(Len(s) - 0) /\ (\A i \in DOMAIN s : 0 + i = i) /\ 1..0 = {}
    BY <1>1
  <2> QED
    BY <2>1 DEF RestOf
<1>3. ASSUME \A i \in DOMAIN s : s[i] = DoneFut
      PROVE  RestOf(<<>>, s, W)
  <2>1. << >> \in Seq(Tasks \cup {DoneFut}) /\ DOMAIN << >> = {}
    OBVIOUS
  <2>2. Len(s) \in 0..Len(s) /\ 1..(Len(s) - Len(s)) = {}
    BY <1>1
  <2> QED
    BY <1>1, <1>3, <2>1, <2>2 DEF RestOf
<1>4. ASSUME NEW i \in DOMAIN s, s[i] \in W, \A j \in 1..(i - 1) : s[j] = DoneFut
      PROVE  RestOf(SubSeq(s, i + 1, Len(s)), s, W)
  <2> DEFINE r == SubSeq(s, i + 1, Len(s))
  <2>1. r \in Seq(Tasks \cup {DoneFut}) /\ Len(r) = Len(s) - i
        /\ \A j \in 1..(Len(s) - i) : r[j] = s[i + j]
    <3>1. \A j \in (i + 1)..Len(s) : s[j] \in Tasks \cup {DoneFut}
      BY <1>1
    <3> QED
      BY <1>1, <3>1, SubSeqProperties, SMTT(30)
  <2> HIDE DEF r
  <2>2. DOMAIN r = 1..(Len(s) - i)
    BY <2>1
  <2>3. \A j \in 1..(Len(s) - i) : i + j \in DOMAIN s
    BY <1>1
  <2>4. i \in 0..Len(s) /\ \A j \in 1..i : j \in 1..(i - 1) \/ j = i
    BY <1>1
  <2> QED
    BY <1>4, <2>1, <2>2, <2>3, <2>4 DEF RestOf, r
<1> QED
  BY <1>2, <1>3, <1>4

\* Such a deque has what is pending and not of W, in the same order.
LEMMA RestKeeps ==
    ASSUME NEW s \in Seq(Tasks \cup {DoneFut}), NEW W, NEW r, RestOf(r, s, W)
    PROVE  /\ \A i \in DOMAIN r : \E j \in DOMAIN s : r[i] = s[j]
           /\ \A j \in DOMAIN s : s[j] \notin W \cup {DoneFut} => \E i \in DOMAIN r : r[i] = s[j]
           /\ \A i, j \in DOMAIN r : r[i] = r[j] =>
                i = j \/ \E k, l \in DOMAIN s : k # l /\ s[k] = s[l] /\ s[k] = r[i]
<1>1. Len(s) \in Nat /\ DOMAIN s = 1..Len(s)
  OBVIOUS
<1>2. PICK n \in 0..Len(s) :
         /\ DOMAIN r = 1..(Len(s) - n)
         /\ \A i \in DOMAIN r : n + i \in DOMAIN s /\ r[i] = s[n + i]
         /\ \A i \in 1..n : s[i] \in W \cup {DoneFut}
  BY DEF RestOf
<1>3. ASSUME NEW j \in DOMAIN s, s[j] \notin W \cup {DoneFut}
      PROVE  \E i \in DOMAIN r : r[i] = s[j]
  <2>1. j \notin 1..n
    BY <1>2, <1>3
  <2>2. j - n \in DOMAIN r /\ n + (j - n) = j
    BY <1>1, <1>2, <2>1
  <2> QED
    BY <1>2, <2>2
<1>4. ASSUME NEW i \in DOMAIN r, NEW j \in DOMAIN r, r[i] = r[j], i # j
      PROVE  \E k, l \in DOMAIN s : k # l /\ s[k] = s[l] /\ s[k] = r[i]
  <2>1. n + i # n + j
    BY <1>1, <1>2, <1>4
  <2> QED
    BY <1>2, <1>4, <2>1
<1> QED
  BY <1>2, <1>3, <1>4

-----------------------------------------------------------------------------
\* Deques p that were popped from q, while the tasks of W are woken.
PoppedFrom(p, q, W) ==
    /\ p \in Deques
    /\ \A m \in AllManagers : RestOf(p[m], q[m], W)

\* QueuedOnce, of other deques than queue and other tasks than the waiting ones.
Once(q, S) ==
    /\ \A t \in S : \E i \in DOMAIN q[mgr[t]] : q[mgr[t]][i] = t
    /\ \A m \in AllManagers : \A i \in DOMAIN q[m] :
          q[m][i] # DoneFut =>
             /\ q[m][i] \in S /\ mgr[q[m][i]] = m
             /\ \A j \in DOMAIN q[m] : q[m][j] = q[m][i] => i = j

\* Popping, while the tasks of W are woken, keeps the others where they were.
LEMMA PoppedOnce ==
    ASSUME NEW q \in Deques, NEW S \in SUBSET Tasks, NEW W, NEW p,
           Once(q, S), PoppedFrom(p, q, W), \A t \in S : mgr[t] \in AllManagers
    PROVE  Once(Settle(p, W), S \ W)
<1> DEFINE r == Settle(p, W)
<1>1. ASSUME NEW m \in AllManagers
      PROVE  /\ DOMAIN r[m] = DOMAIN p[m]
             /\ \A i \in DOMAIN p[m] :
                  /\ r[m][i] # DoneFut => r[m][i] = p[m][i] /\ p[m][i] \notin W
                  /\ p[m][i] \notin W => r[m][i] = p[m][i]
             /\ q[m] \in Seq(Tasks \cup {DoneFut}) /\ RestOf(p[m], q[m], W)
  <2>1. p \in Deques /\ q[m] \in Seq(Tasks \cup {DoneFut}) /\ RestOf(p[m], q[m], W)
    BY <1>1 DEF PoppedFrom, Deques
  <2>2. /\ DOMAIN r[m] = DOMAIN p[m]
        /\ \A i \in DOMAIN p[m] : r[m][i] # DoneFut => r[m][i] = p[m][i] /\ p[m][i] \notin W
    BY <1>1, <2>1, SettleDeques
  <2>3. \A i \in DOMAIN p[m] : p[m][i] \notin W => r[m][i] = p[m][i]
    BY <1>1, <2>1, SettleDeques
  <2> QED
    BY <2>1, <2>2, <2>3
<1> HIDE DEF r
<1>2. ASSUME NEW t \in S \ W
      PROVE  \E i \in DOMAIN r[mgr[t]] : r[mgr[t]][i] = t
  <2>1. PICK j \in DOMAIN q[mgr[t]] : q[mgr[t]][j] = t
    BY <1>2 DEF Once
  <2>2. q[mgr[t]][j] \notin W \cup {DoneFut} /\ mgr[t] \in AllManagers
    BY <1>2, <2>1, TasksAssumption
  <2>3. PICK i \in DOMAIN p[mgr[t]] : p[mgr[t]][i] = q[mgr[t]][j]
    BY <1>1, <2>1, <2>2, RestKeeps
  <2> QED
    BY <1>1, <2>1, <2>2, <2>3
<1>3. ASSUME NEW m \in AllManagers, NEW i \in DOMAIN r[m], r[m][i] # DoneFut
      PROVE  /\ r[m][i] \in S \ W /\ mgr[r[m][i]] = m
             /\ \A j \in DOMAIN r[m] : r[m][j] = r[m][i] => i = j
  <2>1. i \in DOMAIN p[m] /\ r[m][i] = p[m][i] /\ p[m][i] \notin W
    BY <1>1, <1>3
  <2>2. PICK k \in DOMAIN q[m] : p[m][i] = q[m][k]
    BY <1>1, <2>1, RestKeeps
  <2>3. /\ q[m][k] \in S /\ mgr[q[m][k]] = m
        /\ \A l \in DOMAIN q[m] : q[m][l] = q[m][k] => k = l
    BY <1>3, <2>1, <2>2 DEF Once
  <2>4. ASSUME NEW j \in DOMAIN r[m], r[m][j] = r[m][i]
        PROVE  i = j
    <3>1. j \in DOMAIN p[m] /\ p[m][j] = p[m][i]
      BY <1>1, <1>3, <2>1, <2>4
    <3> QED
      BY <1>1, <2>1, <2>2, <2>3, <3>1, RestKeeps
  <2> QED
    BY <2>1, <2>2, <2>3, <2>4
<1> QED
  BY <1>2, <1>3 DEF Once, r

\* What a wake-up of the tasks of W does, however it finds them.
Woke(W) ==
    /\ W \subseteq Waiting
    /\ Waiting # {} => W # {}
    /\ \E p : PoppedFrom(p, queue, W) /\ queue' = Settle(p, W)
    /\ HasLive(Top) => \E i \in DOMAIN queue[Top] : queue[Top][i] # DoneFut /\ W = {queue[Top][i]}
    /\ heap' \subseteq heap
    /\ cms' \in [Priorities -> Managers \cup {NoManager}]
    /\ \A m \in heap' : cms'[Prio[m]] = cms[Prio[m]]

\* The heap loop, having popped m down to its first pending future.
LEMMA PoppedDeques ==
    ASSUME TypeOK, NEW m \in heap, NEW i \in DOMAIN queue[m], NEW W,
           FirstReady(m), FirstLive(m, i), ~HasLive(Top), queue[m][i] \in W
    PROVE  PoppedFrom(Popped(m, i), queue, W)
<1>1. queue \in Deques /\ m \in AllManagers /\ Passed(m) \subseteq AllManagers
  BY DEF TypeOK, Deques, Passed
<1>2. \A k \in Passed(m) \cup {Top} : \A j \in DOMAIN queue[k] : queue[k][j] = DoneFut
  BY DEF FirstReady, HasLive
<1>3. ASSUME NEW k \in AllManagers
      PROVE  RestOf(Popped(m, i)[k], queue[k], W)
  <2>1. queue[k] \in Seq(Tasks \cup {DoneFut})
    BY <1>1 DEF Deques
  <2>2. CASE k = m
    BY <2>1, <2>2, RestDeque DEF Popped, Rest, FirstLive
  <2>3. CASE k # m /\ k \in Passed(m) \cup {Top}
    BY <1>2, <2>1, <2>3, RestDeque DEF Popped
  <2>4. CASE k # m /\ k \notin Passed(m) \cup {Top}
    BY <2>1, <2>4, RestDeque DEF Popped
  <2> QED
    BY <2>2, <2>3, <2>4
<1>4. Popped(m, i) \in Deques
  BY <1>3 DEF Popped, Deques, RestOf
<1> QED
  BY <1>3, <1>4 DEF PoppedFrom

\* Dropping managers leaves a dict, whose entries for others are what they were.
LEMMA WithoutDict ==
    ASSUME TypeOK, HeapCoherent, NEW D
    PROVE  /\ Without(D) \in [Priorities -> Managers \cup {NoManager}]
           /\ \A k \in heap \ D : Without(D)[Prio[k]] = cms[Prio[k]]
<1>1. \A p \in Priorities : cms[p] \in Managers \cup {NoManager}
  BY DEF TypeOK
<1>2. ASSUME NEW k \in heap \ D
      PROVE  Prio[k] \in Priorities /\ cms[Prio[k]] \notin D
  BY <1>2, ManagersAssumption DEF TypeOK, HeapCoherent
<1> QED
  BY <1>1, <1>2 DEF Without

LEMMA WakeTopWoke ==
    ASSUME TypeOK, LostIsWaiting, LiveAreWaiting, HeapCoherent, NEW W, WakeTop(W)
    PROVE  Woke(W)
<1>1. PICK i \in DOMAIN queue[Top] :
        /\ FirstLive(Top, i)
        /\ W = {queue[Top][i]}
        /\ queue' = Settle([queue EXCEPT ![Top] = Rest(Top, i)], W)
  BY DEF WakeTop
<1> DEFINE p == [queue EXCEPT ![Top] = Rest(Top, i)]
<1>2. queue[Top] \in Seq(Tasks \cup {DoneFut}) /\ Top \in AllManagers
  BY DEF TypeOK
<1>3. ASSUME NEW k \in AllManagers
      PROVE  RestOf(p[k], queue[k], W)
  <2>1. queue[k] \in Seq(Tasks \cup {DoneFut}) /\ queue \in [AllManagers -> Seq(Tasks \cup {DoneFut})]
    BY DEF TypeOK
  <2>2. CASE k = Top
    BY <1>1, <2>1, <2>2, RestDeque DEF Rest, FirstLive
  <2>3. CASE k # Top
    BY <2>1, <2>3, RestDeque
  <2> QED
    BY <2>2, <2>3
<1>4. PoppedFrom(p, queue, W)
  <2>1. DOMAIN p = AllManagers /\ p = [k \in AllManagers |-> p[k]]
    BY DEF TypeOK
  <2> QED
    BY <1>3, <2>1 DEF PoppedFrom, Deques, RestOf
<1>5. W \subseteq Waiting /\ W # {}
  BY <1>1, <1>2 DEF LiveAreWaiting, FirstLive
<1>6. heap' = heap /\ cms' = cms
  BY DEF WakeTop
<1> QED
  BY <1>1, <1>4, <1>5, <1>6 DEF Woke, TypeOK, FirstLive

LEMMA WakeAtHeadWoke ==
    ASSUME TypeOK, LostIsWaiting, LiveAreWaiting, HeapCoherent, NEW W, WakeAtHead(W)
    PROVE  Woke(W)
<1>1. PICK m \in heap :
        /\ FirstReady(m) /\ FirstLive(m, 1)
        /\ \E R \in SUBSET lost : W = {queue[m][1]} \cup R
        /\ queue' = Settle(Popped(m, 1), W)
        /\ heap' = heap \ (Passed(m) \cup {m})
        /\ cms' = Without(Passed(m))
  BY DEF WakeAtHead
<1>2. m \in AllManagers
  BY DEF TypeOK
<1>3. PoppedFrom(Popped(m, 1), queue, W) /\ ~HasLive(Top)
  BY <1>1, PoppedDeques DEF FirstLive, WakeAtHead
<1>4. W \subseteq Waiting /\ W # {}
  BY <1>1, <1>2 DEF LiveAreWaiting, LostIsWaiting, FirstLive
<1>5. /\ cms' \in [Priorities -> Managers \cup {NoManager}]
      /\ \A k \in heap \ Passed(m) : cms'[Prio[k]] = cms[Prio[k]]
  BY <1>1, WithoutDict
<1> QED
  BY <1>1, <1>3, <1>4, <1>5 DEF Woke

LEMMA WakeBehindDoneWoke ==
    ASSUME TypeOK, LostIsWaiting, LiveAreWaiting, HeapCoherent,
           NEW W, WakeBehindDone(W)
    PROVE  Woke(W)
<1>1. PICK m \in heap : FirstReady(m) /\ \E i \in 2..Len(queue[m]) : \E gone :
        /\ FirstLive(m, i)
        /\ W = {queue[m][i]}
        /\ queue' = Settle(Popped(m, i), W)
        /\ heap' = heap \ gone
        /\ cms' = Without(gone)
  BY DEF WakeBehindDone
<1>2. PICK i \in 2..Len(queue[m]) :
        /\ FirstLive(m, i)
        /\ W = {queue[m][i]}
        /\ queue' = Settle(Popped(m, i), W)
        /\ \E gone : heap' = heap \ gone /\ cms' = Without(gone)
  BY <1>1
<1>3. m \in AllManagers
  BY DEF TypeOK
<1>4. PoppedFrom(Popped(m, i), queue, W) /\ ~HasLive(Top)
  BY <1>1, <1>2, PoppedDeques DEF FirstLive, WakeBehindDone
<1>5. W \subseteq Waiting /\ W # {}
  BY <1>2, <1>3 DEF LiveAreWaiting, FirstLive
<1>6. PICK gone : heap' = heap \ gone /\ cms' = Without(gone)
  BY <1>2
<1>7. /\ cms' \in [Priorities -> Managers \cup {NoManager}]
      /\ \A k \in heap \ gone : cms'[Prio[k]] = cms[Prio[k]]
  BY <1>6, WithoutDict
<1> QED
  BY <1>2, <1>4, <1>5, <1>6, <1>7 DEF Woke

LEMMA WakeLostWoke ==
    ASSUME TypeOK, LostIsWaiting, LiveAreWaiting, HeapCoherent, NEW W, WakeLost(W)
    PROVE  Woke(W)
<1> DEFINE p == [k \in AllManagers |->
                   IF k \in heap \cup {Top} THEN <<>> ELSE queue[k]]
<1>1. /\ Rescued(lost, W)
      /\ queue' = Settle(p, W)
      /\ heap' = {}
      /\ cms' = Without(heap)
  BY DEF WakeLost
<1>2. \A k \in heap \cup {Top} : \A i \in DOMAIN queue[k] : queue[k][i] = DoneFut
  BY DEF WakeLost, HasLive
<1>3. ASSUME NEW k \in AllManagers
      PROVE  RestOf(p[k], queue[k], W)
  <2>1. queue[k] \in Seq(Tasks \cup {DoneFut})
    BY DEF TypeOK
  <2> QED
    BY <1>2, <2>1, RestDeque
<1>4. PoppedFrom(p, queue, W) /\ ~HasLive(Top)
  BY <1>2, <1>3 DEF PoppedFrom, Deques, RestOf, HasLive
<1>5. W \subseteq Waiting /\ (Waiting # {} => W # {})
  BY <1>1 DEF Rescued, LostIsWaiting
<1>6. cms' \in [Priorities -> Managers \cup {NoManager}]
  BY <1>1, WithoutDict
<1> QED
  BY <1>1, <1>4, <1>5, <1>6 DEF Woke

\* One call of _wake_up_next wakes waiters, at least one if there is any, and
\* keeps the deques, the heap and the dict in order.
LEMMA WakeUpNextWoke ==
    ASSUME TypeOK, LostIsWaiting, LiveAreWaiting, HeapCoherent,
           NEW t, NEW to, WakeUpNext(t, to)
    PROVE  \E W \in SUBSET Tasks :
             /\ Woke(W)
             /\ lost' = lost \ W
             /\ pc' = [u \in Tasks |-> IF u \in W THEN "woken"
                                       ELSE IF u = t THEN to ELSE pc[u]]
BY WakeTopWoke, WakeAtHeadWoke, WakeBehindDoneWoke, WakeLostWoke DEF WakeUpNext

-----------------------------------------------------------------------------
States == {"idle", "waiting", "woken", "cancelled", "wokenCancelled", "holding"}

LEMMA FiniteTasks ==
    ASSUME NEW S \in SUBSET Tasks
    PROVE  IsFiniteSet(S) /\ Cardinality(S) \in Nat
BY TasksAssumption, FS_Subset, FS_CardinalityType

\* Where a wake-up by t leaves the tasks, and what it keeps.
LEMMA WakeKeeps ==
    ASSUME IInv, NEW t \in Tasks, t \notin Waiting,
           WakeUpNext(t, "idle"), mgr' = mgr, value' \in Nat
    PROVE  /\ TypeOK' /\ LostIsWaiting' /\ LiveAreWaiting' /\ HeapCoherent'
           /\ MgrKnown' /\ QueuedOnce'
           /\ Holding' = Holding \ {t}
           /\ \E W \in SUBSET Waiting :
                /\ Waiting # {} => W # {}
                /\ Waiting' = Waiting \ W
                /\ Roused' = (Roused \ {t}) \cup W
<1>1. PICK W \in SUBSET Tasks :
        /\ Woke(W)
        /\ lost' = lost \ W
        /\ pc' = [u \in Tasks |-> IF u \in W THEN "woken"
                                  ELSE IF u = t THEN "idle" ELSE pc[u]]
  BY WakeUpNextWoke DEF IInv
<1>2. PICK p : PoppedFrom(p, queue, W) /\ queue' = Settle(p, W)
  BY <1>1 DEF Woke
<1>3. W \subseteq Waiting /\ (Waiting # {} => W # {})
  BY <1>1 DEF Woke
<1>4. pc' \in [Tasks -> States]
  BY <1>1 DEF IInv, TypeOK, States
<1>5. Waiting' = Waiting \ W
  BY <1>1, <1>3 DEF Waiting
<1>6. Holding' = Holding \ {t}
  BY <1>1, <1>3 DEF Holding, Waiting
<1>7. Roused' = (Roused \ {t}) \cup W
  BY <1>1, <1>3 DEF Roused, Waiting
<1>8. queue' \in Deques
  BY <1>2, SettleDeques DEF PoppedFrom
<1>9. TypeOK'
  BY <1>1, <1>4, <1>8 DEF IInv, TypeOK, Woke, Deques, States
<1>10. LostIsWaiting'
  BY <1>1, <1>5 DEF IInv, LostIsWaiting
<1>11. LiveAreWaiting'
  <2>1. SUFFICES ASSUME NEW m \in AllManagers, NEW i \in DOMAIN queue'[m],
                        queue'[m][i] # DoneFut
                 PROVE  queue'[m][i] \in Waiting \ W
    BY <1>5 DEF LiveAreWaiting
  <2>2. i \in DOMAIN p[m] /\ queue'[m][i] = p[m][i] /\ p[m][i] \notin W
    BY <1>2, <2>1, SettleDeques DEF PoppedFrom
  <2>3. PICK j \in DOMAIN queue[m] : p[m][i] = queue[m][j]
    <3>1. queue[m] \in Seq(Tasks \cup {DoneFut}) /\ RestOf(p[m], queue[m], W)
      BY <1>2 DEF IInv, TypeOK, PoppedFrom
    <3> QED
      BY <2>2, <3>1, RestKeeps
  <2> QED
    BY <2>1, <2>2, <2>3 DEF IInv, LiveAreWaiting
<1>12. HeapCoherent'
  BY <1>1 DEF IInv, HeapCoherent, Woke
<1>13. MgrKnown'
  BY <1>1, <1>3 DEF IInv, MgrKnown, Waiting
<1>14. QueuedOnce'
  <2>1. Once(queue, Waiting) /\ queue \in Deques /\ Waiting \subseteq Tasks
    BY DEF IInv, QueuedOnce, Once, TypeOK, Deques, Waiting
  <2>2. \A u \in Waiting : mgr[u] \in AllManagers
    BY DEF IInv, MgrKnown, Waiting
  <2>3. Once(Settle(p, W), Waiting \ W)
    BY <1>2, <2>1, <2>2, PoppedOnce
  <2> QED
    BY <1>2, <1>5, <2>3 DEF QueuedOnce, Once
<1> QED
  BY <1>3, <1>5, <1>6, <1>7, <1>9, <1>10, <1>11, <1>12, <1>13, <1>14

\* If W is not empty and apart from R, replacing t by W keeps R as large.
LEMMA RousedGrows ==
    ASSUME NEW R \in SUBSET Tasks, NEW W \in SUBSET Tasks, NEW t,
           W # {}, W \cap R = {}
    PROVE  Cardinality((R \ {t}) \cup W)
             >= IF t \in R THEN Cardinality(R) ELSE Cardinality(R) + 1
<1>1. PICK w : w \in W
  OBVIOUS
<1>2. IsFiniteSet(R) /\ Cardinality(R) \in Nat
  BY FiniteTasks
<1>3. /\ IsFiniteSet(R \ {t})
      /\ Cardinality(R \ {t}) = IF t \in R THEN Cardinality(R) - 1 ELSE Cardinality(R)
  BY <1>2, FS_RemoveElement
<1>4. Cardinality((R \ {t}) \cup {w}) = Cardinality(R \ {t}) + 1
  BY <1>1, <1>3, FS_AddElement
<1>5. /\ IsFiniteSet((R \ {t}) \cup W)
      /\ Cardinality((R \ {t}) \cup W) \in Nat
  BY FiniteTasks
<1>6. Cardinality((R \ {t}) \cup {w}) <= Cardinality((R \ {t}) \cup W)
  BY <1>1, <1>5, FS_Subset
<1> QED
  BY <1>2, <1>3, <1>4, <1>5, <1>6

-----------------------------------------------------------------------------
LEMMA InitIInv == Init => IInv
<1> SUFFICES ASSUME Init PROVE IInv
  OBVIOUS
<1>1. << >> \in Seq(Tasks \cup {DoneFut}) /\ DOMAIN << >> = {}
  OBVIOUS
<1>2. TypeOK
  BY <1>1, CapacityAssumption DEF Init, TypeOK
<1>3. Waiting = {} /\ Holding = {}
  BY DEF Init, Waiting, Holding
<1>4. LiveAreWaiting
  BY <1>1 DEF Init, LiveAreWaiting
<1>5. PermitsConserved
  BY <1>3, FS_EmptySet, CapacityAssumption DEF Init, PermitsConserved
<1>6. QueuedOnce
  BY <1>1, <1>3 DEF Init, QueuedOnce
<1> QED
  BY <1>2, <1>3, <1>4, <1>5, <1>6
     DEF Init, IInv, MgrKnown, LostIsWaiting, HeapCoherent, NoLostWakeup

LEMMA GettersKeep ==
    ASSUME IInv, NEW t \in Tasks,
           \/ UseTop(t)
           \/ \E p \in Asked : GetManager(t, p)
           \/ \E m \in Managers : NewManager(t, m)
    PROVE  IInv'
<1>1. /\ value' = value /\ lost' = lost /\ pc' = pc
      /\ Waiting' = Waiting /\ Holding' = Holding /\ Roused' = Roused
  BY DEF UseTop, GetManager, NewManager, Waiting, Holding, Roused
<1>2. LostIsWaiting' /\ PermitsConserved' /\ NoLostWakeup'
  BY <1>1 DEF IInv, LostIsWaiting, PermitsConserved, NoLostWakeup
<1> USE DEF MgrKnown
<1>6. ASSUME queue' = queue, \A u \in Tasks \ {t} : mgr'[u] = mgr[u]
      PROVE  QueuedOnce'
  <2>1. \A u \in Waiting : mgr'[u] = mgr[u]
    BY <1>6 DEF UseTop, GetManager, NewManager, Waiting
  <2> QED
    BY <1>1, <1>6, <2>1 DEF IInv, QueuedOnce
<1>3. CASE UseTop(t)
  <2>1. TypeOK'
    BY <1>3 DEF IInv, TypeOK, UseTop
  <2>2. QueuedOnce'
    BY <1>3, <1>6 DEF IInv, TypeOK, UseTop
  <2> QED
    BY <1>1, <1>2, <1>3, <2>1, <2>2 DEF IInv, LiveAreWaiting, HeapCoherent, UseTop
<1>4. CASE \E p \in Asked : GetManager(t, p)
  <2>0. \A p \in Asked : KeyOf(p) \in Priorities
    BY DEF Priorities
  <2>1. TypeOK'
    BY <1>4, <2>0 DEF IInv, TypeOK, GetManager
  <2>2. QueuedOnce'
    BY <1>4, <1>6 DEF IInv, TypeOK, GetManager
  <2> QED
    BY <1>1, <1>2, <1>4, <2>1, <2>2 DEF IInv, LiveAreWaiting, HeapCoherent, GetManager
<1>5. CASE \E m \in Managers : NewManager(t, m)
  <2>1. PICK m \in Managers : NewManager(t, m)
    BY <1>5
  <2>2. << >> \in Seq(Tasks \cup {DoneFut}) /\ DOMAIN << >> = {}
    OBVIOUS
  <2>3. TypeOK'
    BY <2>1, <2>2 DEF IInv, TypeOK, NewManager
  <2>4. LiveAreWaiting'
    BY <1>1, <2>1, <2>2 DEF IInv, TypeOK, LiveAreWaiting, NewManager
  <2>5. HeapCoherent'
    BY <2>1, ManagersAssumption DEF IInv, TypeOK, HeapCoherent, NewManager
  <2>6. QueuedOnce'
    <3>1. /\ \A u \in Waiting : mgr[u] # m /\ mgr'[u] = mgr[u]
          /\ queue' = [queue EXCEPT ![m] = <<>>] /\ m \in AllManagers
      BY <2>1 DEF IInv, TypeOK, NewManager, Unreferenced, Waiting
    <3>2. queue'[m] = <<>> /\ \A k \in AllManagers \ {m} : queue'[k] = queue[k]
      BY <3>1 DEF IInv, TypeOK
    <3>3. \A u \in Waiting : mgr[u] \in AllManagers \ {m}
      BY <3>1 DEF IInv, Waiting
    <3>4. \A u \in Waiting' : \E i \in DOMAIN queue'[mgr'[u]] : queue'[mgr'[u]][i] = u
      BY <1>1, <3>1, <3>2, <3>3 DEF IInv, QueuedOnce
    <3>5. ASSUME NEW k \in AllManagers, NEW i \in DOMAIN queue'[k], queue'[k][i] # DoneFut
          PROVE  /\ queue'[k][i] \in Waiting' /\ mgr'[queue'[k][i]] = k
                 /\ \A j \in DOMAIN queue'[k] : queue'[k][j] = queue'[k][i] => i = j
      <4>1. k # m /\ queue'[k] = queue[k]
        BY <2>2, <3>2, <3>5
      <4> QED
        BY <1>1, <3>1, <3>5, <4>1 DEF IInv, QueuedOnce
    <3> QED
      BY <3>4, <3>5 DEF QueuedOnce
  <2> QED
    BY <1>1, <1>2, <2>1, <2>3, <2>4, <2>5, <2>6 DEF IInv, TypeOK, NewManager
<1> QED
  BY <1>3, <1>4, <1>5

\* A round of the acquire loop, by a task that is not waiting.
LEMMA TryAcquireKeeps ==
    ASSUME IInv, NEW t \in Tasks, pc[t] \in {"idle", "woken"},
           mgr[t] \in AllManagers,
           TryAcquire(t), UNCHANGED <<heap, cms, mgr>>
    PROVE  IInv'
<1>1. CASE value > 0 /\ value' = value - 1 /\ UNCHANGED <<queue, lost>>
           /\ pc' = [pc EXCEPT ![t] = "holding"]
  <2>1. TypeOK'
    BY <1>1 DEF IInv, TypeOK
  <2>2. Waiting' = Waiting
    BY <1>1 DEF Waiting, IInv, TypeOK
  <2>3. Holding' = Holding \cup {t} /\ t \notin Holding
    BY <1>1 DEF Holding, IInv, TypeOK
  <2>4. Roused' = Roused \ {t} /\ (t \in Roused <=> pc[t] = "woken")
    BY <1>1 DEF Roused, IInv, TypeOK
  <2>5. Cardinality(Holding') = Cardinality(Holding) + 1 /\ Cardinality(Holding) \in Nat
    <3>1. IsFiniteSet(Holding) /\ Cardinality(Holding) \in Nat
      BY FiniteTasks DEF Holding
    <3> QED
      BY <2>3, <3>1, FS_AddElement
  <2>6. PermitsConserved'
    BY <1>1, <2>5, CapacityAssumption DEF IInv, PermitsConserved, TypeOK
  <2>7. Cardinality(Roused') >= Cardinality(Roused) - 1 /\ Cardinality(Roused) \in Nat
    <3>1. IsFiniteSet(Roused) /\ Cardinality(Roused) \in Nat
      BY FiniteTasks DEF Roused
    <3>2. Cardinality(Roused \ {t}) =
            IF t \in Roused THEN Cardinality(Roused) - 1 ELSE Cardinality(Roused)
      BY <3>1, FS_RemoveElement
    <3> QED
      BY <2>4, <3>1, <3>2
  <2>8. NoLostWakeup'
    <3>1. Cardinality(Roused') \in Nat
      BY <2>4, FiniteTasks DEF Roused
    <3> QED
      BY <1>1, <2>2, <2>7, <3>1 DEF IInv, NoLostWakeup, TypeOK
  <2> QED
    BY <1>1, <2>1, <2>2, <2>6, <2>8
       DEF IInv, TypeOK, MgrKnown, LostIsWaiting, LiveAreWaiting, QueuedOnce, HeapCoherent
<1>2. CASE value <= 0 /\ UNCHANGED value
           /\ queue' = [queue EXCEPT ![mgr[t]] = Append(@, t)]
           /\ lost' = lost \cup {t}
           /\ pc' = [pc EXCEPT ![t] = "waiting"]
  <2>1. /\ Append(queue[mgr[t]], t) \in Seq(Tasks \cup {DoneFut})
        /\ DOMAIN Append(queue[mgr[t]], t) = 1..(Len(queue[mgr[t]]) + 1)
        /\ DOMAIN queue[mgr[t]] = 1..Len(queue[mgr[t]])
        /\ \A i \in 1..Len(queue[mgr[t]]) :
             Append(queue[mgr[t]], t)[i] = queue[mgr[t]][i]
        /\ Append(queue[mgr[t]], t)[Len(queue[mgr[t]]) + 1] = t
        /\ Len(queue[mgr[t]]) \in Nat
    <3>1. queue[mgr[t]] \in Seq(Tasks \cup {DoneFut})
      BY DEF IInv, TypeOK
    <3> QED
      BY <3>1, AppendProperties
  <2>2. TypeOK'
    BY <1>2, <2>1 DEF IInv, TypeOK
  <2>3. Waiting' = Waiting \cup {t}
    BY <1>2 DEF Waiting, IInv, TypeOK
  <2>4. Holding' = Holding
    BY <1>2 DEF Holding, IInv, TypeOK
  <2>5. LiveAreWaiting'
    <3>1. SUFFICES ASSUME NEW m \in AllManagers, NEW i \in DOMAIN queue'[m],
                          queue'[m][i] # DoneFut
                   PROVE  queue'[m][i] \in Waiting \cup {t}
      BY <2>3 DEF LiveAreWaiting
    <3>2. CASE m # mgr[t]
      BY <1>2, <3>1, <3>2 DEF IInv, TypeOK, LiveAreWaiting
    <3>3. CASE m = mgr[t]
      <4>1. queue'[m] = Append(queue[mgr[t]], t)
        BY <1>2, <3>3 DEF IInv, TypeOK
      <4>2. CASE i = Len(queue[mgr[t]]) + 1
        BY <2>1, <4>1, <4>2
      <4>3. CASE i # Len(queue[mgr[t]]) + 1
        <5>1. i \in DOMAIN queue[m] /\ queue'[m][i] = queue[m][i]
          BY <2>1, <3>1, <3>3, <4>1, <4>3
        <5> QED
          BY <3>1, <5>1 DEF IInv, LiveAreWaiting
      <4> QED
        BY <4>2, <4>3
    <3> QED
      BY <3>2, <3>3
  <2>6. NoLostWakeup'
    <3>1. Cardinality(Roused') \in Nat
      BY FiniteTasks DEF Roused
    <3> QED
      BY <1>2, <3>1 DEF IInv, NoLostWakeup, TypeOK
  <2>7. QueuedOnce'
    <3> DEFINE d == queue[mgr[t]]
    <3>1. /\ queue'[mgr[t]] = Append(d, t)
          /\ \A m \in AllManagers \ {mgr[t]} : queue'[m] = queue[m]
      BY <1>2 DEF IInv, TypeOK
    <3>2. /\ DOMAIN queue'[mgr[t]] = 1..(Len(d) + 1) /\ DOMAIN d = 1..Len(d)
          /\ queue'[mgr[t]][Len(d) + 1] = t
          /\ \A i \in 1..Len(d) : queue'[mgr[t]][i] = d[i]
          /\ \A i \in 1..(Len(d) + 1) : i \in 1..Len(d) \/ i = Len(d) + 1
          /\ Len(d) + 1 \in 1..(Len(d) + 1)
          /\ Len(d) + 1 \notin 1..Len(d)
          /\ 1..Len(d) \subseteq 1..(Len(d) + 1)
      <4>1. /\ \A i \in 1..(Len(d) + 1) : i \in 1..Len(d) \/ i = Len(d) + 1
            /\ Len(d) + 1 \in 1..(Len(d) + 1)
            /\ Len(d) + 1 \notin 1..Len(d)
            /\ 1..Len(d) \subseteq 1..(Len(d) + 1)
        BY <2>1
      <4> QED
        BY <2>1, <3>1, <4>1, Zenon
    <3>3. t \notin Waiting /\ \A m \in AllManagers : \A i \in DOMAIN queue[m] : queue[m][i] # t
      BY TasksAssumption DEF Waiting, IInv, LiveAreWaiting
    <3> HIDE DEF d
    <3>4. ASSUME NEW u \in Waiting'
          PROVE  \E i \in DOMAIN queue'[mgr'[u]] : queue'[mgr'[u]][i] = u
      <4>1. CASE u = t
        BY <3>2, <4>1
      <4>2. CASE u # t
        <5>1. u \in Waiting /\ mgr[u] \in AllManagers
          BY <2>3, <4>2 DEF IInv, MgrKnown, Waiting
        <5>2. PICK i \in DOMAIN queue[mgr[u]] : queue[mgr[u]][i] = u
          BY <5>1 DEF IInv, QueuedOnce
        <5> QED
          BY <3>1, <3>2, <5>1, <5>2 DEF d
      <4> QED
        BY <4>1, <4>2
    <3>5. ASSUME NEW m \in AllManagers, NEW i \in DOMAIN queue'[m], queue'[m][i] # DoneFut
          PROVE  /\ queue'[m][i] \in Waiting' /\ mgr'[queue'[m][i]] = m
                 /\ \A j \in DOMAIN queue'[m] : queue'[m][j] = queue'[m][i] => i = j
      <4>1. CASE m # mgr[t]
        BY <2>3, <3>1, <3>5, <4>1 DEF IInv, QueuedOnce
      <4>2. CASE m = mgr[t] /\ i = Len(d) + 1
        BY <2>3, <3>2, <3>3, <4>2 DEF d
      <4>3. CASE m = mgr[t] /\ i \in 1..Len(d)
        <5>1. i \in DOMAIN queue[m] /\ queue'[m][i] = queue[m][i]
          BY <3>2, <4>3 DEF d
        <5>2. /\ queue[m][i] \in Waiting /\ mgr[queue[m][i]] = m
              /\ \A j \in DOMAIN queue[m] : queue[m][j] = queue[m][i] => i = j
          BY <3>5, <5>1 DEF IInv, QueuedOnce
        <5>3. queue[m][i] # t
          BY <3>3, <5>2
        <5> QED
          BY <2>3, <3>2, <4>3, <5>1, <5>2, <5>3 DEF d
      <4> QED
        BY <3>2, <3>5, <4>1, <4>2, <4>3
    <3> QED
      BY <3>4, <3>5 DEF QueuedOnce
  <2> QED
    BY <1>2, <2>2, <2>3, <2>4, <2>5, <2>6, <2>7
       DEF IInv, TypeOK, MgrKnown, LostIsWaiting, HeapCoherent, PermitsConserved
<1> QED
  BY <1>1, <1>2 DEF TryAcquire

LEMMA CancelKeeps ==
    ASSUME IInv, NEW t \in Tasks, Cancel(t)
    PROVE  IInv'
<1>1. CASE pc[t] = "waiting" /\ queue' = Settle(queue, {t}) /\ lost' = lost \ {t}
           /\ pc' = [pc EXCEPT ![t] = "cancelled"]
  <2>1. UNCHANGED <<value, heap, cms, mgr>>
    BY DEF Cancel
  <2>2. queue \in Deques
    BY DEF IInv, TypeOK, Deques
  <2>3. queue' \in Deques
    BY <1>1, <2>2, SettleDeques
  <2>4. TypeOK'
    BY <1>1, <2>1, <2>3 DEF IInv, TypeOK, Deques
  <2>5. /\ Waiting' = Waiting \ {t} /\ Holding' = Holding /\ Roused' = Roused
    BY <1>1 DEF IInv, TypeOK, Waiting, Holding, Roused
  <2>6. LiveAreWaiting'
    <3>1. SUFFICES ASSUME NEW m \in AllManagers, NEW i \in DOMAIN queue'[m],
                          queue'[m][i] # DoneFut
                   PROVE  queue'[m][i] \in Waiting \ {t}
      BY <2>5 DEF LiveAreWaiting
    <3>2. i \in DOMAIN queue[m] /\ queue'[m][i] = queue[m][i] /\ queue[m][i] # t
      BY <1>1, <2>2, <3>1, SettleDeques
    <3> QED
      BY <3>1, <3>2 DEF IInv, LiveAreWaiting
  <2>7. QueuedOnce'
    <3>1. PoppedFrom(queue, queue, {t})
      BY <2>2, RestDeque DEF PoppedFrom, Deques
    <3>2. /\ Once(queue, Waiting) /\ Waiting \subseteq Tasks
          /\ \A u \in Waiting : mgr[u] \in AllManagers
      BY DEF IInv, QueuedOnce, Once, MgrKnown, Waiting
    <3>3. Once(Settle(queue, {t}), Waiting \ {t})
      BY <2>2, <3>1, <3>2, PoppedOnce
    <3> QED
      BY <1>1, <2>1, <2>5, <3>3 DEF QueuedOnce, Once
  <2> QED
    BY <1>1, <2>1, <2>4, <2>5, <2>6, <2>7
       DEF IInv, TypeOK, MgrKnown, LostIsWaiting, HeapCoherent, PermitsConserved,
           NoLostWakeup
<1>2. CASE pc[t] = "woken" /\ pc' = [pc EXCEPT ![t] = "wokenCancelled"]
           /\ UNCHANGED <<queue, lost>>
  <2>1. UNCHANGED <<value, heap, cms, mgr>>
    BY DEF Cancel
  <2>2. TypeOK'
    BY <1>2, <2>1 DEF IInv, TypeOK
  <2>3. Waiting' = Waiting /\ Holding' = Holding /\ Roused' = Roused
    BY <1>2 DEF IInv, TypeOK, Waiting, Holding, Roused
  <2>4. MgrKnown'
    BY <1>2, <2>1 DEF IInv, TypeOK, MgrKnown
  <2>5. LostIsWaiting' /\ LiveAreWaiting' /\ QueuedOnce'
    BY <1>2, <2>1, <2>3 DEF IInv, LostIsWaiting, LiveAreWaiting, QueuedOnce
  <2>6. HeapCoherent' /\ PermitsConserved' /\ NoLostWakeup'
    BY <2>1, <2>3 DEF IInv, HeapCoherent, PermitsConserved, NoLostWakeup
  <2> QED
    BY <2>2, <2>4, <2>5, <2>6 DEF IInv
<1> QED
  BY <1>1, <1>2 DEF Cancel

LEMMA CancelStepKeeps ==
    ASSUME IInv, NEW t \in Tasks, CancelStep(t)
    PROVE  IInv'
<1>1. CASE /\ pc[t] = "cancelled" \/ (pc[t] = "wokenCancelled" /\ value <= 0)
           /\ pc' = [pc EXCEPT ![t] = "idle"]
           /\ UNCHANGED <<value, queue, heap, cms, lost, mgr>>
  <2>1. TypeOK'
    BY <1>1 DEF IInv, TypeOK
  <2>2. Waiting' = Waiting /\ Holding' = Holding
    BY <1>1 DEF IInv, TypeOK, Waiting, Holding
  <2>3. NoLostWakeup'
    <3>1. CASE pc[t] = "cancelled"
      <4>1. Roused' = Roused
        BY <1>1, <3>1 DEF IInv, TypeOK, Roused
      <4> QED
        BY <1>1, <2>2, <4>1 DEF IInv, NoLostWakeup
    <3>2. CASE value <= 0
      <4>1. Cardinality(Roused') \in Nat
        BY FiniteTasks DEF Roused
      <4> QED
        BY <1>1, <3>2, <4>1 DEF IInv, TypeOK, NoLostWakeup
    <3> QED
      BY <1>1, <3>1, <3>2
  <2> QED
    BY <1>1, <2>1, <2>2, <2>3
       DEF IInv, TypeOK, MgrKnown, LostIsWaiting, LiveAreWaiting, QueuedOnce,
           HeapCoherent, PermitsConserved
<1>2. CASE /\ pc[t] = "wokenCancelled"
           /\ value > 0
           /\ WakeUpNext(t, "idle")
           /\ UNCHANGED <<value, mgr>>
  <2>1. value' \in Nat /\ t \notin Waiting /\ t \notin Holding /\ t \in Roused
    BY <1>2 DEF IInv, TypeOK, Waiting, Holding, Roused
  <2>2. /\ TypeOK' /\ LostIsWaiting' /\ LiveAreWaiting' /\ HeapCoherent' /\ MgrKnown'
        /\ QueuedOnce' /\ Holding' = Holding
    BY <1>2, <2>1, WakeKeeps
  <2>3. PermitsConserved'
    BY <1>2, <2>2 DEF IInv, PermitsConserved
  <2>4. NoLostWakeup'
    <3>1. PICK W \in SUBSET Waiting :
            /\ Waiting # {} => W # {}
            /\ Waiting' = Waiting \ W
            /\ Roused' = (Roused \ {t}) \cup W
      BY <1>2, <2>1, WakeKeeps
    <3>2. SUFFICES ASSUME Waiting' # {} PROVE Cardinality(Roused') >= value'
      BY DEF NoLostWakeup
    <3>3. W # {} /\ W \cap Roused = {} /\ W \subseteq Tasks /\ Roused \subseteq Tasks
      BY <3>1, <3>2 DEF Waiting, Roused
    <3>4. Cardinality(Roused') >= Cardinality(Roused)
      BY <2>1, <3>1, <3>3, RousedGrows
    <3>5. Cardinality(Roused) >= value
      BY <3>1, <3>2 DEF IInv, NoLostWakeup
    <3>6. Cardinality(Roused) \in Nat /\ Cardinality(Roused') \in Nat
      BY FiniteTasks DEF Roused
    <3> QED
      BY <1>2, <3>4, <3>5, <3>6 DEF IInv, TypeOK
  <2> QED
    BY <2>2, <2>3, <2>4 DEF IInv
<1> QED
  BY <1>1, <1>2 DEF CancelStep

LEMMA ReleaseKeeps ==
    ASSUME IInv, NEW t \in Tasks, Release(t)
    PROVE  IInv'
<1>1. /\ pc[t] = "holding" /\ value' = value + 1 /\ WakeUpNext(t, "idle") /\ mgr' = mgr
  BY DEF Release
<1>2. value' \in Nat /\ t \notin Waiting /\ t \in Holding /\ t \notin Roused
  BY <1>1 DEF IInv, TypeOK, Waiting, Holding, Roused
<1>3. /\ TypeOK' /\ LostIsWaiting' /\ LiveAreWaiting' /\ HeapCoherent' /\ MgrKnown'
      /\ QueuedOnce' /\ Holding' = Holding \ {t}
  BY <1>1, <1>2, WakeKeeps
<1>4. PermitsConserved'
  <2>1. IsFiniteSet(Holding) /\ Cardinality(Holding) \in Nat
    BY FiniteTasks DEF Holding
  <2>2. Cardinality(Holding \ {t}) = Cardinality(Holding) - 1
    BY <1>2, <2>1, FS_RemoveElement
  <2> QED
    BY <1>1, <1>3, <2>1, <2>2, CapacityAssumption DEF IInv, TypeOK, PermitsConserved
<1>5. NoLostWakeup'
  <2>1. PICK W \in SUBSET Waiting :
          /\ Waiting # {} => W # {}
          /\ Waiting' = Waiting \ W
          /\ Roused' = (Roused \ {t}) \cup W
    BY <1>1, <1>2, WakeKeeps
  <2>2. SUFFICES ASSUME Waiting' # {} PROVE Cardinality(Roused') >= value'
    BY DEF NoLostWakeup
  <2>3. W # {} /\ W \cap Roused = {} /\ W \subseteq Tasks /\ Roused \subseteq Tasks
    BY <2>1, <2>2 DEF Waiting, Roused
  <2>4. Cardinality(Roused') >= Cardinality(Roused) + 1
    BY <1>2, <2>1, <2>3, RousedGrows
  <2>5. Cardinality(Roused) >= value
    BY <2>1, <2>2 DEF IInv, NoLostWakeup
  <2>6. Cardinality(Roused) \in Nat /\ Cardinality(Roused') \in Nat
    BY FiniteTasks DEF Roused
  <2> QED
    BY <1>1, <2>4, <2>5, <2>6 DEF IInv, TypeOK
<1> QED
  BY <1>3, <1>4, <1>5 DEF IInv

LEMMA NextKeepsIInv == IInv /\ [Next]_vars => IInv'
<1> SUFFICES ASSUME IInv, [Next]_vars PROVE IInv'
  OBVIOUS
<1>1. CASE UNCHANGED vars
  BY <1>1 DEF vars, IInv, TypeOK, MgrKnown, LostIsWaiting, LiveAreWaiting,
              QueuedOnce, HeapCoherent, PermitsConserved, NoLostWakeup, Waiting, Holding, Roused
<1>2. CASE Next
  <2>1. PICK t \in Tasks :
          \/ UseTop(t)
          \/ \E p \in Asked : GetManager(t, p)
          \/ \E m \in Managers : NewManager(t, m)
          \/ Acquire(t)
          \/ Resume(t)
          \/ Cancel(t)
          \/ CancelStep(t)
          \/ Release(t)
    BY <1>2 DEF Next
  <2>2. CASE Acquire(t)
    <3>1. mgr[t] \in AllManagers
      BY <2>2 DEF Acquire, IInv, TypeOK
    <3> QED
      BY <2>2, <3>1, TryAcquireKeeps DEF Acquire
  <2>3. CASE Resume(t)
    <3>1. mgr[t] \in AllManagers
      BY <2>3 DEF Resume, IInv, MgrKnown
    <3> QED
      BY <2>3, <3>1, TryAcquireKeeps DEF Resume
  <2> QED
    BY <2>1, <2>2, <2>3, GettersKeep, CancelKeeps, CancelStepKeeps, ReleaseKeeps
<1> QED
  BY <1>1, <1>2

LEMMA SpecIInv == Spec => []IInv
BY InitIInv, NextKeepsIInv, PTL DEF Spec

-----------------------------------------------------------------------------
\* The variables keep their types: no wake-up leaves a malformed deque or dict.
THEOREM TypeCorrect == Spec => []TypeOK
<1>1. IInv => TypeOK
  BY DEF IInv
<1> QED
  BY <1>1, SpecIInv, PTL

\* No permit is made or lost, so there are never more holders than permits:
\* acquiring, releasing and cancelling keep the count for any number of tasks.
THEOREM PermitsAreConserved == Spec => []PermitsConserved
<1>1. IInv => PermitsConserved
  BY DEF IInv
<1> QED
  BY <1>1, SpecIInv, PTL

\* No wake-up is lost: while somebody waits there is a task on its way to each
\* free permit, whatever _wake_up_next did to the heap and the dict.
THEOREM NoWakeupIsLost == Spec => []NoLostWakeup
<1>1. IInv => NoLostWakeup
  BY DEF IInv
<1> QED
  BY <1>1, SpecIInv, PTL

\* _potential_lost_waiters has every waiter, and no deque has a pending future
\* of anybody else.
THEOREM WaitersAreReachable == Spec => [](LostCoversWaiting /\ LiveAreWaiting)
<1>1. IInv => LostCoversWaiting /\ LiveAreWaiting
  BY DEF IInv, LostIsWaiting, LostCoversWaiting
<1> QED
  BY <1>1, SpecIInv, PTL

\* A waiter has one pending future, in the deque of the manager it used, and no
\* wake-up strands it in a deque that was dropped or popped past it.
THEOREM WaitersAreQueuedOnce == Spec => []QueuedOnce
<1>1. IInv => QueuedOnce
  BY DEF IInv
<1> QED
  BY <1>1, SpecIInv, PTL

\* Only a wake-up makes a waiting task a woken one, and it wakes the first one
\* of the top manager as long as there is any.
LEMMA TopGoesFirst ==
    ASSUME IInv, [Next]_vars, NEW t \in Tasks, NEW u \in Tasks,
           Wakes(t), KeepsWaiting(u), mgr[u] = Top
    PROVE  mgr[t] = Top
<1>1. pc \in [Tasks -> States] /\ t \in Waiting
  BY DEF IInv, TypeOK, States, Wakes, Waiting
<1>2. PICK v \in Tasks : pc[v] # "waiting" /\ WakeUpNext(v, "idle")
  <2>1. \A v \in Tasks : ~TryAcquire(v)
    BY <1>1 DEF TryAcquire, Wakes
  <2>2. \A v \in Tasks : ~Cancel(v)
    BY <1>1 DEF Cancel, Wakes
  <2>3. pc' # pc
    BY DEF Wakes
  <2>4. \E v \in Tasks : CancelStep(v) \/ Release(v)
    BY <2>1, <2>2, <2>3 DEF vars, Next, UseTop, GetManager, NewManager, Acquire, Resume
  <2>5. \A v \in Tasks : pc' # [pc EXCEPT ![v] = "idle"]
    BY <1>1 DEF Wakes
  <2> QED
    BY <2>4, <2>5 DEF CancelStep, Release
<1>3. PICK W \in SUBSET Tasks :
        /\ Woke(W)
        /\ pc' = [x \in Tasks |-> IF x \in W THEN "woken"
                                  ELSE IF x = v THEN "idle" ELSE pc[x]]
  BY <1>2, WakeUpNextWoke DEF IInv
<1>4. t \in W
  BY <1>3 DEF Wakes
<1>5. HasLive(Top)
  <2>1. u \in Waiting /\ u # DoneFut
    BY TasksAssumption DEF KeepsWaiting, Waiting
  <2> QED
    BY <2>1 DEF IInv, QueuedOnce, HasLive
<1>6. PICK i \in DOMAIN queue[Top] : queue[Top][i] # DoneFut /\ W = {queue[Top][i]}
  BY <1>3, <1>5 DEF Woke
<1> QED
  BY <1>4, <1>6 DEF IInv, QueuedOnce

\* Nobody who named a priority is woken while somebody who named none keeps
\* waiting, for any number of tasks, priorities and stale managers.
THEOREM TopIsServedFirst == Spec => TopFirst
<1>1. ASSUME IInv, [Next]_vars
      PROVE  \A t, u \in Tasks :
               (Wakes(t) /\ KeepsWaiting(u) /\ mgr[u] = Top) => mgr[t] = Top
  BY <1>1, TopGoesFirst
<1>2. IInv /\ [Next]_vars =>
        [\A t, u \in Tasks :
           (Wakes(t) /\ KeepsWaiting(u) /\ mgr[u] = Top) => mgr[t] = Top]_vars
  BY <1>1
<1> QED
  BY <1>2, SpecIInv, PTL DEF Spec, TopFirst

\* The heap's managers are the dict's: _context_managers.pop never raises
\* KeyError and never drops a manager other than the one popped from the heap.
THEOREM HeapIsCoherent == Spec => []HeapCoherent
<1>1. IInv => HeapCoherent
  BY DEF IInv
<1> QED
  BY <1>1, SpecIInv, PTL

-----------------------------------------------------------------------------
Want == {t \in Tasks : pc[t] \in {"waiting", "woken", "cancelled", "wokenCancelled"}}

\* PermitPool counts holders as this module does.
LEMMA PoolCardinality == \A S : Pool!Cardinality(S) = Cardinality(S)
BY DEF Pool!Cardinality, Cardinality

\* One call of _wake_up_next moves the task that makes it, and wakes others.
LEMMA WakeUpNextMoves ==
    ASSUME IInv, NEW t \in Tasks, NEW to, pc[t] # "waiting", WakeUpNext(t, to)
    PROVE  /\ pc'[t] = to
           /\ \A u \in Tasks \ {t} :
                pc'[u] = pc[u] \/ (pc[u] = "waiting" /\ pc'[u] = "woken")
<1>1. PICK W \in SUBSET Tasks :
        /\ Woke(W)
        /\ pc' = [u \in Tasks |-> IF u \in W THEN "woken"
                                  ELSE IF u = t THEN to ELSE pc[u]]
  BY WakeUpNextWoke DEF IInv
<1>2. W \subseteq Waiting
  BY <1>1 DEF Woke
<1> QED
  BY <1>1, <1>2 DEF Waiting

\* A task that takes a permit asked for it, or asks now, and finds it free; one
\* that does not waits.
LEMMA TryAcquireOfPool ==
    ASSUME IInv, NEW t \in Tasks, pc[t] \in {"idle", "woken"}, TryAcquire(t)
    PROVE  Pool!PoolNext \/ UNCHANGED <<Want, Holding>>
<1>1. pc \in [Tasks -> States] /\ value \in Nat
  BY DEF IInv, TypeOK, States
<1>2. CASE value > 0 /\ pc' = [pc EXCEPT ![t] = "holding"]
  <2>1. Pool!Cardinality(Holding) < Capacity
    <3>1. Cardinality(Holding) \in Nat
      BY FiniteTasks DEF Holding
    <3> QED
      BY <1>1, <1>2, <3>1, PoolCardinality, CapacityAssumption DEF IInv, PermitsConserved
  <2>2. Holding' = Holding \cup {t}
    BY <1>1, <1>2 DEF Holding
  <2>3. CASE pc[t] = "woken"
    <3>1. t \in Want /\ Want' = Want \ {t}
      BY <1>1, <1>2, <2>3 DEF Want
    <3> QED
      BY <2>1, <2>2, <3>1 DEF Pool!PoolNext, Pool!Grant, Want, Holding
  <2>4. CASE pc[t] = "idle"
    <3>1. t \notin Want \cup Holding /\ Want' = Want
      BY <1>1, <1>2, <2>4 DEF Want, Holding
    <3> QED
      BY <2>1, <2>2, <3>1 DEF Pool!PoolNext, Pool!Take, Want, Holding
  <2> QED
    BY <2>3, <2>4
<1>3. CASE pc' = [pc EXCEPT ![t] = "waiting"]
  <2>1. Holding' = Holding
    BY <1>1, <1>3 DEF Holding
  <2>2. CASE pc[t] = "woken"
    BY <1>1, <1>3, <2>1, <2>2 DEF Want
  <2>3. CASE pc[t] = "idle"
    <3>1. t \notin Want \cup Holding /\ Want' = Want \cup {t}
      BY <1>1, <1>3, <2>3 DEF Want, Holding
    <3> QED
      BY <2>1, <3>1 DEF Pool!PoolNext, Pool!Ask, Want, Holding
  <2> QED
    BY <2>2, <2>3
<1> QED
  BY <1>2, <1>3 DEF TryAcquire

\* Every step is one of the pool, or none: whomever a wake-up reaches, it gives
\* nobody a permit.
LEMMA StepOfPool ==
    ASSUME IInv, Next
    PROVE  Pool!PoolNext \/ UNCHANGED <<Want, Holding>>
<1>1. PICK t \in Tasks :
        \/ UseTop(t)
        \/ \E p \in Asked : GetManager(t, p)
        \/ \E m \in Managers : NewManager(t, m)
        \/ Acquire(t)
        \/ Resume(t)
        \/ Cancel(t)
        \/ CancelStep(t)
        \/ Release(t)
  BY DEF Next
<1>2. pc \in [Tasks -> States]
  BY DEF IInv, TypeOK, States
<1>3. CASE \/ UseTop(t)
           \/ \E p \in Asked : GetManager(t, p)
           \/ \E m \in Managers : NewManager(t, m)
  BY <1>3 DEF UseTop, GetManager, NewManager, Want, Holding
<1>4. CASE Acquire(t) \/ Resume(t)
  BY <1>4, TryAcquireOfPool DEF Acquire, Resume
<1>5. CASE Cancel(t)
  BY <1>2, <1>5 DEF Cancel, Want, Holding
<1>6. CASE CancelStep(t)
  <2>1. /\ pc[t] \in {"cancelled", "wokenCancelled"} /\ pc'[t] = "idle"
        /\ \A u \in Tasks \ {t} :
             pc'[u] = pc[u] \/ (pc[u] = "waiting" /\ pc'[u] = "woken")
    <3>1. CASE pc' = [pc EXCEPT ![t] = "idle"]
      BY <1>2, <1>6, <3>1 DEF CancelStep
    <3>2. CASE pc[t] = "wokenCancelled" /\ WakeUpNext(t, "idle")
      BY <3>2, WakeUpNextMoves
    <3> QED
      BY <1>6, <3>1, <3>2 DEF CancelStep
  <2>2. t \in Want /\ Want' = Want \ {t} /\ Holding' = Holding
    BY <2>1 DEF Want, Holding
  <2> QED
    BY <2>2 DEF Pool!PoolNext, Pool!Withdraw, Want, Holding
<1>7. CASE Release(t)
  <2>1. /\ pc[t] = "holding" /\ pc'[t] = "idle"
        /\ \A u \in Tasks \ {t} :
             pc'[u] = pc[u] \/ (pc[u] = "waiting" /\ pc'[u] = "woken")
    BY <1>7, WakeUpNextMoves DEF Release
  <2>2. t \in Holding /\ Holding' = Holding \ {t} /\ Want' = Want
    BY <2>1 DEF Want, Holding
  <2> QED
    BY <2>2 DEF Pool!PoolNext, Pool!GiveBack, Want, Holding
<1> QED
  BY <1>1, <1>3, <1>4, <1>5, <1>6, <1>7

\* The priority semaphore is a pool of Capacity permits, as far as single steps
\* go: a task gets only what it asked for, and only while a permit is free.
THEOREM StepsArePoolSteps == Spec => PoolSafety
<1>1. Init => Pool!PoolInit
  BY DEF Init, Pool!PoolInit, Holding
<1>2. IInv /\ [Next]_vars => [Pool!PoolNext]_Pool!poolVars
  <2> SUFFICES ASSUME IInv, [Next]_vars
               PROVE  Pool!PoolNext \/ UNCHANGED <<Want, Holding>>
    BY DEF Pool!poolVars, Want, Holding
  <2>1. CASE UNCHANGED vars
    BY <2>1 DEF vars, Want, Holding
  <2> QED
    BY <2>1, StepOfPool
<1> QED
  BY <1>1, <1>2, SpecIInv, PTL DEF Spec, PoolSafety
=============================================================================
