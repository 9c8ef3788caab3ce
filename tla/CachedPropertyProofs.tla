------------------------ MODULE CachedPropertyProofs ------------------------
(***************************************************************************)
(* The loader of a cached property starts its getter once, and nobody      *)
(* takes away the task or the lock of somebody else, for any number of     *)
(* callers that are cancelled at any time.                                 *)
(*                                                                         *)
(* In the second part (Expr, with variables of its own): ASyncFuture, the  *)
(* other computation that several tasks await.  All who await it are told  *)
(* the same, its task runs once, and the cancellation of a caller reaches  *)
(* others through a future that they share with it, and not otherwise.     *)
(***************************************************************************)
EXTENDS CachedProperty, FiniteSetTheorems, SequenceTheorems, TLAPS

UnderLock == {"inside", "awaits", "leaves"}
Waits == {"queued", "woken"}

\* A caller has a lock in its hands from when it asks until it has left.
LockInHand ==
    \A c \in Callers : lock[c] # None <=> (pc[c] \in UnderLock \cup Waits \/ running = c)

\* Who runs is under the lock or about to leave, and nobody else is inside.
RunsInside ==
    \A c \in Callers :
        /\ running = c => pc[c] \in UnderLock \cup Ended
        /\ pc[c] \in {"inside", "leaves"} => running = c

\* Who is under a lock holds it.
Holds == \A c \in Callers : pc[c] \in UnderLock => holder[lock[c]] = c

\* The queue of a lock has those who wait for it, each once.
QueueHasWaiters ==
    /\ \A k \in Locks : \A i \in DOMAIN queue[k] :
          /\ lock[queue[k][i]] = k /\ pc[queue[k][i]] \in Waits
          /\ \A j \in DOMAIN queue[k] : queue[k][i] = queue[k][j] => i = j
    /\ \A c \in Callers : pc[c] \in Waits => \E i \in DOMAIN queue[lock[c]] : queue[lock[c]][i] = c

\* Only the first is woken, of a lock that nobody holds.
FirstIsWoken ==
    \A c \in Callers : pc[c] = "woken" =>
        /\ holder[lock[c]] = None
        /\ 1 \in DOMAIN queue[lock[c]] /\ queue[lock[c]][1] = c

\* While nothing is cached everybody has the lock of the entry,
OneLock == cache = None => \A c \in Callers : lock[c] # None => lock[c] = locked

\* whoever awaits a task awaits that of the entry, under the lock of the entry,
AwaitsTheTask ==
    \A c \in Callers : pc[c] = "awaits" =>
        awaited[c] \in Loads /\ tasks = awaited[c] /\ locked = lock[c]

\* and a task that runs is that of the entry.
RunsInDict == \A n \in Loads : load[n] = "runs" => tasks = n

\* Locks hold in any case, tasks while nobody deleted the value under a load.
IInv ==
    /\ TypeOK
    /\ LockInHand /\ RunsInside /\ Holds /\ QueueHasWaiters /\ FirstIsWoken
    /\ dirty \/ (OneLock /\ AwaitsTheTask /\ RunsInDict /\ NobodyElsePopped)

-----------------------------------------------------------------------------
\* There is a lock that nobody has, since there are more locks than callers.
LEMMA FreeLock ==
    ASSUME TypeOK
    PROVE  /\ LockOf \in Locks
           /\ locked = None => \A c \in Callers : lock[c] # LockOf
<1> DEFINE N == Cardinality(Callers)
           Taken == {lock[c] : c \in Callers}
<1>1. N \in Nat
    BY CallersAssumption, FS_CardinalityType
<1>2. IsFiniteSet(Taken) /\ Cardinality(Taken) <= N
    <2>1. lock \in Surjection(Callers, Taken)
        BY DEF TypeOK, Surjection
    <2> QED BY <2>1, CallersAssumption, FS_Surjection
<1>3. Cardinality(Locks) = N + 1
    BY <1>1, FS_Interval DEF Locks
<1>4. \E k \in Locks : k \notin Taken
    <2>1. SUFFICES ASSUME Locks \subseteq Taken PROVE FALSE
        OBVIOUS
    <2>2. Cardinality(Locks) <= Cardinality(Taken)
        BY <1>2, <2>1, FS_Subset
    <2>3. Cardinality(Taken) \in Nat
        BY <1>2, FS_CardinalityType
    <2> QED BY <1>1, <1>2, <1>3, <2>2, <2>3
<1>5. CASE locked = None
    BY <1>4, <1>5 DEF LockOf
<1>6. CASE locked # None
    BY <1>6 DEF LockOf, TypeOK
<1> QED BY <1>5, <1>6

\* A queue in which nobody waits twice, without one of those who wait in it.
LEMMA QueueWithout ==
    ASSUME NEW q \in Seq(Callers), NEW p \in DOMAIN q,
           \A i, j \in DOMAIN q : q[i] = q[j] => i = j
    PROVE  LET r == Without(q, q[p])
           IN  /\ r \in Seq(Callers)
               /\ \A j \in DOMAIN r : r[j] # q[p] /\ \E i \in DOMAIN q : r[j] = q[i]
               /\ \A i, j \in DOMAIN r : r[i] = r[j] => i = j
               /\ \A i \in DOMAIN q : i # p => \E j \in DOMAIN r : r[j] = q[i]
               /\ p # 1 => 1 \in DOMAIN r /\ r[1] = q[1]
<1> DEFINE r == Without(q, q[p])
           e(j) == IF j < p THEN j ELSE j + 1
<1>1. (CHOOSE i \in DOMAIN q : q[i] = q[p]) = p
    OBVIOUS
<1>2. r = [j \in 1..(Len(q) - 1) |-> IF j < p THEN q[j] ELSE q[j + 1]]
    BY <1>1 DEF Without
<1>3. /\ r \in Seq(Callers) /\ DOMAIN r = 1..(Len(q) - 1)
      /\ \A j \in DOMAIN r : r[j] = IF j < p THEN q[j] ELSE q[j + 1]
    <2>1. Len(q) - 1 \in Nat
        OBVIOUS
    <2>2. \A j \in 1..(Len(q) - 1) : (IF j < p THEN q[j] ELSE q[j + 1]) \in Callers
        OBVIOUS
    <2> HIDE DEF r
    <2> QED BY <1>2, <2>1, <2>2
<1>4. Len(q) \in Nat /\ DOMAIN q = 1..Len(q) /\ p \in 1..Len(q)
    OBVIOUS
<1> HIDE DEF r
<1>5. ASSUME NEW j \in DOMAIN r
      PROVE  e(j) \in DOMAIN q /\ e(j) # p /\ r[j] = q[e(j)]
    BY <1>3, <1>4
<1>6. ASSUME NEW i \in DOMAIN r, NEW j \in DOMAIN r, e(i) = e(j)
      PROVE  i = j
    BY <1>3, <1>4, <1>6
<1>7. ASSUME NEW i \in DOMAIN q, i # p
      PROVE  \E j \in DOMAIN r : r[j] = q[i]
    <2>1. CASE i < p
        BY <1>3, <1>4, <2>1
    <2>2. CASE ~(i < p)
        <3>1. i - 1 \in DOMAIN r /\ ~(i - 1 < p) /\ (i - 1) + 1 = i
            BY <1>3, <1>4, <1>7, <2>2
        <3> QED BY <1>3, <3>1
    <2> QED BY <2>1, <2>2
<1>8. p # 1 => 1 \in DOMAIN r /\ r[1] = q[1]
    BY <1>3, <1>4
<1> HIDE DEF e
<1>9. \A j \in DOMAIN r : r[j] # q[p] /\ \E i \in DOMAIN q : r[j] = q[i]
    BY <1>5
<1>10. \A i, j \in DOMAIN r : r[i] = r[j] => i = j
    BY <1>5, <1>6
<1> QED BY <1>3, <1>7, <1>8, <1>9, <1>10 DEF r

\* What the queue of a lock is without one of those who wait for it.
LEMMA WaiterLeaves ==
    ASSUME IInv, NEW c \in Callers, pc[c] \in Waits
    PROVE  LET q == queue[lock[c]]
               r == Without(q, c)
           IN  /\ lock[c] \in Locks
               /\ r \in Seq(Callers)
               /\ \A j \in DOMAIN r : r[j] # c /\ \E i \in DOMAIN q : r[j] = q[i]
               /\ \A i, j \in DOMAIN r : r[i] = r[j] => i = j
               /\ \A i \in DOMAIN q : q[i] # c => \E j \in DOMAIN r : r[j] = q[i]
               /\ 1 \in DOMAIN q /\ q[1] # c => 1 \in DOMAIN r /\ r[1] = q[1]
<1>1. lock[c] \in Locks
    BY DEF IInv, TypeOK, LockInHand
<1> DEFINE q == queue[lock[c]]
<1>2. /\ q \in Seq(Callers)
      /\ \A i, j \in DOMAIN q : q[i] = q[j] => i = j
    BY <1>1 DEF IInv, TypeOK, QueueHasWaiters
<1>3. PICK p \in DOMAIN q : q[p] = c
    BY DEF IInv, QueueHasWaiters
<1> HIDE DEF q
<1>4. LET r == Without(q, c)
      IN  /\ r \in Seq(Callers)
          /\ \A j \in DOMAIN r : r[j] # c /\ \E i \in DOMAIN q : r[j] = q[i]
          /\ \A i, j \in DOMAIN r : r[i] = r[j] => i = j
          /\ \A i \in DOMAIN q : i # p => \E j \in DOMAIN r : r[j] = q[i]
          /\ p # 1 => 1 \in DOMAIN r /\ r[1] = q[1]
    BY <1>2, <1>3, QueueWithout
<1> QED BY <1>1, <1>3, <1>4 DEF q

-----------------------------------------------------------------------------
\* The invariant holds at the start.
LEMMA InitHolds == Init => IInv
<1> SUFFICES ASSUME Init PROVE IInv
    OBVIOUS
<1>1. TypeOK
    <2>1. <<>> \in Seq(Callers)
        OBVIOUS
    <2> QED BY <2>1 DEF Init, TypeOK, Ended
<1>2. LockInHand /\ RunsInside /\ Holds /\ FirstIsWoken
    BY NoneAssumption DEF Init, LockInHand, RunsInside, Holds, FirstIsWoken, UnderLock, Waits
<1>3. QueueHasWaiters
    BY DEF Init, QueueHasWaiters, Waits
<1>4. OneLock /\ AwaitsTheTask /\ RunsInDict /\ NobodyElsePopped
    BY DEF Init, OneLock, AwaitsTheTask, RunsInDict, NobodyElsePopped
<1> QED BY <1>1, <1>2, <1>3, <1>4 DEF IInv

-----------------------------------------------------------------------------
\* Every step keeps the types.
LEMMA TypesAreKept ==
    ASSUME IInv, [Next]_vars
    PROVE  TypeOK'
<1>1. CASE UNCHANGED vars
    BY <1>1 DEF IInv, TypeOK, vars
<1>2. ASSUME NEW c \in Callers, AskLock(c)
      PROVE  TypeOK'
    <2>1. LockOf \in Locks
        BY FreeLock DEF IInv
    <2>2. Append(queue[LockOf], c) \in Seq(Callers)
        BY <2>1 DEF IInv, TypeOK
    <2>3. /\ queue' \in [Locks -> Seq(Callers)] /\ holder' \in [Locks -> Callers \cup {None}]
          /\ pc' \in [Callers -> Ended \cup {"idle", "queued", "woken", "inside", "awaits", "leaves"}]
          /\ running' \in Callers \cup {None}
        BY <1>2, <2>1, <2>2 DEF AskLock, IInv, TypeOK
    <2> QED BY <1>2, <2>1, <2>3 DEF AskLock, IInv, TypeOK
<1>3. ASSUME NEW c \in Callers, Acquire(c) \/ StopQueueing(c)
      PROVE  TypeOK'
    <2>1. lock[c] \in Locks /\ Without(queue[lock[c]], c) \in Seq(Callers)
        BY <1>3, WaiterLeaves DEF Acquire, StopQueueing, Waits
    <2>2. queue' \in [Locks -> Seq(Callers)]
        BY <1>3, <2>1 DEF Acquire, StopQueueing, IInv, TypeOK
    <2>3. CASE Acquire(c)
        BY <2>1, <2>2, <2>3 DEF Acquire, IInv, TypeOK
    <2>4. CASE StopQueueing(c)
        BY <2>1, <2>2, <2>4 DEF StopQueueing, IInv, TypeOK, Ended
    <2> QED BY <1>3, <2>3, <2>4
<1>4. ASSUME NEW c \in Callers, FindValue(c) \/ Join(c) \/ \E n \in Loads : Create(c, n)
      PROVE  TypeOK'
    <2>1. CASE FindValue(c)
        BY <2>1 DEF FindValue, IInv, TypeOK
    <2>2. CASE Join(c)
        BY <2>2 DEF Join, IInv, TypeOK
    <2>3. ASSUME NEW n \in Loads, Create(c, n)
          PROVE  TypeOK'
        BY <2>3 DEF Create, IInv, TypeOK
    <2> QED BY <1>4, <2>1, <2>2, <2>3
<1>5. ASSUME NEW c \in Callers, Keep(c) \/ SetterFails(c) \/ Raise(c)
      PROVE  TypeOK'
    BY <1>5 DEF Keep, SetterFails, Raise, GoesOn, IInv, TypeOK, Ended
<1>6. ASSUME NEW c \in Callers, Hit(c) \/ StopAwaiting(c) \/ Cancel(c)
      PROVE  TypeOK'
    BY <1>6 DEF Hit, StopAwaiting, Cancel, IInv, TypeOK, Ended
<1>7. ASSUME NEW c \in Callers, Leave(c)
      PROVE  TypeOK'
    <2>1. lock[c] \in Locks
        BY <1>7 DEF Leave, IInv, LockInHand, TypeOK
    <2>2. queue[lock[c]] # <<>> => Head(queue[lock[c]]) \in Callers
        BY <2>1 DEF IInv, TypeOK
    <2>3. pc' \in [Callers -> Ended \cup {"idle", "queued", "woken", "inside", "awaits", "leaves"}]
        BY <1>7, <2>2 DEF Leave, IInv, TypeOK, Ended
    <2> QED BY <1>7, <2>1, <2>3 DEF Leave, IInv, TypeOK
<1>8. ASSUME End \/ Assign \/ Delete
      PROVE  TypeOK'
    BY <1>8 DEF End, EndLoad, Assign, Delete, IInv, TypeOK
<1> QED BY <1>1, <1>2, <1>3, <1>4, <1>5, <1>6, <1>7, <1>8 DEF Next, Step

-----------------------------------------------------------------------------
\* What the invariant says of locks.
LocksFit == LockInHand /\ RunsInside /\ Holds /\ QueueHasWaiters /\ FirstIsWoken

\* A caller that has the lock goes on: to its task, or to leave.
Proceeds(c) ==
    /\ pc[c] \in {"inside", "awaits"} /\ running \in {None, c}
    /\ \E x \in {"leaves", "awaits"} \cup Ended :
          /\ pc' = [pc EXCEPT ![c] = x]
          /\ running' = c \/ (running' = None /\ x = "awaits")
    /\ UNCHANGED <<lock, holder, queue>>

\* The steps that ask for a lock, wait for it or leave it, those under it, and
\* those that have nothing to do with locks.
LEMMA StepsOfTheLock ==
    ASSUME [Next]_vars
    PROVE  \/ \E c \in Callers : Hit(c) \/ AskLock(c) \/ Acquire(c) \/ StopQueueing(c) \/ Leave(c)
           \/ \E c \in Callers : Proceeds(c)
           \/ UNCHANGED <<pc, lock, holder, queue, running>>
<1>1. ASSUME NEW c \in Callers, FindValue(c) \/ Join(c) \/ \E n \in Loads : Create(c, n)
      PROVE  Proceeds(c)
    BY <1>1 DEF FindValue, Join, Create, Proceeds
<1>2. ASSUME NEW c \in Callers, Keep(c) \/ SetterFails(c) \/ Raise(c) \/ StopAwaiting(c)
      PROVE  Proceeds(c)
    BY <1>2 DEF Keep, SetterFails, Raise, GoesOn, StopAwaiting, Proceeds, Ended
<1> QED BY <1>1, <1>2 DEF Next, vars, Step, Cancel, End, EndLoad, Assign, Delete

\* Under its lock a caller leaves the locks of the others alone.
LEMMA ProceedsKeeps ==
    ASSUME IInv, NEW c \in Callers, Proceeds(c)
    PROVE  LocksFit'
<1>1. PICK x \in {"leaves", "awaits"} \cup Ended :
        /\ pc' = [pc EXCEPT ![c] = x]
        /\ running' = c \/ (running' = None /\ x = "awaits")
    BY DEF Proceeds
<1>2. /\ pc'[c] = x /\ \A d \in Callers \ {c} : pc'[d] = pc[d]
      /\ pc[c] \in {"inside", "awaits"} /\ running \in {None, c} /\ UNCHANGED <<lock, holder, queue>>
      /\ x \notin Waits \cup {"inside"}
    BY <1>1 DEF Proceeds, IInv, TypeOK, Waits, Ended
<1>3. LockInHand'
    BY <1>1, <1>2, NoneAssumption DEF IInv, LockInHand, UnderLock, Waits, Ended
<1>4. RunsInside'
    BY <1>1, <1>2, NoneAssumption DEF IInv, RunsInside, UnderLock
<1>5. Holds'
    BY <1>1, <1>2 DEF IInv, Holds, UnderLock, Ended
<1>6. QueueHasWaiters'
    BY <1>1, <1>2 DEF IInv, QueueHasWaiters, Waits
<1>7. FirstIsWoken'
    BY <1>1, <1>2 DEF IInv, FirstIsWoken, Waits
<1> QED BY <1>3, <1>4, <1>5, <1>6, <1>7 DEF LocksFit

\* Who finds the value before it asks for a lock has nothing to do with locks.
LEMMA HitKeeps ==
    ASSUME IInv, NEW c \in Callers, Hit(c)
    PROVE  LocksFit'
<1>1. /\ pc'[c] = "returned" /\ \A d \in Callers \ {c} : pc'[d] = pc[d]
      /\ pc[c] = "idle" /\ UNCHANGED <<lock, holder, queue, running>> /\ running = None
    BY DEF Hit, IInv, TypeOK
<1>2. LockInHand' /\ RunsInside' /\ Holds'
    BY <1>1, NoneAssumption DEF IInv, LockInHand, RunsInside, Holds, UnderLock, Waits
<1>3. \A k \in Locks : \A i \in DOMAIN queue[k] : queue[k][i] \in Callers
    BY DEF IInv, TypeOK
<1>4. QueueHasWaiters'
    BY <1>1, <1>3 DEF IInv, QueueHasWaiters, Waits
<1>5. FirstIsWoken'
    BY <1>1 DEF IInv, FirstIsWoken, Waits
<1> QED BY <1>2, <1>4, <1>5 DEF LocksFit

\* A free lock is taken, though cancelled callers still wait for it; for one that
\* is not the caller queues behind the others.
LEMMA AskLockKeeps ==
    ASSUME IInv, NEW c \in Callers, AskLock(c)
    PROVE  LocksFit'
<1> DEFINE k == LockOf
<1>1. /\ k \in Locks /\ running = None /\ pc[c] = "idle" /\ lock' = [lock EXCEPT ![c] = k]
      /\ lock[c] = None /\ queue[k] \in Seq(Callers) /\ None \notin Callers \cup Locks
    <2>1. k \in Locks /\ queue[k] \in Seq(Callers)
        BY FreeLock DEF IInv, TypeOK
    <2>2. None \notin Callers \cup Locks
        BY NoneAssumption DEF Locks
    <2>3. lock[c] = None
        BY NoneAssumption DEF AskLock, IInv, LockInHand, UnderLock, Waits
    <2> QED BY <2>1, <2>2, <2>3 DEF AskLock
<1> HIDE DEF k
<1>2. /\ lock'[c] = k /\ \A d \in Callers \ {c} : lock'[d] = lock[d]
      /\ \A n \in Locks : queue[n] \in Seq(Callers) /\ \A i \in DOMAIN queue[n] : queue[n][i] \in Callers \ {c}
    BY <1>1 DEF IInv, TypeOK, QueueHasWaiters, Waits
<1>3. CASE /\ holder[k] = None /\ \A d \in Range(queue[k]) : pc[d] = "queued" /\ d \in cancelled
           /\ holder' = [holder EXCEPT ![k] = c] /\ pc' = [pc EXCEPT ![c] = "inside"]
           /\ running' = c /\ UNCHANGED queue
    <2>1. /\ holder'[k] = c /\ \A n \in Locks \ {k} : holder'[n] = holder[n]
          /\ pc'[c] = "inside" /\ \A d \in Callers \ {c} : pc'[d] = pc[d]
        BY <1>1, <1>3 DEF IInv, TypeOK
    <2>2. LockInHand' /\ RunsInside'
        BY <1>1, <1>2, <1>3, <2>1 DEF IInv, LockInHand, RunsInside, UnderLock, Waits
    <2>3. Holds'
        BY <1>1, <1>2, <1>3, <2>1 DEF IInv, TypeOK, Holds, UnderLock, LockInHand
    <2>4. QueueHasWaiters'
        BY <1>1, <1>2, <1>3, <2>1 DEF IInv, QueueHasWaiters, Waits
    <2>5. \A d \in Callers : lock[d] = k => pc[d] # "woken"
        BY <1>1, <1>3 DEF IInv, FirstIsWoken, Range
    <2>6. FirstIsWoken'
        BY <1>1, <1>2, <1>3, <2>1, <2>5 DEF IInv, TypeOK, FirstIsWoken, LockInHand, Waits
    <2> QED BY <2>2, <2>3, <2>4, <2>6 DEF LocksFit
<1>4. CASE /\ queue' = [queue EXCEPT ![k] = Append(@, c)] /\ pc' = [pc EXCEPT ![c] = "queued"]
           /\ UNCHANGED <<holder, running>>
    <2>1. /\ queue'[k] = Append(queue[k], c) /\ \A n \in Locks \ {k} : queue'[n] = queue[n]
          /\ pc'[c] = "queued" /\ \A d \in Callers \ {c} : pc'[d] = pc[d]
        BY <1>1, <1>4 DEF IInv, TypeOK
    <2>2. /\ DOMAIN queue'[k] = 1..(Len(queue[k]) + 1) /\ DOMAIN queue[k] = 1..Len(queue[k])
          /\ Len(queue[k]) \in Nat
          /\ queue'[k][Len(queue[k]) + 1] = c
          /\ \A i \in 1..Len(queue[k]) : queue'[k][i] = queue[k][i]
        BY <1>1, <2>1
    <2>3. LockInHand' /\ RunsInside'
        BY <1>1, <1>2, <1>4, <2>1 DEF IInv, LockInHand, RunsInside, UnderLock, Waits
    <2>4. Holds'
        BY <1>1, <1>2, <1>4, <2>1 DEF IInv, Holds, UnderLock
    <2>5. ASSUME NEW n \in Locks, NEW i \in DOMAIN queue'[n]
          PROVE  /\ lock'[queue'[n][i]] = n /\ pc'[queue'[n][i]] \in Waits
                 /\ \A j \in DOMAIN queue'[n] : queue'[n][i] = queue'[n][j] => i = j
        <3>1. CASE n # k
            BY <1>1, <1>2, <2>1, <2>5, <3>1 DEF IInv, QueueHasWaiters
        <3>2. CASE n = k
            <4>1. CASE i \in DOMAIN queue[k]
                <5>1. queue'[k][i] = queue[k][i] /\ queue[k][i] \in Callers \ {c}
                    BY <1>1, <1>2, <2>2, <4>1
                <5>2. lock[queue[k][i]] = k /\ pc[queue[k][i]] \in Waits
                    BY <1>1, <4>1 DEF IInv, QueueHasWaiters
                <5>3. \A j \in DOMAIN queue'[k] : queue'[k][i] = queue'[k][j] => i = j
                    BY <1>1, <2>2, <4>1, <5>1, SMTT(30) DEF IInv, QueueHasWaiters
                <5> QED BY <1>2, <2>1, <3>2, <5>1, <5>2, <5>3, ZenonT(60)
            <4>2. CASE i = Len(queue[k]) + 1
                <5>1. \A j \in DOMAIN queue'[k] : queue'[k][i] = queue'[k][j] => i = j
                    BY <1>1, <1>2, <2>2, <4>2
                <5> QED BY <1>2, <2>1, <2>2, <3>2, <4>2, <5>1 DEF Waits
            <4> QED BY <2>2, <2>5, <3>2, <4>1, <4>2
        <3> QED BY <3>1, <3>2
    <2>6. ASSUME NEW d \in Callers, pc'[d] \in Waits
          PROVE  \E i \in DOMAIN queue'[lock'[d]] : queue'[lock'[d]][i] = d
        <3>1. CASE d = c
            BY <1>2, <2>2, <3>1
        <3>2. CASE d # c
            <4>1. PICK i \in DOMAIN queue[lock[d]] : queue[lock[d]][i] = d
                BY <2>1, <2>6, <3>2 DEF IInv, QueueHasWaiters
            <4>2. lock[d] \in Locks
                BY <2>1, <2>6, <3>2 DEF IInv, LockInHand, TypeOK
            <4>3. lock'[d] = lock[d]
                BY <1>2, <3>2
            <4>4. CASE lock[d] = k
                <5>1. i \in DOMAIN queue'[k] /\ queue'[k][i] = d
                    BY <2>2, <4>1, <4>4
                <5> QED BY <4>3, <4>4, <5>1
            <4>5. CASE lock[d] # k
                <5>1. queue'[lock[d]] = queue[lock[d]]
                    BY <2>1, <4>2, <4>5
                <5> QED BY <4>1, <4>3, <5>1
            <4> QED BY <4>4, <4>5
        <3> QED BY <3>1, <3>2
    <2>7. FirstIsWoken'
        <3>1. ASSUME NEW d \in Callers, pc'[d] = "woken"
              PROVE  /\ holder'[lock'[d]] = None
                     /\ 1 \in DOMAIN queue'[lock'[d]] /\ queue'[lock'[d]][1] = d
            <4>1. d # c /\ pc[d] = "woken" /\ lock'[d] = lock[d] /\ lock[d] \in Locks
                BY <1>2, <2>1, <3>1 DEF IInv, LockInHand, TypeOK, Waits
            <4> QED BY <1>4, <2>1, <2>2, <4>1 DEF IInv, FirstIsWoken
        <3> QED BY <3>1 DEF FirstIsWoken
    <2> QED BY <2>3, <2>4, <2>5, <2>6, <2>7 DEF LocksFit, QueueHasWaiters
<1> QED BY <1>3, <1>4 DEF AskLock, k

\* Whoever stops waiting for a lock leaves its queue; the others stay in it.
QueueShrinks(c, x) ==
    /\ pc[c] \in Waits /\ running = None /\ running' = c
    /\ queue' = [queue EXCEPT ![lock[c]] = Without(@, c)]
    /\ pc' = [pc EXCEPT ![c] = x] /\ x \notin Waits
    /\ UNCHANGED lock

\* The queue loses that caller and keeps its order.
LEMMA QueueShrinksKeeps ==
    ASSUME IInv, NEW c \in Callers, NEW x, QueueShrinks(c, x)
    PROVE  /\ QueueHasWaiters'
           /\ \A d \in Callers \ {c} : pc[d] = "woken" /\ lock[d] = lock[c] =>
                1 \in DOMAIN queue'[lock[c]] /\ queue'[lock[c]][1] = d
           /\ \A n \in Locks \ {lock[c]} : queue'[n] = queue[n]
           /\ lock[c] \in Locks
           /\ pc'[c] = x /\ \A d \in Callers \ {c} : pc'[d] = pc[d]
<1> DEFINE k == lock[c]
           q == queue[k]
           r == Without(q, c)
<1>1. /\ k \in Locks /\ q \in Seq(Callers) /\ r \in Seq(Callers)
      /\ \A j \in DOMAIN r : r[j] # c /\ \E i \in DOMAIN q : r[j] = q[i]
      /\ \A i, j \in DOMAIN r : r[i] = r[j] => i = j
      /\ \A i \in DOMAIN q : q[i] # c => \E j \in DOMAIN r : r[j] = q[i]
      /\ 1 \in DOMAIN q /\ q[1] # c => 1 \in DOMAIN r /\ r[1] = q[1]
    BY WaiterLeaves DEF QueueShrinks, IInv, TypeOK
<1> HIDE DEF r
<1>2. queue'[k] = r /\ \A n \in Locks \ {k} : queue'[n] = queue[n]
    BY <1>1 DEF QueueShrinks, IInv, TypeOK, r
<1>3. pc'[c] = x /\ \A d \in Callers \ {c} : pc'[d] = pc[d]
    BY DEF QueueShrinks, IInv, TypeOK
<1>4. lock' = lock /\ x \notin Waits
    BY DEF QueueShrinks
<1>5. ASSUME NEW n \in Locks, NEW i \in DOMAIN queue'[n]
      PROVE  /\ lock'[queue'[n][i]] = n /\ pc'[queue'[n][i]] \in Waits
             /\ \A j \in DOMAIN queue'[n] : queue'[n][i] = queue'[n][j] => i = j
    <2>1. CASE n # k
        <3>1. queue'[n] = queue[n] /\ queue[n][i] \in Callers
            BY <1>2, <1>5, <2>1 DEF IInv, TypeOK
        <3>2. lock[queue[n][i]] = n /\ pc[queue[n][i]] \in Waits
            BY <1>5, <3>1 DEF IInv, QueueHasWaiters
        <3> QED BY <1>3, <1>4, <1>5, <2>1, <3>1, <3>2 DEF IInv, QueueHasWaiters
    <2>2. CASE n = k
        <3>1. PICK j \in DOMAIN q : r[i] = q[j]
            BY <1>1, <1>2, <1>5, <2>2
        <3>2. lock[q[j]] = k /\ pc[q[j]] \in Waits /\ q[j] \in Callers
            BY <1>1, <3>1 DEF IInv, QueueHasWaiters
        <3> QED BY <1>1, <1>2, <1>3, <1>4, <1>5, <2>2, <3>1, <3>2
    <2> QED BY <2>1, <2>2
<1>6. ASSUME NEW d \in Callers, pc'[d] \in Waits
      PROVE  \E i \in DOMAIN queue'[lock'[d]] : queue'[lock'[d]][i] = d
    <2>1. d # c /\ pc[d] \in Waits
        BY <1>3, <1>4, <1>6
    <2>2. PICK i \in DOMAIN queue[lock[d]] : queue[lock[d]][i] = d
        BY <2>1 DEF IInv, QueueHasWaiters
    <2>3. lock[d] \in Locks
        BY <2>1 DEF IInv, LockInHand, TypeOK
    <2>4. CASE lock[d] = k
        BY <1>1, <1>2, <1>4, <2>1, <2>2, <2>4
    <2>5. CASE lock[d] # k
        BY <1>2, <1>4, <2>2, <2>3, <2>5
    <2> QED BY <2>4, <2>5
<1>7. ASSUME NEW d \in Callers \ {c}, pc[d] = "woken", lock[d] = k
      PROVE  1 \in DOMAIN queue'[k] /\ queue'[k][1] = d
    BY <1>1, <1>2, <1>7 DEF IInv, FirstIsWoken
<1> QED BY <1>1, <1>2, <1>3, <1>5, <1>6, <1>7 DEF QueueHasWaiters

\* The caller that was woken takes the lock, which nobody else was woken for.
LEMMA AcquireKeeps ==
    ASSUME IInv, NEW c \in Callers, Acquire(c)
    PROVE  LocksFit'
<1>1. QueueShrinks(c, "inside")
    BY DEF Acquire, QueueShrinks, Waits
<1>2. /\ QueueHasWaiters'
      /\ \A n \in Locks \ {lock[c]} : queue'[n] = queue[n]
      /\ lock[c] \in Locks /\ lock' = lock
      /\ pc'[c] = "inside" /\ \A d \in Callers \ {c} : pc'[d] = pc[d]
    BY <1>1, QueueShrinksKeeps DEF QueueShrinks
<1>3. /\ holder'[lock[c]] = c /\ \A n \in Locks \ {lock[c]} : holder'[n] = holder[n]
      /\ holder[lock[c]] = None /\ pc[c] = "woken" /\ running = None /\ running' = c
    BY <1>2 DEF Acquire, IInv, TypeOK, FirstIsWoken
<1>4. LockInHand' /\ RunsInside'
    BY <1>2, <1>3, NoneAssumption DEF IInv, LockInHand, RunsInside, UnderLock, Waits
<1>5. Holds'
    <2>1. ASSUME NEW d \in Callers, pc'[d] \in UnderLock
          PROVE  holder'[lock'[d]] = d
        <3>1. CASE d = c
            BY <1>2, <1>3, <3>1
        <3>2. CASE d # c
            <4>1. holder[lock[d]] = d /\ lock[d] \in Locks
                BY <1>2, <2>1, <3>2 DEF IInv, Holds, LockInHand, TypeOK
            <4> QED BY <1>2, <1>3, <4>1, NoneAssumption
        <3> QED BY <3>1, <3>2
    <2> QED BY <2>1 DEF Holds
<1>6. FirstIsWoken'
    <2>1. ASSUME NEW d \in Callers, pc'[d] = "woken"
          PROVE  /\ holder'[lock'[d]] = None
                 /\ 1 \in DOMAIN queue'[lock'[d]] /\ queue'[lock'[d]][1] = d
        <3>1. d # c /\ pc[d] = "woken" /\ lock[d] \in Locks
            BY <1>2, <2>1 DEF IInv, LockInHand, TypeOK, Waits
        <3>2. lock[d] # lock[c]
            BY <1>3, <3>1 DEF IInv, FirstIsWoken
        <3> QED BY <1>2, <1>3, <3>1, <3>2 DEF IInv, FirstIsWoken
    <2> QED BY <2>1 DEF FirstIsWoken
<1> QED BY <1>2, <1>4, <1>5, <1>6 DEF LocksFit

\* A cancelled caller leaves the queue, though it was woken; another that was
\* woken stays the first.
LEMMA StopQueueingKeeps ==
    ASSUME IInv, NEW c \in Callers, StopQueueing(c)
    PROVE  LocksFit'
<1>1. QueueShrinks(c, "cancelled")
    BY DEF StopQueueing, QueueShrinks, Waits
<1>2. /\ QueueHasWaiters'
      /\ \A d \in Callers \ {c} : pc[d] = "woken" /\ lock[d] = lock[c] =>
           1 \in DOMAIN queue'[lock[c]] /\ queue'[lock[c]][1] = d
      /\ \A n \in Locks \ {lock[c]} : queue'[n] = queue[n]
      /\ lock[c] \in Locks /\ lock' = lock
      /\ pc'[c] = "cancelled" /\ \A d \in Callers \ {c} : pc'[d] = pc[d]
    BY <1>1, QueueShrinksKeeps DEF QueueShrinks
<1>3. /\ holder' = holder /\ pc[c] \in Waits /\ running = None /\ running' = c
    BY DEF StopQueueing, Waits
<1>4. LockInHand' /\ RunsInside' /\ Holds'
    BY <1>2, <1>3, NoneAssumption DEF IInv, LockInHand, RunsInside, Holds, UnderLock, Waits, Ended
<1>5. FirstIsWoken'
    <2>1. ASSUME NEW d \in Callers, pc'[d] = "woken"
          PROVE  /\ holder'[lock'[d]] = None
                 /\ 1 \in DOMAIN queue'[lock'[d]] /\ queue'[lock'[d]][1] = d
        <3>1. d # c /\ pc[d] = "woken" /\ lock[d] \in Locks
            BY <1>2, <2>1 DEF IInv, LockInHand, TypeOK, Waits
        <3> QED BY <1>2, <1>3, <3>1 DEF IInv, FirstIsWoken
    <2> QED BY <2>1 DEF FirstIsWoken
<1> QED BY <1>2, <1>4, <1>5 DEF LocksFit

\* Whoever leaves gives its lock back, and only the first that waits for that
\* lock is woken.
LEMMA LeaveKeeps ==
    ASSUME IInv, NEW c \in Callers, Leave(c)
    PROVE  LocksFit'
<1> DEFINE k == lock[c]
           first == Head(queue[k])
<1>1. /\ k \in Locks /\ running = c /\ running' = None /\ pc[c] \in Ended \cup {"leaves"}
      /\ queue' = queue /\ lock'[c] = None /\ \A d \in Callers \ {c} : lock'[d] = lock[d]
    BY DEF Leave, IInv, TypeOK, LockInHand
<1>2. /\ holder'[k] = (IF holder[k] = c THEN None ELSE holder[k])
      /\ \A n \in Locks \ {k} : holder'[n] = holder[n]
    BY <1>1 DEF Leave, IInv, TypeOK
<1>3. PICK x \in Ended :
        pc' = IF HandsOver(k, c) /\ queue[k] # <<>> /\ pc[first] = "queued" /\ first \notin cancelled
              THEN [[pc EXCEPT ![c] = x] EXCEPT ![first] = "woken"] ELSE [pc EXCEPT ![c] = x]
    BY DEF Leave, Ended
<1>4. queue[k] # <<>> => /\ first \in Callers /\ 1 \in DOMAIN queue[k] /\ first = queue[k][1]
                         /\ lock[first] = k /\ pc[first] \in Waits /\ first # c
    <2>1. queue[k] \in Seq(Callers)
        BY <1>1 DEF IInv, TypeOK
    <2>2. queue[k] # <<>> => first \in Callers /\ 1 \in DOMAIN queue[k] /\ first = queue[k][1]
        BY <2>1
    <2> QED BY <1>1, <2>2 DEF IInv, QueueHasWaiters, Waits, Ended
<1> HIDE DEF first
<1>5. /\ pc'[c] = x /\ x \in Ended
      /\ \A d \in Callers \ {c} :
           \/ pc'[d] = pc[d]
           \/ /\ pc'[d] = "woken" /\ pc[d] = "queued" /\ d = first /\ queue[k] # <<>>
              /\ holder[k] \in {None, c}
    BY <1>3, <1>4 DEF IInv, TypeOK, HandsOver
<1>6. LockInHand' /\ RunsInside'
    BY <1>1, <1>5, NoneAssumption DEF IInv, LockInHand, RunsInside, UnderLock, Waits, Ended
<1>7. Holds'
    <2>1. ASSUME NEW d \in Callers, pc'[d] \in UnderLock
          PROVE  holder'[lock'[d]] = d
        <3>1. d # c /\ pc[d] \in UnderLock
            BY <1>5, <2>1 DEF UnderLock, Ended
        <3>2. holder[lock[d]] = d /\ lock[d] \in Locks
            BY <3>1 DEF IInv, Holds, LockInHand, TypeOK
        <3> QED BY <1>1, <1>2, <3>1, <3>2
    <2> QED BY <2>1 DEF Holds
<1>8. QueueHasWaiters'
    <2>1. ASSUME NEW n \in Locks, NEW i \in DOMAIN queue[n]
          PROVE  lock'[queue[n][i]] = n /\ pc'[queue[n][i]] \in Waits
        <3>1. queue[n][i] \in Callers /\ lock[queue[n][i]] = n /\ pc[queue[n][i]] \in Waits
            BY <2>1 DEF IInv, TypeOK, QueueHasWaiters
        <3> QED BY <1>1, <1>5, <3>1 DEF Waits, Ended
    <2>2. ASSUME NEW d \in Callers, pc'[d] \in Waits
          PROVE  \E i \in DOMAIN queue[lock'[d]] : queue[lock'[d]][i] = d
        BY <1>1, <1>5, <2>2 DEF IInv, QueueHasWaiters, Waits, Ended
    <2> QED BY <1>1, <2>1, <2>2 DEF IInv, QueueHasWaiters
<1>9. FirstIsWoken'
    <2>1. ASSUME NEW d \in Callers, pc'[d] = "woken"
          PROVE  /\ holder'[lock'[d]] = None
                 /\ 1 \in DOMAIN queue[lock'[d]] /\ queue[lock'[d]][1] = d
        <3>1. d # c /\ lock'[d] = lock[d]
            BY <1>1, <1>5, <2>1 DEF Ended
        <3>2. CASE pc[d] = "woken"
            <4>1. lock[d] \in Locks
                BY <3>2 DEF IInv, LockInHand, TypeOK, Waits
            <4> QED BY <1>2, <3>1, <3>2, <4>1 DEF IInv, FirstIsWoken
        <3>3. CASE d = first /\ queue[k] # <<>> /\ holder[k] \in {None, c}
            BY <1>2, <1>4, <3>1, <3>3
        <3> QED BY <1>5, <2>1, <3>1, <3>2, <3>3
    <2> QED BY <1>1, <2>1 DEF FirstIsWoken
<1> QED BY <1>6, <1>7, <1>8, <1>9 DEF LocksFit

\* Every step keeps what relates callers, locks and queues.
LEMMA LocksAreKept ==
    ASSUME IInv, [Next]_vars
    PROVE  LocksFit'
<1>1. CASE UNCHANGED <<pc, lock, holder, queue, running>>
    BY <1>1 DEF IInv, LocksFit, LockInHand, RunsInside, Holds, QueueHasWaiters, FirstIsWoken
<1> QED BY <1>1, StepsOfTheLock, HitKeeps, AskLockKeeps, AcquireKeeps, StopQueueingKeeps, LeaveKeeps,
           ProceedsKeeps

-----------------------------------------------------------------------------
\* What it says of tasks.
TasksFit == OneLock /\ AwaitsTheTask /\ RunsInDict /\ NobodyElsePopped

\* Two callers do not await under the same lock.
LEMMA OneAwaits ==
    ASSUME IInv, TasksFit, NEW c \in Callers, NEW d \in Callers, pc[d] = "awaits", lock[c] = locked,
           pc[c] \in UnderLock
    PROVE  c = d
BY DEF IInv, Holds, TasksFit, AwaitsTheTask, UnderLock

\* The steps of the callers that leave the value and the entries alone.
LEMMA QuietStepsFit ==
    ASSUME IInv, TasksFit, NEW c \in Callers,
           \/ Hit(c) \/ Acquire(c) \/ FindValue(c) \/ SetterFails(c) \/ StopQueueing(c)
           \/ Leave(c) \/ Cancel(c)
    PROVE  TasksFit'
<1>1. CASE Hit(c) \/ Acquire(c) \/ FindValue(c) \/ SetterFails(c) \/ StopQueueing(c)
    <2>1. /\ UNCHANGED <<cache, locked, tasks, load, dirty, lock, awaited>>
          /\ \E x \in {"returned", "inside", "leaves", "failed", "cancelled"} : pc' = [pc EXCEPT ![c] = x]
        BY <1>1 DEF Hit, Acquire, FindValue, SetterFails, StopQueueing
    <2>2. \A d \in Callers : pc'[d] \in {"awaits", "KeyError"} => pc'[d] = pc[d]
        BY <2>1 DEF IInv, TypeOK
    <2> QED BY <2>1, <2>2 DEF TasksFit, OneLock, AwaitsTheTask, RunsInDict, NobodyElsePopped
<1>2. CASE Leave(c)
    <2>1. \A d \in Callers : pc'[d] \in {"awaits", "KeyError"} => pc'[d] = pc[d] /\ (pc[d] = "awaits" => d # c)
        BY <1>2 DEF Leave, IInv, TypeOK, Ended
    <2>2. /\ UNCHANGED <<cache, locked, tasks, load, dirty>> /\ lock'[c] = None
          /\ \A d \in Callers \ {c} : lock'[d] = lock[d] /\ awaited'[d] = awaited[d]
        BY <1>2 DEF Leave, IInv, TypeOK
    <2>3. OneLock'
        BY <2>2 DEF TasksFit, OneLock
    <2>4. AwaitsTheTask'
        BY <2>1, <2>2 DEF TasksFit, AwaitsTheTask
    <2>5. RunsInDict' /\ NobodyElsePopped'
        BY <2>1, <2>2 DEF TasksFit, RunsInDict, NobodyElsePopped
    <2> QED BY <2>3, <2>4, <2>5 DEF TasksFit
<1>3. CASE Cancel(c)
    BY <1>3 DEF Cancel, TasksFit, OneLock, AwaitsTheTask, RunsInDict, NobodyElsePopped
<1> QED BY <1>1, <1>2, <1>3

\* Asking for the lock gives that of the entry, if anybody has it.
LEMMA AskLockFits ==
    ASSUME IInv, TasksFit, ~dirty, NEW c \in Callers, AskLock(c)
    PROVE  TasksFit'
<1>1. /\ UNCHANGED <<cache, tasks, load, awaited, dirty>> /\ locked' = LockOf
      /\ lock'[c] = LockOf /\ \A d \in Callers \ {c} : lock'[d] = lock[d]
    BY DEF AskLock, IInv, TypeOK
<1>2. \A d \in Callers : pc'[d] \in {"awaits", "KeyError"} => pc'[d] = pc[d] /\ (pc[d] = "awaits" => d # c)
    BY DEF AskLock, IInv, TypeOK
<1>3. locked # None => LockOf = locked
    BY DEF LockOf
<1>4. OneLock'
    BY <1>1, <1>3 DEF TasksFit, OneLock
<1>5. AwaitsTheTask'
    <2>1. ASSUME NEW d \in Callers, pc[d] = "awaits"
          PROVE  lock[d] # None
        BY <2>1 DEF IInv, LockInHand, UnderLock
    <2> QED BY <1>1, <1>2, <1>3, <2>1 DEF TasksFit, AwaitsTheTask
<1>6. RunsInDict' /\ NobodyElsePopped'
    BY <1>1, <1>2 DEF TasksFit, RunsInDict, NobodyElsePopped
<1> QED BY <1>4, <1>5, <1>6 DEF TasksFit

\* The task is joined or created under the only lock there is.
LEMMA LoadFits ==
    ASSUME IInv, TasksFit, ~dirty, NEW c \in Callers, Join(c) \/ \E n \in Loads : Create(c, n)
    PROVE  TasksFit'
<1>1. /\ UNCHANGED <<cache, locked, lock, dirty>> /\ cache = None /\ pc[c] = "inside"
      /\ tasks' \in Loads /\ awaited' = [awaited EXCEPT ![c] = tasks']
      /\ pc' = [pc EXCEPT ![c] = "awaits"]
    BY DEF Join, Create, Found, IInv, TypeOK
<1>2. lock[c] # None /\ lock[c] = locked
    BY <1>1 DEF IInv, LockInHand, TasksFit, OneLock, UnderLock
<1>3. \A d \in Callers : pc[d] # "awaits"
    BY <1>1, <1>2, OneAwaits DEF UnderLock
<1>4. AwaitsTheTask'
    BY <1>1, <1>2, <1>3 DEF IInv, TypeOK, AwaitsTheTask
<1>5. RunsInDict'
    <2>1. CASE Join(c)
        BY <2>1 DEF Join, TasksFit, RunsInDict
    <2>2. ASSUME NEW n \in Loads, Create(c, n)
          PROVE  RunsInDict'
        <3>1. \A m \in Loads : load[m] # "runs"
            BY <2>2, NoneAssumption DEF Create, TasksFit, RunsInDict, Loads
        <3> QED BY <2>2, <3>1 DEF Create, RunsInDict, IInv, TypeOK
    <2> QED BY <2>1, <2>2
<1>6. OneLock' /\ NobodyElsePopped'
    BY <1>1 DEF TasksFit, OneLock, NobodyElsePopped, IInv, TypeOK
<1> QED BY <1>4, <1>5, <1>6 DEF TasksFit

\* Whoever pops the entries is the only one that awaits their task.
LEMMA PopFits ==
    ASSUME IInv, TasksFit, ~dirty, NEW c \in Callers, Keep(c) \/ Raise(c) \/ StopAwaiting(c)
    PROVE  TasksFit'
<1>1. /\ pc[c] = "awaits" /\ awaited[c] \in Loads /\ tasks = awaited[c] /\ locked = lock[c]
      /\ UNCHANGED <<load, lock, awaited, dirty>>
    BY DEF Keep, Raise, StopAwaiting, GoesOn, TasksFit, AwaitsTheTask
<1>2. tasks # None /\ locked # None
    BY <1>1, NoneAssumption DEF Loads, IInv, LockInHand, UnderLock
<1>3. \A d \in Callers \ {c} : pc[d] # "awaits"
    BY <1>1, OneAwaits DEF UnderLock
<1>4. \E x \in {"leaves", "failed", "cancelled"} : pc' = [pc EXCEPT ![c] = x]
    BY <1>2 DEF Keep, Raise, StopAwaiting
<1>5. \A d \in Callers : pc'[d] # "awaits" /\ pc'[d] # "KeyError"
    BY <1>3, <1>4 DEF IInv, TypeOK, TasksFit, NobodyElsePopped
<1>6. OneLock'
    <2>1. CASE Keep(c)
        <3>1. cache' \in Loads
            BY <1>1, <2>1 DEF Keep
        <3> QED BY <3>1, NoneAssumption DEF OneLock, Loads
    <2>2. CASE Raise(c) \/ StopAwaiting(c)
        BY <2>2 DEF Raise, StopAwaiting, TasksFit, OneLock
    <2> QED BY <2>1, <2>2
<1>7. RunsInDict'
    <2>1. CASE tasks' = tasks
        BY <1>1, <2>1 DEF TasksFit, RunsInDict
    <2>2. CASE load[tasks] # "runs"
        BY <1>1, <2>2 DEF TasksFit, RunsInDict
    <2>3. tasks' = tasks \/ load[tasks] # "runs"
        BY <1>1 DEF Keep, Raise, StopAwaiting, GoesOn, Pops
    <2> QED BY <2>1, <2>2, <2>3
<1> QED BY <1>5, <1>6, <1>7 DEF TasksFit, AwaitsTheTask, NobodyElsePopped

\* What is remembered of deletions changes in Delete only.
LEMMA OnlyDeleting == [Next]_vars => dirty' = dirty \/ Delete
BY DEF Next, vars, Step, Hit, AskLock, Acquire, FindValue, Join, Create, Keep, SetterFails, Raise,
       Cancel, StopQueueing, StopAwaiting, Leave, End, EndLoad, Assign

\* Every step keeps what relates tasks and entries, until a value is deleted
\* under a load.
LEMMA TasksAreKept ==
    ASSUME IInv, [Next]_vars
    PROVE  dirty' \/ TasksFit'
<1>1. CASE dirty
    BY <1>1, OnlyDeleting DEF Delete
<1>2. CASE ~dirty
    <2>1. TasksFit
        BY <1>2 DEF IInv, TasksFit
    <2>2. CASE UNCHANGED vars
        BY <2>1, <2>2 DEF vars, TasksFit, OneLock, AwaitsTheTask, RunsInDict, NobodyElsePopped
    <2>3. ASSUME NEW n \in Loads, EndLoad(n, "value") \/ EndLoad(n, "error")
          PROVE  TasksFit'
        BY <2>1, <2>3 DEF EndLoad, IInv, TypeOK, TasksFit, OneLock, AwaitsTheTask, RunsInDict, NobodyElsePopped
    <2>4. CASE Assign
        BY <2>1, <2>4, NoneAssumption DEF Assign, TasksFit, OneLock, AwaitsTheTask, RunsInDict, NobodyElsePopped
    <2>5. CASE Delete
        BY <2>1, <2>5 DEF Delete, TasksFit, OneLock, AwaitsTheTask, RunsInDict, NobodyElsePopped
    <2> QED BY <1>2, <2>1, <2>2, <2>3, <2>4, <2>5, QuietStepsFit, AskLockFits, LoadFits, PopFits DEF Next, Step, End
<1> QED BY <1>1, <1>2 DEF IInv, TypeOK

\* The invariant holds always.
LEMMA InvariantHolds == Spec => []IInv
<1>1. IInv /\ [Next]_vars => IInv'
    BY TypesAreKept, LocksAreKept, TasksAreKept DEF IInv, LocksFit, TasksFit
<1> QED BY <1>1, InitHolds, PTL DEF Spec

-----------------------------------------------------------------------------
\* The types are those that are declared: among them, that there always is a
\* lock for the entry, be it one that nobody uses any more.
THEOREM TypeCorrect == Spec => []TypeOK
<1>1. IInv => TypeOK
    BY DEF IInv
<1> QED BY <1>1, InvariantHolds, PTL

\* Nobody raises KeyError because another popped the entries of its load: while
\* nothing is cached everybody waits for one lock, so that one caller at a time
\* awaits the task, and that task is the one of the entry.
THEOREM NobodyPopsForAnother == Spec => []NobodyElsePopped
<1>1. IInv => NobodyElsePopped
    BY DEF IInv, NobodyElsePopped
<1> QED BY <1>1, InvariantHolds, PTL

\* The getter is not started a second time while its task runs, whoever is
\* cancelled meanwhile: the task stays in the dict, where the next one joins it.
THEOREM TasksAreShared == Spec => RunningTaskIsShared
<1> DEFINE Shared == dirty \/ \A n \in Loads : load[n] = "runs" /\ load'[n] = "runs" => tasks' = n
<1>1. ASSUME IInv, IInv', [Next]_vars
      PROVE  Shared
    <2>1. CASE dirty'
        <3>1. dirty \/ UNCHANGED <<tasks, load>>
            BY <1>1, <2>1, OnlyDeleting DEF Delete
        <3>2. dirty \/ RunsInDict
            BY <1>1 DEF IInv
        <3> QED BY <3>1, <3>2 DEF RunsInDict
    <2>2. CASE ~dirty'
        BY <1>1, <2>2 DEF IInv, RunsInDict
    <2> QED BY <2>1, <2>2
<1>2. IInv /\ IInv' /\ [Next]_vars => [Shared]_vars
    BY <1>1
<1> QED BY <1>2, InvariantHolds, PTL DEF Spec, RunningTaskIsShared

-----------------------------------------------------------------------------
\* ASyncFuture: expressions whose operands, and their tasks, are shared.
CONSTANTS Tasks, Programs, MaxFutures, Main, Const
VARIABLES program, made, operands, states, task, places, awaits, told

Expr == INSTANCE ASyncFuture WITH state <- states, at <- places

\* What a future keeps is what its task came to,
KeepsOutcome ==
    \A f \in Expr!Futures : states[f] \in {"value", "error"} => task[f] = states[f]

\* and only an operation that was started has asked for its operands.
AsksWhenStarted ==
    \A f \in Expr!Futures, i \in {1, 2} : places[<<f, i>>] # "idle" => task[f] # "none"

ExprTypes ==
    /\ DOMAIN operands = Expr!Futures /\ DOMAIN awaits = Expr!Callers
    /\ DOMAIN places = Expr!Waiters
    /\ states \in [Expr!Futures -> {"pending"} \cup Expr!Ended]
    /\ task \in [Expr!Futures -> {"none", "running", "cancelling"} \cup Expr!Ended]

ExprInv == ExprTypes /\ KeepsOutcome /\ AsksWhenStarted /\ Expr!AwaitersAgree

\* It starts so.
LEMMA InitExpr == Expr!Init => ExprInv
<1> SUFFICES ASSUME Expr!Init PROVE ExprInv
  OBVIOUS
<1>1. ExprTypes
  BY DEF Expr!Init, ExprTypes, Expr!Ended
<1>2. KeepsOutcome
  BY DEF Expr!Init, KeepsOutcome
<1>3. AsksWhenStarted
  BY DEF Expr!Init, AsksWhenStarted, Expr!Waiters, Expr!Children
<1>4. Expr!AwaitersAgree
  BY DEF Expr!Init, Expr!AwaitersAgree
<1> QED
  BY <1>1, <1>2, <1>3, <1>4 DEF ExprInv

\* What a waiter may be told.
Answers == {"value", "error", "InvalidStateError"}

\* A waiter that is no caller is an operand.
LEMMA OperandOf ==
    ASSUME NEW w \in Expr!Waiters, w \notin Expr!Callers
    PROVE  w[1] \in Expr!Futures /\ w[2] \in {1, 2} /\ w = <<w[1], w[2]>>
BY DEF Expr!Waiters, Expr!Children

\* Futures are made while nothing has been asked for.
LEMMA MakesKeeps ==
    ASSUME ExprInv, Expr!MakeCall \/ Expr!Operate
    PROVE  ExprInv'
<1>1. /\ UNCHANGED <<states, task, places, awaits>> /\ DOMAIN operands' = DOMAIN operands
      /\ \A f \in Expr!Futures : task[f] = "none"
  BY DEF Expr!MakeCall, Expr!Operate, Expr!Makes, ExprInv, ExprTypes
<1>2. (ExprTypes /\ KeepsOutcome /\ AsksWhenStarted)'
  BY <1>1 DEF ExprInv, ExprTypes, KeepsOutcome, AsksWhenStarted
<1>3. ASSUME NEW w \in Expr!Waiters, places[w] \in Answers
      PROVE  w \in Expr!Callers
  BY <1>1, <1>3, OperandOf DEF ExprInv, AsksWhenStarted, Answers
<1>4. Expr!AwaitersAgree'
  BY <1>1, <1>3 DEF ExprInv, Expr!AwaitersAgree, Expr!Target, Answers
<1> QED
  BY <1>2, <1>4 DEF ExprInv

\* A waiter asks for a future: it is the only one whose place changes, and what
\* others wait for stays the same for those that were told something.
LEMMA AskKeeps ==
    ASSUME Expr!Distinct, ExprInv, NEW w \in Expr!Waiters, NEW f, Expr!Ask(w, f),
           UNCHANGED states,
           DOMAIN operands' = DOMAIN operands, DOMAIN awaits' = DOMAIN awaits,
           w \notin Expr!Callers => task[w[1]] # "none",
           Expr!Target(w)' = f,
           \A u \in Expr!Waiters \ {w} :
              places[u] \in Answers => Expr!Target(u)' = Expr!Target(u)
    PROVE  ExprInv'
<1>1. /\ places'[w] = IF states[f] # "pending" THEN Expr!OutcomeOf(f) ELSE "waits"
      /\ \A u \in Expr!Waiters \ {w} : places'[u] = places[u]
      /\ DOMAIN places' = Expr!Waiters
  BY DEF Expr!Ask, ExprInv, ExprTypes
<1>2. /\ task' \in [Expr!Futures -> {"none", "running", "cancelling"} \cup Expr!Ended]
      /\ \A g \in Expr!Futures : /\ task[g] # "none" => task'[g] = task[g]
  BY DEF Expr!Ask, Expr!TaskOf, ExprInv, ExprTypes
<1>3. ExprTypes'
  BY <1>1, <1>2 DEF ExprInv, ExprTypes
<1>4. KeepsOutcome'
  BY <1>2 DEF ExprInv, ExprTypes, KeepsOutcome
<1>5. ASSUME NEW g \in Expr!Futures, NEW i \in {1, 2}, places'[<<g, i>>] # "idle"
      PROVE  task'[g] # "none"
  <2>1. task[g] # "none"
    <3>1. CASE <<g, i>> = w /\ w \notin Expr!Callers
      BY <3>1
    <3>2. CASE <<g, i>> # w
      <4>1. <<g, i>> \in Expr!Waiters
        BY DEF Expr!Waiters, Expr!Children
      <4> QED
        BY <1>1, <1>5, <3>2, <4>1 DEF ExprInv, AsksWhenStarted
    <3>3. <<g, i>> \notin Expr!Callers
      BY DEF Expr!Distinct, Expr!Children
    <3> QED
      BY <3>1, <3>2, <3>3
  <2> QED
    BY <1>2, <2>1
<1>6. ASSUME NEW u \in Expr!Waiters, places'[u] \in Answers,
             Expr!Target(u)' \in Expr!Futures, states'[Expr!Target(u)'] # "cancelled"
      PROVE  places'[u] = states'[Expr!Target(u)']
  <2>1. CASE u = w
    BY <1>1, <1>6, <2>1 DEF Expr!OutcomeOf, Answers
  <2>2. CASE u # w
    BY <1>1, <1>6, <2>2 DEF ExprInv, Expr!AwaitersAgree, Answers
  <2> QED
    BY <2>1, <2>2
<1>7. Expr!AwaitersAgree'
  BY <1>6 DEF Expr!AwaitersAgree, Answers
<1> QED
  BY <1>3, <1>4, <1>5, <1>7 DEF ExprInv, AsksWhenStarted

\* Tasks and plain code await; the operands of a comparison are asked for at once.
LEMMA AwaitKeeps ==
    ASSUME Expr!Distinct, ExprInv,
           \/ \E c \in Tasks : Expr!Await(c)
           \/ Expr!Materialize \/ Expr!Compare
    PROVE  ExprInv'
<1> DEFINE Asks(c, f) ==
         /\ awaits' = [awaits EXCEPT ![c] = f] /\ Expr!Ask(c, f)
         /\ UNCHANGED states /\ DOMAIN operands' = DOMAIN operands
         /\ operands' = operands \/ \A g \in Expr!Futures : task[g] = "none"
<1>1. PICK c \in Expr!Callers : \E f : Asks(c, f)
  <2>1. CASE \E c \in Tasks : Expr!Await(c)
    BY <2>1 DEF Expr!Await, Expr!Callers
  <2>2. CASE Expr!Materialize
    BY <2>2 DEF Expr!Materialize, Expr!RunsLoopFor, Expr!Callers
  <2>3. CASE Expr!Compare
    BY <2>3 DEF Expr!Compare, Expr!Makes, Expr!RunsLoopFor, Expr!Callers
  <2> QED
    BY <2>1, <2>2, <2>3
<1>2. PICK f : Asks(c, f)
  BY <1>1
<1>3. /\ c \in Expr!Waiters /\ DOMAIN awaits' = DOMAIN awaits
      /\ awaits'[c] = f /\ \A d \in Expr!Callers \ {c} : awaits'[d] = awaits[d]
  BY <1>2 DEF Expr!Waiters, ExprInv, ExprTypes
<1>4. ASSUME NEW u \in Expr!Waiters \ {c}, places[u] \in Answers
      PROVE  Expr!Target(u)' = Expr!Target(u)
  <2>1. CASE u \in Expr!Callers
    BY <1>3, <2>1 DEF Expr!Target
  <2>2. CASE u \notin Expr!Callers
    <3>1. operands' = operands
      BY <1>2, <1>4, <2>2, OperandOf DEF ExprInv, AsksWhenStarted, Answers
    <3> QED
      BY <2>2, <3>1 DEF Expr!Target
  <2> QED
    BY <2>1, <2>2
<1>5. Expr!Target(c)' = f
  BY <1>3 DEF Expr!Target
<1> QED
  BY <1>2, <1>3, <1>4, <1>5, AskKeeps

\* An operation asks for an operand, or has a constant.
LEMMA GatherKeeps ==
    ASSUME Expr!Distinct, ExprInv, NEW g \in Expr!Futures, NEW i \in {1, 2}, Expr!Gather(g, i)
    PROVE  ExprInv'
<1> DEFINE w == <<g, i>>
<1>1. /\ w \in Expr!Waiters /\ w \notin Expr!Callers /\ w[1] = g /\ w[2] = i
  BY DEF Expr!Distinct, Expr!Waiters, Expr!Children
<1>2. /\ task[g] = "running" /\ UNCHANGED <<operands, states, awaits>>
  BY DEF Expr!Gather
<1>3. CASE operands[g][i] = Const
  <2>1. /\ places' = [places EXCEPT ![w] = "value"] /\ UNCHANGED task
    BY <1>3 DEF Expr!Gather
  <2>2. (ExprTypes /\ KeepsOutcome)'
    BY <1>2, <2>1 DEF ExprInv, ExprTypes, KeepsOutcome
  <2>3. AsksWhenStarted'
    <3>1. ASSUME NEW h \in Expr!Futures, NEW k \in {1, 2}, places'[<<h, k>>] # "idle"
          PROVE  task[h] # "none"
      <4>1. CASE <<h, k>> = w
        BY <1>2, <4>1
      <4>2. CASE <<h, k>> # w
        <5>1. <<h, k>> \in Expr!Waiters
          BY DEF Expr!Waiters, Expr!Children
        <5> QED
          BY <2>1, <3>1, <4>2, <5>1 DEF ExprInv, ExprTypes, AsksWhenStarted
      <4> QED
        BY <4>1, <4>2
    <3> QED
      BY <2>1, <3>1 DEF AsksWhenStarted
  <2>4. Expr!Target(w) \notin Expr!Futures
    BY <1>1, <1>3 DEF Expr!Target, Expr!Distinct
  <2>5. Expr!AwaitersAgree'
    <3>1. \A u \in Expr!Waiters \ {w} : places'[u] = places[u]
      BY <1>1, <2>1 DEF ExprInv, ExprTypes
    <3>2. \A u \in Expr!Waiters : Expr!Target(u)' = Expr!Target(u)
      BY <1>2 DEF Expr!Target
    <3> HIDE DEF w
    <3> QED
      BY <1>2, <2>4, <3>1, <3>2 DEF ExprInv, Expr!AwaitersAgree
  <2> QED
    BY <2>2, <2>3, <2>5 DEF ExprInv
<1>4. CASE operands[g][i] # Const
  <2>1. Expr!Ask(w, operands[g][i])
    BY <1>4 DEF Expr!Gather
  <2>2. Expr!Target(w)' = operands[g][i]
    BY <1>1, <1>2 DEF Expr!Target
  <2>3. \A u \in Expr!Waiters : Expr!Target(u)' = Expr!Target(u)
    BY <1>2 DEF Expr!Target
  <2> HIDE DEF w
  <2> QED
    BY <1>1, <1>2, <2>1, <2>2, <2>3, AskKeeps
<1> QED
  BY <1>3, <1>4

\* Whoever resumes takes what the task came to; the first one keeps it, and the
\* others find the same.
LEMMA ResumeKeeps ==
    ASSUME ExprInv, NEW w \in Expr!Waiters, Expr!Resume(w)
    PROVE  ExprInv'
<1> DEFINE f == Expr!Target(w)
<1>1. /\ places[w] = "waits" /\ task[f] \in Expr!Ended
      /\ UNCHANGED <<operands, task, awaits>>
      /\ IF task[f] # "cancelled" /\ states[f] = "pending"
         THEN states' = [states EXCEPT ![f] = task[f]] ELSE states' = states
      /\ places' = [places EXCEPT ![w] = task[f]]
  BY DEF Expr!Resume, Expr!SetsResult
<1> HIDE DEF f
<1>2. /\ ExprTypes' /\ places'[w] = task[f]
      /\ \A u \in Expr!Waiters \ {w} : places'[u] = places[u]
  BY <1>1 DEF ExprInv, ExprTypes
<1>3. KeepsOutcome'
  BY <1>1 DEF ExprInv, ExprTypes, KeepsOutcome
<1>4. AsksWhenStarted'
  <2>1. ASSUME NEW h \in Expr!Futures, NEW k \in {1, 2}, places'[<<h, k>>] # "idle"
        PROVE  task[h] # "none"
    <3>1. <<h, k>> \in Expr!Waiters
      BY DEF Expr!Waiters, Expr!Children
    <3>2. places[<<h, k>>] # "idle"
      BY <1>1, <1>2, <2>1, <3>1
    <3> QED
      BY <3>2 DEF ExprInv, AsksWhenStarted
  <2> QED
    BY <1>1, <2>1 DEF AsksWhenStarted
<1>5. \A u \in Expr!Waiters : Expr!Target(u)' = Expr!Target(u)
  BY <1>1 DEF Expr!Target
<1>6. ASSUME NEW u \in Expr!Waiters, places'[u] \in Answers,
             Expr!Target(u) \in Expr!Futures, states'[Expr!Target(u)] # "cancelled"
      PROVE  places'[u] = states'[Expr!Target(u)]
  <2>1. CASE u = w
    <3>1. f \in Expr!Futures /\ states'[f] # "cancelled" /\ task[f] \in {"value", "error"}
      BY <1>1, <1>2, <1>6, <2>1 DEF f, Answers, Expr!Ended
    <3>2. states'[f] = task[f]
      BY <1>1, <3>1 DEF ExprInv, ExprTypes, KeepsOutcome, Expr!Ended
    <3> QED
      BY <1>2, <2>1, <3>2 DEF f
  <2>2. CASE u # w
    <3>1. places'[u] = places[u] /\ places[u] \in Answers
      BY <1>2, <1>6, <2>2
    <3>2. CASE states'[Expr!Target(u)] = states[Expr!Target(u)]
      BY <1>6, <3>1, <3>2 DEF ExprInv, Expr!AwaitersAgree, Answers
    <3>3. CASE states'[Expr!Target(u)] # states[Expr!Target(u)]
      <4>1. states[Expr!Target(u)] = "pending"
        BY <1>1, <1>6, <3>3 DEF ExprInv, ExprTypes
      <4> QED
        BY <1>6, <3>1, <4>1 DEF ExprInv, Expr!AwaitersAgree, Answers
    <3> QED
      BY <3>2, <3>3
  <2> QED
    BY <2>1, <2>2
<1>7. Expr!AwaitersAgree'
  BY <1>5, <1>6 DEF Expr!AwaitersAgree, Answers
<1> QED
  BY <1>2, <1>3, <1>4, <1>7 DEF ExprInv

\* A task that has started ends, or is cancelled, once.
TaskMoves ==
    /\ task' \in [Expr!Futures -> {"none", "running", "cancelling"} \cup Expr!Ended]
    /\ \A f \in Expr!Futures :
         \/ task'[f] = task[f]
         \/ task[f] \in {"running", "cancelling"} /\ task'[f] # "none"

\* Such a move keeps what the waiters were told.
LEMMA TaskMovesKeeps ==
    ASSUME ExprInv, TaskMoves, UNCHANGED <<operands, states, awaits>>,
           DOMAIN places' = DOMAIN places,
           \A u \in Expr!Waiters :
              places'[u] = places[u] \/ (places[u] # "idle" /\ places'[u] \notin Answers)
    PROVE  ExprInv'
<1>1. (ExprTypes /\ KeepsOutcome)'
  BY DEF ExprInv, ExprTypes, KeepsOutcome, TaskMoves, Expr!Ended
<1>2. AsksWhenStarted'
  BY ZenonT(60) DEF ExprInv, ExprTypes, AsksWhenStarted, TaskMoves, Expr!Waiters, Expr!Children
<1>3. \A u \in Expr!Waiters : Expr!Target(u)' = Expr!Target(u)
  BY DEF Expr!Target
<1>4. Expr!AwaitersAgree'
  BY <1>3 DEF ExprInv, Expr!AwaitersAgree, Answers
<1> QED
  BY <1>1, <1>2, <1>4 DEF ExprInv

\* The ends of tasks and their cancellation are such moves.
LEMMA EndsMoveTasks ==
    ASSUME ExprInv, NEW f \in Expr!Futures,
           \/ Expr!CallEnds(f) \/ Expr!GatherFails(f) \/ Expr!Compute(f)
           \/ Expr!OperationCancelled(f)
    PROVE  TaskMoves /\ UNCHANGED <<operands, states, awaits, places>>
BY DEF Expr!CallEnds, Expr!GatherFails, Expr!Others, Expr!Compute, Expr!OperationCancelled,
       ExprInv, ExprTypes, TaskMoves, Expr!Ended

\* A cancellation moves the task it reaches.
LEMMA CancelMovesTasks ==
    ASSUME ExprInv, NEW f, Expr!CancelTarget(f)
    PROVE  TaskMoves
BY DEF Expr!CancelTarget, ExprInv, ExprTypes, TaskMoves, Expr!Ended

\* A caller is cancelled, or an operand of an operation that is.
LEMMA CancelKeeps ==
    ASSUME ExprInv,
           \/ \E c \in Tasks : Expr!CancelCaller(c)
           \/ \E g \in Expr!Futures, i \in {1, 2} : Expr!CancelChild(g, i)
    PROVE  ExprInv'
<1>1. PICK w : /\ places[w] = "waits" /\ places' = [places EXCEPT ![w] = "cancelled"]
               /\ TaskMoves /\ UNCHANGED <<operands, states, awaits>>
  BY CancelMovesTasks DEF Expr!CancelCaller, Expr!CancelChild, Expr!Child
<1>2. \A u \in Expr!Waiters :
        places'[u] = places[u] \/ (places[u] # "idle" /\ places'[u] \notin Answers)
  BY <1>1 DEF ExprInv, ExprTypes, Answers
<1> QED
  BY <1>1, <1>2, TaskMovesKeeps

\* A future that the program cancels has told nothing to anybody.
LEMMA DropKeeps ==
    ASSUME ExprInv, \E f \in Expr!Futures : Expr!Drop(f)
    PROVE  ExprInv'
<1>1. PICK f \in Expr!Futures :
        /\ states[f] = "pending" /\ states' = [states EXCEPT ![f] = "cancelled"]
        /\ UNCHANGED <<operands, task, places, awaits>>
  BY DEF Expr!Drop
<1>2. (ExprTypes /\ KeepsOutcome /\ AsksWhenStarted)'
  BY <1>1 DEF ExprInv, ExprTypes, KeepsOutcome, AsksWhenStarted, Expr!Ended
<1>3. \A u \in Expr!Waiters : Expr!Target(u)' = Expr!Target(u)
  BY <1>1 DEF Expr!Target
<1>4. Expr!AwaitersAgree'
  BY <1>1, <1>3 DEF ExprInv, ExprTypes, Expr!AwaitersAgree
<1> QED
  BY <1>2, <1>4 DEF ExprInv

\* The plain code goes on with what it was told.
LEMMA GoOnKeeps ==
    ASSUME Expr!Distinct, ExprInv, Expr!GoOn
    PROVE  ExprInv'
<1>1. /\ places' = [places EXCEPT ![Main] = "idle"] /\ awaits' = [awaits EXCEPT ![Main] = 0]
      /\ UNCHANGED <<operands, states, task>>
  BY DEF Expr!GoOn
<1>2. (ExprTypes /\ KeepsOutcome)'
  BY <1>1 DEF ExprInv, ExprTypes, KeepsOutcome
<1>3. AsksWhenStarted'
  BY <1>1 DEF ExprInv, ExprTypes, AsksWhenStarted, Expr!Waiters, Expr!Children
<1>4. \A u \in Expr!Waiters \ {Main} :
        places'[u] = places[u] /\ Expr!Target(u)' = Expr!Target(u)
  BY <1>1 DEF ExprInv, ExprTypes, Expr!Target
<1>5. Main \in Expr!Waiters => places'[Main] = "idle"
  BY <1>1 DEF ExprInv, ExprTypes
<1>6. Expr!AwaitersAgree'
  BY <1>1, <1>4, <1>5 DEF ExprInv, Expr!AwaitersAgree
<1> QED
  BY <1>2, <1>3, <1>6 DEF ExprInv

\* Every step keeps ExprInv.
LEMMA ExprNextKeeps ==
    ASSUME Expr!Distinct, ExprInv, [Expr!Next]_(Expr!vars)
    PROVE  ExprInv'
<1>1. CASE UNCHANGED Expr!vars
  <2>1. UNCHANGED <<operands, states, task, places, awaits>>
    BY <1>1 DEF Expr!vars
  <2>2. TaskMoves
    BY <2>1 DEF TaskMoves, ExprInv, ExprTypes
  <2> QED
    BY <2>1, <2>2, TaskMovesKeeps
<1>2. CASE \E f \in Expr!Futures :
             \/ Expr!CallEnds(f) \/ Expr!GatherFails(f) \/ Expr!Compute(f)
             \/ Expr!OperationCancelled(f)
  BY <1>2, EndsMoveTasks, TaskMovesKeeps
<1> QED
  BY <1>1, <1>2, GatherKeeps, ResumeKeeps, CancelKeeps, MakesKeeps, AwaitKeeps, GoOnKeeps,
     DropKeeps DEF Expr!Next, Expr!Runs

-----------------------------------------------------------------------------
\* All who await a future are told the same, in whatever order they resume and
\* whoever is cancelled: nobody finds that the result it sets is set already.
\* This is for any programs, futures and tasks.
THEOREM AwaitersAreToldTheSame ==
    ASSUME Expr!Distinct
    PROVE  Expr!Spec => []Expr!AwaitersAgree
<1>1. ExprInv => Expr!AwaitersAgree
  BY DEF ExprInv
<1>2. ExprInv /\ [Expr!Next]_(Expr!vars) => ExprInv'
  BY ExprNextKeeps
<1> QED
  BY <1>1, <1>2, InitExpr, PTL DEF Expr!Spec

\* A coroutine runs once: no await, no cancellation and no operation starts a task
\* again that has ended, or changes what it came to.
THEOREM CoroutinesRunOnce ==
    ASSUME Expr!Distinct
    PROVE  Expr!Spec => Expr!RunsOnce
<1> DEFINE Once == \A f \in Expr!Futures : task[f] \in Expr!Ended => task'[f] = task[f]
<1>1. ExprInv /\ [Expr!Next]_(Expr!vars) => [Once]_(Expr!vars)
  <2> SUFFICES ASSUME ExprInv, Expr!Next
               PROVE  Once
    OBVIOUS
  <2>1. ASSUME NEW w, NEW f, Expr!Ask(w, f)
        PROVE  Once
    BY <2>1 DEF Expr!Ask, Expr!TaskOf, Expr!Ended, ExprInv, ExprTypes
  <2>2. CASE \/ \E c \in Tasks : Expr!Await(c)
             \/ Expr!Materialize \/ Expr!Compare
    BY <2>1, <2>2 DEF Expr!Await, Expr!Materialize, Expr!Compare, Expr!RunsLoopFor
  <2>3. CASE \E g \in Expr!Futures, i \in {1, 2} : Expr!Gather(g, i)
    BY <2>1, <2>3 DEF Expr!Gather
  <2>4. CASE \E f \in Expr!Futures :
               \/ Expr!CallEnds(f) \/ Expr!GatherFails(f) \/ Expr!Compute(f)
               \/ Expr!OperationCancelled(f)
    BY <2>4, EndsMoveTasks DEF TaskMoves, Expr!Ended
  <2>5. CASE \/ \E c \in Tasks : Expr!CancelCaller(c)
             \/ \E g \in Expr!Futures, i \in {1, 2} : Expr!CancelChild(g, i)
    BY <2>5, CancelMovesTasks DEF Expr!CancelCaller, Expr!CancelChild, TaskMoves, Expr!Ended
  <2>6. CASE \/ \E w \in Expr!Waiters : Expr!Resume(w)
             \/ Expr!MakeCall \/ Expr!Operate \/ Expr!GoOn
             \/ \E f \in Expr!Futures : Expr!Drop(f)
    BY <2>6 DEF Expr!Resume, Expr!MakeCall, Expr!Operate, Expr!GoOn, Expr!Drop
  <2> QED
    BY <2>2, <2>3, <2>4, <2>5, <2>6 DEF Expr!Next, Expr!Runs
<1>2. ExprInv /\ [Expr!Next]_(Expr!vars) => ExprInv'
  BY ExprNextKeeps
<1> QED
  BY <1>1, <1>2, InitExpr, PTL DEF Expr!Spec, Expr!RunsOnce

-----------------------------------------------------------------------------
\* Futures that somebody shares with a caller that was cancelled.
Shares(g) == \E f \in told : Expr!Below(f) \cap Expr!Below(g) # {}

\* What an operation is made of was made before it,
Ordered ==
    /\ made \in 0..MaxFutures
    /\ \A g \in Expr!Futures :
          Expr!IsCall(g) \/ \A i \in {1, 2} : operands[g][i] \in {Const} \cup Expr!Futures

\* What is below a future: itself, and what is below its operands.
LEMMA BelowClosed ==
    ASSUME NEW f \in Expr!Futures
    PROVE  /\ f \in Expr!Below(f) /\ Expr!Below(f) \subseteq Expr!Futures
           /\ \A g \in Expr!Below(f) : Expr!Below(g) \subseteq Expr!Below(f)
           /\ \A i \in {1, 2} : operands[f][i] \in Expr!Futures =>
                 Expr!Below(operands[f][i]) \subseteq Expr!Below(f)
<1>1. f \in Expr!Below(f) /\ Expr!Below(f) \subseteq Expr!Futures
  BY DEF Expr!Below
<1>2. ASSUME NEW g \in Expr!Below(f)
      PROVE  Expr!Below(g) \subseteq Expr!Below(f)
  BY DEF Expr!Below
<1>3. ASSUME NEW i \in {1, 2}, operands[f][i] \in Expr!Futures
      PROVE  operands[f][i] \in Expr!Below(f)
  BY <1>3 DEF Expr!Below, Expr!Closed
<1> QED
  BY <1>1, <1>2, <1>3

\* While the operands stay the same, so does what is below a future.
LEMMA BelowStays ==
    ASSUME UNCHANGED operands, NEW f
    PROVE  Expr!Below(f)' = Expr!Below(f)
BY DEF Expr!Below, Expr!Closed

\* Whom a cancellation may reach: what is below a future that a cancelled caller
\* awaits is cancelled, and what is cancelled shares something with it.
ToldStarted == \A f \in told : f \in Expr!Futures /\ task[f] # "none"

AwaitsFutures ==
    /\ \A c \in Expr!Callers : /\ places[c] \in {"waits", "cancelled"} => awaits[c] \in Expr!Futures
                               /\ places[c] = "waits" => task[awaits[c]] # "none"
    /\ \A g \in Expr!Futures, i \in {1, 2} : places[<<g, i>>] = "waits" => operands[g][i] \in Expr!Futures

CancelsBelow ==
    \A g \in Expr!Futures : task[g] = "cancelling" => \E f \in told : g \in Expr!Below(f)

CancelledShare ==
    /\ \A g \in Expr!Futures : task[g] = "cancelled" => Shares(g)
    /\ \A g \in Expr!Futures, i \in {1, 2} : places[<<g, i>>] = "cancelled" => Shares(g)
    /\ \A c \in Expr!Callers : places[c] = "cancelled" => Shares(awaits[c])

ShareInv ==
    /\ program \in Programs /\ Ordered /\ ToldStarted /\ AwaitsFutures
    /\ CancelsBelow /\ CancelledShare

\* Nobody has been cancelled.
LEMMA InitShares ==
    ASSUME Expr!PlansFit, Expr!Init
    PROVE  ShareInv
<1>1. /\ program \in Programs /\ made = 0 /\ told = {}
      /\ \A f \in Expr!Futures : Expr!IsCall(f) /\ task[f] = "none"
      /\ \A w \in Expr!Waiters : places[w] = "idle"
  BY DEF Expr!Init, Expr!IsCall
<1>2. /\ \A c \in Expr!Callers : places[c] = "idle"
      /\ \A g \in Expr!Futures, i \in {1, 2} : places[<<g, i>>] = "idle"
  BY <1>1 DEF Expr!Waiters, Expr!Children
<1>3. Ordered
  BY <1>1 DEF Ordered, Expr!PlansFit
<1> QED
  BY <1>1, <1>2, <1>3 DEF ShareInv, ToldStarted, AwaitsFutures, CancelsBelow, CancelledShare

\* A step that makes no future keeps this, if whatever it cancels is below a
\* future of a cancelled caller, or shares something with it.
LEMMA SharesKeep ==
    ASSUME ShareInv, UNCHANGED <<program, made, operands>>, told \subseteq told',
           \A f \in told' : f \in Expr!Futures /\ task'[f] # "none",
           \A g \in Expr!Futures : task'[g] = "cancelling" =>
               task[g] = "cancelling" \/ \E f \in told' : g \in Expr!Below(f),
           \A g \in Expr!Futures : task'[g] = "cancelled" =>
               task[g] = "cancelled" \/ \E f \in told' : Expr!Below(f) \cap Expr!Below(g) # {},
           \A g \in Expr!Futures, i \in {1, 2} : places'[<<g, i>>] = "cancelled" =>
               \/ places[<<g, i>>] = "cancelled"
               \/ \E f \in told' : Expr!Below(f) \cap Expr!Below(g) # {},
           \A c \in Expr!Callers : places'[c] = "cancelled" =>
               \/ places[c] = "cancelled" /\ awaits'[c] = awaits[c]
               \/ \E f \in told' : Expr!Below(f) \cap Expr!Below(awaits'[c]) # {},
           \A c \in Expr!Callers :
               /\ places'[c] \in {"waits", "cancelled"} => awaits'[c] \in Expr!Futures
               /\ places'[c] = "waits" => task'[awaits'[c]] # "none",
           \A g \in Expr!Futures, i \in {1, 2} :
               places'[<<g, i>>] = "waits" => operands[g][i] \in Expr!Futures
    PROVE  ShareInv'
<1>1. \A f : Expr!Below(f)' = Expr!Below(f)
  BY BelowStays
<1>2. \A g : Shares(g)' <=> \E f \in told' : Expr!Below(f) \cap Expr!Below(g) # {}
  BY <1>1 DEF Shares
<1>3. \A g : Shares(g) => Shares(g)'
  BY <1>2 DEF Shares
<1>4. (program \in Programs /\ Ordered /\ ToldStarted /\ AwaitsFutures)'
  BY DEF ShareInv, Ordered, ToldStarted, AwaitsFutures, Expr!IsCall
<1>5. CancelsBelow'
  BY <1>1 DEF ShareInv, CancelsBelow
<1>6. CancelledShare'
  <2> SUFFICES /\ \A g \in Expr!Futures : task'[g] = "cancelled" => Shares(g)'
               /\ \A g \in Expr!Futures, i \in {1, 2} : places'[<<g, i>>] = "cancelled" => Shares(g)'
               /\ \A c \in Expr!Callers : places'[c] = "cancelled" =>
                     \E f \in told' : Expr!Below(f) \cap Expr!Below(awaits'[c]) # {}
    BY <1>1 DEF CancelledShare, Shares
  <2>1. \A c \in Expr!Callers : places'[c] = "cancelled" =>
           \E f \in told' : Expr!Below(f) \cap Expr!Below(awaits'[c]) # {}
    BY DEF ShareInv, CancelledShare, Shares
  <2> QED
    BY <1>2, <1>3, <2>1 DEF ShareInv, CancelledShare
<1> QED
  BY <1>4, <1>5, <1>6 DEF ShareInv

\* When a future is made nobody has been cancelled.
LEMMA MakesShares ==
    ASSUME Expr!Distinct, Expr!PlansFit, ExprInv, ShareInv,
           Expr!MakeCall \/ Expr!Operate \/ Expr!Compare
    PROVE  ShareInv'
<1>1. PICK two \in Expr!Pairs \cup {Expr!Call} : Expr!Makes(two)
  BY DEF Expr!MakeCall, Expr!Operate, Expr!Compare
<1>2. /\ UNCHANGED <<program, told>> /\ made \in Nat /\ made' = made + 1 /\ made + 1 \in Expr!Futures
      /\ operands' = [operands EXCEPT ![made + 1] = two]
      /\ \A f \in Expr!Futures : task[f] = "none" /\ states[f] = "pending"
  <2>1. made \in Nat /\ made < Len(program.plan) /\ program \in Programs
    BY <1>1 DEF Expr!Makes, ShareInv, Ordered
  <2>2. made + 1 \in Expr!Futures
    BY <2>1 DEF Expr!PlansFit, Expr!Futures
  <2> QED
    BY <1>1, <2>1, <2>2 DEF Expr!Makes, Expr!MakeCall, Expr!Operate, Expr!Compare
<1>3. told = {}
  BY <1>2 DEF ShareInv, ToldStarted
<1>4. /\ \A c \in Expr!Callers : places[c] # "cancelled"
      /\ \A g \in Expr!Futures, i \in {1, 2} : places[<<g, i>>] = "idle"
  BY <1>2, <1>3 DEF ShareInv, CancelledShare, Shares, ExprInv, AsksWhenStarted
<1>5. /\ \A g \in Expr!Futures : task'[g] \in {"none", "running"}
      /\ \A g \in Expr!Futures, i \in {1, 2} : places'[<<g, i>>] = "idle"
      /\ \A c \in Expr!Callers : \/ places'[c] = places[c] /\ awaits'[c] = awaits[c]
                                 \/ /\ places'[c] = "waits" /\ awaits'[c] = made + 1
                                    /\ task'[made + 1] = "running"
  <2>1. CASE UNCHANGED <<task, places, awaits>>
    BY <1>2, <1>4, <2>1
  <2>2. CASE Expr!Compare
    <3>1. /\ awaits' = [awaits EXCEPT ![Main] = made + 1] /\ places' = [places EXCEPT ![Main] = "waits"]
          /\ task' = [task EXCEPT ![made + 1] = "running"]
      BY <1>2, <2>2 DEF Expr!Compare, Expr!RunsLoopFor, Expr!Ask, Expr!TaskOf
    <3>2. \A g \in Expr!Futures, i \in {1, 2} : <<g, i>> # Main /\ <<g, i>> \in Expr!Waiters
      BY DEF Expr!Distinct, Expr!Callers, Expr!Children, Expr!Waiters
    <3> QED
      BY <1>2, <1>4, <3>1, <3>2 DEF ExprInv, ExprTypes, Expr!Waiters
  <2> QED
    BY <2>1, <2>2 DEF Expr!MakeCall, Expr!Operate
<1>6. Ordered'
  <2>1. made + 1 \in 0..MaxFutures
    BY <1>2 DEF Expr!Futures
  <2>2. ASSUME NEW g \in Expr!Futures
        PROVE  Expr!IsCall(g)' \/ \A i \in {1, 2} : operands'[g][i] \in {Const} \cup Expr!Futures
    <3>1. CASE g = made + 1
      <4>1. operands'[g] = two
        BY <1>2, <3>1 DEF ExprInv, ExprTypes
      <4>2. two = Expr!Call \/ \A i \in {1, 2} : two[i] \in {Const} \cup 1..made
        BY <1>2 DEF Expr!Pairs
      <4>3. 1..made \subseteq Expr!Futures
        BY <1>2 DEF Expr!Futures, Expr!PlansFit
      <4> QED
        BY <4>1, <4>2, <4>3 DEF Expr!IsCall
    <3>2. CASE g # made + 1
      BY <1>2, <3>2 DEF ExprInv, ExprTypes, ShareInv, Ordered, Expr!IsCall
    <3> QED
      BY <3>1, <3>2
  <2> QED
    BY <1>2, <2>1, <2>2 DEF Ordered
<1>7. (program \in Programs /\ ToldStarted /\ AwaitsFutures)'
  BY <1>2, <1>3, <1>5 DEF ShareInv, ToldStarted, AwaitsFutures
<1>8. (CancelsBelow /\ CancelledShare)'
  BY <1>4, <1>5 DEF CancelsBelow, CancelledShare
<1> QED
  BY <1>6, <1>7, <1>8 DEF ShareInv

\* Who asks for a future is told an outcome, but is not cancelled.
LEMMA AskShares ==
    ASSUME Expr!Distinct, ExprInv, ShareInv,
           NEW w \in Expr!Waiters, NEW f \in Expr!Futures, Expr!Ask(w, f),
           UNCHANGED <<program, made, operands, told>>,
           \A c \in Expr!Callers \ {w} : awaits'[c] = awaits[c],
           w \in Expr!Callers => awaits'[w] = f,
           w \notin Expr!Callers => operands[w[1]][w[2]] \in Expr!Futures
    PROVE  ShareInv'
<1>1. /\ places'[w] # "cancelled" /\ \A u \in Expr!Waiters \ {w} : places'[u] = places[u]
  BY DEF Expr!Ask, Expr!OutcomeOf, ExprInv, ExprTypes, Expr!Ended
<1>2. \A g \in Expr!Futures : task'[g] = task[g] \/ (task[g] = "none" /\ task'[g] = "running")
  BY DEF Expr!Ask, Expr!TaskOf, ExprInv, ExprTypes
<1>3. \A h \in told' : h \in Expr!Futures /\ task'[h] # "none"
  BY <1>2 DEF ShareInv, ToldStarted
<1>4. \A c \in Expr!Callers :
        /\ places'[c] = "cancelled" => places[c] = "cancelled" /\ awaits'[c] = awaits[c]
        /\ places'[c] \in {"waits", "cancelled"} => awaits'[c] \in Expr!Futures
        /\ places'[c] = "waits" => task'[awaits'[c]] # "none"
  <2> SUFFICES ASSUME NEW c \in Expr!Callers
               PROVE  /\ places'[c] = "cancelled" => places[c] = "cancelled" /\ awaits'[c] = awaits[c]
                      /\ places'[c] \in {"waits", "cancelled"} => awaits'[c] \in Expr!Futures
                      /\ places'[c] = "waits" => task'[awaits'[c]] # "none"
    OBVIOUS
  <2>1. CASE c = w
    <3>1. awaits'[c] = f
      BY <2>1
    <3>2. places'[c] = "waits" => task'[f] # "none"
      BY <2>1 DEF Expr!Ask, Expr!OutcomeOf, Expr!TaskOf, ExprInv, ExprTypes, Expr!Ended
    <3> QED
      BY <1>1, <2>1, <3>1, <3>2
  <2>2. CASE c # w
    BY <1>1, <1>2, <2>2 DEF ShareInv, AwaitsFutures, Expr!Waiters
  <2> QED
    BY <2>1, <2>2
<1>5. ASSUME NEW g \in Expr!Futures, NEW i \in {1, 2}
      PROVE  /\ places'[<<g, i>>] = "cancelled" => places[<<g, i>>] = "cancelled"
             /\ places'[<<g, i>>] = "waits" => operands[g][i] \in Expr!Futures
  <2>1. <<g, i>> \in Expr!Waiters
    BY DEF Expr!Waiters, Expr!Children
  <2>2. CASE <<g, i>> = w /\ w \notin Expr!Callers
    <3>1. w[1] = g /\ w[2] = i
      BY <2>2
    <3>2. operands[g][i] \in Expr!Futures
      BY <2>2, <3>1
    <3>3. places'[<<g, i>>] # "cancelled"
      BY <1>1, <2>2, Zenon
    <3> QED
      BY <3>2, <3>3
  <2>3. CASE <<g, i>> # w
    <3>1. places'[<<g, i>>] = places[<<g, i>>]
      BY <1>1, <2>1, <2>3
    <3> QED
      BY <3>1 DEF ShareInv, AwaitsFutures
  <2>4. <<g, i>> \notin Expr!Callers
    BY DEF Expr!Distinct, Expr!Children
  <2> QED
    BY <2>2, <2>3, <2>4
<1> QED
  BY <1>2, <1>3, <1>4, <1>5, SharesKeep

\* Who starts to await a future is told an outcome, or waits.
LEMMA AwaitShares ==
    ASSUME Expr!Distinct, Expr!PlansFit, ExprInv, ShareInv,
           (\E c \in Tasks : Expr!Await(c)) \/ Expr!Materialize
    PROVE  ShareInv'
<1>1. PICK c \in Expr!Callers, f \in 1..made :
        /\ awaits' = [awaits EXCEPT ![c] = f] /\ Expr!Ask(c, f)
        /\ UNCHANGED <<program, made, operands, told>>
  BY DEF Expr!Await, Expr!Materialize, Expr!RunsLoopFor, Expr!Callers
<1>2. f \in Expr!Futures /\ c \in Expr!Waiters
  BY DEF ShareInv, Ordered, Expr!Futures, Expr!PlansFit, Expr!Waiters
<1>3. awaits'[c] = f /\ \A d \in Expr!Callers \ {c} : awaits'[d] = awaits[d]
  BY <1>1 DEF ExprInv, ExprTypes
<1> QED
  BY <1>1, <1>2, <1>3, AskShares

\* What an operation asks for was made before it.
LEMMA GatherShares ==
    ASSUME Expr!Distinct, ExprInv, ShareInv,
           NEW g \in Expr!Futures, NEW i \in {1, 2}, Expr!Gather(g, i)
    PROVE  ShareInv'
<1> DEFINE w == <<g, i>>
<1>1. w \in Expr!Waiters /\ w \notin Expr!Callers /\ w[1] = g /\ w[2] = i
  BY DEF Expr!Distinct, Expr!Waiters, Expr!Children
<1>2. /\ UNCHANGED <<program, made, operands, awaits, told>>
      /\ operands[g][i] \in {Const} \cup Expr!Futures
  BY DEF Expr!Gather, ShareInv, Ordered
<1>3. CASE operands[g][i] = Const
  <2>1. UNCHANGED task /\ places'[w] = "value" /\ \A u \in Expr!Waiters \ {w} : places'[u] = places[u]
    BY <1>1, <1>3 DEF Expr!Gather, ExprInv, ExprTypes
  <2>2. \A c \in Expr!Callers : places'[c] = places[c]
    BY <1>1, <2>1 DEF Expr!Waiters
  <2>3. \A h \in Expr!Futures, k \in {1, 2} :
          places'[<<h, k>>] = places[<<h, k>>] \/ places'[<<h, k>>] = "value"
    <3> SUFFICES ASSUME NEW h \in Expr!Futures, NEW k \in {1, 2}
                 PROVE  places'[<<h, k>>] = places[<<h, k>>] \/ places'[<<h, k>>] = "value"
      OBVIOUS
    <3>1. <<h, k>> \in Expr!Waiters
      BY DEF Expr!Waiters, Expr!Children
    <3> HIDE DEF w
    <3> QED
      BY <2>1, <3>1
  <2> HIDE DEF w
  <2> QED
    BY <1>2, <2>1, <2>2, <2>3, SharesKeep DEF ShareInv, ToldStarted, AwaitsFutures
<1>4. CASE operands[g][i] # Const
  <2>1. operands[g][i] \in Expr!Futures
    BY <1>2, <1>4
  <2>2. Expr!Ask(w, operands[g][i])
    BY <1>4 DEF Expr!Gather
  <2> HIDE DEF w
  <2> QED
    BY <1>1, <1>2, <2>1, <2>2, AskShares
<1> QED
  BY <1>3, <1>4

\* Whoever resumes is cancelled only if the task it awaits was.
LEMMA ResumeShares ==
    ASSUME Expr!Distinct, ExprInv, ShareInv, NEW w \in Expr!Waiters, Expr!Resume(w)
    PROVE  ShareInv'
<1> DEFINE f == Expr!Target(w)
<1>1. /\ places[w] = "waits" /\ places' = [places EXCEPT ![w] = task[f]]
      /\ UNCHANGED <<program, made, operands, task, awaits, told>>
      /\ task[f] \in Expr!Ended
  BY DEF Expr!Resume, Expr!SetsResult
<1> HIDE DEF f
<1>2. places'[w] = task[f] /\ \A u \in Expr!Waiters \ {w} : places'[u] = places[u]
  BY <1>1 DEF ExprInv, ExprTypes
<1>3. ASSUME NEW c \in Expr!Callers
      PROVE  /\ places'[c] = "cancelled" => places[c] = "cancelled" \/ Shares(awaits[c])
             /\ places'[c] \in {"waits", "cancelled"} => awaits[c] \in Expr!Futures
             /\ places'[c] = "waits" => task[awaits[c]] # "none"
  <2>1. c \in Expr!Waiters
    BY DEF Expr!Waiters
  <2>2. CASE c = w
    <3>1. f = awaits[c] /\ awaits[c] \in Expr!Futures
      BY <1>1, <2>2 DEF f, Expr!Target, ShareInv, AwaitsFutures
    <3> QED
      BY <1>1, <1>2, <2>2, <3>1 DEF ShareInv, CancelledShare, Expr!Ended
  <2>3. CASE c # w
    BY <1>2, <2>1, <2>3 DEF ShareInv, AwaitsFutures
  <2> QED
    BY <2>2, <2>3
<1>4. ASSUME NEW g \in Expr!Futures, NEW i \in {1, 2}
      PROVE  /\ places'[<<g, i>>] = "cancelled" => places[<<g, i>>] = "cancelled" \/ Shares(g)
             /\ places'[<<g, i>>] = "waits" => operands[g][i] \in Expr!Futures
  <2>1. <<g, i>> \in Expr!Waiters /\ <<g, i>> \notin Expr!Callers
    BY DEF Expr!Waiters, Expr!Children, Expr!Distinct
  <2>2. CASE <<g, i>> = w
    <3>1. f = operands[g][i] /\ operands[g][i] \in Expr!Futures
      BY <1>1, <2>1, <2>2 DEF f, Expr!Target, ShareInv, AwaitsFutures
    <3>2. f \in Expr!Futures /\ Expr!Below(f) \subseteq Expr!Below(g)
      BY <3>1, BelowClosed
    <3>3. task[f] = "cancelled" => Shares(g)
      BY <3>2 DEF ShareInv, CancelledShare, Shares
    <3> QED
      BY <1>1, <1>2, <2>2, <3>3 DEF Expr!Ended
  <2>3. CASE <<g, i>> # w
    BY <1>2, <2>1, <2>3, ZenonT(60) DEF ShareInv, AwaitsFutures
  <2> QED
    BY <2>2, <2>3
<1> QED
  BY <1>1, <1>3, <1>4, SharesKeep DEF ShareInv, ToldStarted, Shares

\* A task ends: that of an operation whose operand was cancelled, or which was
\* cancelled itself, shares what that one does.
LEMMA EndsShare ==
    ASSUME ExprInv, ShareInv, NEW f \in Expr!Futures,
           \/ Expr!CallEnds(f) \/ Expr!GatherFails(f) \/ Expr!Compute(f)
           \/ Expr!OperationCancelled(f)
    PROVE  ShareInv'
<1>1. UNCHANGED <<program, made, operands, places, awaits, told>>
  BY DEF Expr!CallEnds, Expr!GatherFails, Expr!Compute, Expr!OperationCancelled
<1>2. \A g \in Expr!Futures \ {f} : task'[g] = task[g]
  BY DEF Expr!CallEnds, Expr!GatherFails, Expr!Others, Expr!Compute, Expr!OperationCancelled,
         ExprInv, ExprTypes
<1>3. task'[f] \in {"value", "error"} \/ (task'[f] = "cancelled" /\ Shares(f))
  <2>1. CASE Expr!CallEnds(f) \/ Expr!Compute(f)
    BY <2>1 DEF Expr!CallEnds, Expr!Compute, ExprInv, ExprTypes
  <2>2. CASE Expr!GatherFails(f)
    BY <2>2 DEF Expr!GatherFails, Expr!Others, Expr!Child, ExprInv, ExprTypes, ShareInv, CancelledShare
  <2>3. CASE Expr!OperationCancelled(f)
    <3>1. PICK g \in told : f \in Expr!Below(g)
      BY <2>3 DEF Expr!OperationCancelled, ShareInv, CancelsBelow
    <3>2. f \in Expr!Below(f)
      BY BelowClosed
    <3>3. Shares(f)
      BY <3>1, <3>2 DEF Shares
    <3> QED
      BY <2>3, <3>3 DEF Expr!OperationCancelled, ExprInv, ExprTypes
  <2> QED
    BY <2>1, <2>2, <2>3
<1>4. \A g \in told' : g \in Expr!Futures /\ task'[g] # "none"
  BY <1>1, <1>2, <1>3 DEF ShareInv, ToldStarted
<1> QED
  BY <1>1, <1>2, <1>3, <1>4, SharesKeep DEF ShareInv, AwaitsFutures, Shares

\* A future is below those of the caller whose cancellation it gets.
LEMMA CancelTargetShares ==
    ASSUME Expr!Distinct, ExprInv, ShareInv,
           NEW f \in Expr!Futures, Expr!CancelTarget(f),
           NEW h, h \in told', h \in Expr!Futures, f \in Expr!Below(h),
           UNCHANGED <<program, made, operands, awaits>>,
           told' = told \cup {h}, task[h] # "none",
           NEW w \in Expr!Waiters, places' = [places EXCEPT ![w] = "cancelled"],
           w \in Expr!Callers => awaits[w] = f,
           w \notin Expr!Callers => \E g \in told : w[1] \in Expr!Below(g)
    PROVE  ShareInv'
<1>1. \A g \in Expr!Futures : task'[g] = task[g] \/ (g = f /\ task'[f] \in {"cancelled", "cancelling"})
  BY DEF Expr!CancelTarget, ExprInv, ExprTypes
<1>2. Expr!Below(h) \cap Expr!Below(f) # {}
  BY BelowClosed
<1>3. places'[w] = "cancelled" /\ \A u \in Expr!Waiters \ {w} : places'[u] = places[u]
  BY DEF ExprInv, ExprTypes
<1>4. \A g \in told' : g \in Expr!Futures /\ task'[g] # "none"
  BY <1>1 DEF ShareInv, ToldStarted
<1>5. \A c \in Expr!Callers :
        /\ places'[c] = "cancelled" => places[c] = "cancelled" \/ awaits[c] = f
        /\ places'[c] \in {"waits", "cancelled"} => awaits[c] \in Expr!Futures
        /\ places'[c] = "waits" => task'[awaits[c]] # "none"
  BY <1>1, <1>3 DEF ShareInv, AwaitsFutures, Expr!Waiters
<1>6. ASSUME NEW g \in Expr!Futures, NEW i \in {1, 2}
      PROVE  /\ places'[<<g, i>>] = "cancelled" =>
                   \/ places[<<g, i>>] = "cancelled"
                   \/ \E k \in told' : Expr!Below(k) \cap Expr!Below(g) # {}
             /\ places'[<<g, i>>] = "waits" => operands[g][i] \in Expr!Futures
  <2>1. <<g, i>> \in Expr!Waiters
    BY DEF Expr!Waiters, Expr!Children
  <2>2. g \in Expr!Below(g)
    BY BelowClosed
  <2>3. CASE <<g, i>> = w /\ w \notin Expr!Callers
    BY <1>3, <2>2, <2>3
  <2>4. CASE <<g, i>> # w
    BY <1>3, <2>1, <2>4 DEF ShareInv, AwaitsFutures
  <2>5. <<g, i>> \notin Expr!Callers
    BY DEF Expr!Distinct, Expr!Children
  <2> QED
    BY <2>3, <2>4, <2>5
<1> QED
  BY <1>1, <1>2, <1>4, <1>5, <1>6, SharesKeep

\* A caller is cancelled, with what is below the future it awaits.
LEMMA CancelShares ==
    ASSUME Expr!Distinct, ExprInv, ShareInv,
           \/ \E c \in Tasks : Expr!CancelCaller(c)
           \/ \E g \in Expr!Futures, i \in {1, 2} : Expr!CancelChild(g, i)
    PROVE  ShareInv'
<1>1. ASSUME NEW c \in Tasks, Expr!CancelCaller(c)
      PROVE  ShareInv'
  <2>1. c \in Expr!Callers /\ c \in Expr!Waiters
    BY DEF Expr!Callers, Expr!Waiters
  <2>2. /\ Expr!CancelTarget(awaits[c]) /\ places' = [places EXCEPT ![c] = "cancelled"]
        /\ told' = told \cup {awaits[c]} /\ UNCHANGED <<program, made, operands, awaits>>
        /\ places[c] = "waits"
    BY <1>1 DEF Expr!CancelCaller
  <2>3. awaits[c] \in Expr!Futures /\ task[awaits[c]] # "none"
    BY <2>1, <2>2 DEF ShareInv, AwaitsFutures
  <2>4. awaits[c] \in Expr!Below(awaits[c])
    BY <2>3, BelowClosed
  <2> QED
    BY <2>1, <2>2, <2>3, <2>4, CancelTargetShares
<1>2. ASSUME NEW g \in Expr!Futures, NEW i \in {1, 2}, Expr!CancelChild(g, i)
      PROVE  ShareInv'
  <2> DEFINE w == <<g, i>>
             f == operands[g][i]
  <2>1. w \in Expr!Waiters /\ w \notin Expr!Callers /\ w[1] = g
    BY DEF Expr!Waiters, Expr!Children, Expr!Distinct
  <2>2. /\ Expr!CancelTarget(f) /\ places' = [places EXCEPT ![w] = "cancelled"]
        /\ UNCHANGED <<program, made, operands, awaits, told>>
        /\ task[g] = "cancelling" /\ places[w] = "waits"
    BY <1>2 DEF Expr!CancelChild, Expr!Child
  <2>3. f \in Expr!Futures
    BY <2>2 DEF ShareInv, AwaitsFutures
  <2>4. PICK h \in told : g \in Expr!Below(h)
    BY <2>2 DEF ShareInv, CancelsBelow
  <2>5. h \in Expr!Futures /\ task[h] # "none"
    BY DEF ShareInv, ToldStarted
  <2>6. f \in Expr!Below(f) /\ Expr!Below(f) \subseteq Expr!Below(g)
    BY <2>3, BelowClosed
  <2>7. f \in Expr!Below(h)
    BY <2>4, <2>5, <2>6, BelowClosed
  <2>8. told' = told \cup {h}
    BY <2>2
  <2> HIDE DEF w, f
  <2> QED
    BY <2>1, <2>2, <2>3, <2>4, <2>5, <2>7, <2>8, CancelTargetShares
<1> QED
  BY <1>1, <1>2

\* The program cancels a future, or goes on.
LEMMA OthersShare ==
    ASSUME Expr!Distinct, ExprInv, ShareInv, (\E f \in Expr!Futures : Expr!Drop(f)) \/ Expr!GoOn
    PROVE  ShareInv'
<1>1. UNCHANGED <<program, made, operands, task, told>>
  BY DEF Expr!Drop, Expr!GoOn
<1>2. CASE \E f \in Expr!Futures : Expr!Drop(f)
  <2>1. UNCHANGED <<places, awaits>>
    BY <1>2 DEF Expr!Drop
  <2> QED
    BY <1>1, <2>1, SharesKeep DEF ShareInv, ToldStarted, AwaitsFutures
<1>3. CASE Expr!GoOn
  <2>1. /\ \A c \in Expr!Callers : \/ places'[c] = "idle"
                                   \/ places'[c] = places[c] /\ awaits'[c] = awaits[c]
        /\ \A g \in Expr!Futures, i \in {1, 2} : places'[<<g, i>>] = places[<<g, i>>]
    <3>1. /\ places' = [places EXCEPT ![Main] = "idle"] /\ awaits' = [awaits EXCEPT ![Main] = 0]
      BY <1>3 DEF Expr!GoOn
    <3>2. \A g \in Expr!Futures, i \in {1, 2} : <<g, i>> # Main /\ <<g, i>> \in Expr!Waiters
      BY DEF Expr!Distinct, Expr!Callers, Expr!Children, Expr!Waiters
    <3> QED
      BY <3>1, <3>2 DEF ExprInv, ExprTypes, Expr!Waiters
  <2> QED
    BY <1>1, <2>1, SharesKeep DEF ShareInv, ToldStarted, AwaitsFutures
<1> QED
  BY <1>2, <1>3

\* Every step keeps ShareInv.
LEMMA NextShares ==
    ASSUME Expr!Distinct, Expr!PlansFit, ExprInv, ShareInv, [Expr!Next]_(Expr!vars)
    PROVE  ShareInv'
<1>1. CASE UNCHANGED Expr!vars
  <2>1. UNCHANGED <<program, made, operands, task, places, awaits, told>>
    BY <1>1 DEF Expr!vars
  <2> QED
    BY <2>1, SharesKeep DEF ShareInv, ToldStarted, AwaitsFutures
<1>2. CASE \E f \in Expr!Futures :
             \/ Expr!CallEnds(f) \/ Expr!GatherFails(f) \/ Expr!Compute(f)
             \/ Expr!OperationCancelled(f)
  BY <1>2, EndsShare
<1> QED
  BY <1>1, <1>2, MakesShares, AwaitShares, GatherShares, ResumeShares, CancelShares, OthersShare
  DEF Expr!Next, Expr!Runs

-----------------------------------------------------------------------------
\* CancelledError reaches a caller only through a future that it shares with a
\* caller that was cancelled.
THEOREM CancelsReachSharers ==
    ASSUME Expr!Distinct, Expr!PlansFit
    PROVE  Expr!Spec => []Expr!CancelStaysAmongSharers
<1>1. Expr!Init => ExprInv /\ ShareInv
  BY InitExpr, InitShares
<1>2. ExprInv /\ ShareInv /\ [Expr!Next]_(Expr!vars) => (ExprInv /\ ShareInv)'
  BY ExprNextKeeps, NextShares
<1>3. ShareInv => Expr!CancelStaysAmongSharers
  BY DEF ShareInv, CancelledShare, Shares, Expr!CancelStaysAmongSharers
<1> QED
  BY <1>1, <1>2, <1>3, PTL DEF Expr!Spec

-----------------------------------------------------------------------------
\* Where waiters are, what they await and what futures are made of.
Operands == 0..MaxFutures \cup {Const}
Places == {"idle", "waits", "InvalidStateError"} \cup Expr!Ended

ExprPlaces ==
    /\ operands \in [Expr!Futures -> Operands \X Operands]
    /\ places \in [Expr!Waiters -> Places]
    /\ awaits \in [Expr!Callers -> 0..MaxFutures]

\* Who asks for a future is told what it came to, or waits.
LEMMA AskPlaces ==
    ASSUME ExprInv, ExprPlaces, NEW w, NEW f \in Expr!Futures, Expr!Ask(w, f)
    PROVE  places' \in [Expr!Waiters -> Places]
<1>1. states[f] # "pending" => Expr!OutcomeOf(f) \in Places
  BY DEF ExprInv, ExprTypes, Expr!OutcomeOf, Expr!Ended, Places
<1>2. "waits" \in Places
  BY DEF Places
<1> QED
  BY <1>1, <1>2 DEF Expr!Ask, ExprPlaces

\* The operands of a future that is made were made before it.
LEMMA MakesPlaces ==
    ASSUME Expr!PlansFit, ShareInv, ExprPlaces, NEW two \in Expr!Pairs \cup {Expr!Call},
           Expr!Makes(two)
    PROVE  operands' \in [Expr!Futures -> Operands \X Operands]
<1>1. two \in Operands \X Operands
  BY DEF Expr!Pairs, Expr!Call, Operands, ShareInv, Ordered, Expr!PlansFit
<1> QED
  BY <1>1 DEF Expr!Makes, ExprPlaces

\* Every step keeps these types.
LEMMA NextPlaces ==
    ASSUME Expr!Distinct, Expr!PlansFit, ExprInv, ShareInv, ExprPlaces, [Expr!Next]_(Expr!vars)
    PROVE  ExprPlaces'
<1> USE DEF ExprPlaces
<1>0. /\ Expr!Futures \subseteq 0..MaxFutures /\ made \in 0..MaxFutures
      /\ 1..made \subseteq Expr!Futures /\ 0 \in 0..MaxFutures
      /\ {"idle", "cancelled", "value"} \subseteq Places
      /\ Expr!Ended \subseteq Places
  BY DEF Expr!Futures, ShareInv, Ordered, Expr!PlansFit, Places, Expr!Ended
<1>1. CASE UNCHANGED Expr!vars
  BY <1>1 DEF Expr!vars
<1>2. CASE Expr!MakeCall \/ Expr!Operate
  BY <1>2, MakesPlaces DEF Expr!MakeCall, Expr!Operate
<1>3. CASE Expr!Compare
  <2>1. operands' \in [Expr!Futures -> Operands \X Operands]
    BY <1>3, MakesPlaces DEF Expr!Compare
  <2>2. made + 1 \in Expr!Futures
    BY <1>3 DEF Expr!Compare, Expr!Makes, Expr!Futures, ShareInv, Ordered, Expr!PlansFit
  <2> QED
    BY <1>0, <1>3, <2>1, <2>2, AskPlaces DEF Expr!Compare, Expr!RunsLoopFor
<1>4. CASE Expr!Materialize
  BY <1>0, <1>4, AskPlaces DEF Expr!Materialize, Expr!RunsLoopFor
<1>5. CASE \E c \in Tasks : Expr!Await(c)
  BY <1>0, <1>5, AskPlaces DEF Expr!Await
<1>6. ASSUME NEW g \in Expr!Futures, NEW i \in {1, 2}, Expr!Gather(g, i)
      PROVE  ExprPlaces'
  <2>1. CASE operands[g][i] = Const
    BY <1>0, <1>6, <2>1 DEF Expr!Gather
  <2>2. CASE operands[g][i] # Const
    <3>1. operands[g][i] \in Expr!Futures
      BY <1>6, <2>2 DEF Expr!Gather, ShareInv, Ordered
    <3> QED
      BY <1>6, <2>2, <3>1, AskPlaces DEF Expr!Gather
  <2> QED
    BY <2>1, <2>2
<1>7. ASSUME NEW w \in Expr!Waiters, Expr!Resume(w)
      PROVE  ExprPlaces'
  <2>1. PICK r \in Places : places' = [places EXCEPT ![w] = r]
    <3>1. "InvalidStateError" \in Places
      BY DEF Places
    <3> QED
      BY <1>0, <1>7, <3>1 DEF Expr!Resume
  <2> QED
    BY <1>7, <2>1 DEF Expr!Resume
<1>8. CASE \E f \in Expr!Futures :
             \/ Expr!CallEnds(f) \/ Expr!GatherFails(f) \/ Expr!Compute(f)
             \/ Expr!OperationCancelled(f) \/ Expr!Drop(f)
  BY <1>8 DEF Expr!CallEnds, Expr!GatherFails, Expr!Compute, Expr!OperationCancelled, Expr!Drop
<1>9. CASE \/ \E c \in Tasks : Expr!CancelCaller(c)
           \/ \E g \in Expr!Futures, i \in {1, 2} : Expr!CancelChild(g, i)
  BY <1>0, <1>9 DEF Expr!CancelCaller, Expr!CancelChild
<1>10. CASE Expr!GoOn
  BY <1>0, <1>10 DEF Expr!GoOn
<1> QED
  BY <1>1, <1>2, <1>3, <1>4, <1>5, <1>6, <1>7, <1>8, <1>9, <1>10 DEF Expr!Next, Expr!Runs

\* The types of ASyncFuture are those that are declared.
THEOREM ExpressionsHaveTypes ==
    ASSUME Expr!Distinct, Expr!PlansFit
    PROVE  Expr!Spec => []Expr!TypeOK
<1>1. Expr!Init => ExprInv /\ ShareInv /\ ExprPlaces
  <2>1. Expr!Init => ExprPlaces
    BY DEF Expr!Init, Expr!Call, ExprPlaces, Operands, Places, Expr!PlansFit
  <2> QED
    BY <2>1, InitExpr, InitShares
<1>2. ExprInv /\ ShareInv /\ ExprPlaces /\ [Expr!Next]_(Expr!vars)
        => (ExprInv /\ ShareInv /\ ExprPlaces)'
  BY ExprNextKeeps, NextShares, NextPlaces
<1>3. ExprInv /\ ShareInv /\ ExprPlaces => Expr!TypeOK
  BY DEF ExprInv, ExprTypes, ShareInv, Ordered, ToldStarted, ExprPlaces, Operands, Places,
         Expr!Ended, Expr!TypeOK
<1> QED
  BY <1>1, <1>2, <1>3, PTL DEF Expr!Spec
=============================================================================
