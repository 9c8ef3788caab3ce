----------------------- MODULE ProcessingQueueProofs -----------------------
(***************************************************************************)
(* ProcessingQueue counts its jobs exactly, join() returns no earlier than *)
(* it should, and no two workers get a job: for any jobs and workers, and  *)
(* any way to create and use the queue.                                    *)
(*                                                                         *)
(* In the second part (Pool, with variables of its own): the Executor,     *)
(* which has a queue of jobs and workers too, never leaves a job without a *)
(* thread, loses none and runs none twice, for any jobs and any number of  *)
(* threads.                                                                *)
(***************************************************************************)
EXTENDS ProcessingQueue, FiniteSetTheorems, SequenceTheorems, TLAPS

\* The jobs that a worker has, running them or dead of them.
Carried == {job[w] : w \in InState("running") \cup InState("dead")}

\* A queue that works still has every job it owes something.
Tracked ==
    Works => \A j \in Jobs :
        /\ fut[j] = "pending" => j \in Queued \cup Carried
        /\ (j \in Accepted /\ j \notin ran /\ fut[j] \notin {"cancelled", "collected"})
             => j \in Queued

\* What every step keeps.  The count alone does not say that the jobs which are
\* no longer counted are settled: that is Tracked.
IInv == TypeOK /\ UnfinishedIsExact /\ Tracked

-----------------------------------------------------------------------------
LEMMA FiniteWorkers ==
    ASSUME NEW S \in SUBSET Workers
    PROVE  IsFiniteSet(S) /\ Cardinality(S) \in Nat
BY WorkersAssumption, FS_Subset, FS_CardinalityType

\* One more worker.
LEMMA OneMore ==
    ASSUME NEW S \in SUBSET Workers, NEW w \in Workers
    PROVE  /\ w \notin S => Cardinality(S \cup {w}) = Cardinality(S) + 1
           /\ w \in S => /\ Cardinality(S \ {w}) = Cardinality(S) - 1
                         /\ Cardinality(S) >= 1
<1>1. IsFiniteSet(S) /\ Cardinality(S) \in Nat
  BY FiniteWorkers
<1>2. IsFiniteSet(S \ {w}) /\ Cardinality(S \ {w}) \in Nat
  BY FiniteWorkers
<1>3. w \notin S => Cardinality(S \cup {w}) = Cardinality(S) + 1
  BY <1>1, FS_AddElement
<1>4. w \in S => Cardinality(S \ {w}) = Cardinality(S) - 1
  BY <1>1, FS_RemoveElement
<1> QED
  BY <1>1, <1>2, <1>3, <1>4

\* The counts of workers are numbers.
LEMMA Counts ==
    ASSUME TypeOK
    PROVE  /\ InState("running") \in SUBSET Workers
           /\ InState("dead") \in SUBSET Workers
           /\ Cardinality(InState("running")) \in Nat
           /\ Cardinality(InState("dead")) \in Nat
           /\ Len(queue) \in Nat
<1>1. InState("running") \in SUBSET Workers /\ InState("dead") \in SUBSET Workers
  BY DEF InState
<1>2. Len(queue) \in Nat
  BY DEF TypeOK
<1> QED
  BY <1>1, <1>2, FiniteWorkers

\* Taking a job leaves the others in the queue.
LEMMA OneLess ==
    ASSUME TypeOK, NEW i \in DOMAIN queue
    PROVE  /\ QueueWithout(i) \in Seq(Jobs)
           /\ Len(QueueWithout(i)) = Len(queue) - 1 /\ Len(queue) >= 1
           /\ queue[i] \in Jobs
           /\ \A k \in DOMAIN queue : k # i =>
                \E l \in DOMAIN QueueWithout(i) : QueueWithout(i)[l] = queue[k]
<1> DEFINE r == QueueWithout(i)
<1>1. /\ queue \in Seq(Jobs) /\ Len(queue) \in Nat
      /\ DOMAIN queue = 1..Len(queue) /\ i \in 1..Len(queue)
      /\ queue[i] \in Jobs
  BY DEF TypeOK
<1>2. r = [j \in 1..(Len(queue) - 1) |-> IF j < i THEN queue[j] ELSE queue[j + 1]]
  BY DEF QueueWithout
<1>3. /\ r \in Seq(Jobs) /\ DOMAIN r = 1..(Len(queue) - 1)
      /\ Len(r) = Len(queue) - 1
      /\ \A j \in DOMAIN r : r[j] = IF j < i THEN queue[j] ELSE queue[j + 1]
  <2> HIDE DEF r
  <2>1. \A j \in 1..(Len(queue) - 1) :
          (IF j < i THEN queue[j] ELSE queue[j + 1]) \in Jobs
    BY <1>1
  <2> QED
    BY <1>1, <1>2, <2>1
<1> HIDE DEF r
<1>4. ASSUME NEW k \in DOMAIN queue, k # i
      PROVE  \E l \in DOMAIN r : r[l] = queue[k]
  <2>1. CASE k < i
    BY <1>1, <1>3, <2>1
  <2>2. CASE ~(k < i)
    <3>1. k - 1 \in DOMAIN r /\ ~(k - 1 < i) /\ (k - 1) + 1 = k
      BY <1>1, <1>3, <1>4, <2>2
    <3> QED
      BY <1>3, <3>1
  <2> QED
    BY <2>1, <2>2
<1> QED
  BY <1>1, <1>3, <1>4 DEF r

-----------------------------------------------------------------------------
LEMMA InitIInv == Init => IInv
<1> SUFFICES ASSUME Init PROVE IInv
  OBVIOUS
<1>1. TypeOK
  <2>1. queue \in Seq(Jobs)
    BY DEF Init
  <2>2. at \in [Workers -> {"idle", "running", "dead"}]
    BY DEF Init
  <2>3. job \in [Workers -> Jobs \cup {NoJob}]
    BY DEF Init
  <2>4. fut \in [Jobs -> FutStates]
    BY DEF Init, FutStates
  <2> QED
    BY <2>1, <2>2, <2>3, <2>4 DEF Init, TypeOK
<1>2. UnfinishedIsExact
  <2>1. InState("running") = {} /\ InState("dead") = {}
    BY DEF Init, InState
  <2>2. Len(queue) = 0 /\ unfinished = 0
    BY DEF Init
  <2>3. Cardinality(InState("running")) = 0 /\ Cardinality(InState("dead")) = 0
    BY <2>1, FS_EmptySet
  <2> QED
    BY <2>1, <2>2, <2>3 DEF UnfinishedIsExact
<1>3. Tracked
  BY DEF Init, Tracked, Accepted
<1> QED
  BY <1>1, <1>2, <1>3 DEF IInv

\* put_nowait() counts the job it puts.
LEMMA PutKeeps ==
    ASSUME IInv, NEW j \in Jobs, Put(j)
    PROVE  IInv'
<1>1. /\ queue \in Seq(Jobs) /\ Len(queue) \in Nat /\ DOMAIN queue = 1..Len(queue)
  BY DEF IInv, TypeOK
<1>2. /\ queue' \in Seq(Jobs) /\ Len(queue') = Len(queue) + 1
      /\ DOMAIN queue' = 1..(Len(queue) + 1)
      /\ queue'[Len(queue) + 1] = j
      /\ \A i \in DOMAIN queue : queue'[i] = queue[i]
  BY <1>1, AppendProperties DEF Put
<1>3. TypeOK'
  BY <1>2 DEF Put, IInv, TypeOK, FutStates
<1>4. UnfinishedIsExact'
  <2>1. InState("running")' = InState("running") /\ InState("dead")' = InState("dead")
    BY DEF Put, InState
  <2> QED
    BY <1>2, <2>1, Counts DEF Put, IInv, UnfinishedIsExact
<1>5. Tracked'
  <2>1. Queued \cup {j} \subseteq Queued'
    BY <1>1, <1>2 DEF Queued
  <2>2. /\ Carried' = Carried /\ (Works' <=> Works) /\ ran' = ran
        /\ \A k \in Jobs \ {j} : fut'[k] = fut[k]
    BY DEF Put, Carried, InState, Works, IInv, TypeOK
  <2> QED
    BY <2>1, <2>2 DEF IInv, Tracked, Accepted
<1> QED
  BY <1>3, <1>4, <1>5 DEF IInv

\* The futures change, to states that promise nothing, and nothing else.
LEMMA FuturesKeep ==
    ASSUME IInv, NEW j \in Jobs, Refuse(j) \/ CancelFuture(j) \/ Drop(j)
    PROVE  IInv'
<1>1. /\ UNCHANGED <<mode, queue, unfinished, closed, started, broken, at, job, ran>>
      /\ fut' \in [Jobs -> FutStates]
      /\ \A k \in Jobs \ {j} : fut'[k] = fut[k]
      /\ fut'[j] \in {"refused", "cancelled", "collected"}
  BY DEF Refuse, CancelFuture, Drop, IInv, TypeOK, FutStates
<1>2. TypeOK' /\ UnfinishedIsExact'
  BY <1>1 DEF IInv, TypeOK, UnfinishedIsExact, InState
<1>3. Tracked'
  <2>1. Queued' = Queued /\ Carried' = Carried /\ (Works' <=> Works)
    BY <1>1 DEF Queued, Carried, InState, Works
  <2> QED
    BY <1>1, <2>1 DEF IInv, Tracked, Accepted
<1> QED
  BY <1>2, <1>3 DEF IInv

\* Closing, and the failure of the gathering task, touch no job.
LEMMA SwitchesKeep ==
    ASSUME IInv, Close \/ Break
    PROVE  IInv'
<1>1. /\ UNCHANGED <<mode, queue, unfinished, at, job, fut, ran, started>>
      /\ closed' \in BOOLEAN /\ broken' \in BOOLEAN
  BY DEF Close, Break, IInv, TypeOK
<1>2. TypeOK' /\ UnfinishedIsExact'
  BY <1>1 DEF IInv, TypeOK, UnfinishedIsExact, InState
<1>3. Tracked'
  BY <1>1 DEF IInv, Tracked, Accepted, Queued, Carried, InState, Works
<1> QED
  BY <1>2, <1>3 DEF IInv

\* A worker goes from one state to another, and the counts with it.
LEMMA WorkerMoves ==
    ASSUME TypeOK, NEW w \in Workers, NEW to \in {"idle", "running", "dead"},
           at' = [at EXCEPT ![w] = to], at[w] # to, at[w] # "dead"
    PROVE  LET R == Cardinality(InState("running"))
               D == Cardinality(InState("dead"))
           IN  /\ Cardinality(InState("running")') =
                    IF to = "running" THEN R + 1
                    ELSE IF at[w] = "running" THEN R - 1 ELSE R
               /\ Cardinality(InState("dead")') = IF to = "dead" THEN D + 1 ELSE D
               /\ at[w] = "running" => R >= 1
<1>1. /\ at \in [Workers -> {"idle", "running", "dead"}]
      /\ at' = [x \in Workers |-> IF x = w THEN to ELSE at[x]]
  BY DEF TypeOK
<1>2. InState("running") \in SUBSET Workers /\ InState("dead") \in SUBSET Workers
  BY Counts
<1>3. InState("running")' =
        IF to = "running" THEN InState("running") \cup {w}
        ELSE IF at[w] = "running" THEN InState("running") \ {w} ELSE InState("running")
  BY <1>1 DEF InState
<1>4. InState("dead")' = IF to = "dead" THEN InState("dead") \cup {w} ELSE InState("dead")
  BY <1>1 DEF InState
<1>5. /\ to = "running" => w \notin InState("running")
      /\ at[w] = "running" => w \in InState("running")
      /\ w \notin InState("dead")
  BY DEF InState
<1> QED
  BY <1>2, <1>3, <1>4, <1>5, OneMore

\* What the jobs of the queue and of the workers become when w takes the i-th
\* job, and gets it, or is done with it at once.
LEMMA TakeMoves ==
    ASSUME TypeOK, NEW w \in Workers, at[w] = "idle", NEW i \in DOMAIN queue,
           queue' = QueueWithout(i),
           \/ UNCHANGED <<at, job>>
           \/ /\ at' = [at EXCEPT ![w] = "running"] \/ at' = [at EXCEPT ![w] = "dead"]
              /\ job' = [job EXCEPT ![w] = queue[i]]
    PROVE  /\ Queued \subseteq Queued' \cup {queue[i]}
           /\ Carried \subseteq Carried'
           /\ ~UNCHANGED <<at, job>> => queue[i] \in Carried'
<1>1. Queued \subseteq Queued' \cup {queue[i]}
  <2>1. ASSUME NEW k \in DOMAIN queue, queue[k] # queue[i]
        PROVE  queue[k] \in Queued'
    <3>1. PICK l \in DOMAIN QueueWithout(i) : QueueWithout(i)[l] = queue[k]
      BY <2>1, OneLess
    <3> QED
      BY <3>1 DEF Queued
  <2> QED
    BY <2>1 DEF Queued
<1>2. CASE UNCHANGED <<at, job>>
  BY <1>1, <1>2 DEF Carried, InState
<1>3. CASE /\ at' = [at EXCEPT ![w] = "running"] \/ at' = [at EXCEPT ![w] = "dead"]
           /\ job' = [job EXCEPT ![w] = queue[i]]
  <2>1. /\ \A x \in Workers \ {w} : at'[x] = at[x] /\ job'[x] = job[x]
        /\ at'[w] \in {"running", "dead"} /\ job'[w] = queue[i]
    BY <1>3 DEF TypeOK
  <2> QED
    BY <1>1, <2>1 DEF Carried, InState
<1> QED
  BY <1>2, <1>3

\* A worker takes a job.
LEMMA TakeKeeps ==
    ASSUME IInv, NEW w \in Workers, Take(w)
    PROVE  IInv'
<1>1. PICK i \in DOMAIN queue :
        LET j == queue[i] IN
        /\ NextUp(i)
        /\ queue' = QueueWithout(i)
        /\ \/ mode.returnData /\ fut[j] = "collected" /\ Dies(w, j) /\ UNCHANGED ran
           \/ /\ \/ mode.returnData /\ fut[j] = "cancelled"
                 \/ ~mode.returnData /\ mode.prioritized
              /\ TaskDone
              /\ UNCHANGED <<at, job, ran>>
           \/ /\ IF mode.returnData THEN fut[j] = "pending" ELSE ~mode.prioritized
              /\ Runs(w, j)
  BY DEF Take
<1> DEFINE j == queue[i]
<1>2. /\ queue' \in Seq(Jobs) /\ Len(queue') = Len(queue) - 1 /\ Len(queue) >= 1
      /\ j \in Jobs
  BY <1>1, OneLess DEF IInv
<1> HIDE DEF j
<1>3. /\ TypeOK /\ at[w] = "idle"
      /\ UNCHANGED <<mode, closed, started, broken, fut>>
  BY DEF Take, IInv
<1>4. /\ Len(queue) \in Nat
      /\ Cardinality(InState("running")) \in Nat /\ Cardinality(InState("dead")) \in Nat
      /\ unfinished = Len(queue) + Cardinality(InState("running"))
                                 + Cardinality(InState("dead"))
  BY Counts DEF IInv, UnfinishedIsExact
<1>5. (Works' <=> Works) /\ Accepted' = Accepted
  BY <1>3 DEF Works, Accepted
<1>6. CASE mode.returnData /\ fut[j] = "collected" /\ Dies(w, j) /\ UNCHANGED ran
  <2>1. /\ Cardinality(InState("running")') = Cardinality(InState("running"))
        /\ Cardinality(InState("dead")') = Cardinality(InState("dead")) + 1
    BY <1>3, <1>6, WorkerMoves DEF Dies
  <2>2. TypeOK'
    BY <1>2, <1>3, <1>6 DEF TypeOK, Dies
  <2>3. UnfinishedIsExact'
    BY <1>2, <1>4, <1>6, <2>1 DEF UnfinishedIsExact, Dies
  <2>4. Queued \subseteq Queued' \cup {j} /\ Carried \subseteq Carried'
    BY <1>1, <1>3, <1>6, TakeMoves DEF Dies, j
  <2>5. Tracked'
    BY <1>3, <1>5, <1>6, <2>4 DEF IInv, Tracked
  <2> QED
    BY <2>2, <2>3, <2>5 DEF IInv
<1>7. CASE /\ \/ mode.returnData /\ fut[j] = "cancelled"
              \/ ~mode.returnData /\ mode.prioritized
           /\ TaskDone
           /\ UNCHANGED <<at, job, ran>>
  <2>1. InState("running")' = InState("running") /\ InState("dead")' = InState("dead")
    BY <1>7 DEF InState
  <2>2. unfinished' = unfinished - 1 /\ unfinished >= 1
    BY <1>2, <1>4, <1>7 DEF TaskDone
  <2>3. TypeOK'
    BY <1>2, <1>3, <1>7, <2>2 DEF TypeOK
  <2>4. UnfinishedIsExact'
    BY <1>2, <1>4, <2>1, <2>2 DEF UnfinishedIsExact
  <2>5. Queued \subseteq Queued' \cup {j} /\ Carried \subseteq Carried'
    BY <1>1, <1>3, <1>7, TakeMoves DEF j
  <2>6. Works => fut[j] = "cancelled"
    BY <1>7 DEF Works
  <2>7. Tracked'
    BY <1>3, <1>5, <1>7, <2>5, <2>6 DEF IInv, Tracked
  <2> QED
    BY <2>3, <2>4, <2>7 DEF IInv
<1>8. CASE /\ IF mode.returnData THEN fut[j] = "pending" ELSE ~mode.prioritized
           /\ Runs(w, j)
  <2>1. /\ Cardinality(InState("running")') = Cardinality(InState("running")) + 1
        /\ Cardinality(InState("dead")') = Cardinality(InState("dead"))
    BY <1>3, <1>8, WorkerMoves DEF Runs
  <2>2. TypeOK'
    BY <1>2, <1>3, <1>8 DEF TypeOK, Runs
  <2>3. UnfinishedIsExact'
    BY <1>2, <1>4, <1>8, <2>1 DEF UnfinishedIsExact, Runs
  <2>4. ~UNCHANGED <<at, job>>
    BY <1>3, <1>8 DEF Runs, TypeOK
  <2>5. /\ Queued \subseteq Queued' \cup {j} /\ Carried \subseteq Carried'
        /\ j \in Carried'
    BY <1>1, <1>3, <1>8, <2>4, TakeMoves DEF Runs, j
  <2>6. ran' = ran \cup {j}
    BY <1>8 DEF Runs
  <2>7. Tracked'
    BY <1>3, <1>5, <2>5, <2>6 DEF IInv, Tracked
  <2> QED
    BY <2>2, <2>3, <2>7 DEF IInv
<1> QED
  BY <1>1, <1>6, <1>7, <1>8 DEF j

\* A worker dies while func runs, keeping its job.
LEMMA DeathKeeps ==
    ASSUME IInv, NEW w \in Workers, at[w] = "running", Dies(w, job[w]),
           UNCHANGED <<mode, queue, closed, started, broken, fut, ran>>
    PROVE  IInv'
<1>1. TypeOK
  BY DEF IInv
<1>2. /\ Cardinality(InState("running")') = Cardinality(InState("running")) - 1
      /\ Cardinality(InState("dead")') = Cardinality(InState("dead")) + 1
  BY <1>1, WorkerMoves DEF Dies
<1>3. TypeOK'
  BY <1>1 DEF TypeOK, Dies
<1>4. UnfinishedIsExact'
  BY <1>1, <1>2, Counts DEF IInv, UnfinishedIsExact, Dies
<1>5. Carried \subseteq Carried'
  BY <1>1 DEF Carried, InState, Dies, TypeOK
<1>6. Queued' = Queued /\ (Works' <=> Works) /\ Accepted' = Accepted
  BY DEF Queued, Works, Accepted
<1>7. Tracked'
  BY <1>5, <1>6 DEF IInv, Tracked
<1> QED
  BY <1>3, <1>4, <1>7 DEF IInv

\* A job ends, and is counted off.
LEMMA FinishKeeps ==
    ASSUME IInv, NEW w \in Workers, Finish(w)
    PROVE  IInv'
<1>1. TypeOK /\ at[w] = "running"
  BY DEF IInv, Finish
<1>2. CASE mode.returnData /\ fut[job[w]] = "collected" /\ Dies(w, job[w]) /\ UNCHANGED fut
  BY <1>1, <1>2, DeathKeeps DEF Finish
<1>3. CASE /\ ~mode.returnData \/ fut[job[w]] \in {"pending", "cancelled"}
           /\ fut' = IF fut[job[w]] = "pending"
                     THEN [fut EXCEPT ![job[w]] = "done"] ELSE fut
           /\ TaskDone
           /\ at' = [at EXCEPT ![w] = "idle"]
           /\ job' = [job EXCEPT ![w] = NoJob]
  <2>1. UNCHANGED <<mode, queue, closed, started, broken, ran>>
    BY DEF Finish
  <2>2. /\ Cardinality(InState("running")') = Cardinality(InState("running")) - 1
        /\ Cardinality(InState("dead")') = Cardinality(InState("dead"))
        /\ Cardinality(InState("running")) >= 1
    BY <1>1, <1>3, WorkerMoves
  <2>3. /\ Len(queue) \in Nat
        /\ Cardinality(InState("running")) \in Nat /\ Cardinality(InState("dead")) \in Nat
        /\ unfinished = Len(queue) + Cardinality(InState("running"))
                                   + Cardinality(InState("dead"))
    BY <1>1, Counts DEF IInv, UnfinishedIsExact
  <2>4. unfinished' = unfinished - 1 /\ unfinished >= 1
    BY <1>3, <2>2, <2>3 DEF TaskDone
  <2>5. fut' \in [Jobs -> FutStates]
    BY <1>1, <1>3 DEF TypeOK, FutStates
  <2>6. TypeOK'
    BY <1>1, <1>3, <2>1, <2>4, <2>5 DEF TypeOK
  <2>7. UnfinishedIsExact'
    BY <2>1, <2>2, <2>3, <2>4 DEF UnfinishedIsExact
  <2>8. /\ Queued' = Queued /\ (Works' <=> Works)
        /\ Carried \subseteq Carried' \cup {job[w]}
    BY <1>1, <1>3, <2>1 DEF Queued, Works, Carried, InState, TypeOK
  <2>9. /\ \A k \in Jobs : fut'[k] = fut[k] \/ (fut[k] = "pending" /\ fut'[k] = "done")
        /\ job[w] \in Jobs => fut'[job[w]] # "pending"
    BY <1>1, <1>3 DEF TypeOK
  <2>10. Accepted' = Accepted
    BY <2>9 DEF Accepted
  <2>11. Tracked'
    BY <2>1, <2>8, <2>9, <2>10 DEF IInv, Tracked
  <2> QED
    BY <2>6, <2>7, <2>11 DEF IInv
<1> QED
  BY <1>2, <1>3 DEF Finish

\* So is one whose future was cancelled.
LEMMA FinishCancelledKeeps ==
    ASSUME IInv, NEW w \in Workers, FinishCancelled(w)
    PROVE  IInv'
BY DeathKeeps DEF FinishCancelled

\* Every step keeps IInv.
LEMMA NextKeepsIInv == IInv /\ [Next]_vars => IInv'
<1> SUFFICES ASSUME IInv, [Next]_vars PROVE IInv'
  OBVIOUS
<1>1. CASE UNCHANGED vars
  BY <1>1 DEF vars, IInv, TypeOK, UnfinishedIsExact, Tracked, Queued, Carried,
              Accepted, InState, Works
<1>2. CASE Next
  BY <1>2, PutKeeps, FuturesKeep, SwitchesKeep, TakeKeeps, FinishKeeps,
     FinishCancelledKeeps DEF Next
<1> QED
  BY <1>1, <1>2

\* IInv holds always.
LEMMA SpecIInv == Spec => []IInv
BY InitIInv, NextKeepsIInv, PTL DEF Spec

-----------------------------------------------------------------------------
\* The count that join() waits for is that of the jobs queued, running, or lost
\* with their worker, however workers die and futures are cancelled or dropped.
THEOREM CountIsExact == Spec => [](TypeOK /\ UnfinishedIsExact)
<1>1. IInv => TypeOK /\ UnfinishedIsExact
  BY DEF IInv
<1> QED
  BY <1>1, SpecIInv, PTL

\* When join() returns, no accepted job is unsettled.
THEOREM JoinReturnsInTime == Spec => []JoinMeansProcessed
<1>1. IInv => JoinMeansProcessed
  <2> SUFFICES ASSUME IInv, Works, unfinished = 0 PROVE AllProcessed
    BY DEF JoinMeansProcessed
  <2>1. /\ Len(queue) \in Nat
        /\ Cardinality(InState("running")) \in Nat /\ Cardinality(InState("dead")) \in Nat
        /\ Len(queue) + Cardinality(InState("running")) + Cardinality(InState("dead")) = 0
    BY Counts DEF IInv, UnfinishedIsExact
  <2>2. Len(queue) = 0 /\ Cardinality(InState("running")) = 0
                       /\ Cardinality(InState("dead")) = 0
    BY <2>1
  <2>3. Queued = {}
    BY <2>2 DEF Queued, IInv, TypeOK
  <2>4. InState("running") = {} /\ InState("dead") = {}
    <3>1. /\ IsFiniteSet(InState("running")) /\ IsFiniteSet(InState("dead"))
      BY FiniteWorkers DEF InState
    <3> QED
      BY <2>2, <3>1, FS_EmptySet
  <2>5. Carried = {}
    BY <2>4 DEF Carried
  <2> QED
    BY <2>3, <2>5 DEF IInv, Tracked, AllProcessed, Accepted
<1> QED
  BY <1>1, SpecIInv, PTL

-----------------------------------------------------------------------------
\* Where each job is: an idle worker has none, one that was never put is nowhere, and
\* the futures that were collected are those that may be.
Apart ==
    /\ OneJobOneWorker
    /\ \A w \in Workers : IF at[w] = "idle" THEN job[w] = NoJob ELSE job[w] \in Jobs
    /\ \A j \in Jobs :
         /\ fut[j] = "unborn" => j \notin Queued /\ j \notin ran /\ \A w \in Workers : job[w] # j
         /\ fut[j] = "collected" => j \in mode.dropped

\* The others stay in the queue, each once, when one is taken.
LEMMA OthersRemain ==
    ASSUME TypeOK, NEW i \in DOMAIN queue,
           \A k, l \in DOMAIN queue : queue[k] = queue[l] => k = l
    PROVE  /\ \A k, l \in DOMAIN QueueWithout(i) :
                QueueWithout(i)[k] = QueueWithout(i)[l] => k = l
           /\ \A k \in DOMAIN QueueWithout(i) :
                QueueWithout(i)[k] \in Queued /\ QueueWithout(i)[k] # queue[i]
<1> DEFINE n == Len(queue)  r == QueueWithout(i)
<1>1. n \in Nat /\ DOMAIN queue = 1..n /\ i \in 1..n
  BY DEF TypeOK
<1>2. DOMAIN r = 1..(n - 1) /\ \A k \in 1..(n - 1) : r[k] = queue[IF k < i THEN k ELSE k + 1]
  BY DEF QueueWithout
<1>3. \A k \in 1..(n - 1) : (IF k < i THEN k ELSE k + 1) \in 1..n \ {i}
  BY <1>1
<1>4. \A k, l \in 1..(n - 1) :
        (IF k < i THEN k ELSE k + 1) = (IF l < i THEN l ELSE l + 1) => k = l
  BY <1>1
<1> HIDE DEF n, r
<1>5. \A k, l \in DOMAIN r : r[k] = r[l] => k = l
  BY <1>1, <1>2, <1>3, <1>4
<1>6. \A k \in DOMAIN r : r[k] \in Queued /\ r[k] # queue[i]
  BY <1>1, <1>2, <1>3 DEF Queued
<1> QED
  BY <1>5, <1>6 DEF r

\* One that is put is behind the others.
LEMMA PutKeepsApart ==
    ASSUME TypeOK, Apart, NEW j \in Jobs, Put(j)
    PROVE  Apart'
<1>1. /\ fut[j] = "unborn" /\ queue' = Append(queue, j)
      /\ fut' \in {[fut EXCEPT ![j] = "pending"], [fut EXCEPT ![j] = "absent"]}
      /\ UNCHANGED <<mode, at, job, ran>>
  BY DEF Put
<1>2. /\ Len(queue) \in Nat /\ DOMAIN queue = 1..Len(queue)
      /\ DOMAIN queue' = 1..Len(queue) + 1 /\ queue'[Len(queue) + 1] = j
      /\ \A i \in 1..Len(queue) : queue'[i] = queue[i]
  BY <1>1 DEF TypeOK
<1>3. Queued' = Queued \cup {j}
  <2>1. \A i \in 1..Len(queue) + 1 : i \in 1..Len(queue) \/ i = Len(queue) + 1
    BY <1>2
  <2>2. Len(queue) + 1 \in 1..Len(queue) + 1 /\ \A i \in 1..Len(queue) : i \in 1..Len(queue) + 1
    BY <1>2
  <2> QED
    BY <1>2, <2>1, <2>2 DEF Queued
<1>4. j \notin Queued \cup ran /\ \A w \in Workers : job[w] # j
  BY <1>1 DEF Apart
<1>5. \A i, k \in DOMAIN queue' : queue'[i] = queue'[k] => i = k
  <2>1. \A i \in 1..Len(queue) : queue[i] # j
    BY <1>2, <1>4 DEF Queued
  <2> QED
    BY <1>2, <2>1 DEF Apart, OneJobOneWorker
<1>6. OneJobOneWorker'
  BY <1>1, <1>3, <1>4, <1>5 DEF Apart, OneJobOneWorker, InState
<1>7. \A k \in Jobs : fut'[k] = fut[k] \/ (k = j /\ fut'[k] \in {"pending", "absent"})
  BY <1>1 DEF TypeOK
<1>8. ASSUME NEW k \in Jobs
      PROVE  /\ fut'[k] = "unborn" => k \notin Queued' /\ k \notin ran' /\ \A w \in Workers : job'[w] # k
             /\ fut'[k] = "collected" => k \in mode'.dropped
  <2>1. CASE k = j
    <3>1. fut'[k] \in {"pending", "absent"}
      BY <1>1, <2>1 DEF TypeOK
    <3> QED
      BY <3>1
  <2>2. CASE k # j
    BY <1>1, <1>3, <1>7, <2>2 DEF Apart
  <2> QED
    BY <2>1, <2>2
<1> QED
  BY <1>1, <1>6, <1>8 DEF Apart

\* A worker gets a job, and may die of it, or is done with it at once.
LEMMA TakeKeepsApart ==
    ASSUME TypeOK, Apart, NEW w \in Workers, Take(w)
    PROVE  Apart'
<1>1. PICK i \in DOMAIN queue :
        /\ queue' = QueueWithout(i)
        /\ \/ fut[queue[i]] = "collected" /\ Dies(w, queue[i]) /\ UNCHANGED ran
           \/ UNCHANGED <<at, job, ran>>
           \/ Runs(w, queue[i])
  BY DEF Take
<1> DEFINE j == queue[i]
<1>2. /\ j \in Queued /\ j \in Jobs /\ j \notin ran /\ \A v \in Workers : job[v] # j
      /\ at[w] = "idle" /\ UNCHANGED <<mode, fut>>
  <2>1. at[w] = "idle" /\ UNCHANGED <<mode, fut>>
    BY DEF Take
  <2>2. j \in Queued /\ j \in Jobs
    BY DEF Queued, TypeOK
  <2> HIDE DEF j
  <2> QED
    BY <2>1, <2>2 DEF Apart, OneJobOneWorker
<1>3. /\ \A k, l \in DOMAIN queue' : queue'[k] = queue'[l] => k = l
      /\ Queued' \subseteq Queued \ {j}
  BY <1>1, OthersRemain DEF Apart, OneJobOneWorker, Queued
<1> HIDE DEF j
<1>4. fut[j] # "unborn"
  BY <1>2 DEF Apart
<1>5. CASE UNCHANGED <<at, job, ran>>
  BY <1>2, <1>3, <1>5 DEF Apart, OneJobOneWorker, InState
<1>6. CASE fut[j] = "collected" /\ Dies(w, j) /\ UNCHANGED ran
  <2>1. /\ at'[w] = "dead" /\ job'[w] = j /\ j \in mode.dropped
        /\ \A v \in Workers \ {w} : at'[v] = at[v] /\ job'[v] = job[v]
    BY <1>2, <1>6 DEF Dies, TypeOK, Apart
  <2> QED
    BY <1>2, <1>3, <1>4, <1>6, <2>1 DEF Apart, OneJobOneWorker, InState
<1>7. CASE Runs(w, j)
  <2>1. /\ at'[w] = "running" /\ job'[w] = j /\ ran' = ran \cup {j}
        /\ \A v \in Workers \ {w} : at'[v] = at[v] /\ job'[v] = job[v]
    BY <1>7 DEF Runs, TypeOK
  <2> QED
    BY <1>2, <1>3, <1>4, <2>1 DEF Apart, OneJobOneWorker, InState
<1> QED
  BY <1>1, <1>5, <1>6, <1>7 DEF j

\* A worker is done with its job, or dies of it.
LEMMA FinishKeepsApart ==
    ASSUME TypeOK, Apart, NEW w \in Workers, Finish(w) \/ FinishCancelled(w)
    PROVE  Apart'
<1>1. at[w] = "running" /\ UNCHANGED <<mode, queue, ran>>
  BY DEF Finish, FinishCancelled
<1>2. \A j \in Jobs : fut'[j] \in {"unborn", "collected"} => fut'[j] = fut[j]
  BY DEF Finish, FinishCancelled, TypeOK
<1>3. CASE Dies(w, job[w]) /\ job[w] \in mode.dropped \cup mode.fatal
  <2>1. /\ at'[w] = "dead" /\ job' = job
        /\ \A v \in Workers \ {w} : at'[v] = at[v]
    BY <1>3 DEF Dies, TypeOK
  <2> QED
    BY <1>1, <1>2, <1>3, <2>1 DEF Apart, OneJobOneWorker, InState, Queued
<1>4. CASE at' = [at EXCEPT ![w] = "idle"] /\ job' = [job EXCEPT ![w] = NoJob]
  <2>1. /\ at'[w] = "idle" /\ job'[w] = NoJob
        /\ \A v \in Workers \ {w} : at'[v] = at[v] /\ job'[v] = job[v]
    BY <1>4 DEF TypeOK
  <2>2. Queued' = Queued /\ Queued \subseteq Jobs
    BY <1>1 DEF Queued, TypeOK
  <2> QED
    BY <1>1, <1>2, <2>1, <2>2, JobsAssumption DEF Apart, OneJobOneWorker, InState
<1>5. fut[job[w]] = "collected" => job[w] \in mode.dropped
  BY <1>1 DEF Apart
<1> QED
  BY <1>1, <1>3, <1>4, <1>5 DEF Finish, FinishCancelled

\* Each job has one worker, and each death one job, which its caller dropped or whose
\* function raised CancelledError, for any jobs and workers.
THEOREM JobsHaveOneWorker == Spec => []OneJobOneWorker
<1>1. Init => Apart
  <2> SUFFICES ASSUME Init PROVE Apart
    OBVIOUS
  <2>1. /\ Queued = {} /\ DOMAIN queue = {} /\ InState("dead") = {} /\ ran = {}
        /\ \A w \in Workers : at[w] = "idle" /\ job[w] = NoJob
        /\ \A j \in Jobs : fut[j] = "unborn" /\ j # NoJob
    BY JobsAssumption DEF Init, Queued, InState
  <2> QED
    BY <2>1 DEF Apart, OneJobOneWorker
<1>2. ASSUME TypeOK, Apart, [Next]_vars PROVE Apart'
  <2>1. CASE \E j \in Jobs : Refuse(j) \/ CancelFuture(j) \/ Drop(j)
    <3>1. /\ UNCHANGED <<mode, queue, at, job, ran>>
          /\ \A j \in Jobs : fut'[j] = "unborn" => fut[j] = "unborn"
          /\ \A j \in Jobs : fut'[j] = "collected" => fut[j] = "collected" \/ j \in mode.dropped
      BY <1>2, <2>1 DEF Refuse, CancelFuture, Drop, TypeOK
    <3> QED
      BY <1>2, <3>1 DEF Apart, OneJobOneWorker, Queued, InState
  <2>2. CASE Close \/ Break \/ UNCHANGED vars
    <3>1. UNCHANGED <<mode, queue, at, job, ran, fut>>
      BY <2>2 DEF Close, Break, vars
    <3> QED
      BY <1>2, <3>1 DEF Apart, OneJobOneWorker, Queued, InState
  <2> QED
    BY <1>2, <2>1, <2>2, PutKeepsApart, TakeKeepsApart, FinishKeepsApart DEF Next
<1>3. IInv => TypeOK
  BY DEF IInv
<1>4. Apart => OneJobOneWorker
  BY DEF Apart
<1> QED
  BY <1>1, <1>2, <1>3, <1>4, SpecIInv, PTL DEF Spec

-----------------------------------------------------------------------------
\* Executor: a pool whose threads take jobs from a queue.
CONSTANTS Submitted, FireAndForget, MaxWorkers, Stop
VARIABLES maxWorkers, workQueue, idle, threads, state, adjusting, place, item, keeps,
          outcome, future, copies

Pool == INSTANCE Executor WITH Jobs <- Submitted, pc <- place, job <- outcome, fut <- future

\* What holds of a live pool: the threads in _threads are those that run, a job
\* is only put in the queue of a pool that may have threads, and where there is
\* no thread nobody counts on an idle one.
PoolInv ==
    state = "live" =>
        /\ place \in [Pool!Workers ->
                  {"none", "starts", "gets", "timedOut", "runs", "ran", "stops"}]
        /\ threads = {w \in Pool!Workers : place[w] # "none"}
        /\ adjusting => 0 < maxWorkers
        /\ idle \in Nat
        /\ idle > 0 => threads # {}
        /\ ~adjusting /\ workQueue # <<>> => threads # {}

\* It starts so.
LEMMA InitPool == Pool!Init => PoolInv
BY DEF Pool!Init, PoolInv

\* The instance counts as this module does.
LEMMA SameCardinality == \A T : Pool!Cardinality(T) = Cardinality(T)
BY DEF Pool!Cardinality, Cardinality

\* Some thread stays when one of several leaves, and where there is no room for
\* another there is one.
LEMMA SomeThread ==
    ASSUME NEW T, NEW w
    PROVE  /\ Cardinality(T) > 1 => T \ {w} # {}
           /\ \A n : 0 < n /\ ~(Cardinality(T) < n) => T # {}
<1>1. Cardinality({}) = 0 /\ Cardinality({w}) = 1
  BY FS_EmptySet, FS_Singleton
<1>2. T \ {w} = {} => T = {} \/ T = {w}
  OBVIOUS
<1> QED
  BY <1>1, <1>2

\* submit() counts on an idle thread, starts one, or finds that there are enough.
LEMMA SubmissionKeeps ==
    ASSUME PoolInv,
           \/ \E j \in Submitted : Pool!Submit(j) \/ \E r : Pool!SubmitSync(j, r)
           \/ Pool!Adjust
    PROVE  PoolInv'
<1>1. CASE \E j \in Submitted : Pool!Submit(j)
  BY <1>1 DEF PoolInv, Pool!Submit
<1>2. CASE \E j \in Submitted : \E r : Pool!SubmitSync(j, r)
  BY <1>2 DEF PoolInv, Pool!SubmitSync
<1>3. CASE Pool!CountOnIdle
  BY <1>3 DEF PoolInv, Pool!CountOnIdle
<1>4. CASE \E w \in Pool!Workers : Pool!StartThread(w)
  BY <1>4 DEF PoolInv, Pool!StartThread
<1>5. CASE Pool!LeaveQueued
  <2>1. state = "live" => threads # {}
    BY <1>5, SomeThread, SameCardinality DEF PoolInv, Pool!LeaveQueued, Pool!HasRoom
  <2> QED
    BY <1>5, <2>1 DEF PoolInv, Pool!LeaveQueued
<1> QED
  BY <1>1, <1>2, <1>3, <1>4, <1>5 DEF Pool!Adjust

\* A thread leaves a live pool only by its time-out, and not as the last.
LEMMA ThreadKeeps ==
    ASSUME PoolInv, NEW w \in Pool!Workers, Pool!Thread(w) \/ Pool!TimeOut(w)
    PROVE  PoolInv'
<1>1. CASE Pool!Starts(w)
  BY <1>1 DEF PoolInv, Pool!Starts
<1>2. CASE Pool!InitializerFails(w)
  BY <1>2 DEF PoolInv, Pool!InitializerFails
<1>3. CASE Pool!Get(w)
  BY <1>3 DEF PoolInv, Pool!Get
<1>4. CASE Pool!Run(w)
  BY <1>4 DEF PoolInv, Pool!Run
<1>5. CASE Pool!BecomeIdle(w)
  BY <1>5 DEF PoolInv, Pool!BecomeIdle
<1>6. CASE Pool!TimeOut(w)
  BY <1>6 DEF PoolInv, Pool!TimeOut
<1>7. CASE Pool!Prune(w)
  <2>1. threads' # {}
    BY <1>7, SomeThread, SameCardinality DEF Pool!Prune, Pool!MayLeave
  <2> QED
    BY <1>7, <2>1 DEF PoolInv, Pool!Prune
<1>8. CASE Pool!Stay(w)
  BY <1>8 DEF PoolInv, Pool!Stay
<1>9. CASE Pool!Orphaned(w)
  BY <1>9 DEF PoolInv, Pool!Orphaned
<1>10. CASE Pool!StopOrGoOn(w)
  BY <1>10 DEF PoolInv, Pool!StopOrGoOn
<1> QED
  BY <1>1, <1>2, <1>3, <1>4, <1>5, <1>6, <1>7, <1>8, <1>9, <1>10 DEF Pool!Thread

\* Nothing else takes a thread from a live pool, or makes a pool live.
LEMMA OthersKeep ==
    ASSUME PoolInv,
           \/ \E j \in Submitted : Pool!Copy(j) \/ Pool!CancelFuture(j)
           \/ Pool!Shutdown \/ Pool!DropPool \/ Pool!Collect
           \/ UNCHANGED Pool!vars
    PROVE  PoolInv'
<1>1. CASE UNCHANGED Pool!vars
  BY <1>1 DEF PoolInv, Pool!vars
<1>2. CASE \E j \in Submitted : Pool!Copy(j) \/ Pool!CancelFuture(j)
  BY <1>2 DEF PoolInv, Pool!Copy, Pool!CancelFuture
<1>3. CASE Pool!Shutdown \/ Pool!DropPool \/ Pool!Collect
  <2>1. state' # "live"
    BY <1>3 DEF Pool!Shutdown, Pool!DropPool, Pool!Collect
  <2> QED
    BY <2>1 DEF PoolInv
<1> QED
  BY <1>1, <1>2, <1>3

\* Every step keeps it.
LEMMA PoolNextKeeps == PoolInv /\ [Pool!Next]_(Pool!vars) => PoolInv'
BY SubmissionKeeps, ThreadKeeps, OthersKeep DEF Pool!Next

-----------------------------------------------------------------------------
\* When submit() has returned and a job is queued there is a thread, although any
\* of them leaves when it finds the queue empty: for any number of jobs and
\* threads, however the idle semaphore miscounts.
THEOREM AThreadRemains == Pool!Spec => []Pool!OneThreadRemains
<1>1. PoolInv => Pool!OneThreadRemains
  BY DEF PoolInv, Pool!OneThreadRemains
<1> QED
  BY <1>1, InitPool, PoolNextKeeps, PTL DEF Pool!Spec

-----------------------------------------------------------------------------
\* What Executor assumes of its constants, as far as it is needed.
PoolConstants == Stop \notin Submitted /\ MaxWorkers \in Nat

\* Where the jobs are, and that a thread runs jobs only.
PoolJobs ==
    /\ Pool!TypeOK /\ Pool!JobsAreSomewhere
    /\ \A w \in Pool!Workers : place[w] = "runs" => item[w] \in Submitted

\* A queue has each job once.
Once(q) == \A i, k \in DOMAIN q : q[i] = q[k] => i = k \/ q[i] = Stop

\* An item put behind the others.
LEMMA OneMoreItem ==
    ASSUME NEW T, NEW q \in Seq(T), NEW x \in T
    PROVE  /\ Append(q, x) \in Seq(T)
           /\ \A y : (\E i \in DOMAIN Append(q, x) : Append(q, x)[i] = y)
                       <=> y = x \/ \E i \in DOMAIN q : q[i] = y
           /\ Once(q) /\ (x = Stop \/ \A i \in DOMAIN q : q[i] # x) => Once(Append(q, x))
<1> DEFINE n == Len(q)  a == Append(q, x)
<1>1. /\ n \in Nat /\ DOMAIN q = 1..n /\ a \in Seq(T) /\ DOMAIN a = 1..n + 1
      /\ a[n + 1] = x /\ \A i \in 1..n : a[i] = q[i]
  OBVIOUS
<1> HIDE DEF n, a
<1>2. \A i \in 1..n + 1 : i \in 1..n \/ i = n + 1
  BY <1>1
<1>3. \A i \in 1..n : i \in 1..n + 1
  BY <1>1
<1>4. n + 1 \in 1..n + 1
  BY <1>1
<1>5. Once(q) /\ (x = Stop \/ \A i \in DOMAIN q : q[i] # x) => Once(a)
  BY <1>1, <1>2 DEF Once
<1>6. \A y : (\E i \in DOMAIN a : a[i] = y) <=> y = x \/ \E i \in DOMAIN q : q[i] = y
  BY <1>1, <1>2, <1>3, <1>4
<1> QED
  BY <1>1, <1>5, <1>6 DEF a

\* The first item taken out of a queue,
LEMMA FirstItemTaken ==
    ASSUME NEW T, NEW q \in Seq(T), q # <<>>, Once(q)
    PROVE  /\ Tail(q) \in Seq(T) /\ Once(Tail(q))
           /\ \E i \in DOMAIN q : q[i] = Head(q)
           /\ \A y : y # Head(q) => ((\E i \in DOMAIN Tail(q) : Tail(q)[i] = y)
                                       <=> \E i \in DOMAIN q : q[i] = y)
           /\ Head(q) # Stop => \A i \in DOMAIN Tail(q) : Tail(q)[i] # Head(q)
<1> DEFINE n == Len(q)  t == Tail(q)
<1>1. /\ n \in Nat /\ n > 0 /\ DOMAIN q = 1..n /\ t \in Seq(T) /\ DOMAIN t = 1..n - 1
      /\ Head(q) = q[1] /\ \A i \in 1..n - 1 : t[i] = q[i + 1]
  OBVIOUS
<1> HIDE DEF n, t
<1>2. /\ 1 \in 1..n
      /\ \A i \in 1..n - 1 : i + 1 \in 1..n /\ i + 1 # 1
      /\ \A i \in 1..n : i # 1 => i - 1 \in 1..n - 1 /\ (i - 1) + 1 = i
      /\ \A i, k \in 1..n - 1 : i + 1 = k + 1 => i = k
  BY <1>1
<1>3. Once(t)
  BY <1>1, <1>2, SMTT(30) DEF Once
<1>4. ASSUME NEW y, y # Head(q)
      PROVE  (\E i \in DOMAIN t : t[i] = y) <=> \E i \in DOMAIN q : q[i] = y
  <2>1. ASSUME NEW i \in DOMAIN q, q[i] = y PROVE i - 1 \in DOMAIN t /\ t[i - 1] = y
    BY <1>1, <1>2, <1>4, <2>1
  <2>2. ASSUME NEW i \in DOMAIN t, t[i] = y PROVE i + 1 \in DOMAIN q /\ q[i + 1] = y
    BY <1>1, <1>2, <2>2
  <2> QED
    BY <2>1, <2>2
<1>5. ASSUME Head(q) # Stop, NEW i \in DOMAIN t PROVE t[i] # Head(q)
  <2>1. i \in 1..n - 1 /\ i + 1 \in DOMAIN q /\ 1 \in DOMAIN q /\ i + 1 # 1
    BY <1>1, <1>2, <1>5
  <2>2. q[i + 1] # q[1]
    BY <1>1, <1>5, <2>1 DEF Once
  <2> QED
    BY <1>1, <2>1, <2>2
<1> QED
  BY <1>1, <1>2, <1>3, <1>4, <1>5 DEF t

\* and None put behind its items.
LEMMA StopsAppended ==
    ASSUME NEW T, NEW q \in Seq(T), NEW s \in Seq(T), \A i \in DOMAIN s : s[i] = Stop
    PROVE  /\ q \o s \in Seq(T)
           /\ Once(q) => Once(q \o s)
           /\ \A y : y # Stop => ((\E i \in DOMAIN (q \o s) : (q \o s)[i] = y)
                                    <=> \E i \in DOMAIN q : q[i] = y)
<1> DEFINE m == Len(q)  n == Len(s)  c == q \o s
<1>1. n \in Nat /\ DOMAIN s = 1..n
  OBVIOUS
<1>2. /\ m \in Nat /\ DOMAIN q = 1..m /\ c \in Seq(T) /\ DOMAIN c = 1..m + n
      /\ \A i \in 1..m + n : c[i] = IF i <= m THEN q[i] ELSE s[i - m]
  BY <1>1, ConcatProperties
<1>3. \A i \in 1..m + n : \/ i \in 1..m /\ c[i] = q[i]
                          \/ i \notin 1..m /\ c[i] = Stop
  <2> SUFFICES ASSUME NEW i \in 1..m + n
               PROVE  \/ i \in 1..m /\ c[i] = q[i]
                      \/ i \notin 1..m /\ c[i] = Stop
    OBVIOUS
  <2>1. CASE i <= m
    BY <1>2, <2>1
  <2>2. CASE ~(i <= m)
    <3>1. i - m \in 1..n
      BY <1>2, <2>2
    <3>2. c[i] = s[i - m]
      BY <1>2, <2>2
    <3> QED
      BY <1>2, <2>2, <3>1, <3>2
  <2> QED
    BY <2>1, <2>2
<1>4. \A i \in 1..m : i \in 1..m + n
  BY <1>2
<1> HIDE DEF m, n, c
<1>5. Once(q) => Once(c)
  BY <1>2, <1>3 DEF Once
<1>6. \A y : y # Stop => ((\E i \in DOMAIN c : c[i] = y) <=> \E i \in DOMAIN q : q[i] = y)
  BY <1>2, <1>3, <1>4
<1> QED
  BY <1>2, <1>5, <1>6 DEF c

-----------------------------------------------------------------------------
\* It starts so.
LEMMA InitJobs == PoolConstants /\ Pool!Init => PoolJobs
<1> SUFFICES ASSUME PoolConstants, Pool!Init PROVE PoolJobs
  OBVIOUS
<1>1. Pool!TypeOK
  <2>1. workQueue \in Seq(Submitted \cup {Stop}) /\ maxWorkers \in 0..MaxWorkers
    BY DEF Pool!Init
  <2>2. /\ place \in [Pool!Workers -> {"none", "starts", "gets", "timedOut", "runs", "ran", "stops"}]
        /\ item \in [Pool!Workers -> Submitted \cup {Stop}]
        /\ outcome \in [Submitted -> {"new", "queued", "runs", "done", "dropped"}]
        /\ future \in [Submitted -> {"none", "pending", "result", "exception", "cancelled"}]
    BY DEF Pool!Init
  <2> QED
    BY <2>1, <2>2 DEF Pool!Init, Pool!TypeOK
<1>2. Pool!JobsAreSomewhere
  BY DEF Pool!Init, Pool!JobsAreSomewhere
<1> QED
  BY <1>1, <1>2 DEF PoolJobs, Pool!Init

\* Jobs stay where they are when no thread takes or ends one, the queue has the
\* same jobs as before, and no future is pending that was not.
LEMMA JobsStay ==
    ASSUME PoolJobs, Pool!TypeOK',
           Once(workQueue'),
           \A j \in Submitted : (\E i \in DOMAIN workQueue' : workQueue'[i] = j)
                                  <=> \E i \in DOMAIN workQueue : workQueue[i] = j,
           \A w \in Pool!Workers :
              /\ place'[w] = "runs" <=> place[w] = "runs"
              /\ place[w] = "runs" => item'[w] = item[w],
           \A j \in Submitted : future'[j] = "pending" =>
              future[j] = "pending" /\ (j \in copies => j \in copies' \/ outcome[j] = "dropped"),
           outcome' = outcome
    PROVE  PoolJobs'
BY DEF PoolJobs, Pool!JobsAreSomewhere, Once

\* The steps of submit(): a job that is new is nowhere yet.
LEMMA SubmitsKeepJobs ==
    ASSUME PoolConstants, PoolJobs, NEW j \in Submitted,
           Pool!Submit(j) \/ \E r \in {"result", "exception"} : Pool!SubmitSync(j, r)
    PROVE  PoolJobs'
<1>1. CASE \E r \in {"result", "exception"} : Pool!SubmitSync(j, r)
  <2>1. Pool!TypeOK'
    BY <1>1 DEF PoolJobs, Pool!TypeOK, Pool!SubmitSync
  <2>2. Pool!JobsAreSomewhere'
    BY <1>1 DEF PoolJobs, Pool!TypeOK, Pool!JobsAreSomewhere, Pool!SubmitSync
  <2> QED
    BY <1>1, <2>1, <2>2 DEF PoolJobs, Pool!SubmitSync
<1>2. CASE Pool!Submit(j)
  <2>1. /\ outcome[j] = "new" /\ outcome' = [outcome EXCEPT ![j] = "queued"]
        /\ workQueue' = Append(workQueue, j)
        /\ future' = [future EXCEPT ![j] = IF j \in FireAndForget THEN "none" ELSE "pending"]
        /\ adjusting' = TRUE
        /\ UNCHANGED <<maxWorkers, idle, threads, state, place, item, keeps, copies>>
    BY <1>2 DEF Pool!Submit
  <2>2. workQueue \in Seq(Submitted \cup {Stop}) /\ Once(workQueue)
    BY DEF PoolJobs, Pool!TypeOK, Pool!JobsAreSomewhere, Once
  <2>3. \A i \in DOMAIN workQueue : workQueue[i] # j
    BY <2>1 DEF PoolJobs, Pool!JobsAreSomewhere
  <2>4. /\ workQueue' \in Seq(Submitted \cup {Stop}) /\ Once(workQueue')
        /\ \A y : (\E i \in DOMAIN workQueue' : workQueue'[i] = y)
                    <=> y = j \/ \E i \in DOMAIN workQueue : workQueue[i] = y
    BY <2>1, <2>2, <2>3, OneMoreItem
  <2>5. Pool!TypeOK'
    BY <2>1, <2>4 DEF PoolJobs, Pool!TypeOK
  <2>6. /\ \A k \in Submitted : outcome'[k] = IF k = j THEN "queued" ELSE outcome[k]
        /\ \A k \in Submitted : k # j => future'[k] = future[k]
    BY <2>1 DEF PoolJobs, Pool!TypeOK
  <2>7. Pool!JobsAreSomewhere'
    BY <2>1, <2>4, <2>6, SMTT(30) DEF PoolJobs, Pool!JobsAreSomewhere, Once
  <2> QED
    BY <2>1, <2>5, <2>7 DEF PoolJobs
<1> QED
  BY <1>1, <1>2

\* A thread takes the next item.
LEMMA GetKeepsJobs ==
    ASSUME PoolConstants, PoolJobs, NEW w \in Pool!Workers, Pool!Get(w)
    PROVE  PoolJobs'
<1>1. /\ place[w] = "gets" /\ workQueue # <<>> /\ workQueue' = Tail(workQueue)
      /\ item' = [item EXCEPT ![w] = Head(workQueue)]
      /\ UNCHANGED <<maxWorkers, idle, threads, state, adjusting, keeps, future, copies>>
  BY DEF Pool!Get
<1>2. PICK x : x = Head(workQueue)
  OBVIOUS
<1>3. /\ x = Stop => place' = [place EXCEPT ![w] = "stops"] /\ outcome' = outcome
      /\ x # Stop => /\ place' = [place EXCEPT ![w] = "runs"]
                     /\ outcome' = [outcome EXCEPT ![x] = "runs"]
  BY <1>2 DEF Pool!Get
<1>4. workQueue \in Seq(Submitted \cup {Stop}) /\ Once(workQueue) /\ x \in Submitted \cup {Stop}
  BY <1>1, <1>2 DEF PoolJobs, Pool!TypeOK, Pool!JobsAreSomewhere, Once
<1>5. /\ workQueue' \in Seq(Submitted \cup {Stop}) /\ Once(workQueue')
      /\ \E i \in DOMAIN workQueue : workQueue[i] = x
      /\ \A y : y # x => ((\E i \in DOMAIN workQueue' : workQueue'[i] = y)
                            <=> \E i \in DOMAIN workQueue : workQueue[i] = y)
      /\ x # Stop => \A i \in DOMAIN workQueue' : workQueue'[i] # x
  BY <1>1, <1>2, <1>4, FirstItemTaken
<1>6. Pool!TypeOK'
  BY <1>1, <1>2, <1>3, <1>4, <1>5 DEF PoolJobs, Pool!TypeOK
<1>7. CASE x = Stop
  <2>1. /\ \A v \in Pool!Workers : place'[v] = "runs" <=> place[v] = "runs"
        /\ \A v \in Pool!Workers : place[v] = "runs" => item'[v] = item[v]
    BY <1>1, <1>3, <1>7 DEF PoolJobs, Pool!TypeOK
  <2>2. \A j \in Submitted : j # x
    BY <1>7 DEF PoolConstants
  <2>3. \A j \in Submitted : (\E i \in DOMAIN workQueue' : workQueue'[i] = j)
                                  <=> \E i \in DOMAIN workQueue : workQueue[i] = j
    BY <1>5, <2>2
  <2> QED
    BY <1>1, <1>3, <1>5, <1>6, <1>7, <2>1, <2>3, JobsStay
<1>8. CASE x # Stop
  <2>1. x \in Submitted /\ outcome[x] = "queued"
    BY <1>4, <1>5, <1>8 DEF PoolJobs, Pool!JobsAreSomewhere
  <2>2. /\ \A j \in Submitted : outcome'[j] = IF j = x THEN "runs" ELSE outcome[j]
        /\ \A v \in Pool!Workers : place'[v] = IF v = w THEN "runs" ELSE place[v]
        /\ \A v \in Pool!Workers : item'[v] = IF v = w THEN x ELSE item[v]
    BY <1>1, <1>2, <1>3, <1>8, <2>1 DEF PoolJobs, Pool!TypeOK
  <2>3. \A v \in Pool!Workers : ~(place[v] = "runs" /\ item[v] = x)
    BY <2>1 DEF PoolJobs, Pool!JobsAreSomewhere
  <2>4. \A v, u \in Pool!Workers :
           place'[v] = "runs" /\ place'[u] = "runs" /\ item'[v] = item'[u] => v = u
    BY <2>2, <2>3 DEF PoolJobs, Pool!JobsAreSomewhere
  <2>5. ASSUME NEW j \in Submitted
        PROVE  /\ outcome'[j] = "queued" <=> \E i \in DOMAIN workQueue' : workQueue'[i] = j
               /\ outcome'[j] = "runs" <=> \E v \in Pool!Workers : place'[v] = "runs" /\ item'[v] = j
               /\ future'[j] = "pending" =>
                     outcome'[j] \in {"queued", "runs", "dropped"} \/ j \in copies'
    <3>1. CASE j = x
      BY <1>1, <1>5, <1>8, <2>2, <3>1
    <3>2. CASE j # x
      <4>1. (\E v \in Pool!Workers : place'[v] = "runs" /\ item'[v] = j)
              <=> \E v \in Pool!Workers : place[v] = "runs" /\ item[v] = j
        BY <1>1, <2>2, <3>2
      <4> QED
        BY <1>1, <1>5, <2>2, <3>2, <4>1, SMTT(30) DEF PoolJobs, Pool!JobsAreSomewhere
    <3> QED
      BY <3>1, <3>2
  <2>6. Pool!JobsAreSomewhere'
    BY <1>5, <2>4, <2>5 DEF Pool!JobsAreSomewhere, Once
  <2> QED
    BY <1>6, <2>1, <2>2, <2>6 DEF PoolJobs
<1> QED
  BY <1>7, <1>8

\* A job ends: nobody else ran it.
LEMMA RunKeepsJobs ==
    ASSUME PoolConstants, PoolJobs, NEW w \in Pool!Workers, Pool!Run(w)
    PROVE  PoolJobs'
<1>1. /\ place[w] = "runs" /\ place' = [place EXCEPT ![w] = "ran"]
      /\ outcome' = [outcome EXCEPT ![item[w]] = "done"]
      /\ copies' = copies \cup {j \in {item[w]} : future[j] = "pending"}
      /\ UNCHANGED <<maxWorkers, workQueue, idle, threads, state, adjusting, item, keeps, future>>
  BY DEF Pool!Run
<1>2. item[w] \in Submitted /\ outcome[item[w]] = "runs"
  BY <1>1 DEF PoolJobs, Pool!JobsAreSomewhere
<1>3. Pool!TypeOK'
  BY <1>1, <1>2 DEF PoolJobs, Pool!TypeOK
<1>4. /\ \A j \in Submitted : outcome'[j] = IF j = item[w] THEN "done" ELSE outcome[j]
      /\ \A v \in Pool!Workers : place'[v] = IF v = w THEN "ran" ELSE place[v]
  BY <1>1, <1>2 DEF PoolJobs, Pool!TypeOK
<1>5. \A v \in Pool!Workers : place[v] = "runs" /\ item[v] = item[w] => v = w
  BY <1>1 DEF PoolJobs, Pool!JobsAreSomewhere
<1>6. ASSUME NEW j \in Submitted
      PROVE  /\ outcome'[j] = "queued" <=> \E i \in DOMAIN workQueue' : workQueue'[i] = j
             /\ outcome'[j] = "runs" <=> \E v \in Pool!Workers : place'[v] = "runs" /\ item'[v] = j
             /\ future'[j] = "pending" =>
                   outcome'[j] \in {"queued", "runs", "dropped"} \/ j \in copies'
  <2>1. CASE j = item[w]
    BY <1>1, <1>2, <1>4, <1>5, <2>1 DEF PoolJobs, Pool!JobsAreSomewhere
  <2>2. CASE j # item[w]
    BY <1>1, <1>4, <2>2 DEF PoolJobs, Pool!JobsAreSomewhere
  <2> QED
    BY <2>1, <2>2
<1>7. Pool!JobsAreSomewhere'
  <2>1. /\ \A i, k \in DOMAIN workQueue' : workQueue'[i] = workQueue'[k] => i = k \/ workQueue'[i] = Stop
        /\ \A v, u \in Pool!Workers :
              place'[v] = "runs" /\ place'[u] = "runs" /\ item'[v] = item'[u] => v = u
    BY <1>1, <1>4 DEF PoolJobs, Pool!JobsAreSomewhere
  <2> QED
    BY <1>6, <2>1 DEF Pool!JobsAreSomewhere
<1> QED
  BY <1>1, <1>3, <1>4, <1>7 DEF PoolJobs

\* The pool gives up the jobs of its queue.
LEMMA GivingUpKeepsJobs ==
    ASSUME PoolConstants, PoolJobs, Pool!TypeOK',
           NEW end \in {"done", "dropped"},
           \A i \in DOMAIN workQueue' : workQueue'[i] = Stop,
           outcome' = [j \in Submitted |-> IF j \in Pool!Queued THEN end ELSE outcome[j]],
           copies' = copies \cup {j \in Pool!Queued : future[j] = "pending"},
           \A w \in Pool!Workers : (place'[w] = "runs" <=> place[w] = "runs"),
           UNCHANGED <<item, future>>
    PROVE  PoolJobs'
<1>1. \A j \in Submitted : outcome'[j] = IF outcome[j] = "queued" THEN end ELSE outcome[j]
  BY DEF Pool!Queued
<1>2. \A j \in Submitted : j # Stop
  BY DEF PoolConstants
<1>3. ASSUME NEW j \in Submitted
      PROVE  /\ outcome'[j] = "queued" <=> \E i \in DOMAIN workQueue' : workQueue'[i] = j
             /\ outcome'[j] = "runs" <=> \E v \in Pool!Workers : place'[v] = "runs" /\ item'[v] = j
             /\ future'[j] = "pending" =>
                   outcome'[j] \in {"queued", "runs", "dropped"} \/ j \in copies'
  BY <1>1, <1>2 DEF PoolJobs, Pool!JobsAreSomewhere, Pool!Queued
<1>4. /\ \A i, k \in DOMAIN workQueue' : workQueue'[i] = workQueue'[k] => i = k \/ workQueue'[i] = Stop
      /\ \A v, u \in Pool!Workers :
              place'[v] = "runs" /\ place'[u] = "runs" /\ item'[v] = item'[u] => v = u
  BY DEF PoolJobs, Pool!JobsAreSomewhere
<1>5. Pool!JobsAreSomewhere'
  BY <1>3, <1>4 DEF Pool!JobsAreSomewhere
<1> QED
  BY <1>5 DEF PoolJobs

\* A thread whose initializer fails breaks the pool, unless it was collected; and
\* shutdown() empties the queue.
LEMMA BreaksKeepJobs ==
    ASSUME PoolConstants, PoolJobs,
           Pool!Shutdown \/ \E w \in Pool!Workers : Pool!InitializerFails(w)
    PROVE  PoolJobs'
<1>1. CASE Pool!Shutdown
  <2>1. /\ workQueue' = <<Stop>> /\ state' = "shutdown"
        /\ outcome' = [j \in Submitted |-> IF j \in Pool!Queued THEN "dropped" ELSE outcome[j]]
        /\ copies' = copies \cup {j \in Pool!Queued : future[j] = "pending"}
        /\ UNCHANGED <<maxWorkers, idle, threads, adjusting, place, item, keeps, future>>
    BY <1>1 DEF Pool!Shutdown
  <2>2. /\ workQueue' \in Seq(Submitted \cup {Stop})
        /\ \A i \in DOMAIN workQueue' : workQueue'[i] = Stop
    BY <2>1
  <2>3. Pool!TypeOK'
    BY <2>1, <2>2 DEF PoolJobs, Pool!TypeOK, Pool!Queued
  <2> QED
    BY <2>1, <2>2, <2>3, GivingUpKeepsJobs
<1>2. ASSUME NEW w \in Pool!Workers, Pool!InitializerFails(w)
      PROVE  PoolJobs'
  <2>1. /\ place[w] = "starts" /\ place' = [place EXCEPT ![w] = "none"]
        /\ UNCHANGED <<maxWorkers, idle, threads, adjusting, item, keeps, future>>
    BY <1>2 DEF Pool!InitializerFails
  <2>2. \A v \in Pool!Workers : place'[v] = "runs" <=> place[v] = "runs"
    BY <2>1 DEF PoolJobs, Pool!TypeOK
  <2>3. CASE state # "collected"
    <3>1. /\ workQueue' = <<>> /\ state' \in {"broken", "drained", state}
          /\ outcome' = [j \in Submitted |-> IF j \in Pool!Queued THEN "done" ELSE outcome[j]]
          /\ copies' = copies \cup {j \in Pool!Queued : future[j] = "pending"}
      BY <1>2, <2>3 DEF Pool!InitializerFails
    <3>2. Pool!TypeOK'
      BY <2>1, <3>1 DEF PoolJobs, Pool!TypeOK, Pool!Queued
    <3> QED
      BY <2>1, <2>2, <3>1, <3>2, GivingUpKeepsJobs
  <2>4. CASE state = "collected"
    <3>1. UNCHANGED <<state, workQueue, outcome, copies>>
      BY <1>2, <2>4 DEF Pool!InitializerFails
    <3>2. Pool!TypeOK'
      BY <2>1, <3>1 DEF PoolJobs, Pool!TypeOK
    <3>3. Once(workQueue)
      BY DEF PoolJobs, Pool!JobsAreSomewhere, Once
    <3> QED
      BY <2>1, <2>2, <3>1, <3>2, <3>3, JobsStay
  <2> QED
    BY <2>3, <2>4
<1> QED
  BY <1>1, <1>2

\* None is put behind what is queued.
LEMMA StopsKeepJobs ==
    ASSUME PoolConstants, PoolJobs,
           Pool!Collect \/ \E w \in Pool!Workers : Pool!StopOrGoOn(w)
    PROVE  PoolJobs'
<1>1. workQueue \in Seq(Submitted \cup {Stop}) /\ Once(workQueue)
  BY DEF PoolJobs, Pool!TypeOK, Pool!JobsAreSomewhere, Once
<1>2. \A j \in Submitted : j # Stop
  BY DEF PoolConstants
<1>3. CASE Pool!Collect
  <2>1. PICK n : n = Pool!Cardinality({w \in Pool!Workers : place[w] # "none"})
    OBVIOUS
  <2>2. n \in Nat
    <3>1. IsFiniteSet(Pool!Workers)
      BY FS_Interval DEF Pool!Workers, PoolConstants
    <3> QED
      BY <2>1, <3>1, FS_Subset, FS_CardinalityType, SameCardinality
  <2>3. /\ workQueue' = workQueue \o [i \in 1..n |-> Stop] /\ state' = "collected"
        /\ UNCHANGED <<maxWorkers, idle, threads, adjusting, place, item, keeps, outcome, future,
                       copies>>
    BY <1>3, <2>1 DEF Pool!Collect
  <2>4. /\ workQueue' \in Seq(Submitted \cup {Stop}) /\ Once(workQueue')
        /\ \A y : y # Stop => ((\E i \in DOMAIN workQueue' : workQueue'[i] = y)
                                <=> \E i \in DOMAIN workQueue : workQueue[i] = y)
    <3> DEFINE T == Submitted \cup {Stop}
               s == [i \in 1..n |-> Stop]
               a == workQueue \o s
    <3>1. workQueue \in Seq(T) /\ s \in Seq(T) /\ \A i \in DOMAIN s : s[i] = Stop
      BY <1>1, <2>2
    <3> HIDE DEF T, s
    <3>2. /\ a \in Seq(T) /\ (Once(workQueue) => Once(a))
          /\ \A y : y # Stop => ((\E i \in DOMAIN a : a[i] = y)
                                  <=> \E i \in DOMAIN workQueue : workQueue[i] = y)
      BY <3>1, StopsAppended
    <3>3. workQueue' = a
      BY <2>3 DEF s
    <3> HIDE DEF a
    <3> QED
      BY <1>1, <3>2, <3>3 DEF T
  <2>5. Pool!TypeOK'
    BY <2>3, <2>4 DEF PoolJobs, Pool!TypeOK
  <2> QED
    BY <1>2, <2>3, <2>4, <2>5, JobsStay
<1>4. ASSUME NEW w \in Pool!Workers, Pool!StopOrGoOn(w)
      PROVE  PoolJobs'
  <2>1. /\ place[w] = "stops" /\ keeps' = keeps \ {w}
        /\ \/ workQueue' = Append(workQueue, Stop) /\ place' = [place EXCEPT ![w] = "none"]
           \/ workQueue' = workQueue /\ place' = [place EXCEPT ![w] = "gets"]
        /\ UNCHANGED <<maxWorkers, idle, threads, state, adjusting, item, outcome, future, copies>>
    BY <1>4 DEF Pool!StopOrGoOn, Pool!Passes
  <2>2. /\ workQueue' \in Seq(Submitted \cup {Stop}) /\ Once(workQueue')
        /\ \A y : y # Stop => ((\E i \in DOMAIN workQueue' : workQueue'[i] = y)
                                <=> \E i \in DOMAIN workQueue : workQueue[i] = y)
    <3>1. CASE workQueue' = workQueue
      BY <1>1, <3>1
    <3>2. CASE workQueue' = Append(workQueue, Stop)
      <4> DEFINE a == Append(workQueue, Stop)
      <4>1. /\ a \in Seq(Submitted \cup {Stop}) /\ Once(a)
            /\ \A y : (\E i \in DOMAIN a : a[i] = y)
                        <=> y = Stop \/ \E i \in DOMAIN workQueue : workQueue[i] = y
        BY <1>1, OneMoreItem
      <4> HIDE DEF a
      <4> QED
        BY <3>2, <4>1 DEF a
    <3> QED
      BY <2>1, <3>1, <3>2
  <2>3. Pool!TypeOK' /\ \A v \in Pool!Workers : place'[v] = "runs" <=> place[v] = "runs"
    BY <2>1, <2>2 DEF PoolJobs, Pool!TypeOK
  <2> QED
    BY <1>2, <2>1, <2>2, <2>3, JobsStay
<1> QED
  BY <1>3, <1>4

\* The other steps of a thread leave the jobs alone,
LEMMA ThreadsKeepJobs ==
    ASSUME PoolConstants, PoolJobs, NEW w \in Pool!Workers,
           \/ Pool!StartThread(w) \/ Pool!Starts(w) \/ Pool!BecomeIdle(w) \/ Pool!TimeOut(w)
           \/ Pool!Prune(w) \/ Pool!Stay(w) \/ Pool!Orphaned(w)
    PROVE  PoolJobs'
<1>1. Once(workQueue) /\ Pool!TypeOK
  BY DEF PoolJobs, Pool!JobsAreSomewhere, Once
<1>2. /\ UNCHANGED <<maxWorkers, workQueue, state, outcome, future, copies>>
      /\ place[w] # "runs"
      /\ \E p \in {"none", "starts", "gets", "timedOut"} : place' = [place EXCEPT ![w] = p]
      /\ item' = item \/ item' = [item EXCEPT ![w] = Stop]
  BY DEF Pool!StartThread, Pool!Starts, Pool!BecomeIdle, Pool!TimeOut, Pool!Prune, Pool!Stay,
         Pool!Orphaned
<1>3. /\ adjusting' \in BOOLEAN /\ idle' \in Nat /\ threads' \subseteq Pool!Workers
      /\ keeps' \subseteq Pool!Workers
  <2>1. idle \in Nat /\ threads \subseteq Pool!Workers /\ keeps \subseteq Pool!Workers /\ adjusting \in BOOLEAN
    BY <1>1 DEF Pool!TypeOK
  <2>2. CASE Pool!StartThread(w) \/ Pool!Starts(w) \/ Pool!TimeOut(w) \/ Pool!Orphaned(w)
    BY <2>1, <2>2 DEF Pool!StartThread, Pool!Starts, Pool!TimeOut, Pool!Orphaned
  <2>3. CASE Pool!BecomeIdle(w)
    BY <2>1, <2>3 DEF Pool!BecomeIdle
  <2>4. CASE Pool!Prune(w)
    BY <2>1, <2>4 DEF Pool!Prune
  <2>5. CASE Pool!Stay(w)
    BY <2>1, <2>5 DEF Pool!Stay
  <2> QED
    BY <2>2, <2>3, <2>4, <2>5
<1>4. Pool!TypeOK'
  BY <1>1, <1>2, <1>3 DEF Pool!TypeOK
<1>5. \A v \in Pool!Workers : /\ place'[v] = "runs" <=> place[v] = "runs"
                              /\ place[v] = "runs" => item'[v] = item[v]
  BY <1>1, <1>2 DEF Pool!TypeOK
<1> QED
  BY <1>1, <1>2, <1>4, <1>5, JobsStay

\* and so do submit(), when it has put its job, the users of the pool, and the loop,
\* which settles the futures that are pending still.
LEMMA LoopKeepsJobs ==
    ASSUME PoolConstants, PoolJobs,
           \/ Pool!CountOnIdle \/ Pool!LeaveQueued \/ Pool!DropPool
           \/ \E j \in Submitted : Pool!Copy(j) \/ Pool!CancelFuture(j)
           \/ UNCHANGED Pool!vars
    PROVE  PoolJobs'
<1>1. Once(workQueue) /\ Pool!TypeOK
  BY DEF PoolJobs, Pool!JobsAreSomewhere, Once
<1>2. CASE Pool!CountOnIdle \/ Pool!LeaveQueued \/ Pool!DropPool \/ UNCHANGED Pool!vars
  <2>1. UNCHANGED <<maxWorkers, workQueue, threads, place, item, keeps, outcome, future, copies>>
    BY <1>2 DEF Pool!CountOnIdle, Pool!LeaveQueued, Pool!DropPool, Pool!vars
  <2>2. idle' \in Nat /\ adjusting' \in BOOLEAN /\ state' \in {state, "dropped"}
    <3>1. idle \in Nat /\ adjusting \in BOOLEAN
      BY <1>1 DEF Pool!TypeOK
    <3>2. CASE Pool!CountOnIdle
      <4>1. adjusting' = FALSE /\ state' = state
        BY <3>2, Zenon DEF Pool!CountOnIdle
      <4>2. idle > 0 /\ idle' = idle - 1
        BY <3>2 DEF Pool!CountOnIdle
      <4>3. idle' \in Nat
        BY <3>1, <4>2
      <4> QED
        BY <4>1, <4>3
    <3>3. CASE Pool!LeaveQueued
      BY <3>1, <3>3 DEF Pool!LeaveQueued
    <3>4. CASE Pool!DropPool
      BY <3>1, <3>4 DEF Pool!DropPool
    <3>5. CASE UNCHANGED Pool!vars
      BY <3>1, <3>5 DEF Pool!vars
    <3> QED
      BY <1>2, <3>2, <3>3, <3>4, <3>5
  <2>3. Pool!TypeOK'
    BY <1>1, <2>1, <2>2 DEF Pool!TypeOK
  <2> QED
    BY <1>1, <2>1, <2>3, JobsStay
<1>3. ASSUME NEW j \in Submitted, Pool!CancelFuture(j)
      PROVE  PoolJobs'
  <2>1. /\ future' = [future EXCEPT ![j] = "cancelled"]
        /\ UNCHANGED <<maxWorkers, workQueue, idle, threads, state, adjusting, place, item, keeps,
                       outcome, copies>>
    BY <1>3 DEF Pool!CancelFuture
  <2>2. Pool!TypeOK' /\ \A k \in Submitted : future'[k] = "pending" => future[k] = "pending"
    BY <1>1, <2>1 DEF Pool!TypeOK
  <2> QED
    BY <1>1, <2>1, <2>2, JobsStay
<1>4. ASSUME NEW j \in Submitted, Pool!Copy(j)
      PROVE  PoolJobs'
  <2>1. /\ copies' = copies \ {j}
        /\ \/ future' = future /\ (future[j] = "cancelled" \/ outcome[j] = "dropped")
           \/ \E r \in {"result", "exception"} : future' = [future EXCEPT ![j] = r]
        /\ UNCHANGED <<maxWorkers, workQueue, idle, threads, state, adjusting, place, item, keeps,
                       outcome>>
    BY <1>4 DEF Pool!Copy
  <2>2. Pool!TypeOK'
    BY <1>1, <2>1 DEF Pool!TypeOK
  <2>3. \A k \in Submitted : future'[k] = "pending" =>
           future[k] = "pending" /\ (k \in copies => k \in copies' \/ outcome[k] = "dropped")
    BY <1>1, <2>1 DEF Pool!TypeOK
  <2> QED
    BY <1>1, <2>1, <2>2, <2>3, JobsStay
<1> QED
  BY <1>2, <1>3, <1>4

\* Every step keeps the jobs.
LEMMA PoolNextKeepsJobs == PoolConstants /\ PoolJobs /\ [Pool!Next]_(Pool!vars) => PoolJobs'
BY SubmitsKeepJobs, GetKeepsJobs, RunKeepsJobs, BreaksKeepJobs, StopsKeepJobs, ThreadsKeepJobs,
   LoopKeepsJobs DEF Pool!Next, Pool!Adjust, Pool!Thread

-----------------------------------------------------------------------------
\* Nothing that the threads, the loop, or shutdown do loses a job: it is in the queue
\* once, or one thread runs it, or it is done with, and then its future is told, but for
\* those of shutdown().
THEOREM NoPoolJobIsLost ==
    ASSUME PoolConstants
    PROVE  Pool!Spec => [](Pool!TypeOK /\ Pool!JobsAreSomewhere)
<1>1. PoolJobs => Pool!TypeOK /\ Pool!JobsAreSomewhere
  BY DEF PoolJobs
<1> QED
  BY <1>1, InitJobs, PoolNextKeepsJobs, PTL DEF Pool!Spec

\* No job is run twice: its function is called at most once, whoever leaves the pool.
THEOREM PoolJobsRunOnce ==
    ASSUME PoolConstants
    PROVE  Pool!Spec => Pool!JobsRunOnce
<1> DEFINE Stays == \A j \in Submitted : outcome[j] \in {"done", "dropped"} => outcome'[j] = outcome[j]
<1>1. PoolJobs /\ [Pool!Next]_(Pool!vars) => [Stays]_(Pool!vars)
  <2> SUFFICES ASSUME PoolJobs, Pool!Next
               PROVE  Stays
    OBVIOUS
  <2>1. \A j \in Submitted : \A i \in DOMAIN workQueue : workQueue[i] = j => outcome[j] = "queued"
    BY DEF PoolJobs, Pool!JobsAreSomewhere
  <2>2. ASSUME NEW w \in Pool!Workers, Pool!Get(w)
        PROVE  Stays
    <3>1. \E i \in DOMAIN workQueue : workQueue[i] = Head(workQueue)
      BY <2>2, FirstItemTaken DEF PoolJobs, Pool!TypeOK, Pool!JobsAreSomewhere, Once, Pool!Get
    <3>2. /\ \/ outcome' = outcome
             \/ outcome' = [outcome EXCEPT ![Head(workQueue)] = "runs"]
      BY <2>2 DEF Pool!Get
    <3> QED
      BY <2>1, <3>1, <3>2 DEF PoolJobs, Pool!TypeOK
  <2>3. ASSUME NEW w \in Pool!Workers, Pool!Run(w)
        PROVE  Stays
    BY <2>3 DEF PoolJobs, Pool!TypeOK, Pool!JobsAreSomewhere, Pool!Run
  <2>4. CASE Pool!Shutdown \/ \E w \in Pool!Workers : Pool!InitializerFails(w)
    BY <2>4 DEF Pool!Shutdown, Pool!InitializerFails, Pool!Queued
  <2>5. CASE \E j \in Submitted : \/ \E r \in {"result", "exception"} : Pool!SubmitSync(j, r)
                                  \/ Pool!Submit(j)
    BY <2>5 DEF PoolJobs, Pool!TypeOK, Pool!SubmitSync, Pool!Submit
  <2>6. CASE UNCHANGED outcome
    BY <2>6
  <2>7. \/ \E w \in Pool!Workers : Pool!Get(w) \/ Pool!Run(w) \/ Pool!InitializerFails(w)
        \/ Pool!Shutdown
        \/ \E j \in Submitted : Pool!Submit(j) \/ \E r \in {"result", "exception"} : Pool!SubmitSync(j, r)
        \/ UNCHANGED outcome
    BY DEF Pool!Next, Pool!Adjust, Pool!Thread, Pool!CountOnIdle, Pool!LeaveQueued, Pool!DropPool,
           Pool!Copy, Pool!CancelFuture, Pool!StartThread, Pool!Starts, Pool!BecomeIdle,
           Pool!TimeOut, Pool!Prune, Pool!Stay, Pool!Orphaned, Pool!StopOrGoOn, Pool!Collect
  <2> QED
    BY <2>2, <2>3, <2>4, <2>5, <2>6, <2>7
<1>2. PoolConstants /\ PoolJobs /\ [Pool!Next]_(Pool!vars) => PoolJobs'
  BY PoolNextKeepsJobs
<1> QED
  BY <1>1, <1>2, InitJobs, PTL DEF Pool!Spec, Pool!JobsRunOnce
=============================================================================
