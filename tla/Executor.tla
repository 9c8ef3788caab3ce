------------------------------ MODULE Executor ------------------------------
(***************************************************************************)
(* PruningThreadPoolExecutor of a_sync/executor.py: a thread pool whose    *)
(* threads leave after a while without work, behind a submit() that        *)
(* returns an asyncio future.                                              *)
(*                                                                         *)
(* The event loop submits; the threads run at any speed.  What a thread    *)
(* does under _adjusting_lock, and a call of a queue or a semaphore, is    *)
(* one step.  submit() puts the job in the queue before it looks whether   *)
(* a thread is idle, a thread that found the queue empty looks at the      *)
(* number of threads later, and the idle semaphore is released after each  *)
(* job, whether or not submit() acquired it for that job.                  *)
(*                                                                         *)
(* shutdown() is that of concurrent.futures with cancel_futures, as        *)
(* _shutdown_all_executors calls it.  A pool may also be dropped by its    *)
(* users and collected, unless a thread holds a reference to it.           *)
(***************************************************************************)
EXTENDS Integers, Sequences, FiniteSets, SequencesExt

CONSTANTS
    Jobs,          \* what is submitted, each once,
    FireAndForget, \* those with fire_and_forget, which get no future
    MaxWorkers,    \* the largest max_workers
    Stop           \* None in the work queue

ASSUME JobsAssumption == IsFiniteSet(Jobs) /\ FireAndForget \subseteq Jobs /\ Stop \notin Jobs
ASSUME MaxWorkersAssumption == MaxWorkers \in Nat

Workers == 1..MaxWorkers

VARIABLES
    maxWorkers,    \* _max_workers: with 0 the pool is in sync mode
    workQueue,     \* _work_queue
    idle,          \* _idle_semaphore
    threads,       \* _threads
    state,         \* "live", "broken", "shutdown", "dropped" by its users, "collected";
                   \* "drained": an initializer failed after the shutdown
    adjusting,     \* submit() has put a job and not looked for a thread yet
    pc, item,      \* where each thread is, and its job
    keeps,         \* threads whose variable "executor" holds the pool
    job,           \* what became of each job
    fut,           \* its asyncio future
    copies         \* calls of _copy_future_state in the loop

vars == <<maxWorkers, workQueue, idle, threads, state, adjusting, pc, item, keeps,
          job, fut, copies>>

TypeOK ==
    /\ maxWorkers \in 0..MaxWorkers
    /\ workQueue \in Seq(Jobs \cup {Stop})
    /\ idle \in Nat
    /\ threads \subseteq Workers
    /\ state \in {"live", "broken", "shutdown", "drained", "dropped", "collected"}
    /\ adjusting \in BOOLEAN
    /\ pc \in [Workers -> {"none", "starts", "gets", "timedOut", "runs", "ran", "stops"}]
    /\ item \in [Workers -> Jobs \cup {Stop}]
    /\ keeps \subseteq Workers
    /\ job \in [Jobs -> {"new", "queued", "runs", "done", "dropped"}]
    /\ fut \in [Jobs -> {"none", "pending", "result", "exception", "cancelled"}]
    /\ copies \subseteq Jobs

Init ==
    /\ maxWorkers \in 0..MaxWorkers
    /\ workQueue = <<>> /\ idle = 0 /\ threads = {} /\ keeps = {} /\ copies = {}
    /\ state = "live" /\ adjusting = FALSE
    /\ pc = [w \in Workers |-> "none"]
    /\ item = [w \in Workers |-> Stop]
    /\ job = [j \in Jobs |-> "new"]
    /\ fut = [j \in Jobs |-> "none"]

Accepts == state = "live" /\ ~adjusting

-----------------------------------------------------------------------------
\* submit() in sync mode: the job runs at once, and the future is done.
SubmitSync(j, outcome) ==
    /\ Accepts /\ maxWorkers = 0 /\ job[j] = "new"
    /\ job' = [job EXCEPT ![j] = "done"]
    /\ fut' = [fut EXCEPT ![j] = outcome]
    /\ UNCHANGED <<maxWorkers, workQueue, idle, threads, state, adjusting, pc, item,
                   keeps, copies>>

\* submit(), with or without fire_and_forget, puts the job in the queue,
Submit(j) ==
    /\ Accepts /\ maxWorkers > 0 /\ job[j] = "new"
    /\ workQueue' = Append(workQueue, j)
    /\ job' = [job EXCEPT ![j] = "queued"]
    /\ fut' = [fut EXCEPT ![j] = IF j \in FireAndForget THEN "none" ELSE "pending"]
    /\ adjusting' = TRUE
    /\ UNCHANGED <<maxWorkers, idle, threads, state, pc, item, keeps, copies>>

\* (and a mutant: one thread too few)
HasRoom_Less == Cardinality(threads) + 1 < maxWorkers
HasRoom == Cardinality(threads) < maxWorkers

\* then _adjust_thread_count counts on an idle thread,
CountOnIdle ==
    /\ adjusting /\ idle > 0
    /\ idle' = idle - 1
    /\ adjusting' = FALSE
    /\ UNCHANGED <<maxWorkers, workQueue, threads, state, pc, item, keeps, job, fut, copies>>

\* or starts one,
StartThread(w) ==
    /\ adjusting /\ idle = 0 /\ HasRoom
    /\ w \notin threads /\ pc[w] = "none"
    /\ threads' = threads \cup {w}
    /\ pc' = [pc EXCEPT ![w] = "starts"]
    /\ adjusting' = FALSE
    /\ UNCHANGED <<maxWorkers, workQueue, idle, state, item, keeps, job, fut, copies>>

\* or leaves the job to the threads there are.
LeaveQueued ==
    /\ adjusting /\ idle = 0 /\ ~HasRoom
    /\ adjusting' = FALSE
    /\ UNCHANGED <<maxWorkers, workQueue, idle, threads, state, pc, item, keeps, job,
                   fut, copies>>

-----------------------------------------------------------------------------
\* The jobs of the work queue, which shutdown and a broken pool take out of it.
Queued == {j \in Jobs : job[j] = "queued"}

\* A thread starts to work.
Starts(w) ==
    /\ pc[w] = "starts"
    /\ pc' = [pc EXCEPT ![w] = "gets"]
    /\ UNCHANGED <<maxWorkers, workQueue, idle, threads, state, adjusting, item, keeps,
                   job, fut, copies>>

\* The initializer raises: the pool is broken, its queue is drained, with any None
\* in it, the jobs get an exception, and the thread ends, without leaving _threads.
\* submit() holds _shutdown_lock until it has looked for a thread.
InitializerFails(w) ==
    /\ pc[w] = "starts" /\ ~adjusting
    /\ pc' = [pc EXCEPT ![w] = "none"]
    /\ IF state # "collected"
       THEN /\ state' = CASE state = "live" -> "broken"
                          [] state = "shutdown" -> "drained"
                          [] OTHER -> state
            /\ workQueue' = <<>>
            /\ job' = [j \in Jobs |-> IF j \in Queued THEN "done" ELSE job[j]]
            /\ copies' = copies \cup {j \in Queued : fut[j] = "pending"}
       ELSE UNCHANGED <<state, workQueue, job, copies>>
    /\ UNCHANGED <<maxWorkers, idle, threads, adjusting, item, keeps, fut>>

\* A thread gets the next item.
Get(w) ==
    /\ pc[w] = "gets" /\ workQueue # <<>>
    /\ workQueue' = Tail(workQueue)
    /\ item' = [item EXCEPT ![w] = Head(workQueue)]
    /\ IF Head(workQueue) = Stop
       THEN pc' = [pc EXCEPT ![w] = "stops"] /\ UNCHANGED job
       ELSE /\ pc' = [pc EXCEPT ![w] = "runs"]
            /\ job' = [job EXCEPT ![Head(workQueue)] = "runs"]
    /\ UNCHANGED <<maxWorkers, idle, threads, state, adjusting, keeps, fut, copies>>

\* The job ends, and its done callback asks the loop to copy the outcome to the
\* asyncio future, unless that was cancelled or there is none.
Run(w) ==
    /\ pc[w] = "runs"
    /\ pc' = [pc EXCEPT ![w] = "ran"]
    /\ job' = [job EXCEPT ![item[w]] = "done"]
    /\ copies' = copies \cup {j \in {item[w]} : fut[j] = "pending"}
    /\ UNCHANGED <<maxWorkers, workQueue, idle, threads, state, adjusting, item, keeps, fut>>

\* The thread counts itself as idle, and drops its reference to the pool.
BecomeIdle(w) ==
    /\ pc[w] = "ran"
    /\ pc' = [pc EXCEPT ![w] = "gets"]
    /\ item' = [item EXCEPT ![w] = Stop]
    /\ idle' = IF state = "collected" THEN idle ELSE idle + 1
    /\ keeps' = keeps \ {w}
    /\ UNCHANGED <<maxWorkers, workQueue, threads, state, adjusting, job, fut, copies>>

\* No item for "timeout" seconds.
TimeOut(w) ==
    /\ pc[w] = "gets" /\ workQueue = <<>>
    /\ pc' = [pc EXCEPT ![w] = "timedOut"]
    /\ UNCHANGED <<maxWorkers, workQueue, idle, threads, state, adjusting, item, keeps,
                   job, fut, copies>>

\* (and a mutant: the last one may leave too)
MayLeave_Last == Cardinality(threads) >= 1
MayLeave == Cardinality(threads) > 1

\* The thread leaves,
Prune(w) ==
    /\ pc[w] = "timedOut" /\ state # "collected" /\ MayLeave
    /\ threads' = threads \ {w}
    /\ idle' = IF idle > 0 THEN idle - 1 ELSE 0
    /\ pc' = [pc EXCEPT ![w] = "none"]
    /\ keeps' = keeps \ {w}
    /\ UNCHANGED <<maxWorkers, workQueue, state, adjusting, item, job, fut, copies>>

\* or stays, as the last, and goes on with a reference to the pool.
Stay(w) ==
    /\ pc[w] = "timedOut" /\ state # "collected" /\ ~MayLeave
    /\ pc' = [pc EXCEPT ![w] = "gets"]
    /\ keeps' = keeps \cup {w}
    /\ UNCHANGED <<maxWorkers, workQueue, idle, threads, state, adjusting, item, job,
                   fut, copies>>

\* The pool was collected meanwhile: None has no lock, and the thread ends.
Orphaned(w) ==
    /\ pc[w] = "timedOut" /\ state = "collected"
    /\ pc' = [pc EXCEPT ![w] = "none"]
    /\ UNCHANGED <<maxWorkers, workQueue, idle, threads, state, adjusting, item, keeps,
                   job, fut, copies>>

\* (and a mutant: the thread keeps the None to itself)
Passes_Nothing == workQueue
Passes == Append(workQueue, Stop)

\* A thread got None: it ends, and passes it on, when the pool is shut down or
\* collected; otherwise it goes on.
StopOrGoOn(w) ==
    /\ pc[w] = "stops"
    /\ keeps' = keeps \ {w}
    /\ IF state \in {"shutdown", "drained", "collected"}
       THEN /\ pc' = [pc EXCEPT ![w] = "none"]
            /\ workQueue' = Passes
       ELSE /\ pc' = [pc EXCEPT ![w] = "gets"]
            /\ UNCHANGED workQueue
    /\ UNCHANGED <<maxWorkers, idle, threads, state, adjusting, item, job, fut, copies>>

-----------------------------------------------------------------------------
\* _copy_future_state in the loop.  The future of a job that shutdown() took out
\* of the queue raises CancelledError here, and the asyncio future stays pending.
Copy(j) ==
    /\ j \in copies
    /\ copies' = copies \ {j}
    /\ IF fut[j] = "cancelled" \/ job[j] = "dropped" THEN UNCHANGED fut
       ELSE \E r \in {"result", "exception"} : fut' = [fut EXCEPT ![j] = r]
    /\ UNCHANGED <<maxWorkers, workQueue, idle, threads, state, adjusting, pc, item,
                   keeps, job>>

\* The caller cancels the asyncio future; the job runs all the same.
CancelFuture(j) ==
    /\ fut[j] = "pending"
    /\ fut' = [fut EXCEPT ![j] = "cancelled"]
    /\ UNCHANGED <<maxWorkers, workQueue, idle, threads, state, adjusting, pc, item,
                   keeps, job, copies>>

\* shutdown(wait=False, cancel_futures=True).
Shutdown ==
    /\ state \in {"live", "broken"} /\ ~adjusting
    /\ state' = "shutdown"
    /\ workQueue' = <<Stop>>
    /\ job' = [j \in Jobs |-> IF j \in Queued THEN "dropped" ELSE job[j]]
    /\ copies' = copies \cup {j \in Queued : fut[j] = "pending"}
    /\ UNCHANGED <<maxWorkers, idle, threads, adjusting, pc, item, keeps, fut>>

\* The users of the pool drop it,
DropPool ==
    /\ state = "live" /\ ~adjusting
    /\ state' = "dropped"
    /\ UNCHANGED <<maxWorkers, workQueue, idle, threads, adjusting, pc, item, keeps,
                   job, fut, copies>>

\* and it is collected when no thread refers to it: the weak reference of each
\* thread that is alive puts None in the queue.
Collect ==
    /\ state = "dropped" /\ keeps = {}
    /\ state' = "collected"
    /\ workQueue' = workQueue \o [i \in 1..Cardinality({w \in Workers : pc[w] # "none"}) |-> Stop]
    /\ UNCHANGED <<maxWorkers, idle, threads, adjusting, pc, item, keeps, job, fut, copies>>

Thread(w) ==
    \/ Starts(w) \/ InitializerFails(w) \/ Get(w) \/ Run(w) \/ BecomeIdle(w)
    \/ Prune(w) \/ Stay(w) \/ Orphaned(w) \/ StopOrGoOn(w)

Adjust == CountOnIdle \/ (\E w \in Workers : StartThread(w)) \/ LeaveQueued

Next ==
    \/ \E j \in Jobs :
         \/ \E outcome \in {"result", "exception"} : SubmitSync(j, outcome)
         \/ Submit(j)
         \/ Copy(j)
         \/ CancelFuture(j)
    \/ Adjust
    \/ \E w \in Workers : Thread(w) \/ TimeOut(w)
    \/ Shutdown
    \/ DropPool
    \/ Collect

\* Threads run and jobs end; the loop runs its callbacks and returns from submit.
Fairness ==
    /\ WF_vars(Adjust)
    /\ \A w \in Workers : WF_vars(Thread(w))
    /\ \A j \in Jobs : WF_vars(Copy(j))

Spec == Init /\ [][Next]_vars /\ Fairness

-----------------------------------------------------------------------------
\* "ensures that at least one active thread remains to prevent locks": when
\* submit() returned there is a thread for what is in the queue, although threads
\* leave while it counts on them to be idle.
OneThreadRemains ==
    (state = "live" /\ ~adjusting /\ workQueue # <<>>)
        => \E w \in threads : pc[w] # "none"

\* No job is lost, or run twice: what was submitted is in the queue, once, or one
\* thread runs it, or it is done with; and a future that is pending will be told, but
\* for one that shutdown() took out of the queue.
JobsAreSomewhere ==
    /\ \A i, k \in DOMAIN workQueue : workQueue[i] = workQueue[k] => i = k \/ workQueue[i] = Stop
    /\ \A v, w \in Workers : pc[v] = "runs" /\ pc[w] = "runs" /\ item[v] = item[w] => v = w
    /\ \A j \in Jobs :
         /\ job[j] = "queued" <=> \E i \in DOMAIN workQueue : workQueue[i] = j
         /\ job[j] = "runs" <=> \E w \in Workers : pc[w] = "runs" /\ item[w] = j
         /\ fut[j] = "pending" => job[j] \in {"queued", "runs", "dropped"} \/ j \in copies

\* Its function is called at most once: who is done, or was given up, stays so.
JobsRunOnce ==
    [][\A j \in Jobs : job[j] \in {"done", "dropped"} => job'[j] = job[j]]_vars

\* Every job that submit() took is run, or given up by a pool that is broken or
\* shut down, and its future is settled, also when threads leave or a None is
\* passed on in between.  Two things the code loses are excepted: the future of a
\* job that shutdown() took out of the queue, and the jobs of a collected pool,
\* whose last thread ends with an error when it timed out just before.
EveryJobIsSettled ==
    \A j \in Jobs :
        (job[j] = "queued" \/ fut[j] = "pending")
            ~> \/ job[j] = "dropped" \/ state = "collected"
               \/ job[j] = "done" /\ fut[j] # "pending"

\* When the pool is shut down or collected all its threads end, without waiting for
\* a timeout: None passes from one to the next, also past those that timed out or
\* start late.  A late thread whose initializer fails drains that None; those that
\* wait for it then end by their timeouts, the last one too, since the one that
\* failed still counts in _threads.
ThreadsEnd ==
    LET Ended == \A w \in Workers : pc[w] = "none"
    IN  /\ (state \in {"shutdown", "collected"}) ~> (Ended \/ state = "drained")
        /\ (\A w \in Workers : WF_vars(TimeOut(w))) => ((state = "drained") ~> Ended)

\* "Pruned threads will be automatically recreated as needed": no job waits for
\* a thread that is busy while there is room for another.
RecreatedAsNeeded ==
    (/\ state = "live" /\ ~adjusting /\ workQueue # <<>>
     /\ \A w \in Workers : pc[w] \in {"none", "runs"})
        => Cardinality(threads) >= maxWorkers
=============================================================================
