-------------------------- MODULE ProcessingQueue --------------------------
(***************************************************************************)
(* ProcessingQueue and PriorityProcessingQueue of                          *)
(* a_sync/primitives/queue.py on one event loop: callers submit jobs, each *)
(* with a future for its result, to a queue that a fixed set of worker     *)
(* tasks drains for ever.                                                  *)
(*                                                                         *)
(* ProcessingQueue queues a weak proxy of the future, so that it dies when *)
(* its caller drops it; PriorityProcessingQueue queues the future itself,  *)
(* in a heap.  A worker that an exception escapes from is gone: its job is *)
(* never marked done, and once the task that gathers the workers notices,  *)
(* further submissions raise the worker's exception.                       *)
(*                                                                         *)
(* asyncio.Queue, unbounded here, is external: a worker with nothing to do *)
(* takes a job once there is one, and join() returns when the count of     *)
(* unfinished jobs is zero.                                                *)
(***************************************************************************)
EXTENDS Integers, Sequences, FiniteSets

CONSTANTS
    Jobs,          \* jobs, each submitted at most once
    Workers,       \* num_workers worker tasks
    Rank,          \* the priority of each job: distinct, so that the heap
                   \* never compares arguments
    Modes,         \* the values mode may have
    NoJob

ASSUME ModesAssumption ==
    Modes \subseteq [prioritized : BOOLEAN, returnData : BOOLEAN,
                    dropped : SUBSET Jobs, fatal : SUBSET Jobs]
ASSUME JobsAssumption ==
    /\ NoJob \notin Jobs
    /\ Rank \in [Jobs -> Int]
    /\ \A j, k \in Jobs : Rank[j] = Rank[k] => j = k
ASSUME WorkersAssumption == IsFiniteSet(Workers)

VARIABLES
    mode,         \* how the queue was created and is used: whether it is a
                  \* PriorityProcessingQueue, return_data, the jobs whose caller
                  \* may not keep the future, those that may raise CancelledError
    queue,        \* _queue, in the order of submission
    unfinished,   \* _unfinished_tasks
    closed,       \* _closed
    started,      \* _workers was evaluated: the worker tasks exist
    broken,       \* _workers.done(): the gathering task has failed
    at,           \* where each worker is
    job,          \* the job it took, kept by a worker that died with it
    fut,          \* the future of each job
    ran           \* the jobs func was called for

vars == <<mode, queue, unfinished, closed, started, broken, at, job, fut, ran>>

FutStates == {"unborn",      \* not submitted
              "refused",     \* the submission raised
              "absent",      \* submitted without a future
              "pending", "done", "cancelled",
              "collected"}   \* dropped by its caller, and only proxied

TypeOK ==
    /\ mode \in Modes
    /\ queue \in Seq(Jobs)
    /\ unfinished \in Nat
    /\ closed \in BOOLEAN /\ started \in BOOLEAN /\ broken \in BOOLEAN
    /\ at \in [Workers -> {"idle", "running", "dead"}]
    /\ job \in [Workers -> Jobs \cup {NoJob}]
    /\ fut \in [Jobs -> FutStates]
    /\ ran \subseteq Jobs

Init ==
    /\ mode \in Modes
    /\ queue = <<>>
    /\ unfinished = 0
    /\ closed = FALSE
    /\ started = FALSE
    /\ broken = FALSE
    /\ at = [w \in Workers |-> "idle"]
    /\ job = [w \in Workers |-> NoJob]
    /\ fut = [j \in Jobs |-> "unborn"]
    /\ ran = {}

-----------------------------------------------------------------------------
\* put_nowait, when _ensure_workers lets it pass.
Put(j) ==
    /\ fut[j] = "unborn"
    /\ ~closed /\ ~broken
    /\ started' = TRUE
    /\ queue' = Append(queue, j)
    /\ unfinished' = unfinished + 1
    /\ fut' = [fut EXCEPT ![j] =
                 IF mode.returnData \/ mode.prioritized THEN "pending" ELSE "absent"]
    /\ UNCHANGED <<mode, closed, broken, at, job, ran>>

\* put_nowait, when _ensure_workers raises.
Refuse(j) ==
    /\ fut[j] = "unborn"
    /\ closed \/ broken
    /\ fut' = [fut EXCEPT ![j] = "refused"]
    /\ UNCHANGED <<mode, queue, unfinished, closed, started, broken, at, job, ran>>

Close ==
    /\ ~closed
    /\ closed' = TRUE
    /\ UNCHANGED <<mode, queue, unfinished, started, broken, at, job, fut, ran>>

\* The caller cancels the future it was given.
CancelFuture(j) ==
    /\ fut[j] = "pending"
    /\ fut' = [fut EXCEPT ![j] = "cancelled"]
    /\ UNCHANGED <<mode, queue, unfinished, closed, started, broken, at, job, ran>>

\* The caller drops its future, to which the queue has only a proxy.
Drop(j) ==
    /\ j \in mode.dropped
    /\ ~mode.prioritized
    /\ fut[j] \in {"pending", "cancelled"}
    /\ fut' = [fut EXCEPT ![j] = "collected"]
    /\ UNCHANGED <<mode, queue, unfinished, closed, started, broken, at, job, ran>>

-----------------------------------------------------------------------------
\* A mutant of NextUp: the workers stop when the queue is closed.
NextUp_WhileOpen(i) == i \in DOMAIN queue /\ ~closed

\* The place in the queue of the job that _get returns.
NextUp(i) ==
    /\ i \in DOMAIN queue
    /\ IF mode.prioritized
       THEN \A k \in DOMAIN queue : Rank[queue[i]] <= Rank[queue[k]]
       ELSE i = 1

\* The queue without the job at place i.
QueueWithout(i) ==
    [k \in 1..(Len(queue) - 1) |-> IF k < i THEN queue[k] ELSE queue[k + 1]]

\* A mutant of TaskDone: it is not called.
TaskDone_Never == UNCHANGED unfinished

TaskDone == unfinished' = unfinished - 1

\* A mutant of Dies: the worker marks its job done all the same.
Dies_MarksDone(w, j) ==
    /\ at' = [at EXCEPT ![w] = "dead"]
    /\ job' = [job EXCEPT ![w] = j]
    /\ TaskDone

\* An exception escapes from the worker, which has job j.
Dies(w, j) ==
    /\ at' = [at EXCEPT ![w] = "dead"]
    /\ job' = [job EXCEPT ![w] = j]
    /\ UNCHANGED unfinished

\* The worker calls func for j.
Runs(w, j) ==
    /\ at' = [at EXCEPT ![w] = "running"]
    /\ job' = [job EXCEPT ![w] = j]
    /\ ran' = ran \cup {j}
    /\ UNCHANGED unfinished

\* An idle worker gets a job.  It asks the proxied future whether it was
\* cancelled, which raises ReferenceError if it was collected.  Without
\* return data it unpacks two values, and a PriorityProcessingQueue has three.
Take(w) ==
    /\ started
    /\ at[w] = "idle"
    /\ \E i \in DOMAIN queue :
         LET j == queue[i] IN
         /\ NextUp(i)
         /\ queue' = QueueWithout(i)
         /\ \/ mode.returnData /\ fut[j] = "collected" /\ Dies(w, j) /\ UNCHANGED ran
            \/ /\ \/ mode.returnData /\ fut[j] = "cancelled"
                  \/ ~mode.returnData /\ mode.prioritized
               /\ TaskDone
               /\ UNCHANGED <<at, job, ran>>
            \/ /\ IF mode.returnData THEN fut[j] = "pending" ELSE ~mode.prioritized
               /\ Runs(w, j)
    /\ UNCHANGED <<mode, closed, started, broken, fut>>

\* A mutant of Finish: setting a future that was cancelled raises, too.
Finish_Raises(w) ==
    /\ at[w] = "running"
    /\ \/ /\ mode.returnData /\ fut[job[w]] \in {"collected", "cancelled"}
          /\ Dies(w, job[w])
          /\ UNCHANGED fut
       \/ /\ ~mode.returnData \/ fut[job[w]] = "pending"
          /\ fut' = IF fut[job[w]] = "pending"
                    THEN [fut EXCEPT ![job[w]] = "done"] ELSE fut
          /\ TaskDone
          /\ at' = [at EXCEPT ![w] = "idle"]
          /\ job' = [job EXCEPT ![w] = NoJob]
    /\ UNCHANGED <<mode, queue, closed, started, broken, ran>>

\* func returns or raises an Exception: the future is set, unless it was
\* cancelled meanwhile; setting one that was collected raises ReferenceError.
Finish(w) ==
    /\ at[w] = "running"
    /\ \/ /\ mode.returnData /\ fut[job[w]] = "collected"
          /\ Dies(w, job[w])
          /\ UNCHANGED fut
       \/ /\ ~mode.returnData \/ fut[job[w]] \in {"pending", "cancelled"}
          /\ fut' = IF fut[job[w]] = "pending"
                    THEN [fut EXCEPT ![job[w]] = "done"] ELSE fut
          /\ TaskDone
          /\ at' = [at EXCEPT ![w] = "idle"]
          /\ job' = [job EXCEPT ![w] = NoJob]
    /\ UNCHANGED <<mode, queue, closed, started, broken, ran>>

\* func raises CancelledError, which is no Exception.
FinishCancelled(w) ==
    /\ at[w] = "running"
    /\ job[w] \in mode.fatal
    /\ Dies(w, job[w])
    /\ UNCHANGED <<mode, queue, closed, started, broken, fut, ran>>

\* The gathering task gets the exception of a dead worker.
Break ==
    /\ ~broken
    /\ \E w \in Workers : at[w] = "dead"
    /\ broken' = TRUE
    /\ UNCHANGED <<mode, queue, unfinished, closed, started, at, job, fut, ran>>

Next ==
    \/ \E j \in Jobs : Put(j) \/ Refuse(j) \/ CancelFuture(j) \/ Drop(j)
    \/ \E w \in Workers : Take(w) \/ Finish(w) \/ FinishCancelled(w)
    \/ Close
    \/ Break

\* The event loop runs the workers and the gathering task; func terminates.
Fairness ==
    /\ \A w \in Workers : WF_vars(Take(w)) /\ WF_vars(Finish(w))
    /\ WF_vars(Break)

Spec == Init /\ [][Next]_vars /\ Fairness

-----------------------------------------------------------------------------
InState(s) == {w \in Workers : at[w] = s}
Queued == {queue[i] : i \in DOMAIN queue}
Accepted == {j \in Jobs : fut[j] \notin {"unborn", "refused"}}

\* The count that join() waits for is exact: one for each queued job, one for
\* each that runs, and one for each job that a worker died with, which no later
\* step takes off.
UnfinishedIsExact ==
    unfinished = Len(queue) + Cardinality(InState("running"))
                            + Cardinality(InState("dead"))

\* When join() returns, every accepted job was run, or was given up by its
\* caller first, and no future of theirs is left pending.
AllProcessed ==
    \A j \in Accepted :
        /\ j \in ran \/ fut[j] \in {"cancelled", "collected"}
        /\ fut[j] # "pending"

\* A PriorityProcessingQueue without return data processes nothing.
Works == mode.returnData \/ ~mode.prioritized

JoinMeansProcessed == (Works /\ unfinished = 0) => AllProcessed

\* "The future representing the result of the task." (queue.py:658-659): so it
\* is for every queue, however it was created.
JoinSettlesFutures == unfinished = 0 => AllProcessed

\* A job is queued once and then was not run yet, or it is with one worker.  So each
\* death costs one job, and it is one of those that may kill: its caller dropped the
\* future, or func raised CancelledError.  A future that is cancelled while func runs
\* kills nobody, nor does the death of another worker.
OneJobOneWorker ==
    /\ \A i, k \in DOMAIN queue : queue[i] = queue[k] => i = k
    /\ \A j \in Queued : j \notin ran /\ \A w \in Workers : job[w] # j
    /\ \A v, w \in Workers : job[v] = job[w] => v = w \/ job[v] = NoJob
    /\ \A w \in InState("dead") : job[w] \in mode.dropped \cup mode.fatal

\* Every accepted job is settled in the end, whether or not the queue is closed
\* or other workers died, as long as one worker is left: a worker that dies
\* takes along the future of its own job only.
EveryJobSettles ==
    \A j \in Jobs :
        (Works /\ fut[j] = "pending")
            ~> \/ fut[j] # "pending"
               \/ \E w \in InState("dead") : job[w] = j
               \/ InState("dead") = Workers

\* "the weakref was already cleaned up, we don't need to process this item"
\* (queue.py:475): a caller that drops its future costs no worker.
DroppingIsHarmless == \A w \in Workers : at[w] # "dead"
=============================================================================
