----------------------------- MODULE SmartQueue -----------------------------
(***************************************************************************)
(* SmartProcessingQueue of a_sync/primitives/queue.py with the futures of  *)
(* a_sync/_smart.pyx: callers that ask for the same key share one future,  *)
(* and the job with the most waiters is to run first.                      *)
(*                                                                         *)
(* A caller gets a shield, an outer future around the shared one.  The     *)
(* queue refers to the shared futures weakly, in its dict and in its heap: *)
(* one lives as long as a shield hangs on it, a caller has it, or the      *)
(* variable "fut" of a worker holds it, which it does until the worker     *)
(* gets its next job.  A shield nobody refers to makes a cycle with its    *)
(* future, which the garbage collector finds at any time.                  *)
(*                                                                         *)
(* Everything runs on one event loop.  A worker whose function raises      *)
(* CancelledError dies with its job.  When the task that gathers the       *)
(* workers finds it, or the queue is closed, put() refuses; what else      *)
(* follows from that is in ProcessingQueue.                                *)
(***************************************************************************)
EXTENDS Integers, Sequences, FiniteSets, SequencesExt

CONSTANTS
    Keys,       \* what is asked for
    Callers,    \* tasks that ask, one key at a time
    Smart,      \* those that are SmartTasks, which count their own waiters
    MaxAsks,    \* how often they ask in all, a bound
    Futs,       \* objects of SmartFuture; they bound the futures in use at once
    Workers,
    None

ASSUME SmartAssumption == Smart \subseteq Callers /\ IsFiniteSet(Callers) /\ None \notin Futs
ASSUME MaxAsksAssumption == MaxAsks \in Nat

VARIABLES
    keyOf,      \* _key of each shared future
    state,      \* and its state
    popped,     \* those taken out of _futs
    heap,       \* _queue: the shared futures in the order of the heap
    shield,     \* the shield of each caller; "given" is the done future itself
    on,         \* the shared future a shield hangs on, or which the caller has
    asks,       \* how often they have asked
    watched,    \* callers whose own task is awaited
    refuses,    \* put() raises: _closed, or _workers.done()
    pc, fut     \* each worker, and its variable fut

vars == <<keyOf, state, popped, heap, shield, on, asks, watched, refuses, pc, fut>>

TypeOK ==
    /\ keyOf \in [Futs -> Keys \cup {None}]
    /\ state \in [Futs -> {"pending", "result", "exception"}]
    /\ popped \subseteq Futs
    /\ heap \in Seq(Futs)
    /\ shield \in [Callers -> {"none", "held", "awaited", "dropped", "given"}]
    /\ on \in [Callers -> Futs \cup {None}]
    /\ asks \in 0..MaxAsks
    /\ watched \subseteq Callers
    /\ refuses \in BOOLEAN
    /\ pc \in [Workers -> {"gets", "runs", "dead"}]
    /\ fut \in [Workers -> Futs \cup {None}]

Init ==
    /\ keyOf = [f \in Futs |-> None]
    /\ state = [f \in Futs |-> "pending"]
    /\ popped = {} /\ heap = <<>> /\ watched = {}
    /\ shield = [c \in Callers |-> "none"]
    /\ on = [c \in Callers |-> None]
    /\ asks = 0 /\ refuses = FALSE
    /\ pc = [w \in Workers |-> "gets"]
    /\ fut = [w \in Workers |-> None]

-----------------------------------------------------------------------------
\* Somebody refers to a future; without that it is gone, and its weak
\* references are dead.
Alive(f) == f # None /\ ((\E c \in Callers : on[c] = f) \/ (\E w \in Workers : fut[w] = f))

\* The future that _futs has for a key.
\* (and a mutant: the future of a job leaves it when the job starts)
Known_Queued(k) == {f \in Futs : keyOf[f] = k /\ Alive(f) /\ f \notin popped
                                 /\ f \in ToSet(heap)}
Known(k) == {f \in Futs : keyOf[f] = k /\ Alive(f) /\ f \notin popped}

\* count_waiters of a future, through the shields that hang on it.  The task of
\* a caller counts as one, or, if it is a SmartTask, as those who await it.
Waiters(f) ==
    Cardinality({c \in Callers : /\ on[c] = f /\ shield[c] = "awaited"
                                 /\ c \in Smart => c \in watched})

\* The order of the heap: dead references first, then those with more waiters.
Before(f, g) == ~Alive(f) \/ (Alive(g) /\ Waiters(f) > Waiters(g))

\* heapq, on a sequence.
Swap(h, i, j) == [h EXCEPT ![i] = h[j], ![j] = h[i]]

\* A heap, and a place in it.
Places == {p \in Seq(Futs) \X Nat : p[2] \in 1..Len(p[1])}

\* siftdown: what is at a place rises while it comes before its parent.
Up[p \in Places] ==
    LET h == p[1]  i == p[2]
    IN  IF i > 1 /\ Before(h[i], h[i \div 2]) THEN Up[<<Swap(h, i, i \div 2), i \div 2>>] ELSE h

\* siftup: it sinks to a leaf, below the child that comes first, and rises from there.
Down[p \in Places] ==
    LET h == p[1]  i == p[2]
        left == 2 * i
        child == IF left < Len(h) /\ ~Before(h[left], h[left + 1]) THEN left + 1 ELSE left
    IN  IF left > Len(h) THEN Up[<<h, i>>] ELSE Down[<<Swap(h, i, child), child>>]

HeapPush(h, f) == Up[<<Append(h, f), Len(h) + 1>>]

HeapPop(h) ==
    IF Len(h) = 1 THEN <<>>
    ELSE Down[<<[Front(h) EXCEPT ![1] = Last(h)], 1>>]

\* What _get takes and leaves: it pops the first, and changes it for the new
\* first when that has more waiters by now.
\* (and a mutant: it takes what it popped)
Get_First(h) == <<Head(h), HeapPop(h)>>
Get(h) ==
    LET rest == HeapPop(h)
    IN  IF rest # <<>> /\ Before(rest[1], h[1])
        THEN <<rest[1], Down[<<[rest EXCEPT ![1] = h[1]], 1>>]>>
        ELSE <<h[1], rest>>

-----------------------------------------------------------------------------
\* A caller asks for a key, and _ensure_workers lets it pass.
Asks(c) ==
    /\ shield[c] = "none" /\ asks < MaxAsks /\ ~refuses
    /\ asks' = asks + 1

\* What nobody refers to any more is gone.
Forgotten ==
    /\ keyOf' = [f \in Futs |-> IF Alive(f)' THEN keyOf[f] ELSE None]
    /\ state' = [f \in Futs |-> IF Alive(f)' THEN state[f] ELSE "pending"]
    /\ popped' = {f \in popped : Alive(f)'}

\* put_nowait() of a key that is not known: a new future, and a job.
PutNew(c, k) ==
    /\ Asks(c) /\ Known(k) = {}
    /\ \E g \in Futs : ~Alive(g) /\ g \notin ToSet(heap)
    /\ LET f == CHOOSE g \in Futs : ~Alive(g) /\ g \notin ToSet(heap)
       IN  /\ keyOf' = [keyOf EXCEPT ![f] = k]
           /\ heap' = HeapPush(heap, f)
           /\ on' = [on EXCEPT ![c] = f]
    /\ shield' = [shield EXCEPT ![c] = "held"]
    /\ UNCHANGED <<state, popped, watched, refuses, pc, fut>>

\* put_nowait() of a key that is known: another shield, or the future itself
\* when it is done.
PutKnown(c, k) ==
    /\ Asks(c)
    /\ \E f \in Known(k) :
         /\ on' = [on EXCEPT ![c] = f]
         /\ shield' = [shield EXCEPT ![c] = IF state[f] = "pending" THEN "held" ELSE "given"]
    /\ UNCHANGED <<keyOf, state, popped, heap, watched, refuses, pc, fut>>

\* The caller awaits its shield,
Await(c) ==
    /\ shield[c] = "held"
    /\ shield' = [shield EXCEPT ![c] = "awaited"]
    /\ UNCHANGED <<keyOf, state, popped, heap, on, asks, watched, refuses, pc, fut>>

\* or drops it, and a cycle of shield and future remains.
Drop(c) ==
    /\ shield[c] = "held"
    /\ shield' = [shield EXCEPT ![c] = "dropped"]
    /\ UNCHANGED <<keyOf, state, popped, heap, on, asks, watched, refuses, pc, fut>>

\* The shields of some callers leave their futures.
Leave(S) ==
    /\ on' = [c \in Callers |-> IF c \in S THEN None ELSE on[c]]
    /\ shield' = [c \in Callers |-> IF c \in S THEN "none" ELSE shield[c]]
    /\ UNCHANGED <<heap, asks, watched, refuses, pc, fut>>
    /\ Forgotten

\* The garbage collector finds a future whose shields were all dropped.
Collect(f) ==
    /\ \E c \in Callers : on[c] = f
    /\ \A c \in Callers : on[c] = f => shield[c] = "dropped"
    /\ \A w \in Workers : fut[w] # f
    /\ Leave({c \in Callers : on[c] = f})

\* A caller is cancelled, and its shield with it.
Cancel(c) == shield[c] \in {"held", "awaited"} /\ Leave({c})

\* The callback of a future that is done settles a shield.
Settle(c) ==
    /\ shield[c] \in {"held", "awaited", "dropped"} /\ state[on[c]] # "pending"
    /\ Leave({c})

\* A caller drops the done future it was given.
Forget(c) == shield[c] = "given" /\ Leave({c})

\* Another task starts, or stops, to await the task of a caller.
Watch(c) ==
    /\ c \in Smart
    /\ watched' = (watched \ {c}) \cup ({c} \ watched)
    /\ UNCHANGED <<keyOf, state, popped, heap, shield, on, asks, refuses, pc, fut>>

-----------------------------------------------------------------------------
\* Jobs a worker skips: the future is gone, or has no shield.
\* (and a mutant: nobody awaits it right now)
Skips_Unawaited(f) == ~Alive(f) \/ Waiters(f) = 0
Skips(f) == ~Alive(f)

\* A worker gets a job, and skips it or runs it.
TakeJob(w) ==
    /\ pc[w] = "gets" /\ heap # <<>>
    /\ heap' = Get(heap)[2]
    /\ LET f == Get(heap)[1]
       IN  /\ fut' = [fut EXCEPT ![w] = IF Alive(f) THEN f ELSE None]
           /\ pc' = [pc EXCEPT ![w] = IF Skips(f) THEN "gets" ELSE "runs"]
    /\ UNCHANGED <<shield, on, asks, watched, refuses>>
    /\ Forgotten

\* The function returns or raises; the future of a failed job leaves _futs.
Finish(w, outcome) ==
    /\ pc[w] = "runs"
    /\ pc' = [pc EXCEPT ![w] = "gets"]
    /\ state' = [state EXCEPT ![fut[w]] = outcome]
    /\ popped' = IF outcome = "exception" THEN popped \cup {fut[w]} ELSE popped
    /\ UNCHANGED <<keyOf, heap, shield, on, asks, watched, refuses, fut>>

\* The function raises CancelledError, which no "except Exception" stops.  The
\* future stays as it is; the traceback the worker's task keeps refers to it.
Dies(w) ==
    /\ pc[w] = "runs"
    /\ pc' = [pc EXCEPT ![w] = "dead"]
    /\ UNCHANGED <<keyOf, state, popped, heap, shield, on, asks, watched, refuses, fut>>

\* close(), or the task that gathers the workers ends, one of them being dead.
Refuse ==
    /\ ~refuses /\ refuses' = TRUE
    /\ UNCHANGED <<keyOf, state, popped, heap, shield, on, asks, watched, pc, fut>>

Worker(w) ==
    \/ TakeJob(w) \/ Dies(w)
    \/ \E outcome \in {"result", "exception"} : Finish(w, outcome)

Next ==
    \/ \E c \in Callers :
         \/ \E k \in Keys : PutKnown(c, k) \/ PutNew(c, k)
         \/ Await(c) \/ Cancel(c) \/ Drop(c) \/ Settle(c) \/ Forget(c) \/ Watch(c)
    \/ \E f \in Futs : Collect(f)
    \/ \E w \in Workers : Worker(w)
    \/ Refuse

Spec == Init /\ [][Next]_vars

-----------------------------------------------------------------------------
\* Callers of one key share its job: two workers never run the same key at once,
\* although futures die, shields come and go, and a key is asked for again.
JobsAreShared ==
    \A v, w \in Workers :
        (v # w /\ pc[v] = "runs" /\ pc[w] = "runs") => keyOf[fut[v]] # keyOf[fut[w]]

\* No job is lost: a future somebody holds or awaits a shield of is done, or its
\* job is still in the queue or with a worker; also when nobody awaited it, or
\* others had dropped or cancelled theirs, when its turn came.  A worker that
\* died with the job is such a worker: that future nobody ever settles.
JobIsQueuedOrRuns ==
    \A c \in Callers :
        (shield[c] \in {"held", "awaited"} /\ state[on[c]] = "pending")
            => \/ on[c] \in ToSet(heap)
               \/ \E w \in Workers : pc[w] \in {"runs", "dead"} /\ fut[w] = on[c]

\* "to ensure we get the job with the most waiters": a worker takes no job while
\* one with more waiters is in the queue, whoever came, left or was cancelled
\* since they were put there.  It holds for up to four jobs; from five on the
\* heap may hide the one with the most waiters below another.
MostWaitersFirst ==
    [][\A w \in Workers :
         (pc[w] = "gets" /\ pc'[w] = "runs" /\ Len(heap) <= 4)
             => \A f \in ToSet(heap) : Alive(f) => Waiters(f) <= Waiters(fut'[w])]_<<pc>>

\* The same for any number of jobs, which is what the comment says.
AlwaysMostWaitersFirst ==
    [][\A w \in Workers :
         (pc[w] = "gets" /\ pc'[w] = "runs")
             => \A f \in ToSet(heap) : Alive(f) => Waiters(f) <= Waiters(fut'[w])]_<<pc>>
=============================================================================
