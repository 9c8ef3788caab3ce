------------------------- MODULE PrioritySemaphore -------------------------
(***************************************************************************)
(* PrioritySemaphore of a_sync/primitives/locks/prio_semaphore.pyx on one  *)
(* event loop: a semaphore whose waiters queue in one deque per priority,  *)
(* the deques ("context managers") being kept in a heap and in a dict by   *)
(* priority, next to one deque for those who name no priority, which is    *)
(* always served first.                                                    *)
(*                                                                         *)
(* Only what happens between two awaits is atomic.  A task that was woken  *)
(* runs later, and may find that the permit was taken meanwhile; a task    *)
(* that is cancelled runs later too, whether or not it was woken first.    *)
(* The ready tasks run in any order here; asyncio runs them first come,    *)
(* first served.                                                           *)
(*                                                                         *)
(* A deque holds futures.  A future that is done stays in its deque until  *)
(* it is popped, and is then only skipped: all of these are DoneFut here,  *)
(* and a future that is still pending is written as the task awaiting it.  *)
(* The set _potential_lost_waiters is likewise kept to its pending ones:   *)
(* the code discards the others when it meets them.                        *)
(***************************************************************************)
EXTENDS Integers, Sequences, FiniteSets

CONSTANTS
    Tasks,       \* tasks that use the semaphore
    Asked,       \* what semaphore[...] is asked for: numbers, or NoPriority
    NoPriority,  \* None
    Managers,    \* manager objects: the bound on how many exist at once
    Prio,        \* _priority of each of them
    Top,         \* _top_priority_manager
    NoManager,   \* no manager: no reference, or no entry in the dict
    DoneFut,     \* a future that is done, in a deque
    Capacity,    \* _capacity
    MaxQueue     \* bound: no deque grows beyond this length

\* "priority or -1", the key of the dict: None and 0 give that of an ordinary
\* manager, which is not the top one, though that has the priority -1 too.
KeyOf(priority) == IF priority \in {NoPriority, 0} THEN -1 ELSE priority

Priorities == {KeyOf(p) : p \in Asked}

ASSUME CapacityAssumption == Capacity \in Nat \ {0}
ASSUME TasksAssumption == IsFiniteSet(Tasks) /\ DoneFut \notin Tasks
ASSUME ManagersAssumption ==
    /\ Asked \subseteq Int \cup {NoPriority}
    /\ Prio \in [Managers -> Priorities]
    /\ Top \notin Managers
    /\ NoManager \notin Managers \cup {Top}

AllManagers == Managers \cup {Top}

VARIABLES
    value,     \* _Semaphore__value
    queue,     \* _Semaphore__waiters of each manager
    heap,      \* _Semaphore__waiters of the semaphore, as a set
    cms,       \* _context_managers
    lost,      \* _potential_lost_waiters
    mgr,       \* the manager each task has a reference to
    pc         \* where each task is

vars == <<value, queue, heap, cms, lost, mgr, pc>>

TypeOK ==
    /\ value \in Nat
    /\ queue \in [AllManagers -> Seq(Tasks \cup {DoneFut})]
    /\ heap \subseteq Managers
    /\ cms \in [Priorities -> Managers \cup {NoManager}]
    /\ lost \subseteq Tasks
    /\ mgr \in [Tasks -> AllManagers \cup {NoManager}]
    /\ pc \in [Tasks -> {"idle", "waiting", "woken", "cancelled",
                         "wokenCancelled", "holding"}]

Init ==
    /\ value = Capacity
    /\ queue = [m \in AllManagers |-> <<>>]
    /\ heap = {}
    /\ cms = [p \in Priorities |-> NoManager]
    /\ lost = {}
    /\ mgr = [t \in Tasks |-> NoManager]
    /\ pc = [t \in Tasks |-> "idle"]

-----------------------------------------------------------------------------
\* Getting a manager: semaphore, and semaphore[priority].

\* The semaphore itself is used: async with semaphore, semaphore.acquire().
UseTop(t) ==
    /\ pc[t] = "idle"
    /\ mgr' = [mgr EXCEPT ![t] = Top]
    /\ UNCHANGED <<value, queue, heap, cms, lost, pc>>

\* semaphore[p] finds a manager in the dict, which need not be in the heap.
GetManager(t, p) ==
    /\ pc[t] = "idle"
    /\ cms[KeyOf(p)] # NoManager
    /\ mgr' = [mgr EXCEPT ![t] = cms[KeyOf(p)]]
    /\ UNCHANGED <<value, queue, heap, cms, lost, pc>>

\* A manager nobody has a reference to, so that a new object may be it.
Unreferenced(m) ==
    /\ cms[Prio[m]] # m
    /\ m \notin heap
    /\ \A t \in Tasks : mgr[t] # m

\* A mutant of NewManager: it does not look for the manager of the priority.
NewManager_Unchecked(t, m) ==
    /\ pc[t] = "idle"
    /\ Unreferenced(m)
    /\ queue' = [queue EXCEPT ![m] = <<>>]
    /\ heap' = heap \cup {m}
    /\ cms' = [cms EXCEPT ![Prio[m]] = m]
    /\ mgr' = [mgr EXCEPT ![t] = m]
    /\ UNCHANGED <<value, lost, pc>>

\* semaphore[p], where KeyOf(p) = Prio[m], makes a manager and puts it in the
\* heap and in the dict.
NewManager(t, m) ==
    /\ pc[t] = "idle"
    /\ cms[Prio[m]] = NoManager
    /\ Unreferenced(m)
    /\ queue' = [queue EXCEPT ![m] = <<>>]
    /\ heap' = heap \cup {m}
    /\ cms' = [cms EXCEPT ![Prio[m]] = m]
    /\ mgr' = [mgr EXCEPT ![t] = m]
    /\ UNCHANGED <<value, lost, pc>>

-----------------------------------------------------------------------------
\* _wake_up_next.  W is the set of tasks whose future gets its result.

\* A mutant of HasLive: the top manager does not count.
HasLive_ButTop(m) == m # Top /\ \E i \in DOMAIN queue[m] : queue[m][i] # DoneFut

HasLive(m) == \E i \in DOMAIN queue[m] : queue[m][i] # DoneFut

\* The i-th future of m is its first pending one.
FirstLive(m, i) ==
    /\ i \in DOMAIN queue[m]
    /\ queue[m][i] # DoneFut
    /\ \A j \in 1..(i - 1) : queue[m][j] = DoneFut

\* The futures of m after the i-th: those before it were popped.
Rest(m, i) == SubSeq(queue[m], i + 1, Len(queue[m]))

\* The managers the heap loop pops before it comes to m: nothing in them is
\* pending, so they are emptied, and dropped from the heap and the dict.
Passed(m) == {k \in heap : Prio[k] < Prio[m]}

\* m is where the heap loop stops.
FirstReady(m) ==
    /\ m \in heap
    /\ HasLive(m)
    /\ \A k \in Passed(m) : ~HasLive(k)

\* The dict without the managers of D.
Without(D) == [p \in Priorities |-> IF cms[p] \in D THEN NoManager ELSE cms[p]]

\* The futures of the tasks of W are done, wherever they are queued.
Settle(q, W) ==
    [m \in AllManagers |->
        [i \in DOMAIN q[m] |-> IF q[m][i] \in W THEN DoneFut ELSE q[m][i]]]

\* A waiter of the top manager is woken.
WakeTop(W) ==
    /\ \E i \in DOMAIN queue[Top] :
         /\ FirstLive(Top, i)
         /\ W = {queue[Top][i]}
         /\ queue' = Settle([queue EXCEPT ![Top] = Rest(Top, i)], W)
    /\ UNCHANGED <<heap, cms>>

\* A mutant of Rescued: no emergency procedure.
Rescued_Never(L, R) == R = {}

\* The emergency procedure: any one of the pending waiters in L, if there is.
Rescued(L, R) ==
    \/ L = {} /\ R = {}
    \/ \E t \in L : R = {t}

\* The deques once the heap loop came to m and popped its first i futures.
Popped(m, i) ==
    [k \in AllManagers |->
        IF k = m THEN Rest(m, i)
        ELSE IF k \in Passed(m) \cup {Top} THEN <<>> ELSE queue[k]]

\* The first future of the first manager with a pending one is pending.  It
\* is woken, and the break leaves the heap loop itself: the manager is not
\* put back in the heap, though it stays in the dict, and the emergency
\* procedure wakes one more.
WakeAtHead(W) ==
    /\ ~HasLive(Top)
    /\ \E m \in heap :
         /\ FirstReady(m)
         /\ FirstLive(m, 1)
         /\ \E R \in SUBSET lost :
              /\ Rescued(lost \ {queue[m][1]}, R)
              /\ W = {queue[m][1]} \cup R
         /\ queue' = Settle(Popped(m, 1), W)
         /\ heap' = heap \ (Passed(m) \cup {m})
         /\ cms' = Without(Passed(m))

\* The first future of that manager is done, a later one is pending: it is
\* woken, and the manager stays if there is anything behind it.
WakeBehindDone(W) ==
    /\ ~HasLive(Top)
    /\ \E m \in heap :
         /\ FirstReady(m)
         /\ \E i \in 2..Len(queue[m]) :
              LET gone == Passed(m) \cup (IF i = Len(queue[m]) THEN {m} ELSE {})
              IN /\ FirstLive(m, i)
                 /\ W = {queue[m][i]}
                 /\ queue' = Settle(Popped(m, i), W)
                 /\ heap' = heap \ gone
                 /\ cms' = Without(gone)

\* Nothing in the heap is pending: only the emergency procedure is left.
WakeLost(W) ==
    /\ \A m \in heap \cup {Top} : ~HasLive(m)
    /\ Rescued(lost, W)
    /\ queue' = Settle([k \in AllManagers |->
                          IF k \in heap \cup {Top} THEN <<>> ELSE queue[k]], W)
    /\ heap' = {}
    /\ cms' = Without(heap)

\* One call of _wake_up_next, while t goes to its state "to".
WakeUpNext(t, to) ==
    \E W \in SUBSET Tasks :
        /\ \/ WakeTop(W)
           \/ WakeAtHead(W)
           \/ WakeBehindDone(W)
           \/ WakeLost(W)
        /\ lost' = lost \ W
        /\ pc' = [u \in Tasks |-> IF u \in W THEN "woken"
                                  ELSE IF u = t THEN to ELSE pc[u]]

-----------------------------------------------------------------------------
\* Acquiring, releasing, and being cancelled.

\* One round of the loop in __acquire: take a permit, or queue a new future
\* at the end of the manager's deque.
TryAcquire(t) ==
    \/ /\ value > 0
       /\ value' = value - 1
       /\ pc' = [pc EXCEPT ![t] = "holding"]
       /\ UNCHANGED <<queue, lost>>
    \/ /\ value <= 0
       /\ Len(queue[mgr[t]]) < MaxQueue
       /\ queue' = [queue EXCEPT ![mgr[t]] = Append(@, t)]
       /\ lost' = lost \cup {t}
       /\ pc' = [pc EXCEPT ![t] = "waiting"]
       /\ UNCHANGED value

\* A task enters through the manager it has.
Acquire(t) ==
    /\ pc[t] = "idle"
    /\ mgr[t] # NoManager
    /\ TryAcquire(t)
    /\ UNCHANGED <<heap, cms, mgr>>

\* A woken task runs and tests the value again.
Resume(t) ==
    /\ pc[t] = "woken"
    /\ TryAcquire(t)
    /\ UNCHANGED <<heap, cms, mgr>>

\* The task is cancelled: a pending future is cancelled with it; a task whose
\* future has its result will get the CancelledError when it runs.
Cancel(t) ==
    /\ \/ /\ pc[t] = "waiting"
          /\ queue' = Settle(queue, {t})
          /\ lost' = lost \ {t}
          /\ pc' = [pc EXCEPT ![t] = "cancelled"]
       \/ /\ pc[t] = "woken"
          /\ pc' = [pc EXCEPT ![t] = "wokenCancelled"]
          /\ UNCHANGED <<queue, lost>>
    /\ UNCHANGED <<value, heap, cms, mgr>>

\* A mutant of CancelStep: the task does not pass its wake-up on.
CancelStep_Silent(t) ==
    /\ pc[t] \in {"cancelled", "wokenCancelled"}
    /\ pc' = [pc EXCEPT ![t] = "idle"]
    /\ UNCHANGED <<value, queue, heap, cms, lost, mgr>>

\* The cancelled task runs its except clause and leaves.
CancelStep(t) ==
    \/ /\ \/ pc[t] = "cancelled"
          \/ pc[t] = "wokenCancelled" /\ value <= 0
       /\ pc' = [pc EXCEPT ![t] = "idle"]
       /\ UNCHANGED <<value, queue, heap, cms, lost, mgr>>
    \/ /\ pc[t] = "wokenCancelled"
       /\ value > 0
       /\ WakeUpNext(t, "idle")
       /\ UNCHANGED <<value, mgr>>

\* A holder leaves its async with block, by returning or by an exception.
Release(t) ==
    /\ pc[t] = "holding"
    /\ value' = value + 1
    /\ WakeUpNext(t, "idle")
    /\ UNCHANGED mgr

Next ==
    \E t \in Tasks :
        \/ UseTop(t)
        \/ \E p \in Asked : GetManager(t, p)
        \/ \E m \in Managers : NewManager(t, m)
        \/ Acquire(t)
        \/ Resume(t)
        \/ Cancel(t)
        \/ CancelStep(t)
        \/ Release(t)

\* The event loop runs every ready task, and a holder does not hold forever.
Fairness ==
    \A t \in Tasks :
        /\ WF_vars(Resume(t))
        /\ WF_vars(CancelStep(t))
        /\ WF_vars(Release(t))

Spec == Init /\ [][Next]_vars /\ Fairness

-----------------------------------------------------------------------------
Waiting == {t \in Tasks : pc[t] = "waiting"}
Holding == {t \in Tasks : pc[t] = "holding"}
\* Tasks that were woken and did not run yet, cancelled or not.
Roused == {t \in Tasks : pc[t] \in {"woken", "wokenCancelled"}}

\* Every permit is free or held: no wake-up, cancellation or emergency wake-up
\* makes one or loses one.
PermitsConserved == value + Cardinality(Holding) = Capacity

\* While somebody waits, at least as many tasks are on their way to the permits
\* as there are free ones.  One task fewer and a permit may stay free for ever:
\* _wake_up_next must find a waiter whenever there is one, in whatever manager,
\* and a woken task that is cancelled must pass its wake-up on.
NoLostWakeup == Waiting # {} => Cardinality(Roused) >= value

\* The emergency procedure can reach every waiter.  It has to: a manager that
\* _wake_up_next dropped from the heap, or from the dict too, while a task had
\* a reference to it, is reached in no other way.
LostCoversWaiting == Waiting \subseteq lost

\* The pending futures of the deques are those of waiting tasks: nobody who is
\* done waiting can be woken in the place of somebody who is not.
LiveAreWaiting ==
    \A m \in AllManagers : \A i \in DOMAIN queue[m] :
        queue[m][i] # DoneFut => queue[m][i] \in Waiting

\* Every manager in the heap is the one the dict has for its priority, so that
\* dropping it from both never raises KeyError in the middle of _wake_up_next
\* and never drops another manager that has waiters.
HeapCoherent == \A m \in heap : cms[Prio[m]] = m

\* A waiting task's pending future is in exactly one place, in the deque of the
\* manager it used: no wake-up strands one, or leaves one behind to be resolved
\* a second time.
QueuedOnce ==
    /\ \A t \in Waiting : \E i \in DOMAIN queue[mgr[t]] : queue[mgr[t]][i] = t
    /\ \A m \in AllManagers : \A i \in DOMAIN queue[m] :
          queue[m][i] # DoneFut =>
             /\ queue[m][i] \in Waiting /\ mgr[queue[m][i]] = m
             /\ \A j \in DOMAIN queue[m] : queue[m][j] = queue[m][i] => i = j

\* The step wakes t, or leaves it waiting.
Wakes(t) == pc[t] = "waiting" /\ pc'[t] = "woken"
KeepsWaiting(t) == pc[t] = "waiting" /\ pc'[t] = "waiting"

\* Nobody in the heap's managers is woken while somebody who named no priority
\* keeps waiting.
TopFirst ==
    [][\A t, u \in Tasks :
          (Wakes(t) /\ KeepsWaiting(u) /\ mgr[u] = Top) => mgr[t] = Top]_vars

\* The rank a waiting task has from its manager; the top manager precedes all.
Precedes(u, t) ==
    IF mgr[u] = Top THEN mgr[t] # Top
                    ELSE mgr[t] # Top /\ Prio[mgr[u]] < Prio[mgr[t]]

\* "ensuring that higher priority waiters are processed before lower priority
\* ones" (prio_semaphore.pyx:4-5): the one waiter that a call wakes is not
\* preceded by a waiter it leaves waiting.
HigherFirst ==
    [][\A t, u \in Tasks :
          (Wakes(t) /\ KeepsWaiting(u) /\ \A v \in Tasks \ {t} : ~Wakes(v))
            => ~Precedes(u, t)]_vars

\* "ensuring that no waiter is left indefinitely waiting"
\* (prio_semaphore.pyx:210-211): whoever waits gets a permit or is cancelled.
NobodyWaitsForever ==
    \A t \in Tasks :
        (pc[t] = "waiting") ~> (pc[t] \notin {"waiting", "woken"})

\* The semaphore is a pool of Capacity permits.
Pool == INSTANCE PermitPool WITH
    wanting <- {t \in Tasks : pc[t] \in {"waiting", "woken", "cancelled",
                                         "wokenCancelled"}},
    held <- Holding

\* It implements the abstract one, with its liveness: a permit that is free
\* and wanted is taken, in spite of barging and cancellation.
ImplementsPool == Pool!PoolSpec

\* The part of it that every single step must keep.
PoolSafety == Pool!PoolInit /\ [][Pool!PoolNext]_Pool!poolVars
=============================================================================
