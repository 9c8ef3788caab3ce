----------------------------- MODULE MultiQueue -----------------------------
(***************************************************************************)
(* Queue of a_sync/primitives/queue.py: asyncio.Queue, external here and   *)
(* unbounded, with operations that take several items at once.  Between    *)
(* two awaits an operation is atomic.  Items are numbered as they are put; *)
(* whoever received one calls task_done() for it once.                     *)
(***************************************************************************)
EXTENDS Integers, Sequences, FiniteSets

CONSTANTS
    Consumers,   \* tasks that take items
    UseChoices,  \* the sets of operations they may use
    Sizes,       \* the values of i they pass
    MaxItems,    \* bound: how many items are put
    MaxRecount   \* bound: unfinished does not grow beyond it by putting back

Operations == {"get_all", "get_all_nowait",
               "get_multi", "get_multi_less",       \* can_return_less: False, True
               "get_multi_nowait", "get_multi_nowait_less"}

ASSUME UsesAssumption == UseChoices \subseteq SUBSET Operations
ASSUME SizesAssumption == Sizes \subseteq Nat \ {0, 1}   \* _validate_args
ASSUME BoundsAssumption == MaxItems \in Nat /\ MaxRecount \in Nat

VARIABLES
    uses,        \* the operations that are used
    queue,       \* _queue
    puts,        \* how many items were put by producers
    unfinished,  \* _unfinished_tasks
    at,          \* the operation in which each consumer awaits get(), or "idle"
    want,        \* its i
    items,       \* its list of items
    bound,       \* whether extend is still the method of that list
    result,      \* what last returned to each: the operation, its i, the list
    delivered,   \* items that were returned to somebody
    acked        \* those that task_done() was called for

vars == <<uses, queue, puts, unfinished, at, want, items, bound, result, delivered, acked>>

Items == 1..MaxItems

TypeOK ==
    /\ uses \in SUBSET Operations
    /\ queue \in Seq(Items)
    /\ puts \in 0..MaxItems
    /\ unfinished \in Nat
    /\ at \in [Consumers -> {"idle", "get_all", "get_multi"}]
    /\ want \in [Consumers -> Sizes \cup {0}]
    /\ items \in [Consumers -> Seq(Items)]
    /\ bound \in [Consumers -> BOOLEAN]
    /\ result \in [Consumers -> [op : Operations \cup {"none"},
                              i : Sizes \cup {0}, list : Seq(Items)]]
    /\ delivered \subseteq Items /\ acked \subseteq Items

Init ==
    /\ uses \in UseChoices
    /\ queue = <<>> /\ puts = 0 /\ unfinished = 0
    /\ at = [c \in Consumers |-> "idle"]
    /\ want = [c \in Consumers |-> 0]
    /\ items = [c \in Consumers |-> <<>>]
    /\ bound = [c \in Consumers |-> TRUE]
    /\ result = [c \in Consumers |-> [op |-> "none", i |-> 0, list |-> <<>>]]
    /\ delivered = {} /\ acked = {}

Elements(s) == {s[k] : k \in DOMAIN s}

First(n) == SubSeq(queue, 1, n)

\* A mutant of After: one item too many goes.
After_OneLost(n) == SubSeq(queue, n + 2, Len(queue))

After(n) == SubSeq(queue, n + 1, Len(queue))

-----------------------------------------------------------------------------
\* How an operation of c ends: it returns s, or it raises, or it suspends in
\* get() with the list s.
Returns(c, op, i, s) ==
    /\ result' = [result EXCEPT ![c] = [op |-> op, i |-> i, list |-> s]]
    /\ delivered' = delivered \cup Elements(s)
    /\ at' = [at EXCEPT ![c] = "idle"]
    /\ items' = [items EXCEPT ![c] = <<>>]
    /\ bound' = [bound EXCEPT ![c] = TRUE]
    /\ want' = [want EXCEPT ![c] = 0]

Raises(c) ==
    /\ at' = [at EXCEPT ![c] = "idle"]
    /\ items' = [items EXCEPT ![c] = <<>>]
    /\ bound' = [bound EXCEPT ![c] = TRUE]
    /\ want' = [want EXCEPT ![c] = 0]
    /\ UNCHANGED <<result, delivered>>

Suspends(c, op, i, s, b) ==
    /\ at' = [at EXCEPT ![c] = op]
    /\ want' = [want EXCEPT ![c] = i]
    /\ items' = [items EXCEPT ![c] = s]
    /\ bound' = [bound EXCEPT ![c] = b]
    /\ UNCHANGED <<result, delivered>>

\* A producer puts the next item.
Put ==
    /\ puts < MaxItems
    /\ puts' = puts + 1
    /\ queue' = Append(queue, puts + 1)
    /\ unfinished' = unfinished + 1
    /\ UNCHANGED <<uses, at, want, items, bound, result, delivered, acked>>

\* Whoever received an item calls task_done() for it.
TaskDone(x) ==
    /\ x \in delivered \ acked
    /\ acked' = acked \cup {x}
    /\ unfinished' = unfinished - 1
    /\ UNCHANGED <<uses, queue, puts, at, want, items, bound, result, delivered>>

-----------------------------------------------------------------------------
Calls(c, op) == at[c] = "idle" /\ op \in uses

\* A mutant of GetAllNowait: it resets the count with the queue.
GetAllNowait_Resets(c) ==
    /\ Calls(c, "get_all_nowait")
    /\ queue # <<>>
    /\ queue' = <<>>
    /\ unfinished' = 0
    /\ Returns(c, "get_all_nowait", 0, queue)
    /\ UNCHANGED <<uses, puts, acked>>

\* get_all_nowait(); on an empty queue it raises, and nothing changes.
GetAllNowait(c) ==
    /\ Calls(c, "get_all_nowait")
    /\ queue # <<>>
    /\ queue' = <<>>
    /\ Returns(c, "get_all_nowait", 0, queue)
    /\ UNCHANGED <<uses, puts, unfinished, acked>>

\* get_all(), which waits for one item if there is none.
GetAll(c) ==
    /\ Calls(c, "get_all")
    /\ \/ queue # <<>> /\ queue' = <<>> /\ Returns(c, "get_all", 0, queue)
       \/ queue = <<>> /\ UNCHANGED queue /\ Suspends(c, "get_all", 0, <<>>, TRUE)
    /\ UNCHANGED <<uses, puts, unfinished, acked>>

\* A mutant of GetMultiNowait: it puts back the youngest first.
GetMultiNowait_Reversed(c, i, op) ==
    /\ Calls(c, op)
    /\ \/ /\ Len(queue) >= i
          /\ queue' = After(i)
          /\ Returns(c, op, i, First(i))
          /\ UNCHANGED unfinished
       \/ /\ Len(queue) < i
          /\ op = "get_multi_nowait"
          /\ unfinished + Len(queue) <= MaxRecount
          /\ unfinished' = unfinished + Len(queue)
          /\ queue' = [k \in DOMAIN queue |-> queue[Len(queue) + 1 - k]]
          /\ Raises(c)
    /\ UNCHANGED <<uses, puts, acked>>

\* get_multi_nowait(i, can_return_less).  Too few items are put back: the queue
\* is as before, but put_nowait counts them as unfinished once more.
GetMultiNowait(c, i, op) ==
    /\ Calls(c, op)
    /\ \/ /\ Len(queue) >= i
          /\ queue' = After(i)
          /\ Returns(c, op, i, First(i))
          /\ UNCHANGED unfinished
       \/ /\ Len(queue) \in 1..(i - 1)
          /\ op = "get_multi_nowait_less"
          /\ queue' = <<>>
          /\ Returns(c, op, i, queue)
          /\ UNCHANGED unfinished
       \/ /\ Len(queue) < i
          /\ op = "get_multi_nowait"
          /\ unfinished + Len(queue) <= MaxRecount
          /\ unfinished' = unfinished + Len(queue)
          /\ Raises(c)
          /\ UNCHANGED queue
    /\ UNCHANGED <<uses, puts, acked>>

\* get_multi(i, can_return_less=True): its loop does not run.
GetMultiLess(c, i) ==
    /\ Calls(c, "get_multi_less")
    /\ Returns(c, "get_multi_less", i, <<>>)
    /\ UNCHANGED <<uses, queue, puts, unfinished, acked>>

\* The loop of get_multi from one await to the next, with the list s of the i
\* wanted items and the queue q.  It asks get_multi_nowait for the missing ones,
\* which raises ValueError if that is one.  Once s is not the list that extend
\* belongs to, what it takes goes to the old list, until the queue is empty.
Loop(c, i, s, b, q) ==
    LET missing == i - Len(s)
        taken == SubSeq(q, 1, missing)
        left == SubSeq(q, missing + 1, Len(q))
        some == missing > 1 /\ q # <<>>
    IN
    \/ missing = 1 /\ queue' = q /\ Raises(c)
    \/ missing > 1 /\ q = <<>> /\ queue' = q /\ Suspends(c, "get_multi", i, s, b)
    \/ some /\ b /\ Len(q) >= missing /\ queue' = left /\ Returns(c, "get_multi", i, s \o taken)
    \/ some /\ b /\ Len(q) = missing - 1 /\ queue' = <<>> /\ Raises(c)
    \/ some /\ b /\ Len(q) < missing - 1 /\ queue' = <<>>
         /\ Suspends(c, "get_multi", i, s \o q, b)
    \/ some /\ ~b /\ queue' = <<>> /\ Suspends(c, "get_multi", i, s, b)

GetMulti(c, i) ==
    /\ Calls(c, "get_multi")
    /\ Loop(c, i, <<>>, TRUE, queue)
    /\ UNCHANGED <<uses, puts, unfinished, acked>>

\* A suspended get() returns the first item.  get_multi makes it a new list.
Resume(c) ==
    /\ queue # <<>>
    /\ \/ /\ at[c] = "get_all"
          /\ queue' = After(1)
          /\ Returns(c, "get_all", 0, First(1))
       \/ /\ at[c] = "get_multi"
          /\ Loop(c, want[c], First(1), FALSE, After(1))
    /\ UNCHANGED <<uses, puts, unfinished, acked>>

\* A consumer suspended in get() is cancelled.
Cancel(c) ==
    /\ at[c] # "idle"
    /\ Raises(c)
    /\ UNCHANGED <<uses, queue, puts, unfinished, acked>>

Next ==
    \/ Put
    \/ \E x \in Items : TaskDone(x)
    \/ \E c \in Consumers :
         \/ GetAllNowait(c)
         \/ GetAll(c)
         \/ \E i \in Sizes :
              \/ \E op \in {"get_multi_nowait", "get_multi_nowait_less"} :
                   GetMultiNowait(c, i, op)
              \/ GetMultiLess(c, i)
              \/ GetMulti(c, i)
         \/ Resume(c)
         \/ Cancel(c)

\* A suspended consumer runs when there is an item for it.
Fairness == \A c \in Consumers : WF_vars(Resume(c))

Spec == Init /\ [][Next]_vars /\ Fairness

-----------------------------------------------------------------------------
Held == UNION {Elements(items[c]) : c \in Consumers}
Queued == Elements(queue)

\* First in, first out, across operations that take several, give up, or put
\* back: whatever was taken is older than everything that is queued.
TakenAreOlder ==
    /\ \A j, k \in DOMAIN queue : j < k => queue[j] < queue[k]
    /\ \A x \in delivered \cup Held, y \in Queued : x < y

\* Without can_return_less an operation returns exactly as many items as asked,
\* and what waits for an item, or raises without one, never returns empty.
ResultsAreWhole ==
    \A c \in Consumers :
        /\ result[c].op \in {"get_multi", "get_multi_nowait"} =>
              Len(result[c].list) = result[c].i
        /\ result[c].op \in {"get_all", "get_all_nowait", "get_multi_nowait_less"} =>
              result[c].list # <<>>

\* Every item that was put is in the queue, or on its way, or was returned.
AllAccountedFor == 1..puts \subseteq Queued \cup Held \cup delivered

\* Nothing is lost by the other operations.
NothingLost == "get_multi" \notin uses => AllAccountedFor

\* "Asynchronously retrieves up to `i` items from the queue." (queue.py:124):
\* get_multi gives its caller what it takes.
MultiLosesNothing == AllAccountedFor

\* What join() waits for is one task_done() for each item that was put, unless
\* get_multi_nowait puts items back.
UnfinishedIsExact ==
    "get_multi_nowait" \notin uses => unfinished = puts - Cardinality(acked)
=============================================================================
