----------------------------- MODULE TaskMapping -----------------------------
(***************************************************************************)
(* TaskMapping of a_sync/task.py: a dict from keys to tasks, filled by a   *)
(* loader task that starts one task per key, and iterated meanwhile.       *)
(*                                                                         *)
(* Everything runs on one event loop: an action is what one of its tasks   *)
(* does between two awaits.  An iteration has an await at every yield, so  *)
(* that the loader, the tasks of the keys, other iterations and the user   *)
(* of the mapping act between two of its results.                          *)
(*                                                                         *)
(* The iterations: __aiter__ ("aiter", under all, any, max, min and sum),  *)
(* keys(), gather(), and map() of iterables, each with pop or without.     *)
(* The user asks for keys and removes them at any time; a key that was     *)
(* removed, or that the loader meets again, gets another task.             *)
(* Bounds: a consumer iterates once, a key comes once from the iterables,  *)
(* and the user starts only keys of Asked that have had few tasks, and     *)
(* removes no others.                                                      *)
(***************************************************************************)
EXTENDS Integers, Sequences

CONSTANTS
    Keys,        \* what the iterables yield, each once
    MayFail,     \* those whose function may raise
    Asked,       \* those the user asks for and removes
    Consumers,   \* the tasks that iterate
    Uses,        \* what they do: functions from Consumers to [op, pop]
    Starts       \* for each of Uses, bounds how many tasks of a key the user starts

ASSUME MayFailAssumption == MayFail \subseteq Keys
ASSUME AskedAssumption == Asked \subseteq Keys /\ Starts \in [Uses -> Nat]
ASSUME UsesAssumption ==
    Uses \subseteq [Consumers -> [op : {"aiter", "keys", "gather", "map"}, pop : BOOLEAN]]

VARIABLES
    use,         \* what each consumer does
    loader,      \* _init_loader; "none" when there were no iterables
    coming,      \* keys the iterables have yet to yield
    queued,      \* the init loader's queue has new keys
    mapping,     \* the dict: which of its tasks a key has there, 0 when it is absent
    task,        \* the tasks that each key got
    isSet,       \* map()'s use of _next: a task has finished
    pc, todo,    \* where each iteration is, and the entries it still yields in its loop
    got,         \* how often it yielded each key
    destroyed,   \* _destroyed
    taken,       \* for each iteration, the keys others have removed from the dict
    early        \* a task was cancelled before its first step

vars == <<use, loader, coming, queued, mapping, task, isSet, pc, todo, got, destroyed,
          taken, early>>
iteration == <<use, pc, todo, got, destroyed>>

TaskStates == {"created", "runs", "cancelling", "done", "failed", "cancelled"}

TypeOK ==
    /\ use \in Uses
    /\ loader \in {"none", "runs", "done", "failed", "cancelled"}
    /\ coming \subseteq Keys
    /\ task \in [Keys -> Seq(TaskStates)]
    /\ mapping \in [Keys -> Nat] /\ \A k \in Keys : mapping[k] <= Len(task[k])
    /\ pc \in [Consumers -> {"idle", "begins", "waitsKey", "hasKey", "waitsNext", "woken",
                             "yields", "maps", "completes", "drains", "ended", "raised"}]
    /\ todo \in [Consumers -> [Keys -> Nat]]
    /\ \A c \in Consumers, k \in Keys : todo[c][k] <= Len(task[k])
    /\ got \in [Consumers -> [Keys -> Nat]]
    /\ taken \in [Consumers -> SUBSET Keys]
    /\ {isSet, queued, destroyed, early} \subseteq BOOLEAN

Nothing == [k \in Keys |-> 0]

\* With iterables the loader starts at once; without, map() may bring its own.
Init ==
    /\ use \in Uses
    /\ loader \in {"none", "runs"}
    /\ coming = Keys
    /\ queued = FALSE /\ mapping = Nothing
    /\ taken = [c \in Consumers |-> {}]
    /\ task = [k \in Keys |-> <<>>]
    /\ isSet = FALSE /\ destroyed = FALSE /\ early = FALSE
    /\ pc = [c \in Consumers |-> "idle"]
    /\ todo = [c \in Consumers |-> Nothing]
    /\ got = [c \in Consumers |-> Nothing]

Finished == {"done", "failed", "cancelled"}

\* The keys of the dict; those whose task there is done.
Present == {k \in Keys : mapping[k] > 0}
Done(k) == k \in Present /\ task[k][mapping[k]] \in Finished

Yielded(c) == {k \in Keys : got[c][k] > 0}
Todo(c) == {k \in Keys : todo[c][k] > 0}
Op(c) == use[c].op
Pops(c) == use[c].pop /\ Op(c) # "gather"

\* The entries of the dict with these keys.
Entries(ks) == [k \in Keys |-> IF k \in ks THEN mapping[k] ELSE 0]

-----------------------------------------------------------------------------
\* __start_task: the key has a new task, whatever it had before.
Start(k) ==
    /\ task' = [task EXCEPT ![k] = Append(@, "created")]
    /\ mapping' = [mapping EXCEPT ![k] = Len(task[k]) + 1]

\* The loader yields from the iterables, starts a task for each key, and puts
\* the key in its queue.
Load(k) ==
    /\ loader = "runs" /\ k \in coming
    /\ coming' = coming \ {k}
    /\ Start(k)
    /\ queued' = TRUE
    /\ UNCHANGED <<iteration, loader, isSet, taken, early>>

\* The iterables end, or one of them raises.
LoaderEnds ==
    /\ loader = "runs"
    /\ \/ coming = {} /\ loader' = "done"
       \/ loader' = "failed"
    /\ UNCHANGED <<iteration, coming, queued, mapping, task, isSet, taken, early>>

\* The user asks for a key that the dict does not have.
GetItem(k) ==
    /\ k \in Asked \ Present /\ Len(task[k]) < Starts[use]
    /\ Start(k)
    /\ UNCHANGED <<iteration, loader, coming, queued, isSet, taken, early>>

TaskStarts(k, n) ==
    /\ task[k][n] = "created"
    /\ task' = [task EXCEPT ![k][n] = "runs"]
    /\ UNCHANGED <<iteration, loader, coming, queued, mapping, isSet, taken, early>>

\* _next.set() wakes the consumers that wait, and _next.clear() follows at once.
\* (and a mutant: a consumer is not woken when the function raises)
Woken_OnResult(outcome) ==
    IF outcome = "done" THEN {c \in Consumers : pc[c] = "waitsNext"} ELSE {}
Woken(outcome) == {c \in Consumers : pc[c] = "waitsNext"}

\* The wrapped function returns, raises or is cancelled, whether its key still has
\* it or not; the "finally" of _wrapped_set_next pulses.  Without a loader the done
\* callback sets _next, if it was map() that met the task.
TaskEnds(k, n, outcome) ==
    /\ task[k][n] \in {"runs", "cancelling"}
    /\ (task[k][n] = "cancelling") <=> (outcome = "cancelled")
    /\ outcome = "failed" => k \in MayFail
    /\ task' = [task EXCEPT ![k][n] = outcome]
    /\ pc' = [c \in Consumers |-> IF c \in Woken(outcome) THEN "woken" ELSE pc[c]]
    /\ isSet' \in IF loader = "none" /\ k \notin coming THEN {isSet, TRUE} ELSE {isSet}
    /\ UNCHANGED <<use, todo, got, destroyed, loader, coming, queued, mapping, taken, early>>

\* Keys leave the dict, taken out by one of the consumers in "by" or by the user;
\* some of their tasks are cancelled.  One that has not started never runs, and
\* never pulses.
Remove(ks, cancelled, by) ==
    /\ mapping' = [k \in Keys |-> IF k \in ks THEN 0 ELSE mapping[k]]
    /\ taken' = [c \in Consumers |-> IF c \in by THEN taken[c] ELSE taken[c] \cup ks]
    /\ early' = (early \/ \E k \in cancelled : task[k][mapping[k]] = "created")
    /\ task' = [k \in Keys |->
                  IF k \notin cancelled \/ Done(k) THEN task[k]
                  ELSE [task[k] EXCEPT ![mapping[k]] =
                          IF @ = "created" THEN "cancelled" ELSE "cancelling"]]

\* The user deletes a key, which cancels its task, or pops it.
RemoveItem(k, cancel) ==
    /\ k \in Asked \cap Present
    /\ Remove({k}, IF cancel THEN {k} ELSE {}, {})
    /\ UNCHANGED <<iteration, loader, coming, queued, isSet>>

-----------------------------------------------------------------------------
\* An iteration ends or raises.  With pop its "finally" clears the mapping, that
\* of keys() only at its normal end: the loader and the tasks that are left are
\* cancelled, but for those of "popped", which it takes out at this step.
Clears(c, how) == Pops(c) /\ (Op(c) = "keys" => how = "ended")

Ends(c, how, popped) ==
    /\ pc' = [pc EXCEPT ![c] = how]
    /\ todo' = [todo EXCEPT ![c] = Nothing]
    /\ IF Clears(c, how)
       THEN /\ Remove(Present, Present \ popped, {c})
            /\ loader' = IF loader = "runs" THEN "cancelled" ELSE loader
       ELSE UNCHANGED <<loader, mapping, task, taken, early>>
    /\ isSet' = (isSet /\ pc[c] \notin {"maps", "completes"})
    /\ UNCHANGED <<use, got, destroyed, coming, queued>>

\* An iteration begins.  A popping one is refused after another one; all() and
\* any(), which iterate by __aiter__, clear the mapping nevertheless.
Begin(c) ==
    /\ pc[c] = "idle" /\ (Op(c) = "map" => loader = "none")
    /\ \/ /\ Pops(c) => ~destroyed
          /\ pc' = [pc EXCEPT ![c] = "begins"]
          /\ destroyed' = (destroyed \/ Pops(c))
          /\ UNCHANGED <<use, todo, got, loader, coming, queued, mapping, task, isSet,
                         taken, early>>
       \/ /\ Pops(c) /\ destroyed
          /\ pc' = [pc EXCEPT ![c] = "raised"]
          /\ UNCHANGED <<use, todo, got, destroyed, loader, coming, queued, mapping, task,
                         isSet, taken, early>>
       \/ Op(c) = "aiter" /\ use[c].pop /\ destroyed /\ Ends(c, "raised", {})

Continues(c, where, entries) ==
    /\ pc' = [pc EXCEPT ![c] = where]
    /\ todo' = [todo EXCEPT ![c] = entries]
    /\ UNCHANGED <<use, got, destroyed, loader, coming, mapping, task, taken, early>>

\* get_next took the new keys out of the queue.
GetNext(c) ==
    /\ pc[c] = "waitsKey" /\ queued
    /\ queued' = FALSE
    /\ Continues(c, "hasKey", Nothing)
    /\ UNCHANGED isSet

\* (and a mutant: what was yielded is not remembered)
Unyielded_All(c) == Present
Unyielded(c) == Present \ Yielded(c)

\* What an iteration yields when it looks: keys() does not wait for results.
Ready(c) == IF Op(c) = "keys" THEN Unyielded(c) ELSE {k \in Unyielded(c) : Done(k)}

\* The points at which it looks: a new key, the end of the loader or the end of
\* a task has woken it, or it has yielded what it found.
Looks(c) ==
    /\ Op(c) \in {"aiter", "keys"}
    /\ \/ pc[c] = "woken"
       \/ pc[c] = "hasKey" /\ loader \notin {"failed", "cancelled"}
       \/ pc[c] = "waitsKey" /\ loader = "done"
       \/ Op(c) = "aiter" /\ pc[c] = "yields" /\ Todo(c) = {}
       \/ Op(c) = "keys" /\ pc[c] = "begins"

\* The head of its loop "while not loader.done()".
AtTop(c) ==
    \/ pc[c] = "begins" /\ Op(c) = "aiter"
    \/ Looks(c) /\ Unyielded(c) = {}
    \/ Op(c) = "keys" /\ pc[c] = "yields" /\ Todo(c) = {}
    \/ Op(c) = "gather" /\ pc[c] = "begins" /\ loader # "runs"

YieldReady(c) ==
    /\ Looks(c) /\ Ready(c) # {}
    /\ Continues(c, "yields", Entries(Ready(c)))
    /\ UNCHANGED <<queued, isSet>>

WaitNext(c) ==
    /\ Looks(c) /\ Unyielded(c) # {} /\ Ready(c) = {}
    /\ Continues(c, "waitsNext", Nothing)
    /\ UNCHANGED <<queued, isSet>>

WaitForNextKey(c) ==
    /\ AtTop(c) /\ loader = "runs"
    /\ Continues(c, "waitsKey", Nothing)
    /\ UNCHANGED <<queued, isSet>>

\* What is left when the loader is done.  keys() with pop does not check what it
\* has yielded.
Left(c) == IF Op(c) = "keys" /\ use[c].pop THEN Present ELSE Unyielded(c)

\* (and a mutant: nothing is ready, which is not enough)
AllYielded_Ready(c) == Ready(c) = {}
AllYielded(c) == Left(c) = {}

\* The loader is done: what is left is yielded as it completes.
Drain(c) ==
    /\ AtTop(c) /\ loader \in {"none", "done"} /\ Left(c) # {}
    /\ ~(Op(c) = "keys" /\ loader = "none")
    /\ Continues(c, "drains", Entries(Left(c)))
    /\ UNCHANGED <<queued, isSet>>

\* Nothing is left.  Without a loader, an empty mapping is an error.
NothingLeft(c) ==
    \/ /\ AtTop(c) /\ loader \in {"none", "done"}
       /\ AllYielded(c) \/ (Op(c) = "keys" /\ loader = "none")
       /\ Ends(c, IF Present = {} /\ Op(c) # "keys" /\ (loader = "none" \/ Op(c) = "gather")
                  THEN "raised" ELSE "ended", {})
    \/ pc[c] = "drains" /\ Todo(c) = {} /\ Ends(c, "ended", {})

\* The loader failed: its exception ends the iteration.
LoaderFailed(c) ==
    /\ AtTop(c) \/ pc[c] \in {"waitsKey", "hasKey"}
    /\ loader \in {"failed", "cancelled"}
    /\ Ends(c, "raised", {})

-----------------------------------------------------------------------------
\* map(): each key of its iterables is started, unless the user has, and when a
\* task has finished meanwhile the completed ones are yielded first.
MapBegin(c) ==
    /\ Op(c) = "map" /\ pc[c] = "begins"
    /\ \/ Present # {} /\ Ends(c, "raised", {})
       \/ Present = {} /\ Continues(c, "maps", Nothing) /\ UNCHANGED <<queued, isSet>>

MapKey(c, k) ==
    /\ pc[c] = "maps" /\ k \in coming
    /\ coming' = coming \ {k}
    /\ IF k \in Present THEN UNCHANGED <<mapping, task>> ELSE Start(k)
    /\ isSet' \in {isSet, isSet \/ Done(k)}
    /\ IF isSet
       THEN /\ pc' = [pc EXCEPT ![c] = "completes"]
            /\ todo' = [todo EXCEPT ![c] = Entries({i \in Keys : Done(i)})]
       ELSE UNCHANGED <<pc, todo>>
    /\ UNCHANGED <<use, got, destroyed, loader, queued, taken, early>>

MapGoesOn(c) ==
    /\ pc[c] = "completes" /\ Todo(c) = {}
    /\ isSet' = FALSE
    /\ Continues(c, "maps", Nothing)
    /\ UNCHANGED queued

MapEnds(c) ==
    /\ pc[c] = "maps" /\ coming = {}
    /\ isSet' = FALSE
    /\ Continues(c, "drains", Entries(Present))
    /\ UNCHANGED queued

-----------------------------------------------------------------------------
\* The next key of a loop over a snapshot of the dict; as_completed waits for the
\* task it had there.
Next1(c, k) ==
    /\ pc[c] \in {"yields", "completes", "drains"} /\ k \in Todo(c)
    /\ pc[c] = "drains" /\ Op(c) # "keys" => task[k][todo[c][k]] \in Finished

\* Its task has a result, that of the snapshot or the one it has now, and the key
\* is there to be popped.
Good(c, k) ==
    /\ Pops(c) => k \in Present
    /\ Op(c) # "keys" /\ pc[c] = "drains" => task[k][todo[c][k]] = "done"
    /\ Op(c) # "keys" /\ pc[c] # "drains" => k \in Present /\ task[k][mapping[k]] = "done"

Yield(c, k) ==
    /\ Next1(c, k) /\ Good(c, k)
    /\ got' = [got EXCEPT ![c][k] = @ + 1]
    /\ todo' = [todo EXCEPT ![c][k] = 0]
    /\ IF Pops(c) THEN Remove({k}, {}, {c})
       ELSE UNCHANGED <<mapping, task, taken, early>>
    /\ UNCHANGED <<use, pc, destroyed, loader, coming, queued, isSet>>

\* It is gone, or its task failed or is a new one: the iteration raises.  self[key]
\* of a key that is gone starts a task, which has no result yet; pop(key).result()
\* has popped the key when it raises.
Raise(c, k) ==
    /\ Next1(c, k) /\ ~Good(c, k)
    /\ IF k \notin Present /\ Op(c) = "aiter" /\ pc[c] = "yields" /\ ~use[c].pop
       THEN /\ Start(k)
            /\ pc' = [pc EXCEPT ![c] = "raised"]
            /\ todo' = [todo EXCEPT ![c] = Nothing]
            /\ UNCHANGED <<use, got, destroyed, loader, coming, queued, isSet, taken, early>>
       ELSE Ends(c, "raised", IF pc[c] = "drains" THEN {} ELSE {k})

\* The consumer stops at a result: any() and all() have seen enough.  The dict that
\* changes under the loop of yield_completed(pop=False) raises there, too.
StopEarly(c) ==
    /\ pc[c] \in {"yields", "completes", "drains"} /\ Yielded(c) # {}
    /\ Op(c) # "gather"
    /\ Ends(c, "raised", {})

Iterate(c) ==
    \/ GetNext(c) \/ YieldReady(c) \/ WaitNext(c) \/ WaitForNextKey(c) \/ Drain(c)
    \/ NothingLeft(c) \/ LoaderFailed(c)
    \/ MapBegin(c) \/ MapGoesOn(c) \/ MapEnds(c)
    \/ \E k \in Keys : MapKey(c, k) \/ Yield(c, k) \/ Raise(c, k)

RunTask(k) ==
    \E n \in DOMAIN task[k] :
        TaskStarts(k, n) \/ \E o \in Finished : TaskEnds(k, n, o)

Next ==
    \/ \E k \in Keys :
         Load(k) \/ GetItem(k) \/ RunTask(k) \/ \E cancel \in BOOLEAN : RemoveItem(k, cancel)
    \/ LoaderEnds
    \/ \E c \in Consumers : Begin(c) \/ Iterate(c) \/ StopEarly(c)

\* The loop runs its tasks, the function of each key returns, and the iterables
\* end.  Nobody has to begin, ask, remove or stop.
Fairness ==
    /\ \A k \in Keys : WF_vars(RunTask(k)) /\ WF_vars(Load(k))
    /\ WF_vars(LoaderEnds)
    /\ \A c \in Consumers : WF_vars(Iterate(c))

Spec == Init /\ [][Next]_vars /\ Fairness

-----------------------------------------------------------------------------
\* These remember what they have yielded, or look at the dict once.
Remembers(c) == Op(c) \in {"aiter", "gather"} \/ (Op(c) = "keys" /\ ~use[c].pop)

\* No iteration that remembers yields a key twice, whatever others pop, remove and
\* start again in between.  keys(pop=True) and map(pop=True) have only the dict to
\* rely on ("don't need to check yielded since we've been popping them as we go",
\* task.py:850): they yield a key again only for another task of it.
YieldsOnce ==
    \A c \in Consumers, k \in Keys :
        /\ Remembers(c) => got[c][k] <= 1
        /\ Pops(c) => got[c][k] <= Len(task[k])

\* keys() yields no key twice, popping or not (task.py:850 sees no need to check).
\* The code does not keep this: the key may have been started again.
KeysYieldOnce == \A c \in Consumers, k \in Keys : Op(c) = "keys" => got[c][k] <= 1

\* An iteration that came to its end without an exception has yielded every key of
\* the iterables, whenever it came, apart from those that somebody else has taken
\* out: the clearing at its end, too, loses none.
EndsWithEverything ==
    \A c \in Consumers :
        (pc[c] = "ended" /\ (loader = "done" \/ Op(c) = "map"))
            => \A k \in Keys : got[c][k] > 0 \/ k \in taken[c]

\* An iteration ends, although a consumer that waits for _next is only woken by
\* a pulse, and keys arrive at any time: unless somebody cancelled a task before
\* its first step, which never pulses (task.py:96 promises the event "indicates
\* the next result is ready").
IterationEnds ==
    \A c \in Consumers :
        (pc[c] = "begins") ~> (pc[c] \in {"ended", "raised"} \/ early)
=============================================================================
