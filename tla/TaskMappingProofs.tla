------------------------- MODULE TaskMappingProofs -------------------------
(***************************************************************************)
(* The iterations of a TaskMapping that remember their keys yield none     *)
(* twice, those that pop yield a key at most once for each of its tasks,   *)
(* and none misses a key, for any number of keys, tasks and iterations of  *)
(* any kind that run at once.                                              *)
(*                                                                         *)
(* In the second part (Counter, with variables of its own): CounterLock,   *)
(* where tasks wait for a value as iterations do for a key, keeps its heap *)
(* and its dict equal and leaves no waiter behind, for any tasks, loops    *)
(* and values.                                                             *)
(***************************************************************************)
EXTENDS TaskMapping, SequenceTheorems, TLAPS

\* The loader is done when the iterables are.
Loaded == loader = "done" => coming = {}

\* Where an iteration may be: map() needs a mapping without a loader, and nothing
\* drains while a loader runs.
Whereabouts(c) ==
    /\ pc[c] \in {"maps", "completes"} => Op(c) = "map"
    /\ Op(c) = "map" /\ pc[c] # "idle" => loader = "none"
    /\ pc[c] \in {"drains", "ended"} => loader \in {"none", "done"}

\* While it goes on, each key that has come is in the dict, or others have taken it
\* out, or it has yielded it itself.
Kept(c) ==
    pc[c] \notin {"ended", "raised"} => Keys \ coming \subseteq Present \cup taken[c] \cup Yielded(c)

\* One that remembers is about to yield keys that it has not yielded.
Fresh(c) ==
    Remembers(c) =>
        /\ Todo(c) \cap Yielded(c) = {}
        /\ \A k \in Keys : got[c][k] <= 1

\* One that pops has taken an entry out of the dict for each key it yielded, and a
\* key that is there again has another task.
Counted(c) ==
    Pops(c) => \A k \in Keys : got[c][k] + (IF k \in Present THEN 1 ELSE 0) <= Len(task[k])

\* While it drains, and when it has ended, all keys are accounted for.
Complete(c) ==
    pc[c] \in {"drains", "ended"} /\ (loader = "done" \/ Op(c) = "map") =>
        Keys \subseteq Yielded(c) \cup taken[c] \cup (IF pc[c] = "drains" THEN Todo(c) ELSE {})

CInv(c) == Whereabouts(c) /\ Kept(c) /\ Fresh(c) /\ Counted(c) /\ Complete(c)

IInv == TypeOK /\ Loaded /\ \A c \in Consumers : CInv(c)

Places == {"idle", "begins", "waitsKey", "hasKey", "waitsNext", "woken",
           "yields", "maps", "completes", "drains", "ended", "raised"}

-----------------------------------------------------------------------------
LEMMA InitIInv == Init => IInv
<1> SUFFICES ASSUME Init PROVE IInv
  OBVIOUS
<1>1. TypeOK
  <2>1. task = [k \in Keys |-> <<>>] /\ <<>> \in Seq(TaskStates) /\ Len(<<>>) = 0
    BY DEF Init
  <2>2. Nothing \in [Keys -> Nat] /\ \A k \in Keys : Nothing[k] = 0
    BY DEF Nothing
  <2>3. task \in [Keys -> Seq(TaskStates)]
    BY <2>1
  <2>4. mapping = Nothing /\ \A k \in Keys : task[k] = <<>> /\ mapping[k] = 0
    BY <2>1, <2>2 DEF Init
  <2>5. \A c \in Consumers, k \in Keys : todo[c][k] = 0
    BY <2>2 DEF Init
  <2>6. /\ todo \in [Consumers -> [Keys -> Nat]] /\ got \in [Consumers -> [Keys -> Nat]]
        /\ pc \in [Consumers -> Places] /\ mapping \in [Keys -> Nat]
        /\ taken \in [Consumers -> SUBSET Keys]
    BY <2>2 DEF Init, Places
  <2> QED
    <3>1. \A k \in Keys : Len(task[k]) = 0
      BY <2>1, <2>4
    <3>2. ASSUME NEW k \in Keys PROVE mapping[k] <= Len(task[k])
      <4>1. mapping[k] = 0 /\ Len(task[k]) = 0
        BY <2>4, <3>1
      <4> QED
        BY <4>1
    <3>3. ASSUME NEW c \in Consumers, NEW k \in Keys PROVE todo[c][k] <= Len(task[k])
      <4>1. todo[c][k] = 0 /\ Len(task[k]) = 0
        BY <2>5, <3>1
      <4> QED
        BY <4>1
    <3> QED
      BY <2>3, <2>6, <3>2, <3>3 DEF Init, TypeOK, Places
<1>2. Loaded
  BY DEF Init, Loaded
<1>3. ASSUME NEW c \in Consumers
      PROVE  CInv(c)
  <2>1. /\ Yielded(c) = {} /\ pc[c] = "idle" /\ Present = {} /\ coming = Keys
        /\ \A k \in Keys : got[c][k] = 0 /\ Len(task[k]) = 0
    BY DEF Init, Yielded, Present, Nothing
  <2> QED
    BY <2>1 DEF CInv, Whereabouts, Kept, Fresh, Counted, Complete
<1> QED
  BY <1>1, <1>2, <1>3 DEF IInv

\* What a step may do to what the iterations share: keys come, are started and are
\* taken out, the loader ends.  The iterations in "by" take out keys themselves.
Shared(by) ==
    /\ use' = use /\ coming' \subseteq coming /\ coming \ coming' \subseteq Present'
    /\ loader' = loader \/ (loader = "runs" /\ loader' \in {"done", "failed", "cancelled"})
    /\ \A k \in Keys : /\ Len(task[k]) \in Nat /\ Len(task'[k]) \in Nat
                       /\ Len(task[k]) <= Len(task'[k])
                       /\ k \in Present' \ Present => Len(task[k]) < Len(task'[k])
    /\ \A d \in Consumers : /\ taken[d] \subseteq taken'[d]
                            /\ d \notin by => Present \ Present' \subseteq taken'[d]

\* An iteration that does not move is not disturbed.  One that was waiting may
\* have been woken.
LEMMA OthersKeep ==
    ASSUME IInv, NEW by, Shared(by), NEW c \in Consumers, c \notin by,
           pc'[c] = pc[c] \/ (pc[c] = "waitsNext" /\ pc'[c] = "woken"),
           todo'[c] = todo[c], got'[c] = got[c]
    PROVE  CInv(c)'
<1>1. CInv(c) /\ \A k \in Keys : got[c][k] \in Nat
  BY DEF IInv, TypeOK
<1>2. /\ Yielded(c)' = Yielded(c) /\ Todo(c)' = Todo(c) /\ use'[c] = use[c] /\ Op(c)' = Op(c)
      /\ Pops(c)' = Pops(c) /\ Remembers(c)' = Remembers(c)
  BY DEF Shared, Yielded, Todo, Op, Pops, Remembers
<1>3. Whereabouts(c)'
  BY <1>1, <1>2 DEF Shared, CInv, Whereabouts
<1>4. Kept(c)'
  BY <1>1, <1>2 DEF Shared, CInv, Kept
<1>5. Fresh(c)'
  BY <1>1, <1>2 DEF Shared, CInv, Fresh
<1>6. Counted(c)'
  BY <1>1, <1>2 DEF Shared, CInv, Counted
<1>7. Complete(c)'
  <2>1. pc'[c] \in {"drains", "ended"} => pc[c] = pc'[c] /\ loader' = loader
    BY <1>1 DEF Shared, CInv, Whereabouts
  <2> QED
    BY <1>1, <1>2, <2>1 DEF Shared, CInv, Complete
<1> QED
  BY <1>3, <1>4, <1>5, <1>6, <1>7 DEF CInv

\* A step that moves no iteration.
LEMMA NobodyMoves ==
    ASSUME IInv, Shared({}), TypeOK', Loaded', UNCHANGED iteration
    PROVE  IInv'
<1>1. \A c \in Consumers : CInv(c)'
  BY OthersKeep DEF iteration
<1> QED
  BY <1>1 DEF IInv

\* A step that moves only c.
LEMMA OneMoves ==
    ASSUME IInv, NEW c \in Consumers, Shared({c}), TypeOK', Loaded', CInv(c)',
           \A d \in Consumers \ {c} : pc'[d] = pc[d] /\ todo'[d] = todo[d] /\ got'[d] = got[d]
    PROVE  IInv'
<1>1. \A d \in Consumers \ {c} : CInv(d)'
  BY OthersKeep
<1> QED
  BY <1>1 DEF IInv

\* Entries that are noted stay entries that the keys have had.
LEMMA NotedStay ==
    ASSUME TypeOK, NEW by, Shared(by), todo' = todo
    PROVE  /\ todo' \in [Consumers -> [Keys -> Nat]]
           /\ \A c \in Consumers, k \in Keys : todo'[c][k] <= Len(task'[k])
BY DEF TypeOK, Shared

-----------------------------------------------------------------------------
\* What __start_task does to the dict.
LEMMA StartFacts ==
    ASSUME TypeOK, NEW k \in Keys, Start(k)
    PROVE  /\ task' \in [Keys -> Seq(TaskStates)] /\ mapping' \in [Keys -> Nat]
           /\ Present' = Present \cup {k}
           /\ Len(task'[k]) = Len(task[k]) + 1
           /\ \A i \in Keys : /\ mapping'[i] <= Len(task'[i])
                              /\ Len(task[i]) \in Nat /\ Len(task'[i]) \in Nat
                              /\ Len(task[i]) <= Len(task'[i])
<1>1. /\ task \in [Keys -> Seq(TaskStates)] /\ mapping \in [Keys -> Nat]
      /\ \A i \in Keys : mapping[i] <= Len(task[i]) /\ Len(task[i]) \in Nat
  BY LenProperties DEF TypeOK
<1>2. Append(task[k], "created") \in Seq(TaskStates) /\ Len(Append(task[k], "created")) = Len(task[k]) + 1
  BY <1>1, AppendProperties DEF TaskStates
<1>3. /\ task' = [task EXCEPT ![k] = Append(task[k], "created")]
      /\ mapping' = [mapping EXCEPT ![k] = Len(task[k]) + 1]
  BY DEF Start
<1>4. task' \in [Keys -> Seq(TaskStates)] /\ mapping' \in [Keys -> Nat]
  BY <1>1, <1>2, <1>3
<1>5. task'[k] = Append(task[k], "created") /\ mapping'[k] = Len(task[k]) + 1
  BY <1>1, <1>3
<1>6. \A i \in Keys \ {k} : task'[i] = task[i] /\ mapping'[i] = mapping[i]
  BY <1>1, <1>3
<1>7. Present' = Present \cup {k}
  BY <1>1, <1>5, <1>6 DEF Present
<1> QED
  BY <1>1, <1>2, <1>4, <1>5, <1>6, <1>7

\* A task changes its state.
LEMMA TaskFacts ==
    ASSUME TypeOK, NEW k \in Keys, NEW n \in DOMAIN task[k], NEW s \in TaskStates,
           task' = [task EXCEPT ![k][n] = s], mapping' = mapping
    PROVE  /\ task' \in [Keys -> Seq(TaskStates)] /\ Present' = Present
           /\ \A i \in Keys : Len(task'[i]) = Len(task[i]) /\ Len(task[i]) \in Nat
<1>1. task \in [Keys -> Seq(TaskStates)] /\ \A i \in Keys : Len(task[i]) \in Nat
  BY LenProperties DEF TypeOK
<1>2. n \in 1..Len(task[k])
  BY <1>1, LenProperties
<1>3. [task[k] EXCEPT ![n] = s] \in Seq(TaskStates) /\ Len([task[k] EXCEPT ![n] = s]) = Len(task[k])
  BY <1>1, <1>2, ExceptSeq
<1>4. task' = [task EXCEPT ![k] = [task[k] EXCEPT ![n] = s]]
  OBVIOUS
<1>5. task' \in [Keys -> Seq(TaskStates)] /\ \A i \in Keys : Len(task'[i]) = Len(task[i])
  BY <1>1, <1>3, <1>4
<1> QED
  BY <1>1, <1>5 DEF Present

\* Keys leave the dict.
LEMMA RemoveFacts ==
    ASSUME TypeOK, NEW ks \in SUBSET Present, NEW cancelled \in SUBSET ks, NEW by,
           Remove(ks, cancelled, by)
    PROVE  /\ task' \in [Keys -> Seq(TaskStates)] /\ mapping' \in [Keys -> Nat]
           /\ early' \in BOOLEAN /\ Present' = Present \ ks
           /\ taken' \in [Consumers -> SUBSET Keys]
           /\ \A i \in Keys : /\ mapping'[i] <= Len(task'[i]) /\ Len(task[i]) \in Nat
                              /\ Len(task'[i]) = Len(task[i])
           /\ \A c \in Consumers : /\ taken[c] \subseteq taken'[c]
                                   /\ c \notin by => ks \subseteq taken'[c]
<1>1. /\ task \in [Keys -> Seq(TaskStates)] /\ mapping \in [Keys -> Nat] /\ early \in BOOLEAN
      /\ taken \in [Consumers -> SUBSET Keys] /\ Present \subseteq Keys
      /\ \A i \in Keys : mapping[i] <= Len(task[i]) /\ Len(task[i]) \in Nat
  BY LenProperties DEF TypeOK, Present
<1>2. early' \in BOOLEAN
  BY <1>1, Zenon DEF Remove
<1>3. /\ mapping' = [k \in Keys |-> IF k \in ks THEN 0 ELSE mapping[k]]
      /\ taken' = [c \in Consumers |-> IF c \in by THEN taken[c] ELSE taken[c] \cup ks]
  BY DEF Remove
<1>4. /\ mapping' \in [Keys -> Nat] /\ Present' = Present \ ks
      /\ \A i \in Keys : mapping'[i] <= mapping[i]
  BY <1>1, <1>3 DEF Present
<1>5. /\ taken' \in [Consumers -> SUBSET Keys]
      /\ \A c \in Consumers : taken[c] \subseteq taken'[c] /\ (c \notin by => ks \subseteq taken'[c])
  BY <1>1, <1>3
<1>6. ASSUME NEW i \in Keys
      PROVE  /\ (IF i \notin cancelled \/ Done(i) THEN task[i]
                 ELSE [task[i] EXCEPT ![mapping[i]] =
                         IF @ = "created" THEN "cancelled" ELSE "cancelling"]) \in Seq(TaskStates)
             /\ Len(IF i \notin cancelled \/ Done(i) THEN task[i]
                    ELSE [task[i] EXCEPT ![mapping[i]] =
                            IF @ = "created" THEN "cancelled" ELSE "cancelling"]) = Len(task[i])
  <2>1. CASE i \notin cancelled \/ Done(i)
    BY <1>1, <2>1
  <2>2. CASE ~(i \notin cancelled \/ Done(i))
    <3> DEFINE s == IF task[i][mapping[i]] = "created" THEN "cancelled" ELSE "cancelling"
    <3>1. mapping[i] \in 1..Len(task[i]) /\ s \in TaskStates
      BY <1>1, <2>2 DEF Present, TaskStates
    <3>2. [task[i] EXCEPT ![mapping[i]] = s] \in Seq(TaskStates)
          /\ Len([task[i] EXCEPT ![mapping[i]] = s]) = Len(task[i])
      BY <1>1, <3>1, ExceptSeq
    <3>3. [task[i] EXCEPT ![mapping[i]] = IF @ = "created" THEN "cancelled" ELSE "cancelling"]
            = [task[i] EXCEPT ![mapping[i]] = s]
      OBVIOUS
    <3> QED
      BY <2>2, <3>2, <3>3
  <2> QED
    BY <2>1, <2>2
<1>7. task' \in [Keys -> Seq(TaskStates)] /\ \A i \in Keys : Len(task'[i]) = Len(task[i])
  BY <1>6 DEF Remove
<1> QED
  BY <1>1, <1>2, <1>4, <1>5, <1>7

\* The entries of keys that are there.
LEMMA EntriesFacts ==
    ASSUME TypeOK, NEW ks \in SUBSET Present
    PROVE  /\ Entries(ks) \in [Keys -> Nat] /\ {k \in Keys : Entries(ks)[k] > 0} = ks
           /\ \A k \in Keys : Entries(ks)[k] <= Len(task[k])
<1>1. /\ mapping \in [Keys -> Nat] /\ ks \subseteq Keys /\ \A k \in ks : mapping[k] > 0
      /\ \A k \in Keys : mapping[k] <= Len(task[k]) /\ Len(task[k]) \in Nat
  BY LenProperties DEF TypeOK, Present
<1>2. /\ Entries(ks) \in [Keys -> Nat]
      /\ \A k \in Keys : Entries(ks)[k] = IF k \in ks THEN mapping[k] ELSE 0
  BY <1>1 DEF Entries
<1> QED
  BY <1>1, <1>2

LEMMA NothingFacts ==
    ASSUME TypeOK
    PROVE  /\ Nothing \in [Keys -> Nat] /\ {k \in Keys : Nothing[k] > 0} = {}
           /\ \A k \in Keys : Nothing[k] <= Len(task[k])
BY LenProperties DEF TypeOK, Nothing

-----------------------------------------------------------------------------
\* The loader, the tasks and the user of the mapping.
LEMMA LoadKeeps ==
    ASSUME IInv, NEW k \in Keys, Load(k) \/ GetItem(k)
    PROVE  IInv'
<1>1. /\ coming' = coming \ {k} \/ coming' = coming
      /\ Start(k) /\ queued' \in BOOLEAN
      /\ UNCHANGED <<iteration, loader, isSet, taken, early>>
  BY DEF Load, GetItem, IInv, TypeOK
<1>2. /\ task' \in [Keys -> Seq(TaskStates)] /\ mapping' \in [Keys -> Nat]
      /\ Present' = Present \cup {k} /\ Len(task'[k]) = Len(task[k]) + 1
      /\ \A i \in Keys : /\ mapping'[i] <= Len(task'[i])
                         /\ Len(task[i]) \in Nat /\ Len(task'[i]) \in Nat
                         /\ Len(task[i]) <= Len(task'[i])
  BY <1>1, StartFacts DEF IInv
<1>3. Loaded' /\ Shared({})
  BY <1>1, <1>2 DEF IInv, Loaded, Shared, iteration
<1>4. TypeOK'
  BY <1>1, <1>2, <1>3, NotedStay DEF IInv, TypeOK, iteration
<1> QED
  BY <1>1, <1>3, <1>4, NobodyMoves

LEMMA LoaderEndsKeeps ==
    ASSUME IInv, LoaderEnds
    PROVE  IInv'
<1>1. /\ loader = "runs" /\ ((coming = {} /\ loader' = "done") \/ loader' = "failed")
      /\ UNCHANGED <<iteration, coming, queued, mapping, task, isSet, taken, early>>
  BY DEF LoaderEnds
<1>2. TypeOK'
  BY <1>1 DEF IInv, TypeOK, iteration
<1>3. Loaded' /\ Shared({})
  BY <1>1, LenProperties DEF IInv, TypeOK, Loaded, Shared, iteration, Present
<1> QED
  BY <1>1, <1>2, <1>3, NobodyMoves

LEMMA TaskStartsKeeps ==
    ASSUME IInv, NEW k \in Keys, NEW n \in DOMAIN task[k], TaskStarts(k, n)
    PROVE  IInv'
<1>1. /\ task' = [task EXCEPT ![k][n] = "runs"] /\ "runs" \in TaskStates
      /\ UNCHANGED <<iteration, loader, coming, queued, mapping, isSet, taken, early>>
  BY DEF TaskStarts, TaskStates
<1>2. /\ task' \in [Keys -> Seq(TaskStates)] /\ Present' = Present
      /\ \A i \in Keys : Len(task'[i]) = Len(task[i]) /\ Len(task[i]) \in Nat
  BY <1>1, TaskFacts DEF IInv
<1>3. Loaded' /\ Shared({})
  BY <1>1, <1>2 DEF IInv, Loaded, Shared, iteration
<1>4. TypeOK'
  BY <1>1, <1>2 DEF IInv, TypeOK, iteration
<1> QED
  BY <1>1, <1>3, <1>4, NobodyMoves

LEMMA TaskEndsKeeps ==
    ASSUME IInv, NEW k \in Keys, NEW n \in DOMAIN task[k], NEW outcome \in Finished,
           TaskEnds(k, n, outcome)
    PROVE  IInv'
<1>1. /\ task' = [task EXCEPT ![k][n] = outcome] /\ outcome \in TaskStates
      /\ pc' = [c \in Consumers |-> IF c \in Woken(outcome) THEN "woken" ELSE pc[c]]
      /\ UNCHANGED <<use, todo, got, destroyed, loader, coming, queued, mapping, taken, early>>
  BY DEF TaskEnds, Finished, TaskStates
<1>2. isSet' \in BOOLEAN
  BY DEF TaskEnds, IInv, TypeOK
<1>3. pc' \in [Consumers -> Places]
  BY <1>1 DEF IInv, TypeOK, Places
<1>4. /\ task' \in [Keys -> Seq(TaskStates)] /\ Present' = Present
      /\ \A i \in Keys : Len(task'[i]) = Len(task[i]) /\ Len(task[i]) \in Nat
  BY <1>1, TaskFacts DEF IInv
<1>5. TypeOK'
  BY <1>1, <1>2, <1>3, <1>4 DEF IInv, TypeOK, Places
<1>6. Loaded' /\ Shared({})
  BY <1>1, <1>4 DEF IInv, Loaded, Shared
<1>7. \A c \in Consumers : pc'[c] = pc[c] \/ (pc[c] = "waitsNext" /\ pc'[c] = "woken")
  BY <1>1 DEF Woken
<1>8. \A c \in Consumers : CInv(c)'
  BY <1>1, <1>6, <1>7, OthersKeep
<1> QED
  BY <1>5, <1>6, <1>8 DEF IInv

LEMMA RemoveItemKeeps ==
    ASSUME IInv, NEW k \in Keys, NEW cancel \in BOOLEAN, RemoveItem(k, cancel)
    PROVE  IInv'
<1> DEFINE cancelled == IF cancel THEN {k} ELSE {}
<1>1. /\ Remove({k}, cancelled, {}) /\ {k} \in SUBSET Present /\ cancelled \in SUBSET {k}
      /\ UNCHANGED <<iteration, loader, coming, queued, isSet>>
  BY DEF RemoveItem
<1> HIDE DEF cancelled
<1>2. /\ task' \in [Keys -> Seq(TaskStates)] /\ mapping' \in [Keys -> Nat]
      /\ early' \in BOOLEAN /\ Present' = Present \ {k} /\ taken' \in [Consumers -> SUBSET Keys]
      /\ \A i \in Keys : /\ mapping'[i] <= Len(task'[i]) /\ Len(task[i]) \in Nat
                         /\ Len(task'[i]) = Len(task[i])
      /\ \A c \in Consumers : taken[c] \subseteq taken'[c] /\ {k} \subseteq taken'[c]
  <2>1. TypeOK /\ \A c \in Consumers : c \notin {}
    BY DEF IInv
  <2>2. \A c \in Consumers : taken[c] \subseteq taken'[c] /\ {k} \subseteq taken'[c]
    BY <1>1 DEF Remove
  <2> QED
    BY <1>1, <2>1, <2>2, RemoveFacts
<1>3. Loaded' /\ Shared({})
  BY <1>1, <1>2 DEF IInv, Loaded, Shared, iteration
<1>4. TypeOK'
  BY <1>1, <1>2 DEF IInv, TypeOK, iteration
<1> QED
  BY <1>1, <1>3, <1>4, NobodyMoves

-----------------------------------------------------------------------------
\* An iteration that goes on at another place, with the keys ks to yield there.
LEMMA ContinuesKeeps ==
    ASSUME IInv, NEW c \in Consumers, NEW where \in Places \ {"idle", "ended", "raised"},
           NEW entries \in [Keys -> Nat], \A k \in Keys : entries[k] <= Len(task[k]),
           NEW ks \in SUBSET Keys, {k \in Keys : entries[k] > 0} = ks,
           Continues(c, where, entries), pc[c] \notin {"idle", "ended", "raised"},
           isSet' \in BOOLEAN, queued' \in BOOLEAN,
           Remembers(c) => ks \cap Yielded(c) = {},
           where \in {"maps", "completes"} => Op(c) = "map",
           where = "drains" =>
             /\ loader \in {"none", "done"}
             /\ loader = "done" \/ Op(c) = "map" =>
                  Keys \subseteq Yielded(c) \cup taken[c] \cup ks
    PROVE  IInv'
<1>1. /\ pc' = [pc EXCEPT ![c] = where] /\ todo' = [todo EXCEPT ![c] = entries]
      /\ UNCHANGED <<use, got, destroyed, loader, coming, mapping, task, taken, early>>
  BY DEF Continues
<1>2. /\ pc'[c] = where /\ todo'[c] = entries
      /\ \A d \in Consumers \ {c} : pc'[d] = pc[d] /\ todo'[d] = todo[d] /\ got'[d] = got[d]
  BY <1>1 DEF IInv, TypeOK
<1>3. TypeOK'
  <2>1. pc' \in [Consumers -> Places] /\ todo' \in [Consumers -> [Keys -> Nat]]
    BY <1>1 DEF IInv, TypeOK, Places
  <2>2. \A d \in Consumers, k \in Keys : todo'[d][k] <= Len(task[k])
    BY <1>2 DEF IInv, TypeOK
  <2> QED
    BY <1>1, <2>1, <2>2 DEF IInv, TypeOK, Places
<1>4. Loaded' /\ Shared({c})
  BY <1>1, LenProperties DEF IInv, TypeOK, Loaded, Shared, Present
<1>5. CInv(c)'
  <2>1. CInv(c)
    BY DEF IInv
  <2>2. /\ Yielded(c)' = Yielded(c) /\ Op(c)' = Op(c) /\ use'[c] = use[c] /\ got'[c] = got[c]
        /\ Present' = Present /\ Pops(c)' = Pops(c) /\ Remembers(c)' = Remembers(c)
    BY <1>1 DEF Yielded, Op, Present, Pops, Remembers
  <2>3. Todo(c)' = ks
    BY <1>2 DEF Todo
  <2>4. Whereabouts(c)' /\ Kept(c)'
    BY <1>1, <1>2, <2>1, <2>2 DEF CInv, Whereabouts, Kept
  <2>5. Fresh(c)' /\ Counted(c)'
    BY <1>1, <2>1, <2>2, <2>3 DEF CInv, Fresh, Counted
  <2>6. Complete(c)'
    BY <1>1, <1>2, <2>1, <2>2, <2>3 DEF CInv, Complete
  <2> QED
    BY <2>4, <2>5, <2>6 DEF CInv
<1> QED
  BY <1>2, <1>3, <1>4, <1>5, OneMoves

\* One that goes on with nothing to yield.
LEMMA WaitsKeep ==
    ASSUME IInv, NEW c \in Consumers, NEW where \in Places \ {"idle", "ended", "raised", "drains"},
           Continues(c, where, Nothing), pc[c] \notin {"idle", "ended", "raised"},
           isSet' \in BOOLEAN, queued' \in BOOLEAN,
           where \in {"maps", "completes"} => Op(c) = "map"
    PROVE  IInv'
<1>1. /\ Nothing \in [Keys -> Nat] /\ {k \in Keys : Nothing[k] > 0} = {}
      /\ \A k \in Keys : Nothing[k] <= Len(task[k])
  BY NothingFacts DEF IInv
<1> QED
  BY <1>1, ContinuesKeeps

\* An iteration that ends or raises.
LEMMA EndsKeeps ==
    ASSUME IInv, NEW c \in Consumers, NEW how \in {"ended", "raised"}, NEW popped,
           Ends(c, how, popped),
           Op(c) = "map" => loader = "none",
           how = "ended" =>
             /\ loader \in {"none", "done"}
             /\ loader = "done" \/ Op(c) = "map" => Keys \subseteq Yielded(c) \cup taken[c]
    PROVE  IInv'
<1>1. /\ pc' = [pc EXCEPT ![c] = how] /\ todo' = [todo EXCEPT ![c] = Nothing]
      /\ isSet' = (isSet /\ pc[c] \notin {"maps", "completes"})
      /\ UNCHANGED <<use, got, destroyed, coming, queued>>
  BY DEF Ends
<1>2. /\ task' \in [Keys -> Seq(TaskStates)] /\ mapping' \in [Keys -> Nat]
      /\ early' \in BOOLEAN /\ Present' \subseteq Present
      /\ taken' \in [Consumers -> SUBSET Keys]
      /\ \A i \in Keys : /\ mapping'[i] <= Len(task'[i]) /\ Len(task[i]) \in Nat
                         /\ Len(task'[i]) = Len(task[i])
      /\ \A d \in Consumers : /\ taken[d] \subseteq taken'[d]
                              /\ d # c => Present \ Present' \subseteq taken'[d]
      /\ loader' = loader \/ (loader = "runs" /\ loader' = "cancelled")
  <2>1. CASE /\ Remove(Present, Present \ popped, {c})
             /\ loader' = IF loader = "runs" THEN "cancelled" ELSE loader
    <3>1. Present \in SUBSET Present /\ Present \ popped \in SUBSET Present /\ TypeOK
      BY DEF IInv
    <3>2. /\ task' \in [Keys -> Seq(TaskStates)] /\ mapping' \in [Keys -> Nat]
          /\ early' \in BOOLEAN /\ Present' = Present \ Present
          /\ taken' \in [Consumers -> SUBSET Keys]
          /\ \A i \in Keys : /\ mapping'[i] <= Len(task'[i]) /\ Len(task[i]) \in Nat
                             /\ Len(task'[i]) = Len(task[i])
      BY <2>1, <3>1, RemoveFacts
    <3>3. \A d \in Consumers : /\ taken[d] \subseteq taken'[d]
                               /\ d \notin {c} => Present \subseteq taken'[d]
      BY <2>1, <3>1, RemoveFacts
    <3> QED
      BY <2>1, <3>2, <3>3
  <2>2. CASE UNCHANGED <<loader, mapping, task, taken, early>>
    BY <2>2, LenProperties DEF IInv, TypeOK, Present
  <2> QED
    BY <2>1, <2>2 DEF Ends
<1>3. /\ pc'[c] = how /\ todo'[c] = Nothing
      /\ \A d \in Consumers \ {c} : pc'[d] = pc[d] /\ todo'[d] = todo[d] /\ got'[d] = got[d]
  BY <1>1 DEF IInv, TypeOK
<1>4. /\ Nothing \in [Keys -> Nat] /\ {k \in Keys : Nothing[k] > 0} = {}
      /\ \A k \in Keys : Nothing[k] <= Len(task[k])
  BY NothingFacts DEF IInv
<1>5. TypeOK'
  <2>1. pc' \in [Consumers -> Places] /\ todo' \in [Consumers -> [Keys -> Nat]]
    BY <1>1, <1>4 DEF IInv, TypeOK, Places
  <2>2. isSet' \in BOOLEAN
    BY <1>1, Zenon DEF IInv, TypeOK
  <2>3. \A d \in Consumers, k \in Keys : todo'[d][k] <= Len(task'[k])
    BY <1>2, <1>3, <1>4 DEF IInv, TypeOK
  <2> QED
    BY <1>1, <1>2, <2>1, <2>2, <2>3 DEF IInv, TypeOK, Places
<1>6. Loaded' /\ Shared({c})
  BY <1>1, <1>2 DEF IInv, Loaded, Shared
<1>7. CInv(c)'
  <2>1. CInv(c) /\ \A k \in Keys : got[c][k] \in Nat
    BY DEF IInv, TypeOK
  <2>2. /\ Yielded(c)' = Yielded(c) /\ Op(c)' = Op(c) /\ use'[c] = use[c] /\ got'[c] = got[c]
        /\ Pops(c)' = Pops(c) /\ Remembers(c)' = Remembers(c)
    BY <1>1 DEF Yielded, Op, Pops, Remembers
  <2>3. Todo(c)' = {}
    BY <1>3, <1>4 DEF Todo
  <2>4. Whereabouts(c)' /\ Kept(c)'
    BY <1>2, <1>3, <2>1, <2>2 DEF CInv, Whereabouts, Kept
  <2>5. Fresh(c)'
    BY <2>1, <2>2, <2>3 DEF CInv, Fresh
  <2>6. Counted(c)'
    BY <1>2, <2>1, <2>2 DEF CInv, Counted
  <2>7. Complete(c)'
    BY <1>2, <1>3, <2>1, <2>2 DEF CInv, Complete
  <2> QED
    BY <2>4, <2>5, <2>6, <2>7 DEF CInv
<1> QED
  BY <1>3, <1>5, <1>6, <1>7, OneMoves

-----------------------------------------------------------------------------
LEMMA BeginKeeps ==
    ASSUME IInv, NEW c \in Consumers, Begin(c)
    PROVE  IInv'
<1>1. pc[c] = "idle" /\ (Op(c) = "map" => loader = "none")
  BY DEF Begin
<1>2. CASE Ends(c, "raised", {})
  BY <1>1, <1>2, EndsKeeps
<1>3. ASSUME NEW where \in {"begins", "raised"}, pc' = [pc EXCEPT ![c] = where],
             destroyed' \in BOOLEAN,
             UNCHANGED <<use, todo, got, loader, coming, queued, mapping, task, isSet, taken, early>>
      PROVE  IInv'
  <2>1. /\ pc'[c] = where
        /\ \A d \in Consumers \ {c} : pc'[d] = pc[d] /\ todo'[d] = todo[d] /\ got'[d] = got[d]
    BY <1>3 DEF IInv, TypeOK
  <2>2. TypeOK'
    <3>1. pc' \in [Consumers -> Places]
      BY <1>3 DEF IInv, TypeOK, Places
    <3> QED
      BY <1>3, <3>1 DEF IInv, TypeOK, Places
  <2>3. Loaded' /\ Shared({c})
    BY <1>3, LenProperties DEF IInv, TypeOK, Loaded, Shared, Present
  <2>4. CInv(c)'
    <3>1. CInv(c)
      BY DEF IInv
    <3>2. /\ Yielded(c)' = Yielded(c) /\ Todo(c)' = Todo(c) /\ Op(c)' = Op(c)
          /\ use'[c] = use[c] /\ got'[c] = got[c] /\ todo'[c] = todo[c]
          /\ Present' = Present /\ Pops(c)' = Pops(c) /\ Remembers(c)' = Remembers(c)
      BY <1>3 DEF Yielded, Todo, Op, Present, Pops, Remembers
    <3>3. Whereabouts(c)' /\ Kept(c)' /\ Complete(c)'
      BY <1>1, <1>3, <2>1, <3>1, <3>2 DEF CInv, Whereabouts, Kept, Complete
    <3>4. Fresh(c)' /\ Counted(c)'
      BY <1>3, <3>1, <3>2 DEF CInv, Fresh, Counted
    <3> QED
      BY <3>3, <3>4 DEF CInv
  <2> QED
    BY <2>1, <2>2, <2>3, <2>4, OneMoves
<1>4. destroyed \in BOOLEAN
  BY DEF IInv, TypeOK
<1>5. CASE /\ pc' = [pc EXCEPT ![c] = "begins"] /\ destroyed' = (destroyed \/ Pops(c))
           /\ UNCHANGED <<use, todo, got, loader, coming, queued, mapping, task, isSet, taken, early>>
  <2>1. destroyed' \in BOOLEAN
    BY <1>4, <1>5, Zenon DEF Pops
  <2> QED
    BY <1>3, <1>5, <2>1
<1>6. CASE /\ pc' = [pc EXCEPT ![c] = "raised"]
           /\ UNCHANGED <<use, todo, got, destroyed, loader, coming, queued, mapping, task,
                          isSet, taken, early>>
  BY <1>3, <1>4, <1>6
<1> QED
  BY <1>2, <1>5, <1>6 DEF Begin

\* What an iteration that looks can find.
LEMMA LooksFacts ==
    ASSUME NEW c \in Consumers, Looks(c)
    PROVE  /\ pc[c] \notin {"idle", "ended", "raised"} /\ Op(c) \in {"aiter", "keys"}
           /\ Ready(c) \subseteq Unyielded(c)
BY DEF Looks, Ready

LEMMA AtTopFacts ==
    ASSUME NEW c \in Consumers, AtTop(c)
    PROVE  pc[c] \notin {"idle", "ended", "raised"} /\ Op(c) # "map"
BY LooksFacts DEF AtTop

\* What is left is in the dict; one that remembers has not yielded it.
LEMMA LeftFacts ==
    ASSUME IInv, NEW c \in Consumers
    PROVE  /\ Unyielded(c) \subseteq Left(c) /\ Left(c) \subseteq Present /\ Present \subseteq Keys
           /\ Unyielded(c) \cap Yielded(c) = {}
           /\ Remembers(c) => Left(c) \cap Yielded(c) = {}
           /\ isSet \in BOOLEAN /\ queued \in BOOLEAN
BY DEF IInv, TypeOK, Unyielded, Left, Remembers, Present

\* All keys are accounted for when the loader is done.
LEMMA NoneIsMissed ==
    ASSUME IInv, NEW c \in Consumers, pc[c] \notin {"ended", "raised"}, loader = "done" \/ coming = {}
    PROVE  Keys \subseteq Yielded(c) \cup taken[c] \cup Unyielded(c)
<1>1. Kept(c) /\ coming = {}
  BY DEF IInv, CInv, Loaded
<1> QED
  BY <1>1 DEF Kept, Unyielded

\* The places of __aiter__, keys() and gather().
LEMMA GoesOnKeeps ==
    ASSUME IInv, NEW c \in Consumers,
           GetNext(c) \/ YieldReady(c) \/ WaitNext(c) \/ WaitForNextKey(c) \/ Drain(c)
    PROVE  IInv'
<1>1. {"hasKey", "waitsNext", "waitsKey", "yields"} \subseteq Places \ {"idle", "ended", "raised", "drains"}
  BY DEF Places
<1>2. CASE GetNext(c)
  <2>1. /\ pc[c] = "waitsKey" /\ Continues(c, "hasKey", Nothing)
        /\ queued' \in BOOLEAN /\ isSet' \in BOOLEAN
    BY <1>2, LeftFacts DEF GetNext
  <2> QED
    BY <1>1, <2>1, WaitsKeep
<1>3. CASE YieldReady(c)
  <2>1. /\ Looks(c) /\ Continues(c, "yields", Entries(Ready(c)))
        /\ queued' \in BOOLEAN /\ isSet' \in BOOLEAN
    BY <1>3, LeftFacts DEF YieldReady
  <2>2. Ready(c) \in SUBSET Present /\ Ready(c) \in SUBSET Keys /\ Ready(c) \cap Yielded(c) = {} /\ TypeOK
    BY <2>1, LooksFacts, LeftFacts DEF IInv
  <2>3. /\ Entries(Ready(c)) \in [Keys -> Nat]
        /\ {k \in Keys : Entries(Ready(c))[k] > 0} = Ready(c)
        /\ \A k \in Keys : Entries(Ready(c))[k] <= Len(task[k])
    BY <2>2, EntriesFacts
  <2>4. "yields" \in Places \ {"idle", "ended", "raised"} /\ pc[c] \notin {"idle", "ended", "raised"}
    BY <1>1, <2>1, LooksFacts
  <2> QED
    BY <2>1, <2>2, <2>3, <2>4, ContinuesKeeps
<1>4. CASE WaitNext(c)
  <2>1. /\ Looks(c) /\ Continues(c, "waitsNext", Nothing)
        /\ queued' \in BOOLEAN /\ isSet' \in BOOLEAN
    BY <1>4, LeftFacts DEF WaitNext
  <2> QED
    BY <1>1, <2>1, LooksFacts, WaitsKeep
<1>5. CASE WaitForNextKey(c)
  <2>1. /\ AtTop(c) /\ Continues(c, "waitsKey", Nothing)
        /\ queued' \in BOOLEAN /\ isSet' \in BOOLEAN
    BY <1>5, LeftFacts DEF WaitForNextKey
  <2> QED
    BY <1>1, <2>1, AtTopFacts, WaitsKeep
<1>6. CASE Drain(c)
  <2>1. /\ AtTop(c) /\ loader \in {"none", "done"} /\ Continues(c, "drains", Entries(Left(c)))
        /\ queued' \in BOOLEAN /\ isSet' \in BOOLEAN
    BY <1>6, LeftFacts DEF Drain
  <2>2. Left(c) \in SUBSET Present /\ Left(c) \in SUBSET Keys /\ TypeOK
    BY LeftFacts DEF IInv
  <2>3. /\ Entries(Left(c)) \in [Keys -> Nat]
        /\ {k \in Keys : Entries(Left(c))[k] > 0} = Left(c)
        /\ \A k \in Keys : Entries(Left(c))[k] <= Len(task[k])
    BY <2>2, EntriesFacts
  <2>4. loader = "done" => Keys \subseteq Yielded(c) \cup taken[c] \cup Left(c)
    BY <2>1, AtTopFacts, LeftFacts, NoneIsMissed
  <2>5. "drains" \in Places \ {"idle", "ended", "raised"}
    BY DEF Places
  <2> QED
    BY <2>1, <2>2, <2>3, <2>4, <2>5, AtTopFacts, LeftFacts, ContinuesKeeps
<1> QED
  BY <1>2, <1>3, <1>4, <1>5, <1>6

\* The ways to end, but for the one in Raise.
LEMMA StopsKeep ==
    ASSUME IInv, NEW c \in Consumers, NothingLeft(c) \/ LoaderFailed(c) \/ StopEarly(c)
    PROVE  IInv'
<1>1. CInv(c)
  BY DEF IInv
<1>2. CASE NothingLeft(c)
  <2>1. CASE pc[c] = "drains" /\ Todo(c) = {} /\ Ends(c, "ended", {})
    <3>1. /\ loader \in {"none", "done"} /\ (Op(c) = "map" => loader = "none")
          /\ loader = "done" \/ Op(c) = "map" => Keys \subseteq Yielded(c) \cup taken[c]
      BY <1>1, <2>1 DEF CInv, Whereabouts, Complete
    <3> QED
      BY <2>1, <3>1, EndsKeeps
  <2>2. CASE /\ AtTop(c) /\ loader \in {"none", "done"}
             /\ AllYielded(c) \/ (Op(c) = "keys" /\ loader = "none")
             /\ Ends(c, IF Present = {} /\ Op(c) # "keys" /\ (loader = "none" \/ Op(c) = "gather")
                        THEN "raised" ELSE "ended", {})
    <3>1. PICK how \in {"ended", "raised"} : Ends(c, how, {})
      BY <2>2
    <3>2. loader = "done" => Keys \subseteq Yielded(c) \cup taken[c]
      BY <2>2, AtTopFacts, LeftFacts, NoneIsMissed DEF AllYielded
    <3> QED
      BY <2>2, <3>1, <3>2, AtTopFacts, EndsKeeps
  <2> QED
    BY <1>2, <2>1, <2>2 DEF NothingLeft
<1>3. CASE LoaderFailed(c)
  <2>1. Ends(c, "raised", {}) /\ pc[c] # "idle"
    BY <1>3, AtTopFacts DEF LoaderFailed
  <2> QED
    BY <1>1, <2>1, EndsKeeps DEF CInv, Whereabouts
<1>4. CASE StopEarly(c)
  <2>1. Ends(c, "raised", {}) /\ pc[c] # "idle"
    BY <1>4 DEF StopEarly
  <2> QED
    BY <1>1, <2>1, EndsKeeps DEF CInv, Whereabouts
<1> QED
  BY <1>2, <1>3, <1>4

-----------------------------------------------------------------------------
\* The places of map().
LEMMA MapGoesOnKeeps ==
    ASSUME IInv, NEW c \in Consumers, MapBegin(c) \/ MapGoesOn(c) \/ MapEnds(c)
    PROVE  IInv'
<1>1. CInv(c) /\ TypeOK
  BY DEF IInv
<1>2. /\ "maps" \in Places \ {"idle", "ended", "raised", "drains"}
      /\ "drains" \in Places \ {"idle", "ended", "raised"}
  BY DEF Places
<1>3. CASE MapBegin(c)
  <2>1. Op(c) = "map" /\ pc[c] = "begins" /\ loader = "none"
    BY <1>1, <1>3 DEF MapBegin, CInv, Whereabouts
  <2>2. CASE Ends(c, "raised", {})
    BY <2>1, <2>2, EndsKeeps
  <2>3. CASE Continues(c, "maps", Nothing) /\ UNCHANGED <<queued, isSet>>
    BY <1>2, <2>1, <2>3, LeftFacts, WaitsKeep
  <2> QED
    BY <1>3, <2>2, <2>3 DEF MapBegin
<1>4. CASE MapGoesOn(c)
  <2>1. /\ pc[c] = "completes" /\ Continues(c, "maps", Nothing)
        /\ isSet' \in BOOLEAN /\ queued' \in BOOLEAN
    BY <1>4, LeftFacts DEF MapGoesOn
  <2>2. Op(c) = "map"
    BY <1>1, <2>1 DEF CInv, Whereabouts
  <2> QED
    BY <1>2, <2>1, <2>2, WaitsKeep
<1>5. CASE MapEnds(c)
  <2>1. /\ pc[c] = "maps" /\ coming = {} /\ Continues(c, "drains", Entries(Present))
        /\ isSet' \in BOOLEAN /\ queued' \in BOOLEAN
    BY <1>5, LeftFacts DEF MapEnds
  <2>2. Op(c) = "map" /\ loader = "none" /\ ~Remembers(c)
    BY <1>1, <2>1 DEF CInv, Whereabouts, Remembers
  <2>3. Present \in SUBSET Present /\ Present \in SUBSET Keys
    BY LeftFacts
  <2>4. /\ Entries(Present) \in [Keys -> Nat]
        /\ {k \in Keys : Entries(Present)[k] > 0} = Present
        /\ \A k \in Keys : Entries(Present)[k] <= Len(task[k])
    BY <1>1, <2>3, EntriesFacts
  <2>5. Keys \subseteq Yielded(c) \cup taken[c] \cup Present
    BY <2>1, LeftFacts, NoneIsMissed DEF Unyielded
  <2> QED
    BY <1>2, <2>1, <2>2, <2>3, <2>4, <2>5, ContinuesKeeps
<1> QED
  BY <1>3, <1>4, <1>5

LEMMA MapKeyKeeps ==
    ASSUME IInv, NEW c \in Consumers, NEW k \in Keys, MapKey(c, k)
    PROVE  IInv'
<1>1. /\ pc[c] = "maps" /\ coming' = coming \ {k}
      /\ UNCHANGED <<use, got, destroyed, loader, queued, taken, early>>
  BY DEF MapKey
<1>2. isSet' \in BOOLEAN
  BY Zenon DEF MapKey, IInv, TypeOK
<1>3. PICK where \in {"maps", "completes"}, entries \in [Keys -> Nat] :
        /\ pc' = [pc EXCEPT ![c] = where] /\ todo' = [todo EXCEPT ![c] = entries]
        /\ \A i \in Keys : entries[i] <= Len(task[i])
  <2>1. CASE isSet
    <3>1. /\ pc' = [pc EXCEPT ![c] = "completes"]
          /\ todo' = [todo EXCEPT ![c] = Entries({i \in Keys : Done(i)})]
      BY <2>1 DEF MapKey
    <3>2. {i \in Keys : Done(i)} \in SUBSET Present
      BY DEF Done
    <3> QED
      BY <3>1, <3>2, EntriesFacts DEF IInv
  <2>2. CASE ~isSet
    <3>1. pc' = [pc EXCEPT ![c] = "maps"] /\ todo' = [todo EXCEPT ![c] = todo[c]]
      BY <1>1, <2>2 DEF MapKey, IInv, TypeOK
    <3> QED
      BY <3>1 DEF IInv, TypeOK
  <2> QED
    BY <2>1, <2>2
<1>4. /\ task' \in [Keys -> Seq(TaskStates)] /\ mapping' \in [Keys -> Nat]
      /\ Present' = Present \cup {k}
      /\ k \notin Present => Len(task'[k]) = Len(task[k]) + 1
      /\ \A i \in Keys : /\ mapping'[i] <= Len(task'[i])
                         /\ Len(task[i]) \in Nat /\ Len(task'[i]) \in Nat
                         /\ Len(task[i]) <= Len(task'[i])
  <2>1. CASE k \in Present /\ UNCHANGED <<mapping, task>>
    BY <2>1, LenProperties DEF IInv, TypeOK, Present
  <2>2. CASE Start(k)
    BY <2>2, StartFacts DEF IInv
  <2> QED
    BY <2>1, <2>2 DEF MapKey
<1>5. /\ pc'[c] = where /\ todo'[c] = entries
      /\ \A d \in Consumers \ {c} : pc'[d] = pc[d] /\ todo'[d] = todo[d] /\ got'[d] = got[d]
  BY <1>1, <1>3 DEF IInv, TypeOK
<1>6. TypeOK'
  <2>1. pc' \in [Consumers -> Places] /\ todo' \in [Consumers -> [Keys -> Nat]]
    BY <1>3 DEF IInv, TypeOK, Places
  <2>2. \A d \in Consumers, i \in Keys : todo'[d][i] <= Len(task'[i])
    <3>1. \A d \in Consumers, i \in Keys : todo'[d][i] <= Len(task[i]) /\ todo'[d][i] \in Nat
      <4>1. \A i \in Keys : todo'[c][i] <= Len(task[i])
        BY <1>3, <1>5
      <4>2. \A d \in Consumers \ {c}, i \in Keys : todo'[d][i] <= Len(task[i])
        BY <1>5 DEF IInv, TypeOK
      <4>3. \A d \in Consumers, i \in Keys : todo'[d][i] \in Nat
        BY <2>1
      <4> QED
        BY <4>1, <4>2, <4>3
    <3> SUFFICES ASSUME NEW d \in Consumers, NEW i \in Keys PROVE todo'[d][i] <= Len(task'[i])
      OBVIOUS
    <3>2. /\ todo'[d][i] <= Len(task[i]) /\ todo'[d][i] \in Nat
          /\ Len(task[i]) \in Nat /\ Len(task'[i]) \in Nat /\ Len(task[i]) <= Len(task'[i])
      BY <1>4, <3>1
    <3> QED
      BY <3>2
  <2> QED
    BY <1>1, <1>2, <1>4, <2>1, <2>2 DEF IInv, TypeOK, Places
<1>7. Loaded' /\ Shared({c})
  BY <1>1, <1>4 DEF IInv, Loaded, Shared
<1>8. CInv(c)'
  <2>1. CInv(c) /\ Op(c) = "map" /\ loader = "none" /\ \A i \in Keys : got[c][i] \in Nat
    BY <1>1 DEF IInv, TypeOK, CInv, Whereabouts
  <2>2. /\ Yielded(c)' = Yielded(c) /\ Op(c)' = Op(c) /\ use'[c] = use[c] /\ got'[c] = got[c]
        /\ Pops(c)' = Pops(c) /\ Remembers(c)' = Remembers(c) /\ ~Remembers(c)
    BY <1>1, <2>1 DEF Yielded, Op, Pops, Remembers
  <2>3. Whereabouts(c)' /\ Complete(c)' /\ Fresh(c)'
    BY <1>1, <1>5, <2>1, <2>2 DEF Whereabouts, Complete, Fresh
  <2>4. Kept(c)'
    BY <1>1, <1>4, <1>5, <2>1, <2>2 DEF CInv, Kept
  <2>5. Counted(c)'
    <3>1. SUFFICES ASSUME Pops(c), NEW i \in Keys
                   PROVE  got[c][i] + (IF i \in Present' THEN 1 ELSE 0) <= Len(task'[i])
      BY <2>2 DEF Counted
    <3>2. got[c][i] + (IF i \in Present THEN 1 ELSE 0) <= Len(task[i]) /\ got[c][i] \in Nat
      BY <2>1, <3>1 DEF CInv, Counted
    <3> QED
      BY <1>4, <3>2
  <2> QED
    BY <2>3, <2>4, <2>5 DEF CInv
<1> QED
  BY <1>5, <1>6, <1>7, <1>8, OneMoves

\* A key is yielded: it is to be yielded no more, and counts as yielded.
LEMMA YieldKeeps ==
    ASSUME IInv, NEW c \in Consumers, NEW k \in Keys, Yield(c, k)
    PROVE  IInv'
<1>1. /\ pc[c] \in {"yields", "completes", "drains"} /\ k \in Todo(c)
      /\ Pops(c) => k \in Present
      /\ got' = [got EXCEPT ![c][k] = @ + 1]
      /\ todo' = [todo EXCEPT ![c][k] = 0]
      /\ UNCHANGED <<use, pc, destroyed, loader, coming, queued, isSet>>
  BY DEF Yield, Next1, Good
<1>2. /\ task' \in [Keys -> Seq(TaskStates)] /\ mapping' \in [Keys -> Nat]
      /\ early' \in BOOLEAN /\ Present' = (IF Pops(c) THEN Present \ {k} ELSE Present)
      /\ taken' \in [Consumers -> SUBSET Keys]
      /\ \A i \in Keys : /\ mapping'[i] <= Len(task'[i]) /\ Len(task[i]) \in Nat
                         /\ Len(task'[i]) = Len(task[i])
      /\ \A d \in Consumers : /\ taken[d] \subseteq taken'[d]
                              /\ d # c => Present \ Present' \subseteq taken'[d]
  <2>1. CASE Pops(c)
    <3>1. {k} \in SUBSET Present /\ {} \in SUBSET {k} /\ TypeOK /\ Remove({k}, {}, {c})
      BY <1>1, <2>1 DEF IInv, Yield
    <3>2. /\ task' \in [Keys -> Seq(TaskStates)] /\ mapping' \in [Keys -> Nat]
          /\ early' \in BOOLEAN /\ Present' = Present \ {k}
          /\ taken' \in [Consumers -> SUBSET Keys]
          /\ \A i \in Keys : /\ mapping'[i] <= Len(task'[i]) /\ Len(task[i]) \in Nat
                             /\ Len(task'[i]) = Len(task[i])
      BY <3>1, RemoveFacts
    <3>3. \A d \in Consumers : /\ taken[d] \subseteq taken'[d]
                               /\ d \notin {c} => {k} \subseteq taken'[d]
      BY <3>1, RemoveFacts
    <3> QED
      BY <2>1, <3>2, <3>3
  <2>2. CASE ~Pops(c)
    <3>1. UNCHANGED <<mapping, task, taken, early>>
      BY <2>2 DEF Yield
    <3> QED
      BY <2>2, <3>1, LenProperties DEF IInv, TypeOK, Present
  <2> QED
    BY <2>1, <2>2
<1>3. /\ got[c] \in [Keys -> Nat] /\ got \in [Consumers -> [Keys -> Nat]]
      /\ todo[c] \in [Keys -> Nat] /\ todo \in [Consumers -> [Keys -> Nat]]
      /\ pc \in [Consumers -> Places]
  BY DEF IInv, TypeOK, Places
<1>4. /\ got'[c] = [got[c] EXCEPT ![k] = got[c][k] + 1]
      /\ got' \in [Consumers -> [Keys -> Nat]]
      /\ todo'[c] = [todo[c] EXCEPT ![k] = 0]
      /\ todo' \in [Consumers -> [Keys -> Nat]]
  <2>1. /\ got' = [got EXCEPT ![c] = [got[c] EXCEPT ![k] = got[c][k] + 1]]
        /\ todo' = [todo EXCEPT ![c] = [todo[c] EXCEPT ![k] = 0]]
    BY <1>1
  <2>2. /\ [got[c] EXCEPT ![k] = got[c][k] + 1] \in [Keys -> Nat]
        /\ [todo[c] EXCEPT ![k] = 0] \in [Keys -> Nat]
    BY <1>3
  <2> QED
    BY <1>3, <2>1, <2>2
<1>5. \A d \in Consumers \ {c} : pc'[d] = pc[d] /\ todo'[d] = todo[d] /\ got'[d] = got[d]
  BY <1>1, <1>3
<1>6. TypeOK'
  <2>1. \A d \in Consumers, i \in Keys : todo'[d][i] <= Len(task'[i])
    <3>1. \A d \in Consumers, i \in Keys : todo'[d][i] \in {0, todo[d][i]}
      <4>1. \A i \in Keys : todo'[c][i] \in {0, todo[c][i]}
        BY <1>3, <1>4
      <4> QED
        BY <1>5, <4>1
    <3>2. \A d \in Consumers, i \in Keys : todo[d][i] <= Len(task[i]) /\ 0 <= Len(task[i])
      BY <1>2 DEF IInv, TypeOK
    <3> QED
      BY <1>2, <3>1, <3>2
  <2> QED
    BY <1>1, <1>2, <1>4, <2>1 DEF IInv, TypeOK
<1>7. Loaded' /\ Shared({c})
  BY <1>1, <1>2 DEF IInv, Loaded, Shared
<1>8. Yielded(c)' = Yielded(c) \cup {k} /\ Todo(c)' = Todo(c) \ {k}
  <2>1. /\ got'[c][k] > 0 /\ \A i \in Keys \ {k} : got'[c][i] = got[c][i]
        /\ todo'[c][k] = 0 /\ \A i \in Keys \ {k} : todo'[c][i] = todo[c][i]
    BY <1>3, <1>4
  <2> QED
    BY <2>1 DEF Yielded, Todo
<1>9. CInv(c)'
  <2>1. /\ CInv(c) /\ pc'[c] = pc[c] /\ Op(c)' = Op(c) /\ use'[c] = use[c]
        /\ Pops(c)' = Pops(c) /\ Remembers(c)' = Remembers(c)
    BY <1>1 DEF IInv, Op, Pops, Remembers
  <2>2. Whereabouts(c)' /\ Kept(c)'
    BY <1>1, <1>2, <1>8, <2>1 DEF CInv, Whereabouts, Kept
  <2>3. Complete(c)'
    BY <1>1, <1>2, <1>8, <2>1 DEF CInv, Complete
  <2>4. Fresh(c)'
    <3>1. SUFFICES ASSUME Remembers(c)
                   PROVE  /\ Todo(c)' \cap Yielded(c)' = {}
                          /\ \A i \in Keys : got'[c][i] <= 1
      BY <2>1 DEF Fresh
    <3>2. Todo(c) \cap Yielded(c) = {} /\ \A i \in Keys : got[c][i] <= 1
      BY <2>1, <3>1 DEF CInv, Fresh
    <3>3. got[c][k] = 0
      BY <1>1, <1>3, <3>2 DEF Yielded
    <3>4. got'[c][k] = 1 /\ \A i \in Keys \ {k} : got'[c][i] = got[c][i]
      BY <1>3, <1>4, <3>3
    <3> QED
      BY <1>8, <3>2, <3>4
  <2>5. Counted(c)'
    <3>1. SUFFICES ASSUME Pops(c), NEW i \in Keys
                   PROVE  got'[c][i] + (IF i \in Present' THEN 1 ELSE 0) <= Len(task'[i])
      BY <2>1 DEF Counted
    <3>2. got[c][i] + (IF i \in Present THEN 1 ELSE 0) <= Len(task[i]) /\ got[c][i] \in Nat
      BY <1>3, <2>1, <3>1 DEF CInv, Counted
    <3>3. got'[c][i] = IF i = k THEN got[c][i] + 1 ELSE got[c][i]
      BY <1>3, <1>4
    <3> QED
      BY <1>1, <1>2, <3>1, <3>2, <3>3
  <2> QED
    BY <2>2, <2>3, <2>4, <2>5 DEF CInv
<1> QED
  BY <1>5, <1>6, <1>7, <1>9, OneMoves

\* The iteration raises; __aiter__ may have started a key anew.
LEMMA RaiseKeeps ==
    ASSUME IInv, NEW c \in Consumers, NEW k \in Keys, Raise(c, k)
    PROVE  IInv'
<1>1. pc[c] \in {"yields", "completes", "drains"} /\ CInv(c)
  BY DEF Raise, Next1, IInv
<1>2. ASSUME NEW popped, Ends(c, "raised", popped) PROVE IInv'
  BY <1>1, <1>2, EndsKeeps DEF CInv, Whereabouts
<1>3. CASE /\ k \notin Present /\ Op(c) = "aiter" /\ ~use[c].pop /\ Start(k)
           /\ pc' = [pc EXCEPT ![c] = "raised"]
           /\ todo' = [todo EXCEPT ![c] = Nothing]
           /\ UNCHANGED <<use, got, destroyed, loader, coming, queued, isSet, taken, early>>
  <2>1. /\ task' \in [Keys -> Seq(TaskStates)] /\ mapping' \in [Keys -> Nat]
        /\ Present' = Present \cup {k} /\ Len(task'[k]) = Len(task[k]) + 1
        /\ \A i \in Keys : /\ mapping'[i] <= Len(task'[i])
                           /\ Len(task[i]) \in Nat /\ Len(task'[i]) \in Nat
                           /\ Len(task[i]) <= Len(task'[i])
    BY <1>3, StartFacts DEF IInv
  <2>2. /\ pc'[c] = "raised" /\ todo'[c] = Nothing
        /\ \A d \in Consumers \ {c} : pc'[d] = pc[d] /\ todo'[d] = todo[d] /\ got'[d] = got[d]
    BY <1>3 DEF IInv, TypeOK
  <2>3. /\ Nothing \in [Keys -> Nat] /\ {i \in Keys : Nothing[i] > 0} = {}
        /\ \A i \in Keys : Nothing[i] = 0
    BY DEF Nothing
  <2>4. TypeOK'
    <3>1. pc' \in [Consumers -> Places] /\ todo' \in [Consumers -> [Keys -> Nat]]
      BY <1>3, <2>3 DEF IInv, TypeOK, Places
    <3>2. \A d \in Consumers, i \in Keys : todo'[d][i] <= Len(task'[i])
      <4>1. \A i \in Keys : todo'[c][i] <= Len(task'[i])
        BY <2>1, <2>2, <2>3
      <4>2. \A d \in Consumers \ {c}, i \in Keys : todo'[d][i] <= Len(task[i]) /\ todo'[d][i] \in Nat
        BY <2>2, <3>1 DEF IInv, TypeOK
      <4> SUFFICES ASSUME NEW d \in Consumers \ {c}, NEW i \in Keys
                   PROVE  todo'[d][i] <= Len(task'[i])
        BY <4>1
      <4>3. /\ todo'[d][i] <= Len(task[i]) /\ todo'[d][i] \in Nat
            /\ Len(task[i]) \in Nat /\ Len(task'[i]) \in Nat /\ Len(task[i]) <= Len(task'[i])
        BY <2>1, <4>2
      <4> QED
        BY <4>3
    <3> QED
      BY <1>3, <2>1, <3>1, <3>2 DEF IInv, TypeOK, Places
  <2>5. Loaded' /\ Shared({c})
    BY <1>3, <2>1 DEF IInv, Loaded, Shared
  <2>6. /\ Yielded(c)' = Yielded(c) /\ Op(c)' = Op(c) /\ use'[c] = use[c] /\ got'[c] = got[c]
        /\ Pops(c)' = Pops(c) /\ ~Pops(c) /\ Remembers(c)' = Remembers(c) /\ Todo(c)' = {}
    BY <1>3, <2>2, <2>3 DEF Yielded, Op, Pops, Remembers, Todo
  <2>7. Whereabouts(c)' /\ Kept(c)' /\ Complete(c)'
    BY <1>3, <2>2, <2>6 DEF Whereabouts, Kept, Complete
  <2>8. Fresh(c)' /\ Counted(c)'
    BY <1>1, <2>6 DEF CInv, Fresh, Counted
  <2> QED
    BY <2>2, <2>4, <2>5, <2>7, <2>8, OneMoves DEF CInv
<1> QED
  BY <1>2, <1>3 DEF Raise

-----------------------------------------------------------------------------
LEMMA NextKeepsIInv == IInv /\ [Next]_vars => IInv'
<1> SUFFICES ASSUME IInv, [Next]_vars PROVE IInv'
  OBVIOUS
<1>1. CASE UNCHANGED vars
  <2>1. TypeOK' /\ Loaded' /\ Shared({}) /\ UNCHANGED iteration
    BY <1>1, LenProperties DEF vars, iteration, IInv, TypeOK, Loaded, Shared, Present
  <2> QED
    BY <2>1, NobodyMoves
<1>2. ASSUME NEW k \in Keys,
             \/ Load(k) \/ GetItem(k) \/ RunTask(k)
             \/ \E cancel \in BOOLEAN : RemoveItem(k, cancel)
      PROVE  IInv'
  BY <1>2, LoadKeeps, TaskStartsKeeps, TaskEndsKeeps, RemoveItemKeeps DEF RunTask
<1>3. ASSUME NEW c \in Consumers, Begin(c) \/ Iterate(c) \/ StopEarly(c)
      PROVE  IInv'
  <2>1. CASE \E k \in Keys : MapKey(c, k) \/ Yield(c, k) \/ Raise(c, k)
    BY <2>1, MapKeyKeeps, YieldKeeps, RaiseKeeps
  <2> QED
    BY <1>3, <2>1, BeginKeeps, GoesOnKeeps, StopsKeep, MapGoesOnKeeps DEF Iterate
<1> QED
  BY <1>1, <1>2, <1>3, LoaderEndsKeeps DEF Next

LEMMA SpecIInv == Spec => []IInv
BY InitIInv, NextKeepsIInv, PTL DEF Spec

\* The variables keep their types, and a key or a loop refers to tasks that the key
\* has had, whatever leaves the dict and when.
THEOREM TypeCorrect == Spec => []TypeOK
<1>1. IInv => TypeOK
  BY DEF IInv
<1> QED
  BY <1>1, SpecIInv, PTL

\* An iteration that remembers its keys yields none twice, and one that pops yields
\* a key at most once for each task it had, though others pop, delete and start keys
\* again at each of its awaits.
THEOREM KeysAreYieldedOnce == Spec => []YieldsOnce
<1>1. IInv => YieldsOnce
  <2> SUFFICES ASSUME IInv, NEW c \in Consumers, NEW k \in Keys
               PROVE  /\ Remembers(c) => got[c][k] <= 1
                      /\ Pops(c) => got[c][k] <= Len(task[k])
    BY DEF YieldsOnce
  <2>1. Fresh(c) /\ Counted(c) /\ got[c][k] \in Nat /\ Len(task[k]) \in Nat
    BY LenProperties DEF IInv, CInv, TypeOK
  <2> QED
    BY <2>1 DEF Fresh, Counted
<1> QED
  BY <1>1, SpecIInv, PTL

\* An iteration that comes to its end has yielded every key of the iterables that
\* nobody else has taken out, whenever the loader brought it.
THEOREM EndsAreComplete == Spec => []EndsWithEverything
<1>1. IInv => EndsWithEverything
  BY DEF IInv, CInv, Complete, EndsWithEverything, Yielded
<1> QED
  BY <1>1, SpecIInv, PTL

-----------------------------------------------------------------------------
\* CounterLock, whose waiters may run on several loops as well.
CONSTANTS Tasks, Loops, LoopOf, MaxValue, NoEvent
VARIABLES value, events, heap, target, where

Counter == INSTANCE CounterLock WITH pc <- where

\* What CounterLock assumes of its constants.
CounterConstants ==
    LoopOf \in [Tasks -> Loops] /\ NoEvent \notin Loops /\ MaxValue \in Nat

\* What every step keeps.  That set() finds the event of each waiter it passes
\* needs the heap to have the keys of the dict, and the other way round nobody
\* may wait for an event that is dropped.
CounterInv == Counter!TypeOK /\ Counter!HeapMatchesEvents /\ Counter!WaitersAreReachable

\* It starts so.
LEMMA InitCounter == CounterConstants /\ Counter!Init => CounterInv
BY DEF CounterConstants, Counter!Init, CounterInv, Counter!TypeOK,
       Counter!HeapMatchesEvents, Counter!WaitersAreReachable, Counter!Values

\* A task that need not wait changes nothing.
LEMMA WaitReadyKeeps ==
    ASSUME CounterInv, NEW t \in Tasks, NEW v \in Counter!Values, Counter!WaitReady(t, v)
    PROVE  CounterInv'
BY DEF Counter!WaitReady, CounterInv, Counter!TypeOK, Counter!HeapMatchesEvents,
       Counter!WaitersAreReachable

\* A task that waits for a new value does not change what others wait for.
LEMMA WaitNewKeeps ==
    ASSUME CounterConstants, CounterInv, NEW t \in Tasks, NEW v \in Counter!Values,
           Counter!WaitNew(t, v)
    PROVE  CounterInv'
<1>1. LoopOf \in [Tasks -> Loops] /\ LoopOf[t] \in Loops /\ LoopOf[t] # NoEvent
  BY DEF CounterConstants
<1>2. heap[v] = 0
  BY DEF CounterInv, Counter!HeapMatchesEvents, Counter!WaitNew
<1>3. Counter!TypeOK'
  BY <1>1 DEF Counter!WaitNew, CounterInv, Counter!TypeOK
<1>4. Counter!HeapMatchesEvents'
  BY <1>1, <1>2 DEF Counter!WaitNew, CounterInv, Counter!TypeOK, Counter!HeapMatchesEvents
<1>5. Counter!WaitersAreReachable'
  <2>1. \A u \in Tasks : where[u] = "waiting" => target[u] # v
    BY <1>1 DEF CounterConstants, CounterInv, Counter!TypeOK, Counter!WaitersAreReachable,
               Counter!WaitNew
  <2> QED
    BY <1>1, <2>1 DEF Counter!WaitNew, CounterInv, Counter!TypeOK, Counter!WaitersAreReachable
<1> QED
  BY <1>3, <1>4, <1>5 DEF CounterInv

\* A task that waits for a value that others wait for joins them.
LEMMA WaitMoreKeeps ==
    ASSUME CounterInv, NEW t \in Tasks, NEW v \in Counter!Values, Counter!WaitMore(t, v)
    PROVE  CounterInv'
BY DEF Counter!WaitMore, CounterInv, Counter!TypeOK, Counter!HeapMatchesEvents,
       Counter!WaitersAreReachable

\* The except clause removes an event and its key, which nobody waits for.
LEMMA WaitForeignKeeps ==
    ASSUME CounterInv, NEW t \in Tasks, NEW v \in Counter!Values, Counter!WaitForeign(t, v)
    PROVE  CounterInv'
<1>1. heap[v] = 1
  BY DEF CounterInv, Counter!HeapMatchesEvents, Counter!WaitForeign
<1>2. Counter!TypeOK' /\ Counter!HeapMatchesEvents'
  BY <1>1 DEF Counter!WaitForeign, CounterInv, Counter!TypeOK, Counter!HeapMatchesEvents
<1>3. \A u \in Tasks : where[u] = "waiting" => target[u] # v
  BY DEF Counter!WaitForeign, Counter!Waiters
<1>4. Counter!WaitersAreReachable'
  BY <1>3 DEF Counter!WaitForeign, CounterInv, Counter!TypeOK, Counter!WaitersAreReachable
<1> QED
  BY <1>2, <1>4 DEF CounterInv

\* set() pops the events of all the values it reaches, and only those.
LEMMA SetKeeps ==
    ASSUME CounterConstants, CounterInv, NEW v \in Counter!Values, Counter!Set(v)
    PROVE  CounterInv'
<1>1. Counter!TypeOK'
  BY DEF Counter!Set, CounterInv, Counter!TypeOK
<1>2. Counter!HeapMatchesEvents'
  BY DEF Counter!Set, CounterInv, Counter!TypeOK, Counter!HeapMatchesEvents
<1>3. ASSUME NEW u \in Tasks, where'[u] = "waiting"
      PROVE  value' < target'[u] /\ events'[target'[u]] = LoopOf[u]
  <2>1. /\ where[u] = "waiting" /\ target[u] \notin Counter!Popped(v)
        /\ target'[u] = target[u] /\ target[u] \in Counter!Values
    BY <1>3 DEF Counter!Set, CounterInv, Counter!TypeOK
  <2>2. events[target[u]] = LoopOf[u] /\ events[target[u]] # NoEvent
    BY <2>1 DEF CounterConstants, CounterInv, Counter!WaitersAreReachable
  <2>3. heap[target[u]] = 1
    BY <2>1, <2>2 DEF CounterInv, Counter!HeapMatchesEvents
  <2>4. ~(target[u] <= v)
    BY <2>1, <2>3 DEF Counter!Popped
  <2> QED
    BY <2>1, <2>2, <2>4 DEF Counter!Set, Counter!Values
<1> QED
  BY <1>1, <1>2, <1>3 DEF CounterInv, Counter!WaitersAreReachable

\* A task runs or is cancelled: the counter does not change, and nobody waits
\* who did not before.
LEMMA TasksKeep ==
    ASSUME CounterInv, NEW t \in Tasks,
           \/ Counter!Resume(t) \/ Counter!Cancel(t)
           \/ Counter!CancelStep(t) \/ Counter!GoOn(t)
    PROVE  CounterInv'
BY DEF Counter!Resume, Counter!Cancel, Counter!CancelStep, Counter!GoOn, CounterInv,
       Counter!TypeOK, Counter!HeapMatchesEvents,
       Counter!WaitersAreReachable

\* Every step keeps it.
LEMMA CounterNextKeeps ==
    CounterConstants /\ CounterInv /\ [Counter!Next]_(Counter!vars) => CounterInv'
<1> SUFFICES ASSUME CounterConstants, CounterInv, [Counter!Next]_(Counter!vars)
             PROVE  CounterInv'
  OBVIOUS
<1>1. CASE UNCHANGED Counter!vars
  BY <1>1
     DEF Counter!vars, CounterInv, Counter!TypeOK, Counter!HeapMatchesEvents,
         Counter!WaitersAreReachable
<1>2. CASE Counter!Next
  BY <1>2, WaitReadyKeeps, WaitNewKeeps, WaitMoreKeeps, WaitForeignKeeps,
     SetKeeps, TasksKeep DEF Counter!Next
<1> QED
  BY <1>1, <1>2

\* CounterInv holds always.
LEMMA CounterInvariant ==
    ASSUME CounterConstants
    PROVE  Counter!Spec => []CounterInv
BY InitCounter, CounterNextKeeps, PTL DEF Counter!Spec

-----------------------------------------------------------------------------
\* The heap has the keys of the dict, each once, whatever loops the waiters run
\* on: set() and wait_for() raise neither KeyError nor ValueError halfway.
THEOREM HeapAndDictAgree ==
    ASSUME CounterConstants
    PROVE  Counter!Spec => [](Counter!TypeOK /\ Counter!HeapMatchesEvents)
<1>1. CounterInv => Counter!TypeOK /\ Counter!HeapMatchesEvents
  BY DEF CounterInv
<1> QED
  BY <1>1, CounterInvariant, PTL

\* Nobody waits for a value that was passed, or for an event that is not in the
\* dict: the set() that reaches a value wakes all who wait for it.
THEOREM NobodyIsLeftBehind ==
    ASSUME CounterConstants
    PROVE  Counter!Spec => []Counter!WaitersAreReachable
<1>1. CounterInv => Counter!WaitersAreReachable
  BY DEF CounterInv
<1> QED
  BY <1>1, CounterInvariant, PTL
=============================================================================
