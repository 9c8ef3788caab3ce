----------------------------- MODULE PermitPool -----------------------------
(***************************************************************************)
(* What every semaphore of a_sync.primitives.locks promises its users,     *)
(* whatever it does about queues, priorities and futures: a fixed number   *)
(* of permits, of which each task holds at most one; a task that asks for  *)
(* one gets it later or withdraws; and a permit does not stay free for     *)
(* ever while tasks wait for it and none is served or withdraws.  It says  *)
(* nothing about the order in which tasks are served, nor that every one   *)
(* of them is.                                                             *)
(*                                                                         *)
(* Semaphore and PrioritySemaphore are shown to implement this module.     *)
(***************************************************************************)
EXTENDS Naturals, FiniteSets

CONSTANTS Tasks,       \* the tasks that use the semaphore
          Capacity     \* the number of permits it was created with

VARIABLES wanting,     \* the tasks that asked for a permit and wait for it
          held         \* the tasks that hold a permit

poolVars == <<wanting, held>>

PoolTypeOK ==
    /\ wanting \subseteq Tasks
    /\ held \subseteq Tasks

PoolInit ==
    /\ wanting = {}
    /\ held = {}

\* A task asks for a permit.
Ask(t) ==
    /\ t \notin wanting \cup held
    /\ wanting' = wanting \cup {t}
    /\ UNCHANGED held

\* A waiting task is served.
Grant(t) ==
    /\ t \in wanting
    /\ Cardinality(held) < Capacity
    /\ wanting' = wanting \ {t}
    /\ held' = held \cup {t}

\* A task that finds a permit free is served at once.
Take(t) ==
    /\ t \notin wanting \cup held
    /\ Cardinality(held) < Capacity
    /\ held' = held \cup {t}
    /\ UNCHANGED wanting

\* A waiting task is cancelled and leaves empty-handed.
Withdraw(t) ==
    /\ t \in wanting
    /\ wanting' = wanting \ {t}
    /\ UNCHANGED held

\* A holder returns its permit.
GiveBack(t) ==
    /\ t \in held
    /\ held' = held \ {t}
    /\ UNCHANGED wanting

PoolNext ==
    \E t \in Tasks :
        Ask(t) \/ Grant(t) \/ Take(t) \/ Withdraw(t) \/ GiveBack(t)

\* A permit that is free and wanted goes to somebody, or is wanted less.
Serve ==
    /\ wanting # {}
    /\ Cardinality(held) < Capacity
    /\ \E t \in Tasks : Grant(t) \/ Take(t) \/ Withdraw(t)

PoolSpec == PoolInit /\ [][PoolNext]_poolVars /\ WF_poolVars(Serve)

\* Never more holders than permits.
Bounded == Cardinality(held) <= Capacity
=============================================================================
