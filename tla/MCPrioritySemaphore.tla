------------------------ MODULE MCPrioritySemaphore ------------------------
(* Small instances of PrioritySemaphore for TLC.                           *)
EXTENDS PrioritySemaphore, TLC

CONSTANTS t1, t2, t3, t4, a, b, c

\* One manager for each of two priorities.
TwoManagers == (a :> -1) @@ (c :> 1)

\* Two objects of one priority: a task may still use the one that was dropped
\* from the dict while another has taken its place.
SamePriority == (a :> -1) @@ (b :> -1)

\* No manager but the top one: nobody names a priority.
TopOnly == <<>>

\* The tasks are interchangeable in every property but the liveness ones.
Symmetry == Permutations(Tasks)
=============================================================================
