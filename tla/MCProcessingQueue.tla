------------------------- MODULE MCProcessingQueue -------------------------
(* Small instances of ProcessingQueue for TLC.                             *)
EXTENDS ProcessingQueue, TLC

CONSTANTS j1, j2, j3, j4, w1, w2

\* Submission in any order meets every order of the priorities.
MCRank == (j1 :> 1) @@ (j2 :> 2) @@ (j3 :> 3) @@ (j4 :> 4)
MCRank3 == (j1 :> 1) @@ (j2 :> 2) @@ (j3 :> 3)

Created(p, r, d, f) == [prioritized |-> p, returnData |-> r, dropped |-> d, fatal |-> f]

\* Each of the four ways to create a queue.  Where a worker may die, it may die
\* of a dropped future or of a CancelledError, and both workers may.
EveryMode ==
    {Created(FALSE, TRUE, {j1, j2}, {j2, j3}), Created(TRUE, TRUE, {}, {j2}),
     Created(FALSE, FALSE, {}, {}), Created(TRUE, FALSE, {}, {})}

\* A caller drops a future; nothing else goes wrong.
OneDropped == {Created(FALSE, TRUE, {j1}, {})}

\* A PriorityProcessingQueue without return data.
PriorityNoData == {Created(TRUE, FALSE, {}, {})}
=============================================================================
