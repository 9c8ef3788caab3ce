--------------------------- MODULE MCCounterLock ---------------------------
(* Small instances of CounterLock for TLC.                                 *)
EXTENDS CounterLock, TLC

CONSTANTS t1, t2, t3, A, B

\* Two tasks of one loop and one of another.
MCLoopOf == (t1 :> A) @@ (t2 :> A) @@ (t3 :> B)
=============================================================================
