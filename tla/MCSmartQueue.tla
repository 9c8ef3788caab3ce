---------------------------- MODULE MCSmartQueue ----------------------------
(* Small instances of SmartQueue for TLC.                                  *)
EXTENDS SmartQueue, TLC

CONSTANTS k1, k2, k3, k4, k5, c1, c2, c3, c4, c5, c6, f1, f2, f3, f4, f5, w1, w2

\* Keys, plain callers and workers are interchangeable; futures are not, as a
\* new one is chosen among them.
Symmetry == Permutations(Keys) \cup Permutations(Callers \ Smart) \cup Permutations(Workers)
=============================================================================
