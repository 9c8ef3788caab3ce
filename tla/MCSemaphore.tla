---------------------------- MODULE MCSemaphore ----------------------------
(* Small instances of Semaphore for TLC.                                   *)
EXTENDS Semaphore, TLC

CONSTANTS t1, t2, t3, t4

\* Every task awaits acquire() at once, or two of the four are spawned.
NoneOrTwo == {{}, {t1, t2}}

\* One task is spawned.
OnlyOne == {{t1}}
=============================================================================
