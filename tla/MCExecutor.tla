----------------------------- MODULE MCExecutor -----------------------------
(* Small instances of Executor for TLC.                                    *)
EXTENDS Executor

CONSTANTS j1, j2, j3
=============================================================================
