---------------------------- MODULE MCCrashRebuild ----------------------------
(* Small instances of CrashRebuild for TLC.                                *)
EXTENDS CrashRebuild, TLC

CONSTANTS t1, t2

ZeroToFour == 0 .. 4

\* the second thread repeats a key of the first, and may stay behind its claim
LoadFour == (t1 :> {Insert(1), Insert(4)}) @@ (t2 :> {Insert(2), Insert(3), Insert(4)})
\* the threads of the new process are numbered the other way round
Swapped == (t1 :> t2) @@ (t2 :> t1)
============================================================================
