---------------------------- MODULE MCLockFreeFind ----------------------------
(* Small instances of LockFreeFind for TLC.                                  *)
EXTENDS LockFreeFind

LastFound == 5

\* The leaf that has the key LastFound has all keys behind it, and no insert of
\* one of those splits a leaf.
Early ==
    /\ \A k \in Key : k >= LastFound => home[k] = home[LastFound]
    /\ \A w \in Marked : w.key <= LastFound

\* Finds come early; where there was none the tree grows on.
EarlyNext == (Next /\ UNCHANGED find /\ Watch) \/ (Early /\ FindStep)
EarlySpec == FindInit /\ [][EarlyNext]_allVars /\ WF_allVars(FindStep)

FindsEarly ==
    find # NoFind => Early /\ (find.pc \notin {"idle", "wild"} => find.key <= LastFound)
===============================================================================
