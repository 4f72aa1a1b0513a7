---------------------------- MODULE MCLeafRecovery ----------------------------
(* Small instances of LeafRecovery for TLC.                                  *)
EXTENDS LeafRecovery

\* bits 8 to 13 are 0, 3 and 40: harmless, a slot, and behind the slots
SomeKeys == {7, 769, 770, 10241, 10242}
HashBytes == [k \in Key |-> IF k = 770 THEN 2 ELSE 1]

\* malloc's memory is blank, or control fields in it lead to slot 3
Words == {Junk, [Junk EXCEPT !.control = 3, !.hash = 1]}
BlankWords == {Junk}

\* before the first crash keys are inserted in order, and nothing is looked for;
\* after a crash come at most two calls
Loading ==
    IF crashes = 0
    THEN /\ answer.kind # "find"
         /\ calls = Len(log)
         /\ \A i, j \in DOMAIN log : i < j => log[i].key < log[j].key
    ELSE calls <= recovered + 2

\* Up to the first crash every operation is called; the crash comes after a
\* load of keys in ascending order.
RunUpdate(k) == crashes = 0 /\ Update(k) /\ UNCHANGED recoveryVars
RunRemove(k) == crashes = 0 /\ SimplyRemove(k) /\ UNCHANGED recoveryVars
RunScan(k) == crashes = 0 /\ Scan(k) /\ UNCHANGED recoveryVars

AllNext == RecoveryNext \/ \E k \in Key : RunUpdate(k) \/ RunRemove(k) \/ RunScan(k)
AllSpec == RecoveryInit /\ [][AllNext]_allVars

CrashAfterLoad ==
    /\ phase = "rebuild" /\ crashes = 1 =>
         /\ calls = Len(log) /\ ~freed
         /\ \A i \in DOMAIN log : store[log[i].key] = log[i].val
         /\ \A i, j \in DOMAIN log : i < j => log[i].key < log[j].key
    /\ crashes > 0 => calls <= recovered + 2
===============================================================================
