----------------------------- MODULE MCLeafSlots -----------------------------
(* Small instances of LeafSlots for TLC.                                    *)
EXTENDS LeafSlots, TLC

KeysTo5 == 1 .. 5
KeysTo13 == 1 .. 13

\* one hash byte for all keys but one, so that most fingers collide
HashBytes == [k \in Key |-> IF k = 2 THEN 2 ELSE 1]
\* the hash byte 0, which a finger nobody wrote has too
HashZero == [k \in Key |-> IF k = 1 THEN 0 ELSE 1]

\* inserts and finds only
AddNext ==
    \/ Done
    \/ \E k \in Key :
          \/ InsertDuplicate(k) \/ InsertAppend(k) \/ InsertSplit(k)
          \/ Find(k) \/ FindInRoot(k)
AddSpec == Init /\ [][AddNext]_vars

\* the keys are inserted in order; after the first split up to three finds
Ascending == /\ \A i \in DOMAIN log : log[i].key = i
             /\ calls <= Len(log) + (IF RootIsLeaf THEN 0 ELSE 3)
==============================================================================
