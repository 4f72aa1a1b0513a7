---------------------------- MODULE MCReadCache ----------------------------
(* Small instances of ReadCache for TLC.                                   *)
EXTENDS ReadCache

SomeKeys == {1, 2, 4, 6, 8, 9, 11, 12, 13}
FourKeys == {2, 4, 6, 8}
\* all hash bytes collide but one
HashBytes == [k \in Key |-> IF k = 2 THEN 2 ELSE 1]

New == Cardinality(Stored \ Loaded)
\* before it is split the leaf fills up from the largest key to the smallest;
\* up to four calls come in between, finds of three of the keys
Descending ==
    /\ routed = Key => \A i, j \in Live :
                          LEFT_KEY <= i /\ i < j => slot[i].of > slot[j].of
    /\ \A t \in Thread : pc[t] = "look" => key[t] \in {2, 6, 13}
    /\ calls <= 4 + (IF routed = Key THEN New + 1 ELSE 5)
===========================================================================
