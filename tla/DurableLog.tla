------------------------------ MODULE DurableLog ------------------------------
(***************************************************************************)
(* What one thread's log promises: a set of records that survives a crash, *)
(* each of which is read back once before the log counts as recovered.     *)
(* The write that a crash interrupts may leave a record without a key.     *)
(* After a removal or an update nothing is promised any more.              *)
(***************************************************************************)
CONSTANTS Key,     \* the keys
          Blank    \* the key of a record that was not completely written

VARIABLES state,   \* "writing", "reading", "recovered", "stopped" or "void"
          records, \* the keys of the records in the log
          read     \* those read since the last crash

Init == state = "writing" /\ records = {} /\ read = {}

Append(k) ==
    /\ state = "writing"
    /\ k \notin records
    /\ records' = records \cup {k}
    /\ UNCHANGED <<state, read>>

Crash ==
    /\ state \in {"writing", "reading", "recovered"}
    /\ state' = "reading"
    /\ \/ records' = records
       \/ state = "writing" /\ records' = records \cup {Blank}
    /\ read' = {}

Read(k) ==
    /\ state = "reading"
    /\ k \in records \ read
    /\ read' = read \cup {k}
    /\ UNCHANGED <<state, records>>

Recover ==
    /\ state = "reading"
    /\ read = records
    /\ state' = "recovered"
    /\ UNCHANGED <<records, read>>

(* The allocator is out of memory, or hands out memory it must not.        *)
Stop ==
    /\ state # "void"
    /\ state' = "stopped"
    /\ UNCHANGED <<records, read>>

Void == state' = "void" /\ records' = {} /\ read' = {}

Next ==
    \/ \E k \in Key : Append(k)
    \/ \E k \in Key \cup {Blank} : Read(k)
    \/ Crash \/ Recover \/ Stop \/ Void

Spec == Init /\ [][Next]_<<state, records, read>>
===============================================================================
