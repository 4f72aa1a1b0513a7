------------------------------- MODULE KVSet -------------------------------
(***************************************************************************)
(* What a caller of Tree::insert and Tree::scan is promised: an index is   *)
(* a set of keys; an insert takes effect at one instant between its call   *)
(* and its return, answers true exactly when the key was absent at that    *)
(* instant, and no key ever disappears (the core operations never delete). *)
(* A scan changes nothing.  ConcurrentTree implements this specification.  *)
(***************************************************************************)
EXTENDS Naturals

CONSTANTS Thread,   \* the client threads
          Key       \* the keys clients use

VARIABLES present,  \* the keys in the index
          op,       \* op[t]: the call thread t is inside of, or NoOp
          ret       \* ret[t]: its answer, "none" until it is decided

vars == <<present, op, ret>>

NoOp == [kind |-> "none", key |-> 0, count |-> 0]

Init == /\ present = {}
        /\ op = [t \in Thread |-> NoOp]
        /\ ret = [t \in Thread |-> "none"]

Invoke(t) ==
    /\ op[t] = NoOp
    /\ op'[t] \in [kind : {"insert", "scan"}, key : Key, count : Nat]
    /\ op' = [op EXCEPT ![t] = op'[t]]
    /\ ret' = [ret EXCEPT ![t] = "none"]
    /\ UNCHANGED present

(* The insert takes effect: its key was absent, and now is present.        *)
Insert(t) ==
    /\ op[t].kind = "insert"
    /\ ret[t] = "none"
    /\ op[t].key \notin present
    /\ present' = present \cup {op[t].key}
    /\ ret' = [ret EXCEPT ![t] = "true"]
    /\ UNCHANGED op

(* The key was there already: the call answers false and changes nothing.  *)
Reject(t) ==
    /\ op[t].kind = "insert"
    /\ ret[t] = "none"
    /\ op[t].key \in present
    /\ ret' = [ret EXCEPT ![t] = "false"]
    /\ op' = [op EXCEPT ![t] = NoOp]
    /\ UNCHANGED present

(* An insert that took effect returns true; a scan returns.                *)
Return(t) ==
    /\ \/ op[t].kind = "insert" /\ ret[t] = "true" /\ UNCHANGED ret
       \/ op[t].kind = "scan" /\ ret' = [ret EXCEPT ![t] = "true"]
    /\ op' = [op EXCEPT ![t] = NoOp]
    /\ UNCHANGED present

Next == \E t \in Thread : Invoke(t) \/ Insert(t) \/ Reject(t) \/ Return(t)

Spec == Init /\ [][Next]_vars
============================================================================
