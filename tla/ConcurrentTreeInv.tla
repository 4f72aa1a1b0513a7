-------------------------- MODULE ConcurrentTreeInv --------------------------
(***************************************************************************)
(* The inductive invariant of ConcurrentTree: what has to be added to its  *)
(* safety properties for every step of every thread to preserve them.      *)
(***************************************************************************)
EXTENDS ConcurrentTree

InsertPC == InsertOwns \cup {"cas", "backoff", "restore", "release_write"}
ScanPC == ScanOwns \cup {"scan_release", "scan_test", "scan_lock", "scan_next",
                         "fast_sibling", "fast_alt", "fast_read", "undefined"}

(* The locals of a thread are set where the code uses them.                *)
LocalsInv ==
    \A t \in Thread :
       /\ pc[t] = "idle" => op[t] = NoOp
       /\ pc[t] # "idle" => op[t] \in Op
       /\ pc[t] \in InsertPC => op[t].kind = "insert" /\ leaf[t] \in Leaf
       /\ pc[t] \in ScanPC => op[t].kind = "scan"
       /\ pc[t] \in ScanPC \ {"scan_next", "undefined"} => leaf[t] \in Leaf
       /\ pc[t] \in HalfSplit => other[t] \in Leaf
       /\ pc[t] \in BufferLive \cup {"fast_read"} => ptr[t] \in Leaf \cup Thread

(* function_lock: who holds it, and that a writer holds it alone.          *)
LockInv ==
    /\ \A t \in Thread : t \in readers <=> pc[t] \in ReadHeld
    /\ \A t \in Thread : writer = t <=> pc[t] \in WriteHeld
    /\ writer # NoThread => readers = {}

(* temp_insert tells who is in the leaf's critical section.  A leaf whose  *)
(* alt_ptr is still to be restored can be claimed by a scan only.          *)
ClaimInv ==
    /\ LeafMutex
    /\ \A t \in Thread : pc[t] \in OwnsLeaf =>
          temp_insert[leaf[t]] = IF pc[t] \in Marked THEN 2 ELSE 1
    /\ \A l \in Leaf : temp_insert[l] <= 2
    /\ \A l \in Leaf : temp_insert[l] = 2 =>
          \E t \in Thread : pc[t] \in Marked /\ leaf[t] = l
    /\ \A t, u \in Thread :
          pc[t] = "restore" /\ pc[u] \in InsertOwns => leaf[t] # leaf[u]

(* Leaves outside the heap are unused.                                     *)
AllocInv ==
    /\ RootLeaf \in heap
    /\ \A k \in Key : route[k] \in heap
    /\ \A l \in Leaf \ heap : content[l] = {}
    /\ \A l \in Leaf : next[l] \in Leaf => next[l] \in heap
    /\ \A t \in Thread : leaf[t] \in Leaf => leaf[t] \in heap
    /\ \A t \in Thread : other[t] \in Leaf => other[t] \in heap

(* The new leaf of a split is not reachable through the inner nodes yet.   *)
RightLeafInv ==
    /\ \A t \in Thread : pc[t] \in HalfSplit => \A k \in Key : route[k] # other[t]
    /\ \A t, u \in Thread :
          t # u /\ pc[t] \in HalfSplit /\ pc[u] \in HalfSplit => other[t] # other[u]

(* The route of a thread's key, under function_lock or under the claim.    *)
RouteInv ==
    /\ root_is_leaf => \A k \in Key : route[k] = RootLeaf
    /\ RouteStaysValid
    /\ \A t \in Thread : pc[t] = "cas" => route[op[t].key] = leaf[t]

(* The two halves of a leaf under split.                                   *)
SplitInv ==
    \A t \in Thread :
       /\ pc[t] \in HalfSplit =>
            /\ \A k \in content[leaf[t]] : k <= split_key[t]
            /\ \A k \in content[other[t]] :
                  k > split_key[t] /\ route[k] = leaf[t] /\ k \in dram_buffer[t]
       /\ pc[t] \in HalfSplit \cup {"unmark"} =>
            content[leaf[t]] \subseteq dram_buffer[t]

(* alt_ptr: the leaf's own P_Leaf, or the buffer of the one thread that    *)
(* splits the leaf, which remembers the P_Leaf.                            *)
AltInv ==
    /\ \A l \in Leaf :
          \/ alt_ptr[l] = l
          \/ \E t \in Thread : pc[t] \in BufferLive /\ leaf[t] = l
    /\ \A t \in Thread : pc[t] \in BufferLive =>
          alt_ptr[leaf[t]] = t /\ ptr[t] = leaf[t]
    /\ \A t \in Thread : pc[t] \in {"mark", "split_leaf"} =>
          dram_buffer[t] = content[leaf[t]]

(* A key about to be inserted is in no leaf's slots yet, and fits.         *)
NewKeyInv ==
    /\ \A t \in Thread : pc[t] \in {"append", "publish"} =>
          /\ op[t].key \notin content[leaf[t]]
          /\ Cardinality(content[leaf[t]]) < MAX_LEAF_KEY
    /\ LeafCapacity

(* The logs hold the keys that are stored or about to be.                  *)
Logged(k) == \E t \in Thread : \E i \in DOMAIN log[t] : log[t][i].key = k

LogInv ==
    /\ LogNamesPLeaf
    /\ LoggedOnce
    /\ \A k \in Key : Logged(k) <=>
          \/ k \in Stored
          \/ \E t \in Thread : pc[t] = "publish" /\ op[t].key = k

(* The answer of a call is decided when its record is published.           *)
AnswerInv ==
    \A t \in Thread :
       /\ pc[t] = "unlock" => ret[t] = "true"
       /\ pc[t] \notin {"idle", "unlock"} => ret[t] = "none"

IInv ==
    /\ TypeOK /\ LocalsInv /\ LockInv /\ ClaimInv /\ AllocInv
    /\ RightLeafInv /\ RouteInv /\ SplitInv /\ RecordsAreRouted
    /\ AltInv /\ NewKeyInv /\ LogInv /\ AnswerInv

----------------------------------------------------------------------------
(* The chain of leaves and the scans that follow it: the invariant that    *)
(* relates next, which split_leaf writes, to the order of the keys, and    *)
(* says what a scan that holds no lock can still expect of the leaf it is  *)
(* about to read.                                                          *)

(* The thread t moved k to a leaf that the inner nodes do not know yet.    *)
Parts(t, k) == pc[t] \in HalfSplit /\ leaf[t] = route[k] /\ k > split_key[t]

(* Where a record with the key k is, or would be.                          *)
Belongs(k, l) ==
    \/ route[k] = l /\ \A t \in Thread : ~Parts(t, k)
    \/ \E t \in Thread : Parts(t, k) /\ other[t] = l

KeysOf == [l \in Leaf |-> {k \in Key : Belongs(k, l)}]

(* The keys not below all of S, those above all of S, and a set without    *)
(* gaps.                                                                   *)
NotBefore(S) == {k \in Key : \E j \in S : j <= k}
After(S) == {k \in Key : \A j \in S : j < k}
Convex(S) == \A i, k \in S : \A j \in Key : i < j /\ j < k => j \in S

ConvexInv == \A l \in Leaf : Convex(KeysOf[l])

(* Where a leaf ends the next begins, and the last leaf does not end.      *)
LinkInv ==
    \A l \in heap :
       After(KeysOf[l]) = IF next[l] \in Leaf THEN NotBefore(KeysOf[next[l]]) ELSE {}

(* Both halves of a split leaf have records: it was full, and the split    *)
(* key stays in the left one.                                              *)
HalvesInv ==
    \A t \in Thread :
       /\ pc[t] \in {"buffer", "mark", "split_leaf"} =>
             Cardinality(content[leaf[t]]) >= MAX_LEAF_KEY
       /\ pc[t] \in HalfSplit =>
             split_key[t] \in Key /\ route[split_key[t]] = leaf[t]

(* The records a scan still owes are not before the leaf that it is about  *)
(* to read, and behind the one that it has read.                           *)
Rest(t) == owed[t] \ scan_array[t]

Expects(t) ==
    /\ pc[t] \in {"acquire_read", "find_insert"} /\ op[t].kind = "scan" =>
          \A k \in owed[t] : op[t].key <= k
    /\ pc[t] \in {"scan_release", "scan_test", "scan_lock", "scan_read"} =>
          Rest(t) \subseteq NotBefore(KeysOf[leaf[t]])
    /\ pc[t] = "scan_unlock" /\ count[t] < op[t].count =>
          Rest(t) \subseteq After(KeysOf[leaf[t]])
    /\ pc[t] = "scan_next" =>
          leaf[t] \in Leaf /\ Rest(t) \subseteq After(KeysOf[leaf[t]])

ScanOK(t) ==
    /\ owed[t] \subseteq Stored
    /\ pc[t] \in {"fast_alt", "fast_read"} => fast[t]
    /\ ~fast[t] => Expects(t)

ScanInv == \A t \in Thread : ScanOK(t)

ChainInv == ConvexInv /\ LinkInv /\ HalvesInv /\ ScanInv

(* Inductive: IInv is, and every step that keeps it keeps ChainInv.        *)
ScanIInv == IInv /\ ChainInv
=============================================================================
