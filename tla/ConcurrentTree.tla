--------------------------- MODULE ConcurrentTree ---------------------------
(***************************************************************************)
(* Tree::insert and Tree::scan of zbtree.cpp run by several threads.       *)
(*                                                                         *)
(* Two locks protect the tree.  function_lock is a reader/writer spin lock *)
(* of TBB: a descent through the inner nodes holds it for reading, and an  *)
(* update of the inner nodes for writing.  temp_insert is one byte in each *)
(* DRAM leaf: 0 when the leaf is free, 1 when a thread has claimed it, 2   *)
(* when the claiming thread is splitting it.  While it is split, alt_ptr   *)
(* points at a copy of the records on the splitting thread's stack instead *)
(* of at the leaf's P_Leaf, so that other threads need not wait.           *)
(*                                                                         *)
(* The inner nodes appear here only as what they decide: route[k] is the   *)
(* leaf that find_insert reaches for the key k.  A leaf is the set of keys *)
(* its max_use slots hold.  One action stands for the code between two     *)
(* accesses to shared memory whose order other threads can observe.        *)
(***************************************************************************)
EXTENDS Naturals, FiniteSets, Sequences

CONSTANTS Thread,        \* client threads
          NoThread,      \* function_lock is held by no writer
          Key,           \* keys of the records
          Leaf,          \* the D_Leaf nodes malloc can return
          RootLeaf,      \* the leaf the constructor allocates
          NoLeaf,        \* nullptr
          WildPtr,       \* a pointer nobody initialised
          FreshNext,     \* what malloc may leave in the first leaf's next
          MAX_LEAF_KEY,  \* slots of a leaf, 30 in the code
          Workload       \* Workload[t]: the calls thread t makes, in any order

Op == [kind : {"insert", "scan"}, key : Key, count : Nat]
NoOp == [kind |-> "none", key |-> 0, count |-> 0]

ASSUME KeyAssumption == Key \subseteq Nat /\ IsFiniteSet(Key)
ASSUME LeafAssumption ==
    /\ RootLeaf \in Leaf
    /\ NoLeaf \notin Leaf
    /\ WildPtr \notin Leaf \cup {NoLeaf}
    /\ FreshNext \subseteq {NoLeaf, WildPtr}
ASSUME ThreadAssumption == NoThread \notin Thread /\ Thread \cap Leaf = {}
ASSUME CapacityAssumption ==
    /\ MAX_LEAF_KEY \in Nat \ {0}
    /\ MAX_LEAF_KEY % 2 = 0
ASSUME WorkloadAssumption == Workload \in [Thread -> SUBSET Op]

SPLIT_POS == (MAX_LEAF_KEY \div 2) - 1

VARIABLES
    \* function_lock
    readers, writer, writer_pending,
    \* the inner nodes: their routing, and whether root is a leaf (temp_level = 0)
    route, root_is_leaf,
    \* the DRAM leaves
    heap, content, next, temp_insert, alt_ptr,
    \* log[t]: the entries thread t appended to its log segment
    log,
    \* threads: what they still have to call, the call they are in, its locals
    todo, pc, op, ret, leaf, other, ptr, split_key, dram_buffer,
    \* locals of a scan, whether it took the fast path, and the records that
    \* were stored at or above start_key when it was called
    count, scan_array, fast, owed

lockVars == <<readers, writer, writer_pending>>
indexVars == <<route, root_is_leaf>>
leafVars == <<heap, content, next, temp_insert, alt_ptr>>
localVars == <<leaf, other, ptr, split_key, dram_buffer>>
callVars == <<todo, op, ret>>
scanVars == <<count, scan_array, fast, owed>>
vars == <<lockVars, indexVars, leafVars, log, callVars, pc, localVars, scanVars>>

----------------------------------------------------------------------------
(* The program points.                                                     *)

ReadHeld == {"find_insert", "cas", "backoff", "release", "scan_release"}
WriteHeld == {"new_root", "split_inner", "unmark", "restore", "release_write"}
\* after split_leaf made the right leaf, before the inner nodes know it
HalfSplit == {"check_root", "wait_root", "wait_smo", "new_root", "split_inner"}
\* temp_insert is 2
Marked == {"split_leaf", "unmark"} \cup HalfSplit
InsertOwns == {"release", "check", "append", "publish", "unlock",
               "buffer", "mark"} \cup Marked
ScanOwns == {"scan_read", "scan_unlock"}
OwnsLeaf == InsertOwns \cup ScanOwns
\* alt_ptr leads to the thread's buffer, which is in scope
BufferLive == {"mark", "restore"} \cup Marked
PC == {"idle", "acquire_read", "scan_test", "scan_lock", "scan_next",
       "fast_sibling", "fast_alt", "fast_read", "undefined"}
      \cup ReadHeld \cup WriteHeld \cup OwnsLeaf

Stored == {k \in Key : \E l \in Leaf : k \in content[l]}

Goto(t, label) == pc' = [pc EXCEPT ![t] = label]

(* The constructor: the root is an empty leaf.  It never writes the next   *)
(* field of that leaf, which keeps what malloc left there.                 *)
EmptyTree ==
    /\ readers = {} /\ writer = NoThread /\ writer_pending = FALSE
    /\ route = [k \in Key |-> RootLeaf]
    /\ root_is_leaf = TRUE
    /\ heap = {RootLeaf}
    /\ content = [l \in Leaf |-> {}]
    /\ \E p \in FreshNext :
          next = [l \in Leaf |-> IF l = RootLeaf THEN p ELSE NoLeaf]
    /\ temp_insert = [l \in Leaf |-> 0]
    /\ alt_ptr = [l \in Leaf |-> l]
    /\ log = [t \in Thread |-> << >>]
    /\ pc = [t \in Thread |-> "idle"]
    /\ op = [t \in Thread |-> NoOp]
    /\ ret = [t \in Thread |-> "none"]
    /\ leaf = [t \in Thread |-> NoLeaf]
    /\ other = [t \in Thread |-> NoLeaf]
    /\ ptr = [t \in Thread |-> NoLeaf]
    /\ split_key = [t \in Thread |-> 0]
    /\ dram_buffer = [t \in Thread |-> {}]
    /\ count = [t \in Thread |-> 0]
    /\ scan_array = [t \in Thread |-> {}]
    /\ fast = [t \in Thread |-> FALSE]
    /\ owed = [t \in Thread |-> {}]

Init == EmptyTree /\ todo = Workload

(* A thread calls insert or scan.                                          *)
Invoke(t) ==
    /\ pc[t] = "idle"
    /\ \E o \in todo[t] :
          /\ todo' = [todo EXCEPT ![t] = @ \ {o}]
          /\ op' = [op EXCEPT ![t] = o]
          /\ owed' = [owed EXCEPT ![t] =
                        IF o.kind = "scan" THEN {k \in Stored : k >= o.key} ELSE {}]
    /\ ret' = [ret EXCEPT ![t] = "none"]
    /\ count' = [count EXCEPT ![t] = 0]
    /\ scan_array' = [scan_array EXCEPT ![t] = {}]
    /\ fast' = [fast EXCEPT ![t] = FALSE]
    /\ Goto(t, "acquire_read")
    /\ UNCHANGED <<lockVars, indexVars, leafVars, log, localVars>>

(* The call returns; its locals are gone.                                  *)
Return(t, answer) ==
    /\ Goto(t, "idle")
    /\ op' = [op EXCEPT ![t] = NoOp]
    /\ ret' = [ret EXCEPT ![t] = answer]
    /\ leaf' = [leaf EXCEPT ![t] = NoLeaf]
    /\ other' = [other EXCEPT ![t] = NoLeaf]
    /\ ptr' = [ptr EXCEPT ![t] = NoLeaf]
    /\ UNCHANGED <<todo, split_key, dram_buffer>>

----------------------------------------------------------------------------
(* function_lock, a tbb::speculative_spin_rw_mutex: a waiting writer keeps *)
(* new readers out, and taking or releasing the lock for writing clears    *)
(* the mark of the waiting writers.                                        *)

Busy == readers # {} \/ writer # NoThread

TakeRead(t) ==
    /\ writer = NoThread /\ ~writer_pending
    /\ readers' = readers \cup {t}
    /\ UNCHANGED <<writer, writer_pending>>

DropRead(t) ==
    /\ readers' = readers \ {t}
    /\ UNCHANGED <<writer, writer_pending>>

TakeWrite(t) ==
    /\ ~Busy
    /\ writer' = t /\ writer_pending' = FALSE
    /\ UNCHANGED readers

DropWrite ==
    /\ writer' = NoThread /\ writer_pending' = FALSE
    /\ UNCHANGED readers

AnnounceWrite(t) ==
    /\ pc[t] \in {"wait_root", "wait_smo"}
    /\ Busy /\ ~writer_pending
    /\ writer_pending' = TRUE
    /\ UNCHANGED <<readers, writer, indexVars, leafVars, log, callVars, pc,
                   localVars, scanVars>>

----------------------------------------------------------------------------
(* The descent, the same for insert and scan.                              *)

AcquireRead(t) ==
    /\ pc[t] = "acquire_read"
    /\ TakeRead(t)
    /\ Goto(t, "find_insert")
    /\ UNCHANGED <<indexVars, leafVars, log, callVars, localVars, scanVars>>

\* Fault: function_lock is released before the leaf is claimed.
FindInsertUnlocked(t) ==
    /\ pc[t] = "find_insert"
    /\ leaf' = [leaf EXCEPT ![t] = route[op[t].key]]
    /\ Goto(t, IF op[t].kind = "insert" THEN "cas" ELSE "scan_release")
    /\ DropRead(t)
    /\ UNCHANGED <<indexVars, leafVars, log, callVars, other, ptr,
                   split_key, dram_buffer, scanVars>>

FindInsert(t) ==
    /\ pc[t] = "find_insert"
    /\ leaf' = [leaf EXCEPT ![t] = route[op[t].key]]
    /\ Goto(t, IF op[t].kind = "insert" THEN "cas" ELSE "scan_release")
    /\ UNCHANGED <<lockVars, indexVars, leafVars, log, callVars, other, ptr,
                   split_key, dram_buffer, scanVars>>

----------------------------------------------------------------------------
(* Tree::insert.                                                           *)

\* Fault: temp_insert is stored without being compared.
TryClaimBlindly(t) ==
    /\ pc[t] = "cas"
    /\ temp_insert' = [temp_insert EXCEPT ![leaf[t]] = 1]
    /\ Goto(t, "release")
    /\ UNCHANGED <<lockVars, indexVars, heap, content, next, alt_ptr, log,
                   callVars, localVars, scanVars>>

(* The compare-and-swap of temp_insert from 0 to 1, under function_lock.   *)
TryClaim(t) ==
    /\ pc[t] = "cas"
    /\ \/ /\ temp_insert[leaf[t]] = 0
          /\ temp_insert' = [temp_insert EXCEPT ![leaf[t]] = 1]
          /\ Goto(t, "release")
       \/ /\ temp_insert[leaf[t]] # 0
          /\ Goto(t, "backoff")
          /\ UNCHANGED temp_insert
    /\ UNCHANGED <<lockVars, indexVars, heap, content, next, alt_ptr, log,
                   callVars, localVars, scanVars>>

\* Fault: function_lock is not released when the leaf is another thread's.
ReleaseReadKeeping(t) ==
    /\ \/ pc[t] = "backoff" /\ Goto(t, "acquire_read") /\ UNCHANGED lockVars
       \/ pc[t] = "release" /\ Goto(t, "check") /\ DropRead(t)
    /\ UNCHANGED <<indexVars, leafVars, log, callVars, localVars, scanVars>>

ReleaseRead(t) ==
    /\ \/ pc[t] = "backoff" /\ Goto(t, "acquire_read")
       \/ pc[t] = "release" /\ Goto(t, "check")
    /\ DropRead(t)
    /\ UNCHANGED <<indexVars, leafVars, log, callVars, localVars, scanVars>>

(* The key is in the leaf: return false, without resetting temp_insert.    *)
FindDuplicate(t) ==
    /\ pc[t] = "check"
    /\ op[t].key \in content[leaf[t]]
    /\ Return(t, "false")
    /\ UNCHANGED <<lockVars, indexVars, leafVars, log, scanVars>>

\* Fault: max_use <= MAX_LEAF_KEY.
CheckRoomInclusive(t) ==
    /\ pc[t] = "check"
    /\ op[t].key \notin content[leaf[t]]
    /\ Goto(t, IF Cardinality(content[leaf[t]]) <= MAX_LEAF_KEY THEN "append"
                                                               ELSE "buffer")
    /\ UNCHANGED <<lockVars, indexVars, leafVars, log, callVars, localVars, scanVars>>

\* Fault: the key is not looked for.
CheckRoomUnchecked(t) ==
    /\ pc[t] = "check"
    /\ Goto(t, IF Cardinality(content[leaf[t]]) < MAX_LEAF_KEY THEN "append"
                                                              ELSE "buffer")
    /\ UNCHANGED <<lockVars, indexVars, leafVars, log, callVars, localVars, scanVars>>

(* It is not: the leaf has room, or has to be split.                       *)
CheckRoom(t) ==
    /\ pc[t] = "check"
    /\ op[t].key \notin content[leaf[t]]
    /\ Goto(t, IF Cardinality(content[leaf[t]]) < MAX_LEAF_KEY THEN "append"
                                                              ELSE "buffer")
    /\ UNCHANGED <<lockVars, indexVars, leafVars, log, callVars, localVars, scanVars>>

\* Fault: the log entry is not written.
AppendOneSkipped(t) ==
    /\ pc[t] = "append"
    /\ Goto(t, "publish")
    /\ UNCHANGED <<lockVars, indexVars, leafVars, log, callVars, localVars, scanVars>>

(* The record is persisted in the thread's log, with the leaf's alt_ptr.   *)
AppendOne(t) ==
    /\ pc[t] = "append"
    /\ log' = [log EXCEPT ![t] =
                 Append(@, [key |-> op[t].key, pptr |-> alt_ptr[leaf[t]]])]
    /\ Goto(t, "publish")
    /\ UNCHANGED <<lockVars, indexVars, leafVars, callVars, localVars, scanVars>>

(* max_use is raised and the new slot filled.                              *)
PublishSlot(t) ==
    /\ pc[t] = "publish"
    /\ content' = [content EXCEPT ![leaf[t]] = @ \cup {op[t].key}]
    /\ ret' = [ret EXCEPT ![t] = "true"]
    /\ Goto(t, "unlock")
    /\ UNCHANGED <<lockVars, indexVars, heap, next, temp_insert, alt_ptr, log,
                   todo, op, localVars, scanVars>>

\* Fault: temp_insert is not reset.
UnlockLeafForgotten(t) ==
    /\ pc[t] = "unlock"
    /\ Return(t, "true")
    /\ UNCHANGED <<lockVars, indexVars, leafVars, log, scanVars>>

UnlockLeaf(t) ==
    /\ pc[t] = "unlock"
    /\ temp_insert' = [temp_insert EXCEPT ![leaf[t]] = 0]
    /\ Return(t, "true")
    /\ UNCHANGED <<lockVars, indexVars, heap, content, next, alt_ptr, log, scanVars>>

\* Fault: the P_Leaf is not remembered before alt_ptr is overwritten.
FillBufferForgetful(t) ==
    /\ pc[t] = "buffer"
    /\ dram_buffer' = [dram_buffer EXCEPT ![t] = content[leaf[t]]]
    /\ alt_ptr' = [alt_ptr EXCEPT ![leaf[t]] = t]
    /\ Goto(t, "mark")
    /\ UNCHANGED <<lockVars, indexVars, heap, content, next, temp_insert, log,
                   callVars, leaf, other, ptr, split_key, scanVars>>

(* The records are copied, sorted, and alt_ptr turned to the copy.         *)
FillBuffer(t) ==
    /\ pc[t] = "buffer"
    /\ ptr' = [ptr EXCEPT ![t] = alt_ptr[leaf[t]]]
    /\ dram_buffer' = [dram_buffer EXCEPT ![t] = content[leaf[t]]]
    /\ alt_ptr' = [alt_ptr EXCEPT ![leaf[t]] = t]
    /\ Goto(t, "mark")
    /\ UNCHANGED <<lockVars, indexVars, heap, content, next, temp_insert, log,
                   callVars, leaf, other, split_key, scanVars>>

MarkSplit(t) ==
    /\ pc[t] = "mark"
    /\ temp_insert' = [temp_insert EXCEPT ![leaf[t]] = (@ + 1) % 256]
    /\ Goto(t, "split_leaf")
    /\ UNCHANGED <<lockVars, indexVars, heap, content, next, alt_ptr, log,
                   callVars, localVars, scanVars>>

(* dram_buffer[SPLIT_POS].one_key                                          *)
IsSplitKey(k, S) ==
    /\ k \in S
    /\ Cardinality({j \in S : j < k}) = SPLIT_POS

(* malloc returns a leaf nobody uses; Leaf bounds the number of leaves.    *)
NewLeaf == CHOOSE n \in Leaf \ heap : TRUE

\* Fault: the rest of the chain is lost.
LinkLosingTail(l, n) == next' = [next EXCEPT ![n] = NoLeaf, ![l] = n]
\* Fault: the new leaf is linked in front of the old one.
LinkInFront(l, n) == next' = [next EXCEPT ![n] = l]
\* The new leaf is linked behind the old one.
LinkBehind(l, n) == next' = [next EXCEPT ![n] = next[l], ![l] = n]

(* The new leaf takes the records above the split key and is linked behind *)
(* the old one.                                                            *)
SplitLeaf(t) ==
    /\ pc[t] = "split_leaf"
    /\ Leaf \ heap # {}
    /\ \E k \in dram_buffer[t] :
          /\ IsSplitKey(k, dram_buffer[t])
          /\ split_key' = [split_key EXCEPT ![t] = k]
          /\ content' = [content EXCEPT
                           ![NewLeaf] = {j \in dram_buffer[t] : j > k},
                           ![leaf[t]] = {j \in dram_buffer[t] : j <= k}]
    /\ other' = [other EXCEPT ![t] = NewLeaf]
    /\ heap' = heap \cup {NewLeaf}
    /\ LinkBehind(leaf[t], NewLeaf)
    /\ temp_insert' = [temp_insert EXCEPT ![NewLeaf] = 0]
    /\ alt_ptr' = [alt_ptr EXCEPT ![NewLeaf] = NewLeaf]
    /\ Goto(t, "check_root")
    /\ UNCHANGED <<lockVars, indexVars, log, callVars, leaf, ptr, dram_buffer, scanVars>>

(* if(temp_level == 0), read while the leaf is claimed but nothing else.   *)
CheckRoot(t) ==
    /\ pc[t] = "check_root"
    /\ Goto(t, IF root_is_leaf THEN "wait_root" ELSE "wait_smo")
    /\ UNCHANGED <<lockVars, indexVars, leafVars, log, callVars, localVars, scanVars>>

AcquireWrite(t) ==
    /\ \/ pc[t] = "wait_root" /\ Goto(t, "new_root")
       \/ pc[t] = "wait_smo" /\ Goto(t, "split_inner")
    /\ TakeWrite(t)
    /\ UNCHANGED <<indexVars, leafVars, log, callVars, localVars, scanVars>>

(* A new root with one separator over the two leaves.                      *)
NewRoot(t) ==
    /\ pc[t] = "new_root"
    /\ route' = [k \in Key |-> IF k <= split_key[t] THEN leaf[t] ELSE other[t]]
    /\ root_is_leaf' = FALSE
    /\ Goto(t, "unmark")
    /\ UNCHANGED <<lockVars, leafVars, log, callVars, localVars, scanVars>>

\* Fault: the separator goes to the right leaf.
SplitInnerAtSeparator(t) ==
    /\ pc[t] = "split_inner"
    /\ route' = [k \in Key |-> IF route[k] = route[op[t].key] /\ k >= split_key[t]
                                 THEN other[t] ELSE route[k]]
    /\ Goto(t, "unmark")
    /\ UNCHANGED <<lockVars, root_is_leaf, leafVars, log, callVars, localVars, scanVars>>

\* Fault: alt_ptr is restored before temp_insert is reset.
SplitInnerRestoring(t) ==
    /\ pc[t] = "split_inner"
    /\ route' = [k \in Key |-> IF route[k] = route[op[t].key] /\ k > split_key[t]
                                 THEN other[t] ELSE route[k]]
    /\ alt_ptr' = [alt_ptr EXCEPT ![leaf[t]] = ptr[t]]
    /\ Goto(t, "unmark")
    /\ UNCHANGED <<lockVars, root_is_leaf, heap, content, next, temp_insert, log,
                   callVars, localVars, scanVars>>

(* find_insert again, then splitInnerNode puts the separator and the new   *)
(* leaf to the right of where the key's path ends.                         *)
SplitInner(t) ==
    /\ pc[t] = "split_inner"
    /\ route' = [k \in Key |-> IF route[k] = route[op[t].key] /\ k > split_key[t]
                                 THEN other[t] ELSE route[k]]
    /\ Goto(t, "unmark")
    /\ UNCHANGED <<lockVars, root_is_leaf, leafVars, log, callVars, localVars, scanVars>>

\* Fault: function_lock is released where the commented-out release stands.
UnmarkReleasing(t) ==
    /\ pc[t] = "unmark"
    /\ DropWrite
    /\ temp_insert' = [temp_insert EXCEPT ![leaf[t]] = 0]
    /\ Goto(t, "restore")
    /\ UNCHANGED <<indexVars, heap, content, next, alt_ptr, log,
                   callVars, localVars, scanVars>>

(* temp_insert = 0, then alt_ptr = insert_leaf, then the release.          *)
Unmark(t) ==
    /\ pc[t] = "unmark"
    /\ temp_insert' = [temp_insert EXCEPT ![leaf[t]] = 0]
    /\ Goto(t, "restore")
    /\ UNCHANGED <<lockVars, indexVars, heap, content, next, alt_ptr, log,
                   callVars, localVars, scanVars>>

RestoreAlt(t) ==
    /\ pc[t] = "restore"
    /\ alt_ptr' = [alt_ptr EXCEPT ![leaf[t]] = ptr[t]]
    /\ Goto(t, "release_write")
    /\ UNCHANGED <<lockVars, indexVars, heap, content, next, temp_insert, log,
                   callVars, localVars, scanVars>>

(* The write lock is released and the insert starts over.                  *)
ReleaseWrite(t) ==
    /\ pc[t] = "release_write"
    /\ DropWrite
    /\ Goto(t, "acquire_read")
    /\ leaf' = [leaf EXCEPT ![t] = NoLeaf]
    /\ other' = [other EXCEPT ![t] = NoLeaf]
    /\ ptr' = [ptr EXCEPT ![t] = NoLeaf]
    /\ dram_buffer' = [dram_buffer EXCEPT ![t] = {}]
    /\ split_key' = [split_key EXCEPT ![t] = 0]
    /\ UNCHANGED <<indexVars, leafVars, log, callVars, scanVars>>

----------------------------------------------------------------------------
(* Tree::scan.                                                             *)

ScanRelease(t) ==
    /\ pc[t] = "scan_release"
    /\ DropRead(t)
    /\ Goto(t, "scan_test")
    /\ UNCHANGED <<indexVars, leafVars, log, callVars, localVars, scanVars>>

(* Head of the loop; a leaf being split is read without claiming it.       *)
ScanTest(t) ==
    /\ pc[t] = "scan_test"
    /\ \/ /\ count[t] >= op[t].count
          /\ Return(t, "true")
       \/ /\ count[t] < op[t].count
          /\ Goto(t, IF temp_insert[leaf[t]] > 1 THEN "fast_sibling" ELSE "scan_lock")
          /\ UNCHANGED <<callVars, localVars>>
    /\ UNCHANGED <<lockVars, indexVars, leafVars, log, scanVars>>

(* The inner loop: claim the leaf, or turn to the fast path, or spin.      *)
ScanClaim(t) ==
    /\ pc[t] = "scan_lock"
    /\ \/ /\ temp_insert[leaf[t]] > 1
          /\ Goto(t, "fast_sibling")
          /\ UNCHANGED temp_insert
       \/ /\ temp_insert[leaf[t]] = 0
          /\ temp_insert' = [temp_insert EXCEPT ![leaf[t]] = 1]
          /\ Goto(t, "scan_read")
    /\ UNCHANGED <<lockVars, indexVars, heap, content, next, alt_ptr, log,
                   callVars, localVars, scanVars>>

(* taken: the records of S that fit in the n places left.                  *)
Takes(taken, S, n) ==
    /\ taken \subseteq S
    /\ \/ taken = S /\ Cardinality(S) <= n
       \/ Cardinality(S) > n /\ Cardinality(taken) = n

Collect(t, taken) ==
    /\ count' = [count EXCEPT ![t] = @ + Cardinality(taken)]
    /\ scan_array' = [scan_array EXCEPT ![t] = @ \cup taken]

(* All slots are read from the first; start_key is not looked at.          *)
ScanRead(t) ==
    /\ pc[t] = "scan_read"
    /\ \E taken \in SUBSET content[leaf[t]] :
          /\ Takes(taken, content[leaf[t]], op[t].count - count[t])
          /\ Collect(t, taken)
    /\ Goto(t, "scan_unlock")
    /\ UNCHANGED <<lockVars, indexVars, leafVars, log, callVars, localVars, fast, owed>>

ScanUnlock(t) ==
    /\ pc[t] = "scan_unlock"
    /\ temp_insert' = [temp_insert EXCEPT ![leaf[t]] = 0]
    /\ \/ /\ count[t] >= op[t].count
          /\ Return(t, "true")
       \/ /\ count[t] < op[t].count
          /\ Goto(t, "scan_next")
          /\ UNCHANGED <<callVars, localVars>>
    /\ UNCHANGED <<lockVars, indexVars, heap, content, next, alt_ptr, log, scanVars>>

(* After a leaf was read by either path.  leaf_meta->next is evaluated     *)
(* even when the fast path has set leaf_meta to a null sibling.            *)
ScanNext(t) ==
    /\ pc[t] = "scan_next"
    /\ \/ /\ leaf[t] \notin Leaf
          /\ Goto(t, "undefined")
          /\ UNCHANGED <<callVars, localVars>>
       \/ /\ leaf[t] \in Leaf
          /\ next[leaf[t]] = NoLeaf
          /\ Return(t, "true")
       \/ /\ leaf[t] \in Leaf
          /\ next[leaf[t]] # NoLeaf
          /\ leaf' = [leaf EXCEPT ![t] = next[leaf[t]]]
          /\ Goto(t, IF next[leaf[t]] \in Leaf THEN "scan_test" ELSE "undefined")
          /\ UNCHANGED <<callVars, other, ptr, split_key, dram_buffer>>
    /\ UNCHANGED <<lockVars, indexVars, leafVars, log, scanVars>>

(* Fast_scan: sibling, then alt_ptr, then the records behind it, nothing   *)
(* of which is protected by a lock.                                        *)
FastSibling(t) ==
    /\ pc[t] = "fast_sibling"
    /\ other' = [other EXCEPT ![t] = next[leaf[t]]]
    /\ fast' = [fast EXCEPT ![t] = TRUE]
    /\ Goto(t, "fast_alt")
    /\ UNCHANGED <<lockVars, indexVars, leafVars, log, callVars, leaf, ptr,
                   split_key, dram_buffer, count, scan_array, owed>>

FastAlt(t) ==
    /\ pc[t] = "fast_alt"
    /\ ptr' = [ptr EXCEPT ![t] = alt_ptr[leaf[t]]]
    /\ Goto(t, "fast_read")
    /\ UNCHANGED <<lockVars, indexVars, leafVars, log, callVars, leaf, other,
                   split_key, dram_buffer, scanVars>>

(* ptr[t] is the buffer of a thread that has not left its scope.           *)
ReadsLiveBuffer(t) == ptr[t] \in Thread /\ pc[ptr[t]] \in BufferLive

(* The smallest records at or above start_key, for the buffer is sorted.   *)
FastRead(t) ==
    /\ pc[t] = "fast_read"
    /\ \/ /\ ~ReadsLiveBuffer(t)
          /\ Goto(t, "undefined")
          /\ UNCHANGED <<callVars, localVars, scanVars>>
       \/ /\ ReadsLiveBuffer(t)
          /\ LET S == {k \in dram_buffer[ptr[t]] : op[t].key <= k}
             IN \E taken \in SUBSET S :
                   /\ Takes(taken, S, op[t].count - count[t])
                   /\ \A j \in taken, k \in S \ taken : j < k
                   /\ Collect(t, taken)
          /\ \/ /\ count'[t] >= op[t].count
                /\ Return(t, "true")
             \/ /\ count'[t] < op[t].count
                /\ leaf' = [leaf EXCEPT ![t] = other[t]]
                /\ other' = [other EXCEPT ![t] = NoLeaf]
                /\ ptr' = [ptr EXCEPT ![t] = NoLeaf]
                /\ Goto(t, "scan_next")
                /\ UNCHANGED <<callVars, split_key, dram_buffer>>
          /\ UNCHANGED <<fast, owed>>
    /\ UNCHANGED <<lockVars, indexVars, leafVars, log>>

----------------------------------------------------------------------------
InsertStep(t) ==
    \/ TryClaim(t) \/ ReleaseRead(t) \/ FindDuplicate(t) \/ CheckRoom(t)
    \/ AppendOne(t) \/ PublishSlot(t) \/ UnlockLeaf(t)
    \/ FillBuffer(t) \/ MarkSplit(t) \/ SplitLeaf(t) \/ CheckRoot(t)
    \/ AnnounceWrite(t) \/ AcquireWrite(t) \/ NewRoot(t) \/ SplitInner(t)
    \/ Unmark(t) \/ RestoreAlt(t) \/ ReleaseWrite(t)

ScanStep(t) ==
    \/ ScanRelease(t) \/ ScanTest(t) \/ ScanClaim(t) \/ ScanRead(t)
    \/ ScanUnlock(t) \/ ScanNext(t) \/ FastSibling(t) \/ FastAlt(t) \/ FastRead(t)

Step(t) == Invoke(t) \/ AcquireRead(t) \/ FindInsert(t) \/ InsertStep(t) \/ ScanStep(t)

(* The run of the workload is over.                                        *)
Done ==
    /\ \A t \in Thread : pc[t] = "undefined" \/ (pc[t] = "idle" /\ todo[t] = {})
    /\ UNCHANGED vars

Next == Done \/ \E t \in Thread : Step(t)

Spec == Init /\ [][Next]_vars

(* Every thread keeps being scheduled; a spinning thread may lose each     *)
(* single race for a lock.                                                 *)
FairSpec == Spec /\ \A t \in Thread : WF_vars(Step(t))
----------------------------------------------------------------------------
(* Properties.                                                             *)

(* Type invariant: every variable ranges over what its C++ type and use    *)
(* in Tree::insert and Tree::scan allow.                                   *)
LockType == /\ readers \subseteq Thread
            /\ writer \in Thread \cup {NoThread}
            /\ writer_pending \in BOOLEAN
IndexType == route \in [Key -> Leaf] /\ root_is_leaf \in BOOLEAN
LeafType == /\ heap \subseteq Leaf
            /\ content \in [Leaf -> SUBSET Key]
            /\ next \in [Leaf -> Leaf \cup {NoLeaf, WildPtr}]
            /\ temp_insert \in [Leaf -> 0 .. 255]
            /\ alt_ptr \in [Leaf -> Leaf \cup Thread]
LogType == log \in [Thread -> Seq([key : Key, pptr : Leaf \cup Thread])]
CallType == /\ todo \in [Thread -> SUBSET Op]
            /\ op \in [Thread -> Op \cup {NoOp}]
            /\ ret \in [Thread -> {"none", "true", "false"}]
LocalType == /\ leaf \in [Thread -> Leaf \cup {NoLeaf, WildPtr}]
             /\ other \in [Thread -> Leaf \cup {NoLeaf, WildPtr}]
             /\ ptr \in [Thread -> Leaf \cup Thread \cup {NoLeaf}]
             /\ split_key \in [Thread -> Nat]
             /\ dram_buffer \in [Thread -> SUBSET Key]
ScanType == /\ count \in [Thread -> Nat]
            /\ scan_array \in [Thread -> SUBSET Key]
            /\ fast \in [Thread -> BOOLEAN]
            /\ owed \in [Thread -> SUBSET Key]

TypeOK == /\ LockType /\ IndexType /\ LeafType /\ LogType
          /\ pc \in [Thread -> PC]
          /\ CallType /\ LocalType /\ ScanType

(* The critical section of a leaf ("enter critical section" in insert) has *)
(* one thread in it: no two threads between a successful compare-and-swap  *)
(* of temp_insert and its reset work on the same leaf, scans included.     *)
LeafMutex ==
    \A t, u \in Thread :
       t # u /\ pc[t] \in OwnsLeaf /\ pc[u] \in OwnsLeaf => leaf[t] # leaf[u]

(* No record is ever in two leaves, and the inner nodes lead to the leaf   *)
(* that has it, unless a thread that has claimed the leaf they lead to is  *)
(* halfway through splitting it and holds the record in the new right one. *)
InTransit(k, l) ==
    \E t \in Thread : /\ pc[t] \in HalfSplit
                      /\ other[t] = l
                      /\ route[k] = leaf[t]
                      /\ k > split_key[t]

RecordsAreRouted ==
    \A l \in Leaf : \A k \in content[l] : route[k] = l \/ InTransit(k, l)

(* A thread that claimed a leaf for insertion holds the leaf its key is    *)
(* routed to for as long as it may write to it or split it: the route read *)
(* under function_lock is still right after function_lock was released,    *)
(* and so are the outcome of the test temp_level == 0 and the path found   *)
(* before the separator is inserted.                                       *)
RouteStaysValid ==
    \A t \in Thread :
       /\ pc[t] \in InsertOwns \ {"unmark"} => route[op[t].key] = leaf[t]
       /\ pc[t] \in {"wait_root", "new_root"} => root_is_leaf
       /\ pc[t] \in {"wait_smo", "split_inner"} => ~root_is_leaf

(* The test of max_use against MAX_LEAF_KEY and the write of the slot are  *)
(* separate steps; still no leaf ever gets more records than slots.        *)
LeafCapacity == \A l \in Leaf : Cardinality(content[l]) <= MAX_LEAF_KEY

(* alt_ptr is "pointed to log or leaf": an insert that appends reads it    *)
(* from its claimed leaf without testing it.  What it persists in the log  *)
(* is always the leaf's own P_Leaf, never the address of a stack buffer.   *)
LogNamesPLeaf == \A t \in Thread : \A i \in DOMAIN log[t] : log[t][i].pptr \in Leaf

(* Recovery replays every log and aborts on a key it meets twice           *)
(* (quick_insert): no key is appended twice, over all logs together.       *)
LoggedOnce ==
    \A t, u \in Thread : \A i \in DOMAIN log[t], j \in DOMAIN log[u] :
       log[t][i].key = log[u][j].key => t = u /\ i = j

(* A record other threads can read has been persisted before: a crash      *)
(* loses no insert that has returned.                                      *)
StoredIsLogged ==
    \A k \in Stored : \E t \in Thread : \E i \in DOMAIN log[t] : log[t][i].key = k

(* What a reader that finds temp_insert > 1 relies on ("is being split,    *)
(* find value from the alt buffer"): at that instant alt_ptr leads to a    *)
(* live buffer that has every record of the two halves.                    *)
SplitHasBuffer ==
    \A l \in Leaf : temp_insert[l] = 2 =>
       \E t \in Thread :
          /\ alt_ptr[l] = t /\ leaf[t] = l /\ pc[t] \in BufferLive
          /\ content[l] \subseteq dram_buffer[t]
          /\ pc[t] \in HalfSplit => content[other[t]] \subseteq dram_buffer[t]

(* The chain of next pointers, which scan follows, is in key order even    *)
(* while a leaf is being split.                                            *)
ChainOrdered ==
    \A l \in heap : next[l] \in Leaf =>
       /\ next[l] \in heap
       /\ \A j \in content[l], k \in content[next[l]] : j < k

(* A scan that reaches the end of the chain and only ever read claimed     *)
(* leaves returns every record at or above its start key that was there    *)
(* when it was called, though it holds no lock between two leaves and any  *)
(* of them may be split meanwhile.                                         *)
ScanEnds(t) == pc[t] = "scan_next" /\ pc'[t] = "idle"

ClaimingScanComplete ==
    [][\A t \in Thread : ScanEnds(t) /\ ~fast[t] => owed[t] \subseteq scan_array[t]]_vars

(* insert and scan implement the set of keys of KVSet.                     *)
KV == INSTANCE KVSet WITH present <- Stored
ImplementsKVSet == KV!Spec

(* With distinct keys, every call returns.                                 *)
EveryCallReturns ==
    \A t \in Thread : (pc[t] # "idle") ~> (pc[t] \in {"idle", "undefined"})

(* What the comments and interface documentation say and the code does not *)
(* do.                                                                     *)

(* A call that has returned has left the critical section it entered       *)
(* ("enter critical section"): with no call under way no leaf is claimed.  *)
NoLeafClaimedAtRest ==
    (\A t \in Thread : pc[t] = "idle") => \A l \in Leaf : temp_insert[l] = 0

(* A scan returns a sequence of records in ascending key order             *)
(* (Tree_api::scan): none of them twice.                                   *)
ScanReturnsNoRecordTwice ==
    \A t \in Thread : count[t] = Cardinality(scan_array[t])

(* A scan starts from the record with the given key (Tree_api::scan).      *)
ScanStartsAtKey ==
    \A t \in Thread : \A k \in scan_array[t] : k >= op[t].key

(* A scan returns a contiguous sequence (Tree_api::scan): at the end of    *)
(* the chain it has every record that was there when it was called.        *)
ScanComplete ==
    [][\A t \in Thread : ScanEnds(t) => owed[t] \subseteq scan_array[t]]_vars

(* scan tests leaf_meta against nullptr before it uses it.                 *)
ScanStaysOnLeaves == \A t \in Thread : pc[t] = "scan_next" => leaf[t] \in Leaf

(* The chain ends in nullptr, which is what scan tests for.                *)
ChainEndsInNull == \A l \in heap : next[l] # WildPtr

(* A leaf found being split is read from its buffer.                       *)
FastScanReadsBuffer ==
    \A t \in Thread : pc[t] = "fast_read" =>
       ReadsLiveBuffer(t) /\ leaf[ptr[t]] = leaf[t]
============================================================================
