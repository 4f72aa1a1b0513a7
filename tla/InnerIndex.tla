------------------------------ MODULE InnerIndex ------------------------------
(***************************************************************************)
(* The inner nodes of Tree: find_insert, the growth of the root in insert, *)
(* and splitInnerNode, write by write; a memset of keys or of pointers is  *)
(* one write, and the half copied to a node nobody knows yet is one.       *)
(*                                                                         *)
(* An inner node has a left-most pointer and max_size separators, each     *)
(* with the pointer to its right; a key goes to the right of the           *)
(* separators smaller than it.  temp_level counts the levels of inner      *)
(* nodes.  ConcurrentTree has instead of them the function they compute:   *)
(* here that function is home, changed when a leaf is split, and the       *)
(* separator that makes the inner nodes agree with it is inserted later,   *)
(* by a thread that has function_lock for writing (smo).  Meanwhile other  *)
(* threads may split other leaves.                                         *)
(***************************************************************************)
EXTENDS Integers, FiniteSetsExt, SequencesExt

CONSTANTS Key,           \* the keys records have
          Leaf,          \* the leaves malloc can return
          RootLeaf,      \* the leaf the constructor allocates
          Node,          \* the inner nodes malloc can return
          Null,          \* nullptr
          MAX_LEAF_KEY,  \* separators of an inner node, 30 in the code
          MaxWaiting     \* bound on the leaves being split at one time

ASSUME KeyAssumption == Key \subseteq Nat /\ IsFiniteSet(Key) /\ Key # {}
ASSUME HeapAssumption == RootLeaf \in Leaf /\ Leaf \cap Node = {} /\ Null \notin Leaf \cup Node
ASSUME CapacityAssumption == MAX_LEAF_KEY \in Nat \ {0} /\ MAX_LEAF_KEY % 2 = 0

SPLIT_POS == (MAX_LEAF_KEY \div 2) - 1
LEFT_KEY == MAX_LEAF_KEY \div 2
RIGHT_KEY == MAX_LEAF_KEY \div 2
Slot == 0 .. MAX_LEAF_KEY
\* 0xff in every byte
AllOnes == Max(Key) + 1

VARIABLES node,        \* the inner nodes
          nodes,       \* those malloc has returned
          root,
          temp_level,
          leaves,      \* the leaves malloc has returned
          home,        \* home[k]: the leaf that has, or would have, the key k
          waiting,     \* split leaves whose separator is still to be inserted
          smo          \* the thread that has function_lock for writing

vars == <<node, nodes, root, temp_level, leaves, home, waiting, smo>>

Split == [key : Key, sep : Key, left : Leaf, right : Leaf]
NoSmo == [pc |-> "idle"]

Blank == [left_most_ptr |-> Null, max_size |-> 0,
          key |-> [i \in Slot |-> AllOnes], ptr |-> [i \in Slot |-> Null]]

Init ==
    /\ node = [n \in Node |-> Blank]
    /\ nodes = {}
    /\ root = RootLeaf
    /\ temp_level = 0
    /\ leaves = {RootLeaf}
    /\ home = [k \in Key |-> RootLeaf]
    /\ waiting = {}
    /\ smo = NoSmo

----------------------------------------------------------------------------
(* find_insert.                                                            *)

\* The separator at which the search of a node stops.
StopsAt(n, k, i) ==
    \/ i = 0 /\ node[n].key[0] >= k
    \/ i = node[n].max_size - 1
    \/ node[n].key[i] < k /\ k <= node[n].key[i + 1]

\* node_pos of a Cursor: -1 for the left-most pointer
NodePos(n, k) ==
    LET i == Min({j \in 0 .. node[n].max_size - 1 : StopsAt(n, k, j)})
    IN IF i = 0 /\ node[n].key[0] >= k THEN -1 ELSE i

Child(n, k) ==
    IF NodePos(n, k) = -1 THEN node[n].left_most_ptr ELSE node[n].ptr[NodePos(n, k)]

\* path_array, and the leaf below it
Path(k) ==
    LET at[level \in 0 .. temp_level] ==
          IF level = 0 THEN root ELSE Child(at[level - 1], k)
    IN at

FindInsert(k) == Path(k)[temp_level]

----------------------------------------------------------------------------
(* A leaf is split at the separator sep by a thread that inserts the key k *)
(* (split_leaf).                                                           *)
SplitLeaf(k, sep) ==
    LET l == home[k]
        n == CHOOSE n \in Leaf \ leaves : TRUE
    IN
    /\ Leaf \ leaves # {}
    /\ Cardinality(waiting) < MaxWaiting
    /\ l \notin {w.left : w \in waiting} \cup {w.right : w \in waiting}
    /\ smo.pc # "idle" => l \notin {smo.split.left, smo.split.right}
    /\ home[sep] = l
    /\ \E j \in Key : home[j] = l /\ j > sep
    /\ leaves' = leaves \cup {n}
    /\ home' = [j \in Key |-> IF home[j] = l /\ j > sep THEN n ELSE home[j]]
    /\ waiting' = waiting \cup {[key |-> k, sep |-> sep, left |-> l, right |-> n]}
    /\ UNCHANGED <<node, nodes, root, temp_level, smo>>

----------------------------------------------------------------------------
(* Under function_lock.  First, when the root is a leaf.                   *)

Goto(label) == smo' = [smo EXCEPT !.pc = label]

NewNode == CHOOSE n \in Node \ nodes : TRUE

\* A root over two subtrees, as it is before it can be reached.
RootOver(left, sep, right) ==
    [Blank EXCEPT !.left_most_ptr = left, !.max_size = 1, !.key[0] = sep, !.ptr[0] = right]

NewRoot(w) ==
    /\ smo.pc = "idle" /\ w \in waiting
    /\ temp_level = 0
    /\ Node \ nodes # {}
    /\ nodes' = nodes \cup {NewNode}
    /\ node' = [node EXCEPT ![NewNode] = RootOver(w.left, w.sep, w.right)]
    /\ root' = NewNode
    /\ smo' = [pc |-> "raise", split |-> w]
    /\ waiting' = waiting \ {w}
    /\ UNCHANGED <<temp_level, leaves, home>>

\* root is written before temp_level
Raise ==
    /\ smo.pc = "raise"
    /\ temp_level' = temp_level + 1
    /\ smo' = NoSmo
    /\ UNCHANGED <<node, nodes, root, leaves, home, waiting>>

----------------------------------------------------------------------------
(* splitInnerNode.  The path is found again under the lock.                *)

This == smo.path[smo.level]
ThisPos == smo.pos[smo.level]

StartSmo(w) ==
    /\ smo.pc = "idle" /\ w \in waiting
    /\ temp_level > 0
    /\ LET path == Path(w.key)
           level == temp_level - 1
       IN smo' = [pc |-> "shift_ptr", split |-> w,
                  path |-> path,
                  pos |-> [d \in 0 .. level |-> NodePos(path[d], w.key)],
                  level |-> level, sep |-> w.sep, right |-> w.right,
                  i |-> node[path[level]].max_size - 1]
    /\ waiting' = waiting \ {w}
    /\ UNCHANGED <<node, nodes, root, temp_level, leaves, home>>

\* Fault: one separator too few is moved.
ShiftPtrShort ==
    /\ smo.pc = "shift_ptr"
    /\ \/ /\ smo.i > ThisPos + 1
          /\ node' = [node EXCEPT ![This].ptr[smo.i + 1] = node[This].ptr[smo.i]]
          /\ Goto("shift_key")
       \/ /\ smo.i <= ThisPos + 1
          /\ node' = [node EXCEPT ![This].ptr[ThisPos + 1] = smo.right]
          /\ Goto("put_key")
    /\ UNCHANGED <<nodes, root, temp_level, leaves, home, waiting>>

(* The separators to the right of the path move up by one, from the last.  *)
ShiftPtr ==
    /\ smo.pc = "shift_ptr"
    /\ \/ /\ smo.i > ThisPos
          /\ node' = [node EXCEPT ![This].ptr[smo.i + 1] = node[This].ptr[smo.i]]
          /\ Goto("shift_key")
       \/ /\ smo.i <= ThisPos
          /\ node' = [node EXCEPT ![This].ptr[ThisPos + 1] = smo.right]
          /\ Goto("put_key")
    /\ UNCHANGED <<nodes, root, temp_level, leaves, home, waiting>>

ShiftKey ==
    /\ smo.pc = "shift_key"
    /\ node' = [node EXCEPT ![This].key[smo.i + 1] = node[This].key[smo.i]]
    /\ smo' = [smo EXCEPT !.pc = "shift_ptr", !.i = @ - 1]
    /\ UNCHANGED <<nodes, root, temp_level, leaves, home, waiting>>

PutKey ==
    /\ smo.pc = "put_key"
    /\ node' = [node EXCEPT ![This].key[ThisPos + 1] = smo.sep]
    /\ Goto("grow")
    /\ UNCHANGED <<nodes, root, temp_level, leaves, home, waiting>>

\* Fault: a node is split one separator too late.
OverfullLate(n) == node[n].max_size > MAX_LEAF_KEY
Overfull(n) == node[n].max_size + 1 > MAX_LEAF_KEY

(* max_size++; done, unless the node is too large now.                     *)
Grow ==
    /\ smo.pc = "grow"
    /\ node' = [node EXCEPT ![This].max_size = @ + 1]
    /\ smo' = IF Overfull(This) THEN [smo EXCEPT !.pc = "split"] ELSE NoSmo
    /\ UNCHANGED <<nodes, root, temp_level, leaves, home, waiting>>

\* Fault: the right node starts with the separator that moves up.
RightHalfKeeping(n) ==
    [left_most_ptr |-> node[n].ptr[SPLIT_POS], max_size |-> RIGHT_KEY,
     key |-> [i \in Slot |-> IF i < RIGHT_KEY THEN node[n].key[LEFT_KEY + i] ELSE AllOnes],
     ptr |-> [i \in Slot |-> IF i < RIGHT_KEY THEN node[n].ptr[LEFT_KEY + i] ELSE Null]]

(* The node to the right, with the separators above the middle one; its    *)
(* left-most pointer is that of the middle separator.                      *)
RightHalf(n) ==
    [left_most_ptr |-> node[n].ptr[SPLIT_POS + 1], max_size |-> RIGHT_KEY,
     key |-> [i \in Slot |-> IF i < RIGHT_KEY THEN node[n].key[LEFT_KEY + 1 + i] ELSE AllOnes],
     ptr |-> [i \in Slot |-> IF i < RIGHT_KEY THEN node[n].ptr[LEFT_KEY + 1 + i] ELSE Null]]

(* The right node is made, and the copied keys are overwritten.            *)
CopyRight ==
    /\ smo.pc = "split"
    /\ Node \ nodes # {}
    /\ nodes' = nodes \cup {NewNode}
    /\ node' = [node EXCEPT
                  ![NewNode] = RightHalf(This),
                  ![This].key = [i \in Slot |-> IF i \in LEFT_KEY .. 2 * LEFT_KEY - 1
                                                THEN AllOnes ELSE @[i]]]
    /\ smo' = [smo EXCEPT !.pc = "clear", !.sep = node[This].key[SPLIT_POS + 1],
                          !.right = NewNode]
    /\ UNCHANGED <<root, temp_level, leaves, home, waiting>>

\* Fault: the pointer right of the last separator that stays is cleared too.
ClearPtrsWide ==
    /\ smo.pc = "clear"
    /\ node' = [node EXCEPT ![This].ptr = [i \in Slot |->
                  IF i \in LEFT_KEY - 1 .. 2 * LEFT_KEY - 1 THEN Null ELSE @[i]]]
    /\ Goto("shrink")
    /\ UNCHANGED <<nodes, root, temp_level, leaves, home, waiting>>

ClearPtrs ==
    /\ smo.pc = "clear"
    /\ node' = [node EXCEPT ![This].ptr = [i \in Slot |->
                  IF i \in LEFT_KEY .. 2 * LEFT_KEY - 1 THEN Null ELSE @[i]]]
    /\ Goto("shrink")
    /\ UNCHANGED <<nodes, root, temp_level, leaves, home, waiting>>

Shrink ==
    /\ smo.pc = "shrink"
    /\ node' = [node EXCEPT ![This].max_size = LEFT_KEY]
    /\ Goto("up")
    /\ UNCHANGED <<nodes, root, temp_level, leaves, home, waiting>>

(* On to the level above.                                                  *)
NextLevel ==
    /\ smo.pc = "up" /\ smo.level > 0
    /\ smo' = [smo EXCEPT !.pc = "shift_ptr", !.level = @ - 1,
                          !.i = node[smo.path[smo.level - 1]].max_size - 1]
    /\ UNCHANGED <<node, nodes, root, temp_level, leaves, home, waiting>>

(* The root was split: a new one is put over it.                           *)
GrowRoot ==
    /\ smo.pc = "up" /\ smo.level = 0
    /\ Node \ nodes # {}
    /\ nodes' = nodes \cup {NewNode}
    /\ node' = [node EXCEPT ![NewNode] = RootOver(root, smo.sep, smo.right)]
    /\ root' = NewNode
    /\ Goto("raise")
    /\ UNCHANGED <<temp_level, leaves, home, waiting>>

----------------------------------------------------------------------------
(* All leaves have one key, and every separator is inserted.               *)
Done ==
    /\ smo = NoSmo /\ waiting = {}
    /\ Leaf = leaves \/ \A j, k \in Key : home[j] = home[k] => j = k
    /\ UNCHANGED vars

SmoStep ==
    \/ Raise \/ ShiftPtr \/ ShiftKey \/ PutKey \/ Grow
    \/ CopyRight \/ ClearPtrs \/ Shrink \/ NextLevel \/ GrowRoot

Next ==
    \/ \E k, sep \in Key : SplitLeaf(k, sep)
    \/ \E w \in waiting : NewRoot(w) \/ StartSmo(w)
    \/ SmoStep
    \/ Done

Spec == Init /\ [][Next]_vars
----------------------------------------------------------------------------
SmoPC == {"idle", "raise", "shift_ptr", "shift_key", "put_key", "grow",
          "split", "clear", "shrink", "up"}

(* Type invariant.                                                         *)
TypeOK ==
    /\ node \in [Node -> [left_most_ptr : Leaf \cup Node \cup {Null},
                          max_size : 0 .. MAX_LEAF_KEY + 1,
                          key : [Slot -> Key \cup {AllOnes}],
                          ptr : [Slot -> Leaf \cup Node \cup {Null}]]]
    /\ nodes \subseteq Node /\ leaves \subseteq Leaf
    /\ root \in Leaf \cup Node
    /\ temp_level \in Nat
    /\ home \in [Key -> leaves]
    /\ waiting \subseteq Split
    /\ smo.pc \in SmoPC

Idle == smo.pc = "idle"

\* A key whose leaf is split is led to the left half until the separator is in.
Led(k) == IF \E w \in waiting : w.right = home[k]
          THEN (CHOOSE w \in waiting : w.right = home[k]).left
          ELSE home[k]

(* Whenever function_lock can be taken, find_insert leads every key to its *)
(* leaf, or to the left half of its leaf while the separator of a split is *)
(* waiting: exactly the routing ConcurrentTree assumes of the inner nodes. *)
IndexRoutes == Idle => \A k \in Key : FindInsert(k) = Led(k)

\* The inner nodes on a level.
Level(d) == {Path(k)[d] : k \in Key}

(* No separator is lost or doubled by shifts and splits over any number of *)
(* levels: there is one for every leaf but the first and those still       *)
(* waiting for theirs, and no two are equal.                               *)
SeparatorsOnce ==
    Idle => LET At == {a \in nodes \X Slot : a[2] < node[a[1]].max_size}
            IN /\ Cardinality(At) = Cardinality(leaves) - 1 - Cardinality(waiting)
               /\ \A a, b \in At : node[a[1]].key[a[2]] = node[b[1]].key[b[2]] => a = b

(* No inner node is empty or has more than MAX_LEAF_KEY separators when    *)
(* function_lock can be taken, and they are in ascending order; the nodes  *)
(* allocated are the ones in the tree.                                     *)
NodesWellFormed ==
    Idle => /\ \A n \in nodes :
                 /\ node[n].max_size \in 1 .. MAX_LEAF_KEY
                 /\ \A i \in 1 .. node[n].max_size - 1 : node[n].key[i - 1] < node[n].key[i]
            /\ nodes = UNION {Level(d) : d \in 0 .. temp_level - 1}
=============================================================================
