----------------------------- MODULE LockFreeFind -----------------------------
(***************************************************************************)
(* Tree::find against the changes of the inner nodes in InnerIndex.  find  *)
(* takes no lock: it reads temp_level, root, and the words of the inner    *)
(* nodes one after the other, each of them as it is at that instant.       *)
(*                                                                         *)
(* One find is under way at a time (finds change nothing another find      *)
(* reads in the inner nodes).  All keys are stored.  The search of the     *)
(* leaf is one step here; LeafSlots has it in detail.                      *)
(***************************************************************************)
EXTENDS InnerIndex

VARIABLES find,      \* program point and locals of a find, and what it returned
          overtaken  \* whether an inner node was split or the root replaced during it

indexVars == vars
allVars == <<vars, find, overtaken>>

NoFind == [pc |-> "idle", answer |-> "none"]

FindInit == Init /\ find = NoFind /\ overtaken = FALSE

At == find.at
FindGoto(label) == find' = [find EXCEPT !.pc = label]

(* A pointer is followed that is null or leads to an object of the other   *)
(* kind.  The find crashes or reads words that mean something else: it is  *)
(* not followed any further.                                               *)
GoWild == find' = [pc |-> "wild", answer |-> "none"]

\* A node has separators or pointers taken out, or the root is replaced.
Restructuring == smo.pc \in {"clear", "shrink", "raise"}

(* overtaken is history: the properties read it, and no action does.       *)
Watch == overtaken' = (find'.pc # "idle" /\ (overtaken \/ Restructuring'))
Reads == UNCHANGED indexVars /\ Watch

(* if(temp_level == 0)//only have root                                     *)
CallFind(k) ==
    /\ find.pc = "idle"
    /\ find' = [pc |-> IF temp_level = 0 THEN "only_root" ELSE "root", key |-> k,
                at |-> Null, search_level |-> 0, i |-> 0, end |-> 0, answer |-> "none"]
    /\ Reads

ReadRoot ==
    /\ find.pc \in {"only_root", "root"}
    /\ find' = [find EXCEPT !.at = root,
                            !.pc = IF find.pc = "root" THEN "loop" ELSE "root_leaf"]
    /\ Reads

(* while(search_level <= temp_level-1)                                     *)
TestLevel ==
    /\ find.pc = "loop"
    /\ FindGoto(IF find.search_level <= temp_level - 1 THEN "node" ELSE "leaf")
    /\ Reads

(* Whatever the pointer is, it is read as an inner node.                   *)
ReadSize ==
    /\ find.pc = "node"
    /\ \/ /\ At \in Node
          /\ find' = [find EXCEPT !.pc = "key", !.i = 0, !.end = node[At].max_size - 1]
       \/ /\ At \notin Node
          /\ GoWild
    /\ Reads

\* Fault: the last separator is compared with the one behind it.
ReadKeyPastEnd ==
    /\ find.pc = "key"
    /\ LET key == node[At].key[find.i]
       IN find' = IF key >= find.key /\ find.i = 0 THEN [find EXCEPT !.pc = "left"]
             ELSE IF key < find.key THEN [find EXCEPT !.pc = "next_key"]
             ELSE [find EXCEPT !.i = @ + 1]
    /\ Reads

(* One turn of the search loop: the separator, then the one behind it, then *)
(* the pointer.                                                            *)
ReadKey ==
    /\ find.pc = "key"
    /\ LET key == node[At].key[find.i]
       IN find' = IF key >= find.key /\ find.i = 0 THEN [find EXCEPT !.pc = "left"]
             ELSE IF find.i = find.end THEN [find EXCEPT !.pc = "ptr"]
             ELSE IF key < find.key THEN [find EXCEPT !.pc = "next_key"]
             ELSE [find EXCEPT !.i = @ + 1]
    /\ Reads

ReadNextKey ==
    /\ find.pc = "next_key"
    /\ find' = IF node[At].key[find.i + 1] >= find.key THEN [find EXCEPT !.pc = "ptr"]
               ELSE [find EXCEPT !.pc = "key", !.i = @ + 1]
    /\ Reads

FollowPtr ==
    /\ find.pc \in {"left", "ptr"}
    /\ find' = [find EXCEPT !.pc = "loop", !.search_level = @ + 1,
                   !.at = IF find.pc = "left" THEN node[At].left_most_ptr
                                              ELSE node[At].ptr[find.i]]
    /\ Reads

Return(answer) == find' = [pc |-> "idle", answer |-> answer]

(* The root leaf is searched without a look at temp_insert.  When it has   *)
(* been split, the slots of the records that moved may be overwritten.     *)
SearchRootLeaf ==
    /\ find.pc = "root_leaf"
    /\ \/ At \notin Leaf /\ GoWild
       \/ At \in Leaf /\ Return("found")
       \/ At \in Leaf /\ home[find.key] # At /\ Return("key not existed")
    /\ Reads

\* The splits whose left leaf is marked, with the records of both in a buffer.
Marked == waiting \cup (IF Idle THEN {} ELSE {smo.split})

HasRecord(l) ==
    home[find.key] = l \/ \E w \in Marked : w.left = l /\ w.right = home[find.key]

\* Fault: a find that meets a leaf that is being split starts over.
SearchLeafRetrying ==
    /\ find.pc = "leaf"
    /\ \/ /\ \E w \in Marked : w.left = At
          /\ find' = [find EXCEPT !.pc = "root", !.search_level = 0]
       \/ At \notin Leaf /\ GoWild
       \/ /\ At \in Leaf \ {w.left : w \in Marked}
          /\ Return(IF home[find.key] = At THEN "found" ELSE "not found")
    /\ Reads

(* The search of a leaf below inner nodes, or of the buffer of that leaf   *)
(* while it is being split.                                                *)
SearchLeaf ==
    /\ find.pc = "leaf"
    /\ \/ At \notin Leaf /\ GoWild
       \/ At \in Leaf /\ Return(IF HasRecord(At) THEN "found" ELSE "not found")
    /\ Reads

FindStep ==
    \/ \E k \in Key : CallFind(k)
    \/ ReadRoot \/ TestLevel \/ ReadSize \/ ReadKey \/ ReadNextKey \/ FollowPtr
    \/ SearchRootLeaf \/ SearchLeaf

FindNext == (Next /\ UNCHANGED find /\ Watch) \/ FindStep

FindSpec == FindInit /\ [][FindNext]_allVars

(* The finder keeps running; the thread that changes the inner nodes may   *)
(* stop at any point.                                                      *)
FairFindSpec == FindSpec /\ WF_allVars(FindStep)
----------------------------------------------------------------------------
(* Though the node it reads may grow, be shifted and be split under it, a  *)
(* find never reads a separator or pointer behind the arrays of a node.    *)
FindStaysInNode ==
    /\ find.pc \in {"key", "ptr"} => find.i \in Slot
    /\ find.pc = "next_key" => find.i + 1 \in Slot

(* A find follows a null pointer, or one to the other kind of object, only *)
(* when a node was split or the root replaced while it was under way:      *)
(* separators put into the nodes it reads, the leaves split below them,    *)
(* and node splits that ended before it began, never lead it astray.       *)
WildOnlyInSplit == find.pc = "wild" => overtaken

(* Every find returns, whatever other threads do or leave undone, but for  *)
(* one that a node split or a change of the root leads to a wild pointer:  *)
(* it waits for nobody, and neither the search of a node nor the descent   *)
(* can be prolonged for ever by changes to the tree.                       *)
FindReturns ==
    find.pc # "idle" ~> find.pc = "idle" \/ (find.pc = "wild" /\ overtaken)

(* The descent does not "find null" in an inner node, as a check left in   *)
(* find as a comment would report.                                         *)
NullNotFollowed == find.pc \in {"loop", "node", "leaf"} => At # Null

(* Where there is "only" the root, or "leaf" after the last inner node,    *)
(* there is a leaf.                                                        *)
FindEndsAtLeaf == find.pc \in {"root_leaf", "leaf"} => At \in Leaf

(* A find of a stored key below inner nodes finds it: looking into "the    *)
(* alt buffer" of a leaf that "is being split" is to keep it from missing  *)
(* the records a split moves.                                              *)
StoredIsFound == find.answer # "not found"
=============================================================================
