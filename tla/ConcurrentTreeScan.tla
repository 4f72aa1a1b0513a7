------------------------- MODULE ConcurrentTreeScan --------------------------
(***************************************************************************)
(* The chain of leaves is in key order at every moment, and a scan that    *)
(* claims each leaf it reads misses no record that was there when it was   *)
(* called, whatever the constants are.                                     *)
(*                                                                         *)
(* Only split_leaf changes which leaf a key belongs to: the inner nodes    *)
(* learn of it later, and change nothing then (SteadyStep).  Splitting     *)
(* leaves the bound between any two old leaves where it is (BoundsStay),   *)
(* so that what a scan knows of a leaf it has not claimed stays true.      *)
(***************************************************************************)
EXTENDS ConcurrentTreeProofs

(* Two threads that split have claimed two leaves, so a key belongs to one *)
(* leaf.                                                                   *)
LEMMA BelongsOnce ==
  ASSUME IInv, NEW k \in Key, NEW l \in Leaf, NEW m \in Leaf,
         k \in KeysOf[l], k \in KeysOf[m]
  PROVE  l = m
  <1>1. \A t, u \in Thread : Parts(t, k) /\ Parts(u, k) => t = u
    BY DEF Parts, IInv, ClaimInv, LeafMutex, OwnsLeaf, InsertOwns, Marked
  <1> QED BY <1>1 DEF KeysOf, Belongs

(* KeysOf maps leaves to sets of keys.                                     *)
LEMMA KeysOfType == KeysOf \in [Leaf -> SUBSET Key] /\ KeysOf' \in [Leaf -> SUBSET Key]
  BY DEF KeysOf

(* A record is in the leaf it belongs to.                                  *)
LEMMA RecordsBelong ==
  ASSUME IInv, NEW l \in Leaf, NEW k \in content[l]
  PROVE  k \in KeysOf[l]
  <1>1. k \in Key /\ k \in Nat
    BY KeyAssumption DEF IInv, TypeOK, LeafType
  <1>2. CASE InTransit(k, l)
    BY <1>1, <1>2 DEF InTransit, KeysOf, Belongs, Parts
  <1>3. CASE route[k] = l
    <2>1. \A t \in Thread : pc[t] \in HalfSplit /\ leaf[t] = l =>
             k <= split_key[t] /\ split_key[t] \in Nat
      BY DEF IInv, SplitInv, TypeOK, LocalType
    <2> QED BY <1>1, <1>3, <2>1 DEF KeysOf, Belongs, Parts
  <1> QED BY <1>1, <1>2, <1>3 DEF IInv, RecordsAreRouted

----------------------------------------------------------------------------
(* Which steps move keys.                                                  *)

Quiet(t) ==
    /\ route' = route /\ next' = next /\ heap' = heap
    /\ pc'[t] \in HalfSplit <=> pc[t] \in HalfSplit
    /\ pc[t] \in HalfSplit =>
          leaf'[t] = leaf[t] /\ other'[t] = other[t] /\ split_key'[t] = split_key[t]

(* Only the steps of a split concern the bounds of leaves.                 *)
LEMMA QuietSteps ==
  ASSUME TypeOK, LocalsInv, NEW t \in Thread, Step(t),
         ~SplitLeaf(t), ~NewRoot(t), ~SplitInner(t)
  PROVE  Quiet(t)
  <1> USE DEF TypeOK, LocalType, Quiet, HalfSplit, indexVars, leafVars, localVars
  <1>1. CASE Invoke(t)
    BY <1>1 DEF Invoke, Goto
  <1>2. CASE AnnounceWrite(t)
    BY <1>2 DEF AnnounceWrite, Busy
  <1>3. CASE AcquireRead(t)
    BY <1>3 DEF AcquireRead, TakeRead, Goto
  <1>4. CASE FindInsert(t)
    BY <1>4 DEF FindInsert, Goto
  <1>5. CASE TryClaim(t)
    BY <1>5 DEF TryClaim, Goto
  <1>6. CASE ReleaseRead(t)
    BY <1>6 DEF ReleaseRead, DropRead, Goto
  <1>7. CASE FindDuplicate(t)
    BY <1>7 DEF FindDuplicate, Return, Goto
  <1>8. CASE CheckRoom(t)
    BY <1>8 DEF CheckRoom, Goto
  <1>9. CASE AppendOne(t)
    BY <1>9 DEF AppendOne, Goto
  <1>10. CASE PublishSlot(t)
    BY <1>10 DEF PublishSlot, Goto
  <1>11. CASE UnlockLeaf(t)
    BY <1>11 DEF UnlockLeaf, Return, Goto
  <1>12. CASE FillBuffer(t)
    BY <1>12 DEF FillBuffer, Goto
  <1>13. CASE MarkSplit(t)
    BY <1>13 DEF MarkSplit, Goto
  <1>14. CASE CheckRoot(t)
    BY <1>14 DEF CheckRoot, Goto
  <1>15. CASE AcquireWrite(t)
    BY <1>15 DEF AcquireWrite, TakeWrite, Busy, Goto
  <1>16. CASE Unmark(t)
    BY <1>16 DEF Unmark, Goto
  <1>17. CASE RestoreAlt(t)
    BY <1>17 DEF RestoreAlt, Goto
  <1>18. CASE ReleaseWrite(t)
    BY <1>18 DEF ReleaseWrite, DropWrite, Goto
  <1>19. CASE ScanRelease(t)
    BY <1>19 DEF ScanRelease, DropRead, Goto
  <1>20. CASE ScanTest(t)
    BY <1>20 DEF ScanTest, Return, Goto
  <1>21. CASE ScanClaim(t)
    BY <1>21 DEF ScanClaim, Goto
  <1>22. CASE ScanRead(t)
    BY <1>22 DEF ScanRead, Collect, Goto
  <1>23. CASE ScanUnlock(t)
    BY <1>23 DEF ScanUnlock, Return, Goto
  <1>24. CASE ScanNext(t)
    BY <1>24 DEF ScanNext, Return, Goto
  <1>25. CASE FastSibling(t)
    BY <1>25 DEF FastSibling, Goto
  <1>26. CASE FastAlt(t)
    BY <1>26 DEF FastAlt, Goto
  <1>27. CASE FastRead(t)
    BY <1>27 DEF FastRead, Collect, Return, Goto
  <1> QED
    BY <1>1, <1>2, <1>3, <1>4, <1>5, <1>6, <1>7, <1>8, <1>9, <1>10, <1>11,
       <1>12, <1>13, <1>14, <1>15, <1>16, <1>17, <1>18, <1>19, <1>20, <1>21,
       <1>22, <1>23, <1>24, <1>25, <1>26, <1>27
    DEF Step, InsertStep, ScanStep

(* A quiet step moves no key.                                              *)
LEMMA QuietKeeps ==
  ASSUME TypeOK, NEW t \in Thread, Step(t), Quiet(t), NEW k \in Key, NEW l \in Leaf
  PROVE  Belongs(k, l)' <=> Belongs(k, l)
  <1>1. \A u \in Thread : Parts(u, k)' <=> Parts(u, k)
    BY OthersKeep DEF Parts, Quiet
  <1>2. \A u \in Thread : Parts(u, k) => other'[u] = other[u]
    BY OthersKeep DEF Parts, Quiet
  <1> QED BY <1>1, <1>2 DEF Belongs, Quiet

(* When the separator reaches the inner nodes, they lead where the keys    *)
(* have been since the split.                                              *)
LEMMA NewRootKeeps ==
  ASSUME IInv, NEW t \in Thread, NewRoot(t), NEW k \in Key, NEW l \in Leaf
  PROVE  Belongs(k, l)' <=> Belongs(k, l)
  <1>1. /\ pc[t] = "new_root" /\ pc' = [pc EXCEPT ![t] = "unmark"]
        /\ leaf' = leaf /\ other' = other /\ split_key' = split_key
        /\ route'[k] = IF k <= split_key[t] THEN leaf[t] ELSE other[t]
    BY DEF NewRoot, Goto, localVars
  <1>3. /\ route[k] = leaf[t]
        /\ \A u \in Thread \ {t} : pc[u] \notin HalfSplit
    BY <1>1, RootSplitAlone DEF IInv, InsertOwns, Marked
  <1>4. pc'[t] = "unmark" /\ \A u \in Thread \ {t} : pc'[u] = pc[u]
    BY <1>1 DEF IInv, TypeOK
  <1>5. \A u \in Thread : ~Parts(u, k)'
    BY <1>3, <1>4 DEF Parts, HalfSplit
  <1>6. \A u \in Thread : Parts(u, k) <=> u = t /\ k > split_key[t]
    BY <1>1, <1>3 DEF Parts, HalfSplit
  <1>7. k \in Nat /\ split_key[t] \in Nat
    BY KeyAssumption DEF IInv, TypeOK, LocalType
  <1>8. Belongs(k, l)' <=> route'[k] = l
    BY <1>5 DEF Belongs
  <1>9. CASE k <= split_key[t]
    BY <1>1, <1>3, <1>6, <1>7, <1>8, <1>9 DEF Belongs
  <1>10. CASE k > split_key[t]
    BY <1>1, <1>6, <1>7, <1>8, <1>10 DEF Belongs
  <1> QED BY <1>7, <1>9, <1>10

(* ... also when they have nodes of their own already.                     *)
LEMMA SplitInnerKeeps ==
  ASSUME IInv, NEW t \in Thread, SplitInner(t), NEW k \in Key, NEW l \in Leaf
  PROVE  Belongs(k, l)' <=> Belongs(k, l)
  <1>1. /\ pc[t] = "split_inner" /\ pc' = [pc EXCEPT ![t] = "unmark"]
        /\ leaf' = leaf /\ other' = other /\ split_key' = split_key
    BY DEF SplitInner, Goto, localVars
  <1>2. /\ route'[k] = IF route[k] = leaf[t] /\ k > split_key[t]
                         THEN other[t] ELSE route[k]
        /\ \A u \in Thread \ {t} : pc[u] \in HalfSplit => leaf[u] # leaf[t]
    BY SplitInnerRoute DEF IInv, InsertOwns, Marked
  <1>3. pc'[t] = "unmark" /\ \A u \in Thread \ {t} : pc'[u] = pc[u]
    BY <1>1 DEF IInv, TypeOK
  <1>4. \A u \in Thread : pc[u] \in HalfSplit => leaf[u] # other[t]
    <2>1. ASSUME NEW u \in Thread, pc[u] \in HalfSplit
          PROVE  op[u].key \in Key /\ route[op[u].key] = leaf[u]
      <3>1. op[u] \in Op
        BY <2>1 DEF IInv, LocalsInv, HalfSplit
      <3> QED BY <2>1, <3>1, OpParts DEF IInv, RouteInv, RouteStaysValid, InsertOwns,
                                         Marked, HalfSplit
    <2>2. \A j \in Key : route[j] # other[t]
      BY <1>1 DEF IInv, RightLeafInv, HalfSplit
    <2> QED BY <2>1, <2>2
  <1>5. CASE Parts(t, k)
    <2>1. route'[k] = other[t]
      BY <1>2, <1>5 DEF Parts
    <2>2. \A u \in Thread : ~Parts(u, k)'
      BY <1>1, <1>3, <1>4, <2>1 DEF Parts, HalfSplit
    <2>3. \A u \in Thread : Parts(u, k) => u = t
      BY <1>2, <1>5 DEF Parts
    <2> QED BY <1>5, <2>1, <2>2, <2>3 DEF Belongs
  <1>6. CASE ~Parts(t, k)
    <2>1. route'[k] = route[k]
      BY <1>1, <1>2, <1>6 DEF Parts, HalfSplit
    <2>2. \A u \in Thread : Parts(u, k)' <=> Parts(u, k)
      BY <1>1, <1>3, <1>6, <2>1 DEF Parts, HalfSplit
    <2> QED BY <1>1, <2>1, <2>2 DEF Belongs
  <1> QED BY <1>5, <1>6

(* So no step but split_leaf moves a key or links a leaf.                  *)
LEMMA SteadyStep ==
  ASSUME IInv, NEW t \in Thread, Step(t), ~SplitLeaf(t)
  PROVE  next' = next /\ heap' = heap /\ KeysOf' = KeysOf
  <1>1. CASE NewRoot(t)
    <2>1. ASSUME NEW k \in Key, NEW l \in Leaf
          PROVE  k \in KeysOf'[l] <=> k \in KeysOf[l]
      BY <1>1, NewRootKeeps DEF KeysOf, Belongs
    <2>2. next' = next /\ heap' = heap
      BY <1>1 DEF NewRoot, leafVars
    <2>3. KeysOf' = KeysOf
      BY <2>1, KeysOfType
    <2> QED BY <2>2, <2>3
  <1>2. CASE SplitInner(t)
    <2>1. ASSUME NEW k \in Key, NEW l \in Leaf
          PROVE  k \in KeysOf'[l] <=> k \in KeysOf[l]
      BY <1>2, SplitInnerKeeps DEF KeysOf, Belongs
    <2>2. next' = next /\ heap' = heap
      BY <1>2 DEF SplitInner, leafVars
    <2>3. KeysOf' = KeysOf
      BY <2>1, KeysOfType
    <2> QED BY <2>2, <2>3
  <1>3. CASE ~NewRoot(t) /\ ~SplitInner(t)
    <2>1. TypeOK /\ Quiet(t)
      BY <1>3, QuietSteps DEF IInv
    <2>2. ASSUME NEW k \in Key, NEW l \in Leaf
          PROVE  k \in KeysOf'[l] <=> k \in KeysOf[l]
      BY <2>1, QuietKeeps DEF KeysOf, Belongs
    <2> QED BY <2>1, <2>2, KeysOfType DEF Quiet
  <1> QED BY <1>1, <1>2, <1>3

----------------------------------------------------------------------------
(* split_leaf.                                                             *)

(* A full leaf has records above its split key.                            *)
LEMMA UpperHalf ==
  ASSUME NEW S \in SUBSET Key, NEW s, IsSplitKey(s, S), Cardinality(S) >= MAX_LEAF_KEY
  PROVE  \E j \in S : j > s
  <1>1. SUFFICES ASSUME \A j \in S : ~(j > s) PROVE FALSE
    OBVIOUS
  <1>2. S \subseteq Nat /\ IsFiniteSet(S) /\ s \in S
    BY KeyAssumption, FS_Subset DEF IsSplitKey
  <1> DEFINE Below == {j \in S : j < s}
  <1>3. IsFiniteSet(Below) /\ Cardinality(Below) = SPLIT_POS
    BY <1>2, FS_Subset DEF IsSplitKey
  <1>4. S = Below \cup {s} /\ s \notin Below
    <2>1. \A j \in S : j < s \/ j = s
      BY <1>1, <1>2
    <2>2. ~(s < s)
      BY <1>2
    <2> QED BY <1>2, <2>1, <2>2
  <1>5. Cardinality(S) = SPLIT_POS + 1
    BY <1>3, <1>4, FS_AddElement
  <1> QED BY <1>5, CapacityAssumption DEF SPLIT_POS

(* What split_leaf does to the leaf l: what belongs to it above the split  *)
(* key s belongs to the new leaf n, its next in the chain.                 *)
Upper(S, s) == {k \in S : k > s}
Lower(S, s) == {k \in S : k <= s}

Halves(l, n, s) ==
    /\ l \in heap /\ l \in Leaf /\ n \in Leaf \ heap
    /\ s \in KeysOf[l] /\ Upper(KeysOf[l], s) # {}
    /\ heap' = heap \cup {n}
    /\ next'[n] = next[l] /\ next'[l] = n
    /\ \A m \in Leaf \ {l, n} : next'[m] = next[m]
    /\ KeysOf'[l] = Lower(KeysOf[l], s)
    /\ KeysOf'[n] = Upper(KeysOf[l], s)
    /\ \A m \in Leaf \ {l, n} : KeysOf'[m] = KeysOf[m]

(* The records were all in the leaf, which had been full.                  *)
LEMMA SplitLeafHalves ==
  ASSUME IInv, HalvesInv, NEW t \in Thread, SplitLeaf(t)
  PROVE  \E l, n \in Leaf, s \in Key : l = leaf[t] /\ Halves(l, n, s)
  <1> USE DEF IInv
  <1>0. PICK l, n, s : l = leaf[t] /\ n = NewLeaf /\ s = split_key'[t]
    OBVIOUS
  <1>1. /\ n \in Leaf \ heap /\ l \in Leaf /\ l # n
        /\ dram_buffer[t] = content[l] /\ leaf' = leaf /\ route' = route
        /\ other'[t] = n /\ pc[t] = "split_leaf" /\ pc'[t] = "check_root"
        /\ heap' = heap \cup {n}
    BY <1>0, SplitLeafEffect
  <1>2. l \in heap
    BY <1>0, <1>1 DEF AllocInv
  <1>3. IsSplitKey(s, content[l]) /\ s \in content[l]
    BY <1>0, <1>1 DEF SplitLeaf, IsSplitKey, TypeOK, LocalType
  <1>4. content[l] \subseteq Key /\ Key \subseteq Nat /\ s \in Key
    BY <1>1, <1>3, KeyAssumption DEF TypeOK, LeafType
  <1>5. \E j \in content[l] : j > s
    BY <1>0, <1>1, <1>3, <1>4, UpperHalf DEF HalvesInv
  <1>6. \A k \in content[l] : k \in KeysOf[l]
    BY <1>1, RecordsBelong
  <1>7. next'[n] = next[l] /\ next'[l] = n /\ \A m \in Leaf \ {l, n} : next'[m] = next[m]
    BY <1>0, <1>1 DEF SplitLeaf, LinkBehind, TypeOK, LeafType
  <1>8. Step(t)
    BY DEF Step, InsertStep
  <1>9. \A u \in Thread \ {t} :
           /\ pc'[u] = pc[u] /\ leaf'[u] = leaf[u] /\ other'[u] = other[u]
           /\ split_key'[u] = split_key[u]
    BY <1>8, OthersKeep
  <1>10. \A u \in Thread \ {t} : pc[u] \in HalfSplit =>
            leaf[u] # l /\ other[u] # l /\ other[u] # n
    <2>1. ASSUME NEW u \in Thread \ {t}, pc[u] \in HalfSplit
          PROVE  leaf[u] # l /\ other[u] # l /\ other[u] # n
      <3>1. leaf[u] # l
        BY <1>0, <1>1, <2>1 DEF ClaimInv, LeafMutex, OwnsLeaf, InsertOwns, Marked
      <3>2. op[t].key \in Key /\ route[op[t].key] = l
        <4>1. op[t] \in Op
          BY <1>1 DEF LocalsInv
        <4> QED BY <1>0, <1>1, <4>1, OpParts DEF RouteInv, RouteStaysValid, InsertOwns,
                                                 Marked
      <3>3. other[u] # l
        BY <2>1, <3>2 DEF RightLeafInv
      <3>4. other[u] \in heap
        BY <2>1 DEF AllocInv, LocalsInv
      <3> QED BY <1>1, <3>1, <3>3, <3>4
    <2> QED BY <2>1
  <1>11. ASSUME NEW k \in Key
         PROVE  /\ k \in KeysOf'[l] <=> k \in KeysOf[l] /\ k <= s
                /\ k \in KeysOf'[n] <=> k \in KeysOf[l] /\ k > s
                /\ \A m \in Leaf \ {l, n} : k \in KeysOf'[m] <=> k \in KeysOf[m]
    <2>1. /\ \A u \in Thread \ {t} : Parts(u, k)' <=> Parts(u, k)
          /\ ~Parts(t, k)
          /\ Parts(t, k)' <=> route[k] = l /\ k > s
      BY <1>0, <1>1, <1>9 DEF Parts, HalfSplit
    <2>2. \A u \in Thread \ {t} : Parts(u, k) =>
             route[k] # l /\ other[u] # l /\ other[u] # n /\ other'[u] = other[u]
      BY <1>9, <1>10 DEF Parts
    <2>3. route[k] # n /\ k \in Nat /\ s \in Nat
      BY <1>1, <1>4 DEF AllocInv
    <2>4. k \in KeysOf[l] <=> route[k] = l
      BY <1>1, <2>1, <2>2 DEF KeysOf, Belongs
    <2>5. k \in KeysOf'[l] <=> route[k] = l /\ k <= s
      BY <1>1, <2>1, <2>2, <2>3 DEF KeysOf, Belongs
    <2>6. k \in KeysOf'[n] <=> route[k] = l /\ k > s
      BY <1>1, <2>1, <2>2, <2>3 DEF KeysOf, Belongs
    <2>7. \A m \in Leaf \ {l, n} : k \in KeysOf'[m] <=> k \in KeysOf[m]
      BY <1>1, <2>1, <2>2 DEF KeysOf, Belongs
    <2> QED BY <2>4, <2>5, <2>6, <2>7
  <1>12. Halves(l, n, s)
    <2>1. s \in KeysOf[l] /\ Upper(KeysOf[l], s) # {}
      BY <1>3, <1>5, <1>6 DEF Upper
    <2>2. KeysOf'[l] = Lower(KeysOf[l], s) /\ KeysOf'[n] = Upper(KeysOf[l], s)
      BY <1>1, <1>11, KeysOfType DEF Lower, Upper
    <2>3. \A m \in Leaf \ {l, n} : KeysOf'[m] = KeysOf[m]
      BY <1>11, KeysOfType
    <2> QED BY <1>1, <1>2, <1>7, <2>1, <2>2, <2>3 DEF Halves
  <1> QED BY <1>0, <1>1, <1>4, <1>12

(* The bound between the halves is the split key; all others stay.         *)
LEMMA BoundsHalve ==
  ASSUME NEW S \in SUBSET Key, Convex(S), NEW s \in S, Upper(S, s) # {}
  PROVE  /\ NotBefore(Lower(S, s)) = NotBefore(S)
         /\ After(Lower(S, s)) = NotBefore(Upper(S, s))
         /\ After(Upper(S, s)) = After(S)
         /\ After(S) \subseteq After(Lower(S, s))
  <1>1. S \subseteq Nat /\ Key \subseteq Nat /\ s \in Lower(S, s)
    BY KeyAssumption DEF Lower
  <1>2. PICK top \in S : top > s
    BY DEF Upper
  <1>3. ASSUME NEW k \in Key
        PROVE  /\ k \in NotBefore(Lower(S, s)) <=> k \in NotBefore(S)
               /\ k \in After(Lower(S, s)) <=> k > s
               /\ k \in NotBefore(Upper(S, s)) <=> k > s
               /\ k \in After(Upper(S, s)) <=> k \in After(S)
    <2>1. ASSUME NEW j \in S, j <= k PROVE k \in NotBefore(Lower(S, s))
      <3>1. CASE j <= s
        BY <2>1, <3>1 DEF NotBefore, Lower
      <3>2. CASE s < j
        BY <1>1, <2>1, <3>2 DEF NotBefore
      <3> QED BY <1>1, <3>1, <3>2
    <2>2. k \in NotBefore(Lower(S, s)) <=> k \in NotBefore(S)
      BY <2>1 DEF NotBefore, Lower
    <2>3. k \in After(Lower(S, s)) <=> k > s
      BY <1>1 DEF After, Lower
    <2>4. ASSUME k > s PROVE k \in NotBefore(Upper(S, s))
      <3>1. CASE top <= k
        BY <1>2, <3>1 DEF NotBefore, Upper
      <3>2. CASE k < top
        <4>1. k \in S
          BY <1>1, <1>2, <2>4, <3>2 DEF Convex
        <4> QED BY <1>1, <2>4, <4>1 DEF NotBefore, Upper
      <3> QED BY <1>1, <3>1, <3>2
    <2>5. k \in NotBefore(Upper(S, s)) <=> k > s
      BY <1>1, <2>4 DEF NotBefore, Upper
    <2>6. ASSUME k \in After(Upper(S, s)), NEW j \in S PROVE j < k
      <3>1. top < k
        BY <1>2, <2>6 DEF After, Upper
      <3>2. CASE j > s
        BY <2>6, <3>2 DEF After, Upper
      <3>3. CASE j <= s
        BY <1>1, <1>2, <3>1, <3>3
      <3> QED BY <1>1, <3>2, <3>3
    <2>7. k \in After(Upper(S, s)) <=> k \in After(S)
      BY <2>6 DEF After, Upper
    <2> QED BY <2>2, <2>3, <2>5, <2>7
  <1>4. After(S) \subseteq After(Lower(S, s))
    BY DEF After, Lower
  <1>5. NotBefore(Lower(S, s)) = NotBefore(S)
    BY <1>3 DEF NotBefore
  <1>6. After(Lower(S, s)) = NotBefore(Upper(S, s))
    BY <1>3 DEF NotBefore, After
  <1>7. After(Upper(S, s)) = After(S)
    BY <1>3 DEF After
  <1> QED BY <1>4, <1>5, <1>6, <1>7

(* A leaf that begins at or below a key, or ends below it, goes on to do   *)
(* so.                                                                     *)
LEMMA BoundsStay ==
  ASSUME IInv, ConvexInv, HalvesInv, NEW t \in Thread, Step(t), NEW m \in heap
  PROVE  /\ m \in heap' /\ m \in Leaf
         /\ NotBefore(KeysOf[m]) \subseteq NotBefore(KeysOf'[m])
         /\ After(KeysOf[m]) \subseteq After(KeysOf'[m])
  <1>1. m \in Leaf
    BY DEF IInv, TypeOK, LeafType
  <1>2. CASE ~SplitLeaf(t)
    BY <1>1, <1>2, SteadyStep
  <1>3. CASE SplitLeaf(t)
    <2>1. PICK l, n \in Leaf, s \in Key : Halves(l, n, s)
      BY <1>3, SplitLeafHalves
    <2>2. m # n /\ heap' = heap \cup {n} /\ (m # l => KeysOf'[m] = KeysOf[m])
      BY <1>1, <2>1 DEF Halves
    <2>3. CASE m = l
      <3>1. /\ KeysOf[l] \in SUBSET Key /\ Convex(KeysOf[l])
            /\ s \in KeysOf[l] /\ Upper(KeysOf[l], s) # {}
            /\ KeysOf'[l] = Lower(KeysOf[l], s)
        BY <2>1, KeysOfType DEF Halves, ConvexInv
      <3>2. /\ NotBefore(KeysOf'[l]) = NotBefore(KeysOf[l])
            /\ After(KeysOf[l]) \subseteq After(KeysOf'[l])
        BY <3>1, BoundsHalve
      <3> QED BY <1>1, <2>2, <2>3, <3>2
    <2> QED BY <1>1, <2>2, <2>3
  <1> QED BY <1>2, <1>3

(* The keys of a leaf stay an interval.                                    *)
LEMMA ConvexStep ==
  ASSUME IInv, ConvexInv, HalvesInv, NEW t \in Thread, Step(t)
  PROVE  ConvexInv'
  <1>1. CASE ~SplitLeaf(t)
    BY <1>1, SteadyStep DEF ConvexInv
  <1>2. CASE SplitLeaf(t)
    <2>1. PICK l, n \in Leaf, s \in Key : Halves(l, n, s)
      BY <1>2, SplitLeafHalves
    <2>2. Convex(KeysOf[l]) /\ KeysOf[l] \subseteq Nat /\ Key \subseteq Nat /\ s \in Nat
      BY KeyAssumption, KeysOfType DEF ConvexInv
    <2>3. Convex(KeysOf'[l]) /\ Convex(KeysOf'[n])
      <3>1. Convex(Lower(KeysOf[l], s)) /\ Convex(Upper(KeysOf[l], s))
        BY <2>2 DEF Convex, Lower, Upper
      <3> QED BY <2>1, <3>1 DEF Halves
    <2>4. \A m \in Leaf \ {l, n} : Convex(KeysOf'[m])
      BY <2>1 DEF Halves, ConvexInv
    <2> QED BY <2>3, <2>4 DEF ConvexInv
  <1> QED BY <1>1, <1>2

(* The chain goes on where each leaf ends.                                 *)
LEMMA LinkStep ==
  ASSUME IInv, ConvexInv, LinkInv, HalvesInv, NEW t \in Thread, Step(t)
  PROVE  LinkInv'
  <1>1. CASE ~SplitLeaf(t)
    BY <1>1, SteadyStep DEF LinkInv
  <1>2. CASE SplitLeaf(t)
    <2>1. PICK l, n \in Leaf, s \in Key : Halves(l, n, s)
      BY <1>2, SplitLeafHalves
    <2>2. /\ heap' = heap \cup {n} /\ heap \subseteq Leaf /\ l \in heap /\ n \notin heap
          /\ next'[n] = next[l] /\ next'[l] = n
          /\ \A m \in Leaf \ {l, n} : next'[m] = next[m]
          /\ \A m \in Leaf : next[m] # n
      BY <2>1 DEF Halves, IInv, TypeOK, LeafType, AllocInv
    <2>3. /\ NotBefore(KeysOf'[l]) = NotBefore(KeysOf[l])
          /\ After(KeysOf'[l]) = NotBefore(KeysOf'[n])
          /\ After(KeysOf'[n]) = After(KeysOf[l])
      <3>1. /\ KeysOf[l] \in SUBSET Key /\ Convex(KeysOf[l])
            /\ s \in KeysOf[l] /\ Upper(KeysOf[l], s) # {}
            /\ KeysOf'[l] = Lower(KeysOf[l], s) /\ KeysOf'[n] = Upper(KeysOf[l], s)
        BY <2>1, KeysOfType DEF Halves, ConvexInv
      <3> QED BY <3>1, BoundsHalve
    <2>4. \A m \in Leaf \ {l, n} : KeysOf'[m] = KeysOf[m]
      BY <2>1 DEF Halves
    <2>5. \A m \in Leaf \ {n} : NotBefore(KeysOf'[m]) = NotBefore(KeysOf[m])
      BY <2>3, <2>4
    <2>6. ASSUME NEW m \in heap'
          PROVE  After(KeysOf'[m]) =
                    IF next'[m] \in Leaf THEN NotBefore(KeysOf'[next'[m]]) ELSE {}
      <3>1. CASE m = l
        BY <2>2, <2>3, <3>1
      <3>2. CASE m = n
        <4>1. next[l] \in Leaf => NotBefore(KeysOf'[next[l]]) = NotBefore(KeysOf[next[l]])
          BY <2>2, <2>5
        <4> QED BY <2>2, <2>3, <3>2, <4>1 DEF LinkInv
      <3>3. CASE m \in heap \ {l}
        <4>1. next[m] \in Leaf => NotBefore(KeysOf'[next[m]]) = NotBefore(KeysOf[next[m]])
          BY <2>2, <2>5
        <4>2. next'[m] = next[m] /\ KeysOf'[m] = KeysOf[m]
          BY <2>2, <2>4, <3>3
        <4> QED BY <3>3, <4>1, <4>2 DEF LinkInv
      <3> QED BY <2>2, <3>1, <3>2, <3>3
    <2> QED BY <2>6 DEF LinkInv
  <1> QED BY <1>1, <1>2

(* Only these steps write records.                                         *)
LEMMA ContentSteps ==
  ASSUME NEW t \in Thread, Step(t), ~PublishSlot(t), ~SplitLeaf(t)
  PROVE  content' = content
  <1> USE DEF leafVars
  <1>1. CASE Invoke(t)
    BY <1>1 DEF Invoke, Goto
  <1>2. CASE AnnounceWrite(t)
    BY <1>2 DEF AnnounceWrite, Busy
  <1>3. CASE AcquireRead(t)
    BY <1>3 DEF AcquireRead, TakeRead, Goto
  <1>4. CASE FindInsert(t)
    BY <1>4 DEF FindInsert, Goto
  <1>5. CASE TryClaim(t)
    BY <1>5 DEF TryClaim, Goto
  <1>6. CASE ReleaseRead(t)
    BY <1>6 DEF ReleaseRead, DropRead, Goto
  <1>7. CASE FindDuplicate(t)
    BY <1>7 DEF FindDuplicate, Return, Goto
  <1>8. CASE CheckRoom(t)
    BY <1>8 DEF CheckRoom, Goto
  <1>9. CASE AppendOne(t)
    BY <1>9 DEF AppendOne, Goto
  <1>10. CASE UnlockLeaf(t)
    BY <1>10 DEF UnlockLeaf, Return, Goto
  <1>11. CASE FillBuffer(t)
    BY <1>11 DEF FillBuffer, Goto
  <1>12. CASE MarkSplit(t)
    BY <1>12 DEF MarkSplit, Goto
  <1>13. CASE CheckRoot(t)
    BY <1>13 DEF CheckRoot, Goto
  <1>14. CASE AcquireWrite(t)
    BY <1>14 DEF AcquireWrite, TakeWrite, Busy, Goto
  <1>15. CASE NewRoot(t)
    BY <1>15 DEF NewRoot, Goto
  <1>16. CASE SplitInner(t)
    BY <1>16 DEF SplitInner, Goto
  <1>17. CASE Unmark(t)
    BY <1>17 DEF Unmark, Goto
  <1>18. CASE RestoreAlt(t)
    BY <1>18 DEF RestoreAlt, Goto
  <1>19. CASE ReleaseWrite(t)
    BY <1>19 DEF ReleaseWrite, DropWrite, Goto
  <1>20. CASE ScanRelease(t)
    BY <1>20 DEF ScanRelease, DropRead, Goto
  <1>21. CASE ScanTest(t)
    BY <1>21 DEF ScanTest, Return, Goto
  <1>22. CASE ScanClaim(t)
    BY <1>22 DEF ScanClaim, Goto
  <1>23. CASE ScanRead(t)
    BY <1>23 DEF ScanRead, Collect, Goto
  <1>24. CASE ScanUnlock(t)
    BY <1>24 DEF ScanUnlock, Return, Goto
  <1>25. CASE ScanNext(t)
    BY <1>25 DEF ScanNext, Return, Goto
  <1>26. CASE FastSibling(t)
    BY <1>26 DEF FastSibling, Goto
  <1>27. CASE FastAlt(t)
    BY <1>27 DEF FastAlt, Goto
  <1>28. CASE FastRead(t)
    BY <1>28 DEF FastRead, Collect, Return, Goto
  <1> QED
    BY <1>1, <1>2, <1>3, <1>4, <1>5, <1>6, <1>7, <1>8, <1>9, <1>10, <1>11,
       <1>12, <1>13, <1>14, <1>15, <1>16, <1>17, <1>18, <1>19, <1>20, <1>21,
       <1>22, <1>23, <1>24, <1>25, <1>26, <1>27, <1>28
    DEF Step, InsertStep, ScanStep

(* Nobody but its claimer changes a leaf's records.                        *)
LEMMA ClaimedKeeps ==
  ASSUME IInv, NEW t \in Thread, Step(t), NEW u \in Thread \ {t}, pc[u] \in InsertOwns
  PROVE  content'[leaf[u]] = content[leaf[u]]
  <1> USE DEF IInv
  <1>1. leaf[u] \in Leaf /\ leaf[u] \in heap
    BY DEF LocalsInv, AllocInv, InsertPC
  <1>2. pc[t] \in InsertOwns => leaf[u] # leaf[t]
    BY DEF ClaimInv, LeafMutex, OwnsLeaf
  <1>3. CASE PublishSlot(t)
    <2>1. leaf[u] # leaf[t]
      BY <1>2, <1>3 DEF PublishSlot, InsertOwns
    <2> QED BY <1>1, <1>3, <2>1 DEF PublishSlot, TypeOK, LeafType
  <1>4. CASE SplitLeaf(t)
    <2>1. pc[t] = "split_leaf" /\ NewLeaf \notin heap
      BY <1>4, SplitLeafEffect
    <2>2. leaf[u] # leaf[t] /\ leaf[u] # NewLeaf
      BY <1>1, <1>2, <2>1 DEF InsertOwns, Marked
    <2> QED BY <1>1, <1>4, <2>2, SplitLeafEffect
  <1> QED BY <1>3, <1>4, ContentSteps

(* A leaf about to be split is full, and its split key stays in it.        *)
HalvesOK(t) ==
    /\ pc[t] \in {"buffer", "mark", "split_leaf"} =>
          Cardinality(content[leaf[t]]) >= MAX_LEAF_KEY
    /\ pc[t] \in HalfSplit =>
          split_key[t] \in Key /\ route[split_key[t]] = leaf[t]

LEMMA HalvesOwnStep ==
  ASSUME IInv, HalvesInv, NEW t \in Thread, Step(t)
  PROVE  HalvesOK(t)'
  <1> USE DEF IInv, TypeOK, HalvesOK, HalvesInv, HalfSplit
  <1>1. CASE Invoke(t)
    BY <1>1 DEF Invoke, Goto
  <1>2. CASE AnnounceWrite(t)
    BY <1>2 DEF AnnounceWrite, Busy, indexVars, leafVars, localVars
  <1>3. CASE AcquireRead(t)
    BY <1>3 DEF AcquireRead, TakeRead, Goto
  <1>4. CASE FindInsert(t)
    BY <1>4 DEF FindInsert, Goto
  <1>5. CASE TryClaim(t)
    BY <1>5 DEF TryClaim, Goto
  <1>6. CASE ReleaseRead(t)
    BY <1>6 DEF ReleaseRead, DropRead, Goto
  <1>7. CASE FindDuplicate(t)
    BY <1>7 DEF FindDuplicate, Return, Goto
  <1>8. CASE CheckRoom(t)
    <2>1. Cardinality(content[leaf[t]]) \in Nat
      <3>1. leaf[t] \in Leaf
        BY <1>8 DEF CheckRoom, LocalsInv, InsertPC, InsertOwns
      <3> QED BY <3>1, KeyAssumption, FS_Subset, FS_CardinalityType DEF LeafType
    <2>2. pc'[t] \in {"append", "buffer"} /\ content' = content /\ leaf' = leaf
      BY <1>8 DEF CheckRoom, Goto, leafVars, localVars
    <2>3. pc'[t] = "buffer" => ~(Cardinality(content[leaf[t]]) < MAX_LEAF_KEY)
      BY <1>8 DEF CheckRoom, Goto
    <2> QED BY <2>1, <2>2, <2>3, CapacityAssumption
  <1>9. CASE AppendOne(t)
    BY <1>9 DEF AppendOne, Goto
  <1>10. CASE PublishSlot(t)
    BY <1>10 DEF PublishSlot, Goto
  <1>11. CASE UnlockLeaf(t)
    BY <1>11 DEF UnlockLeaf, Return, Goto
  <1>12. CASE FillBuffer(t)
    BY <1>12 DEF FillBuffer, Goto
  <1>13. CASE MarkSplit(t)
    BY <1>13 DEF MarkSplit, Goto, leafVars, localVars
  <1>14. CASE SplitLeaf(t)
    <2>1. /\ dram_buffer[t] = content[leaf[t]] /\ leaf[t] \in Leaf /\ leaf' = leaf
          /\ route' = route /\ pc[t] = "split_leaf" /\ pc'[t] = "check_root"
      BY <1>14, SplitLeafEffect
    <2>2. split_key'[t] \in content[leaf[t]]
      BY <1>14, <2>1 DEF SplitLeaf, LocalType
    <2>3. split_key'[t] \in Key /\ route[split_key'[t]] = leaf[t]
      BY <2>1, <2>2, ClaimedLeafIsRouted DEF InsertOwns, Marked, LeafType
    <2> QED BY <2>1, <2>3
  <1>15. CASE CheckRoot(t)
    BY <1>15 DEF CheckRoot, Goto, indexVars, localVars
  <1>16. CASE AcquireWrite(t)
    BY <1>16 DEF AcquireWrite, Goto, indexVars, localVars
  <1>17. CASE NewRoot(t)
    BY <1>17 DEF NewRoot, Goto
  <1>18. CASE SplitInner(t)
    BY <1>18 DEF SplitInner, Goto
  <1>19. CASE Unmark(t)
    BY <1>19 DEF Unmark, Goto
  <1>20. CASE RestoreAlt(t)
    BY <1>20 DEF RestoreAlt, Goto
  <1>21. CASE ReleaseWrite(t)
    BY <1>21 DEF ReleaseWrite, DropWrite, Goto
  <1>22. CASE ScanRelease(t)
    BY <1>22 DEF ScanRelease, DropRead, Goto
  <1>23. CASE ScanTest(t)
    BY <1>23 DEF ScanTest, Return, Goto
  <1>24. CASE ScanClaim(t)
    BY <1>24 DEF ScanClaim, Goto
  <1>25. CASE ScanRead(t)
    BY <1>25 DEF ScanRead, Collect, Goto
  <1>26. CASE ScanUnlock(t)
    BY <1>26 DEF ScanUnlock, Return, Goto
  <1>27. CASE ScanNext(t)
    BY <1>27 DEF ScanNext, Return, Goto
  <1>28. CASE FastSibling(t)
    BY <1>28 DEF FastSibling, Goto
  <1>29. CASE FastAlt(t)
    BY <1>29 DEF FastAlt, Goto
  <1>30. CASE FastRead(t)
    BY <1>30 DEF FastRead, Collect, Return, Goto
  <1> QED
    BY <1>1, <1>2, <1>3, <1>4, <1>5, <1>6, <1>7, <1>8, <1>9, <1>10, <1>11,
       <1>12, <1>13, <1>14, <1>15, <1>16, <1>17, <1>18, <1>19, <1>20, <1>21,
       <1>22, <1>23, <1>24, <1>25, <1>26, <1>27, <1>28, <1>29, <1>30
    DEF Step, InsertStep, ScanStep

(* No thread disturbs another's split.                                     *)
LEMMA HalvesStep ==
  ASSUME IInv, HalvesInv, NEW t \in Thread, Step(t)
  PROVE  HalvesInv'
  <1>1. HalvesOK(t)'
    BY HalvesOwnStep
  <1>2. ASSUME NEW u \in Thread \ {t} PROVE HalvesOK(u)'
    <2>1. pc'[u] = pc[u] /\ leaf'[u] = leaf[u] /\ split_key'[u] = split_key[u]
      BY OthersKeep DEF IInv
    <2>2. pc[u] \in {"buffer", "mark", "split_leaf"} =>
             content'[leaf[u]] = content[leaf[u]]
      BY ClaimedKeeps DEF InsertOwns, Marked
    <2>3. ASSUME pc[u] \in HalfSplit
          PROVE  route'[split_key[u]] = route[split_key[u]]
      <3>1. split_key[u] \in Key /\ route[split_key[u]] = leaf[u]
        BY <2>3 DEF HalvesInv
      <3>2. CASE NewRoot(t)
        BY <2>3, <3>2, RootSplitAlone DEF NewRoot, IInv, InsertOwns, Marked
      <3>3. CASE SplitInner(t)
        <4>1. leaf[u] # leaf[t]
          BY <2>3, <3>3, SplitInnerRoute DEF IInv, InsertOwns, Marked
        <4> QED BY <3>1, <3>3, <4>1, SplitInnerRoute DEF IInv
      <3>4. CASE SplitLeaf(t)
        BY <3>4, SplitLeafEffect DEF IInv
      <3>5. CASE ~NewRoot(t) /\ ~SplitInner(t) /\ ~SplitLeaf(t)
        BY <3>5, QuietSteps DEF Quiet, IInv
      <3> QED BY <3>2, <3>3, <3>4, <3>5
    <2> QED BY <2>1, <2>2, <2>3 DEF HalvesOK, HalvesInv
  <1> QED BY <1>1, <1>2 DEF HalvesInv, HalvesOK

----------------------------------------------------------------------------
(* The scans.                                                              *)

(* No record is ever removed.                                              *)
LEMMA StoredGrows ==
  ASSUME IInv, NEW t \in Thread, Step(t)
  PROVE  Stored \subseteq Stored'
  <1>1. CASE PublishSlot(t)
    BY <1>1 DEF PublishSlot, Stored, IInv, TypeOK, LeafType
  <1>2. CASE SplitLeaf(t)
    BY <1>2, SplitLeafKeepsStored DEF IInv
  <1> QED BY <1>1, <1>2, ContentSteps, StoredFrame

(* A scan's locals are its thread's.                                       *)
LEMMA OthersScan ==
  ASSUME TypeOK, NEW t \in Thread, Step(t), NEW u \in Thread \ {t}
  PROVE  /\ count'[u] = count[u] /\ scan_array'[u] = scan_array[u]
         /\ fast'[u] = fast[u] /\ owed'[u] = owed[u]
  <1> USE DEF TypeOK, ScanType, scanVars
  <1>1. CASE Invoke(t)
    BY <1>1 DEF Invoke, Goto
  <1>2. CASE AnnounceWrite(t)
    BY <1>2 DEF AnnounceWrite, Busy
  <1>3. CASE AcquireRead(t)
    BY <1>3 DEF AcquireRead, TakeRead, Goto
  <1>4. CASE FindInsert(t)
    BY <1>4 DEF FindInsert, Goto
  <1>5. CASE TryClaim(t)
    BY <1>5 DEF TryClaim, Goto
  <1>6. CASE ReleaseRead(t)
    BY <1>6 DEF ReleaseRead, DropRead, Goto
  <1>7. CASE FindDuplicate(t)
    BY <1>7 DEF FindDuplicate, Return, Goto
  <1>8. CASE CheckRoom(t)
    BY <1>8 DEF CheckRoom, Goto
  <1>9. CASE AppendOne(t)
    BY <1>9 DEF AppendOne, Goto
  <1>10. CASE PublishSlot(t)
    BY <1>10 DEF PublishSlot, Goto
  <1>11. CASE UnlockLeaf(t)
    BY <1>11 DEF UnlockLeaf, Return, Goto
  <1>12. CASE FillBuffer(t)
    BY <1>12 DEF FillBuffer, Goto
  <1>13. CASE MarkSplit(t)
    BY <1>13 DEF MarkSplit, Goto
  <1>14. CASE SplitLeaf(t)
    BY <1>14 DEF SplitLeaf, Goto
  <1>15. CASE CheckRoot(t)
    BY <1>15 DEF CheckRoot, Goto
  <1>16. CASE AcquireWrite(t)
    BY <1>16 DEF AcquireWrite, TakeWrite, Busy, Goto
  <1>17. CASE NewRoot(t)
    BY <1>17 DEF NewRoot, Goto
  <1>18. CASE SplitInner(t)
    BY <1>18 DEF SplitInner, Goto
  <1>19. CASE Unmark(t)
    BY <1>19 DEF Unmark, Goto
  <1>20. CASE RestoreAlt(t)
    BY <1>20 DEF RestoreAlt, Goto
  <1>21. CASE ReleaseWrite(t)
    BY <1>21 DEF ReleaseWrite, DropWrite, Goto
  <1>22. CASE ScanRelease(t)
    BY <1>22 DEF ScanRelease, DropRead, Goto
  <1>23. CASE ScanTest(t)
    BY <1>23 DEF ScanTest, Return, Goto
  <1>24. CASE ScanClaim(t)
    BY <1>24 DEF ScanClaim, Goto
  <1>25. CASE ScanRead(t)
    BY <1>25 DEF ScanRead, Collect, Goto
  <1>26. CASE ScanUnlock(t)
    BY <1>26 DEF ScanUnlock, Return, Goto
  <1>27. CASE ScanNext(t)
    BY <1>27 DEF ScanNext, Return, Goto
  <1>28. CASE FastSibling(t)
    BY <1>28 DEF FastSibling, Goto
  <1>29. CASE FastAlt(t)
    BY <1>29 DEF FastAlt, Goto
  <1>30. CASE FastRead(t)
    BY <1>30 DEF FastRead, Collect, Return, Goto
  <1> QED
    BY <1>1, <1>2, <1>3, <1>4, <1>5, <1>6, <1>7, <1>8, <1>9, <1>10, <1>11,
       <1>12, <1>13, <1>14, <1>15, <1>16, <1>17, <1>18, <1>19, <1>20, <1>21,
       <1>22, <1>23, <1>24, <1>25, <1>26, <1>27, <1>28, <1>29, <1>30
    DEF Step, InsertStep, ScanStep

(* An insert is no scan.                                                   *)
LEMMA InsertsLeaveScans ==
  ASSUME TypeOK, LocalsInv, NEW t \in Thread, InsertStep(t)
  PROVE  /\ UNCHANGED scanVars
         /\ pc'[t] \notin {"find_insert", "scan_release", "scan_test", "scan_lock",
                          "scan_read", "scan_unlock", "scan_next", "fast_alt", "fast_read"}
         /\ pc'[t] = "acquire_read" => op'[t].kind = "insert"
  <1> USE DEF TypeOK, LocalsInv, InsertPC, InsertOwns, Marked, HalfSplit, callVars, scanVars
  <1>1. CASE AnnounceWrite(t)
    BY <1>1 DEF AnnounceWrite, Busy
  <1>2. CASE TryClaim(t)
    BY <1>2 DEF TryClaim, Goto
  <1>3. CASE ReleaseRead(t)
    BY <1>3 DEF ReleaseRead, DropRead, Goto
  <1>4. CASE FindDuplicate(t)
    BY <1>4 DEF FindDuplicate, Return, Goto
  <1>5. CASE CheckRoom(t)
    BY <1>5 DEF CheckRoom, Goto
  <1>6. CASE AppendOne(t)
    BY <1>6 DEF AppendOne, Goto
  <1>7. CASE PublishSlot(t)
    BY <1>7 DEF PublishSlot, Goto
  <1>8. CASE UnlockLeaf(t)
    BY <1>8 DEF UnlockLeaf, Return, Goto
  <1>9. CASE FillBuffer(t)
    BY <1>9 DEF FillBuffer, Goto
  <1>10. CASE MarkSplit(t)
    BY <1>10 DEF MarkSplit, Goto
  <1>11. CASE SplitLeaf(t)
    BY <1>11 DEF SplitLeaf, Goto
  <1>12. CASE CheckRoot(t)
    BY <1>12 DEF CheckRoot, Goto
  <1>13. CASE AcquireWrite(t)
    BY <1>13 DEF AcquireWrite, TakeWrite, Busy, Goto
  <1>14. CASE NewRoot(t)
    BY <1>14 DEF NewRoot, Goto
  <1>15. CASE SplitInner(t)
    BY <1>15 DEF SplitInner, Goto
  <1>16. CASE Unmark(t)
    BY <1>16 DEF Unmark, Goto
  <1>17. CASE RestoreAlt(t)
    BY <1>17 DEF RestoreAlt, Goto
  <1>18. CASE ReleaseWrite(t)
    BY <1>18 DEF ReleaseWrite, DropWrite, Goto
  <1> QED
    BY <1>1, <1>2, <1>3, <1>4, <1>5, <1>6, <1>7, <1>8, <1>9, <1>10, <1>11,
       <1>12, <1>13, <1>14, <1>15, <1>16, <1>17, <1>18
    DEF InsertStep

(* The leaf that find_insert returns begins at or below the key, even      *)
(* while the key's record is in the leaf split off from it.                *)
LEMMA RouteStartsBefore ==
  ASSUME IInv, HalvesInv, NEW j \in Key
  PROVE  \E i \in KeysOf[route[j]] : i <= j
  <1>1. route[j] \in Leaf /\ j \in Nat
    BY KeyAssumption DEF IInv, TypeOK, IndexType
  <1>2. CASE \A t \in Thread : ~Parts(t, j)
    <2>1. j \in KeysOf[route[j]]
      BY <1>1, <1>2 DEF KeysOf, Belongs
    <2> QED BY <1>1, <2>1
  <1>3. ASSUME NEW t \in Thread, Parts(t, j) PROVE \E i \in KeysOf[route[j]] : i <= j
    <2>1. pc[t] \in HalfSplit /\ leaf[t] = route[j] /\ j > split_key[t]
      BY <1>3 DEF Parts
    <2>2. split_key[t] \in Key /\ split_key[t] \in Nat /\ route[split_key[t]] = leaf[t]
      BY <2>1, KeyAssumption DEF HalvesInv
    <2>3. \A u \in Thread : Parts(u, split_key[t]) => u = t
      BY <2>1, <2>2 DEF Parts, IInv, ClaimInv, LeafMutex, OwnsLeaf, InsertOwns, Marked
    <2>4. ~Parts(t, split_key[t])
      BY <2>2 DEF Parts
    <2>5. split_key[t] \in KeysOf[route[j]]
      BY <1>1, <2>1, <2>2, <2>3, <2>4 DEF KeysOf, Belongs
    <2> QED BY <1>1, <2>1, <2>2, <2>5
  <1> QED BY <1>2, <1>3

(* What is stored, not before a leaf and not in it, is behind it.          *)
LEMMA ReadLeaf ==
  ASSUME IInv, ConvexInv, NEW l \in Leaf, NEW k \in Stored,
         k \in NotBefore(KeysOf[l]), k \notin content[l]
  PROVE  k \in After(KeysOf[l])
  <1>1. k \in Key /\ Key \subseteq Nat /\ KeysOf[l] \subseteq Key
    BY KeyAssumption, KeysOfType DEF Stored
  <1>2. k \notin KeysOf[l]
    <2>1. PICK m \in Leaf : k \in content[m]
      BY DEF Stored
    <2> QED BY <1>1, <2>1, RecordsBelong, BelongsOnce
  <1>3. PICK i \in KeysOf[l] : i <= k
    BY DEF NotBefore
  <1>4. ASSUME NEW j \in KeysOf[l] PROVE j < k
    <2>1. i \in Nat /\ j \in Nat /\ k \in Nat /\ i # k /\ j # k
      BY <1>1, <1>2
    <2>2. ~(i < k /\ k < j)
      BY <1>1, <1>2 DEF ConvexInv, Convex
    <2> QED BY <1>3, <2>1, <2>2
  <1> QED BY <1>1, <1>4 DEF After

(* A scan that is not done has taken the whole leaf.                       *)
LEMMA TakesAll ==
  ASSUME NEW S \in SUBSET Key, NEW taken, NEW n \in Nat, NEW c \in Nat,
         Takes(taken, S, n - c), c + Cardinality(taken) < n
  PROVE  taken = S
  <1>1. Cardinality(taken) # n - c
    BY DEF Takes
  <1> QED BY <1>1 DEF Takes

(* Another thread's step takes nothing away from what a scan expects.      *)
LEMMA OthersExpect ==
  ASSUME ScanIInv, NEW t \in Thread, Step(t), NEW u \in Thread \ {t}
  PROVE  ScanOK(u)'
  <1> USE DEF ScanIInv, ChainInv
  <1>1. /\ pc'[u] = pc[u] /\ op'[u] = op[u] /\ leaf'[u] = leaf[u]
        /\ count'[u] = count[u] /\ scan_array'[u] = scan_array[u]
        /\ fast'[u] = fast[u] /\ owed'[u] = owed[u]
    BY OthersKeep, OthersScan DEF IInv
  <1>2. ScanOK(u) /\ Stored \subseteq Stored'
    BY StoredGrows DEF ScanInv
  <1>3. leaf[u] \in Leaf =>
           /\ NotBefore(KeysOf[leaf[u]]) \subseteq NotBefore(KeysOf'[leaf[u]])
           /\ After(KeysOf[leaf[u]]) \subseteq After(KeysOf'[leaf[u]])
    BY BoundsStay DEF IInv, AllocInv
  <1>4. pc[u] \in ScanPC \ {"scan_next", "undefined"} => leaf[u] \in Leaf
    BY DEF IInv, LocalsInv
  <1> QED BY <1>1, <1>2, <1>3, <1>4 DEF ScanOK, Expects, Rest, ScanPC, ScanOwns

(* ... nor does its own.                                                   *)
LEMMA OwnExpects ==
  ASSUME ScanIInv, NEW t \in Thread, Step(t)
  PROVE  ScanOK(t)'
  <1> USE DEF ScanIInv, ChainInv
  <1>1. Stored \subseteq Stored' /\ ScanOK(t)
    BY StoredGrows DEF ScanInv
  <1>2. ASSUME pc[t] # "split_leaf" PROVE KeysOf' = KeysOf
    BY <1>2, SteadyStep DEF SplitLeaf
  <1>3. pc[t] \in ScanPC \ {"scan_next", "undefined"} => leaf[t] \in Leaf
    BY DEF IInv, LocalsInv
  <1> USE DEF IInv, TypeOK, ScanOK
  <1>4. CASE InsertStep(t)
    BY <1>1, <1>4, InsertsLeaveScans DEF Expects, scanVars
  <1>5. CASE Invoke(t)
    <2>1. /\ pc'[t] = "acquire_read" /\ fast'[t] = FALSE /\ content' = content
          /\ op'[t].kind = "scan" => \A k \in owed'[t] : op'[t].key <= k
          /\ owed'[t] \subseteq Stored
      BY <1>5, KeyAssumption DEF Invoke, Goto, leafVars, CallType, ScanType, Op, Stored
    <2> QED BY <1>1, <2>1 DEF Expects
  <1>6. CASE AcquireRead(t)
    <2>1. /\ pc[t] = "acquire_read" /\ pc'[t] = "find_insert" /\ op' = op
          /\ fast' = fast /\ owed' = owed
      BY <1>6 DEF AcquireRead, Goto, callVars, scanVars
    <2> QED BY <1>1, <2>1 DEF Expects
  <1>7. CASE FindInsert(t)
    <2>1. /\ pc[t] = "find_insert" /\ leaf'[t] = route[op[t].key]
          /\ fast' = fast /\ owed' = owed /\ scan_array' = scan_array
          /\ pc'[t] = IF op[t].kind = "insert" THEN "cas" ELSE "scan_release"
      BY <1>7 DEF FindInsert, Goto, LocalType, scanVars
    <2>2. op[t] \in Op
      BY <2>1 DEF LocalsInv
    <2>3. ASSUME ~fast[t], op[t].kind = "scan"
          PROVE  Rest(t) \subseteq NotBefore(KeysOf[route[op[t].key]])
      <3>1. \A k \in Rest(t) : k \in Key /\ op[t].key <= k
        BY <1>1, <2>1, <2>3 DEF Expects, Rest, ScanType
      <3>2. PICK i \in KeysOf[route[op[t].key]] : i <= op[t].key
        BY <2>2, OpParts, RouteStartsBefore
      <3>3. i \in Nat /\ op[t].key \in Nat /\ Key \subseteq Nat
        BY <2>2, <3>2, OpParts, KeyAssumption, KeysOfType DEF IndexType
      <3>4. ASSUME NEW k \in Rest(t) PROVE i <= k
        <4>1. PICK start \in Nat : start = op[t].key
          BY <3>3
        <4>2. k \in Nat /\ i \in Nat /\ i <= start /\ start <= k
          BY <3>1, <3>2, <3>3, <4>1
        <4> QED BY <4>2
      <3> QED BY <3>1, <3>4 DEF NotBefore
    <2>4. op[t].kind \in {"insert", "scan"}
      BY <2>2, OpParts
    <2> QED BY <1>1, <1>2, <2>1, <2>3, <2>4 DEF Expects, Rest
  <1>8. CASE ScanRelease(t)
    <2>1. /\ pc[t] = "scan_release" /\ pc'[t] = "scan_test" /\ leaf' = leaf
          /\ fast' = fast /\ owed' = owed /\ scan_array' = scan_array
      BY <1>8 DEF ScanRelease, Goto, localVars, scanVars
    <2> QED BY <1>1, <1>2, <2>1 DEF Expects, Rest
  <1>9. CASE ScanTest(t)
    <2>1. /\ pc[t] = "scan_test" /\ pc'[t] \in {"idle", "fast_sibling", "scan_lock"}
          /\ pc'[t] = "scan_lock" => leaf' = leaf
          /\ fast' = fast /\ owed' = owed /\ scan_array' = scan_array
      BY <1>9 DEF ScanTest, Return, Goto, localVars, scanVars
    <2> QED BY <1>1, <1>2, <2>1 DEF Expects, Rest
  <1>10. CASE ScanClaim(t)
    <2>1. /\ pc[t] = "scan_lock" /\ pc'[t] \in {"fast_sibling", "scan_read"}
          /\ leaf' = leaf
          /\ fast' = fast /\ owed' = owed /\ scan_array' = scan_array
      BY <1>10 DEF ScanClaim, Goto, localVars, scanVars
    <2> QED BY <1>1, <1>2, <2>1 DEF Expects, Rest
  <1>11. CASE ScanRead(t)
    <2>1. PICK taken \in SUBSET content[leaf[t]] :
             /\ Takes(taken, content[leaf[t]], op[t].count - count[t])
             /\ Collect(t, taken)
      BY <1>11 DEF ScanRead
    <2>2. /\ pc[t] = "scan_read" /\ pc'[t] = "scan_unlock" /\ leaf' = leaf /\ op' = op
          /\ fast' = fast /\ owed' = owed
      BY <1>11 DEF ScanRead, Goto, localVars, callVars
    <2>3. /\ count'[t] = count[t] + Cardinality(taken)
          /\ scan_array'[t] = scan_array[t] \cup taken
      BY <2>1 DEF Collect, ScanType
    <2>4. leaf[t] \in Leaf /\ content[leaf[t]] \in SUBSET Key
      BY <1>3, <2>2 DEF ScanPC, ScanOwns, LeafType
    <2>5. op[t].count \in Nat /\ count[t] \in Nat
      BY <2>2, OpParts DEF LocalsInv, ScanType
    <2>6. ASSUME ~fast[t], count'[t] < op[t].count
          PROVE  Rest(t)' \subseteq After(KeysOf[leaf[t]])
      <3>1. taken = content[leaf[t]]
        BY <2>1, <2>3, <2>4, <2>5, <2>6, TakesAll
      <3>2. Rest(t) \subseteq NotBefore(KeysOf[leaf[t]]) /\ Rest(t) \subseteq Stored
        BY <1>1, <2>2, <2>6 DEF Expects, Rest
      <3>3. Rest(t)' = Rest(t) \ content[leaf[t]]
        BY <2>2, <2>3, <3>1 DEF Rest
      <3> QED BY <2>4, <3>2, <3>3, ReadLeaf
    <2> QED BY <1>1, <1>2, <2>2, <2>6 DEF Expects
  <1>12. CASE ScanUnlock(t)
    <2>1. /\ pc[t] = "scan_unlock" /\ pc'[t] \in {"idle", "scan_next"}
          /\ pc'[t] = "scan_next" => leaf' = leaf /\ count[t] < op[t].count
          /\ fast' = fast /\ owed' = owed /\ scan_array' = scan_array
      BY <1>12 DEF ScanUnlock, Return, Goto, localVars, scanVars
    <2>2. leaf[t] \in Leaf
      BY <1>3, <2>1 DEF ScanPC, ScanOwns
    <2> QED BY <1>1, <1>2, <2>1, <2>2 DEF Expects, Rest
  <1>13. CASE ScanNext(t)
    <2>1. /\ pc[t] = "scan_next" /\ pc'[t] \in {"idle", "scan_test", "undefined"}
          /\ pc'[t] = "scan_test" => /\ leaf[t] \in Leaf /\ next[leaf[t]] \in Leaf
                                    /\ leaf'[t] = next[leaf[t]]
          /\ fast' = fast /\ owed' = owed /\ scan_array' = scan_array
      BY <1>13 DEF ScanNext, Return, Goto, LocalType, scanVars
    <2>2. leaf[t] \in Leaf /\ next[leaf[t]] \in Leaf =>
             After(KeysOf[leaf[t]]) = NotBefore(KeysOf[next[leaf[t]]])
      BY DEF LinkInv, AllocInv
    <2> QED BY <1>1, <1>2, <2>1, <2>2 DEF Expects, Rest
  <1>14. CASE FastSibling(t)
    <2>1. pc'[t] = "fast_alt" /\ fast'[t] /\ owed' = owed
      BY <1>14 DEF FastSibling, Goto, ScanType
    <2> QED BY <1>1, <2>1
  <1>15. CASE FastAlt(t)
    <2>1. pc[t] = "fast_alt" /\ fast' = fast /\ owed' = owed
      BY <1>15 DEF FastAlt, scanVars
    <2> QED BY <1>1, <2>1
  <1>16. CASE FastRead(t)
    <2>1. pc[t] = "fast_read" /\ fast' = fast /\ owed' = owed
      BY <1>16 DEF FastRead, scanVars
    <2> QED BY <1>1, <2>1
  <1> QED BY <1>4, <1>5, <1>6, <1>7, <1>8, <1>9, <1>10, <1>11, <1>12, <1>13, <1>14,
             <1>15, <1>16 DEF Step, ScanStep

(* A scan that ends behind a leaf has met the end of the chain.            *)
LEMMA ScanNextEnds ==
  ASSUME TypeOK, NEW t \in Thread, Step(t), pc[t] = "scan_next", pc'[t] = "idle"
  PROVE  next[leaf[t]] = NoLeaf
  <1>1. ScanNext(t)
    BY DEF Step, InsertStep, ScanStep, Invoke, AcquireRead, FindInsert, TryClaim,
           ReleaseRead, FindDuplicate, CheckRoom, AppendOne, PublishSlot, UnlockLeaf,
           FillBuffer, MarkSplit, SplitLeaf, CheckRoot, AnnounceWrite, AcquireWrite,
           NewRoot, SplitInner, Unmark, RestoreAlt, ReleaseWrite, ScanRelease, ScanTest,
           ScanClaim, ScanRead, ScanUnlock, FastSibling, FastAlt, FastRead
  <1> QED BY <1>1 DEF ScanNext, Goto, TypeOK

----------------------------------------------------------------------------
(* In the constructor's tree all keys belong to the root leaf.             *)
LEMMA InitChain == Init => ScanIInv
  <1> SUFFICES ASSUME Init PROVE ChainInv
    BY InitInv DEF ScanIInv
  <1> USE DEF Init, EmptyTree
  <1>1. KeysOf = [l \in Leaf |-> IF l = RootLeaf THEN Key ELSE {}]
    BY DEF KeysOf, Belongs, Parts, HalfSplit
  <1>2. ConvexInv
    BY <1>1 DEF ConvexInv, Convex
  <1>3. LinkInv
    <2>1. After(Key) = {}
      <3>1. \A k \in Key : ~(k < k)
        BY KeyAssumption
      <3> QED BY <3>1 DEF After
    <2>2. next[RootLeaf] \notin Leaf
      BY LeafAssumption
    <2> QED BY <1>1, <2>1, <2>2, LeafAssumption DEF LinkInv
  <1>4. HalvesInv
    BY DEF HalvesInv, HalfSplit
  <1>5. ScanInv
    BY DEF ScanInv, ScanOK, Expects
  <1> QED BY <1>2, <1>3, <1>4, <1>5 DEF ChainInv

(* Every step of every thread preserves the invariant.                     *)
LEMMA NextChain == ScanIInv /\ [Next]_vars => ScanIInv'
  <1>1. ASSUME ScanIInv, NEW t \in Thread, Step(t) PROVE ChainInv'
    <2>1. ConvexInv' /\ LinkInv' /\ HalvesInv'
      BY <1>1, ConvexStep, LinkStep, HalvesStep DEF ScanIInv, ChainInv
    <2>2. ScanInv'
      BY <1>1, OwnExpects, OthersExpect DEF ScanInv
    <2> QED BY <2>1, <2>2 DEF ChainInv
  <1>2. ASSUME ChainInv, UNCHANGED vars PROVE ChainInv'
    <2> USE <1>2 DEF vars, lockVars, indexVars, leafVars, callVars, localVars, scanVars
    <2>1. KeysOf' = KeysOf /\ Stored' = Stored
      BY DEF KeysOf, Belongs, Parts, Stored
    <2> QED BY <2>1 DEF ChainInv, ConvexInv, LinkInv, HalvesInv, ScanInv, ScanOK,
                        Expects, Rest
  <1>3. IInv /\ [Next]_vars => IInv'
    BY NextInv
  <1> QED BY <1>1, <1>2, <1>3 DEF ScanIInv, Next, Done

(* The chain and the scans keep their invariant, with that of insert.      *)
THEOREM ChainInvariance == Spec => []ScanIInv
  BY InitChain, NextChain, PTL DEF Spec

(* Following next leads through the keys in order at every moment, though  *)
(* a split links the new leaf long before the inner nodes know it.         *)
THEOREM ChainInOrder == Spec => []ChainOrdered
  <1>1. ScanIInv => ChainOrdered
    <2> SUFFICES ASSUME ScanIInv, NEW l \in heap, next[l] \in Leaf,
                        NEW j \in content[l], NEW k \in content[next[l]]
                 PROVE  j < k
      BY DEF ScanIInv, IInv, AllocInv, ChainOrdered, TypeOK, LeafType
    <2>1. l \in Leaf /\ j \in KeysOf[l] /\ k \in KeysOf[next[l]]
      BY RecordsBelong DEF ScanIInv, IInv, TypeOK, LeafType
    <2>2. k \in Key /\ k \in Nat
      BY <2>1, KeyAssumption, KeysOfType
    <2>3. k \in After(KeysOf[l])
      <3>1. k \in NotBefore(KeysOf[next[l]])
        BY <2>1, <2>2 DEF NotBefore
      <3> QED BY <3>1 DEF ScanIInv, ChainInv, LinkInv
    <2> QED BY <2>1, <2>3 DEF After
  <1> QED BY <1>1, ChainInvariance, PTL

(* A scan that only read leaves it had claimed has, at the end of the      *)
(* chain, every record from its start key on that it was called with.      *)
THEOREM ClaimingScansMissNothing == Spec => ClaimingScanComplete
  <1>1. ScanIInv /\ [Next]_vars =>
           [\A t \in Thread :
               ScanEnds(t) /\ ~fast[t] => owed[t] \subseteq scan_array[t]]_vars
    <2> SUFFICES ASSUME ScanIInv, Next, NEW t \in Thread, ScanEnds(t), ~fast[t]
                 PROVE  owed[t] \subseteq scan_array[t]
      OBVIOUS
    <2>1. PICK u \in Thread : Step(u)
      BY DEF Next, Done, vars, ScanEnds
    <2>2. pc[t] = "scan_next" /\ pc'[t] = "idle"
      BY DEF ScanEnds
    <2>3. Step(t)
      BY <2>1, <2>2, OthersKeep DEF ScanIInv, IInv
    <2>4. leaf[t] \in Leaf /\ Rest(t) \subseteq After(KeysOf[leaf[t]])
      BY <2>2 DEF ScanIInv, ChainInv, ScanInv, ScanOK, Expects
    <2>5. next[leaf[t]] = NoLeaf
      BY <2>2, <2>3, ScanNextEnds DEF ScanIInv, IInv
    <2>6. After(KeysOf[leaf[t]]) = {}
      BY <2>4, <2>5, LeafAssumption DEF ScanIInv, IInv, AllocInv, ChainInv, LinkInv
    <2> QED BY <2>4, <2>6 DEF Rest
  <1> QED BY <1>1, ChainInvariance, PTL DEF Spec, ClaimingScanComplete
============================================================================
