------------------------- MODULE ConcurrentTreeProofs -------------------------
(***************************************************************************)
(* The inductive invariant IInv of insert and scan is preserved by every   *)
(* step of every thread, whatever Thread, Key, Leaf, MAX_LEAF_KEY and the  *)
(* workload are; the safety properties follow from it.                     *)
(*                                                                         *)
(* One lemma ("...Step") proves each conjunct of IInv, with one case per   *)
(* action.  They build on each other in this order: the locks tell who     *)
(* reads and writes the inner nodes (LockStep, WriterAlone); temp_insert   *)
(* tells who is in a leaf (ClaimStep); so the leaf a thread claimed is     *)
(* still where its key leads (RouteStep) and the thread that puts a root   *)
(* over its leaf splits alone (RootSplitAlone); so a split parts the       *)
(* records of a leaf (SplitStep) and leaves each of them where it can be   *)
(* found (RecordStep); so a key that was looked for in its leaf is in no   *)
(* leaf (NewKeyIsNew), and in no log (LogStep).                            *)
(*                                                                         *)
(* From IInv it follows too, at the end, that ConcurrentTree implements    *)
(* KVSet: with the keys in the leaves for the abstract set, every step of  *)
(* a thread is one step of KVSet or changes nothing KVSet sees.  An insert *)
(* takes effect when its slot is published, an answer of false is decided  *)
(* by the search of the claimed leaf, and a split loses no record.         *)
(***************************************************************************)
EXTENDS ConcurrentTreeInv, FiniteSetTheorems, TLAPS

(* The variables a step leaves alone keep their types.                     *)
LEMMA TypeFrame ==
  /\ LockType /\ UNCHANGED lockVars => LockType'
  /\ IndexType /\ UNCHANGED indexVars => IndexType'
  /\ LeafType /\ UNCHANGED leafVars => LeafType'
  /\ LogType /\ UNCHANGED log => LogType'
  /\ CallType /\ UNCHANGED callVars => CallType'
  /\ LocalType /\ UNCHANGED localVars => LocalType'
  /\ ScanType /\ UNCHANGED scanVars => ScanType'
  BY DEF LockType, IndexType, LeafType, LogType, CallType, LocalType, ScanType,
         lockVars, indexVars, leafVars, callVars, localVars, scanVars

(* The fields of a call.                                                   *)
LEMMA OpParts ==
  ASSUME NEW o \in Op
  PROVE  o.kind \in {"insert", "scan"} /\ o.key \in Key /\ o.count \in Nat
  BY DEF Op

(* temp_insert++ keeps the byte a byte.                                    *)
LEMMA ByteIncrement ==
  ASSUME NEW n \in 0 .. 255
  PROVE  (n + 1) % 256 = IF n = 255 THEN 0 ELSE n + 1
  OBVIOUS

(* malloc returns a leaf that was not in use.                              *)
LEMMA NewLeafIsFresh ==
  ASSUME Leaf \ heap # {}
  PROVE  NewLeaf \in Leaf \ heap
  BY DEF NewLeaf

(* Appending to one log keeps all logs sequences.                          *)
LEMMA AppendType ==
  ASSUME NEW S, NEW f \in [Thread -> Seq(S)], NEW u \in Thread, NEW e \in S
  PROVE  [f EXCEPT ![u] = Append(@, e)] \in [Thread -> Seq(S)]
  OBVIOUS

(* What a scan takes from a leaf extends its result.                       *)
LEMMA CollectType ==
  ASSUME ScanType, NEW u \in Thread, NEW taken \in SUBSET Key,
         Collect(u, taken), UNCHANGED <<fast, owed>>
  PROVE  ScanType'
  <1>1. Cardinality(taken) \in Nat
    BY KeyAssumption, FS_Subset, FS_CardinalityType
  <1>2. count' \in [Thread -> Nat]
    BY <1>1 DEF Collect, ScanType
  <1>3. scan_array' \in [Thread -> SUBSET Key]
    BY DEF Collect, ScanType
  <1> QED BY <1>2, <1>3 DEF ScanType

(* Every step keeps every variable's type.                                 *)
LEMMA TypeStep ==
  ASSUME TypeOK, LocalsInv, NEW t \in Thread, Step(t)
  PROVE  TypeOK' /\ LocalsInv'
  <1> USE OpParts, NewLeafIsFresh, KeyAssumption, LeafAssumption
      DEF PC, InsertPC, ScanPC, ReadHeld, WriteHeld, OwnsLeaf, InsertOwns, ScanOwns,
          Marked, HalfSplit, BufferLive
  <1>1. CASE Invoke(t)
    <2>1. TypeOK'
      <3>1. PICK o \in todo[t] :
              /\ todo' = [todo EXCEPT ![t] = @ \ {o}]
              /\ op' = [op EXCEPT ![t] = o]
              /\ owed' = [owed EXCEPT ![t] =
                            IF o.kind = "scan" THEN {k \in Stored : k >= o.key} ELSE {}]
        BY <1>1 DEF Invoke
      <3>2. o \in Op
        BY DEF TypeOK, CallType
      <3>3. CallType'
        BY <1>1, <3>1, <3>2 DEF Invoke, TypeOK, CallType
      <3>4. ScanType'
        <4>1. {k \in Stored : k >= o.key} \in SUBSET Key /\ {} \in SUBSET Key
          BY DEF Stored
        <4>2. owed' \in [Thread -> SUBSET Key]
          BY <3>1, <4>1 DEF TypeOK, ScanType
        <4> QED BY <1>1, <4>2 DEF Invoke, TypeOK, ScanType
      <3> QED BY <1>1, <3>3, <3>4, TypeFrame DEF TypeOK, Invoke, Goto
    <2>2. LocalsInv'
      BY <1>1, <2>1 DEF TypeOK, LocalsInv, Invoke, Goto, CallType, LocalType, LeafType,
         IndexType, callVars, localVars
    <2> QED BY <2>1, <2>2
  <1>2. CASE AnnounceWrite(t)
    <2>1. TypeOK'
      BY <1>2, TypeFrame DEF TypeOK, AnnounceWrite, Busy, Goto, LockType, lockVars,
         LocalsInv
    <2>2. LocalsInv'
      BY <1>2, <2>1 DEF TypeOK, LocalsInv, AnnounceWrite, Busy, Goto, CallType,
         LocalType, LeafType, IndexType, callVars, localVars
    <2> QED BY <2>1, <2>2
  <1>3. CASE AcquireRead(t)
    <2>1. TypeOK'
      BY <1>3, TypeFrame DEF TypeOK, AcquireRead, TakeRead, Goto, LockType, lockVars,
         LocalsInv
    <2>2. LocalsInv'
      BY <1>3, <2>1 DEF TypeOK, LocalsInv, AcquireRead, TakeRead, Goto, CallType,
         LocalType, LeafType, IndexType, callVars, localVars
    <2> QED BY <2>1, <2>2
  <1>4. CASE FindInsert(t)
    <2>1. TypeOK'
      BY <1>4, TypeFrame DEF TypeOK, FindInsert, Goto, IndexType, LocalType, localVars,
         LocalsInv
    <2>2. LocalsInv'
      <3>1. op[t] \in Op /\ op[t].kind \in {"insert", "scan"} /\ op[t].key \in Key
        BY <1>4 DEF LocalsInv, FindInsert
      <3>2. op' = op /\ other' = other /\ ptr' = ptr
        BY <1>4 DEF FindInsert, callVars
      <3>3. leaf'[t] \in Leaf /\ \A u \in Thread \ {t} : leaf'[u] = leaf[u]
        BY <1>4, <3>1 DEF FindInsert, TypeOK, LocalType, IndexType
      <3>4. /\ op[t].kind = "insert" => pc'[t] = "cas"
            /\ op[t].kind = "scan" => pc'[t] = "scan_release"
            /\ \A u \in Thread \ {t} : pc'[u] = pc[u]
        BY <1>4, <3>1 DEF FindInsert, TypeOK, Goto
      <3> QED BY <3>1, <3>2, <3>3, <3>4 DEF LocalsInv
    <2> QED BY <2>1, <2>2
  <1>5. CASE TryClaim(t)
    <2>1. TypeOK'
      BY <1>5, TypeFrame DEF TypeOK, TryClaim, Goto, LeafType, leafVars, LocalsInv
    <2>2. LocalsInv'
      BY <1>5, <2>1 DEF TypeOK, LocalsInv, TryClaim, Goto, CallType, LocalType,
         LeafType, IndexType, callVars, localVars
    <2> QED BY <2>1, <2>2
  <1>6. CASE ReleaseRead(t)
    <2>1. TypeOK'
      BY <1>6, TypeFrame DEF TypeOK, ReleaseRead, DropRead, Goto, LockType, lockVars,
         LocalsInv
    <2>2. LocalsInv'
      BY <1>6, <2>1 DEF TypeOK, LocalsInv, ReleaseRead, DropRead, Goto, CallType,
         LocalType, LeafType, IndexType, callVars, localVars
    <2> QED BY <2>1, <2>2
  <1>7. CASE FindDuplicate(t)
    <2>1. TypeOK'
      BY <1>7, TypeFrame DEF TypeOK, FindDuplicate, Return, Goto, CallType, callVars,
         LocalType, localVars, LocalsInv
    <2>2. LocalsInv'
      BY <1>7, <2>1 DEF TypeOK, LocalsInv, FindDuplicate, Return, Goto, CallType,
         LocalType, LeafType, IndexType, callVars, localVars
    <2> QED BY <2>1, <2>2
  <1>8. CASE CheckRoom(t)
    <2>1. TypeOK'
      BY <1>8, TypeFrame DEF TypeOK, CheckRoom, Goto, LocalsInv
    <2>2. LocalsInv'
      BY <1>8, <2>1 DEF TypeOK, LocalsInv, CheckRoom, Goto, CallType, LocalType,
         LeafType, IndexType, callVars, localVars
    <2> QED BY <2>1, <2>2
  <1>9. CASE AppendOne(t)
    <2>1. TypeOK'
      <3>1. op[t].key \in Key /\ alt_ptr[leaf[t]] \in Leaf \cup Thread
        BY <1>9 DEF AppendOne, TypeOK, LeafType, LocalsInv
      <3>2. [key |-> op[t].key, pptr |-> alt_ptr[leaf[t]]]
              \in [key : Key, pptr : Leaf \cup Thread]
        BY <3>1
      <3>3. LogType'
        BY <1>9, <3>2, AppendType DEF AppendOne, TypeOK, LogType
      <3> QED BY <1>9, <3>3, TypeFrame DEF TypeOK, AppendOne, Goto
    <2>2. LocalsInv'
      BY <1>9, <2>1 DEF TypeOK, LocalsInv, AppendOne, Goto, CallType, LocalType,
         LeafType, IndexType, callVars, localVars
    <2> QED BY <2>1, <2>2
  <1>10. CASE PublishSlot(t)
    <2>1. TypeOK'
      BY <1>10, TypeFrame DEF TypeOK, PublishSlot, Goto, CallType, LeafType, leafVars,
         CallType, callVars, LocalsInv
    <2>2. LocalsInv'
      BY <1>10, <2>1 DEF TypeOK, LocalsInv, PublishSlot, Goto, CallType, LocalType,
         LeafType, IndexType, callVars, localVars
    <2> QED BY <2>1, <2>2
  <1>11. CASE UnlockLeaf(t)
    <2>1. TypeOK'
      BY <1>11, TypeFrame DEF TypeOK, UnlockLeaf, Return, Goto, LeafType, leafVars,
         CallType, callVars, LocalType, localVars, LocalsInv
    <2>2. LocalsInv'
      BY <1>11, <2>1 DEF TypeOK, LocalsInv, UnlockLeaf, Return, Goto, CallType,
         LocalType, LeafType, IndexType, callVars, localVars
    <2> QED BY <2>1, <2>2
  <1>12. CASE FillBuffer(t)
    <2>1. TypeOK'
      BY <1>12, TypeFrame DEF TypeOK, FillBuffer, Goto, LeafType, LeafType, leafVars,
         LocalType, localVars, LocalsInv
    <2>2. LocalsInv'
      BY <1>12, <2>1 DEF TypeOK, LocalsInv, FillBuffer, Goto, CallType, LocalType,
         LeafType, IndexType, callVars, localVars
    <2> QED BY <2>1, <2>2
  <1>13. CASE MarkSplit(t)
    <2>1. TypeOK'
      <3>1. /\ LockType' /\ IndexType' /\ LogType' /\ CallType'
            /\ LocalType' /\ ScanType'
        BY <1>13, TypeFrame DEF TypeOK, MarkSplit
      <3>2. LeafType'
        <4>1. /\ temp_insert' = [temp_insert EXCEPT ![leaf[t]] = (@ + 1) % 256]
              /\ UNCHANGED <<heap, content, next, alt_ptr>>
          BY <1>13 DEF MarkSplit
        <4>2. leaf[t] \in Leaf
          BY <1>13 DEF MarkSplit, LocalsInv
        <4>3. (temp_insert[leaf[t]] + 1) % 256 \in 0 .. 255
          <5>1. temp_insert[leaf[t]] \in 0 .. 255
            BY ONLY <4>2, TypeOK DEF TypeOK, LeafType
          <5> QED BY ONLY <5>1, ByteIncrement
        <4> QED BY ONLY <4>1, <4>2, <4>3, TypeOK DEF TypeOK, LeafType
      <3>3. pc' \in [Thread -> PC]
        BY <1>13 DEF TypeOK, MarkSplit, Goto
      <3> QED BY <3>1, <3>2, <3>3 DEF TypeOK
    <2>2. LocalsInv'
      <3>1. /\ pc[t] = "mark" /\ pc' = [pc EXCEPT ![t] = "split_leaf"]
            /\ UNCHANGED <<op, leaf, other, ptr>>
        BY <1>13 DEF MarkSplit, Goto, callVars, localVars
      <3>2. pc' \in [Thread -> PC] /\ pc \in [Thread -> PC]
        BY <2>1 DEF TypeOK
      <3> HIDE DEF PC
      <3> QED BY ONLY LocalsInv, t \in Thread, <3>1, <3>2
              DEF LocalsInv, InsertPC, ScanPC, InsertOwns, ScanOwns, BufferLive,
                  Marked, HalfSplit
    <2> QED BY <2>1, <2>2
  <1>14. CASE SplitLeaf(t)
    <2>1. TypeOK'
      BY <1>14, TypeFrame DEF TypeOK, SplitLeaf, LinkBehind, Goto, LeafType, leafVars,
         LocalType, localVars, LocalsInv
    <2>2. LocalsInv'
      BY <1>14, <2>1 DEF TypeOK, LocalsInv, SplitLeaf, Goto, CallType, LocalType,
         LeafType, IndexType, callVars, localVars
    <2> QED BY <2>1, <2>2
  <1>15. CASE CheckRoot(t)
    <2>1. TypeOK'
      BY <1>15, TypeFrame DEF TypeOK, CheckRoot, Goto, LocalsInv
    <2>2. LocalsInv'
      BY <1>15, <2>1 DEF TypeOK, LocalsInv, CheckRoot, Goto, CallType, LocalType,
         LeafType, IndexType, callVars, localVars
    <2> QED BY <2>1, <2>2
  <1>16. CASE AcquireWrite(t)
    <2>1. LockType'
      BY <1>16 DEF TypeOK, AcquireWrite, TakeWrite, LockType
    <2>2. TypeOK'
      BY <1>16, <2>1, TypeFrame DEF TypeOK, AcquireWrite, Goto
    <2>3. LocalsInv'
      BY <1>16 DEF TypeOK, LocalsInv, AcquireWrite, Goto, callVars, localVars
    <2> QED BY <2>2, <2>3
  <1>17. CASE NewRoot(t)
    <2>1. TypeOK'
      BY <1>17, TypeFrame DEF TypeOK, NewRoot, Goto, IndexType, indexVars, LocalsInv
    <2>2. LocalsInv'
      BY <1>17, <2>1 DEF TypeOK, LocalsInv, NewRoot, Goto, CallType, LocalType,
         LeafType, IndexType, callVars, localVars
    <2> QED BY <2>1, <2>2
  <1>18. CASE SplitInner(t)
    <2>1. TypeOK'
      BY <1>18, TypeFrame DEF TypeOK, SplitInner, Goto, IndexType, indexVars, LocalsInv
    <2>2. LocalsInv'
      BY <1>18, <2>1 DEF TypeOK, LocalsInv, SplitInner, Goto, CallType, LocalType,
         LeafType, IndexType, callVars, localVars
    <2> QED BY <2>1, <2>2
  <1>19. CASE Unmark(t)
    <2>1. TypeOK'
      BY <1>19, TypeFrame DEF TypeOK, Unmark, Goto, LeafType, leafVars, LocalsInv
    <2>2. LocalsInv'
      BY <1>19, <2>1 DEF TypeOK, LocalsInv, Unmark, Goto, CallType, LocalType,
         LeafType, IndexType, callVars, localVars
    <2> QED BY <2>1, <2>2
  <1>20. CASE RestoreAlt(t)
    <2>1. TypeOK'
      BY <1>20, TypeFrame DEF TypeOK, RestoreAlt, Goto, LocalType, LeafType, leafVars,
         LocalsInv
    <2>2. LocalsInv'
      BY <1>20, <2>1 DEF TypeOK, LocalsInv, RestoreAlt, Goto, CallType, LocalType,
         LeafType, IndexType, callVars, localVars
    <2> QED BY <2>1, <2>2
  <1>21. CASE ReleaseWrite(t)
    <2>1. TypeOK'
      BY <1>21, TypeFrame DEF TypeOK, ReleaseWrite, DropWrite, Goto, LockType,
         lockVars, LocalType, localVars, LocalsInv
    <2>2. LocalsInv'
      BY <1>21, <2>1 DEF TypeOK, LocalsInv, ReleaseWrite, DropWrite, Goto, CallType,
         LocalType, LeafType, IndexType, callVars, localVars
    <2> QED BY <2>1, <2>2
  <1>22. CASE ScanRelease(t)
    <2>1. TypeOK'
      BY <1>22, TypeFrame DEF TypeOK, ScanRelease, DropRead, Goto, LockType, lockVars,
         LocalsInv
    <2>2. LocalsInv'
      BY <1>22, <2>1 DEF TypeOK, LocalsInv, ScanRelease, DropRead, Goto, CallType,
         LocalType, LeafType, IndexType, callVars, localVars
    <2> QED BY <2>1, <2>2
  <1>23. CASE ScanTest(t)
    <2>1. TypeOK'
      BY <1>23, TypeFrame DEF TypeOK, ScanTest, Return, Goto, CallType, callVars,
         LocalType, localVars, LocalsInv
    <2>2. LocalsInv'
      BY <1>23, <2>1 DEF TypeOK, LocalsInv, ScanTest, Return, Goto, CallType,
         LocalType, LeafType, IndexType, callVars, localVars
    <2> QED BY <2>1, <2>2
  <1>24. CASE ScanClaim(t)
    <2>1. TypeOK'
      BY <1>24, TypeFrame DEF TypeOK, ScanClaim, Goto, LeafType, leafVars, LocalsInv
    <2>2. LocalsInv'
      BY <1>24, <2>1 DEF TypeOK, LocalsInv, ScanClaim, Goto, CallType, LocalType,
         LeafType, IndexType, callVars, localVars
    <2> QED BY <2>1, <2>2
  <1>25. CASE ScanRead(t)
    <2>1. TypeOK'
      <3>1. PICK taken \in SUBSET content[leaf[t]] : Collect(t, taken)
        BY <1>25 DEF ScanRead
      <3>2. content[leaf[t]] \subseteq Key
        BY <1>25 DEF ScanRead, LocalsInv, TypeOK, LeafType
      <3>3. taken \in SUBSET Key
        BY <3>2
      <3>4. ScanType'
        BY <1>25, <3>1, <3>3, CollectType DEF ScanRead, TypeOK
      <3> QED BY <1>25, <3>4, TypeFrame DEF TypeOK, ScanRead, Goto
    <2>2. LocalsInv'
      BY <1>25, <2>1 DEF TypeOK, LocalsInv, ScanRead, Takes, Collect, Goto, CallType,
         LocalType, LeafType, IndexType, callVars, localVars
    <2> QED BY <2>1, <2>2
  <1>26. CASE ScanUnlock(t)
    <2>1. TypeOK'
      <3>1. LockType' /\ IndexType' /\ LogType' /\ ScanType'
        BY <1>26, TypeFrame DEF TypeOK, ScanUnlock
      <3>2. LeafType'
        BY <1>26 DEF TypeOK, ScanUnlock, LeafType, LocalsInv
      <3>3. CASE Return(t, "true")
        <4>1. CallType'
          BY <3>3 DEF TypeOK, Return, CallType
        <4>2. LocalType'
          BY <3>3 DEF TypeOK, Return, Goto, LocalType
        <4>3. pc' \in [Thread -> PC]
          BY <3>3 DEF TypeOK, Return, Goto
        <4> QED BY <3>1, <3>2, <4>1, <4>2, <4>3 DEF TypeOK
      <3>4. CASE Goto(t, "scan_next") /\ UNCHANGED <<callVars, localVars>>
        <4>1. CallType' /\ LocalType'
          BY <3>4, TypeFrame DEF TypeOK
        <4>2. pc' \in [Thread -> PC]
          BY <3>4 DEF TypeOK, Goto
        <4> QED BY <3>1, <3>2, <4>1, <4>2 DEF TypeOK
      <3> QED BY <1>26, <3>3, <3>4 DEF ScanUnlock
    <2>2. LocalsInv'
      BY <1>26, <2>1 DEF TypeOK, LocalsInv, ScanUnlock, Return, Goto, CallType,
         LocalType, LeafType, IndexType, callVars, localVars
    <2> QED BY <2>1, <2>2
  <1>27. CASE ScanNext(t)
    <2>1. TypeOK'
      <3>1. CASE leaf[t] \in Leaf
        <4>1. next[leaf[t]] \in Leaf \cup {NoLeaf, WildPtr}
          BY <3>1 DEF TypeOK, LeafType
        <4>2. LocalType' /\ CallType'
          BY <1>27, <3>1, <4>1
             DEF TypeOK, ScanNext, Return, CallType, callVars, LocalType
        <4>3. pc' \in [Thread -> PC]
          BY <1>27, <3>1 DEF TypeOK, ScanNext, Return, Goto
        <4> QED BY <1>27, <4>2, <4>3, TypeFrame DEF TypeOK, ScanNext
      <3>2. CASE leaf[t] \notin Leaf
        BY <1>27, <3>2, TypeFrame DEF TypeOK, ScanNext, Goto
      <3> QED BY <3>1, <3>2
    <2>2. LocalsInv'
      BY <1>27, <2>1 DEF TypeOK, LocalsInv, ScanNext, Return, Goto, CallType,
         LocalType, LeafType, IndexType, callVars, localVars
    <2> QED BY <2>1, <2>2
  <1>28. CASE FastSibling(t)
    <2>1. TypeOK'
      BY <1>28, TypeFrame DEF TypeOK, FastSibling, Goto, LeafType, LocalType,
         localVars, ScanType, scanVars, LocalsInv
    <2>2. LocalsInv'
      BY <1>28, <2>1 DEF TypeOK, LocalsInv, FastSibling, Goto, CallType, LocalType,
         LeafType, IndexType, callVars, localVars
    <2> QED BY <2>1, <2>2
  <1>29. CASE FastAlt(t)
    <2>1. TypeOK'
      BY <1>29, TypeFrame DEF TypeOK, FastAlt, Goto, LeafType, LocalType, localVars,
         LocalsInv
    <2>2. LocalsInv'
      BY <1>29, <2>1 DEF TypeOK, LocalsInv, FastAlt, Goto, CallType, LocalType,
         LeafType, IndexType, callVars, localVars
    <2> QED BY <2>1, <2>2
  <1>30. CASE FastRead(t)
    <2>1. TypeOK'
      <3>1. CASE ~ReadsLiveBuffer(t)
        BY <1>30, <3>1, TypeFrame DEF TypeOK, FastRead, Goto
      <3>2. CASE ReadsLiveBuffer(t)
        <4>1. PICK taken \in SUBSET dram_buffer[ptr[t]] : Collect(t, taken)
          BY <1>30, <3>2 DEF FastRead
        <4>2. taken \in SUBSET Key
          BY <3>2, <4>1 DEF ReadsLiveBuffer, TypeOK, LocalType
        <4>3. ScanType'
          BY <1>30, <3>2, <4>1, <4>2, CollectType DEF FastRead, TypeOK
        <4>4. LocalType' /\ CallType' /\ pc' \in [Thread -> PC]
          BY <1>30, <3>2
             DEF FastRead, Return, Goto, TypeOK, LocalType, CallType, callVars
        <4> QED BY <1>30, <3>2, <4>3, <4>4, TypeFrame DEF TypeOK, FastRead
      <3> QED BY <3>1, <3>2
    <2>2. LocalsInv'
      BY <1>30, <2>1 DEF TypeOK, LocalsInv, FastRead, Takes, Collect, ReadsLiveBuffer,
         Return, Goto, CallType, LocalType, LeafType, IndexType, callVars, localVars
    <2> QED BY <2>1, <2>2
  <1> QED BY <1>1, <1>2, <1>3, <1>4, <1>5, <1>6, <1>7, <1>8, <1>9, <1>10, <1>11, <1>12,
    <1>13, <1>14, <1>15, <1>16, <1>17, <1>18, <1>19, <1>20, <1>21, <1>22, <1>23, <1>24,
    <1>25, <1>26, <1>27, <1>28, <1>29, <1>30 DEF Step, InsertStep, ScanStep

(* A step of one thread changes no program point and no local of another.   *)
LEMMA OthersKeep ==
  ASSUME TypeOK, NEW t \in Thread, Step(t)
  PROVE  \A u \in Thread \ {t} :
            /\ pc'[u] = pc[u] /\ op'[u] = op[u] /\ ret'[u] = ret[u]
            /\ leaf'[u] = leaf[u] /\ other'[u] = other[u] /\ ptr'[u] = ptr[u]
            /\ split_key'[u] = split_key[u] /\ dram_buffer'[u] = dram_buffer[u]
            /\ log'[u] = log[u]
  <1> USE DEF TypeOK, LogType, CallType, LocalType, callVars, localVars
  <1>1. CASE Invoke(t)
    BY <1>1 DEF Invoke, Goto
  <1>2. CASE AnnounceWrite(t)
    BY <1>2 DEF AnnounceWrite, Busy, Goto
  <1>3. CASE AcquireRead(t)
    BY <1>3 DEF AcquireRead, TakeRead, Goto
  <1>4. CASE FindInsert(t)
    BY <1>4 DEF FindInsert, Goto
  <1>5. CASE TryClaim(t)
    BY <1>5 DEF TryClaim, Goto
  <1>6. CASE ReleaseRead(t)
    BY <1>6 DEF ReleaseRead, DropRead, Goto
  <1>7. CASE FindDuplicate(t)
    BY <1>7 DEF FindDuplicate, Return, Goto
  <1>8. CASE CheckRoom(t)
    BY <1>8 DEF CheckRoom, Goto
  <1>9. CASE AppendOne(t)
    BY <1>9 DEF AppendOne, Goto
  <1>10. CASE PublishSlot(t)
    BY <1>10 DEF PublishSlot, Goto
  <1>11. CASE UnlockLeaf(t)
    BY <1>11 DEF UnlockLeaf, Return, Goto
  <1>12. CASE FillBuffer(t)
    BY <1>12 DEF FillBuffer, Goto
  <1>13. CASE MarkSplit(t)
    BY <1>13 DEF MarkSplit, Goto
  <1>14. CASE SplitLeaf(t)
    BY <1>14 DEF SplitLeaf, Goto
  <1>15. CASE CheckRoot(t)
    BY <1>15 DEF CheckRoot, Goto
  <1>16. CASE AcquireWrite(t)
    BY <1>16 DEF AcquireWrite, TakeWrite, Busy, Goto
  <1>17. CASE NewRoot(t)
    BY <1>17 DEF NewRoot, Goto
  <1>18. CASE SplitInner(t)
    BY <1>18 DEF SplitInner, Goto
  <1>19. CASE Unmark(t)
    BY <1>19 DEF Unmark, Goto
  <1>20. CASE RestoreAlt(t)
    BY <1>20 DEF RestoreAlt, Goto
  <1>21. CASE ReleaseWrite(t)
    BY <1>21 DEF ReleaseWrite, DropWrite, Goto
  <1>22. CASE ScanRelease(t)
    BY <1>22 DEF ScanRelease, DropRead, Goto
  <1>23. CASE ScanTest(t)
    BY <1>23 DEF ScanTest, Return, Goto
  <1>24. CASE ScanClaim(t)
    BY <1>24 DEF ScanClaim, Goto
  <1>25. CASE ScanRead(t)
    BY <1>25 DEF ScanRead, Takes, Collect, Goto
  <1>26. CASE ScanUnlock(t)
    BY <1>26 DEF ScanUnlock, Return, Goto
  <1>27. CASE ScanNext(t)
    BY <1>27 DEF ScanNext, Return, Goto
  <1>28. CASE FastSibling(t)
    BY <1>28 DEF FastSibling, Goto
  <1>29. CASE FastAlt(t)
    BY <1>29 DEF FastAlt, Goto
  <1>30. CASE FastRead(t)
    BY <1>30 DEF FastRead, Takes, Collect, ReadsLiveBuffer, Return, Goto
  <1> QED
    BY <1>1, <1>2, <1>3, <1>4, <1>5, <1>6, <1>7, <1>8, <1>9, <1>10, <1>11,
         <1>12, <1>13, <1>14, <1>15, <1>16, <1>17, <1>18, <1>19, <1>20, <1>21,
         <1>22, <1>23, <1>24, <1>25, <1>26, <1>27, <1>28, <1>29, <1>30
     DEF Step, InsertStep, ScanStep

----------------------------------------------------------------------------
(* The locks.                                                              *)

(* function_lock has its readers or its one writer, and the program points  *)
(* tell which.                                                              *)
LEMMA LockStep ==
  ASSUME TypeOK, LockInv, NEW t \in Thread, Step(t)
  PROVE  LockInv'
  <1> USE ThreadAssumption
      DEF ReadHeld, WriteHeld, lockVars, TypeOK, LockType, LockInv
  <1>1. CASE Invoke(t)
    BY <1>1 DEF Invoke, Goto
  <1>2. CASE AnnounceWrite(t)
    BY <1>2 DEF AnnounceWrite, Busy, Goto
  <1>3. CASE AcquireRead(t)
    BY <1>3 DEF AcquireRead, TakeRead, Goto
  <1>4. CASE FindInsert(t)
    BY <1>4 DEF FindInsert, Goto
  <1>5. CASE TryClaim(t)
    BY <1>5 DEF TryClaim, Goto
  <1>6. CASE ReleaseRead(t)
    BY <1>6 DEF ReleaseRead, DropRead, Goto
  <1>7. CASE FindDuplicate(t)
    BY <1>7 DEF FindDuplicate, Return, Goto
  <1>8. CASE CheckRoom(t)
    BY <1>8 DEF CheckRoom, Goto
  <1>9. CASE AppendOne(t)
    BY <1>9 DEF AppendOne, Goto
  <1>10. CASE PublishSlot(t)
    BY <1>10 DEF PublishSlot, Goto
  <1>11. CASE UnlockLeaf(t)
    BY <1>11 DEF UnlockLeaf, Return, Goto
  <1>12. CASE FillBuffer(t)
    BY <1>12 DEF FillBuffer, Goto
  <1>13. CASE MarkSplit(t)
    BY <1>13 DEF MarkSplit, Goto
  <1>14. CASE SplitLeaf(t)
    BY <1>14 DEF SplitLeaf, Goto
  <1>15. CASE CheckRoot(t)
    BY <1>15 DEF CheckRoot, Goto
  <1>16. CASE AcquireWrite(t)
    BY <1>16 DEF AcquireWrite, TakeWrite, Busy, Goto
  <1>17. CASE NewRoot(t)
    BY <1>17 DEF NewRoot, Goto
  <1>18. CASE SplitInner(t)
    BY <1>18 DEF SplitInner, Goto
  <1>19. CASE Unmark(t)
    BY <1>19 DEF Unmark, Goto
  <1>20. CASE RestoreAlt(t)
    BY <1>20 DEF RestoreAlt, Goto
  <1>21. CASE ReleaseWrite(t)
    BY <1>21 DEF ReleaseWrite, DropWrite, Goto
  <1>22. CASE ScanRelease(t)
    BY <1>22 DEF ScanRelease, DropRead, Goto
  <1>23. CASE ScanTest(t)
    BY <1>23 DEF ScanTest, Return, Goto
  <1>24. CASE ScanClaim(t)
    BY <1>24 DEF ScanClaim, Goto
  <1>25. CASE ScanRead(t)
    BY <1>25 DEF ScanRead, Takes, Collect, Goto
  <1>26. CASE ScanUnlock(t)
    BY <1>26 DEF ScanUnlock, Return, Goto
  <1>27. CASE ScanNext(t)
    BY <1>27 DEF ScanNext, Return, Goto
  <1>28. CASE FastSibling(t)
    BY <1>28 DEF FastSibling, Goto
  <1>29. CASE FastAlt(t)
    BY <1>29 DEF FastAlt, Goto
  <1>30. CASE FastRead(t)
    BY <1>30 DEF FastRead, Takes, Collect, ReadsLiveBuffer, Return, Goto
  <1> QED
    BY <1>1, <1>2, <1>3, <1>4, <1>5, <1>6, <1>7, <1>8, <1>9, <1>10, <1>11,
         <1>12, <1>13, <1>14, <1>15, <1>16, <1>17, <1>18, <1>19, <1>20, <1>21,
         <1>22, <1>23, <1>24, <1>25, <1>26, <1>27, <1>28, <1>29, <1>30
     DEF Step, InsertStep, ScanStep

(* While a thread writes the inner nodes, nobody reads or writes them.     *)
LEMMA WriterAlone ==
  ASSUME LockInv, NEW t \in Thread, pc[t] \in WriteHeld
  PROVE  \A u \in Thread : /\ pc[u] \notin ReadHeld
                           /\ u # t => pc[u] \notin WriteHeld
  <1>1. writer = t /\ writer # NoThread
    BY ThreadAssumption DEF LockInv
  <1> QED BY <1>1 DEF LockInv

(* A step that neither takes nor gives up nor marks a claim.               *)
LEMMA ClaimFrame ==
  ASSUME ClaimInv, NEW t \in Thread,
         temp_insert' = temp_insert,
         \A u \in Thread \ {t} : pc'[u] = pc[u] /\ leaf'[u] = leaf[u],
         pc'[t] \in OwnsLeaf \cup {"restore"} => leaf'[t] = leaf[t],
         pc'[t] \in OwnsLeaf => pc[t] \in OwnsLeaf,
         pc'[t] \in InsertOwns => pc[t] \in InsertOwns,
         pc[t] \in Marked <=> pc'[t] \in Marked,
         pc'[t] = "restore" => pc[t] = "restore"
  PROVE  ClaimInv'
  <1> USE DEF ClaimInv, LeafMutex, OwnsLeaf, InsertOwns
  <1>1. LeafMutex'
    OBVIOUS
  <1>2. \A u \in Thread : pc'[u] \in OwnsLeaf =>
           temp_insert'[leaf'[u]] = IF pc'[u] \in Marked THEN 2 ELSE 1
    OBVIOUS
  <1>3. \A l \in Leaf : temp_insert'[l] = 2 =>
           \E u \in Thread : pc'[u] \in Marked /\ leaf'[u] = l
    OBVIOUS
  <1>4. \A v, u \in Thread :
           pc'[v] = "restore" /\ pc'[u] \in InsertOwns => leaf'[v] # leaf'[u]
    OBVIOUS
  <1> QED BY <1>1, <1>2, <1>3, <1>4

(* A successful compare-and-swap of temp_insert from 0 to 1.               *)
LEMMA ClaimTaken ==
  ASSUME TypeOK, LocalsInv, ClaimInv, NEW t \in Thread,
         leaf[t] \in Leaf, temp_insert[leaf[t]] = 0,
         temp_insert' = [temp_insert EXCEPT ![leaf[t]] = 1],
         leaf' = leaf,
         \A u \in Thread \ {t} : pc'[u] = pc[u],
         pc[t] \notin OwnsLeaf, pc'[t] \in OwnsLeaf \ Marked,
         pc'[t] \in InsertOwns => \A u \in Thread : pc[u] # "restore"
  PROVE  ClaimInv'
  <1>1. \A u \in Thread \ {t} : pc[u] \in OwnsLeaf => leaf[u] # leaf[t]
    BY DEF ClaimInv
  <1>2. LeafMutex'
    BY <1>1 DEF ClaimInv, LeafMutex
  <1>3. \A l \in Leaf : temp_insert'[l] = IF l = leaf[t] THEN 1 ELSE temp_insert[l]
    BY DEF TypeOK, LeafType
  <1>4. \A u \in Thread : pc[u] \in OwnsLeaf => leaf[u] \in Leaf
    BY DEF LocalsInv, OwnsLeaf, ScanOwns, InsertPC, ScanPC
  <1>5. \A u \in Thread : pc'[u] \in OwnsLeaf =>
           temp_insert'[leaf'[u]] = IF pc'[u] \in Marked THEN 2 ELSE 1
    BY <1>1, <1>3, <1>4 DEF ClaimInv
  <1>6. \A l \in Leaf : temp_insert'[l] <= 2
    BY <1>3 DEF ClaimInv
  <1>7. \A l \in Leaf : temp_insert'[l] = 2 =>
           \E u \in Thread : pc'[u] \in Marked /\ leaf'[u] = l
    <2>1. \A u \in Thread : pc[u] \in Marked => u # t
      BY DEF OwnsLeaf, InsertOwns
    <2> QED BY <2>1, <1>3 DEF ClaimInv
  <1>8. \A v, u \in Thread :
           pc'[v] = "restore" /\ pc'[u] \in InsertOwns => leaf'[v] # leaf'[u]
    <2>1. pc'[t] # "restore"
      BY DEF OwnsLeaf, InsertOwns, ScanOwns, Marked, HalfSplit
    <2> QED BY <2>1 DEF ClaimInv
  <1> QED BY <1>2, <1>5, <1>6, <1>7, <1>8 DEF ClaimInv

(* A claim given up by storing 0 in temp_insert.                           *)
LEMMA ClaimDropped ==
  ASSUME TypeOK, LocalsInv, ClaimInv, NEW t \in Thread,
         pc[t] \in OwnsLeaf,
         temp_insert' = [temp_insert EXCEPT ![leaf[t]] = 0],
         \A u \in Thread \ {t} : pc'[u] = pc[u] /\ leaf'[u] = leaf[u],
         pc'[t] \notin OwnsLeaf,
         pc'[t] = "restore" => leaf'[t] = leaf[t]
  PROVE  ClaimInv'
  <1>1. \A u \in Thread \ {t} : pc[u] \in OwnsLeaf => leaf[u] # leaf[t]
    BY DEF ClaimInv, LeafMutex
  <1>2. LeafMutex'
    BY DEF ClaimInv, LeafMutex
  <1>3. \A l \in Leaf : temp_insert'[l] = IF l = leaf[t] THEN 0 ELSE temp_insert[l]
    BY DEF TypeOK, LeafType
  <1>4. \A u \in Thread : pc[u] \in OwnsLeaf => leaf[u] \in Leaf
    BY DEF LocalsInv, OwnsLeaf, ScanOwns, InsertPC, ScanPC
  <1>5. \A u \in Thread : pc'[u] \in OwnsLeaf =>
           temp_insert'[leaf'[u]] = IF pc'[u] \in Marked THEN 2 ELSE 1
    BY <1>1, <1>3, <1>4 DEF ClaimInv
  <1>6. \A l \in Leaf : temp_insert'[l] <= 2
    BY <1>3 DEF ClaimInv
  <1>7. \A l \in Leaf : temp_insert'[l] = 2 =>
           \E u \in Thread : pc'[u] \in Marked /\ leaf'[u] = l
    BY <1>3 DEF ClaimInv
  <1>8. \A v, u \in Thread :
           pc'[v] = "restore" /\ pc'[u] \in InsertOwns => leaf'[v] # leaf'[u]
    BY <1>1 DEF ClaimInv, OwnsLeaf
  <1> QED BY <1>2, <1>5, <1>6, <1>7, <1>8 DEF ClaimInv

(* Claims are exclusive, and a leaf that is being restored can be claimed by*)
(* a scan only: an insert claims under function_lock, which the restoring   *)
(* thread holds for writing.                                                *)
LEMMA ClaimStep ==
  ASSUME TypeOK, TypeOK', LocalsInv, LockInv, ClaimInv, AllocInv, NEW t \in
         Thread, Step(t)
  PROVE  ClaimInv'
  <1> USE NewLeafIsFresh, OthersKeep
      DEF ReadHeld, WriteHeld, OwnsLeaf, InsertOwns, ScanOwns, Marked,
          HalfSplit, localVars, leafVars, TypeOK, LocalType, LeafType
  <1>1. CASE Invoke(t)
    BY <1>1, ClaimFrame DEF Invoke, Goto
  <1>2. CASE AnnounceWrite(t)
    BY <1>2, ClaimFrame DEF AnnounceWrite, Busy, Goto
  <1>3. CASE AcquireRead(t)
    BY <1>3, ClaimFrame DEF AcquireRead, TakeRead, Goto
  <1>4. CASE FindInsert(t)
    BY <1>4, ClaimFrame DEF FindInsert, Goto
  <1>5. CASE TryClaim(t)
    <2>1. pc[t] = "cas" /\ leaf[t] \in Leaf /\ leaf' = leaf
      BY <1>5 DEF TryClaim, localVars, LocalsInv, InsertPC
    <2>2. CASE temp_insert[leaf[t]] # 0
      BY <1>5, <2>1, <2>2, ClaimFrame DEF TryClaim, Goto
    <2>3. CASE temp_insert[leaf[t]] = 0
      <3>1. \A u \in Thread : pc[u] # "restore"
        BY <2>1, WriterAlone
      <3>2. temp_insert' = [temp_insert EXCEPT ![leaf[t]] = 1] /\ pc'[t] = "release"
        BY <1>5, <2>3 DEF TryClaim, Goto
      <3> QED BY <2>1, <2>3, <3>1, <3>2, ClaimTaken
    <2> QED BY <2>2, <2>3
  <1>6. CASE ReleaseRead(t)
    BY <1>6, ClaimFrame DEF ReleaseRead, DropRead, Goto
  <1>7. CASE FindDuplicate(t)
    BY <1>7, ClaimFrame DEF FindDuplicate, Return, Goto
  <1>8. CASE CheckRoom(t)
    BY <1>8, ClaimFrame DEF CheckRoom, Goto
  <1>9. CASE AppendOne(t)
    BY <1>9, ClaimFrame DEF AppendOne, Goto
  <1>10. CASE PublishSlot(t)
    BY <1>10, ClaimFrame DEF PublishSlot, Goto
  <1>11. CASE UnlockLeaf(t)
    <2>1. /\ pc[t] = "unlock" /\ pc'[t] = "idle"
          /\ temp_insert' = [temp_insert EXCEPT ![leaf[t]] = 0]
      BY <1>11 DEF UnlockLeaf, Return, Goto
    <2>2. \A u \in Thread \ {t} : pc'[u] = pc[u] /\ leaf'[u] = leaf[u]
      BY OthersKeep
    <2>3. pc[t] \in OwnsLeaf /\ pc'[t] \notin OwnsLeaf
      BY <2>1
    <2>4. pc'[t] = "restore" => leaf'[t] = leaf[t]
      BY <2>1
    <2> HIDE DEF OwnsLeaf, TypeOK
    <2> QED BY ONLY TypeOK, LocalsInv, ClaimInv, t \in Thread, <2>1, <2>2, <2>3, <2>4,
                    ClaimDropped
  <1>12. CASE FillBuffer(t)
    BY <1>12, ClaimFrame DEF FillBuffer, Goto
  <1>13. CASE MarkSplit(t)
    <2>1. /\ pc[t] = "mark" /\ pc'[t] = "split_leaf" /\ leaf' = leaf
          /\ temp_insert' = [temp_insert EXCEPT ![leaf[t]] = (@ + 1) % 256]
      BY <1>13, SMTT(30) DEF MarkSplit, Goto
    <2>2. leaf[t] \in Leaf
      BY <2>1 DEF LocalsInv, InsertPC
    <2>3. temp_insert[leaf[t]] = 1
      <3>1. temp_insert[leaf[t]] = IF pc[t] \in Marked THEN 2 ELSE 1
        BY <2>1 DEF ClaimInv
      <3> QED BY ONLY <2>1, <3>1
    <2>4. \A l \in Leaf : temp_insert'[l] = IF l = leaf[t] THEN 2 ELSE temp_insert[l]
      <3>1. temp_insert \in [Leaf -> 0 .. 255]
        BY ONLY TypeOK DEF TypeOK, LeafType
      <3>2. (temp_insert[leaf[t]] + 1) % 256 = 2
        <4>1. (1 + 1) % 256 = 2
          BY ONLY 1 \in 0 .. 255, ByteIncrement
        <4> QED BY ONLY <2>3, <4>1
      <3> QED BY ONLY <2>1, <2>2, <3>1, <3>2
    <2>5. \A u \in Thread \ {t} : pc'[u] = pc[u]
      BY OthersKeep
    <2>6. \A u \in Thread : pc[u] \in OwnsLeaf => leaf[u] \in Leaf
      BY DEF LocalsInv, InsertPC, ScanPC
    <2>7. \A u \in Thread \ {t} : pc[u] \in OwnsLeaf => leaf[u] # leaf[t]
      BY <2>1, SMTT(30) DEF ClaimInv, LeafMutex
    <2>8. \A u \in Thread : pc'[u] \in OwnsLeaf <=> pc[u] \in OwnsLeaf
      BY <2>1, <2>5
    <2>9. LeafMutex'
      BY ONLY <2>1, <2>8, ClaimInv DEF ClaimInv, LeafMutex
    <2>10. \A u \in Thread : pc'[u] \in OwnsLeaf =>
              temp_insert'[leaf'[u]] = IF pc'[u] \in Marked THEN 2 ELSE 1
      BY <2>1, <2>4, <2>5, <2>6, <2>7 DEF ClaimInv
    <2>11. \A l \in Leaf : temp_insert'[l] <= 2
      BY ONLY <2>4, ClaimInv DEF ClaimInv
    <2>12. \A l \in Leaf : temp_insert'[l] = 2 =>
              \E u \in Thread : pc'[u] \in Marked /\ leaf'[u] = l
      BY <2>1, <2>4, <2>5 DEF ClaimInv
    <2>13. \A v, u \in Thread :
              pc'[v] = "restore" /\ pc'[u] \in InsertOwns => leaf'[v] # leaf'[u]
      BY <2>1, <2>5 DEF ClaimInv
    <2> QED BY ONLY <2>9, <2>10, <2>11, <2>12, <2>13 DEF ClaimInv
  <1>14. CASE SplitLeaf(t)
    <2>1. /\ pc[t] = "split_leaf" /\ pc'[t] = "check_root" /\ leaf' = leaf
          /\ temp_insert' = [temp_insert EXCEPT ![NewLeaf] = 0]
          /\ NewLeaf \in Leaf \ heap
      BY <1>14 DEF SplitLeaf, Goto
    <2>2. \A u \in Thread \ {t} : pc'[u] = pc[u]
      BY OthersKeep
    <2>3. \A u \in Thread : pc[u] \in OwnsLeaf => leaf[u] \in heap
      BY DEF LocalsInv, InsertPC, ScanPC, AllocInv
    <2>4. \A l \in Leaf : temp_insert'[l] = IF l = NewLeaf THEN 0 ELSE temp_insert[l]
      BY <2>1
    <2>5. \A u \in Thread :
             /\ pc'[u] \in OwnsLeaf <=> pc[u] \in OwnsLeaf
             /\ pc'[u] \in InsertOwns <=> pc[u] \in InsertOwns
             /\ pc'[u] \in Marked <=> pc[u] \in Marked
             /\ pc'[u] = "restore" <=> pc[u] = "restore"
      BY ONLY <2>1, <2>2
    <2>6. heap \subseteq Leaf
      OBVIOUS
    <2>7. LeafMutex'
      BY ONLY <2>1, <2>5, ClaimInv DEF ClaimInv, LeafMutex
    <2>8. \A u \in Thread : pc'[u] \in OwnsLeaf =>
             temp_insert'[leaf'[u]] = IF pc'[u] \in Marked THEN 2 ELSE 1
      BY ONLY <2>1, <2>3, <2>4, <2>5, <2>6, ClaimInv DEF ClaimInv
    <2>9. /\ \A l \in Leaf : temp_insert'[l] <= 2
          /\ \A l \in Leaf : temp_insert'[l] = 2 =>
               \E u \in Thread : pc'[u] \in Marked /\ leaf'[u] = l
      BY ONLY <2>1, <2>4, <2>5, ClaimInv DEF ClaimInv
    <2>10. \A v, u \in Thread :
              pc'[v] = "restore" /\ pc'[u] \in InsertOwns => leaf'[v] # leaf'[u]
      BY ONLY <2>1, <2>5, ClaimInv DEF ClaimInv
    <2> QED BY ONLY <2>7, <2>8, <2>9, <2>10 DEF ClaimInv
  <1>15. CASE CheckRoot(t)
    BY <1>15, ClaimFrame DEF CheckRoot, Goto
  <1>16. CASE AcquireWrite(t)
    BY <1>16, ClaimFrame DEF AcquireWrite, TakeWrite, Busy, Goto
  <1>17. CASE NewRoot(t)
    BY <1>17, ClaimFrame DEF NewRoot, Goto
  <1>18. CASE SplitInner(t)
    BY <1>18, ClaimFrame DEF SplitInner, Goto
  <1>19. CASE Unmark(t)
    <2>1. /\ pc[t] = "unmark" /\ pc'[t] = "restore" /\ leaf' = leaf
          /\ temp_insert' = [temp_insert EXCEPT ![leaf[t]] = 0]
      BY <1>19 DEF Unmark, Goto, localVars
    <2>2. \A u \in Thread \ {t} : pc'[u] = pc[u] /\ leaf'[u] = leaf[u]
      BY OthersKeep
    <2>3. pc[t] \in OwnsLeaf /\ pc'[t] \notin OwnsLeaf
      BY <2>1
    <2>4. pc'[t] = "restore" => leaf'[t] = leaf[t]
      BY <2>1
    <2> HIDE DEF OwnsLeaf, TypeOK
    <2> QED BY ONLY TypeOK, LocalsInv, ClaimInv, t \in Thread, <2>1, <2>2, <2>3, <2>4,
                    ClaimDropped
  <1>20. CASE RestoreAlt(t)
    BY <1>20, ClaimFrame DEF RestoreAlt, Goto
  <1>21. CASE ReleaseWrite(t)
    BY <1>21, ClaimFrame DEF ReleaseWrite, DropWrite, Goto
  <1>22. CASE ScanRelease(t)
    BY <1>22, ClaimFrame DEF ScanRelease, DropRead, Goto
  <1>23. CASE ScanTest(t)
    BY <1>23, ClaimFrame DEF ScanTest, Return, Goto
  <1>24. CASE ScanClaim(t)
    <2>1. pc[t] = "scan_lock" /\ leaf[t] \in Leaf /\ leaf' = leaf
      BY <1>24 DEF ScanClaim, localVars, LocalsInv, ScanPC
    <2>2. CASE temp_insert[leaf[t]] # 0
      BY <1>24, <2>1, <2>2, ClaimFrame DEF ScanClaim, Goto
    <2>3. CASE temp_insert[leaf[t]] = 0
      <3>1. temp_insert' = [temp_insert EXCEPT ![leaf[t]] = 1] /\ pc'[t] = "scan_read"
        BY <1>24, <2>3 DEF ScanClaim, Goto
      <3> QED BY <2>1, <2>3, <3>1, ClaimTaken
    <2> QED BY <2>2, <2>3
  <1>25. CASE ScanRead(t)
    BY <1>25, ClaimFrame DEF ScanRead, Takes, Collect, Goto
  <1>26. CASE ScanUnlock(t)
    <2>1. /\ pc[t] = "scan_unlock"
          /\ temp_insert' = [temp_insert EXCEPT ![leaf[t]] = 0]
          /\ pc'[t] \in {"idle", "scan_next"}
      BY <1>26 DEF ScanUnlock, Return, Goto
    <2>2. \A u \in Thread \ {t} : pc'[u] = pc[u] /\ leaf'[u] = leaf[u]
      BY OthersKeep
    <2>3. pc[t] \in OwnsLeaf /\ pc'[t] \notin OwnsLeaf
      BY <2>1
    <2>4. pc'[t] = "restore" => leaf'[t] = leaf[t]
      BY <2>1
    <2> HIDE DEF OwnsLeaf, TypeOK
    <2> QED BY ONLY TypeOK, LocalsInv, ClaimInv, t \in Thread, <2>1, <2>2, <2>3, <2>4,
                    ClaimDropped
  <1>27. CASE ScanNext(t)
    BY <1>27, ClaimFrame DEF ScanNext, Return, Goto
  <1>28. CASE FastSibling(t)
    BY <1>28, ClaimFrame DEF FastSibling, Goto
  <1>29. CASE FastAlt(t)
    BY <1>29, ClaimFrame DEF FastAlt, Goto
  <1>30. CASE FastRead(t)
    BY <1>30, ClaimFrame
       DEF FastRead, Takes, Collect, ReadsLiveBuffer, Return, Goto
  <1> QED
    BY <1>1, <1>2, <1>3, <1>4, <1>5, <1>6, <1>7, <1>8, <1>9, <1>10, <1>11,
         <1>12, <1>13, <1>14, <1>15, <1>16, <1>17, <1>18, <1>19, <1>20, <1>21,
         <1>22, <1>23, <1>24, <1>25, <1>26, <1>27, <1>28, <1>29, <1>30
     DEF Step, InsertStep, ScanStep

----------------------------------------------------------------------------
(* Leaves and the routing to them.                                         *)

(* Every pointer to a leaf leads to an allocated one.                       *)
LEMMA AllocStep ==
  ASSUME TypeOK, TypeOK', LocalsInv, AllocInv, NEW t \in Thread, Step(t)
  PROVE  AllocInv'
  <1> USE OthersKeep, NewLeafIsFresh, LeafAssumption
      DEF HalfSplit, Marked, InsertOwns, InsertPC, ScanPC, AllocInv,
          LocalsInv, localVars, leafVars, indexVars, TypeOK, LocalType,
          LeafType, IndexType
  <1>1. CASE Invoke(t)
    BY <1>1 DEF Invoke, Goto
  <1>2. CASE AnnounceWrite(t)
    BY <1>2 DEF AnnounceWrite, Busy, Goto
  <1>3. CASE AcquireRead(t)
    BY <1>3 DEF AcquireRead, TakeRead, Goto
  <1>4. CASE FindInsert(t)
    <2>1. op[t].key \in Key
      BY <1>4, OpParts DEF FindInsert
    <2>2. leaf'[t] \in heap /\ heap' = heap /\ route' = route /\ other' = other
      BY <1>4, <2>1 DEF FindInsert
    <2> QED BY <1>4, <2>2 DEF FindInsert
  <1>5. CASE TryClaim(t)
    BY <1>5 DEF TryClaim, Goto
  <1>6. CASE ReleaseRead(t)
    BY <1>6 DEF ReleaseRead, DropRead, Goto
  <1>7. CASE FindDuplicate(t)
    BY <1>7 DEF FindDuplicate, Return, Goto
  <1>8. CASE CheckRoom(t)
    BY <1>8 DEF CheckRoom, Goto
  <1>9. CASE AppendOne(t)
    BY <1>9 DEF AppendOne, Goto
  <1>10. CASE PublishSlot(t)
    BY <1>10 DEF PublishSlot, Goto
  <1>11. CASE UnlockLeaf(t)
    BY <1>11 DEF UnlockLeaf, Return, Goto
  <1>12. CASE FillBuffer(t)
    BY <1>12 DEF FillBuffer, Goto
  <1>13. CASE MarkSplit(t)
    BY <1>13 DEF MarkSplit, Goto
  <1>14. CASE SplitLeaf(t)
    BY <1>14 DEF SplitLeaf, LinkBehind, Goto
  <1>15. CASE CheckRoot(t)
    BY <1>15 DEF CheckRoot, Goto
  <1>16. CASE AcquireWrite(t)
    BY <1>16 DEF AcquireWrite, TakeWrite, Busy, Goto
  <1>17. CASE NewRoot(t)
    BY <1>17 DEF NewRoot, Goto
  <1>18. CASE SplitInner(t)
    BY <1>18 DEF SplitInner, Goto
  <1>19. CASE Unmark(t)
    BY <1>19 DEF Unmark, Goto
  <1>20. CASE RestoreAlt(t)
    BY <1>20 DEF RestoreAlt, Goto
  <1>21. CASE ReleaseWrite(t)
    BY <1>21 DEF ReleaseWrite, DropWrite, Goto
  <1>22. CASE ScanRelease(t)
    BY <1>22 DEF ScanRelease, DropRead, Goto
  <1>23. CASE ScanTest(t)
    BY <1>23 DEF ScanTest, Return, Goto
  <1>24. CASE ScanClaim(t)
    BY <1>24 DEF ScanClaim, Goto
  <1>25. CASE ScanRead(t)
    BY <1>25 DEF ScanRead, Takes, Collect, Goto
  <1>26. CASE ScanUnlock(t)
    BY <1>26 DEF ScanUnlock, Return, Goto
  <1>27. CASE ScanNext(t)
    BY <1>27 DEF ScanNext, Return, Goto
  <1>28. CASE FastSibling(t)
    BY <1>28 DEF FastSibling, Goto
  <1>29. CASE FastAlt(t)
    BY <1>29 DEF FastAlt, Goto
  <1>30. CASE FastRead(t)
    BY <1>30 DEF FastRead, Takes, Collect, ReadsLiveBuffer, Return, Goto
  <1> QED
    BY <1>1, <1>2, <1>3, <1>4, <1>5, <1>6, <1>7, <1>8, <1>9, <1>10, <1>11,
         <1>12, <1>13, <1>14, <1>15, <1>16, <1>17, <1>18, <1>19, <1>20, <1>21,
         <1>22, <1>23, <1>24, <1>25, <1>26, <1>27, <1>28, <1>29, <1>30
     DEF Step, InsertStep, ScanStep

(* A thread that puts a root over its leaf is alone in splitting.           *)
LEMMA RootSplitAlone ==
  ASSUME LocalsInv, LockInv, ClaimInv, RouteInv, NEW t \in Thread, pc[t] = "new_root"
  PROVE  /\ \A k \in Key : route[k] = leaf[t]
         /\ \A u \in Thread \ {t} : pc[u] \notin InsertOwns \cup {"cas"}
  <1>1. op[t] \in Op /\ op[t].key \in Key
    BY OpParts DEF LocalsInv
  <1>2. \A k \in Key : route[k] = leaf[t]
    BY <1>1 DEF RouteInv, RouteStaysValid, InsertOwns, Marked, HalfSplit
  <1>3. ASSUME NEW u \in Thread \ {t}, pc[u] \in InsertOwns PROVE FALSE
    <2>1. writer = t /\ pc[u] # "unmark"
      BY DEF LockInv, WriteHeld
    <2>2. op[u].key \in Key
      BY <1>3, OpParts DEF LocalsInv, InsertOwns, Marked, HalfSplit
    <2>3. leaf[u] = leaf[t]
      BY <1>2, <1>3, <2>1, <2>2 DEF RouteInv, RouteStaysValid
    <2> QED BY <1>3, <2>3 DEF ClaimInv, LeafMutex, OwnsLeaf, InsertOwns, Marked,
      HalfSplit
  <1>4. \A u \in Thread : pc[u] # "cas"
    BY WriterAlone DEF ReadHeld, WriteHeld
  <1> QED BY <1>2, <1>3, <1>4

(* splitInnerNode changes the route of no other claimed leaf.               *)
LEMMA SplitInnerRoute ==
  ASSUME LocalsInv, LockInv, ClaimInv, RouteInv, NEW t \in Thread, SplitInner(t)
  PROVE  /\ route[op[t].key] = leaf[t]
         /\ \A k \in Key : route'[k] = IF route[k] = leaf[t] /\ k > split_key[t]
                                         THEN other[t] ELSE route[k]
         /\ \A u \in Thread \ {t} : pc[u] \in InsertOwns => leaf[u] # leaf[t]
         /\ \A u \in Thread : pc[u] # "cas"
  <1>1. pc[t] = "split_inner" /\ pc[t] \in InsertOwns \ {"unmark"}
    BY DEF SplitInner, InsertOwns, Marked, HalfSplit
  <1>2. route[op[t].key] = leaf[t]
    BY <1>1 DEF RouteInv, RouteStaysValid
  <1>3. \A u \in Thread \ {t} : pc[u] \in InsertOwns => leaf[u] # leaf[t]
    BY <1>1 DEF ClaimInv, LeafMutex, OwnsLeaf
  <1>4. \A u \in Thread : pc[u] # "cas"
    BY <1>1, WriterAlone DEF ReadHeld, WriteHeld
  <1> QED BY <1>2, <1>3, <1>4 DEF SplitInner

(* The right half of a split stays unknown to the inner nodes until the     *)
(* splitting thread enters it.                                              *)
LEMMA RightLeafStep ==
  ASSUME TypeOK, TypeOK', LocalsInv, LockInv, ClaimInv, AllocInv, RouteInv,
         RightLeafInv, NEW t \in Thread, Step(t)
  PROVE  RightLeafInv'
  <1> USE OthersKeep, NewLeafIsFresh
      DEF HalfSplit, RightLeafInv, localVars, indexVars, TypeOK, LocalType
  <1>1. CASE Invoke(t)
    BY <1>1 DEF Invoke, Goto
  <1>2. CASE AnnounceWrite(t)
    BY <1>2 DEF AnnounceWrite, Busy, Goto
  <1>3. CASE AcquireRead(t)
    BY <1>3 DEF AcquireRead, TakeRead, Goto
  <1>4. CASE FindInsert(t)
    BY <1>4 DEF FindInsert, Goto
  <1>5. CASE TryClaim(t)
    BY <1>5 DEF TryClaim, Goto
  <1>6. CASE ReleaseRead(t)
    BY <1>6 DEF ReleaseRead, DropRead, Goto
  <1>7. CASE FindDuplicate(t)
    BY <1>7 DEF FindDuplicate, Return, Goto
  <1>8. CASE CheckRoom(t)
    BY <1>8 DEF CheckRoom, Goto
  <1>9. CASE AppendOne(t)
    BY <1>9 DEF AppendOne, Goto
  <1>10. CASE PublishSlot(t)
    BY <1>10 DEF PublishSlot, Goto
  <1>11. CASE UnlockLeaf(t)
    BY <1>11 DEF UnlockLeaf, Return, Goto
  <1>12. CASE FillBuffer(t)
    BY <1>12 DEF FillBuffer, Goto
  <1>13. CASE MarkSplit(t)
    BY <1>13 DEF MarkSplit, Goto
  <1>14. CASE SplitLeaf(t)
    BY <1>14 DEF SplitLeaf, Goto, AllocInv, LocalsInv
  <1>15. CASE CheckRoot(t)
    BY <1>15 DEF CheckRoot, Goto
  <1>16. CASE AcquireWrite(t)
    BY <1>16 DEF AcquireWrite, TakeWrite, Busy, Goto
  <1>17. CASE NewRoot(t)
    <2>1. pc[t] = "new_root" /\ pc'[t] = "unmark"
      BY <1>17 DEF NewRoot, Goto
    <2>2. \A u \in Thread : pc'[u] \notin HalfSplit
      BY <2>1, RootSplitAlone DEF InsertOwns, Marked
    <2> QED BY <2>2
  <1>18. CASE SplitInner(t)
    BY <1>18 DEF SplitInner, Goto, LocalsInv, IndexType, TypeOK
  <1>19. CASE Unmark(t)
    BY <1>19 DEF Unmark, Goto
  <1>20. CASE RestoreAlt(t)
    BY <1>20 DEF RestoreAlt, Goto
  <1>21. CASE ReleaseWrite(t)
    BY <1>21 DEF ReleaseWrite, DropWrite, Goto
  <1>22. CASE ScanRelease(t)
    BY <1>22 DEF ScanRelease, DropRead, Goto
  <1>23. CASE ScanTest(t)
    BY <1>23 DEF ScanTest, Return, Goto
  <1>24. CASE ScanClaim(t)
    BY <1>24 DEF ScanClaim, Goto
  <1>25. CASE ScanRead(t)
    BY <1>25 DEF ScanRead, Takes, Collect, Goto
  <1>26. CASE ScanUnlock(t)
    BY <1>26 DEF ScanUnlock, Return, Goto
  <1>27. CASE ScanNext(t)
    BY <1>27 DEF ScanNext, Return, Goto
  <1>28. CASE FastSibling(t)
    BY <1>28 DEF FastSibling, Goto
  <1>29. CASE FastAlt(t)
    BY <1>29 DEF FastAlt, Goto
  <1>30. CASE FastRead(t)
    BY <1>30 DEF FastRead, Takes, Collect, ReadsLiveBuffer, Return, Goto
  <1> QED
    BY <1>1, <1>2, <1>3, <1>4, <1>5, <1>6, <1>7, <1>8, <1>9, <1>10, <1>11,
         <1>12, <1>13, <1>14, <1>15, <1>16, <1>17, <1>18, <1>19, <1>20, <1>21,
         <1>22, <1>23, <1>24, <1>25, <1>26, <1>27, <1>28, <1>29, <1>30
     DEF Step, InsertStep, ScanStep

(* What a thread learnt from the inner nodes under function_lock stays true *)
(* while it has its leaf claimed.                                           *)
LEMMA RouteStep ==
  ASSUME TypeOK, TypeOK', LocalsInv, LockInv, ClaimInv, AllocInv, RightLeafInv,
         RouteInv, NEW t \in Thread, Step(t)
  PROVE  RouteInv'
  <1> USE OthersKeep
      DEF InsertOwns, Marked, HalfSplit, RouteInv, RouteStaysValid,
          localVars, indexVars, callVars, TypeOK
  <1>1. CASE Invoke(t)
    BY <1>1 DEF Invoke, Goto
  <1>2. CASE AnnounceWrite(t)
    BY <1>2 DEF AnnounceWrite, Busy, Goto
  <1>3. CASE AcquireRead(t)
    BY <1>3 DEF AcquireRead, TakeRead, Goto
  <1>4. CASE FindInsert(t)
    <2>1. leaf'[t] = route[op[t].key] /\ op' = op
      BY <1>4 DEF FindInsert, LocalType
    <2>2. pc'[t] \in {"cas", "scan_release"}
      BY <1>4 DEF FindInsert, Goto
    <2>3. route' = route /\ root_is_leaf' = root_is_leaf
      BY <1>4 DEF FindInsert
    <2> QED BY <2>1, <2>2, <2>3
  <1>5. CASE TryClaim(t)
    BY <1>5
       DEF TryClaim, Goto, LockInv, ReadHeld, WriteHeld, LocalsInv, ClaimInv,
           LeafMutex, OwnsLeaf, InsertPC, ScanPC, ScanOwns
  <1>6. CASE ReleaseRead(t)
    BY <1>6 DEF ReleaseRead, DropRead, Goto
  <1>7. CASE FindDuplicate(t)
    BY <1>7 DEF FindDuplicate, Return, Goto
  <1>8. CASE CheckRoom(t)
    BY <1>8 DEF CheckRoom, Goto
  <1>9. CASE AppendOne(t)
    BY <1>9 DEF AppendOne, Goto
  <1>10. CASE PublishSlot(t)
    BY <1>10 DEF PublishSlot, Goto
  <1>11. CASE UnlockLeaf(t)
    BY <1>11 DEF UnlockLeaf, Return, Goto
  <1>12. CASE FillBuffer(t)
    BY <1>12 DEF FillBuffer, Goto
  <1>13. CASE MarkSplit(t)
    BY <1>13 DEF MarkSplit, Goto
  <1>14. CASE SplitLeaf(t)
    BY <1>14 DEF SplitLeaf, Goto
  <1>15. CASE CheckRoot(t)
    BY <1>15
       DEF CheckRoot, Goto, LockInv, ReadHeld, WriteHeld, LocalsInv, ClaimInv,
           LeafMutex, OwnsLeaf, InsertPC, ScanPC, ScanOwns
  <1>16. CASE AcquireWrite(t)
    BY <1>16 DEF AcquireWrite, TakeWrite, Busy, Goto
  <1>17. CASE NewRoot(t)
    <2>1. pc[t] = "new_root" /\ pc'[t] = "unmark" /\ root_is_leaf' = FALSE
      BY <1>17 DEF NewRoot, Goto
    <2>2. \A u \in Thread : pc'[u] \notin (InsertOwns \ {"unmark"}) \cup {"cas"}
      BY <2>1, RootSplitAlone
    <2> QED BY <2>1, <2>2
  <1>18. CASE SplitInner(t)
    <2>1. /\ pc'[t] = "unmark" /\ root_is_leaf' = root_is_leaf /\ ~root_is_leaf
          /\ leaf' = leaf /\ op' = op
      BY <1>18 DEF SplitInner, Goto
    <2>2. \A u \in Thread \ {t} : pc[u] \in InsertOwns \ {"unmark"} =>
             route[op[u].key] = leaf[u] /\ leaf[u] # leaf[t] /\ op[u].key \in Key
      <3>1. \A u \in Thread : pc[u] \in InsertOwns => op[u] \in Op
        BY DEF LocalsInv
      <3> QED BY <1>18, <3>1, SplitInnerRoute, OpParts
    <2>3. \A u \in Thread \ {t} : pc[u] \in InsertOwns \ {"unmark"} =>
             route'[op[u].key] = leaf[u]
      BY <1>18, <2>2, SplitInnerRoute
    <2> QED BY <1>18, <2>1, <2>3, SplitInnerRoute
  <1>19. CASE Unmark(t)
    BY <1>19 DEF Unmark, Goto
  <1>20. CASE RestoreAlt(t)
    BY <1>20 DEF RestoreAlt, Goto
  <1>21. CASE ReleaseWrite(t)
    BY <1>21 DEF ReleaseWrite, DropWrite, Goto
  <1>22. CASE ScanRelease(t)
    BY <1>22 DEF ScanRelease, DropRead, Goto
  <1>23. CASE ScanTest(t)
    BY <1>23 DEF ScanTest, Return, Goto
  <1>24. CASE ScanClaim(t)
    BY <1>24 DEF ScanClaim, Goto
  <1>25. CASE ScanRead(t)
    BY <1>25 DEF ScanRead, Takes, Collect, Goto
  <1>26. CASE ScanUnlock(t)
    BY <1>26 DEF ScanUnlock, Return, Goto
  <1>27. CASE ScanNext(t)
    BY <1>27 DEF ScanNext, Return, Goto
  <1>28. CASE FastSibling(t)
    BY <1>28 DEF FastSibling, Goto
  <1>29. CASE FastAlt(t)
    BY <1>29 DEF FastAlt, Goto
  <1>30. CASE FastRead(t)
    BY <1>30 DEF FastRead, Takes, Collect, ReadsLiveBuffer, Return, Goto
  <1> QED
    BY <1>1, <1>2, <1>3, <1>4, <1>5, <1>6, <1>7, <1>8, <1>9, <1>10, <1>11,
         <1>12, <1>13, <1>14, <1>15, <1>16, <1>17, <1>18, <1>19, <1>20, <1>21,
         <1>22, <1>23, <1>24, <1>25, <1>26, <1>27, <1>28, <1>29, <1>30
     DEF Step, InsertStep, ScanStep

----------------------------------------------------------------------------
(* The records.                                                            *)

(* What split_leaf makes of a claimed leaf.                                 *)
LEMMA SplitLeafEffect ==
  ASSUME TypeOK, LocalsInv, ClaimInv, AllocInv, AltInv, NEW t \in Thread, SplitLeaf(t)
  PROVE  /\ NewLeaf \in Leaf \ heap
         /\ leaf[t] \in Leaf /\ leaf[t] # NewLeaf
         /\ content[NewLeaf] = {}
         /\ dram_buffer[t] = content[leaf[t]]
         /\ content'[NewLeaf] = {j \in content[leaf[t]] : j > split_key'[t]}
         /\ content'[leaf[t]] = {j \in content[leaf[t]] : j <= split_key'[t]}
         /\ \A l \in Leaf \ {NewLeaf, leaf[t]} : content'[l] = content[l]
         /\ leaf' = leaf /\ dram_buffer' = dram_buffer /\ op' = op /\ route' = route
         /\ other'[t] = NewLeaf
         /\ pc[t] = "split_leaf" /\ pc'[t] = "check_root"
         /\ split_key'[t] \in Nat
         /\ heap' = heap \cup {NewLeaf}
  <1>1. NewLeaf \in Leaf \ heap
    BY NewLeafIsFresh DEF SplitLeaf
  <1>2. leaf[t] \in Leaf /\ leaf[t] \in heap
    BY DEF SplitLeaf, LocalsInv, AllocInv, InsertPC, InsertOwns, Marked
  <1>3. dram_buffer[t] = content[leaf[t]]
    BY DEF SplitLeaf, AltInv
  <1>4. PICK k \in dram_buffer[t] :
          /\ split_key' = [split_key EXCEPT ![t] = k]
          /\ content' = [content EXCEPT
                           ![NewLeaf] = {j \in dram_buffer[t] : j > k},
                           ![leaf[t]] = {j \in dram_buffer[t] : j <= k}]
    BY DEF SplitLeaf
  <1>5. k \in Nat /\ split_key'[t] = k
    BY <1>4, KeyAssumption DEF TypeOK, LocalType
  <1>6. /\ content'[NewLeaf] = {j \in content[leaf[t]] : j > split_key'[t]}
        /\ content'[leaf[t]] = {j \in content[leaf[t]] : j <= split_key'[t]}
        /\ \A l \in Leaf \ {NewLeaf, leaf[t]} : content'[l] = content[l]
    BY <1>1, <1>2, <1>3, <1>4, <1>5 DEF TypeOK, LeafType
  <1>7. content[NewLeaf] = {}
    BY <1>1 DEF AllocInv
  <1>8. /\ leaf' = leaf /\ dram_buffer' = dram_buffer /\ op' = op /\ route' = route
        /\ other'[t] = NewLeaf /\ pc[t] = "split_leaf" /\ pc'[t] = "check_root"
        /\ heap' = heap \cup {NewLeaf}
    BY DEF SplitLeaf, Goto, TypeOK, LocalType, callVars, indexVars
  <1> QED BY <1>1, <1>2, <1>3, <1>5, <1>6, <1>7, <1>8

(* ... and to no record.                                                    *)
LEMMA SplitLeafKeepsStored ==
  ASSUME TypeOK, LocalsInv, ClaimInv, AllocInv, AltInv, NEW t \in Thread, SplitLeaf(t)
  PROVE  Stored' = Stored
  <1>1. content'[NewLeaf] \cup content'[leaf[t]] = content[leaf[t]]
    <2>1. \A k \in content[leaf[t]] : k \in Nat
      BY SplitLeafEffect, KeyAssumption DEF TypeOK, LeafType
    <2> QED BY <2>1, SplitLeafEffect
  <1>2. \A k \in Key : (\E l \in Leaf : k \in content'[l]) <=> (\E l \in Leaf : k \in content[l])
    BY <1>1, SplitLeafEffect
  <1> QED BY <1>2 DEF Stored

(* All records of a claimed leaf are routed to it: it is not itself the     *)
(* right half of a split.                                                   *)
LEMMA ClaimedLeafIsRouted ==
  ASSUME LocalsInv, ClaimInv, RightLeafInv, RouteInv, RecordsAreRouted,
    NEW t \in Thread,
         pc[t] \in InsertOwns \ HalfSplit, pc[t] # "unmark", leaf[t] \in Leaf
  PROVE  \A k \in content[leaf[t]] : route[k] = leaf[t]
  <1>1. op[t].key \in Key /\ route[op[t].key] = leaf[t]
    <2>1. op[t] \in Op
      BY DEF LocalsInv, InsertOwns, Marked, HalfSplit
    <2> QED BY <2>1, OpParts DEF RouteInv, RouteStaysValid
  <1>2. \A u \in Thread : pc[u] \in HalfSplit => other[u] # leaf[t]
    BY <1>1 DEF RightLeafInv
  <1> QED BY <1>2 DEF RecordsAreRouted, InTransit

(* A split separates the records of a leaf at the split key.                *)
LEMMA SplitStep ==
  ASSUME TypeOK, TypeOK', LocalsInv, LockInv, ClaimInv, AllocInv, RightLeafInv,
         RouteInv, RecordsAreRouted, AltInv, SplitInv, NEW t \in Thread,
         Step(t)
  PROVE  SplitInv'
  <1> USE OthersKeep, NewLeafIsFresh
      DEF HalfSplit, SplitInv, localVars, indexVars, leafVars, TypeOK
  <1>1. CASE Invoke(t)
    BY <1>1 DEF Invoke, Goto
  <1>2. CASE AnnounceWrite(t)
    BY <1>2 DEF AnnounceWrite, Busy, Goto
  <1>3. CASE AcquireRead(t)
    BY <1>3 DEF AcquireRead, TakeRead, Goto
  <1>4. CASE FindInsert(t)
    BY <1>4 DEF FindInsert, Goto
  <1>5. CASE TryClaim(t)
    BY <1>5 DEF TryClaim, Goto
  <1>6. CASE ReleaseRead(t)
    BY <1>6 DEF ReleaseRead, DropRead, Goto
  <1>7. CASE FindDuplicate(t)
    BY <1>7 DEF FindDuplicate, Return, Goto
  <1>8. CASE CheckRoom(t)
    BY <1>8 DEF CheckRoom, Goto
  <1>9. CASE AppendOne(t)
    BY <1>9 DEF AppendOne, Goto
  <1>10. CASE PublishSlot(t)
    BY <1>10
       DEF PublishSlot, Goto, LockInv, ReadHeld, WriteHeld, LocalsInv,
           ClaimInv, LeafMutex, OwnsLeaf, InsertOwns, Marked, InsertPC,
           RightLeafInv, RouteInv, RouteStaysValid, AltInv, AllocInv,
           LeafType, RecordsAreRouted, InTransit
  <1>11. CASE UnlockLeaf(t)
    BY <1>11 DEF UnlockLeaf, Return, Goto
  <1>12. CASE FillBuffer(t)
    BY <1>12 DEF FillBuffer, Goto
  <1>13. CASE MarkSplit(t)
    BY <1>13 DEF MarkSplit, Goto
  <1>14. CASE SplitLeaf(t)
    <2>1. \A u \in Thread \ {t} : pc[u] \in HalfSplit =>
             /\ other[u] # leaf[t] /\ other[u] # NewLeaf /\ other[u] \in Leaf
             /\ leaf[u] # leaf[t] /\ leaf[u] # NewLeaf /\ leaf[u] \in Leaf
      <3>1. op[t] \in Op /\ route[op[t].key] = leaf[t]
        BY <1>14 DEF SplitLeaf, LocalsInv, RouteInv, RouteStaysValid, InsertOwns, Marked
      <3>2. \A u \in Thread \ {t} : pc[u] \in HalfSplit => leaf[u] # leaf[t]
        BY <1>14 DEF SplitLeaf, ClaimInv, LeafMutex, OwnsLeaf, InsertOwns, Marked
      <3>3. \A u \in Thread \ {t} : pc[u] \in HalfSplit => other[u] # leaf[t]
        BY <3>1, OpParts DEF RightLeafInv
      <3>4. \A u \in Thread : pc[u] \in HalfSplit => other[u] \in heap /\ leaf[u] \in heap
        BY DEF AllocInv, LocalsInv, InsertPC, InsertOwns, Marked
      <3>5. \A u \in Thread : pc[u] \in HalfSplit => other[u] \in Leaf /\ leaf[u] \in Leaf
        BY DEF LocalsInv, InsertPC, InsertOwns, Marked
      <3> QED BY <1>14, <3>2, <3>3, <3>4, <3>5, SplitLeafEffect
    <2>2. \A k \in content[leaf[t]] : route[k] = leaf[t]
      BY <1>14, ClaimedLeafIsRouted, SplitLeafEffect DEF SplitLeaf, InsertOwns, Marked
    <2>3. /\ \A k \in content'[leaf'[t]] : k <= split_key'[t]
          /\ content'[leaf'[t]] \subseteq dram_buffer'[t]
          /\ \A k \in content'[other'[t]] :
                k > split_key'[t] /\ route'[k] = leaf'[t] /\ k \in dram_buffer'[t]
      BY <1>14, <2>2, SplitLeafEffect
    <2>4. \A u \in Thread \ {t} : pc[u] \in HalfSplit =>
             content'[leaf[u]] = content[leaf[u]] /\ content'[other[u]] = content[other[u]]
      BY <1>14, <2>1, SplitLeafEffect
    <2>5. route' = route
      BY <1>14, SplitLeafEffect
    <2>6. \A u \in Thread \ {t} : pc[u] = "unmark" => content'[leaf[u]] = content[leaf[u]]
      <3>1. \A u \in Thread \ {t} : pc[u] = "unmark" =>
               leaf[u] # leaf[t] /\ leaf[u] \in Leaf /\ leaf[u] \in heap
        BY <1>14 DEF SplitLeaf, ClaimInv, LeafMutex, OwnsLeaf, InsertOwns, Marked,
                     LocalsInv, InsertPC, AllocInv
      <3> QED BY <1>14, <3>1, SplitLeafEffect
    <2>7. pc'[t] # "unmark"
      BY <1>14, SplitLeafEffect
    <2>8. SplitInv!(t)'
      BY <2>3, <2>7
    <2>9. \A u \in Thread \ {t} : SplitInv!(u)'
      BY <2>4, <2>5, <2>6
    <2> QED BY <2>8, <2>9
  <1>15. CASE CheckRoot(t)
    BY <1>15 DEF CheckRoot, Goto
  <1>16. CASE AcquireWrite(t)
    BY <1>16 DEF AcquireWrite, TakeWrite, Busy, Goto
  <1>17. CASE NewRoot(t)
    <2>1. pc[t] = "new_root" /\ pc'[t] = "unmark"
      BY <1>17 DEF NewRoot, Goto
    <2>2. \A u \in Thread : pc'[u] \notin HalfSplit
      BY <2>1, RootSplitAlone DEF InsertOwns, Marked
    <2>3. \A u \in Thread \ {t} : pc'[u] # "unmark"
      BY <2>1, WriterAlone DEF WriteHeld
    <2>4. content'[leaf'[t]] \subseteq dram_buffer'[t]
      BY <1>17, <2>1 DEF NewRoot
    <2> QED BY <2>2, <2>3, <2>4
  <1>18. CASE SplitInner(t)
    BY <1>18
       DEF SplitInner, Goto, LockInv, ReadHeld, WriteHeld, LocalsInv,
           ClaimInv, LeafMutex, OwnsLeaf, InsertOwns, Marked, InsertPC,
           RightLeafInv, RouteInv, RouteStaysValid, AltInv, AllocInv,
           LeafType, RecordsAreRouted, InTransit
  <1>19. CASE Unmark(t)
    BY <1>19 DEF Unmark, Goto
  <1>20. CASE RestoreAlt(t)
    BY <1>20 DEF RestoreAlt, Goto
  <1>21. CASE ReleaseWrite(t)
    BY <1>21 DEF ReleaseWrite, DropWrite, Goto
  <1>22. CASE ScanRelease(t)
    BY <1>22 DEF ScanRelease, DropRead, Goto
  <1>23. CASE ScanTest(t)
    BY <1>23 DEF ScanTest, Return, Goto
  <1>24. CASE ScanClaim(t)
    BY <1>24 DEF ScanClaim, Goto
  <1>25. CASE ScanRead(t)
    BY <1>25 DEF ScanRead, Takes, Collect, Goto
  <1>26. CASE ScanUnlock(t)
    BY <1>26 DEF ScanUnlock, Return, Goto
  <1>27. CASE ScanNext(t)
    BY <1>27 DEF ScanNext, Return, Goto
  <1>28. CASE FastSibling(t)
    BY <1>28 DEF FastSibling, Goto
  <1>29. CASE FastAlt(t)
    BY <1>29 DEF FastAlt, Goto
  <1>30. CASE FastRead(t)
    BY <1>30 DEF FastRead, Takes, Collect, ReadsLiveBuffer, Return, Goto
  <1> QED
    BY <1>1, <1>2, <1>3, <1>4, <1>5, <1>6, <1>7, <1>8, <1>9, <1>10, <1>11,
         <1>12, <1>13, <1>14, <1>15, <1>16, <1>17, <1>18, <1>19, <1>20, <1>21,
         <1>22, <1>23, <1>24, <1>25, <1>26, <1>27, <1>28, <1>29, <1>30
     DEF Step, InsertStep, ScanStep

(* Every record is where the inner nodes lead, or on its way there.         *)
LEMMA RecordStep ==
  ASSUME TypeOK, TypeOK', LocalsInv, LockInv, ClaimInv, AllocInv, RightLeafInv,
         RouteInv, SplitInv, AltInv, RecordsAreRouted, NEW t \in Thread,
         Step(t)
  PROVE  RecordsAreRouted'
  <1> USE OthersKeep, NewLeafIsFresh
      DEF HalfSplit, RecordsAreRouted, InTransit, localVars, indexVars,
          leafVars, TypeOK
  <1>1. CASE Invoke(t)
    BY <1>1 DEF Invoke, Goto
  <1>2. CASE AnnounceWrite(t)
    BY <1>2 DEF AnnounceWrite, Busy, Goto
  <1>3. CASE AcquireRead(t)
    BY <1>3 DEF AcquireRead, TakeRead, Goto
  <1>4. CASE FindInsert(t)
    BY <1>4 DEF FindInsert, Goto
  <1>5. CASE TryClaim(t)
    BY <1>5 DEF TryClaim, Goto
  <1>6. CASE ReleaseRead(t)
    BY <1>6 DEF ReleaseRead, DropRead, Goto
  <1>7. CASE FindDuplicate(t)
    BY <1>7 DEF FindDuplicate, Return, Goto
  <1>8. CASE CheckRoom(t)
    BY <1>8 DEF CheckRoom, Goto
  <1>9. CASE AppendOne(t)
    BY <1>9 DEF AppendOne, Goto
  <1>10. CASE PublishSlot(t)
    BY <1>10
       DEF PublishSlot, Goto, LockInv, ReadHeld, WriteHeld, LocalsInv,
           ClaimInv, LeafMutex, OwnsLeaf, InsertOwns, Marked, InsertPC,
           RightLeafInv, RouteInv, RouteStaysValid, AltInv, AllocInv,
           LeafType, SplitInv
  <1>11. CASE UnlockLeaf(t)
    BY <1>11 DEF UnlockLeaf, Return, Goto
  <1>12. CASE FillBuffer(t)
    BY <1>12 DEF FillBuffer, Goto
  <1>13. CASE MarkSplit(t)
    BY <1>13 DEF MarkSplit, Goto
  <1>14. CASE SplitLeaf(t)
    <2>1. \A k \in content[leaf[t]] : route[k] = leaf[t]
      BY <1>14, ClaimedLeafIsRouted, SplitLeafEffect DEF SplitLeaf, InsertOwns, Marked
    <2>2. \A k \in content'[leaf[t]] : route'[k] = leaf[t]
      BY <1>14, <2>1, SplitLeafEffect
    <2>3. \A k \in content'[NewLeaf] :
             \E u \in Thread : /\ pc'[u] \in HalfSplit /\ other'[u] = NewLeaf
                              /\ route'[k] = leaf'[u] /\ k > split_key'[u]
      <3>1. /\ pc'[t] \in HalfSplit /\ other'[t] = NewLeaf /\ leaf' = leaf
        BY <1>14, SplitLeafEffect
      <3>2. \A k \in content'[NewLeaf] : k \in content[leaf[t]] /\ k > split_key'[t]
        BY <1>14, SplitLeafEffect
      <3>3. \A k \in content'[NewLeaf] : route'[k] = leaf[t]
        BY <1>14, <2>1, <3>2, SplitLeafEffect
      <3> QED BY <3>1, <3>2, <3>3
    <2>4. ASSUME NEW l \in Leaf \ {NewLeaf, leaf[t]}, NEW k \in content'[l]
          PROVE  route'[k] = l \/ InTransit(k, l)'
      <3>1. k \in content[l] /\ route' = route
        BY <1>14, <2>4, SplitLeafEffect
      <3>2. ASSUME NEW u \in Thread, pc[u] \in HalfSplit PROVE u # t
        BY <1>14, <3>2 DEF SplitLeaf
      <3>3. \A u \in Thread \ {t} : pc[u] \in HalfSplit =>
               /\ pc'[u] = pc[u] /\ other'[u] = other[u] /\ leaf'[u] = leaf[u]
               /\ split_key'[u] = split_key[u]
        OBVIOUS
      <3>4. CASE InTransit(k, l)
        <4>1. PICK u \in Thread : /\ pc[u] \in HalfSplit /\ other[u] = l
                                  /\ route[k] = leaf[u] /\ k > split_key[u]
          BY <3>4
        <4> QED BY <3>1, <3>2, <3>3, <4>1
      <3>5. CASE route[k] = l
        BY <3>1, <3>5
      <3> QED BY <2>4, <3>1, <3>4, <3>5
    <2>5. ASSUME NEW l \in Leaf, NEW k \in content'[l]
          PROVE  route'[k] = l \/ InTransit(k, l)'
      <3>1. CASE l = NewLeaf
        BY <2>3, <2>5, <3>1
      <3>2. CASE l = leaf[t]
        BY <2>2, <2>5, <3>2
      <3> QED BY <2>4, <2>5, <3>1, <3>2
    <2> QED BY <2>5
  <1>15. CASE CheckRoot(t)
    BY <1>15 DEF CheckRoot, Goto
  <1>16. CASE AcquireWrite(t)
    BY <1>16 DEF AcquireWrite, TakeWrite, Busy, Goto
  <1>17. CASE NewRoot(t)
    <2>1. /\ pc[t] = "new_root" /\ content' = content
          /\ \A k \in Key : route'[k] = IF k <= split_key[t] THEN leaf[t] ELSE other[t]
      BY <1>17 DEF NewRoot
    <2>2. \A u \in Thread \ {t} : pc[u] \notin HalfSplit
      BY <2>1, RootSplitAlone DEF InsertOwns, Marked
    <2>3. ASSUME NEW l \in Leaf, NEW k \in content[l] PROVE route'[k] = l
      <3>1. k \in Key /\ k \in Nat /\ split_key[t] \in Nat
        BY <2>3, KeyAssumption DEF LeafType, LocalType
      <3>2. CASE route[k] = l
        <4>1. l = leaf[t]
          BY <2>1, <3>1, <3>2, RootSplitAlone
        <4> QED BY <2>1, <2>3, <3>1, <4>1 DEF SplitInv
      <3>3. CASE InTransit(k, l)
        <4>1. other[t] = l /\ k > split_key[t]
          BY <2>2, <3>3
        <4> QED BY <2>1, <3>1, <4>1
      <3> QED BY <2>3, <3>2, <3>3
    <2> QED BY <2>1, <2>3
  <1>18. CASE SplitInner(t)
    <2>1. /\ pc[t] = "split_inner" /\ content' = content
          /\ leaf' = leaf /\ other' = other /\ split_key' = split_key
      BY <1>18 DEF SplitInner
    <2>2. ASSUME NEW l \in Leaf, NEW k \in content[l]
          PROVE  route'[k] = l \/ InTransit(k, l)'
      <3>1. k \in Key /\ k \in Nat /\ split_key[t] \in Nat
        BY <2>2, KeyAssumption DEF LeafType, LocalType
      <3>2. CASE route[k] = l /\ l # leaf[t]
        BY <1>18, <3>1, <3>2, SplitInnerRoute
      <3>3. CASE route[k] = l /\ l = leaf[t]
        <4>1. k <= split_key[t]
          BY <2>1, <2>2, <3>3 DEF SplitInv
        <4> QED BY <1>18, <3>1, <3>3, <4>1, SplitInnerRoute
      <3>4. CASE InTransit(k, l)
        <4>1. PICK u \in Thread : /\ pc[u] \in HalfSplit /\ other[u] = l
                                  /\ route[k] = leaf[u] /\ k > split_key[u]
          BY <3>4
        <4>2. CASE u = t
          BY <1>18, <3>1, <4>1, <4>2, SplitInnerRoute
        <4>3. CASE u # t
          <5>1. leaf[u] # leaf[t]
            BY <1>18, <4>1, <4>3, SplitInnerRoute DEF InsertOwns, Marked
          <5>2. route'[k] = leaf[u]
            BY <1>18, <3>1, <4>1, <5>1, SplitInnerRoute
          <5> QED BY <2>1, <4>1, <4>3, <5>2
        <4> QED BY <4>2, <4>3
      <3> QED BY <2>2, <3>2, <3>3, <3>4
    <2> QED BY <2>1, <2>2
  <1>19. CASE Unmark(t)
    BY <1>19 DEF Unmark, Goto
  <1>20. CASE RestoreAlt(t)
    BY <1>20 DEF RestoreAlt, Goto
  <1>21. CASE ReleaseWrite(t)
    BY <1>21 DEF ReleaseWrite, DropWrite, Goto
  <1>22. CASE ScanRelease(t)
    BY <1>22 DEF ScanRelease, DropRead, Goto
  <1>23. CASE ScanTest(t)
    BY <1>23 DEF ScanTest, Return, Goto
  <1>24. CASE ScanClaim(t)
    BY <1>24 DEF ScanClaim, Goto
  <1>25. CASE ScanRead(t)
    BY <1>25 DEF ScanRead, Takes, Collect, Goto
  <1>26. CASE ScanUnlock(t)
    BY <1>26 DEF ScanUnlock, Return, Goto
  <1>27. CASE ScanNext(t)
    BY <1>27 DEF ScanNext, Return, Goto
  <1>28. CASE FastSibling(t)
    BY <1>28 DEF FastSibling, Goto
  <1>29. CASE FastAlt(t)
    BY <1>29 DEF FastAlt, Goto
  <1>30. CASE FastRead(t)
    BY <1>30 DEF FastRead, Takes, Collect, ReadsLiveBuffer, Return, Goto
  <1> QED
    BY <1>1, <1>2, <1>3, <1>4, <1>5, <1>6, <1>7, <1>8, <1>9, <1>10, <1>11,
         <1>12, <1>13, <1>14, <1>15, <1>16, <1>17, <1>18, <1>19, <1>20, <1>21,
         <1>22, <1>23, <1>24, <1>25, <1>26, <1>27, <1>28, <1>29, <1>30
     DEF Step, InsertStep, ScanStep

(* alt_ptr leads to the P_Leaf except while one thread splits the leaf.     *)
LEMMA AltStep ==
  ASSUME TypeOK, TypeOK', LocalsInv, LockInv, ClaimInv, AllocInv, RightLeafInv,
         RouteInv, SplitInv, AltInv, NEW t \in Thread, Step(t)
  PROVE  AltInv'
  <1> USE OthersKeep, NewLeafIsFresh
      DEF BufferLive, Marked, HalfSplit, AltInv, localVars, leafVars,
          TypeOK, LocalType, LeafType
  <1>1. CASE Invoke(t)
    BY <1>1 DEF Invoke, Goto
  <1>2. CASE AnnounceWrite(t)
    BY <1>2 DEF AnnounceWrite, Busy, Goto
  <1>3. CASE AcquireRead(t)
    BY <1>3 DEF AcquireRead, TakeRead, Goto
  <1>4. CASE FindInsert(t)
    BY <1>4 DEF FindInsert, Goto
  <1>5. CASE TryClaim(t)
    BY <1>5 DEF TryClaim, Goto
  <1>6. CASE ReleaseRead(t)
    BY <1>6 DEF ReleaseRead, DropRead, Goto
  <1>7. CASE FindDuplicate(t)
    BY <1>7 DEF FindDuplicate, Return, Goto
  <1>8. CASE CheckRoom(t)
    BY <1>8 DEF CheckRoom, Goto
  <1>9. CASE AppendOne(t)
    <2>1. /\ pc[t] = "append" /\ pc'[t] = "publish"
          /\ UNCHANGED <<leafVars, localVars>>
      BY <1>9 DEF AppendOne, Goto
    <2> QED BY <2>1
  <1>10. CASE PublishSlot(t)
    <2>1. /\ pc[t] = "publish" /\ pc'[t] = "unlock" /\ leaf[t] \in Leaf
          /\ content' = [content EXCEPT ![leaf[t]] = @ \cup {op[t].key}]
          /\ UNCHANGED <<alt_ptr, localVars>>
      BY <1>10 DEF PublishSlot, Goto, LocalsInv, InsertPC, InsertOwns
    <2>2. \A u \in Thread : pc[u] \in BufferLive \ {"restore"} => leaf[u] # leaf[t]
      BY <2>1 DEF ClaimInv, LeafMutex, OwnsLeaf, InsertOwns
    <2> QED BY <2>1, <2>2
  <1>11. CASE UnlockLeaf(t)
    BY <1>11 DEF UnlockLeaf, Return, Goto
  <1>12. CASE FillBuffer(t)
    BY <1>12
       DEF FillBuffer, Goto, LockInv, ReadHeld, WriteHeld, LocalsInv,
           ClaimInv, LeafMutex, OwnsLeaf, InsertOwns, InsertPC, AllocInv
  <1>13. CASE MarkSplit(t)
    BY <1>13, SMTT(30)
       DEF MarkSplit, Goto, LockInv, ReadHeld, WriteHeld, LocalsInv, ClaimInv,
           LeafMutex, OwnsLeaf, InsertOwns, InsertPC, AllocInv
  <1>14. CASE SplitLeaf(t)
    <2>1. /\ pc[t] = "split_leaf" /\ pc'[t] = "check_root"
          /\ alt_ptr' = [alt_ptr EXCEPT ![NewLeaf] = NewLeaf]
          /\ NewLeaf \in Leaf \ heap
          /\ leaf' = leaf /\ ptr' = ptr
      BY <1>14 DEF SplitLeaf, Goto
    <2>2. \A u \in Thread : pc[u] \in BufferLive =>
             leaf[u] \in heap /\ leaf[u] # NewLeaf
      BY <2>1 DEF LocalsInv, InsertPC, InsertOwns, AllocInv
    <2>3. \A u \in Thread \ {t} : pc[u] \in {"mark", "split_leaf"} =>
             /\ leaf[u] \in Leaf /\ leaf[u] # leaf[t] /\ leaf[u] # NewLeaf
             /\ dram_buffer'[u] = dram_buffer[u]
      BY <2>1, <2>2 DEF LocalsInv, InsertPC, ClaimInv, LeafMutex, OwnsLeaf, InsertOwns
    <2>4. \A l \in Leaf \ {NewLeaf, leaf[t]} : content'[l] = content[l]
      BY <1>14, SplitLeafEffect
    <2>5. \A l \in Leaf : alt_ptr'[l] = IF l = NewLeaf THEN NewLeaf ELSE alt_ptr[l]
      BY <2>1
    <2>6. \A u \in Thread : pc'[u] \in BufferLive <=> pc[u] \in BufferLive
      BY <2>1
    <2>7. \A l \in Leaf :
             \/ alt_ptr'[l] = l
             \/ \E u \in Thread : pc'[u] \in BufferLive /\ leaf'[u] = l
      BY <2>1, <2>5, <2>6
    <2>8. \A u \in Thread : pc'[u] \in BufferLive =>
             alt_ptr'[leaf'[u]] = u /\ ptr'[u] = leaf'[u]
      BY <2>1, <2>2, <2>5, <2>6 DEF LocalsInv, InsertPC, InsertOwns
    <2>9. \A u \in Thread : pc'[u] \in {"mark", "split_leaf"} =>
             dram_buffer'[u] = content'[leaf'[u]]
      BY <2>1, <2>3, <2>4
    <2> QED BY <2>7, <2>8, <2>9
  <1>15. CASE CheckRoot(t)
    BY <1>15 DEF CheckRoot, Goto
  <1>16. CASE AcquireWrite(t)
    BY <1>16 DEF AcquireWrite, TakeWrite, Busy, Goto
  <1>17. CASE NewRoot(t)
    BY <1>17 DEF NewRoot, Goto
  <1>18. CASE SplitInner(t)
    BY <1>18 DEF SplitInner, Goto
  <1>19. CASE Unmark(t)
    BY <1>19 DEF Unmark, Goto
  <1>20. CASE RestoreAlt(t)
    BY <1>20
       DEF RestoreAlt, Goto, LockInv, ReadHeld, WriteHeld, LocalsInv,
           ClaimInv, LeafMutex, OwnsLeaf, InsertOwns, InsertPC, AllocInv
  <1>21. CASE ReleaseWrite(t)
    BY <1>21
       DEF ReleaseWrite, DropWrite, Goto, LockInv, ReadHeld, WriteHeld,
           LocalsInv, ClaimInv, LeafMutex, OwnsLeaf, InsertOwns, InsertPC,
           AllocInv
  <1>22. CASE ScanRelease(t)
    BY <1>22 DEF ScanRelease, DropRead, Goto
  <1>23. CASE ScanTest(t)
    BY <1>23 DEF ScanTest, Return, Goto
  <1>24. CASE ScanClaim(t)
    BY <1>24 DEF ScanClaim, Goto
  <1>25. CASE ScanRead(t)
    BY <1>25 DEF ScanRead, Takes, Collect, Goto
  <1>26. CASE ScanUnlock(t)
    BY <1>26 DEF ScanUnlock, Return, Goto
  <1>27. CASE ScanNext(t)
    BY <1>27 DEF ScanNext, Return, Goto
  <1>28. CASE FastSibling(t)
    BY <1>28 DEF FastSibling, Goto
  <1>29. CASE FastAlt(t)
    BY <1>29 DEF FastAlt, Goto
  <1>30. CASE FastRead(t)
    BY <1>30 DEF FastRead, Takes, Collect, ReadsLiveBuffer, Return, Goto
  <1> QED
    BY <1>1, <1>2, <1>3, <1>4, <1>5, <1>6, <1>7, <1>8, <1>9, <1>10, <1>11,
         <1>12, <1>13, <1>14, <1>15, <1>16, <1>17, <1>18, <1>19, <1>20, <1>21,
         <1>22, <1>23, <1>24, <1>25, <1>26, <1>27, <1>28, <1>29, <1>30
     DEF Step, InsertStep, ScanStep

(* A record about to be inserted is in no leaf: it could only be in the    *)
(* leaf its key is routed to, which the thread has claimed and searched.   *)
LEMMA NewKeyIsNew ==
  ASSUME LocalsInv, ClaimInv, RouteInv, RecordsAreRouted,
         NEW t \in Thread, pc[t] \in {"append", "publish"},
         op[t].key \notin content[leaf[t]]
  PROVE  /\ op[t].key \in Key
         /\ op[t].key \notin Stored
         /\ \A u \in Thread \ {t} : pc[u] = "publish" => op[u].key # op[t].key
  <1>1. op[t] \in Op /\ route[op[t].key] = leaf[t] /\ pc[t] \in OwnsLeaf
    BY DEF LocalsInv, RouteInv, RouteStaysValid, OwnsLeaf, InsertOwns
  <1>2. \A u \in Thread \ {t} : pc[u] \in OwnsLeaf => leaf[u] # leaf[t]
    BY <1>1 DEF ClaimInv, LeafMutex
  <1>3. \A l \in Leaf : op[t].key \notin content[l]
    <2>1. \A u \in Thread : pc[u] \in HalfSplit => leaf[u] # leaf[t]
      BY <1>2 DEF OwnsLeaf, InsertOwns, Marked, HalfSplit
    <2> QED BY <1>1, <2>1 DEF RecordsAreRouted, InTransit
  <1>4. ASSUME NEW u \in Thread \ {t}, pc[u] = "publish" PROVE op[u].key # op[t].key
    BY <1>1, <1>2, <1>4 DEF RouteInv, RouteStaysValid, OwnsLeaf, InsertOwns
  <1> QED BY <1>1, <1>3, <1>4, OpParts DEF Stored

(* No leaf gets a key twice or more keys than it has slots.                 *)
LEMMA NewKeyStep ==
  ASSUME TypeOK, TypeOK', LocalsInv, LockInv, ClaimInv, AllocInv, AltInv,
         NewKeyInv, NEW t \in Thread, Step(t)
  PROVE  NewKeyInv'
  <1> USE OthersKeep
      DEF NewKeyInv, LeafCapacity, TypeOK, leafVars, callVars, localVars
  <1>1. CASE Invoke(t)
    BY <1>1 DEF Invoke, Goto
  <1>2. CASE AnnounceWrite(t)
    BY <1>2 DEF AnnounceWrite, Busy, Goto
  <1>3. CASE AcquireRead(t)
    BY <1>3 DEF AcquireRead, TakeRead, Goto
  <1>4. CASE FindInsert(t)
    BY <1>4 DEF FindInsert, Goto
  <1>5. CASE TryClaim(t)
    BY <1>5 DEF TryClaim, Goto
  <1>6. CASE ReleaseRead(t)
    BY <1>6 DEF ReleaseRead, DropRead, Goto
  <1>7. CASE FindDuplicate(t)
    BY <1>7 DEF FindDuplicate, Return, Goto
  <1>8. CASE CheckRoom(t)
    BY <1>8
       DEF CheckRoom, Goto, LocalsInv, ClaimInv, LeafMutex, OwnsLeaf,
           InsertOwns, Marked, InsertPC, AltInv, AllocInv, LeafType, LocalType
  <1>9. CASE AppendOne(t)
    BY <1>9 DEF AppendOne, Goto
  <1>10. CASE PublishSlot(t)
    <2>1. /\ pc[t] = "publish" /\ pc'[t] = "unlock" /\ leaf[t] \in Leaf
          /\ leaf' = leaf /\ op' = op
          /\ content' = [content EXCEPT ![leaf[t]] = @ \cup {op[t].key}]
      BY <1>10 DEF PublishSlot, Goto, LocalsInv, InsertPC, InsertOwns
    <2>2. \A l \in Leaf \ {leaf[t]} : content'[l] = content[l]
      BY <2>1 DEF LeafType
    <2>3. Cardinality(content'[leaf[t]]) <= MAX_LEAF_KEY
      <3>1. IsFiniteSet(content[leaf[t]])
        BY <2>1, KeyAssumption, FS_Subset DEF LeafType
      <3>2. content'[leaf[t]] = content[leaf[t]] \cup {op[t].key}
        BY <2>1 DEF LeafType
      <3>3. Cardinality(content'[leaf[t]]) = Cardinality(content[leaf[t]]) + 1
        <4>1. op[t].key \notin content[leaf[t]]
          BY <2>1
        <4> QED BY ONLY <3>1, <3>2, <4>1, FS_AddElement
      <3>4. Cardinality(content[leaf[t]]) \in Nat /\ MAX_LEAF_KEY \in Nat
        BY <3>1, FS_CardinalityType, CapacityAssumption
      <3> QED BY <2>1, <3>3, <3>4
    <2>4. \A u \in Thread : pc'[u] \in {"append", "publish"} =>
             leaf[u] # leaf[t] /\ leaf[u] \in Leaf /\ pc[u] = pc'[u]
      <3>1. ASSUME NEW u \in Thread, pc'[u] \in {"append", "publish"}
            PROVE  leaf[u] # leaf[t] /\ leaf[u] \in Leaf /\ pc[u] = pc'[u]
        <4>1. u # t /\ pc[u] = pc'[u]
          BY <2>1, <3>1
        <4>2. leaf[u] \in Leaf
          BY <3>1, <4>1 DEF LocalsInv, InsertPC, InsertOwns
        <4> QED BY <2>1, <3>1, <4>1, <4>2 DEF ClaimInv, LeafMutex, OwnsLeaf, InsertOwns
      <3> QED BY <3>1
    <2>5. \A u \in Thread : pc'[u] \in {"append", "publish"} =>
             /\ op'[u].key \notin content'[leaf'[u]]
             /\ Cardinality(content'[leaf'[u]]) < MAX_LEAF_KEY
      BY <2>1, <2>2, <2>4
    <2>6. LeafCapacity'
      BY <2>2, <2>3
    <2> QED BY <2>5, <2>6
  <1>11. CASE UnlockLeaf(t)
    BY <1>11 DEF UnlockLeaf, Return, Goto
  <1>12. CASE FillBuffer(t)
    BY <1>12 DEF FillBuffer, Goto
  <1>13. CASE MarkSplit(t)
    BY <1>13 DEF MarkSplit, Goto
  <1>14. CASE SplitLeaf(t)
    <2>1. \A l \in {NewLeaf, leaf[t]} : Cardinality(content'[l]) <= MAX_LEAF_KEY
      <3>1. IsFiniteSet(content[leaf[t]])
        BY <1>14, SplitLeafEffect, KeyAssumption, FS_Subset DEF LeafType
      <3>2. \A l \in {NewLeaf, leaf[t]} :
               Cardinality(content'[l]) <= Cardinality(content[leaf[t]])
                 /\ Cardinality(content'[l]) \in Nat
        <4>1. \A l \in {NewLeaf, leaf[t]} : content'[l] \in SUBSET content[leaf[t]]
          <5>1. /\ content'[NewLeaf] = {j \in content[leaf[t]] : j > split_key'[t]}
                /\ content'[leaf[t]] = {j \in content[leaf[t]] : j <= split_key'[t]}
            BY <1>14, SplitLeafEffect
          <5> QED BY ONLY <5>1
        <4>2. ASSUME NEW l \in {NewLeaf, leaf[t]}
              PROVE  /\ Cardinality(content'[l]) <= Cardinality(content[leaf[t]])
                     /\ Cardinality(content'[l]) \in Nat
          <5>1. content'[l] \in SUBSET content[leaf[t]]
            BY <4>1, <4>2
          <5>2. IsFiniteSet(content'[l])
            BY ONLY <3>1, <5>1, FS_Subset
          <5>3. Cardinality(content'[l]) <= Cardinality(content[leaf[t]])
            BY ONLY <3>1, <5>1, FS_Subset
          <5> QED BY ONLY <5>2, <5>3, FS_CardinalityType
        <4> QED BY <4>2
      <3>3. Cardinality(content[leaf[t]]) \in Nat /\ MAX_LEAF_KEY \in Nat
        BY <3>1, FS_CardinalityType, CapacityAssumption
      <3>4. Cardinality(content[leaf[t]]) <= MAX_LEAF_KEY
        BY <1>14, SplitLeafEffect
      <3> QED BY <3>2, <3>3, <3>4
    <2>2. \A u \in Thread : pc'[u] \in {"append", "publish"} =>
             /\ leaf[u] # leaf[t] /\ leaf[u] # NewLeaf /\ leaf[u] \in Leaf
             /\ pc[u] = pc'[u] /\ op'[u] = op[u] /\ leaf'[u] = leaf[u]
      <3>1. pc[t] = "split_leaf" /\ pc'[t] = "check_root"
        BY <1>14, SplitLeafEffect
      <3>2. ASSUME NEW u \in Thread, pc'[u] \in {"append", "publish"}
            PROVE  /\ leaf[u] # leaf[t] /\ leaf[u] \in Leaf
                   /\ pc[u] = pc'[u] /\ op'[u] = op[u] /\ leaf'[u] = leaf[u]
        BY <3>1, <3>2 DEF ClaimInv, LeafMutex, OwnsLeaf, InsertOwns, Marked,
                          LocalsInv, InsertPC
      <3>3. \A u \in Thread : leaf[u] \in Leaf => leaf[u] # NewLeaf
        BY <1>14, SplitLeafEffect DEF AllocInv
      <3> QED BY <3>2, <3>3
    <2> QED BY <1>14, <2>1, <2>2, SplitLeafEffect
  <1>15. CASE CheckRoot(t)
    BY <1>15 DEF CheckRoot, Goto
  <1>16. CASE AcquireWrite(t)
    BY <1>16 DEF AcquireWrite, TakeWrite, Busy, Goto
  <1>17. CASE NewRoot(t)
    BY <1>17 DEF NewRoot, Goto
  <1>18. CASE SplitInner(t)
    BY <1>18 DEF SplitInner, Goto
  <1>19. CASE Unmark(t)
    BY <1>19 DEF Unmark, Goto
  <1>20. CASE RestoreAlt(t)
    BY <1>20 DEF RestoreAlt, Goto
  <1>21. CASE ReleaseWrite(t)
    BY <1>21 DEF ReleaseWrite, DropWrite, Goto
  <1>22. CASE ScanRelease(t)
    BY <1>22 DEF ScanRelease, DropRead, Goto
  <1>23. CASE ScanTest(t)
    BY <1>23 DEF ScanTest, Return, Goto
  <1>24. CASE ScanClaim(t)
    BY <1>24 DEF ScanClaim, Goto
  <1>25. CASE ScanRead(t)
    BY <1>25 DEF ScanRead, Takes, Collect, Goto
  <1>26. CASE ScanUnlock(t)
    BY <1>26 DEF ScanUnlock, Return, Goto
  <1>27. CASE ScanNext(t)
    BY <1>27 DEF ScanNext, Return, Goto
  <1>28. CASE FastSibling(t)
    BY <1>28 DEF FastSibling, Goto
  <1>29. CASE FastAlt(t)
    BY <1>29 DEF FastAlt, Goto
  <1>30. CASE FastRead(t)
    BY <1>30 DEF FastRead, Takes, Collect, ReadsLiveBuffer, Return, Goto
  <1> QED
    BY <1>1, <1>2, <1>3, <1>4, <1>5, <1>6, <1>7, <1>8, <1>9, <1>10, <1>11,
         <1>12, <1>13, <1>14, <1>15, <1>16, <1>17, <1>18, <1>19, <1>20, <1>21,
         <1>22, <1>23, <1>24, <1>25, <1>26, <1>27, <1>28, <1>29, <1>30
     DEF Step, InsertStep, ScanStep

----------------------------------------------------------------------------
(* The logs and the answers.                                               *)

(* A step that appends and stores nothing.                                 *)
LEMMA LogFrame ==
  ASSUME LogInv, log' = log, Stored' = Stored,
         \A u \in Thread : pc'[u] = "publish" <=> pc[u] = "publish",
         \A u \in Thread : pc[u] = "publish" => op'[u] = op[u]
  PROVE  LogInv'
  BY DEF LogInv, LogNamesPLeaf, LoggedOnce, Logged

(* A step that changes no leaf's records stores the same keys.             *)
LEMMA StoredFrame ==
  ASSUME content' = content
  PROVE  Stored' = Stored
  BY DEF Stored

(* The entry a thread appends is the last of its log.                      *)
LEMMA AppendedEntry ==
  ASSUME TypeOK, NEW t \in Thread, NEW e, log' = [log EXCEPT ![t] = Append(@, e)]
  PROVE  /\ DOMAIN log'[t] = DOMAIN log[t] \cup {Len(log[t]) + 1}
         /\ Len(log[t]) + 1 \notin DOMAIN log[t]
         /\ log'[t][Len(log[t]) + 1] = e
         /\ \A i \in DOMAIN log[t] : log'[t][i] = log[t][i]
         /\ \A u \in Thread \ {t} : log'[u] = log[u]
  BY DEF TypeOK, LogType

(* Each key is logged once, before it is stored, with the P_Leaf of its     *)
(* leaf.                                                                    *)
LEMMA LogStep ==
  ASSUME TypeOK, TypeOK', LocalsInv, LockInv, ClaimInv, AllocInv, RightLeafInv,
         RouteInv, SplitInv, RecordsAreRouted, AltInv, NewKeyInv, LogInv, NEW t
         \in Thread, Step(t)
  PROVE  LogInv'
  <1> USE OthersKeep, StoredFrame DEF TypeOK, leafVars, callVars
  <1>1. CASE Invoke(t)
    BY <1>1, LogFrame DEF Invoke, Goto
  <1>2. CASE AnnounceWrite(t)
    BY <1>2, LogFrame DEF AnnounceWrite, Busy, Goto
  <1>3. CASE AcquireRead(t)
    BY <1>3, LogFrame DEF AcquireRead, TakeRead, Goto
  <1>4. CASE FindInsert(t)
    BY <1>4, LogFrame DEF FindInsert, Goto
  <1>5. CASE TryClaim(t)
    BY <1>5, LogFrame DEF TryClaim, Goto
  <1>6. CASE ReleaseRead(t)
    BY <1>6, LogFrame DEF ReleaseRead, DropRead, Goto
  <1>7. CASE FindDuplicate(t)
    BY <1>7, LogFrame DEF FindDuplicate, Return, Goto
  <1>8. CASE CheckRoom(t)
    BY <1>8, LogFrame DEF CheckRoom, Goto
  <1>9. CASE AppendOne(t)
    <2> DEFINE e == [key |-> op[t].key, pptr |-> alt_ptr[leaf[t]]]
               n == Len(log[t]) + 1
    <2>1. /\ pc[t] = "append" /\ pc'[t] = "publish" /\ op' = op /\ content' = content
          /\ log' = [log EXCEPT ![t] = Append(@, e)]
      BY <1>9 DEF AppendOne, Goto
    <2>2. /\ op[t].key \in Key /\ op[t].key \notin Stored
          /\ \A u \in Thread \ {t} : pc[u] = "publish" => op[u].key # op[t].key
      BY <2>1, NewKeyIsNew DEF NewKeyInv
    <2>3. ~Logged(op[t].key)
      BY <2>1, <2>2 DEF LogInv
    <2>4. alt_ptr[leaf[t]] \in Leaf
      <3>1. leaf[t] \in Leaf /\ pc[t] \in InsertOwns
        BY <2>1 DEF LocalsInv, InsertPC, InsertOwns
      <3>2. ASSUME NEW u \in Thread, pc[u] \in BufferLive PROVE leaf[u] # leaf[t]
        BY <2>1, <3>1, <3>2
           DEF ClaimInv, LeafMutex, BufferLive, OwnsLeaf, InsertOwns, Marked,
               HalfSplit
      <3> QED BY <3>1, <3>2 DEF AltInv
    <2>5. /\ DOMAIN log'[t] = DOMAIN log[t] \cup {n}
          /\ log'[t][n] = e /\ n \notin DOMAIN log[t]
          /\ \A i \in DOMAIN log[t] : log'[t][i] = log[t][i]
          /\ \A u \in Thread \ {t} : log'[u] = log[u]
      <3> HIDE DEF TypeOK, e
      <3> QED BY ONLY TypeOK, t \in Thread, <2>1, AppendedEntry DEF n
    <2>6. e.key = op[t].key /\ e.pptr = alt_ptr[leaf[t]]
      OBVIOUS
    <2> HIDE DEF e, n
    <2>7. LogNamesPLeaf'
      BY <2>4, <2>5, <2>6 DEF LogInv, LogNamesPLeaf
    <2>8. LoggedOnce'
      <3>1. \A u \in Thread : \A i \in DOMAIN log[u] : log[u][i].key # e.key
        BY <2>3, <2>6 DEF Logged
      <3> QED BY <2>5, <3>1 DEF LogInv, LoggedOnce
    <2>9. \A k \in Key : Logged(k)' <=> Logged(k) \/ k = op[t].key
      BY <2>5, <2>6 DEF Logged
    <2>10. \A k \in Key : Logged(k)' <=>
              \/ k \in Stored'
              \/ \E u \in Thread : pc'[u] = "publish" /\ op'[u].key = k
      <3>1. Stored' = Stored
        BY <2>1
      <3>2. \A k \in Key :
               (\E u \in Thread : pc'[u] = "publish" /\ op'[u].key = k)
                 <=> (\E u \in Thread : pc[u] = "publish" /\ op[u].key = k)
                       \/ k = op[t].key
        BY <2>1
      <3> QED BY <2>9, <3>1, <3>2 DEF LogInv
    <2> QED BY <2>7, <2>8, <2>10 DEF LogInv
  <1>10. CASE PublishSlot(t)
    <2>1. /\ pc[t] = "publish" /\ pc'[t] = "unlock" /\ op' = op /\ log' = log
          /\ content' = [content EXCEPT ![leaf[t]] = @ \cup {op[t].key}]
      BY <1>10 DEF PublishSlot, Goto
    <2>2. leaf[t] \in Leaf
      BY <2>1 DEF LocalsInv, InsertPC, InsertOwns
    <2>3. /\ op[t].key \in Key
          /\ \A u \in Thread \ {t} : pc[u] = "publish" => op[u].key # op[t].key
      BY <2>1, NewKeyIsNew DEF NewKeyInv
    <2>4. Stored' = Stored \cup {op[t].key}
      BY <2>1, <2>2, <2>3 DEF Stored, LeafType
    <2>5. \A k \in Key :
             (\E u \in Thread : pc[u] = "publish" /\ op[u].key = k)
               <=> (\E u \in Thread : pc'[u] = "publish" /\ op'[u].key = k)
                     \/ k = op[t].key
      BY <2>1
    <2>6. \A k \in Key : Logged(k)' <=> Logged(k)
      BY <2>1 DEF Logged
    <2> QED BY <2>1, <2>4, <2>5, <2>6 DEF LogInv, LogNamesPLeaf, LoggedOnce
  <1>11. CASE UnlockLeaf(t)
    BY <1>11, LogFrame DEF UnlockLeaf, Return, Goto
  <1>12. CASE FillBuffer(t)
    BY <1>12, LogFrame DEF FillBuffer, Goto
  <1>13. CASE MarkSplit(t)
    BY <1>13, LogFrame DEF MarkSplit, Goto
  <1>14. CASE SplitLeaf(t)
    <2>1. Stored' = Stored
      BY <1>14, SplitLeafKeepsStored
    <2> QED BY <1>14, <2>1, LogFrame DEF SplitLeaf, Goto
  <1>15. CASE CheckRoot(t)
    BY <1>15, LogFrame DEF CheckRoot, Goto
  <1>16. CASE AcquireWrite(t)
    BY <1>16, LogFrame DEF AcquireWrite, TakeWrite, Busy, Goto
  <1>17. CASE NewRoot(t)
    BY <1>17, LogFrame DEF NewRoot, Goto
  <1>18. CASE SplitInner(t)
    BY <1>18, LogFrame DEF SplitInner, Goto
  <1>19. CASE Unmark(t)
    BY <1>19, LogFrame DEF Unmark, Goto
  <1>20. CASE RestoreAlt(t)
    BY <1>20, LogFrame DEF RestoreAlt, Goto
  <1>21. CASE ReleaseWrite(t)
    BY <1>21, LogFrame DEF ReleaseWrite, DropWrite, Goto
  <1>22. CASE ScanRelease(t)
    BY <1>22, LogFrame DEF ScanRelease, DropRead, Goto
  <1>23. CASE ScanTest(t)
    BY <1>23, LogFrame DEF ScanTest, Return, Goto
  <1>24. CASE ScanClaim(t)
    BY <1>24, LogFrame DEF ScanClaim, Goto
  <1>25. CASE ScanRead(t)
    BY <1>25, LogFrame DEF ScanRead, Takes, Collect, Goto
  <1>26. CASE ScanUnlock(t)
    BY <1>26, LogFrame DEF ScanUnlock, Return, Goto
  <1>27. CASE ScanNext(t)
    BY <1>27, LogFrame DEF ScanNext, Return, Goto
  <1>28. CASE FastSibling(t)
    BY <1>28, LogFrame DEF FastSibling, Goto
  <1>29. CASE FastAlt(t)
    BY <1>29, LogFrame DEF FastAlt, Goto
  <1>30. CASE FastRead(t)
    BY <1>30, LogFrame
       DEF FastRead, Takes, Collect, ReadsLiveBuffer, Return, Goto
  <1> QED
    BY <1>1, <1>2, <1>3, <1>4, <1>5, <1>6, <1>7, <1>8, <1>9, <1>10, <1>11,
         <1>12, <1>13, <1>14, <1>15, <1>16, <1>17, <1>18, <1>19, <1>20, <1>21,
         <1>22, <1>23, <1>24, <1>25, <1>26, <1>27, <1>28, <1>29, <1>30
     DEF Step, InsertStep, ScanStep

(* An insert has an answer when its record is published, and not before.    *)
LEMMA AnswerStep ==
  ASSUME TypeOK, TypeOK', LocalsInv, AnswerInv, NEW t \in Thread, Step(t)
  PROVE  AnswerInv'
  <1> USE OthersKeep DEF AnswerInv, TypeOK, CallType, callVars
  <1>1. CASE Invoke(t)
    BY <1>1 DEF Invoke, Goto
  <1>2. CASE AnnounceWrite(t)
    BY <1>2 DEF AnnounceWrite, Busy, Goto
  <1>3. CASE AcquireRead(t)
    BY <1>3 DEF AcquireRead, TakeRead, Goto
  <1>4. CASE FindInsert(t)
    BY <1>4 DEF FindInsert, Goto
  <1>5. CASE TryClaim(t)
    BY <1>5 DEF TryClaim, Goto
  <1>6. CASE ReleaseRead(t)
    BY <1>6 DEF ReleaseRead, DropRead, Goto
  <1>7. CASE FindDuplicate(t)
    BY <1>7 DEF FindDuplicate, Return, Goto
  <1>8. CASE CheckRoom(t)
    BY <1>8 DEF CheckRoom, Goto
  <1>9. CASE AppendOne(t)
    BY <1>9 DEF AppendOne, Goto
  <1>10. CASE PublishSlot(t)
    BY <1>10 DEF PublishSlot, Goto
  <1>11. CASE UnlockLeaf(t)
    BY <1>11 DEF UnlockLeaf, Return, Goto
  <1>12. CASE FillBuffer(t)
    BY <1>12 DEF FillBuffer, Goto
  <1>13. CASE MarkSplit(t)
    BY <1>13 DEF MarkSplit, Goto
  <1>14. CASE SplitLeaf(t)
    BY <1>14 DEF SplitLeaf, Goto
  <1>15. CASE CheckRoot(t)
    BY <1>15 DEF CheckRoot, Goto
  <1>16. CASE AcquireWrite(t)
    BY <1>16 DEF AcquireWrite, TakeWrite, Busy, Goto
  <1>17. CASE NewRoot(t)
    BY <1>17 DEF NewRoot, Goto
  <1>18. CASE SplitInner(t)
    BY <1>18 DEF SplitInner, Goto
  <1>19. CASE Unmark(t)
    BY <1>19 DEF Unmark, Goto
  <1>20. CASE RestoreAlt(t)
    BY <1>20 DEF RestoreAlt, Goto
  <1>21. CASE ReleaseWrite(t)
    BY <1>21 DEF ReleaseWrite, DropWrite, Goto
  <1>22. CASE ScanRelease(t)
    BY <1>22 DEF ScanRelease, DropRead, Goto
  <1>23. CASE ScanTest(t)
    BY <1>23 DEF ScanTest, Return, Goto
  <1>24. CASE ScanClaim(t)
    BY <1>24 DEF ScanClaim, Goto
  <1>25. CASE ScanRead(t)
    BY <1>25 DEF ScanRead, Takes, Collect, Goto
  <1>26. CASE ScanUnlock(t)
    BY <1>26 DEF ScanUnlock, Return, Goto
  <1>27. CASE ScanNext(t)
    BY <1>27 DEF ScanNext, Return, Goto
  <1>28. CASE FastSibling(t)
    BY <1>28 DEF FastSibling, Goto
  <1>29. CASE FastAlt(t)
    BY <1>29 DEF FastAlt, Goto
  <1>30. CASE FastRead(t)
    BY <1>30 DEF FastRead, Takes, Collect, ReadsLiveBuffer, Return, Goto
  <1> QED
    BY <1>1, <1>2, <1>3, <1>4, <1>5, <1>6, <1>7, <1>8, <1>9, <1>10, <1>11,
         <1>12, <1>13, <1>14, <1>15, <1>16, <1>17, <1>18, <1>19, <1>20, <1>21,
         <1>22, <1>23, <1>24, <1>25, <1>26, <1>27, <1>28, <1>29, <1>30
     DEF Step, InsertStep, ScanStep

----------------------------------------------------------------------------
(* The inductive invariant and what follows from it.                       *)

(* An empty tree satisfies the invariant, whatever is to be called.        *)
LEMMA EmptyTreeInv == EmptyTree /\ todo \in [Thread -> SUBSET Op] => IInv
  <1> SUFFICES ASSUME EmptyTree, todo \in [Thread -> SUBSET Op] PROVE IInv
    OBVIOUS
  <1> USE LeafAssumption, ThreadAssumption DEF EmptyTree
  <1>1. TypeOK
    <2>1. next \in [Leaf -> Leaf \cup {NoLeaf, WildPtr}]
      OBVIOUS
    <2>2. log \in [Thread -> Seq([key : Key, pptr : Leaf \cup Thread])]
      OBVIOUS
    <2>4. LockType /\ IndexType /\ ScanType
      BY DEF LockType, IndexType, ScanType
    <2>5. LeafType
      BY <2>1 DEF LeafType
    <2>6. CallType
      BY DEF CallType
    <2>7. LocalType
      BY DEF LocalType
    <2>8. pc \in [Thread -> PC]
      BY DEF PC
    <2> QED BY <2>2, <2>4, <2>5, <2>6, <2>7, <2>8 DEF TypeOK, LogType
  <1>2. LocalsInv /\ LockInv /\ AnswerInv
    BY DEF LocalsInv, LockInv, AnswerInv, InsertPC, ScanPC, InsertOwns, ScanOwns,
           ReadHeld, WriteHeld, Marked, HalfSplit, BufferLive
  <1>3. ClaimInv
    BY DEF ClaimInv, LeafMutex, OwnsLeaf, InsertOwns, ScanOwns, Marked, HalfSplit
  <1>4. AllocInv /\ RightLeafInv /\ RouteInv /\ SplitInv
    BY DEF AllocInv, RightLeafInv, RouteInv, RouteStaysValid, SplitInv,
           InsertOwns, Marked, HalfSplit
  <1>5. RecordsAreRouted /\ AltInv
    BY DEF RecordsAreRouted, AltInv, BufferLive, Marked, HalfSplit
  <1>6. NewKeyInv
    BY FS_EmptySet, CapacityAssumption DEF NewKeyInv, LeafCapacity
  <1>7. LogInv
    BY DEF LogInv, LogNamesPLeaf, LoggedOnce, Logged, Stored
  <1> QED BY <1>1, <1>2, <1>3, <1>4, <1>5, <1>6, <1>7 DEF IInv

(* The constructor's tree satisfies the invariant.                         *)
LEMMA InitInv == Init => IInv
  BY EmptyTreeInv, WorkloadAssumption DEF Init

(* Every step of every thread preserves it.                                *)
LEMMA NextInv == IInv /\ [Next]_vars => IInv'
  <1>1. ASSUME IInv, NEW t \in Thread, Step(t) PROVE IInv'
    <2>1. TypeOK' /\ LocalsInv'
      BY <1>1, TypeStep DEF IInv
    <2>2. LockInv' /\ ClaimInv' /\ AllocInv' /\ RightLeafInv' /\ RouteInv'
      BY <1>1, <2>1, LockStep, ClaimStep, AllocStep, RightLeafStep, RouteStep DEF IInv
    <2>3. SplitInv' /\ RecordsAreRouted' /\ AltInv'
      BY <1>1, <2>1, SplitStep, RecordStep, AltStep DEF IInv
    <2>4. NewKeyInv' /\ LogInv' /\ AnswerInv'
      BY <1>1, <2>1, NewKeyStep, LogStep, AnswerStep DEF IInv
    <2> QED BY <2>1, <2>2, <2>3, <2>4 DEF IInv
  <1>2. ASSUME IInv, UNCHANGED vars PROVE IInv'
    <2> USE <1>2
        DEF vars, lockVars, indexVars, leafVars, callVars, localVars, scanVars, IInv
    <2>1. TypeOK'
      BY TypeFrame DEF TypeOK
    <2>2. LocalsInv' /\ LockInv' /\ AllocInv' /\ RightLeafInv' /\ AnswerInv'
      BY DEF LocalsInv, LockInv, AllocInv, RightLeafInv, AnswerInv
    <2>3. ClaimInv' /\ AltInv' /\ RouteInv' /\ SplitInv'
      BY DEF ClaimInv, LeafMutex, AltInv, RouteInv, RouteStaysValid, SplitInv
    <2>4. RecordsAreRouted' /\ NewKeyInv'
      BY DEF RecordsAreRouted, InTransit, NewKeyInv, LeafCapacity
    <2>5. LogInv'
      BY LogFrame, StoredFrame
    <2> QED BY <2>1, <2>2, <2>3, <2>4, <2>5
  <1> QED BY <1>1, <1>2 DEF Next, Done

(* The invariant holds in every reachable state of insert and scan.        *)
THEOREM Invariance == Spec => []IInv
  BY InitInv, NextInv, PTL DEF Spec

(* The variables always have their types.                                  *)
THEOREM TypeCorrectness == Spec => []TypeOK
  <1>1. IInv => TypeOK
    BY DEF IInv
  <1> QED BY <1>1, Invariance, PTL

(* No two threads are in the critical section of one leaf.                 *)
THEOREM LeafMutualExclusion == Spec => []LeafMutex
  <1>1. IInv => LeafMutex
    BY DEF IInv, ClaimInv
  <1> QED BY <1>1, Invariance, PTL

(* No record is in two leaves or where find_insert does not lead, but for  *)
(* the right half of a split under way.                                    *)
THEOREM RecordsRouted == Spec => []RecordsAreRouted
  <1>1. IInv => RecordsAreRouted
    BY DEF IInv
  <1> QED BY <1>1, Invariance, PTL

(* The leaf found under function_lock stays the right one.                 *)
THEOREM RouteValid == Spec => []RouteStaysValid
  <1>1. IInv => RouteStaysValid
    BY DEF IInv, RouteInv
  <1> QED BY <1>1, Invariance, PTL

(* No leaf gets more records than it has slots.                            *)
THEOREM CapacityRespected == Spec => []LeafCapacity
  <1>1. IInv => LeafCapacity
    BY DEF IInv, NewKeyInv
  <1> QED BY <1>1, Invariance, PTL

(* No log entry has the address of a stack buffer for its leaf.            *)
THEOREM LogsNamePLeaves == Spec => []LogNamesPLeaf
  <1>1. IInv => LogNamesPLeaf
    BY DEF IInv, LogInv
  <1> QED BY <1>1, Invariance, PTL

(* No key is logged twice, so that recovery does not abort.                *)
THEOREM KeysLoggedOnce == Spec => []LoggedOnce
  <1>1. IInv => LoggedOnce
    BY DEF IInv, LogInv
  <1> QED BY <1>1, Invariance, PTL

(* Every record a thread can read is persisted.                            *)
THEOREM StoredLogged == Spec => []StoredIsLogged
  <1>1. IInv => StoredIsLogged
    BY DEF IInv, LogInv, StoredIsLogged, Logged, Stored
  <1> QED BY <1>1, Invariance, PTL

(* A leaf marked as being split has a live buffer with all its records.    *)
THEOREM SplitsHaveBuffers == Spec => []SplitHasBuffer
  <1>1. IInv => SplitHasBuffer
    <2> SUFFICES ASSUME IInv, NEW l \in Leaf, temp_insert[l] = 2
                 PROVE  \E t \in Thread :
                           /\ alt_ptr[l] = t /\ leaf[t] = l /\ pc[t] \in BufferLive
                           /\ content[l] \subseteq dram_buffer[t]
                           /\ pc[t] \in HalfSplit =>
                                content[other[t]] \subseteq dram_buffer[t]
      BY DEF SplitHasBuffer
    <2>1. PICK t \in Thread : pc[t] \in Marked /\ leaf[t] = l
      BY DEF IInv, ClaimInv
    <2>2. pc[t] \in BufferLive /\ alt_ptr[l] = t
      BY <2>1 DEF IInv, AltInv, BufferLive
    <2>3. CASE pc[t] = "split_leaf"
      BY <2>1, <2>2, <2>3 DEF IInv, AltInv, HalfSplit
    <2>4. CASE pc[t] \in HalfSplit
      BY <2>1, <2>2, <2>4 DEF IInv, SplitInv
    <2>5. CASE pc[t] = "unmark"
      BY <2>1, <2>2, <2>5 DEF IInv, SplitInv, HalfSplit
    <2> QED BY <2>1, <2>3, <2>4, <2>5 DEF Marked
  <1> QED BY <1>1, Invariance, PTL

----------------------------------------------------------------------------
(* ConcurrentTree implements KVSet.                                        *)

(* An empty tree is the empty set.                                         *)
LEMMA InitRefines == Init => KV!Init
  BY DEF Init, EmptyTree, KV!Init, Stored, NoOp, KV!NoOp

(* A new record appears where there was none.                              *)
LEMMA PublishInserts ==
  ASSUME IInv, NEW t \in Thread, PublishSlot(t)
  PROVE  KV!Insert(t)
  <1>1. op[t].kind = "insert" /\ leaf[t] \in Leaf
    BY DEF PublishSlot, IInv, LocalsInv, InsertPC, InsertOwns
  <1>2. ret[t] = "none"
    BY DEF PublishSlot, IInv, AnswerInv
  <1>3. op[t].key \notin content[leaf[t]]
    BY DEF PublishSlot, IInv, NewKeyInv
  <1>4. op[t].key \in Key /\ op[t].key \notin Stored
    BY <1>3, NewKeyIsNew DEF PublishSlot, IInv
  <1>5. Stored' = Stored \cup {op[t].key}
    BY <1>1, <1>4 DEF PublishSlot, Stored, IInv, TypeOK, LeafType
  <1> QED BY <1>1, <1>2, <1>4, <1>5 DEF PublishSlot, KV!Insert

(* An insert is refused only when its record is stored.                    *)
LEMMA DuplicateRejects ==
  ASSUME IInv, NEW t \in Thread, FindDuplicate(t)
  PROVE  KV!Reject(t)
  <1>1. op[t] \in Op /\ op[t].kind = "insert" /\ leaf[t] \in Leaf
    BY DEF FindDuplicate, IInv, LocalsInv, InsertPC, InsertOwns
  <1>2. ret[t] = "none"
    BY DEF FindDuplicate, IInv, AnswerInv
  <1>3. op[t].key \in Stored
    BY <1>1, OpParts DEF FindDuplicate, Stored
  <1>4. Stored' = Stored
    BY StoredFrame DEF FindDuplicate, leafVars
  <1> QED BY <1>1, <1>2, <1>3, <1>4 DEF FindDuplicate, Return, KV!Reject, NoOp, KV!NoOp

(* The steps a caller does not see.                                        *)
LEMMA InternalStutters ==
  ASSUME IInv, NEW t \in Thread,
         \/ AcquireRead(t) \/ FindInsert(t) \/ TryClaim(t) \/ ReleaseRead(t)
         \/ CheckRoom(t) \/ AppendOne(t) \/ FillBuffer(t) \/ MarkSplit(t)
         \/ SplitLeaf(t) \/ CheckRoot(t) \/ AnnounceWrite(t) \/ AcquireWrite(t)
         \/ NewRoot(t) \/ SplitInner(t) \/ Unmark(t) \/ RestoreAlt(t)
         \/ ReleaseWrite(t) \/ ScanRelease(t) \/ ScanClaim(t) \/ ScanRead(t)
         \/ FastSibling(t) \/ FastAlt(t)
  PROVE  UNCHANGED <<Stored, op, ret>>
  <1>1. UNCHANGED <<op, ret>>
    BY DEF AcquireRead, FindInsert, TryClaim, ReleaseRead, CheckRoom, AppendOne,
       FillBuffer, MarkSplit, SplitLeaf, CheckRoot, AnnounceWrite, AcquireWrite,
       NewRoot, SplitInner, Unmark, RestoreAlt, ReleaseWrite, ScanRelease,
       ScanClaim, ScanRead, FastSibling, FastAlt, callVars
  <1>2. CASE SplitLeaf(t)
    BY <1>1, <1>2, SplitLeafKeepsStored DEF IInv
  <1>3. CASE ~SplitLeaf(t)
    BY <1>1, <1>3, StoredFrame
    DEF AcquireRead, FindInsert, TryClaim, ReleaseRead, CheckRoom, AppendOne,
       FillBuffer, MarkSplit, CheckRoot, AnnounceWrite, AcquireWrite,
       NewRoot, SplitInner, Unmark, RestoreAlt, ReleaseWrite, ScanRelease,
       ScanClaim, ScanRead, FastSibling, FastAlt, leafVars
  <1> QED BY <1>2, <1>3

(* A step of a scan changes nothing a caller sees, or is its return.       *)
LEMMA ScanReturns ==
  ASSUME IInv, NEW t \in Thread,
         ScanTest(t) \/ ScanUnlock(t) \/ ScanNext(t) \/ FastRead(t)
  PROVE  KV!Return(t) \/ UNCHANGED <<Stored, op, ret>>
  <1>1. op[t].kind = "scan"
    BY DEF ScanTest, ScanUnlock, ScanNext, FastRead, IInv, LocalsInv, ScanPC, ScanOwns
  <1>2. Stored' = Stored
    BY StoredFrame DEF ScanTest, ScanUnlock, ScanNext, FastRead, leafVars
  <1>3. Return(t, "true") \/ UNCHANGED <<op, ret>>
    BY DEF ScanTest, ScanUnlock, ScanNext, FastRead, callVars
  <1> QED BY <1>1, <1>2, <1>3 DEF Return, KV!Return, NoOp, KV!NoOp

(* Every step is a step of KVSet or changes nothing it speaks of.          *)
LEMMA NextRefines == IInv /\ [Next]_vars => [KV!Next]_KV!vars
  <1>1. ASSUME IInv, NEW t \in Thread, Step(t) PROVE [KV!Next]_KV!vars
    <2>1. CASE Invoke(t)
      <3>1. PICK o \in todo[t] : op' = [op EXCEPT ![t] = o]
        BY <2>1 DEF Invoke
      <3>2. op[t] = NoOp /\ o \in Op /\ op'[t] = o
        BY <1>1, <2>1, <3>1 DEF Invoke, IInv, LocalsInv, TypeOK, CallType
      <3>3. Stored' = Stored
        BY <2>1, StoredFrame DEF Invoke, leafVars
      <3>4. KV!Invoke(t)
        BY <2>1, <3>1, <3>2, <3>3 DEF Invoke, KV!Invoke, Op, NoOp, KV!NoOp
      <3> QED BY <3>4 DEF KV!Next
    <2>2. CASE PublishSlot(t)
      BY <1>1, <2>2, PublishInserts DEF KV!Next
    <2>3. CASE FindDuplicate(t)
      BY <1>1, <2>3, DuplicateRejects DEF KV!Next
    <2>4. CASE UnlockLeaf(t)
      <3>1. op[t].kind = "insert" /\ ret[t] = "true"
        BY <1>1, <2>4 DEF UnlockLeaf, IInv, LocalsInv, AnswerInv, InsertPC, InsertOwns
      <3>2. Stored' = Stored
        BY <2>4, StoredFrame DEF UnlockLeaf
      <3>3. ret' = ret /\ op' = [op EXCEPT ![t] = NoOp]
        BY <1>1, <2>4, <3>1 DEF UnlockLeaf, Return, IInv, TypeOK, CallType
      <3> QED BY <3>1, <3>2, <3>3 DEF KV!Return, KV!Next, NoOp, KV!NoOp
    <2>5. CASE ScanTest(t) \/ ScanUnlock(t) \/ ScanNext(t) \/ FastRead(t)
      BY <1>1, <2>5, ScanReturns DEF KV!Next, KV!vars
    <2>6. ASSUME ~Invoke(t), ~PublishSlot(t), ~FindDuplicate(t), ~UnlockLeaf(t),
                 ~(ScanTest(t) \/ ScanUnlock(t) \/ ScanNext(t) \/ FastRead(t))
          PROVE  UNCHANGED KV!vars
      BY <1>1, <2>6, InternalStutters DEF Step, InsertStep, ScanStep, KV!vars
    <2> QED BY <2>1, <2>2, <2>3, <2>4, <2>5, <2>6
  <1>2. ASSUME UNCHANGED vars PROVE UNCHANGED KV!vars
    BY <1>2, StoredFrame DEF vars, leafVars, callVars, KV!vars
  <1> QED BY <1>1, <1>2 DEF Next, Done

(* Insert and scan behave as operations on a set of keys that take effect  *)
(* at one instant between their call and their return.                     *)
THEOREM Refinement == Spec => ImplementsKVSet
  <1> QED BY InitRefines, NextRefines, Invariance, PTL DEF Spec, ImplementsKVSet, KV!Spec
===============================================================================
