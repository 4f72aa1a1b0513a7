-------------------------- MODULE CrashRebuildProofs --------------------------
(***************************************************************************)
(* A rebuild loses no insert that returned, and aborts only when entries   *)
(* half written by a crash bring the key 0 twice, whatever the threads,    *)
(* keys and leaves are and wherever crashes fall.                          *)
(*                                                                         *)
(* What a step of the tree does to the stored keys and to the calls is     *)
(* what KVSet says it does (StepEffect).  So during a load an answer of    *)
(* true speaks of a stored key (LoadStepInv), which IInv says is logged;   *)
(* a crash makes one unread call of each log entry (RestartInv); and a     *)
(* step of a rebuild takes it from one place to the next (RebuildWork).    *)
(***************************************************************************)
EXTENDS CrashRebuild, ConcurrentTreeProofs

(* The four ways in which a step changes calls and stored keys.            *)
Called(t) ==
    /\ op[t] = NoOp
    /\ \E o \in todo[t] : /\ todo' = [todo EXCEPT ![t] = @ \ {o}]
                          /\ op' = [op EXCEPT ![t] = o]
    /\ ret' = [ret EXCEPT ![t] = "none"]
    /\ Stored' = Stored

Published(t) ==
    /\ op[t] # NoOp /\ op[t].kind = "insert"
    /\ op[t].key \in Key \ Stored
    /\ Stored' = Stored \cup {op[t].key}
    /\ ret' = [ret EXCEPT ![t] = "true"]
    /\ UNCHANGED <<todo, op>>

Answered(t) ==
    /\ op[t] # NoOp
    /\ op[t].kind = "insert" => ret[t] = "true" \/ MeetsDuplicate(t)
    /\ op' = [op EXCEPT ![t] = NoOp]
    /\ \A u \in Thread \ {t} : ret'[u] = ret[u]
    /\ UNCHANGED <<Stored, todo>>

Hidden == UNCHANGED <<Stored, todo, op, ret>>

(* A thread that is inside of a call has one.                              *)
LEMMA BusyHasCall ==
  ASSUME IInv, NEW t \in Thread
  PROVE  pc[t] = "idle" <=> op[t] = NoOp
  BY DEF IInv, LocalsInv, Op, NoOp

(* No step does anything else.                                             *)
LEMMA StepEffect ==
  ASSUME IInv, NEW t \in Thread, Step(t)
  PROVE  Called(t) \/ Published(t) \/ Answered(t) \/ Hidden
  <1>1. CASE Invoke(t)
    <2>1. Stored' = Stored
      BY <1>1, StoredFrame DEF Invoke, leafVars
    <2> QED BY <1>1, <2>1, BusyHasCall DEF Invoke, Called
  <1>2. CASE PublishSlot(t)
    <2>1. KV!Insert(t)
      BY <1>2, PublishInserts
    <2>2. op[t] # NoOp /\ op[t].key \in Key
      BY <1>2, OpParts DEF PublishSlot, IInv, LocalsInv, NoOp, Op
    <2> QED BY <1>2, <2>1, <2>2 DEF KV!Insert, PublishSlot, Published
  <1>3. CASE FindDuplicate(t)
    <2>1. KV!Reject(t)
      BY <1>3, DuplicateRejects
    <2>2. op[t] # NoOp /\ MeetsDuplicate(t)
      BY <1>3, BusyHasCall DEF FindDuplicate, MeetsDuplicate
    <2>3. UNCHANGED todo
      BY <1>3 DEF FindDuplicate, Return
    <2>4. \A u \in Thread \ {t} : ret'[u] = ret[u]
      BY <2>1 DEF KV!Reject, IInv, TypeOK, CallType
    <2> QED BY <2>1, <2>2, <2>3, <2>4 DEF KV!Reject, Answered, NoOp, KV!NoOp
  <1>4. CASE UnlockLeaf(t)
    <2>1. op[t] # NoOp /\ ret[t] = "true"
      BY <1>4, BusyHasCall DEF UnlockLeaf, IInv, AnswerInv
    <2>2. Stored' = Stored
      BY <1>4, StoredFrame DEF UnlockLeaf
    <2> QED BY <1>4, <2>1, <2>2 DEF UnlockLeaf, Return, Answered, IInv, TypeOK, CallType
  <1>5. CASE ScanTest(t) \/ ScanUnlock(t) \/ ScanNext(t) \/ FastRead(t)
    <2>1. op[t] # NoOp /\ op[t].kind = "scan"
      BY <1>5, BusyHasCall
      DEF ScanTest, ScanUnlock, ScanNext, FastRead, IInv, LocalsInv, ScanPC, ScanOwns
    <2>2. Stored' = Stored
      BY <1>5, StoredFrame DEF ScanTest, ScanUnlock, ScanNext, FastRead, leafVars
    <2>3. Return(t, "true") \/ UNCHANGED <<todo, op, ret>>
      BY <1>5 DEF ScanTest, ScanUnlock, ScanNext, FastRead, callVars
    <2> QED BY <2>1, <2>2, <2>3 DEF Return, Answered, Hidden, IInv, TypeOK, CallType
  <1>6. ASSUME ~Invoke(t), ~PublishSlot(t), ~FindDuplicate(t), ~UnlockLeaf(t),
               ~(ScanTest(t) \/ ScanUnlock(t) \/ ScanNext(t) \/ FastRead(t))
        PROVE  Hidden
    <2>1. UNCHANGED <<Stored, op, ret>>
      BY <1>6, InternalStutters DEF Step, InsertStep, ScanStep
    <2>2. UNCHANGED todo
      BY <1>6 DEF Step, InsertStep, ScanStep, AcquireRead, FindInsert, TryClaim,
       ReleaseRead, CheckRoom, AppendOne, FillBuffer, MarkSplit, SplitLeaf, CheckRoot,
       AnnounceWrite, AcquireWrite, NewRoot, SplitInner, Unmark, RestoreAlt,
       ReleaseWrite, ScanRelease, ScanClaim, ScanRead, FastSibling, FastAlt, callVars
    <2> QED BY <2>1, <2>2 DEF Hidden
  <1> QED BY <1>1, <1>2, <1>3, <1>4, <1>5, <1>6

(* The keys that are stored are keys, and no key is lost.                  *)
LEMMA StoredGrows ==
  ASSUME IInv, NEW t \in Thread, Step(t)
  PROVE  Stored \subseteq Stored'
  BY StepEffect DEF Called, Published, Answered, Hidden

AnswersAreStored ==
    \A t \in Thread : op[t] # NoOp /\ op[t].kind = "insert" /\ ret[t] = "true"
                      => op[t].key \in Stored

(* An answer of true speaks of a stored key.                               *)
LEMMA AnsweredStep ==
  ASSUME IInv, AnswersAreStored, NEW t \in Thread, Step(t)
  PROVE  AnswersAreStored'
  <1> SUFFICES ASSUME NEW u \in Thread,
                      (op[u] # NoOp /\ op[u].kind = "insert" /\ ret[u] = "true")'
               PROVE  (op[u].key \in Stored)'
    BY DEF AnswersAreStored
  <1> USE DEF AnswersAreStored
  <1> op \in [Thread -> Op \cup {NoOp}] /\ ret \in [Thread -> {"none", "true", "false"}]
    BY DEF IInv, TypeOK, CallType
  <1>1. CASE Called(t)
    BY <1>1 DEF Called
  <1>2. CASE Published(t)
    BY <1>2 DEF Published
  <1>3. CASE Answered(t)
    BY <1>3 DEF Answered
  <1>4. CASE Hidden
    BY <1>4 DEF Hidden
  <1> QED BY <1>1, <1>2, <1>3, <1>4, StepEffect

(* A step of the load.                                                     *)
LEMMA LoadStepInv ==
  ASSUME IInv, AnswersAreStored, LoadInv, NEW t \in Thread, LoadStep(t)
  PROVE  LoadInv'
  <1> op \in [Thread -> Op \cup {NoOp}] /\ Step(t) /\ called \subseteq called'
    BY DEF IInv, TypeOK, CallType, LoadStep
  <1>1. promised' \subseteq Stored'
    <2>1. CASE pc[t] = "unlock"
      <3>1. op[t] # NoOp /\ op[t].kind = "insert" /\ ret[t] = "true"
        BY <2>1, BusyHasCall DEF IInv, LocalsInv, AnswerInv, InsertPC, InsertOwns
      <3>2. op[t].key \in Stored
        BY <3>1 DEF AnswersAreStored
      <3> QED BY <2>1, <3>2, StoredGrows DEF LoadStep, LoadInv
    <2>2. CASE pc[t] # "unlock"
      BY <2>2, StoredGrows DEF LoadStep, LoadInv
    <2> QED BY <2>1, <2>2
  <1>2. Stored' \subseteq called'
    BY StepEffect DEF Called, Published, Answered, Hidden, LoadInv
  <1>3. ASSUME NEW u \in Thread, op'[u] # NoOp PROVE op'[u].key \in called'
    <2>1. CASE Called(t) /\ u = t
      BY <2>1, BusyHasCall DEF Called, LoadStep
    <2>2. CASE Called(t) /\ u # t
      BY <1>3, <2>2 DEF Called, LoadInv
    <2>3. CASE Published(t) \/ Hidden
      BY <1>3, <2>3 DEF Published, Hidden, LoadInv
    <2>4. CASE Answered(t)
      BY <1>3, <2>4 DEF Answered, LoadInv
    <2> QED BY <2>1, <2>2, <2>3, <2>4, StepEffect
  <1> QED BY <1>1, <1>2, <1>3 DEF LoadInv

(* The logs of a load have what was promised and nothing else.             *)
LEMMA LogsOfALoad ==
  ASSUME IInv, LoadInv
  PROVE  promised \subseteq Keys(log) /\ Keys(log) \subseteq called
  <1>1. \A k \in Key : k \in Keys(log) <=> Logged(k)
    BY DEF Keys, Logged
  <1>2. promised \subseteq Keys(log)
    BY <1>1 DEF IInv, LogInv, LoadInv, Stored
  <1>3. ASSUME NEW k \in Keys(log) PROVE k \in called
    <2>1. k \in Key /\ Logged(k)
      BY <1>1, <1>3 DEF Keys
    <2>2. CASE k \in Stored
      BY <2>2 DEF LoadInv
    <2>3. ASSUME NEW t \in Thread, pc[t] = "publish", op[t].key = k PROVE k \in called
      BY <2>3, BusyHasCall DEF LoadInv
    <2> QED BY <2>1, <2>2, <2>3 DEF IInv, LogInv
  <1> QED BY <1>2, <1>3

(* The calls of a rebuild.                                                 *)
LEMMA InsertIsOp ==
  /\ \A k \in Key : Insert(k) \in Op /\ Insert(k) # NoOp /\ Insert(k).key = k
                    /\ Insert(k).kind = "insert" /\ Insert(k) # InsertTorn
  /\ InsertTorn \in Op /\ InsertTorn # NoOp /\ InsertTorn.key = 0
     /\ InsertTorn.kind = "insert"
  BY BlankKeyIsAKey DEF Insert, InsertTorn, Op, NoOp

LEMMA AskedAreInserts ==
  ASSUME NEW o \in Asked
  PROVE  o \in Op /\ o # NoOp /\ o.kind = "insert" /\ o.key \in Key
  BY InsertIsOp, BlankKeyIsAKey DEF Asked, Keys

(* Two entries never bring the same key, unless it is 0.                   *)
LEMMA AskedOnce ==
  ASSUME NEW o \in Asked, NEW p \in Asked, o.key = p.key, o.key # 0 \/ ~Clash
  PROVE  o = p
  <1>1. CASE o \in {Insert(k) : k \in Keys(durable)} /\ p \in {Insert(k) : k \in Keys(durable)}
    <2>1. PICK j \in Keys(durable) : o = Insert(j)
      BY <1>1
    <2>2. PICK k \in Keys(durable) : p = Insert(k)
      BY <1>1
    <2>3. o.key = j /\ p.key = k
      BY <2>1, <2>2, InsertIsOp DEF Keys
    <2> QED BY <2>1, <2>2, <2>3
  <1>2. CASE o = InsertTorn /\ p = InsertTorn
    BY <1>2
  <1>3. ASSUME NEW q \in {Insert(k) : k \in Keys(durable)}, torn # {}, q.key = 0 PROVE Clash
    BY <1>3, InsertIsOp DEF Clash, Keys
  <1> QED BY <1>1, <1>2, <1>3, InsertIsOp DEF Asked

(* The entries of a sequence.                                              *)
LEMMA EntryType ==
  ASSUME NEW S, NEW s \in Seq(S), NEW i \in DOMAIN s
  PROVE  s[i] \in S
  OBVIOUS

HasCalls == todo \in [Thread -> SUBSET Op]

LEMMA EmptyTreeWithCalls == EmptyTree /\ HasCalls => IInv
  BY EmptyTreeInv DEF HasCalls

(* A restart makes one unread call of each log entry.                      *)
LEMMA RestartInv ==
  ASSUME DurableInv', torn' \subseteq Thread, Restart(durable', torn')
  PROVE  IInv' /\ AnswersAreStored' /\ RebuildInv'
  <1> USE EachLogIsRead
  <1>1. ASSUME NEW t \in Thread
        PROVE  todo'[t] = {Insert(durable'[ReadBy[t]][i].key) :
                              i \in DOMAIN durable'[ReadBy[t]]}
                          \cup {o \in {InsertTorn} : ReadBy[t] \in torn'}
    BY DEF Restart
  <1>2. ASSUME NEW t \in Thread, NEW i \in DOMAIN durable'[t]
        PROVE  durable'[t][i].key \in Key
    <2>1. durable'[t] \in Seq([key : Key, pptr : Leaf \cup Thread])
      BY DEF DurableInv, KeysOnce
    <2>2. durable'[t][i] \in [key : Key, pptr : Leaf \cup Thread]
      BY ONLY <1>2, <2>1, EntryType
    <2> QED BY <2>2
  <1>3. ASSUME NEW t \in Thread, NEW o \in todo'[t]
        PROVE  \/ \E i \in DOMAIN durable'[ReadBy[t]] :
                     /\ o = Insert(durable'[ReadBy[t]][i].key)
                     /\ durable'[ReadBy[t]][i].key \in Keys(durable')
               \/ o = InsertTorn /\ ReadBy[t] \in torn'
    BY <1>1, <1>2 DEF Keys
  <1>4. ASSUME NEW t \in Thread PROVE todo'[t] \subseteq Asked'
    BY <1>3 DEF Asked
  <1>5. HasCalls'
    <2>1. \A t \in Thread : todo'[t] \subseteq Op
      BY <1>3, InsertIsOp DEF Keys
    <2>2. todo' = [t \in Thread |-> todo'[t]]
      BY DEF Restart
    <2>3. todo' \in [Thread -> SUBSET Op]
      BY <2>1, <2>2
    <2> QED BY <2>3 DEF HasCalls
  <1>6. EmptyTree'
    BY DEF Restart, EmptyTree
  <1>7. IInv'
    BY <1>5, <1>6, EmptyTreeWithCalls, PTL
  <1>8. Stored' = {} /\ \A t \in Thread : op'[t] = NoOp
    BY DEF Restart, Stored
  <1>9. AnswersAreStored'
    BY <1>8 DEF AnswersAreStored
  <1>10. ASSUME NEW k \in Keys(durable') PROVE \E t \in Thread : Insert(k) \in todo'[t]
    <2>1. PICK u \in Thread : \E i \in DOMAIN durable'[u] : durable'[u][i].key = k
      BY <1>10 DEF Keys
    <2>2. PICK t \in Thread : ReadBy[t] = u
      OBVIOUS
    <2> QED BY <1>1, <2>1, <2>2
  <1>11. ASSUME torn' # {} PROVE \E t \in Thread : InsertTorn \in todo'[t]
    BY <1>1, <1>11
  <1>12. ASSUME NEW k \in Key, NEW t \in Thread, NEW u \in Thread,
                Insert(k) \in todo'[t], Insert(k) \in todo'[u]
         PROVE  t = u
    <2>1. PICK v \in Thread : /\ v = ReadBy[t]
                              /\ \E i \in DOMAIN durable'[v] : durable'[v][i].key = k
      BY <1>2, <1>3, <1>12, InsertIsOp
    <2>2. PICK w \in Thread : /\ w = ReadBy[u]
                              /\ \E j \in DOMAIN durable'[w] : durable'[w][j].key = k
      BY <1>2, <1>3, <1>12, InsertIsOp
    <2>3. v = w
      BY ONLY DurableInv', v \in Thread, w \in Thread, <2>1, <2>2 DEF DurableInv, KeysOnce
    <2> QED BY <2>1, <2>2, <2>3
  <1>13. ASSUME NEW t \in Thread, NEW u \in Thread, ~Clash',
                InsertTorn \in todo'[t], InsertTorn \in todo'[u]
         PROVE  t = u
    <2>1. ReadBy[t] \in torn' /\ ReadBy[u] \in torn'
      BY <1>2, <1>3, <1>13, InsertIsOp
    <2> QED BY <1>13, <2>1 DEF Clash
  <1>14. ASSUME NEW o \in Asked' PROVE Unread(o)'
    BY <1>10, <1>11, <1>14 DEF Asked, Unread
  <1>15. ASSUME NEW o \in Asked', o.key # 0 \/ ~Clash' PROVE InOnePlace(o)'
    <2>1. \A t \in Thread : o # op'[t]
      BY <1>8, <1>15, InsertIsOp DEF Asked, Keys
    <2>2. \A t, u \in Thread : o \in todo'[t] /\ o \in todo'[u] => t = u
      BY <1>12, <1>13, <1>15, InsertIsOp DEF Asked, Keys
    <2> QED BY <1>8, <2>1, <2>2 DEF InOnePlace, Working, Unread
  <1>16. RebuildInv'
    BY <1>4, <1>8, <1>14, <1>15 DEF RebuildInv
  <1> QED BY <1>7, <1>9, <1>16

(* Each entry of the logs is in one place before and after a step.         *)
LEMMA RebuildWork ==
  ASSUME IInv, AnswersAreStored, RebuildInv, NEW t \in Thread, RebuildStep(t)
  PROVE  RebuildInv'
  <1>1. Asked' = Asked /\ Clash' = Clash
    BY DEF Asked, Clash, RebuildStep, crashVars, Keys
  <1>2. Step(t) /\ ~MeetsDuplicate(t)
    BY DEF RebuildStep
  <1>3. /\ op \in [Thread -> Op \cup {NoOp}] /\ todo \in [Thread -> SUBSET Op]
        /\ ret \in [Thread -> {"none", "true", "false"}]
    BY DEF IInv, TypeOK, CallType
  <1>4. \A o \in Asked : o # NoOp /\ o.kind = "insert"
    BY AskedAreInserts
  <1>5. \A o, p \in Asked : o.key = p.key /\ (o.key # 0 \/ ~Clash) => o = p
    BY AskedOnce
  <1> USE <1>1, <1>3, <1>4, <1>5 DEF RebuildInv, InOnePlace, Working, Unread
  <1>6. CASE Called(t)
    <2>1. PICK p \in Asked : /\ p \in todo[t]
                             /\ todo' = [todo EXCEPT ![t] = @ \ {p}]
                             /\ op' = [op EXCEPT ![t] = p]
      BY <1>6 DEF Called
    <2>2. Stored' = Stored /\ op[t] = NoOp /\ ret' = [ret EXCEPT ![t] = "none"]
      BY <1>6 DEF Called
    <2> QED BY <2>1, <2>2
  <1>7. CASE Published(t)
    <2>1. PICK p \in Asked : op[t] = p
      BY <1>7 DEF Published
    <2> QED BY <1>7, <2>1 DEF Published
  <1>8. CASE Answered(t)
    <2>1. PICK p \in Asked : op[t] = p
      BY <1>8 DEF Answered
    <2>2. p.key \in Stored
      BY <1>2, <1>8, <2>1 DEF Answered, AnswersAreStored
    <2> QED BY <1>8, <2>1, <2>2 DEF Answered
  <1>9. CASE Hidden
    BY <1>9 DEF Hidden
  <1> QED BY <1>2, <1>6, <1>7, <1>8, <1>9, StepEffect

(* A key that is found in a leaf has been inserted, so its call is over.   *)
LEMMA DuplicateIsClash ==
  ASSUME IInv, RebuildInv, NEW t \in Thread, MeetsDuplicate(t)
  PROVE  Clash
  <1>1. op[t] # NoOp /\ leaf[t] \in Leaf /\ ret[t] = "none"
    BY BusyHasCall
    DEF MeetsDuplicate, IInv, LocalsInv, AnswerInv, InsertPC, InsertOwns
  <1>2. op[t] \in Asked /\ op[t].key \in Key
    BY <1>1, AskedAreInserts DEF RebuildInv
  <1>3. op[t].key \in Stored
    BY <1>1, <1>2 DEF MeetsDuplicate, Stored
  <1> QED BY <1>1, <1>2, <1>3 DEF RebuildInv, InOnePlace, Working

(* The memory of the new process.                                          *)
LEMMA CrashStep ==
  ASSUME CrashInv, Crash
  PROVE  CrashInv'
  <1>1. DurableInv' /\ torn' \subseteq Thread
    <2>1. CASE phase = "load"
      <3>1. LogType /\ LoggedOnce /\ LoadInv
        BY <2>1 DEF CrashInv, IInv, TypeOK, LogInv
      <3>2. promised \subseteq Keys(log) /\ Keys(log) \subseteq called
        BY <3>1, LogsOfALoad DEF CrashInv
      <3>3. /\ durable' = log /\ promised' = promised /\ called' = called
            /\ torn' \subseteq Thread
        BY <2>1 DEF Crash
      <3>4. KeysOnce(log)
        BY <3>1 DEF KeysOnce, LogType, LoggedOnce
      <3>5. KeysOnce(durable)'
        BY <3>3, <3>4
      <3>6. promised' \subseteq Keys(durable)' /\ Keys(durable)' \subseteq called'
        BY <3>2, <3>3 DEF Keys
      <3> QED BY <3>3, <3>5, <3>6 DEF DurableInv
    <2>2. CASE phase = "rebuild"
      <3>1. /\ durable' = durable /\ promised' = promised /\ called' = called
            /\ torn' = torn /\ torn \subseteq Thread /\ DurableInv
        BY <2>2 DEF Crash, CrashInv, DurableInv
      <3>4. KeysOnce(durable)
        BY <3>1 DEF DurableInv
      <3>2. KeysOnce(durable)'
        BY <3>1, <3>4
      <3>3. promised' \subseteq Keys(durable)' /\ Keys(durable)' \subseteq called'
        BY <3>1 DEF Keys, DurableInv
      <3> QED BY <3>1, <3>2, <3>3 DEF DurableInv
    <2> QED BY <2>1, <2>2 DEF Crash
  <1>2. IInv' /\ AnswersAreStored' /\ RebuildInv'
    BY <1>1, RestartInv DEF Crash
  <1> QED BY <1>1, <1>2 DEF Crash, CrashInv, AnswersAreStored

LEMMA CrashInitInv == CrashInit => CrashInv
  <1> SUFFICES ASSUME CrashInit PROVE CrashInv
    OBVIOUS
  <1>1. IInv
    BY InitInv DEF CrashInit
  <1>2. Stored = {} /\ \A t \in Thread : op[t] = NoOp
    BY DEF CrashInit, Init, EmptyTree, Stored
  <1> QED BY <1>1, <1>2 DEF CrashInit, CrashInv, LoadInv

(* The part of the invariant that speaks of the logs, in all its variables. *)
LEMMA CrashFrame ==
  ASSUME UNCHANGED <<vars, durable, torn, promised, called>>
  PROVE  /\ AnswersAreStored => AnswersAreStored'
         /\ LoadInv => LoadInv'
         /\ DurableInv => DurableInv'
         /\ RebuildInv => RebuildInv'
         /\ Clash => Clash'
  <1>1. UNCHANGED <<Stored, todo, op, ret>>
    BY StoredFrame DEF vars, leafVars, callVars
  <1>2. Asked' = Asked /\ Clash' = Clash
    BY DEF Asked, Clash, Keys
  <1>3. DurableInv => DurableInv'
    BY DEF DurableInv
  <1> QED BY <1>1, <1>2, <1>3
      DEF AnswersAreStored, LoadInv, RebuildInv, InOnePlace, Unread, Working

(* Whatever happens preserves the invariant.                               *)
LEMMA CrashNextInv == CrashInv /\ [CrashNext]_allVars => CrashInv'
  <1> SUFFICES ASSUME CrashInv, [CrashNext]_allVars PROVE CrashInv'
    OBVIOUS
  <1>1. IInv /\ AnswersAreStored
    BY DEF CrashInv, AnswersAreStored
  <1>2. CASE Crash
    BY <1>2, CrashStep
  <1>3. ASSUME NEW t \in Thread, LoadStep(t) PROVE CrashInv'
    <2>1. phase = "load" /\ phase' = "load" /\ LoadInv /\ Step(t)
      BY <1>3 DEF LoadStep, CrashInv
    <2>2. IInv'
      BY <1>1, <2>1, NextInv DEF Next
    <2>3. AnswersAreStored' /\ LoadInv'
      BY <1>1, <1>3, <2>1, AnsweredStep, LoadStepInv
    <2> QED BY <2>1, <2>2, <2>3 DEF CrashInv, AnswersAreStored
  <1>4. ASSUME NEW t \in Thread, RebuildStep(t) PROVE CrashInv'
    <2>1. /\ phase = "rebuild" /\ DurableInv /\ RebuildInv /\ Step(t)
          /\ UNCHANGED crashVars
      BY <1>4 DEF RebuildStep, CrashInv
    <2>2. IInv'
      BY <1>1, <2>1, NextInv DEF Next
    <2>3. AnswersAreStored' /\ RebuildInv'
      BY <1>1, <1>4, <2>1, AnsweredStep, RebuildWork
    <2>4. DurableInv' /\ phase' = "rebuild"
      BY <2>1 DEF DurableInv, crashVars
    <2> QED BY <2>2, <2>3, <2>4 DEF CrashInv, AnswersAreStored
  <1>5. ASSUME NEW t \in Thread, Abort(t) PROVE CrashInv'
    <2>1. DurableInv /\ RebuildInv /\ MeetsDuplicate(t) /\ phase' = "aborted"
      BY <1>5 DEF Abort, CrashInv
    <2>2. Clash
      BY <1>1, <2>1, DuplicateIsClash
    <2>3. UNCHANGED vars /\ UNCHANGED <<vars, durable, torn, promised, called>>
      BY <1>5 DEF Abort
    <2>4. IInv'
      BY <1>1, <2>3, NextInv
    <2> QED BY <1>1, <2>1, <2>2, <2>3, <2>4, CrashFrame DEF CrashInv, AnswersAreStored
  <1>6. CASE UNCHANGED allVars
    <2>1. /\ UNCHANGED vars /\ phase' = phase
          /\ UNCHANGED <<vars, durable, torn, promised, called>>
      BY <1>6 DEF allVars, crashVars
    <2>2. IInv'
      BY <1>1, <2>1, NextInv
    <2> QED BY <1>1, <2>1, <2>2, CrashFrame DEF CrashInv, AnswersAreStored
  <1> QED BY <1>2, <1>3, <1>4, <1>5, <1>6 DEF CrashNext, Finished

(* The invariant holds however often and wherever the machine stops.       *)
THEOREM CrashInvariance == CrashSpec => []CrashInv
  BY CrashInitInv, CrashNextInv, PTL DEF CrashSpec

(* quick_insert meets a key twice only when crashes have torn two entries, *)
(* or one and a caller uses the key 0.                                     *)
THEOREM AbortsOnlyOnClash == CrashSpec => []OnlyClashAborts
  <1>1. CrashInv => OnlyClashAborts
    BY DEF CrashInv, OnlyClashAborts
  <1> QED BY <1>1, CrashInvariance, PTL

(* An insert that answered true is in the logs a crash leaves.             *)
THEOREM PromisesDurable == CrashSpec => []PromisesAreDurable
  <1>1. CrashInv => PromisesAreDurable
    BY LogsOfALoad DEF CrashInv, DurableInv, PromisesAreDurable
  <1> QED BY <1>1, CrashInvariance, PTL

(* recover gives every promised record a slot, where the inner nodes lead, *)
(* and none to anything that nobody inserted but the key 0 of a torn       *)
(* entry.  It does not say that a find believes the slot.                  *)
THEOREM RebuildStores == CrashSpec => []RebuildStoresAll
  <1>1. CrashInv => RebuildStoresAll
    <2> SUFFICES ASSUME CrashInv, Rebuilt
                 PROVE  /\ promised \subseteq Stored
                        /\ \A k \in Stored \ called : k = 0 /\ torn # {}
      BY DEF RebuildStoresAll
    <2>1. IInv /\ DurableInv /\ RebuildInv
      BY DEF CrashInv, Rebuilt
    <2>2. ASSUME NEW o \in Asked PROVE o.key \in Stored
      <3>1. ~Unread(o)
        BY DEF Rebuilt, Unread
      <3>2. \A t \in Thread : ~Working(t, o)
        BY <2>1, BusyHasCall, AskedAreInserts DEF Rebuilt, Working
      <3> QED BY <2>1, <3>1, <3>2 DEF RebuildInv
    <2>3. ASSUME NEW k \in Keys(durable) PROVE k \in Stored
      <3>1. Insert(k) \in Asked /\ Insert(k).key = k
        BY InsertIsOp DEF Asked, Keys
      <3> QED BY <2>2, <3>1
    <2>4. ASSUME NEW k \in Stored, k \notin called PROVE k = 0 /\ torn # {}
      <3>1. PICK o \in Asked : k = o.key
        BY <2>1 DEF RebuildInv
      <3>2. k \notin Keys(durable)
        BY <2>1, <2>4 DEF DurableInv
      <3>3. o \notin {Insert(j) : j \in Keys(durable)}
        BY <3>1, <3>2, InsertIsOp DEF Keys
      <3> QED BY <3>1, <3>3, InsertIsOp DEF Asked
    <2> QED BY <2>1, <2>3, <2>4 DEF DurableInv
  <1> QED BY <1>1, CrashInvariance, PTL
============================================================================
