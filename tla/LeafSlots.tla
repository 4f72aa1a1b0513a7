------------------------------ MODULE LeafSlots ------------------------------
(***************************************************************************)
(* The slots of a D_Leaf, and what the operations of Tree make of them     *)
(* when one thread calls them one after the other.                         *)
(*                                                                         *)
(* A slot is one 64-bit word: a finger (hash byte, access count, control   *)
(* field, pointer to the record in the log), or a raw word.  The first     *)
(* max_use slots are fingers.  A split leaves the upper half of the slots  *)
(* free, and caches records there: two raw words, key and value, with the  *)
(* control field of the record's finger telling where.  As the leaf fills  *)
(* up again the fingers overwrite the pairs, and the comparison of the     *)
(* control field with max_use tells whether a pair is still there.         *)
(*                                                                         *)
(* The inner nodes are the separators between consecutive leaves.  Values  *)
(* are numbered by the call that wrote them.                               *)
(***************************************************************************)
EXTENDS Integers, FiniteSetsExt, SequencesExt

CONSTANTS Key,           \* keys, positive
          Hash,          \* hashfunc: Key -> Nat
          MAX_LEAF_KEY,  \* slots of a leaf, 30 in the code
          Calls,         \* the operations that are called
          ScanCount,     \* records a scan asks for
          MaxCalls       \* bound on the number of calls

ASSUME KeyAssumption == Key \subseteq Nat \ {0}
ASSUME HashAssumption == Hash \in [Key -> Nat]
ASSUME CapacityAssumption == MAX_LEAF_KEY \in Nat \ {0} /\ MAX_LEAF_KEY % 2 = 0
ASSUME BoundAssumption == MaxCalls \in Nat

LEFT_KEY == MAX_LEAF_KEY \div 2
Pos == 0 .. MAX_LEAF_KEY - 1

\* raw words: keys, the values 1000 + n, and 0 for whatever is neither
Value(n) == 1000 + n
Word(w) == [ptr |-> 0, hash |-> 0, control |-> 0, access |-> 0, val |-> w]
Finger(p, h) == [ptr |-> p, hash |-> h, control |-> 0, access |-> 0, val |-> 0]
Junk == Word(0)
NullPointer == 0 - 1  \* what a find that dereferences nullptr "returns"

VARIABLES leaf,     \* leaf[i]: slots, max_use and temp_insert of the i-th leaf
          sep,      \* sep[i]: the separator between leaf i and leaf i + 1
          log,      \* the records in the log, where fingers point
          freed,    \* the allocator has been given the log chunk back
          pending,  \* the key of an insert that has split a leaf, or 0
          store,    \* store[k]: the value last written for k, 0 for none
          answer,   \* the last call, what it returned and should have returned
          calls

vars == <<leaf, sep, log, freed, pending, store, answer, calls>>

EmptyLeaf == [slot |-> [p \in Pos |-> Junk], max_use |-> 0, temp_insert |-> 0]

Init ==
    /\ leaf = <<EmptyLeaf>>
    /\ sep = << >>
    /\ log = << >>
    /\ freed = FALSE
    /\ pending = 0
    /\ store = [k \in Key |-> 0]
    /\ answer = [kind |-> "none", key |-> 0, got |-> 0, due |-> 0]
    /\ calls = 0

(* find_insert, and the descents of find and update.                       *)
Route(k) == 1 + Cardinality({i \in DOMAIN sep : sep[i] < k})
RootIsLeaf == Len(leaf) = 1

Live(l) == 0 .. l.max_use - 1
KeyAt(l, i) == log[l.slot[i].ptr].key
ValAt(l, i) == log[l.slot[i].ptr].val

Call(kind, k) ==
    /\ kind \in Calls
    /\ calls < MaxCalls
    /\ calls' = calls + 1
    /\ pending \in {0, k}
    /\ pending # 0 => kind = "insert"

Answer(kind, k, got, due) ==
    answer' = [kind |-> kind, key |-> k, got |-> got, due |-> due]

----------------------------------------------------------------------------
(* insert.                                                                 *)

\* Fault: a control field that is set is always believed.
HasDuplicateEver(l, k) ==
    \E i \in Live(l) :
       /\ l.slot[i].hash = Hash[k]
       /\ IF l.slot[i].control > 0
          THEN l.slot[l.slot[i].control].val = k
          ELSE KeyAt(l, i) = k

(* The search for a duplicate: a pair is believed if control > max_use.    *)
HasDuplicate(l, k) ==
    \E i \in Live(l) :
       /\ l.slot[i].hash = Hash[k]
       /\ IF l.slot[i].control > l.max_use
          THEN l.slot[l.slot[i].control].val = k
          ELSE KeyAt(l, i) = k

\* Fault: max_use <= MAX_LEAF_KEY.
HasRoomInclusive(l) == l.max_use <= MAX_LEAF_KEY
HasRoom(l) == l.max_use < MAX_LEAF_KEY

(* false is returned with temp_insert still 1.                             *)
InsertDuplicate(k) ==
    LET r == Route(k) IN
    /\ Call("insert", k)
    /\ leaf[r].temp_insert = 0
    /\ HasDuplicate(leaf[r], k)
    /\ leaf' = [leaf EXCEPT ![r].temp_insert = 1]
    /\ Answer("insert", k, FALSE, store[k] = 0)
    /\ pending' = 0
    /\ UNCHANGED <<sep, log, freed, store>>

(* append_one, then max_use++ and the new finger.                          *)
AppendRecord(k) ==
    LET r == Route(k) IN
    /\ log' = Append(log, [key |-> k, val |-> Value(calls')])
    /\ leaf' = [leaf EXCEPT ![r].slot[leaf[r].max_use] = Finger(Len(log'), Hash[k]),
                            ![r].max_use = @ + 1]
    /\ store' = [store EXCEPT ![k] = Value(calls')]
    /\ Answer("insert", k, TRUE, store[k] = 0)
    /\ pending' = 0
    /\ UNCHANGED <<sep, freed>>

InsertAppend(k) ==
    /\ Call("insert", k)
    /\ leaf[Route(k)].temp_insert = 0
    /\ ~HasDuplicate(leaf[Route(k)], k)
    /\ HasRoom(leaf[Route(k)])
    /\ AppendRecord(k)

(* split_leaf: the free half of a leaf takes Pairs records, first those    *)
(* found more than once, in key order; the n-th goes to MAX_LEAF_KEY - 2n. *)
Pairs == (MAX_LEAF_KEY - LEFT_KEY) \div 2

\* half[i]: finger, key and value of a record, sorted by key
Rank(half, i) ==
    LET often(j) == half[j].finger.access > 1
    IN 1 + Cardinality({j \in DOMAIN half :
              IF often(i) THEN often(j) /\ j < i
                          ELSE often(j) \/ j < i})

\* Fault: the key is taken to be behind the value.
ControlOfValue(half, i) ==
    IF Rank(half, i) <= Pairs THEN MAX_LEAF_KEY - 2 * Rank(half, i) + 1
                              ELSE half[i].finger.control

(* compact_pos when the record gets its pair; the others keep what they had. *)
ControlOf(half, i) ==
    IF Rank(half, i) <= Pairs THEN MAX_LEAF_KEY - 2 * Rank(half, i)
                              ELSE half[i].finger.control

HalfLeaf(half, old) ==
    LET Paired == {i \in DOMAIN half : Rank(half, i) <= Pairs}
        At(p) == CHOOSE i \in Paired : MAX_LEAF_KEY - 2 * Rank(half, i) = p - (p % 2)
        cached == MAX_LEAF_KEY - 2 * Cardinality(Paired) .. MAX_LEAF_KEY - 1
    IN
    [slot |-> [p \in Pos |->
        IF p < LEFT_KEY THEN [half[p].finger EXCEPT !.control = ControlOf(half, p)]
        ELSE IF p \in cached
             THEN Word(IF p % 2 = 0 THEN half[At(p)].key ELSE half[At(p)].val)
        ELSE old[p]],
     max_use |-> LEFT_KEY,
     temp_insert |-> 0]

(* The records of a full leaf in key order, with their control fields      *)
(* reset: dram_buffer and finger_buffer after the sort.                    *)
Position(l, i) ==
    Cardinality({j \in Pos : KeyAt(l, j) < KeyAt(l, i)
                             \/ (KeyAt(l, j) = KeyAt(l, i) /\ j < i)})

\* Fault: the control fields are not reset.
SortedRecordsAsTheyAre(l) ==
    [p \in Pos |->
       LET i == CHOOSE i \in Pos : Position(l, i) = p
       IN [finger |-> l.slot[i], key |-> KeyAt(l, i), val |-> ValAt(l, i)]]

SortedRecords(l) ==
    [p \in Pos |->
       LET i == CHOOSE i \in Pos : Position(l, i) = p
       IN [finger |-> [l.slot[i] EXCEPT !.control = 0],
           key |-> KeyAt(l, i), val |-> ValAt(l, i)]]

\* Fault: the first record of the right half.
SplitKeyRight(b) == b[LEFT_KEY].key
\* dram_buffer[SPLIT_POS].one_key
SplitKey(b) == b[LEFT_KEY - 1].key

(* The sorted records b of the leaf r go to it and to a new leaf, whose    *)
(* slots hold the word fresh before.                                       *)
SplitLeaf(r, b, fresh) ==
    LET left == [i \in 0 .. LEFT_KEY - 1 |-> b[i]]
        right == [i \in 0 .. LEFT_KEY - 1 |-> b[i + LEFT_KEY]]
    IN
    /\ leaf' = InsertAt([leaf EXCEPT ![r] = HalfLeaf(left, @.slot)], r + 1,
                        HalfLeaf(right, [p \in Pos |-> fresh]))
    /\ sep' = InsertAt(sep, r, SplitKey(b))

(* The leaf is full: it is split and the insert starts over.               *)
InsertSplit(k) ==
    LET r == Route(k) IN
    /\ "insert" \in Calls /\ calls < MaxCalls
    /\ pending \in {0, k}
    /\ leaf[r].temp_insert = 0
    /\ ~HasDuplicate(leaf[r], k)
    /\ ~HasRoom(leaf[r])
    /\ SplitLeaf(r, SortedRecords(leaf[r]), Junk)
    /\ pending' = k
    /\ UNCHANGED <<log, freed, store, answer, calls>>

----------------------------------------------------------------------------
(* find.                                                                   *)

\* Fault: a control field that is set is always believed.
CachedEver(l, i) == l.slot[i].control > 0
(* A pair is believed if control >= max_use; access_bit counts up to 3.    *)
Cached(l, i) == l.slot[i].control >= l.max_use

FindHit(l, i, k) ==
    /\ l.slot[i].hash = Hash[k]
    /\ IF Cached(l, i) THEN l.slot[l.slot[i].control].val = k ELSE KeyAt(l, i) = k

FirstHit(l, k) == Min({i \in Live(l) : FindHit(l, i, k)})

Find(k) ==
    LET r == Route(k)
        l == leaf[r]
        i == FirstHit(l, k)
    IN
    /\ Call("find", k)
    /\ ~RootIsLeaf
    /\ \/ /\ \E j \in Live(l) : FindHit(l, j, k)
          /\ leaf' = IF l.slot[i].access < 3
                     THEN [leaf EXCEPT ![r].slot[i].access = @ + 1] ELSE leaf
          /\ Answer("find", k, IF Cached(l, i) THEN l.slot[l.slot[i].control + 1].val
                                               ELSE ValAt(l, i), store[k])
       \/ /\ ~ \E j \in Live(l) : FindHit(l, j, k)
          /\ Answer("find", k, 0, store[k])
          /\ UNCHANGED leaf
    /\ UNCHANGED <<sep, log, freed, pending, store>>

(* When the root is a leaf all its slots are looked at, used or not: a     *)
(* finger nobody wrote has the hash byte 0 and a null pointer.             *)
FindInRoot(k) ==
    LET l == leaf[1]
        Same == {i \in Pos : l.slot[i].hash = Hash[k]}
        Hit == {i \in Same : l.slot[i].ptr # 0 /\ KeyAt(l, i) = k}
    IN
    /\ Call("find", k)
    /\ RootIsLeaf
    /\ \/ /\ \E i \in Same : l.slot[i].ptr = 0 /\ \A j \in Hit : i < j
          /\ Answer("find", k, NullPointer, store[k])
       \/ /\ \E i \in Hit : \A j \in Same : j < i => j \notin Hit /\ l.slot[j].ptr # 0
          /\ Answer("find", k, ValAt(l, Min(Hit)), store[k])
       \/ /\ \A i \in Same : l.slot[i].ptr # 0 /\ KeyAt(l, i) # k
          /\ Answer("find", k, 0, store[k])
    /\ UNCHANGED <<leaf, sep, log, freed, pending, store>>

----------------------------------------------------------------------------
(* update: a record never found since its insertion is only logged anew,   *)
(* whatever its key, and the search goes on; one that was found is         *)
(* changed in the log.                                                     *)
Update(k) ==
    LET r == Route(k)
        l == leaf[r]
        Same == {i \in Live(l) : l.slot[i].hash = Hash[k]}
        Hit == {i \in Same : l.slot[i].access # 0 /\ KeyAt(l, i) = k}
        \* fingers met before the loop is left
        Met == {i \in Same : \A j \in Hit : i <= j}
        New == {i \in Met : l.slot[i].access = 0}
        changed == IF Hit = {} THEN log
                   ELSE [log EXCEPT ![l.slot[Min(Hit)].ptr].val
                                        = Value(calls')]
    IN
    /\ Call("update", k)
    /\ ~RootIsLeaf
    /\ log' = changed \o
              [n \in 1 .. Cardinality(New) |-> [key |-> k, val |-> Value(calls')]]
    /\ store' = [store EXCEPT ![k] = IF @ = 0 THEN 0 ELSE Value(calls')]
    /\ Answer("update", k, Hit # {} \/ New # {}, store[k] # 0)
    /\ UNCHANGED <<leaf, sep, freed, pending>>

----------------------------------------------------------------------------
(* simply_remove: the last finger takes the place of the removed one.  The *)
(* pointer to the record's key, less 16 words of 4 bytes, is the key of    *)
(* the record two before it; that word is set to 0, and the log chunk it   *)
(* lies in given back to the allocator.                                    *)
\* Fault: the last finger is moved but stays in use.
WithoutSlotKeeping(l, i) == [l EXCEPT !.slot[i] = l.slot[l.max_use - 1]]
WithoutSlot(l, i) == [l EXCEPT !.slot[i] = l.slot[l.max_use - 1], !.max_use = @ - 1]

SimplyRemove(k) ==
    LET r == Route(k)
        l == leaf[r]
        Hit == {i \in Live(l) : l.slot[i].hash = Hash[k] /\ KeyAt(l, i) = k}
        i == Min(Hit)
        e == l.slot[i].ptr
    IN
    /\ Call("remove", k)
    /\ l.temp_insert = 0
    /\ \/ /\ Hit # {}
          /\ log' = IF e > 2 THEN [log EXCEPT ![e - 2].key = 0] ELSE log
          /\ freed' = TRUE
          /\ leaf' = [leaf EXCEPT ![r] = WithoutSlot(l, i)]
          /\ Answer("remove", k, TRUE, store[k] # 0)
       \/ /\ Hit = {}
          /\ Answer("remove", k, FALSE, store[k] # 0)
          /\ UNCHANGED <<log, freed, leaf>>
    /\ store' = [store EXCEPT ![k] = 0]
    /\ UNCHANGED <<sep, pending>>

----------------------------------------------------------------------------
(* scan: the value of the i-th record is taken from slot i + LEFT_KEY if   *)
(* i + LEFT_KEY + 1 is neither in use nor past the end, else from the log. *)
ScanWord(l, i) ==
    IF i + LEFT_KEY + 1 >= l.max_use /\ i + LEFT_KEY + 1 < MAX_LEAF_KEY
    THEN l.slot[i + LEFT_KEY].val
    ELSE ValAt(l, i)

LeafWords(l) == [n \in 1 .. l.max_use |-> ScanWord(l, n - 1)]

WordsFrom(r) ==
    LET words[i \in r .. Len(leaf) + 1] ==
          IF i > Len(leaf) THEN << >> ELSE LeafWords(leaf[i]) \o words[i + 1]
    IN words[r]

Scan(k) ==
    LET r == Route(k)
        all == WordsFrom(r)
        n == IF Len(all) < ScanCount THEN Len(all) ELSE ScanCount
    IN
    /\ Call("scan", k)
    /\ \A i \in r .. Len(leaf) : leaf[i].temp_insert = 0
    /\ Answer("scan", k, SubSeq(all, 1, n), {store[j] : j \in Key})
    /\ UNCHANGED <<leaf, sep, log, freed, pending, store>>

----------------------------------------------------------------------------
(* The bound on calls is reached, or a leaf that was never released is in  *)
(* the way of every further call.                                          *)
Done ==
    /\ \/ calls = MaxCalls
       \/ \E i \in DOMAIN leaf : leaf[i].temp_insert # 0
    /\ UNCHANGED vars

Next == Done \/ \E k \in Key :
    \/ InsertDuplicate(k) \/ InsertAppend(k) \/ InsertSplit(k)
    \/ Find(k) \/ FindInRoot(k) \/ Update(k) \/ SimplyRemove(k) \/ Scan(k)

Spec == Init /\ [][Next]_vars
----------------------------------------------------------------------------
WordSet == [ptr : Nat, hash : Nat, control : Pos, access : 0 .. 3, val : Nat]
LeafSet == [slot : [Pos -> WordSet], max_use : 0 .. MAX_LEAF_KEY, temp_insert : {0, 1}]
RecordSet == [key : Key \cup {0}, val : Nat]

(* Type invariant: a key is 0 if simply_remove has written it.             *)
TypeOK ==
    /\ leaf \in Seq(LeafSet) /\ log \in Seq(RecordSet) /\ sep \in Seq(Key \cup {0})
    /\ Len(sep) = Len(leaf) - 1
    /\ \A n \in DOMAIN leaf : \A p \in Pos : leaf[n].slot[p].ptr <= Len(log)
    /\ \A n \in DOMAIN leaf : \A p \in Live(leaf[n]) : leaf[n].slot[p].ptr # 0
    /\ store \in [Key -> Nat] /\ freed \in BOOLEAN
    /\ pending \in Key \cup {0} /\ calls \in 0 .. MaxCalls

(* The slots in use; a record is where its leaf and its slot are.          *)
Places == {a \in (DOMAIN leaf) \X Pos : a[2] < leaf[a[1]].max_use}
SlotAt(a) == leaf[a[1]].slot[a[2]]
RecordAt(a) == log[SlotAt(a).ptr]

(* A pair find or insert would believe is the key and the value of the     *)
(* record: the control field always tells a pair from the fingers that     *)
(* overwrote it.                                                           *)
CachedPairsAreRight ==
    \A n \in DOMAIN leaf : \A i \in Live(leaf[n]) :
       LET l == leaf[n] IN
       Cached(l, i) => /\ l.slot[i].control + 1 \in Pos
                       /\ l.slot[l.slot[i].control].val = KeyAt(l, i)
                       /\ l.slot[l.slot[i].control + 1].val = ValAt(l, i)

(* Every record is in exactly one slot in use, of the leaf that the        *)
(* separators lead to, through any number of splits.                       *)
StoredOnce ==
    \A k \in Key :
       Cardinality({a \in Places : /\ RecordAt(a).key = k /\ RecordAt(a).val = store[k]
                                   /\ a[1] = Route(k)})
       = IF store[k] = 0 THEN 0 ELSE 1

(* Every call returns what it should: find the value last written, insert  *)
(* true for a new key only, update and remove true for a stored one.       *)
AnswersAreRight == answer.kind # "scan" => answer.got = answer.due

(* No two slots in use lead to the same record of the log.                 *)
RecordsOwnedOnce ==
    \A a, b \in Places : SlotAt(a).ptr = SlotAt(b).ptr => a = b

\* The keys that the separators lead to the n-th leaf.
Between(n, k) == /\ n > 1 => sep[n - 1] < k
                 /\ n < Len(leaf) => k <= sep[n]

(* While nothing is updated or removed, what find and insert rely on: the  *)
(* records are those last written, each where the separators lead and in   *)
(* one slot only.                                                          *)
RecordsInv ==
    /\ \A i, j \in DOMAIN sep : i < j => sep[i] < sep[j]
    /\ \A a \in Places :
          /\ RecordAt(a).key \in Key
          /\ SlotAt(a).hash = Hash[RecordAt(a).key]
          /\ Between(a[1], RecordAt(a).key)
          /\ RecordAt(a).val = store[RecordAt(a).key] /\ RecordAt(a).val # 0
    /\ \A a, b \in Places : RecordAt(a).key = RecordAt(b).key => a = b
    /\ \A k \in Key : store[k] # 0 => \E a \in Places : RecordAt(a).key = k
    /\ RootIsLeaf => \A p \in Pos : p >= leaf[1].max_use => leaf[1].slot[p] = Junk

(* The inductive invariant of LeafSlots without update and simply_remove.  *)
SlotsIInv == /\ TypeOK /\ RecordsOwnedOnce /\ RecordsInv /\ CachedPairsAreRight
             /\ \/ AnswersAreRight
                \/ answer.kind = "find" /\ answer.got = NullPointer

(* What comments and interface documentation say and the code does not do. *)

(* update changes the value of its key ("update val ptr"): a find that     *)
(* follows returns the new value.                                          *)
UpdateIsSeen == answer.kind = "find" => answer.got = answer.due

(* find answers 0 for a key that is not there ("key not existed").         *)
MissingIsNotFound == answer.kind = "find" /\ answer.due = 0 => answer.got = 0

(* simply_remove only clears its key: no other record is lost to find.     *)
RemoveSparesOthers == answer.kind = "find" /\ answer.due # 0 => answer.got = answer.due

(* simply_remove only clears its key: a cached pair is not believed again  *)
(* after a finger has overwritten it.                                      *)
NoFingerReadAsPair ==
    \A n \in DOMAIN leaf : \A i \in Live(leaf[n]) :
       Cached(leaf[n], i) => leaf[n].slot[leaf[n].slot[i].control].ptr = 0

(* simply_remove invalidates the log entry of its record; the others stay  *)
(* in a chunk that is allocated.                                           *)
RecordsStayAllocated == \A n \in DOMAIN leaf : Live(leaf[n]) # {} => ~freed

(* A scan returns values of records ("value can be found in dram").        *)
ScanReturnsValues ==
    answer.kind = "scan" => \A n \in DOMAIN answer.got : answer.got[n] \in answer.due
=============================================================================
