--------------------------- MODULE ReadCacheProofs ---------------------------
(***************************************************************************)
(* The cache of zbtree_r.cpp is right, for a leaf of any even size that a  *)
(* control field can address, any keys, hash and number of threads, as     *)
(* long as no find overlaps another call: inserts may overlap each other.  *)
(*                                                                         *)
(* With a find that overlaps another call it is not: it claims the leaf    *)
(* long after it has found that there is room.  What IInv needs of a find  *)
(* on its own is that nothing happens between such a test and the step     *)
(* that relies on it (Here); of inserts it needs only what temp_insert     *)
(* gives them, which is proved with it (OneOwner, AloneInStep).  Within a  *)
(* call the pair that is being written is excepted from what all others    *)
(* hold (PairsInv); that pairs lie apart, not only hold the right words,   *)
(* is what keeps a write out of another record's pair.                     *)
(***************************************************************************)
EXTENDS ReadCache, FiniteSetTheorems, TLAPS

(* Where a find is at a finger; and at one that leads to its key.          *)
AtKey == {"missed", "claim_lodging", "choose", "claim_other", "lodge", "lodge_key",
          "lodge_value", "replace", "replace_key", "replace_value"}
AtPair == {"hit", "hit_value", "replace_key", "replace_value"}
AtFinger == AtKey \cup AtPair
Finding == {"look"} \cup AtFinger
Writing(i) == \E t \in Thread : at[t] = i /\ pc[t] \in {"lodge_key", "lodge_value",
                                                "replace_key", "replace_value"}
Lodging(i) == \E t \in Thread : at[t] = i /\ pc[t] \in {"lodge_key", "lodge_value"}

(* A find overlaps no other call.  Inserts may overlap each other.         *)
FindsAlone ==
    \A t, u \in Thread : pc[t] \in Finding /\ t # u => pc[u] = "idle"

(* What follows for a step of t: the others are in no leaf.                *)
AloneIn(t) ==
    \A u \in Thread \ {t} :
       /\ pc[u] \in {"idle", "restart"}
       /\ pc'[u] = pc[u] /\ at'[u] = at[u] /\ key'[u] = key[u]

(* The records have different keys, and at least half the slots are taken. *)
RecordsInv ==
    /\ LEFT_KEY <= max_use
    /\ \A i \in Live : slot[i].of # 0
    /\ \A i, j \in Live : slot[i].of = slot[j].of => i = j

(* The pairs that are believed lie apart, below the end of the cache, and  *)
(* hold what they should but for the one that is being written.            *)
PairsInv ==
    /\ \A i \in Live : Cached(i) =>
          /\ Lodging(i) \/ slot[i].control + 1 < compact_use
          /\ Writing(i) \/ /\ slot[slot[i].control].raw = slot[i].of
                           /\ slot[slot[i].control + 1].raw = Value(slot[i].of)
    /\ \A i, j \in Live : Cached(i) /\ Cached(j) /\ i # j =>
          \/ slot[i].control + 1 < slot[j].control
          \/ slot[j].control + 1 < slot[i].control

(* What a thread relies on where it is.                                    *)
Here(t) ==
    /\ IF pc[t] = "idle" THEN at[t] = 0 ELSE key[t] \in Key
    /\ pc[t] \in {"look", "hit"} =>
          at[t] <= max_use /\ \A i \in Live : i < at[t] => slot[i].of # key[t]
    /\ pc[t] \in AtFinger => at[t] \in Live
    /\ pc[t] \in AtKey => slot[at[t]].of = key[t]
    /\ pc[t] \in AtPair => Cached(at[t])
    /\ pc[t] = "hit_value" => slot[slot[at[t]].control].raw = key[t]
    /\ pc[t] \in {"claim_lodging", "lodge", "lodge_key"} => HasLodging
    /\ pc[t] = "lodge_key" => slot[at[t]].control = compact_use
    /\ pc[t] = "lodge_value" => /\ slot[at[t]].control + 1 = compact_use
                                /\ max_use < compact_use
                                /\ compact_use < MAX_LEAF_KEY
                                /\ slot[slot[at[t]].control].raw = key[t]
    /\ pc[t] \in {"claim_other", "replace"} =>
          other[t] \in Live /\ other[t] # at[t] /\ Cached(other[t])
    /\ pc[t] = "replace_value" => slot[slot[at[t]].control].raw = key[t]
    /\ pc[t] \in {"append", "mark_split", "halve"} => key[t] \notin Stored
    /\ pc[t] = "append" => HasRoom
    /\ pc[t] \in {"mark_split", "halve"} => max_use = MAX_LEAF_KEY
    /\ pc[t] \in Owners => temp_insert = (IF pc[t] = "halve" THEN 2 ELSE 1)
    /\ pc[t] \in Finding \ Owners => temp_insert <= 1
HereInv == \A t \in Thread : Here(t)

IInv == /\ TypeOK /\ CacheInLeaf /\ RecordsInv /\ PairsInv /\ HereInv
        /\ OneOwner /\ AnswersAreRight

Slot == [of : Key \cup {0}, control : 0 .. 63, access : 0 .. 3, raw : 0 .. 199]

(* The two halves of a leaf, and what fits in the fields of a slot.        *)
LEMMA Sizes ==
  /\ LEFT_KEY \in Nat \ {0} /\ RIGHT_KEY = LEFT_KEY
  /\ MAX_LEAF_KEY \in Nat /\ MAX_LEAF_KEY = 2 * LEFT_KEY /\ MAX_LEAF_KEY <= 64
  BY LeafAssumption DEF LEFT_KEY, RIGHT_KEY

LEMMA Keys ==
  /\ 0 \notin Key
  /\ \A k \in Key : k \in Nat /\ Value(k) \in 101 .. 199 /\ k \in 1 .. 99
  /\ \A k, l \in Key : Value(k) = Value(l) => k = l
  BY KeyAssumption DEF Value

LEMMA Words ==
  /\ \A k \in Key : Finger(k) \in Slot
  /\ \A w \in 0 .. 199 : Raw(w) \in Slot
  BY KeyAssumption DEF Finger, Raw, Slot

LEMMA TypeParts ==
  ASSUME TypeOK
  PROVE  /\ slot \in [Pos -> Slot]
         /\ max_use \in Nat /\ compact_use \in Nat /\ temp_insert \in Nat
         /\ max_use <= MAX_LEAF_KEY
         /\ Live \subseteq Pos
         /\ \A i \in Live : i \in Nat /\ slot[i].of \in Key
         /\ \A i \in Pos : /\ slot[i] \in Slot
                           /\ slot[i].of \in Key \cup {0} /\ slot[i].control \in 0 .. 63
                           /\ slot[i].access \in 0 .. 3 /\ slot[i].raw \in 0 .. 199
  <1>1. slot \in [Pos -> Slot] /\ \A i \in Pos : slot[i] \in Slot
    BY DEF TypeOK, Slot
  <1>2. Live \subseteq Pos /\ \A i \in Live : i \in Nat
    BY DEF Live, Pos
  <1>3. \A i \in Live : slot[i].of \in Key
    BY DEF TypeOK, Stored
  <1> QED BY <1>1, <1>2, <1>3, Sizes DEF TypeOK, Slot

(* The others are no matter then.                                          *)
LEMMA Alone ==
  ASSUME IInv, NEW t \in Thread, AloneIn(t)
  PROVE  /\ Here(t)
         /\ Here(t)' => HereInv' /\ OneOwner'
         /\ \A i : Writing(i) <=> at[t] = i /\ pc[t] \in {"lodge_key", "lodge_value",
                                                "replace_key", "replace_value"}
         /\ \A i : Writing(i)' <=> at'[t] = i /\ pc'[t] \in {"lodge_key", "lodge_value",
                                                "replace_key", "replace_value"}
         /\ \A i : Lodging(i) <=> at[t] = i /\ pc[t] \in {"lodge_key", "lodge_value"}
         /\ \A i : Lodging(i)' <=> at'[t] = i /\ pc'[t] \in {"lodge_key", "lodge_value"}
  <1>1. Here(t) /\ \A u \in Thread : Here(u)
    BY DEF IInv, HereInv
  <1>2. ASSUME NEW u \in Thread, u # t PROVE Here(u)'
    <2>1. CASE pc'[u] = "idle" /\ at'[u] = 0
      BY <2>1 DEF Here, Finding, AtFinger, AtKey, AtPair, Owners
    <2>2. CASE pc'[u] = "restart" /\ key'[u] \in Key
      BY <2>2 DEF Here, Finding, AtFinger, AtKey, AtPair, Owners
    <2> QED BY <1>1, <1>2, <2>1, <2>2 DEF AloneIn, Here
  <1>3. Here(t)' => HereInv'
    BY <1>2 DEF HereInv
  <1>4. \A u \in Thread : u # t => /\ pc[u] \in {"idle", "restart"}
                                  /\ pc'[u] \in {"idle", "restart"}
    BY DEF AloneIn
  <1>5. /\ \A i : Writing(i) <=> at[t] = i /\ pc[t] \in {"lodge_key", "lodge_value",
                                                "replace_key", "replace_value"}
        /\ \A i : Writing(i)' <=> at'[t] = i /\ pc'[t] \in {"lodge_key", "lodge_value",
                                                "replace_key", "replace_value"}
    BY <1>4 DEF Writing
  <1>6. /\ \A i : Lodging(i) <=> at[t] = i /\ pc[t] \in {"lodge_key", "lodge_value"}
        /\ \A i : Lodging(i)' <=> at'[t] = i /\ pc'[t] \in {"lodge_key", "lodge_value"}
    BY <1>4 DEF Lodging
  <1>7. OneOwner'
    BY <1>4 DEF OneOwner, Owners
  <1> QED BY <1>1, <1>3, <1>5, <1>6, <1>7

(* Steps that leave the slots alone, and are between no two writes.        *)
LEMMA Quiet ==
  ASSUME IInv, NEW t \in Thread, AloneIn(t),
         pc[t] \notin {"lodge_key", "lodge_value", "replace_key", "replace_value"},
         UNCHANGED <<slot, max_use, compact_use>>
  PROVE  /\ CacheInLeaf' /\ RecordsInv' /\ PairsInv'
         /\ Live' = Live /\ Stored' = Stored
         /\ \A i : Cached(i)' <=> Cached(i)
  <1>1. Live' = Live /\ (\A i : Cached(i)' <=> Cached(i)) /\ CacheInLeaf'
    BY DEF Live, Cached, IInv, CacheInLeaf
  <1>2. Stored' = Stored
    BY <1>1 DEF Stored
  <1>3. RecordsInv'
    BY <1>1 DEF RecordsInv, IInv
  <1>4. \A i : ~Writing(i) /\ ~Lodging(i)
    BY Alone
  <1>5. PairsInv'
    BY <1>1, <1>4 DEF IInv, PairsInv
  <1> QED BY <1>1, <1>2, <1>3, <1>5

Calm == {"idle", "look", "hit", "hit_value", "missed", "claim_lodging", "choose",
         "claim_other", "restart"}

(* What ends a call: the locals are 0 and an answer has been given.        *)
LEMMA EndOf ==
  ASSUME IInv, NEW t \in Thread, AloneIn(t), Ends(t)
  PROVE  /\ pc' = [pc EXCEPT ![t] = "idle"] /\ pc'[t] = "idle"
         /\ pc' \in [Thread -> Owners \cup Calm]
         /\ key' \in [Thread -> Key \cup {0}]
         /\ at' \in [Thread -> Pos] /\ other' \in [Thread -> Pos]
         /\ Here(t)'
  <1>1. /\ pc \in [Thread -> Owners \cup Calm]
        /\ key \in [Thread -> Key \cup {0}]
        /\ at \in [Thread -> Pos] /\ other \in [Thread -> Pos]
    BY DEF IInv, TypeOK, Calm
  <1>2. 0 \in Pos
    BY Sizes DEF Pos
  <1>3. /\ pc' = [pc EXCEPT ![t] = "idle"] /\ pc'[t] = "idle"
        /\ pc' \in [Thread -> Owners \cup Calm]
        /\ key' \in [Thread -> Key \cup {0}]
        /\ at' \in [Thread -> Pos] /\ other' \in [Thread -> Pos]
    BY <1>1, <1>2 DEF Ends, Goto, Calm
  <1>4. Here(t)'
    <2>1. at'[t] = 0
      BY <1>1 DEF Ends
    <2> QED BY <1>3, <2>1 DEF Here, Finding, AtFinger, AtKey, AtPair, Owners
  <1> QED BY <1>3, <1>4

(* The answer to a find.                                                   *)
LEMMA FindAnswer ==
  ASSUME TypeOK, NEW t \in Thread, NEW got, FindAnswers(t, got),
         \/ got = 0 /\ key[t] \notin Stored
         \/ key[t] \in Stored /\ got = Value(key[t])
  PROVE  AnswersAreRight' /\ answer' \in [got : 0 .. 199, due : 0 .. 199]
  <1>1. Stored \subseteq Key
    BY DEF TypeOK
  <1>2. answer' = [got |-> got, due |-> got]
    BY DEF FindAnswers, Nothing
  <1>3. got \in 0 .. 199
    BY <1>1, Keys
  <1> QED BY <1>2, <1>3 DEF AnswersAreRight

(* The same for a step that moves within a call.                           *)
LEMMA GoesOn ==
  ASSUME IInv, NEW t \in Thread, NEW place \in Owners \cup Calm, Goes(t, place)
  PROVE  /\ pc'[t] = place /\ pc' \in [Thread -> Owners \cup Calm]
         /\ UNCHANGED <<key, at, other, answer>>
         /\ key' \in [Thread -> Key \cup {0}]
         /\ at' \in [Thread -> Pos] /\ other' \in [Thread -> Pos]
         /\ answer' \in [got : 0 .. 199, due : 0 .. 199] /\ AnswersAreRight'
  BY DEF IInv, TypeOK, Goes, Goto, Calm, AnswersAreRight

(* The type of the slots when they are as they were.                       *)
LEMMA TypeOfRest ==
  ASSUME IInv, UNCHANGED <<slot, max_use, compact_use, routed>>, Stored' = Stored,
         temp_insert' \in 0 .. 2, compact_full' \in BOOLEAN, calls' \in 0 .. MaxCalls,
         pc' \in [Thread -> Owners \cup Calm], key' \in [Thread -> Key \cup {0}],
         at' \in [Thread -> Pos], other' \in [Thread -> Pos],
         answer' \in [got : 0 .. 199, due : 0 .. 199]
  PROVE  TypeOK'
  BY DEF IInv, TypeOK, Calm

LEMMA FindCalled ==
  ASSUME IInv, NEW t \in Thread, AloneIn(t), NEW k \in Key,
         CallFind(t, k) \/ CallInsert(t, k)
  PROVE  IInv'
  <1>1. /\ pc[t] = "idle" /\ calls < MaxCalls /\ k \in Key
        /\ UNCHANGED <<slot, max_use, compact_use, compact_full, routed, at, other, answer>>
        /\ calls' = calls + 1 /\ key' = [key EXCEPT ![t] = k]
        /\ \/ temp_insert <= 1 /\ temp_insert' = temp_insert /\ pc' = [pc EXCEPT ![t] = "look"]
           \/ temp_insert' = 1 /\ pc' = [pc EXCEPT ![t] = "check"]
    BY DEF CallFind, CallInsert, Goto, leaf
  <1>2. /\ CacheInLeaf' /\ RecordsInv' /\ PairsInv' /\ Live' = Live /\ Stored' = Stored
    BY <1>1, Quiet
  <1>3. TypeOK'
    BY <1>1, <1>2, BoundAssumption DEF IInv, TypeOK, Owners
  <1>4. Here(t)'
    <2>1. key'[t] \in Key /\ pc'[t] \in {"look", "check"}
      BY <1>1 DEF IInv, TypeOK
    <2>2. pc'[t] = "look" => at'[t] <= max_use' /\ \A i \in Live' : i < at'[t] => slot'[i].of # key'[t]
      <3>1. at[t] = 0
        BY <1>1, Alone DEF IInv, Here
      <3>2. max_use \in Nat /\ \A i \in Live : i \in Nat
        BY TypeParts DEF IInv
      <3>3. at'[t] = 0 /\ max_use' \in Nat /\ \A i \in Live' : i \in Nat
        BY <1>1, <1>2, <3>1, <3>2
      <3> QED BY <3>3
    <2>3. CASE pc'[t] = "look" /\ temp_insert' <= 1
      BY <2>1, <2>2, <2>3 DEF Here, Finding, AtFinger, AtKey, AtPair, Owners
    <2>4. CASE pc'[t] = "check" /\ temp_insert' = 1
      BY <2>1, <2>4 DEF Here, Finding, AtFinger, AtKey, AtPair, Owners
    <2> QED
      <3>1. t \in DOMAIN pc
        BY DEF IInv, TypeOK
      <3> QED BY <1>1, <2>3, <2>4, <3>1
  <1> QED BY <1>1, <1>2, <1>3, <1>4, Alone DEF IInv, AnswersAreRight

(* A thread goes to a place where what it has found is as it says.         *)
LEMMA QuietEnd ==
  ASSUME IInv, NEW t \in Thread, AloneIn(t), NEW got, FindAnswers(t, got),
         pc[t] \notin {"lodge_key", "lodge_value", "replace_key", "replace_value"},
         UNCHANGED <<slot, max_use, compact_use, routed, calls>>,
         temp_insert' \in 0 .. 1, compact_full' \in BOOLEAN,
         \/ got = 0 /\ key[t] \notin Stored
         \/ key[t] \in Stored /\ got = Value(key[t])
  PROVE  IInv'
  <1>1. Ends(t)
    BY DEF FindAnswers
  <1>2. CacheInLeaf' /\ RecordsInv' /\ PairsInv' /\ Stored' = Stored
    BY Quiet
  <1>3. AnswersAreRight' /\ answer' \in [got : 0 .. 199, due : 0 .. 199]
    BY FindAnswer DEF IInv
  <1>4. /\ pc' \in [Thread -> Owners \cup Calm]
        /\ key' \in [Thread -> Key \cup {0}]
        /\ at' \in [Thread -> Pos] /\ other' \in [Thread -> Pos] /\ Here(t)'
    BY <1>1, EndOf
  <1>5. TypeOK'
    <2>1. calls' \in 0 .. MaxCalls /\ temp_insert' \in 0 .. 2
      BY DEF IInv, TypeOK
    <2> QED BY <1>2, <1>3, <1>4, <2>1, TypeOfRest
  <1> QED BY <1>2, <1>3, <1>4, <1>5, Alone DEF IInv

LEMMA QuietGo ==
  ASSUME IInv, NEW t \in Thread, AloneIn(t), NEW place \in Owners \cup Calm,
         Goes(t, place),
         pc[t] \notin {"lodge_key", "lodge_value", "replace_key", "replace_value"},
         UNCHANGED <<slot, max_use, compact_use, compact_full, routed, calls>>,
         temp_insert' \in 0 .. 2, Here(t)'
  PROVE  IInv'
  <1>2. CacheInLeaf' /\ RecordsInv' /\ PairsInv' /\ Stored' = Stored
    BY Quiet
  <1>3. /\ AnswersAreRight' /\ answer' \in [got : 0 .. 199, due : 0 .. 199]
        /\ pc' \in [Thread -> Owners \cup Calm]
        /\ key' \in [Thread -> Key \cup {0}]
        /\ at' \in [Thread -> Pos] /\ other' \in [Thread -> Pos]
    BY GoesOn
  <1>4. calls' \in 0 .. MaxCalls /\ compact_full' \in BOOLEAN
    BY DEF IInv, TypeOK
  <1>5. TypeOK'
    BY <1>2, <1>3, <1>4, TypeOfRest
  <1> QED BY <1>2, <1>3, <1>5, Alone DEF IInv

(* The search of a leaf goes over a finger that does not lead to the key.  *)
LEMMA NextLooked ==
  ASSUME IInv, NEW t \in Thread, AloneIn(t), NextFinger(t), pc[t] \in {"look", "hit"},
         at[t] \in Live, slot[at[t]].of # key[t],
         UNCHANGED <<temp_insert, max_use, compact_use, compact_full, slot, routed, calls>>
  PROVE  IInv'
  <1>1. CacheInLeaf' /\ RecordsInv' /\ PairsInv' /\ Stored' = Stored /\ Live' = Live
    BY Quiet
  <1>2. /\ at[t] \in Nat /\ at[t] < max_use /\ max_use \in Nat
        /\ max_use <= MAX_LEAF_KEY /\ MAX_LEAF_KEY \in Nat /\ Live \subseteq Pos
    BY TypeParts, Sizes DEF IInv, Live
  <1>3. at[t] + 1 \in Pos
    BY <1>2 DEF Pos
  <1>4. /\ pc' = [pc EXCEPT ![t] = "look"] /\ at' = [at EXCEPT ![t] = at[t] + 1]
        /\ UNCHANGED <<key, other, answer>>
    BY DEF NextFinger, Goto
  <1>5. pc'[t] = "look" /\ at'[t] = at[t] + 1 /\ at' \in [Thread -> Pos]
    BY <1>3, <1>4 DEF IInv, TypeOK
  <1>6. TypeOK'
    BY <1>1, <1>4, <1>5 DEF IInv, TypeOK, Owners
  <1>7. Here(t)
    BY Alone DEF IInv
  <1>8. \A i \in Live : i < at[t] + 1 => slot[i].of # key[t]
    <2>1. \A i \in Live : i < at[t] => slot[i].of # key[t]
      BY <1>7 DEF Here
    <2>2. \A i \in Live : i \in Nat
      BY <1>2 DEF Pos
    <2> QED BY <1>2, <2>1, <2>2
  <1>9. Here(t)'
    <2>1. key'[t] \in Key /\ temp_insert' <= 1 /\ at'[t] <= max_use'
      BY <1>2, <1>4, <1>5, <1>7 DEF Here, Owners, Finding, AtFinger, AtPair
    <2>2. \A i \in Live' : i < at'[t] => slot'[i].of # key'[t]
      BY <1>1, <1>4, <1>5, <1>8
    <2> QED BY <1>5, <2>1, <2>2 DEF Here, Finding, AtFinger, AtKey, AtPair, Owners
  <1> QED BY <1>1, <1>4, <1>6, <1>9, Alone DEF IInv, AnswersAreRight

(* A find that has not claimed the leaf.                                   *)
LEMMA FindFacts ==
  ASSUME IInv, NEW t \in Thread, Here(t), pc[t] \in Finding \ Owners
  PROVE  /\ temp_insert <= 1 /\ temp_insert \in 0 .. 1 /\ key[t] \in Key
         /\ pc[t] \in AtKey => at[t] \in Live /\ slot[at[t]].of = key[t]
  <1>1. temp_insert <= 1 /\ temp_insert \in 0 .. 1
    BY DEF Here, IInv, TypeOK
  <1>2. pc[t] # "idle"
    BY DEF Finding, AtFinger, AtKey, AtPair
  <1> QED BY <1>1, <1>2 DEF Here, AtFinger

LEMMA LookInv ==
  ASSUME IInv, NEW t \in Thread, AloneIn(t), Look(t)
  PROVE  IInv'
  <1>1. /\ pc[t] = "look"
        /\ UNCHANGED <<slot, temp_insert, max_use, compact_use, compact_full, routed, calls>>
    BY DEF Look, leaf
  <1>2. Here(t) /\ key[t] \in Key /\ temp_insert <= 1 /\ temp_insert \in 0 .. 1
    BY <1>1, Alone, FindFacts DEF Owners, Finding
  <1>3. CASE at[t] \notin Live /\ FindAnswers(t, Nothing)
    <2>1. at[t] \in Pos /\ at[t] \in Nat /\ max_use \in Nat
      BY TypeParts DEF IInv, TypeOK, Pos
    <2>2. \A i \in Live : i < at[t]
      BY <1>3, <2>1, Sizes DEF Live, Pos
    <2>3. key[t] \notin Stored
      BY <1>1, <1>2, <2>2 DEF Here, Stored
    <2> QED BY <1>1, <1>2, <1>3, <2>3, QuietEnd DEF Nothing, IInv, TypeOK
  <1>4. CASE at[t] \in Live /\ Matches(t, at[t]) /\ Cached(at[t]) /\ Goes(t, "hit")
    <2>1. pc'[t] = "hit" /\ UNCHANGED <<key, at, other>>
      BY <1>4, GoesOn DEF Calm
    <2>2. Live' = Live /\ Cached(at[t])'
      BY <1>1, <1>4, <2>1 DEF Cached, Live
    <2>3. Here(t)'
      BY <1>1, <1>2, <1>4, <2>1, <2>2 DEF Here, Finding, AtFinger, AtKey, AtPair, Owners
    <2> QED BY <1>1, <1>2, <1>4, <2>3, QuietGo DEF Calm
  <1>5. CASE at[t] \in Live /\ slot[at[t]].of = key[t] /\ Goes(t, "missed")
    <2>1. pc'[t] = "missed" /\ UNCHANGED <<key, at, other>>
      BY <1>5, GoesOn DEF Calm
    <2>2. Live' = Live
      BY <1>1 DEF Live
    <2>3. Here(t)'
      BY <1>1, <1>2, <1>5, <2>1, <2>2 DEF Here, Finding, AtFinger, AtKey, AtPair, Owners
    <2> QED BY <1>1, <1>2, <1>5, <2>3, QuietGo DEF Calm
  <1>6. CASE at[t] \in Live /\ NextFinger(t)
             /\ (Matches(t, at[t]) => ~Cached(at[t]) /\ slot[at[t]].of # key[t])
    <2>1. slot[at[t]].of # key[t]
      BY <1>6 DEF Matches, IInv, RecordsInv
    <2> QED BY <1>1, <1>6, <2>1, NextLooked
  <1> QED BY <1>3, <1>4, <1>5, <1>6 DEF Look

(* A believed pair lies within the cache, and not being written it is right. *)
LEMMA PairFacts ==
  ASSUME IInv, NEW i \in Live, Cached(i), ~Lodging(i)
  PROVE  /\ slot[i].control \in Nat /\ slot[i].control \in Pos
         /\ slot[i].control + 1 \in Pos
         /\ max_use <= slot[i].control /\ slot[i].control + 1 < compact_use
         /\ slot[i].control + 1 < MAX_LEAF_KEY
  <1>1. /\ slot[i].control \in 0 .. 63 /\ max_use \in Nat /\ compact_use \in Nat
        /\ MAX_LEAF_KEY \in Nat
    BY TypeParts, Sizes DEF IInv
  <1>2. /\ max_use <= slot[i].control /\ slot[i].control + 1 < compact_use
        /\ compact_use <= MAX_LEAF_KEY
    BY <1>1 DEF IInv, PairsInv, Cached, CacheInLeaf
  <1> QED BY <1>1, <1>2 DEF Pos

LEMMA HitValueInv ==
  ASSUME IInv, NEW t \in Thread, AloneIn(t), HitValue(t)
  PROVE  IInv'
  <1>1. /\ pc[t] = "hit_value"
        /\ FindAnswers(t, slot[slot[at[t]].control + 1].raw)
        /\ UNCHANGED <<slot, temp_insert, max_use, compact_use, compact_full, routed, calls>>
    BY DEF HitValue, leaf
  <1>2. Here(t) /\ ~Lodging(at[t]) /\ ~Writing(at[t])
    BY <1>1, Alone DEF IInv
  <1>3. /\ at[t] \in Live /\ Cached(at[t]) /\ key[t] \in Key
        /\ slot[slot[at[t]].control].raw = key[t] /\ temp_insert <= 1
    BY <1>1, <1>2 DEF Here, Finding, AtFinger, AtPair, Owners
  <1>4. /\ slot[slot[at[t]].control].raw = slot[at[t]].of
        /\ slot[slot[at[t]].control + 1].raw = Value(slot[at[t]].of)
    BY <1>2, <1>3 DEF IInv, PairsInv
  <1>5. key[t] \in Stored
    BY <1>3, <1>4 DEF Stored
  <1>6. temp_insert \in 0 .. 1 /\ compact_full \in BOOLEAN
    BY <1>3 DEF IInv, TypeOK
  <1> QED BY <1>1, <1>3, <1>4, <1>5, <1>6, QuietEnd

LEMMA MissedInv ==
  ASSUME IInv, NEW t \in Thread, AloneIn(t), Missed(t)
  PROVE  IInv'
  <1>1. /\ pc[t] = "missed"
        /\ UNCHANGED <<slot, temp_insert, max_use, compact_use, compact_full, routed, calls>>
    BY DEF Missed, leaf
  <1>2. /\ Here(t) /\ key[t] \in Key /\ temp_insert <= 1 /\ temp_insert \in 0 .. 1
        /\ at[t] \in Live /\ slot[at[t]].of = key[t]
    <2>1. Here(t) /\ pc[t] \in AtKey /\ pc[t] \notin Owners
      BY <1>1, Alone DEF Owners, AtKey
    <2> QED BY <1>1, <2>1, FindFacts DEF Finding, AtFinger
  <1>3. Live' = Live /\ HasLodging' = HasLodging
    BY <1>1 DEF Live, HasLodging
  <1>4. ASSUME NEW place \in {"claim_lodging", "choose"}, Goes(t, place),
               place = "claim_lodging" => HasLodging
        PROVE  IInv'
    <2>1. pc'[t] = place /\ UNCHANGED <<key, at, other>>
      BY <1>4, GoesOn DEF Calm
    <2>2. Here(t)'
      BY <1>1, <1>2, <1>3, <1>4, <2>1 DEF Here, Finding, AtFinger, AtKey, AtPair, Owners
    <2> QED BY <1>1, <1>2, <1>4, <2>2, QuietGo DEF Calm
  <1>5. CASE FindAnswers(t, Value(key[t]))
    <2>1. key[t] \in Stored /\ compact_full \in BOOLEAN
      BY <1>2 DEF Stored, IInv, TypeOK
    <2> QED BY <1>1, <1>2, <1>5, <2>1, QuietEnd
  <1> QED BY <1>4, <1>5 DEF Missed

LEMMA ClaimInv ==
  ASSUME IInv, NEW t \in Thread, AloneIn(t), ClaimLodging(t) \/ ClaimOther(t)
  PROVE  IInv'
  <1>1. PICK from \in {"claim_lodging", "claim_other"}, to \in {"lodge", "replace"} :
             /\ Claim(t, from, to)
             /\ from = "claim_lodging" <=> to = "lodge"
    BY DEF ClaimLodging, ClaimOther
  <1>2. /\ pc[t] = from
        /\ UNCHANGED <<slot, max_use, compact_use, compact_full, routed, calls>>
    BY <1>1 DEF Claim
  <1>3. /\ Here(t) /\ key[t] \in Key /\ temp_insert \in 0 .. 1 /\ compact_full \in BOOLEAN
        /\ at[t] \in Live /\ slot[at[t]].of = key[t]
    <2>1. Here(t) /\ pc[t] \in AtKey /\ pc[t] \notin Owners
      BY <1>2, Alone DEF Owners, AtKey
    <2>2. compact_full \in BOOLEAN
      BY DEF IInv, TypeOK
    <2> QED BY <1>2, <2>1, <2>2, FindFacts DEF Finding, AtFinger
  <1>4. CASE temp_insert' = 1 /\ Goes(t, to)
    <2>1. pc'[t] = to /\ UNCHANGED <<key, at, other>>
      BY <1>4, GoesOn DEF Owners
    <2>2. Live' = Live /\ (HasLodging' <=> HasLodging) /\ \A i : Cached(i)' <=> Cached(i)
      BY <1>2 DEF Live, HasLodging, Cached
    <2>3. /\ to = "lodge" => HasLodging
          /\ to = "replace" => other[t] \in Live /\ other[t] # at[t] /\ Cached(other[t])
      BY <1>1, <1>2, <1>3 DEF Here
    <2>4. Cached(other[t])' <=> Cached(other[t])
      BY <1>2, <2>1 DEF Cached
    <2>5. Here(t)'
      BY <1>2, <1>3, <1>4, <2>1, <2>2, <2>3, <2>4 DEF Here, Finding, AtFinger, AtKey, AtPair, Owners
    <2> QED BY <1>2, <1>3, <1>4, <2>5, QuietGo DEF Owners
  <1>5. CASE FindAnswers(t, Value(key[t])) /\ UNCHANGED temp_insert
    <2>1. key[t] \in Stored
      BY <1>3 DEF Stored
    <2> QED BY <1>2, <1>3, <1>5, <2>1, QuietEnd
  <1> QED BY <1>1, <1>4, <1>5 DEF Claim

LEMMA CheckInv ==
  ASSUME IInv, NEW t \in Thread, AloneIn(t), Check(t)
  PROVE  IInv'
  <1>1. /\ pc[t] = "check"
        /\ UNCHANGED <<slot, temp_insert, max_use, compact_use, compact_full, routed, calls>>
    BY DEF Check, leaf
  <1>2. /\ Here(t) /\ key[t] \in Key /\ temp_insert = 1
    BY <1>1, Alone DEF IInv, Here, Owners
  <1>3. CacheInLeaf' /\ RecordsInv' /\ PairsInv' /\ Stored' = Stored
    BY <1>1, Quiet
  <1>4. CASE key[t] \in Stored /\ InsertAnswers(t, 0)
    <2>1. Ends(t) /\ answer' = [got |-> 0, due |-> 0]
      BY <1>4 DEF InsertAnswers
    <2>2. /\ pc' \in [Thread -> Owners \cup Calm]
          /\ key' \in [Thread -> Key \cup {0}]
          /\ at' \in [Thread -> Pos] /\ other' \in [Thread -> Pos] /\ Here(t)'
      BY <1>1, <1>2, <2>1, EndOf
    <2>3. answer' \in [got : 0 .. 199, due : 0 .. 199] /\ AnswersAreRight'
      BY <2>1 DEF AnswersAreRight
    <2>4. calls' \in 0 .. MaxCalls /\ compact_full' \in BOOLEAN /\ temp_insert' \in 0 .. 2
      BY <1>1 DEF IInv, TypeOK
    <2>5. TypeOK'
      BY <1>1, <1>3, <2>2, <2>3, <2>4, TypeOfRest
    <2> QED BY <1>3, <2>2, <2>3, <2>5, Alone DEF IInv
  <1>5. ASSUME key[t] \notin Stored, NEW place \in {"append", "mark_split"}, Goes(t, place),
               IF place = "append" THEN HasRoom ELSE ~HasRoom
        PROVE  IInv'
    <2>1. pc'[t] = place /\ UNCHANGED <<key, at, other>>
      BY <1>5, GoesOn DEF Owners
    <2>2. HasRoom' = HasRoom
      BY <1>1 DEF HasRoom
    <2>3. ~HasRoom => max_use = MAX_LEAF_KEY
      BY TypeParts, Sizes DEF HasRoom, IInv
    <2>4. Here(t)'
      BY <1>1, <1>2, <1>3, <1>5, <2>1, <2>2, <2>3 DEF Here, Finding, AtFinger, AtKey, AtPair, Owners
    <2> QED BY <1>1, <1>2, <1>5, <2>4, QuietGo DEF Owners
  <1> QED BY <1>4, <1>5 DEF Check

LEMMA MarkInv ==
  ASSUME IInv, NEW t \in Thread, AloneIn(t), MarkSplit(t)
  PROVE  IInv'
  <1>1. /\ pc[t] = "mark_split" /\ Goes(t, "halve") /\ temp_insert' = temp_insert + 1
        /\ UNCHANGED <<slot, max_use, compact_use, compact_full, routed, calls>>
    BY DEF MarkSplit
  <1>2. /\ Here(t) /\ key[t] \in Key /\ temp_insert = 1 /\ key[t] \notin Stored
        /\ max_use = MAX_LEAF_KEY
    BY <1>1, Alone DEF IInv, Here, Owners
  <1>3. pc'[t] = "halve" /\ UNCHANGED <<key, at, other>>
    BY <1>1, GoesOn DEF Owners
  <1>4. Stored' = Stored
    BY <1>1, Quiet
  <1>5. Here(t)'
    BY <1>1, <1>2, <1>3, <1>4 DEF Here, Finding, AtFinger, AtKey, AtPair, Owners
  <1> QED BY <1>1, <1>2, <1>5, QuietGo DEF Owners

(* The loop for a colder pair stops at the first: there is one.            *)
LEMMA LowestOf ==
  ASSUME NEW S \in SUBSET Nat, S # {}
  PROVE  Min(S) \in S /\ \A y \in S : Min(S) <= y
  <1> DEFINE Below(x) == {y \in S : y < x}
             T == {Below(x) : x \in S}
  <1>1. ASSUME NEW x \in S PROVE Below(x) \in FiniteSubsetsOf(S)
    <2>1. x \in Nat /\ \A y \in S : y \in Nat
      OBVIOUS
    <2>2. \A y \in S : y < x => y \in 0 .. x
      BY ONLY <2>1, SMT
    <2>3. Below(x) \in SUBSET (0 .. x)
      BY <2>2
    <2>4. IsFiniteSet(0 .. x)
      BY <2>1, FS_Interval
    <2> QED BY <2>3, <2>4, FS_Subset DEF FiniteSubsetsOf
  <1>2. T \subseteq FiniteSubsetsOf(S) /\ T # {}
    BY <1>1
  <1>3. PICK m \in T : \A y \in T : ~ (<<y, m>> \in StrictSubsetOrdering(S))
    BY <1>2, FS_StrictSubsetOrderingWellFounded, WFMin
  <1>4. PICK x \in S : m = Below(x)
    BY <1>3
  <1>5. \A y \in S : x <= y
    <2> SUFFICES ASSUME NEW y \in S, y < x PROVE FALSE
      BY <1>4
    <2>1. (\A z \in S : z < y => z < x) /\ ~ (y < y)
      BY SMT
    <2>2. Below(y) \subseteq Below(x) /\ y \in Below(x) /\ y \notin Below(y)
      BY <2>1
    <2>3. <<Below(y), m>> \in StrictSubsetOrdering(S)
      BY <1>4, <2>2 DEF StrictSubsetOrdering
    <2> QED BY <1>3, <2>3
  <1> QED BY <1>5 DEF Min

LEMMA ChooseInv ==
  ASSUME IInv, NEW t \in Thread, AloneIn(t), Choose(t)
  PROVE  IInv'
  <1>1. /\ pc[t] = "choose"
        /\ UNCHANGED <<slot, max_use, compact_use, routed, calls>>
    BY DEF Choose
  <1>2. /\ Here(t) /\ key[t] \in Key /\ temp_insert <= 1
        /\ at[t] \in Live /\ slot[at[t]].of = key[t]
    BY <1>1, Alone DEF IInv, Here, Owners, Finding, AtFinger, AtKey
  <1>3. CASE /\ Colder(at[t]) # {}
             /\ other' = [other EXCEPT ![t] = Min(Colder(at[t]))]
             /\ Goto(t, "claim_other")
             /\ UNCHANGED <<temp_insert, compact_full, key, at, answer>>
    <2> PICK j : j = Min(Colder(at[t]))
      OBVIOUS
    <2>1. Colder(at[t]) \subseteq Live /\ Live \subseteq Nat /\ Live \subseteq Pos
      BY TypeParts DEF Colder, IInv
    <2>2. j \in Colder(at[t])
      BY <1>3, <2>1, LowestOf
    <2>3. j \in Live /\ slot[j].access < slot[at[t]].access /\ slot[j].control > max_use
      BY <2>2 DEF Colder
    <2>4. /\ slot[j].access \in 0 .. 3 /\ slot[at[t]].access \in 0 .. 3
          /\ slot[j].control \in 0 .. 63 /\ max_use \in Nat
      BY <1>2, <2>1, <2>3, TypeParts DEF IInv
    <2>5. j \in Pos /\ j \in Live /\ j # at[t] /\ Cached(j)
      <3>1. j # at[t]
        BY <2>3, <2>4
      <3>2. Cached(j)
        BY <2>3, <2>4 DEF Cached
      <3> QED BY <2>1, <2>3, <3>1, <3>2
    <2>6. /\ other' = [other EXCEPT ![t] = j] /\ pc' = [pc EXCEPT ![t] = "claim_other"]
          /\ other \in [Thread -> Pos] /\ pc \in [Thread -> Owners \cup Calm]
      BY <1>3 DEF Goto, IInv, TypeOK, Calm
    <2>7. /\ other' \in [Thread -> Pos] /\ other'[t] = j
          /\ pc' \in [Thread -> Owners \cup Calm] /\ pc'[t] = "claim_other"
      BY <2>5, <2>6 DEF Calm
    <2>8. /\ CacheInLeaf' /\ RecordsInv' /\ PairsInv' /\ Live' = Live /\ Stored' = Stored
          /\ Cached(j)' <=> Cached(j)
      BY <1>1, Quiet
    <2>9. TypeOK'
      <3>1. /\ temp_insert' \in 0 .. 2 /\ compact_full' \in BOOLEAN /\ calls' \in 0 .. MaxCalls
            /\ key' \in [Thread -> Key \cup {0}] /\ at' \in [Thread -> Pos]
            /\ answer' \in [got : 0 .. 199, due : 0 .. 199]
        BY <1>1, <1>3 DEF IInv, TypeOK
      <3> QED BY <1>1, <2>7, <2>8, <3>1, TypeOfRest
    <2>10. Cached(other[t])'
      BY <1>1, <2>5, <2>7 DEF Cached
    <2>11. Here(t)'
      BY <1>1, <1>2, <1>3, <2>5, <2>7, <2>8, <2>10 DEF Here, Finding, AtFinger, AtKey, AtPair, Owners
    <2> QED BY <1>3, <2>8, <2>9, <2>11, Alone DEF IInv, AnswersAreRight
  <1>4. CASE compact_full' = TRUE /\ temp_insert' = 0 /\ FindAnswers(t, Value(key[t]))
    <2>1. key[t] \in Stored
      BY <1>2 DEF Stored
    <2> QED BY <1>1, <1>2, <1>4, <2>1, QuietEnd
  <1> QED BY <1>3, <1>4 DEF Choose

LEMMA RestartInv ==
  ASSUME IInv, NEW t \in Thread, AloneIn(t), Restart(t), temp_insert' = 1, Goes(t, "check")
  PROVE  IInv'
  <1>1. /\ pc[t] = "restart"
        /\ UNCHANGED <<slot, max_use, compact_use, compact_full, routed, calls>>
    BY DEF Restart
  <1>2. Here(t) /\ key[t] \in Key
    BY <1>1, Alone DEF Here
  <1>3. pc'[t] = "check" /\ UNCHANGED <<key, at, other>>
    BY GoesOn DEF Owners
  <1>4. Here(t)'
    BY <1>2, <1>3 DEF Here, Finding, AtFinger, AtKey, AtPair, Owners
  <1> QED BY <1>1, <1>4, QuietGo DEF Owners

(* An insert goes on in the new leaf; in this one there may be another.    *)
LEMMA LeaveInv ==
  ASSUME IInv, NEW t \in Thread, Restart(t), Ends(t), UNCHANGED <<temp_insert, answer>>
  PROVE  IInv'
  <1>1. /\ pc[t] = "restart"
        /\ UNCHANGED <<slot, temp_insert, max_use, compact_use, compact_full, routed,
                       answer, calls>>
    BY DEF Restart
  <1>2. /\ pc' = [pc EXCEPT ![t] = "idle"] /\ key' = [key EXCEPT ![t] = 0]
        /\ at' = [at EXCEPT ![t] = 0] /\ other' = [other EXCEPT ![t] = 0]
        /\ pc \in [Thread -> Owners \cup Calm] /\ at \in [Thread -> Pos]
        /\ key \in [Thread -> Key \cup {0}] /\ other \in [Thread -> Pos]
    BY DEF Ends, Goto, IInv, TypeOK, Calm
  <1>3. Live' = Live /\ Stored' = Stored /\ \A i : Cached(i)' <=> Cached(i)
    BY <1>1 DEF Live, Stored, Cached
  <1>4. \A u \in Thread \ {t} : /\ pc'[u] = pc[u] /\ key'[u] = key[u]
                               /\ at'[u] = at[u] /\ other'[u] = other[u]
    BY <1>2
  <1>5. pc'[t] = "idle" /\ at'[t] = 0
    BY <1>2
  <1>6. TypeOK' /\ CacheInLeaf' /\ RecordsInv' /\ AnswersAreRight'
    <2>1. /\ pc' \in [Thread -> Owners \cup Calm] /\ at' \in [Thread -> Pos]
          /\ key' \in [Thread -> Key \cup {0}] /\ other' \in [Thread -> Pos]
      <3>1. 0 \in Pos
        BY Sizes DEF Pos
      <3> QED BY <1>2, <3>1 DEF Calm
    <2>2. TypeOK'
      <3>1. /\ temp_insert' \in 0 .. 2 /\ compact_full' \in BOOLEAN /\ calls' \in 0 .. MaxCalls
            /\ answer' \in [got : 0 .. 199, due : 0 .. 199]
        BY <1>1 DEF IInv, TypeOK
      <3> QED BY <1>1, <1>3, <2>1, <3>1, TypeOfRest
    <2> QED BY <1>1, <1>3, <2>2 DEF IInv, CacheInLeaf, RecordsInv, AnswersAreRight
  <1>7. OneOwner'
    BY <1>4, <1>5 DEF IInv, OneOwner, Owners
  <1>8. PairsInv'
    <2>1. \A i : (Writing(i) => Writing(i)') /\ (Lodging(i) => Lodging(i)')
      BY <1>1, <1>4 DEF Writing, Lodging
    <2> QED BY <1>1, <1>3, <2>1 DEF IInv, PairsInv
  <1>9. ASSUME NEW u \in Thread PROVE Here(u)'
    <2>1. CASE u = t
      BY <1>5, <2>1 DEF Here, Finding, AtFinger, AtKey, AtPair, Owners
    <2>2. CASE u # t
      <3>1. Here(u)
        BY DEF IInv, HereInv
      <3>2. /\ pc'[u] = pc[u] /\ key'[u] = key[u] /\ at'[u] = at[u] /\ other'[u] = other[u]
        BY <1>4, <2>2
      <3>3. (Cached(at[u])' <=> Cached(at[u])) /\ (Cached(other[u])' <=> Cached(other[u]))
        BY <1>1, <3>2 DEF Cached
      <3> QED BY <1>1, <1>3, <3>1, <3>2, <3>3 DEF Here, HasLodging, HasRoom
    <2> QED BY <2>1, <2>2
  <1> QED BY <1>6, <1>7, <1>8, <1>9 DEF IInv, HereInv

(* What a write of a word or of a control field leaves of the records.     *)
LEMMA SameRecords ==
  ASSUME IInv, max_use' = max_use, slot' \in [Pos -> Slot],
         \A p \in Live : slot'[p].of = slot[p].of
  PROVE  RecordsInv' /\ Live' = Live /\ Stored' = Stored
  <1>1. Live' = Live
    BY DEF Live
  <1>2. Stored' = Stored
    BY <1>1 DEF Stored
  <1> QED BY <1>1, <1>2 DEF IInv, RecordsInv

LEMMA TypeOfSlots ==
  ASSUME IInv, slot' \in [Pos -> Slot], max_use' = max_use, compact_use' \in Nat,
         routed' = routed, Stored' = Stored,
         temp_insert' \in 0 .. 2, compact_full' \in BOOLEAN, calls' \in 0 .. MaxCalls,
         pc' \in [Thread -> Owners \cup Calm], key' \in [Thread -> Key \cup {0}],
         at' \in [Thread -> Pos], other' \in [Thread -> Pos],
         answer' \in [got : 0 .. 199, due : 0 .. 199]
  PROVE  TypeOK'
  BY DEF IInv, TypeOK, Calm, Slot

(* An access count is no matter to the pairs.                              *)
LEMMA Counted ==
  ASSUME TypeOK, NEW i \in Pos, slot' = [slot EXCEPT ![i].access = Count(@)]
  PROVE  /\ slot' \in [Pos -> Slot]
         /\ \A p \in Pos : /\ slot'[p].of = slot[p].of
                           /\ slot'[p].control = slot[p].control
                           /\ slot'[p].raw = slot[p].raw
  <1>1. slot \in [Pos -> Slot] /\ slot[i] \in Slot /\ slot[i].access \in 0 .. 3
    BY TypeParts
  <1>2. Count(slot[i].access) \in 0 .. 3
    BY <1>1 DEF Count
  <1>3. PICK a \in 0 .. 3 : slot' = [slot EXCEPT ![i].access = a]
    BY <1>2
  <1> QED BY <1>1, <1>3 DEF Slot

LEMMA HitInv ==
  ASSUME IInv, NEW t \in Thread, AloneIn(t), Hit(t)
  PROVE  IInv'
  <1>1. /\ pc[t] = "hit"
        /\ UNCHANGED <<temp_insert, max_use, compact_use, compact_full, routed, calls>>
    BY DEF Hit
  <1>2. /\ Here(t) /\ key[t] \in Key /\ temp_insert <= 1 /\ at[t] \in Live /\ Cached(at[t])
    BY <1>1, Alone DEF IInv, Here, Owners, Finding, AtFinger, AtPair
  <1>3. \A i : ~Lodging(i) /\ ~Writing(i)
    BY <1>1, Alone
  <1>4. /\ slot[slot[at[t]].control].raw = slot[at[t]].of
        /\ slot[at[t]].control \in Pos
    BY <1>2, <1>3, PairFacts DEF IInv, PairsInv
  <1>5. CASE slot[slot[at[t]].control].raw # key[t] /\ NextFinger(t) /\ UNCHANGED slot
    BY <1>1, <1>2, <1>4, <1>5, NextLooked
  <1>6. CASE /\ slot[slot[at[t]].control].raw = key[t]
             /\ slot' = [slot EXCEPT ![at[t]].access = Count(@)]
             /\ Goes(t, "hit_value")
    <2>1. at[t] \in Pos /\ Live \subseteq Pos
      BY <1>2, TypeParts DEF IInv
    <2>2. /\ slot' \in [Pos -> Slot]
          /\ \A p \in Pos : /\ slot'[p].of = slot[p].of
                            /\ slot'[p].control = slot[p].control
                            /\ slot'[p].raw = slot[p].raw
      BY <1>6, <2>1, Counted DEF IInv
    <2>3. RecordsInv' /\ Live' = Live /\ Stored' = Stored
      BY <1>1, <2>1, <2>2, SameRecords
    <2>4. \A i \in Live : Cached(i)' <=> Cached(i)
      BY <1>1, <2>1, <2>2 DEF Cached
    <2>5. /\ pc'[t] = "hit_value" /\ pc' \in [Thread -> Owners \cup Calm]
          /\ UNCHANGED <<key, at, other, answer>>
          /\ key' \in [Thread -> Key \cup {0}]
          /\ at' \in [Thread -> Pos] /\ other' \in [Thread -> Pos]
          /\ answer' \in [got : 0 .. 199, due : 0 .. 199] /\ AnswersAreRight'
      BY <1>6, GoesOn DEF Calm
    <2>6. PairsInv'
      <3>1. ASSUME NEW i \in Live, Cached(i)
            PROVE  /\ slot'[i].control + 1 < compact_use'
                   /\ slot'[slot'[i].control].raw = slot'[i].of
                   /\ slot'[slot'[i].control + 1].raw = Value(slot'[i].of)
        <4>1. /\ slot[i].control \in Pos /\ slot[i].control + 1 \in Pos
              /\ slot[i].control + 1 < compact_use
          BY <1>3, <3>1, PairFacts
        <4>2. /\ slot[slot[i].control].raw = slot[i].of
              /\ slot[slot[i].control + 1].raw = Value(slot[i].of)
          BY <1>3, <3>1 DEF IInv, PairsInv
        <4> QED BY <1>1, <2>1, <2>2, <4>1, <4>2
      <3>2. ASSUME NEW i \in Live, NEW j \in Live, Cached(i), Cached(j), i # j
            PROVE  \/ slot'[i].control + 1 < slot'[j].control
                   \/ slot'[j].control + 1 < slot'[i].control
        BY <2>1, <2>2, <3>2 DEF IInv, PairsInv
      <3> QED BY <2>3, <2>4, <3>1, <3>2 DEF PairsInv
    <2>7. TypeOK'
      <3>1. /\ temp_insert' \in 0 .. 2 /\ compact_full' \in BOOLEAN /\ calls' \in 0 .. MaxCalls
            /\ compact_use' \in Nat
        BY <1>1 DEF IInv, TypeOK
      <3> QED BY <1>1, <2>2, <2>3, <2>5, <3>1, TypeOfSlots
    <2>8. Here(t)'
      <3>1. slot'[slot'[at'[t]].control].raw = key'[t] /\ at'[t] \in Live' /\ Cached(at[t])
        BY <1>2, <1>4, <1>6, <2>1, <2>2, <2>3, <2>5
      <3>2. Cached(at[t])'
        BY <1>1, <1>2, <2>1, <2>2, <2>5 DEF Cached
      <3> QED BY <1>1, <1>2, <2>5, <3>1, <3>2 DEF Here, Finding, AtFinger, AtKey, AtPair, Owners
    <2>9. CacheInLeaf'
      BY <1>1 DEF IInv, CacheInLeaf
    <2> QED BY <2>3, <2>5, <2>6, <2>7, <2>8, <2>9, Alone DEF IInv
  <1> QED BY <1>5, <1>6 DEF Hit

(* A write of a control field.                                             *)
LEMMA Controlled ==
  ASSUME TypeOK, NEW i \in Pos, NEW c \in 0 .. 63, slot' = [slot EXCEPT ![i].control = c]
  PROVE  /\ slot' \in [Pos -> Slot]
         /\ \A p \in Pos : /\ slot'[p].of = slot[p].of
                           /\ slot'[p].control = IF p = i THEN c ELSE slot[p].control
                           /\ slot'[p].raw = slot[p].raw
  <1>1. slot \in [Pos -> Slot] /\ slot[i] \in Slot
    BY TypeParts
  <1> QED BY <1>1 DEF Slot

LEMMA LodgeInv ==
  ASSUME IInv, NEW t \in Thread, AloneIn(t), Lodge(t)
  PROVE  IInv'
  <1>1. /\ pc[t] = "lodge" /\ Goes(t, "lodge_key")
        /\ slot' = [slot EXCEPT ![at[t]].control = compact_use]
        /\ UNCHANGED <<temp_insert, max_use, compact_use, compact_full, routed, calls>>
    BY DEF Lodge
  <1>2. /\ Here(t) /\ key[t] \in Key /\ temp_insert = 1 /\ at[t] \in Live
        /\ slot[at[t]].of = key[t] /\ HasLodging
    BY <1>1, Alone DEF IInv, Here, Owners, Finding, AtFinger, AtKey
  <1>3. \A i : ~Lodging(i) /\ ~Writing(i)
    BY <1>1, Alone
  <1>4. /\ compact_use \in Nat /\ max_use \in Nat /\ max_use <= compact_use
        /\ compact_use \in 0 .. 63 /\ at[t] \in Pos /\ Live \subseteq Pos
    BY <1>2, TypeParts, Sizes DEF IInv, HasLodging, CacheInLeaf
  <1>5. /\ slot' \in [Pos -> Slot]
        /\ \A p \in Pos : /\ slot'[p].of = slot[p].of
                          /\ slot'[p].control = IF p = at[t] THEN compact_use ELSE slot[p].control
                          /\ slot'[p].raw = slot[p].raw
    BY <1>1, <1>4, Controlled DEF IInv
  <1>6. RecordsInv' /\ Live' = Live /\ Stored' = Stored
    BY <1>1, <1>4, <1>5, SameRecords
  <1>7. /\ pc'[t] = "lodge_key" /\ pc' \in [Thread -> Owners \cup Calm]
        /\ UNCHANGED <<key, at, other, answer>>
        /\ key' \in [Thread -> Key \cup {0}]
        /\ at' \in [Thread -> Pos] /\ other' \in [Thread -> Pos]
        /\ answer' \in [got : 0 .. 199, due : 0 .. 199] /\ AnswersAreRight'
    BY <1>1, GoesOn DEF Owners
  <1>8. \A i \in Live : i # at[t] => (Cached(i)' <=> Cached(i))
    BY <1>1, <1>4, <1>5 DEF Cached
  <1>9. Writing(at[t])' /\ Lodging(at[t])'
    BY <1>7, Alone
  <1>10. PairsInv'
    <2>1. ASSUME NEW i \in Live, Cached(i)', i # at[t]
          PROVE  /\ slot'[i].control + 1 < compact_use'
                 /\ slot'[slot'[i].control].raw = slot'[i].of
                 /\ slot'[slot'[i].control + 1].raw = Value(slot'[i].of)
      <3>1. Cached(i)
        BY <1>8, <2>1
      <3>2. /\ slot[i].control \in Pos /\ slot[i].control + 1 \in Pos
            /\ slot[i].control + 1 < compact_use
        BY <1>3, <3>1, PairFacts
      <3>3. /\ slot[slot[i].control].raw = slot[i].of
            /\ slot[slot[i].control + 1].raw = Value(slot[i].of)
        BY <1>3, <3>1 DEF IInv, PairsInv
      <3> QED BY <1>1, <1>4, <1>5, <2>1, <3>2, <3>3
    <2>2. ASSUME NEW i \in Live, NEW j \in Live, Cached(i)', Cached(j)', i # j
          PROVE  \/ slot'[i].control + 1 < slot'[j].control
                 \/ slot'[j].control + 1 < slot'[i].control
      <3>1. CASE i # at[t] /\ j # at[t]
        BY <1>4, <1>5, <1>8, <2>2, <3>1 DEF IInv, PairsInv
      <3>2. CASE i = at[t]
        BY <1>1, <1>4, <1>5, <2>1, <2>2, <3>2
      <3>3. CASE j = at[t]
        BY <1>1, <1>4, <1>5, <2>1, <2>2, <3>3
      <3> QED BY <3>1, <3>2, <3>3
    <2>3. \A i \in Live : i = at[t] => Writing(i)' /\ Lodging(i)'
      BY <1>7, Alone
    <2> QED BY <1>6, <2>1, <2>2, <2>3 DEF PairsInv
  <1>11. TypeOK'
    <2>1. /\ temp_insert' \in 0 .. 2 /\ compact_full' \in BOOLEAN /\ calls' \in 0 .. MaxCalls
          /\ compact_use' \in Nat
      BY <1>1 DEF IInv, TypeOK
    <2> QED BY <1>1, <1>5, <1>6, <1>7, <2>1, TypeOfSlots
  <1>12. Here(t)'
    <2>1. HasLodging' /\ slot'[at'[t]].control = compact_use'
      BY <1>1, <1>2, <1>4, <1>5, <1>7 DEF HasLodging
    <2>2. slot'[at'[t]].of = key'[t]
      BY <1>2, <1>4, <1>5, <1>7
    <2> QED BY <1>1, <1>2, <1>6, <1>7, <2>1, <2>2 DEF Here, Finding, AtFinger, AtKey, AtPair, Owners
  <1>13. CacheInLeaf'
    BY <1>1 DEF IInv, CacheInLeaf
  <1> QED BY <1>6, <1>7, <1>10, <1>11, <1>12, <1>13, Alone DEF IInv

(* A raw word is written behind the fingers.                               *)
LEMMA Written ==
  ASSUME TypeOK, NEW c \in Pos, c \notin Live, NEW w \in 0 .. 199,
         slot' = [slot EXCEPT ![c] = Raw(w)]
  PROVE  /\ slot' \in [Pos -> Slot]
         /\ \A p \in Live : slot'[p] = slot[p]
         /\ \A p \in Pos : slot'[p].raw = IF p = c THEN w ELSE slot[p].raw
  <1>1. slot \in [Pos -> Slot] /\ Live \subseteq Pos
    BY TypeParts
  <1>2. Raw(w) \in Slot /\ Raw(w).raw = w
    BY Words DEF Raw
  <1> QED BY <1>1, <1>2

LEMMA WrittenCounted ==
  ASSUME TypeOK, NEW c \in Pos, c \notin Live, NEW w \in 0 .. 199, NEW i \in Live,
         slot' = [slot EXCEPT ![c] = Raw(w), ![i].access = Count(@)]
  PROVE  /\ slot' \in [Pos -> Slot]
         /\ \A p \in Live : slot'[p].of = slot[p].of /\ slot'[p].control = slot[p].control
         /\ \A p \in Pos : slot'[p].raw = IF p = c THEN w ELSE slot[p].raw
  <1>1. /\ slot \in [Pos -> Slot] /\ Live \subseteq Pos /\ i # c /\ i \in Pos
        /\ slot[i] \in Slot /\ slot[i].access \in 0 .. 3
    BY TypeParts
  <1>2. Raw(w) \in Slot /\ Raw(w).raw = w
    BY Words DEF Raw
  <1>3. Count(slot[i].access) \in 0 .. 3
    BY <1>1 DEF Count
  <1>4. PICK a \in 0 .. 3 : slot' = [slot EXCEPT ![c] = Raw(w), ![i].access = a]
    BY <1>1, <1>3
  <1>5. PICK r : r = Raw(w)
    OBVIOUS
  <1>6. slot' = [slot EXCEPT ![c] = r, ![i] = [slot[i] EXCEPT !.access = a]]
    BY <1>1, <1>4, <1>5
  <1>7. [slot[i] EXCEPT !.access = a] \in Slot
    BY <1>1 DEF Slot
  <1>8. PICK s \in Slot : /\ s = [slot[i] EXCEPT !.access = a]
                          /\ s.of = slot[i].of /\ s.control = slot[i].control
                          /\ s.raw = slot[i].raw
    BY <1>1, <1>7 DEF Slot
  <1>9. slot' = [slot EXCEPT ![c] = r, ![i] = s]
    BY <1>6, <1>8
  <1> QED BY <1>1, <1>2, <1>5, <1>8, <1>9

LEMMA LodgeKeyInv ==
  ASSUME IInv, NEW t \in Thread, AloneIn(t), LodgeKey(t)
  PROVE  IInv'
  <1>1. /\ pc[t] = "lodge_key" /\ Goes(t, "lodge_value")
        /\ slot' = [slot EXCEPT ![compact_use] = Raw(key[t])]
        /\ compact_use' = compact_use + 1
        /\ UNCHANGED <<temp_insert, max_use, compact_full, routed, calls>>
    BY DEF LodgeKey
  <1>2. /\ Here(t) /\ key[t] \in Key /\ temp_insert = 1 /\ at[t] \in Live
        /\ slot[at[t]].of = key[t] /\ HasLodging /\ slot[at[t]].control = compact_use
    BY <1>1, Alone DEF IInv, Here, Owners, Finding, AtFinger, AtKey
  <1>3. \A i : i # at[t] => ~Lodging(i) /\ ~Writing(i)
    BY <1>1, Alone
  <1>4. /\ compact_use \in Nat /\ max_use \in Nat /\ max_use <= compact_use
        /\ compact_use \in Pos /\ compact_use + 1 < MAX_LEAF_KEY /\ MAX_LEAF_KEY \in Nat
        /\ Live \subseteq Pos /\ compact_use \notin Live
    BY TypeParts, Sizes, <1>2 DEF IInv, HasLodging, CacheInLeaf, Pos, Live
  <1>5. /\ slot' \in [Pos -> Slot]
        /\ \A p \in Live : slot'[p] = slot[p]
        /\ \A p \in Pos : slot'[p].raw = IF p = compact_use THEN key[t] ELSE slot[p].raw
    <2>1. key[t] \in 0 .. 199
      BY <1>2, Keys
    <2> QED BY <1>1, <1>4, <2>1, Written DEF IInv
  <1>6. RecordsInv' /\ Live' = Live /\ Stored' = Stored
    BY <1>1, <1>5, SameRecords
  <1>7. /\ pc'[t] = "lodge_value" /\ pc' \in [Thread -> Owners \cup Calm]
        /\ UNCHANGED <<key, at, other, answer>>
        /\ key' \in [Thread -> Key \cup {0}]
        /\ at' \in [Thread -> Pos] /\ other' \in [Thread -> Pos]
        /\ answer' \in [got : 0 .. 199, due : 0 .. 199] /\ AnswersAreRight'
    BY <1>1, GoesOn DEF Owners
  <1>8. \A i \in Live : Cached(i)' <=> Cached(i)
    BY <1>1, <1>5 DEF Cached
  <1>9. PairsInv'
    <2>1. ASSUME NEW i \in Live, Cached(i), i # at[t]
          PROVE  /\ slot'[i].control + 1 < compact_use'
                 /\ slot'[slot'[i].control].raw = slot'[i].of
                 /\ slot'[slot'[i].control + 1].raw = Value(slot'[i].of)
      <3>1. /\ slot[i].control \in Pos /\ slot[i].control + 1 \in Pos
            /\ slot[i].control \in Nat /\ slot[i].control + 1 < compact_use
        BY <1>3, <2>1, PairFacts
      <3>2. /\ slot[slot[i].control].raw = slot[i].of
            /\ slot[slot[i].control + 1].raw = Value(slot[i].of)
        BY <1>3, <2>1 DEF IInv, PairsInv
      <3>3. slot[i].control # compact_use /\ slot[i].control + 1 # compact_use
            /\ slot[i].control + 1 < compact_use + 1
        BY <1>4, <3>1
      <3> QED BY <1>1, <1>5, <3>1, <3>2, <3>3
    <2>2. ASSUME NEW i \in Live, NEW j \in Live, Cached(i), Cached(j), i # j
          PROVE  \/ slot'[i].control + 1 < slot'[j].control
                 \/ slot'[j].control + 1 < slot'[i].control
      BY <1>5, <2>2 DEF IInv, PairsInv
    <2>3. \A i \in Live : i = at[t] => Writing(i)' /\ Lodging(i)'
      BY <1>7, Alone
    <2> QED BY <1>6, <1>8, <2>1, <2>2, <2>3 DEF PairsInv
  <1>10. TypeOK'
    <2>1. /\ temp_insert' \in 0 .. 2 /\ compact_full' \in BOOLEAN /\ calls' \in 0 .. MaxCalls
          /\ compact_use' \in Nat
      BY <1>1, <1>4 DEF IInv, TypeOK
    <2> QED BY <1>1, <1>5, <1>6, <1>7, <2>1, TypeOfSlots
  <1>11. Here(t)'
    <2>1. /\ slot'[at'[t]].control + 1 = compact_use' /\ max_use' < compact_use'
          /\ compact_use' < MAX_LEAF_KEY
      BY <1>1, <1>2, <1>4, <1>5, <1>7
    <2>2. slot'[at'[t]].of = key'[t] /\ slot'[slot'[at'[t]].control].raw = key'[t]
      BY <1>2, <1>4, <1>5, <1>7
    <2> QED BY <1>1, <1>2, <1>6, <1>7, <2>1, <2>2 DEF Here, Finding, AtFinger, AtKey, AtPair, Owners
  <1>12. CacheInLeaf'
    BY <1>1, <1>4 DEF CacheInLeaf
  <1> QED BY <1>6, <1>7, <1>9, <1>10, <1>11, <1>12, Alone DEF IInv

LEMMA LodgeValueInv ==
  ASSUME IInv, NEW t \in Thread, AloneIn(t), LodgeValue(t)
  PROVE  IInv'
  <1>1. /\ pc[t] = "lodge_value" /\ FindAnswers(t, Value(key[t]))
        /\ slot' = [slot EXCEPT ![compact_use] = Raw(Value(key[t])), ![at[t]].access = Count(@)]
        /\ compact_use' = compact_use + 1 /\ temp_insert' = 0
        /\ UNCHANGED <<max_use, compact_full, routed, calls>>
    BY DEF LodgeValue
  <1>2. /\ Here(t) /\ key[t] \in Key /\ at[t] \in Live
        /\ slot[at[t]].of = key[t] /\ slot[at[t]].control + 1 = compact_use
        /\ max_use < compact_use /\ compact_use < MAX_LEAF_KEY
        /\ slot[slot[at[t]].control].raw = key[t]
    BY <1>1, Alone DEF IInv, Here, Owners, Finding, AtFinger, AtKey
  <1>3. \A i : i # at[t] => ~Lodging(i) /\ ~Writing(i)
    BY <1>1, Alone
  <1>4. /\ compact_use \in Nat /\ max_use \in Nat
        /\ compact_use \in Pos /\ MAX_LEAF_KEY \in Nat
        /\ Live \subseteq Pos /\ compact_use \notin Live
        /\ slot[at[t]].control \in Nat /\ slot[at[t]].control \in Pos
        /\ slot[at[t]].control # compact_use
    <2>1. /\ compact_use \in Nat /\ max_use \in Nat /\ MAX_LEAF_KEY \in Nat
          /\ Live \subseteq Pos /\ slot[at[t]].control \in 0 .. 63
      BY TypeParts, Sizes, <1>2 DEF IInv
    <2> QED BY <1>2, <2>1 DEF Pos, Live
  <1>5. /\ slot' \in [Pos -> Slot]
        /\ \A p \in Live : slot'[p].of = slot[p].of /\ slot'[p].control = slot[p].control
        /\ \A p \in Pos : slot'[p].raw = IF p = compact_use THEN Value(key[t]) ELSE slot[p].raw
    <2>1. Value(key[t]) \in 0 .. 199
      BY <1>2, Keys
    <2>2. PICK c, w, i : c = compact_use /\ w = Value(key[t]) /\ i = at[t]
      OBVIOUS
    <2>3. /\ TypeOK /\ c \in Pos /\ c \notin Live /\ w \in 0 .. 199 /\ i \in Live
          /\ slot' = [slot EXCEPT ![c] = Raw(w), ![i].access = Count(@)]
      BY <1>1, <1>2, <1>4, <2>1, <2>2 DEF IInv
    <2>4. /\ slot' \in [Pos -> Slot]
          /\ \A p \in Live : slot'[p].of = slot[p].of /\ slot'[p].control = slot[p].control
          /\ \A p \in Pos : slot'[p].raw = IF p = c THEN w ELSE slot[p].raw
      BY ONLY <2>3, WrittenCounted
    <2> QED BY ONLY <2>2, <2>4
  <1>6. RecordsInv' /\ Live' = Live /\ Stored' = Stored
    BY <1>1, <1>5, SameRecords
  <1>7. /\ pc'[t] = "idle" /\ pc' \in [Thread -> Owners \cup Calm]
        /\ key' \in [Thread -> Key \cup {0}]
        /\ at' \in [Thread -> Pos] /\ other' \in [Thread -> Pos] /\ Here(t)'
    BY <1>1, EndOf DEF FindAnswers
  <1>8. AnswersAreRight' /\ answer' \in [got : 0 .. 199, due : 0 .. 199]
    <2>1. key[t] \in Stored
      BY <1>2 DEF Stored
    <2> QED BY <1>1, <2>1, FindAnswer DEF IInv
  <1>9. \A i \in Live : Cached(i)' <=> Cached(i)
    BY <1>1, <1>5 DEF Cached
  <1>10. PairsInv'
    <2>1. ASSUME NEW i \in Live, Cached(i), i # at[t]
          PROVE  /\ slot'[i].control + 1 < compact_use'
                 /\ slot'[slot'[i].control].raw = slot'[i].of
                 /\ slot'[slot'[i].control + 1].raw = Value(slot'[i].of)
      <3>1. /\ slot[i].control \in Pos /\ slot[i].control + 1 \in Pos
            /\ slot[i].control \in Nat /\ slot[i].control + 1 < compact_use
        BY <1>3, <2>1, PairFacts
      <3>2. /\ slot[slot[i].control].raw = slot[i].of
            /\ slot[slot[i].control + 1].raw = Value(slot[i].of)
        BY <1>3, <2>1 DEF IInv, PairsInv
      <3>3. slot[i].control # compact_use /\ slot[i].control + 1 # compact_use
            /\ slot[i].control + 1 < compact_use + 1
        BY <1>4, <3>1
      <3>4. /\ slot'[i].of = slot[i].of /\ slot'[i].control = slot[i].control
            /\ compact_use' = compact_use + 1
        BY <1>1, <1>5
      <3>5. /\ slot'[slot[i].control].raw = slot[slot[i].control].raw
            /\ slot'[slot[i].control + 1].raw = slot[slot[i].control + 1].raw
        BY ONLY <1>5, <3>1, <3>3
      <3> QED BY ONLY <3>2, <3>3, <3>4, <3>5
    <2>2. ASSUME NEW i \in Live, i = at[t]
          PROVE  /\ slot'[i].control + 1 < compact_use'
                 /\ slot'[slot'[i].control].raw = slot'[i].of
                 /\ slot'[slot'[i].control + 1].raw = Value(slot'[i].of)
      BY <1>1, <1>2, <1>4, <1>5, <2>2
    <2>3. ASSUME NEW i \in Live, NEW j \in Live, Cached(i), Cached(j), i # j
          PROVE  \/ slot'[i].control + 1 < slot'[j].control
                 \/ slot'[j].control + 1 < slot'[i].control
      BY <1>5, <2>3 DEF IInv, PairsInv
    <2> QED BY <1>6, <1>9, <2>1, <2>2, <2>3 DEF PairsInv
  <1>11. TypeOK'
    <2>1. /\ temp_insert' \in 0 .. 2 /\ compact_full' \in BOOLEAN /\ calls' \in 0 .. MaxCalls
          /\ compact_use' \in Nat
      BY <1>1, <1>4 DEF IInv, TypeOK
    <2> QED BY <1>1, <1>5, <1>6, <1>7, <1>8, <2>1, TypeOfSlots
  <1>12. CacheInLeaf'
    BY <1>1, <1>2, <1>4 DEF CacheInLeaf
  <1> QED BY <1>6, <1>7, <1>8, <1>10, <1>11, <1>12, Alone DEF IInv

LEMMA ReplaceInv ==
  ASSUME IInv, NEW t \in Thread, AloneIn(t), Replace(t)
  PROVE  IInv'
  <1>1. /\ pc[t] = "replace" /\ Goes(t, "replace_key")
        /\ slot' = [slot EXCEPT ![at[t]].control = slot[other[t]].control,
                                ![other[t]].control = 0]
        /\ UNCHANGED <<temp_insert, max_use, compact_use, compact_full, routed, calls>>
    BY DEF Replace
  <1>2. /\ Here(t) /\ key[t] \in Key /\ temp_insert = 1 /\ at[t] \in Live
        /\ slot[at[t]].of = key[t]
        /\ other[t] \in Live /\ other[t] # at[t] /\ Cached(other[t])
    BY <1>1, Alone DEF IInv, Here, Owners, Finding, AtFinger, AtKey
  <1>3. \A i : ~Lodging(i) /\ ~Writing(i)
    BY <1>1, Alone
  <1>4. PICK a, j, c : a = at[t] /\ j = other[t] /\ c = slot[other[t]].control
    OBVIOUS
  <1>5. /\ a \in Live /\ j \in Live /\ a # j /\ a \in Pos /\ j \in Pos /\ Live \subseteq Pos
        /\ c \in 0 .. 63 /\ max_use \in Nat /\ max_use > 0 /\ compact_use \in Nat
        /\ slot[j].control = c /\ max_use <= c /\ Cached(j)
    <2>1. /\ a \in Live /\ j \in Live /\ a # j /\ slot[j].control = c /\ Cached(j)
      BY <1>2, <1>4
    <2>2. /\ Live \subseteq Pos /\ max_use \in Nat /\ compact_use \in Nat /\ c \in 0 .. 63
      BY <2>1, TypeParts DEF IInv
    <2>3. max_use > 0
      BY <2>2, Sizes DEF IInv, RecordsInv
    <2> QED BY <2>1, <2>2, <2>3 DEF Cached
  <1>6. /\ slot' \in [Pos -> Slot]
        /\ \A p \in Pos : /\ slot'[p].of = slot[p].of
                          /\ slot'[p].control = IF p = a THEN c ELSE IF p = j THEN 0
                                                ELSE slot[p].control
                          /\ slot'[p].raw = slot[p].raw
    <2>1. slot \in [Pos -> Slot] /\ slot[a] \in Slot /\ slot[j] \in Slot
      BY <1>5, TypeParts DEF IInv
    <2>2. slot' = [slot EXCEPT ![a] = [slot[a] EXCEPT !.control = c],
                               ![j] = [slot[j] EXCEPT !.control = 0]]
      BY <1>1, <1>4, <1>5, <2>1
    <2>3. PICK r \in Slot : /\ r = [slot[a] EXCEPT !.control = c] /\ r.control = c
                            /\ r.of = slot[a].of /\ r.raw = slot[a].raw
      <3> DEFINE new == [slot[a] EXCEPT !.control = c]
      <3>1. new \in Slot
        BY <1>5, <2>1 DEF Slot
      <3>2. new.control = c /\ new.of = slot[a].of /\ new.raw = slot[a].raw
        BY <2>1 DEF Slot
      <3> QED BY <3>1, <3>2
    <2>4. PICK s \in Slot : /\ s = [slot[j] EXCEPT !.control = 0] /\ s.control = 0
                            /\ s.of = slot[j].of /\ s.raw = slot[j].raw
      <3> DEFINE new == [slot[j] EXCEPT !.control = 0]
      <3>1. new \in Slot
        BY <1>5, <2>1 DEF Slot
      <3>2. new.control = 0 /\ new.of = slot[j].of /\ new.raw = slot[j].raw
        BY <2>1 DEF Slot
      <3> QED BY <3>1, <3>2
    <2>5. slot' = [slot EXCEPT ![a] = r, ![j] = s]
      BY <2>2, <2>3, <2>4
    <2> QED BY <1>5, <2>1, <2>3, <2>4, <2>5
  <1>7. RecordsInv' /\ Live' = Live /\ Stored' = Stored
    BY <1>1, <1>5, <1>6, SameRecords
  <1>8. /\ pc'[t] = "replace_key" /\ pc' \in [Thread -> Owners \cup Calm]
        /\ UNCHANGED <<key, at, other, answer>>
        /\ key' \in [Thread -> Key \cup {0}]
        /\ at' \in [Thread -> Pos] /\ other' \in [Thread -> Pos]
        /\ answer' \in [got : 0 .. 199, due : 0 .. 199] /\ AnswersAreRight'
    BY <1>1, GoesOn DEF Owners
  <1>9. /\ \A i \in Live : i # a /\ i # j => (Cached(i)' <=> Cached(i))
        /\ ~ Cached(j)' /\ Cached(a)'
    BY <1>1, <1>5, <1>6 DEF Cached
  <1>10. PairsInv'
    <2>1. ASSUME NEW i \in Live, Cached(i)', i # a
          PROVE  /\ slot'[i].control + 1 < compact_use'
                 /\ slot'[slot'[i].control].raw = slot'[i].of
                 /\ slot'[slot'[i].control + 1].raw = Value(slot'[i].of)
      <3>1. Cached(i) /\ i # j
        BY <1>9, <2>1
      <3>2. /\ slot[i].control \in Pos /\ slot[i].control + 1 \in Pos
            /\ slot[i].control + 1 < compact_use
        BY <1>3, <3>1, PairFacts
      <3>3. /\ slot[slot[i].control].raw = slot[i].of
            /\ slot[slot[i].control + 1].raw = Value(slot[i].of)
        BY <1>3, <3>1 DEF IInv, PairsInv
      <3> QED BY <1>1, <1>5, <1>6, <2>1, <3>1, <3>2, <3>3
    <2>2. slot'[a].control + 1 < compact_use'
      BY <1>1, <1>3, <1>5, <1>6, PairFacts
    <2>3. ASSUME NEW i \in Live, NEW k \in Live, Cached(i)', Cached(k)', i # k
          PROVE  \/ slot'[i].control + 1 < slot'[k].control
                 \/ slot'[k].control + 1 < slot'[i].control
      <3> DEFINE Old(p) == IF p = a THEN j ELSE p
      <3>1. /\ Old(i) \in Live /\ Old(k) \in Live /\ Old(i) # Old(k)
            /\ Cached(Old(i)) /\ Cached(Old(k))
        BY <1>5, <1>9, <2>3
      <3>2. slot'[i].control = slot[Old(i)].control /\ slot'[k].control = slot[Old(k)].control
        BY <1>5, <1>6, <1>9, <2>3
      <3> HIDE DEF Old
      <3> QED BY <3>1, <3>2 DEF IInv, PairsInv
    <2>4. Writing(a)'
      BY <1>4, <1>8, Alone
    <2> QED BY <1>7, <2>1, <2>2, <2>3, <2>4 DEF PairsInv
  <1>11. TypeOK'
    <2>1. /\ temp_insert' \in 0 .. 2 /\ compact_full' \in BOOLEAN /\ calls' \in 0 .. MaxCalls
          /\ compact_use' \in Nat
      BY <1>1 DEF IInv, TypeOK
    <2> QED BY <1>1, <1>6, <1>7, <1>8, <2>1, TypeOfSlots
  <1>12. Here(t)'
    <2>1. at'[t] = a /\ key'[t] \in Key
      BY <1>2, <1>4, <1>8
    <2>2. slot'[a].of = key'[t] /\ Cached(at[t])'
      BY <1>2, <1>4, <1>5, <1>6, <1>8, <1>9 DEF Cached
    <2> QED BY <1>1, <1>2, <1>5, <1>7, <1>8, <2>1, <2>2 DEF Here, Finding, AtFinger, AtKey, AtPair, Owners
  <1>13. CacheInLeaf'
    BY <1>1 DEF IInv, CacheInLeaf
  <1> QED BY <1>7, <1>8, <1>10, <1>11, <1>12, <1>13, Alone DEF IInv

(* The pair of the finger at is written, which no other finger believes.   *)
LEMMA Overwritten ==
  ASSUME IInv, NEW a \in Live, Cached(a), ~Lodging(a), NEW i \in Live, Cached(i), i # a,
         ~Lodging(i), ~Writing(i), NEW c \in {slot[a].control, slot[a].control + 1},
         \A p \in Live : slot'[p].of = slot[p].of /\ slot'[p].control = slot[p].control,
         \A p \in Pos : p # c => slot'[p].raw = slot[p].raw
  PROVE  /\ slot'[slot'[i].control].raw = slot'[i].of
         /\ slot'[slot'[i].control + 1].raw = Value(slot'[i].of)
  <1>1. /\ slot[i].control \in Pos /\ slot[i].control + 1 \in Pos /\ slot[i].control \in Nat
        /\ slot[a].control \in Nat
    BY PairFacts
  <1>2. /\ slot[slot[i].control].raw = slot[i].of
        /\ slot[slot[i].control + 1].raw = Value(slot[i].of)
    BY DEF IInv, PairsInv
  <1>3. \/ slot[i].control + 1 < slot[a].control
        \/ slot[a].control + 1 < slot[i].control
    BY DEF IInv, PairsInv
  <1>4. slot[i].control # c /\ slot[i].control + 1 # c
    BY <1>1, <1>3
  <1> QED BY <1>1, <1>2, <1>4

LEMMA ReplaceKeyInv ==
  ASSUME IInv, NEW t \in Thread, AloneIn(t), ReplaceKey(t)
  PROVE  IInv'
  <1>1. /\ pc[t] = "replace_key" /\ Goes(t, "replace_value")
        /\ slot' = [slot EXCEPT ![slot[at[t]].control] = Raw(key[t])]
        /\ UNCHANGED <<temp_insert, max_use, compact_use, compact_full, routed, calls>>
    BY DEF ReplaceKey
  <1>2. /\ Here(t) /\ key[t] \in Key /\ temp_insert = 1 /\ at[t] \in Live
        /\ slot[at[t]].of = key[t] /\ Cached(at[t])
    BY <1>1, Alone DEF IInv, Here, Owners, Finding, AtFinger, AtKey, AtPair
  <1>3. /\ \A i : ~Lodging(i)
        /\ \A i : i # at[t] => ~Writing(i)
    BY <1>1, Alone
  <1>4. PICK a, c : a = at[t] /\ c = slot[at[t]].control
    OBVIOUS
  <1>5. /\ a \in Live /\ Cached(a) /\ c = slot[a].control /\ Live \subseteq Pos
        /\ c \in Pos /\ c \notin Live
    <2>1. a \in Live /\ Cached(a) /\ c = slot[a].control
      BY <1>2, <1>4
    <2>2. /\ c \in Nat /\ c \in Pos /\ max_use <= c /\ max_use \in Nat
          /\ Live \subseteq Pos
      BY <1>3, <2>1, PairFacts, TypeParts DEF IInv
    <2> QED BY <2>1, <2>2 DEF Live
  <1>6. /\ slot' \in [Pos -> Slot]
        /\ \A p \in Live : slot'[p] = slot[p]
        /\ \A p \in Pos : slot'[p].raw = IF p = c THEN key[t] ELSE slot[p].raw
    <2>1. key[t] \in 0 .. 199 /\ slot' = [slot EXCEPT ![c] = Raw(key[t])]
      BY <1>1, <1>2, <1>4, Keys
    <2> QED BY <1>5, <2>1, Written DEF IInv
  <1>7. RecordsInv' /\ Live' = Live /\ Stored' = Stored
    BY <1>1, <1>6, SameRecords
  <1>8. /\ pc'[t] = "replace_value" /\ pc' \in [Thread -> Owners \cup Calm]
        /\ UNCHANGED <<key, at, other, answer>>
        /\ key' \in [Thread -> Key \cup {0}]
        /\ at' \in [Thread -> Pos] /\ other' \in [Thread -> Pos]
        /\ answer' \in [got : 0 .. 199, due : 0 .. 199] /\ AnswersAreRight'
    BY <1>1, GoesOn DEF Owners
  <1>9. \A i \in Live : Cached(i)' <=> Cached(i)
    BY <1>1, <1>6 DEF Cached
  <1>10. PairsInv'
    <2>1. ASSUME NEW i \in Live, Cached(i)
          PROVE  /\ slot'[i].control + 1 < compact_use'
                 /\ i = a \/ /\ slot'[slot'[i].control].raw = slot'[i].of
                             /\ slot'[slot'[i].control + 1].raw = Value(slot'[i].of)
      <3>1. slot'[i].control + 1 < compact_use'
        <4>1. slot[i].control + 1 < compact_use
          BY <1>3, <2>1, PairFacts
        <4> QED BY <1>1, <1>6, <4>1
      <3>2. ASSUME i # a
            PROVE  /\ slot'[slot'[i].control].raw = slot'[i].of
                   /\ slot'[slot'[i].control + 1].raw = Value(slot'[i].of)
        BY <1>3, <1>4, <1>5, <1>6, <2>1, <3>2, Overwritten
      <3> QED BY <3>1, <3>2
    <2>2. ASSUME NEW i \in Live, NEW j \in Live, Cached(i), Cached(j), i # j
          PROVE  \/ slot'[i].control + 1 < slot'[j].control
                 \/ slot'[j].control + 1 < slot'[i].control
      BY <1>6, <2>2 DEF IInv, PairsInv
    <2>3. Writing(a)'
      BY <1>4, <1>8, Alone
    <2> QED BY <1>7, <1>9, <2>1, <2>2, <2>3 DEF PairsInv
  <1>11. TypeOK'
    <2>1. /\ temp_insert' \in 0 .. 2 /\ compact_full' \in BOOLEAN /\ calls' \in 0 .. MaxCalls
          /\ compact_use' \in Nat
      BY <1>1 DEF IInv, TypeOK
    <2> QED BY <1>1, <1>6, <1>7, <1>8, <2>1, TypeOfSlots
  <1>12. Here(t)'
    <2>1. at'[t] = a /\ key'[t] \in Key
      BY <1>2, <1>4, <1>8
    <2>2. /\ slot'[a].of = key'[t] /\ Cached(at[t])'
          /\ slot'[slot'[a].control].raw = key'[t]
      BY <1>1, <1>2, <1>4, <1>5, <1>6, <1>8 DEF Cached
    <2> QED BY <1>1, <1>2, <1>5, <1>7, <1>8, <2>1, <2>2 DEF Here, Finding, AtFinger, AtKey, AtPair, Owners
  <1>13. CacheInLeaf'
    BY <1>1 DEF IInv, CacheInLeaf
  <1> QED BY <1>7, <1>8, <1>10, <1>11, <1>12, <1>13, Alone DEF IInv

LEMMA ReplaceValueInv ==
  ASSUME IInv, NEW t \in Thread, AloneIn(t), ReplaceValue(t)
  PROVE  IInv'
  <1>1. /\ pc[t] = "replace_value" /\ FindAnswers(t, Value(key[t]))
        /\ slot' = [slot EXCEPT ![slot[at[t]].control + 1] = Raw(Value(key[t])),
                                ![at[t]].access = Count(@)]
        /\ temp_insert' = 0
        /\ UNCHANGED <<max_use, compact_use, compact_full, routed, calls>>
    BY DEF ReplaceValue
  <1>2. /\ Here(t) /\ key[t] \in Key /\ at[t] \in Live
        /\ slot[at[t]].of = key[t] /\ Cached(at[t])
        /\ slot[slot[at[t]].control].raw = key[t]
    BY <1>1, Alone DEF IInv, Here, Owners, Finding, AtFinger, AtKey, AtPair
  <1>3. /\ \A i : ~Lodging(i)
        /\ \A i : i # at[t] => ~Writing(i)
    BY <1>1, Alone
  <1>4. PICK a, c, w : a = at[t] /\ c = slot[at[t]].control + 1 /\ w = Value(key[t])
    OBVIOUS
  <1>5. /\ a \in Live /\ Cached(a) /\ c = slot[a].control + 1 /\ Live \subseteq Pos
        /\ c \in Pos /\ c \notin Live /\ w \in 0 .. 199
        /\ slot[a].control \in Pos /\ slot[a].control \in Nat
    <2>1. a \in Live /\ Cached(a) /\ c = slot[a].control + 1 /\ w \in 0 .. 199
      BY <1>2, <1>4, Keys
    <2>2. /\ slot[a].control \in Nat /\ c \in Pos /\ max_use <= slot[a].control
          /\ max_use \in Nat /\ Live \subseteq Pos /\ slot[a].control \in Pos
      BY <1>3, <2>1, PairFacts, TypeParts DEF IInv
    <2> QED BY <2>1, <2>2 DEF Live
  <1>6. /\ slot' \in [Pos -> Slot]
        /\ \A p \in Live : slot'[p].of = slot[p].of /\ slot'[p].control = slot[p].control
        /\ \A p \in Pos : slot'[p].raw = IF p = c THEN w ELSE slot[p].raw
    <2>1. /\ TypeOK /\ c \in Pos /\ c \notin Live /\ w \in 0 .. 199 /\ a \in Live
          /\ slot' = [slot EXCEPT ![c] = Raw(w), ![a].access = Count(@)]
      BY <1>1, <1>4, <1>5 DEF IInv
    <2> QED BY ONLY <2>1, WrittenCounted
  <1>7. RecordsInv' /\ Live' = Live /\ Stored' = Stored
    BY <1>1, <1>6, SameRecords
  <1>8. /\ pc'[t] = "idle" /\ pc' \in [Thread -> Owners \cup Calm]
        /\ key' \in [Thread -> Key \cup {0}]
        /\ at' \in [Thread -> Pos] /\ other' \in [Thread -> Pos] /\ Here(t)'
    BY <1>1, EndOf DEF FindAnswers
  <1>9. AnswersAreRight' /\ answer' \in [got : 0 .. 199, due : 0 .. 199]
    <2>1. key[t] \in Stored
      BY <1>2 DEF Stored
    <2> QED BY <1>1, <2>1, FindAnswer DEF IInv
  <1>10. \A i \in Live : Cached(i)' <=> Cached(i)
    BY <1>1, <1>6 DEF Cached
  <1>11. PairsInv'
    <2>1. ASSUME NEW i \in Live, Cached(i)
          PROVE  /\ slot'[i].control + 1 < compact_use'
                 /\ slot'[slot'[i].control].raw = slot'[i].of
                 /\ slot'[slot'[i].control + 1].raw = Value(slot'[i].of)
      <3>1. slot'[i].control + 1 < compact_use'
        <4>1. slot[i].control + 1 < compact_use
          BY <1>3, <2>1, PairFacts
        <4> QED BY <1>1, <1>6, <4>1
      <3>2. CASE i # a
        <4>1. ~Lodging(i) /\ ~Writing(i) /\ ~Lodging(a)
          BY <1>3, <1>4, <3>2
        <4>2. \A p \in Pos : p # c => slot'[p].raw = slot[p].raw
          BY <1>6
        <4> QED BY <1>5, <1>6, <2>1, <3>1, <3>2, <4>1, <4>2, Overwritten
      <3>3. CASE i = a
        <4>1. slot[a].control # c /\ slot[slot[a].control].raw = slot[a].of /\ w = Value(slot[a].of)
          BY <1>2, <1>4, <1>5
        <4> QED BY <1>5, <1>6, <3>1, <3>3, <4>1
      <3> QED BY <3>2, <3>3
    <2>2. ASSUME NEW i \in Live, NEW j \in Live, Cached(i), Cached(j), i # j
          PROVE  \/ slot'[i].control + 1 < slot'[j].control
                 \/ slot'[j].control + 1 < slot'[i].control
      BY <1>6, <2>2 DEF IInv, PairsInv
    <2> QED BY <1>7, <1>10, <2>1, <2>2 DEF PairsInv
  <1>12. TypeOK'
    <2>1. /\ temp_insert' \in 0 .. 2 /\ compact_full' \in BOOLEAN /\ calls' \in 0 .. MaxCalls
          /\ compact_use' \in Nat
      BY <1>1 DEF IInv, TypeOK
    <2> QED BY <1>1, <1>6, <1>7, <1>8, <1>9, <2>1, TypeOfSlots
  <1>13. CacheInLeaf'
    BY <1>1 DEF IInv, CacheInLeaf
  <1> QED BY <1>7, <1>8, <1>9, <1>11, <1>12, <1>13, Alone DEF IInv

LEMMA AppendInv ==
  ASSUME IInv, NEW t \in Thread, AloneIn(t), InsertAppend(t)
  PROVE  IInv'
  <1>1. /\ pc[t] = "append" /\ InsertAnswers(t, 1)
        /\ slot' = [slot EXCEPT ![max_use] = Finger(key[t])]
        /\ max_use' = max_use + 1
        /\ compact_use' = IF max_use = compact_use THEN compact_use + 1 ELSE compact_use
        /\ temp_insert' = 0
        /\ UNCHANGED <<compact_full, routed, calls>>
    BY DEF InsertAppend
  <1>2. /\ Here(t) /\ key[t] \in Key /\ key[t] \notin Stored /\ HasRoom
    BY <1>1, Alone DEF IInv, Here, Owners
  <1>3. \A i : ~Lodging(i) /\ ~Writing(i)
    BY <1>1, Alone
  <1>4. PICK m, k : m = max_use /\ k = key[t]
    OBVIOUS
  <1>5. /\ m \in Nat /\ m < MAX_LEAF_KEY /\ compact_use \in Nat /\ MAX_LEAF_KEY \in Nat
        /\ m \in Pos /\ k \in Key /\ k # 0 /\ Live \subseteq Pos /\ m \notin Live
        /\ LEFT_KEY \in Nat \ {0} /\ LEFT_KEY <= m
        /\ m <= compact_use /\ compact_use <= MAX_LEAF_KEY
        /\ \A i \in Live : i \in Nat /\ i < m
    <2>1. /\ m \in Nat /\ compact_use \in Nat /\ Live \subseteq Pos /\ k \in Key /\ k # 0
          /\ m < MAX_LEAF_KEY /\ MAX_LEAF_KEY \in Nat /\ LEFT_KEY \in Nat \ {0}
      BY <1>2, <1>4, TypeParts, Sizes, Keys DEF IInv, HasRoom
    <2>2. LEFT_KEY <= m /\ m <= compact_use /\ compact_use <= MAX_LEAF_KEY
      BY <1>4 DEF IInv, RecordsInv, CacheInLeaf
    <2> QED BY <1>4, <2>1, <2>2 DEF Live, Pos
  <1>6. /\ slot' \in [Pos -> Slot]
        /\ \A p \in Live : slot'[p] = slot[p]
        /\ \A p \in Pos : p # m => slot'[p] = slot[p]
        /\ slot'[m].of = k /\ slot'[m].control = 0
    <2>1. slot \in [Pos -> Slot] /\ Finger(k) \in Slot
      BY <1>5, TypeParts, Words DEF IInv
    <2>2. Finger(k).of = k /\ Finger(k).control = 0
      BY DEF Finger
    <2>3. slot' = [slot EXCEPT ![m] = Finger(k)]
      BY <1>1, <1>4
    <2> HIDE DEF Finger
    <2> QED BY <1>5, <2>1, <2>2, <2>3
  <1>7. Live' = Live \cup {m} /\ max_use' = m + 1
    <2>1. max_use' = m + 1
      BY <1>1, <1>4
    <2> QED BY <1>4, <1>5, <2>1 DEF Live, Pos
  <1>8. Stored' = Stored \cup {k}
    <2>1. Stored' = {slot'[i].of : i \in Live'}
      BY DEF Stored
    <2> QED BY <1>6, <1>7, <2>1 DEF Stored
  <1>9. RecordsInv'
    <2>1. \A i \in Live : slot[i].of # k
      BY <1>2, <1>4 DEF Stored
    <2>2. LEFT_KEY <= max_use'
      BY <1>5, <1>7
    <2> QED BY <1>5, <1>6, <1>7, <2>1, <2>2 DEF IInv, RecordsInv
  <1>10. /\ pc'[t] = "idle" /\ pc' \in [Thread -> Owners \cup Calm]
        /\ key' \in [Thread -> Key \cup {0}]
        /\ at' \in [Thread -> Pos] /\ other' \in [Thread -> Pos] /\ Here(t)'
    BY <1>1, EndOf DEF InsertAnswers
  <1>11. AnswersAreRight' /\ answer' \in [got : 0 .. 199, due : 0 .. 199]
    <2>1. answer' = [got |-> 1, due |-> 1]
      BY <1>1, <1>2 DEF InsertAnswers
    <2> QED BY <2>1 DEF AnswersAreRight
  <1>12. /\ compact_use' \in Nat /\ max_use' <= compact_use' /\ compact_use' <= MAX_LEAF_KEY
    <2>1. compact_use' = IF m = compact_use THEN compact_use + 1 ELSE compact_use
      BY <1>1, <1>4
    <2> QED BY <1>5, <1>7, <2>1
  <1>13. PairsInv'
    <2>1. ASSUME NEW i \in Live', Cached(i)' PROVE i \in Live /\ Cached(i) /\ slot[i].control > m
      <3>1. slot'[i].control >= m + 1
        BY <1>7, <2>1 DEF Cached
      <3>2. i \in Live
        BY <1>5, <1>6, <1>7, <2>1, <3>1
      <3>3. slot[i].control \in 0 .. 63 /\ slot'[i] = slot[i]
        BY <1>5, <1>6, <3>2, TypeParts DEF IInv
      <3> QED BY <1>4, <1>5, <3>1, <3>2, <3>3 DEF Cached
    <2>2. ASSUME NEW i \in Live', Cached(i)'
          PROVE  /\ slot'[i].control + 1 < compact_use'
                 /\ slot'[slot'[i].control].raw = slot'[i].of
                 /\ slot'[slot'[i].control + 1].raw = Value(slot'[i].of)
      <3>1. i \in Live /\ Cached(i) /\ slot[i].control > m /\ slot'[i] = slot[i]
        BY <1>6, <2>1, <2>2
      <3>2. /\ slot[i].control \in Pos /\ slot[i].control + 1 \in Pos
            /\ slot[i].control \in Nat /\ slot[i].control + 1 < compact_use
        BY <1>3, <3>1, PairFacts
      <3>3. /\ slot[slot[i].control].raw = slot[i].of
            /\ slot[slot[i].control + 1].raw = Value(slot[i].of)
        BY <1>3, <3>1 DEF IInv, PairsInv
      <3>4. slot[i].control # m /\ slot[i].control + 1 # m
        BY <1>5, <3>1, <3>2
      <3>5. compact_use <= compact_use'
        BY <1>1, <1>5
      <3>6. slot'[i].control + 1 < compact_use'
        BY <1>5, <1>12, <3>1, <3>2, <3>5
      <3> QED BY <1>6, <3>1, <3>2, <3>3, <3>4, <3>6
    <2>3. ASSUME NEW i \in Live', NEW j \in Live', Cached(i)', Cached(j)', i # j
          PROVE  \/ slot'[i].control + 1 < slot'[j].control
                 \/ slot'[j].control + 1 < slot'[i].control
      <3>1. i \in Live /\ Cached(i) /\ j \in Live /\ Cached(j)
        BY <2>1, <2>3
      <3> QED BY <1>6, <2>3, <3>1 DEF IInv, PairsInv
    <2> QED BY <2>2, <2>3 DEF PairsInv
  <1>14. TypeOK'
    <2>1. /\ temp_insert' \in 0 .. 2 /\ compact_full' \in BOOLEAN /\ calls' \in 0 .. MaxCalls
          /\ routed' \subseteq Key
      BY <1>1 DEF IInv, TypeOK
    <2>2. max_use' \in 0 .. MAX_LEAF_KEY
      BY <1>5, <1>7
    <2>3. Stored' \subseteq Key
      BY <1>5, <1>8 DEF IInv, TypeOK
    <2> QED BY <1>6, <1>10, <1>11, <1>12, <2>1, <2>2, <2>3 DEF TypeOK, Calm, Slot
  <1>15. CacheInLeaf'
    BY <1>12 DEF CacheInLeaf
  <1> QED BY <1>9, <1>10, <1>11, <1>13, <1>14, <1>15, Alone DEF IInv

(* Of a finite set of numbers, each below its size is the rank of one.     *)
LEMMA Ranks ==
  ASSUME NEW S \in SUBSET Nat, IsFiniteSet(S), NEW p \in 0 .. Cardinality(S) - 1
  PROVE  InOrder(S, p) \in S /\ Cardinality({j \in S : j < InOrder(S, p)}) = p
  <1> DEFINE Before(i) == {j \in S : j < i}
             T == 0 .. Cardinality(S) - 1
             f == [i \in S |-> Cardinality(Before(i))]
  <1>1. \A i \in S : IsFiniteSet(Before(i)) /\ Cardinality(Before(i)) \in Nat
    <2> TAKE i \in S
    <2>1. Before(i) \in SUBSET S
      OBVIOUS
    <2> QED BY <2>1, FS_Subset, FS_CardinalityType
  <1>2. Cardinality(S) \in Nat
    BY FS_CardinalityType
  <1>3. ASSUME NEW i \in S PROVE Cardinality(Before(i)) < Cardinality(S)
    <2>1. Before(i) \in SUBSET S /\ i \notin Before(i) /\ i \in S
      <3>1. i \in Nat
        OBVIOUS
      <3> QED BY <3>1
    <2>2. Cardinality(Before(i)) <= Cardinality(S) /\ Cardinality(Before(i)) # Cardinality(S)
      BY <2>1, FS_Subset
    <2> HIDE DEF Before
    <2> QED BY <1>1, <1>2, <2>2
  <1>4. ASSUME NEW i \in S, NEW j \in S, i < j
        PROVE  Cardinality(Before(i)) < Cardinality(Before(j))
    <2>1. \A k \in S : k < i => k < j
      <3>1. i \in Nat /\ j \in Nat /\ \A k \in S : k \in Nat
        OBVIOUS
      <3> QED BY ONLY <1>4, <3>1, SMT
    <2>2. Before(i) \in SUBSET Before(j) /\ i \in Before(j) /\ i \notin Before(i)
      <3>1. ~ (i < i)
        BY SMT
      <3> QED BY <1>4, <2>1, <3>1
    <2>3. IsFiniteSet(Before(j)) /\ IsFiniteSet(Before(i))
      BY <1>1
    <2>4. /\ Cardinality(Before(i)) <= Cardinality(Before(j))
          /\ Cardinality(Before(i)) # Cardinality(Before(j))
      BY <2>2, <2>3, FS_Subset
    <2>5. Cardinality(Before(i)) \in Nat /\ Cardinality(Before(j)) \in Nat
      BY <1>1
    <2> HIDE DEF Before
    <2> QED BY ONLY <2>4, <2>5, SMT
  <1>5. \A i \in S : f[i] = Cardinality(Before(i)) /\ f[i] \in T
    <2> TAKE i \in S
    <2>1. f[i] = Cardinality(Before(i))
      OBVIOUS
    <2>2. Cardinality(Before(i)) \in Nat /\ Cardinality(Before(i)) < Cardinality(S)
      BY <1>1, <1>3
    <2> HIDE DEF Before, f
    <2> QED BY <1>2, <2>1, <2>2
  <1>6. \A i, j \in S : f[i] = f[j] => i = j
    <2> SUFFICES ASSUME NEW i \in S, NEW j \in S, f[i] = f[j], i # j PROVE FALSE
      OBVIOUS
    <2>1. i < j \/ j < i
      <3>1. i \in Nat /\ j \in Nat
        OBVIOUS
      <3> QED BY <3>1
    <2>2. Cardinality(Before(i)) = Cardinality(Before(j))
      BY <1>5
    <2>3. Cardinality(Before(i)) \in Nat
      BY <1>1
    <2>4. Cardinality(Before(i)) < Cardinality(Before(j)) \/ Cardinality(Before(j)) < Cardinality(Before(i))
      BY <1>4, <2>1
    <2> HIDE DEF Before, f
    <2> QED BY ONLY <2>2, <2>3, <2>4, SMT
  <1>7. f \in Injection(S, T)
    <2>1. f \in [S -> T]
      BY <1>5
    <2> QED BY <1>6, <2>1 DEF Injection, IsInjective
  <1>8. IsFiniteSet(T) /\ Cardinality(T) = Cardinality(S)
    <2>1. 0 \in Int /\ Cardinality(S) - 1 \in Int
      BY ONLY <1>2, SMT
    <2>2. /\ IsFiniteSet(T)
          /\ Cardinality(T) = IF 0 > Cardinality(S) - 1 THEN 0 ELSE Cardinality(S) - 1 - 0 + 1
      BY ONLY <2>1, FS_Interval, Zenon
    <2>3. (IF 0 > Cardinality(S) - 1 THEN 0 ELSE Cardinality(S) - 1 - 0 + 1) = Cardinality(S)
      BY ONLY <1>2, SMT
    <2> QED BY ONLY <2>2, <2>3
  <1>9. f \in Surjection(S, T)
    BY <1>7, <1>8, FS_Injection
  <1>10. PICK i \in S : f[i] = p
    BY <1>9 DEF Surjection
  <1>11. Cardinality({j \in S : j < i}) = p
    BY <1>5, <1>10
  <1> QED BY <1>11, Zenon DEF InOrder

(* There are as many keys as there are fingers.                            *)
LEMMA StoredCount ==
  ASSUME TypeOK, RecordsInv
  PROVE  IsFiniteSet(Stored) /\ Cardinality(Stored) = max_use /\ Stored \in SUBSET Nat
  <1> DEFINE f == [i \in Live |-> slot[i].of]
  <1>1. max_use \in Nat /\ Live = 0 .. max_use - 1
    BY TypeParts, Sizes DEF Live, Pos
  <1>2. IsFiniteSet(Live) /\ Cardinality(Live) = max_use
    <2>1. 0 \in Int /\ max_use - 1 \in Int
      BY <1>1
    <2>2. /\ IsFiniteSet(0 .. max_use - 1)
          /\ Cardinality(0 .. max_use - 1) = IF 0 > max_use - 1 THEN 0 ELSE max_use - 1 - 0 + 1
      BY ONLY <2>1, FS_Interval, Zenon
    <2>3. (IF 0 > max_use - 1 THEN 0 ELSE max_use - 1 - 0 + 1) = max_use
      BY ONLY <1>1, SMT
    <2> QED BY ONLY <1>1, <2>2, <2>3
  <1>3. f \in [Live -> Stored] /\ \A k \in Stored : \E i \in Live : f[i] = k
    BY DEF Stored
  <1>4. \A i, j \in Live : f[i] = f[j] => i = j
    BY DEF RecordsInv
  <1>5. f \in Surjection(Live, Stored) /\ f \in Injection(Live, Stored)
    BY <1>3, <1>4 DEF Surjection, Injection, IsInjective
  <1>6. IsFiniteSet(Stored) /\ Cardinality(Stored) = Cardinality(Live)
    <2> HIDE DEF f
    <2> QED BY ONLY <1>2, <1>5, FS_Surjection, Zenon
  <1>7. Stored \in SUBSET Nat
    BY Keys DEF TypeOK
  <1> QED BY <1>2, <1>6, <1>7

(* The slots of a leaf that is split: the lower half of the keys, each     *)
(* once, without a pair.                                                   *)
LEMMA HalveSlots ==
  ASSUME IInv, max_use = MAX_LEAF_KEY, NEW t \in Thread, Halve(t)
  PROVE  /\ slot' \in [Pos -> Slot]
         /\ \A p \in Pos : p < LEFT_KEY =>
               slot'[p].of = InOrder(Stored, p) /\ slot'[p].control = 0
         /\ \A p \in Pos : p < LEFT_KEY =>
               /\ InOrder(Stored, p) \in Stored
               /\ Cardinality({j \in Stored : j < InOrder(Stored, p)}) = p
  <1>1. /\ MAX_LEAF_KEY \in Nat /\ MAX_LEAF_KEY = 2 * LEFT_KEY /\ LEFT_KEY \in Nat
        /\ slot \in [Pos -> Slot] /\ Live \subseteq Pos
    BY TypeParts, Sizes DEF IInv
  <1>2. IsFiniteSet(Stored) /\ Cardinality(Stored) = MAX_LEAF_KEY /\ Stored \in SUBSET Nat
    BY StoredCount DEF IInv
  <1>3. ASSUME NEW p \in Pos, p < LEFT_KEY
        PROVE  /\ InOrder(Stored, p) \in Stored
               /\ Cardinality({j \in Stored : j < InOrder(Stored, p)}) = p
    <2>1. p \in 0 .. Cardinality(Stored) - 1
      BY <1>1, <1>2, <1>3 DEF Pos
    <2> QED BY <1>2, <2>1, Ranks
  <1>4. ASSUME NEW p \in Pos
        PROVE  /\ slot'[p] \in Slot
               /\ p < LEFT_KEY => slot'[p].of = InOrder(Stored, p) /\ slot'[p].control = 0
    <2>1. CASE p >= LEFT_KEY
      <3>1. slot'[p] = slot[p]
        BY <2>1 DEF Halve
      <3>2. ~ (p < LEFT_KEY)
        BY <1>1, <2>1 DEF Pos
      <3> QED BY <1>1, <3>1, <3>2
    <2>2. CASE ~ (p >= LEFT_KEY)
      <3> DEFINE i == CHOOSE i \in Live : slot[i].of = InOrder(Stored, p)
      <3>1. p < LEFT_KEY
        BY <1>1, <2>2 DEF Pos
      <3>2. \E x \in Live : slot[x].of = InOrder(Stored, p)
        BY <1>3, <3>1 DEF Stored
      <3>3. i \in Live /\ slot[i].of = InOrder(Stored, p)
        BY <3>2, Zenon
      <3>4. slot'[p] = [slot[i] EXCEPT !.control = 0]
        BY <2>2 DEF Halve
      <3> HIDE DEF i
      <3>5. slot[i] \in Slot
        BY <1>1, <3>3
      <3> QED BY <3>1, <3>3, <3>4, <3>5 DEF Slot
    <2> QED BY <2>1, <2>2
  <1>5. slot' = [p \in Pos |-> slot'[p]]
    BY DEF Halve
  <1> QED BY <1>3, <1>4, <1>5

LEMMA HalveInv ==
  ASSUME IInv, NEW t \in Thread, AloneIn(t), Halve(t)
  PROVE  IInv'
  <1>1. /\ pc[t] = "halve" /\ Goes(t, "restart")
        /\ max_use' = LEFT_KEY /\ compact_use' = RIGHT_KEY /\ temp_insert' = 0
        /\ routed' \subseteq routed /\ UNCHANGED <<compact_full, calls>>
    BY DEF Halve
  <1>2. /\ Here(t) /\ key[t] \in Key /\ max_use = MAX_LEAF_KEY
    BY <1>1, Alone DEF IInv, Here, Owners
  <1>3. /\ MAX_LEAF_KEY \in Nat /\ MAX_LEAF_KEY = 2 * LEFT_KEY /\ LEFT_KEY \in Nat \ {0}
        /\ RIGHT_KEY = LEFT_KEY
    BY Sizes
  <1>4. /\ slot' \in [Pos -> Slot]
        /\ \A p \in Pos : p < LEFT_KEY =>
              slot'[p].of = InOrder(Stored, p) /\ slot'[p].control = 0
        /\ \A p \in Pos : p < LEFT_KEY =>
              /\ InOrder(Stored, p) \in Stored
              /\ Cardinality({j \in Stored : j < InOrder(Stored, p)}) = p
    BY <1>2, HalveSlots
  <1>5. Live' = {i \in Pos : i < LEFT_KEY}
    BY <1>1 DEF Live
  <1>6. Stored \subseteq Key /\ 0 \notin Key
    BY Keys DEF IInv, TypeOK
  <1>7. Stored' \subseteq Key
    <2>1. Stored' = {slot'[i].of : i \in Live'}
      BY DEF Stored
    <2> QED BY <1>4, <1>5, <1>6, <2>1
  <1>8. RecordsInv'
    <2>1. ASSUME NEW i \in Live', NEW j \in Live', slot'[i].of = slot'[j].of PROVE i = j
      <3>1. InOrder(Stored, i) = InOrder(Stored, j)
        BY <1>4, <1>5, <2>1
      <3>2. /\ Cardinality({k \in Stored : k < InOrder(Stored, i)}) = i
            /\ Cardinality({k \in Stored : k < InOrder(Stored, j)}) = j
        BY <1>4, <1>5
      <3> QED BY ONLY <3>1, <3>2
    <2>2. \A i \in Live' : slot'[i].of # 0
      BY <1>4, <1>5, <1>6
    <2>3. LEFT_KEY <= max_use'
      BY <1>1, <1>3
    <2> QED BY <2>1, <2>2, <2>3 DEF RecordsInv
  <1>9. PairsInv'
    <2>1. \A i \in Live' : ~ Cached(i)'
      BY <1>1, <1>3, <1>4, <1>5 DEF Cached
    <2> QED BY <2>1 DEF PairsInv
  <1>10. /\ pc'[t] = "restart" /\ pc' \in [Thread -> Owners \cup Calm]
        /\ UNCHANGED <<key, at, other, answer>>
        /\ key' \in [Thread -> Key \cup {0}]
        /\ at' \in [Thread -> Pos] /\ other' \in [Thread -> Pos]
        /\ answer' \in [got : 0 .. 199, due : 0 .. 199] /\ AnswersAreRight'
    BY <1>1, GoesOn DEF Calm
  <1>11. TypeOK'
    <2>1. /\ temp_insert' \in 0 .. 2 /\ compact_full' \in BOOLEAN /\ calls' \in 0 .. MaxCalls
          /\ routed' \subseteq Key /\ max_use' \in 0 .. MAX_LEAF_KEY /\ compact_use' \in Nat
      BY <1>1, <1>3 DEF IInv, TypeOK
    <2> QED BY <1>4, <1>7, <1>10, <2>1 DEF TypeOK, Calm, Slot
  <1>12. Here(t)'
    BY <1>1, <1>2, <1>10 DEF Here, Finding, AtFinger, AtKey, AtPair, Owners
  <1>13. CacheInLeaf'
    BY <1>1, <1>3 DEF CacheInLeaf
  <1> QED BY <1>8, <1>9, <1>10, <1>11, <1>12, <1>13, Alone DEF IInv

(* The leaf that a first split has made.                                   *)
LEMMA InitInv == Init => IInv
  <1> SUFFICES ASSUME Init PROVE IInv
    OBVIOUS
  <1>1. /\ MAX_LEAF_KEY \in Nat /\ MAX_LEAF_KEY = 2 * LEFT_KEY /\ LEFT_KEY \in Nat \ {0}
        /\ RIGHT_KEY = LEFT_KEY
    BY Sizes
  <1>2. /\ Loaded \in SUBSET Nat /\ IsFiniteSet(Loaded) /\ Cardinality(Loaded) = LEFT_KEY
        /\ Loaded \subseteq Key /\ 0 \notin Key
    <2>1. Loaded \subseteq Key /\ Cardinality(Loaded) = LEFT_KEY
      BY LeafAssumption DEF LEFT_KEY
    <2>2. Loaded \in SUBSET (1 .. 99)
      BY <2>1, KeyAssumption
    <2>3. IsFiniteSet(1 .. 99)
      <3>1. 1 \in Int /\ 99 \in Int
        OBVIOUS
      <3> QED BY ONLY <3>1, FS_Interval, Zenon
    <2>4. IsFiniteSet(Loaded)
      BY <2>2, <2>3, FS_Subset
    <2> QED BY <2>1, <2>2, <2>4, Keys
  <1>3. ASSUME NEW p \in Pos, p < LEFT_KEY
        PROVE  /\ InOrder(Loaded, p) \in Loaded
               /\ Cardinality({j \in Loaded : j < InOrder(Loaded, p)}) = p
    <2>1. p \in 0 .. Cardinality(Loaded) - 1
      BY <1>1, <1>2, <1>3 DEF Pos
    <2> QED BY <1>2, <2>1, Ranks
  <1>4. Live = {i \in Pos : i < LEFT_KEY}
    BY DEF Init, Live
  <1>5. /\ slot \in [Pos -> Slot]
        /\ \A p \in Live : slot[p].of = InOrder(Loaded, p) /\ slot[p].control = 0
    <2>1. ASSUME NEW p \in Pos, p < LEFT_KEY
          PROVE  /\ slot[p] \in Slot /\ slot[p].of = InOrder(Loaded, p)
                 /\ slot[p].control = 0
      <3>1. slot[p] = Finger(InOrder(Loaded, p))
        BY <2>1 DEF Init
      <3>2. InOrder(Loaded, p) \in Key
        BY <1>2, <1>3, <2>1
      <3>3. slot[p] \in Slot
        BY <3>1, <3>2, Words
      <3> QED BY <3>1, <3>3 DEF Finger
    <2>2. ASSUME NEW p \in Pos, ~ (p < LEFT_KEY) PROVE slot[p] \in Slot
      <3>1. slot[p] = Raw(0)
        BY <2>2 DEF Init
      <3> QED BY <3>1, Words
    <2>3. slot = [p \in Pos |-> slot[p]]
      BY DEF Init
    <2> QED BY <1>4, <2>1, <2>2, <2>3
  <1>6. Stored \subseteq Key
    BY <1>2, <1>3, <1>4, <1>5 DEF Stored
  <1>7. RecordsInv
    <2>1. ASSUME NEW i \in Live, NEW j \in Live, slot[i].of = slot[j].of PROVE i = j
      <3>1. InOrder(Loaded, i) = InOrder(Loaded, j)
        BY <1>5, <2>1
      <3>2. /\ Cardinality({k \in Loaded : k < InOrder(Loaded, i)}) = i
            /\ Cardinality({k \in Loaded : k < InOrder(Loaded, j)}) = j
        BY <1>3, <1>4
      <3> QED BY ONLY <3>1, <3>2
    <2>2. \A i \in Live : slot[i].of # 0
      BY <1>2, <1>3, <1>4, <1>5
    <2> QED BY <1>1, <2>1, <2>2 DEF Init, RecordsInv
  <1>8. PairsInv
    <2>1. \A i \in Live : ~ Cached(i)
      BY <1>1, <1>5 DEF Cached, Init
    <2> QED BY <2>1 DEF PairsInv
  <1>9. TypeOK
    <2>1. 0 \in Pos /\ max_use \in 0 .. MAX_LEAF_KEY /\ compact_use \in Nat /\ 0 \in 0 .. MaxCalls
      BY <1>1, BoundAssumption DEF Init, Pos
    <2> QED BY <1>5, <1>6, <2>1 DEF TypeOK, Init, Slot, Nothing
  <1>10. HereInv
    <2>1. ASSUME NEW t \in Thread PROVE Here(t)
      BY <2>1 DEF Init, Here, AtFinger, AtKey, AtPair, Owners
    <2> QED BY <2>1 DEF HereInv
  <1>11. CacheInLeaf /\ OneOwner /\ AnswersAreRight
    BY <1>1 DEF Init, CacheInLeaf, OneOwner, Owners, AnswersAreRight
  <1> QED BY <1>7, <1>8, <1>9, <1>10, <1>11 DEF IInv

(* Who takes a step in a leaf is alone there: a find because nothing       *)
(* overlaps it, an insert because it holds the claim.                      *)
LEMMA AloneInStep ==
  ASSUME FindsAlone, FindsAlone', IInv, NEW t \in Thread, Step(t),
         pc[t] = "restart" => temp_insert = 0
  PROVE  AloneIn(t)
  <1>1. /\ pc \in [Thread -> Owners \cup Calm] /\ at \in [Thread -> Pos]
        /\ key \in [Thread -> Key \cup {0}]
    BY DEF IInv, TypeOK, Calm
  <1>2. /\ \E place : pc' = [pc EXCEPT ![t] = place]
        /\ at' = at \/ \E i : at' = [at EXCEPT ![t] = i]
        /\ key' = key \/ \E k : key' = [key EXCEPT ![t] = k]
    <2>1. CASE \E k \in Key : CallFind(t, k) \/ CallInsert(t, k)
      BY <2>1 DEF CallFind, CallInsert, Goto
    <2>2. CASE Look(t) \/ Hit(t) \/ HitValue(t) \/ Missed(t)
      BY <2>2 DEF Look, Hit, HitValue, Missed, Goes, FindAnswers, Ends, NextFinger, Goto
    <2>3. CASE ClaimLodging(t) \/ Lodge(t) \/ LodgeKey(t) \/ LodgeValue(t)
      BY <2>3 DEF ClaimLodging, Claim, Lodge, LodgeKey, LodgeValue, Goes, FindAnswers, Ends, Goto
    <2>4. CASE Choose(t) \/ ClaimOther(t) \/ Replace(t) \/ ReplaceKey(t) \/ ReplaceValue(t)
      BY <2>4 DEF Choose, ClaimOther, Claim, Replace, ReplaceKey, ReplaceValue, Goes,
         FindAnswers, Ends, Goto
    <2>5. CASE Check(t) \/ InsertAppend(t) \/ MarkSplit(t) \/ Halve(t) \/ Restart(t)
      BY <2>5 DEF Check, InsertAppend, MarkSplit, Halve, Restart, Goes, InsertAnswers, Ends, Goto
    <2> QED BY <2>1, <2>2, <2>3, <2>4, <2>5 DEF Step
  <1>3. CASE pc[t] \in Finding
    BY <1>1, <1>2, <1>3 DEF FindsAlone, AloneIn
  <1>4. ASSUME NEW u \in Thread, u # t, pc[u] \in Finding, pc[t] \notin Finding PROVE FALSE
    <2>1. pc[t] = "idle" /\ pc'[u] = pc[u]
      BY <1>1, <1>2, <1>4 DEF FindsAlone
    <2>2. pc'[t] # "idle"
      <3>1. \E k \in Key : CallFind(t, k) \/ CallInsert(t, k)
        BY <2>1 DEF Step, Look, Hit, HitValue, Missed, ClaimLodging, ClaimOther, Claim, Lodge,
           LodgeKey, LodgeValue, Choose, Replace, ReplaceKey, ReplaceValue, Check,
           InsertAppend, MarkSplit, Halve, Restart
      <3> QED BY <1>1, <3>1 DEF CallFind, CallInsert, Goto
    <2> QED BY <1>4, <2>1, <2>2 DEF FindsAlone
  <1>5. CASE pc[t] \in Owners
    <2>1. ASSUME NEW u \in Thread \ {t}, pc[t] \notin Finding
          PROVE  pc[u] \in {"idle", "restart"}
      BY <1>1, <1>4, <1>5, <2>1 DEF IInv, OneOwner, Calm, Finding, AtFinger, AtKey, AtPair
    <2> QED BY <1>1, <1>2, <1>3, <2>1 DEF AloneIn
  <1>6. CASE pc[t] \in {"idle", "restart"}
    <2>1. pc[t] \notin Finding
      BY <1>6 DEF Finding, AtFinger, AtKey, AtPair
    <2>2. CASE \E k \in Key : CallFind(t, k)
      <3>1. pc'[t] \in Finding
        BY <1>1, <2>2 DEF CallFind, Goto, Finding
      <3> QED BY <1>1, <1>2, <3>1 DEF FindsAlone, AloneIn
    <2>3. CASE temp_insert = 0
      <3>1. ASSUME NEW u \in Thread \ {t} PROVE pc[u] \in {"idle", "restart"}
        <4>1. pc[u] \notin Owners
          BY <2>3 DEF IInv, HereInv, Here
        <4> QED BY <1>1, <1>4, <2>1, <4>1 DEF Calm, Finding, AtFinger, AtKey, AtPair
      <3> QED BY <1>1, <1>2, <3>1 DEF AloneIn
    <2>4. \/ \E k \in Key : CallFind(t, k)
          \/ temp_insert = 0
      BY <1>6 DEF Step, CallInsert, Look, Hit, HitValue, Missed, ClaimLodging, ClaimOther, Claim,
         Lodge, LodgeKey, LodgeValue, Choose, Replace, ReplaceKey, ReplaceValue, Check,
         InsertAppend, MarkSplit, Halve, Restart
    <2> QED BY <2>2, <2>3, <2>4
  <1> QED BY <1>1, <1>3, <1>5, <1>6 DEF Calm, Finding, AtFinger, AtKey, AtPair

LEMMA NextInv ==
  ASSUME FindsAlone, FindsAlone', IInv, [Next]_vars
  PROVE  IInv'
  <1>1. CASE UNCHANGED vars
    <2>1. UNCHANGED <<slot, temp_insert, max_use, compact_use, compact_full, routed, pc, key,
                      at, other, answer, calls>>
      BY <1>1 DEF vars, leaf
    <2>2. Live' = Live /\ Stored' = Stored /\ (\A i : Cached(i)' <=> Cached(i))
      BY <2>1 DEF Live, Stored, Cached
    <2>3. TypeOK' /\ CacheInLeaf' /\ RecordsInv' /\ OneOwner' /\ AnswersAreRight'
      BY <2>1, <2>2 DEF IInv, TypeOK, CacheInLeaf, RecordsInv, OneOwner, AnswersAreRight
    <2>4. \A i : (Writing(i)' <=> Writing(i)) /\ (Lodging(i)' <=> Lodging(i))
      BY <2>1 DEF Writing, Lodging
    <2>5. PairsInv'
      BY <2>1, <2>2, <2>4 DEF IInv, PairsInv
    <2>6. HereInv'
      <3>1. ASSUME NEW t \in Thread PROVE Here(t)'
        <4>1. Here(t)
          BY DEF IInv, HereInv
        <4>2. (Cached(at[t])' <=> Cached(at[t])) /\ (Cached(other[t])' <=> Cached(other[t]))
          BY <2>1 DEF Cached
        <4> QED BY <2>1, <2>2, <4>1, <4>2 DEF Here, HasLodging, HasRoom
      <3> QED BY <3>1 DEF HereInv
    <2> QED BY <2>3, <2>5, <2>6 DEF IInv
  <1>2. ASSUME NEW t \in Thread, Step(t) PROVE IInv'
    <2>1. CASE Restart(t) /\ Ends(t) /\ UNCHANGED <<temp_insert, answer>>
      BY <2>1, LeaveInv
    <2>2. CASE Restart(t) /\ temp_insert = 0 /\ temp_insert' = 1 /\ Goes(t, "check")
      BY <1>2, <2>2, AloneInStep, RestartInv
    <2>3. CASE ~Restart(t)
      <3>1. pc[t] # "restart"
        BY <1>2, <2>3 DEF Step, CallFind, CallInsert, Look, Hit, HitValue, Missed, ClaimLodging,
           ClaimOther, Claim, Lodge, LodgeKey, LodgeValue, Choose, Replace, ReplaceKey,
           ReplaceValue, Check, InsertAppend, MarkSplit, Halve
      <3>2. AloneIn(t)
        BY <1>2, <3>1, AloneInStep
      <3>3. CASE \E k \in Key : CallFind(t, k) \/ CallInsert(t, k)
        BY <3>2, <3>3, FindCalled
      <3>4. CASE Look(t) \/ Hit(t) \/ HitValue(t) \/ Missed(t)
        BY <3>2, <3>4, LookInv, HitInv, HitValueInv, MissedInv
      <3>5. CASE ClaimLodging(t) \/ Lodge(t) \/ LodgeKey(t) \/ LodgeValue(t)
        BY <3>2, <3>5, ClaimInv, LodgeInv, LodgeKeyInv, LodgeValueInv
      <3>6. CASE Choose(t) \/ ClaimOther(t) \/ Replace(t) \/ ReplaceKey(t) \/ ReplaceValue(t)
        BY <3>2, <3>6, ChooseInv, ClaimInv, ReplaceInv, ReplaceKeyInv, ReplaceValueInv
      <3>7. CASE Check(t) \/ InsertAppend(t) \/ MarkSplit(t) \/ Halve(t)
        BY <3>2, <3>7, CheckInv, AppendInv, MarkInv, HalveInv
      <3> QED BY <1>2, <2>3, <3>3, <3>4, <3>5, <3>6, <3>7 DEF Step
    <2> QED BY <2>1, <2>2, <2>3 DEF Restart
  <1> QED BY <1>1, <1>2 DEF Next, Done

----------------------------------------------------------------------------
(* The theorems.                                                           *)

(* The inductive invariant: what find and insert of zbtree_r.cpp keep at   *)
(* each access, as long as no find overlaps another call.                  *)
THEOREM CacheInvariance == Spec /\ []FindsAlone => []IInv
  <1>1. Init => IInv
    BY InitInv
  <1>2. IInv /\ FindsAlone /\ FindsAlone' /\ [Next]_vars => IInv'
    BY NextInv
  <1> QED BY <1>1, <1>2, PTL DEF Spec

(* The slots keep their form, and a control field its six bits.            *)
THEOREM CacheTyped == Spec /\ []FindsAlone => []TypeOK
  <1>1. IInv => TypeOK
    BY DEF IInv
  <1> QED BY <1>1, CacheInvariance, PTL

(* A find that caches a pair writes it neither over a finger nor behind    *)
(* the last slot: compact_use stays between max_use and MAX_LEAF_KEY.      *)
THEOREM CacheStays == Spec /\ []FindsAlone => []CacheInLeaf
  <1>1. IInv => CacheInLeaf
    BY DEF IInv
  <1> QED BY <1>1, CacheInvariance, PTL

(* Whenever no pair is being written, a control field that find believes   *)
(* leads to the key and the value of its own record: lodging, replacing,   *)
(* appending over the cache and splitting the leaf leave no stale one.     *)
THEOREM PairsRight == Spec /\ []FindsAlone => []PairsAreRight
  <1>1. IInv => PairsAreRight
    <2> SUFFICES ASSUME IInv, \A t \in Thread : pc[t] \notin Owners,
                        NEW i \in Live, Cached(i)
                 PROVE  /\ slot[slot[i].control].raw = slot[i].of
                        /\ slot[slot[i].control + 1].raw = Value(slot[i].of)
      BY DEF PairsAreRight
    <2>1. ~Writing(i)
      BY DEF Writing, Owners
    <2> QED BY <2>1 DEF IInv, PairsInv
  <1> QED BY <1>1, CacheInvariance, PTL

(* A find returns the value of its key, from the cache or the log, exactly *)
(* if the key is in the leaf, and an insert returns true for a new key.    *)
THEOREM CacheAnswersRight == Spec /\ []FindsAlone => []AnswersAreRight
  <1>1. IInv => AnswersAreRight
    BY DEF IInv
  <1> QED BY <1>1, CacheInvariance, PTL

(* The claim of temp_insert keeps every other thread out of a leaf, once   *)
(* no find takes part (":832 enter critical section").                     *)
THEOREM LeafOwnedOnce == Spec /\ []FindsAlone => []OneOwner
  <1>1. IInv => OneOwner
    BY DEF IInv
  <1> QED BY <1>1, CacheInvariance, PTL

(* With one thread, as in the run, a find cannot overlap another call.     *)
THEOREM OneThreadIsEnough ==
  ASSUME \A t, u \in Thread : t = u
  PROVE  Spec => [](TypeOK /\ CacheInLeaf /\ PairsAreRight /\ AnswersAreRight)
  <1>1. FindsAlone
    BY DEF FindsAlone
  <1> QED BY <1>1, CacheTyped, CacheStays, PairsRight, CacheAnswersRight, PTL

=============================================================================
