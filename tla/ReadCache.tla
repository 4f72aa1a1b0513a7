------------------------------ MODULE ReadCache ------------------------------
(***************************************************************************)
(* The read-optimised variant, zbtree_r.cpp, in one leaf: find caches the  *)
(* pair it returns, in the slots that are free, or in the place of a pair  *)
(* that was found less often, and claims the leaf while it does.           *)
(*                                                                         *)
(* A slot is a word: a finger, or a raw key or value.  The first max_use   *)
(* slots are fingers; the cache grows upwards from compact_use.  A pair is *)
(* believed if the control field of its record's finger is at least        *)
(* max_use.  The pointer in a finger is written as the key of the record   *)
(* it leads to, whose value never changes.                                 *)
(*                                                                         *)
(* Every read or write that another thread can come in between is a step;  *)
(* an insert, which is alone with its claim, changes the slots in one.     *)
(* After a split the left leaf is followed, the keys it keeps are routed.  *)
(***************************************************************************)
EXTENDS Integers, FiniteSetsExt

CONSTANTS Thread,
          Key,           \* keys, from 1 to 99
          Loaded,        \* those in the leaf at first, after its first split
          Hash,          \* hashfunc: Key -> Nat
          MAX_LEAF_KEY,  \* slots of a leaf, 30 in the code
          MaxCalls       \* bound on the number of calls

ASSUME KeyAssumption == Key \subseteq 1 .. 99 /\ Hash \in [Key -> Nat]
ASSUME LeafAssumption ==
    /\ MAX_LEAF_KEY \in Nat \ {0} /\ MAX_LEAF_KEY % 2 = 0
    /\ MAX_LEAF_KEY <= 64       \* a control field is six bits wide
    /\ Loaded \subseteq Key /\ Cardinality(Loaded) = MAX_LEAF_KEY \div 2
ASSUME BoundAssumption == MaxCalls \in Nat

LEFT_KEY == MAX_LEAF_KEY \div 2
RIGHT_KEY == MAX_LEAF_KEY \div 2
Pos == 0 .. MAX_LEAF_KEY + 1   \* the last two are the fields behind the slots

Value(k) == 100 + k
Raw(w) == [of |-> 0, control |-> 0, access |-> 0, raw |-> w]
Finger(k) == [of |-> k, control |-> 0, access |-> 0, raw |-> 0]

VARIABLES slot, temp_insert, max_use, compact_use, compact_full, \* D_Leaf
          routed,               \* the keys that the inner nodes lead here
          pc, key, at, other,   \* the threads; at and other are the loops' i, j
          answer,               \* the last answer, and what it should have been
          calls

leaf == <<slot, temp_insert, max_use, compact_use, compact_full>>
vars == <<leaf, routed, pc, key, at, other, answer, calls>>

Nothing == 0

Live == {i \in Pos : i < max_use}
Stored == {slot[i].of : i \in Live}

\* the element of S that p others are below
InOrder(S, p) == CHOOSE k \in S : Cardinality({j \in S : j < k}) = p

(* A leaf that split_leaf has just made: malloc sets no compact_full.      *)
Init ==
    /\ slot = [p \in Pos |-> IF p < LEFT_KEY
                             THEN Finger(InOrder(Loaded, p)) ELSE Raw(0)]
    /\ temp_insert = 0
    /\ max_use = LEFT_KEY
    /\ compact_use = RIGHT_KEY
    /\ compact_full \in BOOLEAN
    /\ routed = Key
    /\ pc = [t \in Thread |-> "idle"]
    /\ key = [t \in Thread |-> 0]
    /\ at = [t \in Thread |-> 0]
    /\ other = [t \in Thread |-> 0]
    /\ answer = [got |-> Nothing, due |-> Nothing]
    /\ calls = 0

Goto(t, place) == pc' = [pc EXCEPT ![t] = place]

\* the locals of a call are gone
Ends(t) == /\ Goto(t, "idle")
           /\ key' = [key EXCEPT ![t] = 0]
           /\ at' = [at EXCEPT ![t] = 0]
           /\ other' = [other EXCEPT ![t] = 0]
Goes(t, place) == Goto(t, place) /\ UNCHANGED <<key, at, other, answer>>

(* A find answers while the record may be on its way in or out: what it is *)
(* due is what is in the leaf when it answers.                             *)
FindAnswers(t, got) ==
    /\ answer' = [got |-> got,
                  due |-> IF key[t] \in Stored THEN Value(key[t]) ELSE Nothing]
    /\ Ends(t)

\* access_bit is two bits wide
Count(n) == IF n < 3 THEN n + 1 ELSE n

----------------------------------------------------------------------------
(* find.                                                                   *)

CallFind(t, k) ==
    /\ pc[t] = "idle" /\ calls < MaxCalls /\ k \in routed
    /\ temp_insert <= 1
    /\ calls' = calls + 1
    /\ key' = [key EXCEPT ![t] = k]
    /\ Goto(t, "look")
    /\ UNCHANGED <<leaf, routed, at, other, answer>>

Matches(t, i) == slot[i].of # 0 /\ Hash[slot[i].of] = Hash[key[t]]

\* Fault: a control field that is set is always believed.
CachedEver(i) == slot[i].control > 0
Cached(i) == slot[i].control >= max_use

NextFinger(t) == /\ Goto(t, "look")
                 /\ at' = [at EXCEPT ![t] = @ + 1]
                 /\ UNCHANGED <<key, other, answer>>

Look(t) ==
    /\ pc[t] = "look"
    /\ LET i == at[t] IN
       \/ /\ i \notin Live
          /\ FindAnswers(t, Nothing)
       \/ /\ i \in Live /\ Matches(t, i) /\ Cached(i)
          /\ Goes(t, "hit")
       \/ /\ i \in Live /\ Matches(t, i) /\ ~Cached(i) /\ slot[i].of = key[t]
          /\ Goes(t, "missed")
       \/ /\ i \in Live
          /\ Matches(t, i) => ~Cached(i) /\ slot[i].of # key[t]
          /\ NextFinger(t)
    /\ UNCHANGED <<leaf, routed, calls>>

Hit(t) ==
    /\ pc[t] = "hit"
    /\ LET i == at[t] IN
       IF slot[slot[i].control].raw = key[t]
       THEN /\ slot' = [slot EXCEPT ![i].access = Count(@)]
            /\ Goes(t, "hit_value")
       ELSE NextFinger(t) /\ UNCHANGED slot
    /\ UNCHANGED <<temp_insert, max_use, compact_use, compact_full, routed, calls>>

HitValue(t) ==
    /\ pc[t] = "hit_value"
    /\ FindAnswers(t, slot[slot[at[t]].control + 1].raw)
    /\ UNCHANGED <<leaf, routed, calls>>

\* Fault: the last slot counts as room for a pair.
HasLodgingInclusive == compact_use <= MAX_LEAF_KEY - 1
HasLodging == compact_use < MAX_LEAF_KEY - 1
KeepsCache == compact_full \/ max_use >= MAX_LEAF_KEY - 2

(* The record was read from the log: is there room to cache it?            *)
Missed(t) ==
    /\ pc[t] = "missed"
    /\ \/ HasLodging /\ Goes(t, "claim_lodging")
       \/ ~HasLodging /\ KeepsCache /\ FindAnswers(t, Value(key[t]))
       \/ ~HasLodging /\ ~KeepsCache /\ Goes(t, "choose")
    /\ UNCHANGED <<leaf, routed, calls>>

(* A find that does not get its claim caches nothing.                      *)
Claim(t, from, to) ==
    /\ pc[t] = from
    /\ IF temp_insert = 0
       THEN temp_insert' = 1 /\ Goes(t, to)
       ELSE FindAnswers(t, Value(key[t])) /\ UNCHANGED temp_insert
    /\ UNCHANGED <<slot, max_use, compact_use, compact_full, routed, calls>>

ClaimLodging(t) == Claim(t, "claim_lodging", "lodge")
ClaimOther(t) == Claim(t, "claim_other", "replace")

Lodge(t) ==
    /\ pc[t] = "lodge"
    /\ slot' = [slot EXCEPT ![at[t]].control = compact_use]
    /\ Goes(t, "lodge_key")
    /\ UNCHANGED <<temp_insert, max_use, compact_use, compact_full, routed, calls>>

LodgeKey(t) ==
    /\ pc[t] = "lodge_key"
    /\ slot' = [slot EXCEPT ![compact_use] = Raw(key[t])]
    /\ compact_use' = compact_use + 1
    /\ Goes(t, "lodge_value")
    /\ UNCHANGED <<temp_insert, max_use, compact_full, routed, calls>>

LodgeValue(t) ==
    /\ pc[t] = "lodge_value"
    /\ slot' = [slot EXCEPT ![compact_use] = Raw(Value(key[t])), ![at[t]].access = Count(@)]
    /\ compact_use' = compact_use + 1
    /\ temp_insert' = 0
    /\ FindAnswers(t, Value(key[t]))
    /\ UNCHANGED <<max_use, compact_full, routed, calls>>

(* The pairs that were found less often and are out of the fingers' way.   *)
Colder(i) == {j \in Live : slot[j].access < slot[i].access /\ slot[j].control > max_use}

(* With nothing to replace the leaf is unlocked, which was not locked.     *)
Choose(t) ==
    /\ pc[t] = "choose"
    /\ \/ /\ Colder(at[t]) # {}
          /\ other' = [other EXCEPT ![t] = Min(Colder(at[t]))]
          /\ Goto(t, "claim_other")
          /\ UNCHANGED <<temp_insert, compact_full, key, at, answer>>
       \/ /\ Colder(at[t]) = {}
          /\ compact_full' = TRUE
          /\ temp_insert' = 0
          /\ FindAnswers(t, Value(key[t]))
    /\ UNCHANGED <<slot, max_use, compact_use, routed, calls>>

\* Fault: the record whose pair is replaced keeps its control field.
ReplaceKeeping(t) ==
    /\ pc[t] = "replace"
    /\ slot' = [slot EXCEPT ![at[t]].control = slot[other[t]].control]
    /\ Goes(t, "replace_key")
    /\ UNCHANGED <<temp_insert, max_use, compact_use, compact_full, routed, calls>>

Replace(t) ==
    /\ pc[t] = "replace"
    /\ slot' = [slot EXCEPT ![at[t]].control = slot[other[t]].control,
                            ![other[t]].control = 0]
    /\ Goes(t, "replace_key")
    /\ UNCHANGED <<temp_insert, max_use, compact_use, compact_full, routed, calls>>

ReplaceKey(t) ==
    /\ pc[t] = "replace_key"
    /\ slot' = [slot EXCEPT ![slot[at[t]].control] = Raw(key[t])]
    /\ Goes(t, "replace_value")
    /\ UNCHANGED <<temp_insert, max_use, compact_use, compact_full, routed, calls>>

ReplaceValue(t) ==
    /\ pc[t] = "replace_value"
    /\ slot' = [slot EXCEPT ![slot[at[t]].control + 1] = Raw(Value(key[t])),
                            ![at[t]].access = Count(@)]
    /\ temp_insert' = 0
    /\ FindAnswers(t, Value(key[t]))
    /\ UNCHANGED <<max_use, compact_use, compact_full, routed, calls>>

----------------------------------------------------------------------------
(* insert.                                                                 *)

InsertAnswers(t, got) ==
    /\ answer' = [got |-> got, due |-> IF key[t] \in Stored THEN 0 ELSE 1]
    /\ Ends(t)

CallInsert(t, k) ==
    /\ pc[t] = "idle" /\ calls < MaxCalls /\ k \in routed
    /\ temp_insert = 0
    /\ temp_insert' = 1
    /\ calls' = calls + 1
    /\ key' = [key EXCEPT ![t] = k]
    /\ Goto(t, "check")
    /\ UNCHANGED <<slot, max_use, compact_use, compact_full, routed, at, other, answer>>

\* Fault: max_use <= MAX_LEAF_KEY.
HasRoomInclusive == max_use <= MAX_LEAF_KEY
HasRoom == max_use < MAX_LEAF_KEY

(* A duplicate is answered with the leaf still claimed.                    *)
Check(t) ==
    /\ pc[t] = "check"
    /\ \/ key[t] \in Stored /\ InsertAnswers(t, 0)
       \/ /\ key[t] \notin Stored
          /\ Goes(t, IF HasRoom THEN "append" ELSE "mark_split")
    /\ UNCHANGED <<leaf, routed, calls>>

InsertAppend(t) ==
    /\ pc[t] = "append"
    /\ slot' = [slot EXCEPT ![max_use] = Finger(key[t])]
    /\ max_use' = max_use + 1
    /\ compact_use' = IF max_use = compact_use THEN compact_use + 1 ELSE compact_use
    /\ temp_insert' = 0
    /\ InsertAnswers(t, 1)
    /\ UNCHANGED <<compact_full, routed, calls>>

MarkSplit(t) ==
    /\ pc[t] = "mark_split"
    /\ temp_insert' = temp_insert + 1
    /\ Goes(t, "halve")
    /\ UNCHANGED <<slot, max_use, compact_use, compact_full, routed, calls>>

(* The left half of the records stays, in key order and without its pairs; *)
(* the insert starts over, in this leaf or in the new one.                 *)
Halve(t) ==
    /\ pc[t] = "halve"
    /\ slot' = [p \in Pos |->
                  IF p >= LEFT_KEY THEN slot[p]
                  ELSE [slot[CHOOSE i \in Live : slot[i].of = InOrder(Stored, p)]
                           EXCEPT !.control = 0]]
    /\ max_use' = LEFT_KEY
    /\ compact_use' = RIGHT_KEY
    /\ routed' = {k \in routed : k <= InOrder(Stored, LEFT_KEY - 1)}
    /\ temp_insert' = 0
    /\ Goes(t, "restart")
    /\ UNCHANGED <<compact_full, calls>>

Restart(t) ==
    /\ pc[t] = "restart"
    /\ \/ /\ key[t] \in routed /\ temp_insert = 0
          /\ temp_insert' = 1 /\ Goes(t, "check")
       \/ /\ key[t] \notin routed
          /\ Ends(t) /\ UNCHANGED <<temp_insert, answer>>
    /\ UNCHANGED <<slot, max_use, compact_use, compact_full, routed, calls>>

Done ==
    /\ \A t \in Thread :
          \/ pc[t] = "idle" /\ calls = MaxCalls
          \/ pc[t] = "restart" /\ key[t] \in routed /\ temp_insert # 0
    /\ UNCHANGED vars

Step(t) ==
    \/ \E k \in Key : CallFind(t, k) \/ CallInsert(t, k)
    \/ Look(t) \/ Hit(t) \/ HitValue(t) \/ Missed(t)
    \/ ClaimLodging(t) \/ Lodge(t) \/ LodgeKey(t) \/ LodgeValue(t)
    \/ Choose(t) \/ ClaimOther(t) \/ Replace(t) \/ ReplaceKey(t) \/ ReplaceValue(t)
    \/ Check(t) \/ InsertAppend(t) \/ MarkSplit(t) \/ Halve(t) \/ Restart(t)

Next == Done \/ \E t \in Thread : Step(t)

Spec == Init /\ [][Next]_vars

----------------------------------------------------------------------------
(* Properties.                                                             *)

Owners == {"lodge", "lodge_key", "lodge_value", "replace", "replace_key",
           "replace_value", "check", "append", "mark_split", "halve"}

TypeOK ==
    /\ slot \in [Pos -> [of : Key \cup {0}, control : 0 .. 63, access : 0 .. 3,
                        raw : 0 .. 199]]
    /\ temp_insert \in 0 .. 2 /\ max_use \in 0 .. MAX_LEAF_KEY
    /\ compact_use \in Nat /\ compact_full \in BOOLEAN
    /\ routed \subseteq Key
    /\ pc \in [Thread -> Owners \cup {"idle", "look", "hit", "hit_value", "missed",
                          "claim_lodging", "choose", "claim_other", "restart"}]
    /\ key \in [Thread -> Key \cup {0}]
    /\ at \in [Thread -> Pos] /\ other \in [Thread -> Pos]
    /\ Stored \subseteq Key
    /\ answer \in [got : 0 .. 199, due : 0 .. 199]
    /\ calls \in 0 .. MaxCalls

(* The cache starts where the fingers end, or later, and ends with the     *)
(* slots: a pair is written neither over a finger nor over the fields of   *)
(* the leaf that are behind them.                                          *)
CacheInLeaf == max_use <= compact_use /\ compact_use <= MAX_LEAF_KEY

(* Whenever no thread is writing one, a control field that is believed     *)
(* leads to the key and the value of its record, and to no other's.        *)
PairsAreRight ==
    (\A t \in Thread : pc[t] \notin Owners) =>
       \A i \in Live : Cached(i) =>
          /\ slot[slot[i].control].raw = slot[i].of
          /\ slot[slot[i].control + 1].raw = Value(slot[i].of)

(* A find returns the value of its key, or says that it is not there; an   *)
(* insert returns true for a new key.                                      *)
AnswersAreRight == answer.got = answer.due

(* A find that returns a value returns that of its key ("cache hit, read   *)
(* directly from dram").                                                   *)
ValueIsOfKey == answer.got > 1 /\ answer.due # Nothing => answer.got = answer.due

(* A leaf is one thread's at a time (":832 enter critical section").       *)
OneOwner ==
    \A t, u \in Thread : pc[t] \in Owners /\ pc[u] \in Owners => t = u

============================================================================
