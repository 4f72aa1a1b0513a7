-------------------------- MODULE InnerIndexProofs --------------------------
(***************************************************************************)
(* Proofs about the inner nodes, for nodes of any even size, any keys and  *)
(* any number of levels and of leaves being split.                         *)
(***************************************************************************)
EXTENDS LockFreeFind, FiniteSetTheorems, TLAPS

(* A set of numbers has a lowest one: of the sets of those below one of    *)
(* its elements, a minimal one is empty.                                   *)
LEMMA LowestOf ==
  ASSUME NEW S \in SUBSET Nat, S # {}
  PROVE  Min(S) \in S /\ \A y \in S : Min(S) <= y
  <1> DEFINE Below(x) == {y \in S : y < x}
             T == {Below(x) : x \in S}
  <1>1. T \subseteq FiniteSubsetsOf(S) /\ T # {}
    <2>1. ASSUME NEW x \in S PROVE Below(x) \in SUBSET S /\ IsFiniteSet(Below(x))
      <3>1. x \in Nat /\ \A y \in S : y \in Nat
        OBVIOUS
      <3>4. \A y \in S : y < x => y \in 0 .. x
        BY ONLY <3>1, SMT
      <3>2. Below(x) \in SUBSET (0 .. x)
        BY <3>4
      <3>3. IsFiniteSet(0 .. x)
        BY <3>1, FS_Interval
      <3> QED BY <3>2, <3>3, FS_Subset
    <2> QED BY <2>1 DEF FiniteSubsetsOf
  <1>2. PICK m \in T : \A y \in T : ~ (<<y, m>> \in StrictSubsetOrdering(S))
    BY <1>1, FS_StrictSubsetOrderingWellFounded, WFMin
  <1>3. PICK x \in S : m = Below(x)
    BY <1>2
  <1>4. \A y \in S : x <= y
    <2> SUFFICES ASSUME NEW y \in S, y < x PROVE FALSE
      BY <1>3
    <2>1. (\A z \in S : z < y => z < x) /\ ~ (y < y)
      BY SMT
    <2>2. Below(y) \subseteq Below(x) /\ y \in Below(x) /\ y \notin Below(y)
      BY <2>1
    <2>3. <<Below(y), m>> \in StrictSubsetOrdering(S)
      BY <1>3, <2>2 DEF StrictSubsetOrdering
    <2> QED BY <1>2, <2>3
  <1> QED BY <1>4 DEF Min

(* So has a finite one a highest one.                                      *)
LEMMA HighestOf ==
  ASSUME NEW S \in SUBSET Nat, S # {}, IsFiniteSet(S)
  PROVE  Max(S) \in S /\ \A y \in S : y <= Max(S)
  <1> DEFINE Above(x) == {y \in S : y > x}
             T == {Above(x) : x \in S}
  <1>1. T \subseteq FiniteSubsetsOf(S) /\ T # {}
    <2>1. ASSUME NEW x \in S PROVE Above(x) \in SUBSET S /\ IsFiniteSet(Above(x))
      BY FS_Subset
    <2> QED BY <2>1 DEF FiniteSubsetsOf
  <1>2. PICK m \in T : \A y \in T : ~ (<<y, m>> \in StrictSubsetOrdering(S))
    BY <1>1, FS_StrictSubsetOrderingWellFounded, WFMin
  <1>3. PICK x \in S : m = Above(x)
    BY <1>2
  <1>4. \A y \in S : y <= x
    <2> SUFFICES ASSUME NEW y \in S, y > x PROVE FALSE
      BY <1>3
    <2>1. (\A z \in S : z > y => z > x) /\ ~ (y > y)
      BY SMT
    <2>2. Above(y) \subseteq Above(x) /\ y \in Above(x) /\ y \notin Above(y)
      BY <2>1
    <2>3. <<Above(y), m>> \in StrictSubsetOrdering(S)
      BY <1>3, <2>2 DEF StrictSubsetOrdering
    <2> QED BY <1>2, <2>3
  <1>5. x \in S /\ \A y \in S : x >= y
    BY <1>4
  <1> QED BY <1>5 DEF Max

(* Keys are numbers below the word that stands for no key.                 *)
LEMMA KeyFacts ==
  /\ Key \subseteq Nat /\ Key # {} /\ AllOnes \in Nat
  /\ \A k \in Key : k \in Nat /\ k < AllOnes /\ -1 < k
  <1>1. Max(Key) \in Key /\ \A y \in Key : y <= Max(Key)
    BY KeyAssumption, HighestOf
  <1>2. Max(Key) \in Nat /\ AllOnes = Max(Key) + 1
    BY <1>1, KeyAssumption DEF AllOnes
  <1> HIDE DEF AllOnes
  <1>3. \A k \in Key : k \in Nat /\ k <= Max(Key)
    BY <1>1, KeyAssumption
  <1> QED BY <1>2, <1>3, KeyAssumption

(* What a split makes of MAX_LEAF_KEY separators and the one in the slack. *)
LEMMA HalfFacts ==
  /\ LEFT_KEY \in Nat /\ LEFT_KEY >= 1 /\ MAX_LEAF_KEY = 2 * LEFT_KEY
  /\ RIGHT_KEY = LEFT_KEY /\ SPLIT_POS = LEFT_KEY - 1
  /\ MAX_LEAF_KEY \in Nat /\ Slot = 0 .. 2 * LEFT_KEY
  BY CapacityAssumption DEF LEFT_KEY, RIGHT_KEY, SPLIT_POS, Slot

----------------------------------------------------------------------------
(* The tree that the words of the nodes stand for.  While splitInnerNode   *)
(* shifts and copies, a node shows its separators half moved; T is the     *)
(* tree without those half moves.  It has of each leaf and node o the keys *)
(* in it, those above lo[o] up to hi[o]; the keys led to it by the nodes   *)
(* above, up to xhi[o]; and its height ht[o].  The two bounds differ only  *)
(* at a gap: a split, of a leaf or of a node, of which the right half can  *)
(* be reached by no separator yet.  gaps are the leaves in waiting and     *)
(* what the thread under function_lock is at.                              *)

Object == Leaf \cup Node
NodeSet == [left_most_ptr : Object \cup {Null}, max_size : 0 .. MAX_LEAF_KEY + 1,
            key : [Slot -> Key \cup {AllOnes}], ptr : [Slot -> Object \cup {Null}]]
GapSet == [key : Key, sep : Key, left : Object, right : Object]

Obj(T) == T.leaves \cup T.nodes
Entries(b) == -1 .. b.max_size - 1
ChildOf(b, j) == IF j = -1 THEN b.left_most_ptr ELSE b.ptr[j]
Places(T) == {a \in T.nodes \X Slot : a[2] < T.node[a[1]].max_size}
\* What has a separator: a place in a node, or a gap whose separator has none yet.
Sources(T) == ({"node"} \X Places(T)) \cup ({"gap"} \X T.gaps)
SepOf(T, s) == IF s[1] = "node" THEN T.node[s[2][1]].key[s[2][2]] ELSE s[2].sep

\* the fields
Sorts(T) ==
    /\ T.leaves \subseteq Leaf /\ T.nodes \subseteq Node
    /\ RootLeaf \in T.leaves /\ T.root \in Obj(T)
    /\ IsFiniteSet(T.leaves) /\ IsFiniteSet(T.nodes)
    /\ T.home \in [Key -> T.leaves]
    /\ T.node \in [Node -> NodeSet]
    /\ T.gaps \subseteq GapSet
    /\ \A o \in Object : T.lo[o] \in Int /\ T.hi[o] \in Int /\ T.xhi[o] \in Int /\ T.ht[o] \in Nat

\* every leaf and node has a key that belongs to it
Ranges(T) ==
    \A o \in Obj(T) : /\ \E k \in Key : T.lo[o] < k /\ k <= T.hi[o]
                      /\ -1 <= T.lo[o] /\ T.hi[o] <= T.xhi[o] /\ T.xhi[o] <= AllOnes

\* what is on one level has no keys in common
Apart(T) ==
    \A a, b \in Obj(T) :
       a # b /\ T.ht[a] = T.ht[b] => T.hi[a] <= T.lo[b] \/ T.hi[b] <= T.lo[a]

\* a key is within the bounds of its leaf
Homes(T) ==
    /\ \A l \in T.leaves : T.ht[l] = 0
    /\ \A k \in Key : T.lo[T.home[k]] < k /\ k <= T.hi[T.home[k]]

\* the separators of a node ascend within its bounds
Ordered(T) ==
    \A n \in T.nodes :
       LET b == T.node[n] IN
       /\ b.max_size \in 1 .. MAX_LEAF_KEY + 1
       /\ \A i \in 0 .. b.max_size - 1 :
             b.key[i] \in Key /\ T.lo[n] < b.key[i] /\ b.key[i] < T.hi[n]
       /\ \A i, j \in 0 .. b.max_size - 1 : i < j => b.key[i] < b.key[j]

\* a child is between the separators beside its pointer, and no gap's right half
Children(T) ==
    \A n \in T.nodes :
       LET b == T.node[n] IN
       \A j \in Entries(b) :
          LET c == ChildOf(b, j) IN
          /\ c \in Obj(T) /\ T.ht[n] = T.ht[c] + 1
          /\ T.lo[c] = IF j = -1 THEN T.lo[n] ELSE b.key[j]
          /\ T.xhi[c] = IF j = b.max_size - 1 THEN T.hi[n] ELSE b.key[j + 1]
          /\ \A g \in T.gaps : g.right # c

\* the two halves of a split meet at its separator
Gaps(T) ==
    /\ \A g \in T.gaps :
          /\ g.left \in Obj(T) /\ g.right \in Obj(T) /\ T.ht[g.left] = T.ht[g.right]
          /\ T.hi[g.left] = g.sep /\ T.lo[g.right] = g.sep
          /\ T.xhi[g.left] = T.hi[g.right] /\ g.right # T.root
    /\ \A g, h \in T.gaps : g # h => {g.left, g.right} \cap {h.left, h.right} = {}
    /\ \A o \in Obj(T) : (\A g \in T.gaps : g.left # o) => T.xhi[o] = T.hi[o]

\* the root has all keys
Top(T) == /\ T.lo[T.root] = -1 /\ T.xhi[T.root] = AllOnes
          /\ \A o \in Obj(T) : T.ht[o] <= T.ht[T.root]

\* one separator for every leaf but the first
Separators(T) ==
    /\ \A s, t \in Sources(T) : SepOf(T, s) = SepOf(T, t) => s = t
    /\ \A s \in Sources(T) : \E l \in T.leaves : T.lo[l] = SepOf(T, s)
    /\ \A l \in T.leaves : T.lo[l] = -1 \/ \E s \in Sources(T) : T.lo[l] = SepOf(T, s)
    /\ T.lo[RootLeaf] = -1

Tree(T) == /\ Sorts(T) /\ Ranges(T) /\ Apart(T) /\ Homes(T) /\ Ordered(T)
           /\ Children(T) /\ Gaps(T) /\ Top(T) /\ Separators(T)

\* the state of the program
Shifting == smo.pc \in {"shift_ptr", "shift_key", "put_key", "grow"}
Closing == smo.pc \in {"clear", "shrink"}
Working == smo.pc \notin {"idle", "raise"}

SmoSet == [pc : SmoPC, split : Split, path : [0 .. temp_level -> Object],
           pos : [0 .. temp_level - 1 -> Int], level : 0 .. temp_level - 1,
           sep : Key, right : Object, i : Int]
Current == [key |-> smo.split.key, sep |-> smo.sep, right |-> smo.right,
            left |-> IF Shifting THEN smo.path[smo.level + 1] ELSE This]
CurrentGaps == IF smo.pc \in {"idle", "raise", "split"} THEN {} ELSE {Current}

\* c is b with the entries behind i moved up by one, to make place behind p.
Shifted(pc, b, c, i, p, right, sep) ==
    /\ c.max_size = b.max_size /\ c.left_most_ptr = b.left_most_ptr
    /\ \A j \in 0 .. b.max_size - 1 :
          IF j <= i THEN c.key[j] = b.key[j] /\ c.ptr[j] = b.ptr[j]
                    ELSE c.key[j + 1] = b.key[j] /\ c.ptr[j + 1] = b.ptr[j]
    /\ p <= i /\ i <= b.max_size - 1
    /\ pc = "shift_key" => i > p /\ c.ptr[i + 1] = b.ptr[i]
    /\ pc = "put_key" => i = p /\ c.ptr[p + 1] = right
    /\ pc = "grow" => i = p /\ c.ptr[p + 1] = right /\ c.key[p + 1] = sep

Moved(T) == Shifted(smo.pc, T.node[This], node[This], smo.i, ThisPos, smo.right, smo.sep)

Cleared(b) == [b EXCEPT !.max_size = LEFT_KEY,
                        !.ptr = [i \in Slot |-> IF i \in LEFT_KEY .. 2 * LEFT_KEY - 1
                                                THEN Null ELSE @[i]]]
\* The variables show T, but for the node at work.
Shown(T) ==
    /\ T.leaves = leaves /\ T.nodes = nodes /\ T.root = root /\ T.home = home
    /\ T.gaps = waiting \cup CurrentGaps /\ CurrentGaps \cap waiting = {}
    /\ waiting \subseteq Split
    /\ \A w \in waiting : home[w.key] \in {w.left, w.right}
    /\ node \in [Node -> NodeSet] /\ temp_level \in Nat
    /\ T.ht[root] = IF smo.pc = "raise" THEN temp_level + 1 ELSE temp_level
    /\ \A n \in nodes : (Working /\ n = This /\ (Shifting \/ Closing)) \/ T.node[n] = node[n]
    /\ Shifting => Moved(T)
    /\ Closing => /\ T.node[This] = Cleared(node[This])
                  /\ node[This].max_size = MAX_LEAF_KEY + 1
    /\ smo.pc = "shrink" => T.node[This].ptr = node[This].ptr

\* path_array leads from the root to the left half of what is being split.
Pathed(T) ==
    /\ smo.pc \in SmoPC
    /\ Working =>
       /\ smo \in SmoSet
       /\ smo.path[0] = root
       /\ \A d \in 0 .. smo.level : /\ smo.path[d] \in nodes
                                    /\ T.ht[smo.path[d]] = temp_level - d
       /\ \A d \in 0 .. smo.level :
            (d < smo.level \/ Shifting) =>
              /\ smo.pos[d] \in Entries(T.node[smo.path[d]])
              /\ smo.path[d + 1] = ChildOf(T.node[smo.path[d]], smo.pos[d])
       /\ Shifting /\ smo.level = temp_level - 1 => Current = smo.split
    /\ \A n \in nodes : T.node[n].max_size <= MAX_LEAF_KEY \/ (smo.pc = "split" /\ n = This)
    /\ smo.pc = "split" => node[This].max_size = MAX_LEAF_KEY + 1

----------------------------------------------------------------------------
(* What the intervals say of one tree.                                     *)

LEMMA RangeFacts ==
  ASSUME NEW T, Sorts(T), Ranges(T), NEW o \in Obj(T)
  PROVE  /\ o \in Object
         /\ T.lo[o] \in Int /\ T.hi[o] \in Int /\ T.xhi[o] \in Int /\ T.ht[o] \in Nat
         /\ T.lo[o] < T.hi[o] /\ T.hi[o] <= T.xhi[o] /\ -1 <= T.lo[o]
  <1>1. o \in Object
    BY DEF Sorts, Obj, Object
  <1>2. T.lo[o] \in Int /\ T.hi[o] \in Int /\ T.xhi[o] \in Int /\ T.ht[o] \in Nat
    BY <1>1 DEF Sorts
  <1>3. PICK k \in Key : T.lo[o] < k /\ k <= T.hi[o]
    BY DEF Ranges
  <1>4. k \in Nat
    BY KeyFacts
  <1>5. T.hi[o] <= T.xhi[o] /\ -1 <= T.lo[o]
    BY DEF Ranges
  <1> QED BY <1>1, <1>2, <1>3, <1>4, <1>5

(* The arrays of a node, as far as they are in use.                        *)
LEMMA NodeFacts ==
  ASSUME NEW T, Sorts(T), Ordered(T), NEW n \in T.nodes
  PROVE  LET b == T.node[n] IN
         /\ n \in Obj(T) /\ n \in Node /\ b \in NodeSet
         /\ b.max_size \in 1 .. MAX_LEAF_KEY + 1
         /\ \A i \in 0 .. b.max_size - 1 :
               /\ i \in Slot /\ b.key[i] \in Int /\ b.key[i] \in Key
               /\ T.lo[n] < b.key[i] /\ b.key[i] < T.hi[n]
         /\ \A i, j \in 0 .. b.max_size - 1 : i < j => b.key[i] < b.key[j]
  <1> DEFINE b == T.node[n]
  <1>1. n \in Obj(T) /\ n \in Node /\ b \in NodeSet
    BY DEF Sorts, Obj
  <1>2. /\ b.max_size \in 1 .. MAX_LEAF_KEY + 1
        /\ \A i \in 0 .. b.max_size - 1 :
              b.key[i] \in Key /\ T.lo[n] < b.key[i] /\ b.key[i] < T.hi[n]
        /\ \A i, j \in 0 .. b.max_size - 1 : i < j => b.key[i] < b.key[j]
    BY DEF Ordered
  <1> HIDE DEF b
  <1>3. \A i \in 0 .. b.max_size - 1 : i \in Slot
    <2>1. b.max_size \in 1 .. MAX_LEAF_KEY + 1
      BY <1>2
    <2> QED BY ONLY <2>1, HalfFacts
  <1>4. \A i \in 0 .. b.max_size - 1 : b.key[i] \in Int
    <2>1. \A k \in Key : k \in Int
      BY KeyFacts
    <2> QED BY <1>2, <2>1
  <1> QED BY <1>1, <1>2, <1>3, <1>4 DEF b

(* The interval of a child lies in that of its node.                       *)
LEMMA Inside ==
  ASSUME NEW T, Sorts(T), Ranges(T), Ordered(T), Children(T),
         NEW n \in T.nodes, NEW j \in Entries(T.node[n]),
         NEW c, c = ChildOf(T.node[n], j)
  PROVE  /\ c \in Obj(T) /\ T.ht[n] = T.ht[c] + 1
         /\ T.lo[n] <= T.lo[c] /\ T.lo[c] < T.hi[c] /\ T.hi[c] <= T.xhi[c]
         /\ T.xhi[c] <= T.hi[n]
  <1> DEFINE b == T.node[n]
  <1>1. /\ c \in Obj(T) /\ T.ht[n] = T.ht[c] + 1
        /\ T.lo[c] = IF j = -1 THEN T.lo[n] ELSE b.key[j]
        /\ T.xhi[c] = IF j = b.max_size - 1 THEN T.hi[n] ELSE b.key[j + 1]
    BY DEF Children
  <1>2. /\ n \in Obj(T) /\ b.max_size \in 1 .. MAX_LEAF_KEY + 1
        /\ \A i \in 0 .. b.max_size - 1 :
              b.key[i] \in Int /\ T.lo[n] < b.key[i] /\ b.key[i] < T.hi[n]
    BY NodeFacts
  <1>3. /\ T.lo[c] \in Int /\ T.xhi[c] \in Int /\ T.hi[c] \in Int
        /\ T.lo[c] < T.hi[c] /\ T.hi[c] <= T.xhi[c]
    BY <1>1, RangeFacts
  <1>4. T.lo[n] \in Int /\ T.hi[n] \in Int
    BY <1>2, RangeFacts
  <1>5. j \in -1 .. b.max_size - 1 /\ b.max_size \in Nat
    BY <1>2, HalfFacts DEF Entries
  <1> HIDE DEF b
  <1>6. T.lo[n] <= T.lo[c]
    BY <1>1, <1>2, <1>4, <1>5
  <1>7. T.xhi[c] <= T.hi[n]
    <2>1. CASE j = b.max_size - 1
      BY <2>1, <1>1, <1>4
    <2>2. CASE j # b.max_size - 1
      <3>1. j + 1 \in 0 .. b.max_size - 1
        BY <2>2, <1>5
      <3> QED BY <2>2, <3>1, <1>1, <1>2, <1>4
    <2> QED BY <2>1, <2>2
  <1> QED BY <1>1, <1>3, <1>6, <1>7

(* Nothing has two parents, or two places in one.                          *)
LEMMA OneParent ==
  ASSUME NEW T, Sorts(T), Ranges(T), Apart(T), Ordered(T), Children(T),
         NEW n \in T.nodes, NEW i \in Entries(T.node[n]),
         NEW m \in T.nodes, NEW j \in Entries(T.node[m]),
         ChildOf(T.node[n], i) = ChildOf(T.node[m], j)
  PROVE  n = m /\ i = j
  <1> DEFINE c == ChildOf(T.node[n], i)
  <1>1. /\ c \in Obj(T) /\ T.ht[n] = T.ht[c] + 1
        /\ T.lo[n] <= T.lo[c] /\ T.lo[c] < T.hi[c] /\ T.hi[c] <= T.xhi[c]
        /\ T.xhi[c] <= T.hi[n]
    BY Inside
  <1>2. /\ T.ht[m] = T.ht[c] + 1
        /\ T.lo[m] <= T.lo[c] /\ T.xhi[c] <= T.hi[m]
    BY Inside
  <1>3. n \in Obj(T) /\ m \in Obj(T)
    BY DEF Obj
  <1>4. /\ T.lo[n] \in Int /\ T.hi[n] \in Int /\ T.lo[m] \in Int /\ T.hi[m] \in Int
        /\ T.lo[c] \in Int /\ T.hi[c] \in Int /\ T.xhi[c] \in Int
    BY <1>1, <1>3, RangeFacts
  <1>5. n = m
    <2> SUFFICES ASSUME n # m PROVE FALSE
      OBVIOUS
    <2>1. T.hi[n] <= T.lo[m] \/ T.hi[m] <= T.lo[n]
      BY <1>1, <1>2, <1>3 DEF Apart
    <2> HIDE DEF c
    <2> QED BY <1>1, <1>2, <1>4, <2>1
  <1> DEFINE b == T.node[n]
  <1>6. /\ T.lo[c] = IF i = -1 THEN T.lo[n] ELSE b.key[i]
        /\ T.lo[c] = IF j = -1 THEN T.lo[n] ELSE b.key[j]
    BY <1>5 DEF Children
  <1>7. /\ b.max_size \in 1 .. MAX_LEAF_KEY + 1
        /\ \A d \in 0 .. b.max_size - 1 : b.key[d] \in Int /\ T.lo[n] < b.key[d]
        /\ \A d, e \in 0 .. b.max_size - 1 : d < e => b.key[d] < b.key[e]
    BY NodeFacts
  <1>8. i \in -1 .. b.max_size - 1 /\ j \in -1 .. b.max_size - 1 /\ b.max_size \in Nat
    BY <1>5, <1>7, HalfFacts DEF Entries
  <1> HIDE DEF b, c
  <1>9. i = j
    <2>1. ASSUME i < j PROVE FALSE
      BY <2>1, <1>4, <1>6, <1>7, <1>8
    <2>2. ASSUME j < i PROVE FALSE
      BY <2>2, <1>4, <1>6, <1>7, <1>8
    <2> QED BY <2>1, <2>2, <1>8
  <1> QED BY <1>5, <1>9

----------------------------------------------------------------------------
(* A gap opens: what follows its separator goes to a new leaf or node,     *)
(* which nothing leads to yet.                                             *)
Opens(T, U, w) ==
    /\ w \in GapSet /\ w.left \in Obj(T) /\ w.right \in Object \ Obj(T)
    /\ \A g \in T.gaps : w.left \notin {g.left, g.right}
    /\ T.lo[w.left] < w.sep /\ w.sep < T.hi[w.left]
    /\ Obj(U) = Obj(T) \cup {w.right} /\ U.root = T.root /\ U.gaps = T.gaps \cup {w}
    /\ \A o \in Obj(T) :
          /\ U.lo[o] = T.lo[o] /\ U.xhi[o] = T.xhi[o] /\ U.ht[o] = T.ht[o]
          /\ U.hi[o] = IF o = w.left THEN w.sep ELSE T.hi[o]
    /\ U.lo[w.right] = w.sep /\ U.hi[w.right] = T.hi[w.left]
    /\ U.xhi[w.right] = T.hi[w.left] /\ U.ht[w.right] = T.ht[w.left]

LEMMA OpenFacts ==
  ASSUME NEW T, NEW U, NEW w, Tree(T), Opens(T, U, w)
  PROVE  /\ w.sep \in Key /\ w.sep \in Int /\ w.left # w.right
         /\ T.xhi[w.left] = T.hi[w.left] /\ T.ht[w.left] \in Nat
         /\ T.lo[w.left] \in Int /\ T.hi[w.left] \in Int
         /\ \A o \in Obj(T) : o \in Obj(U) /\ o # w.right
         /\ \A o \in Obj(T) : /\ T.lo[o] \in Int /\ T.hi[o] \in Int /\ T.xhi[o] \in Int
                              /\ T.lo[o] < T.hi[o] /\ T.hi[o] <= T.xhi[o]
  <1>1. w.sep \in Key /\ w.left \in Obj(T) /\ w.right \notin Obj(T)
    BY DEF Opens, GapSet
  <1>2. \A o \in Obj(T) : /\ T.lo[o] \in Int /\ T.hi[o] \in Int /\ T.xhi[o] \in Int
                          /\ T.lo[o] < T.hi[o] /\ T.hi[o] <= T.xhi[o] /\ T.ht[o] \in Nat
    BY RangeFacts DEF Tree
  <1>3. T.xhi[w.left] = T.hi[w.left]
    <2>1. \A g \in T.gaps : g.left # w.left
      BY DEF Opens
    <2>2. \A o \in Obj(T) : (\A g \in T.gaps : g.left # o) => T.xhi[o] = T.hi[o]
      BY DEF Tree, Gaps
    <2> QED BY ONLY <1>1, <2>1, <2>2
  <1>4. \A o \in Obj(T) : o \in Obj(U) /\ o # w.right
    <2>1. Obj(U) = Obj(T) \cup {w.right}
      BY DEF Opens
    <2> QED BY <1>1, <2>1
  <1>5. w.sep \in Int /\ w.left # w.right
    <2>1. \A k \in Key : k \in Int
      BY KeyFacts
    <2> QED BY <1>1, <2>1
  <1>6. T.lo[w.left] \in Int /\ T.hi[w.left] \in Int /\ T.ht[w.left] \in Nat
    BY <1>1, <1>2
  <1> QED BY <1>1, <1>2, <1>3, <1>4, <1>5, <1>6

LEMMA OpenedRanges ==
  ASSUME NEW T, NEW U, NEW w, Tree(T), Opens(T, U, w),
         \E k \in Key : w.sep < k /\ k <= T.hi[w.left]
  PROVE  Ranges(U)
  <1> SUFFICES ASSUME NEW o \in Obj(U)
               PROVE  /\ \E k \in Key : U.lo[o] < k /\ k <= U.hi[o]
                      /\ -1 <= U.lo[o] /\ U.hi[o] <= U.xhi[o] /\ U.xhi[o] <= AllOnes
    BY DEF Ranges
  <1> DEFINE l == w.left
             n == w.right
  <1>1. /\ w.sep \in Key /\ w.sep \in Int /\ l # n /\ T.xhi[l] = T.hi[l]
        /\ T.lo[l] \in Int /\ T.hi[l] \in Int
    BY OpenFacts
  <1>2. /\ l \in Obj(T) /\ T.lo[l] < w.sep /\ w.sep < T.hi[l] /\ Obj(U) = Obj(T) \cup {n}
        /\ \A q \in Obj(T) : /\ U.lo[q] = T.lo[q] /\ U.xhi[q] = T.xhi[q]
                             /\ U.hi[q] = IF q = l THEN w.sep ELSE T.hi[q]
        /\ U.lo[n] = w.sep /\ U.hi[n] = T.hi[l] /\ U.xhi[n] = T.hi[l]
    BY DEF Opens
  <1>3. /\ -1 <= T.lo[l] /\ T.xhi[l] <= AllOnes /\ -1 <= w.sep
    BY <1>1, <1>2, KeyFacts DEF Tree, Ranges
  <1> HIDE DEF l, n
  <1>4. CASE o = n
    BY <1>1, <1>2, <1>3, <1>4 DEF l
  <1>5. CASE o = l
    <2>1. w.sep \in Key /\ U.lo[o] < w.sep /\ w.sep <= U.hi[o]
      BY <1>1, <1>2, <1>5
    <2> QED BY <2>1, <1>1, <1>2, <1>3, <1>5
  <1>6. CASE o # n /\ o # l
    BY <1>2, <1>6 DEF Tree, Ranges
  <1> QED BY <1>4, <1>5, <1>6

LEMMA Opened ==
  ASSUME NEW T, NEW U, NEW w, Tree(T), Opens(T, U, w)
  PROVE  Apart(U) /\ Gaps(U) /\ Top(U)
  <1> DEFINE l == w.left
             n == w.right
  <1>0. Sorts(T) /\ Ranges(T) /\ Apart(T) /\ Gaps(T) /\ Top(T)
    BY DEF Tree
  <1>1. /\ w.sep \in Int /\ l # n /\ T.xhi[l] = T.hi[l] /\ T.ht[l] \in Nat
        /\ T.lo[l] \in Int /\ T.hi[l] \in Int
        /\ \A o \in Obj(T) : o \in Obj(U) /\ o # n
    BY OpenFacts
  <1>2. \A o \in Obj(T) : /\ U.lo[o] = T.lo[o] /\ U.xhi[o] = T.xhi[o] /\ U.ht[o] = T.ht[o]
                          /\ U.hi[o] = IF o = l THEN w.sep ELSE T.hi[o]
    BY DEF Opens
  <1>3. U.lo[n] = w.sep /\ U.hi[n] = T.hi[l] /\ U.xhi[n] = T.hi[l] /\ U.ht[n] = T.ht[l]
    BY DEF Opens
  <1>4. \A o \in Obj(T) : /\ T.lo[o] \in Int /\ T.hi[o] \in Int /\ T.xhi[o] \in Int
                          /\ T.lo[o] < T.hi[o] /\ T.hi[o] <= T.xhi[o]
    BY OpenFacts
  <1>5. /\ l \in Obj(T) /\ n \notin Obj(T) /\ Obj(U) = Obj(T) \cup {n}
        /\ T.lo[l] < w.sep /\ w.sep < T.hi[l]
    BY DEF Opens
  <1>6. U.root = T.root /\ U.gaps = T.gaps \cup {w}
    BY DEF Opens
  <1>7. \A g \in T.gaps : l \notin {g.left, g.right}
    BY DEF Opens
  <1>9. \A g \in T.gaps : g.left \in Obj(T) /\ g.right \in Obj(T)
    BY <1>0 DEF Gaps
  <1> HIDE DEF l, n
  <1>12. Apart(U)
    <2>1. ASSUME NEW a \in Obj(T), NEW b \in Obj(T), a # b, T.ht[a] = T.ht[b]
          PROVE  T.hi[a] <= T.lo[b] \/ T.hi[b] <= T.lo[a]
      BY <2>1, <1>0 DEF Apart
    <2>2. ASSUME NEW a \in Obj(T), NEW b \in Obj(T), a # b, U.ht[a] = U.ht[b]
          PROVE  U.hi[a] <= U.lo[b] \/ U.hi[b] <= U.lo[a]
      BY <2>1, <2>2, <1>1, <1>5, <1>2, <1>4
    <2>3. ASSUME NEW a \in Obj(T), U.ht[a] = T.ht[l]
          PROVE  U.hi[a] <= U.lo[n] \/ U.hi[n] <= U.lo[a]
      <3>1. CASE a = l
        BY <3>1, <1>1, <1>5, <1>2, <1>3
      <3>2. CASE a # l
        <4>1. T.hi[a] <= T.lo[l] \/ T.hi[l] <= T.lo[a]
          BY <2>1, <2>3, <3>2, <1>1, <1>5, <1>2
        <4> QED BY <4>1, <3>2, <1>1, <1>5, <1>2, <1>3, <1>4
      <3> QED BY <3>1, <3>2
    <2> QED BY <2>2, <2>3, <1>2, <1>3, <1>5 DEF Apart
  <1>16. Gaps(U)
    <2>1. ASSUME NEW g \in T.gaps
          PROVE  /\ g.left \in Obj(U) /\ g.right \in Obj(U) /\ U.ht[g.left] = U.ht[g.right]
                 /\ U.hi[g.left] = g.sep /\ U.lo[g.right] = g.sep
                 /\ U.xhi[g.left] = U.hi[g.right] /\ g.right # U.root
      <3>1. /\ g.left \in Obj(T) /\ g.right \in Obj(T) /\ T.ht[g.left] = T.ht[g.right]
            /\ T.hi[g.left] = g.sep /\ T.lo[g.right] = g.sep
            /\ T.xhi[g.left] = T.hi[g.right] /\ g.right # T.root
        BY <1>0 DEF Gaps
      <3>2. g.left # l /\ g.right # l
        BY <1>7
      <3> QED BY <3>1, <3>2, <1>1, <1>5, <1>2, <1>6
    <2>2. /\ w.left \in Obj(U) /\ w.right \in Obj(U) /\ U.ht[w.left] = U.ht[w.right]
          /\ U.hi[w.left] = w.sep /\ U.lo[w.right] = w.sep
          /\ U.xhi[w.left] = U.hi[w.right] /\ w.right # U.root
      <3>1. n # T.root
        BY <1>0, <1>1, <1>5 DEF Sorts
      <3> QED BY <3>1, <1>1, <1>5, <1>2, <1>3, <1>6 DEF l, n
    <2>3. \A g \in T.gaps : {g.left, g.right} \cap {w.left, w.right} = {}
      BY <1>1, <1>5, <1>7, <1>9 DEF l, n
    <2>4. \A g, h \in U.gaps : g # h => {g.left, g.right} \cap {h.left, h.right} = {}
      BY <2>3, <1>0, <1>6 DEF Gaps
    <2>5. ASSUME NEW o \in Obj(U), \A g \in U.gaps : g.left # o PROVE U.xhi[o] = U.hi[o]
      <3>1. o # l /\ \A g \in T.gaps : g.left # o
        BY <2>5, <1>6 DEF l
      <3>2. CASE o = n
        BY <3>2, <1>3
      <3>3. CASE o # n
        BY <3>1, <3>3, <1>0, <1>1, <1>5, <1>2 DEF Gaps
      <3> QED BY <3>2, <3>3
    <2> QED BY <2>1, <2>2, <2>4, <2>5, <1>6 DEF Gaps
  <1>17. Top(U)
    <2>1. T.root \in Obj(T) /\ 0 <= T.ht[T.root]
      BY <1>0, RangeFacts DEF Sorts
    <2> QED BY <2>1, <1>0, <1>1, <1>5, <1>2, <1>3, <1>6 DEF Top
  <1> QED BY <1>12, <1>16, <1>17

----------------------------------------------------------------------------
(* A leaf is split: its upper keys go to a new leaf, which nothing leads   *)
(* to yet.                                                                 *)
LeafSplits(T, U, w) ==
    /\ w \in GapSet /\ w.left \in T.leaves /\ w.right \in Leaf \ T.leaves
    /\ \A g \in T.gaps : w.left \notin {g.left, g.right}
    /\ T.home[w.sep] = w.left
    /\ \E k \in Key : T.home[k] = w.left /\ k > w.sep
    /\ U.leaves = T.leaves \cup {w.right} /\ U.nodes = T.nodes
    /\ U.root = T.root /\ U.node = T.node /\ U.gaps = T.gaps \cup {w}
    /\ U.home = [k \in Key |-> IF T.home[k] = w.left /\ k > w.sep THEN w.right ELSE T.home[k]]
    /\ \A o \in Object :
          /\ U.lo[o] = IF o = w.right THEN w.sep ELSE T.lo[o]
          /\ U.hi[o] = IF o = w.right THEN T.hi[w.left]
                       ELSE IF o = w.left THEN w.sep ELSE T.hi[o]
          /\ U.xhi[o] = IF o = w.right THEN T.hi[w.left] ELSE T.xhi[o]
          /\ U.ht[o] = IF o = w.right THEN 0 ELSE T.ht[o]

LEMMA LeafSplitFacts ==
  ASSUME NEW T, NEW U, NEW w, Tree(T), LeafSplits(T, U, w)
  PROVE  /\ w.sep \in Key /\ w.sep \in Int /\ w.left \in Obj(T) /\ w.right \notin Obj(T)
         /\ w.right \in Object /\ w.left # w.right
         /\ T.ht[w.left] = 0 /\ T.xhi[w.left] = T.hi[w.left]
         /\ T.lo[w.left] < w.sep /\ w.sep < T.hi[w.left]
         /\ T.lo[w.left] \in Int /\ T.hi[w.left] \in Int
         /\ Obj(U) = Obj(T) \cup {w.right}
         /\ \A o \in Obj(T) : /\ o \in Object /\ o # w.right
                              /\ U.lo[o] = T.lo[o] /\ U.xhi[o] = T.xhi[o] /\ U.ht[o] = T.ht[o]
                              /\ U.hi[o] = IF o = w.left THEN w.sep ELSE T.hi[o]
         /\ /\ U.lo[w.right] = w.sep /\ U.hi[w.right] = T.hi[w.left]
            /\ U.xhi[w.right] = T.hi[w.left] /\ U.ht[w.right] = 0
  <1> USE DEF Tree
  <1>1. /\ w.sep \in Key /\ w.right \in Object /\ w.left \in Obj(T) /\ w.right \in Leaf
        /\ w.right \notin T.leaves
    BY DEF LeafSplits, GapSet, Obj
  <1>2. w.right \notin Obj(T)
    BY <1>1, HeapAssumption DEF Sorts, Obj
  <1>3. T.ht[w.left] = 0 /\ T.xhi[w.left] = T.hi[w.left]
    <2>1. \A g \in T.gaps : g.left # w.left
      BY DEF LeafSplits
    <2> QED BY <1>1, <2>1 DEF Homes, Gaps, LeafSplits
  <1>4. T.lo[w.left] < w.sep
    BY <1>1 DEF Homes, LeafSplits
  <1>5. PICK k \in Key : T.home[k] = w.left /\ k > w.sep
    BY DEF LeafSplits
  <1>6. k <= T.hi[w.left]
    BY <1>5 DEF Homes
  <1>7. T.lo[w.left] \in Int /\ T.hi[w.left] \in Int
    BY <1>1, RangeFacts
  <1>8. w.sep \in Int /\ k \in Int
    BY <1>1, KeyFacts
  <1>9. w.sep < T.hi[w.left]
    BY <1>5, <1>6, <1>7, <1>8
  <1>10. \A o \in Obj(T) : o \in Object /\ o # w.right
    BY <1>2, RangeFacts
  <1>11. Obj(U) = Obj(T) \cup {w.right}
    BY DEF LeafSplits, Obj
  <1> QED BY <1>1, <1>2, <1>3, <1>4, <1>7, <1>8, <1>9, <1>10, <1>11 DEF LeafSplits

LEMMA LeafSplitOpens ==
  ASSUME NEW T, NEW U, NEW w, Tree(T), LeafSplits(T, U, w)
  PROVE  Opens(T, U, w)
  <1>1. w \in GapSet /\ \A g \in T.gaps : w.left \notin {g.left, g.right}
    BY DEF LeafSplits
  <1>2. U.root = T.root /\ U.gaps = T.gaps \cup {w}
    BY DEF LeafSplits
  <1> QED BY <1>1, <1>2, LeafSplitFacts DEF Opens

LEMMA LeafSplitTree ==
  ASSUME NEW T, NEW U, NEW w, Tree(T), LeafSplits(T, U, w)
  PROVE  Tree(U)
  <1> DEFINE l == w.left
             n == w.right
  <1>0. /\ Sorts(T) /\ Ranges(T) /\ Apart(T) /\ Homes(T) /\ Ordered(T)
        /\ Children(T) /\ Gaps(T) /\ Top(T) /\ Separators(T)
    BY DEF Tree
  <1>1. /\ w.sep \in Key /\ w.sep \in Int /\ l \in Obj(T) /\ n \notin Obj(T)
        /\ n \in Object /\ l # n
        /\ T.ht[l] = 0 /\ T.xhi[l] = T.hi[l]
        /\ T.lo[l] < w.sep /\ w.sep < T.hi[l]
        /\ T.lo[l] \in Int /\ T.hi[l] \in Int
        /\ Obj(U) = Obj(T) \cup {n}
    BY LeafSplitFacts
  <1>2. \A o \in Obj(T) : /\ o \in Object /\ o # n
                          /\ U.lo[o] = T.lo[o] /\ U.xhi[o] = T.xhi[o] /\ U.ht[o] = T.ht[o]
                          /\ U.hi[o] = IF o = l THEN w.sep ELSE T.hi[o]
    BY LeafSplitFacts
  <1>3. U.lo[n] = w.sep /\ U.hi[n] = T.hi[l] /\ U.xhi[n] = T.hi[l] /\ U.ht[n] = 0
    BY LeafSplitFacts
  <1>4. \A o \in Obj(T) : /\ T.lo[o] \in Int /\ T.hi[o] \in Int /\ T.xhi[o] \in Int
                          /\ T.lo[o] < T.hi[o] /\ T.hi[o] <= T.xhi[o]
    BY <1>0, RangeFacts
  <1>5. l \in T.leaves /\ n \in Leaf /\ n \notin T.leaves
    BY DEF LeafSplits
  <1>6. /\ U.leaves = T.leaves \cup {n} /\ U.nodes = T.nodes
        /\ U.root = T.root /\ U.node = T.node /\ U.gaps = T.gaps \cup {w}
    BY DEF LeafSplits
  <1>7. w \in GapSet /\ \A g \in T.gaps : l \notin {g.left, g.right}
    BY DEF LeafSplits
  <1>8. U.home = [k \in Key |-> IF T.home[k] = l /\ k > w.sep THEN n ELSE T.home[k]]
    BY DEF LeafSplits
  <1>9. \A g \in T.gaps : g.left \in Obj(T) /\ g.right \in Obj(T)
    BY <1>0 DEF Gaps
  <1> HIDE DEF l, n
  <1>10. Sorts(U)
    <2>1. U.leaves \subseteq Leaf /\ U.nodes \subseteq Node /\ RootLeaf \in U.leaves /\ U.root \in Obj(U)
      BY <1>0, <1>1, <1>5, <1>6 DEF Sorts
    <2>2. IsFiniteSet(U.leaves) /\ IsFiniteSet(U.nodes)
      BY <1>0, <1>6, FS_AddElement DEF Sorts
    <2>3. U.home \in [Key -> U.leaves] /\ U.node \in [Node -> NodeSet] /\ U.gaps \subseteq GapSet
      BY <1>0, <1>6, <1>7, <1>8 DEF Sorts
    <2>4. ASSUME NEW o \in Object
          PROVE  U.lo[o] \in Int /\ U.hi[o] \in Int /\ U.xhi[o] \in Int /\ U.ht[o] \in Nat
      <3>1. T.lo[o] \in Int /\ T.hi[o] \in Int /\ T.xhi[o] \in Int /\ T.ht[o] \in Nat
        BY <1>0 DEF Sorts
      <3> QED BY <3>1, <1>1 DEF LeafSplits, l
    <2> QED BY ONLY <2>1, <2>2, <2>3, <2>4 DEF Sorts
  <1>11. Ranges(U)
    <2>1. PICK k \in Key : T.home[k] = l /\ k > w.sep
      BY DEF LeafSplits, l
    <2>2. k \in Int /\ k <= T.hi[w.left] /\ w.sep < k
      BY <2>1, <1>0, <1>1, KeyFacts DEF Homes, l
    <2> QED BY <2>2, OpenedRanges, LeafSplitOpens
  <1>12. Apart(U) /\ Gaps(U) /\ Top(U)
    BY Opened, LeafSplitOpens
  <1>13. Homes(U)
    <2>1. \A k \in U.leaves : U.ht[k] = 0
      BY <1>0, <1>2, <1>3, <1>6 DEF Homes, Obj
    <2>2. ASSUME NEW k \in Key PROVE U.lo[U.home[k]] < k /\ k <= U.hi[U.home[k]]
      <3>1. T.home[k] \in Obj(T) /\ T.lo[T.home[k]] < k /\ k <= T.hi[T.home[k]] /\ k \in Int
        BY <1>0, KeyFacts DEF Homes, Sorts, Obj
      <3>2. CASE T.home[k] = l /\ k > w.sep
        BY <3>1, <3>2, <1>3, <1>8
      <3>3. CASE ~(T.home[k] = l /\ k > w.sep)
        BY <3>1, <3>3, <1>1, <1>2, <1>8
      <3> QED BY <3>2, <3>3
    <2> QED BY <2>1, <2>2 DEF Homes
  <1>14. Ordered(U)
    <2>1. \A m \in T.nodes : m \in Obj(T) /\ m # l
      BY <1>0, <1>5, HeapAssumption DEF Obj, Sorts
    <2> QED BY <2>1, <1>0, <1>2, <1>6 DEF Ordered
  <1>15. Children(U)
    <2> SUFFICES ASSUME NEW m \in T.nodes, NEW j \in Entries(T.node[m]), NEW c, c = ChildOf(T.node[m], j)
                 PROVE  /\ c \in Obj(U) /\ U.ht[m] = U.ht[c] + 1
                        /\ U.lo[c] = IF j = -1 THEN U.lo[m] ELSE T.node[m].key[j]
                        /\ U.xhi[c] = IF j = T.node[m].max_size - 1 THEN U.hi[m] ELSE T.node[m].key[j + 1]
                        /\ \A g \in U.gaps : g.right # c
      BY <1>6 DEF Children
    <2>1. m \in Obj(T) /\ m # l
      BY <1>0, <1>5, HeapAssumption DEF Obj, Sorts
    <2>2. /\ c \in Obj(T) /\ T.ht[m] = T.ht[c] + 1
          /\ T.lo[c] = IF j = -1 THEN T.lo[m] ELSE T.node[m].key[j]
          /\ T.xhi[c] = IF j = T.node[m].max_size - 1 THEN T.hi[m] ELSE T.node[m].key[j + 1]
          /\ \A g \in T.gaps : g.right # c
      BY <1>0 DEF Children
    <2>3. c # w.right
      BY <2>2, <1>1 DEF n
    <2> QED BY <2>1, <2>2, <2>3, <1>1, <1>2, <1>6
  <1>18. Separators(U)
    <2>1. /\ Sources(U) = Sources(T) \cup {<<"gap", w>>}
          /\ \A s \in Sources(T) : SepOf(U, s) = SepOf(T, s)
          /\ SepOf(U, <<"gap", w>>) = w.sep
      BY <1>6 DEF Places, Sources, SepOf
    <2>2. \A m \in T.leaves : m \in Obj(T) /\ U.lo[m] = T.lo[m]
      BY <1>2 DEF Obj
    <2>3. ASSUME NEW m \in T.leaves PROVE T.lo[m] # w.sep
      <3>1. CASE m = l
        BY <3>1, <1>1
      <3>2. CASE m # l
        <4>1. T.hi[m] <= T.lo[l] \/ T.hi[l] <= T.lo[m]
          BY <3>2, <2>2, <1>0, <1>1 DEF Apart, Homes
        <4> QED BY <4>1, <2>2, <1>1, <1>4
      <3> QED BY <3>1, <3>2
    <2>4. \A s \in Sources(T) : SepOf(T, s) # w.sep
      BY <2>3, <1>0 DEF Separators
    <2>5. \A s, t \in Sources(U) : SepOf(U, s) = SepOf(U, t) => s = t
      BY <2>1, <2>4, <1>0 DEF Separators
    <2>6. \A s \in Sources(U) : \E m \in U.leaves : U.lo[m] = SepOf(U, s)
      <3>1. \A s \in Sources(T) : \E m \in U.leaves : U.lo[m] = SepOf(U, s)
        BY <2>1, <2>2, <1>0, <1>6 DEF Separators
      <3>2. n \in U.leaves /\ U.lo[n] = SepOf(U, <<"gap", w>>)
        BY <2>1, <1>3, <1>6
      <3> QED BY <3>1, <3>2, <2>1
    <2>7. ASSUME NEW m \in U.leaves
          PROVE  U.lo[m] = -1 \/ \E s \in Sources(U) : U.lo[m] = SepOf(U, s)
      <3>1. CASE m = n
        BY <3>1, <2>1, <1>3
      <3>2. CASE m # n
        <4>1. m \in T.leaves
          BY <3>2, <1>6
        <4> QED BY <4>1, <2>1, <2>2, <1>0 DEF Separators
      <3> QED BY <3>1, <3>2
    <2>8. U.lo[RootLeaf] = -1
      BY <2>2, <1>0 DEF Separators, Sorts
    <2> QED BY <2>5, <2>6, <2>7, <2>8 DEF Separators
  <1> QED BY <1>10, <1>11, <1>12, <1>13, <1>14, <1>15, <1>18 DEF Tree

----------------------------------------------------------------------------
(* A gap is closed: its separator gets a place in a node, or in a new root. *)

AtPlace(n, i) == <<"node", <<n, i>>>>
AtGap(g) == <<"gap", g>>

LEMMA Distinct ==
  /\ \A n, i, m, j : AtPlace(n, i) = AtPlace(m, j) => n = m /\ i = j
  /\ \A n, i, g : AtPlace(n, i) # AtGap(g)
  /\ \A g, h : AtGap(g) = AtGap(h) => g = h
  BY DEF AtPlace, AtGap

LEMMA SourceFacts ==
  ASSUME NEW T, Sorts(T), Ordered(T)
  PROVE  /\ \A g \in T.gaps : AtGap(g) \in Sources(T)
         /\ \A n \in T.nodes : \A i \in 0 .. T.node[n].max_size - 1 :
               AtPlace(n, i) \in Sources(T)
         /\ \A s \in Sources(T) :
               \/ \E g \in T.gaps : s = AtGap(g)
               \/ \E n \in T.nodes : \E i \in 0 .. T.node[n].max_size - 1 : s = AtPlace(n, i)
         /\ \A g : SepOf(T, AtGap(g)) = g.sep
         /\ \A n, i : SepOf(T, AtPlace(n, i)) = T.node[n].key[i]
  <1>1. \A n \in T.nodes : T.node[n].max_size \in Nat
    BY NodeFacts, HalfFacts
  <1>2. \A n \in T.nodes : \A i \in 0 .. T.node[n].max_size - 1 : <<n, i>> \in Places(T)
    BY <1>1, NodeFacts DEF Places
  <1>3. ASSUME NEW a \in Places(T)
        PROVE  \E n \in T.nodes : \E i \in 0 .. T.node[n].max_size - 1 : a = <<n, i>>
    <2>1. PICK n \in T.nodes, i \in Slot : a = <<n, i>> /\ i < T.node[n].max_size
      BY DEF Places
    <2>2. i \in 0 .. T.node[n].max_size - 1
      BY <2>1, <1>1, HalfFacts
    <2> QED BY <2>1, <2>2
  <1>4. \A g \in T.gaps : AtGap(g) \in Sources(T)
    BY DEF Sources, AtGap
  <1>5. \A a \in Places(T) : <<"node", a>> \in Sources(T)
    BY DEF Sources
  <1>6. \A s \in Sources(T) : \/ \E g \in T.gaps : s = AtGap(g)
                              \/ \E a \in Places(T) : s = <<"node", a>>
    BY DEF Sources, AtGap
  <1>7. \A g : SepOf(T, AtGap(g)) = g.sep
    BY DEF SepOf, AtGap, AtPlace
  <1>8. \A n, i : SepOf(T, AtPlace(n, i)) = T.node[n].key[i]
    BY DEF SepOf, AtGap, AtPlace
  <1>9. \A n, i : AtPlace(n, i) = <<"node", <<n, i>>>>
    BY DEF AtPlace
  <1> QED BY <1>2, <1>3, <1>4, <1>5, <1>6, <1>7, <1>8, <1>9

(* Separators that only change places stay one for each leaf.              *)
LEMMA SeparatorsMove ==
  ASSUME NEW T, NEW U, Separators(T), RootLeaf \in T.leaves,
         U.leaves = T.leaves, \A l \in T.leaves : U.lo[l] = T.lo[l],
         NEW f, NEW e,
         \A s \in Sources(U) : /\ f[s] \in Sources(T) /\ e[f[s]] = s
                               /\ SepOf(U, s) = SepOf(T, f[s]),
         \A t \in Sources(T) : e[t] \in Sources(U) /\ f[e[t]] = t
  PROVE  Separators(U)
  <1>1. ASSUME NEW s \in Sources(U), NEW t \in Sources(U), SepOf(U, s) = SepOf(U, t)
        PROVE  s = t
    <2>1. f[s] = f[t]
      BY <1>1 DEF Separators
    <2>2. e[f[s]] = s /\ e[f[t]] = t
      OBVIOUS
    <2> QED BY <2>1, <2>2
  <1>2. \A s \in Sources(U) : \E l \in U.leaves : U.lo[l] = SepOf(U, s)
    BY DEF Separators
  <1>3. ASSUME NEW l \in U.leaves
        PROVE  U.lo[l] = -1 \/ \E s \in Sources(U) : U.lo[l] = SepOf(U, s)
    <2>1. CASE T.lo[l] = -1
      BY <2>1
    <2>2. CASE T.lo[l] # -1
      <3>1. PICK t \in Sources(T) : T.lo[l] = SepOf(T, t)
        BY <2>2 DEF Separators
      <3>2. PICK s \in Sources(U) : f[s] = t
        OBVIOUS
      <3> QED BY <3>1, <3>2
    <2> QED BY <2>1, <2>2
  <1>4. U.lo[RootLeaf] = -1
    BY DEF Separators
  <1> QED BY <1>1, <1>2, <1>3, <1>4 DEF Separators

(* What becomes of the two sides of the gap: nothing but that the left one *)
(* ends where its keys end.                                                *)
Closes(T, U, g) ==
    /\ g \in T.gaps /\ U.gaps = T.gaps \ {g}
    /\ U.leaves = T.leaves /\ U.home = T.home
    /\ T.nodes \subseteq U.nodes
    /\ \A o \in Obj(T) :
          /\ U.lo[o] = T.lo[o] /\ U.hi[o] = T.hi[o] /\ U.ht[o] = T.ht[o]
          /\ U.xhi[o] = IF o = g.left THEN T.hi[o] ELSE T.xhi[o]

LEMMA GapFacts ==
  ASSUME NEW T, Tree(T), NEW g \in T.gaps
  PROVE  /\ g.left \in Obj(T) /\ g.right \in Obj(T) /\ g.left # g.right
         /\ T.ht[g.left] = T.ht[g.right] /\ g.sep \in Key /\ g.sep \in Int
         /\ T.hi[g.left] = g.sep /\ T.lo[g.right] = g.sep
         /\ T.xhi[g.left] = T.hi[g.right] /\ T.xhi[g.right] = T.hi[g.right]
         /\ T.lo[g.left] < g.sep /\ g.sep < T.hi[g.right]
         /\ \A h \in T.gaps \ {g} : {g.left, g.right} \cap {h.left, h.right} = {}
  <1>1. /\ g.left \in Obj(T) /\ g.right \in Obj(T) /\ T.ht[g.left] = T.ht[g.right]
        /\ T.hi[g.left] = g.sep /\ T.lo[g.right] = g.sep /\ T.xhi[g.left] = T.hi[g.right]
    BY DEF Tree, Gaps
  <1>2. g.sep \in Key /\ g.sep \in Int
    <2>1. g \in GapSet
      BY DEF Tree, Sorts
    <2> QED BY <2>1, KeyFacts DEF GapSet
  <1>3. /\ T.lo[g.left] < T.hi[g.left] /\ T.lo[g.right] < T.hi[g.right]
        /\ T.lo[g.left] \in Int /\ T.hi[g.right] \in Int
    BY <1>1, RangeFacts DEF Tree
  <1>4. g.left # g.right
    BY <1>1, <1>2, <1>3
  <1>5. \A h \in T.gaps \ {g} : {g.left, g.right} \cap {h.left, h.right} = {}
    BY DEF Tree, Gaps
  <1>6. T.xhi[g.right] = T.hi[g.right]
    <2>1. \A h \in T.gaps : h.left # g.right
      BY <1>4, <1>5
    <2> QED BY <1>1, <2>1 DEF Tree, Gaps
  <1> QED BY <1>1, <1>2, <1>3, <1>4, <1>5, <1>6

(* What is in the tree already is not disturbed when a gap closes.         *)
LEMMA ClosedGaps ==
  ASSUME NEW T, NEW U, NEW g, Tree(T), Closes(T, U, g), U.root # g.right,
         \A h \in T.gaps : h.right # U.root,
         \A o \in Obj(U) \ Obj(T) : U.xhi[o] = U.hi[o]
  PROVE  Gaps(U)
  <1>1. \A o \in Obj(T) :
          /\ o \in Obj(U) /\ U.lo[o] = T.lo[o] /\ U.hi[o] = T.hi[o] /\ U.ht[o] = T.ht[o]
          /\ U.xhi[o] = IF o = g.left THEN T.hi[o] ELSE T.xhi[o]
    BY DEF Closes, Obj
  <1>2. g \in T.gaps /\ U.gaps = T.gaps \ {g}
    BY DEF Closes
  <1>3. \A h \in U.gaps : {g.left, g.right} \cap {h.left, h.right} = {}
    BY <1>2, GapFacts
  <1>4. ASSUME NEW h \in U.gaps
        PROVE  /\ h.left \in Obj(U) /\ h.right \in Obj(U) /\ U.ht[h.left] = U.ht[h.right]
               /\ U.hi[h.left] = h.sep /\ U.lo[h.right] = h.sep
               /\ U.xhi[h.left] = U.hi[h.right] /\ h.right # U.root
    <2>1. /\ h \in T.gaps /\ h.left \in Obj(T) /\ h.right \in Obj(T) /\ T.ht[h.left] = T.ht[h.right]
          /\ T.hi[h.left] = h.sep /\ T.lo[h.right] = h.sep /\ T.xhi[h.left] = T.hi[h.right]
      BY <1>2 DEF Tree, Gaps
    <2>2. h.left # g.left
      BY <1>3
    <2> QED BY <1>1, <2>1, <2>2
  <1>5. \A h, e \in U.gaps : h # e => {h.left, h.right} \cap {e.left, e.right} = {}
    BY <1>2 DEF Tree, Gaps
  <1>6. ASSUME NEW o \in Obj(U), \A h \in U.gaps : h.left # o PROVE U.xhi[o] = U.hi[o]
    <2>1. CASE o \notin Obj(T)
      BY <2>1
    <2>2. CASE o \in Obj(T) /\ o = g.left
      BY <2>2, <1>1
    <2>3. CASE o \in Obj(T) /\ o # g.left
      <3>1. \A h \in T.gaps : h.left # o
        BY <1>2, <1>6, <2>3
      <3> QED BY <2>3, <3>1, <1>1 DEF Tree, Gaps
    <2> QED BY <2>1, <2>2, <2>3
  <1> QED BY <1>4, <1>5, <1>6 DEF Gaps

(* The node b is the node a with the separator s and the pointer r behind  *)
(* its entry p.                                                            *)
Inserted(a, b, p, s, r) ==
    /\ b.max_size = a.max_size + 1 /\ b.left_most_ptr = a.left_most_ptr
    /\ \A j \in 0 .. a.max_size :
          /\ b.key[j] = IF j <= p THEN a.key[j] ELSE IF j = p + 1 THEN s ELSE a.key[j - 1]
          /\ b.ptr[j] = IF j <= p THEN a.ptr[j] ELSE IF j = p + 1 THEN r ELSE a.ptr[j - 1]

Enters(T, U, g, x, p) ==
    /\ Closes(T, U, g)
    /\ U.nodes = T.nodes /\ U.root = T.root
    /\ U.node \in [Node -> NodeSet]
    /\ \A o \in Object : U.lo[o] \in Int /\ U.hi[o] \in Int /\ U.xhi[o] \in Int /\ U.ht[o] \in Nat
    /\ x \in T.nodes /\ p \in Entries(T.node[x]) /\ g.left = ChildOf(T.node[x], p)
    /\ T.node[x].max_size <= MAX_LEAF_KEY
    /\ Inserted(T.node[x], U.node[x], p, g.sep, g.right)
    /\ \A n \in T.nodes : n # x => U.node[n] = T.node[n]

LEMMA EnterFacts ==
  ASSUME NEW T, NEW U, NEW g, NEW x, NEW p, Tree(T), Enters(T, U, g, x, p)
  PROVE  LET a == T.node[x] IN
         /\ a.max_size \in 1 .. MAX_LEAF_KEY /\ p \in -1 .. a.max_size - 1
         /\ T.lo[x] < g.sep /\ g.sep < T.hi[x]
         /\ \A j \in 0 .. a.max_size - 1 : /\ a.key[j] \in Key /\ a.key[j] \in Int
                                           /\ T.lo[x] < a.key[j] /\ a.key[j] < T.hi[x]
                                           /\ j <= p => a.key[j] < g.sep
                                           /\ j > p => g.sep < a.key[j]
         /\ \A i, j \in 0 .. a.max_size - 1 : i < j => a.key[i] < a.key[j]
         /\ T.hi[g.right] = IF p = a.max_size - 1 THEN T.hi[x] ELSE a.key[p + 1]
         /\ T.ht[x] = T.ht[g.right] + 1
  <1> DEFINE a == T.node[x]
             l == g.left
  <1>1. /\ x \in T.nodes /\ p \in Entries(a) /\ l = ChildOf(a, p) /\ g \in T.gaps
        /\ a.max_size <= MAX_LEAF_KEY
    BY DEF Enters, Closes
  <1>2. /\ x \in Obj(T) /\ a.max_size \in 1 .. MAX_LEAF_KEY + 1
        /\ \A j \in 0 .. a.max_size - 1 : a.key[j] \in Int /\ a.key[j] \in Key
                                          /\ T.lo[x] < a.key[j] /\ a.key[j] < T.hi[x]
        /\ \A i, j \in 0 .. a.max_size - 1 : i < j => a.key[i] < a.key[j]
    BY <1>1, NodeFacts DEF Tree
  <1>3. /\ l \in Obj(T) /\ T.ht[x] = T.ht[l] + 1
        /\ T.lo[x] <= T.lo[l] /\ T.lo[l] < T.hi[l] /\ T.hi[l] <= T.xhi[l] /\ T.xhi[l] <= T.hi[x]
    BY <1>1, Inside DEF Tree
  <1>4. /\ g.sep \in Int /\ T.hi[l] = g.sep /\ T.xhi[l] = T.hi[g.right]
        /\ T.ht[l] = T.ht[g.right] /\ g.sep < T.hi[g.right] /\ T.hi[g.right] \in Int
    <2>1. g.right \in Obj(T) /\ g.sep \in Int /\ g.sep < T.hi[g.right]
          /\ T.hi[l] = g.sep /\ T.xhi[l] = T.hi[g.right] /\ T.ht[l] = T.ht[g.right]
      BY <1>1, GapFacts
    <2> QED BY <2>1, RangeFacts DEF Tree
  <1>5. /\ T.lo[x] \in Int /\ T.hi[x] \in Int /\ T.lo[l] \in Int /\ T.hi[l] \in Int /\ T.xhi[l] \in Int
    BY <1>2, <1>3, RangeFacts DEF Tree
  <1>6. /\ T.lo[l] = IF p = -1 THEN T.lo[x] ELSE a.key[p]
        /\ T.xhi[l] = IF p = a.max_size - 1 THEN T.hi[x] ELSE a.key[p + 1]
    BY <1>1 DEF Tree, Children
  <1>7. a.max_size \in 1 .. MAX_LEAF_KEY /\ p \in -1 .. a.max_size - 1 /\ a.max_size \in Nat
    BY <1>1, <1>2, HalfFacts DEF Entries
  <1> HIDE DEF a, l
  <1>8. T.lo[x] < g.sep /\ g.sep < T.hi[x]
    BY <1>3, <1>4, <1>5
  <1>9. ASSUME NEW j \in 0 .. a.max_size - 1 PROVE (j <= p => a.key[j] < g.sep) /\ (j > p => g.sep < a.key[j])
    <2>1. ASSUME j <= p PROVE a.key[j] < g.sep
      <3>1. p \in 0 .. a.max_size - 1 /\ a.key[p] = T.lo[l] /\ (j = p \/ a.key[j] < a.key[p])
        BY <2>1, <1>2, <1>6, <1>7
      <3> QED BY <3>1, <1>2, <1>3, <1>4, <1>5
    <2>2. ASSUME j > p PROVE g.sep < a.key[j]
      <3>1. p + 1 \in 0 .. a.max_size - 1 /\ a.key[p + 1] = T.xhi[l] /\ (j = p + 1 \/ a.key[p + 1] < a.key[j])
        BY <2>2, <1>2, <1>6, <1>7
      <3> QED BY <3>1, <1>2, <1>3, <1>4, <1>5
    <2> QED BY <2>1, <2>2
  <1> QED BY <1>2, <1>3, <1>4, <1>6, <1>7, <1>8, <1>9 DEF a

LEMMA EnterOrdered ==
  ASSUME NEW T, NEW U, NEW g, NEW x, NEW p, Tree(T), Enters(T, U, g, x, p)
  PROVE  Ordered(U)
  <1> DEFINE a == T.node[x]
             b == U.node[x]
  <1>1. /\ a.max_size \in 1 .. MAX_LEAF_KEY /\ p \in -1 .. a.max_size - 1
        /\ T.lo[x] < g.sep /\ g.sep < T.hi[x]
        /\ \A j \in 0 .. a.max_size - 1 : /\ a.key[j] \in Key /\ a.key[j] \in Int
                                          /\ T.lo[x] < a.key[j] /\ a.key[j] < T.hi[x]
                                          /\ j <= p => a.key[j] < g.sep
                                          /\ j > p => g.sep < a.key[j]
        /\ \A i, j \in 0 .. a.max_size - 1 : i < j => a.key[i] < a.key[j]
    BY EnterFacts
  <1>2. /\ b.max_size = a.max_size + 1
        /\ \A j \in 0 .. a.max_size :
              b.key[j] = IF j <= p THEN a.key[j] ELSE IF j = p + 1 THEN g.sep ELSE a.key[j - 1]
    BY DEF Enters, Inserted
  <1>3. g.sep \in Key /\ g.sep \in Int
    BY GapFacts DEF Enters, Closes
  <1>4. MAX_LEAF_KEY \in Nat
    BY HalfFacts
  <1>5. \A n \in T.nodes : n \in Obj(T)
    BY DEF Obj
  <1>6. /\ U.nodes = T.nodes /\ \A n \in T.nodes : n # x => U.node[n] = T.node[n]
        /\ \A n \in T.nodes : U.lo[n] = T.lo[n] /\ U.hi[n] = T.hi[n]
    BY <1>5 DEF Enters, Closes
  <1> HIDE DEF a, b
  <1>7. b.max_size \in 1 .. MAX_LEAF_KEY + 1
    BY <1>1, <1>2, <1>4
  <1>8. ASSUME NEW j \in 0 .. b.max_size - 1
        PROVE  b.key[j] \in Key /\ T.lo[x] < b.key[j] /\ b.key[j] < T.hi[x]
    BY <1>1, <1>2, <1>3, <1>4
  <1>9. ASSUME NEW i \in 0 .. b.max_size - 1, NEW j \in 0 .. b.max_size - 1, i < j
        PROVE  b.key[i] < b.key[j]
    BY <1>1, <1>2, <1>3, <1>4, <1>9
  <1>10. ASSUME NEW n \in T.nodes, n # x
         PROVE  LET d == U.node[n] IN
                /\ d.max_size \in 1 .. MAX_LEAF_KEY + 1
                /\ \A i \in 0 .. d.max_size - 1 :
                      d.key[i] \in Key /\ U.lo[n] < d.key[i] /\ d.key[i] < U.hi[n]
                /\ \A i, j \in 0 .. d.max_size - 1 : i < j => d.key[i] < d.key[j]
    BY <1>6, <1>10 DEF Tree, Ordered
  <1> QED BY <1>6, <1>7, <1>8, <1>9, <1>10 DEF Ordered, b

LEMMA EnterChildren ==
  ASSUME NEW T, NEW U, NEW g, NEW x, NEW p, Tree(T), Enters(T, U, g, x, p)
  PROVE  Children(U)
  <1> DEFINE a == T.node[x]
             b == U.node[x]
             Child_(n, d, j, c) ==
               /\ c \in Obj(U) /\ U.ht[n] = U.ht[c] + 1
               /\ U.lo[c] = IF j = -1 THEN U.lo[n] ELSE d.key[j]
               /\ U.xhi[c] = IF j = d.max_size - 1 THEN U.hi[n] ELSE d.key[j + 1]
               /\ \A h \in U.gaps : h.right # c
  <1>1. /\ x \in T.nodes /\ p \in Entries(a) /\ g.left = ChildOf(a, p) /\ g \in T.gaps
        /\ U.nodes = T.nodes /\ U.gaps = T.gaps \ {g} /\ Obj(U) = Obj(T)
        /\ \A n \in T.nodes : n # x => U.node[n] = T.node[n]
    BY DEF Enters, Closes, Obj
  <1>2. \A o \in Obj(T) :
          /\ U.lo[o] = T.lo[o] /\ U.hi[o] = T.hi[o] /\ U.ht[o] = T.ht[o]
          /\ U.xhi[o] = IF o = g.left THEN T.hi[o] ELSE T.xhi[o]
    BY DEF Enters, Closes
  <1>3. \A n \in T.nodes : n \in Obj(T)
    BY DEF Obj
  <1>4. ASSUME NEW n \in T.nodes, NEW j \in Entries(T.node[n]), NEW c, c = ChildOf(T.node[n], j)
        PROVE  /\ c \in Obj(T) /\ U.ht[n] = U.ht[c] + 1
               /\ U.lo[c] = IF j = -1 THEN U.lo[n] ELSE T.node[n].key[j]
               /\ T.xhi[c] = IF j = T.node[n].max_size - 1 THEN U.hi[n] ELSE T.node[n].key[j + 1]
               /\ \A h \in U.gaps : h.right # c
               /\ ~(n = x /\ j = p) => c # g.left /\ U.xhi[c] = T.xhi[c]
    <2>1. /\ c \in Obj(T) /\ T.ht[n] = T.ht[c] + 1
          /\ T.lo[c] = IF j = -1 THEN T.lo[n] ELSE T.node[n].key[j]
          /\ T.xhi[c] = IF j = T.node[n].max_size - 1 THEN T.hi[n] ELSE T.node[n].key[j + 1]
          /\ \A h \in T.gaps : h.right # c
      BY <1>4 DEF Tree, Children
    <2>2. ~(n = x /\ j = p) => c # g.left
      BY <1>1, <1>4, OneParent DEF Tree
    <2> QED BY <2>1, <2>2, <1>1, <1>2, <1>3
  <1>5. ASSUME NEW n \in T.nodes, n # x, NEW j \in Entries(U.node[n])
        PROVE  Child_(n, U.node[n], j, ChildOf(U.node[n], j))
    BY <1>1, <1>4, <1>5
  <1>6. /\ a.max_size \in 1 .. MAX_LEAF_KEY /\ p \in -1 .. a.max_size - 1
        /\ T.hi[g.right] = IF p = a.max_size - 1 THEN T.hi[x] ELSE a.key[p + 1]
        /\ T.ht[x] = T.ht[g.right] + 1
    BY EnterFacts
  <1>7. /\ b.max_size = a.max_size + 1 /\ b.left_most_ptr = a.left_most_ptr
        /\ \A j \in 0 .. a.max_size :
          /\ b.key[j] = IF j <= p THEN a.key[j] ELSE IF j = p + 1 THEN g.sep ELSE a.key[j - 1]
          /\ b.ptr[j] = IF j <= p THEN a.ptr[j] ELSE IF j = p + 1 THEN g.right ELSE a.ptr[j - 1]
    BY DEF Enters, Inserted
  <1>8. /\ g.right \in Obj(T) /\ g.left # g.right /\ T.lo[g.right] = g.sep /\ T.hi[g.left] = g.sep
        /\ T.xhi[g.right] = T.hi[g.right]
        /\ \A h \in U.gaps : h.right # g.right
    <2>1. \A h \in T.gaps \ {g} : {g.left, g.right} \cap {h.left, h.right} = {}
      BY <1>1, GapFacts
    <2> QED BY <1>1, <2>1, GapFacts
  <1>9. MAX_LEAF_KEY \in Nat /\ -1 .. a.max_size - 1 = Entries(a) /\ Entries(b) = -1 .. b.max_size - 1
    BY HalfFacts DEF Entries
  <1>10. ASSUME NEW j \in Entries(b) PROVE Child_(x, b, j, ChildOf(b, j))
    <2> HIDE DEF a, b
    <2>1. /\ a.max_size \in Nat /\ a.max_size >= 1 /\ p \in Int /\ p >= -1 /\ p <= a.max_size - 1
          /\ j \in Int /\ j >= -1 /\ j <= a.max_size /\ b.max_size - 1 = a.max_size
      BY ONLY <1>6, <1>7, <1>9, <1>10
    <2>2. CASE j = p + 1
      <3>1. j \in 0 .. a.max_size /\ j # -1
        BY ONLY <2>1, <2>2
      <3>2. ChildOf(b, j) = g.right /\ b.key[j] = g.sep
        BY <2>1, <2>2, <3>1, <1>7 DEF ChildOf
      <3>3. U.ht[x] = U.ht[g.right] + 1
        BY <1>1, <1>2, <1>3, <1>6, <1>8
      <3>4. T.hi[g.right] = IF j = b.max_size - 1 THEN T.hi[x] ELSE b.key[j + 1]
        <4>1. CASE j = a.max_size
          <5>1. p = a.max_size - 1 /\ j = b.max_size - 1
            BY ONLY <4>1, <2>1, <2>2
          <5> QED BY <5>1, <1>6
        <4>2. CASE j # a.max_size
          <5>1. /\ j + 1 \in 0 .. a.max_size /\ ~(j + 1 <= p) /\ j + 1 # p + 1 /\ j + 1 - 1 = p + 1
                /\ j # b.max_size - 1 /\ p # a.max_size - 1
            BY ONLY <4>2, <2>1, <2>2, <3>1
          <5>2. PICK d : d = j + 1
            OBVIOUS
          <5>3. d \in 0 .. a.max_size /\ ~(d <= p) /\ d # p + 1 /\ d - 1 = p + 1
            BY ONLY <5>1, <5>2, <2>1, <2>2, <4>2
          <5>4. b.key[d] = a.key[d - 1]
            BY ONLY <5>3, <1>7
          <5>5. b.key[j + 1] = a.key[p + 1]
            BY ONLY <5>2, <5>3, <5>4
          <5> QED BY <5>1, <5>5, <1>6
        <4> QED BY <4>1, <4>2
      <3> QED BY <3>1, <3>2, <3>3, <3>4, <1>1, <1>2, <1>3, <1>8
    <2>3. CASE j = p
      <3>1. ChildOf(b, j) = g.left /\ (j # -1 => b.key[j] = a.key[j])
        <4>1. j # -1 => j \in 0 .. a.max_size /\ j <= p
          BY ONLY <2>1, <2>3
        <4> QED BY <2>3, <4>1, <1>1, <1>7 DEF ChildOf
      <3>2. j + 1 \in 0 .. a.max_size /\ b.key[j + 1] = g.sep /\ j # b.max_size - 1
        <4>1. j + 1 \in 0 .. a.max_size /\ ~(j + 1 <= p) /\ j # b.max_size - 1
          BY ONLY <2>1, <2>3
        <4> QED BY <2>3, <4>1, <1>7
      <3>3. p \in Entries(T.node[x]) /\ g.left = ChildOf(T.node[x], p)
        BY <1>1 DEF a
      <3>4. /\ g.left \in Obj(T) /\ U.ht[x] = U.ht[g.left] + 1
            /\ U.lo[g.left] = IF p = -1 THEN U.lo[x] ELSE a.key[p]
            /\ \A h \in U.gaps : h.right # g.left
        BY <3>3, <1>1, <1>4 DEF a
      <3>5. U.xhi[g.left] = g.sep
        BY <3>4, <1>2, <1>8
      <3> QED BY <2>3, <3>1, <3>2, <3>4, <3>5, <1>1
    <2>4. CASE j < p
      <3>1. /\ j \in -1 .. a.max_size - 1 /\ j # a.max_size - 1 /\ j # b.max_size - 1
            /\ j + 1 \in 0 .. a.max_size /\ j + 1 <= p /\ j # p /\ (j # -1 => j \in 0 .. a.max_size)
            /\ j <= p
        BY ONLY <2>1, <2>4
      <3>2. ChildOf(b, j) = ChildOf(a, j) /\ (j # -1 => b.key[j] = a.key[j])
        BY <3>1, <1>7 DEF ChildOf
      <3>3. b.key[j + 1] = a.key[j + 1]
        BY <3>1, <1>7
      <3>4. j \in Entries(T.node[x])
        BY <3>1, <1>9 DEF a
      <3>5. /\ ChildOf(a, j) \in Obj(T) /\ U.ht[x] = U.ht[ChildOf(a, j)] + 1
            /\ U.lo[ChildOf(a, j)] = IF j = -1 THEN U.lo[x] ELSE a.key[j]
            /\ T.xhi[ChildOf(a, j)] = a.key[j + 1]
            /\ \A h \in U.gaps : h.right # ChildOf(a, j)
            /\ U.xhi[ChildOf(a, j)] = T.xhi[ChildOf(a, j)]
        BY <3>1, <3>4, <1>1, <1>4 DEF a
      <3> QED BY <3>1, <3>2, <3>3, <3>5, <1>1
    <2>5. CASE j > p + 1
      <3>1. /\ j - 1 \in -1 .. a.max_size - 1 /\ j # -1 /\ j - 1 # -1 /\ j \in 0 .. a.max_size /\ j - 1 # p
            /\ (j - 1 = a.max_size - 1 <=> j = b.max_size - 1) /\ ~(j <= p) /\ j # p + 1
        BY ONLY <2>1, <2>5
      <3>2. ChildOf(b, j) = ChildOf(a, j - 1) /\ b.key[j] = a.key[j - 1]
        BY <3>1, <1>7 DEF ChildOf
      <3>3. j # b.max_size - 1 => b.key[j + 1] = a.key[j]
        <4>1. j # b.max_size - 1 => /\ j + 1 \in 0 .. a.max_size /\ j + 1 - 1 = j
                                    /\ ~(j + 1 <= p) /\ j + 1 # p + 1
          BY ONLY <2>1, <2>5
        <4>2. PICK d : d = j + 1
          OBVIOUS
        <4>3. j # b.max_size - 1 => /\ d \in 0 .. a.max_size /\ d - 1 = j
                                    /\ ~(d <= p) /\ d # p + 1
          BY ONLY <2>1, <2>5, <4>2
        <4>4. j # b.max_size - 1 => b.key[d] = a.key[d - 1]
          BY ONLY <4>3, <1>7
        <4> QED BY ONLY <4>2, <4>3, <4>4
      <3>4. j - 1 \in Entries(T.node[x])
        BY <3>1, <1>9 DEF a
      <3> DEFINE c == ChildOf(a, j - 1)
      <3>5. /\ c \in Obj(T) /\ U.ht[x] = U.ht[c] + 1
            /\ U.lo[c] = IF j - 1 = -1 THEN U.lo[x] ELSE a.key[j - 1]
            /\ T.xhi[c] = IF j - 1 = a.max_size - 1 THEN U.hi[x] ELSE a.key[j - 1 + 1]
            /\ \A h \in U.gaps : h.right # c
            /\ U.xhi[c] = T.xhi[c]
        BY <3>1, <3>4, <1>1, <1>4 DEF a
      <3>6. j - 1 + 1 = j
        BY ONLY <2>1
      <3> HIDE DEF c
      <3> QED BY <3>1, <3>2, <3>3, <3>5, <3>6, <1>1 DEF c
    <2> HIDE DEF Child_
    <2> QED BY <2>1, <2>2, <2>3, <2>4, <2>5
  <1>11. ASSUME NEW n \in U.nodes, NEW j \in Entries(U.node[n])
         PROVE  Child_(n, U.node[n], j, ChildOf(U.node[n], j))
    BY <1>1, <1>5, <1>10
  <1> QED BY <1>11 DEF Children

LEMMA EnterSeparators ==
  ASSUME NEW T, NEW U, NEW g, NEW x, NEW p, Tree(T), Enters(T, U, g, x, p), Sorts(U), Ordered(U)
  PROVE  Separators(U)
  <1> DEFINE a == T.node[x]
             b == U.node[x]
             f == [s \in Sources(U) |->
                     IF s[1] = "node" /\ s[2][1] = x /\ s[2][2] = p + 1 THEN AtGap(g)
                     ELSE IF s[1] = "node" /\ s[2][1] = x /\ s[2][2] > p + 1
                          THEN AtPlace(x, s[2][2] - 1) ELSE s]
             e == [t \in Sources(T) |->
                     IF t[1] = "gap" /\ t[2] = g THEN AtPlace(x, p + 1)
                     ELSE IF t[1] = "node" /\ t[2][1] = x /\ t[2][2] > p
                          THEN AtPlace(x, t[2][2] + 1) ELSE t]
  <1>1. /\ x \in T.nodes /\ g \in T.gaps /\ U.nodes = T.nodes /\ U.gaps = T.gaps \ {g}
        /\ U.leaves = T.leaves /\ \A n \in T.nodes : n # x => U.node[n] = T.node[n]
    BY DEF Enters, Closes
  <1>2. /\ a.max_size \in Nat /\ a.max_size >= 1 /\ p \in Int /\ p >= -1 /\ p <= a.max_size - 1
    BY EnterFacts, HalfFacts
  <1>3. /\ b.max_size = a.max_size + 1
        /\ \A j \in 0 .. a.max_size :
              b.key[j] = IF j <= p THEN a.key[j] ELSE IF j = p + 1 THEN g.sep ELSE a.key[j - 1]
    BY DEF Enters, Inserted
  <1>4. /\ \A h \in T.gaps : AtGap(h) \in Sources(T)
        /\ \A n \in T.nodes : \A i \in 0 .. T.node[n].max_size - 1 : AtPlace(n, i) \in Sources(T)
        /\ \A s \in Sources(T) :
              \/ \E h \in T.gaps : s = AtGap(h)
              \/ \E n \in T.nodes : \E i \in 0 .. T.node[n].max_size - 1 : s = AtPlace(n, i)
        /\ \A h : SepOf(T, AtGap(h)) = h.sep
        /\ \A n, i : SepOf(T, AtPlace(n, i)) = T.node[n].key[i]
    BY SourceFacts DEF Tree
  <1>5. /\ \A h \in U.gaps : AtGap(h) \in Sources(U)
        /\ \A n \in U.nodes : \A i \in 0 .. U.node[n].max_size - 1 : AtPlace(n, i) \in Sources(U)
        /\ \A s \in Sources(U) :
              \/ \E h \in U.gaps : s = AtGap(h)
              \/ \E n \in U.nodes : \E i \in 0 .. U.node[n].max_size - 1 : s = AtPlace(n, i)
        /\ \A h : SepOf(U, AtGap(h)) = h.sep
        /\ \A n, i : SepOf(U, AtPlace(n, i)) = U.node[n].key[i]
    BY SourceFacts
  <1>6. /\ \A h \in U.gaps : f[AtGap(h)] = AtGap(h)
        /\ \A n \in U.nodes : \A i \in 0 .. U.node[n].max_size - 1 :
              f[AtPlace(n, i)] = IF n = x /\ i = p + 1 THEN AtGap(g)
                                        ELSE IF n = x /\ i > p + 1 THEN AtPlace(x, i - 1)
                                        ELSE AtPlace(n, i)
    BY <1>5 DEF AtPlace, AtGap
  <1>7. /\ \A h \in T.gaps : e[AtGap(h)] = IF h = g THEN AtPlace(x, p + 1) ELSE AtGap(h)
        /\ \A n \in T.nodes : \A i \in 0 .. T.node[n].max_size - 1 :
              e[AtPlace(n, i)] = IF n = x /\ i > p THEN AtPlace(x, i + 1)
                                        ELSE AtPlace(n, i)
    BY <1>4 DEF AtPlace, AtGap
  <1> HIDE DEF f, e, a, b
  <1>8. ASSUME NEW s \in Sources(U)
        PROVE  f[s] \in Sources(T) /\ e[f[s]] = s /\ SepOf(U, s) = SepOf(T, f[s])
    <2>1. CASE \E h \in U.gaps : s = AtGap(h)
      BY <2>1, <1>1, <1>4, <1>5, <1>6, <1>7
    <2>2. ASSUME NEW n \in U.nodes, NEW i \in 0 .. U.node[n].max_size - 1, s = AtPlace(n, i)
          PROVE  f[s] \in Sources(T) /\ e[f[s]] = s /\ SepOf(U, s) = SepOf(T, f[s])
      <3>1. CASE n # x
        BY <2>2, <3>1, <1>1, <1>4, <1>5, <1>6, <1>7
      <3>2. CASE n = x /\ i = p + 1
        <4>1. i \in 0 .. a.max_size /\ ~(i <= p)
          BY <3>2, <2>2, <1>2, <1>3
        <4>2. f[s] = AtGap(g) /\ SepOf(U, s) = b.key[i] /\ b.key[i] = g.sep
          BY <2>2, <3>2, <4>1, <1>3, <1>5, <1>6 DEF b
        <4> QED BY <4>2, <2>2, <3>2, <1>1, <1>4, <1>7
      <3>3. CASE n = x /\ i > p + 1
        <4>1. /\ i \in 0 .. a.max_size /\ ~(i <= p) /\ i # p + 1
              /\ i - 1 \in 0 .. a.max_size - 1 /\ i - 1 > p /\ i - 1 + 1 = i
          BY <3>3, <2>2, <1>2, <1>3 DEF b
        <4>2. f[s] = AtPlace(x, i - 1) /\ SepOf(U, s) = b.key[i] /\ b.key[i] = a.key[i - 1]
          BY <2>2, <3>3, <4>1, <1>3, <1>5, <1>6 DEF b
        <4> QED BY <4>1, <4>2, <2>2, <3>3, <1>1, <1>4, <1>7 DEF a
      <3>4. CASE n = x /\ i <= p
        <4>1. i \in 0 .. a.max_size /\ i \in 0 .. a.max_size - 1 /\ i # p + 1 /\ ~(i > p + 1) /\ ~(i > p)
          BY <3>4, <2>2, <1>2, <1>3 DEF b
        <4>2. f[s] = s /\ SepOf(U, s) = b.key[i] /\ b.key[i] = a.key[i]
          BY <2>2, <3>4, <4>1, <1>3, <1>5, <1>6 DEF b
        <4> QED BY <4>1, <4>2, <2>2, <3>4, <1>1, <1>4, <1>7 DEF a
      <3>5. i \in Int
        OBVIOUS
      <3> QED BY <3>1, <3>2, <3>3, <3>4, <3>5, <1>2
    <2> QED BY <2>1, <2>2, <1>5
  <1>9. ASSUME NEW t \in Sources(T) PROVE e[t] \in Sources(U) /\ f[e[t]] = t
    <2>1. ASSUME NEW h \in T.gaps, t = AtGap(h) PROVE e[t] \in Sources(U) /\ f[e[t]] = t
      <3>1. CASE h # g
        BY <2>1, <3>1, <1>1, <1>5, <1>6, <1>7
      <3>2. CASE h = g
        <4>1. p + 1 \in 0 .. U.node[x].max_size - 1
          BY <1>2, <1>3 DEF b
        <4> QED BY <2>1, <3>2, <4>1, <1>1, <1>5, <1>6, <1>7
      <3> QED BY <3>1, <3>2
    <2>2. ASSUME NEW n \in T.nodes, NEW i \in 0 .. T.node[n].max_size - 1, t = AtPlace(n, i)
          PROVE  e[t] \in Sources(U) /\ f[e[t]] = t
      <3>1. CASE n # x
        BY <2>2, <3>1, <1>1, <1>5, <1>6, <1>7
      <3>2. CASE n = x /\ i > p
        <4>1. i + 1 \in 0 .. U.node[x].max_size - 1 /\ i + 1 > p + 1 /\ i + 1 # p + 1 /\ i + 1 - 1 = i
          BY <3>2, <2>2, <1>2, <1>3 DEF a, b
        <4> QED BY <2>2, <3>2, <4>1, <1>1, <1>5, <1>6, <1>7
      <3>3. CASE n = x /\ i <= p
        <4>1. i \in 0 .. U.node[x].max_size - 1 /\ ~(i > p) /\ i # p + 1 /\ ~(i > p + 1)
          BY <3>3, <2>2, <1>2, <1>3 DEF a, b
        <4> QED BY <2>2, <3>3, <4>1, <1>1, <1>5, <1>6, <1>7
      <3>4. i \in Int
        OBVIOUS
      <3> QED BY <3>1, <3>2, <3>3, <3>4, <1>2
    <2> QED BY <2>1, <2>2, <1>4
  <1>10. RootLeaf \in T.leaves /\ \A l \in T.leaves : U.lo[l] = T.lo[l]
    BY DEF Tree, Sorts, Enters, Closes, Obj
  <1> QED BY <1>1, <1>8, <1>9, <1>10, SeparatorsMove DEF Tree

LEMMA EnterTree ==
  ASSUME NEW T, NEW U, NEW g, NEW x, NEW p, Tree(T), Enters(T, U, g, x, p)
  PROVE  Tree(U)
  <1>1. /\ U.nodes = T.nodes /\ U.root = T.root /\ U.leaves = T.leaves /\ U.home = T.home
        /\ g \in T.gaps /\ U.gaps = T.gaps \ {g} /\ Obj(U) = Obj(T)
    BY DEF Enters, Closes, Obj
  <1>2. \A o \in Obj(T) :
          /\ U.lo[o] = T.lo[o] /\ U.hi[o] = T.hi[o] /\ U.ht[o] = T.ht[o]
          /\ U.xhi[o] = IF o = g.left THEN T.hi[o] ELSE T.xhi[o]
    BY DEF Enters, Closes
  <1>3. /\ U.node \in [Node -> NodeSet]
        /\ \A o \in Object : U.lo[o] \in Int /\ U.hi[o] \in Int /\ U.xhi[o] \in Int /\ U.ht[o] \in Nat
    BY DEF Enters
  <1>4. Sorts(U)
    <2>1. Sorts(T)
      BY DEF Tree
    <2> QED BY <1>1, <1>3, <2>1 DEF Sorts
  <1>5. Ranges(U)
    <2>1. ASSUME NEW o \in Obj(T)
          PROVE  /\ \E k \in Key : T.lo[o] < k /\ k <= T.hi[o]
                 /\ -1 <= T.lo[o] /\ T.hi[o] <= U.xhi[o] /\ U.xhi[o] <= AllOnes
      <3>1. /\ \E k \in Key : T.lo[o] < k /\ k <= T.hi[o]
            /\ -1 <= T.lo[o] /\ T.hi[o] <= T.xhi[o] /\ T.xhi[o] <= AllOnes
        BY DEF Tree, Ranges
      <3>2. T.hi[o] \in Int /\ T.xhi[o] \in Int /\ AllOnes \in Int
        BY RangeFacts, KeyFacts DEF Tree
      <3> QED BY <3>1, <3>2, <1>2
    <2> QED BY <2>1, <1>1, <1>2 DEF Ranges
  <1>6. Apart(U)
    BY <1>1, <1>2 DEF Tree, Apart
  <1>7. Homes(U)
    <2>1. \A k \in Key : T.home[k] \in Obj(T)
      BY DEF Tree, Sorts, Obj
    <2>2. \A l \in T.leaves : l \in Obj(T)
      BY DEF Obj
    <2> QED BY <2>1, <2>2, <1>1, <1>2 DEF Tree, Homes
  <1>8. Ordered(U)
    BY EnterOrdered
  <1>9. Children(U)
    BY EnterChildren
  <1>10. T.root \in Obj(T) /\ T.root # g.right /\ \A h \in T.gaps : h.right # T.root
    BY <1>1 DEF Tree, Sorts, Gaps
  <1>11. Gaps(U)
    BY <1>1, <1>10, ClosedGaps DEF Enters
  <1>12. Top(U)
    <2>1. T.root # g.left
      <3>1. x \in T.nodes /\ p \in Entries(T.node[x]) /\ g.left = ChildOf(T.node[x], p)
        BY DEF Enters
      <3>2. x \in Obj(T) /\ T.ht[x] = T.ht[g.left] + 1 /\ g.left \in Obj(T)
        BY <3>1, Inside DEF Tree, Obj
      <3>3. T.ht[x] <= T.ht[T.root] /\ T.ht[x] \in Nat /\ T.ht[g.left] \in Nat
        BY <3>2, RangeFacts DEF Tree, Top
      <3> QED BY <3>2, <3>3
    <2> QED BY <2>1, <1>1, <1>2, <1>10 DEF Tree, Top
  <1>13. Separators(U)
    BY <1>4, <1>8, EnterSeparators
  <1> QED BY <1>4, <1>5, <1>6, <1>7, <1>8, <1>9, <1>11, <1>12, <1>13 DEF Tree

(* The root is one of two halves: a new root goes over them.               *)
Roots(T, U, g, n) ==
    /\ Closes(T, U, g) /\ g.left = T.root
    /\ n \in Node \ T.nodes /\ U.nodes = T.nodes \cup {n} /\ U.root = n
    /\ U.node \in [Node -> NodeSet]
    /\ \A o \in Object : U.lo[o] \in Int /\ U.hi[o] \in Int /\ U.xhi[o] \in Int /\ U.ht[o] \in Nat
    /\ U.node[n].max_size = 1 /\ U.node[n].left_most_ptr = T.root
    /\ U.node[n].key[0] = g.sep /\ U.node[n].ptr[0] = g.right
    /\ \A m \in T.nodes : U.node[m] = T.node[m]
    /\ U.lo[n] = -1 /\ U.hi[n] = AllOnes /\ U.xhi[n] = AllOnes /\ U.ht[n] = T.ht[T.root] + 1

LEMMA RootFacts ==
  ASSUME NEW T, NEW U, NEW g, NEW n, Tree(T), Roots(T, U, g, n)
  PROVE  /\ n \notin Obj(T) /\ n \in Object /\ Obj(U) = Obj(T) \cup {n}
         /\ g \in T.gaps /\ U.gaps = T.gaps \ {g} /\ g.left = T.root
         /\ \A o \in Obj(T) : /\ o # n
                              /\ U.lo[o] = T.lo[o] /\ U.hi[o] = T.hi[o] /\ U.ht[o] = T.ht[o]
                              /\ U.xhi[o] = IF o = g.left THEN T.hi[o] ELSE T.xhi[o]
         /\ \A o \in Obj(T) : T.ht[o] \in Nat /\ T.ht[o] <= T.ht[T.root] /\ T.ht[T.root] \in Nat
         /\ \A h \in T.gaps : h.right # T.root
         /\ T.lo[T.root] = -1 /\ T.xhi[T.root] = AllOnes
         /\ g.sep \in Key /\ g.sep \in Int /\ -1 < g.sep /\ g.sep < AllOnes
  <1>1. n \notin Obj(T) /\ n \in Object
    BY HeapAssumption DEF Roots, Obj, Object, Tree, Sorts
  <1>2. Obj(U) = Obj(T) \cup {n}
    BY DEF Roots, Closes, Obj
  <1>3. \A o \in Obj(T) : /\ o # n
                          /\ U.lo[o] = T.lo[o] /\ U.hi[o] = T.hi[o] /\ U.ht[o] = T.ht[o]
                          /\ U.xhi[o] = IF o = g.left THEN T.hi[o] ELSE T.xhi[o]
    BY <1>1 DEF Roots, Closes
  <1>4. g \in T.gaps /\ U.gaps = T.gaps \ {g} /\ g.left = T.root
    BY DEF Roots, Closes
  <1>5. T.root \in Obj(T) /\ \A o \in Obj(T) : T.ht[o] \in Nat
    BY RangeFacts DEF Tree, Sorts
  <1>6. (\A o \in Obj(T) : T.ht[o] <= T.ht[T.root]) /\ T.lo[T.root] = -1 /\ T.xhi[T.root] = AllOnes
    BY DEF Tree, Top
  <1>7. \A h \in T.gaps : h.right # T.root
    BY DEF Tree, Gaps
  <1>8. g.sep \in Key /\ g.sep \in Int
    BY <1>4, GapFacts
  <1>9. -1 < g.sep /\ g.sep < AllOnes
    BY <1>8, KeyFacts
  <1> QED BY <1>1, <1>2, <1>3, <1>4, <1>5, <1>6, <1>7, <1>8, <1>9

LEMMA RootSeparators ==
  ASSUME NEW T, NEW U, NEW g, NEW n, Tree(T), Roots(T, U, g, n), Sorts(U), Ordered(U)
  PROVE  Separators(U)
  <1> DEFINE f == [s \in Sources(U) |-> IF s = AtPlace(n, 0) THEN AtGap(g) ELSE s]
             e == [t \in Sources(T) |-> IF t = AtGap(g) THEN AtPlace(n, 0) ELSE t]
  <1>1. /\ n \notin T.nodes /\ g \in T.gaps /\ U.nodes = T.nodes \cup {n} /\ U.gaps = T.gaps \ {g}
        /\ U.leaves = T.leaves /\ \A m \in T.nodes : U.node[m] = T.node[m]
        /\ U.node[n].max_size = 1 /\ U.node[n].key[0] = g.sep
    BY DEF Roots, Closes
  <1>2. /\ \A h \in T.gaps : AtGap(h) \in Sources(T)
        /\ \A m \in T.nodes : \A i \in 0 .. T.node[m].max_size - 1 : AtPlace(m, i) \in Sources(T)
        /\ \A s \in Sources(T) :
              \/ \E h \in T.gaps : s = AtGap(h)
              \/ \E m \in T.nodes : \E i \in 0 .. T.node[m].max_size - 1 : s = AtPlace(m, i)
        /\ \A h : SepOf(T, AtGap(h)) = h.sep
        /\ \A m, i : SepOf(T, AtPlace(m, i)) = T.node[m].key[i]
    BY SourceFacts DEF Tree
  <1>3. /\ \A h \in U.gaps : AtGap(h) \in Sources(U)
        /\ \A m \in U.nodes : \A i \in 0 .. U.node[m].max_size - 1 : AtPlace(m, i) \in Sources(U)
        /\ \A s \in Sources(U) :
              \/ \E h \in U.gaps : s = AtGap(h)
              \/ \E m \in U.nodes : \E i \in 0 .. U.node[m].max_size - 1 : s = AtPlace(m, i)
        /\ \A h : SepOf(U, AtGap(h)) = h.sep
        /\ \A m, i : SepOf(U, AtPlace(m, i)) = U.node[m].key[i]
    BY SourceFacts
  <1>4. \A s \in Sources(U) : f[s] = IF s = AtPlace(n, 0) THEN AtGap(g) ELSE s
    OBVIOUS
  <1>5. \A t \in Sources(T) : e[t] = IF t = AtGap(g) THEN AtPlace(n, 0) ELSE t
    OBVIOUS
  <1>14. \A m, i : AtPlace(m, i) = AtPlace(n, 0) => m = n /\ i = 0
    BY Distinct
  <1>15. (\A m, i : AtPlace(m, i) # AtGap(g)) /\ (\A h : AtPlace(n, 0) # AtGap(h)) /\ \A h : AtGap(h) = AtGap(g) => h = g
    BY Distinct
  <1>6. AtPlace(n, 0) \in Sources(U) /\ AtGap(g) \in Sources(T) /\ AtGap(g) \notin Sources(U)
    <2>1. 0 \in 0 .. 1 - 1
      OBVIOUS
    <2>2. AtPlace(n, 0) \in Sources(U) /\ AtGap(g) \in Sources(T)
      BY <2>1, <1>1, <1>2, <1>3
    <2>3. AtGap(g) \notin Sources(U)
      BY <1>1, <1>3, <1>15
    <2> QED BY <2>2, <2>3
  <1>7. AtPlace(n, 0) \notin Sources(T)
    BY <1>1, <1>2, <1>14, <1>15
  <1> HIDE DEF f, e
  <1>8. ASSUME NEW s \in Sources(U), s # AtPlace(n, 0)
        PROVE  s \in Sources(T) /\ SepOf(U, s) = SepOf(T, s)
    <2>1. CASE \E h \in U.gaps : s = AtGap(h)
      BY <2>1, <1>1, <1>2, <1>3
    <2>2. ASSUME NEW m \in U.nodes, NEW i \in 0 .. U.node[m].max_size - 1, s = AtPlace(m, i)
          PROVE  s \in Sources(T) /\ SepOf(U, s) = SepOf(T, s)
      <3>1. m # n
        <4>1. m = n => i \in 0 .. 1 - 1
          BY <1>1
        <4>2. m = n => i = 0
          BY <4>1
        <4> QED BY <4>2, <1>8, <2>2
      <3>2. m \in T.nodes /\ U.node[m] = T.node[m]
        BY <3>1, <1>1
      <3> QED BY <3>2, <2>2, <1>2, <1>3
    <2> QED BY <2>1, <2>2, <1>3
  <1>9. ASSUME NEW t \in Sources(T), t # AtGap(g) PROVE t \in Sources(U)
    <2>1. CASE \E h \in T.gaps : t = AtGap(h)
      BY <2>1, <1>1, <1>3, <1>9
    <2>2. CASE \E m \in T.nodes : \E i \in 0 .. T.node[m].max_size - 1 : t = AtPlace(m, i)
      BY <2>2, <1>1, <1>3
    <2> QED BY <2>1, <2>2, <1>2
  <1>10. SepOf(U, AtPlace(n, 0)) = SepOf(T, AtGap(g))
    BY <1>1, <1>2, <1>3
  <1>11. \A s \in Sources(U) : f[s] \in Sources(T) /\ e[f[s]] = s /\ SepOf(U, s) = SepOf(T, f[s])
    BY <1>4, <1>5, <1>6, <1>8, <1>10
  <1>12. \A t \in Sources(T) : e[t] \in Sources(U) /\ f[e[t]] = t
    BY <1>4, <1>5, <1>6, <1>7, <1>9
  <1>13. RootLeaf \in T.leaves /\ \A l \in T.leaves : U.lo[l] = T.lo[l]
    BY DEF Tree, Sorts, Roots, Closes, Obj
  <1> QED BY <1>1, <1>11, <1>12, <1>13, SeparatorsMove DEF Tree

LEMMA RootTree ==
  ASSUME NEW T, NEW U, NEW g, NEW n, Tree(T), Roots(T, U, g, n)
  PROVE  Tree(U)
  <1>1. /\ n \notin Obj(T) /\ n \in Object /\ Obj(U) = Obj(T) \cup {n}
        /\ g \in T.gaps /\ U.gaps = T.gaps \ {g} /\ g.left = T.root
        /\ \A o \in Obj(T) : /\ o # n
                             /\ U.lo[o] = T.lo[o] /\ U.hi[o] = T.hi[o] /\ U.ht[o] = T.ht[o]
                             /\ U.xhi[o] = IF o = g.left THEN T.hi[o] ELSE T.xhi[o]
    BY RootFacts
  <1>2. /\ \A o \in Obj(T) : T.ht[o] \in Nat /\ T.ht[o] <= T.ht[T.root] /\ T.ht[T.root] \in Nat
        /\ \A h \in T.gaps : h.right # T.root
        /\ T.lo[T.root] = -1 /\ T.xhi[T.root] = AllOnes
        /\ g.sep \in Key /\ g.sep \in Int /\ -1 < g.sep /\ g.sep < AllOnes
    BY RootFacts
  <1>3. /\ U.nodes = T.nodes \cup {n} /\ U.root = n /\ U.leaves = T.leaves /\ U.home = T.home
        /\ n \in Node /\ n \notin T.nodes
        /\ U.node \in [Node -> NodeSet]
        /\ \A o \in Object : U.lo[o] \in Int /\ U.hi[o] \in Int /\ U.xhi[o] \in Int /\ U.ht[o] \in Nat
        /\ \A m \in T.nodes : U.node[m] = T.node[m]
    BY DEF Roots, Closes
  <1>4. /\ U.node[n].max_size = 1 /\ U.node[n].left_most_ptr = T.root
        /\ U.node[n].key[0] = g.sep /\ U.node[n].ptr[0] = g.right
        /\ U.lo[n] = -1 /\ U.hi[n] = AllOnes /\ U.xhi[n] = AllOnes /\ U.ht[n] = T.ht[T.root] + 1
    BY DEF Roots
  <1>5. T.root \in Obj(T) /\ n \in Obj(U)
    BY <1>1 DEF Tree, Sorts
  <1>6. Sorts(U)
    <2>1. Sorts(T)
      BY DEF Tree
    <2>2. IsFiniteSet(U.nodes)
      BY <2>1, <1>3, FS_AddElement DEF Sorts
    <2> QED BY <1>1, <1>3, <1>5, <2>1, <2>2 DEF Sorts
  <1>7. Ranges(U)
    <2>1. ASSUME NEW o \in Obj(T)
          PROVE  /\ \E k \in Key : T.lo[o] < k /\ k <= T.hi[o]
                 /\ -1 <= T.lo[o] /\ T.hi[o] <= U.xhi[o] /\ U.xhi[o] <= AllOnes
      <3>1. /\ \E k \in Key : T.lo[o] < k /\ k <= T.hi[o]
            /\ -1 <= T.lo[o] /\ T.hi[o] <= T.xhi[o] /\ T.xhi[o] <= AllOnes
        BY DEF Tree, Ranges
      <3>2. T.hi[o] \in Int /\ T.xhi[o] \in Int /\ AllOnes \in Int
        BY RangeFacts, KeyFacts DEF Tree
      <3> QED BY <3>1, <3>2, <1>1
    <2>2. /\ \E k \in Key : U.lo[n] < k /\ k <= U.hi[n]
          /\ -1 <= U.lo[n] /\ U.hi[n] <= U.xhi[n] /\ U.xhi[n] <= AllOnes
      <3>1. AllOnes \in Int /\ g.sep <= AllOnes
        BY <1>2, KeyFacts
      <3> QED BY <3>1, <1>2, <1>4
    <2> QED BY <2>1, <2>2, <1>1 DEF Ranges
  <1>8. Apart(U)
    <2>1. \A a, b \in Obj(T) :
             a # b /\ U.ht[a] = U.ht[b] => U.hi[a] <= U.lo[b] \/ U.hi[b] <= U.lo[a]
      BY <1>1 DEF Tree, Apart
    <2>2. \A a \in Obj(T) : U.ht[a] # U.ht[n]
      BY <1>1, <1>2, <1>4
    <2> QED BY <2>1, <2>2, <1>1 DEF Apart
  <1>9. Homes(U)
    <2>1. \A k \in Key : T.home[k] \in Obj(T)
      BY DEF Tree, Sorts, Obj
    <2>2. \A l \in T.leaves : l \in Obj(T)
      BY DEF Obj
    <2> QED BY <2>1, <2>2, <1>1, <1>3 DEF Tree, Homes
  <1>10. Ordered(U)
    <2>1. \A m \in T.nodes : m \in Obj(T)
      BY DEF Obj
    <2>2. ASSUME NEW m \in T.nodes
          PROVE  LET b == U.node[m] IN
                 /\ b.max_size \in 1 .. MAX_LEAF_KEY + 1
                 /\ \A i \in 0 .. b.max_size - 1 :
                       b.key[i] \in Key /\ U.lo[m] < b.key[i] /\ b.key[i] < U.hi[m]
                 /\ \A i, j \in 0 .. b.max_size - 1 : i < j => b.key[i] < b.key[j]
      BY <2>1, <1>1, <1>3 DEF Tree, Ordered
    <2>3. 1 \in 1 .. MAX_LEAF_KEY + 1
      BY HalfFacts
    <2>4. \A i \in 0 .. U.node[n].max_size - 1 : i = 0
      BY <1>4
    <2>5. \A i \in 0 .. U.node[n].max_size - 1 :
             U.node[n].key[i] \in Key /\ U.lo[n] < U.node[n].key[i] /\ U.node[n].key[i] < U.hi[n]
      BY <2>4, <1>2, <1>4
    <2>6. \A i, j \in 0 .. U.node[n].max_size - 1 : i < j => U.node[n].key[i] < U.node[n].key[j]
      BY <2>4
    <2> QED BY <2>2, <2>3, <2>5, <2>6, <1>3, <1>4 DEF Ordered
  <1>11. Children(U)
    <2> DEFINE Child_(m, d, j, c) ==
                 /\ c \in Obj(U) /\ U.ht[m] = U.ht[c] + 1
                 /\ U.lo[c] = IF j = -1 THEN U.lo[m] ELSE d.key[j]
                 /\ U.xhi[c] = IF j = d.max_size - 1 THEN U.hi[m] ELSE d.key[j + 1]
                 /\ \A h \in U.gaps : h.right # c
    <2>1. ASSUME NEW m \in T.nodes, NEW j \in Entries(T.node[m]), NEW c, c = ChildOf(T.node[m], j)
          PROVE  Child_(m, T.node[m], j, c)
      <3>1. /\ c \in Obj(T) /\ T.ht[m] = T.ht[c] + 1
            /\ T.lo[c] = IF j = -1 THEN T.lo[m] ELSE T.node[m].key[j]
            /\ T.xhi[c] = IF j = T.node[m].max_size - 1 THEN T.hi[m] ELSE T.node[m].key[j + 1]
            /\ \A h \in T.gaps : h.right # c
        BY <2>1 DEF Tree, Children
      <3>2. m \in Obj(T)
        BY DEF Obj
      <3>3. c # T.root
        BY <3>1, <3>2, <1>2
      <3> QED BY <3>1, <3>2, <3>3, <1>1
    <2>2. /\ g.right \in Obj(T) /\ T.ht[g.right] = T.ht[T.root] /\ T.hi[T.root] = g.sep
          /\ T.lo[g.right] = g.sep /\ T.xhi[g.right] = AllOnes /\ g.right # T.root
          /\ \A h \in U.gaps : h.right # g.right
      <3>1. \A h \in T.gaps \ {g} : {g.left, g.right} \cap {h.left, h.right} = {}
        BY <1>1, GapFacts
      <3>2. /\ g.right \in Obj(T) /\ T.ht[g.right] = T.ht[g.left] /\ T.hi[g.left] = g.sep
            /\ T.lo[g.right] = g.sep /\ T.xhi[g.right] = T.xhi[g.left] /\ g.left # g.right
        BY <1>1, GapFacts
      <3> QED BY <3>1, <3>2, <1>1, <1>2
    <2>3. Child_(n, U.node[n], -1, T.root)
      <3>1. T.root = g.left /\ -1 # U.node[n].max_size - 1 /\ -1 + 1 = 0
        BY <1>1, <1>4
      <3>2. U.xhi[T.root] = T.hi[T.root] /\ U.lo[T.root] = -1 /\ U.ht[T.root] = T.ht[T.root]
        BY <3>1, <1>1, <1>2, <1>5
      <3> QED BY <3>1, <3>2, <2>2, <1>1, <1>2, <1>4, <1>5
    <2>4. Child_(n, U.node[n], 0, g.right)
      <3>1. 0 # -1 /\ 0 = U.node[n].max_size - 1
        BY <1>4
      <3>2. /\ U.xhi[g.right] = AllOnes /\ U.lo[g.right] = g.sep /\ U.ht[g.right] = T.ht[T.root]
            /\ g.right \in Obj(U)
        BY <2>2, <1>1
      <3> QED BY <3>1, <3>2, <2>2, <1>4
    <2>5. ASSUME NEW j \in Entries(U.node[n]) PROVE Child_(n, U.node[n], j, ChildOf(U.node[n], j))
      <3>1. j = -1 \/ (j = 0 /\ j # -1)
        BY <1>4 DEF Entries
      <3>2. CASE j = -1
        <4>1. ChildOf(U.node[n], j) = T.root
          BY <3>2, <1>4 DEF ChildOf
        <4> HIDE DEF Child_
        <4> QED BY <4>1, <3>2, <2>3
      <3>3. CASE j = 0 /\ j # -1
        <4>1. ChildOf(U.node[n], j) = g.right
          BY <3>3, <1>4 DEF ChildOf
        <4> HIDE DEF Child_
        <4> QED BY <4>1, <3>3, <2>4
      <3> QED BY <3>1, <3>2, <3>3
    <2>6. ASSUME NEW m \in U.nodes, NEW j \in Entries(U.node[m])
          PROVE  Child_(m, U.node[m], j, ChildOf(U.node[m], j))
      <3>1. CASE m = n
        <4> HIDE DEF Child_
        <4> QED BY <3>1, <2>5
      <3>2. CASE m # n
        <4>1. m \in T.nodes /\ U.node[m] = T.node[m]
          BY <3>2, <1>3
        <4> HIDE DEF Child_
        <4> QED BY <4>1, <2>1
      <3> QED BY <3>1, <3>2
    <2> QED BY <2>6 DEF Children
  <1>12. Gaps(U)
    <2>1. n # g.right
      BY <1>1, GapFacts
    <2>2. \A h \in T.gaps : h.right # n
      BY <1>1 DEF Tree, Gaps
    <2>3. \A o \in Obj(U) \ Obj(T) : U.xhi[o] = U.hi[o]
      BY <1>1, <1>4
    <2> QED BY <2>1, <2>2, <2>3, <1>3, ClosedGaps DEF Roots
  <1>13. Top(U)
    BY <1>1, <1>2, <1>3, <1>4, <1>5 DEF Top
  <1>14. Separators(U)
    BY <1>6, <1>10, RootSeparators
  <1> QED BY <1>6, <1>7, <1>8, <1>9, <1>10, <1>11, <1>12, <1>13, <1>14 DEF Tree

----------------------------------------------------------------------------
(* An overfull node gives its upper half to a new node; the separator in   *)
(* the middle is the one of the gap that opens.                            *)
Halves(T, U, h, x) ==
    /\ x \in T.nodes /\ T.node[x].max_size = MAX_LEAF_KEY + 1
    /\ h \in GapSet /\ h.left = x /\ h.right \in Node \ T.nodes
    /\ h.sep = T.node[x].key[LEFT_KEY]
    /\ \A g \in T.gaps : x \notin {g.left, g.right}
    /\ U.leaves = T.leaves /\ U.home = T.home /\ U.root = T.root
    /\ U.nodes = T.nodes \cup {h.right} /\ U.gaps = T.gaps \cup {h}
    /\ U.node \in [Node -> NodeSet]
    /\ \A o \in Object : U.lo[o] \in Int /\ U.hi[o] \in Int /\ U.xhi[o] \in Int /\ U.ht[o] \in Nat
    /\ \A m \in T.nodes : m # x => U.node[m] = T.node[m]
    /\ U.node[x].max_size = LEFT_KEY /\ U.node[x].left_most_ptr = T.node[x].left_most_ptr
    /\ \A j \in 0 .. LEFT_KEY - 1 : /\ U.node[x].key[j] = T.node[x].key[j]
                                    /\ U.node[x].ptr[j] = T.node[x].ptr[j]
    /\ U.node[h.right].max_size = LEFT_KEY
    /\ U.node[h.right].left_most_ptr = T.node[x].ptr[LEFT_KEY]
    /\ \A j \in 0 .. LEFT_KEY - 1 :
          /\ U.node[h.right].key[j] = T.node[x].key[LEFT_KEY + 1 + j]
          /\ U.node[h.right].ptr[j] = T.node[x].ptr[LEFT_KEY + 1 + j]
    /\ \A o \in Obj(T) :
          /\ U.lo[o] = T.lo[o] /\ U.xhi[o] = T.xhi[o] /\ U.ht[o] = T.ht[o]
          /\ U.hi[o] = IF o = x THEN h.sep ELSE T.hi[o]
    /\ U.lo[h.right] = h.sep /\ U.hi[h.right] = T.hi[x]
    /\ U.xhi[h.right] = T.hi[x] /\ U.ht[h.right] = T.ht[x]

LEMMA HalvesFacts ==
  ASSUME NEW T, NEW U, NEW h, NEW x, Tree(T), Halves(T, U, h, x)
  PROVE  LET a == T.node[x] IN
         /\ x \in Obj(T) /\ h.right \notin Obj(T) /\ h.right # x /\ h.right \notin T.leaves
         /\ Obj(U) = Obj(T) \cup {h.right}
         /\ h.sep = a.key[LEFT_KEY]
         /\ \A j \in 0 .. 2 * LEFT_KEY : /\ a.key[j] \in Key /\ a.key[j] \in Int
                                         /\ T.lo[x] < a.key[j] /\ a.key[j] < T.hi[x]
         /\ \A i, j \in 0 .. 2 * LEFT_KEY : i < j => a.key[i] < a.key[j]
  <1> DEFINE a == T.node[x]
  <1>1. x \in T.nodes /\ a.max_size = MAX_LEAF_KEY + 1 /\ h.right \in Node /\ h.right \notin T.nodes
    BY DEF Halves
  <1>2. h.right \notin T.leaves
    BY <1>1, HeapAssumption DEF Tree, Sorts
  <1>3. Obj(U) = Obj(T) \cup {h.right}
    BY DEF Halves, Obj
  <1>4. h.sep = a.key[LEFT_KEY]
    BY DEF Halves
  <1>5. /\ \A j \in 0 .. a.max_size - 1 : /\ a.key[j] \in Key /\ a.key[j] \in Int
                                          /\ T.lo[x] < a.key[j] /\ a.key[j] < T.hi[x]
        /\ \A i, j \in 0 .. a.max_size - 1 : i < j => a.key[i] < a.key[j]
    BY <1>1, NodeFacts DEF Tree
  <1> HIDE DEF a
  <1>6. a.max_size - 1 = 2 * LEFT_KEY
    BY <1>1, HalfFacts
  <1>7. /\ \A j \in 0 .. 2 * LEFT_KEY : /\ a.key[j] \in Key /\ a.key[j] \in Int
                                        /\ T.lo[x] < a.key[j] /\ a.key[j] < T.hi[x]
        /\ \A i, j \in 0 .. 2 * LEFT_KEY : i < j => a.key[i] < a.key[j]
    BY <1>5, <1>6
  <1> QED BY <1>1, <1>2, <1>3, <1>4, <1>7 DEF Obj, a

LEMMA HalvesOpen ==
  ASSUME NEW T, NEW U, NEW h, NEW x, Tree(T), Halves(T, U, h, x)
  PROVE  Opens(T, U, h) /\ \E k \in Key : h.sep < k /\ k <= T.hi[h.left]
  <1> DEFINE a == T.node[x]
  <1>1. /\ x \in Obj(T) /\ h.right \notin Obj(T) /\ Obj(U) = Obj(T) \cup {h.right}
        /\ h.sep = a.key[LEFT_KEY]
        /\ \A j \in 0 .. 2 * LEFT_KEY : /\ a.key[j] \in Key /\ a.key[j] \in Int
                                        /\ T.lo[x] < a.key[j] /\ a.key[j] < T.hi[x]
        /\ \A i, j \in 0 .. 2 * LEFT_KEY : i < j => a.key[i] < a.key[j]
    BY HalvesFacts
  <1>2. LEFT_KEY \in 0 .. 2 * LEFT_KEY /\ LEFT_KEY + 1 \in 0 .. 2 * LEFT_KEY /\ LEFT_KEY < LEFT_KEY + 1
    BY HalfFacts
  <1>3. h.left = x /\ h \in GapSet /\ h.right \in Object \ Obj(T)
    BY <1>1 DEF Halves, Object
  <1>4. T.lo[h.left] < h.sep /\ h.sep < T.hi[h.left]
    BY <1>1, <1>2, <1>3
  <1>5. \E k \in Key : h.sep < k /\ k <= T.hi[h.left]
    <2>1. a.key[LEFT_KEY + 1] \in Key /\ h.sep < a.key[LEFT_KEY + 1]
          /\ a.key[LEFT_KEY + 1] < T.hi[x] /\ a.key[LEFT_KEY + 1] \in Int
      BY <1>1, <1>2
    <2>2. T.hi[x] \in Int
      BY <1>1, RangeFacts DEF Tree
    <2>3. PICK k \in Key : k = a.key[LEFT_KEY + 1]
      BY <2>1
    <2> HIDE DEF a
    <2>4. h.sep < k /\ k <= T.hi[h.left]
      BY <2>1, <2>2, <2>3, <1>3
    <2> QED BY <2>4
  <1>6. \A g \in T.gaps : h.left \notin {g.left, g.right}
    BY <1>3 DEF Halves
  <1>7. /\ U.root = T.root /\ U.gaps = T.gaps \cup {h}
        /\ \A o \in Obj(T) :
              /\ U.lo[o] = T.lo[o] /\ U.xhi[o] = T.xhi[o] /\ U.ht[o] = T.ht[o]
              /\ U.hi[o] = IF o = h.left THEN h.sep ELSE T.hi[o]
        /\ U.lo[h.right] = h.sep /\ U.hi[h.right] = T.hi[h.left]
        /\ U.xhi[h.right] = T.hi[h.left] /\ U.ht[h.right] = T.ht[h.left]
    BY <1>3 DEF Halves
  <1> HIDE DEF a
  <1> QED BY <1>1, <1>3, <1>4, <1>5, <1>6, <1>7 DEF Opens

LEMMA HalvesOrdered ==
  ASSUME NEW T, NEW U, NEW h, NEW x, Tree(T), Halves(T, U, h, x)
  PROVE  Ordered(U)
  <1> DEFINE a == T.node[x]
             b == U.node[x]
             r == h.right
             d == U.node[r]
             L == LEFT_KEY
  <1>1. /\ x \in Obj(T) /\ r \notin Obj(T) /\ r # x /\ h.sep = a.key[L]
        /\ \A j \in 0 .. 2 * L : /\ a.key[j] \in Key /\ a.key[j] \in Int
                                 /\ T.lo[x] < a.key[j] /\ a.key[j] < T.hi[x]
        /\ \A i, j \in 0 .. 2 * L : i < j => a.key[i] < a.key[j]
    BY HalvesFacts
  <1>2. /\ b.max_size = L /\ d.max_size = L
        /\ \A j \in 0 .. L - 1 : b.key[j] = a.key[j] /\ d.key[j] = a.key[L + 1 + j]
        /\ x \in T.nodes /\ U.nodes = T.nodes \cup {r}
        /\ \A m \in T.nodes : m # x => U.node[m] = T.node[m]
        /\ U.lo[x] = T.lo[x] /\ U.hi[x] = h.sep /\ U.lo[r] = h.sep /\ U.hi[r] = T.hi[x]
    BY <1>1 DEF Halves
  <1>3. \A m \in T.nodes : m # x => m \in Obj(T) /\ U.lo[m] = T.lo[m] /\ U.hi[m] = T.hi[m]
    BY DEF Halves, Obj
  <1>4. L \in Nat /\ L >= 1 /\ MAX_LEAF_KEY = 2 * L
    BY HalfFacts
  <1> HIDE DEF a, b, r, d, L
  <1>5. L \in 1 .. MAX_LEAF_KEY + 1
    BY ONLY <1>4
  <1>6. \A j \in 0 .. L - 1 : /\ j \in 0 .. 2 * L /\ j < L /\ L \in 0 .. 2 * L
                              /\ L + 1 + j \in 0 .. 2 * L /\ L < L + 1 + j
    BY ONLY <1>4
  <1>7. \A j \in 0 .. L - 1 : b.key[j] \in Key /\ U.lo[x] < b.key[j] /\ b.key[j] < U.hi[x]
    BY <1>1, <1>2, <1>6
  <1>8. \A j \in 0 .. L - 1 : d.key[j] \in Key /\ U.lo[r] < d.key[j] /\ d.key[j] < U.hi[r]
    BY <1>1, <1>2, <1>6
  <1>9. \A i, j \in 0 .. L - 1 : i < j => b.key[i] < b.key[j]
    BY <1>1, <1>2, <1>6
  <1>10. \A i, j \in 0 .. L - 1 : i < j => d.key[i] < d.key[j]
    <2>1. \A i, j \in 0 .. L - 1 : i < j => L + 1 + i < L + 1 + j
      BY ONLY <1>4
    <2> QED BY <2>1, <1>1, <1>2, <1>6
  <1>11. ASSUME NEW m \in T.nodes, m # x
         PROVE  LET c == U.node[m] IN
                /\ c.max_size \in 1 .. MAX_LEAF_KEY + 1
                /\ \A i \in 0 .. c.max_size - 1 :
                      c.key[i] \in Key /\ U.lo[m] < c.key[i] /\ c.key[i] < U.hi[m]
                /\ \A i, j \in 0 .. c.max_size - 1 : i < j => c.key[i] < c.key[j]
    BY <1>2, <1>3, <1>11 DEF Tree, Ordered
  <1> QED BY <1>2, <1>5, <1>7, <1>8, <1>9, <1>10, <1>11 DEF Ordered, b, d

LEMMA HalvesChildren ==
  ASSUME NEW T, NEW U, NEW h, NEW x, Tree(T), Halves(T, U, h, x)
  PROVE  Children(U)
  <1> DEFINE a == T.node[x]
             b == U.node[x]
             r == h.right
             d == U.node[r]
             L == LEFT_KEY
             Child_(n, e, j, c) ==
               /\ c \in Obj(U) /\ U.ht[n] = U.ht[c] + 1
               /\ U.lo[c] = IF j = -1 THEN U.lo[n] ELSE e.key[j]
               /\ U.xhi[c] = IF j = e.max_size - 1 THEN U.hi[n] ELSE e.key[j + 1]
               /\ \A g \in U.gaps : g.right # c
  <1>1. /\ x \in Obj(T) /\ r \notin Obj(T) /\ r # x /\ h.sep = a.key[L]
        /\ Obj(U) = Obj(T) \cup {r}
    BY HalvesFacts
  <1>2. /\ x \in T.nodes /\ U.nodes = T.nodes \cup {r} /\ U.gaps = T.gaps \cup {h}
        /\ a.max_size = MAX_LEAF_KEY + 1
        /\ \A m \in T.nodes : m # x => U.node[m] = T.node[m]
        /\ U.lo[x] = T.lo[x] /\ U.hi[x] = h.sep /\ U.lo[r] = h.sep /\ U.hi[r] = T.hi[x]
        /\ U.ht[x] = T.ht[x] /\ U.ht[r] = T.ht[x]
    BY <1>1 DEF Halves
  <1>3. \A o \in Obj(T) : /\ U.lo[o] = T.lo[o] /\ U.xhi[o] = T.xhi[o] /\ U.ht[o] = T.ht[o]
                          /\ o # x => U.hi[o] = T.hi[o]
    BY DEF Halves
  <1>4. /\ b.max_size = L /\ b.left_most_ptr = a.left_most_ptr
        /\ \A j \in 0 .. L - 1 : b.key[j] = a.key[j] /\ b.ptr[j] = a.ptr[j]
    BY DEF Halves
  <1>5. /\ d.max_size = L /\ d.left_most_ptr = a.ptr[L]
        /\ \A j \in 0 .. L - 1 : d.key[j] = a.key[L + 1 + j] /\ d.ptr[j] = a.ptr[L + 1 + j]
    BY DEF Halves
  <1>6. L \in Nat /\ L >= 1 /\ a.max_size = 2 * L + 1
    BY <1>2, HalfFacts
  <1>7. ASSUME NEW n \in T.nodes, NEW j \in Entries(T.node[n]), NEW c, c = ChildOf(T.node[n], j)
        PROVE  /\ c \in Obj(T) /\ U.ht[n] = U.ht[c] + 1
               /\ U.lo[c] = IF j = -1 THEN U.lo[n] ELSE T.node[n].key[j]
               /\ U.xhi[c] = IF j = T.node[n].max_size - 1 THEN T.hi[n] ELSE T.node[n].key[j + 1]
               /\ \A g \in U.gaps : g.right # c
    <2>1. /\ c \in Obj(T) /\ T.ht[n] = T.ht[c] + 1
          /\ T.lo[c] = IF j = -1 THEN T.lo[n] ELSE T.node[n].key[j]
          /\ T.xhi[c] = IF j = T.node[n].max_size - 1 THEN T.hi[n] ELSE T.node[n].key[j + 1]
          /\ \A g \in T.gaps : g.right # c
      BY <1>7 DEF Tree, Children
    <2>2. n \in Obj(T)
      BY DEF Obj
    <2> QED BY <2>1, <2>2, <1>1, <1>2, <1>3
  <1>8. ASSUME NEW n \in T.nodes, n # x, NEW j \in Entries(U.node[n])
        PROVE  Child_(n, U.node[n], j, ChildOf(U.node[n], j))
    <2>1. U.node[n] = T.node[n] /\ U.hi[n] = T.hi[n]
      BY <1>2, <1>3, <1>8 DEF Obj
    <2> QED BY <2>1, <1>1, <1>7
  <1>9. ASSUME NEW j \in -1 .. 2 * L, NEW c, c = ChildOf(a, j)
        PROVE  /\ c \in Obj(U) /\ U.ht[x] = U.ht[c] + 1
               /\ U.lo[c] = IF j = -1 THEN U.lo[x] ELSE a.key[j]
               /\ U.xhi[c] = IF j = 2 * L THEN T.hi[x] ELSE a.key[j + 1]
               /\ \A g \in U.gaps : g.right # c
    <2>1. a.max_size - 1 = 2 * L
      BY <1>6
    <2>2. j \in Entries(T.node[x])
      BY <2>1 DEF Entries
    <2> QED BY <2>1, <2>2, <1>1, <1>2, <1>7, <1>9
  <1> HIDE DEF a, b, d, r, L
  <1>10. ASSUME NEW j \in Entries(b) PROVE Child_(x, b, j, ChildOf(b, j))
    <2>1. /\ j \in -1 .. 2 * L /\ j # 2 * L /\ (j # -1 => j \in 0 .. L - 1)
          /\ (j = b.max_size - 1 <=> j = L - 1) /\ (j = L - 1 => j + 1 = L)
          /\ (j # L - 1 => j + 1 \in 0 .. L - 1)
      BY ONLY <1>4, <1>6, <1>10 DEF Entries
    <2>2. ChildOf(b, j) = ChildOf(a, j) /\ (j # -1 => b.key[j] = a.key[j])
      BY <2>1, <1>4 DEF ChildOf
    <2>3. (j = L - 1 => U.hi[x] = a.key[j + 1]) /\ (j # L - 1 => b.key[j + 1] = a.key[j + 1])
      BY <2>1, <1>1, <1>2, <1>4
    <2> DEFINE c == ChildOf(a, j)
    <2>4. /\ c \in Obj(U) /\ U.ht[x] = U.ht[c] + 1
          /\ U.lo[c] = IF j = -1 THEN U.lo[x] ELSE a.key[j]
          /\ U.xhi[c] = a.key[j + 1]
          /\ \A g \in U.gaps : g.right # c
      BY <2>1, <1>9
    <2> HIDE DEF c
    <2> QED BY <2>1, <2>2, <2>3, <2>4 DEF c
  <1>11. ASSUME NEW j \in Entries(d) PROVE Child_(r, d, j, ChildOf(d, j))
    <2>0. PICK i : i = L + 1 + j
      OBVIOUS
    <2>1. /\ i \in -1 .. 2 * L /\ i # -1 /\ (j # -1 => j \in 0 .. L - 1)
          /\ (j = d.max_size - 1 <=> i = 2 * L) /\ (j = -1 => i = L)
          /\ (i # 2 * L => j + 1 \in 0 .. L - 1 /\ L + 1 + (j + 1) = i + 1)
      BY ONLY <1>5, <1>6, <1>11, <2>0 DEF Entries
    <2>2. ChildOf(d, j) = ChildOf(a, i) /\ (j # -1 => d.key[j] = a.key[i])
      BY <2>0, <2>1, <1>5 DEF ChildOf
    <2>3. (j = -1 => U.lo[r] = a.key[i]) /\ (i # 2 * L => d.key[j + 1] = a.key[i + 1])
      <3>1. j = -1 => U.lo[r] = a.key[i]
        BY <2>1, <1>1, <1>2
      <3>2. \A e : e \in 0 .. L - 1 => d.key[e] = a.key[L + 1 + e]
        BY <1>5
      <3> QED BY <3>1, <3>2, <2>1
    <2> DEFINE c == ChildOf(a, i)
    <2>4. /\ c \in Obj(U) /\ U.ht[x] = U.ht[c] + 1
          /\ U.lo[c] = a.key[i]
          /\ U.xhi[c] = IF i = 2 * L THEN T.hi[x] ELSE a.key[i + 1]
          /\ \A g \in U.gaps : g.right # c
      BY <2>1, <1>9
    <2> HIDE DEF c
    <2> QED BY <2>1, <2>2, <2>3, <2>4, <1>2 DEF c
  <1>12. ASSUME NEW n \in U.nodes, NEW j \in Entries(U.node[n])
         PROVE  Child_(n, U.node[n], j, ChildOf(U.node[n], j))
    <2> HIDE DEF Child_
    <2>1. CASE n = x
      BY <2>1, <1>10 DEF b
    <2>2. CASE n = r
      BY <2>2, <1>11 DEF d
    <2> QED BY <2>1, <2>2, <1>2, <1>8
  <1> QED BY <1>12 DEF Children

LEMMA HalvesSeparators ==
  ASSUME NEW T, NEW U, NEW h, NEW x, Tree(T), Halves(T, U, h, x), Sorts(U), Ordered(U)
  PROVE  Separators(U)
  <1> DEFINE a == T.node[x]
             b == U.node[x]
             r == h.right
             d == U.node[r]
             L == LEFT_KEY
             f == [s \in Sources(U) |->
                     IF s = AtGap(h) THEN AtPlace(x, L)
                     ELSE IF s[1] = "node" /\ s[2][1] = r THEN AtPlace(x, L + 1 + s[2][2])
                     ELSE s]
             e == [t \in Sources(T) |->
                     IF t[1] = "node" /\ t[2][1] = x /\ t[2][2] = L THEN AtGap(h)
                     ELSE IF t[1] = "node" /\ t[2][1] = x /\ t[2][2] > L
                          THEN AtPlace(r, t[2][2] - L - 1)
                     ELSE t]
  <1>1. /\ r \notin T.nodes /\ r # x /\ h.sep = a.key[L] /\ x \in T.nodes
        /\ U.nodes = T.nodes \cup {r} /\ U.gaps = T.gaps \cup {h}
        /\ U.leaves = T.leaves /\ \A m \in T.nodes : m # x => U.node[m] = T.node[m]
    BY HalvesFacts DEF Halves
  <1>2. h \notin T.gaps
    BY DEF Halves
  <1>3. /\ b.max_size = L /\ d.max_size = L
        /\ \A j \in 0 .. L - 1 : b.key[j] = a.key[j] /\ d.key[j] = a.key[L + 1 + j]
    BY DEF Halves
  <1>4. L \in Nat /\ L >= 1 /\ a.max_size - 1 = 2 * L
    <2>1. a.max_size = MAX_LEAF_KEY + 1
      BY DEF Halves
    <2> QED BY <2>1, HalfFacts
  <1>5. /\ \A g \in T.gaps : AtGap(g) \in Sources(T)
        /\ \A n \in T.nodes : \A i \in 0 .. T.node[n].max_size - 1 : AtPlace(n, i) \in Sources(T)
        /\ \A s \in Sources(T) :
              \/ \E g \in T.gaps : s = AtGap(g)
              \/ \E n \in T.nodes : \E i \in 0 .. T.node[n].max_size - 1 : s = AtPlace(n, i)
        /\ \A g : SepOf(T, AtGap(g)) = g.sep
        /\ \A n, i : SepOf(T, AtPlace(n, i)) = T.node[n].key[i]
    BY SourceFacts DEF Tree
  <1>6. /\ \A g \in U.gaps : AtGap(g) \in Sources(U)
        /\ \A n \in U.nodes : \A i \in 0 .. U.node[n].max_size - 1 : AtPlace(n, i) \in Sources(U)
        /\ \A s \in Sources(U) :
              \/ \E g \in U.gaps : s = AtGap(g)
              \/ \E n \in U.nodes : \E i \in 0 .. U.node[n].max_size - 1 : s = AtPlace(n, i)
        /\ \A g : SepOf(U, AtGap(g)) = g.sep
        /\ \A n, i : SepOf(U, AtPlace(n, i)) = U.node[n].key[i]
    BY SourceFacts
  <1>7. /\ \A g \in U.gaps : f[AtGap(g)] = IF g = h THEN AtPlace(x, L) ELSE AtGap(g)
        /\ \A n \in U.nodes : \A i \in 0 .. U.node[n].max_size - 1 :
              f[AtPlace(n, i)] = IF n = r THEN AtPlace(x, L + 1 + i) ELSE AtPlace(n, i)
    BY <1>6 DEF AtPlace, AtGap
  <1>8. /\ \A g \in T.gaps : e[AtGap(g)] = AtGap(g)
        /\ \A n \in T.nodes : \A i \in 0 .. T.node[n].max_size - 1 :
              e[AtPlace(n, i)] = IF n = x /\ i = L THEN AtGap(h)
                                 ELSE IF n = x /\ i > L THEN AtPlace(r, i - L - 1)
                                 ELSE AtPlace(n, i)
    BY <1>5 DEF AtPlace, AtGap
  <1> HIDE DEF f, e, a, b, d, r, L
  <1>9. ASSUME NEW s \in Sources(U)
        PROVE  f[s] \in Sources(T) /\ e[f[s]] = s /\ SepOf(U, s) = SepOf(T, f[s])
    <2>1. ASSUME NEW g \in U.gaps, s = AtGap(g)
          PROVE  f[s] \in Sources(T) /\ e[f[s]] = s /\ SepOf(U, s) = SepOf(T, f[s])
      <3>1. CASE g # h
        BY <2>1, <3>1, <1>1, <1>5, <1>6, <1>7, <1>8
      <3>2. CASE g = h
        <4>1. L \in 0 .. T.node[x].max_size - 1
          BY <1>4 DEF a
        <4>2. f[s] = AtPlace(x, L) /\ SepOf(U, s) = a.key[L]
          BY <2>1, <3>2, <1>1, <1>6, <1>7
        <4> QED BY <4>1, <4>2, <2>1, <3>2, <1>1, <1>5, <1>8 DEF a
      <3> QED BY <3>1, <3>2
    <2>2. ASSUME NEW n \in U.nodes, NEW i \in 0 .. U.node[n].max_size - 1, s = AtPlace(n, i)
          PROVE  f[s] \in Sources(T) /\ e[f[s]] = s /\ SepOf(U, s) = SepOf(T, f[s])
      <3>1. CASE n # x /\ n # r
        BY <2>2, <3>1, <1>1, <1>5, <1>6, <1>7, <1>8
      <3>2. CASE n = x
        <4>1. i \in 0 .. L - 1 /\ i \in 0 .. a.max_size - 1 /\ i # L /\ ~(i > L)
          BY <3>2, <2>2, <1>3, <1>4 DEF b
        <4>2. f[s] = s /\ SepOf(U, s) = b.key[i] /\ b.key[i] = a.key[i]
          BY <2>2, <3>2, <4>1, <1>1, <1>3, <1>6, <1>7 DEF b
        <4> QED BY <4>1, <4>2, <2>2, <3>2, <1>1, <1>5, <1>8 DEF a
      <3>3. CASE n = r
        <4>0. PICK q : q = L + 1 + i
          OBVIOUS
        <4>1. /\ i \in 0 .. L - 1 /\ q \in 0 .. a.max_size - 1
              /\ q # L /\ q > L /\ q - L - 1 = i
          BY <3>3, <2>2, <1>3, <1>4, <4>0 DEF d
        <4>2. f[s] = AtPlace(x, q) /\ SepOf(U, s) = d.key[i] /\ d.key[i] = a.key[q]
          BY <2>2, <3>3, <4>0, <4>1, <1>1, <1>3, <1>6, <1>7 DEF d
        <4>3. AtPlace(x, q) \in Sources(T) /\ e[AtPlace(x, q)] = AtPlace(r, q - L - 1)
          BY <4>1, <1>1, <1>5, <1>8 DEF a
        <4>4. SepOf(T, AtPlace(x, q)) = a.key[q]
          BY <1>5 DEF a
        <4> QED BY <4>1, <4>2, <4>3, <4>4, <2>2, <3>3
      <3> QED BY <3>1, <3>2, <3>3
    <2> QED BY <2>1, <2>2, <1>6
  <1>10. ASSUME NEW t \in Sources(T) PROVE e[t] \in Sources(U) /\ f[e[t]] = t
    <2>1. ASSUME NEW g \in T.gaps, t = AtGap(g) PROVE e[t] \in Sources(U) /\ f[e[t]] = t
      BY <2>1, <1>1, <1>2, <1>6, <1>7, <1>8
    <2>2. ASSUME NEW n \in T.nodes, NEW i \in 0 .. T.node[n].max_size - 1, t = AtPlace(n, i)
          PROVE  e[t] \in Sources(U) /\ f[e[t]] = t
      <3>1. CASE n # x
        BY <2>2, <3>1, <1>1, <1>6, <1>7, <1>8
      <3>2. CASE n = x /\ i = L
        BY <2>2, <3>2, <1>1, <1>6, <1>7, <1>8
      <3>3. CASE n = x /\ i > L
        <4>0. PICK q : q = i - L - 1
          OBVIOUS
        <4>1. q \in 0 .. U.node[r].max_size - 1 /\ i # L /\ L + 1 + q = i
          BY <3>3, <2>2, <1>3, <1>4, <4>0 DEF a, d
        <4>2. e[t] = AtPlace(r, q)
          BY <2>2, <3>3, <4>0, <4>1, <1>8
        <4>3. AtPlace(r, q) \in Sources(U) /\ f[AtPlace(r, q)] = AtPlace(x, L + 1 + q)
          BY <4>1, <1>1, <1>6, <1>7
        <4> QED BY <4>1, <4>2, <4>3, <2>2, <3>3
      <3>4. CASE n = x /\ i < L
        <4>1. i \in 0 .. U.node[x].max_size - 1 /\ i # L /\ ~(i > L)
          BY <3>4, <2>2, <1>3, <1>4 DEF b
        <4> QED BY <2>2, <3>4, <4>1, <1>1, <1>6, <1>7, <1>8
      <3>5. i \in Int
        OBVIOUS
      <3> QED BY <3>1, <3>2, <3>3, <3>4, <3>5, <1>4
    <2> QED BY <2>1, <2>2, <1>5
  <1>11. RootLeaf \in T.leaves /\ \A l \in T.leaves : U.lo[l] = T.lo[l]
    BY DEF Tree, Sorts, Halves, Obj
  <1> QED BY <1>1, <1>9, <1>10, <1>11, SeparatorsMove DEF Tree

LEMMA HalvesTree ==
  ASSUME NEW T, NEW U, NEW h, NEW x, Tree(T), Halves(T, U, h, x)
  PROVE  Tree(U)
  <1>1. /\ U.leaves = T.leaves /\ U.home = T.home /\ U.root = T.root
        /\ U.nodes = T.nodes \cup {h.right} /\ U.gaps = T.gaps \cup {h}
        /\ U.node \in [Node -> NodeSet] /\ h \in GapSet /\ h.right \in Node
        /\ \A o \in Object : U.lo[o] \in Int /\ U.hi[o] \in Int /\ U.xhi[o] \in Int /\ U.ht[o] \in Nat
        /\ \A o \in Obj(T) :
              /\ U.lo[o] = T.lo[o] /\ U.xhi[o] = T.xhi[o] /\ U.ht[o] = T.ht[o]
              /\ U.hi[o] = IF o = x THEN h.sep ELSE T.hi[o]
    BY DEF Halves
  <1>2. x \notin T.leaves
    BY HeapAssumption DEF Halves, Tree, Sorts
  <1>3. Sorts(U)
    <2>1. Sorts(T)
      BY DEF Tree
    <2>2. IsFiniteSet(U.nodes)
      <3>1. IsFiniteSet(T.nodes)
        BY <2>1 DEF Sorts
      <3>2. IsFiniteSet(T.nodes \cup {h.right})
        BY <3>1, FS_AddElement
      <3> QED BY <3>2, <1>1
    <2>3. U.nodes \subseteq Node /\ U.gaps \subseteq GapSet /\ U.root \in Obj(U)
      BY <2>1, <1>1 DEF Sorts, Obj
    <2> QED BY <1>1, <2>1, <2>2, <2>3 DEF Sorts
  <1>4. Ranges(U) /\ Apart(U) /\ Gaps(U) /\ Top(U)
    BY HalvesOpen, OpenedRanges, Opened
  <1>5. Homes(U)
    <2>1. \A k \in Key : T.home[k] \in T.leaves
      BY DEF Tree, Sorts
    <2>2. \A l \in T.leaves : l \in Obj(T) /\ l # x
      BY <1>2 DEF Obj
    <2> QED BY <2>1, <2>2, <1>1 DEF Tree, Homes
  <1>6. Ordered(U)
    BY HalvesOrdered
  <1>7. Children(U)
    BY HalvesChildren
  <1>8. Separators(U)
    BY <1>3, <1>6, HalvesSeparators
  <1> QED BY <1>3, <1>4, <1>5, <1>6, <1>7, <1>8 DEF Tree

----------------------------------------------------------------------------
(* The entries behind i have moved up by one, and what is to come in after *)
(* the entry p is in as far as pc says.                                    *)

LEMMA PtrMoves ==
  ASSUME NEW b \in NodeSet, NEW c \in NodeSet, NEW i \in Int, NEW p \in Int, NEW r, NEW s,
         b.max_size \in 1 .. MAX_LEAF_KEY, p >= -1, i > p, Shifted("shift_ptr", b, c, i, p, r, s)
  PROVE  /\ [c EXCEPT !.ptr[i + 1] = c.ptr[i]] \in NodeSet
         /\ Shifted("shift_key", b, [c EXCEPT !.ptr[i + 1] = c.ptr[i]], i, p, r, s)
  <1> DEFINE d == [c EXCEPT !.ptr[i + 1] = c.ptr[i]]
  <1>1. /\ c.max_size = b.max_size /\ c.left_most_ptr = b.left_most_ptr
        /\ \A j \in 0 .. b.max_size - 1 :
              IF j <= i THEN c.key[j] = b.key[j] /\ c.ptr[j] = b.ptr[j]
                        ELSE c.key[j + 1] = b.key[j] /\ c.ptr[j + 1] = b.ptr[j]
        /\ i <= b.max_size - 1
    BY DEF Shifted
  <1>2. /\ i \in 0 .. b.max_size - 1 /\ i \in Slot /\ i + 1 \in Slot
        /\ \A j \in 0 .. b.max_size - 1 : /\ j \in Slot /\ j + 1 \in Slot
                                          /\ (j <= i => j # i + 1)
                                          /\ (~(j <= i) => j + 1 # i + 1)
    BY <1>1, HalfFacts
  <1>3. /\ d.max_size = c.max_size /\ d.left_most_ptr = c.left_most_ptr /\ d.key = c.key
        /\ d.ptr = [c.ptr EXCEPT ![i + 1] = c.ptr[i]]
    BY DEF NodeSet
  <1>4. c.ptr \in [Slot -> Object \cup {Null}]
    BY DEF NodeSet
  <1>5. d \in NodeSet
    <2>1. d.ptr \in [Slot -> Object \cup {Null}]
      BY <1>2, <1>3, <1>4
    <2> QED BY <2>1 DEF NodeSet
  <1>6. d.ptr[i + 1] = c.ptr[i] /\ \A j \in Slot : j # i + 1 => d.ptr[j] = c.ptr[j]
    BY <1>2, <1>3, <1>4
  <1> HIDE DEF d
  <1>7. \A j \in 0 .. b.max_size - 1 :
              IF j <= i THEN d.key[j] = b.key[j] /\ d.ptr[j] = b.ptr[j]
                        ELSE d.key[j + 1] = b.key[j] /\ d.ptr[j + 1] = b.ptr[j]
    BY <1>1, <1>2, <1>3, <1>6
  <1>8. d.ptr[i + 1] = b.ptr[i]
    BY <1>1, <1>2, <1>6
  <1>9. Shifted("shift_key", b, d, i, p, r, s)
    BY <1>1, <1>3, <1>7, <1>8 DEF Shifted
  <1> QED BY <1>5, <1>9 DEF d

LEMMA PtrEnters ==
  ASSUME NEW b \in NodeSet, NEW c \in NodeSet, NEW i \in Int, NEW p \in Int,
         NEW r \in Object, NEW s,
         b.max_size \in 1 .. MAX_LEAF_KEY, p >= -1, i <= p, Shifted("shift_ptr", b, c, i, p, r, s)
  PROVE  /\ [c EXCEPT !.ptr[p + 1] = r] \in NodeSet
         /\ Shifted("put_key", b, [c EXCEPT !.ptr[p + 1] = r], i, p, r, s)
  <1> DEFINE d == [c EXCEPT !.ptr[p + 1] = r]
  <1>1. /\ c.max_size = b.max_size /\ c.left_most_ptr = b.left_most_ptr
        /\ \A j \in 0 .. b.max_size - 1 :
              IF j <= i THEN c.key[j] = b.key[j] /\ c.ptr[j] = b.ptr[j]
                        ELSE c.key[j + 1] = b.key[j] /\ c.ptr[j + 1] = b.ptr[j]
        /\ p <= i /\ i <= b.max_size - 1
    BY DEF Shifted
  <1>2. /\ i = p /\ p + 1 \in Slot
        /\ \A j \in 0 .. b.max_size - 1 : /\ j \in Slot /\ j + 1 \in Slot
                                          /\ (j <= i => j # p + 1)
                                          /\ (~(j <= i) => j + 1 # p + 1)
    BY <1>1, HalfFacts
  <1>3. /\ d.max_size = c.max_size /\ d.left_most_ptr = c.left_most_ptr /\ d.key = c.key
        /\ d.ptr = [c.ptr EXCEPT ![p + 1] = r]
    BY DEF NodeSet
  <1>4. c.ptr \in [Slot -> Object \cup {Null}]
    BY DEF NodeSet
  <1>5. d \in NodeSet
    <2>1. d.ptr \in [Slot -> Object \cup {Null}]
      BY <1>2, <1>3, <1>4
    <2> QED BY <2>1 DEF NodeSet
  <1>6. d.ptr[p + 1] = r /\ \A j \in Slot : j # p + 1 => d.ptr[j] = c.ptr[j]
    BY <1>2, <1>3, <1>4
  <1> HIDE DEF d
  <1>7. \A j \in 0 .. b.max_size - 1 :
              IF j <= i THEN d.key[j] = b.key[j] /\ d.ptr[j] = b.ptr[j]
                        ELSE d.key[j + 1] = b.key[j] /\ d.ptr[j + 1] = b.ptr[j]
    BY <1>1, <1>2, <1>3, <1>6
  <1>8. Shifted("put_key", b, d, i, p, r, s)
    BY <1>1, <1>2, <1>3, <1>6, <1>7 DEF Shifted
  <1> QED BY <1>5, <1>8 DEF d

LEMMA KeyMoves ==
  ASSUME NEW b \in NodeSet, NEW c \in NodeSet, NEW i \in Int, NEW p \in Int, NEW r, NEW s,
         b.max_size \in 1 .. MAX_LEAF_KEY, p >= -1, Shifted("shift_key", b, c, i, p, r, s)
  PROVE  /\ [c EXCEPT !.key[i + 1] = c.key[i]] \in NodeSet
         /\ Shifted("shift_ptr", b, [c EXCEPT !.key[i + 1] = c.key[i]], i - 1, p, r, s)
  <1> DEFINE d == [c EXCEPT !.key[i + 1] = c.key[i]]
  <1>1. /\ c.max_size = b.max_size /\ c.left_most_ptr = b.left_most_ptr
        /\ \A j \in 0 .. b.max_size - 1 :
              IF j <= i THEN c.key[j] = b.key[j] /\ c.ptr[j] = b.ptr[j]
                        ELSE c.key[j + 1] = b.key[j] /\ c.ptr[j + 1] = b.ptr[j]
        /\ i <= b.max_size - 1 /\ i > p /\ c.ptr[i + 1] = b.ptr[i]
    BY DEF Shifted
  <1>2. /\ i \in 0 .. b.max_size - 1 /\ i \in Slot /\ i + 1 \in Slot
        /\ p <= i - 1 /\ i - 1 <= b.max_size - 1
        /\ \A j \in 0 .. b.max_size - 1 : /\ j \in Slot /\ j + 1 \in Slot
                                          /\ (j <= i - 1 => j # i + 1 /\ j <= i)
                                          /\ (~(j <= i - 1) => j = i \/ (~(j <= i) /\ j + 1 # i + 1))
    BY <1>1, HalfFacts
  <1>3. /\ d.max_size = c.max_size /\ d.left_most_ptr = c.left_most_ptr /\ d.ptr = c.ptr
        /\ d.key = [c.key EXCEPT ![i + 1] = c.key[i]]
    BY DEF NodeSet
  <1>4. c.key \in [Slot -> Key \cup {AllOnes}]
    BY DEF NodeSet
  <1>5. d \in NodeSet
    <2>1. d.key \in [Slot -> Key \cup {AllOnes}]
      BY <1>2, <1>3, <1>4
    <2> QED BY <2>1 DEF NodeSet
  <1>6. d.key[i + 1] = c.key[i] /\ \A j \in Slot : j # i + 1 => d.key[j] = c.key[j]
    BY <1>2, <1>3, <1>4
  <1>7. c.key[i] = b.key[i]
    BY <1>1, <1>2
  <1> HIDE DEF d
  <1>8. \A j \in 0 .. b.max_size - 1 :
              IF j <= i - 1 THEN d.key[j] = b.key[j] /\ d.ptr[j] = b.ptr[j]
                        ELSE d.key[j + 1] = b.key[j] /\ d.ptr[j + 1] = b.ptr[j]
    BY <1>1, <1>2, <1>3, <1>6, <1>7
  <1>9. Shifted("shift_ptr", b, d, i - 1, p, r, s)
    BY <1>1, <1>2, <1>3, <1>8 DEF Shifted
  <1> QED BY <1>5, <1>9 DEF d

LEMMA KeyEnters ==
  ASSUME NEW b \in NodeSet, NEW c \in NodeSet, NEW i \in Int, NEW p \in Int, NEW r, NEW s \in Key,
         b.max_size \in 1 .. MAX_LEAF_KEY, p >= -1, Shifted("put_key", b, c, i, p, r, s)
  PROVE  /\ [c EXCEPT !.key[p + 1] = s] \in NodeSet
         /\ Shifted("grow", b, [c EXCEPT !.key[p + 1] = s], i, p, r, s)
  <1> DEFINE d == [c EXCEPT !.key[p + 1] = s]
  <1>1. /\ c.max_size = b.max_size /\ c.left_most_ptr = b.left_most_ptr
        /\ \A j \in 0 .. b.max_size - 1 :
              IF j <= i THEN c.key[j] = b.key[j] /\ c.ptr[j] = b.ptr[j]
                        ELSE c.key[j + 1] = b.key[j] /\ c.ptr[j + 1] = b.ptr[j]
        /\ i <= b.max_size - 1 /\ i = p /\ c.ptr[p + 1] = r
    BY DEF Shifted
  <1>2. /\ p + 1 \in Slot
        /\ \A j \in 0 .. b.max_size - 1 : /\ j \in Slot /\ j + 1 \in Slot
                                          /\ (j <= i => j # p + 1)
                                          /\ (~(j <= i) => j + 1 # p + 1)
    BY <1>1, HalfFacts
  <1>3. /\ d.max_size = c.max_size /\ d.left_most_ptr = c.left_most_ptr /\ d.ptr = c.ptr
        /\ d.key = [c.key EXCEPT ![p + 1] = s]
    BY DEF NodeSet
  <1>4. c.key \in [Slot -> Key \cup {AllOnes}]
    BY DEF NodeSet
  <1>5. d \in NodeSet
    <2>1. d.key \in [Slot -> Key \cup {AllOnes}]
      BY <1>2, <1>3, <1>4
    <2> QED BY <2>1 DEF NodeSet
  <1>6. d.key[p + 1] = s /\ \A j \in Slot : j # p + 1 => d.key[j] = c.key[j]
    BY <1>2, <1>3, <1>4
  <1> HIDE DEF d
  <1>7. \A j \in 0 .. b.max_size - 1 :
              IF j <= i THEN d.key[j] = b.key[j] /\ d.ptr[j] = b.ptr[j]
                        ELSE d.key[j + 1] = b.key[j] /\ d.ptr[j + 1] = b.ptr[j]
    BY <1>1, <1>2, <1>3, <1>6
  <1>8. Shifted("grow", b, d, i, p, r, s)
    BY <1>1, <1>3, <1>6, <1>7 DEF Shifted
  <1> QED BY <1>5, <1>8 DEF d

LEMMA SizeGrows ==
  ASSUME NEW b \in NodeSet, NEW c \in NodeSet, NEW i \in Int, NEW p \in Int, NEW r, NEW s,
         b.max_size \in 1 .. MAX_LEAF_KEY, p >= -1, Shifted("grow", b, c, i, p, r, s)
  PROVE  /\ [c EXCEPT !.max_size = @ + 1] \in NodeSet
         /\ Inserted(b, [c EXCEPT !.max_size = @ + 1], p, s, r)
  <1> DEFINE d == [c EXCEPT !.max_size = @ + 1]
  <1>1. /\ c.max_size = b.max_size /\ c.left_most_ptr = b.left_most_ptr
        /\ \A j \in 0 .. b.max_size - 1 :
              IF j <= i THEN c.key[j] = b.key[j] /\ c.ptr[j] = b.ptr[j]
                        ELSE c.key[j + 1] = b.key[j] /\ c.ptr[j + 1] = b.ptr[j]
        /\ i <= b.max_size - 1 /\ i = p /\ c.ptr[p + 1] = r /\ c.key[p + 1] = s
    BY DEF Shifted
  <1>2. /\ d.max_size = c.max_size + 1 /\ d.left_most_ptr = c.left_most_ptr
        /\ d.key = c.key /\ d.ptr = c.ptr
    BY DEF NodeSet
  <1>3. d.max_size \in 0 .. MAX_LEAF_KEY + 1
    BY <1>1, <1>2, HalfFacts
  <1>4. d \in NodeSet
    BY <1>2, <1>3 DEF NodeSet
  <1> HIDE DEF d
  <1>5. ASSUME NEW j \in 0 .. b.max_size
        PROVE  /\ c.key[j] = IF j <= p THEN b.key[j] ELSE IF j = p + 1 THEN s ELSE b.key[j - 1]
               /\ c.ptr[j] = IF j <= p THEN b.ptr[j] ELSE IF j = p + 1 THEN r ELSE b.ptr[j - 1]
    <2>1. CASE j <= p
      <3>1. j \in 0 .. b.max_size - 1 /\ j <= i
        BY <2>1, <1>1
      <3> QED BY <3>1, <2>1, <1>1
    <2>2. CASE j = p + 1
      <3>1. ~(j <= p)
        BY <2>2
      <3> QED BY <3>1, <2>2, <1>1
    <2>3. CASE j > p + 1
      <3>1. PICK q : q = j - 1
        OBVIOUS
      <3>2. q \in 0 .. b.max_size - 1 /\ ~(q <= i) /\ q + 1 = j /\ ~(j <= p) /\ j # p + 1
        BY <3>1, <2>3, <1>1
      <3>3. c.key[q + 1] = b.key[q] /\ c.ptr[q + 1] = b.ptr[q]
        BY <3>2, <1>1
      <3> QED BY <3>1, <3>2, <3>3
    <2> QED BY <2>1, <2>2, <2>3
  <1>6. Inserted(b, d, p, s, r)
    BY <1>1, <1>2, <1>5 DEF Inserted
  <1> QED BY <1>4, <1>6 DEF d

----------------------------------------------------------------------------
(* The inductive invariant: a tree there is, of which the variables show   *)
(* all but the shifts and copies of the node at work.                      *)
IInv == \E T : Tree(T) /\ Shown(T) /\ Pathed(T)

LEMMA InitTree ==
  ASSUME Init
  PROVE  IInv
  <1>1. /\ node = [n \in Node |-> Blank] /\ nodes = {} /\ root = RootLeaf /\ temp_level = 0
        /\ leaves = {RootLeaf} /\ home = [k \in Key |-> RootLeaf] /\ waiting = {} /\ smo.pc = "idle"
    BY DEF Init, NoSmo
  <1>2. PICK T : T = [leaves |-> leaves, nodes |-> nodes, root |-> root, home |-> home,
                      node |-> node, gaps |-> {},
                      lo |-> [o \in Object |-> -1], hi |-> [o \in Object |-> AllOnes],
                      xhi |-> [o \in Object |-> AllOnes], ht |-> [o \in Object |-> 0]]
    OBVIOUS
  <1>3. /\ T.leaves = {RootLeaf} /\ T.nodes = {} /\ T.root = RootLeaf /\ T.gaps = {}
        /\ T.home = [k \in Key |-> RootLeaf] /\ T.node = node
        /\ \A o \in Object : T.lo[o] = -1 /\ T.hi[o] = AllOnes /\ T.xhi[o] = AllOnes /\ T.ht[o] = 0
    BY <1>1, <1>2
  <1>4. RootLeaf \in Leaf /\ RootLeaf \in Object
    BY HeapAssumption DEF Object
  <1>5. AllOnes \in Nat /\ Key # {} /\ \A k \in Key : k \in Nat /\ k < AllOnes /\ -1 < k
    BY KeyFacts
  <1>6. node \in [Node -> NodeSet]
    <2>1. Blank \in NodeSet
      BY HalfFacts DEF Blank, NodeSet
    <2> QED BY <2>1, <1>1
  <1>7. Obj(T) = {RootLeaf}
    BY <1>3 DEF Obj
  <1>8. Sorts(T)
    <2>1. IsFiniteSet(T.leaves) /\ IsFiniteSet(T.nodes)
      <3>1. IsFiniteSet({RootLeaf})
        BY FS_Singleton
      <3>2. IsFiniteSet({})
        BY FS_EmptySet
      <3> QED BY <3>1, <3>2, <1>3
    <2>2. \A o \in Object : T.lo[o] \in Int /\ T.hi[o] \in Int /\ T.xhi[o] \in Int /\ T.ht[o] \in Nat
      BY <1>3, <1>5
    <2> QED BY <2>1, <2>2, <1>3, <1>4, <1>6, <1>7 DEF Sorts
  <1>9. Ranges(T) /\ Apart(T) /\ Top(T)
    BY <1>3, <1>4, <1>5, <1>7 DEF Ranges, Apart, Top
  <1>10. Homes(T)
    BY <1>3, <1>4, <1>5 DEF Homes
  <1>11. Ordered(T) /\ Children(T) /\ Gaps(T)
    BY <1>3, <1>4, <1>7 DEF Ordered, Children, Gaps
  <1>12. Separators(T)
    BY <1>3, <1>4 DEF Separators, Sources, Places
  <1>13. Tree(T)
    BY <1>8, <1>9, <1>10, <1>11, <1>12 DEF Tree
  <1>14. Shown(T)
    BY <1>1, <1>3, <1>4, <1>6 DEF Shown, CurrentGaps, Shifting, Closing
  <1>15. Pathed(T)
    BY <1>1, <1>3 DEF Pathed, SmoPC, Working
  <1> QED BY <1>13, <1>14, <1>15 DEF IInv

(* The thread under function_lock, and the node it is at.                  *)
LEMMA WorkFacts ==
  ASSUME NEW T, Tree(T), Shown(T), Pathed(T), Working
  PROVE  /\ smo \in SmoSet /\ temp_level \in Nat /\ smo.level \in 0 .. temp_level - 1
         /\ This \in nodes /\ This \in Obj(T) /\ This \in Node
         /\ T.ht[This] = temp_level - smo.level
         /\ T.node[This] \in NodeSet /\ node[This] \in NodeSet
         /\ Shifting => /\ ThisPos \in Entries(T.node[This])
                        /\ ThisPos \in Int /\ ThisPos >= -1
                        /\ T.node[This].max_size \in 1 .. MAX_LEAF_KEY
                        /\ smo.path[smo.level + 1] = ChildOf(T.node[This], ThisPos)
  <1>1. /\ smo \in SmoSet
        /\ \A d \in 0 .. smo.level : smo.path[d] \in nodes /\ T.ht[smo.path[d]] = temp_level - d
        /\ \A d \in 0 .. smo.level :
            (d < smo.level \/ Shifting) =>
              /\ smo.pos[d] \in Entries(T.node[smo.path[d]])
              /\ smo.path[d + 1] = ChildOf(T.node[smo.path[d]], smo.pos[d])
        /\ \A n \in nodes : T.node[n].max_size <= MAX_LEAF_KEY \/ (smo.pc = "split" /\ n = This)
    BY DEF Pathed
  <1>2. temp_level \in Nat /\ nodes = T.nodes /\ node \in [Node -> NodeSet]
    BY DEF Shown
  <1>3. smo.level \in 0 .. temp_level - 1
    BY <1>1 DEF SmoSet
  <1>4. smo.level \in 0 .. smo.level
    BY <1>2, <1>3
  <1>5. This \in nodes /\ T.ht[This] = temp_level - smo.level
    BY <1>1, <1>4 DEF This
  <1>6. This \in Obj(T) /\ This \in Node /\ T.node[This] \in NodeSet
        /\ T.node[This].max_size \in 1 .. MAX_LEAF_KEY + 1
    BY <1>2, <1>5, NodeFacts DEF Tree
  <1>7. ASSUME Shifting
        PROVE  /\ ThisPos \in Entries(T.node[This])
               /\ ThisPos \in Int /\ ThisPos >= -1
               /\ T.node[This].max_size \in 1 .. MAX_LEAF_KEY
               /\ smo.path[smo.level + 1] = ChildOf(T.node[This], ThisPos)
    <2>1. /\ ThisPos \in Entries(T.node[This])
          /\ smo.path[smo.level + 1] = ChildOf(T.node[This], ThisPos)
      BY <1>1, <1>4, <1>7 DEF This, ThisPos
    <2>2. T.node[This].max_size <= MAX_LEAF_KEY
      BY <1>1, <1>5, <1>7 DEF Shifting
    <2>3. T.node[This].max_size \in 1 .. MAX_LEAF_KEY
      BY <2>2, <1>6, HalfFacts
    <2>4. ThisPos \in Int /\ ThisPos >= -1
      BY <2>1, <2>3 DEF Entries
    <2> QED BY <2>1, <2>3, <2>4
  <1>8. node[This] \in NodeSet
    BY <1>2, <1>6
  <1> QED BY <1>1, <1>2, <1>3, <1>5, <1>6, <1>7, <1>8

LEMMA Goes ==
  ASSUME NEW s \in SmoSet, NEW q \in SmoPC
  PROVE  LET t == [s EXCEPT !.pc = q] IN
         /\ t \in SmoSet /\ t.pc = q /\ t.split = s.split /\ t.path = s.path /\ t.pos = s.pos
         /\ t.level = s.level /\ t.sep = s.sep /\ t.right = s.right /\ t.i = s.i
  BY DEF SmoSet

LEMMA Counts ==
  ASSUME NEW s \in SmoSet, NEW i \in Int
  PROVE  LET t == [s EXCEPT !.i = i] IN
         /\ t \in SmoSet /\ t.pc = s.pc /\ t.split = s.split /\ t.path = s.path /\ t.pos = s.pos
         /\ t.level = s.level /\ t.sep = s.sep /\ t.right = s.right /\ t.i = i
  BY DEF SmoSet

LEMMA ClearedIs ==
  ASSUME NEW b \in NodeSet, NEW q,
         q = [i \in Slot |-> IF i \in LEFT_KEY .. 2 * LEFT_KEY - 1 THEN Null ELSE b.ptr[i]]
  PROVE  Cleared(b) = [left_most_ptr |-> b.left_most_ptr, max_size |-> LEFT_KEY,
                       key |-> b.key, ptr |-> q]
  <1>1. Cleared(b) = [b EXCEPT !.max_size = LEFT_KEY, !.ptr = q]
    BY Zenon DEF Cleared
  <1> QED BY <1>1 DEF NodeSet

(* A step that changes at most the node at work, and not what it stands    *)
(* for.                                                                    *)
LEMMA Keeps ==
  ASSUME NEW T, Tree(T), Shown(T), Pathed(T), Working, smo.pc # "split",
         Working', smo'.pc # "split", Shifting' <=> Shifting,
         smo' \in SmoSet, smo'.split = smo.split, smo'.path = smo.path, smo'.pos = smo.pos,
         smo'.level = smo.level, smo'.sep = smo.sep, smo'.right = smo.right,
         UNCHANGED <<nodes, root, temp_level, leaves, home, waiting>>,
         node' \in [Node -> NodeSet], \A n \in nodes : n # This => node'[n] = node[n],
         Shifting => Shifted(smo'.pc, T.node[This], node'[This], smo'.i, ThisPos, smo.right, smo.sep),
         smo'.pc \in {"clear", "shrink"} => /\ T.node[This] = Cleared(node'[This])
                                            /\ node'[This].max_size = MAX_LEAF_KEY + 1,
         smo'.pc = "shrink" => T.node[This].ptr = node'[This].ptr,
         smo'.pc = "up" => T.node[This] = node'[This]
  PROVE  Shown(T)' /\ Pathed(T)'
  <1>1. This' = This /\ ThisPos' = ThisPos /\ Current' = Current
    BY DEF This, ThisPos, Current
  <1>2. CurrentGaps' = CurrentGaps
    BY <1>1 DEF CurrentGaps, Working
  <1>3. smo'.pc \in SmoPC /\ (smo \in SmoSet)'
    BY DEF SmoSet
  <1>4. /\ T.leaves = leaves /\ T.nodes = nodes /\ T.root = root /\ T.home = home
        /\ T.gaps = waiting \cup CurrentGaps /\ CurrentGaps \cap waiting = {}
        /\ waiting \subseteq Split
        /\ \A w \in waiting : home[w.key] \in {w.left, w.right}
        /\ temp_level \in Nat /\ T.ht[root] = temp_level
    BY DEF Shown, Working
  <1>5. \A n \in nodes : n # This => T.node[n] = node[n]
    BY DEF Shown
  <1>6. Shifting' => Moved(T)'
    BY <1>1 DEF Moved
  <1>7. Closing' => /\ T.node[This] = Cleared(node'[This])
                    /\ node'[This].max_size = MAX_LEAF_KEY + 1
    BY DEF Closing
  <1>8. \A n \in nodes : (n = This /\ (Shifting' \/ Closing')) \/ T.node[n] = node'[n]
    <2>1. smo'.pc \in {"up"} \/ Shifting' \/ Closing'
      BY <1>3 DEF Shifting, Closing, SmoPC, Working
    <2> QED BY <2>1, <1>5
  <1>9. Shown(T)'
    BY <1>1, <1>2, <1>4, <1>6, <1>7, <1>8 DEF Shown, Working
  <1>10. Pathed(T)'
    <2>1. /\ smo.path[0] = root
          /\ \A d \in 0 .. smo.level : smo.path[d] \in nodes /\ T.ht[smo.path[d]] = temp_level - d
          /\ \A d \in 0 .. smo.level :
               (d < smo.level \/ Shifting) =>
                 /\ smo.pos[d] \in Entries(T.node[smo.path[d]])
                 /\ smo.path[d + 1] = ChildOf(T.node[smo.path[d]], smo.pos[d])
          /\ Shifting /\ smo.level = temp_level - 1 => Current = smo.split
          /\ \A n \in nodes : T.node[n].max_size <= MAX_LEAF_KEY
      BY DEF Pathed
    <2> QED BY <2>1, <1>1, <1>3 DEF Pathed
  <1> QED BY <1>9, <1>10

LEMMA ShiftPtrKeeps ==
  ASSUME NEW T, Tree(T), Shown(T), Pathed(T), ShiftPtr
  PROVE  Shown(T)' /\ Pathed(T)'
  <1>1. /\ smo.pc = "shift_ptr" /\ smo.pc # "split" /\ Working /\ Shifting
        /\ UNCHANGED <<nodes, root, temp_level, leaves, home, waiting>>
    BY DEF ShiftPtr, Working, Shifting
  <1>2. /\ smo \in SmoSet /\ This \in nodes /\ This \in Node
        /\ T.node[This] \in NodeSet /\ node[This] \in NodeSet
        /\ ThisPos \in Int /\ ThisPos >= -1 /\ T.node[This].max_size \in 1 .. MAX_LEAF_KEY
    BY <1>1, WorkFacts
  <1>3. smo.i \in Int /\ smo.right \in Object
    BY <1>2 DEF SmoSet
  <1>4. Shifted("shift_ptr", T.node[This], node[This], smo.i, ThisPos, smo.right, smo.sep)
    BY <1>1 DEF Shown, Moved
  <1>5. node \in [Node -> NodeSet]
    BY DEF Shown
  <1>6. CASE smo.i > ThisPos
    <2>1. /\ node' = [node EXCEPT ![This].ptr[smo.i + 1] = node[This].ptr[smo.i]]
          /\ smo' = [smo EXCEPT !.pc = "shift_key"]
      BY <1>2, <1>3, <1>6 DEF ShiftPtr, Goto
    <2>2. PICK d : d = [node[This] EXCEPT !.ptr[smo.i + 1] = node[This].ptr[smo.i]]
      OBVIOUS
    <2>3. d \in NodeSet /\ Shifted("shift_key", T.node[This], d, smo.i, ThisPos, smo.right, smo.sep)
      BY <1>2, <1>3, <1>4, <1>6, <2>2, PtrMoves
    <2>4. node' = [node EXCEPT ![This] = d]
      BY <2>1, <2>2
    <2>5. node'[This] = d /\ (\A n \in nodes : n # This => node'[n] = node[n]) /\ node' \in [Node -> NodeSet]
      BY <2>3, <2>4, <1>2, <1>5 DEF Shown, Tree, Sorts
    <2>6. /\ smo' \in SmoSet /\ smo'.pc = "shift_key" /\ smo'.split = smo.split
          /\ smo'.path = smo.path /\ smo'.pos = smo.pos /\ smo'.level = smo.level
          /\ smo'.sep = smo.sep /\ smo'.right = smo.right /\ smo'.i = smo.i
      BY <2>1, <1>2, Goes DEF SmoPC
    <2>7. Working' /\ Shifting' /\ smo'.pc # "split" /\ smo'.pc \notin {"clear", "shrink", "up"}
      BY <2>6 DEF Working, Shifting
    <2> QED BY <1>1, <2>3, <2>5, <2>6, <2>7, Keeps
  <1>7. CASE smo.i <= ThisPos
    <2>1. /\ node' = [node EXCEPT ![This].ptr[ThisPos + 1] = smo.right]
          /\ smo' = [smo EXCEPT !.pc = "put_key"]
      BY <1>2, <1>3, <1>7 DEF ShiftPtr, Goto
    <2>2. PICK d : d = [node[This] EXCEPT !.ptr[ThisPos + 1] = smo.right]
      OBVIOUS
    <2>3. d \in NodeSet /\ Shifted("put_key", T.node[This], d, smo.i, ThisPos, smo.right, smo.sep)
      BY <1>2, <1>3, <1>4, <1>7, <2>2, PtrEnters
    <2>4. node' = [node EXCEPT ![This] = d]
      BY <2>1, <2>2
    <2>5. node'[This] = d /\ (\A n \in nodes : n # This => node'[n] = node[n]) /\ node' \in [Node -> NodeSet]
      BY <2>3, <2>4, <1>2, <1>5 DEF Shown, Tree, Sorts
    <2>6. /\ smo' \in SmoSet /\ smo'.pc = "put_key" /\ smo'.split = smo.split
          /\ smo'.path = smo.path /\ smo'.pos = smo.pos /\ smo'.level = smo.level
          /\ smo'.sep = smo.sep /\ smo'.right = smo.right /\ smo'.i = smo.i
      BY <2>1, <1>2, Goes DEF SmoPC
    <2>7. Working' /\ Shifting' /\ smo'.pc # "split" /\ smo'.pc \notin {"clear", "shrink", "up"}
      BY <2>6 DEF Working, Shifting
    <2> QED BY <1>1, <2>3, <2>5, <2>6, <2>7, Keeps
  <1> QED BY <1>2, <1>3, <1>6, <1>7

LEMMA ShiftKeyKeeps ==
  ASSUME NEW T, Tree(T), Shown(T), Pathed(T), ShiftKey
  PROVE  Shown(T)' /\ Pathed(T)'
  <1>1. /\ smo.pc = "shift_key" /\ smo.pc # "split" /\ Working /\ Shifting
        /\ UNCHANGED <<nodes, root, temp_level, leaves, home, waiting>>
        /\ node' = [node EXCEPT ![This].key[smo.i + 1] = node[This].key[smo.i]]
        /\ smo' = [smo EXCEPT !.pc = "shift_ptr", !.i = @ - 1]
    BY DEF ShiftKey, Working, Shifting
  <1>2. /\ smo \in SmoSet /\ This \in nodes /\ This \in Node
        /\ T.node[This] \in NodeSet /\ node[This] \in NodeSet
        /\ ThisPos \in Int /\ ThisPos >= -1 /\ T.node[This].max_size \in 1 .. MAX_LEAF_KEY
    BY <1>1, WorkFacts
  <1>3. smo.i \in Int
    BY <1>2 DEF SmoSet
  <1>4. Shifted("shift_key", T.node[This], node[This], smo.i, ThisPos, smo.right, smo.sep)
    BY <1>1 DEF Shown, Moved
  <1>5. node \in [Node -> NodeSet]
    BY DEF Shown
  <1>6. PICK d : d = [node[This] EXCEPT !.key[smo.i + 1] = node[This].key[smo.i]]
    OBVIOUS
  <1>7. d \in NodeSet /\ Shifted("shift_ptr", T.node[This], d, smo.i - 1, ThisPos, smo.right, smo.sep)
    BY <1>2, <1>3, <1>4, <1>6, KeyMoves
  <1>8. node' = [node EXCEPT ![This] = d]
    BY <1>1, <1>6
  <1>9. node'[This] = d /\ (\A n \in nodes : n # This => node'[n] = node[n]) /\ node' \in [Node -> NodeSet]
    BY <1>7, <1>8, <1>2, <1>5 DEF Shown, Tree, Sorts
  <1>10. /\ smo' \in SmoSet /\ smo'.pc = "shift_ptr" /\ smo'.split = smo.split
         /\ smo'.path = smo.path /\ smo'.pos = smo.pos /\ smo'.level = smo.level
         /\ smo'.sep = smo.sep /\ smo'.right = smo.right /\ smo'.i = smo.i - 1
    <2>1. PICK t : t = [smo EXCEPT !.pc = "shift_ptr"]
      OBVIOUS
    <2>2. /\ t \in SmoSet /\ t.pc = "shift_ptr" /\ t.split = smo.split
          /\ t.path = smo.path /\ t.pos = smo.pos /\ t.level = smo.level
          /\ t.sep = smo.sep /\ t.right = smo.right /\ t.i = smo.i
      BY <2>1, <1>2, Goes DEF SmoPC
    <2>3. PICK i \in Int : i = smo.i - 1
      BY <1>3
    <2>4. smo' = [t EXCEPT !.i = i]
      <3>1. smo' = [t EXCEPT !.i = @ - 1]
        BY ONLY <1>1, <2>1, Zenon
      <3> QED BY ONLY <3>1, <2>2, <2>3
    <2>5. /\ smo' \in SmoSet /\ smo'.pc = t.pc /\ smo'.split = t.split
          /\ smo'.path = t.path /\ smo'.pos = t.pos /\ smo'.level = t.level
          /\ smo'.sep = t.sep /\ smo'.right = t.right /\ smo'.i = i
      BY <2>2, <2>4, Counts
    <2> QED BY <2>2, <2>3, <2>5
  <1>11. Working' /\ Shifting' /\ smo'.pc # "split" /\ smo'.pc \notin {"clear", "shrink", "up"}
    BY <1>10 DEF Working, Shifting
  <1> QED BY <1>1, <1>7, <1>9, <1>10, <1>11, Keeps

LEMMA PutKeyKeeps ==
  ASSUME NEW T, Tree(T), Shown(T), Pathed(T), PutKey
  PROVE  Shown(T)' /\ Pathed(T)'
  <1>1. /\ smo.pc = "put_key" /\ smo.pc # "split" /\ Working /\ Shifting
        /\ UNCHANGED <<nodes, root, temp_level, leaves, home, waiting>>
        /\ node' = [node EXCEPT ![This].key[ThisPos + 1] = smo.sep]
        /\ smo' = [smo EXCEPT !.pc = "grow"]
    BY DEF PutKey, Goto, Working, Shifting
  <1>2. /\ smo \in SmoSet /\ This \in nodes /\ This \in Node
        /\ T.node[This] \in NodeSet /\ node[This] \in NodeSet
        /\ ThisPos \in Int /\ ThisPos >= -1 /\ T.node[This].max_size \in 1 .. MAX_LEAF_KEY
    BY <1>1, WorkFacts
  <1>3. smo.i \in Int /\ smo.sep \in Key
    BY <1>2 DEF SmoSet
  <1>4. Shifted("put_key", T.node[This], node[This], smo.i, ThisPos, smo.right, smo.sep)
    BY <1>1 DEF Shown, Moved
  <1>5. node \in [Node -> NodeSet]
    BY DEF Shown
  <1>6. PICK d : d = [node[This] EXCEPT !.key[ThisPos + 1] = smo.sep]
    OBVIOUS
  <1>7. d \in NodeSet /\ Shifted("grow", T.node[This], d, smo.i, ThisPos, smo.right, smo.sep)
    BY <1>2, <1>3, <1>4, <1>6, KeyEnters
  <1>8. node' = [node EXCEPT ![This] = d]
    BY <1>1, <1>6
  <1>9. node'[This] = d /\ (\A n \in nodes : n # This => node'[n] = node[n]) /\ node' \in [Node -> NodeSet]
    BY <1>7, <1>8, <1>2, <1>5 DEF Shown, Tree, Sorts
  <1>10. /\ smo' \in SmoSet /\ smo'.pc = "grow" /\ smo'.split = smo.split
         /\ smo'.path = smo.path /\ smo'.pos = smo.pos /\ smo'.level = smo.level
         /\ smo'.sep = smo.sep /\ smo'.right = smo.right /\ smo'.i = smo.i
    BY <1>1, <1>2, Goes DEF SmoPC
  <1>11. Working' /\ Shifting' /\ smo'.pc # "split" /\ smo'.pc \notin {"clear", "shrink", "up"}
    BY <1>10 DEF Working, Shifting
  <1> QED BY <1>1, <1>7, <1>9, <1>10, <1>11, Keeps

LEMMA ClearPtrsKeeps ==
  ASSUME NEW T, Tree(T), Shown(T), Pathed(T), ClearPtrs
  PROVE  Shown(T)' /\ Pathed(T)'
  <1>1. /\ smo.pc = "clear" /\ smo.pc # "split" /\ Working /\ ~Shifting
        /\ UNCHANGED <<nodes, root, temp_level, leaves, home, waiting>>
        /\ node' = [node EXCEPT ![This].ptr = [i \in Slot |->
                      IF i \in LEFT_KEY .. 2 * LEFT_KEY - 1 THEN Null ELSE @[i]]]
        /\ smo' = [smo EXCEPT !.pc = "shrink"]
    BY DEF ClearPtrs, Goto, Working, Shifting
  <1>2. smo \in SmoSet /\ This \in nodes /\ This \in Node /\ node[This] \in NodeSet
    BY <1>1, WorkFacts
  <1>3. T.node[This] = Cleared(node[This]) /\ node[This].max_size = MAX_LEAF_KEY + 1
    BY <1>1 DEF Shown, Closing
  <1>4. node \in [Node -> NodeSet] /\ nodes \subseteq Node
    BY DEF Shown, Tree, Sorts
  <1>5. PICK d : d = [node[This] EXCEPT !.ptr = [i \in Slot |->
                      IF i \in LEFT_KEY .. 2 * LEFT_KEY - 1 THEN Null ELSE @[i]]]
    OBVIOUS
  <1>6. node' = [node EXCEPT ![This] = d]
    BY <1>1, <1>5
  <1>7. /\ d.max_size = node[This].max_size /\ d.left_most_ptr = node[This].left_most_ptr
        /\ d.key = node[This].key
        /\ d.ptr = [i \in Slot |->
                      IF i \in LEFT_KEY .. 2 * LEFT_KEY - 1 THEN Null ELSE node[This].ptr[i]]
    BY <1>2, <1>5 DEF NodeSet
  <1>8. d \in NodeSet
    BY <1>2, <1>5 DEF NodeSet
  <1>9. Cleared(d) = T.node[This] /\ T.node[This].ptr = d.ptr
    <2>1. PICK q : q = [i \in Slot |-> IF i \in LEFT_KEY .. 2 * LEFT_KEY - 1
                                       THEN Null ELSE node[This].ptr[i]]
      OBVIOUS
    <2>2. Cleared(node[This]) = [left_most_ptr |-> node[This].left_most_ptr, max_size |-> LEFT_KEY,
                                 key |-> node[This].key, ptr |-> q]
      BY <2>1, <1>2, ClearedIs
    <2>3. q = d.ptr /\ q = [i \in Slot |-> IF i \in LEFT_KEY .. 2 * LEFT_KEY - 1
                                           THEN Null ELSE d.ptr[i]]
      BY <2>1, <1>7
    <2>4. Cleared(d) = [left_most_ptr |-> d.left_most_ptr, max_size |-> LEFT_KEY, key |-> d.key, ptr |-> q]
      BY <2>3, <1>8, ClearedIs
    <2> QED BY <2>2, <2>3, <2>4, <1>3, <1>7
  <1>10. node'[This] = d /\ (\A n \in nodes : n # This => node'[n] = node[n]) /\ node' \in [Node -> NodeSet]
    BY <1>2, <1>4, <1>6, <1>8
  <1>11. /\ smo' \in SmoSet /\ smo'.pc = "shrink" /\ smo'.split = smo.split
         /\ smo'.path = smo.path /\ smo'.pos = smo.pos /\ smo'.level = smo.level
         /\ smo'.sep = smo.sep /\ smo'.right = smo.right /\ smo'.i = smo.i
    BY <1>1, <1>2, Goes DEF SmoPC
  <1>12. Working' /\ ~Shifting' /\ smo'.pc # "split" /\ smo'.pc # "up"
    BY <1>11 DEF Working, Shifting
  <1>13. T.node[This] = Cleared(node'[This]) /\ node'[This].max_size = MAX_LEAF_KEY + 1
         /\ T.node[This].ptr = node'[This].ptr
    BY <1>3, <1>7, <1>9, <1>10
  <1> QED BY <1>1, <1>10, <1>11, <1>12, <1>13, Keeps

LEMMA ShrinkKeeps ==
  ASSUME NEW T, Tree(T), Shown(T), Pathed(T), Shrink
  PROVE  Shown(T)' /\ Pathed(T)'
  <1>1. /\ smo.pc = "shrink" /\ smo.pc # "split" /\ Working /\ ~Shifting
        /\ UNCHANGED <<nodes, root, temp_level, leaves, home, waiting>>
        /\ node' = [node EXCEPT ![This].max_size = LEFT_KEY]
        /\ smo' = [smo EXCEPT !.pc = "up"]
    BY DEF Shrink, Goto, Working, Shifting
  <1>2. smo \in SmoSet /\ This \in nodes /\ This \in Node /\ node[This] \in NodeSet
    BY <1>1, WorkFacts
  <1>3. T.node[This] = Cleared(node[This]) /\ T.node[This].ptr = node[This].ptr
    BY <1>1 DEF Shown, Closing
  <1>4. node \in [Node -> NodeSet] /\ nodes \subseteq Node
    BY DEF Shown, Tree, Sorts
  <1>5. PICK d : d = [node[This] EXCEPT !.max_size = LEFT_KEY]
    OBVIOUS
  <1>6. node' = [node EXCEPT ![This] = d]
    BY <1>1, <1>5
  <1>7. d = [left_most_ptr |-> node[This].left_most_ptr, max_size |-> LEFT_KEY,
             key |-> node[This].key, ptr |-> node[This].ptr]
    BY <1>2, <1>5 DEF NodeSet
  <1>8. d \in NodeSet
    BY <1>2, <1>7, HalfFacts DEF NodeSet
  <1>9. d = T.node[This]
    <2>1. PICK q : q = [i \in Slot |-> IF i \in LEFT_KEY .. 2 * LEFT_KEY - 1
                                       THEN Null ELSE node[This].ptr[i]]
      OBVIOUS
    <2>2. Cleared(node[This]) = [left_most_ptr |-> node[This].left_most_ptr, max_size |-> LEFT_KEY,
                                 key |-> node[This].key, ptr |-> q]
      BY <2>1, <1>2, ClearedIs
    <2>3. q = node[This].ptr
      BY <2>2, <1>3
    <2> QED BY <2>2, <2>3, <1>3, <1>7
  <1>10. node'[This] = d /\ (\A n \in nodes : n # This => node'[n] = node[n]) /\ node' \in [Node -> NodeSet]
    BY <1>2, <1>4, <1>6, <1>8
  <1>11. /\ smo' \in SmoSet /\ smo'.pc = "up" /\ smo'.split = smo.split
         /\ smo'.path = smo.path /\ smo'.pos = smo.pos /\ smo'.level = smo.level
         /\ smo'.sep = smo.sep /\ smo'.right = smo.right /\ smo'.i = smo.i
    BY <1>1, <1>2, Goes DEF SmoPC
  <1>12. Working' /\ ~Shifting' /\ smo'.pc # "split" /\ smo'.pc \notin {"clear", "shrink"}
    BY <1>11 DEF Working, Shifting
  <1> QED BY <1>1, <1>9, <1>10, <1>11, <1>12, Keeps

LEMMA Climbs ==
  ASSUME NEW s \in SmoSet, NEW l \in 0 .. temp_level - 1
  PROVE  LET t == [s EXCEPT !.level = l] IN
         /\ t \in SmoSet /\ t.pc = s.pc /\ t.split = s.split /\ t.path = s.path /\ t.pos = s.pos
         /\ t.level = l /\ t.sep = s.sep /\ t.right = s.right /\ t.i = s.i
  BY DEF SmoSet

LEMMA NextLevelKeeps ==
  ASSUME NEW T, Tree(T), Shown(T), Pathed(T), NextLevel
  PROVE  Shown(T)' /\ Pathed(T)'
  <1>1. /\ smo.pc = "up" /\ smo.level > 0 /\ Working /\ ~Shifting /\ ~Closing
        /\ UNCHANGED <<node, nodes, root, temp_level, leaves, home, waiting>>
        /\ smo' = [smo EXCEPT !.pc = "shift_ptr", !.level = @ - 1,
                              !.i = node[smo.path[smo.level - 1]].max_size - 1]
    BY DEF NextLevel, Working, Shifting, Closing
  <1>2. smo \in SmoSet /\ temp_level \in Nat /\ smo.level \in 0 .. temp_level - 1
    BY <1>1, WorkFacts
  <1>3. PICK l : l = smo.level - 1
    OBVIOUS
  <1>4. l \in 0 .. smo.level /\ l < smo.level /\ l \in 0 .. temp_level - 1 /\ l + 1 = smo.level
        /\ l # temp_level - 1
    BY <1>1, <1>2, <1>3
  <1>5. PICK x : x = smo.path[l]
    OBVIOUS
  <1>6. /\ smo.path[0] = root
        /\ \A d \in 0 .. smo.level : smo.path[d] \in nodes /\ T.ht[smo.path[d]] = temp_level - d
        /\ \A d \in 0 .. smo.level :
             (d < smo.level \/ Shifting) =>
               /\ smo.pos[d] \in Entries(T.node[smo.path[d]])
               /\ smo.path[d + 1] = ChildOf(T.node[smo.path[d]], smo.pos[d])
        /\ \A n \in nodes : T.node[n].max_size <= MAX_LEAF_KEY
    BY <1>1 DEF Pathed
  <1>7. x \in nodes /\ smo.pos[l] \in Entries(T.node[x])
    BY <1>4, <1>5, <1>6
  <1>8. \A n \in nodes : T.node[n] = node[n]
    BY <1>1 DEF Shown
  <1>9. T.node[x].max_size \in Nat /\ T.node[x].max_size >= 1
    <2>1. T.node[x].max_size \in 1 .. MAX_LEAF_KEY + 1
      BY <1>7, NodeFacts DEF Shown, Tree
    <2> QED BY <2>1, HalfFacts
  <1>10. PICK i \in Int : i = T.node[x].max_size - 1
    BY <1>9
  <1>11. /\ smo' \in SmoSet /\ smo'.pc = "shift_ptr" /\ smo'.split = smo.split
         /\ smo'.path = smo.path /\ smo'.pos = smo.pos /\ smo'.level = l
         /\ smo'.sep = smo.sep /\ smo'.right = smo.right /\ smo'.i = i
    <2>1. PICK s : s = [smo EXCEPT !.pc = "shift_ptr"]
      OBVIOUS
    <2>2. /\ s \in SmoSet /\ s.pc = "shift_ptr" /\ s.split = smo.split
          /\ s.path = smo.path /\ s.pos = smo.pos /\ s.level = smo.level
          /\ s.sep = smo.sep /\ s.right = smo.right /\ s.i = smo.i
      BY <2>1, <1>2, Goes DEF SmoPC
    <2>3. PICK t : t = [s EXCEPT !.level = l]
      OBVIOUS
    <2>4. /\ t \in SmoSet /\ t.pc = s.pc /\ t.split = s.split /\ t.path = s.path /\ t.pos = s.pos
          /\ t.level = l /\ t.sep = s.sep /\ t.right = s.right /\ t.i = s.i
      BY <2>2, <2>3, <1>4, Climbs
    <2>5. smo' = [t EXCEPT !.i = i]
      <3>1. i = node[smo.path[smo.level - 1]].max_size - 1
        BY <1>3, <1>5, <1>7, <1>8, <1>10
      <3>2. smo' = [smo EXCEPT !.pc = "shift_ptr", !.level = @ - 1, !.i = i]
        BY ONLY <1>1, <3>1
      <3>3. smo' = [s EXCEPT !.level = @ - 1, !.i = i]
        BY ONLY <2>1, <3>2, Zenon
      <3>4. s.level - 1 = l
        BY ONLY <1>3, <2>2
      <3> QED BY ONLY <2>3, <3>3, <3>4
    <2>6. /\ smo' \in SmoSet /\ smo'.pc = t.pc /\ smo'.split = t.split
          /\ smo'.path = t.path /\ smo'.pos = t.pos /\ smo'.level = t.level
          /\ smo'.sep = t.sep /\ smo'.right = t.right /\ smo'.i = i
      BY <2>4, <2>5, Counts
    <2> QED BY <2>2, <2>4, <2>6
  <1>12. Working' /\ Shifting' /\ ~Closing' /\ smo'.pc # "split" /\ (smo \in SmoSet)'
         /\ smo'.pc \in SmoPC
    BY <1>1, <1>11 DEF Working, Shifting, Closing, SmoSet
  <1>13. This' = x /\ ThisPos' = smo.pos[l]
    BY <1>5, <1>11 DEF This, ThisPos
  <1>14. Current' = Current
    BY <1>1, <1>4, <1>11, <1>12 DEF Current, This
  <1>15. CurrentGaps' = CurrentGaps
    BY <1>1, <1>11, <1>14 DEF CurrentGaps
  <1>16. Moved(T)'
    <2>1. smo.pos[l] <= T.node[x].max_size - 1
      BY <1>7, <1>9 DEF Entries
    <2>2. node' = node
      BY <1>1
    <2>3. \A j \in 0 .. T.node[x].max_size - 1 : j <= T.node[x].max_size - 1
      BY <1>9
    <2>4. Shifted("shift_ptr", T.node[x], node[x], i, smo.pos[l], smo.right, smo.sep)
      BY <2>1, <2>3, <1>7, <1>8, <1>9, <1>10 DEF Shifted
    <2> QED BY <2>2, <2>4, <1>11, <1>13 DEF Moved
  <1>17. Shown(T)'
    <2>1. /\ T.leaves = leaves /\ T.nodes = nodes /\ T.root = root /\ T.home = home
          /\ T.gaps = waiting \cup CurrentGaps /\ CurrentGaps \cap waiting = {}
          /\ waiting \subseteq Split /\ node \in [Node -> NodeSet]
          /\ \A w \in waiting : home[w.key] \in {w.left, w.right}
          /\ temp_level \in Nat /\ T.ht[root] = temp_level
      BY <1>1 DEF Shown
    <2> QED BY <2>1, <1>1, <1>8, <1>11, <1>12, <1>15, <1>16 DEF Shown
  <1>18. Pathed(T)'
    <2>1. \A d \in 0 .. l : d \in 0 .. smo.level /\ d < smo.level
      BY <1>2, <1>4
    <2> QED BY <2>1, <1>1, <1>4, <1>6, <1>11, <1>12 DEF Pathed
  <1> QED BY <1>17, <1>18

LEMMA RaiseKeeps ==
  ASSUME NEW T, Tree(T), Shown(T), Pathed(T), Raise
  PROVE  Shown(T)' /\ Pathed(T)'
  <1>1. /\ smo.pc = "raise" /\ temp_level' = temp_level + 1 /\ smo'.pc = "idle"
        /\ UNCHANGED <<node, nodes, root, leaves, home, waiting>>
    BY DEF Raise, NoSmo
  <1>2. /\ T.leaves = leaves /\ T.nodes = nodes /\ T.root = root /\ T.home = home
        /\ T.gaps = waiting /\ waiting \subseteq Split /\ node \in [Node -> NodeSet]
        /\ \A w \in waiting : home[w.key] \in {w.left, w.right}
        /\ temp_level \in Nat /\ T.ht[root] = temp_level + 1
        /\ \A n \in nodes : T.node[n] = node[n]
    BY <1>1 DEF Shown, CurrentGaps, Working
  <1>3. /\ CurrentGaps' = {} /\ ~Working' /\ ~Shifting' /\ ~Closing' /\ smo'.pc \in SmoPC
    BY <1>1 DEF CurrentGaps, Working, Shifting, Closing, SmoPC
  <1>4. Shown(T)'
    BY <1>1, <1>2, <1>3 DEF Shown
  <1>5. Pathed(T)'
    BY <1>1, <1>3 DEF Pathed
  <1> QED BY <1>4, <1>5

LEMMA GrowTree ==
  ASSUME NEW T, Tree(T), Shown(T), Pathed(T), Grow
  PROVE  \E U : Tree(U) /\ Shown(U)' /\ Pathed(U)'
  <1>1. /\ smo.pc = "grow" /\ Working /\ Shifting
        /\ UNCHANGED <<nodes, root, temp_level, leaves, home, waiting>>
        /\ node' = [node EXCEPT ![This].max_size = @ + 1]
        /\ smo' = IF Overfull(This) THEN [smo EXCEPT !.pc = "split"] ELSE NoSmo
    BY DEF Grow, Working, Shifting
  <1>2. PICK x, p, g : x = This /\ p = ThisPos /\ g = Current
    OBVIOUS
  <1>3. /\ smo \in SmoSet /\ temp_level \in Nat /\ smo.level \in 0 .. temp_level - 1
        /\ x \in nodes /\ x \in Obj(T) /\ x \in Node /\ T.ht[x] = temp_level - smo.level
        /\ T.node[x] \in NodeSet /\ node[x] \in NodeSet
        /\ p \in Entries(T.node[x]) /\ p \in Int /\ p >= -1
        /\ T.node[x].max_size \in 1 .. MAX_LEAF_KEY
        /\ smo.path[smo.level + 1] = ChildOf(T.node[x], p)
    BY <1>1, <1>2, WorkFacts
  <1>4. smo.i \in Int
    BY <1>3 DEF SmoSet
  <1>5. Shifted("grow", T.node[x], node[x], smo.i, p, smo.right, smo.sep)
    BY <1>1, <1>2 DEF Shown, Moved
  <1>6. PICK d : d = [node[x] EXCEPT !.max_size = @ + 1]
    OBVIOUS
  <1>7. d \in NodeSet /\ Inserted(T.node[x], d, p, smo.sep, smo.right)
    BY <1>3, <1>4, <1>5, <1>6, SizeGrows
  <1>8. node' = [node EXCEPT ![x] = d]
    BY <1>1, <1>2, <1>6
  <1>9. /\ T.leaves = leaves /\ T.nodes = nodes /\ T.root = root /\ T.home = home
        /\ T.gaps = waiting \cup {g} /\ g \notin waiting
        /\ waiting \subseteq Split /\ node \in [Node -> NodeSet]
        /\ \A w \in waiting : home[w.key] \in {w.left, w.right}
        /\ T.ht[root] = temp_level /\ \A n \in nodes : n = x \/ T.node[n] = node[n]
    BY <1>1, <1>2 DEF Shown, CurrentGaps
  <1>10. g.sep = smo.sep /\ g.right = smo.right /\ g.left = ChildOf(T.node[x], p)
    BY <1>1, <1>2, <1>3 DEF Current
  <1>11. PICK U : U = [leaves |-> T.leaves, nodes |-> T.nodes, root |-> T.root, home |-> T.home,
                       node |-> [T.node EXCEPT ![x] = d], gaps |-> T.gaps \ {g},
                       lo |-> T.lo, hi |-> T.hi, ht |-> T.ht,
                       xhi |-> [o \in Object |-> IF o = g.left THEN T.hi[o] ELSE T.xhi[o]]]
    OBVIOUS
  <1>12. /\ U.leaves = T.leaves /\ U.nodes = T.nodes /\ U.root = T.root /\ U.home = T.home
         /\ U.node = [T.node EXCEPT ![x] = d] /\ U.gaps = T.gaps \ {g}
         /\ U.lo = T.lo /\ U.hi = T.hi /\ U.ht = T.ht
         /\ \A o \in Object : U.xhi[o] = IF o = g.left THEN T.hi[o] ELSE T.xhi[o]
    BY <1>11
  <1>13. T.node \in [Node -> NodeSet] /\ T.nodes \subseteq Node
         /\ \A o \in Object : T.lo[o] \in Int /\ T.hi[o] \in Int /\ T.xhi[o] \in Int /\ T.ht[o] \in Nat
    BY DEF Tree, Sorts
  <1>14. U.node[x] = d /\ U.node \in [Node -> NodeSet] /\ \A n \in T.nodes : n # x => U.node[n] = T.node[n]
    BY <1>3, <1>7, <1>12, <1>13
  <1>15. Closes(T, U, g)
    <2>1. \A o \in Obj(T) : o \in Object
      BY RangeFacts DEF Tree
    <2> QED BY <2>1, <1>9, <1>12 DEF Closes
  <1>16. Enters(T, U, g, x, p)
    <2>1. \A o \in Object : U.lo[o] \in Int /\ U.hi[o] \in Int /\ U.xhi[o] \in Int /\ U.ht[o] \in Nat
      BY <1>12, <1>13
    <2>2. T.node[x].max_size <= MAX_LEAF_KEY
      BY <1>3, HalfFacts
    <2> QED BY <2>1, <2>2, <1>3, <1>7, <1>9, <1>10, <1>12, <1>14, <1>15 DEF Enters
  <1>17. Tree(U)
    BY <1>16, EnterTree
  <1>18. \A n \in nodes : U.node[n] = node'[n]
    BY <1>3, <1>8, <1>9, <1>14, <1>13
  <1>19. node' \in [Node -> NodeSet]
    BY <1>3, <1>7, <1>8, <1>9
  <1>20. smo'.pc \in {"split", "idle"}
    BY <1>1, <1>3 DEF NoSmo, SmoSet
  <1>21. CurrentGaps' = {} /\ ~Shifting' /\ ~Closing' /\ smo'.pc \in SmoPC
    BY <1>20 DEF CurrentGaps, Shifting, Closing, SmoPC
  <1>22. Shown(U)'
    BY <1>1, <1>3, <1>9, <1>12, <1>18, <1>19, <1>20, <1>21 DEF Shown
  <1>23. \A n \in nodes : n # x => U.node[n].max_size <= MAX_LEAF_KEY
    BY <1>1, <1>9, <1>14 DEF Pathed
  <1>24. U.node[x].max_size = T.node[x].max_size + 1 /\ node[x].max_size = T.node[x].max_size
    BY <1>5, <1>7, <1>14 DEF Inserted, Shifted
  <1>25. Pathed(U)'
    <2>1. CASE ~Overfull(x)
      <3>1. smo'.pc = "idle" /\ ~Working'
        BY <2>1, <1>1, <1>2 DEF NoSmo, Working
      <3>2. U.node[x].max_size <= MAX_LEAF_KEY
        <4>1. ~(T.node[x].max_size + 1 > MAX_LEAF_KEY)
          BY <2>1, <1>24 DEF Overfull
        <4> QED BY <4>1, <1>3, <1>24, HalfFacts
      <3> QED BY <3>1, <3>2, <1>1, <1>21, <1>23 DEF Pathed
    <2>2. CASE Overfull(x)
      <3>1. /\ smo' \in SmoSet /\ smo'.pc = "split" /\ smo'.split = smo.split
            /\ smo'.path = smo.path /\ smo'.pos = smo.pos /\ smo'.level = smo.level
        <4>1. smo' = [smo EXCEPT !.pc = "split"]
          BY <2>2, <1>1, <1>2
        <4> QED BY <4>1, <1>3, Goes DEF SmoPC
      <3>2. (smo \in SmoSet)' /\ This' = x
        BY <3>1, <1>1, <1>2 DEF SmoSet, This
      <3>3. /\ smo.path[0] = root
            /\ \A e \in 0 .. smo.level : smo.path[e] \in nodes /\ T.ht[smo.path[e]] = temp_level - e
            /\ \A e \in 0 .. smo.level :
                 e < smo.level =>
                   /\ smo.pos[e] \in Entries(T.node[smo.path[e]])
                   /\ smo.path[e + 1] = ChildOf(T.node[smo.path[e]], smo.pos[e])
        BY <1>1 DEF Pathed
      <3>4. \A e \in 0 .. smo.level : e < smo.level => U.node[smo.path[e]] = T.node[smo.path[e]]
        <4>1. \A e \in 0 .. smo.level : e < smo.level => temp_level - e # temp_level - smo.level
          BY <1>3
        <4> QED BY <4>1, <3>3, <1>3, <1>9, <1>14
      <3>5. node'[x].max_size = MAX_LEAF_KEY + 1
        <4>1. T.node[x].max_size + 1 > MAX_LEAF_KEY
          BY <2>2, <1>24 DEF Overfull
        <4>2. T.node[x].max_size + 1 = MAX_LEAF_KEY + 1
          <5>1. T.node[x].max_size \in 1 .. MAX_LEAF_KEY
            BY <1>3
          <5> QED BY ONLY <4>1, <5>1, HalfFacts
        <4> QED BY <4>2, <1>3, <1>18, <1>24
      <3>6. \A n \in nodes : U.node[n].max_size <= MAX_LEAF_KEY \/ n = x
        BY <1>23
      <3> QED BY <3>1, <3>2, <3>3, <3>4, <3>5, <3>6, <1>1, <1>12, <1>21 DEF Pathed
    <2> QED BY <2>1, <2>2
  <1> QED BY <1>17, <1>22, <1>25

LEMMA NewNodeIs ==
  ASSUME Node \ nodes # {}
  PROVE  NewNode \in Node /\ NewNode \notin nodes
  BY DEF NewNode

(* The two halves of an overfull node b: c, which is e with its cleared    *)
(* pointers, and d.                                                        *)
HalvesOf(b, c, d, e) ==
    /\ e = [b EXCEPT !.key = [i \in Slot |-> IF i \in LEFT_KEY .. 2 * LEFT_KEY - 1
                                             THEN AllOnes ELSE b.key[i]]]
    /\ c = Cleared(e)
    /\ d = [left_most_ptr |-> b.ptr[SPLIT_POS + 1], max_size |-> RIGHT_KEY,
            key |-> [i \in Slot |-> IF i < RIGHT_KEY THEN b.key[LEFT_KEY + 1 + i] ELSE AllOnes],
            ptr |-> [i \in Slot |-> IF i < RIGHT_KEY THEN b.ptr[LEFT_KEY + 1 + i] ELSE Null]]

LEMMA HalfNodes ==
  ASSUME NEW b \in NodeSet, NEW c, NEW d, NEW e, b.max_size = MAX_LEAF_KEY + 1,
         HalvesOf(b, c, d, e)
  PROVE  /\ c \in NodeSet /\ d \in NodeSet /\ e \in NodeSet /\ e.max_size = MAX_LEAF_KEY + 1
         /\ c.max_size = LEFT_KEY /\ c.left_most_ptr = b.left_most_ptr
         /\ d.max_size = LEFT_KEY /\ d.left_most_ptr = b.ptr[LEFT_KEY]
         /\ \A j \in 0 .. LEFT_KEY - 1 :
               /\ c.key[j] = b.key[j] /\ c.ptr[j] = b.ptr[j]
               /\ d.key[j] = b.key[LEFT_KEY + 1 + j] /\ d.ptr[j] = b.ptr[LEFT_KEY + 1 + j]
  <1> DEFINE L == LEFT_KEY
  <1>1. /\ L \in Nat /\ L >= 1 /\ RIGHT_KEY = L /\ SPLIT_POS + 1 = L /\ MAX_LEAF_KEY = 2 * L
        /\ Slot = 0 .. 2 * L
    BY HalfFacts
  <1> HIDE DEF L
  <1>2. /\ L \in Slot /\ \A j \in Slot : j < L => L + 1 + j \in Slot
        /\ \A j \in 0 .. L - 1 : j \in Slot /\ j < L /\ ~(j \in L .. 2 * L - 1)
    BY ONLY <1>1
  <1>3. /\ b.key \in [Slot -> Key \cup {AllOnes}] /\ b.ptr \in [Slot -> Object \cup {Null}]
        /\ b.left_most_ptr \in Object \cup {Null}
    BY DEF NodeSet
  <1>4. PICK ek : ek = [i \in Slot |-> IF i \in L .. 2 * L - 1 THEN AllOnes ELSE b.key[i]]
    OBVIOUS
  <1>5. e = [left_most_ptr |-> b.left_most_ptr, max_size |-> b.max_size, key |-> ek, ptr |-> b.ptr]
    <2>1. e = [b EXCEPT !.key = ek]
      BY <1>4 DEF L, HalvesOf
    <2> QED BY <2>1 DEF NodeSet
  <1>6. e \in NodeSet
    <2>1. ek \in [Slot -> Key \cup {AllOnes}]
      BY <1>3, <1>4
    <2>2. b.max_size \in 0 .. MAX_LEAF_KEY + 1
      BY DEF NodeSet
    <2> QED BY <2>1, <2>2, <1>3, <1>5 DEF NodeSet
  <1>7. PICK cp : cp = [i \in Slot |-> IF i \in L .. 2 * L - 1 THEN Null ELSE e.ptr[i]]
    OBVIOUS
  <1>8. c = [left_most_ptr |-> e.left_most_ptr, max_size |-> L, key |-> e.key, ptr |-> cp]
    <2>1. cp = [i \in Slot |-> IF i \in LEFT_KEY .. 2 * LEFT_KEY - 1 THEN Null ELSE e.ptr[i]]
      BY <1>7 DEF L
    <2> QED BY <2>1, <1>6, ClearedIs DEF L, HalvesOf
  <1>9. L \in 0 .. MAX_LEAF_KEY + 1
    BY ONLY <1>1
  <1>10. c \in NodeSet
    <2>1. cp \in [Slot -> Object \cup {Null}]
      BY <1>3, <1>5, <1>7
    <2> QED BY <2>1, <1>3, <1>5, <1>6, <1>8, <1>9 DEF NodeSet
  <1>11. PICK dk, dp : /\ dk = [i \in Slot |-> IF i < L THEN b.key[L + 1 + i] ELSE AllOnes]
                       /\ dp = [i \in Slot |-> IF i < L THEN b.ptr[L + 1 + i] ELSE Null]
    OBVIOUS
  <1>12. d = [left_most_ptr |-> b.ptr[L], max_size |-> L, key |-> dk, ptr |-> dp]
    BY <1>1, <1>11 DEF L, HalvesOf
  <1>13. d \in NodeSet
    <2>1. dk \in [Slot -> Key \cup {AllOnes}]
      BY <1>2, <1>3, <1>11
    <2>2. dp \in [Slot -> Object \cup {Null}]
      BY <1>2, <1>3, <1>11
    <2>3. b.ptr[L] \in Object \cup {Null}
      BY <1>2, <1>3
    <2> QED BY <2>1, <2>2, <2>3, <1>9, <1>12 DEF NodeSet
  <1>14. ASSUME NEW j \in 0 .. L - 1
         PROVE  /\ c.key[j] = b.key[j] /\ c.ptr[j] = b.ptr[j]
                /\ d.key[j] = b.key[L + 1 + j] /\ d.ptr[j] = b.ptr[L + 1 + j]
    <2>1. j \in Slot /\ j < L /\ ~(j \in L .. 2 * L - 1)
      BY <1>2
    <2>2. c.key = ek /\ c.ptr = cp /\ e.ptr = b.ptr /\ d.key = dk /\ d.ptr = dp
      BY <1>5, <1>8, <1>12
    <2>3. ek[j] = b.key[j] /\ cp[j] = e.ptr[j]
      BY <2>1, <1>4, <1>7
    <2>4. dk[j] = b.key[L + 1 + j] /\ dp[j] = b.ptr[L + 1 + j]
      BY <2>1, <1>11
    <2> QED BY <2>2, <2>3, <2>4
  <1>15. /\ e.max_size = b.max_size /\ c.max_size = L /\ c.left_most_ptr = b.left_most_ptr
         /\ d.max_size = L /\ d.left_most_ptr = b.ptr[L]
    BY <1>5, <1>8, <1>12
  <1> QED BY <1>6, <1>10, <1>13, <1>14, <1>15 DEF L

LEMMA CopyRightTree ==
  ASSUME NEW T, Tree(T), Shown(T), Pathed(T), CopyRight
  PROVE  \E U : Tree(U) /\ Shown(U)' /\ Pathed(U)'
  <1>1. /\ smo.pc = "split" /\ Working /\ ~Shifting /\ ~Closing
        /\ Node \ nodes # {} /\ nodes' = nodes \cup {NewNode}
        /\ UNCHANGED <<root, temp_level, leaves, home, waiting>>
    BY DEF CopyRight, Working, Shifting, Closing
  <1>2. PICK x, r : x = This /\ r = NewNode
    OBVIOUS
  <1>3. r \in Node /\ r \notin nodes
    BY <1>1, <1>2, NewNodeIs
  <1>4. /\ smo \in SmoSet /\ temp_level \in Nat /\ smo.level \in 0 .. temp_level - 1
        /\ x \in nodes /\ x \in Obj(T) /\ x \in Node /\ T.ht[x] = temp_level - smo.level
        /\ node[x] \in NodeSet
    BY <1>1, <1>2, WorkFacts
  <1>5. /\ T.leaves = leaves /\ T.nodes = nodes /\ T.root = root /\ T.home = home
        /\ T.gaps = waiting /\ waiting \subseteq Split /\ node \in [Node -> NodeSet]
        /\ \A w \in waiting : home[w.key] \in {w.left, w.right}
        /\ T.ht[root] = temp_level /\ \A n \in nodes : T.node[n] = node[n]
    BY <1>1 DEF Shown, CurrentGaps
  <1>6. node[x].max_size = MAX_LEAF_KEY + 1
    BY <1>1, <1>2 DEF Pathed
  <1>7. PICK b, d, e : /\ b = node[x] /\ d = RightHalf(x)
                       /\ e = [b EXCEPT !.key = [i \in Slot |-> IF i \in LEFT_KEY .. 2 * LEFT_KEY - 1
                                                                THEN AllOnes ELSE b.key[i]]]
    OBVIOUS
  <1>8. node' = [node EXCEPT ![r] = d, ![x] = e]
    <2>1. r # x
      BY <1>3, <1>4
    <2>2. node' = [node EXCEPT
                  ![r] = RightHalf(x),
                  ![x].key = [i \in Slot |-> IF i \in LEFT_KEY .. 2 * LEFT_KEY - 1
                                                THEN AllOnes ELSE @[i]]]
      BY <1>2 DEF CopyRight
    <2> QED BY <2>1, <2>2, <1>3, <1>4, <1>5, <1>7
  <1>9. PICK c : c = Cleared(e)
    OBVIOUS
  <1>10. /\ c \in NodeSet /\ d \in NodeSet /\ e \in NodeSet /\ e.max_size = MAX_LEAF_KEY + 1
         /\ c.max_size = LEFT_KEY /\ c.left_most_ptr = b.left_most_ptr
         /\ d.max_size = LEFT_KEY /\ d.left_most_ptr = b.ptr[LEFT_KEY]
         /\ \A j \in 0 .. LEFT_KEY - 1 :
               /\ c.key[j] = b.key[j] /\ c.ptr[j] = b.ptr[j]
               /\ d.key[j] = b.key[LEFT_KEY + 1 + j] /\ d.ptr[j] = b.ptr[LEFT_KEY + 1 + j]
    <2>1. d = [left_most_ptr |-> b.ptr[SPLIT_POS + 1], max_size |-> RIGHT_KEY,
              key |-> [i \in Slot |-> IF i < RIGHT_KEY THEN b.key[LEFT_KEY + 1 + i] ELSE AllOnes],
              ptr |-> [i \in Slot |-> IF i < RIGHT_KEY THEN b.ptr[LEFT_KEY + 1 + i] ELSE Null]]
      BY <1>7 DEF RightHalf
    <2>2. b \in NodeSet /\ b.max_size = MAX_LEAF_KEY + 1
      BY <1>4, <1>6, <1>7
    <2>3. e = [b EXCEPT !.key = [i \in Slot |-> IF i \in LEFT_KEY .. 2 * LEFT_KEY - 1
                                               THEN AllOnes ELSE b.key[i]]]
      BY <1>7
    <2>4. HalvesOf(b, c, d, e)
      BY <2>1, <2>3, <1>9 DEF HalvesOf
    <2> QED BY <2>2, <2>4, HalfNodes
  <1>11. b.key[LEFT_KEY] \in Key
    <2>1. b = T.node[x] /\ x \in T.nodes /\ b.max_size = MAX_LEAF_KEY + 1
      BY <1>4, <1>5, <1>6, <1>7
    <2>3. \A i \in 0 .. T.node[x].max_size - 1 : T.node[x].key[i] \in Key
      BY <2>1, NodeFacts DEF Tree
    <2>4. T.node[x].max_size = MAX_LEAF_KEY + 1
      BY <2>1
    <2>5. LEFT_KEY \in 0 .. T.node[x].max_size - 1
      BY ONLY <2>4, HalfFacts
    <2> QED BY <2>1, <2>3, <2>5
  <1>12. PICK h : h = [key |-> smo.split.key, sep |-> b.key[LEFT_KEY], right |-> r, left |-> x]
    OBVIOUS
  <1>13. h \in GapSet /\ h.left = x /\ h.right = r /\ h.sep = b.key[LEFT_KEY]
    <2>1. smo.split.key \in Key
      BY <1>4 DEF SmoSet, Split
    <2> QED BY <2>1, <1>3, <1>4, <1>11, <1>12 DEF GapSet, Object
  <1>14. /\ smo' \in SmoSet /\ smo'.pc = "clear" /\ smo'.split = smo.split
         /\ smo'.path = smo.path /\ smo'.pos = smo.pos /\ smo'.level = smo.level
         /\ smo'.sep = b.key[LEFT_KEY] /\ smo'.right = r
    <2>1. PICK s \in Key : s = b.key[LEFT_KEY]
      BY <1>11
    <2>2. smo' = [smo EXCEPT !.pc = "clear", !.sep = s, !.right = r]
      <3>1. SPLIT_POS + 1 = LEFT_KEY
        BY HalfFacts
      <3>2. smo' = [smo EXCEPT !.pc = "clear", !.sep = node[x].key[SPLIT_POS + 1], !.right = r]
        BY <1>2 DEF CopyRight
      <3> QED BY <3>1, <3>2, <2>1, <1>7
    <2>3. r \in Object /\ "clear" \in SmoPC
      BY <1>3 DEF Object, SmoPC
    <2>4. smo' = [pc |-> "clear", split |-> smo.split, path |-> smo.path, pos |-> smo.pos,
                  level |-> smo.level, sep |-> s, right |-> r, i |-> smo.i]
      BY <2>2, <1>4 DEF SmoSet
    <2>5. /\ smo.split \in Split /\ smo.path \in [0 .. temp_level -> Object]
          /\ smo.pos \in [0 .. temp_level - 1 -> Int] /\ smo.level \in 0 .. temp_level - 1
          /\ smo.i \in Int
      BY <1>4 DEF SmoSet
    <2> QED BY <2>1, <2>3, <2>4, <2>5 DEF SmoSet
  <1>15. Working' /\ ~Shifting' /\ Closing' /\ (smo \in SmoSet)' /\ smo'.pc \in SmoPC /\ This' = x
    BY <1>1, <1>2, <1>14 DEF Working, Shifting, Closing, SmoSet, SmoPC, This
  <1>16. CurrentGaps' = {h}
    <2>1. Current' = h
      BY <1>12, <1>14, <1>15 DEF Current
    <2> QED BY <2>1, <1>14 DEF CurrentGaps
  <1>17. PICK U : U = [leaves |-> T.leaves, nodes |-> T.nodes \cup {r}, root |-> T.root,
                       home |-> T.home, node |-> [T.node EXCEPT ![r] = d, ![x] = c],
                       gaps |-> T.gaps \cup {h},
                       lo |-> [o \in Object |-> IF o = r THEN h.sep ELSE T.lo[o]],
                       hi |-> [o \in Object |-> IF o = r THEN T.hi[x]
                                                ELSE IF o = x THEN h.sep ELSE T.hi[o]],
                       xhi |-> [o \in Object |-> IF o = r THEN T.hi[x] ELSE T.xhi[o]],
                       ht |-> [o \in Object |-> IF o = r THEN T.ht[x] ELSE T.ht[o]]]
    OBVIOUS
  <1>18. /\ U.leaves = T.leaves /\ U.nodes = T.nodes \cup {r} /\ U.root = T.root
         /\ U.home = T.home /\ U.node = [T.node EXCEPT ![r] = d, ![x] = c]
         /\ U.gaps = T.gaps \cup {h}
         /\ \A o \in Object :
               /\ U.lo[o] = IF o = r THEN h.sep ELSE T.lo[o]
               /\ U.hi[o] = IF o = r THEN T.hi[x] ELSE IF o = x THEN h.sep ELSE T.hi[o]
               /\ U.xhi[o] = IF o = r THEN T.hi[x] ELSE T.xhi[o]
               /\ U.ht[o] = IF o = r THEN T.ht[x] ELSE T.ht[o]
    BY <1>17
  <1>19. T.node \in [Node -> NodeSet] /\ T.nodes \subseteq Node /\ T.leaves \subseteq Leaf
         /\ \A o \in Object : T.lo[o] \in Int /\ T.hi[o] \in Int /\ T.xhi[o] \in Int /\ T.ht[o] \in Nat
    BY DEF Tree, Sorts
  <1>20. r # x /\ r \notin Obj(T) /\ r \in Object /\ x \in Object
    BY <1>3, <1>4, <1>5, <1>19, HeapAssumption DEF Obj, Object
  <1>21. /\ U.node[x] = c /\ U.node[r] = d /\ U.node \in [Node -> NodeSet]
         /\ \A n \in T.nodes : n # x => U.node[n] = T.node[n]
    BY <1>3, <1>4, <1>5, <1>10, <1>18, <1>19, <1>20
  <1>22. \A o \in Obj(T) :
           /\ U.lo[o] = T.lo[o] /\ U.xhi[o] = T.xhi[o] /\ U.ht[o] = T.ht[o]
           /\ U.hi[o] = IF o = x THEN h.sep ELSE T.hi[o]
    <2>1. \A o \in Obj(T) : o \in Object /\ o # r
      BY <1>20, RangeFacts DEF Tree
    <2> QED BY <2>1, <1>18
  <1>23. Halves(T, U, h, x)
    <2>1. \A o \in Object : U.lo[o] \in Int /\ U.hi[o] \in Int /\ U.xhi[o] \in Int /\ U.ht[o] \in Nat
      <3>1. h.sep \in Key
        BY <1>11, <1>13
      <3>2. \A k \in Key : k \in Int
        BY KeyFacts
      <3>3. h.sep \in Int
        BY <3>1, <3>2
      <3> QED BY <3>3, <1>18, <1>19, <1>20
    <2>2. \A g \in T.gaps : x \notin {g.left, g.right}
      <3>1. \A g \in T.gaps : g.left \in Leaf /\ g.right \in Leaf
        BY <1>5 DEF Split
      <3> QED BY <3>1, <1>4, HeapAssumption
    <2>3. /\ U.lo[h.right] = h.sep /\ U.hi[h.right] = T.hi[x]
          /\ U.xhi[h.right] = T.hi[x] /\ U.ht[h.right] = T.ht[x]
      BY <1>13, <1>18, <1>20
    <2>4. b = T.node[x] /\ x \in T.nodes /\ b.max_size = MAX_LEAF_KEY + 1
      BY <1>4, <1>5, <1>6, <1>7
    <2>5. /\ U.node[x].max_size = LEFT_KEY /\ U.node[x].left_most_ptr = T.node[x].left_most_ptr
          /\ \A j \in 0 .. LEFT_KEY - 1 : /\ U.node[x].key[j] = T.node[x].key[j]
                                          /\ U.node[x].ptr[j] = T.node[x].ptr[j]
          /\ U.node[h.right].max_size = LEFT_KEY
          /\ U.node[h.right].left_most_ptr = T.node[x].ptr[LEFT_KEY]
          /\ \A j \in 0 .. LEFT_KEY - 1 :
                /\ U.node[h.right].key[j] = T.node[x].key[LEFT_KEY + 1 + j]
                /\ U.node[h.right].ptr[j] = T.node[x].ptr[LEFT_KEY + 1 + j]
      BY <2>4, <1>10, <1>13, <1>21
    <2>6. h.right \in Node \ T.nodes /\ h.sep = T.node[x].key[LEFT_KEY]
      BY <2>4, <1>3, <1>5, <1>13
    <2>7. U.nodes = T.nodes \cup {h.right}
      BY <1>13, <1>18
    <2> QED BY <2>1, <2>2, <2>3, <2>4, <2>5, <2>6, <2>7, <1>13, <1>18, <1>21, <1>22 DEF Halves
  <1>24. Tree(U)
    BY <1>23, HalvesTree
  <1>25. node'[x] = e /\ node'[r] = d /\ node' \in [Node -> NodeSet]
         /\ \A n \in nodes : n # x => node'[n] = node[n]
    BY <1>3, <1>4, <1>5, <1>8, <1>10, <1>19, <1>20
  <1>26. Shown(U)'
    <2>1. \A n \in nodes' : n = x \/ U.node[n] = node'[n]
      BY <1>1, <1>2, <1>5, <1>21, <1>25
    <2>2. U.node[x] = Cleared(node'[x]) /\ node'[x].max_size = MAX_LEAF_KEY + 1
      BY <1>9, <1>10, <1>21, <1>25
    <2>3. h \notin waiting
      <3>1. \A w \in waiting : w.right \in Leaf
        BY <1>5 DEF Split
      <3> QED BY <3>1, <1>3, <1>13, HeapAssumption
    <2>4. U.ht[root] = temp_level
      <3>1. root \in Obj(T)
        BY <1>5 DEF Tree, Sorts
      <3> QED BY <3>1, <1>5, <1>22
    <2> QED BY <2>1, <2>2, <2>3, <2>4, <1>1, <1>2, <1>4, <1>5, <1>14, <1>15, <1>16, <1>18, <1>25 DEF Shown
  <1>27. Pathed(U)'
    <2>1. /\ smo.path[0] = root
          /\ \A q \in 0 .. smo.level : smo.path[q] \in nodes /\ T.ht[smo.path[q]] = temp_level - q
          /\ \A q \in 0 .. smo.level :
               q < smo.level =>
                 /\ smo.pos[q] \in Entries(T.node[smo.path[q]])
                 /\ smo.path[q + 1] = ChildOf(T.node[smo.path[q]], smo.pos[q])
          /\ \A n \in nodes : n # x => T.node[n].max_size <= MAX_LEAF_KEY
      BY <1>1, <1>2 DEF Pathed
    <2>2. \A q \in 0 .. smo.level : q < smo.level => U.node[smo.path[q]] = T.node[smo.path[q]]
      <3>1. \A q \in 0 .. smo.level : q < smo.level => temp_level - q # temp_level - smo.level
        BY <1>4
      <3> QED BY <3>1, <2>1, <1>4, <1>5, <1>21
    <2>3. \A q \in 0 .. smo.level : U.ht[smo.path[q]] = temp_level - q /\ smo.path[q] \in nodes'
      BY <2>1, <1>1, <1>5, <1>22 DEF Obj
    <2>4. \A n \in nodes' : U.node[n].max_size <= MAX_LEAF_KEY
      <3>1. LEFT_KEY <= MAX_LEAF_KEY
        BY HalfFacts
      <3>2. U.node[x].max_size <= MAX_LEAF_KEY /\ U.node[r].max_size <= MAX_LEAF_KEY
        BY <3>1, <1>10, <1>21
      <3> QED BY <3>2, <2>1, <1>1, <1>2, <1>5, <1>21
    <2> QED BY <2>1, <2>2, <2>3, <2>4, <1>1, <1>14, <1>15 DEF Pathed
  <1> QED BY <1>24, <1>26, <1>27

(* A new root over the root and the right side of its gap: both ways to it. *)
LEMMA OverRoot ==
  ASSUME NEW T, Tree(T), Shown(T), NEW g, g \in T.gaps, g.left = root,
         Node \ nodes # {}, nodes' = nodes \cup {NewNode},
         node' = [node EXCEPT ![NewNode] = RootOver(root, g.sep, g.right)],
         root' = NewNode, UNCHANGED <<temp_level, leaves, home>>,
         waiting' = T.gaps \ {g}, waiting' \subseteq waiting, smo'.pc = "raise",
         T.ht[root] = temp_level, \A n \in nodes : T.node[n] = node[n],
         \A n \in nodes : T.node[n].max_size <= MAX_LEAF_KEY
  PROVE  \E U : Tree(U) /\ Shown(U)' /\ Pathed(U)'
  <1>1. PICK r, b, q : r = NewNode /\ b = RootOver(root, g.sep, g.right) /\ q = root
    OBVIOUS
  <1>2. r \in Node /\ r \notin nodes
    BY <1>1, NewNodeIs
  <1>3. /\ T.leaves = leaves /\ T.nodes = nodes /\ T.root = q /\ T.home = home
        /\ waiting \subseteq Split /\ node \in [Node -> NodeSet] /\ temp_level \in Nat
        /\ \A w \in waiting : home[w.key] \in {w.left, w.right}
    BY <1>1 DEF Shown
  <1>4. /\ T.node \in [Node -> NodeSet] /\ T.nodes \subseteq Node /\ T.leaves \subseteq Leaf
        /\ \A o \in Object : T.lo[o] \in Int /\ T.hi[o] \in Int /\ T.xhi[o] \in Int /\ T.ht[o] \in Nat
        /\ T.root \in Obj(T)
    BY DEF Tree, Sorts
  <1>5. g.sep \in Key /\ g.right \in Object /\ q \in Object /\ \A o \in Obj(T) : o \in Object
    <2>1. g.sep \in Key /\ g.right \in Obj(T)
      BY GapFacts
    <2>2. \A o \in Obj(T) : o \in Object
      BY RangeFacts DEF Tree
    <2> QED BY <2>1, <2>2, <1>3, <1>4
  <1>6. r \notin Obj(T) /\ r \in Object
    BY <1>2, <1>3, <1>4, HeapAssumption DEF Obj, Object
  <1>7. 0 \in Slot /\ 1 \in 0 .. MAX_LEAF_KEY + 1
    BY HalfFacts
  <1>8. /\ b \in NodeSet /\ b.max_size = 1 /\ b.left_most_ptr = q
        /\ b.key[0] = g.sep /\ b.ptr[0] = g.right
    <2>1. PICK bk, bp : /\ bk = [[i \in Slot |-> AllOnes] EXCEPT ![0] = g.sep]
                        /\ bp = [[i \in Slot |-> Null] EXCEPT ![0] = g.right]
      OBVIOUS
    <2>2. b = [left_most_ptr |-> q, max_size |-> 1, key |-> bk, ptr |-> bp]
      BY <2>1, <1>1 DEF RootOver, Blank
    <2>3. /\ bk \in [Slot -> Key \cup {AllOnes}] /\ bp \in [Slot -> Object \cup {Null}]
          /\ bk[0] = g.sep /\ bp[0] = g.right
      BY <2>1, <1>5, <1>7
    <2> QED BY <2>2, <2>3, <1>5, <1>7 DEF NodeSet
  <1>9. PICK U : U = [leaves |-> T.leaves, nodes |-> T.nodes \cup {r}, root |-> r,
                      home |-> T.home, node |-> [T.node EXCEPT ![r] = b], gaps |-> T.gaps \ {g},
                      lo |-> [o \in Object |-> IF o = r THEN -1 ELSE T.lo[o]],
                      hi |-> [o \in Object |-> IF o = r THEN AllOnes ELSE T.hi[o]],
                      xhi |-> [o \in Object |-> IF o = r THEN AllOnes
                                                ELSE IF o = g.left THEN T.hi[o] ELSE T.xhi[o]],
                      ht |-> [o \in Object |-> IF o = r THEN T.ht[q] + 1 ELSE T.ht[o]]]
    OBVIOUS
  <1>10. /\ U.leaves = T.leaves /\ U.nodes = T.nodes \cup {r} /\ U.root = r
         /\ U.home = T.home /\ U.node = [T.node EXCEPT ![r] = b] /\ U.gaps = T.gaps \ {g}
         /\ \A o \in Object :
               /\ U.lo[o] = IF o = r THEN -1 ELSE T.lo[o]
               /\ U.hi[o] = IF o = r THEN AllOnes ELSE T.hi[o]
               /\ U.xhi[o] = IF o = r THEN AllOnes ELSE IF o = g.left THEN T.hi[o] ELSE T.xhi[o]
               /\ U.ht[o] = IF o = r THEN T.ht[q] + 1 ELSE T.ht[o]
    BY <1>9
  <1>11. /\ U.node[r] = b /\ U.node \in [Node -> NodeSet]
         /\ \A n \in T.nodes : U.node[n] = T.node[n]
    BY <1>2, <1>3, <1>4, <1>8, <1>10
  <1>12. Closes(T, U, g)
    <2>1. \A o \in Obj(T) : o \in Object /\ o # r
      BY <1>5, <1>6
    <2> QED BY <2>1, <1>10 DEF Closes
  <1>13. Roots(T, U, g, r)
    <2>1. \A o \in Object : U.lo[o] \in Int /\ U.hi[o] \in Int /\ U.xhi[o] \in Int /\ U.ht[o] \in Nat
      <3>1. AllOnes \in Int /\ -1 \in Int
        BY KeyFacts
      <3>2. T.ht[q] + 1 \in Nat
        BY <1>4, <1>5
      <3> QED BY <3>1, <3>2, <1>4, <1>10
    <2>2. U.lo[r] = -1 /\ U.hi[r] = AllOnes /\ U.xhi[r] = AllOnes /\ U.ht[r] = T.ht[T.root] + 1
      BY <1>3, <1>6, <1>10
    <2> QED BY <2>1, <2>2, <1>1, <1>2, <1>3, <1>8, <1>10, <1>11, <1>12 DEF Roots
  <1>14. Tree(U)
    BY <1>13, RootTree
  <1>15. node' = [node EXCEPT ![r] = b]
    BY <1>1
  <1>16. node' \in [Node -> NodeSet] /\ node'[r] = b /\ \A n \in nodes : node'[n] = node[n]
    BY <1>2, <1>3, <1>4, <1>8, <1>15
  <1>17. \A n \in nodes' : U.node[n] = node'[n] /\ U.node[n].max_size <= MAX_LEAF_KEY
    <2>1. 1 <= MAX_LEAF_KEY
      BY HalfFacts
    <2> QED BY <2>1, <1>1, <1>3, <1>8, <1>11, <1>16
  <1>18. CurrentGaps' = {} /\ ~Working' /\ ~Shifting' /\ ~Closing' /\ smo'.pc \in SmoPC
    BY DEF CurrentGaps, Working, Shifting, Closing, SmoPC
  <1>19. Shown(U)'
    <2>1. U.ht[root'] = temp_level' + 1
      BY <1>1, <1>6, <1>10
    <2> QED BY <2>1, <1>1, <1>3, <1>10, <1>16, <1>17, <1>18 DEF Shown
  <1>20. Pathed(U)'
    BY <1>17, <1>18 DEF Pathed
  <1> QED BY <1>14, <1>19, <1>20

LEMMA GrowRootTree ==
  ASSUME NEW T, Tree(T), Shown(T), Pathed(T), GrowRoot
  PROVE  \E U : Tree(U) /\ Shown(U)' /\ Pathed(U)'
  <1>1. /\ smo.pc = "up" /\ smo.level = 0 /\ Working /\ ~Shifting /\ ~Closing
        /\ Node \ nodes # {} /\ nodes' = nodes \cup {NewNode}
        /\ node' = [node EXCEPT ![NewNode] = RootOver(root, smo.sep, smo.right)]
        /\ root' = NewNode /\ smo' = [smo EXCEPT !.pc = "raise"]
        /\ UNCHANGED <<temp_level, leaves, home, waiting>>
    BY DEF GrowRoot, Goto, Working, Shifting, Closing
  <1>2. smo \in SmoSet /\ smo.path[0] = root
    BY <1>1 DEF Pathed
  <1>3. PICK g : g = Current
    OBVIOUS
  <1>4. g.left = root /\ g.sep = smo.sep /\ g.right = smo.right
    BY <1>1, <1>2, <1>3 DEF Current, This
  <1>5. T.gaps = waiting \cup {g} /\ g \notin waiting
    BY <1>1, <1>3 DEF Shown, CurrentGaps
  <1>6. (\A n \in nodes : T.node[n] = node[n]) /\ T.ht[root] = temp_level
    BY <1>1 DEF Shown
  <1>7. \A n \in nodes : T.node[n].max_size <= MAX_LEAF_KEY
    BY <1>1 DEF Pathed
  <1>8. smo'.pc = "raise"
    BY <1>1, <1>2 DEF SmoSet
  <1>9. waiting' = T.gaps \ {g} /\ waiting' \subseteq waiting /\ g \in T.gaps
    BY <1>1, <1>5
  <1>10. node' = [node EXCEPT ![NewNode] = RootOver(root, g.sep, g.right)]
    BY <1>1, <1>4
  <1> QED BY <1>1, <1>4, <1>6, <1>7, <1>8, <1>9, <1>10, OverRoot

(* In a tree without inner nodes, only the root can be waiting for the     *)
(* first of them: a leaf right of a gap is led to by no separator, and the *)
(* left sides of all gaps are apart.                                       *)
LEMMA FirstGap ==
  ASSUME NEW T, Tree(T), NEW g \in T.gaps, T.ht[T.root] = 0, g.sep < AllOnes
  PROVE  g.left = T.root
  <1> DEFINE q == T.root
             l == g.left
  <1>1. /\ l \in Obj(T) /\ g.right \in Obj(T) /\ g.sep \in Int
        /\ T.hi[l] = g.sep /\ T.lo[l] < g.sep
        /\ \A h \in T.gaps \ {g} : {g.left, g.right} \cap {h.left, h.right} = {}
    BY GapFacts
  <1>2. q \in Obj(T) /\ T.lo[q] = -1 /\ T.xhi[q] = AllOnes /\ \A o \in Obj(T) : T.ht[o] <= T.ht[q]
    BY DEF Tree, Sorts, Top
  <1>3. \A o \in Obj(T) : /\ T.lo[o] \in Int /\ T.hi[o] \in Int /\ T.xhi[o] \in Int /\ T.ht[o] \in Nat
                          /\ T.lo[o] < T.hi[o] /\ T.hi[o] <= T.xhi[o] /\ -1 <= T.lo[o]
    BY RangeFacts DEF Tree
  <1>4. \A o \in Obj(T) : T.ht[o] = 0
    BY <1>2, <1>3
  <1>5. AllOnes \in Int
    BY KeyFacts
  <1> HIDE DEF q, l
  <1> SUFFICES ASSUME l # q PROVE FALSE
    BY DEF q, l
  <1>6. T.hi[q] <= T.lo[l] \/ T.hi[l] <= T.lo[q]
    BY <1>1, <1>2, <1>4 DEF Tree, Apart
  <1>7. T.hi[q] <= T.lo[l]
    BY <1>1, <1>2, <1>3, <1>6
  <1>8. T.hi[q] # T.xhi[q]
    BY <1>1, <1>2, <1>3, <1>5, <1>7
  <1>9. PICK h \in T.gaps : h.left = q
    BY <1>2, <1>8 DEF Tree, Gaps
  <1>10. h # g
    BY <1>9 DEF l
  <1>11. h.right \in Obj(T) /\ T.lo[h.right] = T.hi[q] /\ T.hi[h.right] = AllOnes
    BY <1>2, <1>9 DEF Tree, Gaps
  <1>12. h.right # l
    BY <1>1, <1>10 DEF l
  <1>13. T.hi[h.right] <= T.lo[l] \/ T.hi[l] <= T.lo[h.right]
    BY <1>1, <1>4, <1>11, <1>12 DEF Tree, Apart
  <1> QED BY <1>1, <1>2, <1>3, <1>5, <1>7, <1>11, <1>13

LEMMA NewRootTree ==
  ASSUME NEW T, Tree(T), Shown(T), Pathed(T), NEW w, NewRoot(w)
  PROVE  \E U : Tree(U) /\ Shown(U)' /\ Pathed(U)'
  <1>1. /\ smo.pc = "idle" /\ w \in waiting /\ temp_level = 0
        /\ ~Working /\ ~Shifting /\ ~Closing
        /\ Node \ nodes # {} /\ nodes' = nodes \cup {NewNode}
        /\ node' = [node EXCEPT ![NewNode] = RootOver(w.left, w.sep, w.right)]
        /\ root' = NewNode /\ smo' = [pc |-> "raise", split |-> w]
        /\ waiting' = waiting \ {w}
        /\ UNCHANGED <<temp_level, leaves, home>>
    BY DEF NewRoot, Working, Shifting, Closing
  <1>2. T.gaps = waiting /\ T.root = root /\ T.ht[root] = temp_level
    BY <1>1 DEF Shown, CurrentGaps
  <1>3. w \in T.gaps /\ w.sep < AllOnes
    <2>1. w \in T.gaps
      BY <1>1, <1>2
    <2>2. w.sep \in Key
      BY <2>1, GapFacts
    <2> QED BY <2>1, <2>2, KeyFacts
  <1>4. w.left = root
    BY <1>1, <1>2, <1>3, FirstGap
  <1>5. \A n \in nodes : T.node[n] = node[n]
    BY <1>1 DEF Shown
  <1>6. \A n \in nodes : T.node[n].max_size <= MAX_LEAF_KEY
    BY <1>1 DEF Pathed
  <1>7. smo'.pc = "raise" /\ waiting' = T.gaps \ {w} /\ waiting' \subseteq waiting
    BY <1>1, <1>2
  <1>8. node' = [node EXCEPT ![NewNode] = RootOver(root, w.sep, w.right)]
    BY <1>1, <1>4
  <1> QED BY <1>1, <1>2, <1>3, <1>4, <1>5, <1>6, <1>7, <1>8, OverRoot

(* A leaf that is split is at no gap: the guard names the leaves of those  *)
(* that wait and of the one at work, and higher up gaps are between nodes. *)
LEMMA NoGapAt ==
  ASSUME NEW T, Tree(T), Shown(T), Pathed(T), NEW l \in leaves,
         \A w \in waiting : l \notin {w.left, w.right},
         smo.pc # "idle" => l \notin {smo.split.left, smo.split.right},
         NEW g \in T.gaps
  PROVE  l \notin {g.left, g.right}
  <1>1. T.gaps = waiting \cup CurrentGaps /\ T.leaves = leaves
    BY DEF Shown
  <1>2. CASE g \in waiting
    BY <1>2
  <1>3. CASE g \in CurrentGaps
    <2>1. g = Current /\ Working /\ smo.pc \notin {"idle", "raise", "split"}
      BY <1>3 DEF CurrentGaps, Working
    <2>2. CASE Shifting /\ smo.level = temp_level - 1
      BY <2>1, <2>2 DEF Pathed, Working
    <2>3. CASE ~(Shifting /\ smo.level = temp_level - 1)
      <3>1. /\ temp_level \in Nat /\ smo.level \in 0 .. temp_level - 1 /\ This \in nodes
            /\ T.ht[This] = temp_level - smo.level
            /\ Shifting => /\ ThisPos \in Entries(T.node[This])
                           /\ smo.path[smo.level + 1] = ChildOf(T.node[This], ThisPos)
        BY <2>1, WorkFacts
      <3>2. T.ht[g.left] = T.ht[g.right] /\ g.left \in Obj(T)
        BY GapFacts
      <3>3. T.ht[g.left] \in Nat
        BY <3>2, RangeFacts DEF Tree
      <3>4. T.ht[g.left] # 0
        <4>1. CASE Shifting
          <5>1. g.left = ChildOf(T.node[This], ThisPos)
            BY <2>1, <3>1, <4>1 DEF Current
          <5>2. T.ht[This] = T.ht[g.left] + 1
            <6>1. This \in T.nodes
              BY <3>1 DEF Shown
            <6> QED BY <6>1, <5>1, <3>1, <4>1, Inside DEF Tree
          <5>3. smo.level # temp_level - 1
            BY <2>3, <4>1
          <5> QED BY <5>2, <5>3, <3>1, <3>3
        <4>2. CASE ~Shifting
          <5>1. g.left = This
            BY <2>1, <4>2 DEF Current
          <5> QED BY <5>1, <3>1
        <4> QED BY <4>1, <4>2
      <3>5. T.ht[l] = 0
        BY <1>1 DEF Tree, Homes
      <3> QED BY <3>2, <3>4, <3>5
    <2> QED BY <2>2, <2>3
  <1> QED BY <1>1, <1>2, <1>3

LEMMA SplitLeafTree ==
  ASSUME NEW T, Tree(T), Shown(T), Pathed(T), NEW k \in Key, NEW sep \in Key,
         SplitLeaf(k, sep)
  PROVE  \E U : Tree(U) /\ Shown(U)' /\ Pathed(U)'
  <1>1. PICK l, n : l = home[k] /\ n = CHOOSE m \in Leaf \ leaves : TRUE
    OBVIOUS
  <1>2. PICK w : w = [key |-> k, sep |-> sep, left |-> l, right |-> n]
    OBVIOUS
  <1>3. w.key = k /\ w.sep = sep /\ w.left = l /\ w.right = n
    BY <1>2
  <1>4. /\ \A v \in waiting : l \notin {v.left, v.right}
        /\ smo.pc # "idle" => l \notin {smo.split.left, smo.split.right}
        /\ home[sep] = l /\ \E j \in Key : home[j] = l /\ j > sep
        /\ leaves' = leaves \cup {n}
        /\ home' = [j \in Key |-> IF home[j] = l /\ j > sep THEN n ELSE home[j]]
        /\ waiting' = waiting \cup {w}
        /\ UNCHANGED <<node, nodes, root, temp_level, smo>>
    BY <1>1, <1>2 DEF SplitLeaf
  <1>5. n \in Leaf /\ n \notin leaves
    <2>1. Leaf \ leaves # {}
      BY DEF SplitLeaf
    <2> QED BY <2>1, <1>1
  <1>6. /\ T.leaves = leaves /\ T.nodes = nodes /\ T.root = root /\ T.home = home
        /\ T.gaps = waiting \cup CurrentGaps /\ CurrentGaps \cap waiting = {}
        /\ waiting \subseteq Split /\ \A v \in waiting : home[v.key] \in {v.left, v.right}
    BY DEF Shown
  <1>7. /\ T.home \in [Key -> T.leaves] /\ T.leaves \subseteq Leaf /\ T.nodes \subseteq Node
        /\ T.root \in Obj(T)
    BY DEF Tree, Sorts
  <1>8. l \in leaves /\ l \in Leaf
    BY <1>1, <1>6, <1>7
  <1>9. w \in Split /\ w \in GapSet
    BY <1>2, <1>5, <1>8 DEF Split, GapSet, Object
  <1>10. n \notin Obj(T)
    BY <1>5, <1>6, <1>7, HeapAssumption DEF Obj
  <1>11. \A g \in T.gaps : l \notin {g.left, g.right}
    BY <1>4, <1>8, NoGapAt
  <1>12. PICK U : U = [leaves |-> leaves \cup {n}, nodes |-> nodes, root |-> root,
                       home |-> home', node |-> T.node, gaps |-> T.gaps \cup {w},
                       lo |-> [o \in Object |-> IF o = n THEN sep ELSE T.lo[o]],
                       hi |-> [o \in Object |-> IF o = n THEN T.hi[l]
                                                ELSE IF o = l THEN sep ELSE T.hi[o]],
                       xhi |-> [o \in Object |-> IF o = n THEN T.hi[l] ELSE T.xhi[o]],
                       ht |-> [o \in Object |-> IF o = n THEN 0 ELSE T.ht[o]]]
    OBVIOUS
  <1>13. /\ U.leaves = leaves \cup {n} /\ U.nodes = nodes /\ U.root = root
         /\ U.home = home' /\ U.node = T.node /\ U.gaps = T.gaps \cup {w}
         /\ \A o \in Object : /\ U.lo[o] = IF o = n THEN sep ELSE T.lo[o]
                              /\ U.hi[o] = IF o = n THEN T.hi[l]
                                           ELSE IF o = l THEN sep ELSE T.hi[o]
                              /\ U.xhi[o] = IF o = n THEN T.hi[l] ELSE T.xhi[o]
                              /\ U.ht[o] = IF o = n THEN 0 ELSE T.ht[o]
    BY <1>12
  <1>14. LeafSplits(T, U, w)
    <2>1. U.home = [j \in Key |-> IF T.home[j] = w.left /\ j > w.sep THEN w.right ELSE T.home[j]]
      BY <1>3, <1>4, <1>6, <1>13
    <2>2. T.home[w.sep] = w.left /\ \E j \in Key : T.home[j] = w.left /\ j > w.sep
      BY <1>3, <1>4, <1>6
    <2>3. w \in GapSet /\ w.left \in T.leaves /\ w.right \in Leaf \ T.leaves
      BY <1>3, <1>5, <1>6, <1>8, <1>9
    <2> QED BY <2>1, <2>2, <2>3, <1>3, <1>6, <1>11, <1>13 DEF LeafSplits
  <1>15. Tree(U)
    BY <1>14, LeafSplitTree
  <1>16. \A o \in Obj(T) : U.ht[o] = T.ht[o]
    BY <1>10, <1>13, RangeFacts DEF Tree
  <1>17. This' = This /\ ThisPos' = ThisPos /\ Current' = Current /\ CurrentGaps' = CurrentGaps
    BY <1>4 DEF This, ThisPos, Current, CurrentGaps, Shifting
  <1>18. Shown(U)'
    <2>1. w \notin CurrentGaps /\ w \notin waiting
      <3>1. \A g \in T.gaps : g.right \in Obj(T)
        BY GapFacts
      <3> QED BY <3>1, <1>3, <1>6, <1>10
    <2>2. \A v \in waiting' : home'[v.key] \in {v.left, v.right}
      <3>1. ASSUME NEW v \in waiting PROVE home'[v.key] \in {v.left, v.right}
        <4>1. v.key \in Key
          BY <1>6 DEF Split
        <4>2. home[v.key] # l
          BY <1>4, <1>6
        <4> QED BY <4>1, <4>2, <1>4, <1>6
      <3>2. home'[w.key] \in {w.left, w.right}
        BY <1>1, <1>3, <1>4
      <3> QED BY <3>1, <3>2, <1>4
    <2>3. waiting' \subseteq Split /\ U.gaps = waiting' \cup CurrentGaps
          /\ CurrentGaps \cap waiting' = {}
      BY <1>4, <1>6, <1>9, <1>13, <2>1
    <2>4. U.ht[root] = T.ht[root]
      BY <1>6, <1>7, <1>16
    <2>5. /\ node \in [Node -> NodeSet] /\ temp_level \in Nat
          /\ T.ht[root] = IF smo.pc = "raise" THEN temp_level + 1 ELSE temp_level
          /\ \A m \in nodes : (Working /\ m = This /\ (Shifting \/ Closing)) \/ T.node[m] = node[m]
          /\ Shifting => Moved(T)
          /\ Closing => /\ T.node[This] = Cleared(node[This])
                        /\ node[This].max_size = MAX_LEAF_KEY + 1
          /\ smo.pc = "shrink" => T.node[This].ptr = node[This].ptr
      BY DEF Shown
    <2>6. /\ Working' = Working /\ Shifting' = Shifting /\ Closing' = Closing
      BY <1>4 DEF Working, Shifting, Closing
    <2>7. Moved(T) => Moved(U)'
      BY <1>4, <1>13, <1>17 DEF Moved
    <2> QED BY <2>2, <2>3, <2>4, <2>5, <2>6, <2>7, <1>4, <1>13, <1>17 DEF Shown
  <1>19. Pathed(U)'
    <2>1. /\ smo.pc \in SmoPC
          /\ \A m \in nodes : T.node[m].max_size <= MAX_LEAF_KEY \/ (smo.pc = "split" /\ m = This)
          /\ smo.pc = "split" => node[This].max_size = MAX_LEAF_KEY + 1
      BY DEF Pathed
    <2>2. ASSUME Working
          PROVE  /\ (smo \in SmoSet)'
                 /\ smo.path[0] = root
                 /\ \A d \in 0 .. smo.level : /\ smo.path[d] \in nodes
                                              /\ U.ht[smo.path[d]] = temp_level - d
                 /\ \A d \in 0 .. smo.level :
                      (d < smo.level \/ Shifting) =>
                        /\ smo.pos[d] \in Entries(U.node[smo.path[d]])
                        /\ smo.path[d + 1] = ChildOf(U.node[smo.path[d]], smo.pos[d])
                 /\ Shifting /\ smo.level = temp_level - 1 => Current = smo.split
      <3>1. /\ smo \in SmoSet /\ smo.path[0] = root
            /\ \A d \in 0 .. smo.level : smo.path[d] \in nodes /\ T.ht[smo.path[d]] = temp_level - d
            /\ \A d \in 0 .. smo.level :
                 (d < smo.level \/ Shifting) =>
                   /\ smo.pos[d] \in Entries(T.node[smo.path[d]])
                   /\ smo.path[d + 1] = ChildOf(T.node[smo.path[d]], smo.pos[d])
            /\ Shifting /\ smo.level = temp_level - 1 => Current = smo.split
        BY <2>2 DEF Pathed
      <3>2. (smo \in SmoSet)'
        BY <3>1, <1>4 DEF SmoSet
      <3>3. \A m \in nodes : U.ht[m] = T.ht[m]
        BY <1>6, <1>16 DEF Obj
      <3>4. \A d \in 0 .. smo.level : smo.path[d] \in nodes /\ U.ht[smo.path[d]] = temp_level - d
        BY <3>1, <3>3
      <3>5. U.node = T.node
        BY <1>13
      <3>6. \A d \in 0 .. smo.level :
              (d < smo.level \/ Shifting) =>
                /\ smo.pos[d] \in Entries(U.node[smo.path[d]])
                /\ smo.path[d + 1] = ChildOf(U.node[smo.path[d]], smo.pos[d])
        BY <3>1, <3>5
      <3>7. smo.path[0] = root /\ (Shifting /\ smo.level = temp_level - 1 => Current = smo.split)
        BY <3>1
      <3> QED BY ONLY <3>2, <3>4, <3>6, <3>7
    <2>3. Working' = Working /\ Shifting' = Shifting
      BY <1>4 DEF Working, Shifting
    <2> QED BY <2>1, <2>2, <2>3, <1>4, <1>13, <1>17 DEF Pathed
  <1> QED BY <1>15, <1>18, <1>19

----------------------------------------------------------------------------
(* find_insert: where the search of a node stops, and the path it takes.   *)

LEMMA NodePosFacts ==
  ASSUME NEW n, NEW k \in Int, node[n].max_size \in Nat, node[n].max_size >= 1,
         \A i \in 0 .. node[n].max_size - 1 : node[n].key[i] \in Int
  PROVE  LET p == NodePos(n, k) IN
         /\ p \in Entries(node[n])
         /\ p # -1 => node[n].key[p] < k
         /\ p # node[n].max_size - 1 => k <= node[n].key[p + 1]
  <1>1. PICK m, key : m = node[n].max_size /\ key = node[n].key
    OBVIOUS
  <1>2. m \in Nat /\ m >= 1 /\ \A i \in 0 .. m - 1 : key[i] \in Int
    BY <1>1
  <1> DEFINE S == {j \in 0 .. m - 1 : StopsAt(n, k, j)}
  <1>3. \A j : StopsAt(n, k, j) <=> \/ j = 0 /\ key[0] >= k
                                    \/ j = m - 1
                                    \/ key[j] < k /\ k <= key[j + 1]
    BY <1>1 DEF StopsAt
  <1>4. m - 1 \in S /\ S \in SUBSET Nat
    BY <1>2, <1>3
  <1>5. PICK i : i = Min(S)
    OBVIOUS
  <1>6. i \in S /\ \A y \in S : i <= y
    BY <1>4, <1>5, LowestOf
  <1>7. i \in 0 .. m - 1 /\ StopsAt(n, k, i)
    BY <1>6
  <1>8. NodePos(n, k) = IF i = 0 /\ key[0] >= k THEN -1 ELSE i
    BY <1>1, <1>5 DEF NodePos
  <1>9. CASE i = 0 /\ key[0] >= k
    <2>1. NodePos(n, k) = -1 /\ k <= key[0]
      <3>1. key[0] \in Int
        BY <1>2
      <3> QED BY <1>8, <1>9, <3>1
    <2>2. -1 \in -1 .. m - 1 /\ -1 # m - 1 /\ (-1) + 1 = 0
      BY <1>2
    <2> QED BY <2>1, <2>2, <1>1 DEF Entries
  <1>10. CASE ~(i = 0 /\ key[0] >= k)
    <2>1. NodePos(n, k) = i
      BY <1>8, <1>10
    <2>2. key[i] < k
      <3>1. CASE i # m - 1
        BY <1>3, <1>7, <1>10, <3>1
      <3>2. CASE i = m - 1
        <4> DEFINE R == {j \in 0 .. i : key[j] >= k}
        <4> SUFFICES ASSUME ~ (key[i] < k) PROVE FALSE
          OBVIOUS
        <4>1. i \in R /\ R \in SUBSET Nat
          BY <1>2, <1>7
        <4>2. PICK q : q = Min(R)
          OBVIOUS
        <4>3. q \in 0 .. i /\ key[q] >= k /\ \A y \in R : q <= y
          BY <4>1, <4>2, LowestOf
        <4>4. CASE q = 0
          <5>1. 0 \in S
            BY <1>2, <1>3, <4>3, <4>4
          <5>2. i <= 0
            BY <1>6, <5>1
          <5> QED BY <1>7, <1>10, <4>3, <4>4, <5>2
        <4>5. CASE q # 0
          <5>1. PICK r \in 0 .. m - 1 : q = r + 1 /\ r < i
            <6>1. q - 1 \in 0 .. m - 1 /\ q = (q - 1) + 1 /\ q - 1 < i
              BY ONLY <1>2, <1>7, <4>3, <4>5
            <6> QED BY <6>1
          <5>2. r \notin R /\ r \in 0 .. i
            BY <4>3, <5>1, <1>7
          <5>3. key[r] < k
            BY <5>2, <5>1, <1>2
          <5>4. k <= key[r + 1]
            BY <4>3, <5>1, <1>2, <1>7
          <5>5. r \in S
            BY <1>3, <5>1, <5>3, <5>4
          <5> QED BY <1>6, <1>7, <5>1, <5>5
        <4> QED BY <4>4, <4>5
      <3> QED BY <3>1, <3>2
    <2>3. i # m - 1 => k <= key[i + 1]
      BY <1>3, <1>7, <1>10
    <2>4. i \in -1 .. m - 1 /\ i # -1
      BY <1>7
    <2> QED BY <2>1, <2>2, <2>3, <2>4, <1>1 DEF Entries
  <1> QED BY <1>9, <1>10

(* The path is defined by recursion: there is a function that follows the  *)
(* pointers to any level, so the one chosen does.                          *)
LEMMA PathExists ==
  ASSUME NEW k, NEW d \in Nat
  PROVE  \E f : f = [l \in 0 .. d |-> IF l = 0 THEN root ELSE Child(f[l - 1], k)]
  <1> DEFINE Way(f, e) == f = [l \in 0 .. e |-> IF l = 0 THEN root ELSE Child(f[l - 1], k)]
             Reached(e) == \E f : Way(f, e)
             S == {e \in Nat : ~ Reached(e)}
  <1> SUFFICES ASSUME S # {} PROVE FALSE
    OBVIOUS
  <1>1. Min(S) \in S /\ \A y \in S : Min(S) <= y
    BY LowestOf
  <1>2. PICK m : m = Min(S)
    OBVIOUS
  <1> HIDE DEF Reached
  <1>3. m \in Nat /\ ~ Reached(m) /\ \A e \in Nat : e < m => Reached(e)
    BY <1>1, <1>2
  <1> USE DEF Reached
  <1>4. CASE m = 0
    <2>1. PICK f : f = [l \in {0} |-> root]
      OBVIOUS
    <2>2. f = [l \in 0 .. 0 |-> IF l = 0 THEN root ELSE Child(f[l - 1], k)]
      BY <2>1
    <2> QED BY <2>2, <1>3, <1>4
  <1>5. CASE m # 0
    <2>1. PICK e \in Nat : m = e + 1
      BY <1>3, <1>5
    <2>2. PICK f : Way(f, e)
      BY <1>3, <2>1
    <2>3. PICK g : g = [l \in 0 .. m |-> IF l = 0 THEN root ELSE Child(f[l - 1], k)]
      OBVIOUS
    <2>4. \A l \in 0 .. e : f[l] = IF l = 0 THEN root ELSE Child(f[l - 1], k)
      BY <2>2
    <2>5. \A l \in 0 .. e : g[l] = f[l]
      BY <2>1, <2>3, <2>4
    <2>6. \A l \in 0 .. m : l # 0 => g[l] = Child(g[l - 1], k)
      <3> SUFFICES ASSUME NEW l \in 0 .. m, l # 0 PROVE g[l] = Child(g[l - 1], k)
        OBVIOUS
      <3>1. l - 1 \in 0 .. e
        BY <2>1
      <3> QED BY <3>1, <2>3, <2>5
    <2>7. Way(g, m)
      BY <2>3, <2>6
    <2> QED BY <2>7, <1>3
  <1> QED BY <1>4, <1>5

LEMMA PathIs ==
  ASSUME NEW k, temp_level \in Nat
  PROVE  Path(k) = [l \in 0 .. temp_level |-> IF l = 0 THEN root ELSE Child(Path(k)[l - 1], k)]
  <1> DEFINE P(g) == g = [l \in 0 .. temp_level |-> IF l = 0 THEN root ELSE Child(g[l - 1], k)]
  <1>1. PICK f : P(f)
    BY PathExists
  <1>2. Path(k) = CHOOSE g : P(g)
    BY DEF Path
  <1> HIDE DEF P
  <1>3. P(Path(k))
    BY <1>1, <1>2, Zenon
  <1> QED BY <1>3 DEF P

(* One step down the path: to the child whose interval has the key.        *)
LEMMA StepDown ==
  ASSUME NEW T, Tree(T), Shown(T), Pathed(T), smo.pc = "idle", NEW k \in Key,
         NEW n \in Obj(T), T.ht[n] # 0, T.lo[n] < k, k <= T.xhi[n]
  PROVE  LET c == Child(n, k) IN
         /\ n \in nodes /\ T.node[n] = node[n] /\ NodePos(n, k) \in Entries(T.node[n])
         /\ c = ChildOf(T.node[n], NodePos(n, k))
         /\ c \in Obj(T) /\ T.ht[n] = T.ht[c] + 1 /\ T.lo[c] < k /\ k <= T.xhi[c]
         /\ \A g \in T.gaps : g.right # c
  <1>1. T.nodes = nodes /\ T.gaps = waiting /\ waiting \subseteq Split /\ ~Working
    BY DEF Shown, CurrentGaps, Working
  <1>2. n \in T.nodes
    BY DEF Tree, Homes, Obj
  <1>3. T.node[n] = node[n]
    BY <1>1, <1>2 DEF Shown
  <1>4. /\ n \in Node /\ T.node[n].max_size \in 1 .. MAX_LEAF_KEY + 1
        /\ \A i \in 0 .. T.node[n].max_size - 1 : T.node[n].key[i] \in Int
    BY <1>2, NodeFacts DEF Tree
  <1>5. node[n].max_size \in Nat /\ node[n].max_size >= 1
    BY <1>3, <1>4, HalfFacts
  <1>6. k \in Int
    BY KeyFacts
  <1>7. PICK p : p = NodePos(n, k)
    OBVIOUS
  <1>8. /\ p \in Entries(node[n])
        /\ p # -1 => node[n].key[p] < k
        /\ p # node[n].max_size - 1 => k <= node[n].key[p + 1]
    BY <1>3, <1>4, <1>5, <1>6, <1>7, NodePosFacts
  <1>9. T.xhi[n] = T.hi[n]
    <2>1. \A g \in T.gaps : g.left # n
      BY <1>1, <1>4, HeapAssumption DEF Split
    <2> QED BY <2>1 DEF Tree, Gaps
  <1>10. PICK c : c = Child(n, k)
    OBVIOUS
  <1>11. c = ChildOf(T.node[n], p)
    BY <1>3, <1>7, <1>10 DEF Child, ChildOf
  <1>12. /\ c \in Obj(T) /\ T.ht[n] = T.ht[c] + 1
         /\ T.lo[c] = IF p = -1 THEN T.lo[n] ELSE T.node[n].key[p]
         /\ T.xhi[c] = IF p = T.node[n].max_size - 1 THEN T.hi[n] ELSE T.node[n].key[p + 1]
         /\ \A g \in T.gaps : g.right # c
    BY <1>2, <1>3, <1>8, <1>11 DEF Tree, Children
  <1>13. T.lo[c] < k /\ k <= T.xhi[c]
    BY <1>3, <1>8, <1>9, <1>12
  <1> QED BY <1>1, <1>2, <1>3, <1>7, <1>8, <1>10, <1>11, <1>12, <1>13

(* Every level of the path is at the height that is left, and has the key  *)
(* in its interval.                                                        *)
OnWay(T, k, d) ==
    LET o == Path(k)[d] IN
    /\ o \in Obj(T) /\ T.ht[o] = temp_level - d /\ T.lo[o] < k /\ k <= T.xhi[o]
    /\ \A g \in T.gaps : g.right # o

LEMMA Route ==
  ASSUME NEW T, Tree(T), Shown(T), Pathed(T), smo.pc = "idle", NEW k \in Key
  PROVE  /\ Path(k)[0] = root
         /\ \A d \in 0 .. temp_level : OnWay(T, k, d)
         /\ \A d \in 0 .. temp_level - 1 :
               /\ Path(k)[d] \in nodes /\ T.node[Path(k)[d]] = node[Path(k)[d]]
               /\ NodePos(Path(k)[d], k) \in Entries(T.node[Path(k)[d]])
               /\ Path(k)[d + 1] = ChildOf(T.node[Path(k)[d]], NodePos(Path(k)[d], k))
  <1>1. temp_level \in Nat /\ T.root = root /\ T.ht[root] = temp_level
    BY DEF Shown
  <1>2. Path(k)[0] = root /\ \A d \in 0 .. temp_level : d # 0 => Path(k)[d] = Child(Path(k)[d - 1], k)
    BY <1>1, PathIs
  <1>3. k \in Nat /\ k < AllOnes /\ AllOnes \in Nat
    BY KeyFacts
  <1>4. \A d \in 0 .. temp_level : OnWay(T, k, d)
    <2> DEFINE S == {d \in 0 .. temp_level : ~ OnWay(T, k, d)}
    <2> SUFFICES ASSUME S # {} PROVE FALSE
      OBVIOUS
    <2>1. S \in SUBSET Nat
      BY <1>1
    <2>2. PICK d : d = Min(S)
      OBVIOUS
    <2>3. d \in 0 .. temp_level /\ ~ OnWay(T, k, d) /\ \A e \in 0 .. temp_level : e < d => OnWay(T, k, e)
      <3>1. d \in S /\ \A y \in S : d <= y
        BY <2>1, <2>2, LowestOf
      <3> QED BY <3>1, <2>1
    <2>4. CASE d = 0
      <3>1. T.root \in Obj(T) /\ T.lo[T.root] = -1 /\ T.xhi[T.root] = AllOnes
            /\ \A g \in T.gaps : g.right # T.root
        BY DEF Tree, Sorts, Top, Gaps
      <3>2. -1 < k /\ k <= AllOnes /\ temp_level - 0 = temp_level
        BY <1>1, <1>3
      <3> QED BY <1>1, <1>2, <2>3, <2>4, <3>1, <3>2 DEF OnWay
    <2>5. CASE d # 0
      <3>1. PICK e \in 0 .. temp_level : d = e + 1
        <4>1. d - 1 \in 0 .. temp_level /\ d = (d - 1) + 1
          BY ONLY <1>1, <2>3, <2>5
        <4> QED BY <4>1
      <3>2. PICK n : n = Path(k)[e]
        OBVIOUS
      <3>3. OnWay(T, k, e)
        BY <2>3, <3>1, <1>1
      <3>4. n \in Obj(T) /\ T.ht[n] = temp_level - e /\ T.lo[n] < k /\ k <= T.xhi[n]
        BY <3>2, <3>3 DEF OnWay
      <3>5. T.ht[n] # 0 /\ d - 1 = e
        BY <3>4, <3>1, <2>3, <1>1
      <3>6. PICK c : c = Child(n, k)
        OBVIOUS
      <3>7. /\ c \in Obj(T) /\ T.ht[n] = T.ht[c] + 1 /\ T.lo[c] < k /\ k <= T.xhi[c]
            /\ \A g \in T.gaps : g.right # c
        BY <3>4, <3>5, <3>6, StepDown
      <3>8. Path(k)[d] = c
        BY <1>2, <2>3, <2>5, <3>2, <3>5, <3>6
      <3>9. T.ht[c] \in Nat
        BY <3>7, RangeFacts DEF Tree
      <3>10. T.ht[c] = temp_level - d
        BY <3>1, <3>4, <3>7, <3>9, <1>1
      <3> QED BY <2>3, <3>7, <3>8, <3>10 DEF OnWay
    <2> QED BY <2>4, <2>5
  <1>5. ASSUME NEW d \in 0 .. temp_level - 1
        PROVE  /\ Path(k)[d] \in nodes /\ T.node[Path(k)[d]] = node[Path(k)[d]]
               /\ NodePos(Path(k)[d], k) \in Entries(T.node[Path(k)[d]])
               /\ Path(k)[d + 1] = ChildOf(T.node[Path(k)[d]], NodePos(Path(k)[d], k))
    <2>1. PICK n : n = Path(k)[d]
      OBVIOUS
    <2>2. d \in 0 .. temp_level /\ d + 1 \in 0 .. temp_level /\ d + 1 # 0 /\ (d + 1) - 1 = d
          /\ temp_level - d # 0
      BY <1>1
    <2>3. n \in Obj(T) /\ T.ht[n] # 0 /\ T.lo[n] < k /\ k <= T.xhi[n]
      BY <1>4, <2>1, <2>2 DEF OnWay
    <2>4. /\ n \in nodes /\ T.node[n] = node[n] /\ NodePos(n, k) \in Entries(T.node[n])
          /\ Child(n, k) = ChildOf(T.node[n], NodePos(n, k))
      BY <2>3, StepDown
    <2>5. Path(k)[d + 1] = Child(n, k)
      BY <1>2, <2>1, <2>2
    <2> QED BY <2>1, <2>4, <2>5
  <1> QED BY <1>2, <1>4, <1>5

(* Where the path ends: at the leaf of the key, or left of the gap in      *)
(* front of that leaf.                                                     *)
LEMMA Landing ==
  ASSUME NEW T, Tree(T), Shown(T), Pathed(T), smo.pc = "idle", NEW k \in Key
  PROVE  /\ FindInsert(k) \in leaves
         /\ \/ FindInsert(k) = home[k] /\ \A g \in waiting : g.right # home[k]
            \/ \E g \in waiting : g.left = FindInsert(k) /\ g.right = home[k]
  <1>1. PICK o, h : o = FindInsert(k) /\ h = home[k]
    OBVIOUS
  <1>2. temp_level \in Nat /\ T.leaves = leaves /\ T.nodes = nodes /\ T.home = home
        /\ T.gaps = waiting
    BY DEF Shown, CurrentGaps
  <1>3. temp_level \in 0 .. temp_level /\ temp_level - temp_level = 0
    BY <1>2
  <1>4. o \in Obj(T) /\ T.ht[o] = 0 /\ T.lo[o] < k /\ k <= T.xhi[o] /\ \A g \in waiting : g.right # o
    <2>1. OnWay(T, k, temp_level)
      BY <1>3, Route
    <2> QED BY <2>1, <1>1, <1>2, <1>3 DEF OnWay, FindInsert
  <1>5. o \in leaves
    <2>1. ASSUME o \in T.nodes PROVE FALSE
      <3>1. T.node[o].max_size \in 1 .. MAX_LEAF_KEY + 1
        BY <2>1, NodeFacts DEF Tree
      <3>2. -1 \in Entries(T.node[o])
        BY <3>1, HalfFacts DEF Entries
      <3>3. PICK c : c = ChildOf(T.node[o], -1)
        OBVIOUS
      <3>4. c \in Obj(T) /\ T.ht[o] = T.ht[c] + 1
        BY <2>1, <3>2, <3>3 DEF Tree, Children
      <3>5. T.ht[c] \in Nat
        BY <3>4, RangeFacts DEF Tree
      <3> QED BY <1>4, <3>4, <3>5
    <2> QED BY <2>1, <1>2, <1>4 DEF Obj
  <1>6. h \in Obj(T) /\ T.ht[h] = 0 /\ T.lo[h] < k /\ k <= T.hi[h]
    BY <1>1, <1>2 DEF Tree, Sorts, Homes, Obj
  <1>7. CASE o = h
    BY <1>1, <1>4, <1>5, <1>7
  <1>8. CASE o # h
    <2>1. \A q \in Obj(T) : /\ T.lo[q] \in Int /\ T.hi[q] \in Int /\ T.xhi[q] \in Int
                            /\ T.lo[q] < T.hi[q] /\ T.hi[q] <= T.xhi[q]
      BY RangeFacts DEF Tree
    <2>2. k \in Int
      BY KeyFacts
    <2>3. T.hi[o] <= T.lo[h] \/ T.hi[h] <= T.lo[o]
      BY <1>4, <1>6, <1>8 DEF Tree, Apart
    <2>4. T.hi[o] <= T.lo[h]
      BY <1>4, <1>6, <2>1, <2>2, <2>3
    <2>5. T.xhi[o] # T.hi[o]
      BY <1>4, <1>6, <2>1, <2>2, <2>4
    <2>6. PICK g \in T.gaps : g.left = o
      BY <1>4, <2>5 DEF Tree, Gaps
    <2>7. g.right \in Obj(T) /\ T.lo[g.right] = T.hi[o] /\ T.hi[g.right] = T.xhi[o] /\ T.ht[g.right] = 0
      BY <1>4, <2>6 DEF Tree, Gaps
    <2>8. g.right = h
      <3> SUFFICES ASSUME g.right # h PROVE FALSE
        OBVIOUS
      <3>1. T.hi[g.right] <= T.lo[h] \/ T.hi[h] <= T.lo[g.right]
        BY <1>6, <2>7 DEF Tree, Apart
      <3> QED BY <3>1, <1>4, <1>6, <2>1, <2>2, <2>4, <2>7
    <2> QED BY <1>1, <1>2, <1>5, <2>6, <2>8
  <1> QED BY <1>7, <1>8

LEMMA RoutesToLed ==
  ASSUME NEW T, Tree(T), Shown(T), Pathed(T), smo.pc = "idle", NEW k \in Key
  PROVE  FindInsert(k) = Led(k)
  <1>1. T.gaps = waiting
    BY DEF Shown, CurrentGaps
  <1>2. CASE FindInsert(k) = home[k] /\ \A g \in waiting : g.right # home[k]
    BY <1>2 DEF Led
  <1>3. CASE \E g \in waiting : g.left = FindInsert(k) /\ g.right = home[k]
    <2>1. PICK g \in waiting : g.left = FindInsert(k) /\ g.right = home[k]
      BY <1>3
    <2>2. PICK v : v = CHOOSE w \in waiting : w.right = home[k]
      OBVIOUS
    <2>3. v \in waiting /\ v.right = home[k]
      BY <2>1, <2>2
    <2>4. v = g
      <3>1. \A h \in T.gaps \ {g} : {g.left, g.right} \cap {h.left, h.right} = {}
        BY <1>1, <2>1, GapFacts
      <3> QED BY <3>1, <1>1, <2>1, <2>3
    <2> QED BY <2>1, <2>2, <2>4 DEF Led
  <1> QED BY <1>2, <1>3, Landing

(* Under function_lock, the path to the key for which a leaf was split     *)
(* ends at the left half of that leaf.                                     *)
LEMMA SplitIsFound ==
  ASSUME NEW T, Tree(T), Shown(T), Pathed(T), smo.pc = "idle", NEW w \in waiting
  PROVE  FindInsert(w.key) = w.left
  <1>1. /\ T.gaps = waiting /\ w.key \in Key /\ home[w.key] \in {w.left, w.right}
    BY DEF Shown, CurrentGaps, Split
  <1>2. w.left # w.right /\ \A h \in T.gaps \ {w} : {w.left, w.right} \cap {h.left, h.right} = {}
    BY <1>1, GapFacts
  <1>3. \/ FindInsert(w.key) = home[w.key] /\ \A g \in waiting : g.right # home[w.key]
        \/ \E g \in waiting : g.left = FindInsert(w.key) /\ g.right = home[w.key]
    BY <1>1, Landing
  <1>4. CASE FindInsert(w.key) = home[w.key] /\ \A g \in waiting : g.right # home[w.key]
    BY <1>1, <1>4
  <1>5. CASE \E g \in waiting : g.left = FindInsert(w.key) /\ g.right = home[w.key]
    BY <1>1, <1>2, <1>5
  <1> QED BY <1>3, <1>4, <1>5

LEMMA StartSmoKeeps ==
  ASSUME NEW T, Tree(T), Shown(T), Pathed(T), NEW w, w \in waiting, StartSmo(w)
  PROVE  Shown(T)' /\ Pathed(T)'
  <1>1. PICK path, level, pos, i :
          /\ path = Path(w.key) /\ level = temp_level - 1
          /\ pos = [d \in 0 .. level |-> NodePos(path[d], w.key)]
          /\ i = node[path[level]].max_size - 1
    OBVIOUS
  <1>2. /\ smo.pc = "idle" /\ temp_level > 0 /\ temp_level \in Nat
        /\ waiting' = waiting \ {w}
        /\ UNCHANGED <<node, nodes, root, temp_level, leaves, home>>
    BY DEF StartSmo, Shown
  <1>3. smo' = [pc |-> "shift_ptr", split |-> w, path |-> path, pos |-> pos, level |-> level,
                sep |-> w.sep, right |-> w.right, i |-> i]
    BY <1>1 DEF StartSmo
  <1>4. /\ smo'.pc = "shift_ptr" /\ smo'.split = w /\ smo'.path = path /\ smo'.pos = pos
        /\ smo'.level = level /\ smo'.sep = w.sep /\ smo'.right = w.right /\ smo'.i = i
    BY <1>3
  <1>5. /\ T.leaves = leaves /\ T.nodes = nodes /\ T.root = root /\ T.home = home
        /\ T.gaps = waiting /\ waiting \subseteq Split
        /\ \A v \in waiting : home[v.key] \in {v.left, v.right}
        /\ node \in [Node -> NodeSet] /\ T.ht[root] = temp_level
        /\ \A n \in nodes : T.node[n] = node[n]
    BY <1>2 DEF Shown, CurrentGaps, Working
  <1>6. w \in Split /\ w.key \in Key /\ w.sep \in Key /\ w.right \in Leaf
    BY <1>5 DEF Split
  <1>7. /\ path[0] = root
        /\ \A d \in 0 .. temp_level : path[d] \in Obj(T) /\ T.ht[path[d]] = temp_level - d
        /\ \A d \in 0 .. temp_level - 1 :
              /\ path[d] \in nodes /\ T.node[path[d]] = node[path[d]]
              /\ NodePos(path[d], w.key) \in Entries(T.node[path[d]])
              /\ path[d + 1] = ChildOf(T.node[path[d]], NodePos(path[d], w.key))
    BY <1>1, <1>2, <1>6, Route DEF OnWay
  <1>8. path[temp_level] = w.left
    BY <1>1, <1>2, SplitIsFound DEF FindInsert
  <1>9. path \in [0 .. temp_level -> Object]
    <2>1. path = [l \in 0 .. temp_level |-> IF l = 0 THEN root ELSE Child(Path(w.key)[l - 1], w.key)]
      BY <1>1, <1>2, PathIs
    <2>2. \A l \in 0 .. temp_level : path[l] \in Object
      BY <1>7, RangeFacts DEF Tree
    <2> QED BY <2>1, <2>2
  <1>10. \A d \in 0 .. level : d \in 0 .. temp_level - 1 /\ pos[d] = NodePos(path[d], w.key)
    BY <1>1
  <1>11. \A n \in nodes : T.node[n].max_size \in 1 .. MAX_LEAF_KEY + 1
    BY <1>5, NodeFacts DEF Tree
  <1>12. pos \in [0 .. temp_level - 1 -> Int]
    <2>1. \A d \in 0 .. level : pos[d] \in Entries(T.node[path[d]])
      BY <1>7, <1>10
    <2>2. \A n \in nodes : \A p \in Entries(T.node[n]) : p \in Int
      BY <1>11, HalfFacts DEF Entries
    <2>3. \A d \in 0 .. level : pos[d] \in Int
      BY <1>7, <1>10, <2>1, <2>2
    <2> QED BY <1>1, <2>3
  <1>13. level \in 0 .. temp_level - 1 /\ level \in 0 .. level /\ level + 1 = temp_level
    BY <1>1, <1>2
  <1>14. PICK b : b = node[path[level]]
    OBVIOUS
  <1>15. b = T.node[path[level]] /\ path[level] \in nodes /\ pos[level] \in Entries(b)
    BY <1>7, <1>10, <1>13, <1>14
  <1>16. b.max_size \in Nat /\ i = b.max_size - 1 /\ i \in Int
    <2>1. b.max_size \in 1 .. MAX_LEAF_KEY + 1 /\ i = b.max_size - 1
      BY <1>1, <1>11, <1>14, <1>15
    <2> QED BY <2>1, HalfFacts
  <1>17. smo' \in [pc : SmoPC, split : Split, path : [0 .. temp_level -> Object],
                   pos : [0 .. temp_level - 1 -> Int], level : 0 .. temp_level - 1,
                   sep : Key, right : Object, i : Int]
    BY <1>3, <1>6, <1>9, <1>12, <1>13, <1>16 DEF SmoPC, Object
  <1>18. (smo \in SmoSet)'
    BY <1>2, <1>17 DEF SmoSet
  <1>19. Shifting' /\ ~Closing' /\ Working' /\ This' = path[level] /\ ThisPos' = pos[level]
    BY <1>4 DEF Shifting, Closing, Working, This, ThisPos
  <1>20. Current' = w
    <2>1. Current' = [key |-> w.key, sep |-> w.sep, right |-> w.right, left |-> w.left]
      BY <1>4, <1>8, <1>13, <1>19 DEF Current
    <2> QED BY <2>1, <1>6 DEF Split
  <1>21. CurrentGaps' = {w}
    BY <1>4, <1>20 DEF CurrentGaps
  <1>22. Moved(T)'
    <2>1. Shifted("shift_ptr", b, b, i, pos[level], w.right, w.sep)
      <3>1. pos[level] <= i
        BY <1>15, <1>16 DEF Entries
      <3> QED BY <1>16, <3>1 DEF Shifted
    <2> QED BY <2>1, <1>2, <1>4, <1>14, <1>15, <1>19 DEF Moved
  <1>23. Shown(T)'
    <2>1. T.gaps = waiting' \cup CurrentGaps' /\ CurrentGaps' \cap waiting' = {}
          /\ waiting' \subseteq Split
          /\ \A v \in waiting' : home'[v.key] \in {v.left, v.right}
      BY <1>2, <1>5, <1>21
    <2> QED BY <2>1, <1>2, <1>4, <1>5, <1>19, <1>22 DEF Shown
  <1>24. Pathed(T)'
    <2>1. \A d \in 0 .. level : /\ path[d] \in nodes /\ T.ht[path[d]] = temp_level - d
                                /\ pos[d] \in Entries(T.node[path[d]])
                                /\ path[d + 1] = ChildOf(T.node[path[d]], pos[d])
      <3>1. \A d \in 0 .. temp_level - 1 : d \in 0 .. temp_level
        BY <1>2
      <3> QED BY <3>1, <1>7, <1>10
    <2>2. \A n \in nodes : T.node[n].max_size <= MAX_LEAF_KEY
      BY <1>2 DEF Pathed
    <2>3. smo'.pc \in SmoPC
      BY <1>4 DEF SmoPC
    <2> QED BY <2>1, <2>2, <2>3, <1>2, <1>4, <1>7, <1>18, <1>20 DEF Pathed
  <1> QED BY <1>23, <1>24

----------------------------------------------------------------------------
(* The invariant is inductive.                                             *)
LEMMA NextTree ==
  ASSUME IInv, [Next]_vars
  PROVE  IInv'
  <1>1. PICK T : Tree(T) /\ Shown(T) /\ Pathed(T)
    BY DEF IInv
  <1> SUFFICES \E U : Tree(U) /\ Shown(U)' /\ Pathed(U)'
    BY DEF IInv
  <1>2. CASE \E k, sep \in Key : SplitLeaf(k, sep)
    BY <1>1, <1>2, SplitLeafTree
  <1>3. CASE \E w \in waiting : NewRoot(w)
    BY <1>1, <1>3, NewRootTree
  <1>4. CASE \E w \in waiting : StartSmo(w)
    BY <1>1, <1>4, StartSmoKeeps
  <1>5. CASE Raise
    BY <1>1, <1>5, RaiseKeeps
  <1>6. CASE ShiftPtr
    BY <1>1, <1>6, ShiftPtrKeeps
  <1>7. CASE ShiftKey
    BY <1>1, <1>7, ShiftKeyKeeps
  <1>8. CASE PutKey
    BY <1>1, <1>8, PutKeyKeeps
  <1>9. CASE Grow
    BY <1>1, <1>9, GrowTree
  <1>10. CASE CopyRight
    BY <1>1, <1>10, CopyRightTree
  <1>11. CASE ClearPtrs
    BY <1>1, <1>11, ClearPtrsKeeps
  <1>12. CASE Shrink
    BY <1>1, <1>12, ShrinkKeeps
  <1>13. CASE NextLevel
    BY <1>1, <1>13, NextLevelKeeps
  <1>14. CASE GrowRoot
    BY <1>1, <1>14, GrowRootTree
  <1>15. CASE UNCHANGED vars
    <2>1. UNCHANGED <<node, nodes, root, temp_level, leaves, home, waiting, smo>>
      BY <1>15 DEF vars
    <2>2. Shown(T)'
      BY <2>1, <1>1 DEF Shown, CurrentGaps, Current, Working, Shifting, Closing, Moved, This, ThisPos
    <2>3. Pathed(T)'
      BY <2>1, <1>1 DEF Pathed, SmoSet, Current, Working, Shifting, This
    <2> QED BY <1>1, <2>2, <2>3
  <1>16. CASE Done
    BY <1>15, <1>16 DEF Done
  <1> QED BY <1>2, <1>3, <1>4, <1>5, <1>6, <1>7, <1>8, <1>9, <1>10, <1>11, <1>12, <1>13,
             <1>14, <1>15, <1>16 DEF Next, SmoStep

(* At every instant, also in the middle of a shift or of a split, there is *)
(* a tree of which the nodes show all but what splitInnerNode is moving.   *)
THEOREM IndexInvariance == Spec => []IInv
  <1>1. Init => IInv
    BY InitTree
  <1>2. IInv /\ [Next]_vars => IInv'
    BY NextTree
  <1> QED BY <1>1, <1>2, PTL DEF Spec

----------------------------------------------------------------------------
(* The properties.                                                         *)

(* Type correctness of the nodes, the leaves, the routing and the program  *)
(* point of the thread under function_lock.                                *)
THEOREM TypeCorrect == Spec => []TypeOK
  <1>1. IInv => TypeOK
    <2> SUFFICES ASSUME NEW T, Tree(T), Shown(T), Pathed(T) PROVE TypeOK
      BY DEF IInv
    <2>1. /\ T.leaves = leaves /\ T.nodes = nodes /\ T.root = root /\ T.home = home
          /\ waiting \subseteq Split /\ node \in [Node -> NodeSet] /\ temp_level \in Nat
      BY DEF Shown
    <2>2. /\ T.leaves \subseteq Leaf /\ T.nodes \subseteq Node /\ T.root \in Obj(T)
          /\ T.home \in [Key -> T.leaves]
      BY DEF Tree, Sorts
    <2>3. smo.pc \in SmoPC
      BY DEF Pathed
    <2>4. root \in Leaf \cup Node
      BY <2>1, <2>2 DEF Obj
    <2> QED BY <2>1, <2>2, <2>3, <2>4 DEF TypeOK, NodeSet, Object
  <1> QED BY <1>1, IndexInvariance, PTL

(* Whenever function_lock can be taken, find_insert leads every key to its *)
(* leaf, or to the left half of its leaf while the separator of a split is *)
(* waiting.                                                                *)
THEOREM Routing == Spec => []IndexRoutes
  <1>1. IInv => IndexRoutes
    BY RoutesToLed DEF IInv, IndexRoutes, Idle
  <1> QED BY <1>1, IndexInvariance, PTL

(* The nodes of a level are those the paths of the keys go through.        *)
LEMMA LevelNodes ==
  ASSUME NEW T, Tree(T), Shown(T), Pathed(T), smo.pc = "idle"
  PROVE  nodes = UNION {Level(d) : d \in 0 .. temp_level - 1}
  <1>1. temp_level \in Nat /\ T.nodes = nodes /\ T.root = root /\ T.ht[root] = temp_level
        /\ T.gaps = waiting /\ waiting \subseteq Split
    BY DEF Shown, CurrentGaps
  <1>2. \A d \in 0 .. temp_level - 1 : \A k \in Key : Path(k)[d] \in nodes
    BY Route
  <1>3. ASSUME NEW n \in nodes
        PROVE  \E d \in 0 .. temp_level - 1 : \E k \in Key : Path(k)[d] = n
    <2>1. n \in Obj(T) /\ n \in Node /\ T.node[n].max_size \in 1 .. MAX_LEAF_KEY + 1
      BY <1>1, NodeFacts DEF Tree
    <2>2. PICK k \in Key : T.lo[n] < k /\ k <= T.hi[n]
      BY <2>1 DEF Tree, Ranges
    <2>3. T.ht[n] \in Nat /\ T.ht[n] <= temp_level
      BY <1>1, <2>1, RangeFacts DEF Tree, Top
    <2>4. T.ht[n] # 0
      <3>1. -1 \in Entries(T.node[n])
        BY <2>1, HalfFacts DEF Entries
      <3>2. PICK c : c = ChildOf(T.node[n], -1)
        OBVIOUS
      <3>3. c \in Obj(T) /\ T.ht[n] = T.ht[c] + 1
        BY <1>1, <3>1, <3>2 DEF Tree, Children
      <3>4. T.ht[c] \in Nat
        BY <3>3, RangeFacts DEF Tree
      <3> QED BY <3>3, <3>4
    <2>5. PICK d \in 0 .. temp_level - 1 : temp_level - d = T.ht[n]
      <3>1. temp_level - T.ht[n] \in 0 .. temp_level - 1
            /\ temp_level - (temp_level - T.ht[n]) = T.ht[n]
        BY <1>1, <2>3, <2>4
      <3> QED BY <3>1
    <2>6. d \in 0 .. temp_level
      BY <1>1
    <2>7. PICK o : o = Path(k)[d]
      OBVIOUS
    <2>8. o \in Obj(T) /\ T.ht[o] = T.ht[n] /\ T.lo[o] < k /\ k <= T.xhi[o] /\ o \in nodes
      BY <1>2, <2>5, <2>6, <2>7, Route DEF OnWay
    <2>9. T.xhi[o] = T.hi[o]
      <3>1. o \in Node
        BY <1>1, <2>8, NodeFacts DEF Tree
      <3>2. \A g \in T.gaps : g.left # o
        BY <1>1, <3>1, HeapAssumption DEF Split
      <3> QED BY <3>2, <2>8 DEF Tree, Gaps
    <2>10. o = n
      <3> SUFFICES ASSUME o # n PROVE FALSE
        OBVIOUS
      <3>1. T.hi[o] <= T.lo[n] \/ T.hi[n] <= T.lo[o]
        BY <2>1, <2>8 DEF Tree, Apart
      <3>2. /\ T.lo[n] \in Int /\ T.hi[n] \in Int /\ T.lo[o] \in Int /\ T.hi[o] \in Int
        BY <2>1, <2>8, RangeFacts DEF Tree
      <3>3. k \in Int
        BY KeyFacts
      <3> QED BY <2>2, <2>8, <2>9, <3>1, <3>2, <3>3
    <2> QED BY <2>7, <2>10
  <1> QED BY <1>2, <1>3 DEF Level

(* When function_lock can be taken, no inner node is empty or too large,   *)
(* their separators ascend, and those allocated are the ones in the tree.  *)
THEOREM WellFormed == Spec => []NodesWellFormed
  <1>1. IInv => NodesWellFormed
    <2> SUFFICES ASSUME NEW T, Tree(T), Shown(T), Pathed(T), smo.pc = "idle"
                 PROVE  /\ \A n \in nodes :
                             /\ node[n].max_size \in 1 .. MAX_LEAF_KEY
                             /\ \A i \in 1 .. node[n].max_size - 1 :
                                   node[n].key[i - 1] < node[n].key[i]
                        /\ nodes = UNION {Level(d) : d \in 0 .. temp_level - 1}
      BY DEF IInv, NodesWellFormed, Idle
    <2>1. ASSUME NEW n \in nodes
          PROVE  /\ node[n].max_size \in 1 .. MAX_LEAF_KEY
                 /\ \A i \in 1 .. node[n].max_size - 1 : node[n].key[i - 1] < node[n].key[i]
      <3>1. T.nodes = nodes /\ T.node[n] = node[n]
        BY DEF Shown, Working
      <3>2. T.node[n].max_size <= MAX_LEAF_KEY
        BY DEF Pathed
      <3>3. /\ T.node[n].max_size \in 1 .. MAX_LEAF_KEY + 1
            /\ \A i, j \in 0 .. T.node[n].max_size - 1 :
                  i < j => T.node[n].key[i] < T.node[n].key[j]
        BY <3>1, NodeFacts DEF Tree
      <3>4. PICK m, key : m = node[n].max_size /\ key = node[n].key
        OBVIOUS
      <3>5. m \in 1 .. MAX_LEAF_KEY /\ m \in Nat
        BY <3>1, <3>2, <3>3, <3>4, HalfFacts
      <3>6. \A i, j \in 0 .. m - 1 : i < j => key[i] < key[j]
        BY <3>1, <3>3, <3>4
      <3>7. \A i \in 1 .. m - 1 : i - 1 \in 0 .. m - 1 /\ i \in 0 .. m - 1 /\ i - 1 < i
        BY <3>5
      <3>8. \A i \in 1 .. m - 1 : key[i - 1] < key[i]
        BY <3>6, <3>7
      <3> QED BY <3>4, <3>5, <3>8
    <2> QED BY <2>1, LevelNodes
  <1> QED BY <1>1, IndexInvariance, PTL

LEMMA OneToOne ==
  ASSUME NEW S, NEW R, NEW f \in [S -> R], IsFiniteSet(R),
         \A x, y \in S : f[x] = f[y] => x = y,
         \A r \in R : \E x \in S : f[x] = r
  PROVE  IsFiniteSet(S) /\ Cardinality(S) = Cardinality(R)
  <1>1. f \in Injection(S, R)
    BY DEF Injection, IsInjective
  <1>2. f \in Surjection(S, R)
    BY DEF Surjection
  <1> QED BY <1>1, <1>2, FS_Injection

(* Every separator begins the interval of exactly one leaf, and of every   *)
(* leaf but the first there is exactly one.                                *)
LEMMA SourcesAreLeaves ==
  ASSUME NEW T, Tree(T)
  PROVE  /\ IsFiniteSet(Sources(T))
         /\ Cardinality(Sources(T)) = Cardinality(T.leaves) - 1
  <1>1. /\ \A s, t \in Sources(T) : SepOf(T, s) = SepOf(T, t) => s = t
        /\ \A s \in Sources(T) : \E l \in T.leaves : T.lo[l] = SepOf(T, s)
        /\ \A l \in T.leaves : T.lo[l] = -1 \/ \E s \in Sources(T) : T.lo[l] = SepOf(T, s)
        /\ T.lo[RootLeaf] = -1
    BY DEF Tree, Separators
  <1>2. RootLeaf \in T.leaves /\ IsFiniteSet(T.leaves)
    BY DEF Tree, Sorts
  <1>3. ASSUME NEW a \in T.leaves, NEW b \in T.leaves, T.lo[a] = T.lo[b] PROVE a = b
    <2>1. a \in Obj(T) /\ b \in Obj(T) /\ T.ht[a] = T.ht[b]
      BY DEF Tree, Homes, Obj
    <2>2. /\ T.lo[a] \in Int /\ T.hi[a] \in Int /\ T.lo[b] \in Int /\ T.hi[b] \in Int
          /\ T.lo[a] < T.hi[a] /\ T.lo[b] < T.hi[b]
      BY <2>1, RangeFacts DEF Tree
    <2> SUFFICES ASSUME a # b PROVE FALSE
      OBVIOUS
    <2>3. T.hi[a] <= T.lo[b] \/ T.hi[b] <= T.lo[a]
      BY <2>1 DEF Tree, Apart
    <2> QED BY <2>2, <2>3, <1>3
  <1>4. \A s \in Sources(T) : SepOf(T, s) # -1
    <2> SUFFICES ASSUME NEW s \in Sources(T) PROVE SepOf(T, s) # -1
      OBVIOUS
    <2>1. CASE \E g \in T.gaps : s = AtGap(g)
      <3>1. PICK g \in T.gaps : s = AtGap(g)
        BY <2>1
      <3>2. SepOf(T, s) = g.sep
        BY <3>1, SourceFacts DEF Tree
      <3>3. g.sep \in Key
        BY GapFacts
      <3> QED BY <3>2, <3>3, KeyFacts
    <2>2. CASE \E n \in T.nodes : \E i \in 0 .. T.node[n].max_size - 1 : s = AtPlace(n, i)
      <3>1. PICK n \in T.nodes : \E i \in 0 .. T.node[n].max_size - 1 : s = AtPlace(n, i)
        BY <2>2
      <3>2. PICK i \in 0 .. T.node[n].max_size - 1 : s = AtPlace(n, i)
        BY <3>1
      <3>4. SepOf(T, s) = T.node[n].key[i]
        BY <3>2, SourceFacts DEF Tree
      <3>3. T.node[n].key[i] \in Key
        BY NodeFacts DEF Tree
      <3> QED BY <3>3, <3>4, KeyFacts
    <2> QED BY <2>1, <2>2, SourceFacts DEF Tree
  <1> DEFINE R == T.leaves \ {RootLeaf}
             f == [s \in Sources(T) |-> CHOOSE l \in T.leaves : T.lo[l] = SepOf(T, s)]
  <1>5. \A s \in Sources(T) : f[s] \in T.leaves /\ T.lo[f[s]] = SepOf(T, s)
    BY <1>1
  <1>6. f \in [Sources(T) -> R]
    <2>1. \A s \in Sources(T) : f[s] # RootLeaf
      BY <1>1, <1>4, <1>5
    <2>2. \A s \in Sources(T) : f[s] \in R
      BY <1>5, <2>1
    <2> QED BY <2>2
  <1>7. \A s, t \in Sources(T) : f[s] = f[t] => s = t
    BY <1>1, <1>5
  <1> HIDE DEF f
  <1>8. \A l \in R : \E s \in Sources(T) : f[s] = l
    <2> SUFFICES ASSUME NEW l \in R PROVE \E s \in Sources(T) : f[s] = l
      OBVIOUS
    <2>1. T.lo[l] # -1
      BY <1>1, <1>2, <1>3
    <2>2. PICK s \in Sources(T) : T.lo[l] = SepOf(T, s)
      BY <1>1, <2>1
    <2>3. f[s] = l
      BY <1>3, <1>5, <2>2
    <2> QED BY <2>3
  <1>9. IsFiniteSet(R) /\ Cardinality(R) = Cardinality(T.leaves) - 1
    BY <1>2, FS_RemoveElement
  <1>10. IsFiniteSet(Sources(T)) /\ Cardinality(Sources(T)) = Cardinality(R)
    BY <1>6, <1>7, <1>8, <1>9, OneToOne
  <1> QED BY <1>9, <1>10

\* The elements of S, with a mark that tells them from those of other sets.
Marks(m, S) == {m} \X S

LEMMA MarkedSets ==
  ASSUME NEW S, NEW m, IsFiniteSet(Marks(m, S))
  PROVE  IsFiniteSet(S) /\ Cardinality(S) = Cardinality(Marks(m, S))
  <1> DEFINE f == [x \in S |-> <<m, x>>]
  <1>1. f \in [S -> Marks(m, S)]
    BY DEF Marks
  <1>2. \A x, y \in S : f[x] = f[y] => x = y
    OBVIOUS
  <1>3. \A r \in Marks(m, S) : \E x \in S : f[x] = r
    BY DEF Marks
  <1> HIDE DEF f
  <1> QED BY <1>1, <1>2, <1>3, OneToOne

LEMMA SourcesCounted ==
  ASSUME NEW T, Tree(T)
  PROVE  /\ IsFiniteSet(Places(T)) /\ IsFiniteSet(T.gaps)
         /\ Cardinality(Places(T)) = Cardinality(T.leaves) - 1 - Cardinality(T.gaps)
  <1> DEFINE P == Marks("node", Places(T))
             G == Marks("gap", T.gaps)
  <1>1. Sources(T) = P \cup G
    BY DEF Sources, Marks
  <1>2. P \cap G = {}
    BY DEF Marks
  <1>3. IsFiniteSet(Sources(T)) /\ Cardinality(Sources(T)) = Cardinality(T.leaves) - 1
    BY SourcesAreLeaves
  <1>4. P \in SUBSET Sources(T) /\ G \in SUBSET Sources(T)
    BY <1>1
  <1>5. IsFiniteSet(P) /\ IsFiniteSet(G)
    BY <1>3, <1>4, FS_Subset
  <1>6. /\ IsFiniteSet(Places(T)) /\ Cardinality(Places(T)) = Cardinality(P)
        /\ IsFiniteSet(T.gaps) /\ Cardinality(T.gaps) = Cardinality(G)
    BY <1>5, MarkedSets
  <1> HIDE DEF P, G
  <1>7. Cardinality(P \cup G) = Cardinality(P) + Cardinality(G) - Cardinality(P \cap G)
    BY <1>5, FS_Union
  <1>8. Cardinality(P \cap G) = 0
    BY <1>2, FS_EmptySet
  <1>9. /\ Cardinality(P) \in Nat /\ Cardinality(G) \in Nat /\ Cardinality(T.leaves) \in Nat
    BY <1>5, FS_CardinalityType DEF Tree, Sorts
  <1> QED BY <1>1, <1>3, <1>6, <1>7, <1>8, <1>9

(* No separator is lost or doubled: there is one for every leaf but the    *)
(* first and those still waiting for theirs, and no two are equal.         *)
THEOREM SeparatorPerLeaf == Spec => []SeparatorsOnce
  <1>1. IInv => SeparatorsOnce
    <2> DEFINE P == {a \in nodes \X Slot : a[2] < node[a[1]].max_size}
    <2> SUFFICES ASSUME NEW T, Tree(T), Shown(T), Pathed(T), smo.pc = "idle"
                 PROVE  /\ Cardinality(P) = Cardinality(leaves) - 1 - Cardinality(waiting)
                        /\ \A a, b \in P : node[a[1]].key[a[2]] = node[b[1]].key[b[2]] => a = b
      BY DEF IInv, SeparatorsOnce, Idle
    <2>1. /\ T.nodes = nodes /\ T.leaves = leaves /\ T.gaps = waiting
          /\ \A n \in nodes : T.node[n] = node[n]
      BY DEF Shown, CurrentGaps, Working
    <2>2. P = Places(T)
      BY <2>1 DEF Places
    <2>3. Cardinality(P) = Cardinality(leaves) - 1 - Cardinality(waiting)
      BY <2>1, <2>2, SourcesCounted
    <2>4. ASSUME NEW a \in P, NEW b \in P, node[a[1]].key[a[2]] = node[b[1]].key[b[2]]
          PROVE  a = b
      <3>1. a[1] \in nodes /\ b[1] \in nodes
        OBVIOUS
      <3>2. PICK s, t : s = <<"node", a>> /\ t = <<"node", b>>
        OBVIOUS
      <3>3. s \in Sources(T) /\ t \in Sources(T)
        BY <2>2, <3>2 DEF Sources
      <3>4. SepOf(T, s) = node[a[1]].key[a[2]] /\ SepOf(T, t) = node[b[1]].key[b[2]]
        BY <2>1, <3>1, <3>2 DEF SepOf
      <3>5. s = t
        BY <2>4, <3>3, <3>4 DEF Tree, Separators
      <3> QED BY <3>2, <3>5
    <2> QED BY <2>3, <2>4
  <1> QED BY <1>1, IndexInvariance, PTL

----------------------------------------------------------------------------
(* find, which reads the nodes while they change.                          *)

\* What a pointer in a node may be.
Reached == leaves \cup nodes \cup {Null}
NodePtrs == \A n \in Node : node[n].left_most_ptr \in Reached /\ node[n].ptr \in [Slot -> Reached]

\* A find inside of a node has the place it reads within the bounds it has read.
FindSet == [pc : {"only_root", "root", "loop", "node", "key", "next_key", "ptr", "left",
                  "root_leaf", "leaf"},
            key : Key, at : Object \cup {Null}, search_level : Int, i : Int, end : Int,
            answer : {"none"}]
FindIn ==
    \/ find.pc \in {"idle", "wild"}
    \/ /\ find \in FindSet /\ At \in Reached
       /\ find.pc \in {"key", "next_key", "ptr", "left"} =>
             At \in nodes /\ 0 <= find.i /\ find.i <= find.end /\ find.end <= MAX_LEAF_KEY
       /\ find.pc = "next_key" => find.i < find.end

LEMMA Grown == [Next]_vars => leaves \subseteq leaves' /\ nodes \subseteq nodes'
  BY DEF Next, SmoStep, vars, SplitLeaf, NewRoot, Raise, StartSmo, ShiftPtr, ShiftKey, PutKey,
         Grow, CopyRight, ClearPtrs, Shrink, NextLevel, GrowRoot, Done

LEMMA NodeSizes ==
  ASSUME IInv
  PROVE  /\ nodes \subseteq Node /\ leaves \subseteq Leaf /\ root \in Reached
         /\ node \in [Node -> NodeSet]
         /\ \A n \in nodes : node[n].max_size \in 1 .. MAX_LEAF_KEY + 1
  <1>1. PICK T : Tree(T) /\ Shown(T) /\ Pathed(T)
    BY DEF IInv
  <1>2. T.nodes = nodes /\ T.leaves = leaves /\ T.root = root /\ node \in [Node -> NodeSet]
    BY <1>1 DEF Shown
  <1>3. nodes \subseteq Node /\ leaves \subseteq Leaf /\ root \in Reached
    BY <1>1, <1>2 DEF Tree, Sorts, Obj, Reached
  <1>4. ASSUME NEW n \in nodes
        PROVE  node[n].max_size \in 1 .. MAX_LEAF_KEY + 1
    <2>1. T.node[n].max_size \in 1 .. MAX_LEAF_KEY + 1
      BY <1>1, <1>2, NodeFacts DEF Tree
    <2>2. CASE T.node[n] = node[n]
      BY <2>1, <2>2
    <2>3. CASE Working /\ n = This /\ Shifting
      BY <1>1, <2>1, <2>3 DEF Shown, Moved, Shifted
    <2>4. CASE Working /\ n = This /\ Closing
      <3>1. node[n].max_size = MAX_LEAF_KEY + 1
        BY <1>1, <2>4 DEF Shown
      <3> QED BY <3>1, HalfFacts
    <2> QED BY <1>1, <2>2, <2>3, <2>4 DEF Shown
  <1> QED BY <1>2, <1>3, <1>4

\* One node of many changes.
LEMMA OnePtr ==
  ASSUME NodePtrs, leaves \subseteq leaves', nodes \subseteq nodes',
         NEW x, \A n \in Node : n # x => node'[n] = node[n],
         node'[x].left_most_ptr \in Reached', node'[x].ptr \in [Slot -> Reached']
  PROVE  NodePtrs'
  <1>1. Reached \subseteq Reached'
    BY DEF Reached
  <1>2. \A n \in Node : n # x => node'[n].left_most_ptr \in Reached' /\ node'[n].ptr \in [Slot -> Reached']
    BY <1>1 DEF NodePtrs
  <1> QED BY <1>2 DEF NodePtrs

LEMMA NextPtrs ==
  ASSUME IInv, NodePtrs, [Next]_vars
  PROVE  NodePtrs'
  <1>1. PICK T : Tree(T) /\ Shown(T) /\ Pathed(T)
    BY DEF IInv
  <1>2. leaves \subseteq leaves' /\ nodes \subseteq nodes'
    BY Grown
  <1>3. Reached \subseteq Reached' /\ Null \in Reached'
    BY <1>2 DEF Reached
  <1>4. /\ nodes \subseteq Node /\ root \in Reached /\ node \in [Node -> NodeSet]
    BY NodeSizes
  <1>5. \A g \in T.gaps : g.left \in Reached /\ g.right \in Reached
    <2>1. \A o \in Obj(T) : o \in Reached
      BY <1>1 DEF Obj, Shown, Reached
    <2> QED BY <1>1, <2>1, GapFacts
  <1>6. T.gaps = waiting \cup CurrentGaps
    BY <1>1 DEF Shown
  <1>7. ASSUME Working PROVE This \in Node /\ node[This] \in NodeSet /\ smo \in SmoSet
    BY <1>1, <1>7, WorkFacts
  <1>8. ASSUME Working, smo.pc # "split" PROVE smo.right \in Reached
    <2>1. Current \in T.gaps
      BY <1>6, <1>8 DEF CurrentGaps, Working
    <2> QED BY <1>5, <2>1 DEF Current
  <1>9. \A n \in Node : /\ node[n].left_most_ptr \in Reached' /\ node[n].ptr \in [Slot -> Reached']
                        /\ \A j \in Slot : node[n].ptr[j] \in Reached'
    BY <1>3 DEF NodePtrs
  <1>10. CASE UNCHANGED node
    BY <1>9, <1>10 DEF NodePtrs
  <1>11. CASE ShiftPtr
    <2>1. Working /\ smo.pc # "split"
      BY <1>11 DEF ShiftPtr, Working
    <2>2. PICK x, y, j : /\ x = This /\ y \in Reached'
                         /\ node' = [node EXCEPT ![x].ptr[j] = y]
      <3>1. CASE smo.i > ThisPos
        <4>1. smo.i \in Slot
          <5>1. Shifting /\ ThisPos \in Int /\ ThisPos >= -1 /\ T.node[This].max_size \in 1 .. MAX_LEAF_KEY
            BY <1>1, <1>11, <2>1, WorkFacts DEF ShiftPtr, Shifting
          <5>2. smo.i <= T.node[This].max_size - 1 /\ smo.i \in Int
            BY <1>1, <1>7, <2>1, <5>1 DEF Shown, Moved, Shifted, SmoSet
          <5> QED BY ONLY <3>1, <5>1, <5>2, HalfFacts
        <4>2. node[This].ptr[smo.i] \in Reached'
          BY <1>7, <1>9, <2>1, <4>1
        <4>3. node' = [node EXCEPT ![This].ptr[smo.i + 1] = node[This].ptr[smo.i]]
          <5>1. ThisPos \in Int /\ smo.i \in Int
            <6>1. Shifting
              BY <1>11 DEF ShiftPtr, Shifting
            <6> QED BY <1>1, <1>7, <2>1, <6>1, WorkFacts DEF SmoSet
          <5> QED BY <1>11, <3>1, <5>1 DEF ShiftPtr
        <4> QED BY <4>2, <4>3
      <3>2. CASE ~(smo.i > ThisPos)
        <4>1. node' = [node EXCEPT ![This].ptr[ThisPos + 1] = smo.right]
          BY <1>11, <3>2 DEF ShiftPtr
        <4>2. smo.right \in Reached'
          BY <1>3, <1>8, <2>1
        <4> QED BY <4>1, <4>2
      <3> QED BY <3>1, <3>2
    <2>3. x \in Node /\ node[x].ptr \in [Slot -> Reached'] /\ node[x].left_most_ptr \in Reached'
      BY <1>7, <1>9, <2>1, <2>2
    <2>4. node[x] \in NodeSet
      BY <1>4, <2>3
    <2>5. node'[x] = [node[x] EXCEPT !.ptr[j] = y]
      BY <1>4, <2>2, <2>3
    <2>6. node'[x].left_most_ptr = node[x].left_most_ptr /\ node'[x].ptr = [node[x].ptr EXCEPT ![j] = y]
      BY <2>4, <2>5 DEF NodeSet
    <2>7. node'[x].ptr \in [Slot -> Reached']
      <3>1. PICK q, R : q = node[x].ptr /\ R = Reached'
        OBVIOUS
      <3>2. q \in [Slot -> R] /\ y \in R
        BY <2>2, <2>3, <3>1
      <3>3. [q EXCEPT ![j] = y] \in [Slot -> R]
        BY ONLY <3>2
      <3> QED BY <2>6, <3>1, <3>3
    <2>8. \A n \in Node : n # x => node'[n] = node[n]
      BY <1>4, <2>2
    <2> QED BY <1>2, <2>3, <2>6, <2>7, <2>8, OnePtr
  <1>12. CASE ShiftKey \/ PutKey \/ Grow \/ Shrink
    <2>1. Working
      BY <1>12 DEF ShiftKey, PutKey, Grow, Shrink, Working
    <2>2. PICK x : x = This
      OBVIOUS
    <2>3. x \in Node /\ node[x] \in NodeSet
      BY <1>7, <2>1, <2>2
    <2>4. \A n \in Node : n # x => node'[n] = node[n]
      BY <1>4, <1>12, <2>2 DEF ShiftKey, PutKey, Grow, Shrink
    <2>5. node'[x].left_most_ptr = node[x].left_most_ptr /\ node'[x].ptr = node[x].ptr
      BY <1>4, <1>12, <2>2, <2>3 DEF ShiftKey, PutKey, Grow, Shrink, NodeSet
    <2> QED BY <1>2, <1>9, <2>3, <2>4, <2>5, OnePtr
  <1>13. CASE ClearPtrs
    <2>1. Working
      BY <1>13 DEF ClearPtrs, Working
    <2>2. PICK x, q : /\ x = This
                      /\ q = [i \in Slot |-> IF i \in LEFT_KEY .. 2 * LEFT_KEY - 1 THEN Null ELSE node[x].ptr[i]]
      OBVIOUS
    <2>3. x \in Node /\ node[x] \in NodeSet
      BY <1>7, <2>1, <2>2
    <2>4. node' = [node EXCEPT ![x].ptr = q]
      BY <1>4, <1>13, <2>2, <2>3, Zenon DEF ClearPtrs
    <2>5. \A n \in Node : n # x => node'[n] = node[n]
      BY <1>4, <2>4
    <2>6. node'[x].left_most_ptr = node[x].left_most_ptr /\ node'[x].ptr = q
      BY <1>4, <2>3, <2>4 DEF NodeSet
    <2>7. q \in [Slot -> Reached']
      BY <1>3, <1>9, <2>2, <2>3
    <2> QED BY <1>2, <1>9, <2>3, <2>5, <2>6, <2>7, OnePtr
  <1>14. CASE (\E w \in waiting : NewRoot(w)) \/ GrowRoot
    <2>1. PICK l, s, r, x : /\ l \in Reached' /\ r \in Reached' /\ x \in Node
                            /\ node' = [node EXCEPT ![x] = RootOver(l, s, r)]
      <3>1. CASE \E w \in waiting : NewRoot(w)
        <4>1. PICK w \in waiting : NewRoot(w)
          BY <3>1
        <4>2. w.left \in Reached' /\ w.right \in Reached'
          BY <1>3, <1>5, <1>6
        <4>3. NewNode \in Node /\ node' = [node EXCEPT ![NewNode] = RootOver(w.left, w.sep, w.right)]
          BY <4>1, NewNodeIs DEF NewRoot
        <4> QED BY <4>2, <4>3
      <3>2. CASE GrowRoot
        <4>1. Working /\ smo.pc # "split"
          BY <3>2 DEF GrowRoot, Working
        <4>2. root \in Reached' /\ smo.right \in Reached'
          BY <1>3, <1>4, <1>8, <4>1
        <4>3. NewNode \in Node /\ node' = [node EXCEPT ![NewNode] = RootOver(root, smo.sep, smo.right)]
          BY <3>2, NewNodeIs DEF GrowRoot
        <4> QED BY <4>2, <4>3
      <3> QED BY <1>14, <3>1, <3>2
    <2>2. \A n \in Node : n # x => node'[n] = node[n]
      BY <1>4, <2>1
    <2>3. node'[x] = RootOver(l, s, r)
      BY <1>4, <2>1
    <2>4. /\ RootOver(l, s, r).left_most_ptr = l
          /\ RootOver(l, s, r).ptr = [[i \in Slot |-> Null] EXCEPT ![0] = r]
      BY DEF RootOver, Blank
    <2>5. [[i \in Slot |-> Null] EXCEPT ![0] = r] \in [Slot -> Reached']
      BY <1>3, <2>1
    <2> QED BY <1>2, <2>1, <2>2, <2>3, <2>4, <2>5, OnePtr
  <1>15. CASE CopyRight
    <2>1. Working
      BY <1>15 DEF CopyRight, Working
    <2>2. PICK x, y, h, q : /\ x = This /\ y = NewNode /\ h = RightHalf(This)
                            /\ q = [i \in Slot |-> IF i \in LEFT_KEY .. 2 * LEFT_KEY - 1
                                                   THEN AllOnes ELSE node[x].key[i]]
      OBVIOUS
    <2>3. x \in Node /\ node[x] \in NodeSet /\ x \in nodes
      BY <1>1, <1>7, <2>1, <2>2, WorkFacts
    <2>4. y \in Node /\ y \notin nodes
      BY <1>15, <2>2, NewNodeIs DEF CopyRight
    <2>5. node' = [node EXCEPT ![y] = h, ![x].key = q]
      BY <1>15, <2>2, <2>3, <2>4, Zenon DEF CopyRight
    <2>6. /\ \A n \in Node : n # x /\ n # y => node'[n] = node[n]
          /\ node'[y] = h /\ node'[x] = [node[x] EXCEPT !.key = q]
      BY <1>4, <2>3, <2>4, <2>5
    <2>7. node'[x].left_most_ptr = node[x].left_most_ptr /\ node'[x].ptr = node[x].ptr
      BY <2>3, <2>6 DEF NodeSet
    <2>8. h.left_most_ptr \in Reached' /\ h.ptr \in [Slot -> Reached']
      <3>1. \A j \in Slot : node[x].ptr[j] \in Reached'
        BY <1>9, <2>3
      <3>2. SPLIT_POS + 1 \in Slot /\ \A i \in Slot : i < RIGHT_KEY => LEFT_KEY + 1 + i \in Slot
        BY ONLY HalfFacts
      <3>3. /\ h.left_most_ptr = node[x].ptr[SPLIT_POS + 1]
            /\ h.ptr = [i \in Slot |-> IF i < RIGHT_KEY THEN node[x].ptr[LEFT_KEY + 1 + i] ELSE Null]
        BY <2>2 DEF RightHalf
      <3> QED BY <1>3, <3>1, <3>2, <3>3
    <2>9. \A n \in Node : node'[n].left_most_ptr \in Reached' /\ node'[n].ptr \in [Slot -> Reached']
      BY <1>9, <2>6, <2>7, <2>8
    <2> QED BY <2>9 DEF NodePtrs
  <1>16. UNCHANGED node \/ ShiftPtr \/ ShiftKey \/ PutKey \/ Grow \/ Shrink \/ ClearPtrs
         \/ (\E w \in waiting : NewRoot(w)) \/ GrowRoot \/ CopyRight
    BY DEF Next, SmoStep, vars, SplitLeaf, Raise, StartSmo, NextLevel, Done
  <1> QED BY <1>10, <1>11, <1>12, <1>13, <1>14, <1>15, <1>16

\* A find that goes on: its program point, place and bounds.
FindTo(f, pc, a, i, e, s) ==
    [f EXCEPT !.pc = pc, !.at = a, !.i = i, !.end = e, !.search_level = s]

LEMMA FindGoes ==
  ASSUME NEW f \in FindSet, NEW a \in Reached, NEW i \in Int, NEW e \in Int, NEW s \in Int,
         NEW pc \in {"only_root", "root", "loop", "node", "key", "next_key", "ptr", "left",
                     "root_leaf", "leaf"},
         pc \in {"key", "next_key", "ptr", "left"} =>
            a \in nodes /\ 0 <= i /\ i <= e /\ e <= MAX_LEAF_KEY,
         pc = "next_key" => i < e,
         Reached \subseteq Object \cup {Null}, Reached' = Reached, nodes' = nodes,
         find' = FindTo(f, pc, a, i, e, s)
  PROVE  FindIn'
  <1>1. a \in Object \cup {Null}
    OBVIOUS
  <1>2. find' \in FindSet /\ find'.pc = pc /\ find'.at = a /\ find'.i = i /\ find'.end = e
    BY <1>1 DEF FindTo, FindSet
  <1> QED BY <1>2 DEF FindIn, At

LEMMA FindStepIn ==
  ASSUME IInv, NodePtrs, FindIn, FindStep
  PROVE  FindIn'
  <1>1. /\ nodes \subseteq Node /\ leaves \subseteq Leaf /\ root \in Reached
        /\ node \in [Node -> NodeSet]
        /\ \A n \in nodes : node[n].max_size \in 1 .. MAX_LEAF_KEY + 1
    BY NodeSizes
  <1>2. Reached' = Reached /\ nodes' = nodes
    BY DEF FindStep, CallFind, ReadRoot, TestLevel, ReadSize, ReadKey, ReadNextKey, FollowPtr,
           SearchRootLeaf, SearchLeaf, Reads, indexVars, vars, Reached
  <1>3. Reached \subseteq Object \cup {Null} /\ Null \in Reached
    BY <1>1 DEF Reached, Object
  <1>4. CASE \E k \in Key : CallFind(k)
    <2>1. PICK k \in Key : CallFind(k)
      BY <1>4
    <2>2. PICK pc : /\ pc \in {"only_root", "root"}
                    /\ find' = [pc |-> pc, key |-> k, at |-> Null, search_level |-> 0, i |-> 0,
                                end |-> 0, answer |-> "none"]
      BY <2>1 DEF CallFind
    <2>3. find' \in FindSet /\ find'.at = Null /\ find'.pc = pc
      BY <2>2 DEF FindSet
    <2> QED BY <1>2, <1>3, <2>2, <2>3 DEF FindIn, At
  <1>5. CASE ReadRoot \/ TestLevel \/ ReadSize \/ ReadKey \/ ReadNextKey \/ FollowPtr
    <2>1. find.pc \notin {"idle", "wild"}
      BY <1>5 DEF ReadRoot, TestLevel, ReadSize, ReadKey, ReadNextKey, FollowPtr
    <2>2. PICK f : f = find
      OBVIOUS
    <2>3. /\ f \in FindSet /\ f.at \in Reached
          /\ f.pc \in {"key", "next_key", "ptr", "left"} =>
                f.at \in nodes /\ 0 <= f.i /\ f.i <= f.end /\ f.end <= MAX_LEAF_KEY
          /\ f.pc = "next_key" => f.i < f.end
      BY <2>1, <2>2 DEF FindIn, At
    <2>4. f.i \in Int /\ f.end \in Int /\ f.search_level \in Int
      BY <2>3 DEF FindSet
    <2>5. ASSUME ReadRoot PROVE FindIn'
      <3>1. PICK pc : pc \in {"loop", "root_leaf"} /\ find' = [f EXCEPT !.at = root, !.pc = pc]
        BY <2>2, <2>5 DEF ReadRoot
      <3>2. find' = FindTo(f, pc, root, f.i, f.end, f.search_level)
        BY <2>3, <3>1 DEF FindSet, FindTo
      <3> QED BY <1>1, <1>2, <1>3, <2>3, <2>4, <3>1, <3>2, FindGoes
    <2>6. ASSUME TestLevel PROVE FindIn'
      <3>1. PICK pc : pc \in {"node", "leaf"} /\ find' = [f EXCEPT !.pc = pc]
        BY <2>2, <2>6 DEF TestLevel, FindGoto
      <3>2. find' = FindTo(f, pc, f.at, f.i, f.end, f.search_level)
        BY <2>3, <3>1 DEF FindSet, FindTo
      <3> QED BY <1>2, <1>3, <2>3, <2>4, <3>1, <3>2, FindGoes
    <2>7. ASSUME ReadSize PROVE FindIn'
      <3>1. CASE f.at \in Node
        <4>1. f.at \in nodes
          BY <1>1, <2>3, <3>1, HeapAssumption DEF Reached
        <4>2. PICK m : m = node[f.at].max_size
          OBVIOUS
        <4>3. m \in 1 .. MAX_LEAF_KEY + 1
          BY <1>1, <4>1, <4>2
        <4>4. PICK e \in Int : e = m - 1 /\ 0 <= e /\ e <= MAX_LEAF_KEY
          BY <4>3, HalfFacts
        <4>5. find' = [f EXCEPT !.pc = "key", !.i = 0, !.end = e]
          BY <2>2, <2>7, <3>1, <4>2, <4>4 DEF ReadSize, At
        <4>6. find' = FindTo(f, "key", f.at, 0, e, f.search_level)
          BY <2>3, <4>5 DEF FindSet, FindTo
        <4> QED BY <1>2, <1>3, <2>3, <2>4, <4>1, <4>4, <4>6, FindGoes
      <3>2. CASE f.at \notin Node
        <4>1. find' = [pc |-> "wild", answer |-> "none"]
          BY <2>2, <2>7, <3>2 DEF ReadSize, GoWild, At
        <4> QED BY <4>1 DEF FindIn
      <3> QED BY <3>1, <3>2
    <2>8. ASSUME ReadKey PROVE FindIn'
      <3>1. f.pc = "key" /\ f.at \in nodes /\ 0 <= f.i /\ f.i <= f.end /\ f.end <= MAX_LEAF_KEY
        BY <2>2, <2>3, <2>8 DEF ReadKey
      <3>2. \/ find' = [f EXCEPT !.pc = "left"]
            \/ find' = [f EXCEPT !.pc = "ptr"]
            \/ f.i # f.end /\ find' = [f EXCEPT !.pc = "next_key"]
            \/ f.i # f.end /\ find' = [f EXCEPT !.i = f.i + 1]
        BY <2>2, <2>8 DEF ReadKey
      <3>3. CASE f.i # f.end /\ find' = [f EXCEPT !.i = f.i + 1]
        <4>1. PICK i \in Int : i = f.i + 1 /\ 0 <= i /\ i <= f.end
          <5>1. f.i + 1 \in Int /\ 0 <= f.i + 1 /\ f.i + 1 <= f.end
            BY ONLY <2>4, <3>1, <3>3
          <5> QED BY <5>1
        <4>2. find' = FindTo(f, "key", f.at, i, f.end, f.search_level)
          BY <2>3, <3>1, <3>3, <4>1 DEF FindSet, FindTo
        <4> QED BY <1>2, <1>3, <2>3, <2>4, <3>1, <4>1, <4>2, FindGoes
      <3>4. CASE f.i # f.end /\ find' = [f EXCEPT !.pc = "next_key"]
        <4>1. find' = FindTo(f, "next_key", f.at, f.i, f.end, f.search_level)
          BY <2>3, <3>4 DEF FindSet, FindTo
        <4>2. f.i < f.end
          BY ONLY <2>4, <3>1, <3>4
        <4> QED BY <1>2, <1>3, <2>3, <2>4, <3>1, <4>1, <4>2, FindGoes
      <3>5. CASE find' = [f EXCEPT !.pc = "left"] \/ find' = [f EXCEPT !.pc = "ptr"]
        <4>1. PICK pc : pc \in {"left", "ptr"} /\ find' = [f EXCEPT !.pc = pc]
          BY <3>5
        <4>2. find' = FindTo(f, pc, f.at, f.i, f.end, f.search_level)
          BY <2>3, <4>1 DEF FindSet, FindTo
        <4> QED BY <1>2, <1>3, <2>3, <2>4, <3>1, <4>1, <4>2, FindGoes
      <3> QED BY <3>2, <3>3, <3>4, <3>5
    <2>9. ASSUME ReadNextKey PROVE FindIn'
      <3>1. f.pc = "next_key" /\ f.at \in nodes /\ 0 <= f.i /\ f.i < f.end /\ f.end <= MAX_LEAF_KEY
        BY <2>2, <2>3, <2>9 DEF ReadNextKey
      <3>2. \/ find' = [f EXCEPT !.pc = "ptr"]
            \/ find' = [f EXCEPT !.pc = "key", !.i = f.i + 1]
        BY <2>2, <2>9 DEF ReadNextKey
      <3>3. CASE find' = [f EXCEPT !.pc = "key", !.i = f.i + 1]
        <4>1. PICK i \in Int : i = f.i + 1 /\ 0 <= i /\ i <= f.end
          <5>1. f.i + 1 \in Int /\ 0 <= f.i + 1 /\ f.i + 1 <= f.end
            BY ONLY <2>4, <3>1
          <5> QED BY <5>1
        <4>2. find' = FindTo(f, "key", f.at, i, f.end, f.search_level)
          BY <2>3, <3>3, <4>1 DEF FindSet, FindTo
        <4> QED BY <1>2, <1>3, <2>3, <2>4, <3>1, <4>1, <4>2, FindGoes
      <3>4. CASE find' = [f EXCEPT !.pc = "ptr"]
        <4>1. find' = FindTo(f, "ptr", f.at, f.i, f.end, f.search_level)
          BY <2>3, <3>4 DEF FindSet, FindTo
        <4>2. f.i <= f.end
          BY ONLY <2>4, <3>1
        <4> QED BY <1>2, <1>3, <2>3, <2>4, <3>1, <4>1, <4>2, FindGoes
      <3> QED BY <3>2, <3>3, <3>4
    <2>10. ASSUME FollowPtr PROVE FindIn'
      <3>1. f.pc \in {"left", "ptr"} /\ f.at \in nodes /\ 0 <= f.i /\ f.i <= f.end /\ f.end <= MAX_LEAF_KEY
        BY <2>2, <2>3, <2>10 DEF FollowPtr
      <3>2. PICK a : /\ a = IF f.pc = "left" THEN node[f.at].left_most_ptr ELSE node[f.at].ptr[f.i]
                     /\ find' = [f EXCEPT !.pc = "loop", !.search_level = f.search_level + 1,
                                          !.at = a]
        BY <2>2, <2>10 DEF FollowPtr, At
      <3>3. a \in Reached
        <4>1. f.i \in Slot
          BY ONLY <2>4, <3>1, HalfFacts
        <4>2. node[f.at].left_most_ptr \in Reached /\ node[f.at].ptr[f.i] \in Reached
          BY <1>1, <3>1, <4>1 DEF NodePtrs
        <4> QED BY <3>2, <4>2
      <3>4. PICK s \in Int : s = f.search_level + 1
        BY <2>4
      <3>5. find' = FindTo(f, "loop", a, f.i, f.end, s)
        BY <2>3, <3>2, <3>4 DEF FindSet, FindTo
      <3> QED BY <1>2, <1>3, <2>3, <2>4, <3>3, <3>4, <3>5, FindGoes
    <2> QED BY <1>5, <2>5, <2>6, <2>7, <2>8, <2>9, <2>10
  <1>6. CASE SearchRootLeaf \/ SearchLeaf
    <2>1. GoWild \/ \E answer : Return(answer)
      BY <1>6, Zenon DEF SearchRootLeaf, SearchLeaf
    <2>2. find'.pc \in {"idle", "wild"}
      BY <2>1 DEF Return, GoWild
    <2> QED BY <2>2 DEF FindIn
  <1> QED BY <1>4, <1>5, <1>6 DEF FindStep

(* A find never reads a separator or pointer behind the arrays of a node,  *)
(* however the node grows, is shifted and is split under it.               *)
THEOREM FindInNode == FindSpec => []FindStaysInNode
  <1> DEFINE Inv == IInv /\ NodePtrs /\ FindIn
  <1>1. FindInit => Inv
    <2> SUFFICES ASSUME FindInit PROVE Inv
      OBVIOUS
    <2>1. IInv
      BY InitTree DEF FindInit
    <2>2. NodePtrs
      <3>1. node = [n \in Node |-> Blank]
        BY DEF FindInit, Init
      <3>2. Blank.left_most_ptr = Null /\ Blank.ptr = [i \in Slot |-> Null]
        BY DEF Blank
      <3> QED BY <3>1, <3>2 DEF NodePtrs, Reached
    <2>3. FindIn
      BY DEF FindIn, FindInit, NoFind
    <2> QED BY <2>1, <2>2, <2>3
  <1>2. Inv /\ [FindNext]_allVars => Inv'
    <2> SUFFICES ASSUME IInv, NodePtrs, FindIn, [FindNext]_allVars PROVE IInv' /\ NodePtrs' /\ FindIn'
      OBVIOUS
    <2>1. CASE [Next]_vars /\ UNCHANGED find
      <3>1. IInv' /\ NodePtrs'
        BY <2>1, NextTree, NextPtrs
      <3>2. Reached \subseteq Reached' /\ nodes \subseteq nodes'
        BY <2>1, Grown DEF Reached
      <3>3. FindIn'
        BY <2>1, <3>2 DEF FindIn, At
      <3> QED BY <3>1, <3>3
    <2>2. CASE FindStep
      <3>1. UNCHANGED vars
        BY <2>2 DEF FindStep, CallFind, ReadRoot, TestLevel, ReadSize, ReadKey, ReadNextKey,
             FollowPtr, SearchRootLeaf, SearchLeaf, Reads, indexVars
      <3>2. IInv' /\ NodePtrs'
        BY <3>1, NextTree, NextPtrs
      <3> QED BY <2>2, <3>2, FindStepIn
    <2> QED BY <2>1, <2>2 DEF FindNext, allVars
  <1>3. Inv => FindStaysInNode
    <2> SUFFICES ASSUME FindIn PROVE FindStaysInNode
      OBVIOUS
    <2>1. CASE find.pc \in {"idle", "wild"}
      BY <2>1 DEF FindStaysInNode
    <2>2. CASE find.pc \notin {"idle", "wild"}
      <3>1. find.i \in Int /\ find.end \in Int
        BY <2>2 DEF FindIn, FindSet
      <3>2. find.pc \in {"key", "ptr"} => find.i \in Slot
        <4> SUFFICES ASSUME find.pc \in {"key", "ptr"} PROVE find.i \in Slot
          OBVIOUS
        <4>1. 0 <= find.i /\ find.i <= find.end /\ find.end <= MAX_LEAF_KEY
          BY DEF FindIn
        <4> QED BY ONLY <3>1, <4>1, HalfFacts
      <3>3. find.pc = "next_key" => find.i + 1 \in Slot
        <4> SUFFICES ASSUME find.pc = "next_key" PROVE find.i + 1 \in Slot
          OBVIOUS
        <4>1. 0 <= find.i /\ find.i < find.end /\ find.end <= MAX_LEAF_KEY
          BY DEF FindIn
        <4> QED BY ONLY <3>1, <4>1, HalfFacts
      <3> QED BY <3>2, <3>3 DEF FindStaysInNode
    <2> QED BY <2>1, <2>2
  <1> HIDE DEF Inv
  <1> QED BY <1>1, <1>2, <1>3, PTL DEF FindSpec

=============================================================================
