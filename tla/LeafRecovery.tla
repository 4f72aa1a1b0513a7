----------------------------- MODULE LeafRecovery -----------------------------
(***************************************************************************)
(* The slots of a D_Leaf after a crash: Tree::recover with IGNORE, which   *)
(* passes every record of the logs to quick_insert, and the finds and      *)
(* inserts that follow.                                                    *)
(*                                                                         *)
(* insert writes every field of a new finger.  quick_insert leaves the     *)
(* control field as it was, that is, six bits of whatever word the slot    *)
(* held: of what malloc left in a leaf, or of a cached key or value.  It   *)
(* resets that of the finger LEFT_KEY slots to the left instead.  A stale  *)
(* control field may lead anywhere, behind the slots too.                  *)
(*                                                                         *)
(* One thread reads the records of the logs here, in any order;            *)
(* CrashRebuild has the threads, and the keys that are in the leaves       *)
(* without their slots.  Nothing is updated or removed.                    *)
(***************************************************************************)
EXTENDS LeafSlots

CONSTANTS FreshWords,  \* what malloc leaves in the slots of a leaf
          MaxCrashes   \* bound on the number of crashes

ASSUME FreshAssumption ==
    \A w \in FreshWords : w.ptr = 0 /\ w.val = 0 /\ w.control \in 0 .. 63

VARIABLES phase,      \* calls are made; the leaves are rebuilt; abort() was called
          unread,     \* the records not yet passed to quick_insert
          recovered,  \* records in the log at the last crash
          crashes

recoveryVars == <<phase, unread, recovered, crashes>>
allVars == <<vars, recoveryVars>>

RecoveryInit ==
    /\ Init
    /\ phase = "run" /\ unread = {} /\ recovered = 0 /\ crashes = 0

(* The machine stops and starts again, and recover makes an empty root     *)
(* leaf: the slots are as malloc returns them.                             *)
Crash ==
    /\ phase # "aborted" /\ crashes < MaxCrashes
    /\ \E w \in FreshWords : leaf' = <<[EmptyLeaf EXCEPT !.slot = [p \in Pos |-> w]]>>
    /\ sep' = << >> /\ pending' = 0
    /\ phase' = "rebuild"
    /\ unread' = DOMAIN log /\ recovered' = Len(log)
    /\ crashes' = crashes + 1
    /\ UNCHANGED <<log, freed, store, answer, calls>>

----------------------------------------------------------------------------
(* quick_insert of the record e.                                           *)

Colliding(l, k) == {i \in Live(l) : l.slot[i].hash = Hash[k]}

\* Fault: the hash bytes are compared and the keys are not.
MeetsHash(l, k) == Colliding(l, k) # {}
Meets(l, k) == \E i \in Colliding(l, k) : KeyAt(l, i) = k

(* The search for the key sets access_bit of the fingers it collides with. *)
Marked(l, k) ==
    [l EXCEPT !.slot = [p \in Pos |-> IF p \in Colliding(l, k)
                                      THEN [@[p] EXCEPT !.access = 1] ELSE @[p]]]

Quick(e) ==
    /\ phase = "rebuild" /\ e \in unread
    /\ pending \in {0, log[e].key}
    /\ leaf[Route(log[e].key)].temp_insert = 0

QuickAbort(e) ==
    LET k == log[e].key IN
    /\ Quick(e)
    /\ Meets(leaf[Route(k)], k)
    /\ phase' = "aborted"
    /\ UNCHANGED <<vars, unread, recovered, crashes>>

\* control_bit of a slot that holds the word w: its bits 8 to 13
ControlBits(w) == IF w.val = 0 THEN w.control ELSE (w.val \div 256) % 64

QuickFinger(l, e) ==
    [Finger(e, Hash[log[e].key]) EXCEPT
        !.control = ControlBits(l.slot[l.max_use]),
        !.access = IF Colliding(l, log[e].key) # {} THEN 1 ELSE 0]

(* max_use++ and the new finger, and control_bit = 0 for the one LEFT_KEY  *)
(* slots to the left.                                                      *)
QuickAppend(e) ==
    LET k == log[e].key
        r == Route(k)
        l == Marked(leaf[r], k)
        n == l.max_use
        slot == [l.slot EXCEPT ![n] = QuickFinger(leaf[r], e)]
    IN
    /\ Quick(e)
    /\ ~Meets(leaf[r], k)
    /\ HasRoom(l)
    /\ leaf' = [leaf EXCEPT ![r] =
                  [l EXCEPT !.max_use = n + 1,
                            !.slot = IF n >= LEFT_KEY
                                     THEN [slot EXCEPT ![n - LEFT_KEY].control = 0]
                                     ELSE slot]]
    /\ unread' = unread \ {e}
    /\ pending' = 0
    /\ UNCHANGED <<sep, log, freed, store, answer, calls, phase, recovered, crashes>>

(* finger_differ: access_bit goes back to 0 where no other marked record   *)
(* it is compared with has the same hash byte.  Two records left of the    *)
(* middle are compared, and two of which none is left of LEFT_KEY - 1.     *)
Compared(p, q) == p < q /\ (q < LEFT_KEY \/ p >= LEFT_KEY - 1)

finger_differ(b) ==
    LET Often == {p \in Pos : b[p].finger.access = 1}
        Same(p) == {q \in Often : /\ Compared(p, q) \/ Compared(q, p)
                                  /\ b[q].finger.hash = b[p].finger.hash}
    IN [p \in Pos |-> IF p \in Often /\ Same(p) = {}
                      THEN [b[p] EXCEPT !.finger.access = 0] ELSE b[p]]

(* The leaf is full: it is split and quick_insert starts over.             *)
QuickSplit(e) ==
    LET k == log[e].key
        r == Route(k)
    IN
    /\ Quick(e)
    /\ ~Meets(leaf[r], k)
    /\ ~HasRoom(leaf[r])
    /\ \E b \in {SortedRecords(Marked(leaf[r], k))}, w \in FreshWords :
          SplitLeaf(r, finger_differ(b), w)
    /\ pending' = k
    /\ UNCHANGED <<log, freed, store, answer, calls, recoveryVars>>

Recovered ==
    /\ phase = "rebuild" /\ unread = {}
    /\ phase' = "run"
    /\ UNCHANGED <<vars, unread, recovered, crashes>>

----------------------------------------------------------------------------
(* insert and find as in LeafSlots, where a control field leads to a slot. *)
(* One that leads behind the slots is followed as well: what is there may  *)
(* be the key, and max_key is among it.                                    *)

WordAt(l, c, behind) == IF c \in Pos THEN l.slot[c].val ELSE behind

TakenFor(l, i, k, believed, behind) ==
    /\ l.slot[i].hash = Hash[k]
    /\ IF believed THEN WordAt(l, l.slot[i].control, behind) = k ELSE KeyAt(l, i) = k

RunInsert(k, behind) ==
    LET r == Route(k)
        l == leaf[r]
        duplicate == \E i \in Live(l) :
                        TakenFor(l, i, k, l.slot[i].control > l.max_use, behind)
    IN
    /\ phase = "run"
    /\ Call("insert", k)
    /\ l.temp_insert = 0
    /\ \/ /\ duplicate
          /\ leaf' = [leaf EXCEPT ![r].temp_insert = 1]
          /\ Answer("insert", k, FALSE, store[k] = 0)
          /\ pending' = 0
          /\ UNCHANGED <<sep, log, freed, store>>
       \/ /\ ~duplicate /\ HasRoom(l)
          /\ AppendRecord(k)
    /\ UNCHANGED recoveryVars

RunSplit(k, behind) ==
    LET l == leaf[Route(k)] IN
    /\ phase = "run"
    /\ "insert" \in Calls /\ calls < MaxCalls
    /\ pending \in {0, k}
    /\ l.temp_insert = 0
    /\ \A i \in Live(l) : ~TakenFor(l, i, k, l.slot[i].control > l.max_use, behind)
    /\ ~HasRoom(l)
    /\ SplitLeaf(Route(k), SortedRecords(l), Junk)
    /\ pending' = k
    /\ UNCHANGED <<log, freed, store, answer, calls, recoveryVars>>

RunFind(k, behind) ==
    LET r == Route(k)
        l == leaf[r]
        Hit == {i \in Live(l) : TakenFor(l, i, k, Cached(l, i), behind)}
        i == Min(Hit)
    IN
    /\ phase = "run"
    /\ Call("find", k)
    /\ ~RootIsLeaf
    /\ \/ /\ Hit # {}
          /\ leaf' = IF l.slot[i].access < 3
                     THEN [leaf EXCEPT ![r].slot[i].access = @ + 1] ELSE leaf
          /\ Answer("find", k, IF Cached(l, i) THEN WordAt(l, l.slot[i].control + 1, 0)
                                               ELSE ValAt(l, i), store[k])
       \/ /\ Hit = {}
          /\ Answer("find", k, 0, store[k])
          /\ UNCHANGED leaf
    /\ UNCHANGED <<sep, log, freed, pending, store, recoveryVars>>

RunFindInRoot(k) == phase = "run" /\ FindInRoot(k) /\ UNCHANGED recoveryVars

RecoveryDone ==
    /\ \/ phase = "aborted"
       \/ phase = "run" /\ calls = MaxCalls
       \/ phase = "run" /\ \E n \in DOMAIN leaf : leaf[n].temp_insert # 0
    /\ UNCHANGED allVars

RecoveryNext ==
    \/ Crash \/ Recovered \/ RecoveryDone
    \/ \E e \in unread : QuickAbort(e) \/ QuickAppend(e) \/ QuickSplit(e)
    \/ \E k \in Key :
          \/ \E behind \in {0, k} :
                RunInsert(k, behind) \/ RunSplit(k, behind) \/ RunFind(k, behind)
          \/ RunFindInRoot(k)

RecoverySpec == RecoveryInit /\ [][RecoveryNext]_allVars
----------------------------------------------------------------------------
(* What quick_insert does to the slots and the splits it makes neither     *)
(* lose nor double a record: until calls are made again, every record of   *)
(* the log that has been read is in exactly one slot in use, of the leaf   *)
(* the separators lead to, and no other record is in any.                  *)
RecoveredOnce ==
    phase = "rebuild" =>
       /\ \A e \in (1 .. recovered) \ unread :
             Cardinality({a \in Places : SlotAt(a).ptr = e /\ a[1] = Route(log[e].key)}) = 1
       /\ Cardinality(Places) = recovered - Cardinality(unread)

\* A finger whose control field is believed has the pair it leads to.
PairIsRight(l, i) ==
    Cached(l, i) => /\ l.slot[i].control + 1 \in Pos
                    /\ l.slot[l.slot[i].control].val = KeyAt(l, i)
                    /\ l.slot[l.slot[i].control + 1].val = ValAt(l, i)

(* A split puts the control fields right, and insert never makes a wrong   *)
(* one: after a crash a believed pair is that of its finger, unless the    *)
(* finger has come from quick_insert since its leaf was split last.        *)
StaleUntilSplit ==
    crashes > 0 => \A n \in DOMAIN leaf : \A i \in Live(leaf[n]) :
       \/ leaf[n].slot[i].ptr > recovered
       \/ ~RootIsLeaf /\ i < LEFT_KEY
       => PairIsRight(leaf[n], i)

(* quick_insert reaches abort() only when the log has a key twice: its own *)
(* search for the key does not look at control fields.                     *)
AbortsForDuplicate ==
    phase = "aborted" =>
       \E d, e \in 1 .. recovered : d # e /\ log[d].key = log[e].key

(* "re-construct the tree from nothing": a find that follows a recovery    *)
(* returns what was last written.                                          *)
RecoveredIsFound == answer.kind = "find" => answer.got \in {answer.due, NullPointer}
===============================================================================
