----------------------------- MODULE CrashRebuild -----------------------------
(***************************************************************************)
(* A crash at any point of a load, and the tree built anew from the logs.  *)
(*                                                                         *)
(* Only the log segments matter after a crash.  With IGNORE, which both    *)
(* variants define, Tree::recover makes an empty root and starts threads,  *)
(* each of which passes the records of one log to quick_insert.            *)
(*                                                                         *)
(* Here a leaf is the set of the keys its slots point to.  On those, and   *)
(* on claims, locks and the inner nodes, quick_insert takes the steps of   *)
(* insert with two differences: the slot points to the entry that is in    *)
(* the log already, and a key that is found in the leaf aborts the program *)
(* (the search reads the key in the log, and no cached pair).  So a        *)
(* rebuild is a run of ConcurrentTree too, over the calls the logs ask     *)
(* for, in which log holds the entries that slots have been pointed to so  *)
(* far.  The order of the entries of a log is left open, as is the order   *)
(* in which the code meets its chunks.                                     *)
(*                                                                         *)
(* What quick_insert writes into a slot besides the pointer, which is not  *)
(* what insert writes, is in LeafRecovery: a find may not believe a slot   *)
(* that is counted as stored here.                                         *)
(*                                                                         *)
(* append_one writes the version of an entry, which says that there is     *)
(* one, before the key.  A crash in between leaves an entry whose key      *)
(* reads 0, for the log is written to memory that has not been used.       *)
(***************************************************************************)
EXTENDS ConcurrentTreeInv

CONSTANT ReadBy   \* ReadBy[t]: the log thread t reads, gettid() % thread_num

\* as many threads as logs, numbered without a gap
ASSUME EachLogIsRead ==
    /\ ReadBy \in [Thread -> Thread]
    /\ \A u \in Thread : \E t \in Thread : ReadBy[t] = u
    /\ \A t, u \in Thread : ReadBy[t] = ReadBy[u] => t = u

ASSUME BlankKeyIsAKey == 0 \in Key

VARIABLES phase,     \* the load runs; the tree is rebuilt; abort() was called
          durable,   \* the logs in persistent memory at the last crash
          torn,      \* the logs whose last entry has a version and no key
          promised,  \* keys whose insert has returned true
          called     \* keys some insert was called for

crashVars == <<phase, durable, torn, promised, called>>
allVars == <<vars, crashVars>>

Insert(k) == [kind |-> "insert", key |-> k, count |-> 0]
\* count, which no insert looks at, tells it from a record with the key 0
InsertTorn == [kind |-> "insert", key |-> 0, count |-> 1]

CrashInit ==
    /\ Init
    /\ phase = "load"
    /\ durable = log
    /\ torn = {}
    /\ promised = {}
    /\ called = {}

\* Fault: an insert answers before its record is persisted.
LoadStepEager(t) ==
    /\ phase = "load"
    /\ Step(t)
    /\ promised' = IF pc'[t] = "append" THEN promised \cup {op[t].key} ELSE promised
    /\ called' = IF pc[t] = "idle" THEN called \cup {op'[t].key} ELSE called
    /\ UNCHANGED <<phase, durable, torn>>

(* A step of the load.  The caller is told true when the leaf is unlocked. *)
LoadStep(t) ==
    /\ phase = "load"
    /\ Step(t)
    /\ promised' = IF pc[t] = "unlock" THEN promised \cup {op[t].key} ELSE promised
    /\ called' = IF pc[t] = "idle" THEN called \cup {op'[t].key} ELSE called
    /\ UNCHANGED <<phase, durable, torn>>

(* What the memory of the new process looks like: an empty root whose next *)
(* field malloc left as it was, and the calls that the logs ask for.       *)
Restart(logs, tears) ==
    /\ readers' = {} /\ writer' = NoThread /\ writer_pending' = FALSE
    /\ route' = [k \in Key |-> RootLeaf]
    /\ root_is_leaf' = TRUE
    /\ heap' = {RootLeaf}
    /\ content' = [l \in Leaf |-> {}]
    /\ \E p \in FreshNext :
          next' = [l \in Leaf |-> IF l = RootLeaf THEN p ELSE NoLeaf]
    /\ temp_insert' = [l \in Leaf |-> 0]
    /\ alt_ptr' = [l \in Leaf |-> l]
    /\ log' = [t \in Thread |-> << >>]
    /\ todo' = [t \in Thread |->
                  {Insert(logs[ReadBy[t]][i].key) : i \in DOMAIN logs[ReadBy[t]]}
                  \cup {o \in {InsertTorn} : ReadBy[t] \in tears}]
    /\ pc' = [t \in Thread |-> "idle"]
    /\ op' = [t \in Thread |-> NoOp]
    /\ ret' = [t \in Thread |-> "none"]
    /\ leaf' = [t \in Thread |-> NoLeaf]
    /\ other' = [t \in Thread |-> NoLeaf]
    /\ ptr' = [t \in Thread |-> NoLeaf]
    /\ split_key' = [t \in Thread |-> 0]
    /\ dram_buffer' = [t \in Thread |-> {}]
    /\ count' = [t \in Thread |-> 0]
    /\ scan_array' = [t \in Thread |-> {}]
    /\ fast' = [t \in Thread |-> FALSE]
    /\ owed' = [t \in Thread |-> {}]

(* The machine stops and starts again, during the load or a rebuild, which *)
(* leaves the logs as they were.                                           *)
Crash ==
    /\ phase \in {"load", "rebuild"}
    /\ \/ /\ phase = "load"
          /\ durable' = log
          /\ torn' \in SUBSET {t \in Thread : pc[t] = "append"}
       \/ /\ phase = "rebuild"
          /\ UNCHANGED <<durable, torn>>
    /\ Restart(durable', torn')
    /\ phase' = "rebuild"
    /\ UNCHANGED <<promised, called>>

MeetsDuplicate(t) == pc[t] = "check" /\ op[t].key \in content[leaf[t]]

(* A step of quick_insert, but for control_bit and access_bit of the slots *)
(* (see LeafRecovery), or a thread's next record.                          *)
RebuildStep(t) ==
    /\ phase = "rebuild"
    /\ ~MeetsDuplicate(t)
    /\ Step(t)
    /\ UNCHANGED crashVars

Abort(t) ==
    /\ phase = "rebuild"
    /\ MeetsDuplicate(t)
    /\ phase' = "aborted"
    /\ UNCHANGED <<vars, durable, torn, promised, called>>

(* Every record of every log has been passed to quick_insert.              *)
Rebuilt ==
    /\ phase = "rebuild"
    /\ \A t \in Thread : pc[t] = "idle" /\ todo[t] = {}

Finished ==
    /\ \/ Rebuilt \/ phase = "aborted"
       \/ phase = "load" /\ \A t \in Thread : pc[t] \in {"idle", "undefined"}
    /\ UNCHANGED allVars

CrashNext ==
    \/ Crash \/ Finished
    \/ \E t \in Thread : LoadStep(t) \/ RebuildStep(t) \/ Abort(t)

CrashSpec == CrashInit /\ [][CrashNext]_allVars

(* The threads of a rebuild are scheduled.                                 *)
CrashFairSpec ==
    CrashSpec /\ \A t \in Thread : WF_allVars(RebuildStep(t) \/ Abort(t))

----------------------------------------------------------------------------
(* Properties.                                                             *)

Keys(logs) ==
    {k \in Key : \E t \in Thread : \E i \in DOMAIN logs[t] : logs[t][i].key = k}

(* The inductive invariant.  During a load, an answer of true means that   *)
(* the key is stored, and only keys that were called for are.  During a    *)
(* rebuild, every entry of the logs is in exactly one place: it is still   *)
(* to be read, or a thread is inserting it, or it is stored; but for the   *)
(* key 0 when it comes twice.                                              *)
LoadInv ==
    /\ promised \subseteq Stored
    /\ Stored \subseteq called
    /\ \A t \in Thread : op[t] # NoOp => op[t].key \in called

KeysOnce(logs) ==
    /\ logs \in [Thread -> Seq([key : Key, pptr : Leaf \cup Thread])]
    /\ \A t, u \in Thread : \A i \in DOMAIN logs[t], j \in DOMAIN logs[u] :
          logs[t][i].key = logs[u][j].key => t = u /\ i = j

DurableInv ==
    /\ KeysOnce(durable)
    /\ torn \subseteq Thread
    /\ promised \subseteq Keys(durable)
    /\ Keys(durable) \subseteq called

\* what the logs ask for, and when that is the same key twice
Asked == {Insert(k) : k \in Keys(durable)} \cup {o \in {InsertTorn} : torn # {}}
Clash == \/ \E t, u \in torn : t # u
         \/ torn # {} /\ 0 \in Keys(durable)

Unread(o) == \E t \in Thread : o \in todo[t]
Working(t, o) == op[t] = o
InOnePlace(o) ==
    /\ Unread(o) => o.key \notin Stored /\ \A t \in Thread : ~Working(t, o)
    /\ \A t, u \in Thread : o \in todo[t] \cap todo[u] => t = u
    /\ \A t, u \in Thread : Working(t, o) /\ Working(u, o) => t = u
    /\ o.key \in Stored => \A t \in Thread : Working(t, o) => ret[t] = "true"

RebuildInv ==
    /\ \A t \in Thread : todo[t] \subseteq Asked
    /\ \A t \in Thread : op[t] = NoOp \/ op[t] \in Asked
    /\ \A k \in Stored : \E o \in Asked : k = o.key
    /\ \A o \in Asked :
          Unread(o) \/ o.key \in Stored \/ \E t \in Thread : Working(t, o)
    /\ \A o \in Asked : o.key # 0 \/ ~Clash => InOnePlace(o)

CrashInv ==
    /\ IInv
    /\ \A t \in Thread : op[t] # NoOp /\ op[t].kind = "insert" /\ ret[t] = "true"
                          => op[t].key \in Stored
    /\ \/ phase = "load" /\ LoadInv
       \/ phase = "rebuild" /\ DurableInv /\ RebuildInv
       \/ phase = "aborted" /\ DurableInv /\ RebuildInv /\ Clash

(* Once the logs are read, every record whose insert had returned before   *)
(* the crash has a slot pointing to it, in the leaf where the inner nodes  *)
(* lead.  What else is there was being inserted, or is the record with the *)
(* key 0 that a half-written entry makes.  (Whether a find that gets to    *)
(* the slot believes it is the question LeafRecovery asks.)                *)
RebuildStoresAll ==
    Rebuilt => /\ promised \subseteq Stored
               /\ \A k \in Stored \ called : k = 0 /\ torn # {}

(* quick_insert calls abort() when it meets a key twice.  It does so only  *)
(* when two logs, or a log and a caller, brought the key 0.                *)
OnlyClashAborts == phase = "aborted" => Clash

(* Whatever is known to have been inserted is in the tree or in the logs   *)
(* that a crash leaves, at every moment.                                   *)
PromisesAreDurable ==
    promised \subseteq Keys(IF phase = "load" THEN log ELSE durable)

(* A rebuild ends, unless crashes keep interrupting it: threads that claim *)
(* the same leaf, or split it under the others, all get through.           *)
RebuildEnds ==
    <>[][~Crash]_allVars => ((phase = "rebuild") ~> (Rebuilt \/ phase = "aborted"))

(* What the code asserts and a crash of two inserts at once refutes: the   *)
(* call of abort() in quick_insert is never reached.                       *)
RebuildNeverAborts == phase # "aborted"
============================================================================
