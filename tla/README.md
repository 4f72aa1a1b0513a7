# A verification of ZBTree in TLA+

ZBTree is a B+-tree for persistent memory. Its inner nodes and the leaves that
operations search (`D_Leaf`) are in DRAM; the records are in log segments in
persistent memory, one log per thread (`DSeg`), where the leaves' slots
("fingers") point. A `P_Leaf` in persistent memory stands for each leaf. After a
restart the tree is built anew from the logs.

This directory models `src/zbtree.cpp`, the allocator `src/n_alc.cpp` and what the
read-optimised variant `src/zbtree_r.cpp` does differently: TLA+ modules of the
concurrent insert and scan, of the slots of a leaf, of the inner nodes, of the
lock-free find, of the logs, of a crash and of the recovery; TLC configurations that
check them on small instances; and proofs, checked by TLAPS, that insert and scan
implement a set of keys, that a scan which claims its leaves misses nothing, that a crash at any point loses no record that was answered
for, and that a log gives back what was appended to it, for instances of any size.

## Contents

1. [The system](#the-system)
2. [Modules and how they correspond to the code](#modules-and-how-they-correspond-to-the-code)
3. [What is checked](#what-is-checked)
4. [What is proved](#what-is-proved)
5. [Where the code does not do what it says](#where-the-code-does-not-do-what-it-says)
6. [What is not modelled](#what-is-not-modelled)
7. [Plan](#plan)
8. [Running the checks](#running-the-checks)

## The system

### Components

| Component | State | Operations | Correct if |
|---|---|---|---|
| **insert and scan** (`Tree::insert`, `Tree::scan`) | `function_lock`; per leaf `temp_insert`, `alt_ptr`, `next`, slots | `insert`, `scan` | one thread at a time in a leaf; every record where the inner nodes lead, or in the buffer of a split; inserts linearise; all calls return |
| **leaf slots** (`D_Leaf`) | 30 words: fingers, then cached pairs; `max_use` | `insert`, `split_leaf`, `find`, `update`, `simply_remove`, `scan` of one leaf | a record is in one slot; a cached pair is believed only while it is there; answers are right |
| **inner nodes** (`Inner_Node`) | `key[]`, `ptr[]`, `left_most_ptr`, `max_size`, `root`, `temp_level` | `find_insert`, root growth in `insert`, `splitInnerNode` | every key is led to its leaf; no separator lost or doubled |
| **lock-free find** (`Tree::find`) | none shared; reads all of the above | `find` | stays inside nodes; follows no null pointer; returns; ends at a leaf; finds what is stored |
| **log segments and allocator** (`DSeg`, `N_alc`) | chunks with headers; `nlog_list`, `nfree_list`, `page_id`, `decision_id`, `end_address`; per thread `log_vec` and `temp_offset` | `append_one`, `resize`, `n_allocate`, `get_free_block`, `get_more_chunk`, `n_free` | an entry is written once, into a segment of its own; every record is found again after a crash |
| **recovery** (`recover`, `ignore_recover`, `quick_insert`) | the chunks; the tree that is built anew | run once after a restart | every record whose insert returned has one slot, where the inner nodes lead; that slot says what is in it; it ends |
| **read-optimised variant** (`zbtree_r.cpp`) | as the main variant, and `compact_use`, `compact_full` | as above; `find` claims leaves and caches pairs | a cached pair is believed only while it is there; the cache stays in the leaf |
| **bulk load** (`bulkload`) | the inner nodes over a chain of `P_Leaf`s | called by nothing that can be reached | the same tree as inserts would build |
| persistence primitives (`pm_util`) | – | `clwb`, `sfence`, streaming copies | – |
| interface and harness (`all_tree.hpp`, `main.cpp`) | – | wrappers, YCSB driver | – |
| baselines (`trees/`, `third/CLHT`) | – | compared with in the paper | – |

### How they interact

`insert` takes `function_lock` for reading, descends (`find_insert`), claims the
leaf by a compare-and-swap of `temp_insert` from 0 to 1, and lets `function_lock`
go. It searches the leaf for the key. If there is room it appends the record to
its thread's log, writes a finger and resets `temp_insert`. If the leaf is full it
copies the records, sorted, to a buffer on its stack, points the leaf's `alt_ptr`
there, sets `temp_insert` to 2, moves the upper half to a new leaf that it links
into the chain (`split_leaf`), and only then takes `function_lock` for writing to
put the separator into the inner nodes, or a new root over a root leaf. Then it
resets `temp_insert`, restores `alt_ptr`, releases `function_lock` and starts over.

`scan` descends like an insert, then follows `next` without any lock. It claims a
leaf whose `temp_insert` is 0; one whose `temp_insert` is 2 it does not wait for,
but reads the buffer that `alt_ptr` leads to.

`find` takes no lock at all. It reads `temp_level`, `root` and the inner nodes while
they are shifted and split in place, and at a leaf whose `temp_insert` is 2 searches
the buffer instead. A hit counts in the finger's `access_bit`, by rewriting the
finger. When a leaf is split the records with the highest counts are cached, key and
value, in the slots the split frees; fingers overwrite these pairs as the leaf fills.
In the variant `zbtree_r.cpp` it is `find` that caches: it claims the leaf by
`temp_insert` when the pair it has read from the log finds room.

A log is a chain of segments, each of which fills a chunk of the pool. `append_one`
writes entries one after the other and calls `n_allocate` for a new segment when one
is full; the split of a leaf calls `n_allocate` for a `P_Leaf`. `n_allocate` takes the
chunk that is filed under `decision_id`, and `get_more_chunk` carves four at a time.
A chunk's header says what it is used for, and under which id `ignore_recover` is to
file it again after a crash.

`EADR` and `IGNORE` are defined. With `EADR` a store to the pool is durable without a
flush. With `IGNORE`, `recover` makes an empty root leaf and starts threads, each of
which files the chunks of one log and passes every entry with a `version_number` other
than 0 to `quick_insert`; then it returns (`zbtree.cpp:1836`). `quick_insert` claims,
splits and reroutes as `insert` does. It points the finger to the entry that is there and
aborts on a key that is stored, which it looks for in the log only. And it fills the slot in
its own way: it sets `access_bit` of fingers whose hash bytes collide (`finger_differ` takes some
of that back before a split), and it does not reset `control_bit` of the new finger, but
that of the finger `LEFT_KEY` slots to the left.

### What is hard

The order in which an insert lets `function_lock` go, claims, marks, and restores;
a leaf that is split between the moment it is found and the moment it is used;
stack buffers that other threads read; a tree that changes under a reader without a
lock; words of a leaf whose meaning depends on `max_use`; ids that are written to a
header and kept in a list; a segment that must be left before its last entry, because
the loop that reads it back has no other end; and what a crash leaves behind.
`PROJECT.json` lists these hazards at the lines where they bite, with the property
that covers each or the reason why none does.

## Modules and how they correspond to the code

```
KVSet                what insert and scan promise
  ^ implemented by (proved, ConcurrentTreeProofs)
ConcurrentTree       insert and scan, step by step          <- ConcurrentTreeInv, ConcurrentTreeProofs,
  |   |                                                        ConcurrentTreeScan
  |   ^ extended by
  |   CrashRebuild   a crash, and the tree built anew       <- CrashRebuildProofs
  |     | what the log of one thread is, is
  |   DurableLog     what a log promises
  |     ^ implemented by (proved, SegmentLogProofs)
  |   SegmentLog     DSeg and N_alc, step by step           <- SegmentLogProofs
  |
  | "route" is computed by                  | the set of keys in a leaf is stored by
InnerIndex           the inner nodes     LeafSlots          the slots of a leaf   <- LeafSlotsProofs
  | read without a lock by                 ^ extended by
LockFreeFind         find's descent      LeafRecovery       the slots after a crash
  (both)  <- InnerIndexProofs            ReadCache          a leaf in zbtree_r.cpp, with threads
                                                              <- ReadCacheProofs
```

**KVSet** is the abstract specification: a set of keys; an insert takes effect at
one instant between its call and its return and answers true exactly if the key
was absent at that instant; nothing ever removes a key; a scan changes nothing.

**ConcurrentTree** has one action for the code between two accesses to shared
memory whose order other threads can observe, and a program counter per thread
named after the steps. `readers`, `writer` and `writer_pending` are
`function_lock`, a TBB spin lock which we model from its use: a waiting writer
keeps new readers out (`AnnounceWrite`), so that readers cannot starve it.
`route[k]` is the leaf `find_insert` reaches for the key `k`; `content[l]` the keys
in the slots of the leaf `l`; `alt_ptr[l]` the leaf itself (its `P_Leaf`) or the
thread whose buffer it points to; `log[t]` the entries thread `t` appended.
`FreshNext` is what `malloc` may leave in the first leaf's `next`, which the
constructor does not set. Once a scan uses that pointer (or one out of a buffer
that is gone), its thread is in the program point `undefined` and takes no
further step: nothing is claimed of such runs.

*ConcurrentTreeInv* is the inductive invariant, with what holds besides of the chain of
leaves and of the scans that follow it. *ConcurrentTreeProofs* has the proof of the first part
and the proof that KVSet is implemented, *ConcurrentTreeScan* that of the second.

**CrashRebuild** composes a load, a crash at any point, and the recovery.
A leaf is here the set of the keys that its slots point to. On these sets, and on the claims, the
lock and the inner nodes, `quick_insert` takes the steps of `insert`, so that a rebuild is
again a run of ConcurrentTree: over the calls that the logs ask for (`Restart`), with
`abort()` where `insert` would answer false (`Abort`). What is written into a slot besides the
pointer is not in this model, so nothing here says that a `find` meets a key that is stored: that is
the subject of LeafRecovery. A crash may come again during
the rebuild, any number of times, and begins it anew from the same logs. `ReadBy` says
which log a thread of the new process reads. `torn` are the logs that the crash left
with an entry that counts (its version is written) and has no key yet, which is read
back as the key 0. The ghosts `called` and `promised` are the keys some insert was
called for, and those for which it answered true. The order of a log's entries is
left open in a rebuild, which covers any order in which the chunks are filed.

**DurableLog** is the abstract specification of one thread's log: a set of records,
appended one at a time; a crash, which may leave one record without a key if it
comes in an append; each record read once before the log counts as recovered. When the
allocator runs out of memory or hands out a chunk that is in use, the log has
`"stopped"`, and after a removal or an update nothing is promised (`"void"`).

**SegmentLog** implements it, with the headers and entries in the pool as they are
written. `Append` is the test for the end of the segment, `PutVersion` and `PutKey` the
stores; `GetMoreChunk`, `TakeSegment`, `TakeLeafChunk` and `AllocLeaf` are `N_alc`;
`Remove` and `Update` what the calls of that name do to the log. `Crash` loses all that
is not in the pool, and leaves in `decision_id` one of `FreshId`: the constructor of
`N_alc` sets `decision_id` and `end_address` only for a new file. `IgnoreRecover` files
the chunks in the order of their addresses, so that of two with one id the last stays.
`ReplayEntry` is one round of the loop in `recover`: the end of the segment for a version
0, `overrun` if the loop has left the segment, `aborted` for a key that was read before.
Reaching the end of the pool or a null chunk ends a run (`undefined`), and so does a
segment that starts within a chunk in use (`overlap`).

**LeafSlots** runs the operations one after the other on slots as the code lays
them out: a finger has a hash byte, an access count, a control field and a pointer into
`log`; a raw word is a key or a value. `HalfLeaf` is `split_leaf`, with the pairs
laid out from the top slot downwards, hot records first. `pending` carries an
insert that has split a leaf back to its start. The values are numbers that tell which
call wrote them, so that a stale one is told apart from a current one. *LeafSlotsProofs* has the
proofs about it.

**LeafRecovery** extends LeafSlots by a crash (`Crash`: an empty root leaf over whatever words `malloc`
returns, `FreshWords`) and by `quick_insert` of the logs' records in any order: `QuickAppend` writes the
fields of a finger that the code writes (`QuickFinger`) and keeps the control field of the word that was
there (`ControlBits`, six bits of a cached key or value too), `QuickSplit` is the split with
`finger_differ`, and `QuickAbort` the `abort()`. The inserts and finds that follow are those of LeafSlots,
with a control field followed wherever it leads (`WordAt`): `behind` is what the memory behind the slots,
where `max_key` is, may hold. Between two crashes only one thread is at work.

**ReadCache** is a leaf of `zbtree_r.cpp`, with one step per access of `find` to it:
`Look` and `Hit` search it, `Missed` and `Choose` look for room or for a pair found less
often (`Colder`), `Lodge…` and `Replace…` write the pair under the claim. `insert` is one
step once it has its claim; `Halve` is `split_leaf`, after which the left leaf is followed.
The slots behind the last (`Pos`) are the fields that `D_Leaf` has there. *ReadCacheProofs* has the
proofs about it.

**InnerIndex** has the nodes' arrays, with the slack entry (`key[MAX_LEAF_KEY]`),
and `splitInnerNode` in steps: `ShiftPtr`/`ShiftKey` move one separator up,
`PutKey` writes the new one, `Grow` raises `max_size` or goes on to
`CopyRight`, `ClearPtrs`, `Shrink`, and `NextLevel` or `GrowRoot`. Each store that a find can see is a step of its own, but a
`memset` or a `std::copy` is one, whatever its length. Splits of other
leaves (`SplitLeaf`) happen while a separator is under way, as in the code, where
they need no `function_lock`.

**LockFreeFind** extends InnerIndex by one find that reads one word per step
between any two of those steps. Its search of a leaf is one step. When the pointer it follows is null, or
leads to a leaf where the code takes it for an inner node or the other way round, the code reads words that
mean something else, or crashes: the find is `"wild"` from there on, takes no further step and has not
returned. `overtaken` is history: whether a node was split or the root replaced while the find was under
way. *InnerIndexProofs* has the
proofs about both.

Operators named after a definition with a suffix (`TryClaimBlindly`,
`ShiftPtrShort`, `CachedEver`, ...) are plausible mistakes in that definition: a
dropped guard, an off-by-one, a swapped order. No specification uses them. With
one of them in place of the definition a run must find its property violated:
`PROJECT.json` ("mutants") pairs each property with the mistake that it catches.

## What is checked

| Run | Instance | What it shows |
|---|---|---|
| `ct_load` | 3 threads, 5 keys (one inserted twice), leaves of 2 slots, up to 5 leaves | safety of insert, and that it implements KVSet |
| `ct_live` | 2 threads: 4 inserts of distinct keys, a scan of the whole tree and one of the last leaf, fair | the chain stays in order, a scan that claims its leaves misses nothing, its claims do not disturb insert, and every call returns |
| `cr_crash` | 2 threads, 4 keys (one inserted twice) and the key 0, a crash at any point, any number of crashes in the rebuild, each log read by the other thread | every answered insert has a slot where the inner nodes lead; `abort()` is reached only by half-written entries; the rebuild ends |
| `sl_log` | one log: 5 keys, 6 chunks carved by 2, segments of 3 entries, one `P_Leaf` per chunk, one removal or update, any number of crashes | every record is read back once; the loop over a segment stops in it; records stay; DurableLog is implemented |
| `lr_recover` | leaves of 4 slots, 5 keys; up to 6 calls of every operation; or keys loaded, recovered in any order over blank or used memory, a second crash at any point, two calls after a recovery | no two slots lead to one record, removals and updates included; every recovered record gets one slot of the right leaf; only fingers that `quick_insert` wrote and no split has moved have wrong control fields; `abort()` is reached only by a key that the log has twice |
| `ls_wide` | inserts and finds only: leaves of 8 slots, 13 keys in ascending order, up to 3 finds after the first split | every record is stored once; two cached pairs per half, ranked by what was found, given up one by one; answers are right |
| `rc_cache` | one thread, a leaf of 8 slots, 9 keys, up to 4 calls among the inserts | the cache stays between the fingers and the end of the slots, believed pairs and answers are right |
| `ix_find` | inner nodes of 2 separators, 8 keys and leaves, one split waiting while another is inserted; finds as long as keys 5 to 8 are in one leaf | the inner nodes compute the routing that ConcurrentTree assumes, up to three levels; a find stays inside nodes; it comes to a wild pointer only if a node was split or the root replaced during it, and returns otherwise, even if the writer stops |

The four listed `bug_` runs are in [the section on deviations](#where-the-code-does-not-do-what-it-says).
One more configuration passes: `ls_cache` (MCLeafSlots, leaves of four slots, five keys of which
four share a hash byte, up to eight inserts and finds in every order) checks `SlotsIInv`, the
invariant behind the proofs about LeafSlots.
The other inductive invariants (`IInv`, `ScanIInv`, `CrashInv`, `LogInv`) can be added to the configuration
of the run on their module; they are proved, and no run repeats them.

**Why the bounds are enough to be interesting.** Two slots per leaf is the smallest even
size: every third insert splits, a leaf is split while its neighbour is, and the
root leaf, the first root and an inner node all get split. Three threads allow
one to hold a claim, one to wait for `function_lock` and one to pass. Inner nodes of two
separators are the smallest `splitInnerNode` can halve, and eight leaves reach a third level.
In `lr_recover` and `ls_cache` four slots per leaf give one cached pair per half, in `ls_wide` and
`rc_cache` eight give two, with different ranks. The hash bytes are chosen to collide, so
the fingers never decide by themselves.

In `sl_log` a segment of three entries holds two records and the entry that must stay
unused: `Slots` is 2^21 - 2 in the code, and `TailSlots` the entries at the end of a segment
for which `n_free` would find the next chunk. Five keys fill three segments, so that the
log carves chunks of its own (`Batch` is 4 in the code); with `LeavesPerChunk` 1 every
`P_Leaf` takes a chunk, and the log's chunks lie between those of the `P_Leaf`s. Of
`FreshId`, 0 is what a new mapping reads and 9 stands for a number above all ids. The
keys of `sl_log` are interchangeable, and declared a symmetry, which is sound for its
properties: the only temporal ones are action properties and a refinement without fairness,
and no definition tells keys apart. In `cr_crash` both
threads can be in `append_one` when the crash comes.

In `lr_recover` the bits 8 to 13 of the keys 769, 770 and 10241, where a control field lies, are 3, 3 and
40: a cached pair that becomes a finger leads to a slot, or behind the slots. `FreshWords` has a blank word and one
with such a field. `MaxCrashes` is 2. The first crash comes after a load of keys in
ascending order with nothing else called (`CrashAfterLoad`, in `bug_quick_insert` `Loading`): the recovery begins from
an empty leaf whatever the load was like, and only the set of the records matters to it.

In `ix_find` a find sees the root replaced and inner nodes split already in the trees of two levels; eight leaves are
needed for a third level; `FindsEarly` keeps finds to the trees that split among the first five keys.

`MaxCalls`, `MaxCrashes`, `MaxWaiting`, `MaxDisturb`, `PoolChunks`, `Workload`, the sizes of `Leaf` and
`Node`, and `Ascending`, `Descending`, `CrashAfterLoad`, `Loading` (the order of the inserts in `ls_wide`,
`rc_cache` and `lr_recover`, and which calls come among them) and `FindsEarly` are the only bounds. There are always as
many leaves and nodes as the keys can use, so that running out of them never hides a step.
The pool of `sl_log` can run out, which is one of the things it checks.

**Fairness.** `FairSpec` assumes weak fairness of each thread's `Step`: the
scheduler lets every thread run. That suffices because a waiting writer keeps
new readers out, and because each thread makes finitely many calls. `ct_live` uses distinct keys,
since an insert of a stored key leaves its leaf claimed (see below) and the threads behind
it then wait for ever. `FairFindSpec` assumes only that the finder
runs; the writer may stop anywhere: find waits for nobody in its descent. `FindReturns` claims that it
returns unless it becomes wild, and `WildOnlyInSplit` when it may. `CrashFairSpec`
assumes the same of the threads of a rebuild and of nothing else: the load may stop, and
`RebuildEnds` promises an end only if crashes do. A rebuild has no waiting for a
leaf that stays claimed, since a duplicate aborts it.

**Deadlock** is checked in every run but `bug_duplicate`, where waiting for ever
is the consequence of what the run shows. `Done`, `Finished` and `Stopped` are the stutters
when all work is done, or when a run has reached something undefined.

`ClaimingScanComplete` is about the part of
scan that does keep its promise: a scan
that reaches the end of the chain and never took the fast path has every record
at or above its start key that was stored when it was called, whatever was split
meanwhile. Without the condition on the fast path (`ScanComplete`) it is violated, see below.

`ReplayStaysInSegment` and `RecordsStay` are about the same line: `append_one` adds the length of
the value to the entry's when it tests for the end of a segment (`zbtree.cpp:217`), though the value
is within the entry. That sum is what keeps the last entry of a segment unused; the loop in
`recover` would otherwise go on past the segment, as its own bound is a number of bytes that
it compares with a number of entries (`:1815`). An update, which passes length 0, does not get
to that entry either.

`rc_cache` has one thread because with two threads the code does not keep the cache right:
see `bug_find_unclaims`, `bug_find_mixes` and `bug_cache_end` below. With one thread the
finds, the splits and a leaf left claimed by a duplicate still meet in every order within its bounds.
The proofs go further: they allow any number of threads, as long as no find overlaps another call.

## What is proved

All for any set of threads, leaves, keys and any workload, and any even `MAX_LEAF_KEY` (the five
`ASSUME`s of ConcurrentTree: the keys a finite set of natural numbers), for any
numbering of the threads of the new process that reads each log once (`EachLogIsRead`), and for any sizes of pool, batch,
segment and chunk of `P_Leaf`s (`PoolAssumption`); LeafSlots for any set of positive keys, any hash function and any even `MAX_LEAF_KEY`; ReadCache for any keys (from 1 to 99, so that a value is told apart from a key), any hash function
and any even `MAX_LEAF_KEY` up to 64, which a control field of six bits can address; InnerIndex and LockFreeFind for any finite set of keys
(words, of which the largest is not a key, since `0xff` in every byte stands for an unused separator), any leaves and nodes, any even size of a
node and any number of levels and of leaves being split at a time. `BlankKeyIsAKey` says that the key 0, as which
unused memory reads, is one of the keys:

| Theorem | States |
|---|---|
| `Invariance` | `IInv` always holds |
| `TypeCorrectness` | every variable keeps its type |
| `LeafMutualExclusion` | no two threads in one leaf's critical section |
| `RouteValid` | what was read under `function_lock` stays right after it is released |
| `RecordsRouted` | every record is where the inner nodes lead, or in the right half of a split |
| `SplitsHaveBuffers` | a leaf marked 2 has a live buffer with the records of both halves |
| `CapacityRespected` | no leaf has more records than slots |
| `KeysLoggedOnce`, `StoredLogged`, `LogsNamePLeaves` | one log entry per key, before its slot is published, naming a `P_Leaf` |
| `Refinement` | insert and scan implement KVSet |
| `ChainInvariance` | `ScanIInv` always holds: `IInv`, and what the chain and the scans rely on |
| `ChainInOrder` | the chain of leaves is in key order, also while leaves are being split |
| `ClaimingScansMissNothing` | a scan that only read leaves it had claimed has, at the end of the chain, every record it was called with |
| `CrashInvariance` | `CrashInv` always holds, through any number of crashes |
| `PromisesDurable` | an insert that has answered true is in the logs a crash leaves |
| `RebuildStores` | after a rebuild every such record has a slot in the leaf that the inner nodes lead to (not that a find believes what the slot says, see `bug_quick_insert`) |
| `AbortsOnlyOnClash` | a rebuild aborts only if half-written entries make the key 0 come twice |
| `LogInvariance` | `LogInv` always holds |
| `ReplayIsBounded` | the loop over a segment ends inside it, whatever was removed or updated |
| `LogReplayed` | a recovered log has given back every record appended to it, and no other but a half-written one |
| `RecordsRemain` | a record in the log is not written to again, and its chunk stays a segment's, as long as nothing is removed or updated |
| `LogRefinement` | one thread's log implements DurableLog |
| `TypeCorrect` | the variables of LeafSlots keep their types: a finger in use points into the log, whatever is called |
| `OwnedOnce` | no two slots in use point to one record, updates and removals included |
| `SlotsInductive` | `SlotsIInv` always holds (\*) |
| `CachedPairsRight` | a pair that find or insert would believe is its record (\*) |
| `RecordStoredOnce` | a record is in exactly one slot, of the leaf the separators lead to (\*) |
| `AnswersRightOrNull` | insert and find answer what they should, or the find has met an unused slot of a root leaf (\*) |
| `AnswersRight` | insert and find answer what they should, if no key has the hash byte 0 (\*) |
| `IndexInvariance` | `IInv` of InnerIndexProofs always holds: the words of the nodes show a tree |
| `TypeCorrect` (InnerIndexProofs) | the nodes keep their types: none grows past its slack entry |
| `Routing` | when `function_lock` can be taken, `find_insert` leads a key to its leaf, or to the left half of one that is being split |
| `SeparatorPerLeaf` | one separator for every leaf but the first and those still waiting for theirs |
| `WellFormed` | no node is empty or too large, separators ascend, all nodes allocated are in the tree |
| `FindInNode` | a find never reads behind the arrays of a node, whatever is written meanwhile |
| `CacheInvariance` | `IInv` of ReadCacheProofs always holds (\*\*) |
| `CacheTyped` | the slots of ReadCache keep their form: no control field outgrows its six bits, or leads out of the leaf (\*\*) |
| `CacheStays` | no pair is written over a finger or behind the last slot (\*\*) |
| `PairsRight` | while no pair is being written, a control field that is believed leads to its record's key and value (\*\*) |
| `CacheAnswersRight` | find answers with the value of its key exactly if it is there, insert with true for a new key (\*\*) |
| `LeafOwnedOnce` | a leaf is one thread's at a time (\*\*) |
| `OneThreadIsEnough` | the four invariants of `rc_cache` hold for one thread, whatever the leaf's size, the keys and the number of calls |

(\*) with `OnlyAdded`: any calls but `update` and `simply_remove`, which break these properties
(`bug_update`, `bug_remove_other`, `bug_remove_pair`).

(\*\*) with `FindsAlone`: no find overlaps another call, inserts may overlap each other; a find that overlaps
another find or an insert breaks these properties (`bug_find_unclaims`, `bug_find_mixes`, `bug_cache_end`).

**The argument for insert.** That a key is never stored twice depends on the whole protocol, so none
of these is inductive alone. `IInv` stacks up as follows. `function_lock` has readers or one
writer (`LockInv`). `temp_insert` says who is in a leaf (`ClaimInv`), in particular
that a leaf whose `alt_ptr` is still to be restored cannot be claimed by an insert,
because the splitting thread holds `function_lock` for writing until then; a
scan can claim it. Hence the claim an insert took under `function_lock` keeps the
route of its key after the release: only the claimer can split the leaf, and
other splits reroute keys of other leaves (`RouteInv`). Hence a split parts the records at
`split_key`, all of them routed to the left leaf (`SplitInv`, `RightLeafInv`), and
`RecordsAreRouted` survives it. Hence a key the claimer did not find in its leaf
is in no leaf at all, and in no log (`NewKeyInv`, `LogInv`), and publishing it is
KVSet's `Insert`. Each conjunct has its own `...Step` lemma, with one case per action.

**The argument for the chain and for scan.** `KeysOf[l]` are the keys that lead to the leaf `l`, stored or not, where
the upper half of a split already counts for the new leaf: so only `split_leaf` changes it, and the
separator that reaches the inner nodes later changes nothing (`SteadyStep`). Each leaf's keys are an
interval (`ConvexInv`), and where one ends the leaf behind `next` begins (`LinkInv`), which is stronger than
`ChainOrdered` and, unlike it, inductive: it says that no key falls between two leaves. A split leaves the
bounds between the old leaves where they are (`BoundsStay`), provided that neither half is empty
(`HalvesInv`). So what a scan still owes stays at or behind the first key of the leaf it has found but not
yet claimed (`Expects`); what it does not find in the leaf once it has claimed it is behind the leaf
(`ReadLeaf`), hence in the next one or further; and behind the last leaf there is nothing.

**The argument for a crash.** `CrashInv` adds to `IInv`, which holds in a rebuild as in a load,
where each record is. In a load whatever was promised is stored, and by `IInv` what is stored is
logged: hence the crash finds it in a log. The logs that a crash keeps name every key once (`DurableInv`,
from `LoggedOnce`). In a rebuild every entry is in one place: unread, or with the thread that inserts it, or
stored (`InOnePlace`), so that no thread meets its key in a leaf, unless the key is the 0 that a
half-written entry brings. Nothing is lost between the places (`RebuildInv`), hence when no thread has
anything left to do every entry is stored.

**The argument for a log.** `TypeOK` and `TailInv`, the unused last entry, hold always. The rest
(`CalmInv`) holds until something is removed or updated: the chunks in use have ids that differ
(`MemoryInv`), though the id in a header is one more than the one the chunk is filed under, because
`decision_id` counts them through (`UseInv`, `ListInv`); hence `ignore_recover` files all of
them, none in the place of another. A segment is filled from its start (`WriteInv`), so an entry that
does not count ends it. `ReadInv` says of a recovery which entries have been read, from which
`LogReplayed` follows when the last segment is done. `RefiledInv` says why nothing can be
written after a recovery: each log chunk that is filed then is in use, and no chunk can be carved.

**The argument for the implementation of DurableLog.** The mapping is `LogState`, `LogRecords` and `LogRead`
of SegmentLog: the records are the entries in the pool that count, without the one whose key is still to be
stored, so that storing the key is the abstract `Append`; a crash before it adds the record without a key. A round of the
recovery's loop over a segment is a `Read`, or the end, or a stutter, and nothing else in SegmentLog is seen.

**The argument for the slots.** A finger's control field is compared with `max_use`, not with anything in the pair, so
`CachedPairsAreRight` needs to know where pairs are. `TypeOK`, `RecordsOwnedOnce`, `RecordsInv` and the pairs together are
inductive. An append writes at `max_use`, which lies below every pair still believed, since from then on
`control` has to be at least `max_use + 1` (`AppendKeeps`). A split gives the records it ranks first the places
`MAX_LEAF_KEY - 2 .. LEFT_KEY`, a different one each because `Rank` numbers a half without gaps (`Ranking`), and leaves the
control field of the others at 0, below `max_use` (`Halved`, `SplitKeeps`). The sort is the numbering of the slots
by `Position` (`Numbering`, `Sorting`), so a slot of either half comes from one slot of the full leaf and conversely
(`SplitOrigins`): nothing is stored twice or lost, and `SplitKey` falls between the halves because no two
records have one key. A removal moves the last finger, which has one origin too; that is all `OwnedOnce` needs. The
separators count how many leaves lie to the left of a key, so `Route` is the only leaf whose bounds the key is `Between`
(`Routing`), and a search that finds the key there, by a pair or by the log, has found its record (`Found`, `DuplicateIsStored`).

**The argument for the inner nodes.** The nodes alone say too little for an induction: in the middle of
`splitInnerNode` the tree they form is broken, and which keys belong below a node is written nowhere. `IInv` of InnerIndexProofs
therefore claims that there is a tree `T`, with an interval of keys and a height for every leaf and node, which
satisfies `Tree`, and of which the variables show all (`Shown`) but the entries that are being moved in the node at
work (`Moved`, `Cleared`). A split, of a leaf or a node, opens a gap (`Opened`): the right half exists, holds the upper keys
(`hi` of the left half ends at the separator), and is reached by no pointer, so that the left half is still led to all of them (`xhi`).
A gap is closed when its separator counts, that is at `max_size++` (`GrowTree`), at the write of a new root (`OverRoot`), and not before: none of the
shifts changes `T`. When a node is split, `T` changes at the one step that makes the right half (`HalvesTree`); clearing and shrinking the left half
only make the node show what `T` has already. The gap that the thread under `function_lock` is at and those of the leaves in
`waiting` never meet (`NoGapAt`), which is what lets other leaves be split meanwhile. The path is found again under
the lock and ends at the left half of the split (`SplitIsFound`), since each step down goes to the child whose interval has the key
(`NodePosFacts`, `StepDown`); the path is a recursive function, and that it exists and goes to any level is shown by a least counterexample
(`LowestOf`, `PathExists`, `Route`). `SeparatorPerLeaf` counts with a bijection from separators and gaps to the leaves but the first
(`SourcesAreLeaves`). A find relies on much less: a pointer in a node is null or to something allocated (`NextPtrs`), and `max_size`, read once,
is at most one more than `MAX_LEAF_KEY` at every instant (`NodeSizes`). TLC has checked `IInv` on the instance of `ix_find` without finds, with `T` as a history variable.

**The argument for the cache of `zbtree_r.cpp`.** A find claims the leaf only when it has already decided where to write: that there is
room, or which pair to replace. `Here` says for each access of a call what it relies on, and holds because nothing can happen in
between: of a find by assumption (`FindsAlone`), of an insert because `temp_insert` is 1 or 2 from its claim to its release and
nobody else claims the leaf then (`OneOwner`, `AloneInStep`). `PairsAreRight` says nothing while a leaf is claimed, so it is not inductive; `PairsInv`
holds always. It excepts the one pair that is being written (`Writing`), puts every pair below `compact_use` but the one that
is being lodged (`Lodging`), and keeps pairs two slots apart, without which writing one could change another's words. A replacement
takes over the place of the colder pair in the step in which that loses its control field (`ReplaceInv`), so the places stay
apart. An append writes at `max_use` and raises it: every pair still believed lies above (`AppendInv`). After a split none is believed: the control fields
are 0 and `max_use` is `LEFT_KEY`, which is more (`HalveInv`). That the left half has `LEFT_KEY` different keys comes from the ranks
of a finite set (`Ranks`) and from there being as many keys as fingers (`StoredCount`). A search has seen no key of its own among the fingers
behind it, so one that ends has missed nothing. TLC has checked `IInv` on the instance of `rc_cache`, and with two threads on the states that `FindsAlone` allows.

**Only model-checked.** `EveryCallReturns`, `FindReturns` and `RebuildEnds`, since TLAPS has no rules for
liveness under fairness; `WildOnlyInSplit`, whose proof would have to relate what a find has read to a tree that has
changed since; and the properties of LeafRecovery (`RecoveredOnce`, `StaleUntilSplit`, `AbortsForDuplicate`).
Every other property of a run that passes is stated by a theorem.

## Where the code does not do what it says

Each of these configurations checks one sentence of the code's comments or interface
against what the code does, and is violated. The first four are listed as findings and run
as `bug_…` runs; the others are kept beside them, and each is violated within a minute.

| Configuration | Module | What happens |
|---|---|---|
| `bug_duplicate` | MCConcurrentTree | both returns of insert's duplicate search (`zbtree.cpp:778`, `:784`) leave `temp_insert` at 1: the "critical section" (`:763`) is never left |
| `bug_torn` | MCCrashRebuild | the version of an entry is stored before its key (`:242`, `:245`): two logs that a crash cuts in between both bring the key 0, and `quick_insert` aborts (`:1983`) |
| `bug_segment_reuse` | MCSegmentLog | `bitmap` ("size allocated", `n_alc.cpp:266`) is a mark for a log chunk (`:350`) and added to its start all the same (`:345`): the first segment asked for after a recovery is one in use, from the middle of an entry on |
| `bug_quick_insert` | MCLeafRecovery | "re-construct the tree from nothing" (`:1780`): `quick_insert` does not reset `control_bit` of a new finger (`:1997` to `:2002`, `insert` does at `:823`), which keeps six bits of the word that was there; find believes them (`:592`) and misses the record. An insert may believe them too (`:774`) and store the key again, and the next recovery aborts |
| `bug_find_null` | LockFreeFind | find reads `max_size` once (`:507`); a node split in between sets the upper keys to `0xff` and the upper pointers to null (`:1474`, `:1475`): the find runs on to its old `end` and follows null (`:538`), what the check in the comment at `:528` asks for |
| `bug_free_chunk` | MCSegmentLog | `n_free` erases the id in the header (`n_alc.cpp:377`), which is that of the next chunk: the chunk to be taken next is not filed any more |
| `bug_scan_buffer` | MCConcurrentTree | scan's fast path reads `alt_ptr` some time after it tested `temp_insert` (`:1037`, `:1042`): the buffer may be gone |
| `bug_scan_twice` | MCConcurrentTree | scan reads `next` after it let the leaf go (`:1090`, `:1092`): a split in between makes it return records twice |
| `bug_scan_start` | MCConcurrentTree | scan returns records below `start_key`: the comparison is commented out (`:1077`), `all_tree.hpp:89` says it starts there |
| `bug_scan_skips` | MCConcurrentTree | the fast path reads the buffer of both halves, then follows `next` (`:1055`, `:1097`), and skips or repeats |
| `bug_scan_null` | MCConcurrentTree | scan tests `leaf_meta` once (`:1035`) and not after `:1092` |
| `bug_first_next` | MCConcurrentTree | the constructor never sets `next` of the first leaf (`:396`): the chain does not end in null |
| `bug_update` | MCLeafSlots | "update val ptr" (`:939`): the pointer of a record with `access_bit` 0 stays at the old entry (`:985`), and a cached pair keeps the old value (`:1004`). An update of a key that is absent may answer true as well, on a hash byte alone |
| `bug_find_root` | MCLeafSlots | find in a root leaf looks at slots never used: a hash byte 0 matches, and a null pointer is followed (`:479`). After a removal it may find the removed record there |
| `bug_remove_other` | MCLeafSlots | simply_remove computes the start of its log entry in steps of 4 bytes (`:1135`) and invalidates another key's entry |
| `bug_remove_pair` | MCLeafSlots | simply_remove lowers `max_use` (`:1151`): a pair overwritten by a finger is believed again (`:592`) |
| `bug_remove_chunk` | MCLeafSlots | simply_remove frees the whole log chunk (`:1146`, `n_alc.cpp:375`) |
| `bug_scan_values` | MCLeafSlots | scan takes a cached value from `i + LEFT_KEY` (`:1069`), a layout that `split_leaf` does not make |
| `bug_find_missed` | LockFreeFind | a split that begins and ends between find's descent and its test of `temp_insert` (`:557`) hides the right half; `version_before` (`:552`) is never compared |
| `bug_find_leaf` | LockFreeFind | `temp_level` and `root` are written one after the other (`:905`, `:1503`): find may take an inner node for a leaf |
| `bug_find_unclaims` | MCReadCache, 2 threads | find that finds no pair to replace resets `temp_insert` without having set it (`zbtree_r.cpp:681`): the insert that is in the leaf (":832 enter critical section") is not alone any more |
| `bug_find_mixes` | MCReadCache, 2 threads | find reads a cached key and then its value without a claim (`zbtree_r.cpp:617`, `:625`): the pair may have been replaced in between, and the value is another key's |
| `bug_cache_end` | MCReadCache, 2 threads | room for a pair is tested before the leaf is claimed (`zbtree_r.cpp:634`): the second of two finds writes its pair behind the last slot |

Other things the code relies on, which the models take as they are:

- `EADR` and `IGNORE` are defined in the sources. `RECOVERY`, without which a restart does not
  recover, is not set by the Makefile, and the test for a file in the constructor looks at another path
  than the one it opens; SegmentLog and CrashRebuild are about builds in which `recover` is called.
- A new `N_alc` on an existing file leaves `decision_id` and `end_address` as `new` gave them: `FreshId`
  stands for the first, null for the second.
- `recover` tests whether `alt_ptr` of the new root leaf is null, which nothing has set (`:1798`);
  the model takes it to be null, the value with which the code goes on to give the root its `P_Leaf`.
- Threads number themselves by `gettid()` modulo the number of threads. Two with one number would share a
  log; the models give each thread its own, and `EachLogIsRead` says so.
- The Makefile does not build `zbtree_r.cpp`.

## What is not modelled

- **Recovery after the return at `zbtree.cpp:1836`** (`recover_init`, the hash table of `P_Leaf`s, `replay`,
  `bulkload`): it cannot be reached while `IGNORE` is defined. **Bulk load** has no other caller.
- **`D_alc`**, which is behind `DALC` and not compiled, and the streaming copies and flushes of
  `pm_util`, which are no steps of their own with `EADR`.
- **find, update and simply_remove together with other threads** in `zbtree.cpp`: find's descent is
  (LockFreeFind), its search of a leaf and the two writers are sequential (LeafSlots). That search reads a
  word and may write it back with a higher count: with a split or an insert in between, the
  old finger comes back (listed as a hazard).
- **quick_insert by several threads at the level of the slots**: LeafRecovery has one thread, and no updates or
  removals before the crash. A claimed leaf is its claimer's alone there as in CrashRebuild. The root leaf that
  `malloc` returns has the same words in all slots.
- What a find does after a wild pointer, which depends on words that mean something else.
- In `simply_remove` what it does when the leaf becomes empty, and in `update` the
  descent from a root leaf (`temp_level - 1` wraps around at `:946`).
- `scan`, `update` and `simply_remove` of `zbtree_r.cpp`, which are those of `zbtree.cpp` word for word; the right
  leaf of a split there, which starts with the same invariants as the left.
- `max_key` of the leaves, which nothing but bulk load reads; versions, hints,
  prefetches and statistics.
- The code never called (`beforeMerge`, `mergeInnerNode`, the commented `remove`), the
  benchmark, and the **baselines** with their vendored libraries: these are nine tenths of
  the repository's lines, other indexes that the paper compares with, and no part of ZBTree. What is
  modelled is a large part of `zbtree.cpp`, of `n_alc.cpp` and of the code in `zbtree_r.cpp` that differs.

## Plan

What could come next, most important first:

1. The search of a leaf by `find` of `zbtree.cpp`, write by write against insert and split, in the
   manner of ReadCache: the write-back of `access_bit`, a pair read in two reads.
2. `update` and `simply_remove` as actions of ConcurrentTree, claims included.
3. Proofs: `RecoveredOnce` and `StaleUntilSplit` from the lemmas of LeafSlotsProofs; `RebuildStoresAll` for logs with
   removals; `WildOnlyInSplit`; and from `Routing` that InnerIndex implements `route` of
   ConcurrentTree step by step, as a refinement.
4. CrashRebuild with the logs of SegmentLog in the place of sequences, so that the end
   of a pool and a reused segment are part of the composed model.
5. `qsort` and `bulkload` as pure algorithms against a reference definition, should the
   part of `recover` that calls them be enabled.

## Running the checks

```
tlc -config ct_load.cfg MCConcurrentTree     # likewise ct_*, bug_duplicate, bug_scan_buffer, _twice, _start, _skips, _null, bug_first_next
tlc -config cr_crash.cfg MCCrashRebuild      # likewise bug_torn
tlc -config sl_log.cfg MCSegmentLog          # likewise bug_segment_reuse, bug_free_chunk
tlc -config ls_wide.cfg MCLeafSlots          # likewise ls_cache, bug_update, bug_find_root, bug_remove_*, bug_scan_values
tlc -config lr_recover.cfg MCLeafRecovery    # likewise bug_quick_insert
tlc -config rc_cache.cfg MCReadCache         # likewise bug_find_unclaims, bug_find_mixes, bug_cache_end
tlc -config ix_find.cfg MCLockFreeFind
tlc -config bug_find_null.cfg LockFreeFind   # likewise bug_find_missed, bug_find_leaf
tlapm ConcurrentTreeProofs.tla               # about three minutes
tlapm ConcurrentTreeScan.tla
tlapm CrashRebuildProofs.tla
tlapm SegmentLogProofs.tla                   # about a minute
tlapm LeafSlotsProofs.tla                    # about five minutes
tlapm ReadCacheProofs.tla                    # about two minutes
tlapm InnerIndexProofs.tla                   # about five minutes
```
