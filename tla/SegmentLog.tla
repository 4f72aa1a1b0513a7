------------------------------ MODULE SegmentLog ------------------------------
(***************************************************************************)
(* The log of one thread, DSeg, in the chunks of its allocator, N_alc; a   *)
(* crash; and the recovery of that log, N_alc::ignore_recover and the loop *)
(* over the chunks in Tree::recover.                                       *)
(*                                                                         *)
(* A pool is a row of chunks of equal size.  end_address is the next one   *)
(* to be carved.  A chunk holds P_Leaves (NODE_BLK) or one log segment     *)
(* (LOG_BLK).  nfree_list and nlog_list file chunks under ids; decision_id *)
(* is the id that is allocated from, page_id the next id to be given.      *)
(* Headers and entries are persistent, in program order since stores to    *)
(* the pool need no flush (EADR); all the rest is lost in a crash.         *)
(*                                                                         *)
(* A segment is Slots entries long.  An entry counts if its version_number *)
(* is not 0: insert writes the length of the value there, update writes 0. *)
(***************************************************************************)
EXTENDS Integers, FiniteSets

CONSTANTS Key,            \* the keys
          Blank,          \* the key that is read from unused memory
          PoolChunks,     \* how many chunks a pool has
          Batch,          \* how many are carved at a time, 4 in the code
          Slots,          \* entries of 32 bytes per segment, 2^21 - 2
          TailSlots,      \* how many of them are behind a multiple of 2^26
          LeavesPerChunk, \* P_Leaves of 32 bytes per chunk
          FreshId,        \* what a new N_alc may find in decision_id
          MaxDisturb,     \* bound on the removals and updates
          NoChunk         \* null, and an end_address that was never set

ASSUME KeyAssumption == Blank \notin Key
ASSUME PoolAssumption ==
    /\ PoolChunks \in Nat /\ Batch \in Nat \ {0} /\ 2 * Batch <= PoolChunks
    /\ Slots \in Nat \ {0, 1} /\ TailSlots \in 0 .. Slots
    /\ LeavesPerChunk \in Nat \ {0}
    /\ MaxDisturb \in Nat
    /\ FreshId \subseteq Nat
    /\ NoChunk \notin Nat

Chunk == 0 .. PoolChunks - 1
Slot == 0 .. Slots - 1
Kind == {"node", "log"}
Id == 0 .. PoolChunks + MaxDisturb
EntrySize == 32
ValueLen == 8
InUse == 114514     \* what bitmap is set to for a log chunk

VARIABLES block_type, block_id, bitmap,   \* the headers of the chunks
          version, entry_key,             \* the entries
          list, page_id, decision_id, end_address, \* N_alc
          log_vec, temp_offset,           \* DSeg; temp_offset in entries
          pc, want, key, len,             \* the thread, and its call
          place,                          \* what fingers point to
          reading, pos, unread, replayed, \* recover
          called, acked, disturbed        \* keys asked for and appended

headers == <<block_type, block_id, bitmap>>
entries == <<version, entry_key>>
alloc == <<list, page_id, decision_id, end_address>>
seg == <<log_vec, temp_offset>>
local == <<want, key, len>>
rec == <<reading, pos, unread, replayed>>
ghost == <<called, acked, disturbed>>
vars == <<headers, entries, alloc, seg, pc, local, place, rec, ghost>>

(* N_alc::init has carved Batch chunks of either kind.                     *)
Init ==
    /\ block_type = [c \in Chunk |-> CASE c < Batch -> "node"
                                       [] c \in Batch .. 2 * Batch - 1 -> "log"
                                       [] OTHER -> "none"]
    /\ block_id = [c \in Chunk |-> CASE c < Batch -> c
                                     [] c \in Batch .. 2 * Batch - 1 -> c - Batch
                                     [] OTHER -> 0]
    /\ bitmap = [c \in Chunk |-> 0]
    /\ version = [c \in Chunk |-> [s \in Slot |-> 0]]
    /\ entry_key = [c \in Chunk |-> [s \in Slot |-> Blank]]
    /\ list = [k \in Kind |-> [i \in Id |->
                  IF i >= Batch THEN NoChunk ELSE IF k = "node" THEN i ELSE Batch + i]]
    /\ page_id = [k \in Kind |-> Batch]
    /\ decision_id = [k \in Kind |-> 0]
    /\ end_address = 2 * Batch
    /\ log_vec = NoChunk /\ temp_offset = 0
    /\ pc = "idle" /\ want = "log" /\ key = Blank /\ len = 0
    /\ place = [k \in Key |-> <<0, 0>>]
    /\ reading = NoChunk /\ pos = 0 /\ unread = {} /\ replayed = {}
    /\ called = {} /\ acked = {} /\ disturbed = 0

----------------------------------------------------------------------------
(* Calls.  update is given a key that was never looked up: it appends.     *)

Insert(k) ==
    /\ pc \in {"idle", "rebuilt"}
    /\ k \notin called
    /\ called' = called \cup {k}
    /\ key' = k /\ len' = ValueLen
    /\ pc' = "append"
    /\ UNCHANGED <<headers, entries, alloc, seg, want, place, rec, acked, disturbed>>

Update(k) ==
    /\ pc = "idle"
    /\ k \in acked
    /\ disturbed < MaxDisturb
    /\ disturbed' = disturbed + 1
    /\ key' = k /\ len' = 0
    /\ pc' = "append"
    /\ UNCHANGED <<headers, entries, alloc, seg, want, place, rec, called, acked>>

----------------------------------------------------------------------------
(* DSeg::append_one.                                                       *)

\* Fault: the segment is left when it is full to the last entry.
AppendLate ==
    /\ pc = "append"
    /\ \/ /\ \/ log_vec = NoChunk
             \/ EntrySize * (temp_offset + 1) > EntrySize * Slots
          /\ want' = "log" /\ pc' = "get_free_block"
       \/ /\ log_vec # NoChunk
          /\ EntrySize * (temp_offset + 1) <= EntrySize * Slots
          /\ pc' = "put_version" /\ UNCHANGED want
    /\ UNCHANGED <<headers, entries, alloc, seg, key, len, place, rec, ghost>>

\* Fault: the offset starts over and the segment is kept.
AppendWrapping ==
    /\ pc = "append"
    /\ \/ log_vec = NoChunk /\ want' = "log" /\ pc' = "get_free_block"
          /\ UNCHANGED temp_offset
       \/ log_vec # NoChunk /\ pc' = "put_version" /\ UNCHANGED want
          /\ temp_offset' = IF temp_offset + 1 >= Slots THEN 0 ELSE temp_offset
    /\ UNCHANGED <<headers, entries, alloc, log_vec, key, len, place, rec, ghost>>

SegmentFull == EntrySize * (temp_offset + 1) + len >= EntrySize * Slots

Append ==
    /\ pc = "append"
    /\ \/ /\ log_vec = NoChunk \/ SegmentFull
          /\ want' = "log" /\ pc' = "get_free_block"
       \/ /\ log_vec # NoChunk /\ ~SegmentFull
          /\ pc' = "put_version" /\ UNCHANGED want
    /\ UNCHANGED <<headers, entries, alloc, seg, key, len, place, rec, ghost>>

(* The version makes the entry count, then it gets its key.                *)
PutVersion ==
    /\ pc = "put_version"
    /\ version' = [version EXCEPT ![log_vec][temp_offset] = len]
    /\ pc' = "put_key"
    /\ UNCHANGED <<headers, entry_key, alloc, seg, local, place, rec, ghost>>

PutKey ==
    /\ pc = "put_key"
    /\ entry_key' = [entry_key EXCEPT ![log_vec][temp_offset] = key]
    /\ temp_offset' = temp_offset + 1
    /\ IF len = 0 THEN UNCHANGED <<place, acked>>
       ELSE /\ place' = [place EXCEPT ![key] = <<log_vec, temp_offset>>]
            /\ acked' = acked \cup {key}
    /\ pc' = "idle"
    /\ UNCHANGED <<headers, version, alloc, log_vec, local, rec, called, disturbed>>

----------------------------------------------------------------------------
(* N_alc.                                                                  *)

Filed == IF decision_id[want] \in Id THEN list[want][decision_id[want]] ELSE NoChunk

(* get_more_chunk carves the next chunks, and writes their headers.        *)
GetMoreChunk ==
    /\ pc = "get_free_block" /\ Filed = NoChunk
    /\ end_address # NoChunk /\ end_address + Batch <= PoolChunks
    /\ LET new == end_address .. end_address + Batch - 1
           id(c) == page_id[want] + c - end_address
       IN  /\ bitmap' = [c \in Chunk |-> IF c \in new THEN 0 ELSE bitmap[c]]
           /\ block_id' = [c \in Chunk |-> IF c \in new THEN id(c) ELSE block_id[c]]
           /\ block_type' = [c \in Chunk |-> IF c \in new THEN want ELSE block_type[c]]
           /\ list' = [list EXCEPT ![want] = [i \in Id |->
                 IF i - page_id[want] \in 0 .. Batch - 1
                 THEN end_address + i - page_id[want] ELSE list[want][i]]]
    /\ page_id' = [page_id EXCEPT ![want] = @ + Batch]
    /\ end_address' = end_address + Batch
    /\ pc' = "grown"
    /\ UNCHANGED <<entries, decision_id, seg, local, place, rec, ghost>>

\* headers are written past the pool, or no chunk is filed: null is followed
LosesItsWay ==
    \/ /\ pc = "get_free_block" /\ Filed = NoChunk
       /\ end_address # NoChunk => end_address + Batch > PoolChunks
    \/ pc = "grown" /\ Filed = NoChunk

OutOfPool ==
    /\ LosesItsWay
    /\ pc' = "undefined"
    /\ UNCHANGED <<headers, entries, alloc, seg, local, place, rec, ghost>>

\* Fault: the chunk is not marked as being in use.
TakeSegmentUnmarked ==
    /\ pc \in {"get_free_block", "grown"} /\ want = "log" /\ Filed # NoChunk
    /\ decision_id' = [decision_id EXCEPT !["log"] = @ + 1]
    /\ block_id' = [block_id EXCEPT ![Filed] = decision_id["log"] + 1]
    /\ log_vec' = Filed /\ temp_offset' = 0
    /\ pc' = "put_version"
    /\ UNCHANGED <<block_type, bitmap, entries, list, page_id, end_address,
                   local, place, rec, ghost>>

(* n_allocate for a segment: the id written to the header is one more than *)
(* the id the chunk is filed under.  The segment starts bitmap bytes into  *)
(* the chunk, which is its start unless the chunk is in use: then the      *)
(* entries to come lie across those that are there.                        *)
TakeSegment ==
    /\ pc \in {"get_free_block", "grown"} /\ want = "log" /\ Filed # NoChunk
    /\ decision_id' = [decision_id EXCEPT !["log"] = @ + 1]
    /\ block_type' = [block_type EXCEPT ![Filed] = "log"]
    /\ block_id' = [block_id EXCEPT ![Filed] = decision_id["log"] + 1]
    /\ bitmap' = [bitmap EXCEPT ![Filed] = InUse]
    /\ log_vec' = Filed /\ temp_offset' = 0
    /\ pc' = IF bitmap[Filed] = 0 THEN "put_version" ELSE "overlap"
    /\ UNCHANGED <<entries, list, page_id, end_address, local, place, rec, ghost>>

TakeLeafChunk ==
    /\ pc \in {"get_free_block", "grown"} /\ want = "node" /\ Filed # NoChunk
    /\ block_type' = [block_type EXCEPT ![Filed] = "node"]
    /\ bitmap' = [bitmap EXCEPT ![Filed] = @ + 1]
    /\ pc' = "idle"
    /\ UNCHANGED <<block_id, entries, alloc, seg, local, place, rec, ghost>>

(* n_allocate for a P_Leaf: the root, or a split by this thread.           *)
AllocLeaf ==
    /\ pc \in {"idle", "replay"}
    /\ LET c == IF decision_id["node"] \in Id
                THEN list["node"][decision_id["node"]] ELSE NoChunk
       IN  \/ /\ c = NoChunk
              /\ pc' = "undefined"
              /\ UNCHANGED <<bitmap, decision_id, want>>
           \/ /\ c # NoChunk /\ bitmap[c] < LeavesPerChunk
              /\ bitmap' = [bitmap EXCEPT ![c] = @ + 1]
              /\ UNCHANGED <<decision_id, pc, want>>
           \/ /\ c # NoChunk /\ bitmap[c] >= LeavesPerChunk
              /\ decision_id' = [decision_id EXCEPT !["node"] = @ + 1]
              /\ want' = "node" /\ pc' = "get_free_block"
              /\ UNCHANGED bitmap
    /\ UNCHANGED <<block_type, block_id, entries, list, page_id, end_address, seg,
                   key, len, place, rec, ghost>>

(* simply_remove clears what it takes for the start of the entry, 64 bytes *)
(* before the key, and n_free finds a chunk from that address.  The id in  *)
(* its header is not the id it is filed under.                             *)
Remove(k) ==
    /\ pc = "idle"
    /\ k \in acked
    /\ disturbed < MaxDisturb
    /\ disturbed' = disturbed + 1
    /\ acked' = acked \ {k}
    /\ LET c == place[k][1]
           s == place[k][2] - 2
           d == IF s >= Slots - TailSlots THEN c + 1 ELSE c
       IN  /\ entry_key' = [entry_key EXCEPT ![c] =
                               [t \in Slot |-> IF t = s THEN Blank ELSE @[t]]]
           /\ \/ /\ d \notin Chunk
                 /\ pc' = "undefined"
                 /\ UNCHANGED <<list, block_id, bitmap, page_id>>
              \/ /\ d \in Chunk
                 /\ list' = [list EXCEPT !["log"] =
                       [i \in Id |-> IF i = page_id["log"] THEN d
                                     ELSE IF i = block_id[d] THEN NoChunk ELSE @[i]]]
                 /\ block_id' = [block_id EXCEPT ![d] = page_id["log"]]
                 /\ bitmap' = [bitmap EXCEPT ![d] = 0]
                 /\ page_id' = [page_id EXCEPT !["log"] = @ + 1]
                 /\ UNCHANGED pc
    /\ UNCHANGED <<block_type, version, decision_id, end_address, seg, local,
                   place, rec, called>>

----------------------------------------------------------------------------
(* A crash, and Tree::recover for this log.                                *)

Crash ==
    /\ pc \notin {"undefined", "overlap", "overrun", "aborted"}
    /\ list' = [k \in Kind |-> [i \in Id |-> NoChunk]]
    /\ page_id' = [k \in Kind |-> 0]
    /\ decision_id' \in [Kind -> FreshId]
    /\ end_address' = NoChunk
    /\ log_vec' = NoChunk /\ temp_offset' = 0
    /\ want' = "log" /\ key' = Blank /\ len' = 0
    /\ place' = [k \in Key |-> <<0, 0>>]
    /\ reading' = NoChunk /\ pos' = 0 /\ unread' = {} /\ replayed' = {}
    /\ pc' = "scan"
    /\ UNCHANGED <<headers, entries, ghost>>

Highest(S) == CHOOSE x \in S : \A y \in S : y <= x
Used(k) == {c \in Chunk : IF k = "node"
                          THEN block_type[c] = "node" /\ bitmap[c] # 0
                          ELSE block_type[c] # "node" /\ bitmap[c] = InUse}

(* ignore_recover files the chunks that are in use, in the order of their  *)
(* addresses, under the ids in their headers.                              *)
IgnoreRecover ==
    /\ pc = "scan"
    /\ list' = [k \in Kind |-> [i \in Id |->
                  LET S == {c \in Used(k) : block_id[c] = i}
                  IN  IF S = {} THEN NoChunk ELSE Highest(S)]]
    /\ page_id' = [k \in Kind |-> Cardinality(Used(k))]
    /\ decision_id' = [k \in Kind |->
                         Highest({decision_id[k]} \cup {block_id[c] : c \in Used(k)})]
    /\ unread' = {c \in Chunk : \E i \in Id : list'["log"][i] = c}
    /\ pc' = "replay"
    /\ UNCHANGED <<headers, entries, end_address, seg, local, place, reading, pos,
                   replayed, ghost>>

\* Fault: a segment that was read stays on the list.
OpenSegmentAgain ==
    /\ pc = "replay" /\ reading = NoChunk
    /\ \E c \in unread : reading' = c
    /\ pos' = 0
    /\ UNCHANGED <<headers, entries, alloc, seg, pc, local, place, unread, replayed,
                   ghost>>

OpenSegment ==
    /\ pc = "replay" /\ reading = NoChunk
    /\ \E c \in unread : reading' = c /\ unread' = unread \ {c}
    /\ pos' = 0
    /\ UNCHANGED <<headers, entries, alloc, seg, pc, local, place, replayed, ghost>>

(* quick_insert for one entry, or the end of the segment.                  *)
ReplayEntry ==
    /\ pc = "replay" /\ reading # NoChunk
    /\ \/ /\ pos \notin Slot
          /\ pc' = "overrun" /\ UNCHANGED <<reading, pos, replayed>>
       \/ /\ pos \in Slot /\ version[reading][pos] = 0
          /\ reading' = NoChunk /\ pos' = 0 /\ UNCHANGED <<pc, replayed>>
       \/ /\ pos \in Slot /\ version[reading][pos] # 0
          /\ entry_key[reading][pos] \in replayed
          /\ pc' = "aborted" /\ UNCHANGED <<reading, pos, replayed>>
       \/ /\ pos \in Slot /\ version[reading][pos] # 0
          /\ entry_key[reading][pos] \notin replayed
          /\ replayed' = replayed \cup {entry_key[reading][pos]}
          /\ pos' = pos + 1 /\ UNCHANGED <<pc, reading>>
    /\ UNCHANGED <<headers, entries, alloc, seg, local, place, unread, ghost>>

FinishReplay ==
    /\ pc = "replay" /\ reading = NoChunk /\ unread = {}
    /\ pc' = "rebuilt"
    /\ UNCHANGED <<headers, entries, alloc, seg, local, place, rec, ghost>>

Halted == pc \in {"undefined", "overlap", "overrun", "aborted"}
Stopped == Halted /\ UNCHANGED vars

Next ==
    \/ \E k \in Key : Insert(k) \/ Update(k) \/ Remove(k)
    \/ Append \/ PutVersion \/ PutKey
    \/ GetMoreChunk \/ OutOfPool \/ TakeSegment \/ TakeLeafChunk \/ AllocLeaf
    \/ Crash \/ IgnoreRecover \/ OpenSegment \/ ReplayEntry \/ FinishReplay
    \/ Stopped

Spec == Init /\ [][Next]_vars

----------------------------------------------------------------------------
(* Properties.                                                             *)

Counts(c, s) == version[c][s] # 0
Records == {k \in Key \cup {Blank} : \E c \in Used("log"), s \in Slot :
                                   Counts(c, s) /\ entry_key[c][s] = k}

(* Once the log is recovered, the tree has every record that was appended  *)
(* before the crash, and no others but the one that the crash interrupted. *)
LogIsReplayed ==
    pc = "rebuilt" /\ disturbed = 0 => replayed \ {Blank} = acked

(* The loop over a segment has no bound that stops it at the segment's     *)
(* end: there must always be an entry whose version is 0 for it to meet,   *)
(* whatever was removed or updated.                                        *)
ReplayStaysInSegment == pc # "overrun"

(* A record that is in the log is not written to again, and its segment    *)
(* is not taken for another, as long as nothing was removed or updated.    *)
RecordsStay ==
    [][\A c \in Used("log"), s \in Slot :
          Counts(c, s) /\ entry_key[c][s] # Blank /\ disturbed' = 0 /\ pc' # "overlap" =>
             /\ c \in Used("log")'
             /\ block_id'[c] = block_id[c]
             /\ version'[c][s] = version[c][s]
             /\ entry_key'[c][s] = entry_key[c][s]]_vars

(* What DurableLog sees of it.                                             *)
Recovering ==
    \/ pc \in {"scan", "replay"}
    \/ pc = "get_free_block" /\ want = "node" /\ end_address = NoChunk
LogState ==
    IF disturbed # 0 THEN "void"
    ELSE CASE pc \in {"undefined", "overlap"} -> "stopped"
           [] pc \in {"overrun", "aborted"}   -> pc
           [] Recovering                     -> "reading"
           [] OTHER -> IF end_address = NoChunk THEN "recovered" ELSE "writing"
LogRecords == IF disturbed # 0 THEN {}
              ELSE Records \ (IF pc = "put_key" THEN {Blank} ELSE {})
LogRead == IF disturbed # 0 THEN {} ELSE replayed

(* One thread's log is what CrashRebuild takes it for: appends take effect *)
(* one by one, and after a crash every record of it is read once.          *)
Promised == INSTANCE DurableLog WITH
                state <- LogState, records <- LogRecords, read <- LogRead
ImplementsDurableLog == Promised!Spec

(* "size allocated": a segment is handed out only if nothing is in it.     *)
SegmentsStartEmpty == pc # "overlap"

(* "free one log chunk, just erase it and readd to map": the chunk to be   *)
(* taken next is filed, or the next ids to be given are its turn.          *)
NextIsFiled ==
    end_address # NoChunk /\ disturbed > 0 =>
       \/ list["log"][decision_id["log"]] # NoChunk
       \/ decision_id["log"] = page_id["log"]

----------------------------------------------------------------------------
(* The inductive invariant.                                                *)

PC == {"idle", "append", "put_version", "put_key", "get_free_block", "grown",
       "scan", "replay", "rebuilt", "undefined", "overlap", "overrun", "aborted"}

Calling == \/ pc \in {"append", "put_version", "put_key"}
           \/ pc \in {"get_free_block", "grown"} /\ want = "log"

TypeOK ==
    /\ block_type \in [Chunk -> Kind \cup {"none"}]
    /\ block_id \in [Chunk -> Nat] /\ bitmap \in [Chunk -> Nat]
    /\ version \in [Chunk -> [Slot -> {0, ValueLen}]]
    /\ entry_key \in [Chunk -> [Slot -> Key \cup {Blank}]]
    /\ list \in [Kind -> [Id -> Chunk \cup {NoChunk}]]
    /\ page_id \in [Kind -> Nat] /\ decision_id \in [Kind -> Nat]
    /\ end_address \in (0 .. PoolChunks) \cup {NoChunk}
    /\ log_vec \in Chunk \cup {NoChunk} /\ temp_offset \in 0 .. Slots - 1
    /\ pc \in PC /\ want \in Kind
    /\ key \in Key \cup {Blank} /\ len \in {0, ValueLen}
    /\ place \in [Key -> Chunk \X Slot]
    /\ reading \in Chunk \cup {NoChunk} /\ pos \in 0 .. Slots - 1
    /\ unread \subseteq Chunk /\ replayed \subseteq Key \cup {Blank}
    /\ called \subseteq Key /\ acked \subseteq called /\ disturbed \in Nat
    /\ Calling => key \in called

(* The last slot of a segment is never written, whatever is called: the    *)
(* loops of the recovery end there.                                        *)
TailInv ==
    /\ \A c \in Chunk : version[c][Slots - 1] = 0
    /\ pc \in {"put_version", "put_key"} => log_vec # NoChunk /\ temp_offset < Slots - 1
    /\ pc # "overrun"

(* What the persistent memory holds: the segments in use differ in their   *)
(* ids, a segment is filled from its start, a chunk not in use is blank,   *)
(* and every key that was appended has one entry.                          *)
MemoryInv ==
    /\ \A c, d \in Used("log") : block_id[c] = block_id[d] => c = d
    /\ \A c \in Used("log") : block_id[c] \in Id
    /\ \A c \in Chunk : \A s, t \in Slot : s < t /\ Counts(c, t) => Counts(c, s)
    /\ \A c \in Chunk : \A s \in Slot : Counts(c, s) => c \in Used("log")
    /\ \A c \in Chunk : \A s \in Slot : ~Counts(c, s) => entry_key[c][s] = Blank
    /\ \A c, d \in Chunk : \A s, t \in Slot :
          Counts(c, s) /\ Counts(d, t) /\ entry_key[c][s] = entry_key[d][t]
             => c = d /\ s = t
    /\ Records \ {Blank} = acked

(* Before a crash: ids below page_id file one chunk each, all carved.      *)
ListInv ==
    /\ \A k \in Kind : page_id[k] \in 0 .. end_address
    /\ \A k \in Kind : \A i \in Id : list[k][i] # NoChunk <=> i < page_id[k]
    /\ \A k \in Kind : \A i \in Id : list[k][i] # NoChunk => list[k][i] < end_address
    /\ \A k, m \in Kind : \A i, j \in Id :
          list[k][i] = list[m][j] /\ list[k][i] # NoChunk => k = m /\ i = j

(* The log chunks filed below decision_id are in use, and carry an id that *)
(* is one more; those from decision_id on are not.  The last is written.   *)
UseInv ==
    /\ decision_id["log"] <= page_id["log"]
    /\ \A i \in Id : list["log"][i] # NoChunk =>
          /\ block_type[list["log"][i]] = "log"
          /\ bitmap[list["log"][i]] = IF i < decision_id["log"] THEN InUse ELSE 0
          /\ i < decision_id["log"] => block_id[list["log"][i]] = i + 1
    /\ \A c \in Used("log") : \E i \in Id : list["log"][i] = c
    /\ decision_id["log"] = 0 => log_vec = NoChunk
    /\ decision_id["log"] # 0 => log_vec = list["log"][decision_id["log"] - 1]

WriteInv ==
    /\ \A c \in Chunk : \A s \in Slot : c = log_vec =>
          (Counts(c, s) <=> \/ s < temp_offset
                            \/ s = temp_offset /\ pc = "put_key")
    /\ \A c \in Chunk : \A s \in Slot : Counts(c, s) /\ entry_key[c][s] = Blank =>
          c = log_vec /\ s = temp_offset /\ pc = "put_key"
    /\ pc = "put_key" => entry_key[log_vec][temp_offset] = Blank

(* The call under way: its key is not in the log yet.                      *)
CallInv == Calling => key \in called \ acked /\ len = ValueLen

BeforeCrash ==
    /\ ListInv /\ UseInv /\ WriteInv /\ CallInv
    /\ replayed = {} /\ reading = NoChunk
    /\ pc \notin {"scan", "replay", "rebuilt"}

(* After one: what has been read back is every entry of the segments that  *)
(* are neither to be read nor being read, and the first pos entries of the *)
(* one being read.                                                         *)
ReadInv ==
    /\ unread \subseteq Used("log")
    /\ reading # NoChunk => /\ reading \in Used("log") \ unread
                            /\ \A s \in Slot : s < pos => Counts(reading, s)
    /\ \A r \in Key \cup {Blank} :
          r \in replayed <=>
             \E c \in Chunk : \E s \in Slot :
                /\ Counts(c, s) /\ entry_key[c][s] = r
                /\ c \notin unread
                /\ c = reading => s < pos

(* Every log chunk that is filed then is in use, and no node chunk is      *)
(* filed under the id that decision_id goes on to.                         *)
RefiledInv ==
    /\ \A i \in Id : list["log"][i] # NoChunk => list["log"][i] \in Used("log")
    /\ \A i \in Id : list["node"][i] # NoChunk =>
          \/ i < decision_id["node"]
          \/ i = decision_id["node"] /\ ~(pc = "get_free_block" /\ want = "node")

AfterCrash ==
    /\ pc \in {"scan", "replay", "rebuilt", "append", "get_free_block"}
    /\ log_vec = NoChunk
    /\ pc = "scan" => replayed = {} /\ reading = NoChunk
    /\ pc # "scan" => ReadInv /\ RefiledInv
    /\ pc = "rebuilt" => reading = NoChunk /\ unread = {}

NodesInv ==
    \A i \in Id : list["node"][i] # NoChunk => block_type[list["node"][i]] = "node"

Calm == disturbed = 0 /\ ~Halted
CalmInv ==
    /\ MemoryInv /\ NodesInv
    /\ end_address # NoChunk => BeforeCrash
    /\ end_address = NoChunk => AfterCrash

LogInv ==
    /\ TypeOK /\ TailInv
    /\ Calm => CalmInv
    /\ disturbed = 0 => pc # "aborted"
=============================================================================
